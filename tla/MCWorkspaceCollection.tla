------------------------- MODULE MCWorkspaceCollection -------------------------
(* Instances of WorkspaceCollection for TLC. *)
EXTENDS WorkspaceCollection, TLC

CONSTANTS j1, j2, w1, w2, s1

\* The artifacts are images of one workspace: their workers end their jobs at the
\* same time, and renew their leases as well.
MCWorkspaceOf == [j \in Job |-> s1]
MCKindOf == [j \in Job |-> "IMAGE"]
MCAsksFor == [w \in Worker |-> "IMAGE"]

MCSymmetry == Permutations(Job) \cup Permutations(Worker)
================================================================================
