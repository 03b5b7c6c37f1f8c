---------------------------- MODULE TerraformRunner ----------------------------
(***************************************************************************)
(* The CodeBuild executions of one cluster and what they do to its EKS     *)
(* node groups (cluster_management/provisioning.py, provisioning/runner).  *)
(*                                                                         *)
(* A build is named by the order of StartBuild.  Its Terraform work is one *)
(* step, because the state lock lets one Terraform command run at a time;  *)
(* a command that fails half way, or a build that is killed, leaves a part *)
(* of its effect.  A plan artefact is fresh until the state it was made    *)
(* from changes: Terraform refuses to apply it afterwards.                 *)
(***************************************************************************)
EXTENDS Naturals, FiniteSets

CONSTANTS Build,      \* names of builds, in the order they start
          Group,      \* names of node groups
          NoGroup     \* no node group recorded

ASSUME RunnerAssumption ==
  /\ Build \subseteq Nat \ {0}
  /\ NoGroup \notin Group

VARIABLES builds,     \* [Build -> the execution]
          infra       \* what exists in the customer's account

runnerVars == <<builds, infra>>

NoBuild == 0
Mode == {"plan", "apply", "stop", "start", "delete"}
Certification == {"NONE", "PASSED", "FAILED"}

\* The part of the cluster configuration a build receives: the node groups
\* Terraform manages, the system group adopted from outside Terraform, and the
\* legacy group of a recorded system migration.
Config == [managed: SUBSET Group, adopted: SUBSET Group, legacy: Group \cup {NoGroup}]

\* The recorded plan: the build whose artefact prefix is the plan key, and the
\* build whose digest is recorded for it.
Artefact == [key: Build \cup {NoBuild}, sha: Build \cup {NoBuild}]

BuildRow == [state: {"unused", "running", "succeeded", "failed"}, mode: Mode, config: Config,
             artefact: Artefact, certified: Certification, fresh: BOOLEAN]

RunnerTypeOK ==
  /\ builds \in [Build -> BuildRow]
  /\ infra \in [exists: BOOLEAN, groups: SUBSET Group]

NewBuild(mode, config, artefact) ==
  [state |-> "running", mode |-> mode, config |-> config, artefact |-> artefact,
   certified |-> "NONE", fresh |-> FALSE]

\* The build StartBuild names next.
IsNext(b) == /\ builds[b].state = "unused"
             /\ \A a \in Build : a < b => builds[a].state # "unused"

Running(b, modes) == builds[b].state = "running" /\ builds[b].mode \in modes

-----------------------------------------------------------------------------

\* What the plan of b removes.
Destroyed(b) == infra.groups \ builds[b].config.managed

\* security_scan: no deletion, or exactly the legacy group of the migration.
ScanPasses(b) ==
  \/ Destroyed(b) = {}
  \/ builds[b].config.legacy # NoGroup /\ Destroyed(b) = {builds[b].config.legacy}

\* The other findings (endpoint access, protected system group) may fail any
\* plan.  Two node groups of one name are an error (duplicate key of the map).
PlanSucceeds(b) ==
  /\ Running(b, {"plan"})
  /\ builds[b].config.managed \cap builds[b].config.adopted = {}
  /\ \E verdict \in {"PASSED", "FAILED"} :
       /\ verdict = "PASSED" => ScanPasses(b)
       /\ builds' = [builds EXCEPT ![b].state = "succeeded", ![b].certified = verdict,
                                   ![b].fresh = TRUE]
  /\ UNCHANGED infra

\* b ends, and every plan made from another state is stale.
Ended(b, state) ==
  [c \in Build |-> [builds[c] EXCEPT !.state = IF c = b THEN state ELSE @,
                                     !.fresh = @ /\ infra' = infra]]

\* Mutant: a plan of an earlier state can be applied.
Applicable_Stale(b) ==
  LET plan == builds[b].artefact
  IN  plan.key # NoBuild /\ plan.sha = plan.key /\ builds[plan.key].state = "succeeded"

\* An approved artefact, its digest, and a plan of the present state.
Applicable(b) ==
  LET plan == builds[b].artefact
  IN  plan.key # NoBuild /\ plan.sha = plan.key /\ builds[plan.key].fresh

Planned(b) == builds[builds[b].artefact.key].config.managed

ApplySucceeds(b) ==
  /\ Running(b, {"apply"}) /\ Applicable(b)
  /\ infra' = [exists |-> TRUE, groups |-> Planned(b)]
  /\ builds' = Ended(b, "succeeded")

\* The apply, or the upload of its result, fails: any part of it is done.
ApplyBreaks(b) ==
  /\ Running(b, {"apply"}) /\ Applicable(b)
  /\ \E exists \in BOOLEAN, groups \in SUBSET (infra.groups \cup Planned(b)) :
       /\ infra.groups \cap Planned(b) \subseteq groups
       /\ infra.exists \/ groups # {} => exists
       /\ infra' = [exists |-> exists, groups |-> groups]
  /\ builds' = Ended(b, "failed")

\* Stop and start rescale every node group of the configuration through EKS.
ScaleSucceeds(b) ==
  /\ Running(b, {"stop", "start"})
  /\ infra.exists
  /\ builds[b].config.managed \subseteq infra.groups
  /\ builds' = [builds EXCEPT ![b].state = "succeeded"]
  /\ UNCHANGED infra

DestroySucceeds(b) ==
  /\ Running(b, {"delete"})
  /\ infra' = [exists |-> FALSE, groups |-> {}]
  /\ builds' = Ended(b, "succeeded")

DestroyBreaks(b) ==
  /\ Running(b, {"delete"})
  /\ \E exists \in BOOLEAN, groups \in SUBSET infra.groups :
       /\ exists => infra.exists
       /\ groups # {} => exists
       /\ infra' = [exists |-> exists, groups |-> groups]
  /\ builds' = Ended(b, "failed")

\* Mutant: a build waits for ever where Terraform refuses its plan.
Fails_NoTimeLimit(b) ==
  /\ Running(b, Mode)
  /\ builds[b].mode = "apply" => Applicable(b)
  /\ builds' = [builds EXCEPT ![b].state = "failed"]
  /\ UNCHANGED infra

\* Preflight, init, validation, the lock, a hash that does not match, a time
\* out: the build ends having changed nothing.
Fails(b) ==
  /\ Running(b, Mode)
  /\ builds' = [builds EXCEPT ![b].state = "failed"]
  /\ UNCHANGED infra

RunnerNext(b) ==
  \/ PlanSucceeds(b) \/ ApplySucceeds(b) \/ ApplyBreaks(b) \/ ScaleSucceeds(b)
  \/ DestroySucceeds(b) \/ DestroyBreaks(b) \/ Fails(b)

=============================================================================
