--------------------------- MODULE MCArtifactRecovery ---------------------------
(***************************************************************************)
(* A definition of a workspace that a review may exclude and a target      *)
(* outside workspaces; two requests at a time, one of them the screen's.   *)
(***************************************************************************)
EXTENDS ArtifactRecovery

CONSTANTS definition, image, screen, other
=============================================================================
