------------------------- MODULE MCClusterProvisioning -------------------------
(***************************************************************************)
(* ClusterProvisioning from the first plan (Spec), and from an active      *)
(* cluster whose earlier builds are over and forgotten (ActiveSpec), so    *)
(* that the builds of an instance go to node groups.                       *)
(***************************************************************************)
EXTENDS ClusterProvisioning

ActiveInit ==
  /\ builds = [b \in Build |-> UnusedBuild]
  /\ infra = [exists |-> TRUE, groups |-> {System}]
  /\ cluster = [status |-> "ACTIVE", execution |-> NoBuild, plan |-> NoPlan,
                certified |-> "PASSED", config |-> InitialConfig, migrating |-> FALSE]
  /\ request = [r \in Request |-> NewRequest]
  /\ rollbacks = 0

ActiveSpec == ActiveInit /\ [][Next]_vars

=============================================================================
