--------------------------- MODULE MCClusterRequests ---------------------------
(* An architect, and an engineer who is an architect too; every configuration is
   complete and NoRow's is never read, so that configurations are
   interchangeable.  One transaction on a cluster at a time: they all lock it
   first, and two of them never overlap. *)
EXTENDS ClusterRequests, TLC

CONSTANTS ann, bea

MCUser == {ann, bea}
MCEngineers == {bea}
MCArchitects == {ann, bea}
MCSymmetry == Permutations(Config) \cup Permutations(Cluster)
              \cup Permutations(ClusterCall) \cup Permutations(EnvironmentCall)

=============================================================================
