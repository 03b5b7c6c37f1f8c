------------------------- MODULE MCMigrationAssessment -------------------------
(***************************************************************************)
(* Two migrations of one source: the first goes through a whole cycle and  *)
(* into a second one, reported on by the connector of the source and by    *)
(* one of its own; the other gets in its way.                              *)
(***************************************************************************)
EXTENDS MigrationAssessment

CONSTANTS m1, m2, s1, u1, u2, part, all, eks, planned

Config1(source, manual, scope, target) ==
  [source |-> source, manual |-> manual, scope |-> scope, target |-> target]

MCRequested == [m \in Migration |->
  IF m = m1 THEN {Config1(s1, TRUE, part, NoTarget), Config1(s1, FALSE, part, eks)}
            ELSE {Config1(s1, FALSE, part, planned)}]

MCCreator == [m \in Migration |-> u1]
MCInstalls == [o \in Origin |-> IF o = s1 THEN 2 ELSE IF o = m1 THEN 1 ELSE 0]
MCVersion == [m \in Migration |-> IF m = m1 THEN 10 ELSE 1]
=============================================================================
