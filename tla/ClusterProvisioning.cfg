SPECIFICATION FairSpec
CONSTANTS
  Build = {1, 2, 3, 4}
  Group = {system, a, c}
  NoGroup = none
  Request = {a}
  System = system
  Operations = {"plan", "apply", "stop", "start", "delete", "migrate", "install"}
  MaxRollbacks = 1
INVARIANTS
  ReadyMatchesPlan
  AppliesCertifiedPlans
  NothingStuck
PROPERTIES
  ExecutionsSettle
CHECK_DEADLOCK FALSE
