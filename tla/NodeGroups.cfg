SPECIFICATION ActiveSpec
CONSTANTS
  Build = {1, 2, 3, 4}
  Group = {system, a, b, c}
  NoGroup = none
  Request = {a, b}
  System = system
  Operations = {"plan", "apply", "migrate"}
  MaxRollbacks = 0
INVARIANTS
  ActiveWasApplied
PROPERTIES
  OnlyLegacyRetired
  ConfigurationKept
CHECK_DEADLOCK FALSE
