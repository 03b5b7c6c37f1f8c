SPECIFICATION FairBootstrapSpec
CONSTANTS
  Build = {1, 2, 3}
  Group = {system}
  NoGroup = none
  Request = {}
  System = system
  Operations = {"apply", "delete", "install"}
  MaxRollbacks = 0
  Connector = {1, 2}
  MaxFaults = 1
PROPERTIES
  ReadyByPresent
  FailsByOwnInstaller
  BootstrapsEnd
CHECK_DEADLOCK FALSE
