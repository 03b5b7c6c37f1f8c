SPECIFICATION FairSpec
CONSTANTS
  definition = definition
  image = image
  Target = {definition, image}
  Bound = {definition}
  HistoricalJob = {definition}
  Job = {1, 2}
  Caller = {screen, other}
  Screen = screen
  screen = screen
  other = other
  None = None
  HostLimit = 1
  BoundLimit = 2
  UnboundLimit = 2
  MaxFaults = 1
  MaxUploads = 2
  MaxInventories = 1
  MaxDeliveries = 1
INVARIANTS
  OneRecovery
  CollectedIsStored
  HostIsClean
PROPERTIES
  RecoveriesEnd
CHECK_DEADLOCK FALSE
