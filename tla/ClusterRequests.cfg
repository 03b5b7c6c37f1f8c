SPECIFICATION Spec
CONSTANTS
  ann = ann
  bea = bea
  NoUser = NoUser
  User <- MCUser
  Engineers <- MCEngineers
  Architects <- MCArchitects
  Config = {small, large}
  Complete = {small, large}
  MaxVersion = 8
  Cluster = {c1}
  EnvironmentCall = {e1}
  ClusterCall = {k1}
SYMMETRY MCSymmetry
INVARIANTS
  PinsReviewed
  BaselineSound
  WithdrawnStaysWithdrawn
PROPERTIES
  FirstPlanEntitled
  SupersededFrozen
  ImplementsEnvironment
CHECK_DEADLOCK FALSE
