SPECIFICATION Spec
CONSTANTS
  ann = ann
  bea = bea
  NoUser = NoUser
  User <- MCUser
  Engineers <- MCEngineers
  Architects <- MCArchitects
  Config = {small}
  Complete = {small}
  MaxVersion = 6
  Cluster = {c1}
  EnvironmentCall = {e1}
  ClusterCall = {k1}
PROPERTIES
  AppliesRecheck
CHECK_DEADLOCK FALSE
