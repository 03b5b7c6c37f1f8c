SPECIFICATION FairSpec
CONSTANTS
  m1 = m1
  m2 = m2
  s1 = s1
  u1 = u1
  u2 = u2
  part = part
  all = all
  eks = eks
  planned = planned
  Migration = {m1, m2}
  Source = {s1}
  User = {u1, u2}
  Scope = {part}
  Target = {eks, planned}
  Planned = {planned}
  NoSource = NoSource
  NoTarget = NoTarget
  Creator <- MCCreator
  Requested <- MCRequested
  MaxInstalls <- MCInstalls
  MaxVersion <- MCVersion
  MaxDrift = 1
  MaxFaults = 1
INVARIANTS
  ReviewedAsAssessed
  DraftOnLatest
PROPERTIES
  RevokedReportNothing
  DiscoveriesProceed
CHECK_DEADLOCK FALSE
