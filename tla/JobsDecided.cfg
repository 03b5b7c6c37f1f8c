SPECIFICATION FairSpec
CONSTANTS
  Job = {j1}
  j1 = j1
  j2 = j2
  w1 = w1
  w2 = w2
  s1 = s1
  Workspace = {s1}
  WorkspaceOf <- MCWorkspaceOf
  Worker = {w1, w2}
  KindOf <- MCKindOf
  AsksFor <- MCAsksFor
  Requester = requester
  NoOne = noone
  LeaseTime = 2
  MaxRequests = 2
PROPERTIES
  JobsDecided
