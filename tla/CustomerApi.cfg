SPECIFICATION Spec
CONSTANTS
  eng = eng
  dual = dual
  arch = arch
  c1 = c1
  c2 = c2
  n1 = n1
  n2 = n2
  aws = aws
  w1 = w1
  w2 = w2
  NoUser = NoUser
  User <- MCUser
  Roles <- MCRoles
  CanCreate <- MCCanCreate
  Customer <- MCCustomer
  Name <- MCName
  Provider <- MCProvider
  Requests <- MCRequests
  Worker = {w1, w2}
INVARIANTS
  OneOutcome
  RepliesBacked
  AuditChain
  ApprovedIndependently
  EveryReviewIndependent
  GovernedComplete
PROPERTIES
  ImplementsLifecycle
SYMMETRY Symmetry
