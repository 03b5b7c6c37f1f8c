SPECIFICATION FairSpec
CONSTANTS
  c1 = c1
  c2 = c2
  Event = {1, 2, 3}
  Customer <- MCCustomer
  CustomerOf <- MCCustomerOf
  Publisher = {p1, p2}
  BatchLimit = 2
  MaxFailures = 2
INVARIANTS
  TableTruthful
PROPERTIES
  ImplementsFeed
  EventuallySeen
CHECK_DEADLOCK FALSE
