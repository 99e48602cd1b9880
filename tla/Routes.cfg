\* Addresses of 2 bits, up to three networks and two host routes of two peers.
CONSTANTS
  Width = 2
  p1 = p1
  p2 = p2
  None = None
  Peers = {p1, p2}
  MaxRoutes = 3
  MaxHosts = 2
SPECIFICATION Spec
INVARIANTS
  LookupIsLongestMatch
PROPERTIES
  RemovalOnlyWithdraws
  RemovedIsUnreachable
  AddingOnlyRefines
