\* Nobody goes away, and the server's host sends to the first client.
CONSTANTS
  a1 = a1
  a2 = a2
  None = None
  Addr <- MCAddr
  PoolSize = 2
  Kinds = {"hello", "finished", "data", "heartbeat"}
  Silent <- NoClients
  Removable <- NoClients
  HostTraffic <- FirstHost
SPECIFICATION FairSpec
INVARIANTS
  LeasedPeersAreRouted
  AssignmentAgrees
PROPERTIES
  HandshakeEndsInAssignment
