\* Two clients compete for one address and time out.
CONSTANTS
  a1 = a1
  a2 = a2
  None = None
  Addr <- MCAddr
  PoolSize = 1
  Kinds = {"hello", "finished", "data", "heartbeat"}
  Silent <- MCAddr
  Removable <- NoClients
  HostTraffic <- NoTraffic
SPECIFICATION FairSpec
INVARIANTS
  CleanupComplete
PROPERTIES
  SilenceEndsInRemoval
  ImplementsLeases
