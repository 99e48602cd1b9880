\* Time-outs only.
CONSTANTS
  a1 = a1
  a2 = a2
  None = None
  Addr <- MCAddr
  PoolSize = 2
  Kinds = {"hello", "finished", "data", "heartbeat"}
  Silent <- MCAddr
  Removable <- NoClients
  HostTraffic <- NoTraffic
SPECIFICATION Spec
SYMMETRY Symmetry
INVARIANTS
  LeasesAreReclaimable
