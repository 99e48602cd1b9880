\* Two clients shake hands, time out and are disconnected, over one address.
CONSTANTS
  a1 = a1
  a2 = a2
  None = None
  Addr <- MCAddr
  PoolSize = 1
  Kinds = {"hello", "finished"}
  Silent <- MCAddr
  Removable <- MCAddr
  HostTraffic <- NoTraffic
SPECIFICATION Spec
SYMMETRY Symmetry
INVARIANTS
  TypeOK
  NoDoubleLease
  PoolAccounting
