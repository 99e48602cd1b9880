\* Any three faults, an entry dropped once, a system that works or does not, a stop at any time.
CONSTANTS
  None = None
  WINDOW_SIZE = 2
  FaultKinds = {"lose", "repeat", "swap"}
  MaxFaults = 3
  MaxForgets = 1
  PoolMayBeEmpty = TRUE
  Routes = {r1, r2}
  r1 = r1
  r2 = r2
SPECIFICATION FairClientSpec
INVARIANTS
  ClientTypeOK
  ServerKeyIsConfirmed
  AssignmentAppliedOnce
  NoSpuriousFailure
  KeysAgreeAtRest
  
  DeviceLostOnlyByReassignment
  CleanupLeavesOnlyLateRoutes
  StopTakesEverythingDown
PROPERTIES
  HandshakeCompletes
\* Once both sides are done nothing is sent any more.
CHECK_DEADLOCK FALSE
