\* One handshake, and a window that nothing falls out of.
CONSTANTS
  WINDOW_SIZE = 8
  Scenarios <- OneHandshake
SPECIFICATION Spec
INVARIANTS
  NoFreshDataRefused
CHECK_DEADLOCK FALSE
