\* Two keys, time-outs, two client counters, and three threads on one counter.
CONSTANTS
  WINDOW_SIZE = 2
  Scenarios <- AllScenarios
SPECIFICATION Spec
INVARIANTS
  TypeOK
  
  
  UpRefusedWithCause
  
