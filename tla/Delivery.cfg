\* Two threads that record, two that wait, two clears.
CONSTANTS
  t1 = t1
  t2 = t2
  w1 = w1
  w2 = w2
  None = None
  Recorders = {t1, t2}
  Waiters = {w1, w2}
  MaxRecords = 3
  MaxClears = 2
SPECIFICATION FairSpec
INVARIANTS
  NothingInTimeIsMissed
PROPERTIES
  RecordIsFound
  DeadlineEndsTheCall
\* When the waiters have returned nobody has to record.
CHECK_DEADLOCK FALSE
