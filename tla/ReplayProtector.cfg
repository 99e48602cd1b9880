\* A window of 3 and 7 numbers: a number can be inside the window, at its
\* edge, and one and several places past it.
CONSTANTS
  WINDOW_SIZE = 3
  MaxSeq = 6
SPECIFICATION Spec
INVARIANTS
  TypeOK
  AtMostOnce
  NoFalseRefusal
PROPERTIES
  ImplementsAntiReplay
