SPECIFICATION TreeSpec
CONSTANTS
  t1 = t1
  t2 = t2
  Threads = {t1, t2}
  Names = {1, 2, 3, 4}
  Inumbers = {0}
  Cells = {1, 2, 3, 4}
  Bounds <- BothBounds
INVARIANT TreeSound
PROPERTIES ImplementsDirectory CallsEnd
CHECK_DEADLOCK FALSE
