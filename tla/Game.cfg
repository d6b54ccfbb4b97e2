SPECIFICATION MCSpec
CONSTANTS
  Digits = {1, 8}
  OldWord = 500
  MaxKeys = 5
  MaxRounds = 2
  Speeds = {0, 29, 50, 65, 99}
  Angles = {0, 30, 45, 62, 80}
  Lines = {0, 6, 17}
  Columns = {0, 30}
INVARIANTS ThrownAsTyped HitsAreTrue
PROPERTIES StackBelowVectors ThrowsGoOn FliesToItsEnd
CHECK_DEADLOCK FALSE
