SPECIFICATION FlowSpec
CONSTANTS
  Grids <- SmallGrids
  MaxPlaces = 6
INVARIANTS FlowSound AnswerIsMaximal
PROPERTY Terminates
CHECK_DEADLOCK FALSE
