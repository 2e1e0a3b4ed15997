SPECIFICATION FileSpec
CONSTANTS
  Size = 4
  Lengths = {1, 2, 3}
  All = 100
  Unasked = TRUE
  MaxNeed = 6
CHECK_DEADLOCK FALSE
INVARIANT EofReadsAll
