SPECIFICATION FairSpec
CONSTANTS
  Blocks = {1, 2}
  MaxBody = 3
  Results = {0, 1, 3}
  MaxResult = 3
  MaxOps = 2
  Endless = 1000
  Promises = {1}
CHECK_DEADLOCK FALSE
INVARIANTS BodyWhole OutputSized
PROPERTY BodyEnds
