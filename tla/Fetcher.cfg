SPECIFICATION FairSpec
CONSTANTS
  Low = 2
  RespLow = 2
  High = 4
  MaxSent = 7
  MaxPost = 1
CHECK_DEADLOCK FALSE
INVARIANTS ReleasedSafely CompleteIsWhole NothingLost BodyBounded
PROPERTIES NoCallAfterEnd EndIsTold
