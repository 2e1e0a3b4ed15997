SPECIFICATION MultiFairSpec
CONSTANTS
  Calls = {c1, c2}
  MaxItems = 3
  NoCall = NoCall
CHECK_DEADLOCK FALSE
INVARIANT NoStrayClient
PROPERTIES ResumedWithAll CallResumes
