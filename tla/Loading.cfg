SPECIFICATION Spec
CONSTANTS
  N = 3
  Confs = {c1, c2}
  NoConf = NoConf
  Entries = {"a", "b", "c", "d"}
  Names = {"d", "e", "f"}
  Scripts <- MCScripts
  NoScript = NoScript
  MaxNum = 3
  MaxPath = 5
  Copied = 3
  Garbage = Garbage
  MaxDicts = 2
CHECK_DEADLOCK FALSE
INVARIANTS KnownEverywhere AllOrNothing DictsShared LocksLeft
