SPECIFICATION Spec
CONSTANTS
  Chars = {"0", "1", "2", "x", "cr", "lf"}
  Digits <- MCDigits
  MaxDigits = 2
  Messages <- MCMessages
  Modes = {TRUE, FALSE}
  Data = {"1", "cr", "lf"}
CHECK_DEADLOCK FALSE
INVARIANTS OutputRight VerdictRight
