SPECIFICATION FileFairSpec
CONSTANTS
  Size = 8
  Lengths = {1, 2, 3, 5}
  All = 30
  Unasked = TRUE
  MaxNeed = 12
CHECK_DEADLOCK FALSE
INVARIANTS ReadsContiguous CallsExact WakeupPending
PROPERTY CallReturns
