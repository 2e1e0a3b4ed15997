SPECIFICATION Spec
CONSTANTS
  v1 = v1  v2 = v2  v3 = v3
  VMs = {v1, v2, v3}
  NoVM = NoVM
  Chars = {"a", "b", "i", "("}
  Requests <- MCRequests
  Invalid <- MCInvalid
  KeyMax = 2
  Capacity = 1
  MaxMatches = 2
CHECK_DEADLOCK FALSE
SYMMETRY Symmetry
INVARIANTS OwnedOnce RightRegex CapacityOvershoot
