SPECIFICATION Spec
CONSTANTS
  NoThread = NoThread
  NoItem = NoItem
  Loader = v1
  Overhead = 2
  MaxSize = 2
  Threads = {v1, v2}
  Keys = {k1, k2, k3}
  Addrs = {a1, a2, a3, a4}
  Sizes = {1, 2}
  Quota = 3
  LoadOnly = TRUE
SYMMETRY Symmetry
INVARIANTS UsedIsSum ItemsOwned ReadsStored TableStable QuotaOvershoot
