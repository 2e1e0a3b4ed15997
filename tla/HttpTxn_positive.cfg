SPECIFICATION Spec
CONSTANTS
  t1 = t1  t2 = t2
  h1 = h1
  Txns = {t1, t2}
  NoTxn = NoTxn
  NVM = 1
  Hooks = {h1}
  Results = {"ok", "pos"}
  Strays = {}
  Positive = {t1}
  MaxHooks = 1
  MaxCallouts = 2
  MaxOps = 1
CHECK_DEADLOCK FALSE
INVARIANT AlwaysWaitsForAsync
