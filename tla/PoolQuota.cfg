SPECIFICATION Spec
CONSTANTS
  Calls = {c1, c2}
  Callers = {p1, p2}
  Anonymous = anon
  Keys = {}
  NoKey = nokey
  MaxActive = 1
  NoCall = nobody
INVARIANT PoolQuota
CHECK_DEADLOCK FALSE
