\* Three keys, room for two locks: the cache is at its limit.
SPECIFICATION LocksSpec
CONSTANTS
  Key = {k1, k2, k3}
  Proc = {p1, p2, p3}
  MaxLocks = 2
  Generation = {1, 2, 3}
  NoProc = NoProc
INVARIANT MutualExclusion
