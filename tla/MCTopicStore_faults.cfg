\* Three keys and room for one lock: the cache is at its limit.
SPECIFICATION Spec
CONSTANTS
  p1 = p1
  p2 = p2
  p3 = p3
  t1 = t1
  t2 = t2
  f1 = f1
  f2 = f2
  s1 = s1
  s2 = s2
  list = list
  ListKey = list
  NoProc = NoProc
  NoTopic = NoTopic
  Proc <- TwoTasks
  Topic = {t1, t2}
  File = {f1, f2}
  FileOf <- FileOfTopic
  Layouts <- AllLayouts
  Store = {s1}
  StoreOf <- OneStore
  Whitelist <- AppendDeleteSearch
  Segment <- SegmentMC
  Origin <- OriginMC
  SafeName <- SafeNameMC
  UserIds <- UserIdsMC
  DefaultUser = default_user
  Unknown = unknown
  Summarizer = FALSE
  Faults <- AllFaults
  MaxLocks = 1
  Key <- LockKeys
  Generation = {1, 2}
INVARIANT CacheBounded
PROPERTIES OthersGoByReadErrorOnly EveryCallReturns
