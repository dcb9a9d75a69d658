SPECIFICATION FairSpec
CONSTANTS
  p1 = p1
  p2 = p2
  p3 = p3
  a = a
  b = b
  Proc = {p1, p2, p3}
  Handlers = {p1, p2}
  Key = {a, b}
  MaxLocks = 5
INVARIANTS
  MutualExclusion
  NoLostWakeup
PROPERTIES
  ImplementsKeyedLock
  WaitersServed
