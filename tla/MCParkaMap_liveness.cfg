SPECIFICATION FairSpec
CONSTANTS
  k1 = k1
  k2 = k2
  k3 = k3
  c1 = c1
  c2 = c2
  Key = {k1, k2}
  Client = {c1, c2}
  Batches <- Twice
  Limits <- ZeroOrTwo
  Outcomes = {"value"}
  InitialLimit <- JustOne
  MaxTasks = 2
  MaxCalls = 3
PROPERTIES
  CallsReturn
  ReattachersResume
  ImplementsKeyedWork
