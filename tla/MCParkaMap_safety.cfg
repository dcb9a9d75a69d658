SPECIFICATION Spec
CONSTANTS
  k1 = k1
  k2 = k2
  k3 = k3
  c1 = c1
  c2 = c2
  Key = {k1, k2, k3}
  Client = {c1, c2}
  Batches <- Three
  Limits <- ZeroOrTwo
  Outcomes = {"value", "goexit"}
  InitialLimit <- OneOrTwo
  MaxTasks = 2
  MaxCalls = 3
SYMMETRY ClientSymmetry
INVARIANTS
  TypeOK
  GrantAccounting
  NoLostReattacher
  WorkConserving
  EveryTaskReachable
  NoOrphanedTask
  ResultsSettled
  EmptiedArmed
  StatsConsistent
PROPERTIES
  LimitRespected
  NoOvertaking
  QueueOrder
  WaitMeansEmpty
