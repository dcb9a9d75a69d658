SPECIFICATION SpecAll
CONSTANTS
  h1 = h1
  h2 = h2
  h3 = h3
  blob = blob
  caller = caller
  Key = {h1, h2, h3}
  Client = {caller}
  Batches <- All
  Limits <- LoweredTo
  Outcomes = {"value"}
  InitialLimit <- TwoAtATime
  MaxTasks = 1
  MaxCalls = 2
  MutexKey = {blob}
  MaxLocks = 3
PROPERTIES
  MutexAsSpecified
