SPECIFICATION FairSpec
CONSTANTS
  d = d
  e = e
  s = s
  a = a
  b = b
  dstReg = dstReg
  srcReg = srcReg
  Digest = {d, e}
  Repo = {s, a, b}
  Registry <- RegistryOf
  Request <- TwoRequests
  Stored <- AtStart
  Indexed = {a, b}
  Concurrency = 1
PROPERTIES
  CopyAllReturns
