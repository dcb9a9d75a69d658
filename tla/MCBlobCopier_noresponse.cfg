SPECIFICATION Spec
CONSTANTS
  d = d
  e = e
  s = s
  a = a
  b = b
  dstReg = dstReg
  srcReg = srcReg
  Digest = {d, e}
  Repo = {s, a, b}
  Registry <- RegistryOf
  Request <- Requests
  Stored <- AtStart
  Indexed = {a, b}
  Concurrency = 2
INVARIANTS
  ErrorsReturned
