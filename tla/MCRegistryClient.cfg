SPECIFICATION FairSpec
CONSTANTS
  p1 = p1
  p2 = p2
  p3 = p3
  pull = pull
  push = push
  Proc = {p1, p2, p3}
  Impatient = {p1}
  ClientKey = {pull, push}
  Silent = {push}
  MaxTransports = 2
  MaxRedirects = 1
  MaxRequests = 4
INVARIANTS
  ExclusiveRoundTrips
  NeverPanics
PROPERTIES
  RequestsEnd
