SPECIFICATION ShardedSpec
CONSTANTS
  Ids = {a, b, c, d}
  Workers = {w1, w2}
  a = a
  b = b
  c = c
  d = d
  w1 = w1
  w2 = w2
  RequestsOf <- Requests
  PagesOf <- ShardPages
  CallersShareIds = FALSE
  MaxCrashes = 0
  Tenants = {t1}
  Keys = {k1, k2}
  Pages = {p1}
  t1 = t1
  k1 = k1
  k2 = k2
  p1 = p1
  NoId = NoId
  NoPage = NoPage
  NoRecord = NoRecord
  NoDate = NoDate
  MinDate = 0
  MaxDate = 4
  MaxTrail = 1
  Submissions <- AllSubmissions
CHECK_DEADLOCK FALSE
PROPERTIES
  OperationsAreAtomic
  OperationsEnd
