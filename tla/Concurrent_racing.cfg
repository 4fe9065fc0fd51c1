SPECIFICATION RacingSpec
CONSTANTS
  Ids = {a, b, c, d, e, f}
  Workers = {w1, w2}
  CallersShareIds = FALSE
  MaxCrashes = 1
  Tenants = {t1}
  Keys = {k1}
  Pages = {p1}
  t1 = t1
  t2 = t2
  k1 = k1
  p1 = p1
  a = a
  b = b
  c = c
  d = d
  e = e
  f = f
  NoId = NoId
  NoPage = NoPage
  NoRecord = NoRecord
  NoDate = NoDate
  MinDate = 0
  MaxDate = 4
  MaxTrail = 1
  Submissions <- AllSubmissions
SYMMETRY RacingSym
CHECK_DEADLOCK FALSE
INVARIANTS
  JobTypeOK
  ApprovalOnRecord
  DecisionsAudited
  ReplacementArrives
PROPERTIES
  ContentKept
