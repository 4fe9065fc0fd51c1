SPECIFICATION Spec
CONSTANTS
  Ids = {a, b}
  Workers = {w1, w2}
  CallersShareIds = FALSE
  MaxCrashes = 0
  Tenants = {t1}
  Keys = {k1}
  Pages = {p1}
  t1 = t1
  t2 = t2
  k1 = k1
  p1 = p1
  NoId = NoId
  NoPage = NoPage
  NoRecord = NoRecord
  NoDate = NoDate
  MinDate = 0
  MaxDate = 4
  MaxTrail = 1
  Submissions <- RacingSubmissions
SYMMETRY Sym
CHECK_DEADLOCK FALSE
INVARIANTS
  NoActiveOverlap
