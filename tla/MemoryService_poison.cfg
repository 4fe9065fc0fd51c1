SPECIFICATION Spec
CONSTANTS
  Ids = {a, b, c}
  Tenants = {t1, t2}
  Keys = {k1, k2}
  Pages = {p1}
  t1 = t1
  t2 = t2
  k1 = k1
  k2 = k2
  p1 = p1
  NoId = NoId
  NoPage = NoPage
  NoRecord = NoRecord
  NoDate = NoDate
  MinDate = 0
  MaxDate = 4
  MaxTrail = 1
  Submissions <- AllSubmissions
SYMMETRY Sym
CHECK_DEADLOCK FALSE
INVARIANTS
  EveryRowLoads

