SPECIFICATION ImportersSpec
CONSTANTS
  Ids <- ChunkIds
  Tenants = {t1, t2}
  Keys <- AllKeys
  Pages = {p1, p2}
  t1 = t1
  t2 = t2
  p1 = p1
  p2 = p2
  tenant = t1
  NoId = NoId
  NoPage = NoPage
  NoRecord = NoRecord
  NoDate = NoDate
  MinDate = 0
  MaxDate = 3
  MaxTrail = 100
  Submissions <- AllRecords
  RevisionsOf <- Histories
  Settings <- ImportSettings
  max_retries = 1
  MaxRuns = 3
  MaxChanges = 2
  Connectors = {c1, c2}
  Importers = {w1, w2}
  Offers <- SmallOffers
  uuids <- ThreeIds
  Question = Question
  NoSource = NoSource
  NoDocument = NoDocument
  asker = t1
  as_of = 2
  retrieval_limit = 2
  candidate_pool_multiplier = 1
SYMMETRY Sym
CHECK_DEADLOCK FALSE
INVARIANTS
  SyncTypeOK
  CheckpointIsBacked
  NothingExpiresInVain
  LivePagesStayTracked
  ImportedOnce
  ImportsAreComplete
  EligibleAreFound
