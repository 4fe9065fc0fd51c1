SPECIFICATION RememberedSpec
CONSTANTS
  Ids = {a, b, c}
  Tenants = {t1, t2}
  Keys = {k1, k2, k3}
  Pages = {p1}
  Answers = {x}
  Workers = {w1}
  CallersShareIds = FALSE
  MaxCrashes = 1
  a = a
  b = b
  c = c
  t1 = t1
  t2 = t2
  k1 = k1
  k2 = k2
  k3 = k3
  p1 = p1
  r1 = r1
  NoId = NoId
  NoPage = NoPage
  NoRecord = NoRecord
  NoDate = NoDate
  NoAccess = NoAccess
  Invented = Invented
  MinDate = 0
  MaxDate = 2
  MaxTrail = 1
  retrieval_limit = 2
  allowed_classifications = {"public", "internal"}
  allowed_roles <- Roles
  classification <- Classes
  Submissions <- SomeSubmissions
  Questions <- SomeQuestions
CHECK_DEADLOCK FALSE
INVARIANTS
  AnswerTypeOK
  OutcomeIsTold
  WhatLeavesIsOnRecord
  AnswersAreVerified
PROPERTIES
  EvidenceIsTraceable
  TrailOutlivesReplacement
