SPECIFICATION ApiProcessSpec
CONSTANTS
  Clients = {p1, p2}
  limit = 2
  window_seconds = 2
  TicksPerSecond = 2
  MaxTime = 8
  Calls = {c1, c2, c3}
  IdempotencyKeys = {k1, k2}
  Fingerprints = {f1, f2}
  NoRow = NoRow
  NoResponse = NoResponse
  TTL = 1
  MaxClock = 2
  MaxCrashes = 1
  Requests = {r1, r2}
  MaxDepth = 2
  max_spans = 2
  Cap = 3
  Trimmed = 2
  Durations = {1, 2, 3}
  Percents = {0, 25, 50, 95, 100}
  MaxIds = 5
  MaxQueries = 5
  Environments <- SomeEnvironments
  MaxChats = 2
  c1 = c1
  k1 = k1
  k2 = k2
  f1 = f1
  f2 = f2
SYMMETRY Sym
CHECK_DEADLOCK FALSE
INVARIANTS
  LimiterTypeOK
  AtMostLimitPerWindow
  RetryAfterSuffices
  RefusedWithCause
  IdempotencyTypeOK
  OneWritePerTtl
  ReplayIsFaithful
  NoKeyIsStuck
  NoOrphans
  SnapshotIsRecent
  GivesUpWithCause
