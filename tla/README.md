# TARCS-Mem in TLA+

TARCS-Mem is a governed memory for enterprise assistants: facts are admitted, reviewed, replaced
and expired under rules of authority and business time, and questions are answered only from facts
that are active (or were, on the business date asked about), that the asker may read, and whose
history is on record. This directory holds TLA+ models of it, the TLC configurations that check
them, and proofs that TLAPS checks. Paths below are relative to `src/src/tarcsmem/`.

1. [The system](#1-the-system)
2. [The modules](#2-the-modules)
3. [What the runs check](#3-what-the-runs-check)
4. [What is proved](#4-what-is-proved)
5. [Abstractions](#5-abstractions)
6. [What is not modelled](#6-what-is-not-modelled)
7. [Plan](#7-plan)
8. [Running it](#8-running-it)

## 1. The system

| Component | State it keeps | Operations | What makes it correct |
|---|---|---|---|
| Governance (`governance.py`) | none | admit a candidate, decide its conflicts | only stronger or later official versions replace; everything doubtful waits for a reviewer |
| Models (`models.py`) | none | build a record, `is_valid_at` | a window does not end before it begins |
| Store (`store.py`) | SQLite: memories, audit events, idempotency keys | `save`, `get`, `by_conflict_key`, `list_all`, `append_event`, `audit_trail`, `idempotency_begin/complete/abandon` | each call is atomic (one lock, one commit); nothing spans two calls |
| Memory service (`service.py`) | none of its own | `ingest`, `review`, `query`, `query_records`, `get_answer_audit_trail` | active versions of a key do not overlap; decisions are final and audited; replaced versions stay answerable |
| Retrieval (`retrieval.py`) | none | access filter, hard filter, ranking, selection | nothing ineligible is used; one version of a key |
| Chat agent (`agent.py`) | a vector index (external) | import files, public data, filings and the demo; find candidates, egress gate, generate, verify citations | nothing is imported twice or left out; what may be used is found although the index lags; no evidence leaves that may not; no unverified answer is told; the trail says what happened |
| Model adapters (`adapters.py`) | a vector collection created on first use; none in the clients | ensure, upsert, search; configure a client, `chat_with_metrics` with retries | a request is repeated only after a failure that may pass, and no more often than configured |
| MCP server (`mcp_server.py`) | none | propose a memory, search | a proposal is a user claim like any other |
| Observability (`observability.py`) | context variables, span buffer, metric buckets | `span`, `increment`, `observe`, `snapshot` | a kept span finds its parent; percentiles are of the latest observations |
| Answer audit trail (`service.py`, `audit_trail.py`) | audit events under answer ids | read a trail under today's rows and access | reports the outcome that was told; disappears only for a reason |
| HTTP API (`api.py`) | rate limiter deques, the chat agent | routes, idempotent handling, rate limiting | a retry is answered and not repeated; no client exceeds its limit |
| Confluence connector (`confluence.py`) | a checkpoint file | list, ingest changed pages, expire replaced and missing ones, write the checkpoint | what the checkpoint claims is in the store, after any failure |
| Security gate (`security.py`) | none | let a candidate pass, redact it, or block it | a blocked candidate leaves events and no row |
| UI, console, CLI, framework integrations, datasets, evaluation | see section 6 | | |

**How they interact.** Everything meets in the store. The API runs its synchronous handlers on a
pool of threads, so several `ingest`, `review` and `query` calls are under way at once on one
`TARCSMemoryService`. Each is a *sequence* of store calls; the store's `RLock` makes every call
atomic and commits it, and nothing holds from one call to the next. The Confluence connector is a
separate program on the same database, with a second store object and its own checkpoint. The chat
agent calls the service, puts the answer to a model, and writes further events to the trail the
service began. Storing a row and putting it into the vector index are two calls on two systems, and
the API, the user interface, the connector and the MCP server do one, the other, or both. The rate
limiter is the exception: it runs in the server's event loop, so its calls do not overlap.

**What is hard.** Two operations on one conflict key that both read before either writes; a process
that stops, or a call that raises, between `save` and `append_event`; rows that were read before
they changed and are saved back whole; rows that a later operation makes unreadable for everybody; a
retry that finds its key expired, reserved anew or given back; a synchronisation that stops halfway
and must neither repeat nor forget, or two of them on one checkpoint file; a row that is stored and
not indexed, or indexed and no longer usable; two imports that both look before either stores; spans
of several requests that end in one bounded buffer; an answer whose outcome changes from one phase
to the next, and whose evidence changes after it. `PROJECT.json` lists these hazards line by line,
each with the properties that would catch it going wrong, or the reason why none does.

## 2. The modules

```
Governance ── MemoryStore ──┬── MemoryService ──┬── ConfluenceSync ──┬ MCImporters
  (operators)   (tables)    │    (indivisible)  └── AgentIngestion ──┘
                            │         ▲
                            │         │ implements (disjoint shards)
                            └── ConcurrentService ──┬── ShardedService
                                 (store calls)      └── Answering

RateLimiter, Idempotency, Observability, ModelClient ── MCApiProcess

proofs: MemoryStore_proofs ──┬── MemoryService_proofs ──┬── ConfluenceSync_proofs
                             │                          └── AgentIngestion_proofs
                             └── ConcurrentService_proofs ──┬── ShardedService_proofs
                                                            └── Answering_proofs
        ApiProcess_proofs (the limiter, the keys, the spans and metrics, the model client)
```

An `MC` module gives each its small instance. Definitions under the comment "Wrong on purpose" are
plausible bugs; nothing uses them but `PROJECT.json`, which names for every checked property a
definition of the model and the wrong form of it that breaks the property.

| Module | Code | State and actions |
|---|---|---|
| `Governance` | `governance.py`, parts of `models.py`, `retrieval.py` | `AdmissionStatus` is `MemoryAdmission.decide`; `YieldsTo` and `ResolvedStatus` are `ConflictResolver.decide`; `Closed` is what happens to a replaced version; `EligibleAt` is `_hard_filter` on status and time. |
| `MemoryStore` | `store.py` and the reads shared by `ingest` and `review` | `memories` and `audit_events`. `KeyLoads` says that `by_conflict_key` does not raise; `CanApprove` is all that approval demands. |
| `MemoryService` | `ingest`, `review`, `_expire_records` | One action for each way an operation can end: `IngestBlocked`, `IngestFails`, `Ingest`, `Reject`, `Approve`, `ExpireReplaced`, `ExpireMissing`. Each takes every save and event of the operation in one step. |
| `ConcurrentService` | the same, call by call | `job[w]` is what worker `w` is doing: the next call, the copies it has read, the versions still to rewrite. One action per store call, in the code's order (`ingest` closes old versions before it saves its own; `review` saves after closing and logs `reviewed` before `status_changed`). `Missing` are the rows of all the pages that one listing no longer finds. `Crash` cuts an operation short anywhere. Two history variables: `halfway` has the records whose ingest raised of its own accord after it had closed a version, `unlogged` those whose approval was cut short between the save and its review event. |
| `ShardedService` | the same | Workers on disjoint ids, keys and pages. `settled_*` hold what finished operations have written; under that mapping it implements `MemoryService!Spec`, which is checked and proved. |
| `Idempotency` | `idempotency_response`, `idempotency_*` | The table; for each call its position, the time it read *before* the lock, and what it was told. `Begin`, `Operate`, `OperateRaises`, `Abandon`, `Complete`; each of the three table calls may itself raise (`BeginRaises`, `AbandonRaises`, `CompleteRaises`), which nothing catches (`api.py:191`, `212`, `214`); `ClockTicks` and `Restart` go on around them. `outlived` is a history variable: another call reserved the key while this one was served. |
| `RateLimiter` | `SlidingWindowRateLimiter` | A deque of times per client; `Allow` is the whole of `allow`, `TimePasses` the clock. `allowed` and `refused` are history variables. |
| `ConfluenceSync` | `ConfluenceConnector.sync` | The space and its visibility, the checkpoint and its `.part` file, and what each connector is doing (`sync`): reading the checkpoint, listing with retries (a listing may deliver a page twice, and miss one that stays visible), one step per chunk, expiry per page, missing pages, writing the file, replacing the checkpoint. `cut`, `confirmed` and `contested` are history variables: pages listed by runs that stopped early, expired as missing, or listed beside another run. It uses the `Ingest` and `ExpireRows` of `MemoryService`; `Review`, `Edit` and `Toggle` go on around it. |
| `AgentIngestion` | the imports of `agent.py`, `POST /v1/memories`, `propose_memory`, `get_chat_agent`, `_candidate_records`, `QdrantVectorStore` | What each thread is doing (`task`), the index (`collection`, `points`), whether the API has built its agent, and where each row comes from. One action per call on the store or the index: list, store, ensure and create the collection, upsert; ask, search, read the hits, fall back on all rows. `Interrupted` ends any of them anywhere. Rows are ingested and reviewed by the actions of `MemoryService`. |
| `Observability` | `Tracer`, `TraceBuffer`, `MetricsRegistry` | Each request's context variables and open spans, with what each saved on entry; the buffer; one counter and one bucket. `Enter`, `Raises`, `Leave`, `Increment`, `Observe` are the calls between which threads interleave. |
| `ModelClient` | `llm_from_environment`, `DeepSeekClient`, `OllamaClient`, `ExtractiveDemoClient` | The settings, the client they select, the chat under way and the responses it got. `Respond` decides between another attempt and a result. |
| `Answering` | `query`, `query_records`, `chat`, `get_answer_audit_trail` | `requests[a]`: where the request stands, the candidate copies it has read, its evidence, its citations and what its caller was told. `answer_events[a]` is its trail. `Govern` is a store call of any operation of `ConcurrentService`, or its end by a crash: rows and trails change between any two steps of a request, and are seen half-written. |

## 3. What the runs check

Every run is exhaustive for its bounds. Deadlock is off everywhere: all the models are bounded, and
the system rests when nobody asks anything of it.

| Run | Instance | What it shows |
|---|---|---|
| `memory_core` | 3 ids, 17 submissions (each way admission and resolution can go, two tenants, two keys, one page), 5 dates | `NoActiveOverlap`, `TrailTellsStatus`, `ReplacementOutranks`, `VersionsAbut`, `ActivationIsEarned`, `FinalStaysFinal`, `AnswersBeforeReplacementKept` |
| `memory_poison` | the same | *Violated*: `EveryRowLoads`. `models.py:97` refuses a window that ends before it begins; `ingest` and `review` save one when a version is replaced by one that starts on the same day or earlier. Every later read that rebuilds the row raises. |
| `memory_inference` | the same | *Violated*: `InferenceNeverActive`. `governance.py:35` rejects model inference; an inference that overlaps an active version is made pending by the conflict resolver and can then be approved. |
| `racing` | 2 workers, one key, in two scenes: 2 ids, 4 submissions, one operation cut short; and 4 ids with a policy each, none cut short | what no interleaving breaks: `ContentKept`, `ApprovalOnRecord`, `DecisionsAudited`, `ReplacementArrives` |
| `racing_overlap` | the first scene, none cut short | *Violated*: `NoActiveOverlap`, when two ingests resolve before either saves |
| `crash_audit` | one operation cut short | *Violated*: `EveryDecisionAudited`, "Every decision appends an audit event" (`docs/ARCHITECTURE.md`) |
| `sharded` | 2 workers with 3 ids of one key and 1 of another | `OperationsAreAtomic` (refinement of `MemoryService`), `OperationsEnd` (liveness) |
| `shared_ids` | 2 workers, 2 ids that callers may choose alike, 2 tenants | *Violated*: `TenantsKeepTheirRows`. "Never let a caller overwrite another tenant's projection" (`service.py:125`) is a `get`, and the `save` comes many calls later. |
| `api_process` | the limiter: 2 clients, limit 2, window of 4 ticks, 9 instants; the keys: 3 calls, two of one request and a third of the same, of another body under its key, or of another key, TTL 1, 3 instants, one restart, any table call may raise; the spans: 2 requests nested 2 deep, 5 spans, a buffer of 2, a bucket of 3 that drops 2; the model: 9 settings, 2 chats | `AtMostLimitPerWindow`, `RetryAfterSuffices`, `RefusedWithCause`; `OneWritePerTtl`, `ReplayIsFaithful`, `NoKeyIsStuck`; `NoOrphans`, `SnapshotIsRecent`; `GivesUpWithCause` |
| `idempotency_retry` | the same, no restart | *Violated*: `RetryWritesOnce`. An operation that raises after its write (`agent.py:167` indexes what line 166 has stored) gives its key back, and the retry writes again. |
| `importers` | the connector: 2 pages, 4 revisions, 1 retry; 3 runs one after the other with 2 changes around them, all as meeting notes or all as policies, or 2 runs that may overlap, with 1 change; listings that miss a visible page after a change, in the runs of policies and the overlapping ones; the agent: 2 importers, 2 tenants, 3 rows, 7 small sets of documents and questions, retrieval limit 2 | `CheckpointIsBacked`, `NothingExpiresInVain`, `LivePagesStayTracked`; `ImportedOnce`, `ImportsAreComplete`, `EligibleAreFound` |
| `answers` | one worker and one request; 3 ids with different roles and classes, one of them stored before; 4 submissions, 5 questions, retrieval limit 2, one operation cut short | `OutcomeIsTold`, `WhatLeavesIsOnRecord`, `AnswersAreVerified`, `EvidenceIsTraceable`, `TrailOutlivesReplacement` |

`api_process` and `importers` hold parts that share no state. A behaviour is of one part, chosen in
the initial state and fixed from then on (`part`, `importer`), so a run explores the parts side by
side and not their product; their next-state relations are written out action by action.

Each passing run also checks type invariants, which carry the facts of shape that are
not obvious: dates stay in range, deques stay within the limit, a chat's evidence has at most one
version of a key.

**Why the bounds are enough.** Three ids are the fewest with a record that replaces two active
versions at once, and then one more decision after it; conflicts concern one key, so a second key
and a second tenant serve only to show that they are left alone. Dates matter by their order and by
adjacency: five leave room for a start, the day before it, a gap and the first date there is
(`MinDate` is `date.min`, which has no day before). Two workers suffice for any race between two
operations, which is where the defects of unlocked read-modify-write are. Two ids give them one
record to fight over and one that replaces it; four are needed for an ingest that replaces two
versions while another ingest, by replacing one of the two, makes it unreadable, so that the first
raises halfway: the case `ReplacementArrives` has to exempt. Three idempotent calls are a request,
its retry and a third that repeats it again, reuses the key, or only cleans up. For the limiter a window of four ticks at
two ticks per second makes rounding to whole seconds visible, and eight ticks hold two windows.
Three synchronisations are one that is interrupted, one that resumes and one that finds what both
left; the histories include a page that shrinks on the day it was written, and one that is edited
again. Two overlapping runs with one change between their listings break each of the connector's
exemptions for `contested` pages. Two imports are what it takes to overlap, and each set of
documents holds two that can disturb each other: two editions of a file with a chunk in common, one
file that two tenants import, the demo and a post that brings its own id, public data and an MCP
proposal, and something to store while a question is asked. For answers one worker suffices: each of
its store calls may fall between any two calls of the request, and both cases that
`EvidenceIsTraceable` exempts occur; with two workers a save from a stale copy, which
`TrailOutlivesReplacement` exempts, occurs as well, too many states for a run and covered by the
proof. Two requests whose spans nest fill a buffer of two in every order; a
bucket of three that drops two is trimmed twice within five queries. One answer suffices because
requests share nothing but the rows; the proofs of section 4 are for any number. The largest runs are
`answers` (1.3 million distinct states), `api_process` (1.1 million) and `importers` (0.7 million).

**Named bounds.** `MaxTrail` (an id whose trail is longer is not ingested again: it bounds refused
ingests), `MaxCrashes`, `MaxClock`, `MaxTime`, `MaxRuns`, `MaxChanges`, `MaxDepth`, `MaxIds`,
`MaxQueries`, `MaxChats`, `MinDate..MaxDate`; the ids in `uuids` bound the rows imports may store;
`MayStart`, `MayChange` and `MayMiss` (`MCImporters`) bound what goes on around the connector's runs.
No state constraint is used. Symmetry is used on ids, workers, calls, clients and importers where
there is no liveness property.

**Fairness.** Only the operations of a worker are fair, `WF(GoOn(w))` in `ConcurrentService` and
`ShardedService`: a thread that has begun an operation is scheduled until it ends, which the
operating system provides and which holds since no call waits for another operation. That anybody
*begins* an operation, reviews a record, retries a request or runs a synchronisation is never
assumed. The other modules state safety only.

## 4. What is proved

TLAPS proves the following for every value of the constants, under the named assumptions beside
their declarations: submissions are records whose window is well formed; limits and widths are
positive; ids are not their own `NoId`; every page has a revision, and its chunks with the settings
of a run are submissions (`SyncAssumption`, `SettingsAssumption`); documents have text, their records
are submissions, and a name is shared only by editions of one file, imported for whatever tenants, or
is that of one public document, so that nobody posts under a file's reference (`DocumentsAssumption`); workers called sharded share no
record id, key or page, and where one of them synchronises, the others replace a version only by one
that starts later (`ShardsAssumption`, `StartsAssumption`; section 5 says why). Five theorems have the
hypothesis that callers do not choose each other's ids: `StoredTextIsKept`, `ActivationsAreOnRecord`,
`EgressIsCleared`, `PacksListApprovals` and `OldTrailsStayReadable`. The run `shared_ids` shows that
a row is not safe without it. TLC evaluates the assumptions on the instance of every run.

| Theorem | Says |
|---|---|
| `MemoryService_proofs!TypeCorrect` | both tables keep their shape: no operation computes a date before `date.min` |
| `ActiveVersionsDisjoint` | active versions of one tenant and key never cover the same date |
| `DecisionsAreFinal` | decided versions never change; no operation alters what a record says |
| `TrailIsCurrent` | a record's last audit event reports its status |
| `SupersessionIsEntitled` | a superseded version names a stored replacement that was entitled to it |
| `ReplacedVersionsAbut` | a version replaced by a dated one ends the day before it starts |
| `ActivationsAreEarned` | a version became active by admission alone or by an approval on record, and never without evidence |
| `OldVersionsAnswer` | no step takes an answer away for a date before the replacement begins, unless the version expires |
| `ConcurrentService_proofs!WellTypedJobs` | tables and jobs keep their shape, whatever interleaves and is cut short |
| `ActivationsAreOnRecord` | a record that needs confirmation is active only after an approval on record, or as the approving worker's next call, unless a worker approving this very record was stopped between the two: a crash anywhere else excuses nothing |
| `EndedOperationsAreAudited` | when all operations have ended and none was cut short, every stored status is on its trail |
| `ReplacementsArrive` | then, too, the record a trail names as a replacement is stored, unless its ingest is in `halfway` |
| `GivenUpOverUnreadable` | an ingest gives up halfway only over a version it can no longer read |
| `StoredTextIsKept` | if callers do not share ids, no save changes what a stored row says |
| `ShardedService_proofs!DisjointOperationsAreAtomic` | operations of workers on disjoint ids, keys and pages take effect as wholes: the store calls implement `MemoryService!Spec` |
| `Answering_proofs!TrailTellsOutcome` | the trail of a returned answer reports what its caller was told |
| `AnswersCiteTheirPack` | a told answer that must cite cites only its own evidence, verified on record |
| `EgressIsCleared` | evidence reaches a cloud model only if it is the caller's to read and may leave, on record |
| `AnswersAreWellTyped` | requests and trails keep their shape; a chat keeps to its limit and to one version of a key |
| `PacksListApprovals` | whatever store calls come between reading a row and its history, a pack lists the approval of each piece of evidence only a reviewer could have activated, unless the review event is still the reviewer's next call or was cut off there |
| `OldTrailsStayReadable` | a readable trail stays readable until a store call expires its evidence, closes it for a version that covers the day asked about or one before, or saves a copy another worker has made stale |
| `ConfluenceSync_proofs!SyncIsWellTyped` | one file waits to become the checkpoint; revisions are those the space has had; retries are bounded |
| `CheckpointsAreBacked` | what the checkpoint claims is stored, and nothing older of it is pending unless its page was contested |
| `ExpiriesHaveCause` | a chunk expires only for a newer revision that is stored, a page confirmed missing, or a contested one |
| `LivePagesAreTracked` | a page with live chunks is in the checkpoint or listed by a run, unless cut or contested |
| `AgentIngestion_proofs!ChunksAreImportedOnce` | the same text of a chunk is stored once, unless two imports under its name overlapped |
| `ImportsLeaveNothingOut` | an import that ended without an error has left no chunk out |
| `EligibleRowsAreFound` | a row that may be used from the question to its candidates is among them, unless as many as are wanted are |
| `ApiProcess_proofs!IdempotencyTypeCorrect` | the table and the calls keep their shape |
| `NoKeyIsStuckHolds` | a key is left reserved only by the call that reserved it, while it is served or after it was cut short or its own release or answer raised, and turns requests away for a TTL at most |
| `WritesAreApart` | operations under one key take effect a TTL apart, unless one outlived its reservation |
| `ReplaysAreFaithful` | a replayed answer is the one the same request got when its operation took effect |
| `ApiProcess_proofs!LimitHolds` | no client is let through more than `limit` times in any stretch of a window's width |
| `WaitingSuffices` | a client that waits as long as it was told is let through |
| `RefusalsHaveCause` | a client is refused only when the window holds as many as the limit |
| `LimiterTypeCorrect` | no deque exceeds the limit |
| `ApiProcess_proofs!NobodyIsOrphaned` | a kept span's parent is kept after it, of its trace, failed if it failed, or is still open |
| `SnapshotsAreRecent` | the bucket holds the latest observations, without a gap, at most the cap; each percentile is the least of them that so large a part does not exceed |
| `ApiProcess_proofs!RetriesAreBounded` | a chat repeats its request only after a transient failure and at most `max_retries` times, and sends nothing it must not |

*The memory.* `RowSteps` is the heart: for any one row, every operation leaves it untouched, brings
it in, moves it from one status to another, or closes it in favour of a record saved in the same
step. The cases come from `IngestReplaces` and `ApproveReplaces`, which show that both operations are
instances of one, "save a record and close its active conflicts". `NoActiveOverlap` is inductive with
`TypeOK` alone, because what becomes active closes exactly what it overlaps. The two facts about
superseded versions are inductive only together (`Lineage`), since both are about the same
replacement; they survive the replacement's own replacement because closing a version never moves
its start. What earned an activation is in the fields no operation changes and in a trail that only
grows (`EarnedStep`). A closed version goes on answering up to its new last day
(`ClosedStaysEligible`), so an answer it no longer gives is for a day the replacement covers.

*Interleavings.* `JobsInv` says of each job which operation can be at its call, what copies it then
holds and that the rows they were read from are stored, since rows are never deleted: that much no
other worker can disturb. The three properties about trails are then each an account of who still
owes what: `Warranted` (an active row has the review event, or its approver's next call writes it, or is the
one call a crash has taken from it, which `unlogged` remembers for that id),
`Accounted` (a row's status is reported, or a worker is between the save and its event) and
`Arriving` (the replacement a trail names is stored, or its worker has yet to save it). A worker pays
its debt in its own next calls; another can overwrite the row, but takes the debt over with it. For
the texts, `Matches` and `Fresh` say that a copy says what its row says and that an id being
ingested is nobody else's.

*The refinement.* `Simulates` says of each worker, call by call, that the rows and trails of its shard
are the settled ones plus what its operation has written so far (`TrailSoFar`), and that what it has
in hand is what the indivisible operation would decide from the settled rows (`Plan`). A call that is not
the last keeps that and settles nothing, so it is a stutter of `MemoryService` (the lemmas named
`...Simulates`); the last one settles exactly an `IngestBlocked`, `IngestFails`, `Ingest`, `Approve`,
`Reject` or expiry, or nothing when the operation is refused (`...Implements`, `RefusalStutters`).
Another worker's step leaves the shard alone (`ShardsOfOthers`), and what it reads beyond its own
shard decides nothing: a read by key or page finds rows of the shard only (`KeyIsOwn`, `PageIsOwn`). The
one exception is that an unreadable row stops `list_all` for everybody, so `Readable` keeps windows well
formed wherever another worker synchronises.

*Keys.* The property relates operations that took effect at different times, and the table has
deleted what lies between. `IInv` therefore says of whoever holds a reservation that its row is in
the table until a TTL has passed (`Remembered`); a second reservation then finds either the row,
and is refused, or its absence, and is late enough (`Apart`). `RowsGoOn` and `ServiceGoesOn` say
once what a step can make of any row and any call, so that each part of the invariant is carried by
cases over those and not over the actions. A replay is faithful because a filled row keeps its
fingerprint and names the call that filled it (`Answered`, `Replayed`). A row that is left reserved is
known by whoever reserved it (`Waiting`, `Attributed`): each call gives back or answers its row in the
step that ends it, unless that very step raises or never comes; that it may be another's row by then
leaves none reserved that was not. Every request that is turned away has met a
row of a TTL's age at most (`TurnedAway`), so whatever was left turns nobody away for longer.

*The limiter.* The property is about every time a client was let through, the deque has forgotten
most of them. `EndsHistory` says what it is: the end of the history, with all before it expired;
`Spread` says that any `limit + 1` consecutive times are a window apart. Letting a request through
keeps `Spread` because the deque is not full, so the time `limit` places back has expired. The
hint is rounded up to whole seconds: after it the oldest time of a full deque has left the window
(`WaitingSuffices`), and a deque is full of times that have not left it (`RefusalsHaveCause`).

*Spans.* Each open span has saved the context it must restore, and the context a request runs under
is that of its innermost open span: the open spans are linked (`LinkedPush`, `LinkedPop`). A span
that ends finds its parent one place below it, still open; the parent ends later and is appended
later, so whatever the buffer drops, it drops the child first (`LeaveKeepsTrace`). For the
observations, `Ends` says that the bucket is an end of the whole series, which appending and
trimming keep.

*Answers.* `Honest` says of each stage what the trail must already hold (evidence pack, egress
decision, verdict on citations), and that the trail of a returned answer *ends* with the outcome
told; the reported outcome, the latest finalisation, is then that one. `RowsKnown` relates the copies
a request holds to rows that change under it, store call by store call: a copy's record is still
stored and still of the tenant it was, and evidence passed the access filter.

What the operations keep meanwhile is `Kept`: the texts of rows, `Approved` (from the proofs of the
interleavings), and `Families`, that a worker replaces versions of its own record's key only. What the
pack lists (`Traced`) relates it to rows read before it: `CopiesJustified` says that admission
activates an active or superseded copy, or its approval is on record, or is some worker's next call,
or was cut off there; and each of these stays so or turns into one of the others until the history is
read (`JustifiedStays`). An old trail becomes unreadable only when one of its rows is saved, and
`EligibilityLost` goes through the saves there are: an expiry, the closing of a version for a record
that starts on the answer's day or before, or a copy that another worker has made stale.

*Synchronisation.* There are three kinds of books: the checkpoint, the file that is to replace it,
and what each run read when it began. `BookOK` says the same of all of them, so that moving one
to the place of another keeps it: the chunks of the revision a book holds for a page are stored, and
nothing older is pending unless the page was contested. `RunOK` and `DoneOK` say how far a run has
come with its listing; `Ahead` that a page nobody contested belongs to one run, which knows a
revision as late as any book or row; `Tracks` that what such a run will write leaves no live page
out. A step of one run reaches the others only through `Mild` (books stay backed, revisions only
grow, statuses only move on), which each part of the invariant is shown to survive once; the reviewer
and the space are the case without a mover.

*Imports.* `ImportedOnce` needs to know what a task's old listing misses. `Covers` says it: what is
stored under the name of a document whose import is alone, and is not in the listing, is at or
before the chunk the task is at, so it stored that itself. `Sharing` says that two imports under one
name are known to overlap, and `Progress` that what an import is past is stored, whence
`ImportsAreComplete`. For the search, rows that may no longer be used never may again (`UsedOnce`), stored rows are finitely
many, being named by `uuids`, and so a search that returns fewer than are wanted has returned every
point; the fallback then reads all rows.

*Percentiles.* That a nearest rank exists is the least-number principle (`LeastNat`, from
`WFMin` of the library): the least value that reaches the place has fewer than that many below it
(`InOrderFinds`); `PercentileIsLeast` does the arithmetic of the ceiling.

*Left to TLC.* `OperationsEnd` (liveness under fairness), alone of what the passing runs check.
Liveness, `ENABLED`, induction over data and recursive operators are outside what the prover does.
No module here declares a recursive operator.

## 5. Abstractions

* **Facts and texts** are left out: the fact, its source reference, the reasons given and the
  metadata decide nothing in the write path. `evidence` says whether the list is nonempty.
  `page_version` stands for a page's version number and content hash together.
* **Scores** are integers from 0 to 100 for the code's 0.0 to 1.0, compared with the code's
  thresholds. Ranking, the relevance floor and the token budget are a free choice among the eligible
  rows (`Selections`), so what is checked does not depend on any of them.
* **Access.** A record's roles and classification never change once stored, so `Answering` has them
  as functions of its id. Principals are a tenant and a set of roles.
* **The audit table** is one sequence per record id (per answer id), as `audit_trail` reads it. The
  order between different records' events is not kept.
* **The security gate** is a free choice between passing and blocking a candidate.
* **Order of rows.** Where the code's result depends on the order SQLite returns rows in (which
  replaced version `supersedes` names), any is allowed.
* **Table calls that raise.** A call on the store under an idempotent request that raises leaves the
  table as it was or as it should have become: the statement failed, or the commit did after it took
  effect. A statement that has run and waits in an open transaction, to be committed by a later call,
  is taken for one that has been committed.
* **Shared ids.** `ConcurrentService` models callers that choose the same record id
  (`CallersShareIds`). The run `shared_ids` sets it to `TRUE`, as `POST /v1/memories` lets them; the
  others to `FALSE`, as `uuid4` and the connector's `uuid5` make it.
* **Sharding.** Where one worker synchronises, no submission of another replaces a version that starts
  on its own first day or later (`StartsAssumption`): the inverted row that leaves behind
  (`memory_poison`) stops every `list_all`, so one worker does disturb another then.
* **Calls without an Idempotency-Key** skip the whole mechanism and are not in `Idempotency`.
* **Synchronisation** is of one tenant, space and checkpoint file. Ingest and expiry are indivisible in
  it, and ingest and review in `AgentIngestion` (`ConcurrentService` has them call by call, and a
  request of `Answering` sees them so). A file is written, and replaces the checkpoint, in
  one step each (`Path.replace` is atomic; a run that truncates the `.part` file while another moves it
  is left out).
* **Evidence histories.** The reads of `_evidence_lineage_payload` (`service.py:88`) and the append
  of the event that lists them (`service.py:473`) are one step, taken at the reads: an approval
  logged after the read of its record's history and before the append is not in the pack, and
  `EvidenceIsTraceable` speaks of the review as it stood when the history was read.
* **External**: the vector index of `Answering` may name any rows, that of `AgentIngestion` ranks its
  points in any order and forgets none; the model may cite anything, and a model service may answer
  or fail in any way the client tells apart.
* **Numbers of the metrics** are integers, and a percentile is taken at a whole percentage, where
  the code rounds a fraction of a float.
* **Waiting** before a repeated request is left out, with the length of the pause.

What the models show beyond their properties, and the repository's documents neither promise nor
exclude:

* A listing that is read while the space is edited can miss a page that stays visible, and a run told
  to expire what is missing then expires it (`EndListing`, `ConfirmMissing`). To the connector it is a
  page that is gone, and `NothingExpiresInVain` counts it so.
* A page that was confirmed missing and comes back unchanged stays expired: its record ids exist, so
  its chunks are skipped. `NothingExpiresInVain` therefore exempts pages once confirmed missing.
* When a page shrinks, approved chunks of its old revision stay in force; only pending ones expire.
* When a first run stops after it has ingested a page and the page then disappears, its chunks have
  no checkpoint entry and never expire (the exemption of `LivePagesStayTracked`).
* Two runs at once may ruin a page: one with the older listing expires the pending chunks of the newer
  revision, whose ids then exist and are skipped by every later run; and the one that ends last puts
  back a checkpoint that knows nothing of what the other ingested. What holds all the same is that
  whatever the checkpoint claims is stored. The properties exempt `contested` pages from the rest.
* Imported as official policy, a page edited twice on one day takes the route of `memory_poison`, and
  every later run fails where it reads all rows.
* Two workers that decide one pending record both succeed, and the later save wins; `racing` claims
  what remains true (content, events), not that one decision excludes the other.
* Between the save of an approval (`service.py:331`) and its review event (341) the row is active and
  its history does not say why: a question answered in between gets a pack without the approval, and
  if the reviewer's process stops there, so does every later one. `ApprovalOnRecord` and
  `EvidenceIsTraceable` exempt that record (`Approving`, `unlogged`) and no other.
* A save from a stale copy can end an approval somebody had already been answered from (a rejection read
  before it, saved after it): the trail of that answer is then unreadable with no version to replace
  it (`Overwrites`).
* When the release of a failed request's key raises (`api.py:212`), or the storing of its answer does
  (214), the key stays reserved although the process goes on: a retry is told that the first request
  is in progress until the TTL has passed. In the second case the operation has taken effect.
* While a chat generates, its trail already says `answered`; when the model raises, it goes on
  saying so. `OutcomeIsTold` is about answers that were returned.
* An imported chunk is recognised by its source and its content whatever the status of its row, so
  restoring an earlier edition of a file stores nothing for the chunks they share, though their rows
  may be superseded. Nor does the tenant count: where two tenants import a file of one name and text
  (`agent.py:184`), the second one's import stores nothing and ends well, and that tenant has no rows
  of it. `ImportsAreComplete` is true of that too, since the chunks *are* stored; the offer `tenants`
  of the run `importers` is the case. Filings are not recognised at all: importing one twice stores it twice.
* A chunk that was stored and not indexed is skipped when its import is repeated; only `seed_demo`
  indexes what it finds. Rows of the connector and of MCP proposals are never indexed. All of them
  reach an answer only through the fallback to all rows; that it finds them is `EligibleAreFound`.
* Two imports of one document at once may store it twice (`ImportedOnce` exempts overlap), and a
  seed that was interrupted among its records is not completed: it sees that the store is not empty.
* A chat whose response cannot be *read* in time raises the client's own exception and is not
  repeated, unlike one whose connection fails.
* An ingest that replaces two versions stops after the first when the second has become unreadable
  meanwhile (`racing`, scene `halfway`; the history variable of that name): the first is then replaced
  by a record that is not stored. Nothing else makes it stop there (`GivenUpOverUnreadable`).

## 6. What is not modelled

* `adapters.py` beyond the generation clients and the vector store: embeddings and the reranker are
  numeric functions without state; loading their models is I/O.
* The HTTP and disk layers under the clients, the index and the store: a call succeeds or raises.
* `chunking.py` beyond the number of chunks, `security.py`'s patterns, `retrieval.py`'s scores: pure
  functions of text.
* `cli.py`, `ui.py`, `console/`, `framework_integrations.py`, datasets, evaluation and scripts: front
  ends and batch programs over the service.
* In `api.py`: routing, authentication, validation and read-only endpoints.

## 7. Plan

Done: the modules above, in the order governance and memory, concurrency and refinement, idempotency
and rate limiting, synchronisation, answers, imports and the index, tracing and metrics, the model
client. To come:

1. *An abstract specification of the connector* (the store follows the space) that a run beside no
   other implements.
2. *Reads among the workers* of `ConcurrentService`: which answers the gap between the closing of a
   version and the save of its replacement can give (`Answering` has such reads, and says what becomes
   of trails).
3. *The read endpoints* (history, review queue) under the access filter: what a caller can learn of
   another tenant.

## 8. Running it

```
tlc -workers 2 -config MemoryService_core.cfg MCMemoryService.tla
tlapm MemoryService_proofs.tla
```

`PROJECT.json` names the module and configuration of every run, the source lines of every
definition, and the hazards, findings and theorems.
