-------------------------- MODULE ConcurrentService --------------------------
(***************************************************************************)
(* ingest, review and the connector's expiry as the sequences of store     *)
(* calls they are.  The store's lock makes each call atomic and nothing    *)
(* more: the API's worker threads, and a connector on the same database,   *)
(* interleave between calls, each going on with the rows it has read.      *)
(* Every call commits on its own, so an operation that raises or a process *)
(* that stops leaves what it had written.                                  *)
(*                                                                         *)
(* A job is what one worker is doing: pc names its next store call,        *)
(* `record' is its copy of the row it writes, `todo' the copies of the     *)
(* versions it has still to rewrite, `old' the one at hand and `done' the  *)
(* ones rewritten.                                                         *)
(***************************************************************************)
EXTENDS MemoryStore

CONSTANTS Workers,
          CallersShareIds,   \* may two ingests carry the same record id?
          MaxCrashes         \* bound on operations cut short

ASSUME WorkersAssumption == CallersShareIds \in BOOLEAN /\ MaxCrashes \in Nat

VARIABLES job,
          crashes,   \* how many operations were cut short
          halfway,   \* history: the records whose ingest raised after closing a version
          unlogged   \* history: the records whose approval was saved and then cut short

vars == <<memories, audit_events, job, crashes, halfway, unlogged>>

Nothing == [m \in {} |-> NoRecord]

NoWork == [pc |-> "idle", op |-> "none", id |-> NoId, record |-> NoRecord,
           old |-> NoId, todo |-> Nothing, done |-> {}]

Work(pc, op, id, record) ==
  [NoWork EXCEPT !.pc = pc, !.op = op, !.id = id, !.record = record]

Copies(ids) == [m \in ids |-> memories[m]]

\* Wrong on purpose: the record is not saved when versions were replaced.
TurnToNothing(j, todo) ==
  IF DOMAIN todo = {}
  THEN {IF j.op = "expire" \/ j.done # {} THEN NoWork
        ELSE [j EXCEPT !.pc = "save", !.old = NoId, !.todo = Nothing]}
  ELSE {[j EXCEPT !.pc = IF j.op = "ingest" THEN "get_old" ELSE "save_old",
                  !.old = m, !.todo = todo] : m \in DOMAIN todo}

\* Wrong on purpose: only one of the versions is rewritten.
TurnToFirst(j, todo) ==
  IF DOMAIN todo = {} \/ j.done # {}
  THEN {IF j.op = "expire" THEN NoWork
        ELSE [j EXCEPT !.pc = "save", !.old = NoId, !.todo = Nothing]}
  ELSE {[j EXCEPT !.pc = IF j.op = "ingest" THEN "get_old" ELSE "save_old",
                  !.old = m, !.todo = todo] : m \in DOMAIN todo}

\* The job `j' turns to one of the versions left, or to what follows them.
TurnTo(j, todo) ==
  IF DOMAIN todo = {}
  THEN {IF j.op = "expire" THEN NoWork
        ELSE [j EXCEPT !.pc = "save", !.old = NoId, !.todo = Nothing]}
  ELSE {[j EXCEPT !.pc = IF j.op = "ingest" THEN "get_old" ELSE "save_old",
                  !.old = m, !.todo = todo] : m \in DOMAIN todo}

Goes(w, pc) == job' = [job EXCEPT ![w].pc = pc]

Stops(w) == job' = [job EXCEPT ![w] = NoWork]

\* An approval of `id' is saved, and its review event the next call.
Approving(j, id) == j.op = "approve" /\ j.id = id /\ j.pc = "log_reviewed"

\* One append_event call.
Logs(id, event) ==
  /\ audit_events' = [audit_events EXCEPT ![id] = Append(@, event)]
  /\ UNCHANGED <<memories, crashes, halfway, unlogged>>

\* One save call.
Saves(id, record) ==
  /\ memories' = [memories EXCEPT ![id] = record]
  /\ UNCHANGED <<audit_events, crashes, halfway, unlogged>>

Reads == UNCHANGED <<memories, audit_events, crashes, halfway, unlogged>>

-----------------------------------------------------------------------------
(* ingest *)

\* get finds no row of this id.
BeginIngest(w, id, record) ==
  /\ job[w] = NoWork
  /\ ~IsStored(id)
  /\ Len(audit_events[id]) < MaxTrail
  /\ CallersShareIds \/ \A v \in Workers : job[v].id # id
  /\ job' = [job EXCEPT ![w] = Work("log_scanned", "ingest", id, record)]
  /\ Reads

\* The gate's verdict is known before its first event is written.
LogScanned(w) ==
  /\ job[w].pc = "log_scanned"
  /\ Logs(job[w].id, ScannedEvent)
  /\ \E pc \in {"log_ingested", "log_blocked"} : Goes(w, pc)

LogBlocked(w) ==
  /\ job[w].pc = "log_blocked"
  /\ Logs(job[w].id, Event("security_blocked", "candidate", {}))
  /\ Stops(w)

LogIngested(w) ==
  /\ job[w].pc = "log_ingested"
  /\ Logs(job[w].id, Event("ingested", "candidate", {}))
  /\ Goes(w, "log_admitted")

LogAdmitted(w) ==
  LET status == AdmissionStatus(job[w].record) IN
  /\ job[w].pc = "log_admitted"
  /\ Logs(job[w].id, Event("admitted", status, {}))
  /\ job' = [job EXCEPT ![w].pc = "resolve", ![w].record.status = status]

\* by_conflict_key and the decision on what it returned.
Resolve(w) ==
  LET j      == job[w]
      active == ActiveConflicts(NoId, j.record)
      status == ResolvedStatus(j.record, j.record.status, Versions(active))
      olds   == IF status = "verified_active" THEN active ELSE {}
  IN
  /\ j.pc = "resolve"
  /\ IF KeyLoads(j.record.conflict_key)
     THEN \E next \in TurnTo([j EXCEPT !.record.status = status], Copies(olds)) :
            job' = [job EXCEPT ![w] = next]
     ELSE Stops(w)
  /\ Reads

\* ingest reads each version again before it closes it.
GetOld(w) ==
  LET j == job[w] IN
  /\ j.pc = "get_old"
  /\ IF /\ WellFormedWindow(memories[j.old])
        /\ ~ClosingOverflows(j.record, {memories[j.old]})
     THEN /\ job' = [job EXCEPT ![w].pc = "save_old", ![w].todo[j.old] = memories[j.old]]
          /\ UNCHANGED halfway
     ELSE /\ Stops(w)
          /\ halfway' = IF j.done = {} THEN halfway ELSE halfway \cup {j.id}
  /\ UNCHANGED <<memories, audit_events, crashes, unlogged>>

-----------------------------------------------------------------------------
(* review *)

\* get finds a pending row.
BeginReview(w, id, op) ==
  /\ job[w] = NoWork
  /\ IsStored(id)
  /\ WellFormedWindow(memories[id])
  /\ memories[id].status = "pending"
  /\ job' = [job EXCEPT ![w] =
       IF op = "approve" THEN Work("check", op, id, memories[id])
       ELSE Work("save", op, id, [memories[id] EXCEPT !.status = "rejected"])]
  /\ Reads

\* Wrong on purpose: an approval that is refused is not given up.
CheckWaits(w) ==
  LET olds == ActiveConflicts(job[w].id, job[w].record) IN
  /\ job[w].pc = "check"
  /\ CanApprove(job[w].record, olds)
  /\ \E next \in TurnTo([job[w] EXCEPT !.record.status = "verified_active"], Copies(olds)) :
       job' = [job EXCEPT ![w] = next]
  /\ Reads

\* by_conflict_key and the conditions of an approval.
Check(w) ==
  LET j    == job[w]
      olds == ActiveConflicts(j.id, j.record)
  IN
  /\ j.pc = "check"
  /\ IF CanApprove(j.record, olds)
     THEN \E next \in TurnTo([j EXCEPT !.record.status = "verified_active"], Copies(olds)) :
            job' = [job EXCEPT ![w] = next]
     ELSE Stops(w)
  /\ Reads

LogReviewed(w) ==
  LET j == job[w] IN
  /\ j.pc = "log_reviewed"
  /\ Logs(j.id, Event("reviewed", j.record.status, j.done))
  /\ Goes(w, "log_status")

-----------------------------------------------------------------------------
(* expiry *)

\* list_all, and the rows of it that _expire_records goes through.
BeginExpire(w, ids) ==
  /\ job[w] = NoWork
  /\ ids # {}
  /\ \A id \in Stored : WellFormedWindow(memories[id])
  /\ \E next \in TurnTo(Work("none", "expire", NoId, NoRecord), Copies(ids)) :
       job' = [job EXCEPT ![w] = next]
  /\ Reads

-----------------------------------------------------------------------------
(* what the operations share *)

SaveOld(w) ==
  LET j == job[w] IN
  /\ j.pc = "save_old"
  /\ Saves(j.old, IF j.op = "expire" THEN [j.todo[j.old] EXCEPT !.status = "expired"]
                  ELSE Closed(j.todo[j.old], j.record))
  /\ Goes(w, "log_old")

\* ingest keeps the last version it replaced as `supersedes', review the first.
LogOld(w) ==
  LET j     == job[w]
      left  == [m \in DOMAIN j.todo \ {j.old} |-> j.todo[m]]
      names == j.op \in (IF j.done = {} THEN {"ingest", "approve"} ELSE {"ingest"})
      after == [j EXCEPT !.done = @ \cup {j.old},
                         !.record = IF names THEN [@ EXCEPT !.supersedes = j.old] ELSE @]
  IN
  /\ j.pc = "log_old"
  /\ Logs(j.old, IF j.op = "expire" THEN Event("status_changed", "expired", {})
                 ELSE Event("superseded", "superseded", {j.id}))
  /\ \E next \in TurnTo(after, left) : job' = [job EXCEPT ![w] = next]

\* Wrong on purpose: the row is saved and its event forgotten.
SaveUnreported(w) ==
  /\ job[w].pc = "save"
  /\ Saves(job[w].id, job[w].record)
  /\ Stops(w)

Save(w) ==
  LET j == job[w] IN
  /\ j.pc = "save"
  /\ Saves(j.id, j.record)
  /\ Goes(w, IF j.op = "ingest" THEN "log_status" ELSE "log_reviewed")

LogStatus(w) ==
  LET j == job[w] IN
  /\ j.pc = "log_status"
  /\ Logs(j.id, Event("status_changed", j.record.status, {}))
  /\ Stops(w)

\* The process stops, or a call of the operation raises.
Crash(w) ==
  /\ job[w] # NoWork
  /\ crashes < MaxCrashes
  /\ crashes' = crashes + 1
  /\ unlogged' = unlogged \cup {id \in Ids : Approving(job[w], id)}
  /\ Stops(w)
  /\ UNCHANGED <<memories, audit_events, halfway>>

-----------------------------------------------------------------------------

\* The rows that expire when `version' of a page replaces the others, and
\* when pages are gone.
Replaced(tenant, page, version) ==
  {id \in RowsOfPage(tenant, page, {"pending"}) : memories[id].page_version # version}

Missing(tenant, pages) ==
  UNION {RowsOfPage(tenant, p, {"pending", "verified_active"}) : p \in pages}

Begin(w, requests, pages) ==
  \/ \E r \in requests : BeginIngest(w, r[1], r[2])
  \/ \E r \in requests, op \in {"approve", "reject"} : BeginReview(w, r[1], op)
  \/ \E t \in Tenants, p \in pages, v \in PageVersions : BeginExpire(w, Replaced(t, p, v))
  \/ \E t \in Tenants, gone \in SUBSET pages : BeginExpire(w, Missing(t, gone))

GoOn(w) ==
  \/ LogScanned(w) \/ LogBlocked(w) \/ LogIngested(w) \/ LogAdmitted(w)
  \/ Resolve(w) \/ GetOld(w) \/ Check(w)
  \/ SaveOld(w) \/ LogOld(w) \/ Save(w) \/ LogReviewed(w) \/ LogStatus(w)

Init ==
  /\ memories = [id \in Ids |-> NoRecord]
  /\ audit_events = [id \in Ids |-> <<>>]
  /\ job = [w \in Workers |-> NoWork]
  /\ crashes = 0
  /\ halfway = {}
  /\ unlogged = {}

Next ==
  \E w \in Workers : Begin(w, Ids \X Submissions, Pages) \/ GoOn(w) \/ Crash(w)

\* A thread that has begun an operation is scheduled until it ends.
Spec == Init /\ [][Next]_vars /\ \A w \in Workers : WF_vars(GoOn(w))

-----------------------------------------------------------------------------
(* Properties *)

PC == {"idle", "log_scanned", "log_blocked", "log_ingested", "log_admitted", "resolve",
       "get_old", "check", "save_old", "log_old", "save", "log_reviewed", "log_status"}

\* The shape of the tables and of the jobs.
JobTypeOK ==
  /\ TypeOK
  /\ crashes \in 0..MaxCrashes
  /\ halfway \subseteq Ids
  /\ unlogged \subseteq Ids
  /\ \A w \in Workers : LET j == job[w] IN
       /\ j.pc \in PC
       /\ j.op \in {"none", "ingest", "approve", "reject", "expire"}
       /\ {j.id, j.old} \subseteq Ids \cup {NoId}
       /\ j.record \in MemoryRecord \cup {NoRecord}
       /\ \A m \in DOMAIN j.todo : m \in Ids /\ j.todo[m] \in MemoryRecord
       /\ j.done \subseteq Ids

\* However operations interleave and wherever they stop, a save never changes
\* what a stored row says: tenant, key, source, authority, start, evidence
\* and scores are those of the record first saved under the id.
ContentKept ==
  [][\A id \in Stored :
       [memories'[id] EXCEPT !.status = "candidate", !.valid_to = NoDate, !.supersedes = NoId]
       = [memories[id] EXCEPT !.status = "candidate", !.valid_to = NoDate, !.supersedes = NoId]]_vars

\* A record that needs confirmation is active, or was until it was replaced,
\* only after an approval whose review event is written or is the next call
\* of the approving worker, unless a worker that approved this very record
\* was stopped just there; and a record without evidence never is.
ApprovalOnRecord ==
  \A id \in Ids :
    HasStatus(id, "verified_active") \/ HasStatus(id, "superseded") =>
      /\ memories[id].evidence
      /\ \/ AdmissionStatus(memories[id]) = "verified_active"
         \/ WasReviewed(id)
         \/ \E w \in Workers : Approving(job[w], id)
         \/ id \in unlogged

Reported(id, status) == \E i \in DOMAIN audit_events[id] : audit_events[id][i].status = status

Quiet == \A w \in Workers : job[w] = NoWork

\* Once all operations have ended, every stored status is reported by an
\* event of the record's trail, unless one was cut short.
DecisionsAudited ==
  Quiet /\ crashes = 0 => \A id \in Stored : Reported(id, memories[id].status)

\* Nor is a version replaced by nothing: the record its trail names as the
\* replacement is stored when all operations have ended, unless its ingest
\* came upon a row that had become unreadable after it had closed this one.
ReplacementArrives ==
  Quiet /\ crashes = 0 => \A id, by \in Ids :
    ReplacedBy(id, by) /\ by \notin halfway => IsStored(by)

\* Every operation that has begun ends: no worker keeps another waiting, and
\* the versions to rewrite run out.
OperationsEnd == \A w \in Workers : job[w] # NoWork ~> job[w] = NoWork

(* What the sources say, and the code does not do *)

\* "Every decision appends an audit event" (ARCHITECTURE.md), also when the
\* process stops between two store calls.
EveryDecisionAudited == Quiet => \A id \in Stored : Reported(id, memories[id].status)

\* "Never let a caller overwrite another tenant's projection by reusing its
\* ID" (service.py): a stored row stays with the tenant it was saved for.
TenantsKeepTheirRows ==
  [][\A id \in Stored : memories'[id].tenant_id = memories[id].tenant_id]_vars

=============================================================================
