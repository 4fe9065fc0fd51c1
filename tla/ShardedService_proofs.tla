------------------------ MODULE ShardedService_proofs ------------------------
(***************************************************************************)
(* While one worker is inside an operation, its rows and trails are what   *)
(* the settled tables say, plus what the calls so far have written; and    *)
(* when its last call is made, that is what the indivisible operation      *)
(* writes.  For any number of workers and any disjoint shards.             *)
(***************************************************************************)
EXTENDS ShardedService, ConcurrentService_proofs

-----------------------------------------------------------------------------
(* What an operation decides from the rows of a shard *)

Own(w) == {r[1] : r \in RequestsOf[w]}

Shard(table, w) == [id \in Own(w) |-> table[id]]

\* The rows of table S that ActiveConflicts finds, and that KeyLoads reads.
RivalsIn(S, id, record) ==
  {o \in DOMAIN S \ {id} :
     /\ S[o] # NoRecord
     /\ S[o].conflict_key = record.conflict_key
     /\ S[o].tenant_id = record.tenant_id
     /\ S[o].status = "verified_active"
     /\ IntervalsOverlap(S[o], record)}

LoadsIn(S, key) ==
  \A id \in DOMAIN S : S[id] # NoRecord /\ S[id].conflict_key = key => WellFormedWindow(S[id])

Decision(S, id, s) == ResolvedStatus(s, AdmissionStatus(s), {S[o] : o \in RivalsIn(S, id, s)})

\* The versions an ingest of s replaces.
Loses(S, id, s) == IF Decision(S, id, s) = "verified_active" THEN RivalsIn(S, id, s) ELSE {}

MayApprove(S, id) ==
  LET olds == RivalsIn(S, id, S[id]) IN
  /\ S[id].evidence
  /\ LoadsIn(S, S[id].conflict_key)
  /\ olds = {} \/ S[id].valid_from # NoDate
  /\ \A o \in olds : S[id].authority > S[o].authority
  /\ ~ClosingOverflows(S[id], olds)

OfPage(S, t, p, statuses) ==
  {id \in DOMAIN S : /\ S[id] # NoRecord
                     /\ S[id].page_id = p /\ S[id].tenant_id = t
                     /\ S[id].status \in statuses}

OfPages(S, t, gone) ==
  UNION {OfPage(S, t, p, {"pending", "verified_active"}) : p \in gone}

\* The sets of rows a synchronisation of worker w may expire.
Expirable(w, S) ==
  {{id \in OfPage(S, t, p, {"pending"}) : S[id].page_version # v} :
     t \in Tenants, p \in PagesOf[w], v \in PageVersions}
  \cup {OfPages(S, t, gone) : t \in Tenants, gone \in SUBSET PagesOf[w]}

-----------------------------------------------------------------------------
(* How far a job has come *)

Undecided == {"log_scanned", "log_blocked", "log_ingested", "log_admitted", "resolve", "check"}

\* The versions a job rewrites, before and after it has.
Rewrites(j) == j.done \cup DOMAIN j.todo

Rewritten(j, row) ==
  IF j.op = "expire" THEN [row EXCEPT !.status = "expired"] ELSE Closed(row, j.record)

RewriteEvent(j) ==
  IF j.op = "expire" THEN Event("status_changed", "expired", {})
  ELSE Event("superseded", "superseded", {j.id})

\* What the row m, settled as `row', is by now.
RowNow(j, m, row) ==
  IF m = j.id THEN IF j.pc \in {"log_reviewed", "log_status"} THEN j.record ELSE row
  ELSE IF m \in j.done \/ (m = j.old /\ j.pc = "log_old") THEN Rewritten(j, row)
  ELSE row

\* What the trail of the record a job is about is by now.
TrailSoFar(j, trail) ==
  IF j.op = "ingest"
  THEN IF j.pc = "log_scanned" THEN trail
       ELSE IF j.pc \in {"log_blocked", "log_ingested"} THEN Append(trail, ScannedEvent)
       ELSE IF j.pc = "log_admitted"
            THEN Append(Append(trail, ScannedEvent), Event("ingested", "candidate", {}))
       ELSE AdmissionTrail(trail, j.record)
  ELSE IF j.pc = "log_status" THEN Append(trail, Event("reviewed", j.record.status, j.done))
  ELSE trail

TrailNow(j, m, trail) ==
  IF m = j.id THEN TrailSoFar(j, trail)
  ELSE IF m \in j.done THEN Append(trail, RewriteEvent(j))
  ELSE trail

Restates(record, r) ==
  record = [r EXCEPT !.status = record.status, !.supersedes = record.supersedes]

\* The record a job saves: r with the status st, after rewriting `olds'.
Replacing(j, r, st, olds) ==
  /\ Restates(j.record, r) /\ j.record.status = st
  /\ j.record.supersedes \in IF j.done = {} THEN {r.supersedes} ELSE j.done
  /\ Rewrites(j) = olds

Ingests(j, s, S, E) ==
  /\ S[j.id] = NoRecord
  /\ Len(E[j.id]) < MaxTrail
  /\ IF j.pc \in Undecided
     THEN j.record = IF j.pc = "resolve" THEN [s EXCEPT !.status = AdmissionStatus(s)] ELSE s
     ELSE /\ LoadsIn(S, s.conflict_key)
          /\ Replacing(j, s, Decision(S, j.id, s), Loses(S, j.id, s))

Reviews(j, S) ==
  /\ S[j.id] # NoRecord /\ S[j.id].status = "pending" /\ WellFormedWindow(S[j.id])
  /\ j.op = "reject" => j.record = [S[j.id] EXCEPT !.status = "rejected"] /\ Rewrites(j) = {}
  /\ j.op = "approve" =>
       IF j.pc = "check" THEN j.record = S[j.id]
       ELSE /\ MayApprove(S, j.id)
            /\ Replacing(j, S[j.id], "verified_active", RivalsIn(S, j.id, S[j.id]))

Expires(w, j, S) ==
  /\ \A id \in DOMAIN S : S[id] # NoRecord => WellFormedWindow(S[id])
  /\ Rewrites(j) \in Expirable(w, S) \ {{}}

\* What job j of worker w has decided, seen from the settled tables.
Plan(w, j, S, E) ==
  /\ Rewrites(j) \subseteq Own(w)
  /\ DOMAIN j.todo \cap j.done = {}
  /\ \A m \in DOMAIN j.todo : j.todo[m] = S[m]
  /\ j.pc \in Undecided => Rewrites(j) = {}
  /\ j.pc \in {"save", "log_reviewed", "log_status"} => DOMAIN j.todo = {}
  /\ j.op \in {"ingest", "approve", "reject"} => j.id \in Own(w)
  /\ j.op = "ingest" => \E r \in RequestsOf[w] : r[1] = j.id /\ Ingests(j, r[2], S, E)
  /\ j.op \in {"approve", "reject"} => Reviews(j, S)
  /\ j.op = "expire" => Expires(w, j, S)

\* The tables M and A of a shard are S and E and what its job has written.
Simulates(w, j, M, A, S, E) ==
  /\ Plan(w, j, S, E)
  /\ \A m \in Own(w) : M[m] = RowNow(j, m, S[m]) /\ A[m] = TrailNow(j, m, E[m])

-----------------------------------------------------------------------------
(* The invariant *)

\* A row that was sent as s: what no operation changes, and no longer window.
From(row, s) ==
  /\ row.tenant_id = s.tenant_id /\ row.conflict_key = s.conflict_key
  /\ row.page_id = s.page_id /\ row.source_type = s.source_type
  /\ row.authority = s.authority /\ row.valid_from = s.valid_from
  /\ End(row) <= End(s)

Descends(w, S) ==
  \A id \in Own(w) : S[id] # NoRecord => \E r \in RequestsOf[w] : r[1] = id /\ From(S[id], r[2])

\* Another worker's list_all reads this one's rows.
IsRead(w) == \E v \in Workers \ {w} : PagesOf[v] # {}

Readable(w, S) ==
  IsRead(w) => \A id \in Own(w) : S[id] # NoRecord => WellFormedWindow(S[id])

ShardOK(w, j, M, A, S, E) ==
  Simulates(w, j, M, A, S, E) /\ Descends(w, S) /\ Readable(w, S)

SettledOK ==
  /\ settled_memories \in [Ids -> MemoryRecord \cup {NoRecord}]
  /\ settled_events \in [Ids -> Seq(AuditEvent)]

\* Rows nobody is responsible for.
Untold ==
  \A id \in Ids : (\A w \in Workers : id \notin Own(w)) =>
    /\ memories[id] = NoRecord /\ settled_memories[id] = NoRecord
    /\ audit_events[id] = settled_events[id]

ShardsInv ==
  /\ JobsInv
  /\ SettledOK
  /\ Untold
  /\ \A w \in Workers :
       ShardOK(w, job[w], Shard(memories, w), Shard(audit_events, w),
               Shard(settled_memories, w), Shard(settled_events, w))

-----------------------------------------------------------------------------
(* Shards *)

LEMMA OwnIds ==
  ASSUME NEW w \in Workers
  PROVE  /\ Own(w) \in SUBSET Ids
         /\ \A r \in RequestsOf[w] :
              r[1] \in Own(w) /\ r[2] \in Submissions /\ r[2] \in MemoryRecord /\ WellFormedWindow(r[2])
<1>1. RequestsOf[w] \in SUBSET (Ids \X Submissions)
  BY ShardsAssumption
<1>2. ASSUME NEW r \in RequestsOf[w]
      PROVE  r[1] \in Ids /\ r[1] \in Own(w) /\ r[2] \in Submissions
  BY <1>1, <1>2 DEF Own
<1>3. Own(w) \in SUBSET Ids
  BY <1>2 DEF Own
<1> QED
  BY <1>2, <1>3, SubmissionsAssumption

\* No two workers are sent one id, or records of one key, or have a page the
\* other is sent records of.
LEMMA ShardsApart ==
  ASSUME NEW v \in Workers, NEW w \in Workers, v # w
  PROVE  /\ Own(v) \cap Own(w) = {}
         /\ \A q \in RequestsOf[v], r \in RequestsOf[w] : q[2].conflict_key # r[2].conflict_key
         /\ \A q \in RequestsOf[v] : q[2].page_id \notin PagesOf[w]
BY ShardsAssumption DEF Own

\* Every row of T was sent to the worker it belongs to.
Divided(T) ==
  /\ \A v \in Workers : Descends(v, Shard(T, v))
  /\ \A id \in Ids : T[id] # NoRecord => \E v \in Workers : id \in Own(v)

LEMMA RowIsSent ==
  ASSUME NEW T, Divided(T), NEW id \in Ids, T[id] # NoRecord
  PROVE  \E v \in Workers : id \in Own(v) /\ \E r \in RequestsOf[v] : r[1] = id /\ From(T[id], r[2])
<1>1. PICK v \in Workers : id \in Own(v)
  BY DEF Divided
<1>2. Shard(T, v)[id] = T[id]
  BY <1>1 DEF Shard
<1>3. Descends(v, Shard(T, v))
  BY DEF Divided
<1> QED
  BY <1>1, <1>2, <1>3 DEF Descends

LEMMA KeyIsOwn ==
  ASSUME NEW T, Divided(T), NEW id \in Ids, T[id] # NoRecord,
         NEW w \in Workers, NEW r \in RequestsOf[w], T[id].conflict_key = r[2].conflict_key
  PROVE  id \in Own(w)
<1>1. PICK v \in Workers : id \in Own(v) /\ \E q \in RequestsOf[v] : q[1] = id /\ From(T[id], q[2])
  BY RowIsSent
<1>2. PICK q \in RequestsOf[v] : From(T[id], q[2])
  BY <1>1
<1>3. q[2].conflict_key = r[2].conflict_key
  BY <1>2 DEF From
<1>4. v = w
  BY <1>3, ShardsApart
<1> QED
  BY <1>1, <1>4

LEMMA PageIsOwn ==
  ASSUME NEW T, Divided(T), NEW id \in Ids, T[id] # NoRecord,
         NEW w \in Workers, T[id].page_id \in PagesOf[w]
  PROVE  id \in Own(w)
<1>1. PICK v \in Workers : id \in Own(v) /\ \E q \in RequestsOf[v] : q[1] = id /\ From(T[id], q[2])
  BY RowIsSent
<1>2. PICK q \in RequestsOf[v] : From(T[id], q[2])
  BY <1>1
<1>3. v = w
  BY <1>2, ShardsApart DEF From
<1> QED
  BY <1>1, <1>3

\* So what an operation reads of the whole table it finds in its shard: both in
\* the table as it is ...
LEMMA ReadsShard ==
  ASSUME Divided(memories), NEW w \in Workers, NEW r \in RequestsOf[w]
  PROVE  /\ KeyLoads(r[2].conflict_key) <=> LoadsIn(Shard(memories, w), r[2].conflict_key)
         /\ \A id, record : record.conflict_key = r[2].conflict_key =>
              ActiveConflicts(id, record) = RivalsIn(Shard(memories, w), id, record)
<1> DEFINE S == Shard(memories, w)
           key == r[2].conflict_key
<1>1. DOMAIN S = Own(w) /\ \A id \in Own(w) : S[id] = memories[id]
  BY DEF Shard
<1>2. Own(w) \in SUBSET Ids
  BY OwnIds
<1>3. ASSUME NEW id \in Ids, memories[id] # NoRecord, memories[id].conflict_key = key
      PROVE  id \in Own(w)
  BY <1>3, KeyIsOwn
<1> HIDE DEF S, key
<1>4. KeyLoads(key) <=> LoadsIn(S, key)
  BY <1>1, <1>2, <1>3 DEF KeyLoads, LoadsIn, Stored, IsStored
<1>5. ASSUME NEW id, NEW record, record.conflict_key = key
      PROVE  ActiveConflicts(id, record) = RivalsIn(S, id, record)
  <2>1. ASSUME NEW o PROVE o \in ActiveConflicts(id, record) <=> o \in RivalsIn(S, id, record)
    BY <1>1, <1>2, <1>3, <1>5 DEF ActiveConflicts, RivalsIn, Stored, IsStored
  <2> QED
    BY <2>1
<1> QED
  BY <1>4, <1>5 DEF S, key

\* ... and in the settled one.
LEMMA SettledReadsShard ==
  ASSUME Divided(settled_memories), NEW w \in Workers, NEW r \in RequestsOf[w]
  PROVE  /\ Service!KeyLoads(r[2].conflict_key)
              <=> LoadsIn(Shard(settled_memories, w), r[2].conflict_key)
         /\ \A id, record : record.conflict_key = r[2].conflict_key =>
              Service!ActiveConflicts(id, record) = RivalsIn(Shard(settled_memories, w), id, record)
<1> DEFINE S == Shard(settled_memories, w)
           key == r[2].conflict_key
<1>1. DOMAIN S = Own(w) /\ \A id \in Own(w) : S[id] = settled_memories[id]
  BY DEF Shard
<1>2. Own(w) \in SUBSET Ids
  BY OwnIds
<1>3. ASSUME NEW id \in Ids, settled_memories[id] # NoRecord, settled_memories[id].conflict_key = key
      PROVE  id \in Own(w)
  BY <1>3, KeyIsOwn
<1> HIDE DEF S, key
<1>4. Service!KeyLoads(key) <=> LoadsIn(S, key)
  BY <1>1, <1>2, <1>3
     DEF Service!KeyLoads, LoadsIn, Service!Stored, Service!IsStored,
         Service!WellFormedWindow, Service!Start, Service!End, WellFormedWindow, Start, End
<1>5. ASSUME NEW id, NEW record, record.conflict_key = key
      PROVE  Service!ActiveConflicts(id, record) = RivalsIn(S, id, record)
  <2>1. ASSUME NEW o PROVE o \in Service!ActiveConflicts(id, record) <=> o \in RivalsIn(S, id, record)
    BY <1>1, <1>2, <1>3, <1>5
       DEF Service!ActiveConflicts, RivalsIn, Service!Stored, Service!IsStored,
           Service!IntervalsOverlap, Service!Start, Service!End, IntervalsOverlap, Start, End
  <2> QED
    BY <2>1
<1> QED
  BY <1>4, <1>5 DEF S, key

-----------------------------------------------------------------------------
(* The rows of a shard *)

Tables(w, S, E) ==
  S \in [Own(w) -> MemoryRecord \cup {NoRecord}] /\ E \in [Own(w) -> Seq(AuditEvent)]

LEMMA RivalsAre ==
  ASSUME NEW w, NEW S \in [Own(w) -> MemoryRecord \cup {NoRecord}], NEW id, NEW record,
         NEW m \in RivalsIn(S, id, record)
  PROVE  /\ m \in Own(w) /\ m # id /\ S[m] \in MemoryRecord
         /\ S[m].status = "verified_active" /\ S[m].tenant_id = record.tenant_id
         /\ S[m].conflict_key = record.conflict_key /\ IntervalsOverlap(S[m], record)
BY DEF RivalsIn

LEMMA ExpirableAre ==
  ASSUME NEW w, NEW S \in [Own(w) -> MemoryRecord \cup {NoRecord}],
         NEW ids \in Expirable(w, S), NEW m \in ids
  PROVE  m \in Own(w) /\ S[m] \in MemoryRecord
<1>1. ids \in SUBSET {id \in Own(w) : S[id] # NoRecord}
  <2>1. ASSUME NEW t, NEW p, NEW statuses
        PROVE  OfPage(S, t, p, statuses) \in SUBSET {id \in Own(w) : S[id] # NoRecord}
    BY DEF OfPage
  <2>2. CASE \E t \in Tenants, p \in PagesOf[w], v \in PageVersions :
               ids = {id \in OfPage(S, t, p, {"pending"}) : S[id].page_version # v}
    BY <2>1, <2>2
  <2>3. CASE \E t \in Tenants, gone \in SUBSET PagesOf[w] : ids = OfPages(S, t, gone)
    BY <2>1, <2>3 DEF OfPages
  <2> QED
    BY <2>2, <2>3 DEF Expirable
<1> QED
  BY <1>1

\* The rows a job rewrites are stored and not its own.
LEMMA RewritesAre ==
  ASSUME NEW w \in Workers, NEW S, NEW E, Tables(w, S, E), NEW j \in Job, Sound(j),
         Plan(w, j, S, E), NEW m \in Rewrites(j)
  PROVE  /\ m \in Own(w) /\ m \in Ids /\ S[m] \in MemoryRecord /\ m # j.id
         /\ j.pc \notin Undecided /\ j.op \in {"ingest", "approve", "expire"}
         /\ j.op = "expire" => j.id = NoId
<1>1. S \in [Own(w) -> MemoryRecord \cup {NoRecord}] /\ m \in Own(w) /\ Own(w) \in SUBSET Ids
  BY OwnIds DEF Tables, Plan
<1>2. j.pc \notin Undecided /\ j.pc # "idle"
  <2>1. j.pc # "idle"
    BY NoWorkSound, NothingType DEF Sound, Shape, Rewrites
  <2> QED
    BY <2>1 DEF Plan
<1>3. j.op \in {"ingest", "approve", "reject", "expire"}
  BY <1>2 DEF Sound, Shape, Job, PC, Undecided
<1>4. CASE j.op = "ingest"
  <2>1. PICK r \in RequestsOf[w] : Ingests(j, r[2], S, E)
    BY <1>4 DEF Plan
  <2>2. m \in RivalsIn(S, j.id, r[2])
    BY <1>2, <2>1 DEF Ingests, Replacing, Loses
  <2> QED
    BY <1>1, <1>2, <1>4, <2>2, RivalsAre
<1>5. CASE j.op = "approve"
  <2>1. m \in RivalsIn(S, j.id, S[j.id])
    BY <1>2, <1>5 DEF Plan, Reviews, Replacing, Undecided
  <2> QED
    BY <1>1, <1>2, <1>5, <2>1, RivalsAre
<1>6. CASE j.op = "reject"
  BY <1>6 DEF Plan, Reviews
<1>7. CASE j.op = "expire"
  <2>1. Rewrites(j) \in Expirable(w, S) /\ j.id = NoId
    BY <1>7 DEF Plan, Expires, Sound, Shape
  <2>2. S[m] \in MemoryRecord
    BY <1>1, <2>1, ExpirableAre
  <2> QED
    BY <1>1, <1>2, <1>7, <2>1, <2>2, NamesAssumption
<1> QED
  BY <1>3, <1>4, <1>5, <1>6, <1>7

\* What the record of a job that saves it says.
LEMMA RecordIs ==
  ASSUME NEW w \in Workers, NEW S, NEW E, Tables(w, S, E), NEW j \in Job, Sound(j),
         Plan(w, j, S, E), j.op \in {"ingest", "approve", "reject"}, j.pc \notin Undecided
  PROVE  /\ j.record \in MemoryRecord /\ j.id \in Own(w)
         /\ j.op = "ingest" => \E r \in RequestsOf[w] : r[1] = j.id /\
              Restates(j.record, r[2])
         /\ j.op # "ingest" => S[j.id] \in MemoryRecord /\
              Restates(j.record, S[j.id])
<1>1. j.record \in MemoryRecord /\ j.id \in Own(w)
  BY DEF Sound, Shape, Plan
<1>2. CASE j.op = "ingest"
  BY <1>1, <1>2 DEF Plan, Ingests, Replacing
<1>3. CASE j.op # "ingest"
  <2>1. S[j.id] \in MemoryRecord
    BY <1>1, <1>3 DEF Tables, Plan, Reviews
  <2>2. CASE j.op = "approve"
    BY <1>1, <2>1, <2>2 DEF Plan, Reviews, Replacing, Undecided
  <2>3. CASE j.op = "reject"
    <3>1. j.record = [S[j.id] EXCEPT !.status = "rejected"]
      BY <2>3 DEF Plan, Reviews
    <3>2. Restates(j.record, S[j.id])
      BY <2>1, <3>1 DEF MemoryRecord, Restates
    <3> QED
      BY <1>1, <1>3, <2>1, <3>2
  <2> QED
    BY <1>3, <2>2, <2>3
<1> QED
  BY <1>2, <1>3

LEMMA SameIsFrom ==
  ASSUME NEW r \in MemoryRecord, NEW row, Restates(row, r)
  PROVE  /\ \A s : From(r, s) => From(row, s)
         /\ From(row, r) /\ End(row) = End(r) /\ Start(row) = Start(r)
         /\ row.valid_from = r.valid_from
<1>1. /\ row.tenant_id = r.tenant_id /\ row.conflict_key = r.conflict_key
      /\ row.page_id = r.page_id /\ row.source_type = r.source_type
      /\ row.authority = r.authority /\ row.valid_from = r.valid_from /\ row.valid_to = r.valid_to
  BY DEF MemoryRecord, Restates
<1>2. End(row) = End(r) /\ Start(row) = Start(r) /\ End(r) <= End(r)
  <2>1. End(r) \in Int
    BY DatesAssumption DEF End, MemoryRecord, OptionalDate, Date
  <2> QED
    BY <1>1, <2>1 DEF End, Start
<1> QED
  BY <1>1, <1>2 DEF From

LEMMA ClosedIsFrom ==
  ASSUME NEW row \in MemoryRecord, NEW record \in MemoryRecord, record.valid_from # MinDate,
         NEW s \in MemoryRecord, From(row, s)
  PROVE  From(Closed(row, record), s) /\ Start(Closed(row, record)) = Start(row)
<1> DEFINE closed == Closed(row, record)
<1>1. /\ closed.tenant_id = row.tenant_id /\ closed.conflict_key = row.conflict_key
      /\ closed.page_id = row.page_id /\ closed.source_type = row.source_type
      /\ closed.authority = row.authority /\ closed.valid_from = row.valid_from
  BY DEF Closed, MemoryRecord
<1>2. closed.valid_to = IF record.valid_from # NoDate
                           /\ (row.valid_to = NoDate \/ row.valid_to >= record.valid_from)
                        THEN record.valid_from - 1 ELSE row.valid_to
  BY DEF Closed, MemoryRecord
<1>3. /\ record.valid_from \in OptionalDate /\ row.valid_to \in OptionalDate /\ s.valid_to \in OptionalDate
  BY DEF MemoryRecord
<1> HIDE DEF closed
<1>4. End(closed) <= End(row) /\ End(closed) \in Int /\ End(row) \in Int /\ End(s) \in Int
  BY <1>2, <1>3, DatesAssumption DEF End, OptionalDate, Date
<1>5. Start(closed) = Start(row)
  BY <1>1 DEF Start
<1>6. From(closed, s)
  BY <1>1, <1>4 DEF From
<1> QED
  BY <1>5, <1>6 DEF closed

LEMMA ExpiredIsFrom ==
  ASSUME NEW row \in MemoryRecord
  PROVE  LET expired == [row EXCEPT !.status = "expired"] IN
         /\ expired \in MemoryRecord
         /\ \A s : From(row, s) => From(expired, s)
         /\ Start(expired) = Start(row) /\ End(expired) = End(row)
<1> DEFINE expired == [row EXCEPT !.status = "expired"]
<1>1. /\ expired.tenant_id = row.tenant_id /\ expired.conflict_key = row.conflict_key
      /\ expired.page_id = row.page_id /\ expired.source_type = row.source_type
      /\ expired.authority = row.authority /\ expired.valid_from = row.valid_from
      /\ expired.valid_to = row.valid_to
  BY DEF MemoryRecord
<1>2. expired \in MemoryRecord
  BY DEF MemoryRecord, MemoryStatus
<1> HIDE DEF expired
<1>3. Start(expired) = Start(row) /\ End(expired) = End(row)
  BY <1>1 DEF Start, End
<1> QED
  BY <1>1, <1>2, <1>3 DEF From, expired

\* A version is rewritten for a record that starts on a later day than the
\* first one there is.
LEMMA RewrittenFor ==
  ASSUME NEW w \in Workers, NEW S, NEW E, Tables(w, S, E), NEW j \in Job, Sound(j),
         Plan(w, j, S, E), NEW m \in Own(w), m \in j.done \/ (m = j.old /\ j.pc = "log_old")
  PROVE  /\ m \in Rewrites(j)
         /\ j.op # "expire" => j.record \in MemoryRecord /\ j.record.valid_from # MinDate
<1>1. m \in Rewrites(j)
  BY DEF Sound, Shape, Rewrites
<1>2. j.op \in {"ingest", "approve", "expire"} /\ j.pc \notin Undecided
  BY <1>1, RewritesAre
<1>3. CASE j.op = "ingest"
  BY <1>2, <1>3, <1>1 DEF Sound, Shape, Closes
<1>4. CASE j.op = "approve"
  <2>1. /\ RivalsIn(S, j.id, S[j.id]) # {} /\ ~ClosingOverflows(S[j.id], RivalsIn(S, j.id, S[j.id]))
        /\ j.record.valid_from = S[j.id].valid_from
    <3>1. MayApprove(S, j.id) /\ Replacing(j, S[j.id], "verified_active", RivalsIn(S, j.id, S[j.id]))
      BY <1>2, <1>4 DEF Plan, Reviews, Undecided
    <3>2. S[j.id] \in MemoryRecord
      BY <1>2, <1>4, RecordIs
    <3> QED
      BY <1>1, <3>1, <3>2, SameIsFrom DEF Replacing, MayApprove
  <2> QED
    BY <1>1, <1>4, <2>1 DEF ClosingOverflows, Sound, Shape
<1> QED
  BY <1>1, <1>2, <1>3, <1>4

\* The rows as they are were sent like those that are settled.
LEMMA RowsDescend ==
  ASSUME NEW w \in Workers, NEW M, NEW A, NEW S, NEW E, Tables(w, S, E),
         NEW j \in Job, Sound(j), Simulates(w, j, M, A, S, E), Descends(w, S)
  PROVE  Descends(w, M)
<1> SUFFICES ASSUME NEW id \in Own(w), M[id] # NoRecord
             PROVE  \E r \in RequestsOf[w] : r[1] = id /\ From(M[id], r[2])
  BY DEF Descends
<1>1. M[id] = RowNow(j, id, S[id]) /\ Plan(w, j, S, E)
  BY DEF Simulates
<1>2. CASE M[id] = S[id]
  BY <1>2 DEF Descends
<1>3. CASE id = j.id /\ j.pc \in {"log_reviewed", "log_status"}
  <2>1. M[id] = j.record /\ j.op \in {"ingest", "approve", "reject"} /\ j.pc \notin Undecided
    BY <1>1, <1>3 DEF RowNow, Sound, Shape, Undecided
  <2>2. CASE j.op = "ingest"
    <3>1. PICK r \in RequestsOf[w] : r[1] = j.id /\
            Restates(j.record, r[2])
      BY <1>1, <2>1, <2>2, RecordIs
    <3>2. r[2] \in MemoryRecord
      BY OwnIds
    <3>3. From(j.record, r[2])
      BY <3>1, <3>2, SameIsFrom
    <3> QED
      BY <1>3, <2>1, <3>1, <3>3
  <2>3. CASE j.op # "ingest"
    <3>1. /\ S[id] \in MemoryRecord
          /\ Restates(j.record, S[id])
      BY <1>1, <1>3, <2>1, <2>3, RecordIs
    <3>2. PICK r \in RequestsOf[w] : r[1] = id /\ From(S[id], r[2])
      BY <3>1, NamesAssumption DEF Descends
    <3>3. From(j.record, r[2])
      BY <3>1, <3>2, SameIsFrom
    <3> QED
      BY <2>1, <3>2, <3>3
  <2> QED
    BY <2>2, <2>3
<1>4. CASE id # j.id /\ (id \in j.done \/ (id = j.old /\ j.pc = "log_old"))
  <2>1. M[id] = Rewritten(j, S[id])
    BY <1>1, <1>4 DEF RowNow
  <2>2. id \in Rewrites(j) /\ (j.op # "expire" => j.record \in MemoryRecord /\ j.record.valid_from # MinDate)
    BY <1>1, <1>4, RewrittenFor
  <2>3. S[id] \in MemoryRecord
    BY <1>1, <2>2, RewritesAre
  <2>4. PICK r \in RequestsOf[w] : r[1] = id /\ From(S[id], r[2])
    BY <2>3, NamesAssumption DEF Descends
  <2>5. r[2] \in MemoryRecord
    BY OwnIds
  <2>6. From(Rewritten(j, S[id]), r[2])
    BY <2>2, <2>3, <2>4, <2>5, ClosedIsFrom, ExpiredIsFrom DEF Rewritten
  <2> QED
    BY <2>1, <2>4, <2>6
<1> QED
  BY <1>1, <1>2, <1>3, <1>4 DEF RowNow

LEMMA ClosedIsReadable ==
  ASSUME NEW row \in MemoryRecord, NEW record \in MemoryRecord, WellFormedWindow(row),
         record.valid_from = NoDate \/ Start(row) < record.valid_from
  PROVE  WellFormedWindow(Closed(row, record))
<1> DEFINE closed == Closed(row, record)
<1>1. closed.valid_from = row.valid_from
  BY DEF Closed, MemoryRecord
<1>2. closed.valid_to = IF record.valid_from # NoDate
                           /\ (row.valid_to = NoDate \/ row.valid_to >= record.valid_from)
                        THEN record.valid_from - 1 ELSE row.valid_to
  BY DEF Closed, MemoryRecord
<1>3. record.valid_from \in OptionalDate /\ row.valid_to \in OptionalDate /\ row.valid_from \in OptionalDate
  BY DEF MemoryRecord
<1> HIDE DEF closed
<1>4. Start(closed) = Start(row) /\ Start(row) \in Int
  BY <1>1, <1>3, DatesAssumption DEF Start, OptionalDate, Date
<1>5. Start(row) <= End(closed)
  BY <1>2, <1>3, <1>4, DatesAssumption DEF WellFormedWindow, End, OptionalDate, Date
<1> QED
  BY <1>4, <1>5 DEF WellFormedWindow, closed

\* What the record a job closes versions for is based on, and how it was sent.
LEMMA BasisOf ==
  ASSUME NEW w \in Workers, NEW S, NEW E, Tables(w, S, E), NEW j \in Job, Sound(j),
         Plan(w, j, S, E), Descends(w, S), NEW m \in Rewrites(j), j.op # "expire"
  PROVE  \E base \in MemoryRecord :
           /\ Restates(j.record, base)
           /\ \E r \in RequestsOf[w] : r[1] = j.id /\ From(base, r[2])
           /\ YieldsTo(S[m], base) /\ IntervalsOverlap(S[m], base)
           /\ S[m].tenant_id = base.tenant_id /\ S[m].conflict_key = base.conflict_key
<1>1. /\ m \in Own(w) /\ S[m] \in MemoryRecord /\ j.pc \notin Undecided
      /\ j.op \in {"ingest", "approve"}
  BY RewritesAre
<1>2. S \in [Own(w) -> MemoryRecord \cup {NoRecord}]
  BY DEF Tables
<1>3. CASE j.op = "ingest"
  <2>1. PICK r \in RequestsOf[w] : r[1] = j.id /\ Ingests(j, r[2], S, E)
    BY <1>3 DEF Plan
  <2>2. r[2] \in MemoryRecord
    BY OwnIds
  <2>3. /\ Restates(j.record, r[2]) /\ m \in RivalsIn(S, j.id, r[2])
        /\ Decision(S, j.id, r[2]) = "verified_active"
    BY <1>1, <2>1 DEF Ingests, Replacing, Loses
  <2>4. YieldsTo(S[m], r[2])
    BY <2>3, ResolvedActive DEF Decision
  <2>5. /\ IntervalsOverlap(S[m], r[2])
        /\ S[m].tenant_id = r[2].tenant_id /\ S[m].conflict_key = r[2].conflict_key
    BY <1>2, <2>3, RivalsAre
  <2>6. From(r[2], r[2])
    <3>1. End(r[2]) \in Int
      BY <2>2, DatesAssumption DEF End, MemoryRecord, OptionalDate, Date
    <3> QED
      BY <3>1 DEF From
  <2> QED
    BY <2>1, <2>2, <2>3, <2>4, <2>5, <2>6
<1>4. CASE j.op = "approve"
  <2>1. /\ S[j.id] \in MemoryRecord /\ j.id \in Own(w)
    BY <1>1, <1>4, RecordIs
  <2>2. /\ Restates(j.record, S[j.id]) /\ m \in RivalsIn(S, j.id, S[j.id]) /\ MayApprove(S, j.id)
    BY <1>1, <1>4 DEF Plan, Reviews, Replacing, Undecided
  <2>3. /\ YieldsTo(S[m], S[j.id]) /\ IntervalsOverlap(S[m], S[j.id])
        /\ S[m].tenant_id = S[j.id].tenant_id /\ S[m].conflict_key = S[j.id].conflict_key
    BY <1>2, <2>2, RivalsAre DEF MayApprove, YieldsTo
  <2>4. \E r \in RequestsOf[w] : r[1] = j.id /\ From(S[j.id], r[2])
    BY <2>1, NamesAssumption DEF Descends
  <2> QED
    BY <2>1, <2>2, <2>3, <2>4
<1> QED
  BY <1>1, <1>3, <1>4

\* Where another worker lists all rows, none becomes unreadable.
LEMMA RowsReadable ==
  ASSUME NEW w \in Workers, NEW M, NEW A, NEW S, NEW E, Tables(w, S, E),
         NEW j \in Job, Sound(j), Simulates(w, j, M, A, S, E), Descends(w, S), Readable(w, S)
  PROVE  Readable(w, M)
<1> SUFFICES ASSUME IsRead(w), NEW id \in Own(w), M[id] # NoRecord
             PROVE  WellFormedWindow(M[id])
  BY DEF Readable
<1>1. M[id] = RowNow(j, id, S[id]) /\ Plan(w, j, S, E)
  BY DEF Simulates
<1>2. CASE M[id] = S[id]
  BY <1>2 DEF Readable
<1>3. CASE id = j.id /\ j.pc \in {"log_reviewed", "log_status"}
  <2>1. M[id] = j.record /\ j.op \in {"ingest", "approve", "reject"} /\ j.pc \notin Undecided
    BY <1>1, <1>3 DEF RowNow, Sound, Shape, Undecided
  <2>2. PICK base \in MemoryRecord : Restates(j.record, base) /\ WellFormedWindow(base)
    <3>1. CASE j.op = "ingest"
      BY <1>1, <2>1, <3>1, RecordIs, OwnIds
    <3>2. CASE j.op # "ingest"
      <4>1. S[id] \in MemoryRecord /\ Restates(j.record, S[id])
        BY <1>1, <1>3, <2>1, <3>2, RecordIs
      <4>2. WellFormedWindow(S[id])
        BY <4>1, NamesAssumption DEF Readable
      <4> QED
        BY <4>1, <4>2
    <3> QED
      BY <3>1, <3>2
  <2>3. Start(j.record) = Start(base) /\ End(j.record) = End(base)
    BY <2>2, SameIsFrom
  <2> QED
    BY <2>1, <2>2, <2>3 DEF WellFormedWindow
<1>4. CASE id # j.id /\ (id \in j.done \/ (id = j.old /\ j.pc = "log_old"))
  <2>1. M[id] = Rewritten(j, S[id])
    BY <1>1, <1>4 DEF RowNow
  <2>2. id \in Rewrites(j) /\ (j.op # "expire" => j.record \in MemoryRecord /\ j.record.valid_from # MinDate)
    BY <1>1, <1>4, RewrittenFor
  <2>3. S[id] \in MemoryRecord
    BY <1>1, <2>2, RewritesAre
  <2>4. WellFormedWindow(S[id])
    BY <2>3, NamesAssumption DEF Readable
  <2>5. CASE j.op = "expire"
    BY <2>1, <2>3, <2>4, <2>5, ExpiredIsFrom DEF Rewritten, WellFormedWindow
  <2>6. CASE j.op # "expire"
    <3>1. PICK base \in MemoryRecord :
            /\ Restates(j.record, base)
            /\ \E r \in RequestsOf[w] : r[1] = j.id /\ From(base, r[2])
            /\ YieldsTo(S[id], base) /\ IntervalsOverlap(S[id], base)
            /\ S[id].tenant_id = base.tenant_id /\ S[id].conflict_key = base.conflict_key
      BY <1>1, <2>2, <2>6, BasisOf
    <3>2. PICK r \in RequestsOf[w] : r[1] = j.id /\ From(base, r[2])
      BY <3>1
    <3>3. PICK q \in RequestsOf[w] : q[1] = id /\ From(S[id], q[2])
      BY <2>3, NamesAssumption DEF Descends
    <3>4. q[2] \in MemoryRecord /\ r[2] \in MemoryRecord
      BY OwnIds
    <3>5. /\ j.record.valid_from = r[2].valid_from /\ base.valid_from = r[2].valid_from
          /\ S[id].valid_from = q[2].valid_from
      BY <3>1, <3>2, <3>3, SameIsFrom DEF From
    <3>6. Start(base) = Start(r[2]) /\ Start(S[id]) = Start(q[2])
      BY <3>5 DEF Start
    <3>7. YieldsTo(q[2], r[2])
      BY <3>1, <3>2, <3>3, <3>6 DEF YieldsTo, From
    <3>8. IntervalsOverlap(q[2], r[2])
      <4>1. /\ Start(S[id]) \in Int /\ Start(base) \in Int /\ End(S[id]) \in Int /\ End(base) \in Int
            /\ End(q[2]) \in Int /\ End(r[2]) \in Int
        BY <2>3, <3>1, <3>4, DatesAssumption DEF Start, End, MemoryRecord, OptionalDate, Date
      <4>2. /\ End(base) <= End(r[2]) /\ End(S[id]) <= End(q[2])
            /\ Start(S[id]) <= End(base) /\ Start(base) <= End(S[id])
        BY <3>1, <3>2, <3>3 DEF From, IntervalsOverlap
      <4> QED
        BY <3>6, <4>1, <4>2 DEF IntervalsOverlap
    <3>9. q[2].tenant_id = r[2].tenant_id /\ q[2].conflict_key = r[2].conflict_key
      BY <3>1, <3>2, <3>3 DEF From
    <3>10. q[1] # r[1]
      BY <1>4, <3>2, <3>3
    <3>11. r[2].valid_from # MinDate
      BY <2>2, <2>6, <3>5
    <3>12. r[2].valid_from = NoDate \/ Start(q[2]) < r[2].valid_from
      BY <3>7, <3>8, <3>9, <3>10, <3>11, StartsAssumption DEF IsRead
    <3>13. WellFormedWindow(Closed(S[id], j.record))
      BY <2>2, <2>3, <2>4, <2>6, <3>5, <3>6, <3>12, ClosedIsReadable
    <3> QED
      BY <2>1, <2>6, <3>13 DEF Rewritten
  <2> QED
    BY <2>5, <2>6
<1> QED
  BY <1>1, <1>2, <1>3, <1>4 DEF RowNow

-----------------------------------------------------------------------------
(* What a call inside an operation keeps *)

LEMMA IdleSimulates ==
  ASSUME NEW w, NEW M, NEW A, NEW S, NEW E
  PROVE  Simulates(w, NoWork, M, A, S, E) <=> \A m \in Own(w) : M[m] = S[m] /\ A[m] = E[m]
<1>1. /\ NoWork.pc = "idle" /\ NoWork.op = "none" /\ NoWork.id = NoId /\ NoWork.done = {}
      /\ DOMAIN NoWork.todo = {} /\ Rewrites(NoWork) = {}
  BY NoWorkSound, NothingType DEF Rewrites
<1>2. Plan(w, NoWork, S, E)
  BY <1>1 DEF Plan, Undecided
<1>3. ASSUME NEW m PROVE RowNow(NoWork, m, S[m]) = S[m] /\ TrailNow(NoWork, m, E[m]) = E[m]
  BY <1>1 DEF RowNow, TrailNow, TrailSoFar
<1> QED
  BY <1>2, <1>3 DEF Simulates

LEMMA BeginIngestSimulates ==
  ASSUME NEW w \in Workers, NEW M, NEW A, NEW S, NEW E, Simulates(w, NoWork, M, A, S, E),
         NEW r \in RequestsOf[w], S[r[1]] = NoRecord, Len(E[r[1]]) < MaxTrail,
         NEW n, n = Work("log_scanned", "ingest", r[1], r[2])
  PROVE  Simulates(w, n, M, A, S, E)
<1>1. /\ n.pc = "log_scanned" /\ n.op = "ingest" /\ n.id = r[1] /\ n.record = r[2]
      /\ n.done = {} /\ n.todo = Nothing
  BY DEF Work, NoWork
<1>2. Rewrites(n) = {} /\ DOMAIN n.todo = {} /\ r[1] \in Own(w)
  BY <1>1, NothingType, OwnIds DEF Rewrites
<1>3. Ingests(n, r[2], S, E)
  BY <1>1 DEF Ingests, Undecided
<1>4. Plan(w, n, S, E)
  BY <1>1, <1>2, <1>3 DEF Plan, Undecided
<1>5. ASSUME NEW m PROVE RowNow(n, m, S[m]) = S[m] /\ TrailNow(n, m, E[m]) = E[m]
  BY <1>1 DEF RowNow, TrailNow, TrailSoFar
<1> QED
  BY <1>4, <1>5, IdleSimulates DEF Simulates

LEMMA BeginReviewSimulates ==
  ASSUME NEW w \in Workers, NEW M, NEW A, NEW S, NEW E, Simulates(w, NoWork, M, A, S, E),
         NEW id \in Own(w), S[id] # NoRecord, S[id].status = "pending", WellFormedWindow(S[id]),
         NEW n, \/ n = Work("check", "approve", id, S[id])
                \/ n = Work("save", "reject", id, [S[id] EXCEPT !.status = "rejected"])
  PROVE  Simulates(w, n, M, A, S, E)
<1>1. /\ \/ n.pc = "check" /\ n.op = "approve" /\ n.record = S[id]
         \/ n.pc = "save" /\ n.op = "reject" /\ n.record = [S[id] EXCEPT !.status = "rejected"]
      /\ n.id = id /\ n.done = {} /\ n.todo = Nothing
  BY DEF Work, NoWork
<1>2. Rewrites(n) = {} /\ DOMAIN n.todo = {}
  BY <1>1, NothingType DEF Rewrites
<1>3. Reviews(n, S)
  BY <1>1, <1>2 DEF Reviews
<1>4. Plan(w, n, S, E)
  BY <1>1, <1>2, <1>3 DEF Plan, Undecided
<1>5. ASSUME NEW m PROVE RowNow(n, m, S[m]) = S[m] /\ TrailNow(n, m, E[m]) = E[m]
  BY <1>1 DEF RowNow, TrailNow, TrailSoFar
<1> QED
  BY <1>4, <1>5, IdleSimulates DEF Simulates

\* Between a job's decision and its last save, which version it is at and
\* whether it has read it again makes no difference.
LEMMA StageSimulates ==
  ASSUME NEW w, NEW M, NEW A, NEW S, NEW E, NEW p, Simulates(w, p, M, A, S, E), NEW n,
         n.op = p.op, n.id = p.id, n.record = p.record, n.done = p.done,
         {p.pc, n.pc} \subseteq {"save", "get_old", "save_old"},
         DOMAIN n.todo = DOMAIN p.todo, \A m \in DOMAIN p.todo : n.todo[m] = p.todo[m],
         n.pc = "save" => DOMAIN p.todo = {}
  PROVE  Simulates(w, n, M, A, S, E)
<1>1. /\ n.op = p.op /\ n.id = p.id /\ n.record = p.record /\ n.done = p.done
      /\ n.pc \in {"save", "get_old", "save_old"} /\ p.pc \in {"save", "get_old", "save_old"}
      /\ n.pc \notin Undecided /\ p.pc \notin Undecided
      /\ DOMAIN n.todo = DOMAIN p.todo /\ Rewrites(n) = Rewrites(p)
      /\ \A m \in DOMAIN p.todo : n.todo[m] = p.todo[m]
      /\ n.pc = "save" => DOMAIN n.todo = {}
  BY DEF Rewrites, Undecided
<1>2. Plan(w, p, S, E)
  BY DEF Simulates
<1>3. \A s : Ingests(p, s, S, E) => Ingests(n, s, S, E)
  BY <1>1 DEF Ingests, Replacing
<1>4. Reviews(p, S) => Reviews(n, S)
  BY <1>1 DEF Reviews, Replacing
<1>5. Expires(w, p, S) => Expires(w, n, S)
  BY <1>1 DEF Expires
<1>6. Plan(w, n, S, E)
  BY <1>1, <1>2, <1>3, <1>4, <1>5 DEF Plan
<1>7. ASSUME NEW m
      PROVE  RowNow(n, m, S[m]) = RowNow(p, m, S[m]) /\ TrailNow(n, m, E[m]) = TrailNow(p, m, E[m])
  <2>1. Rewritten(n, S[m]) = Rewritten(p, S[m]) /\ RewriteEvent(n) = RewriteEvent(p)
    BY <1>1 DEF Rewritten, RewriteEvent
  <2>2. TrailSoFar(n, E[m]) = TrailSoFar(p, E[m])
    BY <1>1 DEF TrailSoFar
  <2> QED
    BY <1>1, <2>1, <2>2 DEF RowNow, TrailNow
<1> QED
  BY <1>6, <1>7 DEF Simulates

\* A job that has `todo' left: which one it turns to makes no difference.
Turning(k, todo) == [k EXCEPT !.pc = "save_old", !.todo = todo]

LEMMA TurnSimulates ==
  ASSUME NEW w \in Workers, NEW M, NEW A, NEW S, NEW E, NEW k \in Job, NEW todo \in Todo,
         Simulates(w, Turning(k, todo), M, A, S, E), NEW n \in TurnTo(k, todo), n # NoWork
  PROVE  Simulates(w, n, M, A, S, E)
<1> DEFINE p == Turning(k, todo)
<1>1. /\ p.pc = "save_old" /\ p.op = k.op /\ p.id = k.id /\ p.record = k.record
      /\ p.done = k.done /\ p.todo = todo
  BY DEF Turning, Job
<1>2. /\ n.op = k.op /\ n.id = k.id /\ n.record = k.record /\ n.done = k.done
      /\ n.pc \in {"save", "get_old", "save_old"}
      /\ DOMAIN n.todo = DOMAIN todo
      /\ \A m \in DOMAIN todo : n.todo[m] = todo[m]
      /\ n.pc = "save" => DOMAIN todo = {}
  BY TurnToDoes, NothingType
<1>3. Simulates(w, p, M, A, S, E)
  OBVIOUS
<1> HIDE DEF p
<1> QED
  BY <1>1, <1>2, <1>3, StageSimulates

LEMMA BeginExpireSimulates ==
  ASSUME NEW w \in Workers, NEW M, NEW A, NEW S, NEW E, Tables(w, S, E),
         Simulates(w, NoWork, M, A, S, E),
         \A id \in Own(w) : S[id] # NoRecord => WellFormedWindow(S[id]),
         NEW ids \in Expirable(w, S) \ {{}}, NEW todo, todo = [m \in ids |-> S[m]],
         NEW n \in TurnTo(Work("none", "expire", NoId, NoRecord), todo)
  PROVE  n # NoWork /\ Simulates(w, n, M, A, S, E)
<1> DEFINE k == Work("none", "expire", NoId, NoRecord)
<1>1. S \in [Own(w) -> MemoryRecord \cup {NoRecord}] /\ Own(w) \in SUBSET Ids
  BY OwnIds DEF Tables
<1>2. ids \in SUBSET Own(w) /\ \A m \in ids : S[m] \in MemoryRecord
  BY <1>1, ExpirableAre
<1>3. DOMAIN todo = ids /\ \A m \in ids : todo[m] = S[m]
  OBVIOUS
<1>4. k.op = "expire"
  BY DEF Work, NoWork
<1>5. PICK m \in ids : n = [k EXCEPT !.pc = "save_old", !.old = m, !.todo = todo]
  BY <1>3, <1>4 DEF TurnTo
<1>6. /\ n.pc = "save_old" /\ n.op = "expire" /\ n.id = NoId /\ n.done = {} /\ n.todo = todo
  BY <1>5 DEF Work, NoWork
<1>7. Rewrites(n) = ids /\ DOMAIN n.todo = ids
  BY <1>3, <1>6 DEF Rewrites
<1>8. Expires(w, n, S)
  BY <1>1, <1>7 DEF Expires
<1>9. Plan(w, n, S, E)
  BY <1>2, <1>3, <1>6, <1>7, <1>8 DEF Plan, Undecided
<1>10. ASSUME NEW i \in Own(w) PROVE RowNow(n, i, S[i]) = S[i] /\ TrailNow(n, i, E[i]) = E[i]
  BY <1>1, <1>6, NamesAssumption DEF RowNow, TrailNow
<1> QED
  BY <1>6, <1>9, <1>10, IdleSimulates, NoWorkSound DEF Simulates

-----------------------------------------------------------------------------
(* Records that differ in status and in what they supersede *)

LEMMA RestatesItself ==
  ASSUME NEW r \in MemoryRecord
  PROVE  Restates(r, r)
BY DEF Restates, MemoryRecord

WithStatus(x, status) == [x EXCEPT !.status = status]

LEMMA RestatesWithStatus ==
  ASSUME NEW r \in MemoryRecord, NEW x, Restates(x, r), NEW status, NEW y,
         y = WithStatus(x, status)
  PROVE  Restates(y, r) /\ y.status = status /\ y.supersedes = x.supersedes
BY DEF Restates, MemoryRecord, WithStatus

WithOld(x, old) == [x EXCEPT !.supersedes = old]

LEMMA RestatesWithOld ==
  ASSUME NEW r \in MemoryRecord, NEW x, Restates(x, r), NEW old, NEW y,
         y = WithOld(x, old)
  PROVE  Restates(y, r) /\ y.status = x.status /\ y.supersedes = old
BY DEF Restates, MemoryRecord, WithOld

\* Neither plays a part in a decision.
LEMMA RestatesDecides ==
  ASSUME NEW r \in MemoryRecord, NEW x, Restates(x, r)
  PROVE  /\ AdmissionStatus(x) = AdmissionStatus(r)
         /\ \A admitted, active : ResolvedStatus(x, admitted, active) = ResolvedStatus(r, admitted, active)
         /\ \A row : Closed(row, x) = Closed(row, r)
         /\ \A row : IntervalsOverlap(row, x) <=> IntervalsOverlap(row, r)
         /\ \A trail : AdmissionTrail(trail, x) = AdmissionTrail(trail, r)
         /\ x.conflict_key = r.conflict_key /\ x.tenant_id = r.tenant_id
         /\ x.valid_from = r.valid_from
<1>1. /\ x.tenant_id = r.tenant_id /\ x.conflict_key = r.conflict_key
      /\ x.source_type = r.source_type /\ x.authority = r.authority
      /\ x.valid_from = r.valid_from /\ x.valid_to = r.valid_to
      /\ x.evidence = r.evidence /\ x.extraction_confidence = r.extraction_confidence
      /\ x.durable_value = r.durable_value
  BY DEF MemoryRecord, Restates
<1>2. AdmissionStatus(x) = AdmissionStatus(r)
  BY <1>1 DEF AdmissionStatus
<1>3. Start(x) = Start(r) /\ End(x) = End(r)
  BY <1>1 DEF Start, End
<1>4. \A old : YieldsTo(old, x) <=> YieldsTo(old, r)
  BY <1>1, <1>3 DEF YieldsTo
<1>5. \A admitted, active : ResolvedStatus(x, admitted, active) = ResolvedStatus(r, admitted, active)
  BY <1>4 DEF ResolvedStatus
<1>6. \A row : Closed(row, x) = Closed(row, r)
  BY <1>1 DEF Closed
<1>7. \A row : IntervalsOverlap(row, x) <=> IntervalsOverlap(row, r)
  BY <1>3 DEF IntervalsOverlap
<1>8. \A trail : AdmissionTrail(trail, x) = AdmissionTrail(trail, r)
  BY <1>2 DEF AdmissionTrail
<1> QED
  BY <1>1, <1>2, <1>5, <1>6, <1>7, <1>8

-----------------------------------------------------------------------------
(* The calls of an ingest before it looks for conflicts *)

\* One call has appended `event' to one trail of the shard.
Appended(w, A1, A, id, event) ==
  \A m \in Own(w) : A1[m] = IF m = id THEN Append(A[m], event) ELSE A[m]

\* One call has saved one row of the shard.
Updated(w, M1, M, id, row) == \A m \in Own(w) : M1[m] = IF m = id THEN row ELSE M[m]

\* The next call of an ingest that has just written a note, and the event.
Noting(j, n, event) ==
  \/ /\ j.pc = "log_scanned" /\ n.pc \in {"log_ingested", "log_blocked"} /\ n.record = j.record
     /\ event = ScannedEvent
  \/ /\ j.pc = "log_ingested" /\ n.pc = "log_admitted" /\ n.record = j.record
     /\ event = Event("ingested", "candidate", {})
  \/ /\ j.pc = "log_admitted" /\ n.pc = "resolve"
     /\ n.record = WithStatus(j.record, AdmissionStatus(j.record))
     /\ event = Event("admitted", AdmissionStatus(j.record), {})

LEMMA NoteSimulates ==
  ASSUME NEW w \in Workers, NEW M, NEW A, NEW S, NEW E, NEW j, j.op = "ingest",
         Simulates(w, j, M, A, S, E), NEW n, Keeps(j, n), n.todo = j.todo,
         NEW event, Noting(j, n, event), NEW A1, Appended(w, A1, A, j.id, event)
  PROVE  Simulates(w, n, M, A1, S, E)
<1>1. /\ n.op = "ingest" /\ n.id = j.id /\ n.done = j.done /\ n.todo = j.todo
      /\ j.pc \in {"log_scanned", "log_ingested", "log_admitted"}
      /\ n.pc \in {"log_ingested", "log_blocked", "log_admitted", "resolve"}
  BY DEF Keeps, Noting
<1>2. Plan(w, j, S, E) /\ Rewrites(j) = {} /\ Rewrites(n) = {} /\ j.done = {}
  BY <1>1 DEF Simulates, Plan, Rewrites, Undecided
<1>3. PICK r \in RequestsOf[w] : r[1] = j.id /\ Ingests(j, r[2], S, E)
  BY <1>2 DEF Plan
<1>4. r[2] \in MemoryRecord
  BY OwnIds
<1>5. j.record = r[2]
  BY <1>1, <1>3 DEF Ingests, Undecided
<1>6. Ingests(n, r[2], S, E)
  BY <1>1, <1>3, <1>5 DEF Ingests, Undecided, Noting, WithStatus
<1>7. Plan(w, n, S, E)
  BY <1>1, <1>2, <1>3, <1>6 DEF Plan, Undecided
<1>8. AdmissionTrail(E[j.id], n.record) = AdmissionTrail(E[j.id], r[2]) \/ n.pc # "resolve"
  <2>1. ASSUME n.pc = "resolve"
        PROVE  Restates(n.record, r[2])
    BY <1>1, <1>4, <1>5, <2>1, RestatesItself, RestatesWithStatus DEF Noting
  <2> QED
    BY <1>4, <2>1, RestatesDecides
<1>9. TrailSoFar(n, E[j.id]) = Append(TrailSoFar(j, E[j.id]), event)
  BY <1>1, <1>5, <1>8 DEF TrailSoFar, Noting, AdmissionTrail
<1>10. ASSUME NEW m \in Own(w)
       PROVE  M[m] = RowNow(n, m, S[m]) /\ A1[m] = TrailNow(n, m, E[m])
  <2>1. M[m] = RowNow(j, m, S[m]) /\ A[m] = TrailNow(j, m, E[m])
    BY DEF Simulates
  <2>2. RowNow(n, m, S[m]) = RowNow(j, m, S[m])
    BY <1>1, <1>2 DEF RowNow
  <2>3. A1[m] = TrailNow(n, m, E[m])
    <3>1. CASE m = j.id
      <4>1. A[m] = TrailSoFar(j, E[j.id]) /\ TrailNow(n, m, E[m]) = TrailSoFar(n, E[j.id])
        BY <1>1, <2>1, <3>1 DEF TrailNow
      <4> QED
        BY <1>9, <3>1, <4>1 DEF Appended
    <3>2. CASE m # j.id
      <4>1. A[m] = E[m] /\ TrailNow(n, m, E[m]) = E[m]
        BY <1>1, <1>2, <2>1, <3>2 DEF TrailNow
      <4> QED
        BY <3>2, <4>1 DEF Appended
    <3> QED
      BY <3>1, <3>2
  <2> QED
    BY <2>1, <2>2, <2>3
<1> QED
  BY <1>7, <1>10 DEF Simulates

-----------------------------------------------------------------------------
(* The calls that decide *)

\* Before it has decided, a job has written no row.
LEMMA RowsUntouched ==
  ASSUME NEW w \in Workers, NEW M \in [Own(w) -> MemoryRecord \cup {NoRecord}], NEW A,
         NEW S \in [Own(w) -> MemoryRecord \cup {NoRecord}], NEW E, NEW j,
         Simulates(w, j, M, A, S, E), j.pc \in Undecided
  PROVE  M = S /\ j.done = {} /\ Rewrites(j) = {}
<1>1. Rewrites(j) = {} /\ j.done = {}
  BY DEF Simulates, Plan, Rewrites
<1>2. ASSUME NEW m \in Own(w) PROVE M[m] = S[m]
  BY <1>1 DEF Simulates, RowNow, Undecided
<1> QED
  BY <1>1, <1>2

\* What the resolver makes of a record that admission has passed on.
Verdict(M, record) ==
  ResolvedStatus(record, record.status, {M[o] : o \in RivalsIn(M, NoId, record)})

Defeats(M, record) ==
  IF Verdict(M, record) = "verified_active" THEN RivalsIn(M, NoId, record) ELSE {}

LEMMA ResolveSimulates ==
  ASSUME NEW w \in Workers, NEW M \in [Own(w) -> MemoryRecord \cup {NoRecord}], NEW A, NEW S, NEW E,
         Tables(w, S, E), NEW j \in Job, j.op = "ingest", j.pc = "resolve", Simulates(w, j, M, A, S, E),
         NEW status, status = Verdict(M, j.record), NEW olds, olds = Defeats(M, j.record),
         LoadsIn(M, j.record.conflict_key),
         NEW todo \in Todo, todo = [m \in olds |-> M[m]],
         NEW k \in Job, Keeps(j, k), k.record = WithStatus(j.record, status),
         NEW n \in TurnTo(k, todo)
  PROVE  n # NoWork /\ Simulates(w, n, M, A, S, E)
<1> DEFINE p == Turning(k, todo)
           active == RivalsIn(M, NoId, j.record)
<1>1. S \in [Own(w) -> MemoryRecord \cup {NoRecord}]
  BY DEF Tables
<1>2. M = S /\ j.done = {}
  BY <1>1, RowsUntouched DEF Undecided
<1>3. PICK r \in RequestsOf[w] : r[1] = j.id /\ Ingests(j, r[2], S, E)
  BY DEF Simulates, Plan
<1>4. r[2] \in MemoryRecord /\ j.id \in Own(w) /\ Own(w) \in SUBSET Ids
  BY <1>3, OwnIds
<1>5. j.record = WithStatus(r[2], AdmissionStatus(r[2])) /\ S[j.id] = NoRecord
  BY <1>3 DEF Ingests, Undecided, WithStatus
<1>6. Restates(j.record, r[2]) /\ j.record.status = AdmissionStatus(r[2])
      /\ j.record.supersedes = r[2].supersedes
  <2>1. Restates(r[2], r[2])
    BY <1>4, RestatesItself
  <2> QED
    BY <1>4, <1>5, <2>1, RestatesWithStatus
<1>7. active = RivalsIn(S, j.id, r[2])
  <2>1. ASSUME NEW o PROVE o \in active <=> o \in RivalsIn(S, j.id, r[2])
    BY <1>1, <1>2, <1>4, <1>5, <1>6, RestatesDecides, NamesAssumption DEF RivalsIn
  <2> QED
    BY <2>1
<1>8. status = Decision(S, j.id, r[2])
  <2>1. ResolvedStatus(j.record, j.record.status, {M[o] : o \in active})
        = ResolvedStatus(r[2], AdmissionStatus(r[2]), {M[o] : o \in active})
    BY <1>4, <1>6, RestatesDecides
  <2>2. status = ResolvedStatus(r[2], AdmissionStatus(r[2]), {M[o] : o \in active})
    BY <1>6, <2>1 DEF Verdict
  <2> QED
    BY <1>2, <1>7, <2>2 DEF Decision
<1>9. olds = Loses(S, j.id, r[2])
  BY <1>7, <1>8 DEF Loses, Defeats
<1>10. LoadsIn(S, r[2].conflict_key)
  BY <1>2, <1>4, <1>6, RestatesDecides
<1>11. Restates(k.record, r[2]) /\ k.record.status = status /\ k.record.supersedes = r[2].supersedes
  BY <1>4, <1>6, RestatesWithStatus
<1>12. /\ p.pc = "save_old" /\ p.op = "ingest" /\ p.id = j.id /\ p.record = k.record
       /\ p.done = {} /\ p.todo = todo /\ Rewrites(p) = olds
  BY <1>2 DEF Turning, Job, Keeps, Rewrites
<1> HIDE DEF p
<1>13. Replacing(p, r[2], Decision(S, j.id, r[2]), Loses(S, j.id, r[2]))
  BY <1>8, <1>9, <1>11, <1>12 DEF Replacing
<1>14. Ingests(p, r[2], S, E)
  BY <1>3, <1>10, <1>12, <1>13 DEF Ingests, Undecided
<1>15. olds \in SUBSET Own(w)
  BY <1>1, <1>9, RivalsAre DEF Loses
<1>16. DOMAIN todo = olds /\ \A m \in olds : todo[m] = S[m]
  BY <1>2
<1>17. Plan(w, p, S, E)
  BY <1>3, <1>4, <1>12, <1>14, <1>15, <1>16 DEF Plan, Undecided
<1>18. TrailSoFar(p, E[j.id]) = TrailSoFar(j, E[j.id])
  BY <1>4, <1>6, <1>11, <1>12, RestatesDecides DEF TrailSoFar
<1>19. ASSUME NEW m \in Own(w)
       PROVE  M[m] = RowNow(p, m, S[m]) /\ A[m] = TrailNow(p, m, E[m])
  <2>1. A[m] = TrailNow(j, m, E[m])
    BY DEF Simulates
  <2>2. M[m] = RowNow(p, m, S[m])
    BY <1>2, <1>12 DEF RowNow
  <2>3. A[m] = TrailNow(p, m, E[m])
    BY <1>2, <1>12, <1>18, <2>1 DEF TrailNow
  <2> QED
    BY <2>2, <2>3
<1>20. Simulates(w, p, M, A, S, E)
  BY <1>17, <1>19 DEF Simulates
<1>21. n # NoWork
  <2>1. n.op = "ingest"
    BY TurnToDoes DEF Keeps
  <2> QED
    BY <2>1, NoWorkSound
<1> QED
  BY <1>20, <1>21, TurnSimulates DEF p

LEMMA CheckSimulates ==
  ASSUME NEW w \in Workers, NEW M \in [Own(w) -> MemoryRecord \cup {NoRecord}], NEW A, NEW S, NEW E,
         Tables(w, S, E), NEW j \in Job, j.op = "approve", j.pc = "check", Simulates(w, j, M, A, S, E),
         NEW olds, olds = RivalsIn(M, j.id, j.record), MayApprove(M, j.id),
         NEW todo \in Todo, todo = [m \in olds |-> M[m]],
         NEW k \in Job, Keeps(j, k), k.record = WithStatus(j.record, "verified_active"),
         NEW n \in TurnTo(k, todo)
  PROVE  n # NoWork /\ Simulates(w, n, M, A, S, E)
<1> DEFINE p == Turning(k, todo)
<1>1. S \in [Own(w) -> MemoryRecord \cup {NoRecord}]
  BY DEF Tables
<1>2. M = S /\ j.done = {}
  BY <1>1, RowsUntouched DEF Undecided
<1>3. Reviews(j, S) /\ j.id \in Own(w)
  BY DEF Simulates, Plan
<1>4. S[j.id] \in MemoryRecord /\ j.record = S[j.id]
  BY <1>1, <1>3 DEF Reviews
<1>5. Restates(k.record, S[j.id]) /\ k.record.status = "verified_active"
      /\ k.record.supersedes = S[j.id].supersedes
  BY <1>4, RestatesItself, RestatesWithStatus
<1>6. /\ p.pc = "save_old" /\ p.op = "approve" /\ p.id = j.id /\ p.record = k.record
      /\ p.done = {} /\ p.todo = todo /\ Rewrites(p) = olds
  BY <1>2 DEF Turning, Job, Keeps, Rewrites
<1> HIDE DEF p
<1>7. Replacing(p, S[j.id], "verified_active", RivalsIn(S, j.id, S[j.id]))
  BY <1>2, <1>4, <1>5, <1>6 DEF Replacing
<1>8. Reviews(p, S)
  BY <1>2, <1>3, <1>6, <1>7 DEF Reviews
<1>9. olds \in SUBSET Own(w)
  BY <1>1, <1>2, RivalsAre
<1>10. DOMAIN todo = olds /\ \A m \in olds : todo[m] = S[m]
  BY <1>2
<1>11. Plan(w, p, S, E)
  BY <1>3, <1>6, <1>8, <1>9, <1>10 DEF Plan, Undecided
<1>12. ASSUME NEW m \in Own(w)
       PROVE  M[m] = RowNow(p, m, S[m]) /\ A[m] = TrailNow(p, m, E[m])
  <2>1. A[m] = TrailNow(j, m, E[m])
    BY DEF Simulates
  <2>2. M[m] = RowNow(p, m, S[m])
    BY <1>2, <1>6 DEF RowNow
  <2>3. A[m] = TrailNow(p, m, E[m])
    BY <1>2, <1>6, <2>1 DEF TrailNow, TrailSoFar
  <2> QED
    BY <2>2, <2>3
<1>13. Simulates(w, p, M, A, S, E)
  BY <1>11, <1>12 DEF Simulates
<1>14. n # NoWork
  <2>1. n.op = "approve"
    BY TurnToDoes DEF Keeps
  <2> QED
    BY <2>1, NoWorkSound
<1> QED
  BY <1>13, <1>14, TurnSimulates DEF p
-----------------------------------------------------------------------------
(* The calls that write *)

\* The version a job is at is another record's, and not yet rewritten by
\* calls that are over.
LEMMA OldIs ==
  ASSUME NEW w \in Workers, NEW S, NEW E, Tables(w, S, E), NEW j \in Job, Sound(j),
         Plan(w, j, S, E), j.pc \in {"get_old", "save_old", "log_old"}
  PROVE  /\ j.old \in DOMAIN j.todo /\ j.old \in Rewrites(j) /\ j.old \notin j.done
         /\ j.old \in Own(w) /\ j.old # j.id /\ S[j.old] \in MemoryRecord /\ j.todo[j.old] = S[j.old]
<1>1. j.old \in DOMAIN j.todo /\ j.old \in Rewrites(j)
  BY DEF Sound, Shape, Rewrites
<1>2. j.old \in Own(w) /\ j.old # j.id /\ S[j.old] \in MemoryRecord
  BY <1>1, RewritesAre
<1>3. j.old \notin j.done /\ j.todo[j.old] = S[j.old]
  BY <1>1 DEF Plan
<1> QED
  BY <1>1, <1>2, <1>3

\* What ingest reads again is what it has read.
LEMMA RereadsSame ==
  ASSUME NEW w \in Workers, NEW M, NEW A, NEW S, NEW E, Tables(w, S, E), NEW j \in Job, Sound(j),
         Simulates(w, j, M, A, S, E), j.pc = "get_old"
  PROVE  M[j.old] = S[j.old]
<1>1. Plan(w, j, S, E)
  BY DEF Simulates
<1>2. j.old \in Own(w) /\ j.old # j.id /\ j.old \notin j.done
  BY <1>1, OldIs
<1> QED
  BY <1>2 DEF Simulates, RowNow

LEMMA GetOldSimulates ==
  ASSUME NEW w \in Workers, NEW M, NEW A, NEW S, NEW E, Tables(w, S, E), NEW j \in Job, Sound(j),
         Simulates(w, j, M, A, S, E), j.pc = "get_old",
         NEW n \in Job, Keeps(j, n), n.record = j.record, n.pc = "save_old",
         n.todo = [j.todo EXCEPT ![j.old] = M[j.old]]
  PROVE  Simulates(w, n, M, A, S, E)
<1>1. Plan(w, j, S, E) /\ j.todo \in Todo
  BY DEF Simulates, Job
<1>2. j.todo[j.old] = S[j.old] /\ M[j.old] = S[j.old]
  BY <1>1, OldIs, RereadsSame
<1>3. DOMAIN n.todo = DOMAIN j.todo /\ \A m \in DOMAIN j.todo : n.todo[m] = j.todo[m]
  BY <1>1, <1>2, TodoMembers
<1> QED
  BY <1>3, StageSimulates DEF Keeps

LEMMA SaveOldSimulates ==
  ASSUME NEW w \in Workers, NEW M, NEW A, NEW S, NEW E, Tables(w, S, E), NEW j \in Job, Sound(j),
         Simulates(w, j, M, A, S, E), j.pc = "save_old",
         NEW n, OnlyNext(j, n), n.pc = "log_old",
         NEW M1, Updated(w, M1, M, j.old, Rewritten(j, j.todo[j.old]))
  PROVE  Simulates(w, n, M1, A, S, E)
<1>1. Plan(w, j, S, E)
  BY DEF Simulates
<1>2. /\ j.old \in Own(w) /\ j.old # j.id /\ j.old \notin j.done /\ j.todo[j.old] = S[j.old]
  BY <1>1, OldIs
<1>3. /\ n.op = j.op /\ n.id = j.id /\ n.done = j.done /\ n.record = j.record /\ n.old = j.old
      /\ n.todo = j.todo /\ Rewrites(n) = Rewrites(j) /\ n.pc = "log_old"
  BY DEF OnlyNext, Keeps, Rewrites
<1>4. \A s : Ingests(j, s, S, E) => Ingests(n, s, S, E)
  BY <1>3 DEF Ingests, Replacing, Undecided
<1>5. Reviews(j, S) => Reviews(n, S)
  BY <1>3 DEF Reviews, Replacing
<1>6. Plan(w, n, S, E)
  BY <1>1, <1>3, <1>4, <1>5 DEF Plan, Expires, Undecided
<1>7. ASSUME NEW m \in Own(w)
      PROVE  M1[m] = RowNow(n, m, S[m]) /\ A[m] = TrailNow(n, m, E[m])
  <2>1. M[m] = RowNow(j, m, S[m]) /\ A[m] = TrailNow(j, m, E[m])
    BY DEF Simulates
  <2>2. Rewritten(n, S[m]) = Rewritten(j, S[m]) /\ RewriteEvent(n) = RewriteEvent(j)
    BY <1>3 DEF Rewritten, RewriteEvent
  <2>3. TrailSoFar(n, E[m]) = TrailSoFar(j, E[m])
    BY <1>3 DEF TrailSoFar
  <2>4. A[m] = TrailNow(n, m, E[m])
    BY <1>3, <2>1, <2>2, <2>3 DEF TrailNow
  <2>5. CASE m = j.old
    BY <1>2, <1>3, <2>2, <2>4, <2>5 DEF RowNow, Updated
  <2>6. CASE m # j.old
    BY <1>3, <2>1, <2>2, <2>4, <2>6 DEF RowNow, Updated
  <2> QED
    BY <2>5, <2>6
<1> QED
  BY <1>6, <1>7 DEF Simulates

\* After the event of a rewritten version: as before the next one, or the end.
LEMMA LogOldSimulates ==
  ASSUME NEW w \in Workers, NEW M, NEW A, NEW S, NEW E, Tables(w, S, E), NEW j \in Job, Sound(j),
         Simulates(w, j, M, A, S, E), j.pc = "log_old",
         NEW A1, Appended(w, A1, A, j.old, RewriteEvent(j)),
         NEW p, p.pc = "save_old", p.op = j.op, p.id = j.id, p.done = j.done \cup {j.old},
         p.todo = [m \in DOMAIN j.todo \ {j.old} |-> j.todo[m]],
         p.record \in {j.record, WithOld(j.record, j.old)},
         j.op = "ingest" \/ (j.op = "approve" /\ j.done = {}) => p.record = WithOld(j.record, j.old)
  PROVE  Simulates(w, p, M, A1, S, E)
<1>1. Plan(w, j, S, E)
  BY DEF Simulates
<1>2. /\ j.old \in Own(w) /\ j.old # j.id /\ j.old \notin j.done /\ j.todo[j.old] = S[j.old]
      /\ j.old \in DOMAIN j.todo /\ j.op \in {"ingest", "approve", "expire"}
  BY <1>1, OldIs, RewritesAre
<1>3. /\ DOMAIN p.todo = DOMAIN j.todo \ {j.old} /\ \A m \in DOMAIN p.todo : p.todo[m] = j.todo[m]
      /\ Rewrites(p) = Rewrites(j) /\ p.done # {}
  BY <1>2 DEF Rewrites
<1>4. ASSUME NEW r \in MemoryRecord, NEW status, NEW olds, Replacing(j, r, status, olds),
             j.op \in {"ingest", "approve"}
      PROVE  Replacing(p, r, status, olds)
  <2>1. Restates(j.record, r) /\ j.record.status = status /\ Rewrites(p) = olds
    BY <1>3, <1>4 DEF Replacing
  <2>2. CASE p.record = WithOld(j.record, j.old)
    BY <1>3, <1>4, <2>1, <2>2, RestatesWithOld DEF Replacing
  <2>3. CASE p.record = j.record /\ j.op = "approve" /\ j.done # {}
    BY <1>3, <1>4, <2>1, <2>3 DEF Replacing
  <2> QED
    BY <1>4, <2>2, <2>3
<1>5. ASSUME j.op = "ingest", NEW r \in RequestsOf[w], Ingests(j, r[2], S, E)
      PROVE  Ingests(p, r[2], S, E)
  <2>1. r[2] \in MemoryRecord
    BY OwnIds
  <2> QED
    BY <1>4, <1>5, <2>1 DEF Ingests, Undecided
<1>6. ASSUME j.op = "approve", Reviews(j, S)
      PROVE  Reviews(p, S)
  <2>1. S[j.id] \in MemoryRecord
    BY <1>1, <1>6, RecordIs DEF Undecided
  <2> QED
    BY <1>4, <1>6, <2>1 DEF Reviews
<1>7. Plan(w, p, S, E)
  BY <1>1, <1>2, <1>3, <1>5, <1>6 DEF Plan, Expires, Undecided
<1>8. ASSUME j.op # "expire"
      PROVE  Restates(p.record, j.record) /\ j.record \in MemoryRecord
  <2>1. j.record \in MemoryRecord
    BY <1>2, <1>8 DEF Sound, Shape
  <2>2. Restates(j.record, j.record)
    BY <2>1, RestatesItself
  <2> QED
    BY <2>1, <2>2, RestatesWithOld
<1>9. ASSUME NEW m \in Own(w)
      PROVE  M[m] = RowNow(p, m, S[m]) /\ A1[m] = TrailNow(p, m, E[m])
  <2>1. M[m] = RowNow(j, m, S[m]) /\ A[m] = TrailNow(j, m, E[m])
    BY DEF Simulates
  <2>2. Rewritten(p, S[m]) = Rewritten(j, S[m]) /\ RewriteEvent(p) = RewriteEvent(j)
    BY <1>8, RestatesDecides DEF Rewritten, RewriteEvent
  <2>3. TrailSoFar(p, E[m]) = TrailSoFar(j, E[m])
    BY <1>8, RestatesDecides DEF TrailSoFar
  <2>4. M[m] = RowNow(p, m, S[m])
    BY <1>2, <2>1, <2>2 DEF RowNow
  <2>5. A1[m] = TrailNow(p, m, E[m])
    <3>1. CASE m = j.old
      <4>1. A[m] = E[m] /\ TrailNow(p, m, E[m]) = Append(E[m], RewriteEvent(j))
        BY <1>2, <2>1, <2>2, <3>1 DEF TrailNow
      <4> QED
        BY <3>1, <4>1 DEF Appended
    <3>2. CASE m # j.old
      BY <2>1, <2>2, <2>3, <3>2 DEF TrailNow, Appended
    <3> QED
      BY <3>1, <3>2
  <2> QED
    BY <2>4, <2>5
<1> QED
  BY <1>7, <1>9 DEF Simulates

LEMMA SaveSimulates ==
  ASSUME NEW w \in Workers, NEW M, NEW A, NEW S, NEW E, NEW j,
         Simulates(w, j, M, A, S, E), j.pc = "save", j.op \in {"ingest", "approve", "reject"},
         NEW n, OnlyNext(j, n), n.pc = IF j.op = "ingest" THEN "log_status" ELSE "log_reviewed",
         NEW M1, Updated(w, M1, M, j.id, j.record)
  PROVE  Simulates(w, n, M1, A, S, E)
<1>1. Plan(w, j, S, E)
  BY DEF Simulates
<1>2. /\ n.op = j.op /\ n.id = j.id /\ n.done = j.done /\ n.record = j.record /\ n.old = j.old
      /\ n.todo = j.todo /\ Rewrites(n) = Rewrites(j) /\ n.pc \in {"log_status", "log_reviewed"}
      /\ j.op = "ingest" <=> n.pc = "log_status"
  BY DEF OnlyNext, Keeps, Rewrites
<1>3. \A s : Ingests(j, s, S, E) => Ingests(n, s, S, E)
  BY <1>2 DEF Ingests, Replacing, Undecided
<1>4. Reviews(j, S) => Reviews(n, S)
  BY <1>2 DEF Reviews, Replacing
<1>5. Plan(w, n, S, E)
  BY <1>1, <1>2, <1>3, <1>4 DEF Plan, Undecided
<1>6. ASSUME NEW m \in Own(w)
      PROVE  M1[m] = RowNow(n, m, S[m]) /\ A[m] = TrailNow(n, m, E[m])
  <2>1. M[m] = RowNow(j, m, S[m]) /\ A[m] = TrailNow(j, m, E[m])
    BY DEF Simulates
  <2>2. Rewritten(n, S[m]) = Rewritten(j, S[m]) /\ RewriteEvent(n) = RewriteEvent(j)
    BY <1>2 DEF Rewritten, RewriteEvent
  <2>3. TrailSoFar(n, E[m]) = TrailSoFar(j, E[m])
    BY <1>2 DEF TrailSoFar
  <2>4. M1[m] = RowNow(n, m, S[m])
    BY <1>2, <2>1, <2>2 DEF RowNow, Updated
  <2> QED
    BY <1>2, <2>1, <2>2, <2>3, <2>4 DEF TrailNow
<1> QED
  BY <1>5, <1>6 DEF Simulates

LEMMA LogReviewedSimulates ==
  ASSUME NEW w \in Workers, NEW M, NEW A, NEW S, NEW E, NEW j,
         Simulates(w, j, M, A, S, E), j.pc = "log_reviewed", j.op \in {"approve", "reject"},
         NEW A1, Appended(w, A1, A, j.id, Event("reviewed", j.record.status, j.done)),
         NEW n, OnlyNext(j, n), n.pc = "log_status"
  PROVE  Simulates(w, n, M, A1, S, E)
<1>1. Plan(w, j, S, E)
  BY DEF Simulates
<1>2. /\ n.op = j.op /\ n.id = j.id /\ n.done = j.done /\ n.record = j.record /\ n.old = j.old
      /\ n.todo = j.todo /\ Rewrites(n) = Rewrites(j)
  BY DEF OnlyNext, Keeps, Rewrites
<1>3. Reviews(j, S) => Reviews(n, S)
  BY <1>2 DEF Reviews, Replacing
<1>4. Plan(w, n, S, E)
  BY <1>1, <1>2, <1>3 DEF Plan, Undecided
<1>5. ASSUME NEW m \in Own(w)
      PROVE  M[m] = RowNow(n, m, S[m]) /\ A1[m] = TrailNow(n, m, E[m])
  <2>1. M[m] = RowNow(j, m, S[m]) /\ A[m] = TrailNow(j, m, E[m])
    BY DEF Simulates
  <2>2. Rewritten(n, S[m]) = Rewritten(j, S[m]) /\ RewriteEvent(n) = RewriteEvent(j)
    BY <1>2 DEF Rewritten, RewriteEvent
  <2>3. M[m] = RowNow(n, m, S[m])
    BY <1>2, <2>1, <2>2 DEF RowNow
  <2>4. CASE m = j.id
    <3>1. A[m] = E[m] /\ TrailNow(n, m, E[m]) = Append(E[m], Event("reviewed", j.record.status, j.done))
      BY <1>2, <2>1, <2>4 DEF TrailNow, TrailSoFar
    <3> QED
      BY <2>3, <2>4, <3>1 DEF Appended
  <2>5. CASE m # j.id
    BY <1>2, <2>1, <2>2, <2>3, <2>5 DEF TrailNow, Appended
  <2> QED
    BY <2>4, <2>5
<1> QED
  BY <1>4, <1>5 DEF Simulates
-----------------------------------------------------------------------------
(* The last call of an operation *)

\* The instance decides as this module does.
LEMMA ServiceDecides ==
  /\ \A r : Service!AdmissionStatus(r) = AdmissionStatus(r)
  /\ \A r : Service!WellFormedWindow(r) <=> WellFormedWindow(r)
  /\ \A r, admitted, active : Service!ResolvedStatus(r, admitted, active) = ResolvedStatus(r, admitted, active)
  /\ \A r, active : Service!ClosingOverflows(r, active) <=> ClosingOverflows(r, active)
  /\ \A old, r : Service!Closed(old, r) = Closed(old, r)
<1>1. \A r : Service!AdmissionStatus(r) = AdmissionStatus(r)
  BY DEF Service!AdmissionStatus, AdmissionStatus, Service!SOURCE_MINIMUMS, SOURCE_MINIMUMS,
         Service!SourceMinimum, SourceMinimum
<1>2. \A r : Service!Start(r) = Start(r) /\ Service!End(r) = End(r)
  BY DEF Service!Start, Start, Service!End, End
<1>3. \A r : Service!WellFormedWindow(r) <=> WellFormedWindow(r)
  BY <1>2 DEF Service!WellFormedWindow, WellFormedWindow
<1>4. \A old, r : Service!YieldsTo(old, r) <=> YieldsTo(old, r)
  BY <1>2 DEF Service!YieldsTo, YieldsTo
<1>5. \A r, admitted, active : Service!ResolvedStatus(r, admitted, active) = ResolvedStatus(r, admitted, active)
  BY <1>4 DEF Service!ResolvedStatus, ResolvedStatus
<1>6. \A r, active : Service!ClosingOverflows(r, active) <=> ClosingOverflows(r, active)
  BY DEF Service!ClosingOverflows, ClosingOverflows
<1>7. \A old, r : Service!Closed(old, r) = Closed(old, r)
  BY DEF Service!Closed, Closed
<1> QED
  BY <1>1, <1>3, <1>5, <1>6, <1>7

LEMMA ServiceLogs ==
  /\ \A type, status, ids : Service!Event(type, status, ids) = Event(type, status, ids)
  /\ Service!ScannedEvent = ScannedEvent
  /\ \A trail, r : Service!AdmissionTrail(trail, r) = AdmissionTrail(trail, r)
  /\ \A trail, status, olds : Service!ReviewTrail(trail, status, olds) = ReviewTrail(trail, status, olds)
<1>1. \A type, status, ids : Service!Event(type, status, ids) = Event(type, status, ids)
  BY DEF Service!Event, Event
<1>2. Service!ScannedEvent = ScannedEvent
  BY <1>1 DEF Service!ScannedEvent, ScannedEvent
<1>3. \A trail, r : Service!AdmissionTrail(trail, r) = AdmissionTrail(trail, r)
  BY <1>1, <1>2, ServiceDecides DEF Service!AdmissionTrail, AdmissionTrail
<1>4. \A trail, status, olds : Service!ReviewTrail(trail, status, olds) = ReviewTrail(trail, status, olds)
  BY <1>1 DEF Service!ReviewTrail, ReviewTrail
<1> QED
  BY <1>1, <1>2, <1>3, <1>4

\* The rows and trails of w are settled.
Ends(w) ==
  /\ settled_memories' = [id \in Ids |-> IF id \in Own(w) THEN memories'[id] ELSE settled_memories[id]]
  /\ settled_events' = [id \in Ids |-> IF id \in Own(w) THEN audit_events'[id] ELSE settled_events[id]]

\* Both tables, as a worker's job finds them.
SimulatesNow(w) ==
  Simulates(w, job[w], Shard(memories, w), Shard(audit_events, w),
            Shard(settled_memories, w), Shard(settled_events, w))

LEMMA RowsNow ==
  ASSUME NEW w \in Workers, SimulatesNow(w), NEW m \in Own(w)
  PROVE  /\ memories[m] = RowNow(job[w], m, settled_memories[m])
         /\ audit_events[m] = TrailNow(job[w], m, settled_events[m])
BY DEF SimulatesNow, Simulates, Shard

LEMMA NothingWrittenSettles ==
  ASSUME SettledOK, NEW w \in Workers, SimulatesNow(w), memories' = memories, Ends(w),
         job[w].done = {}, job[w].pc \notin {"log_old", "log_reviewed", "log_status"}
  PROVE  settled_memories' = settled_memories
<1>1. ASSUME NEW m \in Ids
      PROVE  settled_memories'[m] = settled_memories[m]
  <2>1. CASE m \in Own(w)
    BY <2>1, RowsNow DEF Ends, RowNow
  <2>2. CASE m \notin Own(w)
    BY <2>2 DEF Ends
  <2> QED
    BY <2>1, <2>2
<1> QED
  BY <1>1 DEF SettledOK, Ends

\* The trails of a shard, when one last event is written and they are settled.
LEMMA TrailsSettle ==
  ASSUME TypeOK, SettledOK, NEW w \in Workers, SimulatesNow(w), NEW id \in Ids, NEW event,
         Logs(id, event), Ends(w), NEW m \in Ids
  PROVE  settled_events'[m] = IF m \notin Own(w) THEN settled_events[m]
                              ELSE IF m = id THEN Append(TrailNow(job[w], m, settled_events[m]), event)
                              ELSE TrailNow(job[w], m, settled_events[m])
BY RowsNow DEF Ends, Logs, TypeOK

\* The trails of a shard, when an operation ends without an event.
LEMMA TrailsSettleSilently ==
  ASSUME SettledOK, NEW w \in Workers, SimulatesNow(w), audit_events' = audit_events, Ends(w),
         NEW m \in Ids
  PROVE  settled_events'[m] = IF m \notin Own(w) THEN settled_events[m]
                              ELSE TrailNow(job[w], m, settled_events[m])
BY RowsNow DEF Ends

\* What an ingest has found.
LEMMA IngestOf ==
  ASSUME SettledOK, NEW w \in Workers, SimulatesNow(w), job[w].op = "ingest"
  PROVE  \E r \in RequestsOf[w] :
           /\ r[1] = job[w].id /\ job[w].id \in Own(w) /\ job[w].id \in Ids
           /\ r[2] \in Submissions /\ r[2] \in MemoryRecord
           /\ Ingests(job[w], r[2], Shard(settled_memories, w), Shard(settled_events, w))
           /\ settled_memories[job[w].id] = NoRecord
           /\ ~Service!IsStored(job[w].id)
           /\ Len(settled_events[job[w].id]) < MaxTrail
<1>1. PICK r \in RequestsOf[w] : r[1] = job[w].id /\
        Ingests(job[w], r[2], Shard(settled_memories, w), Shard(settled_events, w))
  BY DEF SimulatesNow, Simulates, Plan
<1>2. /\ r[1] \in Own(w) /\ Own(w) \in SUBSET Ids /\ r[2] \in Submissions /\ r[2] \in MemoryRecord
  BY OwnIds
<1>3. settled_memories[r[1]] = NoRecord /\ Len(settled_events[r[1]]) < MaxTrail
  BY <1>1, <1>2 DEF Ingests, Shard
<1> QED
  BY <1>1, <1>2, <1>3 DEF Service!IsStored

LEMMA BlockedImplements ==
  ASSUME JobsInv, SettledOK, NEW w \in Workers, SimulatesNow(w), LogBlocked(w), Ends(w)
  PROVE  Service!Next
<1> DEFINE j == job[w]
           event == Event("security_blocked", "candidate", {})
<1>1. j.pc = "log_blocked" /\ Logs(j.id, event) /\ memories' = memories
  BY DEF LogBlocked, Logs
<1>2. TypeOK /\ j \in Job /\ Sound(j) /\ j.op = "ingest"
  BY <1>1 DEF JobsInv, Sound, Shape
<1>3. j.id \in Own(w) /\ j.id \in Ids /\ ~Service!IsStored(j.id) /\ Len(settled_events[j.id]) < MaxTrail
  BY <1>2, IngestOf
<1>4. j.done = {}
  BY <1>1 DEF SimulatesNow, Simulates, Plan, Undecided, Rewrites
<1>5. settled_memories' = settled_memories
  BY <1>1, <1>4, NothingWrittenSettles
<1>6. ASSUME NEW m \in Ids
      PROVE  settled_events'[m] = IF m = j.id THEN Append(Append(settled_events[m], ScannedEvent), event)
                                  ELSE settled_events[m]
  <2>1. TrailNow(j, m, settled_events[m]) = IF m = j.id THEN Append(settled_events[m], ScannedEvent)
                                            ELSE settled_events[m]
    BY <1>1, <1>2, <1>4 DEF TrailNow, TrailSoFar
  <2> HIDE DEF event
  <2>2. settled_events'[m] = IF m \notin Own(w) THEN settled_events[m]
                             ELSE IF m = j.id THEN Append(TrailNow(j, m, settled_events[m]), event)
                             ELSE TrailNow(j, m, settled_events[m])
    BY <1>1, <1>2, <1>3, TrailsSettle
  <2> QED
    BY <1>3, <2>1, <2>2
<1>7. settled_events' = [settled_events EXCEPT ![j.id] = Append(Append(@, ScannedEvent), event)]
  BY <1>3, <1>6 DEF SettledOK, Ends
<1>8. Service!IngestBlocked(j.id)
  BY <1>3, <1>5, <1>7, ServiceLogs DEF Service!IngestBlocked
<1> QED
  BY <1>3, <1>8 DEF Service!Next

\* An ingest that gives up leaves its admission on the trail.
LEMMA FailureImplements ==
  ASSUME JobsInv, SettledOK, Divided(settled_memories), NEW w \in Workers, SimulatesNow(w),
         job[w].op = "ingest", job[w].done = {}, job[w].pc \in {"resolve", "get_old"},
         \/ ~LoadsIn(Shard(settled_memories, w), job[w].record.conflict_key)
         \/ job[w].pc = "get_old" /\ job[w].record.valid_from = MinDate,
         memories' = memories, audit_events' = audit_events, Ends(w)
  PROVE  Service!Next
<1> DEFINE j == job[w]
           S == Shard(settled_memories, w)
<1>1. TypeOK /\ j \in Job /\ Sound(j)
  BY DEF JobsInv
<1>2. PICK r \in RequestsOf[w] :
        /\ r[1] = j.id /\ j.id \in Own(w) /\ j.id \in Ids
        /\ r[2] \in Submissions /\ r[2] \in MemoryRecord
        /\ Ingests(j, r[2], S, Shard(settled_events, w))
        /\ settled_memories[j.id] = NoRecord
        /\ ~Service!IsStored(j.id)
        /\ Len(settled_events[j.id]) < MaxTrail
  BY IngestOf
<1>3. Restates(j.record, r[2])
  <2>1. CASE j.pc = "resolve"
    <3>1. j.record = WithStatus(r[2], AdmissionStatus(r[2])) /\ Restates(r[2], r[2])
      BY <1>2, <2>1, RestatesItself DEF Ingests, Undecided, WithStatus
    <3> QED
      BY <1>2, <3>1, RestatesWithStatus
  <2>2. CASE j.pc = "get_old"
    BY <1>2, <2>2 DEF Ingests, Undecided, Replacing
  <2> QED
    BY <2>1, <2>2
<1>4. /\ j.record.conflict_key = r[2].conflict_key /\ j.record.valid_from = r[2].valid_from
      /\ \A trail : AdmissionTrail(trail, j.record) = AdmissionTrail(trail, r[2])
  BY <1>2, <1>3, RestatesDecides
<1>5. settled_memories' = settled_memories
  BY NothingWrittenSettles
<1>6. ASSUME NEW m \in Ids
      PROVE  settled_events'[m] = IF m = j.id THEN AdmissionTrail(settled_events[m], r[2])
                                  ELSE settled_events[m]
  <2>1. TrailNow(j, m, settled_events[m]) = IF m = j.id THEN AdmissionTrail(settled_events[m], r[2])
                                            ELSE settled_events[m]
    BY <1>4 DEF TrailNow, TrailSoFar
  <2> QED
    BY <1>2, <2>1, TrailsSettleSilently
<1>7. settled_events' = [settled_events EXCEPT ![j.id] = Service!AdmissionTrail(@, r[2])]
  BY <1>2, <1>6, ServiceLogs DEF SettledOK, Ends
<1>8. \/ ~Service!KeyLoads(r[2].conflict_key)
      \/ LET active == Service!ActiveConflicts(j.id, r[2]) IN
         /\ Service!ResolvedStatus(r[2], Service!AdmissionStatus(r[2]), Service!Versions(active))
              = "verified_active"
         /\ Service!ClosingOverflows(r[2], active)
  <2>1. CASE ~LoadsIn(S, j.record.conflict_key)
    BY <1>2, <1>4, <2>1, SettledReadsShard
  <2>2. CASE j.pc = "get_old" /\ j.record.valid_from = MinDate
    <3> DEFINE active == RivalsIn(S, j.id, r[2])
    <3>1. Service!ActiveConflicts(j.id, r[2]) = active
      BY SettledReadsShard
    <3>2. Rewrites(j) = Loses(S, j.id, r[2]) /\ Rewrites(j) # {}
      <4>1. j.old \in Rewrites(j)
        BY <1>1, <2>2 DEF Sound, Shape, Rewrites
      <4> QED
        BY <1>2, <2>2, <4>1 DEF Ingests, Undecided, Replacing
    <3>3. Decision(S, j.id, r[2]) = "verified_active" /\ active # {}
      BY <3>2 DEF Loses
    <3>4. Service!Versions(active) = {S[o] : o \in active}
      <4>1. active \in SUBSET Own(w)
        BY DEF RivalsIn, Shard
      <4> HIDE DEF active
      <4> QED
        BY <4>1 DEF Service!Versions, Shard
    <3> QED
      BY <1>4, <2>2, <3>1, <3>3, <3>4, ServiceDecides DEF Decision, ClosingOverflows
  <2> QED
    BY <2>1, <2>2
<1>9. Service!IngestFails(j.id, r[2])
  BY <1>2, <1>5, <1>7, <1>8 DEF Service!IngestFails
<1> QED
  BY <1>2, <1>9 DEF Service!Next

\* An approval that is refused leaves nothing.
LEMMA RefusalStutters ==
  ASSUME SettledOK, NEW w \in Workers, SimulatesNow(w), job[w].op = "approve", job[w].pc = "check",
         memories' = memories, audit_events' = audit_events, Ends(w)
  PROVE  UNCHANGED <<settled_memories, settled_events>>
<1>1. job[w].done = {}
  BY DEF SimulatesNow, Simulates, Plan, Undecided, Rewrites
<1>2. settled_memories' = settled_memories
  BY <1>1, NothingWrittenSettles
<1>3. ASSUME NEW m \in Ids
      PROVE  settled_events'[m] = settled_events[m]
  <2>1. TrailNow(job[w], m, settled_events[m]) = settled_events[m]
    BY <1>1 DEF TrailNow, TrailSoFar
  <2> QED
    BY <2>1, TrailsSettleSilently
<1>4. settled_events' = settled_events
  BY <1>3 DEF SettledOK, Ends
<1> QED
  BY <1>2, <1>4

\* Both tables once a record that is saved has its last event.
LEMMA StatusSettles ==
  ASSUME JobsInv, SettledOK, NEW w \in Workers, SimulatesNow(w), job[w].pc = "log_status",
         NEW event, Logs(job[w].id, event), Ends(w)
  PROVE  /\ job[w].id \in Own(w) /\ job[w].id \in Ids
         /\ \A m \in Ids : settled_memories'[m] =
              IF m = job[w].id THEN job[w].record
              ELSE IF m \in job[w].done THEN Closed(settled_memories[m], job[w].record)
              ELSE settled_memories[m]
         /\ \A m \in Ids : settled_events'[m] =
              IF m = job[w].id THEN Append(TrailSoFar(job[w], settled_events[m]), event)
              ELSE IF m \in job[w].done
              THEN Append(settled_events[m], Event("superseded", "superseded", {job[w].id}))
              ELSE settled_events[m]
<1> DEFINE j == job[w]
<1>1. TypeOK /\ j \in Job /\ Sound(j) /\ j.op \in {"ingest", "approve", "reject"} /\ memories' = memories
  BY DEF JobsInv, Sound, Shape, Logs
<1>2. j.id \in Own(w) /\ Own(w) \in SUBSET Ids /\ j.done \in SUBSET Own(w)
  BY <1>1, OwnIds DEF SimulatesNow, Simulates, Plan, Rewrites
<1>3. ASSUME NEW m \in Ids
      PROVE  settled_memories'[m] = IF m = j.id THEN j.record
                                    ELSE IF m \in j.done THEN Closed(settled_memories[m], j.record)
                                    ELSE settled_memories[m]
  <2>1. CASE m \in Own(w)
    <3>1. settled_memories'[m] = RowNow(j, m, settled_memories[m])
      BY <1>1, <2>1, RowsNow DEF Ends
    <3> QED
      BY <1>1, <3>1 DEF RowNow, Rewritten
  <2>2. CASE m \notin Own(w)
    BY <1>2, <2>2 DEF Ends
  <2> QED
    BY <2>1, <2>2
<1>4. ASSUME NEW m \in Ids
      PROVE  settled_events'[m] =
               IF m = j.id THEN Append(TrailSoFar(j, settled_events[m]), event)
               ELSE IF m \in j.done
               THEN Append(settled_events[m], Event("superseded", "superseded", {j.id}))
               ELSE settled_events[m]
  <2>1. settled_events'[m] = IF m \notin Own(w) THEN settled_events[m]
                             ELSE IF m = j.id THEN Append(TrailNow(j, m, settled_events[m]), event)
                             ELSE TrailNow(j, m, settled_events[m])
    BY <1>1, <1>2, TrailsSettle
  <2> QED
    BY <1>1, <1>2, <2>1 DEF TrailNow, RewriteEvent
<1> QED
  BY <1>2, <1>3, <1>4

LEMMA IngestImplements ==
  ASSUME JobsInv, SettledOK, Divided(settled_memories), NEW w \in Workers, SimulatesNow(w),
         LogStatus(w), job[w].op = "ingest", Ends(w)
  PROVE  Service!Next
<1> DEFINE j == job[w]
           S == Shard(settled_memories, w)
           event == Event("status_changed", j.record.status, {})
<1>1. j.pc = "log_status" /\ Logs(j.id, event)
  BY DEF LogStatus
<1>2. PICK r \in RequestsOf[w] :
        /\ r[1] = j.id /\ j.id \in Own(w) /\ j.id \in Ids
        /\ r[2] \in Submissions /\ r[2] \in MemoryRecord
        /\ Ingests(j, r[2], S, Shard(settled_events, w))
        /\ settled_memories[j.id] = NoRecord
        /\ ~Service!IsStored(j.id)
        /\ Len(settled_events[j.id]) < MaxTrail
  BY IngestOf
<1> DEFINE active == RivalsIn(S, j.id, r[2])
           status == Decision(S, j.id, r[2])
           olds == Loses(S, j.id, r[2])
<1>3. Rewrites(j) = j.done
  BY <1>1 DEF SimulatesNow, Simulates, Plan, Rewrites
<1>4. /\ LoadsIn(S, r[2].conflict_key) /\ Restates(j.record, r[2]) /\ j.record.status = status
      /\ j.record.supersedes \in IF olds = {} THEN {r[2].supersedes} ELSE olds
      /\ j.done = olds
  BY <1>1, <1>2, <1>3 DEF Ingests, Undecided, Replacing
<1>5. Service!ActiveConflicts(j.id, r[2]) = active /\ Service!KeyLoads(r[2].conflict_key)
  BY <1>4, SettledReadsShard
<1>6. Service!Versions(active) = {S[o] : o \in active}
  <2>1. active \in SUBSET Own(w)
    BY DEF RivalsIn, Shard
  <2> HIDE DEF active
  <2> QED
    BY <2>1 DEF Service!Versions, Shard
<1>7. Service!ResolvedStatus(r[2], Service!AdmissionStatus(r[2]), Service!Versions(active)) = status
  BY <1>6, ServiceDecides DEF Decision
<1>8. olds = IF status = "verified_active" THEN active ELSE {}
  BY DEF Loses
<1>9. ~Service!ClosingOverflows(r[2], olds)
  <2>1. olds # {} => r[2].valid_from # MinDate
    <3>1. j.done # {} => j.record.valid_from # MinDate
      BY DEF JobsInv, Sound, Closes
    <3> QED
      BY <1>2, <1>4, <3>1, RestatesDecides
  <2> QED
    BY <2>1, ServiceDecides DEF ClosingOverflows
<1>10. j.record = [r[2] EXCEPT !.status = status, !.supersedes = j.record.supersedes]
  BY <1>4 DEF Restates
<1>11. /\ settled_memories' = [m \in Ids |->
            IF m = j.id THEN j.record
            ELSE IF m \in olds THEN Service!Closed(settled_memories[m], j.record)
            ELSE settled_memories[m]]
       /\ settled_events' = [m \in Ids |->
            IF m = j.id THEN Append(Service!AdmissionTrail(settled_events[m], r[2]),
                                    Service!Event("status_changed", status, {}))
            ELSE IF m \in olds
            THEN Append(settled_events[m], Service!Event("superseded", "superseded", {j.id}))
            ELSE settled_events[m]]
  <2>1. \A trail : TrailSoFar(j, trail) = AdmissionTrail(trail, r[2])
    BY <1>1, <1>2, <1>4, RestatesDecides DEF TrailSoFar
  <2> HIDE DEF olds, status, event
  <2>2. /\ \A m \in Ids : settled_memories'[m] =
             IF m = j.id THEN j.record
             ELSE IF m \in j.done THEN Closed(settled_memories[m], j.record)
             ELSE settled_memories[m]
        /\ \A m \in Ids : settled_events'[m] =
             IF m = j.id THEN Append(TrailSoFar(j, settled_events[m]), event)
             ELSE IF m \in j.done
             THEN Append(settled_events[m], Event("superseded", "superseded", {j.id}))
             ELSE settled_events[m]
    BY <1>1, StatusSettles
  <2>3. event = Service!Event("status_changed", status, {})
    BY <1>4, ServiceLogs DEF event
  <2>4. ASSUME NEW m \in Ids
        PROVE  /\ settled_memories'[m] =
                    IF m = j.id THEN j.record
                    ELSE IF m \in olds THEN Service!Closed(settled_memories[m], j.record)
                    ELSE settled_memories[m]
               /\ settled_events'[m] =
                    IF m = j.id THEN Append(Service!AdmissionTrail(settled_events[m], r[2]),
                                            Service!Event("status_changed", status, {}))
                    ELSE IF m \in olds
                    THEN Append(settled_events[m], Service!Event("superseded", "superseded", {j.id}))
                    ELSE settled_events[m]
    BY <1>4, <2>1, <2>2, <2>3, ServiceDecides, ServiceLogs, SMTT(30)
  <2> QED
    BY <2>4 DEF Ends
<1>12. Service!Ingest(j.id, r[2])
  <2>1. Service!SaveReplacing(j.id, [r[2] EXCEPT !.status = status,
                                                 !.supersedes = j.record.supersedes], olds)
    BY <1>10, <1>11 DEF Service!SaveReplacing
  <2> HIDE DEF active, status, olds
  <2> QED
    BY <1>2, <1>4, <1>5, <1>7, <1>8, <1>9, <1>11, <2>1 DEF Service!Ingest
<1> QED
  BY <1>2, <1>12 DEF Service!Next

\* What a review has found.
LEMMA ReviewOf ==
  ASSUME SettledOK, NEW w \in Workers, SimulatesNow(w), job[w].op \in {"approve", "reject"}
  PROVE  /\ Reviews(job[w], Shard(settled_memories, w))
         /\ job[w].id \in Own(w) /\ job[w].id \in Ids
         /\ Shard(settled_memories, w)[job[w].id] = settled_memories[job[w].id]
         /\ settled_memories[job[w].id] \in MemoryRecord
         /\ Service!CanReview(job[w].id)
<1>1. /\ Reviews(job[w], Shard(settled_memories, w)) /\ job[w].id \in Own(w)
  BY DEF SimulatesNow, Simulates, Plan
<1>2. job[w].id \in Ids /\ Shard(settled_memories, w)[job[w].id] = settled_memories[job[w].id]
  BY <1>1, OwnIds DEF Shard
<1> QED
  BY <1>1, <1>2, ServiceDecides DEF Reviews, SettledOK, Service!CanReview, Service!IsStored

LEMMA RejectImplements ==
  ASSUME JobsInv, SettledOK, NEW w \in Workers, SimulatesNow(w), LogStatus(w),
         job[w].op = "reject", Ends(w)
  PROVE  Service!Next
<1> DEFINE j == job[w]
           event == Event("status_changed", j.record.status, {})
<1>1. j.pc = "log_status" /\ Logs(j.id, event)
  BY DEF LogStatus
<1>2. /\ Reviews(j, Shard(settled_memories, w)) /\ j.id \in Ids
      /\ Shard(settled_memories, w)[j.id] = settled_memories[j.id]
      /\ settled_memories[j.id] \in MemoryRecord /\ Service!CanReview(j.id)
  BY ReviewOf
<1>3. j.record = [settled_memories[j.id] EXCEPT !.status = "rejected"] /\ j.done = {}
  BY <1>2 DEF Reviews, Rewrites
<1>4. j.record.status = "rejected"
  BY <1>2, <1>3 DEF MemoryRecord
<1>5. settled_memories' = [settled_memories EXCEPT ![j.id].status = "rejected"]
  <2> HIDE DEF event
  <2>1. \A m \in Ids : settled_memories'[m] = IF m = j.id THEN j.record ELSE settled_memories[m]
    BY <1>1, <1>3, StatusSettles
  <2>2. \A m \in Ids : settled_memories'[m] =
              IF m = j.id THEN [settled_memories[m] EXCEPT !.status = "rejected"]
              ELSE settled_memories[m]
    BY <1>3, <2>1
  <2>3. DOMAIN settled_memories = Ids /\ DOMAIN settled_memories' = Ids
        /\ settled_memories' = [m \in Ids |-> settled_memories'[m]]
    BY DEF SettledOK, Ends
  <2> HIDE DEF j
  <2> QED
    BY <1>2, <2>2, <2>3, SMTT(30)
<1>6. \A trail : Append(TrailSoFar(j, trail), event) = ReviewTrail(trail, "rejected", {})
  BY <1>1, <1>3, <1>4 DEF TrailSoFar, ReviewTrail
<1>7. settled_events' = [settled_events EXCEPT ![j.id] = Service!ReviewTrail(@, "rejected", {})]
  <2> HIDE DEF event
  <2>1. \A m \in Ids : settled_events'[m] =
              IF m = j.id THEN Append(TrailSoFar(j, settled_events[m]), event)
              ELSE IF m \in j.done
              THEN Append(settled_events[m], Event("superseded", "superseded", {j.id}))
              ELSE settled_events[m]
    BY <1>1, StatusSettles
  <2>2. \A m \in Ids : settled_events'[m] =
          IF m = j.id THEN Append(TrailSoFar(j, settled_events[m]), event) ELSE settled_events[m]
    BY <1>3, <2>1
  <2>3. \A m \in Ids : settled_events'[m] =
          IF m = j.id THEN Service!ReviewTrail(settled_events[m], "rejected", {}) ELSE settled_events[m]
    BY <1>6, <2>2, ServiceLogs
  <2> QED
    BY <1>2, <2>3 DEF SettledOK, Ends
<1>8. Service!Reject(j.id)
  BY <1>2, <1>5, <1>7 DEF Service!Reject
<1> QED
  BY <1>2, <1>8 DEF Service!Next

LEMMA ApproveImplements ==
  ASSUME JobsInv, SettledOK, Divided(settled_memories), NEW w \in Workers, SimulatesNow(w),
         LogStatus(w), job[w].op = "approve", Ends(w)
  PROVE  Service!Next
<1> DEFINE j == job[w]
           S == Shard(settled_memories, w)
           record == settled_memories[j.id]
           olds == RivalsIn(S, j.id, record)
           event == Event("status_changed", j.record.status, {})
<1>1. j.pc = "log_status" /\ Logs(j.id, event)
  BY DEF LogStatus
<1>2. /\ Reviews(j, S) /\ j.id \in Own(w) /\ j.id \in Ids /\ S[j.id] = record
      /\ record \in MemoryRecord /\ Service!CanReview(j.id)
  BY ReviewOf
<1>3. Rewrites(j) = j.done
  BY <1>1 DEF SimulatesNow, Simulates, Plan, Rewrites
<1>4. /\ MayApprove(S, j.id) /\ Restates(j.record, record) /\ j.record.status = "verified_active"
      /\ j.record.supersedes \in IF olds = {} THEN {record.supersedes} ELSE olds
      /\ j.done = olds
  BY <1>1, <1>2, <1>3 DEF Reviews, Replacing
<1>5. PICK r \in RequestsOf[w] : From(record, r[2])
  <2>1. Descends(w, S)
    BY DEF Divided
  <2> QED
    BY <1>2, <2>1, NamesAssumption DEF Descends
<1>6. Service!ActiveConflicts(j.id, record) = olds /\ Service!KeyLoads(record.conflict_key)
  BY <1>2, <1>4, <1>5, SettledReadsShard DEF From, MayApprove
<1>7. \A o \in olds : S[o] = settled_memories[o]
  BY DEF RivalsIn, Shard
<1>8. Service!CanApprove(record, olds)
  <2>1. /\ record.evidence /\ (olds = {} \/ record.valid_from # NoDate)
        /\ \A o \in olds : record.authority > S[o].authority
        /\ ~ClosingOverflows(record, olds)
    BY <1>2, <1>4 DEF MayApprove
  <2> HIDE DEF olds
  <2> QED
    BY <1>6, <1>7, <2>1, ServiceDecides DEF Service!CanApprove, Service!Outranks
<1>9. j.record = [record EXCEPT !.status = "verified_active", !.supersedes = j.record.supersedes]
  BY <1>4 DEF Restates
<1>10. /\ settled_memories' = [m \in Ids |->
            IF m = j.id THEN j.record
            ELSE IF m \in olds THEN Service!Closed(settled_memories[m], j.record)
            ELSE settled_memories[m]]
       /\ settled_events' = [m \in Ids |->
            IF m = j.id THEN Service!ReviewTrail(settled_events[m], "verified_active", olds)
            ELSE IF m \in olds
            THEN Append(settled_events[m], Service!Event("superseded", "superseded", {j.id}))
            ELSE settled_events[m]]
  <2>1. \A trail : Append(TrailSoFar(j, trail), event) = ReviewTrail(trail, "verified_active", olds)
    BY <1>1, <1>4 DEF TrailSoFar, ReviewTrail
  <2> HIDE DEF olds, event
  <2>2. /\ \A m \in Ids : settled_memories'[m] =
             IF m = j.id THEN j.record
             ELSE IF m \in j.done THEN Closed(settled_memories[m], j.record)
             ELSE settled_memories[m]
        /\ \A m \in Ids : settled_events'[m] =
             IF m = j.id THEN Append(TrailSoFar(j, settled_events[m]), event)
             ELSE IF m \in j.done
             THEN Append(settled_events[m], Event("superseded", "superseded", {j.id}))
             ELSE settled_events[m]
    BY <1>1, StatusSettles
  <2>3. ASSUME NEW m \in Ids
        PROVE  /\ settled_memories'[m] =
                    IF m = j.id THEN j.record
                    ELSE IF m \in olds THEN Service!Closed(settled_memories[m], j.record)
                    ELSE settled_memories[m]
               /\ settled_events'[m] =
                    IF m = j.id THEN Service!ReviewTrail(settled_events[m], "verified_active", olds)
                    ELSE IF m \in olds
                    THEN Append(settled_events[m], Service!Event("superseded", "superseded", {j.id}))
                    ELSE settled_events[m]
    BY <1>4, <2>1, <2>2, ServiceDecides, ServiceLogs
  <2> QED
    BY <2>3 DEF Ends
<1>11. Service!Approve(j.id)
  <2>1. Service!SaveReplacing(j.id, [record EXCEPT !.status = "verified_active",
                                                   !.supersedes = j.record.supersedes], olds)
    BY <1>9, <1>10 DEF Service!SaveReplacing
  <2> HIDE DEF olds
  <2> QED
    BY <1>2, <1>4, <1>6, <1>8, <1>10, <2>1 DEF Service!Approve
<1> QED
  BY <1>2, <1>11 DEF Service!Next

\* A worker finds all chunks of its pages in its shard.
LEMMA PagesInShard ==
  ASSUME Divided(memories), NEW w \in Workers, NEW t, NEW p \in PagesOf[w], NEW statuses
  PROVE  RowsOfPage(t, p, statuses) = OfPage(Shard(memories, w), t, p, statuses)
<1>1. Own(w) \in SUBSET Ids
  BY OwnIds
<1>2. ASSUME NEW id \in Ids, memories[id] # NoRecord, memories[id].page_id = p
      PROVE  id \in Own(w)
  BY <1>2, PageIsOwn
<1> QED
  BY <1>1, <1>2 DEF RowsOfPage, OfPage, Stored, IsStored, Shard

LEMMA SettledPagesInShard ==
  ASSUME Divided(settled_memories), NEW w \in Workers, NEW t, NEW p \in PagesOf[w], NEW statuses
  PROVE  Service!RowsOfPage(t, p, statuses) = OfPage(Shard(settled_memories, w), t, p, statuses)
<1>1. Own(w) \in SUBSET Ids
  BY OwnIds
<1>2. ASSUME NEW id \in Ids, settled_memories[id] # NoRecord, settled_memories[id].page_id = p
      PROVE  id \in Own(w)
  BY <1>2, PageIsOwn
<1> QED
  BY <1>1, <1>2 DEF Service!RowsOfPage, OfPage, Service!Stored, Service!IsStored, Shard

\* Where a worker has pages, every settled row loads if its own do.
LEMMA SettledRowsLoad ==
  ASSUME Divided(settled_memories), \A v \in Workers : Readable(v, Shard(settled_memories, v)),
         NEW w \in Workers, PagesOf[w] # {},
         \A id \in Own(w) : settled_memories[id] # NoRecord => WellFormedWindow(settled_memories[id])
  PROVE  \A id \in Service!Stored : Service!WellFormedWindow(settled_memories[id])
<1> SUFFICES ASSUME NEW id \in Ids, settled_memories[id] # NoRecord
             PROVE  WellFormedWindow(settled_memories[id])
  BY ServiceDecides DEF Service!Stored, Service!IsStored
<1>1. PICK v \in Workers : id \in Own(v)
  BY DEF Divided
<1>2. CASE v = w
  BY <1>1, <1>2
<1>3. CASE v # w
  <2>1. IsRead(v)
    BY <1>3 DEF IsRead
  <2> QED
    BY <1>1, <2>1 DEF Readable, Shard
<1> QED
  BY <1>2, <1>3

LEMMA ExpiryImplements ==
  ASSUME JobsInv, SettledOK, Divided(settled_memories),
         \A v \in Workers : Readable(v, Shard(settled_memories, v)),
         NEW w \in Workers, SimulatesNow(w), LogOld(w), job'[w] = NoWork, Ends(w)
  PROVE  Service!Next
<1> DEFINE j == job[w]
           S == Shard(settled_memories, w)
           ids == j.done \cup {j.old}
           event == Event("status_changed", "expired", {})
<1>1. TypeOK /\ j \in Job /\ Sound(j) /\ Shape(j) /\ SettledOK
  BY DEF JobsInv, Sound
<1>2. j.pc = "log_old" /\ j.op = "expire" /\ j.old \in Ids
  BY LogOldDoes, NoWorkSound
<1>3. Logs(j.old, event) /\ memories' = memories
  BY <1>2 DEF LogOld, Logs
<1>4. DOMAIN j.todo = {j.old} /\ Rewrites(j) = ids
  <2> DEFINE left == [m \in DOMAIN j.todo \ {j.old} |-> j.todo[m]]
  <2>1. PICK k \in Job : NoWork \in TurnTo(k, left)
    <3> DEFINE names == j.op \in (IF j.done = {} THEN {"ingest", "approve"} ELSE {"ingest"})
               after == [j EXCEPT !.done = @ \cup {j.old},
                                  !.record = IF names THEN [@ EXCEPT !.supersedes = j.old] ELSE @]
    <3>1. PICK n \in TurnTo(after, left) : job' = [job EXCEPT ![w] = n]
      BY DEF LogOld
    <3>2. after = [j EXCEPT !.done = j.done \cup {j.old}]
      BY <1>1, <1>2 DEF Job
    <3> HIDE DEF after
    <3>3. after \in Job
      BY <1>1, <1>2, <3>2 DEF Job
    <3>4. n = NoWork
      BY <3>1 DEF JobsInv
    <3> QED
      BY <3>1, <3>3, <3>4
  <2>2. DOMAIN left = {}
    <3>1. CASE DOMAIN left # {}
      <4>1. PICK pc \in {"get_old", "save_old"}, m \in DOMAIN left :
              NoWork = [k EXCEPT !.pc = pc, !.old = m, !.todo = left]
        BY <2>1, <3>1 DEF TurnTo
      <4>2. NoWork.pc = pc
        BY <4>1 DEF Job
      <4> QED
        BY <4>2, NoWorkSound
    <3> QED
      BY <3>1
  <2>3. j.old \in DOMAIN j.todo
    BY <1>1, <1>2 DEF Shape
  <2> QED
    BY <2>2, <2>3 DEF Rewrites
<1>5. Plan(w, j, S, Shard(settled_events, w))
  BY DEF SimulatesNow, Simulates
<1>6. ids \in SUBSET Own(w) /\ ids \in Expirable(w, S) /\ Own(w) \in SUBSET Ids
      /\ j.old \notin j.done /\ j.id = NoId /\ NoId \notin Ids
  BY <1>1, <1>2, <1>4, <1>5, OwnIds, NamesAssumption DEF Plan, Expires, Shape
<1>7. \A id \in Own(w) : settled_memories[id] # NoRecord => WellFormedWindow(settled_memories[id])
  BY <1>2, <1>5 DEF Plan, Expires, Shard
<1>8. PagesOf[w] # {}
  <2>1. ids # {}
    OBVIOUS
  <2>2. \A t : \A gone \in SUBSET {} : OfPages(S, t, gone) = {}
    BY DEF OfPages
  <2> QED
    BY <1>6, <2>1, <2>2 DEF Expirable
<1>9. ASSUME NEW m \in Ids
      PROVE  settled_memories'[m] = IF m \in ids THEN [settled_memories[m] EXCEPT !.status = "expired"]
                                    ELSE settled_memories[m]
  <2>1. CASE m \in Own(w)
    <3>1. settled_memories'[m] = RowNow(j, m, settled_memories[m])
      BY <1>3, <2>1, RowsNow DEF Ends
    <3> QED
      BY <1>2, <1>6, <3>1 DEF RowNow, Rewritten
  <2>2. CASE m \notin Own(w)
    BY <1>6, <2>2 DEF Ends
  <2> QED
    BY <2>1, <2>2
<1>10. ASSUME NEW m \in Ids
       PROVE  settled_events'[m] = IF m \in ids THEN Append(settled_events[m], event)
                                   ELSE settled_events[m]
  <2>1. TrailNow(j, m, settled_events[m]) = IF m \in j.done THEN Append(settled_events[m], event)
                                            ELSE settled_events[m]
    BY <1>2, <1>6 DEF TrailNow, RewriteEvent
  <2> HIDE DEF event
  <2>2. settled_events'[m] = IF m \notin Own(w) THEN settled_events[m]
                             ELSE IF m = j.old THEN Append(TrailNow(j, m, settled_events[m]), event)
                             ELSE TrailNow(j, m, settled_events[m])
    BY <1>1, <1>2, <1>3, TrailsSettle
  <2> QED
    BY <1>6, <2>1, <2>2
<1>11. Service!ExpireRows(ids)
  <2>1. \A id \in Service!Stored : Service!WellFormedWindow(settled_memories[id])
    BY <1>7, <1>8, SettledRowsLoad
  <2>2. settled_memories' = [m \in Ids |->
          IF m \in ids THEN [settled_memories[m] EXCEPT !.status = "expired"] ELSE settled_memories[m]]
    BY <1>9 DEF Ends
  <2>3. settled_events' = [m \in Ids |->
          IF m \in ids THEN Append(settled_events[m], Service!Event("status_changed", "expired", {}))
          ELSE settled_events[m]]
    BY <1>10, ServiceLogs DEF Ends
  <2> QED
    BY <2>1, <2>2, <2>3 DEF Service!ExpireRows
<1> HIDE DEF ids
<1>12. PagesOf[w] \in SUBSET Pages
  BY ShardsAssumption
<1>13. CASE \E t \in Tenants, p \in PagesOf[w], v \in PageVersions :
              ids = {id \in OfPage(S, t, p, {"pending"}) : S[id].page_version # v}
  <2>1. PICK t \in Tenants, p \in PagesOf[w], v \in PageVersions :
          ids = {id \in OfPage(S, t, p, {"pending"}) : S[id].page_version # v}
    BY <1>13
  <2>2. OfPage(S, t, p, {"pending"}) = Service!RowsOfPage(t, p, {"pending"})
    BY SettledPagesInShard
  <2>3. \A id \in OfPage(S, t, p, {"pending"}) : S[id] = settled_memories[id]
    BY DEF OfPage, Shard
  <2>4. ids = {id \in Service!RowsOfPage(t, p, {"pending"}) : settled_memories[id].page_version # v}
    BY <2>1, <2>2, <2>3
  <2>5. Service!ExpireReplaced(t, p, v)
    BY <1>11, <2>4 DEF Service!ExpireReplaced
  <2>6. v \in Service!PageVersions
    BY DEF PageVersions, Service!PageVersions
  <2> QED
    BY <1>12, <2>5, <2>6 DEF Service!Next
<1>14. CASE \E t \in Tenants, gone \in SUBSET PagesOf[w] : ids = OfPages(S, t, gone)
  <2>1. PICK t \in Tenants, gone \in SUBSET PagesOf[w] : ids = OfPages(S, t, gone)
    BY <1>14
  <2>2. \A p \in gone : OfPage(S, t, p, {"pending", "verified_active"})
                        = Service!RowsOfPage(t, p, {"pending", "verified_active"})
    BY SettledPagesInShard
  <2>3. ids = UNION {Service!RowsOfPage(t, p, {"pending", "verified_active"}) : p \in gone}
    BY <2>1, <2>2 DEF OfPages
  <2>4. Service!ExpireMissing(t, gone)
    BY <1>11, <2>3 DEF Service!ExpireMissing
  <2>5. gone \in SUBSET Pages
    BY <1>12
  <2> QED
    BY <2>4, <2>5 DEF Service!Next
<1> QED
  BY <1>6, <1>13, <1>14 DEF Expirable

-----------------------------------------------------------------------------
(* Every step of a worker *)

LEMMA TablesNow ==
  ASSUME JobsInv, SettledOK, NEW w \in Workers
  PROVE  /\ Tables(w, Shard(settled_memories, w), Shard(settled_events, w))
         /\ Shard(memories, w) \in [Own(w) -> MemoryRecord \cup {NoRecord}]
<1>1. Own(w) \in SUBSET Ids
  BY OwnIds
<1> QED
  BY <1>1 DEF JobsInv, TypeOK, SettledOK, Tables, Shard

LEMMA ShardsDivide ==
  ASSUME ShardsInv
  PROVE  Divided(settled_memories) /\ Divided(memories)
<1>1. ASSUME NEW v \in Workers
      PROVE  Descends(v, Shard(settled_memories, v)) /\ Descends(v, Shard(memories, v))
  <2>1. Tables(v, Shard(settled_memories, v), Shard(settled_events, v)) /\ job[v] \in Job /\ Sound(job[v])
    BY TablesNow DEF ShardsInv, JobsInv
  <2>2. /\ Simulates(v, job[v], Shard(memories, v), Shard(audit_events, v),
                     Shard(settled_memories, v), Shard(settled_events, v))
        /\ Descends(v, Shard(settled_memories, v))
    BY DEF ShardsInv, ShardOK
  <2> QED
    BY <2>1, <2>2, RowsDescend
<1> QED
  BY <1>1 DEF Divided, ShardsInv, Untold

\* A call writes no row and no trail but those of its worker.
WritesOwn(w) ==
  \A id \in Ids \ Own(w) : memories'[id] = memories[id] /\ audit_events'[id] = audit_events[id]

SimulatesNext(w) ==
  Simulates(w, job'[w], Shard(memories', w), Shard(audit_events', w),
            Shard(settled_memories, w), Shard(settled_events, w))

\* The operation goes on, or it ends and has done what the indivisible one does.
Advances(w) ==
  /\ WritesOwn(w)
  /\ \/ job'[w] # NoWork /\ SimulatesNext(w)
     \/ /\ job'[w] = NoWork /\ memories' = memories
        /\ Ends(w) => Service!Next \/ UNCHANGED <<settled_memories, settled_events>>

LEMMA LogsInShard ==
  ASSUME TypeOK, NEW w \in Workers, NEW id \in Own(w), NEW event, Logs(id, event)
  PROVE  /\ WritesOwn(w) /\ memories' = memories
         /\ Appended(w, Shard(audit_events', w), Shard(audit_events, w), id, event)
<1>1. Own(w) \in SUBSET Ids
  BY OwnIds
<1> QED
  BY <1>1 DEF TypeOK, Logs, WritesOwn, Appended, Shard

LEMMA SavesInShard ==
  ASSUME TypeOK, NEW w \in Workers, NEW id \in Own(w), NEW record, Saves(id, record)
  PROVE  /\ WritesOwn(w) /\ audit_events' = audit_events
         /\ Updated(w, Shard(memories', w), Shard(memories, w), id, record)
<1>1. Own(w) \in SUBSET Ids
  BY OwnIds
<1> QED
  BY <1>1 DEF TypeOK, Saves, WritesOwn, Updated, Shard

\* What a worker without work has read in its shard is settled.
LEMMA IdleReads ==
  ASSUME SettledOK, JobsInv, NEW w \in Workers, SimulatesNow(w), job[w] = NoWork
  PROVE  /\ Shard(memories, w) = Shard(settled_memories, w)
         /\ Shard(audit_events, w) = Shard(settled_events, w)
         /\ Simulates(w, NoWork, Shard(memories, w), Shard(audit_events, w),
                      Shard(settled_memories, w), Shard(settled_events, w))
<1>1. Simulates(w, NoWork, Shard(memories, w), Shard(audit_events, w),
                Shard(settled_memories, w), Shard(settled_events, w))
  BY DEF SimulatesNow
<1>2. \A m \in Own(w) : Shard(memories, w)[m] = Shard(settled_memories, w)[m]
                        /\ Shard(audit_events, w)[m] = Shard(settled_events, w)[m]
  BY <1>1, IdleSimulates
<1> QED
  BY <1>1, <1>2 DEF Shard

LEMMA IngestBegins ==
  ASSUME SettledOK, JobsInv, NEW w \in Workers, SimulatesNow(w), NEW r \in RequestsOf[w],
         BeginIngest(w, r[1], r[2])
  PROVE  Advances(w)
<1> DEFINE n == Work("log_scanned", "ingest", r[1], r[2])
<1>1. job[w] = NoWork /\ job'[w] = n /\ memories' = memories /\ audit_events' = audit_events
  BY DEF JobsInv, BeginIngest, Reads
<1>2. r[1] \in Own(w)
  BY OwnIds
<1>3. Shard(settled_memories, w)[r[1]] = NoRecord /\ Len(Shard(settled_events, w)[r[1]]) < MaxTrail
  <2>1. memories[r[1]] = NoRecord /\ Len(audit_events[r[1]]) < MaxTrail
    BY DEF BeginIngest, IsStored
  <2>2. Shard(memories, w)[r[1]] = memories[r[1]] /\ Shard(audit_events, w)[r[1]] = audit_events[r[1]]
    BY <1>2 DEF Shard
  <2> QED
    BY <1>1, <2>1, <2>2, IdleReads
<1>4. Simulates(w, n, Shard(memories, w), Shard(audit_events, w),
                Shard(settled_memories, w), Shard(settled_events, w))
  BY <1>1, <1>3, IdleReads, BeginIngestSimulates
<1>5. n # NoWork
  BY DEF Work, NoWork
<1> HIDE DEF n
<1> QED
  BY <1>1, <1>4, <1>5 DEF Advances, WritesOwn, SimulatesNext

LEMMA ReviewBegins ==
  ASSUME SettledOK, JobsInv, NEW w \in Workers, SimulatesNow(w), NEW r \in RequestsOf[w],
         NEW op \in {"approve", "reject"}, BeginReview(w, r[1], op)
  PROVE  Advances(w)
<1> DEFINE S == Shard(settled_memories, w)
           id == r[1]
<1>1. /\ job[w] = NoWork /\ memories' = memories /\ audit_events' = audit_events
      /\ memories[id] # NoRecord /\ memories[id].status = "pending" /\ WellFormedWindow(memories[id])
  BY DEF BeginReview, Reads, IsStored
<1>2. id \in Own(w) /\ memories[id] = S[id]
  <2>1. id \in Own(w)
    BY OwnIds
  <2>2. Shard(memories, w)[id] = memories[id]
    BY <2>1 DEF Shard
  <2> QED
    BY <1>1, <2>1, <2>2, IdleReads
<1>3. \/ job'[w] = Work("check", "approve", id, S[id])
      \/ job'[w] = Work("save", "reject", id, [S[id] EXCEPT !.status = "rejected"])
  <2>1. job' = [job EXCEPT ![w] =
          IF op = "approve" THEN Work("check", op, id, memories[id])
          ELSE Work("save", op, id, [memories[id] EXCEPT !.status = "rejected"])]
    BY DEF BeginReview
  <2> QED
    BY <1>2, <2>1 DEF JobsInv
<1>4. job'[w] # NoWork
  <2>1. ASSUME NEW pc \in {"check", "save"}, NEW o, NEW i, NEW record
        PROVE  Work(pc, o, i, record) # NoWork
    BY DEF Work, NoWork
  <2> QED
    BY <1>3, <2>1, Zenon
<1> HIDE DEF id
<1>5. Simulates(w, job'[w], Shard(memories, w), Shard(audit_events, w), S, Shard(settled_events, w))
  BY <1>1, <1>2, <1>3, IdleReads, BeginReviewSimulates
<1> QED
  BY <1>1, <1>4, <1>5 DEF Advances, WritesOwn, SimulatesNext

LEMMA ExpiryBegins ==
  ASSUME SettledOK, JobsInv, NEW w \in Workers, SimulatesNow(w),
         NEW ids \in Expirable(w, Shard(memories, w)), BeginExpire(w, ids)
  PROVE  Advances(w)
<1> DEFINE S == Shard(settled_memories, w)
           todo == [m \in ids |-> S[m]]
           k == Work("none", "expire", NoId, NoRecord)
<1>1. /\ job[w] = NoWork /\ memories' = memories /\ audit_events' = audit_events /\ ids # {}
      /\ \A id \in Stored : WellFormedWindow(memories[id])
  BY DEF BeginExpire, Reads
<1>2. Shard(memories, w) = S /\ Own(w) \in SUBSET Ids
  BY <1>1, IdleReads, OwnIds
<1>3. \A id \in Own(w) : S[id] = memories[id]
  BY <1>2 DEF Shard
<1>4. \A id \in Own(w) : S[id] # NoRecord => WellFormedWindow(S[id])
  BY <1>1, <1>2, <1>3 DEF Stored, IsStored
<1>5. ids \in SUBSET Own(w)
  <2>1. S \in [Own(w) -> MemoryRecord \cup {NoRecord}]
    BY TablesNow DEF Tables
  <2> QED
    BY <1>2, <2>1, ExpirableAre
<1>6. Copies(ids) = todo
  BY <1>3, <1>5 DEF Copies
<1>7. PICK n \in TurnTo(k, todo) : job' = [job EXCEPT ![w] = n]
  BY <1>6 DEF BeginExpire
<1>8. job'[w] = n
  BY <1>7 DEF JobsInv
<1> HIDE DEF S, todo, k
<1>9. n # NoWork /\ Simulates(w, n, Shard(memories, w), Shard(audit_events, w), S, Shard(settled_events, w))
  <2>1. /\ Tables(w, S, Shard(settled_events, w))
        /\ Simulates(w, NoWork, Shard(memories, w), Shard(audit_events, w), S, Shard(settled_events, w))
    BY <1>1, TablesNow, IdleReads DEF S
  <2>2. ids \in Expirable(w, S) \ {{}}
    BY <1>1, <1>2
  <2> QED
    BY <1>4, <1>7, <2>1, <2>2, BeginExpireSimulates DEF todo, k
<1> QED
  BY <1>1, <1>8, <1>9 DEF Advances, WritesOwn, SimulatesNext, S

LEMMA WorkBegins ==
  ASSUME ShardsInv, NEW w \in Workers, Begin(w, RequestsOf[w], PagesOf[w])
  PROVE  Advances(w)
<1>1. JobsInv /\ SettledOK /\ SimulatesNow(w) /\ Divided(memories)
  BY ShardsDivide DEF ShardsInv, ShardOK, SimulatesNow
<1>2. CASE \E r \in RequestsOf[w] : BeginIngest(w, r[1], r[2])
  BY <1>1, <1>2, IngestBegins
<1>3. CASE \E r \in RequestsOf[w], op \in {"approve", "reject"} : BeginReview(w, r[1], op)
  BY <1>1, <1>3, ReviewBegins
<1>4. CASE \E t \in Tenants, p \in PagesOf[w], v \in PageVersions : BeginExpire(w, Replaced(t, p, v))
  <2>1. PICK t \in Tenants, p \in PagesOf[w], v \in PageVersions : BeginExpire(w, Replaced(t, p, v))
    BY <1>4
  <2> DEFINE page == OfPage(Shard(memories, w), t, p, {"pending"})
  <2>2. RowsOfPage(t, p, {"pending"}) = page
    BY <1>1, PagesInShard
  <2>3. \A id \in page : Shard(memories, w)[id] = memories[id]
    BY DEF OfPage, Shard
  <2>4. Replaced(t, p, v) = {id \in page : Shard(memories, w)[id].page_version # v}
    BY <2>2, <2>3 DEF Replaced
  <2>5. Replaced(t, p, v) \in Expirable(w, Shard(memories, w))
    BY <2>4 DEF Expirable
  <2> QED
    BY <1>1, <2>1, <2>5, ExpiryBegins
<1>5. CASE \E t \in Tenants, gone \in SUBSET PagesOf[w] : BeginExpire(w, Missing(t, gone))
  <2>1. PICK t \in Tenants, gone \in SUBSET PagesOf[w] : BeginExpire(w, Missing(t, gone))
    BY <1>5
  <2>2. \A p \in gone : RowsOfPage(t, p, {"pending", "verified_active"})
                        = OfPage(Shard(memories, w), t, p, {"pending", "verified_active"})
    BY <1>1, PagesInShard
  <2>3. Missing(t, gone) = OfPages(Shard(memories, w), t, gone)
    BY <2>2 DEF Missing, OfPages
  <2>4. Missing(t, gone) \in Expirable(w, Shard(memories, w))
    BY <2>3 DEF Expirable
  <2> QED
    BY <1>1, <2>1, <2>4, ExpiryBegins
<1> QED
  BY <1>2, <1>3, <1>4, <1>5 DEF Begin

LEMMA NotesAdvance ==
  ASSUME SettledOK, JobsInv, NEW w \in Workers, SimulatesNow(w), Notes(w)
  PROVE  Advances(w)
<1> DEFINE j == job[w]
           n == job'[w]
<1>1. TypeOK /\ j \in Job /\ Sound(j) /\ job \in [Workers -> Job]
  BY DEF JobsInv
<1>2. j.op = "ingest" /\ j.id \in Own(w)
  <2>1. j.op = "ingest"
    BY NoteDoes
  <2> QED
    BY <2>1, IngestOf
<1>3. ASSUME NEW event, Logs(j.id, event), Keeps(j, n), n.todo = j.todo, Noting(j, n, event)
      PROVE  Advances(w)
  <2>1. /\ WritesOwn(w) /\ memories' = memories
        /\ Appended(w, Shard(audit_events', w), Shard(audit_events, w), j.id, event)
    BY <1>1, <1>2, <1>3, LogsInShard
  <2>2. Simulates(w, n, Shard(memories, w), Shard(audit_events', w),
                  Shard(settled_memories, w), Shard(settled_events, w))
    BY <1>2, <1>3, <2>1, NoteSimulates DEF SimulatesNow
  <2>3. n # NoWork
    BY <1>3, NoWorkSound DEF Noting
  <2> QED
    BY <2>1, <2>2, <2>3 DEF Advances, SimulatesNext
<1>4. CASE LogScanned(w)
  <2>1. PICK pc \in {"log_ingested", "log_blocked"} : job' = [job EXCEPT ![w].pc = pc]
    BY <1>4 DEF LogScanned, Goes
  <2>2. n = [j EXCEPT !.pc = pc]
    BY <1>1, <2>1
  <2>3. Keeps(j, n) /\ n.record = j.record /\ n.todo = j.todo /\ n.pc = pc
    BY <1>1, <2>2 DEF Job, Keeps
  <2>4. j.pc = "log_scanned" /\ Logs(j.id, ScannedEvent)
    BY <1>4 DEF LogScanned
  <2> QED
    BY <1>3, <2>3, <2>4 DEF Noting
<1>5. CASE LogBlocked(w)
  <2>1. Logs(j.id, Event("security_blocked", "candidate", {})) /\ n = NoWork
    BY <1>1, <1>5 DEF LogBlocked, Stops
  <2>2. WritesOwn(w) /\ memories' = memories
    BY <1>1, <1>2, <2>1, LogsInShard
  <2> QED
    BY <1>5, <2>1, <2>2, BlockedImplements DEF Advances
<1>6. CASE LogIngested(w)
  <2>1. n = [j EXCEPT !.pc = "log_admitted"]
    BY <1>1, <1>6 DEF LogIngested, Goes
  <2>2. Keeps(j, n) /\ n.record = j.record /\ n.todo = j.todo /\ n.pc = "log_admitted"
    BY <1>1, <2>1 DEF Job, Keeps
  <2>3. j.pc = "log_ingested" /\ Logs(j.id, Event("ingested", "candidate", {}))
    BY <1>6 DEF LogIngested
  <2> QED
    BY <1>3, <2>2, <2>3 DEF Noting
<1>7. CASE LogAdmitted(w)
  <2> DEFINE status == AdmissionStatus(j.record)
  <2>1. n = [j EXCEPT !.pc = "resolve", !.record = WithStatus(j.record, status)]
    BY <1>1, <1>7 DEF LogAdmitted, Job, WithStatus
  <2>2. Keeps(j, n) /\ n.record = WithStatus(j.record, status) /\ n.todo = j.todo /\ n.pc = "resolve"
    BY <1>1, <2>1 DEF Job, Keeps
  <2>3. j.pc = "log_admitted" /\ Logs(j.id, Event("admitted", status, {}))
    BY <1>7 DEF LogAdmitted
  <2> QED
    BY <1>3, <2>2, <2>3 DEF Noting
<1> QED
  BY <1>4, <1>5, <1>6, <1>7 DEF Notes

LEMMA ResolveAdvances ==
  ASSUME ShardsInv, NEW w \in Workers, SimulatesNow(w), Resolve(w)
  PROVE  Advances(w)
<1> DEFINE j == job[w]
           M == Shard(memories, w)
           S == Shard(settled_memories, w)
           E == Shard(settled_events, w)
           active == ActiveConflicts(NoId, j.record)
           status == ResolvedStatus(j.record, j.record.status, Versions(active))
           olds == IF status = "verified_active" THEN active ELSE {}
           k == [j EXCEPT !.record = WithStatus(j.record, status)]
           todo == [m \in olds |-> M[m]]
<1>1. JobsInv /\ SettledOK /\ TypeOK /\ j \in Job /\ Sound(j) /\ job \in [Workers -> Job]
  BY DEF ShardsInv, JobsInv
<1>2. Divided(memories) /\ Divided(settled_memories)
  BY ShardsDivide
<1>3. /\ j.pc = "resolve" /\ j.op = "ingest" /\ j.record \in MemoryRecord
      /\ memories' = memories /\ audit_events' = audit_events
  BY <1>1 DEF Resolve, Reads, Sound, Shape
<1>4. /\ M \in [Own(w) -> MemoryRecord \cup {NoRecord}]
      /\ S \in [Own(w) -> MemoryRecord \cup {NoRecord}] /\ Tables(w, S, E)
  BY <1>1, TablesNow DEF Tables
<1>5. Simulates(w, j, M, Shard(audit_events, w), S, E)
  BY DEF SimulatesNow
<1>6. M = S /\ j.done = {}
  <2> HIDE DEF j, M, S, E
  <2> QED
    BY <1>3, <1>4, <1>5, RowsUntouched DEF Undecided
<1>7. PICK r \in RequestsOf[w] : r[2].conflict_key = j.record.conflict_key
  <2>1. PICK r \in RequestsOf[w] : Ingests(j, r[2], S, E) /\ r[2] \in MemoryRecord
    BY <1>1, <1>3, IngestOf
  <2>2. j.record = WithStatus(r[2], AdmissionStatus(r[2]))
    BY <1>3, <2>1 DEF Ingests, Undecided, WithStatus
  <2>3. j.record.conflict_key = r[2].conflict_key
    BY <2>1, <2>2 DEF WithStatus, MemoryRecord
  <2> QED
    BY <2>3
<1>8. /\ KeyLoads(j.record.conflict_key) <=> LoadsIn(M, j.record.conflict_key)
      /\ active = RivalsIn(M, NoId, j.record)
  BY <1>2, <1>7, ReadsShard
<1>9. CASE ~KeyLoads(j.record.conflict_key)
  <2>1. job'[w] = NoWork
    BY <1>1, <1>9 DEF Resolve, Stops
  <2>2. ~LoadsIn(S, j.record.conflict_key)
    BY <1>6, <1>8, <1>9
  <2>3. Ends(w) => Service!Next
    BY <1>1, <1>2, <1>3, <1>6, <2>2, FailureImplements
  <2> QED
    BY <1>3, <2>1, <2>3 DEF Advances, WritesOwn
<1>10. CASE KeyLoads(j.record.conflict_key)
  <2>1. active \in SUBSET Own(w) /\ active \in SUBSET Stored
    BY <1>4, <1>8, RivalsAre DEF ActiveConflicts
  <2>2. \A m \in active : M[m] = memories[m]
    BY <2>1 DEF Shard
  <2>3. Versions(active) = {M[o] : o \in active}
    BY <2>2 DEF Versions
  <2>4. Copies(olds) = todo /\ todo \in Todo
    <3>1. Copies(olds) = todo
      BY <2>2 DEF Copies
    <3>2. Copies(olds) \in Todo
      BY <1>1, <2>1, CopiesType
    <3> QED
      BY <3>1, <3>2
  <2>5. status \in MemoryStatus
    BY <1>3 DEF ResolvedStatus, MemoryRecord, MemoryStatus
  <2>6. k \in Job /\ Keeps(j, k) /\ k.record = WithStatus(j.record, status)
    <3> HIDE DEF status
    <3>1. WithStatus(j.record, status) \in MemoryRecord
      BY <1>3, <2>5 DEF WithStatus, MemoryRecord
    <3> QED
      BY <1>1, <3>1 DEF Job, Keeps
  <2>7. PICK n \in TurnTo(k, todo) : job' = [job EXCEPT ![w] = n]
    <3>1. k = [j EXCEPT !.record.status = status]
      BY <1>1 DEF Job, WithStatus
    <3> QED
      BY <1>10, <2>4, <3>1 DEF Resolve
  <2>8. job'[w] = n
    BY <1>1, <2>7
  <2>9. status = Verdict(M, j.record) /\ olds = Defeats(M, j.record)
    BY <1>8, <2>3 DEF Verdict, Defeats
  <2>10. LoadsIn(M, j.record.conflict_key)
    BY <1>8, <1>10
  <2>11. todo = [m \in olds |-> M[m]]
    OBVIOUS
  <2> HIDE DEF j, M, S, E, active, status, olds, k, todo
  <2>12. n # NoWork /\ Simulates(w, n, M, Shard(audit_events, w), S, E)
    BY <1>1, <1>3, <1>4, <1>5, <2>4, <2>6, <2>7, <2>9, <2>10, <2>11, ResolveSimulates
  <2> QED
    BY <1>3, <2>8, <2>12 DEF Advances, WritesOwn, SimulatesNext, M, S, E
<1> QED
  BY <1>9, <1>10

LEMMA CheckAdvances ==
  ASSUME ShardsInv, NEW w \in Workers, SimulatesNow(w), Check(w)
  PROVE  Advances(w)
<1> DEFINE j == job[w]
           M == Shard(memories, w)
           S == Shard(settled_memories, w)
           E == Shard(settled_events, w)
           olds == ActiveConflicts(j.id, j.record)
           k == [j EXCEPT !.record = WithStatus(j.record, "verified_active")]
           todo == [m \in olds |-> M[m]]
<1>1. JobsInv /\ SettledOK /\ TypeOK /\ j \in Job /\ Sound(j) /\ job \in [Workers -> Job]
  BY DEF ShardsInv, JobsInv
<1>2. Divided(memories)
  BY ShardsDivide
<1>3. /\ j.pc = "check" /\ j.op = "approve" /\ j.record \in MemoryRecord
      /\ memories' = memories /\ audit_events' = audit_events
  BY <1>1 DEF Check, Reads, Sound, Shape
<1>4. /\ M \in [Own(w) -> MemoryRecord \cup {NoRecord}]
      /\ S \in [Own(w) -> MemoryRecord \cup {NoRecord}] /\ Tables(w, S, E)
  BY <1>1, TablesNow DEF Tables
<1>5. Simulates(w, j, M, Shard(audit_events, w), S, E)
  BY DEF SimulatesNow
<1>6. M = S
  <2> HIDE DEF j, M, S, E
  <2> QED
    BY <1>3, <1>4, <1>5, RowsUntouched DEF Undecided
<1>7. j.id \in Own(w) /\ j.record = M[j.id] /\ M[j.id] = memories[j.id]
  <2>1. Reviews(j, S) /\ j.id \in Own(w)
    BY <1>1, <1>3, ReviewOf
  <2> QED
    BY <1>3, <1>6, <2>1 DEF Reviews, Shard
<1>8. PICK r \in RequestsOf[w] : r[2].conflict_key = j.record.conflict_key
  <2>1. Descends(w, M)
    BY <1>2 DEF Divided
  <2> QED
    BY <1>3, <1>7, <2>1, NamesAssumption DEF Descends, From
<1>9. /\ KeyLoads(j.record.conflict_key) <=> LoadsIn(M, j.record.conflict_key)
      /\ olds = RivalsIn(M, j.id, j.record)
  BY <1>2, <1>8, ReadsShard
<1>10. CASE ~CanApprove(j.record, olds)
  <2>1. job'[w] = NoWork
    BY <1>1, <1>10 DEF Check, Stops
  <2>2. Ends(w) => UNCHANGED <<settled_memories, settled_events>>
    BY <1>1, <1>3, RefusalStutters
  <2> QED
    BY <1>3, <2>1, <2>2 DEF Advances, WritesOwn
<1>11. CASE CanApprove(j.record, olds)
  <2>1. olds \in SUBSET Own(w) /\ olds \in SUBSET Stored
    BY <1>4, <1>9, RivalsAre DEF ActiveConflicts
  <2>2. \A m \in olds : M[m] = memories[m]
    BY <2>1 DEF Shard
  <2>3. Copies(olds) = todo /\ todo \in Todo
    <3>1. Copies(olds) = todo
      BY <2>2 DEF Copies
    <3>2. Copies(olds) \in Todo
      BY <1>1, <2>1, CopiesType
    <3> QED
      BY <3>1, <3>2
  <2>4. k \in Job /\ Keeps(j, k) /\ k.record = WithStatus(j.record, "verified_active")
    <3>1. WithStatus(j.record, "verified_active") \in MemoryRecord
      BY <1>3 DEF WithStatus, MemoryRecord, MemoryStatus
    <3> QED
      BY <1>1, <3>1 DEF Job, Keeps
  <2>5. PICK n \in TurnTo(k, todo) : job' = [job EXCEPT ![w] = n]
    <3>1. k = [j EXCEPT !.record.status = "verified_active"]
      BY <1>1 DEF Job, WithStatus
    <3> QED
      BY <1>11, <2>3, <3>1 DEF Check
  <2>6. job'[w] = n
    BY <1>1, <2>5
  <2>7. MayApprove(M, j.id)
    <3>1. /\ j.record.evidence /\ KeyLoads(j.record.conflict_key)
          /\ olds = {} \/ j.record.valid_from # NoDate
          /\ \A o \in olds : j.record.authority > memories[o].authority
          /\ ~ClosingOverflows(j.record, olds)
      BY <1>11 DEF CanApprove, Outranks
    <3> HIDE DEF M, olds
    <3> QED
      BY <1>7, <1>9, <2>2, <3>1 DEF MayApprove
  <2>8. todo = [m \in olds |-> M[m]]
    OBVIOUS
  <2> HIDE DEF j, M, S, E, olds, k, todo
  <2>9. n # NoWork /\ Simulates(w, n, M, Shard(audit_events, w), S, E)
    BY <1>1, <1>3, <1>4, <1>5, <1>9, <2>3, <2>4, <2>5, <2>7, <2>8, CheckSimulates
  <2> QED
    BY <1>3, <2>6, <2>9 DEF Advances, WritesOwn, SimulatesNext, M, S, E
<1> QED
  BY <1>10, <1>11

\* A version an ingest has found can be rebuilt, also when it is read again.
LEMMA RereadLoads ==
  ASSUME JobsInv, SettledOK, NEW w \in Workers, SimulatesNow(w), job[w].pc = "get_old"
  PROVE  /\ job[w].old \in Own(w) /\ memories[job[w].old] = Shard(memories, w)[job[w].old]
         /\ WellFormedWindow(memories[job[w].old])
<1> DEFINE j == job[w]
           M == Shard(memories, w)
           S == Shard(settled_memories, w)
           E == Shard(settled_events, w)
<1>1. j \in Job /\ Sound(j) /\ j.op = "ingest" /\ j.pc = "get_old"
  BY DEF JobsInv, Sound, Shape
<1>2. Tables(w, S, E) /\ S \in [Own(w) -> MemoryRecord \cup {NoRecord}]
  BY TablesNow DEF Tables
<1>3. Simulates(w, j, M, Shard(audit_events, w), S, E) /\ Plan(w, j, S, E)
  BY DEF SimulatesNow, Simulates
<1>4. PICK r \in RequestsOf[w] : Ingests(j, r[2], S, E)
  BY <1>1, IngestOf
<1> HIDE DEF j, M, S, E
<1>5. M[j.old] = S[j.old] /\ j.old \in Own(w) /\ j.old \in Rewrites(j) /\ S[j.old] \in MemoryRecord
  BY <1>1, <1>2, <1>3, RereadsSame, OldIs
<1>6. LoadsIn(S, r[2].conflict_key) /\ Rewrites(j) = Loses(S, j.id, r[2])
  BY <1>1, <1>4 DEF Ingests, Undecided, Replacing
<1>7. S[j.old].conflict_key = r[2].conflict_key
  BY <1>2, <1>5, <1>6, RivalsAre DEF Loses
<1>8. WellFormedWindow(S[j.old])
  BY <1>2, <1>5, <1>6, <1>7, NamesAssumption DEF LoadsIn
<1>9. memories[j.old] = M[j.old]
  BY <1>5 DEF M, Shard
<1> QED
  BY <1>5, <1>8, <1>9 DEF j, M

LEMMA GetOldAdvances ==
  ASSUME ShardsInv, NEW w \in Workers, SimulatesNow(w), GetOld(w)
  PROVE  Advances(w)
<1> DEFINE j == job[w]
           M == Shard(memories, w)
           S == Shard(settled_memories, w)
           E == Shard(settled_events, w)
           todo == [j.todo EXCEPT ![j.old] = M[j.old]]
           n == [j EXCEPT !.pc = "save_old", !.todo = todo]
<1>1. JobsInv /\ SettledOK /\ j \in Job /\ Sound(j) /\ Closes(j) /\ job \in [Workers -> Job]
  BY DEF ShardsInv, JobsInv, Sound
<1>2. /\ j.pc = "get_old" /\ j.op = "ingest" /\ memories' = memories /\ audit_events' = audit_events
  BY <1>1 DEF GetOld, Sound, Shape
<1>3. memories[j.old] = M[j.old] /\ WellFormedWindow(memories[j.old])
  BY <1>1, <1>2, RereadLoads
<1>4. CASE ClosingOverflows(j.record, {memories[j.old]})
  <2>1. job'[w] = NoWork
    BY <1>1, <1>4 DEF GetOld, Stops
  <2>2. j.record.valid_from = MinDate /\ j.done = {}
    BY <1>1, <1>2, <1>4 DEF ClosingOverflows, Closes
  <2>3. Divided(settled_memories)
    BY ShardsDivide
  <2>4. Ends(w) => Service!Next
    BY <1>1, <1>2, <2>2, <2>3, FailureImplements
  <2> QED
    BY <1>2, <2>1, <2>4 DEF Advances, WritesOwn
<1>5. CASE ~ClosingOverflows(j.record, {memories[j.old]})
  <2>1. job'[w] = n
    BY <1>1, <1>3, <1>5 DEF GetOld, Job
  <2>2. n \in Job
    BY <1>1, <1>5, GetOldDoes, <2>1 DEF Moves
  <2>3. Keeps(j, n) /\ n.record = j.record /\ n.pc = "save_old" /\ n.todo = todo
    BY <1>1 DEF Job, Keeps
  <2>4. Simulates(w, j, M, Shard(audit_events, w), S, E) /\ Tables(w, S, E)
    BY <1>1, TablesNow DEF SimulatesNow
  <2> HIDE DEF j, M, S, E, n
  <2>5. Simulates(w, n, M, Shard(audit_events, w), S, E)
    BY <1>1, <1>2, <2>2, <2>3, <2>4, GetOldSimulates
  <2>6. n # NoWork
    BY <2>3, NoWorkSound
  <2> QED
    BY <1>2, <2>1, <2>5, <2>6 DEF Advances, WritesOwn, SimulatesNext, M, S, E
<1> QED
  BY <1>4, <1>5

LEMMA SaveOldAdvances ==
  ASSUME JobsInv, SettledOK, NEW w \in Workers, SimulatesNow(w), SaveOld(w)
  PROVE  Advances(w)
<1> DEFINE j == job[w]
           n == job'[w]
           S == Shard(settled_memories, w)
           E == Shard(settled_events, w)
           row == Rewritten(j, j.todo[j.old])
<1>1. TypeOK /\ j \in Job /\ Sound(j)
  BY DEF JobsInv
<1>2. j.pc = "save_old" /\ Saves(j.old, row)
  BY DEF SaveOld, Rewritten
<1>3. OnlyNext(j, n) /\ n.pc = "log_old"
  BY SaveOldDoes
<1>4. Simulates(w, j, Shard(memories, w), Shard(audit_events, w), S, E) /\ Tables(w, S, E) /\ Plan(w, j, S, E)
  BY TablesNow DEF SimulatesNow, Simulates
<1>5. j.old \in Own(w)
  BY <1>1, <1>2, <1>4, OldIs
<1>6. /\ WritesOwn(w) /\ audit_events' = audit_events
      /\ Updated(w, Shard(memories', w), Shard(memories, w), j.old, row)
  <2> HIDE DEF row
  <2> QED
    BY <1>1, <1>2, <1>5, SavesInShard
<1>7. Simulates(w, n, Shard(memories', w), Shard(audit_events, w), S, E)
  <2> HIDE DEF j, n, S, E
  <2> QED
    BY <1>1, <1>2, <1>3, <1>4, <1>6, SaveOldSimulates
<1> QED
  BY <1>3, <1>6, <1>7, NoWorkSound DEF Advances, SimulatesNext

LEMMA LogOldAdvances ==
  ASSUME ShardsInv, NEW w \in Workers, SimulatesNow(w), LogOld(w)
  PROVE  Advances(w)
<1> DEFINE j == job[w]
           S == Shard(settled_memories, w)
           E == Shard(settled_events, w)
           left  == [m \in DOMAIN j.todo \ {j.old} |-> j.todo[m]]
           names == j.op \in (IF j.done = {} THEN {"ingest", "approve"} ELSE {"ingest"})
           record == IF names THEN WithOld(j.record, j.old) ELSE j.record
           after == [j EXCEPT !.done = j.done \cup {j.old}, !.record = record]
<1>1. JobsInv /\ SettledOK /\ TypeOK /\ j \in Job /\ Sound(j) /\ job \in [Workers -> Job]
  BY DEF ShardsInv, JobsInv
<1>2. j.pc = "log_old" /\ Logs(j.old, RewriteEvent(j)) /\ memories' = memories
  BY DEF LogOld, RewriteEvent, Logs
<1>3. Simulates(w, j, Shard(memories, w), Shard(audit_events, w), S, E) /\ Tables(w, S, E) /\ Plan(w, j, S, E)
  BY <1>1, TablesNow DEF SimulatesNow, Simulates
<1>4. j.old \in Own(w) /\ j.old \in Ids /\ j.op \in {"ingest", "approve", "expire"}
  BY <1>1, <1>2, <1>3, OldIs, OwnIds DEF Sound, Shape
<1>5. /\ WritesOwn(w) /\ Appended(w, Shard(audit_events', w), Shard(audit_events, w), j.old, RewriteEvent(j))
  BY <1>1, <1>2, <1>4, LogsInShard
<1>6. CASE job'[w] = NoWork
  <2>1. \A v \in Workers : Readable(v, Shard(settled_memories, v))
    BY DEF ShardsInv, ShardOK
  <2>2. Ends(w) => Service!Next
    BY <1>1, <1>6, <2>1, ShardsDivide, ExpiryImplements
  <2> QED
    BY <1>2, <1>5, <1>6, <2>2 DEF Advances
<1>7. CASE job'[w] # NoWork
  <2>1. PICK n \in TurnTo(after, left) : job' = [job EXCEPT ![w] = n]
    <3>1. after = [j EXCEPT !.done = @ \cup {j.old},
                            !.record = IF names THEN [@ EXCEPT !.supersedes = j.old] ELSE @]
      BY <1>1 DEF Job, WithOld
    <3> QED
      BY <3>1 DEF LogOld
  <2>2. job'[w] = n
    BY <1>1, <2>1
  <2>3. record \in MemoryRecord \cup {NoRecord}
    <3>1. CASE names
      <4>1. j.record \in MemoryRecord
        BY <1>1, <3>1 DEF Sound, Shape
      <4>2. WithOld(j.record, j.old) \in MemoryRecord
        BY <1>4, <4>1 DEF WithOld, MemoryRecord
      <4> QED
        BY <3>1, <4>2
    <3>2. CASE ~names
      BY <1>1, <3>2 DEF Job
    <3> QED
      BY <3>1, <3>2
  <2>4. left \in Todo
    <3>1. j.todo \in [DOMAIN j.todo -> MemoryRecord] /\ DOMAIN j.todo \in SUBSET Ids
      BY <1>1, TodoMembers DEF Job
    <3>2. left \in [DOMAIN j.todo \ {j.old} -> MemoryRecord]
      BY <3>1
    <3> QED
      BY <3>1, <3>2, TodoType
  <2>5. /\ record \in {j.record, WithOld(j.record, j.old)}
        /\ j.op = "ingest" \/ (j.op = "approve" /\ j.done = {}) => record = WithOld(j.record, j.old)
    OBVIOUS
  <2>6. left = [m \in DOMAIN j.todo \ {j.old} |-> j.todo[m]]
    OBVIOUS
  <2> HIDE DEF record, left
  <2>7. after \in Job /\ after.op = j.op /\ after.id = j.id /\ after.record = record
        /\ after.done = j.done \cup {j.old}
    BY <1>1, <1>4, <2>3 DEF Job
  <2> DEFINE p == Turning(after, left)
  <2> HIDE DEF after
  <2>8. /\ p.pc = "save_old" /\ p.op = j.op /\ p.id = j.id /\ p.record = record
        /\ p.done = j.done \cup {j.old} /\ p.todo = left
    BY <2>7 DEF Turning, Job
  <2> HIDE DEF j, S, E, p
  <2>9. Simulates(w, p, Shard(memories, w), Shard(audit_events', w), S, E)
    BY <1>1, <1>2, <1>3, <1>5, <2>5, <2>6, <2>8, LogOldSimulates
  <2>10. Simulates(w, n, Shard(memories, w), Shard(audit_events', w), S, E)
    BY <1>7, <2>1, <2>2, <2>4, <2>7, <2>9, TurnSimulates DEF p
  <2> QED
    BY <1>2, <1>5, <1>7, <2>2, <2>10 DEF Advances, SimulatesNext, S, E
<1> QED
  BY <1>6, <1>7

LEMMA SaveAdvances ==
  ASSUME JobsInv, SettledOK, NEW w \in Workers, SimulatesNow(w), Save(w)
  PROVE  Advances(w)
<1> DEFINE j == job[w]
           n == job'[w]
           S == Shard(settled_memories, w)
           E == Shard(settled_events, w)
<1>1. /\ TypeOK /\ j.pc = "save" /\ j.op \in {"ingest", "approve", "reject"}
      /\ Saves(j.id, j.record) /\ OnlyNext(j, n)
      /\ n.pc = IF j.op = "ingest" THEN "log_status" ELSE "log_reviewed"
  BY SaveDoes DEF JobsInv
<1>2. Simulates(w, j, Shard(memories, w), Shard(audit_events, w), S, E) /\ j.id \in Own(w)
  BY <1>1 DEF SimulatesNow, Simulates, Plan
<1>3. /\ WritesOwn(w) /\ audit_events' = audit_events
      /\ Updated(w, Shard(memories', w), Shard(memories, w), j.id, j.record)
  BY <1>1, <1>2, SavesInShard
<1>4. Simulates(w, n, Shard(memories', w), Shard(audit_events, w), S, E)
  <2> HIDE DEF j, n, S, E
  <2> QED
    BY <1>1, <1>2, <1>3, SaveSimulates
<1> QED
  BY <1>1, <1>3, <1>4, NoWorkSound DEF Advances, SimulatesNext

LEMMA LogReviewedAdvances ==
  ASSUME JobsInv, SettledOK, NEW w \in Workers, SimulatesNow(w), LogReviewed(w)
  PROVE  Advances(w)
<1> DEFINE j == job[w]
           n == job'[w]
           S == Shard(settled_memories, w)
           E == Shard(settled_events, w)
           event == Event("reviewed", j.record.status, j.done)
<1>1. /\ TypeOK /\ j.pc = "log_reviewed" /\ j.op \in {"approve", "reject"}
      /\ OnlyNext(j, n) /\ n.pc = "log_status"
  BY LogReviewedDoes DEF JobsInv
<1>2. Logs(j.id, event)
  BY DEF LogReviewed
<1>3. Simulates(w, j, Shard(memories, w), Shard(audit_events, w), S, E) /\ j.id \in Own(w)
  BY <1>1 DEF SimulatesNow, Simulates, Plan
<1>4. /\ WritesOwn(w) /\ memories' = memories
      /\ Appended(w, Shard(audit_events', w), Shard(audit_events, w), j.id, event)
  <2> HIDE DEF event
  <2> QED
    BY <1>1, <1>2, <1>3, LogsInShard
<1>5. Simulates(w, n, Shard(memories, w), Shard(audit_events', w), S, E)
  <2> HIDE DEF j, n, S, E
  <2> QED
    BY <1>1, <1>3, <1>4, LogReviewedSimulates
<1> QED
  BY <1>1, <1>4, <1>5, NoWorkSound DEF Advances, SimulatesNext

LEMMA LogStatusAdvances ==
  ASSUME ShardsInv, NEW w \in Workers, SimulatesNow(w), LogStatus(w)
  PROVE  Advances(w)
<1> DEFINE j == job[w]
           event == Event("status_changed", j.record.status, {})
<1>1. JobsInv /\ SettledOK /\ TypeOK /\ Divided(settled_memories)
  BY ShardsDivide DEF ShardsInv, JobsInv
<1>2. j.op \in {"ingest", "approve", "reject"} /\ job'[w] = NoWork
  BY <1>1, LogStatusDoes
<1>3. Logs(j.id, event)
  BY DEF LogStatus
<1>4. j.id \in Own(w)
  BY <1>2 DEF SimulatesNow, Simulates, Plan
<1>5. WritesOwn(w) /\ memories' = memories
  <2> HIDE DEF event
  <2> QED
    BY <1>1, <1>3, <1>4, LogsInShard
<1>6. Ends(w) => Service!Next
  BY <1>1, <1>2, IngestImplements, ApproveImplements, RejectImplements
<1> QED
  BY <1>2, <1>5, <1>6 DEF Advances

LEMMA StepAdvances ==
  ASSUME ShardsInv, NEW w \in Workers, Begin(w, RequestsOf[w], PagesOf[w]) \/ GoOn(w)
  PROVE  Advances(w)
<1>1. JobsInv /\ SettledOK /\ SimulatesNow(w)
  BY DEF ShardsInv, ShardOK, SimulatesNow
<1>2. CASE Begin(w, RequestsOf[w], PagesOf[w])
  BY <1>2, WorkBegins
<1>3. CASE Notes(w)
  BY <1>1, <1>3, NotesAdvance
<1>4. CASE Resolve(w)
  BY <1>1, <1>4, ResolveAdvances
<1>5. CASE GetOld(w)
  BY <1>1, <1>5, GetOldAdvances
<1>6. CASE Check(w)
  BY <1>1, <1>6, CheckAdvances
<1>7. CASE SaveOld(w)
  BY <1>1, <1>7, SaveOldAdvances
<1>8. CASE LogOld(w)
  BY <1>1, <1>8, LogOldAdvances
<1>9. CASE Save(w)
  BY <1>1, <1>9, SaveAdvances
<1>10. CASE LogReviewed(w)
  BY <1>1, <1>10, LogReviewedAdvances
<1>11. CASE LogStatus(w)
  BY <1>1, <1>11, LogStatusAdvances
<1> QED
  BY <1>2, <1>3, <1>4, <1>5, <1>6, <1>7, <1>8, <1>9, <1>10, <1>11 DEF GoOn, Notes

\* A worker of a shard does what any worker may do.
LEMMA ShardedIsNext ==
  ASSUME NEW w \in Workers, Begin(w, RequestsOf[w], PagesOf[w]) \/ GoOn(w)
  PROVE  Next /\ (Begins(w) \/ Calls(w))
<1>1. RequestsOf[w] \in SUBSET (Ids \X Submissions) /\ PagesOf[w] \in SUBSET Pages
  BY ShardsAssumption
<1>2. CASE GoOn(w)
  BY <1>2 DEF Next, GoOn, Calls, Notes
<1>3. CASE Begin(w, RequestsOf[w], PagesOf[w])
  <2>1. Next
    BY <1>1, <1>3 DEF Next, Begin
  <2>2. CASE \E r \in RequestsOf[w] : BeginIngest(w, r[1], r[2])
    <3>1. PICK r \in RequestsOf[w] : BeginIngest(w, r[1], r[2])
      BY <2>2
    <3>2. r[1] \in Ids /\ r[2] \in Submissions
      BY <1>1
    <3> QED
      BY <2>1, <3>1, <3>2 DEF Begins
  <2>3. CASE \E r \in RequestsOf[w], op \in {"approve", "reject"} : BeginReview(w, r[1], op)
    <3>1. PICK r \in RequestsOf[w], op \in {"approve", "reject"} : BeginReview(w, r[1], op)
      BY <2>3
    <3>2. r[1] \in Ids
      BY <1>1
    <3> QED
      BY <2>1, <3>1, <3>2 DEF Begins
  <2>4. \A t, p, v : Replaced(t, p, v) \in SUBSET Stored /\ Missing(t, p) \in SUBSET Stored
    BY DEF Replaced, Missing, RowsOfPage
  <2>5. CASE \/ \E t \in Tenants, p \in PagesOf[w], v \in PageVersions : BeginExpire(w, Replaced(t, p, v))
             \/ \E t \in Tenants, gone \in SUBSET PagesOf[w] : BeginExpire(w, Missing(t, gone))
    BY <2>1, <2>4, <2>5 DEF Begins
  <2> QED
    BY <1>3, <2>2, <2>3, <2>5 DEF Begin
<1> QED
  BY <1>2, <1>3

LEMMA SettlesDoes ==
  ASSUME NEW w \in Workers, Settles(w)
  PROVE  IF job'[w] = NoWork THEN Ends(w) ELSE UNCHANGED <<settled_memories, settled_events>>
BY DEF Settles, Ends, Own

\* Another worker's shard is as it was.
LEMMA ShardsOfOthers ==
  ASSUME JobsInv, SettledOK, NEW w \in Workers, WritesOwn(w),
         IF job'[w] = NoWork THEN Ends(w) ELSE UNCHANGED <<settled_memories, settled_events>>,
         NEW v \in Workers, v # w
  PROVE  /\ Shard(memories', v) = Shard(memories, v)
         /\ Shard(audit_events', v) = Shard(audit_events, v)
         /\ Shard(settled_memories', v) = Shard(settled_memories, v)
         /\ Shard(settled_events', v) = Shard(settled_events, v)
<1>1. Own(v) \in SUBSET Ids /\ Own(v) \cap Own(w) = {}
  BY OwnIds, ShardsApart
<1>2. \A m \in Own(v) : memories'[m] = memories[m] /\ audit_events'[m] = audit_events[m]
  BY <1>1 DEF WritesOwn
<1>3. \A m \in Own(v) : settled_memories'[m] = settled_memories[m] /\ settled_events'[m] = settled_events[m]
  BY <1>1 DEF Ends
<1> QED
  BY <1>2, <1>3 DEF Shard

\* The shard of a worker whose operation has ended.
LEMMA EndedIsSettled ==
  ASSUME ShardsInv, NEW w \in Workers, memories' = memories, Ends(w)
  PROVE  ShardOK(w, NoWork, Shard(memories', w), Shard(audit_events', w),
                 Shard(settled_memories', w), Shard(settled_events', w))
<1> DEFINE M == Shard(memories, w)
           S == Shard(settled_memories, w)
           E == Shard(settled_events, w)
<1>1. /\ Tables(w, S, E) /\ job[w] \in Job /\ Sound(job[w])
      /\ Simulates(w, job[w], M, Shard(audit_events, w), S, E)
      /\ Descends(w, S) /\ Readable(w, S)
  BY TablesNow DEF ShardsInv, JobsInv, ShardOK
<1>2. Descends(w, M) /\ Readable(w, M)
  BY <1>1, RowsDescend, RowsReadable
<1>3. Own(w) \in SUBSET Ids
  BY OwnIds
<1>4. Shard(settled_memories', w) = M /\ Shard(memories', w) = M
      /\ Shard(settled_events', w) = Shard(audit_events', w)
  BY <1>3 DEF Ends, Shard
<1>5. Simulates(w, NoWork, M, Shard(audit_events', w), M, Shard(audit_events', w))
  BY IdleSimulates
<1> QED
  BY <1>2, <1>4, <1>5 DEF ShardOK

LEMMA SettledStays ==
  ASSUME SettledOK, TypeOK', Untold, NEW w \in Workers, WritesOwn(w),
         IF job'[w] = NoWork THEN Ends(w) ELSE UNCHANGED <<settled_memories, settled_events>>
  PROVE  SettledOK' /\ Untold'
<1>1. SettledOK'
  BY DEF SettledOK, TypeOK, Ends
<1>2. ASSUME NEW id \in Ids, \A v \in Workers : id \notin Own(v)
      PROVE  /\ memories'[id] = NoRecord /\ settled_memories'[id] = NoRecord
             /\ audit_events'[id] = settled_events'[id]
  <2>1. id \notin Own(w)
    BY <1>2
  <2>2. /\ memories'[id] = memories[id] /\ audit_events'[id] = audit_events[id]
        /\ settled_memories'[id] = settled_memories[id] /\ settled_events'[id] = settled_events[id]
    BY <2>1 DEF WritesOwn, Ends
  <2> QED
    BY <1>2, <2>2 DEF Untold
<1>3. Untold'
  BY <1>2 DEF Untold
<1> QED
  BY <1>1, <1>3

LEMMA ShardsStep ==
  ASSUME ShardsInv, ShardedNext
  PROVE  ShardsInv' /\ (Service!Next \/ UNCHANGED <<settled_memories, settled_events>>)
<1>1. PICK w \in Workers : (Begin(w, RequestsOf[w], PagesOf[w]) \/ GoOn(w)) /\ Settles(w)
  BY DEF ShardedNext
<1>2. Advances(w)
  BY <1>1, StepAdvances
<1>3. JobsInv /\ Next /\ (Begins(w) \/ Calls(w))
  BY <1>1, ShardedIsNext DEF ShardsInv
<1>4. JobsInv' /\ Moves(w)
  BY <1>3, JobsStep, StepLeaves
<1>5. IF job'[w] = NoWork THEN Ends(w) ELSE UNCHANGED <<settled_memories, settled_events>>
  BY <1>1, SettlesDoes
<1>6. SettledOK' /\ Untold'
  BY <1>2, <1>4, <1>5, SettledStays DEF ShardsInv, JobsInv, Advances
<1>7. ASSUME NEW v \in Workers
      PROVE  ShardOK(v, job'[v], Shard(memories', v), Shard(audit_events', v),
                     Shard(settled_memories', v), Shard(settled_events', v))
  <2>1. CASE v # w
    <3>1. job'[v] = job[v]
      BY <1>4, <2>1 DEF Moves
    <3>2. ShardOK(v, job[v], Shard(memories, v), Shard(audit_events, v),
                  Shard(settled_memories, v), Shard(settled_events, v))
      BY DEF ShardsInv
    <3> QED
      BY <1>2, <1>3, <1>5, <2>1, <3>1, <3>2, ShardsOfOthers DEF ShardsInv, Advances
  <2>2. CASE v = w /\ job'[w] = NoWork
    BY <1>2, <1>5, <2>2, EndedIsSettled DEF Advances
  <2>3. CASE v = w /\ job'[w] # NoWork
    <3>1. SimulatesNext(w) /\ settled_memories' = settled_memories /\ settled_events' = settled_events
      BY <1>2, <1>5, <2>3 DEF Advances
    <3>2. Descends(w, Shard(settled_memories, w)) /\ Readable(w, Shard(settled_memories, w))
      BY DEF ShardsInv, ShardOK
    <3> QED
      BY <2>3, <3>1, <3>2 DEF ShardOK, SimulatesNext
  <2> QED
    BY <2>1, <2>2, <2>3
<1>8. ShardsInv'
  BY <1>4, <1>6, <1>7 DEF ShardsInv
<1>9. Service!Next \/ UNCHANGED <<settled_memories, settled_events>>
  BY <1>2, <1>5 DEF Advances
<1> QED
  BY <1>8, <1>9

LEMMA ShardsStart ==
  ASSUME ShardedInit
  PROVE  ShardsInv /\ Service!Init
<1>1. JobsInv
  BY JobsInit DEF ShardedInit
<1>2. /\ memories = [id \in Ids |-> NoRecord] /\ audit_events = [id \in Ids |-> <<>>]
      /\ settled_memories = memories /\ settled_events = audit_events
      /\ \A w \in Workers : job[w] = NoWork
  BY DEF ShardedInit, Init
<1>3. SettledOK /\ Untold
  BY <1>1, <1>2 DEF SettledOK, JobsInv, TypeOK, Untold
<1>4. ASSUME NEW w \in Workers
      PROVE  ShardOK(w, job[w], Shard(memories, w), Shard(audit_events, w),
                     Shard(settled_memories, w), Shard(settled_events, w))
  <2>1. \A id \in Own(w) : Shard(memories, w)[id] = NoRecord
    BY <1>2, OwnIds DEF Shard
  <2>2. Descends(w, Shard(memories, w)) /\ Readable(w, Shard(memories, w))
    BY <2>1 DEF Descends, Readable
  <2> QED
    BY <1>2, <2>2, IdleSimulates DEF ShardOK
<1>5. Service!Init
  BY <1>2 DEF Service!Init
<1> QED
  BY <1>1, <1>3, <1>4, <1>5 DEF ShardsInv

\* While the workers' records, keys and pages are disjoint and no operation
\* is cut short, the store calls of ingest, review and expiry amount to the
\* indivisible operations, however many workers interleave them: a caller
\* sees of a finished operation what MemoryService says, or nothing.
THEOREM DisjointOperationsAreAtomic == ShardedSpec => OperationsAreAtomic
<1>1. ShardedInit => ShardsInv /\ Service!Init
  BY ShardsStart
<1>2. ShardsInv /\ [ShardedNext]_shardedVars => ShardsInv' /\ [Service!Next]_(Service!vars)
  <2>1. ASSUME ShardsInv, ShardedNext
        PROVE  ShardsInv' /\ [Service!Next]_(Service!vars)
    BY <2>1, ShardsStep DEF Service!vars
  <2>2. ASSUME ShardsInv, UNCHANGED shardedVars
        PROVE  ShardsInv' /\ [Service!Next]_(Service!vars)
    BY <2>2 DEF shardedVars, vars, ShardsInv, JobsInv, TypeOK, Rows, IsStored, SettledOK, Untold, Service!vars
  <2> QED
    BY <2>1, <2>2
<1> QED
  BY <1>1, <1>2, PTL DEF ShardedSpec, OperationsAreAtomic, Service!Spec
=============================================================================
