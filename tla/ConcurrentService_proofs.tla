----------------------- MODULE ConcurrentService_proofs -----------------------
(***************************************************************************)
(* What every interleaving of store calls keeps, for any number of workers *)
(* and ids, any submissions and any range of dates.                        *)
(***************************************************************************)
EXTENDS ConcurrentService, MemoryStore_proofs

-----------------------------------------------------------------------------
(* The shape of a job *)

Op == {"none", "ingest", "approve", "reject", "expire"}

Todo == UNION {[S -> MemoryRecord] : S \in SUBSET Ids}

Job == [pc: PC, op: Op, id: Ids \cup {NoId}, record: MemoryRecord \cup {NoRecord},
        old: Ids \cup {NoId}, todo: Todo, done: SUBSET Ids]

\* Each call belongs to the operations that make it, with the copies it needs.
Shape(j) ==
  /\ j.pc = "idle" => j = NoWork
  /\ j.pc \in {"log_scanned", "log_blocked", "log_ingested", "log_admitted", "resolve", "get_old"}
       => j.op = "ingest"
  /\ j.pc = "check" => j.op = "approve"
  /\ j.pc \in {"save_old", "log_old"} => j.op \in {"ingest", "approve", "expire"}
  /\ j.pc \in {"save", "log_status"} => j.op \in {"ingest", "approve", "reject"}
  /\ j.pc = "log_reviewed" => j.op \in {"approve", "reject"}
  /\ j.op \in {"ingest", "approve", "reject"} => j.id \in Ids /\ j.record \in MemoryRecord
  /\ j.op = "expire" => j.id = NoId
  /\ j.pc \in {"get_old", "save_old", "log_old"} => j.old \in DOMAIN j.todo

\* A version is closed only by a record whose start has a day before it.
Closes(j) ==
  /\ j.op = "approve" /\ DOMAIN j.todo # {} => j.record.valid_from # MinDate
  /\ j.op = "ingest" /\ (j.pc \in {"save_old", "log_old"} \/ j.done # {})
       => j.record.valid_from # MinDate

\* The status a job is about to save has been come by as the code says.
Earned(j) ==
  /\ j.op = "reject" => j.record.status = "rejected"
  /\ j.op = "approve" /\ j.pc # "check" =>
       j.record.status = "verified_active" /\ j.record.evidence
  /\ /\ j.op = "ingest"
     /\ j.pc \notin {"log_scanned", "log_blocked", "log_ingested", "log_admitted"}
     /\ j.record.status \in {"verified_active", "superseded"}
     => AdmissionStatus(j.record) = "verified_active"

Sound(j) == Shape(j) /\ Closes(j) /\ Earned(j)

\* Rows are never deleted, so what a job has read a copy of is still there.
Rows(j) ==
  /\ j.op \in {"approve", "reject"} => IsStored(j.id)
  /\ \A m \in DOMAIN j.todo : IsStored(m)

JobsInv ==
  /\ TypeOK
  /\ job \in [Workers -> Job]
  /\ crashes \in 0..MaxCrashes
  /\ halfway \subseteq Ids
  /\ unlogged \subseteq Ids
  /\ \A w \in Workers : Sound(job[w]) /\ Rows(job[w])

-----------------------------------------------------------------------------
(* Jobs and what they turn to *)

LEMMA TodoType ==
  ASSUME NEW S \in SUBSET Ids, NEW todo \in [S -> MemoryRecord]
  PROVE  todo \in Todo
BY DEF Todo

LEMMA TodoMembers ==
  ASSUME NEW todo \in Todo
  PROVE  /\ DOMAIN todo \in SUBSET Ids
         /\ todo \in [DOMAIN todo -> MemoryRecord]
         /\ \A m \in DOMAIN todo : todo[m] \in MemoryRecord
BY DEF Todo

LEMMA NothingType == Nothing \in Todo /\ DOMAIN Nothing = {}
<1>1. Nothing \in [{} -> MemoryRecord]
  BY DEF Nothing
<1> QED
  BY <1>1, TodoType

LEMMA NoWorkSound ==
  /\ NoWork \in Job
  /\ Sound(NoWork)
  /\ NoWork.pc = "idle" /\ NoWork.op = "none" /\ NoWork.id = NoId /\ NoWork.done = {}
  /\ NoWork.todo = Nothing
<1>1. NoWork \in Job
  BY NothingType DEF NoWork, Job, PC, Op
<1> QED
  BY <1>1 DEF NoWork, Sound, Shape, Closes, Earned

LEMMA CopiesType ==
  ASSUME TypeOK, NEW ids \in SUBSET Stored
  PROVE  Copies(ids) \in Todo /\ DOMAIN Copies(ids) = ids
<1>1. Copies(ids) \in [ids -> MemoryRecord]
  BY DEF Copies, TypeOK, Stored, IsStored
<1> QED
  BY <1>1, TodoType DEF Copies, Stored

\* A job with `todo' left goes on with one of them, without one it saves.
LEMMA TurnToDoes ==
  ASSUME NEW j \in Job, NEW todo \in Todo, NEW n \in TurnTo(j, todo)
  PROVE  /\ n \in Job
         /\ \/ j.op = "expire" /\ DOMAIN todo = {} /\ n = NoWork
            \/ /\ n.op = j.op /\ n.id = j.id /\ n.record = j.record /\ n.done = j.done
               /\ \/ j.op # "expire" /\ n.pc = "save" /\ n.todo = Nothing /\ DOMAIN todo = {}
                  \/ /\ n.pc = IF j.op = "ingest" THEN "get_old" ELSE "save_old"
                     /\ n.todo = todo /\ n.old \in DOMAIN todo
<1>1. CASE DOMAIN todo = {} /\ j.op = "expire"
  BY <1>1, NoWorkSound DEF TurnTo
<1>2. CASE DOMAIN todo = {} /\ j.op # "expire"
  <2>1. n = [j EXCEPT !.pc = "save", !.old = NoId, !.todo = Nothing]
    BY <1>2 DEF TurnTo
  <2> QED
    BY <1>2, <2>1, NothingType DEF Job, PC
<1>3. CASE DOMAIN todo # {}
  <2>1. PICK m \in DOMAIN todo :
          n = [j EXCEPT !.pc = IF j.op = "ingest" THEN "get_old" ELSE "save_old",
                        !.old = m, !.todo = todo]
    BY <1>3 DEF TurnTo
  <2>2. m \in Ids
    BY TodoMembers
  <2> QED
    BY <2>1, <2>2 DEF Job, PC
<1> QED
  BY <1>1, <1>2, <1>3

-----------------------------------------------------------------------------
(* What a call does to the tables *)

LEMMA LogsDoes ==
  ASSUME TypeOK, NEW id \in Ids, NEW event \in AuditEvent, Logs(id, event)
  PROVE  /\ TypeOK' /\ memories' = memories /\ crashes' = crashes /\ halfway' = halfway
         /\ unlogged' = unlogged
         /\ audit_events'[id] = Append(audit_events[id], event)
         /\ \A m \in Ids \ {id} : audit_events'[m] = audit_events[m]
BY DEF TypeOK, Logs

LEMMA SavesDoes ==
  ASSUME TypeOK, NEW id \in Ids, NEW record \in MemoryRecord, Saves(id, record)
  PROVE  /\ TypeOK' /\ audit_events' = audit_events /\ crashes' = crashes /\ halfway' = halfway
         /\ unlogged' = unlogged
         /\ memories'[id] = record
         /\ \A m \in Ids \ {id} : memories'[m] = memories[m]
BY DEF TypeOK, Saves

LEMMA ReadsDoes ==
  ASSUME TypeOK, Reads
  PROVE  /\ TypeOK' /\ memories' = memories /\ audit_events' = audit_events
         /\ crashes' = crashes /\ halfway' = halfway /\ unlogged' = unlogged
BY DEF TypeOK, Reads

-----------------------------------------------------------------------------
(* What each call does to the job, field by field *)

\* Only w moves, to a job of the right shape.
Moves(w) ==
  /\ job' \in [Workers -> Job]
  /\ Sound(job'[w])
  /\ \A v \in Workers \ {w} : job'[v] = job[v]

\* A job keeps what it is about, and nothing but its next call changes.
Keeps(j, n) ==
  n.op = j.op /\ n.id = j.id /\ n.done = j.done

OnlyNext(j, n) ==
  Keeps(j, n) /\ n.record = j.record /\ n.old = j.old /\ n.todo = j.todo

LEMMA MoveTo ==
  ASSUME job \in [Workers -> Job], NEW w \in Workers, NEW n \in Job, Sound(n),
         job' = [job EXCEPT ![w] = n]
  PROVE  Moves(w) /\ job'[w] = n
BY DEF Moves

LEMMA StopDoes ==
  ASSUME job \in [Workers -> Job], NEW w \in Workers, Stops(w)
  PROVE  Moves(w) /\ job'[w] = NoWork
BY NoWorkSound, MoveTo DEF Stops

LEMMA NextDoes ==
  ASSUME NEW j \in Job, NEW pc \in PC
  PROVE  LET n == [j EXCEPT !.pc = pc] IN n \in Job /\ n.pc = pc /\ OnlyNext(j, n)
BY DEF Job, OnlyNext, Keeps

LEMMA GoDoes ==
  ASSUME job \in [Workers -> Job], NEW w \in Workers, NEW pc \in PC, Goes(w, pc),
         Sound([job[w] EXCEPT !.pc = pc])
  PROVE  Moves(w) /\ job'[w].pc = pc /\ OnlyNext(job[w], job'[w])
<1> DEFINE n == [job[w] EXCEPT !.pc = pc]
<1>1. n \in Job /\ n.pc = pc /\ OnlyNext(job[w], n)
  BY NextDoes
<1>2. job' = [job EXCEPT ![w] = n]
  BY DEF Goes
<1> QED
  BY <1>1, <1>2, MoveTo

LEMMA BeginIngestDoes ==
  ASSUME JobsInv, NEW w \in Workers, NEW id \in Ids, NEW s \in Submissions,
         BeginIngest(w, id, s)
  PROVE  /\ Moves(w) /\ Reads /\ job[w] = NoWork /\ ~IsStored(id)
         /\ CallersShareIds \/ \A v \in Workers : job[v].id # id
         /\ job'[w].op = "ingest" /\ job'[w].id = id /\ job'[w].pc = "log_scanned"
         /\ job'[w].todo = Nothing /\ job'[w].done = {}
<1> DEFINE n == Work("log_scanned", "ingest", id, s)
<1>1. s \in MemoryRecord
  BY SubmissionsAssumption
<1>2. /\ n \in Job /\ n.op = "ingest" /\ n.id = id /\ n.pc = "log_scanned" /\ n.record = s
      /\ n.todo = Nothing /\ n.done = {}
  BY <1>1, NoWorkSound DEF Work, Job, PC, Op, NoWork
<1>3. Sound(n)
  <2> HIDE DEF n
  <2> QED
    BY <1>1, <1>2 DEF Sound, Shape, Closes, Earned
<1>4. job' = [job EXCEPT ![w] = n]
  BY DEF BeginIngest
<1>5. Moves(w) /\ job'[w] = n
  BY <1>2, <1>3, <1>4, MoveTo DEF JobsInv
<1> QED
  BY <1>2, <1>5 DEF BeginIngest

\* What a save never changes of a row.
Content(r) == [r EXCEPT !.status = "candidate", !.valid_to = NoDate, !.supersedes = NoId]

SameText(r, s) == Content(r) = Content(s)

LEMMA BeginReviewDoes ==
  ASSUME JobsInv, NEW w \in Workers, NEW id \in Ids, NEW op \in {"approve", "reject"},
         BeginReview(w, id, op)
  PROVE  /\ Moves(w) /\ Reads /\ job[w] = NoWork /\ IsStored(id)
         /\ job'[w].op = op /\ job'[w].id = id
         /\ job'[w].pc = IF op = "approve" THEN "check" ELSE "save"
         /\ SameText(job'[w].record, memories[id])
         /\ job'[w].todo = Nothing /\ job'[w].done = {}
<1> DEFINE record == IF op = "approve" THEN memories[id]
                     ELSE [memories[id] EXCEPT !.status = "rejected"]
           pc == IF op = "approve" THEN "check" ELSE "save"
           n == Work(pc, op, id, record)
<1>1. memories[id] \in MemoryRecord
  BY DEF JobsInv, TypeOK, BeginReview, IsStored
<1>2. record \in MemoryRecord /\ (op = "reject" => record.status = "rejected")
  BY <1>1 DEF MemoryRecord, MemoryStatus
<1>3. SameText(record, memories[id])
  BY <1>1 DEF SameText, Content, MemoryRecord
<1>4. job' = [job EXCEPT ![w] = n]
  BY DEF BeginReview
<1>5. IsStored(id) /\ Reads /\ job[w] = NoWork
  BY DEF BeginReview
<1> HIDE DEF record
<1>6. /\ n \in Job /\ n.op = op /\ n.id = id /\ n.pc = pc /\ n.record = record
      /\ n.todo = Nothing /\ n.done = {}
  BY <1>2, NoWorkSound DEF Work, Job, PC, Op, NoWork
<1>7. Sound(n)
  <2> HIDE DEF n
  <2> QED
    BY <1>2, <1>6, NothingType DEF Sound, Shape, Closes, Earned
<1>8. Moves(w) /\ job'[w] = n
  BY <1>4, <1>6, <1>7, MoveTo DEF JobsInv
<1> QED
  BY <1>5, <1>6, <1>8, <1>3

LEMMA BeginExpireDoes ==
  ASSUME JobsInv, NEW w \in Workers, NEW ids \in SUBSET Stored, BeginExpire(w, ids)
  PROVE  /\ Moves(w) /\ Reads /\ job[w] = NoWork
         /\ job'[w].op = "expire" /\ job'[w].pc = "save_old"
         /\ job'[w].todo = Copies(ids) /\ job'[w].done = {}
<1> DEFINE j == Work("none", "expire", NoId, NoRecord)
           k == [j EXCEPT !.pc = "idle"]
<1>1. PICK n \in TurnTo(j, Copies(ids)) : job' = [job EXCEPT ![w] = n]
  BY DEF BeginExpire
<1>2. Copies(ids) \in Todo /\ DOMAIN Copies(ids) = ids /\ ids # {}
  BY CopiesType DEF JobsInv, BeginExpire
<1>3. PICK m \in ids : n = [j EXCEPT !.pc = "save_old", !.old = m, !.todo = Copies(ids)]
  BY <1>1, <1>2 DEF TurnTo, Work, NoWork
<1>4. /\ n \in Job /\ n.op = "expire" /\ n.pc = "save_old" /\ n.id = NoId /\ n.old = m
      /\ n.todo = Copies(ids) /\ n.done = {}
  BY <1>2, <1>3 DEF Work, NoWork, Job, PC, Op, Stored
<1>5. Sound(n)
  BY <1>2, <1>4 DEF Sound, Shape, Closes, Earned
<1>6. Moves(w) /\ job'[w] = n
  BY <1>1, <1>4, <1>5, MoveTo DEF JobsInv
<1> QED
  BY <1>4, <1>6 DEF BeginExpire

\* The four calls of an ingest before it looks for conflicts.
Notes(w) == LogScanned(w) \/ LogBlocked(w) \/ LogIngested(w) \/ LogAdmitted(w)

LEMMA NoteDoes ==
  ASSUME JobsInv, NEW w \in Workers, Notes(w)
  PROVE  /\ Moves(w)
         /\ job[w].op = "ingest" /\ job[w].id \in Ids
         /\ job[w].pc \in {"log_scanned", "log_blocked", "log_ingested", "log_admitted"}
         /\ \E event \in AuditEvent :
              event.event_type # "superseded" /\ Logs(job[w].id, event)
         /\ \/ job'[w] = NoWork
            \/ /\ Keeps(job[w], job'[w]) /\ job'[w].todo = job[w].todo
               /\ job'[w].pc \in {"log_blocked", "log_ingested", "log_admitted", "resolve"}
<1> DEFINE j == job[w]
<1>1. j \in Job /\ Sound(j) /\ job \in [Workers -> Job] /\ TypeOK
  BY DEF JobsInv
<1>2. ASSUME j.pc \in {"log_scanned", "log_blocked", "log_ingested", "log_admitted"}
      PROVE  j.op = "ingest" /\ j.id \in Ids /\ j.record \in MemoryRecord
  BY <1>1, <1>2 DEF Sound, Shape
<1>3. ASSUME j.op = "ingest", NEW pc \in {"log_blocked", "log_ingested", "log_admitted"},
             j.pc \in {"log_scanned", "log_blocked", "log_ingested", "log_admitted"}
      PROVE  Sound([j EXCEPT !.pc = pc])
  <2>1. pc \in PC
    BY DEF PC
  <2>2. LET n == [j EXCEPT !.pc = pc] IN n \in Job /\ n.pc = pc /\ OnlyNext(j, n)
    BY <1>1, <2>1, NextDoes
  <2> QED
    BY <1>1, <1>2, <1>3, <2>2 DEF Sound, Shape, Closes, Earned, OnlyNext, Keeps
<1>4. ASSUME NEW pc \in {"log_blocked", "log_ingested", "log_admitted"}, Goes(w, pc),
             j.pc \in {"log_scanned", "log_blocked", "log_ingested", "log_admitted"}
      PROVE  /\ Moves(w) /\ Keeps(j, job'[w]) /\ job'[w].todo = j.todo
             /\ job'[w].pc = pc
  <2>1. pc \in PC
    BY DEF PC
  <2> QED
    BY <1>1, <1>2, <1>3, <1>4, <2>1, GoDoes DEF OnlyNext
<1>5. CASE LogScanned(w)
  <2>1. ScannedEvent \in AuditEvent /\ ScannedEvent.event_type # "superseded"
    BY EventType_ DEF ScannedEvent, EventType, MemoryStatus, Event
  <2>2. Logs(j.id, ScannedEvent) /\ j.pc = "log_scanned"
    BY <1>5 DEF LogScanned
  <2>3. PICK pc \in {"log_ingested", "log_blocked"} : Goes(w, pc)
    BY <1>5 DEF LogScanned
  <2> QED
    BY <1>2, <1>4, <2>1, <2>2, <2>3
<1>6. CASE LogBlocked(w)
  <2> DEFINE event == Event("security_blocked", "candidate", {})
  <2>1. event \in AuditEvent /\ event.event_type # "superseded"
    BY EventType_ DEF EventType, MemoryStatus, Event
  <2>2. Logs(j.id, event) /\ j.pc = "log_blocked" /\ Stops(w)
    BY <1>6 DEF LogBlocked
  <2> HIDE DEF event
  <2> QED
    BY <1>1, <1>2, <2>1, <2>2, StopDoes
<1>7. CASE LogIngested(w)
  <2> DEFINE event == Event("ingested", "candidate", {})
  <2>1. event \in AuditEvent /\ event.event_type # "superseded"
    BY EventType_ DEF EventType, MemoryStatus, Event
  <2>2. Logs(j.id, event) /\ j.pc = "log_ingested" /\ Goes(w, "log_admitted")
    BY <1>7 DEF LogIngested
  <2> HIDE DEF event
  <2> QED
    BY <1>2, <1>4, <2>1, <2>2
<1>8. CASE LogAdmitted(w)
  <2> DEFINE status == AdmissionStatus(j.record)
             event == Event("admitted", status, {})
             record == [j.record EXCEPT !.status = status]
             n == [j EXCEPT !.pc = "resolve", !.record = record]
  <2>1. j.pc = "log_admitted" /\ Logs(j.id, event)
    BY <1>8 DEF LogAdmitted
  <2>2. j.op = "ingest" /\ j.id \in Ids /\ j.record \in MemoryRecord
    BY <1>2, <2>1
  <2>3. status \in MemoryStatus /\ status # "superseded"
    BY <2>2, AdmissionStatusType DEF MemoryStatus
  <2>4. event \in AuditEvent /\ event.event_type # "superseded"
    BY <2>3, EventType_ DEF EventType, Event
  <2>5. /\ record \in MemoryRecord /\ AdmissionStatus(record) = status
        /\ record.status = status /\ record.valid_from = j.record.valid_from
    <3>1. /\ record \in MemoryRecord /\ record.status = status
          /\ record.valid_from = j.record.valid_from
      BY <2>2, <2>3 DEF MemoryRecord
    <3>2. AdmissionStatus(record) = status
      BY <2>2, <2>3 DEF MemoryRecord, AdmissionStatus
    <3> QED
      BY <3>1, <3>2
  <2>6. job' = [job EXCEPT ![w] = n]
    BY <1>1, <1>8 DEF LogAdmitted, Job
  <2> HIDE DEF event, record
  <2>7. n \in Job /\ n.pc = "resolve" /\ n.record = record /\ n.todo = j.todo /\ Keeps(j, n)
    BY <1>1, <2>5 DEF Job, PC, Keeps
  <2> HIDE DEF n
  <2>8. Sound(n)
    BY <1>1, <2>1, <2>2, <2>3, <2>5, <2>7 DEF Sound, Shape, Closes, Earned, Keeps
  <2>9. Moves(w) /\ job'[w] = n
    BY <1>1, <2>6, <2>7, <2>8, MoveTo
  <2> QED
    BY <2>1, <2>2, <2>4, <2>7, <2>9
<1> QED
  BY <1>5, <1>6, <1>7, <1>8 DEF Notes

\* The copies a job has just read are the rows as they are.
Reread(n) == \A m \in DOMAIN n.todo : IsStored(m) /\ n.todo[m] = memories[m]

LEMMA CopiesReread ==
  ASSUME TypeOK, NEW ids \in SUBSET Stored, NEW n, n.todo \in {Nothing, Copies(ids)}
  PROVE  Reread(n)
BY NothingType DEF Reread, Copies, Stored

LEMMA ResolveDoes ==
  ASSUME JobsInv, NEW w \in Workers, Resolve(w)
  PROVE  /\ Moves(w) /\ Reads /\ job[w].op = "ingest" /\ job[w].pc = "resolve"
         /\ \/ job'[w] = NoWork
            \/ /\ Keeps(job[w], job'[w]) /\ Reread(job'[w])
               /\ job'[w].pc \in {"get_old", "save"}
               /\ DOMAIN job'[w].todo \subseteq ActiveConflicts(NoId, job[w].record)
               /\ SameText(job'[w].record, job[w].record)
<1> DEFINE j      == job[w]
           active == ActiveConflicts(NoId, j.record)
           status == ResolvedStatus(j.record, j.record.status, Versions(active))
           olds   == IF status = "verified_active" THEN active ELSE {}
           record == [j.record EXCEPT !.status = status]
           k      == [j EXCEPT !.record = record]
<1>1. j \in Job /\ Sound(j) /\ job \in [Workers -> Job] /\ TypeOK
  BY DEF JobsInv
<1>2. j.pc = "resolve" /\ Reads
  BY DEF Resolve
<1>3. j.op = "ingest" /\ j.id \in Ids /\ j.record \in MemoryRecord
  BY <1>1, <1>2 DEF Sound, Shape
<1>4. CASE ~KeyLoads(j.record.conflict_key)
  BY <1>1, <1>2, <1>3, <1>4, StopDoes DEF Resolve
<1>5. CASE KeyLoads(j.record.conflict_key)
  <2>1. PICK n \in TurnTo(k, Copies(olds)) : job' = [job EXCEPT ![w] = n]
    <3>1. k = [j EXCEPT !.record.status = status]
      BY <1>1 DEF Job
    <3> QED
      BY <1>5, <3>1 DEF Resolve
  <2>2. status \in MemoryStatus /\ (status = "verified_active" => j.record.status = "verified_active")
        /\ (status = "superseded" => j.record.status = "superseded")
    BY <1>3 DEF ResolvedStatus, MemoryRecord, MemoryStatus
  <2>3. olds \in SUBSET Stored /\ olds \subseteq active
    BY DEF ActiveConflicts
  <2> HIDE DEF olds, status, active
  <2>12. SameText(record, j.record)
    BY <1>3, <2>2 DEF SameText, Content, MemoryRecord
  <2>4. /\ record \in MemoryRecord /\ record.status = status
        /\ record.valid_from = j.record.valid_from
        /\ AdmissionStatus(record) = AdmissionStatus(j.record)
    BY <1>3, <2>2 DEF MemoryRecord, AdmissionStatus
  <2>5. status \in {"verified_active", "superseded"} => AdmissionStatus(record) = "verified_active"
    BY <1>1, <1>2, <1>3, <2>2, <2>4 DEF Sound, Earned
  <2> HIDE DEF record
  <2>6. k \in Job /\ k.op = "ingest" /\ k.id = j.id /\ k.record = record /\ k.done = j.done
    BY <1>1, <1>3, <2>4 DEF Job
  <2> HIDE DEF k
  <2>7. Copies(olds) \in Todo /\ DOMAIN Copies(olds) = olds
    BY <1>1, <2>3, CopiesType
  <2>8. /\ n \in Job /\ n.op = "ingest" /\ n.id = j.id /\ n.record = record /\ n.done = j.done
        /\ \/ n.pc = "save" /\ n.todo = Nothing
           \/ n.pc = "get_old" /\ n.todo = Copies(olds) /\ n.old \in DOMAIN n.todo
    BY <2>1, <2>6, <2>7, TurnToDoes
  <2>9. Sound(n)
    BY <1>1, <1>3, <2>4, <2>5, <2>8 DEF Sound, Shape, Closes, Earned
  <2>10. Reread(n)
    BY <1>1, <2>3, <2>8, CopiesReread
  <2>11. Moves(w) /\ job'[w] = n
    BY <1>1, <2>1, <2>8, <2>9, MoveTo
  <2>13. DOMAIN n.todo \subseteq ActiveConflicts(NoId, j.record)
    BY <2>3, <2>7, <2>8, NothingType DEF active
  <2> QED
    BY <1>2, <1>3, <2>8, <2>10, <2>11, <2>12, <2>13 DEF Keeps
<1> QED
  BY <1>4, <1>5

LEMMA CheckDoes ==
  ASSUME JobsInv, NEW w \in Workers, Check(w)
  PROVE  /\ Moves(w) /\ Reads /\ job[w].op = "approve" /\ job[w].pc = "check"
         /\ \/ job'[w] = NoWork
            \/ /\ Keeps(job[w], job'[w]) /\ Reread(job'[w])
               /\ job'[w].pc \in {"save_old", "save"}
               /\ job'[w].record = [job[w].record EXCEPT !.status = "verified_active"]
               /\ DOMAIN job'[w].todo \subseteq ActiveConflicts(job[w].id, job[w].record)
<1> DEFINE j      == job[w]
           olds   == ActiveConflicts(j.id, j.record)
           record == [j.record EXCEPT !.status = "verified_active"]
           k      == [j EXCEPT !.record = record]
<1>1. j \in Job /\ Sound(j) /\ job \in [Workers -> Job] /\ TypeOK
  BY DEF JobsInv
<1>2. j.pc = "check" /\ Reads
  BY DEF Check
<1>3. j.op = "approve" /\ j.id \in Ids /\ j.record \in MemoryRecord
  BY <1>1, <1>2 DEF Sound, Shape
<1>4. CASE ~CanApprove(j.record, olds)
  BY <1>1, <1>2, <1>3, <1>4, StopDoes DEF Check
<1>5. CASE CanApprove(j.record, olds)
  <2>1. PICK n \in TurnTo(k, Copies(olds)) : job' = [job EXCEPT ![w] = n]
    <3>1. k = [j EXCEPT !.record.status = "verified_active"]
      BY <1>1 DEF Job
    <3> QED
      BY <1>5, <3>1 DEF Check
  <2>2. j.record.evidence /\ (olds # {} => j.record.valid_from # MinDate)
    BY <1>5 DEF CanApprove, ClosingOverflows
  <2>3. olds \in SUBSET Stored
    BY DEF ActiveConflicts
  <2> HIDE DEF olds
  <2>4. /\ record \in MemoryRecord /\ record.status = "verified_active"
        /\ record.valid_from = j.record.valid_from /\ record.evidence = j.record.evidence
    BY <1>3 DEF MemoryRecord, MemoryStatus
  <2> HIDE DEF record
  <2>5. k \in Job /\ k.op = "approve" /\ k.id = j.id /\ k.record = record /\ k.done = j.done
    BY <1>1, <1>3, <2>4 DEF Job
  <2> HIDE DEF k
  <2>6. Copies(olds) \in Todo /\ DOMAIN Copies(olds) = olds
    BY <1>1, <2>3, CopiesType
  <2>7. /\ n \in Job /\ n.op = "approve" /\ n.id = j.id /\ n.record = record /\ n.done = j.done
        /\ \/ n.pc = "save" /\ n.todo = Nothing
           \/ /\ n.pc = "save_old" /\ n.todo = Copies(olds) /\ n.old \in DOMAIN n.todo
              /\ olds # {}
    BY <2>1, <2>5, <2>6, TurnToDoes
  <2>8. Sound(n)
    BY <1>3, <2>2, <2>4, <2>7, NothingType DEF Sound, Shape, Closes, Earned
  <2>9. Reread(n)
    BY <1>1, <2>3, <2>7, CopiesReread
  <2>10. Moves(w) /\ job'[w] = n
    BY <1>1, <2>1, <2>7, <2>8, MoveTo
  <2>11. DOMAIN n.todo \subseteq ActiveConflicts(j.id, j.record)
    BY <2>6, <2>7, NothingType DEF olds
  <2> QED
    BY <1>2, <1>3, <2>7, <2>9, <2>10, <2>11 DEF Keeps, record
<1> QED
  BY <1>4, <1>5

LEMMA GetOldDoes ==
  ASSUME JobsInv, NEW w \in Workers, GetOld(w)
  PROVE  /\ Moves(w) /\ job[w].op = "ingest" /\ job[w].pc = "get_old"
         /\ UNCHANGED <<memories, audit_events, crashes, unlogged>>
         /\ \/ /\ Keeps(job[w], job'[w]) /\ job'[w].pc = "save_old" /\ halfway' = halfway
               /\ DOMAIN job'[w].todo = DOMAIN job[w].todo
               /\ \A m \in DOMAIN job[w].todo :
                    job'[w].todo[m] \in {memories[m], job[w].todo[m]}
            \/ /\ job'[w] = NoWork
               /\ halfway' = IF job[w].done = {} THEN halfway ELSE halfway \cup {job[w].id}
<1> DEFINE j    == job[w]
           todo == [j.todo EXCEPT ![j.old] = memories[j.old]]
           n    == [j EXCEPT !.pc = "save_old", !.todo = todo]
           fine == /\ WellFormedWindow(memories[j.old])
                   /\ ~ClosingOverflows(j.record, {memories[j.old]})
<1>1. j \in Job /\ Sound(j) /\ Rows(j) /\ job \in [Workers -> Job] /\ TypeOK
  BY DEF JobsInv
<1>2. j.pc = "get_old" /\ UNCHANGED <<memories, audit_events, crashes, unlogged>>
  BY DEF GetOld
<1>3. /\ j.op = "ingest" /\ j.id \in Ids /\ j.record \in MemoryRecord
      /\ j.old \in DOMAIN j.todo /\ j.todo \in Todo
  BY <1>1, <1>2 DEF Sound, Shape, Job
<1>4. CASE ~fine
  BY <1>1, <1>2, <1>3, <1>4, StopDoes DEF GetOld
<1>5. CASE fine
  <2>1. job' = [job EXCEPT ![w] = n] /\ halfway' = halfway
    BY <1>1, <1>5 DEF GetOld, Job
  <2>2. j.record.valid_from # MinDate
    BY <1>5 DEF ClosingOverflows
  <2>3. memories[j.old] \in MemoryRecord
    BY <1>1, <1>3, TodoMembers DEF Rows, IsStored, TypeOK
  <2>4. todo \in Todo /\ DOMAIN todo = DOMAIN j.todo
        /\ \A m \in DOMAIN j.todo : todo[m] \in {memories[m], j.todo[m]}
    <3>1. j.todo \in [DOMAIN j.todo -> MemoryRecord] /\ DOMAIN j.todo \in SUBSET Ids
      BY <1>3, TodoMembers
    <3>2. todo \in [DOMAIN j.todo -> MemoryRecord]
      BY <3>1, <2>3
    <3>3. \A m \in DOMAIN j.todo : todo[m] \in {memories[m], j.todo[m]}
      BY <3>1
    <3> QED
      BY <3>1, <3>2, <3>3, TodoType
  <2> HIDE DEF todo
  <2>5. /\ n \in Job /\ n.pc = "save_old" /\ n.todo = todo /\ Keeps(j, n)
        /\ n.record = j.record /\ n.old = j.old
    BY <1>1, <2>4 DEF Job, PC, Keeps
  <2> HIDE DEF n
  <2>6. Sound(n)
    BY <1>1, <1>2, <1>3, <2>2, <2>4, <2>5 DEF Sound, Shape, Closes, Earned, Keeps
  <2>7. Moves(w) /\ job'[w] = n
    BY <1>1, <2>1, <2>5, <2>6, MoveTo
  <2> QED
    BY <1>2, <1>3, <2>1, <2>4, <2>5, <2>7
<1> QED
  BY <1>4, <1>5

LEMMA SaveOldDoes ==
  ASSUME JobsInv, NEW w \in Workers, SaveOld(w)
  PROVE  /\ Moves(w) /\ job[w].pc = "save_old" /\ job[w].op \in {"ingest", "approve", "expire"}
         /\ job[w].old \in Ids /\ job[w].old \in DOMAIN job[w].todo
         /\ \E record \in MemoryRecord :
              /\ Saves(job[w].old, record)
              /\ record.status = IF job[w].op = "expire" THEN "expired" ELSE "superseded"
              /\ SameText(record, job[w].todo[job[w].old])
         /\ OnlyNext(job[w], job'[w]) /\ job'[w].pc = "log_old"
<1> DEFINE j == job[w]
           copy == j.todo[j.old]
           record == IF j.op = "expire" THEN [copy EXCEPT !.status = "expired"]
                     ELSE Closed(copy, j.record)
<1>1. j \in Job /\ Sound(j) /\ job \in [Workers -> Job] /\ TypeOK
  BY DEF JobsInv
<1>2. j.pc = "save_old" /\ Saves(j.old, record) /\ Goes(w, "log_old")
  BY DEF SaveOld
<1>3. /\ j.op \in {"ingest", "approve", "expire"}
      /\ j.old \in DOMAIN j.todo /\ j.todo \in Todo
  BY <1>1, <1>2 DEF Sound, Shape, Job
<1>4. j.op # "expire" => j.record \in MemoryRecord /\ j.record.valid_from # MinDate
  BY <1>1, <1>2, <1>3 DEF Sound, Shape, Closes
<1>5. copy \in MemoryRecord /\ j.old \in Ids
  BY <1>3, TodoMembers
<1> HIDE DEF copy
<1>6. /\ record \in MemoryRecord /\ SameText(record, copy)
      /\ record.status = IF j.op = "expire" THEN "expired" ELSE "superseded"
  <2>1. CASE j.op = "expire"
    BY <1>5, <2>1, ZenonT(60) DEF MemoryRecord, MemoryStatus, SameText, Content
  <2>2. CASE j.op # "expire"
    <3>1. record = Closed(copy, j.record)
      BY <2>2
    <3>2. Closed(copy, j.record) \in MemoryRecord
      BY <1>4, <1>5, <2>2, ClosedType
    <3>3. SameText(Closed(copy, j.record), copy)
      BY <1>5 DEF Closed, SameText, Content, MemoryRecord
    <3>4. Closed(copy, j.record).status = "superseded"
      BY <1>4, <1>5, <2>2, ClosedKeeps
    <3> QED
      BY <2>2, <3>1, <3>2, <3>3, <3>4
  <2> QED
    BY <2>1, <2>2
<1> HIDE DEF record
<1>7. "log_old" \in PC
  BY DEF PC
<1>8. Sound([j EXCEPT !.pc = "log_old"])
  <2>1. LET n == [j EXCEPT !.pc = "log_old"] IN
        n \in Job /\ n.pc = "log_old" /\ OnlyNext(j, n)
    BY <1>1, <1>7, NextDoes
  <2> QED
    BY <1>1, <1>2, <1>3, <2>1 DEF Sound, Shape, Closes, Earned, OnlyNext, Keeps
<1>9. Moves(w) /\ job'[w].pc = "log_old" /\ OnlyNext(j, job'[w])
  BY <1>1, <1>2, <1>7, <1>8, GoDoes
<1> QED
  BY <1>2, <1>3, <1>5, <1>6, <1>9 DEF copy

LEMMA LogOldDoes ==
  ASSUME JobsInv, NEW w \in Workers, LogOld(w)
  PROVE  /\ Moves(w) /\ job[w].pc = "log_old" /\ job[w].op \in {"ingest", "approve", "expire"}
         /\ job[w].old \in Ids
         /\ \E event \in AuditEvent :
              /\ Logs(job[w].old, event)
              /\ event.status = IF job[w].op = "expire" THEN "expired" ELSE "superseded"
              /\ IF job[w].op = "expire" THEN event.event_type # "superseded"
                 ELSE event.ids = {job[w].id}
         /\ \/ job'[w] = NoWork /\ job[w].op = "expire"
            \/ /\ job'[w].op = job[w].op /\ job'[w].id = job[w].id
               /\ job'[w].done = job[w].done \cup {job[w].old}
               /\ job[w].op # "expire" => SameText(job'[w].record, job[w].record)
               /\ job[w].op # "ingest" => job'[w].record.status = job[w].record.status
               /\ job'[w].pc \in (IF job[w].op = "ingest" THEN {"get_old", "save"}
                                  ELSE {"save_old", "save"})
               /\ \A m \in DOMAIN job'[w].todo :
                    m \in DOMAIN job[w].todo /\ job'[w].todo[m] = job[w].todo[m]
<1> DEFINE j      == job[w]
           left   == [m \in DOMAIN j.todo \ {j.old} |-> j.todo[m]]
           names  == j.op \in (IF j.done = {} THEN {"ingest", "approve"} ELSE {"ingest"})
           record == IF names THEN [j.record EXCEPT !.supersedes = j.old] ELSE j.record
           done   == j.done \cup {j.old}
           after  == [j EXCEPT !.done = done, !.record = record]
           event  == IF j.op = "expire" THEN Event("status_changed", "expired", {})
                     ELSE Event("superseded", "superseded", {j.id})
<1>1. j \in Job /\ Sound(j) /\ job \in [Workers -> Job] /\ TypeOK
  BY DEF JobsInv
<1>2. j.pc = "log_old" /\ Logs(j.old, event)
  BY DEF LogOld
<1>3. PICK n \in TurnTo(after, left) : job' = [job EXCEPT ![w] = n]
  <2>1. after = [j EXCEPT !.done = @ \cup {j.old},
                          !.record = IF names THEN [@ EXCEPT !.supersedes = j.old] ELSE @]
    BY <1>1 DEF Job
  <2> QED
    BY <2>1 DEF LogOld
<1>4. /\ j.op \in {"ingest", "approve", "expire"} /\ j.todo \in Todo /\ j.done \in SUBSET Ids
      /\ j.old \in DOMAIN j.todo
  BY <1>1, <1>2 DEF Sound, Shape, Job
<1>5. j.op # "expire" => j.id \in Ids /\ j.record \in MemoryRecord
  BY <1>1, <1>4 DEF Sound, Shape
<1>6. DOMAIN j.todo \in SUBSET Ids /\ j.todo \in [DOMAIN j.todo -> MemoryRecord] /\ j.old \in Ids
  BY <1>4, TodoMembers
<1>7. left \in Todo /\ DOMAIN left = DOMAIN j.todo \ {j.old}
      /\ \A m \in DOMAIN left : m \in DOMAIN j.todo /\ left[m] = j.todo[m]
  <2>1. left \in [DOMAIN j.todo \ {j.old} -> MemoryRecord]
    BY <1>6
  <2> QED
    BY <1>6, <2>1, TodoType
<1> HIDE DEF left
<1>8. /\ event \in AuditEvent
      /\ event.status = IF j.op = "expire" THEN "expired" ELSE "superseded"
      /\ IF j.op = "expire" THEN event.event_type # "superseded" ELSE event.ids = {j.id}
  <2>1. CASE j.op = "expire"
    BY <2>1, EventType_ DEF EventType, MemoryStatus, Event
  <2>2. CASE j.op # "expire"
    BY <1>5, <2>2, EventType_ DEF EventType, MemoryStatus, Event
  <2> QED
    BY <2>1, <2>2
<1> HIDE DEF event
<1>9. /\ j.op = "expire" => record = j.record
      /\ j.op # "expire" => /\ record \in MemoryRecord /\ SameText(record, j.record)
                            /\ record.status = j.record.status
                            /\ record.valid_from = j.record.valid_from
                            /\ record.evidence = j.record.evidence
                            /\ AdmissionStatus(record) = AdmissionStatus(j.record)
  <2>1. j.op = "expire" => record = j.record
    OBVIOUS
  <2>2. ASSUME j.op # "expire"
        PROVE  /\ record \in MemoryRecord /\ record.status = j.record.status
               /\ record.valid_from = j.record.valid_from
               /\ record.evidence = j.record.evidence
    <3> DEFINE named == [j.record EXCEPT !.supersedes = j.old]
    <3>1. /\ named \in MemoryRecord /\ named.status = j.record.status
          /\ named.valid_from = j.record.valid_from
          /\ named.evidence = j.record.evidence
      BY <1>5, <1>6, <2>2 DEF MemoryRecord
    <3>2. record \in {j.record, named}
      OBVIOUS
    <3> HIDE DEF named, record
    <3> QED
      BY <1>5, <2>2, <3>1, <3>2
  <2>3. ASSUME j.op # "expire"
        PROVE  SameText(record, j.record)
    BY <1>5, <1>6, <2>3 DEF MemoryRecord, SameText, Content
  <2>4. ASSUME j.op # "expire"
        PROVE  AdmissionStatus(record) = AdmissionStatus(j.record)
    BY <1>5, <1>6, <2>4 DEF MemoryRecord, AdmissionStatus
  <2> QED
    BY <2>1, <2>2, <2>3, <2>4
<1> HIDE DEF record
<1>10. done \in SUBSET Ids
  BY <1>4, <1>6
<1> HIDE DEF done
<1>11. after \in Job /\ after.op = j.op /\ after.id = j.id /\ after.record = record
       /\ after.done = done
  BY <1>1, <1>5, <1>9, <1>10 DEF Job
<1> HIDE DEF after
<1>12. /\ n \in Job
       /\ \/ j.op = "expire" /\ n = NoWork
          \/ /\ n.op = j.op /\ n.id = j.id /\ n.record = record /\ n.done = done
             /\ \/ j.op # "expire" /\ n.pc = "save" /\ n.todo = Nothing
                \/ /\ n.pc = IF j.op = "ingest" THEN "get_old" ELSE "save_old"
                   /\ n.todo = left /\ n.old \in DOMAIN left
  BY <1>3, <1>7, <1>11, TurnToDoes
<1>13. Sound(n)
  <2>1. CASE n = NoWork
    BY <2>1, NoWorkSound
  <2>2. CASE n # NoWork
    <3>1. j.op \in {"approve", "ingest"} => j.record.valid_from # MinDate
      BY <1>1, <1>2, <1>4 DEF Sound, Closes
    <3>2. /\ n.op = j.op /\ n.id = j.id /\ n.record = record
          /\ n.pc \in {"save", "get_old", "save_old"}
          /\ j.op = "expire" => n.pc = "save_old"
          /\ j.op = "ingest" => n.pc # "save_old"
          /\ n.pc = "get_old" => j.op = "ingest"
          /\ n.pc \in {"get_old", "save_old"} => n.old \in DOMAIN n.todo
      BY <1>4, <1>12, <2>2
    <3>3. Shape(n)
      BY <1>1, <1>4, <1>5, <1>9, <3>2 DEF Sound, Shape
    <3>4. Closes(n)
      BY <1>4, <1>9, <3>1, <3>2 DEF Closes
    <3>5. Earned(n)
      BY <1>1, <1>2, <1>4, <1>5, <1>9, <3>2 DEF Sound, Earned
    <3> QED
      BY <3>3, <3>4, <3>5 DEF Sound
  <2> QED
    BY <2>1, <2>2
<1>14. Moves(w) /\ job'[w] = n
  BY <1>1, <1>3, <1>12, <1>13, MoveTo
<1>15. \A m \in DOMAIN n.todo :
         \/ m \in DOMAIN j.todo /\ n.todo[m] = j.todo[m]
         \/ n = NoWork
  BY <1>7, <1>12, NothingType
<1>16. \/ n = NoWork /\ j.op = "expire"
       \/ /\ n.op = j.op /\ n.id = j.id /\ n.done = j.done \cup {j.old}
          /\ j.op # "expire" => SameText(n.record, j.record)
          /\ j.op # "ingest" => n.record.status = j.record.status
          /\ n.pc \in (IF j.op = "ingest" THEN {"get_old", "save"} ELSE {"save_old", "save"})
          /\ \A m \in DOMAIN n.todo : m \in DOMAIN j.todo /\ n.todo[m] = j.todo[m]
  <2>1. CASE n = NoWork
    BY <1>12, <2>1, <1>4, NoWorkSound
  <2>2. CASE n # NoWork
    BY <1>9, <1>12, <1>15, <2>2 DEF done
  <2> QED
    BY <2>1, <2>2
<1> QED
  BY <1>2, <1>4, <1>6, <1>8, <1>14, <1>16

LEMMA SaveDoes ==
  ASSUME JobsInv, NEW w \in Workers, Save(w)
  PROVE  /\ Moves(w) /\ job[w].pc = "save" /\ job[w].op \in {"ingest", "approve", "reject"}
         /\ job[w].id \in Ids /\ job[w].record \in MemoryRecord
         /\ Saves(job[w].id, job[w].record)
         /\ OnlyNext(job[w], job'[w])
         /\ job'[w].pc = IF job[w].op = "ingest" THEN "log_status" ELSE "log_reviewed"
<1> DEFINE j == job[w]
           pc == IF j.op = "ingest" THEN "log_status" ELSE "log_reviewed"
<1>1. j \in Job /\ Sound(j) /\ job \in [Workers -> Job] /\ TypeOK
  BY DEF JobsInv
<1>2. j.pc = "save" /\ Saves(j.id, j.record) /\ Goes(w, pc)
  BY DEF Save
<1>3. j.op \in {"ingest", "approve", "reject"} /\ j.id \in Ids /\ j.record \in MemoryRecord
  BY <1>1, <1>2 DEF Sound, Shape
<1>4. pc \in PC
  BY DEF PC
<1>5. Sound([j EXCEPT !.pc = pc])
  <2>1. LET n == [j EXCEPT !.pc = pc] IN n \in Job /\ n.pc = pc /\ OnlyNext(j, n)
    BY <1>1, <1>4, NextDoes
  <2> QED
    BY <1>1, <1>2, <1>3, <2>1 DEF Sound, Shape, Closes, Earned, OnlyNext, Keeps
<1>6. Moves(w) /\ job'[w].pc = pc /\ OnlyNext(j, job'[w])
  BY <1>1, <1>2, <1>4, <1>5, GoDoes
<1> QED
  BY <1>2, <1>3, <1>6

LEMMA LogReviewedDoes ==
  ASSUME JobsInv, NEW w \in Workers, LogReviewed(w)
  PROVE  /\ Moves(w) /\ job[w].pc = "log_reviewed" /\ job[w].op \in {"approve", "reject"}
         /\ job[w].id \in Ids
         /\ \E event \in AuditEvent :
              /\ Logs(job[w].id, event) /\ event.event_type = "reviewed"
              /\ event.status = job[w].record.status
         /\ OnlyNext(job[w], job'[w]) /\ job'[w].pc = "log_status"
<1> DEFINE j == job[w]
           event == Event("reviewed", j.record.status, j.done)
<1>1. j \in Job /\ Sound(j) /\ job \in [Workers -> Job] /\ TypeOK
  BY DEF JobsInv
<1>2. j.pc = "log_reviewed" /\ Logs(j.id, event) /\ Goes(w, "log_status")
  BY DEF LogReviewed
<1>3. /\ j.op \in {"approve", "reject"} /\ j.id \in Ids /\ j.record \in MemoryRecord
      /\ j.done \in SUBSET Ids
  BY <1>1, <1>2 DEF Sound, Shape, Job
<1>4. "log_status" \in PC /\ j.record.status \in MemoryStatus
  BY <1>3 DEF PC, MemoryRecord
<1>5. event \in AuditEvent /\ event.event_type = "reviewed" /\ event.status = j.record.status
  BY <1>3, <1>4, EventType_ DEF EventType, Event
<1> HIDE DEF event
<1>6. Sound([j EXCEPT !.pc = "log_status"])
  <2>1. LET n == [j EXCEPT !.pc = "log_status"] IN
        n \in Job /\ n.pc = "log_status" /\ OnlyNext(j, n)
    BY <1>1, <1>4, NextDoes
  <2> QED
    BY <1>1, <1>2, <1>3, <2>1 DEF Sound, Shape, Closes, Earned, OnlyNext, Keeps
<1>7. Moves(w) /\ job'[w].pc = "log_status" /\ OnlyNext(j, job'[w])
  BY <1>1, <1>2, <1>4, <1>6, GoDoes
<1> QED
  BY <1>2, <1>3, <1>5, <1>7

LEMMA LogStatusDoes ==
  ASSUME JobsInv, NEW w \in Workers, LogStatus(w)
  PROVE  /\ Moves(w) /\ job[w].pc = "log_status" /\ job[w].op \in {"ingest", "approve", "reject"}
         /\ job[w].id \in Ids
         /\ \E event \in AuditEvent :
              /\ Logs(job[w].id, event) /\ event.event_type = "status_changed"
              /\ event.status = job[w].record.status
         /\ job'[w] = NoWork
<1> DEFINE j == job[w]
           event == Event("status_changed", j.record.status, {})
<1>1. j \in Job /\ Sound(j) /\ job \in [Workers -> Job]
  BY DEF JobsInv
<1>2. j.pc = "log_status" /\ Logs(j.id, event) /\ Stops(w)
  BY DEF LogStatus
<1>3. j.op \in {"ingest", "approve", "reject"} /\ j.id \in Ids /\ j.record \in MemoryRecord
  BY <1>1, <1>2 DEF Sound, Shape
<1>4. j.record.status \in MemoryStatus
  BY <1>3 DEF MemoryRecord
<1>5. event \in AuditEvent /\ event.event_type = "status_changed" /\ event.status = j.record.status
  BY <1>4, EventType_ DEF EventType, Event
<1> HIDE DEF event
<1> QED
  BY <1>1, <1>2, <1>3, <1>5, StopDoes

LEMMA CrashDoes ==
  ASSUME JobsInv, NEW w \in Workers, Crash(w)
  PROVE  /\ Moves(w) /\ job'[w] = NoWork
         /\ crashes' = crashes + 1 /\ crashes' \in 0..MaxCrashes
         /\ unlogged' = unlogged \cup {id \in Ids : Approving(job[w], id)}
         /\ UNCHANGED <<memories, audit_events, halfway>>
BY StopDoes, WorkersAssumption DEF JobsInv, Crash

-----------------------------------------------------------------------------
(* Every step is one of these *)

Begins(w) ==
  \/ \E id \in Ids, s \in Submissions : BeginIngest(w, id, s)
  \/ \E id \in Ids, op \in {"approve", "reject"} : BeginReview(w, id, op)
  \/ \E ids \in SUBSET Stored : BeginExpire(w, ids)

Calls(w) ==
  \/ Notes(w) \/ Resolve(w) \/ Check(w) \/ GetOld(w) \/ SaveOld(w) \/ LogOld(w)
  \/ Save(w) \/ LogReviewed(w) \/ LogStatus(w)

LEMMA NextIs ==
  ASSUME Next
  PROVE  \E w \in Workers : Begins(w) \/ Calls(w) \/ Crash(w)
<1>1. PICK w \in Workers : Begin(w, Ids \X Submissions, Pages) \/ GoOn(w) \/ Crash(w)
  BY DEF Next
<1>2. CASE Begin(w, Ids \X Submissions, Pages)
  <2>1. CASE \E r \in Ids \X Submissions : BeginIngest(w, r[1], r[2])
    <3>1. PICK r \in Ids \X Submissions : BeginIngest(w, r[1], r[2])
      BY <2>1
    <3>2. r[1] \in Ids /\ r[2] \in Submissions
      OBVIOUS
    <3>3. \E id \in Ids, s \in Submissions : BeginIngest(w, id, s)
      BY <3>1, <3>2
    <3> QED
      BY <3>3 DEF Begins
  <2>2. CASE \E r \in Ids \X Submissions, op \in {"approve", "reject"} : BeginReview(w, r[1], op)
    <3>1. PICK r \in Ids \X Submissions, op \in {"approve", "reject"} : BeginReview(w, r[1], op)
      BY <2>2
    <3>2. r[1] \in Ids
      OBVIOUS
    <3>3. \E id \in Ids, o \in {"approve", "reject"} : BeginReview(w, id, o)
      BY <3>1, <3>2
    <3> QED
      BY <3>3 DEF Begins
  <2>3. ASSUME NEW ids \in SUBSET Stored, BeginExpire(w, ids)
        PROVE  Begins(w)
    BY <2>3 DEF Begins
  <2>4. CASE \E t \in Tenants, p \in Pages, v \in PageVersions : BeginExpire(w, Replaced(t, p, v))
    <3>1. PICK t \in Tenants, p \in Pages, v \in PageVersions : BeginExpire(w, Replaced(t, p, v))
      BY <2>4
    <3>2. Replaced(t, p, v) \in SUBSET Stored
      BY DEF Replaced, RowsOfPage
    <3> QED
      BY <2>3, <3>1, <3>2
  <2>5. CASE \E t \in Tenants, gone \in SUBSET Pages : BeginExpire(w, Missing(t, gone))
    <3>1. PICK t \in Tenants, gone \in SUBSET Pages : BeginExpire(w, Missing(t, gone))
      BY <2>5
    <3>2. Missing(t, gone) \in SUBSET Stored
      BY DEF Missing, RowsOfPage
    <3> QED
      BY <2>3, <3>1, <3>2
  <2> QED
    BY <1>2, <2>1, <2>2, <2>4, <2>5 DEF Begin
<1>3. CASE GoOn(w)
  BY <1>3 DEF GoOn, Calls, Notes
<1> QED
  BY <1>1, <1>2, <1>3

\* What a worker begins with; it writes nothing yet.
LEMMA BeginDoes ==
  ASSUME JobsInv, NEW w \in Workers, Begins(w)
  PROVE  /\ Moves(w) /\ Reads /\ job[w] = NoWork /\ Reread(job'[w]) /\ job'[w].done = {}
         /\ \/ /\ job'[w].op = "ingest" /\ job'[w].pc = "log_scanned" /\ job'[w].id \in Ids
               /\ ~IsStored(job'[w].id)
               /\ CallersShareIds \/ \A v \in Workers : job[v].id # job'[w].id
            \/ /\ job'[w].op \in {"approve", "reject"} /\ job'[w].pc \in {"check", "save"}
               /\ job'[w].id \in Ids /\ IsStored(job'[w].id)
               /\ SameText(job'[w].record, memories[job'[w].id])
            \/ job'[w].op = "expire" /\ job'[w].pc = "save_old"
<1>1. ASSUME NEW id \in Ids, NEW s \in Submissions, BeginIngest(w, id, s)
      PROVE  Reread(job'[w])
  BY <1>1, BeginIngestDoes, NothingType DEF Reread
<1>2. ASSUME NEW id \in Ids, NEW op \in {"approve", "reject"}, BeginReview(w, id, op)
      PROVE  Reread(job'[w])
  BY <1>2, BeginReviewDoes, NothingType DEF Reread
<1>3. ASSUME NEW ids \in SUBSET Stored, BeginExpire(w, ids)
      PROVE  Reread(job'[w])
  BY <1>3, BeginExpireDoes, CopiesReread DEF JobsInv
<1>4. CASE \E id \in Ids, s \in Submissions : BeginIngest(w, id, s)
  BY <1>1, <1>4, BeginIngestDoes
<1>5. CASE \E id \in Ids, op \in {"approve", "reject"} : BeginReview(w, id, op)
  BY <1>2, <1>5, BeginReviewDoes
<1>6. CASE \E ids \in SUBSET Stored : BeginExpire(w, ids)
  BY <1>3, <1>6, BeginExpireDoes
<1> QED
  BY <1>4, <1>5, <1>6 DEF Begins

-----------------------------------------------------------------------------
(* What every step leaves of the tables *)

\* Rows are overwritten, never deleted.
RowsStay == \A id \in Ids : IsStored(id) => memories'[id] \in MemoryRecord

\* Trails are appended to, never rewritten.
TrailsGrow ==
  \A id \in Ids : \A i \in DOMAIN audit_events[id] :
    i \in DOMAIN audit_events'[id] /\ audit_events'[id][i] = audit_events[id][i]

LEMMA LogsKeep ==
  ASSUME TypeOK, NEW id \in Ids, NEW event \in AuditEvent, Logs(id, event)
  PROVE  RowsStay /\ TrailsGrow
<1>1. memories' = memories /\ \A m \in Ids : audit_events[m] \in Seq(AuditEvent)
  BY DEF TypeOK, Logs
<1>2. RowsStay
  BY <1>1 DEF RowsStay, TypeOK, IsStored
<1>3. ASSUME NEW m \in Ids, NEW i \in DOMAIN audit_events[m]
      PROVE  i \in DOMAIN audit_events'[m] /\ audit_events'[m][i] = audit_events[m][i]
  <2>1. CASE m = id
    <3>1. audit_events'[m] = Append(audit_events[m], event) /\ audit_events[m] \in Seq(AuditEvent)
      BY <1>1, <2>1, LogsDoes
    <3> QED
      BY <3>1
  <2>2. CASE m # id
    BY <2>2, LogsDoes
  <2> QED
    BY <2>1, <2>2
<1> QED
  BY <1>2, <1>3 DEF TrailsGrow

LEMMA SavesKeep ==
  ASSUME TypeOK, NEW id \in Ids, NEW record \in MemoryRecord, Saves(id, record)
  PROVE  RowsStay /\ TrailsGrow
<1>1. RowsStay
  BY SavesDoes DEF RowsStay, TypeOK, IsStored
<1>2. TrailsGrow
  BY SavesDoes DEF TrailsGrow
<1> QED
  BY <1>1, <1>2

LEMMA UnchangedKeep ==
  ASSUME TypeOK, UNCHANGED <<memories, audit_events>>
  PROVE  RowsStay /\ TrailsGrow
BY DEF RowsStay, TrailsGrow, TypeOK, IsStored

\* What a job refers to is there after a step of another worker as well.
LEMMA RowsStable ==
  ASSUME JobsInv, RowsStay, NEW w \in Workers, job'[w] = job[w]
  PROVE  Rows(job[w])'
<1>1. Rows(job[w]) /\ Sound(job[w]) /\ job[w] \in Job
  BY DEF JobsInv
<1>2. DOMAIN job[w].todo \in SUBSET Ids
  BY <1>1, TodoMembers DEF Job
<1>3. job[w].op \in {"approve", "reject"} => job[w].id \in Ids
  BY <1>1 DEF Sound, Shape
<1> QED
  BY <1>1, <1>2, <1>3, NamesAssumption DEF Rows, RowsStay, IsStored

\* The rows of the worker that moves.
LEMMA RowsMoved ==
  ASSUME JobsInv, RowsStay, NEW w \in Workers, Moves(w),
         \/ job'[w] = NoWork
         \/ /\ job'[w].op \in {"approve", "reject"} => IsStored(job'[w].id)
            /\ \A m \in DOMAIN job'[w].todo : IsStored(m)
  PROVE  Rows(job[w])'
<1>1. job'[w] \in Job /\ Shape(job'[w])
  BY DEF Moves, Sound
<1>2. CASE job'[w] = NoWork
  BY <1>2, NoWorkSound, NothingType DEF Rows
<1>3. CASE job'[w] # NoWork
  <2>1. DOMAIN job'[w].todo \in SUBSET Ids
    BY <1>1, TodoMembers DEF Job
  <2>2. job'[w].op \in {"approve", "reject"} => job'[w].id \in Ids
    BY <1>1 DEF Shape
  <2>3. \A m \in DOMAIN job'[w].todo : memories'[m] # NoRecord
    BY <1>3, <2>1, NoWorkSound, NamesAssumption DEF RowsStay
  <2>4. job'[w].op \in {"approve", "reject"} => memories'[job'[w].id] # NoRecord
    BY <1>3, <2>2, NoWorkSound, NamesAssumption DEF RowsStay
  <2> QED
    BY <2>3, <2>4 DEF Rows, IsStored
<1> QED
  BY <1>2, <1>3

\* What every step does to the tables and the counters.
Leaves ==
  /\ TypeOK' /\ RowsStay /\ TrailsGrow
  /\ crashes' \in 0..MaxCrashes /\ (crashes' = 0 => crashes = 0)
  /\ halfway' \subseteq Ids /\ halfway \subseteq halfway'
  /\ unlogged' \subseteq Ids /\ unlogged \subseteq unlogged'

LEMMA ReadsLeave ==
  ASSUME JobsInv, Reads
  PROVE  Leaves
BY ReadsDoes, UnchangedKeep DEF JobsInv, Leaves, Reads

LEMMA LogsLeave ==
  ASSUME JobsInv, NEW id \in Ids, NEW event \in AuditEvent, Logs(id, event)
  PROVE  Leaves
BY LogsDoes, LogsKeep DEF JobsInv, Leaves

LEMMA SavesLeave ==
  ASSUME JobsInv, NEW id \in Ids, NEW record \in MemoryRecord, Saves(id, record)
  PROVE  Leaves
BY SavesDoes, SavesKeep DEF JobsInv, Leaves

LEMMA StepLeaves ==
  ASSUME JobsInv, NEW w \in Workers, Begins(w) \/ Calls(w) \/ Crash(w)
  PROVE  Leaves /\ Moves(w)
<1>1. TypeOK /\ crashes \in 0..MaxCrashes /\ halfway \subseteq Ids /\ unlogged \subseteq Ids
  BY DEF JobsInv
<1>2. CASE Begins(w)
  BY <1>2, BeginDoes, ReadsLeave
<1>3. CASE Notes(w)
  BY <1>3, NoteDoes, LogsLeave
<1>4. CASE Resolve(w)
  BY <1>4, ResolveDoes, ReadsLeave
<1>5. CASE Check(w)
  BY <1>5, CheckDoes, ReadsLeave
<1>6. CASE GetOld(w)
  <2>1. /\ Moves(w) /\ job[w].op = "ingest" /\ job[w].pc = "get_old"
        /\ UNCHANGED <<memories, audit_events, crashes, unlogged>>
        /\ halfway' \in {halfway, halfway \cup {job[w].id}}
    BY <1>6, GetOldDoes
  <2>2. job[w].id \in Ids
    BY <2>1 DEF JobsInv, Sound, Shape
  <2>3. TypeOK'
    BY <1>1, <2>1 DEF TypeOK
  <2> QED
    BY <1>1, <2>1, <2>2, <2>3, UnchangedKeep DEF Leaves
<1>7. CASE SaveOld(w)
  BY <1>7, SaveOldDoes, SavesLeave
<1>8. CASE LogOld(w)
  BY <1>8, LogOldDoes, LogsLeave
<1>9. CASE Save(w)
  BY <1>9, SaveDoes, SavesLeave
<1>10. CASE LogReviewed(w)
  BY <1>10, LogReviewedDoes, LogsLeave
<1>11. CASE LogStatus(w)
  BY <1>11, LogStatusDoes, LogsLeave
<1>12. CASE Crash(w)
  <2>1. /\ Moves(w) /\ crashes' = crashes + 1 /\ crashes' \in 0..MaxCrashes
        /\ UNCHANGED <<memories, audit_events, halfway>>
        /\ unlogged' = unlogged \cup {id \in Ids : Approving(job[w], id)}
    BY <1>12, CrashDoes
  <2>2. TypeOK'
    BY <1>1, <2>1 DEF TypeOK
  <2>3. RowsStay /\ TrailsGrow
    BY <1>1, <2>1, UnchangedKeep
  <2>4. crashes' = 0 => crashes = 0
    BY <1>1, <2>1, WorkersAssumption
  <2> QED
    BY <1>1, <2>1, <2>2, <2>3, <2>4 DEF Leaves
<1> QED
  BY <1>2, <1>3, <1>4, <1>5, <1>6, <1>7, <1>8, <1>9, <1>10, <1>11, <1>12 DEF Calls

LEMMA JobsStep ==
  ASSUME JobsInv, [Next]_vars
  PROVE  JobsInv'
<1>1. CASE UNCHANGED vars
  BY <1>1 DEF vars, JobsInv, TypeOK, Rows, IsStored
<1>2. CASE Next
  <2>1. PICK w \in Workers : Begins(w) \/ Calls(w) \/ Crash(w)
    BY <1>2, NextIs
  <2>2. Leaves /\ Moves(w)
    BY <2>1, StepLeaves
  <2>3. Rows(job[w]) /\ Sound(job[w]) /\ job[w] \in Job
    BY DEF JobsInv
  <2> DEFINE n == job'[w]
  <2>4. \/ n = NoWork
        \/ /\ n.op \in {"approve", "reject"} => IsStored(n.id)
           /\ \A m \in DOMAIN n.todo : IsStored(m)
    <3>1. CASE Begins(w)
      BY <3>1, BeginDoes DEF Reread
    <3>2. CASE Notes(w)
      BY <2>3, <3>2, NoteDoes DEF Keeps, Rows
    <3>3. CASE Resolve(w)
      BY <2>3, <3>3, ResolveDoes DEF Keeps, Reread
    <3>4. CASE Check(w)
      BY <2>3, <3>4, CheckDoes DEF Keeps, Reread, Rows
    <3>5. CASE GetOld(w)
      BY <2>3, <3>5, GetOldDoes DEF Keeps, Rows
    <3>6. CASE SaveOld(w)
      BY <2>3, <3>6, SaveOldDoes DEF OnlyNext, Keeps, Rows
    <3>7. CASE LogOld(w)
      BY <2>3, <3>7, LogOldDoes DEF Rows
    <3>8. CASE Save(w)
      BY <2>3, <3>8, SaveDoes DEF OnlyNext, Keeps, Rows
    <3>9. CASE LogReviewed(w)
      BY <2>3, <3>9, LogReviewedDoes DEF OnlyNext, Keeps, Rows
    <3>10. CASE LogStatus(w) \/ Crash(w)
      BY <3>10, LogStatusDoes, CrashDoes
    <3> QED
      BY <2>1, <3>1, <3>2, <3>3, <3>4, <3>5, <3>6, <3>7, <3>8, <3>9, <3>10 DEF Calls
  <2>5. Rows(job[w])'
    BY <2>2, <2>4, RowsMoved DEF Leaves
  <2>6. ASSUME NEW v \in Workers \ {w}
        PROVE  Sound(job[v])' /\ Rows(job[v])'
    <3>1. job'[v] = job[v] /\ Sound(job[v])
      BY <2>2, <2>6 DEF Moves, JobsInv
    <3>2. Rows(job[v])'
      BY <2>2, <3>1, RowsStable DEF Leaves
    <3> QED
      BY <3>1, <3>2
  <2>7. Sound(job[w])'
    BY <2>2 DEF Moves
  <2> QED
    BY <2>2, <2>5, <2>6, <2>7 DEF Moves, Leaves, JobsInv
<1> QED
  BY <1>1, <1>2

LEMMA JobsInit == Init => JobsInv
<1> SUFFICES ASSUME Init PROVE JobsInv
  OBVIOUS
<1>1. TypeOK
  BY DEF Init, TypeOK
<1>2. \A w \in Workers : job[w] = NoWork
  BY DEF Init
<1>3. \A w \in Workers : Sound(job[w]) /\ Rows(job[w])
  BY <1>2, NoWorkSound, NothingType DEF Rows
<1>4. /\ job \in [Workers -> Job] /\ crashes \in 0..MaxCrashes
      /\ halfway \subseteq Ids /\ unlogged \subseteq Ids
  BY NoWorkSound, WorkersAssumption DEF Init
<1> QED
  BY <1>1, <1>3, <1>4 DEF JobsInv

LEMMA JobsTyped == JobsInv => JobTypeOK
<1> SUFFICES ASSUME JobsInv PROVE JobTypeOK
  OBVIOUS
<1>1. ASSUME NEW w \in Workers
      PROVE  LET j == job[w] IN
             /\ j.pc \in PC
             /\ j.op \in {"none", "ingest", "approve", "reject", "expire"}
             /\ {j.id, j.old} \subseteq Ids \cup {NoId}
             /\ j.record \in MemoryRecord \cup {NoRecord}
             /\ \A m \in DOMAIN j.todo : m \in Ids /\ j.todo[m] \in MemoryRecord
             /\ j.done \subseteq Ids
  <2>1. job[w] \in Job
    BY DEF JobsInv
  <2>2. DOMAIN job[w].todo \in SUBSET Ids /\ \A m \in DOMAIN job[w].todo : job[w].todo[m] \in MemoryRecord
    BY <2>1, TodoMembers DEF Job
  <2> QED
    BY <2>1, <2>2 DEF Job, Op
<1> QED
  BY <1>1 DEF JobsInv, JobTypeOK

LEMMA JobsAlways == Spec => []JobsInv
<1>1. JobsInv /\ [Next]_vars => JobsInv'
  BY JobsStep
<1> QED
  BY JobsInit, <1>1, PTL DEF Spec

\* However ingests, reviews and expiries interleave call by call and wherever
\* they are cut short, the tables and what each worker has in hand keep their
\* shape: a worker only ever writes well-formed rows.
THEOREM WellTypedJobs == Spec => []JobTypeOK
<1>1. Init => JobsInv
  BY JobsInit
<1>2. JobsInv /\ [Next]_vars => JobsInv'
  BY JobsStep
<1>3. JobsInv => JobTypeOK
  BY JobsTyped
<1> QED
  BY <1>1, <1>2, <1>3, PTL DEF Spec

-----------------------------------------------------------------------------
(* Every stored status is on the trail, or is about to be *)

\* The next call of the job `j' reports the status the row `id' has.
Owes(j, id) ==
  \/ /\ j.pc = "log_old" /\ j.old = id
     /\ memories[id].status = IF j.op = "expire" THEN "expired" ELSE "superseded"
  \/ /\ j.pc \in {"log_reviewed", "log_status"} /\ j.id = id
     /\ memories[id].status = j.record.status

Accounted(id) ==
  Reported(id, memories[id].status) \/ \E w \in Workers : Owes(job[w], id)

Reporting == crashes = 0 => \A id \in Stored : Accounted(id)

\* A step that leaves the row alone, and whose worker owes it nothing.
LEMMA AccountedStays ==
  ASSUME TrailsGrow, NEW w \in Workers, Moves(w), NEW id \in Ids,
         memories'[id] = memories[id], Accounted(id),
         Owes(job[w], id) => Reported(id, memories[id].status)'
  PROVE  Accounted(id)'
<1>1. CASE Reported(id, memories[id].status)
  <2>1. PICK i \in DOMAIN audit_events[id] : audit_events[id][i].status = memories[id].status
    BY <1>1 DEF Reported
  <2>2. i \in DOMAIN audit_events'[id] /\ audit_events'[id][i].status = memories'[id].status
    BY <2>1 DEF TrailsGrow
  <2> QED
    BY <2>2 DEF Accounted, Reported
<1>2. ASSUME NEW v \in Workers \ {w}, Owes(job[v], id)
      PROVE  Owes(job[v], id)'
  BY <1>2 DEF Moves, Owes
<1>3. CASE Reported(id, memories[id].status)'
  BY <1>3 DEF Accounted
<1> QED
  BY <1>1, <1>2, <1>3 DEF Accounted

\* The status just logged is reported.
LEMMA LogsReport ==
  ASSUME TypeOK, NEW id \in Ids, NEW event \in AuditEvent, Logs(id, event),
         event.status = memories[id].status
  PROVE  Reported(id, memories[id].status)'
<1>1. audit_events'[id] = Append(audit_events[id], event) /\ memories' = memories
  BY LogsDoes
<1>2. audit_events[id] \in Seq(AuditEvent)
  BY DEF TypeOK
<1> DEFINE i == Len(audit_events[id]) + 1
<1>3. i \in DOMAIN audit_events'[id] /\ audit_events'[id][i] = event
  BY <1>1, <1>2
<1> QED
  BY <1>1, <1>3 DEF Reported

LEMMA ReportingStep ==
  ASSUME JobsInv, Reporting, [Next]_vars
  PROVE  Reporting'
<1>1. CASE UNCHANGED vars
  BY <1>1 DEF vars, Reporting, Accounted, Stored, IsStored, Reported, Owes
<1>2. CASE Next
  <2>1. PICK w \in Workers : Begins(w) \/ Calls(w) \/ Crash(w)
    BY <1>2, NextIs
  <2>2. Leaves /\ Moves(w)
    BY <2>1, StepLeaves
  <2>3. Sound(job[w]) /\ job[w] \in Job /\ TypeOK
    BY DEF JobsInv
  <2>4. SUFFICES ASSUME crashes' = 0, NEW id \in Ids, IsStored(id)'
                 PROVE  Accounted(id)'
    BY DEF Reporting, Stored
  <2>5. ASSUME memories'[id] = memories[id]
        PROVE  Accounted(id)
    BY <2>2, <2>4, <2>5 DEF Reporting, Leaves, Stored, IsStored
  <2>6. ASSUME memories'[id] = memories[id],
               Owes(job[w], id) => Reported(id, memories[id].status)'
        PROVE  Accounted(id)'
    BY <2>2, <2>5, <2>6, AccountedStays DEF Leaves
  <2>7. CASE Begins(w)
    <3>1. memories' = memories /\ job[w] = NoWork
      BY <2>7, BeginDoes DEF Reads
    <3> QED
      BY <2>6, <3>1, NoWorkSound DEF Owes
  <2>8. CASE Notes(w)
    <3>1. memories' = memories
          /\ job[w].pc \in {"log_scanned", "log_blocked", "log_ingested", "log_admitted"}
      BY <2>8, NoteDoes DEF Logs
    <3> QED
      BY <2>6, <3>1 DEF Owes
  <2>9. CASE Resolve(w) \/ Check(w)
    <3>1. memories' = memories /\ job[w].pc \in {"resolve", "check"}
      BY <2>9, ResolveDoes, CheckDoes DEF Reads
    <3> QED
      BY <2>6, <3>1 DEF Owes
  <2>10. CASE GetOld(w)
    <3>1. memories' = memories /\ job[w].pc = "get_old"
      BY <2>10, GetOldDoes
    <3> QED
      BY <2>6, <3>1 DEF Owes
  <2>11. CASE SaveOld(w)
    <3>1. PICK record \in MemoryRecord :
            /\ Saves(job[w].old, record)
            /\ record.status = IF job[w].op = "expire" THEN "expired" ELSE "superseded"
      BY <2>11, SaveOldDoes
    <3>2. /\ job[w].old \in Ids /\ job[w].pc = "save_old"
          /\ OnlyNext(job[w], job'[w]) /\ job'[w].pc = "log_old"
      BY <2>11, SaveOldDoes
    <3>3. /\ memories'[job[w].old] = record
          /\ \A m \in Ids \ {job[w].old} : memories'[m] = memories[m]
      BY <2>3, <3>1, <3>2, SavesDoes
    <3>4. CASE id # job[w].old
      BY <2>6, <3>2, <3>3, <3>4 DEF Owes
    <3>5. CASE id = job[w].old
      <4>1. Owes(job[w], id)'
        BY <3>1, <3>2, <3>3, <3>5 DEF Owes, OnlyNext, Keeps
      <4> QED
        BY <4>1 DEF Accounted
    <3> QED
      BY <3>4, <3>5
  <2>12. CASE LogOld(w)
    <3>1. PICK event \in AuditEvent :
            /\ Logs(job[w].old, event)
            /\ event.status = IF job[w].op = "expire" THEN "expired" ELSE "superseded"
      BY <2>12, LogOldDoes
    <3>2. job[w].old \in Ids /\ job[w].pc = "log_old" /\ memories' = memories
      BY <2>12, <3>1, LogOldDoes DEF Logs
    <3>3. ASSUME Owes(job[w], id)
          PROVE  Reported(id, memories[id].status)'
      <4>1. id = job[w].old /\ event.status = memories[id].status
        BY <3>1, <3>2, <3>3 DEF Owes
      <4> QED
        BY <2>3, <3>1, <4>1, LogsReport
    <3> QED
      BY <2>6, <3>2, <3>3
  <2>13. CASE Save(w)
    <3>1. /\ job[w].pc = "save" /\ job[w].id \in Ids /\ job[w].record \in MemoryRecord
          /\ Saves(job[w].id, job[w].record)
          /\ OnlyNext(job[w], job'[w])
          /\ job'[w].pc = IF job[w].op = "ingest" THEN "log_status" ELSE "log_reviewed"
      BY <2>13, SaveDoes
    <3>2. /\ memories'[job[w].id] = job[w].record
          /\ \A m \in Ids \ {job[w].id} : memories'[m] = memories[m]
      BY <2>3, <3>1, SavesDoes
    <3>3. CASE id # job[w].id
      BY <2>6, <3>1, <3>2, <3>3 DEF Owes
    <3>4. CASE id = job[w].id
      <4>1. Owes(job[w], id)'
        BY <3>1, <3>2, <3>4 DEF Owes, OnlyNext, Keeps
      <4> QED
        BY <4>1 DEF Accounted
    <3> QED
      BY <3>3, <3>4
  <2>14. CASE LogReviewed(w) \/ LogStatus(w)
    <3>1. PICK event \in AuditEvent :
            Logs(job[w].id, event) /\ event.status = job[w].record.status
      BY <2>14, LogReviewedDoes, LogStatusDoes
    <3>2. job[w].id \in Ids /\ job[w].pc \in {"log_reviewed", "log_status"} /\ memories' = memories
      BY <2>14, <3>1, LogReviewedDoes, LogStatusDoes DEF Logs
    <3>3. ASSUME Owes(job[w], id)
          PROVE  Reported(id, memories[id].status)'
      <4>1. id = job[w].id /\ event.status = memories[id].status
        BY <3>1, <3>2, <3>3 DEF Owes
      <4> QED
        BY <2>3, <3>1, <4>1, LogsReport
    <3> QED
      BY <2>6, <3>2, <3>3
  <2>15. CASE Crash(w)
    <3>1. crashes' = crashes + 1 /\ crashes \in Nat
      BY <2>15, CrashDoes, WorkersAssumption DEF JobsInv
    <3> QED
      BY <2>4, <3>1
  <2> QED
    BY <2>1, <2>7, <2>8, <2>9, <2>10, <2>11, <2>12, <2>13, <2>14, <2>15 DEF Calls
<1> QED
  BY <1>1, <1>2

\* When every operation has ended and none was cut short, each stored row's
\* status is on its trail, in whatever order the calls came and however stale
\* the copies they wrote.
THEOREM EndedOperationsAreAudited == Spec => []DecisionsAudited
<1>1. Init => JobsInv /\ Reporting
  BY JobsInit DEF Init, Reporting, Stored, IsStored
<1>2. JobsInv /\ Reporting /\ [Next]_vars => JobsInv' /\ Reporting'
  BY JobsStep, ReportingStep
<1>3. Reporting => DecisionsAudited
  <2>1. \A id \in Ids : ~Owes(NoWork, id)
    BY NoWorkSound DEF Owes
  <2> QED
    BY <2>1 DEF Reporting, Accounted, DecisionsAudited, Quiet, Stored
<1> QED
  BY <1>1, <1>2, <1>3, PTL DEF Spec

-----------------------------------------------------------------------------
(* No version is replaced by nothing *)

\* The ingest `j' has closed a version for `by' and still means to save it.
Brings(j, by) ==
  /\ j.op = "ingest" /\ j.id = by /\ j.done # {}
  /\ j.pc \in {"get_old", "save_old", "log_old", "save"}

Arriving(by) ==
  IsStored(by) \/ by \in halfway \/ \E w \in Workers : Brings(job[w], by)

Arrivals == crashes = 0 => \A id, by \in Ids : ReplacedBy(id, by) => Arriving(by)

\* A step of a worker that does not give the record up.
LEMMA ArrivingStays ==
  ASSUME Leaves, NEW w \in Workers, Moves(w), NEW by \in Ids, Arriving(by),
         Brings(job[w], by) => Arriving(by)'
  PROVE  Arriving(by)'
<1>1. CASE IsStored(by)
  BY <1>1, NamesAssumption DEF Leaves, RowsStay, Arriving, IsStored
<1>2. CASE by \in halfway
  BY <1>2 DEF Leaves, Arriving
<1>3. ASSUME NEW v \in Workers \ {w}, Brings(job[v], by)
      PROVE  Arriving(by)'
  BY <1>3 DEF Moves, Arriving
<1> QED
  BY <1>1, <1>2, <1>3 DEF Arriving

\* Only the event of a replacement makes a row replaced.
LEMMA LogsReplace ==
  ASSUME TypeOK, NEW id \in Ids, NEW event \in AuditEvent, Logs(id, event),
         NEW m \in Ids, NEW by \in Ids, ReplacedBy(m, by)'
  PROVE  \/ m # id /\ ReplacedBy(m, by)
         \/ m = id /\ event.event_type = "superseded" /\ event.ids = {by}
<1>1. CASE m # id
  BY <1>1, LogsDoes DEF ReplacedBy, LastEvent
<1>2. CASE m = id
  <2>1. audit_events'[m] = Append(audit_events[m], event) /\ audit_events[m] \in Seq(AuditEvent)
    BY <1>2, LogsDoes DEF TypeOK
  <2>2. audit_events'[m][Len(audit_events'[m])] = event
    BY <2>1
  <2> QED
    BY <1>2, <2>2 DEF ReplacedBy, LastEvent
<1> QED
  BY <1>1, <1>2

LEMMA ArrivalsStep ==
  ASSUME JobsInv, Arrivals, [Next]_vars
  PROVE  Arrivals'
<1>1. CASE UNCHANGED vars
  BY <1>1 DEF vars, Arrivals, Arriving, IsStored, ReplacedBy, LastEvent
<1>2. CASE Next
  <2>1. PICK w \in Workers : Begins(w) \/ Calls(w) \/ Crash(w)
    BY <1>2, NextIs
  <2>2. Leaves /\ Moves(w)
    BY <2>1, StepLeaves
  <2>3. Sound(job[w]) /\ Rows(job[w]) /\ job[w] \in Job /\ TypeOK
    BY DEF JobsInv
  <2>4. SUFFICES ASSUME crashes' = 0, NEW id \in Ids, NEW by \in Ids, ReplacedBy(id, by)'
                 PROVE  Arriving(by)'
    BY DEF Arrivals
  <2>5. ReplacedBy(id, by) => Arriving(by)
    BY <2>2, <2>4 DEF Arrivals, Leaves
  <2>6. ASSUME ReplacedBy(id, by), Brings(job[w], by) => Arriving(by)'
        PROVE  Arriving(by)'
    BY <2>2, <2>5, <2>6, ArrivingStays
  <2>7. ASSUME audit_events' = audit_events
        PROVE  ReplacedBy(id, by)
    BY <2>4, <2>7 DEF ReplacedBy, LastEvent
  <2>8. CASE Begins(w)
    <3>1. audit_events' = audit_events /\ job[w] = NoWork
      BY <2>8, BeginDoes DEF Reads
    <3> QED
      BY <2>6, <2>7, <3>1, NoWorkSound DEF Brings
  <2>9. CASE Notes(w)
    <3>1. PICK event \in AuditEvent :
            event.event_type # "superseded" /\ Logs(job[w].id, event)
      BY <2>9, NoteDoes
    <3>2. job[w].id \in Ids
          /\ job[w].pc \in {"log_scanned", "log_blocked", "log_ingested", "log_admitted"}
      BY <2>9, NoteDoes
    <3>3. ReplacedBy(id, by)
      BY <2>3, <2>4, <3>1, <3>2, LogsReplace
    <3> QED
      BY <2>6, <3>2, <3>3 DEF Brings
  <2>10. CASE Resolve(w) \/ Check(w)
    <3>1. audit_events' = audit_events /\ job[w].pc \in {"resolve", "check"}
      BY <2>10, ResolveDoes, CheckDoes DEF Reads
    <3> QED
      BY <2>6, <2>7, <3>1 DEF Brings
  <2>11. CASE GetOld(w)
    <3>1. /\ job[w].pc = "get_old" /\ audit_events' = audit_events
          /\ \/ Keeps(job[w], job'[w]) /\ job'[w].pc = "save_old"
             \/ halfway' = IF job[w].done = {} THEN halfway ELSE halfway \cup {job[w].id}
      BY <2>11, GetOldDoes
    <3>2. ASSUME Brings(job[w], by)
          PROVE  Arriving(by)'
      BY <3>1, <3>2 DEF Brings, Keeps, Arriving
    <3> QED
      BY <2>6, <2>7, <3>1, <3>2
  <2>12. CASE SaveOld(w)
    <3>1. /\ audit_events' = audit_events /\ job'[w].pc = "log_old"
          /\ OnlyNext(job[w], job'[w])
      BY <2>12, SaveOldDoes DEF Saves
    <3>2. ASSUME Brings(job[w], by)
          PROVE  Arriving(by)'
      BY <3>1, <3>2 DEF Brings, OnlyNext, Keeps, Arriving
    <3> QED
      BY <2>6, <2>7, <3>1, <3>2
  <2>13. CASE LogOld(w)
    <3>1. PICK event \in AuditEvent :
            /\ Logs(job[w].old, event)
            /\ IF job[w].op = "expire" THEN event.event_type # "superseded"
               ELSE event.ids = {job[w].id}
      BY <2>13, LogOldDoes
    <3>2. job[w].old \in Ids /\ job[w].op \in {"ingest", "approve", "expire"}
      BY <2>13, LogOldDoes
    <3>3. ASSUME job[w].op = "ingest", job[w].id = by
          PROVE  Arriving(by)'
      <4>1. /\ job'[w].op = "ingest" /\ job'[w].id = by
            /\ job'[w].done = job[w].done \cup {job[w].old}
            /\ job'[w].pc \in {"get_old", "save"}
        BY <2>13, <3>3, LogOldDoes
      <4> QED
        BY <4>1 DEF Brings, Arriving
    <3>4. CASE ReplacedBy(id, by)
      BY <2>6, <3>3, <3>4 DEF Brings
    <3>5. CASE ~ReplacedBy(id, by)
      <4>1. event.event_type = "superseded" /\ event.ids = {by}
        BY <2>3, <2>4, <3>1, <3>2, <3>5, LogsReplace
      <4>2. job[w].op # "expire" /\ job[w].id = by
        BY <3>1, <4>1
      <4>3. CASE job[w].op = "approve"
        BY <2>2, <2>3, <4>2, <4>3, NamesAssumption
           DEF Rows, Leaves, RowsStay, Arriving, IsStored
      <4> QED
        BY <3>2, <3>3, <4>2, <4>3
    <3> QED
      BY <3>4, <3>5
  <2>14. CASE Save(w)
    <3>1. /\ audit_events' = audit_events /\ job[w].id \in Ids /\ job[w].record \in MemoryRecord
          /\ Saves(job[w].id, job[w].record)
      BY <2>14, SaveDoes DEF Saves
    <3>2. memories'[job[w].id] = job[w].record
      BY <2>3, <3>1, SavesDoes
    <3>3. ASSUME Brings(job[w], by)
          PROVE  Arriving(by)'
      BY <3>1, <3>2, <3>3, NamesAssumption DEF Brings, Arriving, IsStored
    <3> QED
      BY <2>6, <2>7, <3>1, <3>3
  <2>15. CASE LogReviewed(w) \/ LogStatus(w)
    <3>1. PICK event \in AuditEvent :
            Logs(job[w].id, event) /\ event.event_type # "superseded"
      BY <2>15, LogReviewedDoes, LogStatusDoes
    <3>2. job[w].id \in Ids /\ job[w].pc \in {"log_reviewed", "log_status"}
      BY <2>15, LogReviewedDoes, LogStatusDoes
    <3>3. ReplacedBy(id, by)
      BY <2>3, <2>4, <3>1, <3>2, LogsReplace
    <3> QED
      BY <2>6, <3>2, <3>3 DEF Brings
  <2>16. CASE Crash(w)
    <3>1. crashes' = crashes + 1 /\ crashes \in Nat
      BY <2>16, CrashDoes, WorkersAssumption DEF JobsInv
    <3> QED
      BY <2>4, <3>1
  <2> QED
    BY <2>1, <2>8, <2>9, <2>10, <2>11, <2>12, <2>13, <2>14, <2>15, <2>16 DEF Calls
<1> QED
  BY <1>1, <1>2

\* When every operation has ended and none was cut short, the record that a
\* trail names as a version's replacement is stored, unless its ingest raised
\* over a row it could no longer read.
THEOREM ReplacementsArrive == Spec => []ReplacementArrives
<1>1. Init => JobsInv /\ Arrivals
  BY JobsInit DEF Init, Arrivals, ReplacedBy
<1>2. JobsInv /\ Arrivals /\ [Next]_vars => JobsInv' /\ Arrivals'
  BY JobsStep, ArrivalsStep
<1>3. Arrivals => ReplacementArrives
  <2>1. \A by \in Ids : ~Brings(NoWork, by)
    BY NoWorkSound DEF Brings
  <2> QED
    BY <2>1 DEF Arrivals, Arriving, ReplacementArrives, Quiet
<1> QED
  BY <1>1, <1>2, <1>3, PTL DEF Spec

-----------------------------------------------------------------------------
(* A save never changes what a row says *)

\* What a job has read of a row still says what the row says.
Matches(j) ==
  /\ j.op \in {"approve", "reject"} => SameText(j.record, memories[j.id])
  /\ \A m \in DOMAIN j.todo : SameText(j.todo[m], memories[m])

\* Until it is saved, a new record is its worker's own.
Fresh(w) ==
  job[w].op = "ingest" /\ job[w].pc # "log_status" =>
    /\ ~IsStored(job[w].id)
    /\ \A v \in Workers \ {w} : job[v].id # job[w].id

Texts == \A w \in Workers : Matches(job[w]) /\ Fresh(w)

\* No step changes the text of a stored row.
TextsStay == \A id \in Ids : IsStored(id) => SameText(memories'[id], memories[id])

\* A step makes at most the row stored that its worker was bringing.
NewRows(w) ==
  \A id \in Ids : memories'[id] # NoRecord /\ ~IsStored(id) =>
    /\ job[w].id = id /\ job[w].op = "ingest" /\ job[w].pc = "save"
    /\ job'[w].pc = "log_status"

LEMMA UnchangedTexts ==
  ASSUME memories' = memories, NEW w \in Workers
  PROVE  TextsStay /\ NewRows(w)
BY DEF TextsStay, NewRows, SameText, IsStored

LEMMA StepTexts ==
  ASSUME JobsInv, Texts, NEW w \in Workers, Begins(w) \/ Calls(w) \/ Crash(w)
  PROVE  TextsStay /\ NewRows(w)
<1>1. Sound(job[w]) /\ Rows(job[w]) /\ job[w] \in Job /\ TypeOK /\ Matches(job[w]) /\ Fresh(w)
  BY DEF JobsInv, Texts
<1>2. CASE memories' = memories
  BY <1>2, UnchangedTexts
<1>3. CASE SaveOld(w)
  <2>1. PICK record \in MemoryRecord :
          Saves(job[w].old, record) /\ SameText(record, job[w].todo[job[w].old])
    BY <1>3, SaveOldDoes
  <2>2. job[w].old \in Ids /\ job[w].old \in DOMAIN job[w].todo
    BY <1>3, SaveOldDoes
  <2>3. /\ memories'[job[w].old] = record
        /\ \A m \in Ids \ {job[w].old} : memories'[m] = memories[m]
    BY <1>1, <2>1, <2>2, SavesDoes
  <2>4. SameText(record, memories[job[w].old]) /\ IsStored(job[w].old)
    BY <1>1, <2>1, <2>2 DEF Matches, Rows, SameText
  <2> QED
    BY <2>3, <2>4 DEF TextsStay, NewRows, SameText, IsStored
<1>4. CASE Save(w)
  <2>1. /\ job[w].pc = "save" /\ job[w].op \in {"ingest", "approve", "reject"}
        /\ job[w].id \in Ids /\ job[w].record \in MemoryRecord
        /\ Saves(job[w].id, job[w].record)
        /\ job'[w].pc = IF job[w].op = "ingest" THEN "log_status" ELSE "log_reviewed"
    BY <1>4, SaveDoes
  <2>2. /\ memories'[job[w].id] = job[w].record
        /\ \A m \in Ids \ {job[w].id} : memories'[m] = memories[m]
    BY <1>1, <2>1, SavesDoes
  <2>3. CASE job[w].op = "ingest"
    <3>1. ~IsStored(job[w].id)
      BY <1>1, <2>1, <2>3 DEF Fresh
    <3> QED
      BY <2>1, <2>2, <2>3, <3>1 DEF TextsStay, NewRows, SameText, IsStored
  <2>4. CASE job[w].op \in {"approve", "reject"}
    <3>1. SameText(job[w].record, memories[job[w].id]) /\ IsStored(job[w].id)
      BY <1>1, <2>4 DEF Matches, Rows
    <3> QED
      BY <2>2, <3>1 DEF TextsStay, NewRows, SameText, IsStored
  <2> QED
    BY <2>1, <2>3, <2>4
<1>5. Begins(w) => memories' = memories
  BY BeginDoes DEF Reads
<1>6. Notes(w) => memories' = memories
  BY NoteDoes DEF Logs
<1>7. Resolve(w) \/ Check(w) => memories' = memories
  BY ResolveDoes, CheckDoes DEF Reads
<1>8. GetOld(w) \/ Crash(w) => memories' = memories
  BY GetOldDoes, CrashDoes
<1>9. LogOld(w) \/ LogReviewed(w) \/ LogStatus(w) => memories' = memories
  BY LogOldDoes, LogReviewedDoes, LogStatusDoes DEF Logs
<1> QED
  BY <1>2, <1>3, <1>4, <1>5, <1>6, <1>7, <1>8, <1>9 DEF Calls

\* What the worker that moves has in hand still says what the rows say.
LEMMA MovedMatches ==
  ASSUME JobsInv, Texts, NEW w \in Workers, Begins(w) \/ Calls(w) \/ Crash(w)
  PROVE  \/ job'[w] = NoWork
         \/ /\ job'[w].op \in {"approve", "reject"} =>
                 IsStored(job'[w].id) /\ SameText(job'[w].record, memories[job'[w].id])
            /\ \A m \in DOMAIN job'[w].todo :
                 IsStored(m) /\ SameText(job'[w].todo[m], memories[m])
<1> DEFINE j == job[w]
           n == job'[w]
           Fine == \/ n = NoWork
                   \/ /\ n.op \in {"approve", "reject"} =>
                           IsStored(n.id) /\ SameText(n.record, memories[n.id])
                      /\ \A m \in DOMAIN n.todo : IsStored(m) /\ SameText(n.todo[m], memories[m])
<1>1. Sound(j) /\ Rows(j) /\ j \in Job /\ Matches(j)
  BY DEF JobsInv, Texts
<1>2. ASSUME Reread(n)
      PROVE  \A m \in DOMAIN n.todo : IsStored(m) /\ SameText(n.todo[m], memories[m])
  BY <1>2 DEF Reread, SameText
<1>3. ASSUME n.op = j.op, n.id = j.id, n.record = j.record, n.todo = j.todo
      PROVE  Fine
  BY <1>1, <1>3 DEF Rows, Matches
<1>4. ASSUME Begins(w) PROVE Fine
  BY <1>2, <1>4, BeginDoes
<1>5. ASSUME Notes(w) PROVE Fine
  BY <1>1, <1>5, NoteDoes DEF Keeps, Rows, Matches
<1>6. ASSUME Resolve(w) PROVE Fine
  BY <1>2, <1>6, ResolveDoes DEF Keeps
<1>7. ASSUME Check(w) PROVE Fine
  <2>1. j.op = "approve" /\ j.pc = "check" /\ j.record \in MemoryRecord
    BY <1>1, <1>7, CheckDoes DEF Sound, Shape
  <2>2. SameText([j.record EXCEPT !.status = "verified_active"], j.record)
    BY <2>1 DEF SameText, Content, MemoryRecord
  <2>3. n = NoWork \/ (Keeps(j, n) /\ Reread(n) /\ SameText(n.record, j.record))
    BY <1>7, <2>2, CheckDoes
  <2> QED
    BY <1>1, <1>2, <2>1, <2>3 DEF Keeps, Rows, Matches, SameText
<1>8. ASSUME GetOld(w) PROVE Fine
  <2>1. \/ n = NoWork
        \/ /\ n.op = "ingest" /\ DOMAIN n.todo = DOMAIN j.todo
           /\ \A m \in DOMAIN j.todo : n.todo[m] \in {memories[m], j.todo[m]}
    BY <1>8, GetOldDoes DEF Keeps
  <2> QED
    BY <1>1, <2>1 DEF Rows, Matches, SameText
<1>9. ASSUME SaveOld(w) \/ Save(w) \/ LogReviewed(w) PROVE Fine
  BY <1>3, <1>9, SaveOldDoes, SaveDoes, LogReviewedDoes DEF OnlyNext, Keeps
<1>10. ASSUME LogOld(w) PROVE Fine
  <2>1. \/ n = NoWork
        \/ /\ n.op = j.op /\ n.id = j.id
           /\ j.op # "expire" => SameText(n.record, j.record)
           /\ \A m \in DOMAIN n.todo : m \in DOMAIN j.todo /\ n.todo[m] = j.todo[m]
    BY <1>10, LogOldDoes
  <2> QED
    BY <1>1, <2>1 DEF Rows, Matches, SameText
<1>11. ASSUME LogStatus(w) \/ Crash(w) PROVE Fine
  BY <1>11, LogStatusDoes, CrashDoes
<1> QED
  BY <1>4, <1>5, <1>6, <1>7, <1>8, <1>9, <1>10, <1>11 DEF Calls

\* A job keeps its operation and record from its first call to its last.
LEMMA JobKeepsRecord ==
  ASSUME JobsInv, NEW w \in Workers, Calls(w) \/ Crash(w)
  PROVE  \/ job'[w] = NoWork
         \/ job'[w].op = job[w].op /\ job'[w].id = job[w].id /\ job[w].pc # "log_status"
<1>1. CASE Notes(w)
  BY <1>1, NoteDoes DEF Keeps
<1>2. CASE Resolve(w) \/ Check(w)
  BY <1>2, ResolveDoes, CheckDoes DEF Keeps
<1>3. CASE GetOld(w)
  BY <1>3, GetOldDoes DEF Keeps
<1>4. CASE SaveOld(w) \/ Save(w) \/ LogReviewed(w)
  BY <1>4, SaveOldDoes, SaveDoes, LogReviewedDoes DEF OnlyNext, Keeps
<1>5. CASE LogOld(w)
  BY <1>5, LogOldDoes
<1>6. CASE LogStatus(w) \/ Crash(w)
  BY <1>6, LogStatusDoes, CrashDoes
<1> QED
  BY <1>1, <1>2, <1>3, <1>4, <1>5, <1>6 DEF Calls

\* The id of the job that moves is not that of another worker's new record.
LEMMA MovedIds ==
  ASSUME ~CallersShareIds, JobsInv, Texts,
         NEW w \in Workers, Begins(w) \/ Calls(w) \/ Crash(w),
         NEW v \in Workers \ {w}, job[v].op = "ingest", job[v].pc # "log_status"
  PROVE  job'[w].id # job[v].id
<1>1. Moves(w)
  BY StepLeaves
<1>2. job[v].id \in Ids /\ Fresh(v) /\ job[v].id # NoId
  BY NamesAssumption DEF JobsInv, Texts, Sound, Shape
<1>3. ~IsStored(job[v].id) /\ job[w].id # job[v].id
  BY <1>2 DEF Fresh
<1>4. CASE Begins(w)
  <2>1. job'[w].op = "expire" => job'[w].id = NoId
    BY <1>1 DEF Moves, Sound, Shape
  <2> QED
    BY <1>2, <1>3, <1>4, <2>1, BeginDoes
<1>5. CASE Calls(w) \/ Crash(w)
  BY <1>2, <1>3, <1>5, JobKeepsRecord, NoWorkSound
<1> QED
  BY <1>4, <1>5

LEMMA TextsStep ==
  ASSUME ~CallersShareIds, JobsInv, Texts, [Next]_vars
  PROVE  Texts'
<1>1. CASE UNCHANGED vars
  BY <1>1 DEF vars, Texts, Matches, Fresh, SameText, IsStored
<1>2. CASE Next
  <2>1. PICK w \in Workers : Begins(w) \/ Calls(w) \/ Crash(w)
    BY <1>2, NextIs
  <2>2. Leaves /\ Moves(w) /\ TextsStay /\ NewRows(w)
    BY <2>1, StepLeaves, StepTexts
  <2>3. \A v \in Workers : Sound(job[v])' /\ Rows(job[v]) /\ job'[v] \in Job
    BY <2>2, JobsStep DEF JobsInv
  <2>4. \A v \in Workers : Sound(job[v]) /\ job[v] \in Job /\ Matches(job[v]) /\ Fresh(v)
    BY DEF JobsInv, Texts
  <2>5. \A v \in Workers : /\ DOMAIN job'[v].todo \in SUBSET Ids
                           /\ job'[v].op \in {"ingest", "approve", "reject"} => job'[v].id \in Ids
    BY <2>3, TodoMembers DEF Job, Sound, Shape
  <2>6. Matches(job[w])'
    <3>1. CASE job'[w] = NoWork
      BY <3>1, NoWorkSound, NothingType DEF Matches
    <3>2. CASE job'[w] # NoWork
      <4>1. /\ job'[w].op \in {"approve", "reject"} =>
                 IsStored(job'[w].id) /\ SameText(job'[w].record, memories[job'[w].id])
            /\ \A m \in DOMAIN job'[w].todo :
                 IsStored(m) /\ SameText(job'[w].todo[m], memories[m])
        BY <2>1, <3>2, MovedMatches
      <4> QED
        BY <2>2, <2>5, <4>1 DEF Matches, TextsStay, SameText
    <3> QED
      BY <3>1, <3>2
  <2>7. ASSUME NEW v \in Workers \ {w}
        PROVE  Matches(job[v])'
    <3>1. job'[v] = job[v]
      BY <2>2, <2>7 DEF Moves
    <3> QED
      BY <2>2, <2>3, <2>4, <2>5, <3>1 DEF Matches, Rows, TextsStay, SameText
  <2>8. ASSUME NEW v \in Workers \ {w}
        PROVE  Fresh(v)'
    <3>1. job'[v] = job[v] /\ \A x \in Workers \ {w} : job'[x] = job[x]
      BY <2>2, <2>8 DEF Moves
    <3>2. SUFFICES ASSUME job[v].op = "ingest", job[v].pc # "log_status"
                   PROVE  /\ memories'[job[v].id] = NoRecord
                          /\ \A x \in Workers \ {v} : job'[x].id # job[v].id
      BY <3>1 DEF Fresh, IsStored
    <3>3. /\ ~IsStored(job[v].id) /\ job[v].id \in Ids
          /\ \A x \in Workers \ {v} : job[x].id # job[v].id
      BY <2>4, <2>5, <3>1, <3>2 DEF Fresh
    <3>4. memories'[job[v].id] = NoRecord
      BY <2>2, <2>8, <3>3 DEF NewRows
    <3>5. job'[w].id # job[v].id
      BY <2>1, <2>8, <3>2, MovedIds
    <3> QED
      BY <3>1, <3>3, <3>4, <3>5
  <2>9. Fresh(w)'
    <3>1. SUFFICES ASSUME job'[w].op = "ingest", job'[w].pc # "log_status"
                   PROVE  /\ memories'[job'[w].id] = NoRecord
                          /\ \A v \in Workers \ {w} : job'[v].id # job'[w].id
      BY DEF Fresh, IsStored
    <3>2. job'[w] # NoWork /\ job'[w].id \in Ids
      BY <2>5, <3>1, NoWorkSound
    <3>3. ~IsStored(job'[w].id) /\ \A v \in Workers \ {w} : job[v].id # job'[w].id
      <4>1. CASE Begins(w)
        BY <3>1, <4>1, BeginDoes
      <4>2. CASE Calls(w) \/ Crash(w)
        BY <2>4, <3>1, <3>2, <4>2, JobKeepsRecord DEF Fresh
      <4> QED
        BY <2>1, <4>1, <4>2
    <3> QED
      BY <2>2, <3>1, <3>2, <3>3 DEF NewRows, Moves
  <2> QED
    BY <2>6, <2>7, <2>8, <2>9 DEF Texts
<1> QED
  BY <1>1, <1>2

LEMMA TextsInit == Init => Texts
<1>1. ASSUME Init PROVE \A w \in Workers : job[w] = NoWork
  BY <1>1 DEF Init
<1> QED
  BY <1>1, NoWorkSound, NothingType DEF Texts, Matches, Fresh

\* When callers choose distinct ids, no interleaving of operations and no
\* stale copy ever changes a stored row's text: tenant, key, source,
\* authority, start, evidence and scores are those it was first saved with.
THEOREM StoredTextIsKept ==
  ASSUME ~CallersShareIds
  PROVE  Spec => ContentKept
<1>1. Init => JobsInv /\ Texts
  BY JobsInit, TextsInit
<1>2. JobsInv /\ Texts /\ [Next]_vars => JobsInv' /\ Texts'
  BY JobsStep, TextsStep
<1>3. JobsInv /\ Texts /\ [Next]_vars =>
        [\A id \in Stored :
           [memories'[id] EXCEPT !.status = "candidate", !.valid_to = NoDate, !.supersedes = NoId]
           = [memories[id] EXCEPT !.status = "candidate", !.valid_to = NoDate, !.supersedes = NoId]]_vars
  <2> SUFFICES ASSUME JobsInv, Texts, Next PROVE TextsStay
    BY DEF TextsStay, SameText, Content, Stored
  <2> QED
    BY NextIs, StepTexts
<1> QED
  BY <1>1, <1>2, <1>3, PTL DEF Spec, ContentKept

-----------------------------------------------------------------------------
(* Approvals *)

\* A row, active or not, of a record that admission activates or a reviewer
\* approved.
Warranted(id) ==
  /\ memories[id].evidence
  /\ \/ AdmissionStatus(memories[id]) = "verified_active"
     \/ WasReviewed(id)
     \/ \E w \in Workers : Approving(job[w], id)
     \/ id \in unlogged

\* So are the active and superseded rows, and those a job means to replace.
Approved ==
  /\ \A id \in Ids :
       HasStatus(id, "verified_active") \/ HasStatus(id, "superseded") => Warranted(id)
  /\ \A w \in Workers :
       job[w].op \in {"ingest", "approve"} => \A m \in DOMAIN job[w].todo : Warranted(m)

LEMMA WasReviewedStays ==
  ASSUME TrailsGrow, NEW id \in Ids, WasReviewed(id)
  PROVE  WasReviewed(id)'
BY DEF TrailsGrow, WasReviewed

\* The text decides what admission does.
LEMMA TextDecides ==
  ASSUME NEW r \in MemoryRecord, NEW s \in MemoryRecord, SameText(r, s)
  PROVE  /\ r.evidence = s.evidence /\ AdmissionStatus(r) = AdmissionStatus(s)
         /\ r.tenant_id = s.tenant_id /\ r.conflict_key = s.conflict_key
         /\ r.valid_from = s.valid_from
<1>1. ASSUME NEW t \in MemoryRecord
      PROVE  /\ Content(t).tenant_id = t.tenant_id /\ Content(t).conflict_key = t.conflict_key
             /\ Content(t).source_type = t.source_type /\ Content(t).evidence = t.evidence
             /\ Content(t).valid_from = t.valid_from
             /\ Content(t).extraction_confidence = t.extraction_confidence
             /\ Content(t).durable_value = t.durable_value
  BY <1>1 DEF Content, MemoryRecord
<1>2. Content(r) = Content(s)
  BY DEF SameText
<1>3. /\ r.source_type = s.source_type /\ r.extraction_confidence = s.extraction_confidence
      /\ r.durable_value = s.durable_value /\ r.evidence = s.evidence
      /\ r.tenant_id = s.tenant_id /\ r.conflict_key = s.conflict_key
      /\ r.valid_from = s.valid_from
  <2>1. /\ Content(r).source_type = Content(s).source_type
        /\ Content(r).extraction_confidence = Content(s).extraction_confidence
        /\ Content(r).durable_value = Content(s).durable_value
        /\ Content(r).evidence = Content(s).evidence
        /\ Content(r).tenant_id = Content(s).tenant_id
        /\ Content(r).conflict_key = Content(s).conflict_key
        /\ Content(r).valid_from = Content(s).valid_from
    BY <1>2
  <2> QED
    BY <1>1, <2>1
<1> QED
  BY <1>3 DEF AdmissionStatus

\* A worker that was about to log an approval has done so, or was stopped.
LogsApproval(w) ==
  \A id \in Ids : Approving(job[w], id) =>
    WasReviewed(id)' \/ id \in unlogged' \/ Approving(job'[w], id)

LEMMA StepLogs ==
  ASSUME JobsInv, NEW w \in Workers, Begins(w) \/ Calls(w) \/ Crash(w)
  PROVE  LogsApproval(w)
<1> SUFFICES ASSUME NEW id \in Ids, Approving(job[w], id)
             PROVE  WasReviewed(id)' \/ id \in unlogged'
  BY DEF LogsApproval
<1>1. job[w].pc = "log_reviewed" /\ job[w].op = "approve" /\ job[w].id = id
  BY DEF Approving
<1>2. ~Begins(w)
  BY <1>1, BeginDoes, NoWorkSound
<1>3. ~Notes(w) /\ ~Resolve(w) /\ ~Check(w) /\ ~GetOld(w)
  BY <1>1 DEF Notes, LogScanned, LogBlocked, LogIngested, LogAdmitted, Resolve, Check, GetOld
<1>4. ~SaveOld(w) /\ ~LogOld(w) /\ ~Save(w) /\ ~LogStatus(w)
  BY <1>1 DEF SaveOld, LogOld, Save, LogStatus
<1>5. ASSUME LogReviewed(w) PROVE WasReviewed(id)'
  <2>1. PICK event \in AuditEvent :
          /\ Logs(id, event) /\ event.event_type = "reviewed"
          /\ event.status = job[w].record.status
    BY <1>1, <1>5, LogReviewedDoes
  <2>2. event.status = "verified_active"
    BY <1>1, <2>1 DEF JobsInv, Sound, Earned
  <2>3. audit_events'[id] = Append(audit_events[id], event) /\ audit_events[id] \in Seq(AuditEvent)
    BY <2>1, LogsDoes DEF JobsInv, TypeOK
  <2> DEFINE i == Len(audit_events[id]) + 1
  <2>4. i \in DOMAIN audit_events'[id] /\ audit_events'[id][i] = event
    BY <2>3
  <2> QED
    BY <2>1, <2>2, <2>4 DEF WasReviewed
<1>6. Crash(w) => id \in unlogged'
  BY CrashDoes
<1> QED
  BY <1>2, <1>3, <1>4, <1>5, <1>6 DEF Calls

\* A warrant stays: nobody changes the text, and what is logged is there.
LEMMA WarrantStays ==
  ASSUME JobsInv, Leaves, TextsStay, NEW w \in Workers, Moves(w), LogsApproval(w),
         NEW id \in Ids, IsStored(id), Warranted(id)
  PROVE  Warranted(id)'
<1>1. memories[id] \in MemoryRecord /\ memories'[id] \in MemoryRecord
  BY DEF JobsInv, TypeOK, IsStored, Leaves, RowsStay
<1>2. /\ memories'[id].evidence = memories[id].evidence
      /\ AdmissionStatus(memories'[id]) = AdmissionStatus(memories[id])
  BY <1>1, TextDecides DEF TextsStay
<1>3. WasReviewed(id) => WasReviewed(id)'
  BY WasReviewedStays DEF Leaves
<1>4. id \in unlogged => id \in unlogged'
  BY DEF Leaves
<1>5. ASSUME NEW v \in Workers, Approving(job[v], id)
      PROVE  WasReviewed(id)' \/ id \in unlogged' \/ \E x \in Workers : Approving(job'[x], id)
  BY <1>5 DEF Moves, LogsApproval
<1>6. (AdmissionStatus(memories[id]) = "verified_active")'
      <=> (AdmissionStatus(memories[id]) = "verified_active")
  BY <1>2
<1> QED
  BY <1>2, <1>3, <1>4, <1>5, <1>6 DEF Warranted

\* What the worker that moves means to replace is warranted.
LEMMA MovedApproved ==
  ASSUME JobsInv, Approved, NEW w \in Workers, Begins(w) \/ Calls(w) \/ Crash(w),
         job'[w].op \in {"ingest", "approve"}, NEW m \in DOMAIN job'[w].todo
  PROVE  Warranted(m)
<1>1. Sound(job[w]) /\ Rows(job[w]) /\ job[w] \in Job
  BY DEF JobsInv
<1>2. ASSUME job'[w].op = job[w].op, m \in DOMAIN job[w].todo
      PROVE  Warranted(m)
  BY <1>2 DEF Approved
<1>3. job'[w] # NoWork
  BY NoWorkSound
<1>4. ASSUME NEW id, NEW record, m \in ActiveConflicts(id, record)
      PROVE  Warranted(m)
  BY <1>4 DEF ActiveConflicts, Stored, Approved, HasStatus
<1>5. CASE Begins(w)
  <2>1. job'[w].todo = Nothing
    <3>1. CASE \E id \in Ids, s \in Submissions : BeginIngest(w, id, s)
      BY <3>1, BeginIngestDoes
    <3>2. CASE \E id \in Ids, op \in {"approve", "reject"} : BeginReview(w, id, op)
      BY <3>2, BeginReviewDoes
    <3>3. CASE \E ids \in SUBSET Stored : BeginExpire(w, ids)
      BY <3>3, BeginExpireDoes
    <3> QED
      BY <1>5, <3>1, <3>2, <3>3 DEF Begins
  <2> QED
    BY <2>1, NothingType
<1>6. CASE Notes(w)
  BY <1>2, <1>3, <1>6, NoteDoes DEF Keeps
<1>7. CASE Resolve(w)
  BY <1>3, <1>4, <1>7, ResolveDoes
<1>8. CASE Check(w)
  BY <1>3, <1>4, <1>8, CheckDoes
<1>9. CASE GetOld(w)
  BY <1>2, <1>3, <1>9, GetOldDoes DEF Keeps
<1>10. CASE SaveOld(w) \/ Save(w) \/ LogReviewed(w)
  BY <1>2, <1>10, SaveOldDoes, SaveDoes, LogReviewedDoes DEF OnlyNext, Keeps
<1>11. CASE LogOld(w)
  BY <1>2, <1>3, <1>11, LogOldDoes
<1>12. CASE LogStatus(w) \/ Crash(w)
  BY <1>3, <1>12, LogStatusDoes, CrashDoes
<1> QED
  BY <1>5, <1>6, <1>7, <1>8, <1>9, <1>10, <1>11, <1>12 DEF Calls

\* A row that a step makes active or superseded is warranted.
LEMMA WrittenApproved ==
  ASSUME JobsInv, Texts, Approved, NEW w \in Workers, Begins(w) \/ Calls(w) \/ Crash(w),
         NEW id \in Ids, memories'[id] # memories[id],
         (HasStatus(id, "verified_active") \/ HasStatus(id, "superseded"))'
  PROVE  (IsStored(id) /\ Warranted(id)) \/ Warranted(id)'
<1>1. Sound(job[w]) /\ Rows(job[w]) /\ job[w] \in Job /\ TypeOK /\ Matches(job[w])
  BY DEF JobsInv, Texts
<1>2. memories'[id].status \in {"verified_active", "superseded"}
  BY DEF HasStatus
<1>3. CASE SaveOld(w)
  <2>1. PICK record \in MemoryRecord :
          /\ Saves(job[w].old, record)
          /\ record.status = IF job[w].op = "expire" THEN "expired" ELSE "superseded"
    BY <1>3, SaveOldDoes
  <2>2. /\ job[w].old \in Ids /\ job[w].old \in DOMAIN job[w].todo
        /\ job[w].op \in {"ingest", "approve", "expire"}
    BY <1>3, SaveOldDoes
  <2>3. /\ memories'[job[w].old] = record
        /\ \A m \in Ids \ {job[w].old} : memories'[m] = memories[m]
    BY <1>1, <2>1, <2>2, SavesDoes
  <2>4. id = job[w].old /\ job[w].op # "expire"
    BY <1>2, <2>1, <2>3
  <2> QED
    BY <1>1, <2>2, <2>4 DEF Approved, Rows
<1>4. CASE Save(w)
  <2>1. /\ job[w].pc = "save" /\ job[w].op \in {"ingest", "approve", "reject"}
        /\ job[w].id \in Ids /\ job[w].record \in MemoryRecord
        /\ Saves(job[w].id, job[w].record)
        /\ OnlyNext(job[w], job'[w])
        /\ job'[w].pc = IF job[w].op = "ingest" THEN "log_status" ELSE "log_reviewed"
    BY <1>4, SaveDoes
  <2>2. /\ memories'[job[w].id] = job[w].record
        /\ \A m \in Ids \ {job[w].id} : memories'[m] = memories[m]
    BY <1>1, <2>1, SavesDoes
  <2>3. id = job[w].id /\ memories'[id] = job[w].record
    BY <2>2
  <2>4. CASE job[w].op = "ingest"
    <3>1. AdmissionStatus(job[w].record) = "verified_active"
      BY <1>1, <1>2, <2>1, <2>3, <2>4 DEF Sound, Earned
    <3>2. job[w].record.evidence
      BY <2>1, <3>1, AdmittedHasEvidence
    <3>3. AdmissionStatus(memories[id])' = "verified_active"
      BY <2>3, <3>1 DEF AdmissionStatus
    <3> QED
      BY <2>3, <3>2, <3>3 DEF Warranted
  <2>5. CASE job[w].op = "approve"
    <3>1. job[w].record.evidence
      BY <1>1, <2>1, <2>5 DEF Sound, Earned
    <3>2. Approving(job'[w], id)
      BY <2>1, <2>3, <2>5 DEF Approving, OnlyNext, Keeps
    <3> QED
      BY <2>3, <3>1, <3>2 DEF Warranted
  <2>6. CASE job[w].op = "reject"
    BY <1>1, <1>2, <2>3, <2>6 DEF Sound, Earned
  <2> QED
    BY <2>1, <2>4, <2>5, <2>6
<1>5. Begins(w) \/ Resolve(w) \/ Check(w) => memories' = memories
  BY BeginDoes, ResolveDoes, CheckDoes DEF Reads
<1>6. Notes(w) \/ LogOld(w) \/ LogReviewed(w) \/ LogStatus(w) => memories' = memories
  BY NoteDoes, LogOldDoes, LogReviewedDoes, LogStatusDoes DEF Logs
<1>7. GetOld(w) \/ Crash(w) => memories' = memories
  BY GetOldDoes, CrashDoes
<1> QED
  BY <1>3, <1>4, <1>5, <1>6, <1>7 DEF Calls

LEMMA ApprovedStep ==
  ASSUME JobsInv, Texts, Approved, [Next]_vars
  PROVE  Approved'
<1>1. CASE UNCHANGED vars
  <2>1. \A m : Warranted(m) => Warranted(m)'
    BY <1>1 DEF vars, Warranted, WasReviewed, AdmissionStatus
  <2> QED
    BY <1>1, <2>1 DEF vars, Approved, HasStatus, IsStored
<1>2. CASE Next
  <2>1. PICK w \in Workers : Begins(w) \/ Calls(w) \/ Crash(w)
    BY <1>2, NextIs
  <2>2. Leaves /\ Moves(w) /\ TextsStay /\ LogsApproval(w)
    BY <2>1, StepLeaves, StepTexts, StepLogs
  <2>3. ASSUME NEW id \in Ids, IsStored(id), Warranted(id)
        PROVE  Warranted(id)'
    BY <2>2, <2>3, WarrantStays
  <2>4. ASSUME NEW id \in Ids, (HasStatus(id, "verified_active") \/ HasStatus(id, "superseded"))'
        PROVE  Warranted(id)'
    <3>1. CASE memories'[id] = memories[id]
      BY <2>3, <2>4, <3>1 DEF Approved, HasStatus, IsStored
    <3>2. CASE memories'[id] # memories[id]
      BY <2>1, <2>3, <2>4, <3>2, WrittenApproved
    <3> QED
      BY <3>1, <3>2
  <2>5. ASSUME NEW v \in Workers, job'[v].op \in {"ingest", "approve"},
               NEW m \in DOMAIN job'[v].todo
        PROVE  Warranted(m)'
    <3>1. m \in Ids
      BY <2>2, <2>5, TodoMembers DEF Moves, Job
    <3>2. Warranted(m) /\ IsStored(m)
      <4>1. CASE v = w
        <5>1. job'[w] # NoWork
          BY <2>5, <4>1, NoWorkSound
        <5> QED
          BY <2>1, <2>5, <4>1, <5>1, MovedApproved, MovedMatches
      <4>2. CASE v # w
        <5>1. job'[v] = job[v]
          BY <2>2, <4>2 DEF Moves
        <5> QED
          BY <2>5, <5>1 DEF Approved, JobsInv, Rows
      <4> QED
        BY <4>1, <4>2
    <3> QED
      BY <2>3, <3>1, <3>2
  <2> QED
    BY <2>4, <2>5 DEF Approved
<1> QED
  BY <1>1, <1>2

LEMMA ApprovedInit == Init => Approved
BY NoWorkSound DEF Init, Approved, HasStatus, IsStored

\* When callers choose distinct ids: a record that needs confirmation is
\* active, or was until it was replaced, only once a reviewer approved it.
\* The review event is on its trail, or is the approving worker's next call,
\* or that worker was stopped just there; other stops excuse nothing.
THEOREM ActivationsAreOnRecord ==
  ASSUME ~CallersShareIds
  PROVE  Spec => []ApprovalOnRecord
<1>1. Init => JobsInv /\ Texts /\ Approved
  BY JobsInit, TextsInit, ApprovedInit
<1>2. JobsInv /\ Texts /\ Approved /\ [Next]_vars => JobsInv' /\ Texts' /\ Approved'
  BY JobsStep, TextsStep, ApprovedStep
<1>3. Approved => ApprovalOnRecord
  BY DEF Approved, Warranted, ApprovalOnRecord
<1> QED
  BY <1>1, <1>2, <1>3, PTL DEF Spec

-----------------------------------------------------------------------------
(* Giving up *)

\* An ingest that has closed a version gives up, of its own accord, only over
\* a version it can no longer read: the exception ReplacementArrives makes is
\* never a date that would leave the calendar.
THEOREM GivenUpOverUnreadable ==
  Spec => [][\A id \in halfway' \ halfway :
               \E old \in Stored : ~WellFormedWindow(memories[old])]_vars
<1>1. JobsInv /\ [Next]_vars =>
        [\A id \in halfway' \ halfway :
           \E old \in Stored : ~WellFormedWindow(memories[old])]_vars
  <2> SUFFICES ASSUME JobsInv, Next, NEW id \in halfway' \ halfway
               PROVE  \E old \in Stored : ~WellFormedWindow(memories[old])
    OBVIOUS
  <2>1. PICK w \in Workers : Begins(w) \/ Calls(w) \/ Crash(w)
    BY NextIs
  <2>2. Begins(w) \/ Resolve(w) \/ Check(w) => halfway' = halfway
    BY BeginDoes, ResolveDoes, CheckDoes DEF Reads
  <2>3. Notes(w) \/ LogOld(w) \/ LogReviewed(w) \/ LogStatus(w) => halfway' = halfway
    BY NoteDoes, LogOldDoes, LogReviewedDoes, LogStatusDoes DEF Logs
  <2>4. SaveOld(w) \/ Save(w) \/ Crash(w) => halfway' = halfway
    BY SaveOldDoes, SaveDoes, CrashDoes DEF Saves
  <2>5. GetOld(w) /\ job[w].done # {}
    <3>1. GetOld(w)
      BY <2>1, <2>2, <2>3, <2>4 DEF Calls
    <3> QED
      BY <3>1, GetOldDoes
  <2>6. job[w] \in Job /\ Sound(job[w]) /\ Rows(job[w]) /\ job[w].pc = "get_old"
    BY <2>5 DEF JobsInv, GetOld
  <2>7. /\ job[w].record.valid_from # MinDate
        /\ job[w].old \in DOMAIN job[w].todo
    BY <2>5, <2>6 DEF Sound, Shape, Closes
  <2>8. job[w].old \in Stored
    BY <2>6, <2>7, TodoMembers DEF Job, Rows, Stored
  <2>9. ~(/\ WellFormedWindow(memories[job[w].old])
          /\ ~ClosingOverflows(job[w].record, {memories[job[w].old]}))
    BY <2>5 DEF GetOld
  <2> QED
    BY <2>7, <2>8, <2>9 DEF ClosingOverflows
<1> QED
  BY JobsAlways, <1>1, PTL DEF Spec

=============================================================================
