------------------------ MODULE MemoryService_proofs ------------------------
(***************************************************************************)
(* Theorems of MemoryService, for every set of ids, tenants, conflict      *)
(* keys, pages and submissions, and every range of dates.                  *)
(***************************************************************************)
EXTENDS MemoryService, MemoryStore_proofs, TLAPS

-----------------------------------------------------------------------------
(* Saving a record and closing what it replaces *)

LEMMA SaveReplacingType ==
  ASSUME TypeOK, NEW id \in Ids, NEW record \in MemoryRecord, NEW olds \in SUBSET Ids,
         \A m \in olds : memories[m] \in MemoryRecord,
         ~ClosingOverflows(record, olds),
         SaveReplacing(id, record, olds)
  PROVE  memories' \in [Ids -> MemoryRecord \cup {NoRecord}]
<1>1. ASSUME NEW m \in olds PROVE Closed(memories[m], record) \in MemoryRecord
  BY <1>1, ClosedType DEF ClosingOverflows
<1> QED
  BY <1>1 DEF SaveReplacing, TypeOK

\* Putting a record where no active version overlaps it, other than those it
\* closes, leaves no two active versions that overlap.
LEMMA SaveReplacingNoOverlap ==
  ASSUME TypeOK, NoActiveOverlap,
         NEW id \in Ids, NEW record \in MemoryRecord, NEW olds \in SUBSET Ids,
         olds \subseteq ActiveConflicts(id, record),
         record.status = "verified_active" => olds = ActiveConflicts(id, record),
         SaveReplacing(id, record, olds)
  PROVE  NoActiveOverlap'
<1> SUFFICES ASSUME NEW a \in Ids, NEW b \in Ids, a # b,
                    HasStatus(a, "verified_active")', HasStatus(b, "verified_active")',
                    SameFamily(a, b)'
             PROVE  ~IntervalsOverlap(memories'[a], memories'[b])
  BY DEF NoActiveOverlap
<1>1. ASSUME NEW m \in Ids, m # id, HasStatus(m, "verified_active")'
      PROVE  m \notin olds /\ memories'[m] = memories[m] /\ HasStatus(m, "verified_active")
  <2>1. m \notin olds
    BY <1>1, ConflictsStored, ClosedKeeps DEF SaveReplacing, HasStatus
  <2> QED
    BY <1>1, <2>1 DEF SaveReplacing, HasStatus, IsStored
<1>2. memories'[id] = record
  BY DEF SaveReplacing
<1>3. ASSUME NEW m \in Ids, m # id, HasStatus(m, "verified_active")',
             HasStatus(id, "verified_active")', SameFamily(m, id)'
      PROVE  ~IntervalsOverlap(memories'[m], memories'[id])
  <2>1. m \notin olds /\ memories'[m] = memories[m] /\ HasStatus(m, "verified_active")
    BY <1>1, <1>3
  <2>2. olds = ActiveConflicts(id, record)
    BY <1>2, <1>3 DEF HasStatus
  <2>3. /\ memories[m].tenant_id = record.tenant_id
        /\ memories[m].conflict_key = record.conflict_key
    BY <1>2, <1>3, <2>1 DEF SameFamily
  <2> QED
    BY <1>2, <1>3, <2>1, <2>2, <2>3 DEF ActiveConflicts, Stored, IsStored, HasStatus
<1>4. CASE a # id /\ b # id
  <2>1. /\ memories'[a] = memories[a] /\ HasStatus(a, "verified_active")
        /\ memories'[b] = memories[b] /\ HasStatus(b, "verified_active")
    BY <1>1, <1>4
  <2> QED
    BY <2>1 DEF NoActiveOverlap, SameFamily
<1>5. CASE b = id
  BY <1>3, <1>5
<1>6. CASE a = id
  <2>1. ~IntervalsOverlap(memories'[b], memories'[a])
    BY <1>3, <1>6 DEF SameFamily
  <2> QED
    BY <2>1 DEF IntervalsOverlap
<1> QED
  BY <1>4, <1>5, <1>6

-----------------------------------------------------------------------------
(* What the two operations that save a record do *)

\* Both ingest and approval save a record of the same family and window that
\* was not active, and close its conflicts, all of them, if it becomes so.
Replaces(id, base, record, olds) ==
  /\ ~HasStatus(id, "verified_active")
  /\ olds # {} => record.status = "verified_active"
  /\ record \in MemoryRecord
  /\ record = [base EXCEPT !.status = record.status, !.supersedes = record.supersedes]
  /\ olds \subseteq ActiveConflicts(id, record)
  /\ record.status = "verified_active" => olds = ActiveConflicts(id, record)
  /\ \A m \in olds : YieldsTo(memories[m], record)
  /\ ~ClosingOverflows(record, olds)
  /\ SaveReplacing(id, record, olds)
  /\ \A m \in olds : audit_events'[m] = Append(audit_events[m],
                                               Event("superseded", "superseded", {id}))
  /\ \A m \in Ids \ (olds \cup {id}) : audit_events'[m] = audit_events[m]

LEMMA IngestReplaces ==
  ASSUME TypeOK, NEW id \in Ids, NEW s \in Submissions, Ingest(id, s)
  PROVE  \E record, olds :
           /\ Replaces(id, s, record, olds)
           /\ record.status \in {"pending", "verified_active", "rejected"}
           /\ audit_events'[id] = Append(AdmissionTrail(audit_events[id], s),
                                         Event("status_changed", record.status, {}))
<1> DEFINE active == ActiveConflicts(id, s)
           status == ResolvedStatus(s, AdmissionStatus(s), Versions(active))
           olds   == IF status = "verified_active" THEN active ELSE {}
           saved(last) == [s EXCEPT !.status = status, !.supersedes = last]
<1>1. s \in MemoryRecord
  BY SubmissionsAssumption
<1>2. status \in {"pending", "verified_active", "rejected"}
  BY <1>1, ResolvedStatusType
<1>3. olds \subseteq Ids
  BY DEF ActiveConflicts, Stored
<1>4. PICK last \in IF olds = {} THEN {s.supersedes} ELSE olds :
        SaveReplacing(id, saved(last), olds)
  BY DEF Ingest
<1>5. last \in Ids \cup {NoId}
  BY <1>1, <1>3 DEF MemoryRecord
<1> DEFINE record == saved(last)
<1>6. /\ record \in MemoryRecord
      /\ record.status = status
      /\ record = [s EXCEPT !.status = record.status, !.supersedes = record.supersedes]
  <2>1. status \in MemoryStatus
    BY <1>2 DEF MemoryStatus
  <2> HIDE DEF status
  <2> QED
    BY <1>1, <1>5, <2>1 DEF MemoryRecord
<1>7. ActiveConflicts(id, record) = active
  BY <1>1 DEF ActiveConflicts, IntervalsOverlap, Start, End, MemoryRecord
<1>8. \A m \in olds : YieldsTo(memories[m], record)
  <2>1. ASSUME NEW m \in olds PROVE YieldsTo(memories[m], s)
    BY <2>1, ResolvedActive DEF Versions
  <2> QED
    BY <1>1, <2>1 DEF YieldsTo, Start, MemoryRecord
<1>9. ~ClosingOverflows(record, olds)
  <2>1. ~ClosingOverflows(s, olds)
    BY DEF Ingest
  <2> QED
    BY <1>1, <2>1 DEF ClosingOverflows, MemoryRecord
<1>10. /\ audit_events'[id] = Append(AdmissionTrail(audit_events[id], s),
                                     Event("status_changed", status, {}))
       /\ \A m \in olds : audit_events'[m] = Append(audit_events[m],
                                               Event("superseded", "superseded", {id}))
       /\ \A m \in Ids \ (olds \cup {id}) : audit_events'[m] = audit_events[m]
  <2>1. id \notin olds
    BY DEF ActiveConflicts
  <2> QED
    BY <1>3, <2>1 DEF Ingest
<1>11. Replaces(id, s, record, olds)
  <2>1. SaveReplacing(id, record, olds)
    BY <1>4
  <2>2. olds \subseteq active /\ (status = "verified_active" => olds = active)
    OBVIOUS
  <2>3. olds # {} => status = "verified_active"
    OBVIOUS
  <2>4. ~HasStatus(id, "verified_active")
    BY DEF Ingest, HasStatus
  <2> HIDE DEF olds, record, active, status
  <2> QED
    BY <1>6, <1>7, <1>8, <1>9, <1>10, <2>1, <2>2, <2>3, <2>4 DEF Replaces
<1> QED
  BY <1>2, <1>6, <1>10, <1>11

LEMMA ApproveReplaces ==
  ASSUME TypeOK, NEW id \in Ids, Approve(id)
  PROVE  \E record, olds :
           /\ Replaces(id, memories[id], record, olds)
           /\ record.status = "verified_active"
           /\ audit_events'[id] = ReviewTrail(audit_events[id], "verified_active", olds)
<1> DEFINE base == memories[id]
           olds == ActiveConflicts(id, base)
           saved(first) == [base EXCEPT !.status = "verified_active", !.supersedes = first]
<1>1. base \in MemoryRecord
  BY DEF Approve, CanReview, IsStored, TypeOK
<1>2. olds \subseteq Ids
  BY DEF ActiveConflicts, Stored
<1>3. PICK first \in IF olds = {} THEN {base.supersedes} ELSE olds :
        SaveReplacing(id, saved(first), olds)
  BY DEF Approve, CanApprove
<1>4. first \in Ids \cup {NoId}
  BY <1>1, <1>2 DEF MemoryRecord
<1> DEFINE record == saved(first)
<1>5. /\ record \in MemoryRecord
      /\ record.status = "verified_active"
      /\ record = [base EXCEPT !.status = record.status, !.supersedes = record.supersedes]
  BY <1>1, <1>4 DEF MemoryRecord, MemoryStatus
<1>6. ActiveConflicts(id, record) = olds
  BY <1>1 DEF ActiveConflicts, IntervalsOverlap, Start, End, MemoryRecord
<1>7. \A m \in olds : YieldsTo(memories[m], record)
  BY <1>1 DEF Approve, CanApprove, Outranks, YieldsTo, MemoryRecord
<1>8. ~ClosingOverflows(record, olds)
  <2>1. ~ClosingOverflows(base, olds)
    BY DEF Approve, CanApprove
  <2> QED
    BY <1>1, <2>1 DEF ClosingOverflows, MemoryRecord
<1>9. /\ audit_events'[id] = ReviewTrail(audit_events[id], "verified_active", olds)
      /\ \A m \in olds : audit_events'[m] = Append(audit_events[m],
                                              Event("superseded", "superseded", {id}))
      /\ \A m \in Ids \ (olds \cup {id}) : audit_events'[m] = audit_events[m]
  <2>1. id \notin olds
    BY DEF ActiveConflicts
  <2> QED
    BY <1>2, <2>1 DEF Approve, CanApprove
<1>10. Replaces(id, base, record, olds)
  <2>1. SaveReplacing(id, record, olds)
    BY <1>3
  <2>2. ~HasStatus(id, "verified_active")
    BY DEF Approve, CanReview, HasStatus
  <2> HIDE DEF olds, record, base
  <2> QED
    BY <1>5, <1>6, <1>7, <1>8, <1>9, <2>1, <2>2 DEF Replaces
<1> QED
  BY <1>5, <1>9, <1>10

\* Both expiries touch stored rows that are pending or active, and log each.
LEMMA ExpiryShape ==
  ASSUME TypeOK,
         \/ \E t \in Tenants, p \in Pages, v \in PageVersions : ExpireReplaced(t, p, v)
         \/ \E t \in Tenants, gone \in SUBSET Pages : ExpireMissing(t, gone)
  PROVE  \E ids \in SUBSET Stored :
           /\ \A m \in ids : memories[m].status \in {"pending", "verified_active"}
           /\ ExpireRows(ids)
BY DEF ExpireReplaced, ExpireMissing, RowsOfPage

-----------------------------------------------------------------------------
(* Type correctness *)

LEMMA ReplacesType ==
  ASSUME TypeOK, NEW id \in Ids, NEW base, NEW record, NEW olds,
         Replaces(id, base, record, olds)
  PROVE  /\ olds \in SUBSET Ids
         /\ \A m \in olds : m # id /\ memories[m] \in MemoryRecord
         /\ memories' \in [Ids -> MemoryRecord \cup {NoRecord}]
         /\ \A m \in Ids \ {id} : audit_events'[m] \in Seq(AuditEvent)
<1>1. record \in MemoryRecord
  BY DEF Replaces
<1>2. olds \subseteq Ids /\ \A m \in olds : m # id /\ memories[m] \in MemoryRecord
  <2>1. olds \subseteq ActiveConflicts(id, record)
    BY DEF Replaces
  <2> QED
    BY <2>1, ConflictsStored
<1>3. ASSUME NEW m \in Ids \ {id} PROVE audit_events'[m] \in Seq(AuditEvent)
  <2>1. Event("superseded", "superseded", {id}) \in AuditEvent
    BY EventType_ DEF EventType, MemoryStatus
  <2>2. CASE m \in olds
    <3>1. audit_events'[m] = Append(audit_events[m], Event("superseded", "superseded", {id}))
      BY <2>2 DEF Replaces
    <3> QED
      BY <2>1, <3>1 DEF TypeOK
  <2>3. CASE m \notin olds
    <3>1. audit_events'[m] = audit_events[m]
      BY <2>3 DEF Replaces
    <3> QED
      BY <3>1 DEF TypeOK
  <2> QED
    BY <2>2, <2>3
<1> QED
  BY <1>1, <1>2, <1>3, SaveReplacingType DEF Replaces

LEMMA ExpiryType ==
  ASSUME TypeOK, NEW ids \in SUBSET Stored, ExpireRows(ids)
  PROVE  TypeOK'
<1>1. ASSUME NEW m \in ids PROVE [memories[m] EXCEPT !.status = "expired"] \in MemoryRecord
  <2>1. memories[m] \in MemoryRecord
    BY DEF Stored, IsStored, TypeOK
  <2> QED
    BY <2>1 DEF MemoryRecord, MemoryStatus
<1>2. Event("status_changed", "expired", {}) \in AuditEvent
  BY EventType_ DEF EventType, MemoryStatus
<1> QED
  BY <1>1, <1>2 DEF ExpireRows, TypeOK

LEMMA TypeStep == TypeOK /\ [Next]_vars => TypeOK'
<1> SUFFICES ASSUME TypeOK, [Next]_vars PROVE TypeOK'
  OBVIOUS
<1>1. ASSUME NEW id \in Ids, IngestBlocked(id) PROVE TypeOK'
  <2>1. ScannedEvent \in AuditEvent /\ Event("security_blocked", "candidate", {}) \in AuditEvent
    BY EventType_ DEF ScannedEvent, EventType, MemoryStatus
  <2> QED
    BY <1>1, <2>1 DEF IngestBlocked, TypeOK
<1>2. ASSUME NEW id \in Ids, NEW s \in Submissions, IngestFails(id, s) PROVE TypeOK'
  <2>1. AdmissionTrail(audit_events[id], s) \in Seq(AuditEvent)
    BY SubmissionsAssumption, AdmissionTrailType DEF TypeOK
  <2> QED
    BY <1>2, <2>1 DEF IngestFails, TypeOK
<1>3. ASSUME NEW id \in Ids, NEW s \in Submissions, Ingest(id, s) PROVE TypeOK'
  <2>1. PICK record, olds :
          /\ Replaces(id, s, record, olds)
          /\ record.status \in {"pending", "verified_active", "rejected"}
          /\ audit_events'[id] = Append(AdmissionTrail(audit_events[id], s),
                                        Event("status_changed", record.status, {}))
    BY <1>3, IngestReplaces
  <2>2. audit_events'[id] \in Seq(AuditEvent)
    <3>1. AdmissionTrail(audit_events[id], s) \in Seq(AuditEvent)
      BY SubmissionsAssumption, AdmissionTrailType DEF TypeOK
    <3>2. Event("status_changed", record.status, {}) \in AuditEvent
      BY <2>1, EventType_ DEF EventType, MemoryStatus
    <3> QED
      BY <2>1, <3>1, <3>2
  <2>3. DOMAIN audit_events' = Ids /\ audit_events' = [m \in Ids |-> audit_events'[m]]
    BY <1>3 DEF Ingest
  <2>4. ASSUME NEW m \in Ids \ {id} PROVE audit_events'[m] \in Seq(AuditEvent)
    BY <2>1, ReplacesType
  <2> QED
    BY <2>1, <2>2, <2>3, <2>4, ReplacesType DEF TypeOK
<1>4. ASSUME NEW id \in Ids, Reject(id) PROVE TypeOK'
  <2>1. memories[id] \in MemoryRecord
    BY <1>4 DEF Reject, CanReview, IsStored, TypeOK
  <2>2. [memories[id] EXCEPT !.status = "rejected"] \in MemoryRecord
    BY <2>1 DEF MemoryRecord, MemoryStatus
  <2>3. ReviewTrail(audit_events[id], "rejected", {}) \in Seq(AuditEvent)
    BY ReviewTrailType DEF TypeOK, MemoryStatus
  <2> QED
    BY <1>4, <2>2, <2>3 DEF Reject, TypeOK
<1>5. ASSUME NEW id \in Ids, Approve(id) PROVE TypeOK'
  <2>1. PICK record, olds :
          /\ Replaces(id, memories[id], record, olds)
          /\ audit_events'[id] = ReviewTrail(audit_events[id], "verified_active", olds)
    BY <1>5, ApproveReplaces
  <2>2. audit_events'[id] \in Seq(AuditEvent)
    BY <2>1, ReplacesType, ReviewTrailType DEF TypeOK, MemoryStatus
  <2>3. DOMAIN audit_events' = Ids /\ audit_events' = [m \in Ids |-> audit_events'[m]]
    BY <1>5 DEF Approve
  <2>4. ASSUME NEW m \in Ids \ {id} PROVE audit_events'[m] \in Seq(AuditEvent)
    BY <2>1, ReplacesType
  <2> QED
    BY <2>1, <2>2, <2>3, <2>4, ReplacesType DEF TypeOK
<1>6. ASSUME NEW ids \in SUBSET Stored, ExpireRows(ids) PROVE TypeOK'
  BY <1>6, ExpiryType
<1>7. CASE UNCHANGED vars
  BY <1>7 DEF vars, TypeOK
<1> QED
  BY <1>1, <1>2, <1>3, <1>4, <1>5, <1>6, <1>7, ExpiryShape DEF Next

\* Both tables keep their shape: in particular no close of a window leaves
\* the range of dates.
THEOREM TypeCorrect == Spec => []TypeOK
<1>1. Init => TypeOK
  BY DEF Init, TypeOK
<1> QED
  BY <1>1, TypeStep, PTL DEF Spec

-----------------------------------------------------------------------------
(* What a step can do to one row *)

\* A row and, if it is stored, its trail stay as they are.
Untouched(m) ==
  /\ memories'[m] = memories[m]
  /\ IsStored(m) => audit_events'[m] = audit_events[m]

\* A record is stored under a free id.
Arrives(m) ==
  /\ ~IsStored(m)
  /\ memories'[m] \in MemoryRecord
  /\ memories'[m].status \in {"pending", "verified_active", "rejected"}
  /\ audit_events'[m] # <<>>
  /\ LastEvent(m)'.status = memories'[m].status

\* A stored row gets another status, and keeps what no operation changes.
Moves(m, from, to) ==
  /\ IsStored(m)
  /\ memories[m].status \in from
  /\ memories'[m] \in MemoryRecord
  /\ memories'[m].status \in to
  /\ memories'[m] = [memories[m] EXCEPT !.status = memories'[m].status,
                                        !.supersedes = memories'[m].supersedes]
  /\ audit_events'[m] # <<>>
  /\ LastEvent(m)'.status = memories'[m].status

\* An active row is closed by another record of its family, saved in the step
\* and active from then on.
ClosedBy(m, by) ==
  /\ by \in Ids \ {m}
  /\ ~HasStatus(by, "verified_active") /\ memories'[by].status = "verified_active"
  /\ IsStored(m)
  /\ memories[m].status = "verified_active"
  /\ memories'[by] \in MemoryRecord
  /\ memories'[by].tenant_id = memories[m].tenant_id
  /\ memories'[by].conflict_key = memories[m].conflict_key
  /\ YieldsTo(memories[m], memories'[by])
  /\ IntervalsOverlap(memories[m], memories'[by])
  /\ memories'[m] = Closed(memories[m], memories'[by])
  /\ memories'[m] \in MemoryRecord
  /\ audit_events'[m] = Append(audit_events[m], Event("superseded", "superseded", {by}))

RowStep(m) ==
  \/ Untouched(m)
  \/ Arrives(m)
  \/ Moves(m, {"pending"}, {"verified_active", "rejected"})
  \/ Moves(m, {"pending", "verified_active"}, {"expired"})
  \/ \E by \in Ids : ClosedBy(m, by)

LEMMA LastOfAppend ==
  ASSUME NEW trail \in Seq(AuditEvent), NEW event \in AuditEvent
  PROVE  /\ Append(trail, event) # <<>>
         /\ Append(trail, event)[Len(Append(trail, event))] = event
OBVIOUS

LEMMA LastOfReview ==
  ASSUME NEW trail \in Seq(AuditEvent), NEW status \in MemoryStatus, NEW olds \in SUBSET Ids
  PROVE  /\ ReviewTrail(trail, status, olds) # <<>>
         /\ ReviewTrail(trail, status, olds)[Len(ReviewTrail(trail, status, olds))].status = status
<1>1. Event("reviewed", status, olds) \in AuditEvent
  BY EventType_ DEF EventType
<1>2. Event("status_changed", status, {}) \in AuditEvent
  BY EventType_ DEF EventType
<1>3. Append(trail, Event("reviewed", status, olds)) \in Seq(AuditEvent)
  BY <1>1
<1>4. Event("status_changed", status, {}).status = status
  BY DEF Event
<1> QED
  BY <1>2, <1>3, <1>4, LastOfAppend DEF ReviewTrail

\* The rows other than the saved one, in a step that replaces.
LEMMA ReplacesOthers ==
  ASSUME TypeOK, NEW id \in Ids, NEW base, NEW record, NEW olds,
         Replaces(id, base, record, olds),
         NEW m \in Ids \ {id}
  PROVE  Untouched(m) \/ ClosedBy(m, id)
<1>1. memories'[id] = record /\ record \in MemoryRecord
  BY DEF Replaces, SaveReplacing
<1>2. CASE m \in olds
  <2>1. m \in ActiveConflicts(id, record)
    BY <1>2 DEF Replaces
  <2>2. /\ memories'[m] = Closed(memories[m], record)
        /\ audit_events'[m] = Append(audit_events[m], Event("superseded", "superseded", {id}))
        /\ YieldsTo(memories[m], record)
        /\ ~HasStatus(id, "verified_active") /\ record.status = "verified_active"
    BY <1>2 DEF Replaces, SaveReplacing
  <2>3. IsStored(m)
    BY <2>1 DEF ActiveConflicts, Stored
  <2>4. Closed(memories[m], record) \in MemoryRecord
    <3>1. record.valid_from # MinDate
      BY <1>2 DEF Replaces, ClosingOverflows
    <3> QED
      BY <1>1, <2>1, <3>1, ConflictsStored, ClosedType
  <2> QED
    BY <1>1, <2>1, <2>2, <2>3, <2>4, ConflictsStored DEF ClosedBy
<1>3. CASE m \notin olds
  BY <1>3 DEF Replaces, SaveReplacing, Untouched
<1> QED
  BY <1>2, <1>3

LEMMA RowSteps ==
  ASSUME TypeOK, [Next]_vars, NEW m \in Ids
  PROVE  RowStep(m)
<1>1. ASSUME NEW id \in Ids, IngestBlocked(id) PROVE Untouched(m)
  BY <1>1 DEF IngestBlocked, Untouched, IsStored, TypeOK
<1>2. ASSUME NEW id \in Ids, NEW s \in Submissions, IngestFails(id, s) PROVE Untouched(m)
  BY <1>2 DEF IngestFails, Untouched, IsStored, TypeOK
<1>3. ASSUME NEW id \in Ids, NEW s \in Submissions, Ingest(id, s) PROVE RowStep(m)
  <2>1. PICK record, olds :
          /\ Replaces(id, s, record, olds)
          /\ record.status \in {"pending", "verified_active", "rejected"}
          /\ audit_events'[id] = Append(AdmissionTrail(audit_events[id], s),
                                        Event("status_changed", record.status, {}))
    BY <1>3, IngestReplaces
  <2>2. CASE m # id
    BY <2>1, <2>2, ReplacesOthers DEF RowStep
  <2>3. CASE m = id
    <3>1. memories'[m] = record /\ record \in MemoryRecord
      BY <2>1, <2>3 DEF Replaces, SaveReplacing
    <3>2. ~IsStored(m)
      BY <1>3, <2>3 DEF Ingest
    <3>3. AdmissionTrail(audit_events[m], s) \in Seq(AuditEvent)
      BY SubmissionsAssumption, AdmissionTrailType DEF TypeOK
    <3>4. Event("status_changed", record.status, {}) \in AuditEvent
      BY <2>1, EventType_ DEF EventType, MemoryStatus
    <3>5. audit_events'[m] # <<>> /\ LastEvent(m)' = Event("status_changed", record.status, {})
      BY <2>1, <2>3, <3>3, <3>4, LastOfAppend DEF LastEvent
    <3> QED
      BY <2>1, <3>1, <3>2, <3>5 DEF RowStep, Arrives, Event
  <2> QED
    BY <2>2, <2>3
<1>4. ASSUME NEW id \in Ids, Reject(id) PROVE RowStep(m)
  <2>1. CASE m # id
    BY <1>4, <2>1 DEF Reject, Untouched, RowStep, TypeOK
  <2>2. CASE m = id
    <3>1. IsStored(m) /\ memories[m].status = "pending" /\ memories[m] \in MemoryRecord
      BY <1>4, <2>2 DEF Reject, CanReview, IsStored, TypeOK
    <3>2. memories'[m] = [memories[m] EXCEPT !.status = "rejected"]
      BY <1>4, <2>2 DEF Reject, TypeOK
    <3>3. /\ memories'[m] \in MemoryRecord
          /\ memories'[m].status = "rejected"
          /\ memories'[m] = [memories[m] EXCEPT !.status = memories'[m].status,
                                                !.supersedes = memories'[m].supersedes]
      BY <3>1, <3>2 DEF MemoryRecord, MemoryStatus
    <3>4. audit_events'[m] = ReviewTrail(audit_events[m], "rejected", {})
      BY <1>4, <2>2 DEF Reject, TypeOK
    <3>5. audit_events'[m] # <<>> /\ LastEvent(m)'.status = "rejected"
      BY <3>4, LastOfReview DEF LastEvent, TypeOK, MemoryStatus
    <3> QED
      BY <3>1, <3>3, <3>5 DEF RowStep, Moves
  <2> QED
    BY <2>1, <2>2
<1>5. ASSUME NEW id \in Ids, Approve(id) PROVE RowStep(m)
  <2>1. PICK record, olds :
          /\ Replaces(id, memories[id], record, olds)
          /\ record.status = "verified_active"
          /\ audit_events'[id] = ReviewTrail(audit_events[id], "verified_active", olds)
    BY <1>5, ApproveReplaces
  <2>2. CASE m # id
    BY <2>1, <2>2, ReplacesOthers DEF RowStep
  <2>3. CASE m = id
    <3>1. IsStored(m) /\ memories[m].status = "pending"
      BY <1>5, <2>3 DEF Approve, CanReview
    <3>2. /\ memories'[m] = record
          /\ record \in MemoryRecord
          /\ record = [memories[m] EXCEPT !.status = record.status,
                                          !.supersedes = record.supersedes]
      BY <2>1, <2>3 DEF Replaces, SaveReplacing
    <3>3. audit_events'[m] # <<>> /\ LastEvent(m)'.status = "verified_active"
      BY <2>1, <2>3, ReplacesType, LastOfReview DEF LastEvent, TypeOK, MemoryStatus
    <3> QED
      BY <2>1, <3>1, <3>2, <3>3 DEF RowStep, Moves
  <2> QED
    BY <2>2, <2>3
<1>6. ASSUME NEW ids \in SUBSET Stored, ExpireRows(ids),
             \A i \in ids : memories[i].status \in {"pending", "verified_active"}
      PROVE  RowStep(m)
  <2>1. CASE m \notin ids
    BY <1>6, <2>1 DEF ExpireRows, Untouched, RowStep
  <2>2. CASE m \in ids
    <3>1. IsStored(m) /\ memories[m] \in MemoryRecord
      BY <2>2 DEF Stored, IsStored, TypeOK
    <3>2. memories'[m] = [memories[m] EXCEPT !.status = "expired"]
      BY <1>6, <2>2 DEF ExpireRows
    <3>3. /\ memories'[m] \in MemoryRecord
          /\ memories'[m].status = "expired"
          /\ memories'[m] = [memories[m] EXCEPT !.status = memories'[m].status,
                                                !.supersedes = memories'[m].supersedes]
      BY <3>1, <3>2 DEF MemoryRecord, MemoryStatus
    <3>4. Event("status_changed", "expired", {}) \in AuditEvent
      BY EventType_ DEF EventType, MemoryStatus
    <3>5. audit_events'[m] = Append(audit_events[m], Event("status_changed", "expired", {}))
      BY <1>6, <2>2 DEF ExpireRows
    <3>6. audit_events'[m] # <<>> /\ LastEvent(m)'.status = "expired"
      BY <3>4, <3>5, LastOfAppend DEF LastEvent, Event, TypeOK
    <3> QED
      BY <1>6, <2>2, <3>1, <3>3, <3>6 DEF RowStep, Moves
  <2> QED
    BY <2>1, <2>2
<1>7. CASE UNCHANGED vars
  BY <1>7 DEF vars, Untouched, RowStep
<1> QED
  BY <1>1, <1>2, <1>3, <1>4, <1>5, <1>6, <1>7, ExpiryShape DEF Next, RowStep

-----------------------------------------------------------------------------
(* What becomes active has earned it *)

\* `m' has become active in this step: admission let it, or a reviewer.
Earns(m) ==
  /\ memories'[m].evidence
  /\ AdmissionStatus(memories'[m]) # "verified_active" => WasReviewed(m)'

LEMMA ReviewIsOnTrail ==
  ASSUME NEW trail \in Seq(AuditEvent), NEW olds \in SUBSET Ids
  PROVE  \E i \in DOMAIN ReviewTrail(trail, "verified_active", olds) :
           /\ ReviewTrail(trail, "verified_active", olds)[i].event_type = "reviewed"
           /\ ReviewTrail(trail, "verified_active", olds)[i].status = "verified_active"
<1> DEFINE reviewed == Event("reviewed", "verified_active", olds)
           changed  == Event("status_changed", "verified_active", {})
<1>1. /\ reviewed \in AuditEvent /\ changed \in AuditEvent
      /\ reviewed.event_type = "reviewed" /\ reviewed.status = "verified_active"
  BY EventType_ DEF EventType, MemoryStatus, Event
<1> HIDE DEF reviewed, changed
<1>2. /\ Len(trail) + 1 \in DOMAIN Append(Append(trail, reviewed), changed)
      /\ Append(Append(trail, reviewed), changed)[Len(trail) + 1] = reviewed
  BY <1>1
<1> QED
  BY <1>1, <1>2 DEF ReviewTrail, reviewed, changed

LEMMA ActivationSteps ==
  ASSUME TypeOK, [Next]_vars, NEW m \in Ids,
         HasStatus(m, "verified_active")', ~HasStatus(m, "verified_active")
  PROVE  Earns(m)
<1>1. memories'[m] \in MemoryRecord /\ memories'[m].status = "verified_active"
  BY TypeStep DEF HasStatus, IsStored, TypeOK
<1>2. ASSUME NEW id \in Ids, NEW record, NEW base, NEW olds, Replaces(id, base, record, olds)
      PROVE  m = id /\ memories'[m] = record
  <2>1. ~Untouched(m)
    BY <1>1 DEF Untouched, HasStatus, IsStored
  <2>2. ~ClosedBy(m, id)
    <3>1. ASSUME ClosedBy(m, id) PROVE memories'[m].status = "superseded"
      BY <3>1, ClosedKeeps DEF ClosedBy, IsStored, TypeOK
    <3> QED
      BY <1>1, <3>1
  <2>3. m = id
    BY <1>2, <2>1, <2>2, ReplacesOthers
  <2> QED
    BY <1>2, <2>3 DEF Replaces, SaveReplacing
<1>3. ASSUME NEW id \in Ids, NEW s \in Submissions, Ingest(id, s) PROVE Earns(m)
  <2>1. PICK record, olds : Replaces(id, s, record, olds)
    BY <1>3, IngestReplaces
  <2>2. m = id /\ memories'[m] = record
    BY <1>2, <2>1
  <2>3. /\ s \in MemoryRecord /\ record \in MemoryRecord
        /\ record = [s EXCEPT !.status = record.status, !.supersedes = record.supersedes]
    BY <2>1, SubmissionsAssumption DEF Replaces
  <2>4. record = [s EXCEPT !.status = record.status, !.valid_to = record.valid_to,
                           !.supersedes = record.supersedes]
    BY <2>3 DEF MemoryRecord
  <2>5. ResolvedStatus(s, AdmissionStatus(s), Versions(ActiveConflicts(id, s))) = "verified_active"
    <3> DEFINE status == ResolvedStatus(s, AdmissionStatus(s), Versions(ActiveConflicts(id, s)))
               closed == IF status = "verified_active" THEN ActiveConflicts(id, s) ELSE {}
    <3>1. PICK last \in IF closed = {} THEN {s.supersedes} ELSE closed :
            SaveReplacing(id, [s EXCEPT !.status = status, !.supersedes = last], closed)
      BY <1>3 DEF Ingest
    <3> HIDE DEF status, closed
    <3>2. memories'[m].status = status
      BY <2>2, <2>3, <3>1 DEF SaveReplacing, MemoryRecord
    <3> QED
      BY <1>1, <3>2 DEF status
  <2>6. AdmissionStatus(s) = "verified_active" /\ s.evidence
    BY <2>3, <2>5, ActiveIsAdmitted, AdmittedHasEvidence
  <2> QED
    BY <2>2, <2>3, <2>4, <2>6, AdmissionIgnores DEF Earns
<1>4. ASSUME NEW id \in Ids, Approve(id) PROVE Earns(m)
  <2>1. PICK record, olds :
          /\ Replaces(id, memories[id], record, olds)
          /\ audit_events'[id] = ReviewTrail(audit_events[id], "verified_active", olds)
    BY <1>4, ApproveReplaces
  <2>2. m = id /\ memories'[m] = record /\ olds \in SUBSET Ids
    BY <1>2, <2>1, ReplacesType
  <2>3. memories[m].evidence /\ memories[m] \in MemoryRecord
    BY <1>4, <2>2 DEF Approve, CanReview, CanApprove, IsStored, TypeOK
  <2>4. memories'[m].evidence
    BY <2>1, <2>2, <2>3 DEF Replaces, MemoryRecord
  <2>5. WasReviewed(m)'
    <3>1. audit_events[m] \in Seq(AuditEvent)
      BY DEF TypeOK
    <3>2. audit_events'[m] = ReviewTrail(audit_events[m], "verified_active", olds)
      BY <2>1, <2>2
    <3>3. \E i \in DOMAIN audit_events'[m] :
            /\ audit_events'[m][i].event_type = "reviewed"
            /\ audit_events'[m][i].status = "verified_active"
      BY <2>2, <3>1, <3>2, ReviewIsOnTrail
    <3> QED
      BY <3>3 DEF WasReviewed
  <2> QED
    BY <2>4, <2>5 DEF Earns
<1>5. ASSUME NEW ids \in SUBSET Stored, ExpireRows(ids) PROVE FALSE
  <2>1. m \in ids => memories'[m] = [memories[m] EXCEPT !.status = "expired"]
    BY <1>5 DEF ExpireRows
  <2>2. m \in ids => memories[m] \in MemoryRecord
    BY DEF Stored, IsStored, TypeOK
  <2>3. m \notin ids => memories'[m] = memories[m]
    BY <1>5 DEF ExpireRows
  <2> QED
    BY <1>1, <2>1, <2>2, <2>3 DEF HasStatus, IsStored, MemoryRecord
<1>6. ASSUME NEW id \in Ids, Reject(id) PROVE FALSE
  <2>1. memories' = [memories EXCEPT ![id] = [@ EXCEPT !.status = "rejected"]]
        /\ memories[id] \in MemoryRecord
    BY <1>6 DEF Reject, CanReview, IsStored, TypeOK
  <2> QED
    BY <1>1, <2>1 DEF HasStatus, IsStored, MemoryRecord, TypeOK
<1>7. memories' # memories
  BY DEF HasStatus, IsStored
<1> QED
  BY <1>3, <1>4, <1>5, <1>6, <1>7, ExpiryShape DEF Next, vars, IngestBlocked, IngestFails

\* Nothing forgets a review, or turns a row into one that would need it.
LEMMA EarnedStep == TypeOK /\ ActivationIsEarned /\ [Next]_vars => ActivationIsEarned'
<1> SUFFICES ASSUME TypeOK, ActivationIsEarned, [Next]_vars, NEW m \in Ids,
                    HasStatus(m, "verified_active")' \/ HasStatus(m, "superseded")'
             PROVE  Earns(m)
  BY DEF ActivationIsEarned, Earns
<1>1. CASE Untouched(m)
  BY <1>1 DEF Untouched, Earns, ActivationIsEarned, HasStatus, IsStored, WasReviewed
<1>2. CASE Arrives(m)
  BY <1>2, ActivationSteps DEF Arrives, HasStatus
<1>3. CASE Moves(m, {"pending"}, {"verified_active", "rejected"})
  BY <1>3, ActivationSteps DEF Moves, HasStatus
<1>4. CASE Moves(m, {"pending", "verified_active"}, {"expired"})
  BY <1>4 DEF Moves, HasStatus
<1>5. ASSUME NEW by \in Ids, ClosedBy(m, by) PROVE Earns(m)
  <2>1. /\ HasStatus(m, "verified_active") /\ memories[m] \in MemoryRecord
        /\ memories'[m] \in MemoryRecord /\ memories'[m] = Closed(memories[m], memories'[by])
    BY <1>5 DEF ClosedBy, HasStatus, IsStored, TypeOK
  <2>2. /\ memories[m].evidence
        /\ AdmissionStatus(memories[m]) # "verified_active" => WasReviewed(m)
    BY <2>1 DEF ActivationIsEarned
  <2>3. memories'[m] = [memories[m] EXCEPT !.status = memories'[m].status,
                          !.valid_to = memories'[m].valid_to, !.supersedes = memories'[m].supersedes]
    BY <2>1 DEF Closed, MemoryRecord
  <2>4. WasReviewed(m) => WasReviewed(m)'
    <3> DEFINE event == Event("superseded", "superseded", {by})
    <3>1. event \in AuditEvent
      BY EventType_ DEF EventType, MemoryStatus
    <3>2. audit_events'[m] = Append(audit_events[m], event) /\ audit_events[m] \in Seq(AuditEvent)
      BY <1>5 DEF ClosedBy, TypeOK
    <3> HIDE DEF event
    <3>3. \A i \in DOMAIN audit_events[m] :
            i \in DOMAIN audit_events'[m] /\ audit_events'[m][i] = audit_events[m][i]
      BY <3>1, <3>2
    <3> QED
      BY <3>3 DEF WasReviewed
  <2> QED
    BY <2>1, <2>2, <2>3, <2>4, AdmissionIgnores DEF Earns
<1> QED
  BY <1>1, <1>2, <1>3, <1>4, <1>5, RowSteps DEF RowStep

\* A record that admission left pending is active, or was until it was
\* replaced, only if a reviewer approved it; none is without evidence.
THEOREM ActivationsAreEarned == Spec => []ActivationIsEarned
<1>1. Init => ActivationIsEarned
  BY DEF Init, ActivationIsEarned, HasStatus, IsStored
<1> QED
  BY <1>1, TypeCorrect, EarnedStep, PTL DEF Spec

-----------------------------------------------------------------------------
(* No two active versions overlap *)

LEMMA NoActiveOverlapStep == TypeOK /\ NoActiveOverlap /\ [Next]_vars => NoActiveOverlap'
<1> SUFFICES ASSUME TypeOK, NoActiveOverlap, [Next]_vars PROVE NoActiveOverlap'
  OBVIOUS
<1>1. ASSUME \A m \in Ids : HasStatus(m, "verified_active")'
                              => memories'[m] = memories[m]
      PROVE  NoActiveOverlap'
  BY <1>1 DEF NoActiveOverlap, HasStatus, IsStored, SameFamily
<1>2. ASSUME NEW id \in Ids, NEW s \in Submissions, Ingest(id, s) PROVE NoActiveOverlap'
  <2>1. PICK record, olds : Replaces(id, s, record, olds)
    BY <1>2, IngestReplaces
  <2> QED
    BY <2>1, ReplacesType, SaveReplacingNoOverlap DEF Replaces
<1>3. ASSUME NEW id \in Ids, Approve(id) PROVE NoActiveOverlap'
  <2>1. PICK record, olds : Replaces(id, memories[id], record, olds)
    BY <1>3, ApproveReplaces
  <2> QED
    BY <2>1, ReplacesType, SaveReplacingNoOverlap DEF Replaces
<1>4. ASSUME NEW id \in Ids, IngestBlocked(id) PROVE NoActiveOverlap'
  BY <1>1, <1>4 DEF IngestBlocked
<1>5. ASSUME NEW id \in Ids, NEW s \in Submissions, IngestFails(id, s) PROVE NoActiveOverlap'
  BY <1>1, <1>5 DEF IngestFails
<1>6. ASSUME NEW id \in Ids, Reject(id) PROVE NoActiveOverlap'
  <2>1. memories[id] \in MemoryRecord
    BY <1>6 DEF Reject, CanReview, IsStored, TypeOK
  <2>2. memories'[id].status = "rejected"
    BY <1>6, <2>1 DEF Reject, MemoryRecord, TypeOK
  <2>3. \A m \in Ids \ {id} : memories'[m] = memories[m]
    BY <1>6 DEF Reject, TypeOK
  <2> QED
    BY <1>1, <2>2, <2>3 DEF HasStatus
<1>7. ASSUME NEW ids \in SUBSET Stored, ExpireRows(ids) PROVE NoActiveOverlap'
  <2>1. ASSUME NEW m \in ids PROVE memories'[m].status = "expired"
    <3>1. memories[m] \in MemoryRecord
      BY DEF Stored, IsStored, TypeOK
    <3>2. memories'[m] = [memories[m] EXCEPT !.status = "expired"]
      BY <1>7 DEF ExpireRows, Stored
    <3> QED
      BY <3>1, <3>2 DEF MemoryRecord
  <2>2. \A m \in Ids \ ids : memories'[m] = memories[m]
    BY <1>7 DEF ExpireRows
  <2> QED
    BY <1>1, <2>1, <2>2 DEF HasStatus
<1>8. CASE UNCHANGED vars
  BY <1>1, <1>8 DEF vars
<1> QED
  BY <1>2, <1>3, <1>4, <1>5, <1>6, <1>7, <1>8, ExpiryShape DEF Next

\* For every interleaving of whole operations, two active versions of one
\* tenant and conflict key never cover the same date.
THEOREM ActiveVersionsDisjoint == Spec => []NoActiveOverlap
<1>1. Init => NoActiveOverlap
  BY DEF Init, NoActiveOverlap, HasStatus, IsStored
<1> QED
  BY <1>1, TypeCorrect, NoActiveOverlapStep, PTL DEF Spec

-----------------------------------------------------------------------------
(* Stored records keep their identity; decided ones stay decided *)

LEMMA RowKeeps ==
  ASSUME TypeOK, [Next]_vars, NEW m \in Ids, IsStored(m)
  PROVE  /\ memories[m] \in MemoryRecord
         /\ memories'[m] \in MemoryRecord
         /\ IsStored(m)'
         /\ memories'[m].tenant_id = memories[m].tenant_id
         /\ memories'[m].conflict_key = memories[m].conflict_key
         /\ memories'[m].authority = memories[m].authority
         /\ memories'[m].source_type = memories[m].source_type
         /\ memories'[m].valid_from = memories[m].valid_from
<1>1. memories[m] \in MemoryRecord
  BY DEF IsStored, TypeOK
<1>2. memories'[m] \in MemoryRecord
  BY <1>1, RowSteps DEF RowStep, Untouched, Arrives, Moves, ClosedBy
<1>3. IsStored(m)'
  BY <1>2, NamesAssumption DEF IsStored
<1>4. CASE Untouched(m)
  BY <1>1, <1>2, <1>3, <1>4 DEF Untouched
<1>5. ASSUME NEW from, NEW to, Moves(m, from, to)
      PROVE  /\ memories'[m].tenant_id = memories[m].tenant_id
             /\ memories'[m].conflict_key = memories[m].conflict_key
             /\ memories'[m].authority = memories[m].authority
             /\ memories'[m].source_type = memories[m].source_type
             /\ memories'[m].valid_from = memories[m].valid_from
  BY <1>1, <1>5 DEF Moves, MemoryRecord
<1>6. ASSUME NEW by \in Ids, ClosedBy(m, by)
      PROVE  /\ memories'[m].tenant_id = memories[m].tenant_id
             /\ memories'[m].conflict_key = memories[m].conflict_key
             /\ memories'[m].authority = memories[m].authority
             /\ memories'[m].source_type = memories[m].source_type
             /\ memories'[m].valid_from = memories[m].valid_from
  BY <1>1, <1>6, ClosedKeeps DEF ClosedBy
<1> QED
  BY <1>1, <1>2, <1>3, <1>4, <1>5, <1>6, RowSteps DEF RowStep, Arrives

LEMMA FinalStep ==
  ASSUME TypeOK, [Next]_vars, NEW m \in Stored
  PROVE  /\ memories'[m] = [memories[m] EXCEPT !.status = memories'[m].status,
                                               !.valid_to = memories'[m].valid_to,
                                               !.supersedes = memories'[m].supersedes]
         /\ memories[m].status \in {"rejected", "superseded", "expired"}
              => memories'[m] = memories[m]
<1>1. m \in Ids /\ IsStored(m) /\ memories[m] \in MemoryRecord
  BY DEF Stored, IsStored, TypeOK
<1>2. CASE Untouched(m)
  <2>1. memories'[m] = memories[m]
    BY <1>2 DEF Untouched
  <2> QED
    BY <1>1, <2>1 DEF MemoryRecord
<1>3. ASSUME NEW from, NEW to, Moves(m, from, to)
      PROVE  /\ memories[m].status \in from
             /\ memories'[m] = [memories[m] EXCEPT !.status = memories'[m].status,
                                                   !.valid_to = memories'[m].valid_to,
                                                   !.supersedes = memories'[m].supersedes]
  BY <1>1, <1>3 DEF Moves, MemoryRecord
<1>4. ASSUME NEW by \in Ids, ClosedBy(m, by)
      PROVE  /\ memories[m].status = "verified_active"
             /\ memories'[m] = [memories[m] EXCEPT !.status = memories'[m].status,
                                                   !.valid_to = memories'[m].valid_to,
                                                   !.supersedes = memories'[m].supersedes]
  BY <1>1, <1>4, ZenonT(60) DEF ClosedBy, Closed, MemoryRecord
<1> QED
  BY <1>1, <1>2, <1>3, <1>4, RowSteps DEF RowStep, Arrives

\* Rejected, superseded and expired versions never change again, and no
\* operation alters what a stored record says, only its lifecycle.
THEOREM DecisionsAreFinal == Spec => FinalStaysFinal
<1>1. TypeOK /\ [Next]_vars =>
        [\A id \in Stored :
           /\ memories'[id] = [memories[id] EXCEPT !.status = memories'[id].status,
                                                   !.valid_to = memories'[id].valid_to,
                                                   !.supersedes = memories'[id].supersedes]
           /\ memories[id].status \in {"rejected", "superseded", "expired"}
                => memories'[id] = memories[id]]_vars
  BY FinalStep
<1> QED
  BY <1>1, TypeCorrect, PTL DEF Spec, FinalStaysFinal

-----------------------------------------------------------------------------
(* The trail tells the status *)

LEMMA ReplacedEvent ==
  ASSUME TypeOK, NEW m \in Ids, NEW by \in Ids, ClosedBy(m, by)
  PROVE  /\ audit_events'[m] # <<>>
         /\ LastEvent(m)'.status = "superseded"
         /\ LastEvent(m)'.event_type = "superseded"
         /\ LastEvent(m)'.ids = {by}
<1>1. Event("superseded", "superseded", {by}) \in AuditEvent
  BY EventType_ DEF EventType, MemoryStatus
<1>2. audit_events'[m] # <<>> /\ LastEvent(m)' = Event("superseded", "superseded", {by})
  BY <1>1, LastOfAppend DEF ClosedBy, LastEvent, TypeOK
<1> QED
  BY <1>2 DEF Event

LEMMA TrailStep == TypeOK /\ TrailTellsStatus /\ [Next]_vars => TrailTellsStatus'
<1> SUFFICES ASSUME TypeOK, TrailTellsStatus, [Next]_vars,
                    NEW m \in Ids, IsStored(m)'
             PROVE  audit_events'[m] # <<>> /\ LastEvent(m)'.status = memories'[m].status
  BY DEF TrailTellsStatus, Stored
<1>1. CASE Untouched(m)
  BY <1>1 DEF Untouched, TrailTellsStatus, Stored, IsStored, LastEvent
<1>2. CASE Arrives(m)
  BY <1>2 DEF Arrives
<1>3. ASSUME NEW from, NEW to, Moves(m, from, to)
      PROVE  audit_events'[m] # <<>> /\ LastEvent(m)'.status = memories'[m].status
  BY <1>3 DEF Moves
<1>4. ASSUME NEW by \in Ids, ClosedBy(m, by)
      PROVE  audit_events'[m] # <<>> /\ LastEvent(m)'.status = memories'[m].status
  <2>1. memories'[m].status = "superseded"
    BY <1>4, ClosedKeeps DEF ClosedBy, IsStored, TypeOK
  <2> QED
    BY <1>4, <2>1, ReplacedEvent
<1> QED
  BY <1>1, <1>2, <1>3, <1>4, RowSteps DEF RowStep

\* Whoever reads the audit trail of a stored record finds its status there.
THEOREM TrailIsCurrent == Spec => []TrailTellsStatus
<1>1. Init => TrailTellsStatus
  BY DEF Init, TrailTellsStatus, Stored, IsStored
<1> QED
  BY <1>1, TypeCorrect, TrailStep, PTL DEF Spec

-----------------------------------------------------------------------------
(* Versions stay answerable *)

LEMMA OldAnswersStep ==
  ASSUME TypeOK, [Next]_vars, NEW m \in Stored, NEW d \in Date,
         EligibleAt(memories[m], d), ~EligibleAt(memories'[m], d)
  PROVE  \/ memories'[m].status = "expired"
         \/ \E by \in Ids \ {m} :
              /\ ~HasStatus(by, "verified_active")
              /\ HasStatus(by, "verified_active")'
              /\ SameFamily(m, by)'
              /\ Start(memories'[by]) <= d
<1>1. m \in Ids /\ IsStored(m) /\ memories[m] \in MemoryRecord
  BY DEF Stored, IsStored, TypeOK
<1>2. ~Untouched(m) /\ ~Arrives(m)
  BY <1>1 DEF Untouched, Arrives
<1>3. ~Moves(m, {"pending"}, {"verified_active", "rejected"})
  BY DEF Moves, EligibleAt
<1>4. CASE Moves(m, {"pending", "verified_active"}, {"expired"})
  BY <1>4 DEF Moves
<1>5. ASSUME NEW by \in Ids, ClosedBy(m, by)
      PROVE  /\ by \in Ids \ {m}
             /\ ~HasStatus(by, "verified_active")
             /\ HasStatus(by, "verified_active")'
             /\ SameFamily(m, by)'
             /\ Start(memories'[by]) <= d
  <2>1. memories'[by] \in MemoryRecord /\ memories'[m] = Closed(memories[m], memories'[by])
    BY <1>5 DEF ClosedBy
  <2>2. Start(memories'[by]) <= d
    BY <1>1, <2>1, ClosedStaysEligible
  <2>3. SameFamily(m, by)'
    BY <1>1, <1>5, <2>1, ClosedKeeps DEF ClosedBy, SameFamily
  <2> QED
    BY <1>5, <2>1, <2>2, <2>3, NamesAssumption DEF ClosedBy, HasStatus, IsStored
<1> QED
  BY <1>1, <1>2, <1>3, <1>4, <1>5, RowSteps DEF RowStep

\* A stored version ceases to answer for a date only by expiring, or because
\* a version that covers the date's past became active in the same step.
THEOREM OldVersionsAnswer == Spec => AnswersBeforeReplacementKept
<1>1. TypeOK /\ [Next]_vars =>
        [\A id \in Stored, d \in Date :
           EligibleAt(memories[id], d) /\ ~EligibleAt(memories'[id], d) =>
             \/ memories'[id].status = "expired"
             \/ \E by \in Ids \ {id} :
                  /\ ~HasStatus(by, "verified_active")
                  /\ HasStatus(by, "verified_active")'
                  /\ SameFamily(id, by)'
                  /\ Start(memories'[by]) <= d]_vars
  BY OldAnswersStep
<1> QED
  BY <1>1, TypeCorrect, PTL DEF Spec, AnswersBeforeReplacementKept

-----------------------------------------------------------------------------
(* Replaced versions *)

\* The two facts about a superseded version are about the same replacement,
\* so they are proved together.
Lineage == ReplacementOutranks /\ VersionsAbut

LEMMA LineageStep == TypeOK /\ Lineage /\ [Next]_vars => Lineage'
<1>0. ASSUME NEW m, NEW by, NEW other, ReplacedBy(m, by)', ReplacedBy(m, other)'
      PROVE  by = other
  BY <1>0 DEF ReplacedBy
<1> SUFFICES ASSUME TypeOK, Lineage, [Next]_vars,
                    NEW m \in Ids, HasStatus(m, "superseded")'
             PROVE  \E by \in Ids \ {m} :
                      /\ ReplacedBy(m, by)'
                      /\ IsStored(by)'
                      /\ SameFamily(m, by)'
                      /\ YieldsTo(memories'[m], memories'[by])
                      /\ memories'[by].valid_from # NoDate
                           => memories'[m].valid_to = memories'[by].valid_from - 1
  BY <1>0, Zenon DEF Lineage, ReplacementOutranks, VersionsAbut
<1>1. CASE Untouched(m)
  <2>1. HasStatus(m, "superseded") /\ memories'[m] = memories[m]
        /\ audit_events'[m] = audit_events[m]
    BY <1>1 DEF Untouched, HasStatus, IsStored
  <2>2. PICK by \in Ids \ {m} :
          /\ ReplacedBy(m, by) /\ IsStored(by) /\ SameFamily(m, by)
          /\ YieldsTo(memories[m], memories[by])
    BY <2>1 DEF Lineage, ReplacementOutranks
  <2>3. memories[by].valid_from # NoDate
          => memories[m].valid_to = memories[by].valid_from - 1
    BY <2>1, <2>2 DEF Lineage, VersionsAbut
  <2> QED
    BY <2>1, <2>2, <2>3, RowKeeps DEF ReplacedBy, LastEvent, SameFamily, YieldsTo, Start
<1>2. ASSUME NEW by \in Ids, ClosedBy(m, by)
      PROVE  /\ by # m /\ ReplacedBy(m, by)' /\ IsStored(by)' /\ SameFamily(m, by)'
             /\ YieldsTo(memories'[m], memories'[by])
             /\ memories'[by].valid_from # NoDate
                  => memories'[m].valid_to = memories'[by].valid_from - 1
  <2>1. ReplacedBy(m, by)'
    BY <1>2, ReplacedEvent DEF ReplacedBy
  <2>2. memories[m] \in MemoryRecord /\ memories'[by] \in MemoryRecord
    BY <1>2 DEF ClosedBy, IsStored, TypeOK
  <2>3. by # m /\ IsStored(by)'
    BY <1>2, <2>2, NamesAssumption DEF ClosedBy, IsStored
  <2>4. SameFamily(m, by)' /\ YieldsTo(memories'[m], memories'[by])
    BY <1>2, <2>2, ClosedKeeps DEF ClosedBy, SameFamily, YieldsTo, Start
  <2>5. ASSUME memories'[by].valid_from # NoDate
        PROVE  memories'[m].valid_to = memories'[by].valid_from - 1
    <3>1. memories[m].valid_to = NoDate \/ memories[m].valid_to >= memories'[by].valid_from
      BY <1>2, <2>5 DEF ClosedBy, IntervalsOverlap, Start, End
    <3> QED
      BY <1>2, <2>2, <2>5, <3>1 DEF ClosedBy, Closed, MemoryRecord
  <2> QED
    BY <2>1, <2>3, <2>4, <2>5
<1>3. ~Arrives(m)
  BY DEF Arrives, HasStatus
<1>4. ASSUME NEW from, Moves(m, from, {"verified_active", "rejected"}) \/ Moves(m, from, {"expired"})
      PROVE  FALSE
  BY <1>4 DEF Moves, HasStatus
<1> QED
  BY <1>1, <1>2, <1>3, <1>4, RowSteps DEF RowStep

LEMMA LineageInvariant == Spec => []Lineage
<1>1. Init => Lineage
  BY DEF Init, Lineage, ReplacementOutranks, VersionsAbut, HasStatus, IsStored
<1> QED
  BY <1>1, TypeCorrect, LineageStep, PTL DEF Spec

\* No superseded version is without a stored replacement that was entitled
\* to replace it.
THEOREM SupersessionIsEntitled == Spec => []ReplacementOutranks
<1>1. Lineage => ReplacementOutranks
  BY DEF Lineage
<1> QED
  BY <1>1, LineageInvariant, PTL

\* A version replaced by a dated one ends on the day before it starts.
THEOREM ReplacedVersionsAbut == Spec => []VersionsAbut
<1>1. Lineage => VersionsAbut
  BY DEF Lineage
<1> QED
  BY <1>1, LineageInvariant, PTL

-----------------------------------------------------------------------------
(* History *)

\* `later' begins with what `trail' holds.
Continues(trail, later) ==
  \A i \in DOMAIN trail : i \in DOMAIN later /\ later[i] = trail[i]

LEMMA ContinuesByOne ==
  ASSUME NEW trail \in Seq(AuditEvent), NEW event \in AuditEvent
  PROVE  Append(trail, event) \in Seq(AuditEvent) /\ Continues(trail, Append(trail, event))
BY DEF Continues

LEMMA ContinuesByAdmission ==
  ASSUME NEW trail \in Seq(AuditEvent), NEW record \in MemoryRecord
  PROVE  Continues(trail, AdmissionTrail(trail, record))
<1>1. /\ ScannedEvent \in AuditEvent
      /\ Event("ingested", "candidate", {}) \in AuditEvent
      /\ Event("admitted", AdmissionStatus(record), {}) \in AuditEvent
  BY EventType_, AdmissionStatusType DEF ScannedEvent, EventType, MemoryStatus
<1>2. ASSUME NEW one \in Seq(AuditEvent), NEW event \in AuditEvent, Continues(trail, one)
      PROVE  Append(one, event) \in Seq(AuditEvent) /\ Continues(trail, Append(one, event))
  BY <1>2, ContinuesByOne DEF Continues
<1>3. Continues(trail, trail)
  BY DEF Continues
<1> QED
  BY <1>1, <1>2, <1>3 DEF AdmissionTrail

LEMMA ContinuesByReview ==
  ASSUME NEW trail \in Seq(AuditEvent), NEW status \in MemoryStatus, NEW olds \in SUBSET Ids
  PROVE  Continues(trail, ReviewTrail(trail, status, olds))
<1>1. /\ Event("reviewed", status, olds) \in AuditEvent
      /\ Event("status_changed", status, {}) \in AuditEvent
  BY EventType_ DEF EventType
<1>2. /\ Append(trail, Event("reviewed", status, olds)) \in Seq(AuditEvent)
      /\ Continues(trail, Append(trail, Event("reviewed", status, olds)))
  BY <1>1, ContinuesByOne
<1>3. Continues(Append(trail, Event("reviewed", status, olds)),
                ReviewTrail(trail, status, olds))
  BY <1>1, <1>2, ContinuesByOne DEF ReviewTrail
<1> QED
  BY <1>2, <1>3 DEF Continues

\* No operation takes an event from a trail or alters one.
LEMMA HistoryContinues ==
  ASSUME TypeOK, [Next]_vars, NEW m \in Ids
  PROVE  Continues(audit_events[m], audit_events'[m])
<1>0. audit_events[m] \in Seq(AuditEvent) /\ Continues(audit_events[m], audit_events[m])
  BY DEF TypeOK, Continues
<1>1. ASSUME NEW id \in Ids, IngestBlocked(id)
      PROVE  Continues(audit_events[m], audit_events'[m])
  <2> DEFINE blocked == Event("security_blocked", "candidate", {})
  <2>1. ScannedEvent \in AuditEvent /\ blocked \in AuditEvent
    BY EventType_ DEF ScannedEvent, EventType, MemoryStatus
  <2>2. audit_events' = [audit_events EXCEPT ![id] = Append(Append(@, ScannedEvent), blocked)]
    BY <1>1 DEF IngestBlocked
  <2> HIDE DEF blocked
  <2>3. /\ Append(audit_events[m], ScannedEvent) \in Seq(AuditEvent)
        /\ Continues(audit_events[m], Append(audit_events[m], ScannedEvent))
    BY <1>0, <2>1, ContinuesByOne
  <2>4. Continues(Append(audit_events[m], ScannedEvent),
                  Append(Append(audit_events[m], ScannedEvent), blocked))
    BY <2>1, <2>3, ContinuesByOne
  <2>5. \/ audit_events'[m] = audit_events[m]
        \/ audit_events'[m] = Append(Append(audit_events[m], ScannedEvent), blocked)
    BY <2>2 DEF TypeOK
  <2> QED
    BY <1>0, <2>3, <2>4, <2>5 DEF Continues
<1>2. ASSUME NEW id \in Ids, NEW s \in Submissions, IngestFails(id, s)
      PROVE  Continues(audit_events[m], audit_events'[m])
  <2>1. \/ audit_events'[m] = audit_events[m]
        \/ audit_events'[m] = AdmissionTrail(audit_events[m], s)
    BY <1>2 DEF IngestFails, TypeOK
  <2> QED
    BY <1>0, <2>1, SubmissionsAssumption, ContinuesByAdmission
<1>3. ASSUME NEW id \in Ids, NEW base, NEW record, NEW olds, Replaces(id, base, record, olds),
             m # id
      PROVE  Continues(audit_events[m], audit_events'[m])
  <2>1. Event("superseded", "superseded", {id}) \in AuditEvent
    BY EventType_ DEF EventType, MemoryStatus
  <2>2. \/ audit_events'[m] = audit_events[m]
        \/ audit_events'[m] = Append(audit_events[m], Event("superseded", "superseded", {id}))
    BY <1>3 DEF Replaces
  <2> QED
    BY <1>0, <2>1, <2>2, ContinuesByOne
<1>4. ASSUME NEW id \in Ids, NEW s \in Submissions, Ingest(id, s)
      PROVE  Continues(audit_events[m], audit_events'[m])
  <2>1. PICK record, olds :
          /\ Replaces(id, s, record, olds)
          /\ record.status \in {"pending", "verified_active", "rejected"}
          /\ audit_events'[id] = Append(AdmissionTrail(audit_events[id], s),
                                        Event("status_changed", record.status, {}))
    BY <1>4, IngestReplaces
  <2>2. ASSUME m = id PROVE Continues(audit_events[m], audit_events'[m])
    <3>1. /\ AdmissionTrail(audit_events[m], s) \in Seq(AuditEvent)
          /\ Continues(audit_events[m], AdmissionTrail(audit_events[m], s))
      BY <1>0, SubmissionsAssumption, AdmissionTrailType, ContinuesByAdmission
    <3>2. Event("status_changed", record.status, {}) \in AuditEvent
      BY <2>1, EventType_ DEF EventType, MemoryStatus
    <3>3. Continues(AdmissionTrail(audit_events[m], s), audit_events'[m])
      BY <2>1, <2>2, <3>1, <3>2, ContinuesByOne
    <3> QED
      BY <3>1, <3>3 DEF Continues
  <2> QED
    BY <1>3, <2>1, <2>2
<1>5. ASSUME NEW id \in Ids, Reject(id)
      PROVE  Continues(audit_events[m], audit_events'[m])
  <2>1. \/ audit_events'[m] = audit_events[m]
        \/ audit_events'[m] = ReviewTrail(audit_events[m], "rejected", {})
    BY <1>5 DEF Reject, TypeOK
  <2>2. "rejected" \in MemoryStatus /\ {} \in SUBSET Ids
    BY DEF MemoryStatus
  <2> QED
    BY <1>0, <2>1, <2>2, ContinuesByReview
<1>6. ASSUME NEW id \in Ids, Approve(id)
      PROVE  Continues(audit_events[m], audit_events'[m])
  <2>1. PICK record, olds :
          /\ Replaces(id, memories[id], record, olds)
          /\ audit_events'[id] = ReviewTrail(audit_events[id], "verified_active", olds)
    BY <1>6, ApproveReplaces
  <2>2. olds \in SUBSET Ids /\ "verified_active" \in MemoryStatus
    BY <2>1, ReplacesType DEF MemoryStatus
  <2> QED
    BY <1>0, <1>3, <2>1, <2>2, ContinuesByReview
<1>7. ASSUME NEW ids \in SUBSET Stored, ExpireRows(ids)
      PROVE  Continues(audit_events[m], audit_events'[m])
  <2>1. Event("status_changed", "expired", {}) \in AuditEvent
    BY EventType_ DEF EventType, MemoryStatus
  <2>2. \/ audit_events'[m] = audit_events[m]
        \/ audit_events'[m] = Append(audit_events[m], Event("status_changed", "expired", {}))
    BY <1>7 DEF ExpireRows
  <2> QED
    BY <1>0, <2>1, <2>2, ContinuesByOne
<1>8. CASE UNCHANGED vars
  BY <1>0, <1>8 DEF vars
<1> QED
  BY <1>1, <1>2, <1>4, <1>5, <1>6, <1>7, <1>8, ExpiryShape DEF Next

=============================================================================
