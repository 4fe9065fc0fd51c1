-------------------------- MODULE MemoryStore_proofs --------------------------
(***************************************************************************)
(* What the operators over the two tables return, preserve and ignore: the *)
(* lemmas that the proofs about indivisible and about interleaved          *)
(* operations share.                                                       *)
(***************************************************************************)
EXTENDS MemoryStore, TLAPS

-----------------------------------------------------------------------------
(* The operators the operations are built from *)

\* Closing a version keeps it a record, when the day before exists.
LEMMA ClosedType ==
  ASSUME NEW old \in MemoryRecord, NEW record \in MemoryRecord,
         record.valid_from # MinDate
  PROVE  Closed(old, record) \in MemoryRecord
<1> DEFINE end == IF record.valid_from # NoDate
                     /\ (old.valid_to = NoDate \/ old.valid_to >= record.valid_from)
                  THEN record.valid_from - 1 ELSE old.valid_to
<1>1. end \in OptionalDate
  <2>1. record.valid_from \in OptionalDate /\ old.valid_to \in OptionalDate
    BY DEF MemoryRecord
  <2> QED
    BY <2>1, DatesAssumption DEF OptionalDate, Date
<1>2. "superseded" \in MemoryStatus
  BY DEF MemoryStatus
<1>3. Closed(old, record) = [old EXCEPT !.status = "superseded", !.valid_to = end]
  BY DEF Closed
<1> HIDE DEF end
<1> QED
  BY <1>1, <1>2, <1>3, ZenonT(60) DEF MemoryRecord

\* Closing changes the status and the end of the window, nothing else.
LEMMA ClosedKeeps ==
  ASSUME NEW old \in MemoryRecord, NEW record \in MemoryRecord
  PROVE  /\ Closed(old, record).status = "superseded"
         /\ Closed(old, record).tenant_id = old.tenant_id
         /\ Closed(old, record).conflict_key = old.conflict_key
         /\ Closed(old, record).authority = old.authority
         /\ Closed(old, record).source_type = old.source_type
         /\ Closed(old, record).valid_from = old.valid_from
BY DEF Closed, MemoryRecord

LEMMA AdmissionStatusType ==
  ASSUME NEW record \in MemoryRecord
  PROVE  AdmissionStatus(record) \in {"pending", "verified_active", "rejected"}
BY DEF AdmissionStatus, SOURCE_MINIMUMS, SourceMinimum, MemoryRecord, SourceType

LEMMA ResolvedStatusType ==
  ASSUME NEW record \in MemoryRecord, NEW active
  PROVE  ResolvedStatus(record, AdmissionStatus(record), active)
           \in {"pending", "verified_active", "rejected"}
BY AdmissionStatusType DEF ResolvedStatus

\* A submitted record becomes active over its conflicts only if each of them
\* yields to it.
LEMMA ResolvedActive ==
  ASSUME NEW record, NEW admitted, NEW active,
         ResolvedStatus(record, admitted, active) = "verified_active"
  PROVE  \A old \in active : YieldsTo(old, record)
BY DEF ResolvedStatus

\* No conflict makes a record active that admission did not, and admission
\* asks for evidence.
LEMMA ActiveIsAdmitted ==
  ASSUME NEW record \in MemoryRecord, NEW active,
         ResolvedStatus(record, AdmissionStatus(record), active) = "verified_active"
  PROVE  AdmissionStatus(record) = "verified_active"
BY DEF ResolvedStatus

LEMMA AdmittedHasEvidence ==
  ASSUME NEW record \in MemoryRecord, AdmissionStatus(record) = "verified_active"
  PROVE  record.evidence
BY DEF AdmissionStatus

\* Admission looks at nothing an operation changes.
LEMMA AdmissionIgnores ==
  ASSUME NEW record \in MemoryRecord, NEW other \in MemoryRecord,
         other = [record EXCEPT !.status = other.status, !.valid_to = other.valid_to,
                                !.supersedes = other.supersedes]
  PROVE  /\ AdmissionStatus(other) = AdmissionStatus(record)
         /\ other.evidence = record.evidence
<1>1. /\ other.source_type = record.source_type /\ other.evidence = record.evidence
      /\ other.extraction_confidence = record.extraction_confidence
      /\ other.durable_value = record.durable_value
  BY DEF MemoryRecord
<1> QED
  BY <1>1 DEF AdmissionStatus

-----------------------------------------------------------------------------
(* Audit events *)

LEMMA EventType_ ==
  ASSUME NEW type \in EventType, NEW status \in MemoryStatus, NEW ids \in SUBSET Ids
  PROVE  Event(type, status, ids) \in AuditEvent
BY DEF Event, AuditEvent

LEMMA AdmissionTrailType ==
  ASSUME NEW trail \in Seq(AuditEvent), NEW record \in MemoryRecord
  PROVE  AdmissionTrail(trail, record) \in Seq(AuditEvent)
<1>1. ScannedEvent \in AuditEvent
  BY EventType_ DEF ScannedEvent, EventType, MemoryStatus
<1>2. Event("ingested", "candidate", {}) \in AuditEvent
  BY EventType_ DEF EventType, MemoryStatus
<1>3. Event("admitted", AdmissionStatus(record), {}) \in AuditEvent
  BY EventType_, AdmissionStatusType DEF EventType, MemoryStatus
<1> QED
  BY <1>1, <1>2, <1>3 DEF AdmissionTrail

LEMMA ReviewTrailType ==
  ASSUME NEW trail \in Seq(AuditEvent), NEW status \in MemoryStatus,
         NEW olds \in SUBSET Ids
  PROVE  ReviewTrail(trail, status, olds) \in Seq(AuditEvent)
<1>1. Event("reviewed", status, olds) \in AuditEvent
  BY EventType_ DEF EventType
<1>2. Event("status_changed", status, {}) \in AuditEvent
  BY EventType_ DEF EventType
<1> QED
  BY <1>1, <1>2 DEF ReviewTrail

-----------------------------------------------------------------------------
(* Conflicts *)

\* The conflicts of a record are stored rows other than its own.
LEMMA ConflictsStored ==
  ASSUME TypeOK, NEW id, NEW record,
         NEW m \in ActiveConflicts(id, record)
  PROVE  /\ m \in Ids \ {id}
         /\ memories[m] \in MemoryRecord
         /\ memories[m].status = "verified_active"
         /\ memories[m].tenant_id = record.tenant_id
         /\ memories[m].conflict_key = record.conflict_key
         /\ IntervalsOverlap(memories[m], record)
BY DEF TypeOK, ActiveConflicts, Stored, IsStored

\* A closed window still covers the dates before the replacement starts.
LEMMA ClosedStaysEligible ==
  ASSUME NEW old \in MemoryRecord, NEW record \in MemoryRecord, NEW d \in Date,
         EligibleAt(old, d), ~EligibleAt(Closed(old, record), d)
  PROVE  Start(record) <= d
<1> DEFINE closed == Closed(old, record)
<1>1. /\ record.valid_from \in OptionalDate /\ old.valid_to \in OptionalDate
      /\ MinDate \in Int /\ MaxDate \in Int /\ d \in Int /\ MinDate <= d /\ d <= MaxDate
      /\ NoDate \notin Int
  BY DatesAssumption DEF MemoryRecord, Date, OptionalDate
<1>2. /\ closed.status = "superseded" /\ closed.valid_from = old.valid_from
      /\ closed.valid_to = IF record.valid_from # NoDate
                              /\ (old.valid_to = NoDate \/ old.valid_to >= record.valid_from)
                           THEN record.valid_from - 1 ELSE old.valid_to
  BY DEF Closed, MemoryRecord
<1> HIDE DEF closed
<1>3. Start(closed) = Start(old) /\ Start(old) <= d /\ d <= End(old)
  <2>1. d \in Start(old) .. End(old)
    BY DEF EligibleAt, IsValidAt
  <2>2. Start(old) \in Int /\ End(old) \in Int
    BY <1>1, DatesAssumption DEF Start, End, MemoryRecord, OptionalDate, Date
  <2> QED
    BY <1>1, <1>2, <2>1, <2>2 DEF Start
<1>4. CASE record.valid_from = NoDate
  BY <1>1, <1>4 DEF Start
<1>5. CASE /\ record.valid_from # NoDate
           /\ old.valid_to = NoDate \/ old.valid_to >= record.valid_from
  <2>1. record.valid_from \in Int /\ closed.valid_to = record.valid_from - 1
    BY <1>1, <1>2, <1>5 DEF OptionalDate, Date
  <2>2. closed.valid_to # NoDate
    BY <1>1, <2>1
  <2>3. End(closed) = record.valid_from - 1
    BY <2>1, <2>2 DEF End
  <2>4. ~IsValidAt(closed, d)
    BY <1>2, <2>2 DEF EligibleAt, closed
  <2>5. Start(old) \in Int
    BY <1>1 DEF Start, MemoryRecord, OptionalDate, Date
  <2>6. d > record.valid_from - 1
    BY <1>1, <1>3, <2>1, <2>3, <2>4, <2>5 DEF IsValidAt
  <2> QED
    BY <1>1, <1>5, <2>1, <2>6 DEF Start
<1>6. CASE /\ record.valid_from # NoDate
           /\ ~(old.valid_to = NoDate \/ old.valid_to >= record.valid_from)
  <2>1. closed.valid_to = old.valid_to /\ old.valid_to # NoDate
    BY <1>2, <1>6
  <2>2. Start(closed) = Start(old) /\ End(closed) = End(old)
    BY <1>3, <2>1 DEF End
  <2>3. EligibleAt(closed, d)
    BY <1>2, <2>1, <2>2 DEF EligibleAt, IsValidAt
  <2> QED
    BY <2>3 DEF closed
<1> QED
  BY <1>4, <1>5, <1>6

=============================================================================
