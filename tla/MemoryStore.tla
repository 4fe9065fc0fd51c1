----------------------------- MODULE MemoryStore -----------------------------
(***************************************************************************)
(* The SQLite store that every operation works on: the memories table and  *)
(* the audit events, what the reads of SQLiteMemoryStore return, and the   *)
(* predicates on the two tables that several specifications share.         *)
(*                                                                         *)
(* Abstractions: the fact, its source reference, ACL and classification    *)
(* play no part in writing.  `evidence' says whether the list is nonempty; *)
(* `page_version' stands for a page's version number and content hash.     *)
(* The audit table is kept as one sequence per record id, which is how     *)
(* audit_trail(record_id) reads it.                                        *)
(***************************************************************************)
EXTENDS Governance, Sequences

CONSTANTS Ids,           \* record ids
          Tenants,
          Keys,          \* conflict keys
          Pages,         \* Confluence page ids
          NoId,          \* None for an optional record id
          NoPage,        \* the record does not come from Confluence
          NoRecord,      \* store.get found no row
          Submissions,   \* the records callers pass to ingest
          MaxTrail       \* bound: an id with a longer trail is not ingested again

MemoryRecord ==
  [tenant_id: Tenants, conflict_key: Keys, source_type: SourceType,
   authority: 0..100, valid_from: OptionalDate, valid_to: OptionalDate,
   evidence: BOOLEAN, extraction_confidence: 0..100, durable_value: 0..100,
   status: MemoryStatus, supersedes: Ids \cup {NoId},
   page_id: Pages \cup {NoPage}, page_version: Nat]

ASSUME SubmissionsAssumption ==
  \A s \in Submissions : s \in MemoryRecord /\ WellFormedWindow(s)

ASSUME NamesAssumption ==
  /\ NoRecord \notin MemoryRecord
  /\ NoId \notin Ids
  /\ NoPage \notin Pages
  /\ MaxTrail \in Nat

EventType == {"security_scanned", "security_blocked", "ingested", "admitted",
              "status_changed", "superseded", "reviewed"}

\* `status' is the status the event reports; `ids' the records its detail names.
AuditEvent ==
  [event_type: EventType, status: MemoryStatus, ids: SUBSET Ids]

VARIABLES memories,      \* the memories table
          audit_events   \* the audit trail of every record id

-----------------------------------------------------------------------------
(* The store *)

IsStored(id) == memories[id] # NoRecord

Stored == {id \in Ids : IsStored(id)}

\* Every row of a conflict key, of whatever tenant, can be rebuilt.
KeyLoads(key) ==
  \A id \in Stored : memories[id].conflict_key = key => WellFormedWindow(memories[id])

\* Wrong on purpose: only versions in force on the record's first day conflict.
ConflictsOnFirstDay(id, record) ==
  {other \in Stored \ {id} :
     /\ memories[other].conflict_key = record.conflict_key
     /\ memories[other].tenant_id = record.tenant_id
     /\ memories[other].status = "verified_active"
     /\ IsValidAt(memories[other], Start(record))}

\* by_conflict_key, and what both callers keep of it.
ActiveConflicts(id, record) ==
  {other \in Stored \ {id} :
     /\ memories[other].conflict_key = record.conflict_key
     /\ memories[other].tenant_id = record.tenant_id
     /\ memories[other].status = "verified_active"
     /\ IntervalsOverlap(memories[other], record)}

\* Wrong on purpose: a tie in authority is enough.
OutranksOrTies(record, olds) ==
  \A old \in olds : record.authority >= memories[old].authority

\* No active version it would replace is as authoritative.
Outranks(record, olds) ==
  \A old \in olds : record.authority > memories[old].authority

\* What approval demands of a record that would replace `olds'.
CanApprove(record, olds) ==
  /\ record.evidence
  /\ KeyLoads(record.conflict_key)
  /\ olds = {} \/ record.valid_from # NoDate
  /\ Outranks(record, olds)
  /\ ~ClosingOverflows(record, olds)

Versions(ids) == {memories[id] : id \in ids}

Event(type, status, ids) == [event_type |-> type, status |-> status, ids |-> ids]

ScannedEvent == Event("security_scanned", "candidate", {})

\* What ingest has logged by the time it looks for conflicts.
AdmissionTrail(trail, record) ==
  Append(Append(Append(trail, ScannedEvent), Event("ingested", "candidate", {})),
         Event("admitted", AdmissionStatus(record), {}))

\* Wrong on purpose: the second event is built before the status changes.
ReviewTrailTooEarly(trail, status, olds) ==
  Append(Append(trail, Event("reviewed", status, olds)), Event("status_changed", "pending", {}))

\* What review logs after it has saved the record.
ReviewTrail(trail, status, olds) ==
  Append(Append(trail, Event("reviewed", status, olds)), Event("status_changed", status, {}))

\* The rows _expire_records considers.
RowsOfPage(tenant, page, statuses) ==
  {id \in Stored : /\ memories[id].page_id = page
                   /\ memories[id].tenant_id = tenant
                   /\ memories[id].status \in statuses}

PageVersions == {s.page_version : s \in Submissions}

-----------------------------------------------------------------------------
(* Predicates *)

\* The shape of both tables.
TypeOK ==
  /\ memories \in [Ids -> MemoryRecord \cup {NoRecord}]
  /\ audit_events \in [Ids -> Seq(AuditEvent)]

SameFamily(a, b) ==
  /\ memories[a].tenant_id = memories[b].tenant_id
  /\ memories[a].conflict_key = memories[b].conflict_key

HasStatus(id, status) == IsStored(id) /\ memories[id].status = status

LastEvent(id) == audit_events[id][Len(audit_events[id])]

\* The record that replaced a superseded one, as its last event names it.
ReplacedBy(id, by) ==
  /\ audit_events[id] # <<>>
  /\ LastEvent(id).event_type = "superseded"
  /\ LastEvent(id).ids = {by}

WasReviewed(id) ==
  \E i \in DOMAIN audit_events[id] :
    /\ audit_events[id][i].event_type = "reviewed"
    /\ audit_events[id][i].status = "verified_active"

\* Two active versions of one tenant and conflict key never cover the same
\* date, whatever order ingests, approvals and expiries came in
\* (ConflictResolver.decide and the checks of review).
NoActiveOverlap ==
  \A a, b \in Ids :
    a # b /\ HasStatus(a, "verified_active") /\ HasStatus(b, "verified_active")
    /\ SameFamily(a, b)
      => ~IntervalsOverlap(memories[a], memories[b])

=============================================================================
