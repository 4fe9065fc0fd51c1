---------------------------- MODULE MemoryService ----------------------------
(***************************************************************************)
(* The governed memory: TARCSMemoryService.ingest and review, and the      *)
(* expiry that the Confluence connector applies to the same rows, each     *)
(* taken as one indivisible operation.  It is what a caller may assume     *)
(* while operations on one conflict key do not overlap and the process     *)
(* does not stop inside one; ConcurrentService has the store calls.        *)
(***************************************************************************)
EXTENDS MemoryStore

vars == <<memories, audit_events>>

\* Save `record' under `id' after closing the versions it replaces.
SaveReplacing(id, record, olds) ==
  memories' = [m \in Ids |-> IF m = id THEN record
                             ELSE IF m \in olds THEN Closed(memories[m], record)
                             ELSE memories[m]]

-----------------------------------------------------------------------------
(* ingest *)

\* The security gate refuses the record: two events, no row.
IngestBlocked(id) ==
  /\ ~IsStored(id)
  /\ Len(audit_events[id]) < MaxTrail
  /\ audit_events' = [audit_events EXCEPT
       ![id] = Append(Append(@, ScannedEvent), Event("security_blocked", "candidate", {}))]
  /\ UNCHANGED memories

\* ingest raises while it resolves conflicts: a row of the key cannot be
\* rebuilt, or the day before the replacement's start does not exist.
IngestFails(id, record) ==
  /\ ~IsStored(id)
  /\ Len(audit_events[id]) < MaxTrail
  /\ \/ ~KeyLoads(record.conflict_key)
     \/ LET active == ActiveConflicts(id, record) IN
        /\ ResolvedStatus(record, AdmissionStatus(record), Versions(active)) = "verified_active"
        /\ ClosingOverflows(record, active)
  /\ audit_events' = [audit_events EXCEPT ![id] = AdmissionTrail(@, record)]
  /\ UNCHANGED memories

\* The order in which the query returns the replaced rows decides which of
\* them `supersedes' ends up naming.
Ingest(id, record) ==
  LET active == ActiveConflicts(id, record)
      status == ResolvedStatus(record, AdmissionStatus(record), Versions(active))
      olds   == IF status = "verified_active" THEN active ELSE {}
  IN
  /\ ~IsStored(id)
  /\ KeyLoads(record.conflict_key)
  /\ ~ClosingOverflows(record, olds)
  /\ \E last \in IF olds = {} THEN {record.supersedes} ELSE olds :
       SaveReplacing(id, [record EXCEPT !.status = status, !.supersedes = last], olds)
  /\ audit_events' = [m \in Ids |->
       IF m = id THEN Append(AdmissionTrail(audit_events[m], record),
                             Event("status_changed", status, {}))
       ELSE IF m \in olds THEN Append(audit_events[m], Event("superseded", "superseded", {id}))
       ELSE audit_events[m]]

-----------------------------------------------------------------------------
(* review *)

\* Wrong on purpose: a decided record can be decided again.
CanReviewAgain(id) == IsStored(id) /\ WellFormedWindow(memories[id])

CanReview(id) ==
  /\ IsStored(id)
  /\ WellFormedWindow(memories[id])
  /\ memories[id].status = "pending"

Reject(id) ==
  /\ CanReview(id)
  /\ memories' = [memories EXCEPT ![id].status = "rejected"]
  /\ audit_events' = [audit_events EXCEPT ![id] = ReviewTrail(@, "rejected", {})]

Approve(id) ==
  LET record == memories[id]
      olds   == ActiveConflicts(id, record)
  IN
  /\ CanReview(id)
  /\ CanApprove(record, olds)
  /\ \E first \in IF olds = {} THEN {record.supersedes} ELSE olds :
       SaveReplacing(id, [record EXCEPT !.status = "verified_active", !.supersedes = first],
                     olds)
  /\ audit_events' = [m \in Ids |->
       IF m = id THEN ReviewTrail(audit_events[m], "verified_active", olds)
       ELSE IF m \in olds THEN Append(audit_events[m], Event("superseded", "superseded", {id}))
       ELSE audit_events[m]]

-----------------------------------------------------------------------------
(* expiry by the Confluence connector *)

ExpireRows(ids) ==
  /\ ids # {}
  /\ \A id \in Stored : WellFormedWindow(memories[id])
  /\ memories' = [m \in Ids |->
       IF m \in ids THEN [memories[m] EXCEPT !.status = "expired"] ELSE memories[m]]
  /\ audit_events' = [m \in Ids |->
       IF m \in ids THEN Append(audit_events[m], Event("status_changed", "expired", {}))
       ELSE audit_events[m]]

\* A page was replaced by `version': the pending chunks of others expire.
ExpireReplaced(tenant, page, version) ==
  ExpireRows({id \in RowsOfPage(tenant, page, {"pending"}) :
                memories[id].page_version # version})

\* Pages are confirmed missing: their active chunks expire as well.
ExpireMissing(tenant, pages) ==
  ExpireRows(UNION {RowsOfPage(tenant, p, {"pending", "verified_active"}) : p \in pages})

-----------------------------------------------------------------------------

Init ==
  /\ memories = [id \in Ids |-> NoRecord]
  /\ audit_events = [id \in Ids |-> <<>>]

Next ==
  \/ \E id \in Ids : IngestBlocked(id)
  \/ \E id \in Ids, s \in Submissions : IngestFails(id, s)
  \/ \E id \in Ids, s \in Submissions : Ingest(id, s)
  \/ \E id \in Ids : Reject(id)
  \/ \E id \in Ids : Approve(id)
  \/ \E t \in Tenants, p \in Pages, v \in PageVersions : ExpireReplaced(t, p, v)
  \/ \E t \in Tenants, gone \in SUBSET Pages : ExpireMissing(t, gone)

Spec == Init /\ [][Next]_vars

-----------------------------------------------------------------------------
(* Properties *)

\* The trail of a stored record ends with the event that reports the status
\* the record has now: a reader of audit_trail sees the projection.
TrailTellsStatus ==
  \A id \in Stored :
    audit_events[id] # <<>> /\ LastEvent(id).status = memories[id].status

\* A superseded version names exactly one replacement, which is a stored
\* record of the same tenant and key that was entitled to replace it: more
\* authority, or an official policy of equal authority that starts no earlier.
ReplacementOutranks ==
  \A id \in Ids : HasStatus(id, "superseded") =>
    \E by \in Ids \ {id} :
      /\ ReplacedBy(id, by)
      /\ IsStored(by)
      /\ SameFamily(id, by)
      /\ YieldsTo(memories[id], memories[by])

\* A version replaced by a dated one ends on the day before it starts: the
\* two windows neither overlap nor leave a day between them unanswered.
VersionsAbut ==
  \A id, by \in Ids :
    HasStatus(id, "superseded") /\ ReplacedBy(id, by) /\ memories[by].valid_from # NoDate
      => memories[id].valid_to = memories[by].valid_from - 1

\* A source that needs confirmation, or a record without evidence, is (or
\* was, before it was replaced) active only if a reviewer approved it, and
\* no record without evidence ever is.
ActivationIsEarned ==
  \A id \in Ids :
    HasStatus(id, "verified_active") \/ HasStatus(id, "superseded") =>
      /\ memories[id].evidence
      /\ AdmissionStatus(memories[id]) # "verified_active" => WasReviewed(id)

\* A version that was rejected, superseded or expired stays what it is, and
\* no operation changes anything of a stored record but its status, the end
\* of its window and the version it supersedes.
FinalStaysFinal ==
  [][\A id \in Stored :
       /\ memories'[id] = [memories[id] EXCEPT !.status = memories'[id].status,
                                               !.valid_to = memories'[id].valid_to,
                                               !.supersedes = memories'[id].supersedes]
       /\ memories[id].status \in {"rejected", "superseded", "expired"}
            => memories'[id] = memories[id]]_vars

\* "The old version must remain answerable for a business date before the
\* replacement took effect" (ingest): a stored version stops being evidence
\* for a date only because it expired, or because a version that covers the
\* time from some day on, up to that date at least, became active.
AnswersBeforeReplacementKept ==
  [][\A id \in Stored, d \in Date :
       EligibleAt(memories[id], d) /\ ~EligibleAt(memories'[id], d) =>
         \/ memories'[id].status = "expired"
         \/ \E by \in Ids \ {id} :
              /\ ~HasStatus(by, "verified_active")
              /\ HasStatus(by, "verified_active")'
              /\ SameFamily(id, by)'
              /\ Start(memories'[by]) <= d]_vars

(* What the sources say, and the code does not do *)

\* Every stored row satisfies the rule its own constructor asserts: "valid_to
\* cannot precede valid_from" (models.py).
EveryRowLoads == \A id \in Stored : WellFormedWindow(memories[id])

\* "model inference cannot become fact memory" (governance.py).
InferenceNeverActive ==
  \A id \in Stored :
    memories[id].source_type = "model_inference" => memories[id].status # "verified_active"

=============================================================================
