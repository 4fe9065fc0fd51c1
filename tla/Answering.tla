------------------------------ MODULE Answering ------------------------------
(***************************************************************************)
(* GuardRead: a question is answered from rows of the governed memory,     *)
(* between the store calls of the ingests, reviews and expiries that go on *)
(* (ConcurrentService).  query() reads every row at once; chat() reads the *)
(* rows a vector index names one at a time, then puts the evidence to a    *)
(* model whose citations it verifies.  Each call of append_event on the    *)
(* way is a step of its own, and the request may end with an exception     *)
(* before any of them.                                                     *)
(*                                                                         *)
(* Abstractions: relevance, scores, budget and the order of ranking are a  *)
(* free choice among the eligible rows; the vector index (external) names  *)
(* any rows; a source reference stands for its record id.  A record's      *)
(* roles and classification never change, so they are functions of its id. *)
(***************************************************************************)
EXTENDS ConcurrentService, FiniteSets

CONSTANTS Answers,                  \* answer ids, one for every request
          Questions,                \* what is asked, by whom, of what deployment
          allowed_roles,            \* of every record id
          classification,
          allowed_classifications,  \* what may be sent to a cloud model
          retrieval_limit,
          NoAccess,
          Invented                  \* a source that is no record's

ASSUME AnsweringAssumption ==
  /\ \A q \in Questions : q.as_of \in Date /\ q.access.tenant_id \in Tenants
  /\ DOMAIN allowed_roles = Ids
  /\ DOMAIN classification = Ids
  /\ retrieval_limit \in Nat \ {0}
  /\ Invented \notin Ids

VARIABLES requests,      \* what is done for every answer
          answer_events  \* the audit trail of every answer id

answerVars == <<vars, requests, answer_events>>

\* `outcome' is the outcome the detail gives, if any; `ids' the approved ones
\* among the evidence.
AnswerEvent ==
  [event_type: {"query", "evidence_pack_created", "answer_finalized", "cloud_egress",
                "generation_verified"},
   outcome: {"none", "answered", "abstained", "blocked", "allowed", "missing",
             "unsupported", "passed"},
   ids: SUBSET Ids]

NoRows == [id \in {} |-> NoRecord]

NoQuestion ==
  [chat |-> FALSE, cloud |-> FALSE, require_citations |-> FALSE,
   as_of |-> NoDate, access |-> NoAccess]

NoRequest ==
  [pc |-> "new", question |-> NoQuestion, candidates |-> NoRows, evidence |-> NoRows,
   cited |-> {}, told |-> "nothing"]

GoesTo(a, pc) == requests' = [requests EXCEPT ![a].pc = pc]

\* One append_event call for an answer.
LogsAnswer(a, type, outcome, ids) ==
  answer_events' = [answer_events EXCEPT ![a] =
    Append(@, [event_type |-> type, outcome |-> outcome, ids |-> ids])]

-----------------------------------------------------------------------------
(* Eligibility *)

\* record_access_denial returns no reason.
AccessAllowed(id, record, access) ==
  /\ record.tenant_id = access.tenant_id
  /\ classification[id] = "restricted" => allowed_roles[id] # {}
  /\ allowed_roles[id] # {} => allowed_roles[id] \cap access.roles # {}

\* The ids of `rows' that the hard filter lets an answer use.
Filtered(rows, question) ==
  {id \in DOMAIN rows :
     /\ AccessAllowed(id, rows[id], question.access)
     /\ EligibleAt(rows[id], question.as_of)}

OnlyRows(rows, ids) == [id \in ids |-> rows[id]]

-----------------------------------------------------------------------------
(* Finding candidates *)

Ask(a, question) ==
  /\ requests[a] = NoRequest
  /\ requests' = [requests EXCEPT
       ![a].pc = IF question.chat THEN "search" ELSE "list",
       ![a].question = question]
  /\ UNCHANGED <<vars, answer_events>>

\* store.get of a row the index names.
GetCandidate(a, id) ==
  /\ requests[a].pc = "search"
  /\ IsStored(id)
  /\ id \notin DOMAIN requests[a].candidates
  /\ WellFormedWindow(memories[id])
  /\ requests' = [requests EXCEPT ![a].candidates =
       [m \in DOMAIN @ \cup {id} |-> IF m = id THEN memories[id] ELSE @[m]]]
  /\ UNCHANGED <<vars, answer_events>>

\* The index names no more: all rows are read too if few may be used.
EndSearch(a) ==
  /\ requests[a].pc = "search"
  /\ LET found == Filtered(requests[a].candidates, requests[a].question) IN
     requests' = [requests EXCEPT
       ![a].pc = IF Cardinality(found) < retrieval_limit THEN "list" ELSE "rank",
       ![a].candidates = OnlyRows(@, found)]
  /\ UNCHANGED <<vars, answer_events>>

\* list_all; a row that was read before keeps the copy read then.
ListAll(a) ==
  /\ requests[a].pc = "list"
  /\ \A id \in Stored : WellFormedWindow(memories[id])
  /\ requests' = [requests EXCEPT
       ![a].pc = "rank",
       ![a].candidates = [m \in DOMAIN @ \cup Stored |->
                            IF m \in DOMAIN @ THEN @[m] ELSE memories[m]]]
  /\ UNCHANGED <<vars, answer_events>>

-----------------------------------------------------------------------------
(* query_records *)

\* Wrong on purpose: whatever was found is selected.
AnySelection(r) == SUBSET Filtered(r.candidates, r.question)

\* What rank, relevant_candidates and select may leave: at most one record
\* of a conflict key, and for a chat no more than were retrieved.
Selections(r) ==
  {ids \in SUBSET Filtered(r.candidates, r.question) :
     /\ \A m, n \in ids : m # n => r.candidates[m].conflict_key # r.candidates[n].conflict_key
     /\ r.question.chat => Cardinality(ids) <= retrieval_limit}

LogQuery(a) ==
  /\ requests[a].pc = "rank"
  /\ \E ids \in Selections(requests[a]) :
       requests' = [requests EXCEPT ![a].pc = "log_evidence",
                                    ![a].evidence = OnlyRows(requests[a].candidates, ids),
                                    ![a].candidates = NoRows]
  /\ LogsAnswer(a, "query", "none", {})
  /\ UNCHANGED vars

\* Wrong on purpose: the other half of the history.
ApprovedByWrites(id) ==
  \E i \in DOMAIN audit_events[id] : audit_events[id][i].event_type = "superseded"

\* The lineage of the record lists an approval event.
HasApproval(id) ==
  \E i \in DOMAIN audit_events[id] : audit_events[id][i].event_type = "reviewed"

\* The histories of the selected records are read and become part of the
\* event: here the ids of those that have approval events. The step is at the
\* reads; what is logged between them and the append is not in the pack.
LogEvidence(a) ==
  /\ requests[a].pc = "log_evidence"
  /\ GoesTo(a, "log_retrieval")
  /\ LogsAnswer(a, "evidence_pack_created", "none",
                {id \in DOMAIN requests[a].evidence : HasApproval(id)})
  /\ UNCHANGED vars

\* query_records returns; a chat with evidence goes on.
LogRetrieval(a) ==
  LET r == requests[a]
      outcome == IF r.evidence = NoRows THEN "abstained" ELSE "answered" IN
  /\ r.pc = "log_retrieval"
  /\ LogsAnswer(a, "answer_finalized", outcome, {})
  /\ requests' = [requests EXCEPT ![a] =
       IF r.question.chat /\ outcome = "answered"
       THEN [r EXCEPT !.pc = IF r.question.cloud THEN "egress" ELSE "generate"]
       ELSE [r EXCEPT !.pc = "done", !.told = outcome]]
  /\ UNCHANGED vars

-----------------------------------------------------------------------------
(* chat *)

\* Wrong on purpose: only the highest class is kept back.
BlockedRestricted(r) == \E id \in DOMAIN r.evidence : classification[id] = "restricted"

Blocked(r) ==
  \E id \in DOMAIN r.evidence : classification[id] \notin allowed_classifications

LogEgress(a) ==
  /\ requests[a].pc = "egress"
  /\ IF Blocked(requests[a])
     THEN GoesTo(a, "withhold") /\ LogsAnswer(a, "cloud_egress", "blocked", {})
     ELSE GoesTo(a, "generate") /\ LogsAnswer(a, "cloud_egress", "allowed", {})
  /\ UNCHANGED vars

\* The model answers, citing what it likes.
Generate(a, cited) ==
  /\ requests[a].pc = "generate"
  /\ requests' = [requests EXCEPT
       ![a].pc = IF requests[a].question.require_citations THEN "verify" ELSE "finalize",
       ![a].cited = cited]
  /\ UNCHANGED <<vars, answer_events>>

\* Wrong on purpose: one true citation vouches for the others.
VerdictOfSome(r) ==
  IF r.cited = {} THEN "missing"
  ELSE IF r.cited \cap DOMAIN r.evidence = {} THEN "unsupported" ELSE "passed"

Verdict(r) ==
  IF r.cited = {} THEN "missing"
  ELSE IF r.cited \subseteq DOMAIN r.evidence THEN "passed" ELSE "unsupported"

LogVerified(a) ==
  LET verdict == Verdict(requests[a]) IN
  /\ requests[a].pc = "verify"
  /\ LogsAnswer(a, "generation_verified", verdict, {})
  /\ GoesTo(a, IF verdict = "passed" THEN "finalize" ELSE "withhold")
  /\ UNCHANGED vars

\* The caller is told an abstention, after the egress gate or the citations.
Withhold(a) ==
  /\ requests[a].pc = "withhold"
  /\ LogsAnswer(a, "answer_finalized", "abstained", {})
  /\ requests' = [requests EXCEPT ![a].pc = "done", ![a].told = "abstained"]
  /\ UNCHANGED vars

FinalizeAnswer(a) ==
  /\ requests[a].pc = "finalize"
  /\ LogsAnswer(a, "answer_finalized", "answered", {})
  /\ requests' = [requests EXCEPT ![a].pc = "done", ![a].told = "answered"]
  /\ UNCHANGED vars

\* A row cannot be rebuilt, the model or the index fails, the process stops.
Raise(a) ==
  /\ requests[a].pc \notin {"new", "done", "raised"}
  /\ GoesTo(a, "raised")
  /\ UNCHANGED <<vars, answer_events>>

-----------------------------------------------------------------------------

AnswerInit ==
  /\ Init
  /\ requests = [a \in Answers |-> NoRequest]
  /\ answer_events = [a \in Answers |-> <<>>]

Govern == Next /\ UNCHANGED <<requests, answer_events>>

\* A citation of a record outside the pack counts as invented.
Answer(a) ==
  \/ \E question \in Questions : Ask(a, question)
  \/ \E id \in Ids : GetCandidate(a, id)
  \/ EndSearch(a) \/ ListAll(a)
  \/ LogQuery(a) \/ LogEvidence(a) \/ LogRetrieval(a)
  \/ LogEgress(a)
  \/ \E cited \in SUBSET (DOMAIN requests[a].evidence \cup {Invented}) : Generate(a, cited)
  \/ LogVerified(a) \/ Withhold(a) \/ FinalizeAnswer(a)
  \/ Raise(a)

AnswerNext == Govern \/ \E a \in Answers : Answer(a)

AnswerSpec == AnswerInit /\ [][AnswerNext]_answerVars

-----------------------------------------------------------------------------
(* Reading the trail of an answer *)

Logged(a, type, outcome) ==
  \E i \in DOMAIN answer_events[a] :
    answer_events[a][i].event_type = type /\ answer_events[a][i].outcome = outcome

IsFinalized(a, i) == answer_events[a][i].event_type = "answer_finalized"

Finalizations(a) == {i \in DOMAIN answer_events[a] : IsFinalized(a, i)}

\* Wrong on purpose: the first finalisation is reported.
FirstOutcome(a) ==
  answer_events[a][CHOOSE i \in Finalizations(a) : \A j \in Finalizations(a) : i <= j].outcome

\* The outcome get_answer_audit_trail reports: the latest finalisation's.
ReportedOutcome(a) ==
  answer_events[a][CHOOSE i \in Finalizations(a) : \A j \in Finalizations(a) : j <= i].outcome

\* get_answer_audit_trail finds the trail and shows it to a caller: the
\* evidence is judged by the rows of today at the business date of then.
Readable(a, access) ==
  /\ Logged(a, "query", "none")
  /\ Logged(a, "evidence_pack_created", "none")
  /\ Finalizations(a) # {}
  /\ requests[a].question.access.tenant_id = access.tenant_id
  /\ \A id \in DOMAIN requests[a].evidence :
       /\ IsStored(id)
       /\ WellFormedWindow(memories[id])
       /\ AccessAllowed(id, memories[id], access)
       /\ EligibleAt(memories[id], requests[a].question.as_of)

-----------------------------------------------------------------------------
(* Properties *)

\* The shape of requests and trails.  A chat's model is given no more
\* evidence than the retrieval limit, and no two versions of a conflict key,
\* even if one replaced the other while they were being read.
AnswerTypeOK ==
  \A a \in Answers :
    LET r == requests[a] IN
    /\ r.told \in {"nothing", "abstained", "answered"}
    /\ DOMAIN r.evidence \subseteq Stored
    /\ r.question.chat => Cardinality(DOMAIN r.evidence) <= retrieval_limit
    /\ \A m, n \in DOMAIN r.evidence :
         m # n => r.evidence[m].conflict_key # r.evidence[n].conflict_key
    /\ answer_events[a] \in Seq(AnswerEvent)
    /\ Len(answer_events[a]) <= 6

\* Whoever reads the trail of an answer that was returned sees the outcome
\* its caller was told, whatever later phase withheld it.
OutcomeIsTold ==
  \A a \in Answers :
    requests[a].pc = "done" =>
      Finalizations(a) # {} /\ ReportedOutcome(a) = requests[a].told

\* No evidence has reached a cloud model unless each piece of it was the
\* caller's to read and of a class that may leave, and the trail of the
\* answer already said so.
WhatLeavesIsOnRecord ==
  \A a \in Answers :
    LET r == requests[a] IN
    r.question.cloud /\ r.pc \in {"generate", "verify", "finalize"} =>
      /\ Logged(a, "cloud_egress", "allowed")
      /\ Logged(a, "evidence_pack_created", "none")
      /\ \A id \in DOMAIN r.evidence :
           /\ classification[id] \in allowed_classifications
           /\ memories[id].tenant_id = r.question.access.tenant_id
           /\ allowed_roles[id] = {} \/ allowed_roles[id] \cap r.question.access.roles # {}

\* A caller who is told a generated answer that must cite is told one whose
\* sources are all evidence of its own pack, and the trail says it passed.
AnswersAreVerified ==
  \A a \in Answers :
    LET r == requests[a] IN
    r.question.chat /\ r.question.require_citations /\ r.told = "answered" =>
      /\ r.cited # {}
      /\ r.cited \subseteq DOMAIN r.evidence
      /\ Logged(a, "generation_verified", "passed")

\* The trail of the answer gets its pack.
PackWritten(a) == requests[a].pc = "log_evidence" /\ requests'[a].pc = "log_retrieval"

\* Evidence that admission would not have activated by itself is listed in
\* the pack with the approval that did, although the row is read before the
\* history: unless, when its history is read, its review has still to be
\* logged or was cut short before.
EvidenceIsTraceable ==
  [][\A a \in Answers : PackWritten(a) =>
       \A id \in DOMAIN requests[a].evidence :
         \/ AdmissionStatus(requests[a].evidence[id]) = "verified_active"
         \/ id \in answer_events'[a][Len(answer_events'[a])].ids
         \/ \E w \in Workers : Approving(job[w], id)
         \/ id \in unlogged]_answerVars

\* A worker is about to close the version `id' in favour of one that covers
\* the time from `date' or before.
ClosedFor(w, id, date) ==
  LET j == job[w] IN
  /\ j.pc = "save_old" /\ j.old = id
  /\ j.op \in {"ingest", "approve"}
  /\ memories[id].tenant_id = j.record.tenant_id
  /\ memories[id].conflict_key = j.record.conflict_key
  /\ Start(j.record) <= date

\* A worker is about to save `id' over what another has written since it
\* read the row.
Overwrites(w, id) ==
  LET j == job[w] IN
  \/ j.pc = "save_old" /\ j.old = id /\ j.todo[id] # memories[id]
  \/ j.pc = "save" /\ j.id = id /\ j.op \in {"approve", "reject"} /\ memories[id].status # "pending"

\* A trail somebody could read stays readable to him until a piece of its
\* evidence expires, or is closed by a version of the same family that covers
\* the time from the answer's business date or before: versions that start
\* later take no answer's explanation away.  Only a save from a copy that
\* another worker has made stale can do so too.
TrailOutlivesReplacement ==
  [][\A a \in Answers, q \in Questions :
       Readable(a, q.access) /\ ~Readable(a, q.access)' =>
         \E id \in DOMAIN requests[a].evidence :
           \/ HasStatus(id, "expired")'
           \/ \E w \in Workers :
                ClosedFor(w, id, requests[a].question.as_of) \/ Overwrites(w, id)]_answerVars

=============================================================================
