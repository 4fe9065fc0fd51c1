--------------------------- MODULE Answering_proofs ---------------------------
(***************************************************************************)
(* Proofs about an answer and its trail, for any number of requests and    *)
(* rows, whatever happens to the rows meanwhile: the trail tells the       *)
(* outcome the caller was told, a generated answer cites its own pack, and *)
(* nothing reaches a cloud model that the caller or the egress policy may  *)
(* not have there.  Then, that the pack on record lists every approval its *)
(* evidence rests on, and how long a trail stays readable.                 *)
(*                                                                         *)
(* The invariants have a part for each: what holds of a request and its    *)
(* trail at every stage (Honest), of the copies it has read, against rows  *)
(* that change under it (RowsKnown), and of the approvals behind those     *)
(* copies (Traced).                                                        *)
(***************************************************************************)
EXTENDS Answering, ConcurrentService_proofs, FiniteSetTheorems

IsRequest(r) ==
  \E pc, question, candidates, evidence, cited, told :
    r = [pc |-> pc, question |-> question, candidates |-> candidates,
         evidence |-> evidence, cited |-> cited, told |-> told]

AnswerShape ==
  /\ requests = [b \in Answers |-> requests[b]]
  /\ \A b \in Answers : IsRequest(requests[b]) /\ DOMAIN requests[b].evidence \subseteq Ids
  /\ answer_events \in [Answers -> Seq(AnswerEvent)]

Has(trail, type, outcome) ==
  \E i \in DOMAIN trail : trail[i].event_type = type /\ trail[i].outcome = outcome

\* The trail of a request that returned ends with what its caller was told.
EndsAsTold(r, trail) ==
  /\ r.pc # "done" => r.told = "nothing"
  /\ r.pc = "done" => /\ trail # <<>>
                      /\ trail[Len(trail)].event_type = "answer_finalized"
                      /\ trail[Len(trail)].outcome = r.told

Vouched(r, trail) ==
  r.question.chat /\ r.question.require_citations /\ (r.pc = "finalize" \/ r.told = "answered") =>
    /\ r.cited # {}
    /\ r.cited \subseteq DOMAIN r.evidence
    /\ Has(trail, "generation_verified", "passed")

Packed(r, trail) ==
  r.pc \in {"log_retrieval", "egress", "generate", "verify", "finalize"} =>
    Has(trail, "evidence_pack_created", "none")

Cleared(r, trail) ==
  r.question.cloud /\ r.pc \in {"generate", "verify", "finalize"} =>
    ~Blocked(r) /\ Has(trail, "cloud_egress", "allowed")

Honest(r, trail) ==
  EndsAsTold(r, trail) /\ Vouched(r, trail) /\ Packed(r, trail) /\ Cleared(r, trail)

-----------------------------------------------------------------------------
(* Trails *)

LEMMA Extended ==
  ASSUME NEW trail \in Seq(AnswerEvent), NEW event \in AnswerEvent
  PROVE  /\ Append(trail, event) \in Seq(AnswerEvent)
         /\ Append(trail, event) # <<>>
         /\ Append(trail, event)[Len(Append(trail, event))] = event
         /\ \A type, outcome : Has(trail, type, outcome) => Has(Append(trail, event), type, outcome)
         /\ Has(Append(trail, event), event.event_type, event.outcome)
<1>1. /\ Append(trail, event) \in Seq(AnswerEvent)
      /\ DOMAIN Append(trail, event) = 1..(Len(trail) + 1)
      /\ Append(trail, event)[Len(trail) + 1] = event
      /\ \A i \in 1..Len(trail) : Append(trail, event)[i] = trail[i]
      /\ Append(trail, event) # <<>>
      /\ Append(trail, event)[Len(Append(trail, event))] = event
  OBVIOUS
<1>2. DOMAIN trail = 1..Len(trail) /\ Len(trail) \in Nat
  OBVIOUS
<1>3. ASSUME NEW type, NEW outcome, Has(trail, type, outcome)
      PROVE  Has(Append(trail, event), type, outcome)
  BY <1>1, <1>2, <1>3 DEF Has
<1>4. Has(Append(trail, event), event.event_type, event.outcome)
  BY <1>1, <1>2 DEF Has
<1> QED
  BY <1>1, <1>3, <1>4

\* The trail of answer a got one more event.
TrailGrew(a, type, outcome) ==
  /\ answer_events' \in [Answers -> Seq(AnswerEvent)]
  /\ \A b \in Answers \ {a} : answer_events'[b] = answer_events[b]
  /\ answer_events'[a] # <<>>
  /\ answer_events'[a][Len(answer_events'[a])].event_type = type
  /\ answer_events'[a][Len(answer_events'[a])].outcome = outcome
  /\ \A t, o : Has(answer_events[a], t, o) => Has(answer_events'[a], t, o)
  /\ Has(answer_events'[a], type, outcome)

\* One append_event call.
LEMMA LogsOne ==
  ASSUME AnswerShape, NEW a \in Answers, NEW type, NEW outcome, NEW ids,
         [event_type |-> type, outcome |-> outcome, ids |-> ids] \in AnswerEvent,
         LogsAnswer(a, type, outcome, ids)
  PROVE  TrailGrew(a, type, outcome)
<1> DEFINE event == [event_type |-> type, outcome |-> outcome, ids |-> ids]
<1>1. event \in AnswerEvent
  OBVIOUS
<1>2. answer_events[a] \in Seq(AnswerEvent)
  BY DEF AnswerShape
<1>3. /\ answer_events'[a] = Append(answer_events[a], event)
      /\ \A b \in Answers \ {a} : answer_events'[b] = answer_events[b]
      /\ answer_events' = [b \in Answers |-> IF b = a THEN Append(answer_events[a], event)
                                             ELSE answer_events[b]]
  BY DEF AnswerShape, LogsAnswer
<1>4. event.event_type = type /\ event.outcome = outcome
  OBVIOUS
<1> HIDE DEF event
<1>5. answer_events' \in [Answers -> Seq(AnswerEvent)]
  BY <1>1, <1>2, <1>3, Extended DEF AnswerShape
<1> QED
  BY <1>1, <1>2, <1>3, <1>4, <1>5, Extended DEF TrailGrew

-----------------------------------------------------------------------------
(* One request *)

\* What a step of another request leaves alone.
Elsewhere(a) ==
  /\ requests' = [b \in Answers |-> requests'[b]]
  /\ answer_events' \in [Answers -> Seq(AnswerEvent)]
  /\ \A b \in Answers \ {a} :
       requests'[b] = requests[b] /\ answer_events'[b] = answer_events[b]

LEMMA AskSound ==
  ASSUME AnswerShape, NEW a \in Answers, NEW question \in Questions, Ask(a, question)
  PROVE  /\ Elsewhere(a)
         /\ IsRequest(requests'[a])
         /\ Honest(requests'[a], answer_events'[a])
<1>1. /\ requests'[a] = [NoRequest EXCEPT !.pc = IF question.chat THEN "search" ELSE "list",
                                          !.question = question]
      /\ Elsewhere(a)
  BY DEF Ask, AnswerShape, Elsewhere
<1>2. /\ requests'[a].pc \in {"search", "list"}
      /\ requests'[a].told = "nothing"
      /\ IsRequest(requests'[a])
  BY <1>1 DEF NoRequest, IsRequest
<1> QED
  BY <1>1, <1>2 DEF Honest, EndsAsTold, Vouched, Packed, Cleared

\* The steps that only read rows.
LEMMA SearchSound ==
  ASSUME AnswerShape, NEW a \in Answers,
         Honest(requests[a], answer_events[a]),
         \/ \E id \in Ids : GetCandidate(a, id)
         \/ EndSearch(a)
         \/ ListAll(a)
  PROVE  /\ Elsewhere(a)
         /\ IsRequest(requests'[a])
         /\ Honest(requests'[a], answer_events'[a])
         /\ requests'[a].evidence = requests[a].evidence
         /\ requests'[a].question = requests[a].question
<1>1. PICK pc, rows :
        /\ requests' = [requests EXCEPT ![a].pc = pc, ![a].candidates = rows]
        /\ pc \in {"search", "list", "rank"}
        /\ requests[a].pc \in {"search", "list"}
        /\ answer_events' = answer_events
  <2>1. IsRequest(requests[a])
    BY DEF AnswerShape
  <2>2. ASSUME NEW id \in Ids, GetCandidate(a, id)
        PROVE  \E pc, rows :
                 /\ requests' = [requests EXCEPT ![a].pc = pc, ![a].candidates = rows]
                 /\ pc \in {"search", "list", "rank"}
                 /\ requests[a].pc \in {"search", "list"}
                 /\ answer_events' = answer_events
    <3> DEFINE rows == [m \in DOMAIN requests[a].candidates \cup {id} |->
                          IF m = id THEN memories[id] ELSE requests[a].candidates[m]]
    <3>1. requests' = [requests EXCEPT ![a].pc = "search", ![a].candidates = rows]
      BY <2>1, <2>2 DEF GetCandidate, IsRequest, AnswerShape
    <3> HIDE DEF rows
    <3> QED
      BY <2>2, <3>1 DEF GetCandidate
  <2>3. ASSUME EndSearch(a)
        PROVE  \E pc, rows :
                 /\ requests' = [requests EXCEPT ![a].pc = pc, ![a].candidates = rows]
                 /\ pc \in {"search", "list", "rank"}
                 /\ requests[a].pc \in {"search", "list"}
                 /\ answer_events' = answer_events
    BY <2>1, <2>3 DEF EndSearch, IsRequest, AnswerShape
  <2>4. ASSUME ListAll(a)
        PROVE  \E pc, rows :
                 /\ requests' = [requests EXCEPT ![a].pc = pc, ![a].candidates = rows]
                 /\ pc \in {"search", "list", "rank"}
                 /\ requests[a].pc \in {"search", "list"}
                 /\ answer_events' = answer_events
    BY <2>1, <2>4 DEF ListAll, IsRequest, AnswerShape
  <2> QED
    BY <2>2, <2>3, <2>4
<1>2. /\ requests'[a] = [requests[a] EXCEPT !.pc = pc, !.candidates = rows]
      /\ Elsewhere(a)
  BY <1>1 DEF AnswerShape, Elsewhere
<1>r. PICK pc0, q0, c0, e0, i0, t0 :
        requests[a] = [pc |-> pc0, question |-> q0, candidates |-> c0,
                       evidence |-> e0, cited |-> i0, told |-> t0]
  BY DEF AnswerShape, IsRequest
<1>3. /\ IsRequest(requests'[a])
      /\ requests'[a].pc = pc
      /\ requests'[a].told = requests[a].told
      /\ requests'[a].evidence = requests[a].evidence
      /\ requests'[a].question = requests[a].question
  BY <1>2, <1>r DEF IsRequest
<1>4. requests[a].told = "nothing"
  BY <1>1 DEF Honest, EndsAsTold
<1> QED
  BY <1>1, <1>2, <1>3, <1>4 DEF Honest, EndsAsTold, Vouched, Packed, Cleared

\* The pack is chosen and the query logged.
LEMMA LogQuerySound ==
  ASSUME AnswerShape, NEW a \in Answers,
         Honest(requests[a], answer_events[a]),
         NEW ids, ids \in Selections(requests[a]),
         requests[a].pc = "rank",
         requests' = [requests EXCEPT ![a].pc = "log_evidence",
                                      ![a].evidence = OnlyRows(requests[a].candidates, ids),
                                      ![a].candidates = NoRows],
         LogsAnswer(a, "query", "none", {})
  PROVE  /\ Elsewhere(a)
         /\ IsRequest(requests'[a])
         /\ Honest(requests'[a], answer_events'[a])
         /\ requests'[a].evidence = OnlyRows(requests[a].candidates, ids)
         /\ requests'[a].candidates = NoRows
         /\ requests'[a].question = requests[a].question
<1> DEFINE rows == OnlyRows(requests[a].candidates, ids)
<1> HIDE DEF rows
<1>1. requests' = [requests EXCEPT ![a].pc = "log_evidence", ![a].evidence = rows,
                                   ![a].candidates = NoRows]
  BY DEF rows
<1>2. /\ requests'[a] = [requests[a] EXCEPT !.pc = "log_evidence", !.evidence = rows,
                                            !.candidates = NoRows]
      /\ requests' = [b \in Answers |-> requests'[b]]
      /\ \A b \in Answers \ {a} : requests'[b] = requests[b]
  BY <1>1 DEF AnswerShape
<1>r. PICK pc0, q0, c0, e0, i0, t0 :
        requests[a] = [pc |-> pc0, question |-> q0, candidates |-> c0,
                       evidence |-> e0, cited |-> i0, told |-> t0]
  BY DEF AnswerShape, IsRequest
<1>3. /\ IsRequest(requests'[a])
      /\ requests'[a].pc = "log_evidence"
      /\ requests'[a].told = requests[a].told
      /\ requests'[a].evidence = rows
      /\ requests'[a].candidates = NoRows
      /\ requests'[a].question = requests[a].question
  BY <1>2, <1>r, ZenonT(60) DEF IsRequest
<1>4. TrailGrew(a, "query", "none")
  BY LogsOne DEF AnswerEvent
<1>5. requests[a].told = "nothing"
  BY DEF Honest, EndsAsTold
<1> QED
  BY <1>2, <1>3, <1>4, <1>5
     DEF Elsewhere, TrailGrew, Honest, EndsAsTold, Vouched, Packed, Cleared, rows

\* A step that changes of the request only where it is, what it cited and
\* what its caller is told.
Proceeds(a, pc, cited, told) ==
  /\ IsRequest(requests'[a])
  /\ requests'[a].pc = pc
  /\ requests'[a].question = requests[a].question
  /\ requests'[a].candidates = requests[a].candidates
  /\ requests'[a].evidence = requests[a].evidence
  /\ requests'[a].cited = cited
  /\ requests'[a].told = told

LEMMA Proceeding ==
  ASSUME AnswerShape, NEW a \in Answers, NEW pc, NEW cited, NEW told,
         requests' = [requests EXCEPT ![a] =
                        [@ EXCEPT !.pc = pc, !.cited = cited, !.told = told]]
  PROVE  /\ Proceeds(a, pc, cited, told)
         /\ requests' = [b \in Answers |-> requests'[b]]
         /\ \A b \in Answers \ {a} : requests'[b] = requests[b]
<1>1. /\ requests'[a] = [requests[a] EXCEPT !.pc = pc, !.cited = cited, !.told = told]
      /\ requests' = [b \in Answers |-> requests'[b]]
      /\ \A b \in Answers \ {a} : requests'[b] = requests[b]
  BY DEF AnswerShape
<1>r. PICK pc0, q0, c0, e0, i0, t0 :
        requests[a] = [pc |-> pc0, question |-> q0, candidates |-> c0,
                       evidence |-> e0, cited |-> i0, told |-> t0]
  BY DEF AnswerShape, IsRequest
<1> QED
  BY <1>1, <1>r DEF Proceeds, IsRequest

LEMMA GoingOn ==
  ASSUME AnswerShape, NEW a \in Answers, NEW pc, GoesTo(a, pc)
  PROVE  requests' = [requests EXCEPT ![a] =
           [@ EXCEPT !.pc = pc, !.cited = requests[a].cited, !.told = requests[a].told]]
BY DEF AnswerShape, IsRequest, GoesTo

\* The steps after the pack was chosen.
Later(a) ==
  \/ LogEvidence(a) \/ LogRetrieval(a) \/ LogEgress(a)
  \/ \E cited \in SUBSET (DOMAIN requests[a].evidence \cup {Invented}) : Generate(a, cited)
  \/ LogVerified(a) \/ Withhold(a) \/ FinalizeAnswer(a)
  \/ Raise(a)

LEMMA LaterSound ==
  ASSUME AnswerShape, NEW a \in Answers, Honest(requests[a], answer_events[a]), Later(a)
  PROVE  /\ Elsewhere(a)
         /\ IsRequest(requests'[a])
         /\ Honest(requests'[a], answer_events'[a])
         /\ requests'[a].candidates = requests[a].candidates
         /\ requests'[a].evidence = requests[a].evidence
         /\ requests'[a].question = requests[a].question
<1> DEFINE Goal == /\ Elsewhere(a)
                   /\ IsRequest(requests'[a])
                   /\ Honest(requests'[a], answer_events'[a])
                   /\ requests'[a].candidates = requests[a].candidates
                   /\ requests'[a].evidence = requests[a].evidence
                   /\ requests'[a].question = requests[a].question
<1>1. CASE LogEvidence(a)
  <2>1. requests[a].pc = "log_evidence" /\ GoesTo(a, "log_retrieval")
    BY <1>1 DEF LogEvidence
  <2>2. PICK ids \in SUBSET Ids : LogsAnswer(a, "evidence_pack_created", "none", ids)
    BY <1>1 DEF LogEvidence, AnswerShape
  <2>u. TrailGrew(a, "evidence_pack_created", "none")
    BY <2>2, LogsOne DEF AnswerEvent
  <2>v. requests' = [requests EXCEPT ![a] =
          [@ EXCEPT !.pc = "log_retrieval", !.cited = requests[a].cited,
                    !.told = requests[a].told]]
    BY <2>1, GoingOn
  <2>3. Proceeds(a, "log_retrieval", requests[a].cited, requests[a].told) /\ Elsewhere(a)
    BY <2>u, <2>v, Proceeding DEF TrailGrew, Elsewhere
  <2>4. Has(answer_events'[a], "evidence_pack_created", "none")
    BY <2>2, LogsOne DEF AnswerEvent, TrailGrew
  <2> QED
    BY <2>1, <2>3, <2>4 DEF Proceeds, Honest, EndsAsTold, Vouched, Packed, Cleared
<1>2. CASE LogRetrieval(a)
  <2>1. PICK outcome \in {"abstained", "answered"} :
          /\ LogsAnswer(a, "answer_finalized", outcome, {})
          /\ requests[a].pc = "log_retrieval"
          /\ requests' = [requests EXCEPT ![a] =
               IF requests[a].question.chat /\ outcome = "answered"
               THEN [requests[a] EXCEPT !.pc = IF requests[a].question.cloud
                                               THEN "egress" ELSE "generate"]
               ELSE [requests[a] EXCEPT !.pc = "done", !.told = outcome]]
    BY <1>2 DEF LogRetrieval
  <2>2. Elsewhere(a)
    BY <2>1, LogsOne DEF AnswerEvent, TrailGrew, Elsewhere, AnswerShape
  <2>3. IsRequest(requests[a])
    BY DEF AnswerShape
  <2>4. /\ answer_events'[a] # <<>>
        /\ answer_events'[a][Len(answer_events'[a])].event_type = "answer_finalized"
        /\ answer_events'[a][Len(answer_events'[a])].outcome = outcome
        /\ \A t, o : Has(answer_events[a], t, o) => Has(answer_events'[a], t, o)
    BY <2>1, LogsOne DEF AnswerEvent, TrailGrew
  <2>5. CASE requests[a].question.chat /\ outcome = "answered"
    <3>1. PICK pc \in {"egress", "generate"} :
            /\ requests'[a] = [requests[a] EXCEPT !.pc = pc]
            /\ pc = "generate" => ~requests[a].question.cloud
      BY <2>1, <2>5 DEF AnswerShape
    <3>2. Proceeds(a, pc, requests[a].cited, requests[a].told)
      BY <2>3, <3>1 DEF Proceeds, IsRequest
    <3> QED
      BY <2>1, <2>2, <2>4, <3>1, <3>2
         DEF Proceeds, Honest, EndsAsTold, Vouched, Packed, Cleared
  <2>6. CASE ~(requests[a].question.chat /\ outcome = "answered")
    <3>1. requests'[a] = [requests[a] EXCEPT !.pc = "done", !.told = outcome]
      BY <2>1, <2>6 DEF AnswerShape
    <3>2. Proceeds(a, "done", requests[a].cited, outcome)
      BY <2>3, <3>1 DEF Proceeds, IsRequest
    <3> QED
      BY <2>2, <2>4, <2>6, <3>2 DEF Proceeds, Honest, EndsAsTold, Vouched, Packed, Cleared
  <2> QED
    BY <2>5, <2>6
<1>3. CASE LogEgress(a)
  <2>1. PICK pc, verdict :
          /\ requests[a].pc = "egress"
          /\ GoesTo(a, pc)
          /\ LogsAnswer(a, "cloud_egress", verdict, {})
          /\ pc \in {"withhold", "generate"}
          /\ verdict \in {"blocked", "allowed"}
          /\ pc = "generate" => ~Blocked(requests[a]) /\ verdict = "allowed"
    BY <1>3 DEF LogEgress
  <2>u. TrailGrew(a, "cloud_egress", verdict)
    BY <2>1, LogsOne DEF AnswerEvent
  <2>v. requests' = [requests EXCEPT ![a] =
          [@ EXCEPT !.pc = pc, !.cited = requests[a].cited, !.told = requests[a].told]]
    BY <2>1, GoingOn
  <2>2. Proceeds(a, pc, requests[a].cited, requests[a].told) /\ Elsewhere(a)
    BY <2>u, <2>v, Proceeding DEF TrailGrew, Elsewhere
  <2>3. /\ \A t, o : Has(answer_events[a], t, o) => Has(answer_events'[a], t, o)
        /\ Has(answer_events'[a], "cloud_egress", verdict)
    BY <2>1, LogsOne DEF AnswerEvent, TrailGrew
  <2> QED
    BY <2>1, <2>2, <2>3 DEF Proceeds, Honest, EndsAsTold, Vouched, Packed, Cleared, Blocked
<1>4. ASSUME NEW cited, Generate(a, cited) PROVE Goal
  <2>1. PICK pc \in {"verify", "finalize"} :
          /\ requests[a].pc = "generate"
          /\ requests' = [requests EXCEPT ![a].pc = pc, ![a].cited = cited]
          /\ pc = "finalize" => ~requests[a].question.require_citations
          /\ answer_events' = answer_events
    BY <1>4 DEF Generate
  <2>2. requests' = [requests EXCEPT ![a] =
           [@ EXCEPT !.pc = pc, !.cited = cited, !.told = requests[a].told]]
    BY <2>1 DEF AnswerShape, IsRequest
  <2>3. Proceeds(a, pc, cited, requests[a].told) /\ Elsewhere(a)
    BY <2>1, <2>2, Proceeding DEF Elsewhere, AnswerShape
  <2>4. requests[a].told = "nothing"
    BY <2>1 DEF Honest, EndsAsTold
  <2> QED
    BY <2>1, <2>3, <2>4 DEF Proceeds, Honest, EndsAsTold, Vouched, Packed, Cleared, Blocked
<1>5. CASE LogVerified(a)
  <2>1. PICK pc, verdict :
          /\ requests[a].pc = "verify"
          /\ GoesTo(a, pc)
          /\ LogsAnswer(a, "generation_verified", verdict, {})
          /\ pc \in {"withhold", "finalize"}
          /\ verdict \in {"missing", "unsupported", "passed"}
          /\ pc = "finalize" => /\ verdict = "passed"
                                /\ requests[a].cited # {}
                                /\ requests[a].cited \subseteq DOMAIN requests[a].evidence
    BY <1>5 DEF LogVerified, Verdict
  <2>u. TrailGrew(a, "generation_verified", verdict)
    BY <2>1, LogsOne DEF AnswerEvent
  <2>v. requests' = [requests EXCEPT ![a] =
          [@ EXCEPT !.pc = pc, !.cited = requests[a].cited, !.told = requests[a].told]]
    BY <2>1, GoingOn
  <2>2. Proceeds(a, pc, requests[a].cited, requests[a].told) /\ Elsewhere(a)
    BY <2>u, <2>v, Proceeding DEF TrailGrew, Elsewhere
  <2>3. /\ \A t, o : Has(answer_events[a], t, o) => Has(answer_events'[a], t, o)
        /\ Has(answer_events'[a], "generation_verified", verdict)
    BY <2>1, LogsOne DEF AnswerEvent, TrailGrew
  <2> QED
    BY <2>1, <2>2, <2>3 DEF Proceeds, Honest, EndsAsTold, Vouched, Packed, Cleared, Blocked
<1>6. ASSUME NEW told \in {"abstained", "answered"},
             requests[a].pc = (IF told = "answered" THEN "finalize" ELSE "withhold"),
             LogsAnswer(a, "answer_finalized", told, {}),
             requests' = [requests EXCEPT ![a].pc = "done", ![a].told = told]
      PROVE  Goal
  <2>1. requests' = [requests EXCEPT ![a] =
           [@ EXCEPT !.pc = "done", !.cited = requests[a].cited, !.told = told]]
    BY <1>6 DEF AnswerShape, IsRequest
  <2>u. TrailGrew(a, "answer_finalized", told)
    BY <1>6, LogsOne DEF AnswerEvent
  <2>2. Proceeds(a, "done", requests[a].cited, told) /\ Elsewhere(a)
    BY <2>u, <2>1, Proceeding DEF TrailGrew, Elsewhere
  <2>3. /\ answer_events'[a] # <<>>
        /\ answer_events'[a][Len(answer_events'[a])].event_type = "answer_finalized"
        /\ answer_events'[a][Len(answer_events'[a])].outcome = told
        /\ \A t, o : Has(answer_events[a], t, o) => Has(answer_events'[a], t, o)
    BY <1>6, LogsOne DEF AnswerEvent, TrailGrew
  <2> QED
    BY <1>6, <2>2, <2>3 DEF Proceeds, Honest, EndsAsTold, Vouched, Packed, Cleared
<1>7. CASE Withhold(a) \/ FinalizeAnswer(a)
  BY <1>6, <1>7 DEF Withhold, FinalizeAnswer
<1>8. CASE Raise(a)
  <2>1. /\ requests[a].pc # "done"
        /\ GoesTo(a, "raised")
        /\ answer_events' = answer_events
    BY <1>8 DEF Raise
  <2>2. Proceeds(a, "raised", requests[a].cited, requests[a].told) /\ Elsewhere(a)
    BY <2>1, GoingOn, Proceeding DEF Elsewhere, AnswerShape
  <2> QED
    BY <2>1, <2>2 DEF Proceeds, Honest, EndsAsTold, Vouched, Packed, Cleared
<1> QED
  BY <1>1, <1>2, <1>3, <1>4, <1>5, <1>7, <1>8 DEF Later

-----------------------------------------------------------------------------
(* What the operations do to the memory between two steps of a request *)

\* The versions a job is replacing are of its record's tenant and key.
OfFamily(j) ==
  j.op \in {"ingest", "approve"} /\ j.pc \in {"get_old", "save_old", "log_old"} =>
    \A m \in DOMAIN j.todo :
      /\ memories[m].tenant_id = j.record.tenant_id
      /\ memories[m].conflict_key = j.record.conflict_key

Families == \A w \in Workers : OfFamily(job[w])

\* What the operations keep if their callers choose distinct ids.
Kept == CallersShareIds \/ (Texts /\ Approved /\ Families)

LEMMA StoreSteps ==
  ASSUME JobsInv, [Next]_vars
  PROVE  /\ JobsInv' /\ RowsStay /\ TrailsGrow /\ unlogged \subseteq unlogged'
         /\ Texts => TextsStay
<1>1. CASE UNCHANGED vars
  <2>1. UNCHANGED <<memories, audit_events, unlogged>> /\ TypeOK
    BY <1>1 DEF vars, JobsInv
  <2>2. TextsStay
    BY <2>1 DEF TextsStay, SameText
  <2> QED
    BY <2>1, <2>2, JobsStep, UnchangedKeep
<1>2. CASE Next
  <2>1. PICK w \in Workers : Begins(w) \/ Calls(w) \/ Crash(w)
    BY <1>2, NextIs
  <2> QED
    BY <2>1, JobsStep, StepLeaves, StepTexts DEF Leaves
<1> QED
  BY <1>1, <1>2

\* What the worker that moves has still to replace.
LEMMA MovedFamily ==
  ASSUME JobsInv, Families, NEW w \in Workers, Begins(w) \/ Calls(w) \/ Crash(w)
  PROVE  OfFamily(job'[w])
<1> DEFINE j == job[w]
           n == job'[w]
<1>1. Shape(j) /\ j \in Job /\ OfFamily(j)
  BY DEF JobsInv, Sound, Families
<1> SUFFICES ASSUME n.op \in {"ingest", "approve"}, n.pc \in {"get_old", "save_old", "log_old"},
                    NEW m \in DOMAIN n.todo
             PROVE  /\ memories[m].tenant_id = n.record.tenant_id
                    /\ memories[m].conflict_key = n.record.conflict_key
  BY DEF OfFamily
<1>2. n # NoWork
  BY NoWorkSound
<1>3. n \in Job /\ Shape(n) /\ n.record \in MemoryRecord
  BY StepLeaves DEF Moves, Sound, Shape
<1>4. ASSUME j.op = n.op, m \in DOMAIN j.todo, j.pc \in {"get_old", "save_old", "log_old"},
             n.record.tenant_id = j.record.tenant_id, n.record.conflict_key = j.record.conflict_key
      PROVE  /\ memories[m].tenant_id = n.record.tenant_id
             /\ memories[m].conflict_key = n.record.conflict_key
  BY <1>1, <1>4 DEF OfFamily
<1>5. ~Begins(w)
  BY BeginDoes
<1>6. ~Notes(w)
  BY <1>2, NoteDoes
<1>7. CASE Resolve(w)
  <2>1. /\ j.op = "ingest" /\ m \in ActiveConflicts(NoId, j.record)
        /\ SameText(n.record, j.record)
    BY <1>2, <1>7, ResolveDoes
  <2>2. j.record \in MemoryRecord
    BY <1>1, <2>1 DEF Shape
  <2>3. n.record.tenant_id = j.record.tenant_id /\ n.record.conflict_key = j.record.conflict_key
    BY <1>3, <2>1, <2>2, TextDecides
  <2> QED
    BY <2>1, <2>3 DEF ActiveConflicts
<1>8. CASE Check(w)
  <2>1. /\ j.op = "approve" /\ m \in ActiveConflicts(j.id, j.record)
        /\ n.record = [j.record EXCEPT !.status = "verified_active"]
    BY <1>2, <1>8, CheckDoes
  <2>2. j.record \in MemoryRecord
    BY <1>1, <2>1 DEF Shape
  <2>3. n.record.tenant_id = j.record.tenant_id /\ n.record.conflict_key = j.record.conflict_key
    BY <2>1, <2>2 DEF MemoryRecord
  <2> QED
    BY <2>1, <2>3 DEF ActiveConflicts
<1>9. CASE GetOld(w)
  <2>1. j.pc = "get_old" /\ j.op = n.op /\ DOMAIN n.todo = DOMAIN j.todo
    BY <1>2, <1>9, GetOldDoes DEF Keeps
  <2>2. n.record = j.record
    <3>1. job \in [Workers -> Job]
      BY DEF JobsInv
    <3>2. job'[w] = [job[w] EXCEPT !.pc = "save_old", !.todo[j.old] = memories[j.old]]
      BY <1>2, <1>9, <3>1 DEF GetOld, Stops
    <3> QED
      BY <1>1, <3>2 DEF Job
  <2> QED
    BY <1>4, <2>1, <2>2
<1>10. CASE SaveOld(w)
  BY <1>4, <1>10, SaveOldDoes DEF OnlyNext, Keeps
<1>11. CASE LogOld(w)
  <2>1. /\ j.pc = "log_old" /\ n.op = j.op /\ m \in DOMAIN j.todo
        /\ SameText(n.record, j.record)
    BY <1>2, <1>11, LogOldDoes
  <2>2. j.record \in MemoryRecord
    BY <1>1, <2>1 DEF Shape
  <2>3. n.record.tenant_id = j.record.tenant_id /\ n.record.conflict_key = j.record.conflict_key
    BY <1>3, <2>1, <2>2, TextDecides
  <2> QED
    BY <1>4, <2>1, <2>3
<1>12. ~Save(w) /\ ~LogReviewed(w) /\ ~LogStatus(w) /\ ~Crash(w)
  BY <1>2, SaveDoes, LogReviewedDoes, LogStatusDoes, CrashDoes
<1> QED
  BY <1>5, <1>6, <1>7, <1>8, <1>9, <1>10, <1>11, <1>12 DEF Calls

LEMMA FamiliesStep ==
  ASSUME JobsInv, Texts, Families, [Next]_vars
  PROVE  Families'
<1>1. CASE UNCHANGED vars
  BY <1>1 DEF vars, Families, OfFamily
<1>2. CASE Next
  <2>1. PICK w \in Workers : Begins(w) \/ Calls(w) \/ Crash(w)
    BY <1>2, NextIs
  <2>2. Moves(w) /\ TextsStay /\ RowsStay
    BY <2>1, StepLeaves, StepTexts DEF Leaves
  <2>3. ASSUME NEW v \in Workers
        PROVE  OfFamily(job'[v]) /\ \A m \in DOMAIN job'[v].todo : m \in Ids /\ IsStored(m)
    <3>1. CASE v = w
      <4>1. job'[w] \in Job
        BY <2>2 DEF Moves
      <4>2. \A m \in DOMAIN job'[w].todo : m \in Ids
        BY <4>1, TodoMembers DEF Job
      <4>3. DOMAIN NoWork.todo = {}
        BY NoWorkSound, NothingType
      <4>4. \A m \in DOMAIN job'[w].todo : IsStored(m)
        BY <2>1, <4>3, MovedMatches
      <4> QED
        BY <2>1, <3>1, <4>2, <4>4, MovedFamily
    <3>2. CASE v # w
      <4>1. job'[v] = job[v] /\ job[v] \in Job /\ Rows(job[v]) /\ OfFamily(job[v])
        BY <2>2, <3>2 DEF Moves, JobsInv, Families
      <4> QED
        BY <4>1, TodoMembers DEF Rows, Job
    <3> QED
      BY <3>1, <3>2
  <2>4. ASSUME NEW m \in Ids, IsStored(m)
        PROVE  /\ memories'[m].tenant_id = memories[m].tenant_id
               /\ memories'[m].conflict_key = memories[m].conflict_key
    <3>1. memories[m] \in MemoryRecord /\ memories'[m] \in MemoryRecord
      BY <2>2, <2>4 DEF JobsInv, TypeOK, IsStored, RowsStay
    <3> QED
      BY <2>2, <2>4, <3>1, TextDecides DEF TextsStay
  <2>5. ASSUME NEW v \in Workers PROVE OfFamily(job[v])'
    BY <2>3, <2>4 DEF OfFamily
  <2> QED
    BY <2>5 DEF Families
<1> QED
  BY <1>1, <1>2

LEMMA KeptStep ==
  ASSUME JobsInv, Kept, [Next]_vars
  PROVE  Kept'
BY TextsStep, ApprovedStep, FamiliesStep DEF Kept

LEMMA KeptStart == Init => Kept
<1> SUFFICES ASSUME Init PROVE Texts /\ Approved /\ Families
  BY DEF Kept
<1>1. Families
  BY NoWorkSound DEF Init, Families, OfFamily
<1> QED
  BY <1>1, TextsInit, ApprovedInit

\* A row stays, and with distinct ids stays with its tenant.
LEMMA RowKept ==
  ASSUME JobsInv, Kept, [Next]_vars, NEW id \in Ids, IsStored(id)
  PROVE  /\ memories'[id] \in MemoryRecord
         /\ CallersShareIds \/ memories'[id].tenant_id = memories[id].tenant_id
<1>1. memories[id] \in MemoryRecord /\ memories'[id] \in MemoryRecord
  BY StoreSteps DEF JobsInv, TypeOK, IsStored, RowsStay
<1>2. ~CallersShareIds => SameText(memories'[id], memories[id])
  BY StoreSteps DEF Kept, TextsStay
<1> QED
  BY <1>1, <1>2, TextDecides

-----------------------------------------------------------------------------
(* The rows a request has read *)

\* Every copy in `rows' is of a record that is stored, and was, when it was
\* read, the tenant's it is now, unless another's ingest can take its id.
Known(rows, table) ==
  \A id \in DOMAIN rows :
    /\ id \in Ids
    /\ table[id] # NoRecord
    /\ CallersShareIds \/ table[id].tenant_id = rows[id].tenant_id

RowsKnown(r, table) ==
  /\ Known(r.candidates, table)
  /\ Known(r.evidence, table)
  /\ \A id \in DOMAIN r.evidence : AccessAllowed(id, r.evidence[id], r.question.access)

LEMMA KnownKept ==
  ASSUME JobsInv, Kept, [Next]_vars, NEW r, RowsKnown(r, memories)
  PROVE  RowsKnown(r, memories')
<1>1. ASSUME NEW rows, Known(rows, memories) PROVE Known(rows, memories')
  <2> SUFFICES ASSUME NEW id \in DOMAIN rows
               PROVE  /\ id \in Ids
                      /\ memories'[id] # NoRecord
                      /\ CallersShareIds \/ memories'[id].tenant_id = rows[id].tenant_id
    BY DEF Known
  <2>1. /\ id \in Ids
        /\ IsStored(id)
        /\ CallersShareIds \/ memories[id].tenant_id = rows[id].tenant_id
    BY <1>1 DEF Known, IsStored
  <2> QED
    BY <2>1, RowKept, NamesAssumption
<1> QED
  BY <1>1 DEF RowsKnown

\* Every candidate is one that was there before, or a row as it is now.
RowsRead(a) ==
  \A id \in DOMAIN requests'[a].candidates :
    \/ /\ id \in DOMAIN requests[a].candidates
       /\ requests'[a].candidates[id] = requests[a].candidates[id]
    \/ /\ id \in Stored
       /\ requests'[a].candidates[id] = memories[id]

LEMMA SearchReads ==
  ASSUME AnswerShape, NEW a \in Answers,
         (\E id \in Ids : GetCandidate(a, id)) \/ EndSearch(a) \/ ListAll(a)
  PROVE  RowsRead(a) /\ UNCHANGED vars
<1>r. PICK pc0, q0, c0, e0, i0, t0 :
        requests[a] = [pc |-> pc0, question |-> q0, candidates |-> c0,
                       evidence |-> e0, cited |-> i0, told |-> t0]
  BY DEF AnswerShape, IsRequest
<1>1. ASSUME NEW id \in Ids, GetCandidate(a, id) PROVE RowsRead(a) /\ UNCHANGED vars
  <2>1. /\ UNCHANGED vars
        /\ id \in Stored
        /\ requests'[a].candidates = [m \in DOMAIN c0 \cup {id} |->
                                        IF m = id THEN memories[id] ELSE c0[m]]
    BY <1>r, <1>1 DEF GetCandidate, AnswerShape, Stored
  <2> QED
    BY <1>r, <2>1 DEF RowsRead
<1>2. ASSUME EndSearch(a) PROVE RowsRead(a) /\ UNCHANGED vars
  <2> DEFINE kept == OnlyRows(c0, Filtered(c0, q0))
             stage == IF Cardinality(Filtered(c0, q0)) < retrieval_limit
                      THEN "list" ELSE "rank"
  <2>1. requests' = [requests EXCEPT ![a].pc = stage, ![a].candidates = kept]
    BY <1>r, <1>2 DEF EndSearch
  <2>2. kept = [id \in Filtered(c0, q0) |-> c0[id]] /\ Filtered(c0, q0) \subseteq DOMAIN c0
    BY DEF OnlyRows, Filtered
  <2> HIDE DEF kept, stage
  <2>3. requests'[a].candidates = kept
    BY <1>r, <2>1 DEF AnswerShape
  <2>4. UNCHANGED vars
    BY <1>2 DEF EndSearch
  <2> QED
    BY <1>r, <2>2, <2>3, <2>4 DEF RowsRead
<1>3. ASSUME ListAll(a) PROVE RowsRead(a) /\ UNCHANGED vars
  <2> DEFINE read == [m \in DOMAIN c0 \cup Stored |->
                        IF m \in DOMAIN c0 THEN c0[m] ELSE memories[m]]
  <2>1. requests' = [requests EXCEPT ![a].pc = "rank", ![a].candidates = read]
    BY <1>r, <1>3 DEF ListAll
  <2>2. DOMAIN read = DOMAIN c0 \cup Stored
    OBVIOUS
  <2>3. \A m \in DOMAIN read :
          \/ m \in DOMAIN c0 /\ read[m] = c0[m]
          \/ m \in Stored /\ read[m] = memories[m]
    OBVIOUS
  <2> HIDE DEF read
  <2>4. requests'[a].candidates = read
    BY <1>r, <2>1 DEF AnswerShape
  <2>5. UNCHANGED vars
    BY <1>3 DEF ListAll
  <2> QED
    BY <1>r, <2>3, <2>4, <2>5 DEF RowsRead
<1> QED
  BY <1>1, <1>2, <1>3

LEMMA SearchKnown ==
  ASSUME AnswerShape, NEW a \in Answers, RowsKnown(requests[a], memories),
         (\E id \in Ids : GetCandidate(a, id)) \/ EndSearch(a) \/ ListAll(a)
  PROVE  Known(requests'[a].candidates, memories') /\ memories' = memories
<1>1. RowsRead(a) /\ memories' = memories
  BY SearchReads DEF vars
<1> QED
  BY <1>1 DEF RowsRead, RowsKnown, Known, Stored, IsStored

LEMMA PackKnown ==
  ASSUME NEW r, NEW table, RowsKnown(r, table), NEW ids \in Selections(r)
  PROVE  /\ Known(OnlyRows(r.candidates, ids), table)
         /\ \A id \in DOMAIN OnlyRows(r.candidates, ids) :
              AccessAllowed(id, OnlyRows(r.candidates, ids)[id], r.question.access)
<1>1. /\ ids \subseteq DOMAIN r.candidates
      /\ \A id \in ids : AccessAllowed(id, r.candidates[id], r.question.access)
  BY DEF Selections, Filtered
<1>2. /\ DOMAIN OnlyRows(r.candidates, ids) = ids
      /\ \A id \in ids : OnlyRows(r.candidates, ids)[id] = r.candidates[id]
  BY DEF OnlyRows
<1> QED
  BY <1>1, <1>2 DEF RowsKnown, Known

-----------------------------------------------------------------------------
(* The invariant *)

AnswersInv ==
  /\ JobsInv
  /\ Kept
  /\ AnswerShape
  /\ \A b \in Answers :
       Honest(requests[b], answer_events[b]) /\ RowsKnown(requests[b], memories)

\* One request's step is to be judged by that request alone.
LEMMA Locally ==
  ASSUME AnswersInv, NEW a \in Answers, Elsewhere(a), UNCHANGED vars,
         IsRequest(requests'[a]),
         Honest(requests'[a], answer_events'[a]),
         RowsKnown(requests'[a], memories)
  PROVE  AnswersInv'
<1>1. JobsInv' /\ Kept' /\ memories' = memories
  BY JobsStep, KeptStep DEF AnswersInv, vars
<1>2. ASSUME NEW b \in Answers
      PROVE  /\ IsRequest(requests'[b])
             /\ Honest(requests'[b], answer_events'[b])
             /\ RowsKnown(requests'[b], memories)
  BY <1>2 DEF AnswersInv, AnswerShape, Elsewhere
<1>3. AnswerShape'
  <2>1. ASSUME NEW b \in Answers PROVE DOMAIN requests'[b].evidence \subseteq Ids
    BY <1>2, <2>1 DEF RowsKnown, Known
  <2> QED
    BY <1>2, <2>1 DEF AnswerShape, Elsewhere
<1> QED
  BY <1>1, <1>2, <1>3 DEF AnswersInv

LEMMA AnswersStep == AnswersInv /\ [AnswerNext]_answerVars => AnswersInv'
<1> SUFFICES ASSUME AnswersInv, [AnswerNext]_answerVars PROVE AnswersInv'
  OBVIOUS
<1>1. CASE [Next]_vars /\ UNCHANGED <<requests, answer_events>>
  <2>1. JobsInv' /\ Kept'
    BY <1>1, JobsStep, KeptStep DEF AnswersInv
  <2>2. \A b \in Answers : RowsKnown(requests[b], memories')
    BY <1>1, KnownKept DEF AnswersInv
  <2>3. requests' = requests /\ answer_events' = answer_events
    BY <1>1
  <2>4. AnswerShape'
    BY <2>3 DEF AnswersInv, AnswerShape
  <2> QED
    BY <2>1, <2>2, <2>3, <2>4 DEF AnswersInv
<1>2. ASSUME NEW a \in Answers, Answer(a) PROVE AnswersInv'
  <2>0. /\ JobsInv /\ AnswerShape
        /\ Honest(requests[a], answer_events[a])
        /\ RowsKnown(requests[a], memories)
    BY DEF AnswersInv
  <2>1. ASSUME NEW question \in Questions, Ask(a, question) PROVE AnswersInv'
    <3>1. UNCHANGED vars
      BY <2>1 DEF Ask
    <3>2. requests'[a].candidates = NoRows /\ requests'[a].evidence = NoRows
      <4>1. requests'[a] = [NoRequest EXCEPT
              !.pc = IF question.chat THEN "search" ELSE "list", !.question = question]
        BY <2>0, <2>1 DEF Ask, AnswerShape
      <4> QED
        BY <4>1 DEF NoRequest
    <3>3. RowsKnown(requests'[a], memories)
      BY <3>2 DEF RowsKnown, Known, NoRows
    <3> QED
      BY <2>0, <2>1, <3>1, <3>3, AskSound, Locally
  <2>2. CASE (\E id \in Ids : GetCandidate(a, id)) \/ EndSearch(a) \/ ListAll(a)
    <3>1. UNCHANGED vars
      BY <2>2 DEF GetCandidate, EndSearch, ListAll
    <3>2. /\ Elsewhere(a)
          /\ IsRequest(requests'[a])
          /\ Honest(requests'[a], answer_events'[a])
          /\ requests'[a].evidence = requests[a].evidence
          /\ requests'[a].question = requests[a].question
      BY <2>0, <2>2, SearchSound
    <3>3. RowsKnown(requests'[a], memories)
      BY <2>0, <2>2, <3>2, SearchKnown DEF RowsKnown
    <3> QED
      BY <3>1, <3>2, <3>3, Locally
  <2>3. CASE LogQuery(a)
    <3>1. PICK ids \in Selections(requests[a]) :
            /\ requests[a].pc = "rank"
            /\ requests' = [requests EXCEPT
                 ![a].pc = "log_evidence",
                 ![a].evidence = OnlyRows(requests[a].candidates, ids),
                 ![a].candidates = NoRows]
            /\ LogsAnswer(a, "query", "none", {})
            /\ UNCHANGED vars
      BY <2>3 DEF LogQuery
    <3>2. /\ Elsewhere(a)
          /\ IsRequest(requests'[a])
          /\ Honest(requests'[a], answer_events'[a])
          /\ requests'[a].evidence = OnlyRows(requests[a].candidates, ids)
          /\ requests'[a].candidates = NoRows
          /\ requests'[a].question = requests[a].question
      BY <2>0, <3>1, LogQuerySound
    <3>3. /\ Known(OnlyRows(requests[a].candidates, ids), memories)
          /\ \A id \in DOMAIN OnlyRows(requests[a].candidates, ids) :
               AccessAllowed(id, OnlyRows(requests[a].candidates, ids)[id],
                             requests[a].question.access)
      BY <2>0, <3>1, PackKnown
    <3>4. Known(NoRows, memories)
      BY DEF Known, NoRows
    <3>5. RowsKnown(requests'[a], memories)
      BY <3>2, <3>3, <3>4 DEF RowsKnown
    <3> QED
      BY <3>1, <3>2, <3>5, Locally
  <2>4. CASE Later(a)
    <3>1. UNCHANGED vars
      BY <2>4 DEF Later, LogEvidence, LogRetrieval, LogEgress, Generate, LogVerified,
                  Withhold, FinalizeAnswer, Raise
    <3>2. /\ Elsewhere(a)
          /\ IsRequest(requests'[a])
          /\ Honest(requests'[a], answer_events'[a])
          /\ requests'[a].candidates = requests[a].candidates
          /\ requests'[a].evidence = requests[a].evidence
          /\ requests'[a].question = requests[a].question
      BY <2>0, <2>4, LaterSound
    <3>3. RowsKnown(requests'[a], memories)
      BY <2>0, <3>2 DEF RowsKnown
    <3> QED
      BY <3>1, <3>2, <3>3, Locally
  <2> QED
    BY <1>2, <2>1, <2>2, <2>3, <2>4 DEF Answer, Later
<1> QED
  BY <1>1, <1>2 DEF AnswerNext, Govern, answerVars, vars

LEMMA AnswersStart == AnswerInit => AnswersInv
<1> SUFFICES ASSUME AnswerInit PROVE AnswersInv
  OBVIOUS
<1>1. JobsInv /\ Kept
  BY JobsInit, KeptStart DEF AnswerInit
<1>2. ASSUME NEW b \in Answers
      PROVE  /\ requests[b] = NoRequest
             /\ IsRequest(requests[b])
             /\ DOMAIN requests[b].evidence \subseteq Ids
  <2>1. requests[b] = NoRequest
    BY DEF AnswerInit
  <2>2. IsRequest(NoRequest)
    BY DEF NoRequest, IsRequest
  <2>3. DOMAIN NoRequest.evidence \subseteq Ids
    BY DEF NoRequest, NoRows
  <2> QED
    BY <2>1, <2>2, <2>3
<1>3. AnswerShape
  <2>1. requests = [b \in Answers |-> requests[b]]
    BY DEF AnswerInit
  <2>2. answer_events \in [Answers -> Seq(AnswerEvent)]
    BY DEF AnswerInit
  <2> QED
    BY <1>2, <2>1, <2>2 DEF AnswerShape
<1>4. ASSUME NEW b \in Answers
      PROVE  Honest(requests[b], answer_events[b]) /\ RowsKnown(requests[b], memories)
  <2>1. Honest(NoRequest, answer_events[b])
    BY DEF NoRequest, NoQuestion, Honest, EndsAsTold, Vouched, Packed, Cleared
  <2>2. RowsKnown(NoRequest, memories)
    BY DEF NoRequest, NoRows, RowsKnown, Known
  <2> QED
    BY <1>2, <2>1, <2>2
<1> QED
  BY <1>1, <1>3, <1>4 DEF AnswersInv

LEMMA AnswersAlways == AnswerSpec => []AnswersInv
BY AnswersStart, AnswersStep, PTL DEF AnswerSpec

-----------------------------------------------------------------------------
(* What it gives *)

\* The greatest of a set of numbers is what CHOOSE finds.
LEMMA Greatest ==
  ASSUME NEW S \in SUBSET Nat, NEW n \in S, \A j \in S : j <= n
  PROVE  (CHOOSE i \in S : \A j \in S : j <= i) = n
<1>1. \A i \in S : (\A j \in S : j <= i) => i = n
  OBVIOUS
<1> QED
  BY <1>1

\* The trail of an answer that was returned reports what its caller was told,
\* whatever phases finalised it before (chat, get_answer_audit_trail).
THEOREM TrailTellsOutcome == AnswerSpec => []OutcomeIsTold
<1>1. AnswersInv => OutcomeIsTold
  <2> SUFFICES ASSUME AnswersInv, NEW a \in Answers, requests[a].pc = "done"
               PROVE  Finalizations(a) # {} /\ ReportedOutcome(a) = requests[a].told
    BY DEF OutcomeIsTold
  <2> DEFINE n == Len(answer_events[a])
  <2>1. /\ answer_events[a] \in Seq(AnswerEvent)
        /\ answer_events[a] # <<>>
        /\ answer_events[a][n].event_type = "answer_finalized"
        /\ answer_events[a][n].outcome = requests[a].told
    BY DEF AnswersInv, AnswerShape, Honest, EndsAsTold
  <2>2. DOMAIN answer_events[a] = 1..n /\ n \in Nat \ {0}
    BY <2>1
  <2>3. /\ Finalizations(a) \in SUBSET Nat
        /\ n \in Finalizations(a)
        /\ \A j \in Finalizations(a) : j <= n
    BY <2>1, <2>2 DEF Finalizations, IsFinalized
  <2>4. (CHOOSE i \in Finalizations(a) : \A j \in Finalizations(a) : j <= i) = n
    BY <2>3, Greatest
  <2> QED
    BY <2>1, <2>3, <2>4 DEF ReportedOutcome
<1> QED
  BY <1>1, AnswersAlways, PTL

\* A generated answer that must cite is told only if every source it cites is
\* of its own pack and the trail says so (chat, _verify_generated_citations).
THEOREM AnswersCiteTheirPack == AnswerSpec => []AnswersAreVerified
<1>1. AnswersInv => AnswersAreVerified
  <2> SUFFICES ASSUME AnswersInv, NEW a \in Answers,
                      requests[a].question.chat, requests[a].question.require_citations,
                      requests[a].told = "answered"
               PROVE  /\ requests[a].cited # {}
                      /\ requests[a].cited \subseteq DOMAIN requests[a].evidence
                      /\ Logged(a, "generation_verified", "passed")
    BY DEF AnswersAreVerified
  <2> QED
    BY DEF AnswersInv, Honest, Vouched, Has, Logged
<1> QED
  BY <1>1, AnswersAlways, PTL

\* Evidence reaches a cloud model only if it is the caller's to read, of a
\* class that may leave, and the trail of the answer said so before
\* (chat's egress gate, record_access_denial), when callers choose distinct ids.
THEOREM EgressIsCleared ==
  ASSUME ~CallersShareIds
  PROVE  AnswerSpec => []WhatLeavesIsOnRecord
<1>1. AnswersInv => WhatLeavesIsOnRecord
  <2> SUFFICES ASSUME AnswersInv, NEW a \in Answers,
                      requests[a].question.cloud,
                      requests[a].pc \in {"generate", "verify", "finalize"}
               PROVE  /\ Logged(a, "cloud_egress", "allowed")
                      /\ Logged(a, "evidence_pack_created", "none")
                      /\ \A id \in DOMAIN requests[a].evidence :
                           /\ classification[id] \in allowed_classifications
                           /\ memories[id].tenant_id
                                = requests[a].question.access.tenant_id
                           /\ \/ allowed_roles[id] = {}
                              \/ allowed_roles[id]
                                   \cap requests[a].question.access.roles # {}
    BY DEF WhatLeavesIsOnRecord
  <2>1. Honest(requests[a], answer_events[a]) /\ RowsKnown(requests[a], memories)
    BY DEF AnswersInv
  <2>2. Logged(a, "cloud_egress", "allowed") /\ Logged(a, "evidence_pack_created", "none")
    BY <2>1 DEF Honest, Cleared, Packed, Has, Logged
  <2>3. ~Blocked(requests[a])
    BY <2>1 DEF Honest, Cleared
  <2>4. ASSUME NEW id \in DOMAIN requests[a].evidence
        PROVE  /\ classification[id] \in allowed_classifications
               /\ memories[id].tenant_id = requests[a].question.access.tenant_id
               /\ \/ allowed_roles[id] = {}
                  \/ allowed_roles[id] \cap requests[a].question.access.roles # {}
    BY <2>1, <2>3, <2>4 DEF RowsKnown, Known, AccessAllowed, Blocked
  <2> QED
    BY <2>2, <2>4
<1> QED
  BY <1>1, AnswersAlways, PTL

-----------------------------------------------------------------------------
(* Stages *)

Stages == {"new", "search", "list", "rank", "log_evidence", "log_retrieval", "egress",
           "generate", "verify", "withhold", "finalize", "done", "raised"}

Outcomes == {"nothing", "abstained", "answered"}

\* The most events the trail can have by then.
Longest(pc) ==
  CASE pc \in {"new", "search", "list", "rank"}  -> 0
    [] pc = "log_evidence"                       -> 1
    [] pc = "log_retrieval"                      -> 2
    [] pc = "egress"                             -> 3
    [] pc \in {"generate", "verify"}             -> 4
    [] pc \in {"withhold", "finalize"}           -> 5
    [] OTHER                                     -> 6

\* The evidence that has an approval event on record.
Approvals(a) == {id \in DOMAIN requests[a].evidence : HasApproval(id)}

Staged(r, trail) ==
  /\ r.pc \in Stages
  /\ r.told \in Outcomes
  /\ r.pc # "new" => r.question \in Questions
  /\ Len(trail) <= Longest(r.pc)

\* A chat keeps to its limit, and every answer to one version of a key.
Chosen(r) ==
  /\ r.question.chat => Cardinality(DOMAIN r.evidence) <= retrieval_limit
  /\ \A m, n \in DOMAIN r.evidence :
       m # n => r.evidence[m].conflict_key # r.evidence[n].conflict_key

\* What a step after the choice of the pack does to stage and trail.
Progress(a) ==
  /\ requests[a].pc # "new"
  /\ requests'[a].pc \in Stages
  /\ requests'[a].told \in Outcomes
  /\ Len(answer_events'[a]) <= Longest(requests'[a].pc)
  /\ \/ answer_events'[a] = answer_events[a]
     \/ \E event \in AnswerEvent : answer_events'[a] = Append(answer_events[a], event)

\* One append_event call makes the trail one event longer.
LEMMA OneMore ==
  ASSUME AnswerShape, NEW a \in Answers, NEW type, NEW outcome, NEW ids,
         [event_type |-> type, outcome |-> outcome, ids |-> ids] \in AnswerEvent,
         LogsAnswer(a, type, outcome, ids)
  PROVE  /\ Len(answer_events[a]) \in Nat
         /\ Len(answer_events'[a]) = Len(answer_events[a]) + 1
         /\ \E event \in AnswerEvent : answer_events'[a] = Append(answer_events[a], event)
<1> DEFINE event == [event_type |-> type, outcome |-> outcome, ids |-> ids]
<1>1. event \in AnswerEvent /\ event.event_type = type /\ event.ids = ids
  OBVIOUS
<1>2. answer_events[a] \in Seq(AnswerEvent)
  BY DEF AnswerShape
<1>3. answer_events'[a] = Append(answer_events[a], event)
  BY DEF AnswerShape, LogsAnswer
<1> HIDE DEF event
<1> QED
  BY <1>1, <1>2, <1>3

\* Where a step leads that changes nothing of the request but its stage, what
\* it cited and what its caller is told.
LEMMA Leads ==
  ASSUME AnswerShape, NEW a \in Answers, NEW pc, GoesTo(a, pc)
  PROVE  requests'[a].pc = pc /\ requests'[a].told = requests[a].told
<1>1. IsRequest(requests[a])
  BY DEF AnswerShape
<1>2. requests'[a] = [requests[a] EXCEPT !.pc = pc]
  BY DEF GoesTo, AnswerShape
<1> QED
  BY <1>1, <1>2 DEF IsRequest

LEMMA LaterProgress ==
  ASSUME AnswerShape, NEW a \in Answers, Staged(requests[a], answer_events[a]), Later(a)
  PROVE  Progress(a)
<1>0. /\ answer_events[a] \in Seq(AnswerEvent)
      /\ Len(answer_events[a]) \in Nat
      /\ Len(answer_events[a]) <= Longest(requests[a].pc)
      /\ requests[a].told \in Outcomes
  BY DEF Staged, AnswerShape
<1>1. CASE LogEvidence(a)
  <2>1. /\ requests[a].pc = "log_evidence"
        /\ GoesTo(a, "log_retrieval")
        /\ LogsAnswer(a, "evidence_pack_created", "none", Approvals(a))
    BY <1>1 DEF LogEvidence, Approvals
  <2>2. [event_type |-> "evidence_pack_created", outcome |-> "none", ids |-> Approvals(a)]
          \in AnswerEvent
    BY DEF AnswerEvent, Approvals, AnswerShape
  <2> QED
    BY <1>0, <2>1, <2>2, OneMore, Leads DEF Progress, Stages, Longest
<1>2. CASE LogRetrieval(a)
  <2>1. PICK outcome \in {"abstained", "answered"} :
          /\ LogsAnswer(a, "answer_finalized", outcome, {})
          /\ requests[a].pc = "log_retrieval"
          /\ requests' = [requests EXCEPT ![a] =
               IF requests[a].question.chat /\ outcome = "answered"
               THEN [requests[a] EXCEPT !.pc = IF requests[a].question.cloud
                                               THEN "egress" ELSE "generate"]
               ELSE [requests[a] EXCEPT !.pc = "done", !.told = outcome]]
    BY <1>2 DEF LogRetrieval
  <2>2. /\ requests'[a].pc \in {"egress", "generate", "done"}
        /\ requests'[a].told \in Outcomes
    BY <1>0, <2>1 DEF AnswerShape, IsRequest, Outcomes
  <2>3. /\ Len(answer_events'[a]) = Len(answer_events[a]) + 1
        /\ \E event \in AnswerEvent : answer_events'[a] = Append(answer_events[a], event)
    BY <2>1, OneMore DEF AnswerEvent
  <2> QED
    BY <1>0, <2>1, <2>2, <2>3 DEF Progress, Stages, Longest
<1>3. CASE LogEgress(a)
  <2>1. PICK pc \in {"withhold", "generate"}, verdict \in {"blocked", "allowed"} :
          /\ requests[a].pc = "egress"
          /\ GoesTo(a, pc)
          /\ LogsAnswer(a, "cloud_egress", verdict, {})
    BY <1>3 DEF LogEgress
  <2>2. /\ Len(answer_events'[a]) = Len(answer_events[a]) + 1
        /\ \E event \in AnswerEvent : answer_events'[a] = Append(answer_events[a], event)
    BY <2>1, OneMore DEF AnswerEvent
  <2> QED
    BY <1>0, <2>1, <2>2, Leads DEF Progress, Stages, Longest
<1>4. ASSUME NEW cited, Generate(a, cited) PROVE Progress(a)
  <2>1. PICK pc \in {"verify", "finalize"} :
          /\ requests[a].pc = "generate"
          /\ requests' = [requests EXCEPT ![a].pc = pc, ![a].cited = cited]
          /\ answer_events' = answer_events
    BY <1>4 DEF Generate
  <2>2. requests'[a].pc = pc /\ requests'[a].told = requests[a].told
    BY <2>1 DEF AnswerShape, IsRequest
  <2> QED
    BY <1>0, <2>1, <2>2 DEF Progress, Stages, Longest
<1>5. CASE LogVerified(a)
  <2>1. PICK pc \in {"withhold", "finalize"}, verdict \in {"missing", "unsupported", "passed"} :
          /\ requests[a].pc = "verify"
          /\ GoesTo(a, pc)
          /\ LogsAnswer(a, "generation_verified", verdict, {})
    BY <1>5 DEF LogVerified, Verdict
  <2>2. /\ Len(answer_events'[a]) = Len(answer_events[a]) + 1
        /\ \E event \in AnswerEvent : answer_events'[a] = Append(answer_events[a], event)
    BY <2>1, OneMore DEF AnswerEvent
  <2> QED
    BY <1>0, <2>1, <2>2, Leads DEF Progress, Stages, Longest
<1>6. CASE Withhold(a) \/ FinalizeAnswer(a)
  <2>1. PICK told \in {"abstained", "answered"} :
          /\ requests[a].pc \in {"withhold", "finalize"}
          /\ LogsAnswer(a, "answer_finalized", told, {})
          /\ requests' = [requests EXCEPT ![a].pc = "done", ![a].told = told]
    BY <1>6 DEF Withhold, FinalizeAnswer
  <2>r. IsRequest(requests[a]) /\ requests'[a] = [requests[a] EXCEPT !.pc = "done", !.told = told]
    BY <2>1 DEF AnswerShape
  <2>2. requests'[a].pc = "done" /\ requests'[a].told = told
    BY <2>r DEF IsRequest
  <2>3. /\ Len(answer_events'[a]) = Len(answer_events[a]) + 1
        /\ \E event \in AnswerEvent : answer_events'[a] = Append(answer_events[a], event)
    BY <2>1, OneMore DEF AnswerEvent
  <2> QED
    BY <1>0, <2>1, <2>2, <2>3 DEF Progress, Stages, Longest, Outcomes
<1>7. CASE Raise(a)
  <2>1. /\ requests[a].pc \in Stages \ {"new", "done", "raised"}
        /\ GoesTo(a, "raised")
        /\ answer_events' = answer_events
    BY <1>7 DEF Raise, Staged
  <2> QED
    BY <1>0, <2>1, Leads DEF Progress, Stages, Longest
<1> QED
  BY <1>1, <1>2, <1>3, <1>4, <1>5, <1>6, <1>7 DEF Later

-----------------------------------------------------------------------------
(* What the evidence owes to reviewers *)

\* Admission activates the record that was read, or its approval is on record,
\* about to be, or was cut short before.
Justified(copy, id) ==
  \/ CallersShareIds
  \/ AdmissionStatus(copy) = "verified_active"
  \/ HasApproval(id)
  \/ \E w \in Workers : Approving(job[w], id)
  \/ id \in unlogged

\* A row was read before its history is, and the history only grows.
CopiesJustified(r) ==
  /\ \A id \in DOMAIN r.candidates :
       r.candidates[id].status \in {"verified_active", "superseded"} =>
         Justified(r.candidates[id], id)
  /\ \A id \in DOMAIN r.evidence : Justified(r.evidence[id], id)

Traced(b) ==
  /\ Staged(requests[b], answer_events[b])
  /\ Chosen(requests[b])
  /\ CopiesJustified(requests[b])

TracedInv == AnswersInv /\ \A b \in Answers : Traced(b)

\* What the operations do meanwhile leaves a copy justified.
LEMMA JustifiedStays ==
  ASSUME JobsInv, [Next]_vars, NEW copy, NEW id \in Ids, Justified(copy, id)
  PROVE  Justified(copy, id)'
<1>1. HasApproval(id) => HasApproval(id)'
  BY StoreSteps DEF TrailsGrow, HasApproval
<1>2. id \in unlogged => id \in unlogged'
  BY StoreSteps
<1>3. ASSUME NEW w \in Workers, Approving(job[w], id)
      PROVE  HasApproval(id)' \/ id \in unlogged' \/ \E v \in Workers : Approving(job'[v], id)
  <2>1. CASE UNCHANGED vars
    BY <1>3, <2>1 DEF vars
  <2>2. CASE Next
    <3>1. PICK v \in Workers : Begins(v) \/ Calls(v) \/ Crash(v)
      BY <2>2, NextIs
    <3>2. LogsApproval(v) /\ Moves(v)
      BY <3>1, StepLogs, StepLeaves
    <3>3. WasReviewed(id)' => HasApproval(id)'
      BY DEF WasReviewed, HasApproval
    <3> QED
      BY <1>3, <3>2, <3>3 DEF LogsApproval, Moves
  <2> QED
    BY <2>1, <2>2
<1> QED
  BY <1>1, <1>2, <1>3 DEF Justified

\* A row that may be evidence is justified when it is read.
LEMMA ReadIsJustified ==
  ASSUME Kept, NEW id \in Stored,
         memories[id].status \in {"verified_active", "superseded"}
  PROVE  Justified(memories[id], id)
BY DEF Kept, Approved, Warranted, HasStatus, Stored, WasReviewed, Justified, HasApproval

LEMMA NothingTraced ==
  ASSUME NEW r, r.candidates = NoRows, r.evidence = NoRows
  PROVE  Chosen(r) /\ CopiesJustified(r)
<1>1. DOMAIN NoRows = {}
  BY DEF NoRows
<1>2. Cardinality({}) = 0 /\ 0 <= retrieval_limit
  BY FS_EmptySet, AnsweringAssumption
<1> QED
  BY <1>1, <1>2 DEF Chosen, CopiesJustified

LEMMA AskTraced ==
  ASSUME AnswerShape, NEW a \in Answers, Traced(a),
         NEW question \in Questions, Ask(a, question)
  PROVE  Traced(a)'
<1>1. /\ requests[a] = NoRequest
      /\ requests'[a] = [NoRequest EXCEPT !.pc = IF question.chat THEN "search" ELSE "list",
                                          !.question = question]
      /\ answer_events' = answer_events
  BY DEF Ask, AnswerShape
<1>2. /\ requests'[a].pc \in {"search", "list"}
      /\ requests'[a].told = "nothing"
      /\ requests'[a].question = question
      /\ requests'[a].candidates = NoRows
      /\ requests'[a].evidence = NoRows
      /\ requests[a].pc = "new"
  BY <1>1 DEF NoRequest
<1>3. answer_events[a] \in Seq(AnswerEvent) /\ Len(answer_events[a]) = 0
  BY <1>2 DEF Traced, Staged, Longest, AnswerShape
<1>5. Staged(requests'[a], answer_events'[a])
  BY <1>1, <1>2, <1>3 DEF Staged, Stages, Outcomes, Longest
<1>6. Chosen(requests'[a])
  BY <1>2, NothingTraced
<1>7. CopiesJustified(requests[a])'
  BY <1>2 DEF CopiesJustified, NoRows
<1> QED
  BY <1>5, <1>6, <1>7 DEF Traced

LEMMA SearchStage ==
  ASSUME AnswerShape, NEW a \in Answers,
         (\E id \in Ids : GetCandidate(a, id)) \/ EndSearch(a) \/ ListAll(a)
  PROVE  /\ requests[a].pc \in {"search", "list"}
         /\ requests'[a].pc \in {"search", "list", "rank"}
         /\ requests'[a].told = requests[a].told
         /\ answer_events' = answer_events
<1>1. IsRequest(requests[a])
  BY DEF AnswerShape
<1>2. ASSUME NEW pc, NEW rows,
             requests' = [requests EXCEPT ![a].pc = pc, ![a].candidates = rows]
      PROVE  requests'[a].pc = pc /\ requests'[a].told = requests[a].told
  <2>1. requests'[a] = [requests[a] EXCEPT !.pc = pc, !.candidates = rows]
    BY <1>2 DEF AnswerShape
  <2> QED
    BY <1>1, <2>1 DEF IsRequest
<1>3. ASSUME NEW id \in Ids, GetCandidate(a, id)
      PROVE  /\ requests[a].pc = "search"
             /\ requests'[a].pc = "search"
             /\ requests'[a].told = requests[a].told
             /\ answer_events' = answer_events
  <2> DEFINE rows == [m \in DOMAIN requests[a].candidates \cup {id} |->
                        IF m = id THEN memories[id] ELSE requests[a].candidates[m]]
  <2>1. requests'[a] = [requests[a] EXCEPT !.candidates = rows]
    BY <1>3 DEF GetCandidate, AnswerShape
  <2> HIDE DEF rows
  <2> QED
    BY <1>1, <1>3, <2>1 DEF GetCandidate, IsRequest
<1>4. ASSUME EndSearch(a)
      PROVE  /\ requests[a].pc = "search"
             /\ requests'[a].pc \in {"list", "rank"}
             /\ requests'[a].told = requests[a].told
             /\ answer_events' = answer_events
  <2> DEFINE found == Filtered(requests[a].candidates, requests[a].question)
             stage == IF Cardinality(found) < retrieval_limit THEN "list" ELSE "rank"
             rows == OnlyRows(requests[a].candidates, found)
  <2>1. requests' = [requests EXCEPT ![a].pc = stage, ![a].candidates = rows]
    BY <1>4 DEF EndSearch
  <2>2. stage \in {"list", "rank"}
    OBVIOUS
  <2> HIDE DEF found, stage, rows
  <2> QED
    BY <1>2, <1>4, <2>1, <2>2 DEF EndSearch
<1>5. ASSUME ListAll(a)
      PROVE  /\ requests[a].pc = "list"
             /\ requests'[a].pc = "rank"
             /\ requests'[a].told = requests[a].told
             /\ answer_events' = answer_events
  <2> DEFINE rows == [m \in DOMAIN requests[a].candidates \cup Stored |->
                        IF m \in DOMAIN requests[a].candidates
                        THEN requests[a].candidates[m] ELSE memories[m]]
  <2>1. requests' = [requests EXCEPT ![a].pc = "rank", ![a].candidates = rows]
    BY <1>5 DEF ListAll
  <2> HIDE DEF rows
  <2> QED
    BY <1>2, <1>5, <2>1 DEF ListAll
<1> QED
  BY <1>3, <1>4, <1>5

LEMMA SearchTraced ==
  ASSUME AnswersInv, NEW a \in Answers, Traced(a),
         (\E id \in Ids : GetCandidate(a, id)) \/ EndSearch(a) \/ ListAll(a)
  PROVE  Traced(a)'
<1>1. /\ requests[a].pc \in {"search", "list"}
      /\ requests'[a].pc \in {"search", "list", "rank"}
      /\ requests'[a].told = requests[a].told
      /\ answer_events' = answer_events
  BY SearchStage DEF AnswersInv
<1>2. /\ requests'[a].evidence = requests[a].evidence
      /\ requests'[a].question = requests[a].question
  BY SearchSound DEF AnswersInv
<1>3. RowsRead(a) /\ audit_events' = audit_events /\ job' = job /\ unlogged' = unlogged
  BY SearchReads DEF AnswersInv, vars
<1>4. Staged(requests'[a], answer_events'[a])
  BY <1>1, <1>2 DEF Traced, Staged, Stages, Longest
<1>5. Chosen(requests'[a])
  BY <1>2 DEF Traced, Chosen
<1>6. ASSUME NEW id \in DOMAIN requests'[a].candidates,
             requests'[a].candidates[id].status \in {"verified_active", "superseded"}
      PROVE  Justified(requests'[a].candidates[id], id)
  <2>1. CASE /\ id \in DOMAIN requests[a].candidates
             /\ requests'[a].candidates[id] = requests[a].candidates[id]
    <3>1. Justified(requests[a].candidates[id], id)
      BY <1>6, <2>1 DEF Traced, CopiesJustified
    <3> QED
      BY <2>1, <3>1
  <2>2. CASE id \in Stored /\ requests'[a].candidates[id] = memories[id]
    <3>1. Kept /\ memories[id].status \in {"verified_active", "superseded"}
      BY <1>6, <2>2 DEF AnswersInv
    <3>2. Justified(memories[id], id)
      BY <2>2, <3>1, ReadIsJustified
    <3> QED
      BY <2>2, <3>2
  <2> QED
    BY <1>3, <1>6, <2>1, <2>2 DEF RowsRead
<1>7. CopiesJustified(requests[a])'
  <2>1. ASSUME NEW id \in DOMAIN requests'[a].candidates,
               requests'[a].candidates[id].status \in {"verified_active", "superseded"}
        PROVE  Justified(requests[a].candidates[id], id)'
    BY <1>3, <1>6, <2>1 DEF Justified, HasApproval
  <2>2. ASSUME NEW id \in DOMAIN requests'[a].evidence
        PROVE  Justified(requests[a].evidence[id], id)'
    <3>1. Justified(requests[a].evidence[id], id)
      BY <1>2, <2>2 DEF Traced, CopiesJustified
    <3> QED
      BY <1>2, <1>3, <3>1 DEF Justified, HasApproval
  <2> QED
    BY <2>1, <2>2 DEF CopiesJustified
<1> QED
  BY <1>4, <1>5, <1>7 DEF Traced

LEMMA QueryTraced ==
  ASSUME AnswersInv, NEW a \in Answers, Traced(a), LogQuery(a)
  PROVE  Traced(a)'
<1>1. PICK ids \in Selections(requests[a]) :
        /\ requests[a].pc = "rank"
        /\ requests' = [requests EXCEPT
             ![a].pc = "log_evidence",
             ![a].evidence = OnlyRows(requests[a].candidates, ids),
             ![a].candidates = NoRows]
        /\ LogsAnswer(a, "query", "none", {})
        /\ UNCHANGED vars
  BY DEF LogQuery
<1> DEFINE pack == OnlyRows(requests[a].candidates, ids)
<1>2. /\ requests'[a].evidence = pack
      /\ requests'[a].candidates = NoRows
      /\ requests'[a].question = requests[a].question
  BY <1>1, LogQuerySound DEF AnswersInv
<1>3. requests'[a].pc = "log_evidence" /\ requests'[a].told = requests[a].told
  <2>1. IsRequest(requests[a])
    BY DEF AnswersInv, AnswerShape
  <2>2. requests'[a] = [requests[a] EXCEPT !.pc = "log_evidence", !.evidence = pack,
                                           !.candidates = NoRows]
    BY <1>1 DEF AnswersInv, AnswerShape
  <2> HIDE DEF pack
  <2> QED
    BY <2>1, <2>2 DEF IsRequest
<1>4. /\ DOMAIN pack = ids
      /\ \A id \in ids : pack[id] = requests[a].candidates[id]
      /\ ids \subseteq Filtered(requests[a].candidates, requests[a].question)
      /\ \A m, n \in ids : m # n => requests[a].candidates[m].conflict_key
                                      # requests[a].candidates[n].conflict_key
      /\ requests[a].question.chat => Cardinality(ids) <= retrieval_limit
  BY DEF OnlyRows, Selections
<1> HIDE DEF pack
<1>5. PICK event \in AnswerEvent :
        /\ answer_events'[a] = Append(answer_events[a], event)
        /\ event.event_type = "query"
  <2> DEFINE event == [event_type |-> "query", outcome |-> "none", ids |-> {}]
  <2>1. event \in AnswerEvent /\ event.event_type = "query"
    BY DEF AnswerEvent
  <2>2. answer_events'[a] = Append(answer_events[a], event)
    BY <1>1 DEF LogsAnswer, AnswersInv, AnswerShape
  <2> HIDE DEF event
  <2> QED
    BY <2>1, <2>2
<1>6. /\ answer_events[a] \in Seq(AnswerEvent)
      /\ Len(answer_events[a]) <= 0
  BY <1>1 DEF AnswersInv, AnswerShape, Traced, Staged, Longest
<1>7. /\ Len(answer_events'[a]) = 1
      /\ DOMAIN answer_events'[a] = {1}
      /\ answer_events'[a][1] = event
  <2>1. Len(answer_events[a]) = 0
    BY <1>6
  <2> QED
    BY <1>5, <1>6, <2>1
<1>8. Staged(requests'[a], answer_events'[a])
  BY <1>1, <1>2, <1>3, <1>7 DEF Traced, Staged, Stages, Longest
<1>9. Chosen(requests'[a])
  BY <1>2, <1>4 DEF Chosen
<1>11. CopiesJustified(requests[a])'
  <2>1. ASSUME NEW id \in ids PROVE Justified(pack[id], id)
    BY <1>4, <2>1 DEF Traced, CopiesJustified, Filtered, EligibleAt
  <2>2. audit_events' = audit_events /\ job' = job /\ unlogged' = unlogged
    BY <1>1 DEF vars
  <2>3. DOMAIN NoRows = {}
    BY DEF NoRows
  <2> QED
    BY <1>2, <1>4, <2>1, <2>2, <2>3 DEF CopiesJustified, Justified, HasApproval
<1> QED
  BY <1>8, <1>9, <1>11 DEF Traced

LEMMA LaterTraced ==
  ASSUME AnswersInv, NEW a \in Answers, Traced(a), Later(a), UNCHANGED vars
  PROVE  Traced(a)'
<1>1. /\ AnswerShape
      /\ Progress(a)
      /\ requests'[a].candidates = requests[a].candidates
      /\ requests'[a].evidence = requests[a].evidence
      /\ requests'[a].question = requests[a].question
  BY LaterSound, LaterProgress DEF AnswersInv, Traced
<1>2. Staged(requests'[a], answer_events'[a])
  BY <1>1 DEF Traced, Staged, Progress
<1>4. Chosen(requests'[a])
  BY <1>1 DEF Traced, Chosen
<1>5. CopiesJustified(requests[a])'
  BY <1>1 DEF Traced, CopiesJustified, Justified, HasApproval, vars
<1> QED
  BY <1>2, <1>4, <1>5 DEF Traced

LEMMA TracedStep == TracedInv /\ [AnswerNext]_answerVars => TracedInv'
<1> SUFFICES ASSUME TracedInv, [AnswerNext]_answerVars PROVE TracedInv'
  OBVIOUS
<1>0. AnswersInv /\ (\A b \in Answers : Traced(b)) /\ JobsInv
  BY DEF TracedInv, AnswersInv
<1>1. AnswersInv'
  BY <1>0, AnswersStep
<1>2. CASE [Next]_vars /\ UNCHANGED <<requests, answer_events>>
  <2>2. ASSUME NEW b \in Answers PROVE Traced(b)'
    <3>2. \A copy, id : id \in Ids /\ Justified(copy, id) => Justified(copy, id)'
      BY <1>0, <1>2, JustifiedStays
    <3>3. /\ DOMAIN requests[b].candidates \subseteq Ids
          /\ DOMAIN requests[b].evidence \subseteq Ids
      BY <1>0 DEF AnswersInv, RowsKnown, Known
    <3>4. CopiesJustified(requests[b])
      BY <1>0 DEF Traced
    <3>5. CopiesJustified(requests[b])'
      <4>1. requests' = requests
        BY <1>2
      <4>2. ASSUME NEW id \in DOMAIN requests[b].candidates,
                   requests[b].candidates[id].status \in {"verified_active", "superseded"}
            PROVE  Justified(requests[b].candidates[id], id)'
        BY <3>2, <3>3, <3>4, <4>1, <4>2 DEF CopiesJustified
      <4>3. ASSUME NEW id \in DOMAIN requests[b].evidence
            PROVE  Justified(requests[b].evidence[id], id)'
        BY <3>2, <3>3, <3>4, <4>1, <4>3 DEF CopiesJustified
      <4> QED
        BY <4>1, <4>2, <4>3 DEF CopiesJustified
    <3> QED
      BY <1>0, <1>2, <3>5 DEF Traced
  <2> QED
    BY <1>1, <2>2 DEF TracedInv
<1>3. ASSUME NEW a \in Answers, Answer(a) PROVE TracedInv'
  <2>1. UNCHANGED vars
    BY <1>3 DEF Answer, Ask, GetCandidate, EndSearch, ListAll, LogQuery, LogEvidence,
                LogRetrieval, LogEgress, Generate, LogVerified, Withhold, FinalizeAnswer, Raise
  <2>2. Traced(a)'
    BY <1>0, <1>3, <2>1, AskTraced, SearchTraced, QueryTraced, LaterTraced
       DEF Answer, Later, AnswersInv
  <2>3. Elsewhere(a)
    <3>1. CASE LogQuery(a)
      BY <1>0, <3>1, LogQuerySound DEF LogQuery, AnswersInv
    <3> QED
      BY <1>0, <1>3, <3>1, AskSound, SearchSound, LaterSound DEF Answer, Later, AnswersInv
  <2>4. ASSUME NEW b \in Answers \ {a} PROVE Traced(b)'
    <3>1. /\ requests'[b] = requests[b] /\ answer_events'[b] = answer_events[b]
          /\ audit_events' = audit_events /\ job' = job /\ unlogged' = unlogged
      BY <2>1, <2>3 DEF Elsewhere, vars
    <3>2. /\ Staged(requests[b], answer_events[b])
          /\ Chosen(requests[b])
          /\ CopiesJustified(requests[b])
      BY <1>0 DEF Traced
    <3>3. CopiesJustified(requests[b])'
      BY <3>1, <3>2 DEF CopiesJustified, Justified, HasApproval
    <3>4. /\ Staged(requests'[b], answer_events'[b])
          /\ Chosen(requests'[b])
      BY <3>1, <3>2
    <3> QED
      BY <3>3, <3>4 DEF Traced
  <2> QED
    BY <1>1, <2>2, <2>4 DEF TracedInv
<1> QED
  BY <1>2, <1>3 DEF AnswerNext, Govern, answerVars, vars

LEMMA TracedStart == AnswerInit => TracedInv
<1> SUFFICES ASSUME AnswerInit PROVE TracedInv
  OBVIOUS
<1>1. AnswersInv
  BY AnswersStart
<1>3. ASSUME NEW b \in Answers PROVE Traced(b)
  <2>1. requests[b] = NoRequest /\ answer_events[b] = <<>>
    BY DEF AnswerInit
  <2>2. /\ NoRequest.pc = "new" /\ NoRequest.told = "nothing"
        /\ NoRequest.candidates = NoRows /\ NoRequest.evidence = NoRows
    BY DEF NoRequest
  <2>3. answer_events[b] \in Seq(AnswerEvent) /\ Len(answer_events[b]) = 0
    BY <2>1
  <2>4. requests[b].pc = "new" /\ requests[b].told = "nothing"
    BY <2>1, <2>2
  <2>5. Longest("new") = 0
    BY DEF Longest
  <2>6. Staged(requests[b], answer_events[b])
    BY <2>3, <2>4, <2>5 DEF Staged, Stages, Outcomes
  <2> QED
    BY <2>1, <2>2, <2>3, <2>6, NothingTraced DEF Traced
<1> QED
  BY <1>1, <1>3 DEF TracedInv

LEMMA TracedAlways == AnswerSpec => []TracedInv
BY TracedStart, TracedStep, PTL DEF AnswerSpec

\* Requests and trails have their shape; a chat keeps to its retrieval limit
\* and every answer to one version of a conflict key (query_records, select).
THEOREM AnswersAreWellTyped == AnswerSpec => []AnswerTypeOK
<1>1. TracedInv => AnswerTypeOK
  <2> SUFFICES ASSUME TracedInv, NEW a \in Answers
               PROVE  /\ requests[a].told \in {"nothing", "abstained", "answered"}
                      /\ DOMAIN requests[a].evidence \subseteq Stored
                      /\ requests[a].question.chat =>
                           Cardinality(DOMAIN requests[a].evidence) <= retrieval_limit
                      /\ \A m, n \in DOMAIN requests[a].evidence :
                           m # n => requests[a].evidence[m].conflict_key
                                      # requests[a].evidence[n].conflict_key
                      /\ answer_events[a] \in Seq(AnswerEvent)
                      /\ Len(answer_events[a]) <= 6
    BY DEF AnswerTypeOK
  <2>1. Staged(requests[a], answer_events[a]) /\ Chosen(requests[a])
    BY DEF TracedInv, Traced
  <2>2. DOMAIN requests[a].evidence \subseteq Stored
    BY DEF TracedInv, AnswersInv, RowsKnown, Known, Stored, IsStored
  <2>3. answer_events[a] \in Seq(AnswerEvent)
    BY DEF TracedInv, AnswersInv, AnswerShape
  <2>4. Longest(requests[a].pc) <= 6 /\ Longest(requests[a].pc) \in Nat
    BY DEF Longest
  <2>5. Len(answer_events[a]) <= 6
    BY <2>1, <2>3, <2>4 DEF Staged
  <2> QED
    BY <2>1, <2>2, <2>3, <2>5 DEF Staged, Chosen, Outcomes
<1> QED
  BY <1>1, TracedAlways, PTL

\* The step that writes the pack lists what has an approval on record.
LEMMA PackLists ==
  ASSUME AnswersInv, [AnswerNext]_answerVars, NEW a \in Answers, PackWritten(a)
  PROVE  answer_events'[a][Len(answer_events'[a])].ids = Approvals(a)
<1>0. AnswerShape /\ IsRequest(requests[a]) /\ answer_events[a] \in Seq(AnswerEvent)
  BY DEF AnswersInv, AnswerShape
<1>1. requests[a].pc = "log_evidence" /\ requests'[a].pc = "log_retrieval"
  BY DEF PackWritten
<1>2. PICK b \in Answers : Answer(b)
  BY <1>1 DEF AnswerNext, Govern, answerVars
<1>3. b = a
  <2>1. SUFFICES ASSUME b # a PROVE FALSE
    OBVIOUS
  <2>2. Honest(requests[b], answer_events[b])
    BY DEF AnswersInv
  <2>3. Elsewhere(b)
    <3>1. CASE LogQuery(b)
      BY <1>0, <2>2, <3>1, LogQuerySound DEF LogQuery
    <3> QED
      BY <1>0, <1>2, <2>2, <3>1, AskSound, SearchSound, LaterSound DEF Answer, Later
  <2> QED
    BY <1>1, <2>1, <2>3 DEF Elsewhere
<1>4. LogEvidence(a)
  <2>1. NoRequest.pc = "new"
    BY DEF NoRequest
  <2>2. ~(\E question \in Questions : Ask(a, question))
    BY <1>1, <2>1 DEF Ask
  <2>3. ~Raise(a)
    BY <1>0, <1>1, Leads DEF Raise
  <2> QED
    BY <1>1, <1>2, <1>3, <2>2, <2>3
       DEF Answer, GetCandidate, EndSearch, ListAll, LogQuery, LogRetrieval, LogEgress, Generate,
           LogVerified, Withhold, FinalizeAnswer
<1> DEFINE event == [event_type |-> "evidence_pack_created", outcome |-> "none",
                     ids |-> Approvals(a)]
<1>5. answer_events'[a] = Append(answer_events[a], event)
  BY <1>0, <1>4 DEF LogEvidence, LogsAnswer, Approvals, AnswerShape
<1>6. event.ids = Approvals(a)
  OBVIOUS
<1> HIDE DEF event
<1> QED
  BY <1>0, <1>5, <1>6

\* The pack lists every piece of evidence that only a reviewer could have
\* activated, whatever store calls came between reading row and history
\* (query_records, evidence_pack_created), save where the review's event is
\* the reviewing worker's next call or was cut off.  Callers choose
\* distinct ids.
THEOREM PacksListApprovals ==
  ASSUME ~CallersShareIds
  PROVE  AnswerSpec => EvidenceIsTraceable
<1>1. TracedInv /\ [AnswerNext]_answerVars =>
        [\A a \in Answers : PackWritten(a) =>
           \A id \in DOMAIN requests[a].evidence :
             \/ AdmissionStatus(requests[a].evidence[id]) = "verified_active"
             \/ id \in answer_events'[a][Len(answer_events'[a])].ids
             \/ \E w \in Workers : Approving(job[w], id)
             \/ id \in unlogged]_answerVars
  <2> SUFFICES ASSUME TracedInv, [AnswerNext]_answerVars,
                      NEW a \in Answers, PackWritten(a), NEW id \in DOMAIN requests[a].evidence
               PROVE  \/ AdmissionStatus(requests[a].evidence[id]) = "verified_active"
                      \/ id \in answer_events'[a][Len(answer_events'[a])].ids
                      \/ \E w \in Workers : Approving(job[w], id)
                      \/ id \in unlogged
    OBVIOUS
  <2>1. answer_events'[a][Len(answer_events'[a])].ids = Approvals(a)
    BY PackLists DEF TracedInv
  <2>2. Justified(requests[a].evidence[id], id)
    BY DEF TracedInv, Traced, CopiesJustified
  <2> QED
    BY <2>1, <2>2 DEF Justified, Approvals
<1> QED
  BY <1>1, TracedAlways, PTL DEF AnswerSpec, EvidenceIsTraceable

-----------------------------------------------------------------------------
(* Old trails *)

\* A trail that can be read belongs to a request past the choice of its pack.
LEMMA ReadableIsLate ==
  ASSUME TracedInv, NEW a \in Answers, NEW access, Readable(a, access)
  PROVE  /\ requests[a].pc \notin {"new", "search", "list", "rank"}
         /\ requests[a].question \in Questions
<1>1. PICK i \in DOMAIN answer_events[a] : TRUE
  BY DEF Readable, Logged
<1>2. answer_events[a] \in Seq(AnswerEvent)
  BY DEF TracedInv, AnswersInv, AnswerShape
<1>3. Staged(requests[a], answer_events[a])
  BY DEF TracedInv, Traced
<1>4. Len(answer_events[a]) > 0
  BY <1>1, <1>2
<1>5. ASSUME requests[a].pc \in {"new", "search", "list", "rank"} PROVE FALSE
  <2>1. Longest(requests[a].pc) = 0
    BY <1>5 DEF Longest
  <2> QED
    BY <1>2, <1>3, <1>4, <2>1 DEF Staged
<1> QED
  BY <1>3, <1>5 DEF Staged

\* No step of the request itself takes the trail from a reader.
LEMMA OwnStepsKeep ==
  ASSUME TracedInv, NEW a \in Answers, NEW access, Readable(a, access),
         Answer(a), UNCHANGED vars
  PROVE  Readable(a, access)'
<1>1. requests[a].pc \notin {"new", "search", "list", "rank"}
  BY ReadableIsLate
<1>2. Later(a)
  <2>0. NoRequest.pc = "new"
    BY DEF NoRequest
  <2>1. ~(\E question \in Questions : Ask(a, question))
    BY <1>1, <2>0 DEF Ask
  <2>2. ~(\E id \in Ids : GetCandidate(a, id)) /\ ~EndSearch(a) /\ ~ListAll(a) /\ ~LogQuery(a)
    BY <1>1 DEF GetCandidate, EndSearch, ListAll, LogQuery
  <2> QED
    BY <2>1, <2>2 DEF Answer, Later
<1>3. /\ AnswerShape
      /\ Progress(a)
      /\ requests'[a].evidence = requests[a].evidence
      /\ requests'[a].question = requests[a].question
  BY <1>2, LaterSound, LaterProgress DEF TracedInv, Traced, AnswersInv
<1>4. \A i \in DOMAIN answer_events[a] :
        i \in DOMAIN answer_events'[a] /\ answer_events'[a][i] = answer_events[a][i]
  <2>1. answer_events[a] \in Seq(AnswerEvent)
    BY <1>3 DEF AnswerShape
  <2>2. ASSUME NEW event \in AnswerEvent, answer_events'[a] = Append(answer_events[a], event)
        PROVE  \A i \in DOMAIN answer_events[a] :
                 i \in DOMAIN answer_events'[a] /\ answer_events'[a][i] = answer_events[a][i]
    BY <2>1, <2>2
  <2> QED
    BY <1>3, <2>2 DEF Progress
<1>5. /\ Logged(a, "query", "none")'
      /\ Logged(a, "evidence_pack_created", "none")'
  BY <1>4 DEF Readable, Logged
<1>6. Finalizations(a)' # {}
  BY <1>4 DEF Readable, Finalizations, IsFinalized
<1>7. memories' = memories
  BY DEF vars
<1> QED
  BY <1>3, <1>5, <1>6, <1>7 DEF Readable, IsStored

\* A window that covers a date is well formed.
LEMMA EligibleLoads ==
  ASSUME NEW record \in MemoryRecord, NEW d \in Date, EligibleAt(record, d)
  PROVE  WellFormedWindow(record)
<1>1. Start(record) \in Int /\ End(record) \in Int /\ d \in Int
  BY DatesAssumption DEF Start, End, MemoryRecord, OptionalDate, Date
<1> QED
  BY <1>1 DEF EligibleAt, IsValidAt, WellFormedWindow

\* What takes the trail from a reader is a change of a row of its evidence.
LEMMA RowsDecide ==
  ASSUME ~CallersShareIds, TracedInv, NEW a \in Answers, NEW access, Readable(a, access),
         [Next]_vars, UNCHANGED <<requests, answer_events>>, ~Readable(a, access)'
  PROVE  \E id \in DOMAIN requests[a].evidence :
           /\ id \in Stored
           /\ EligibleAt(memories[id], requests[a].question.as_of)
           /\ ~EligibleAt(memories'[id], requests[a].question.as_of)
<1>1. JobsInv /\ Kept /\ requests[a].question.as_of \in Date
  BY ReadableIsLate, AnsweringAssumption DEF TracedInv, AnswersInv
<1>2. PICK id \in DOMAIN requests[a].evidence :
        ~ /\ IsStored(id)'
          /\ WellFormedWindow(memories'[id])
          /\ AccessAllowed(id, memories'[id], access)
          /\ EligibleAt(memories'[id], requests[a].question.as_of)
  <2>1. requests' = requests /\ answer_events' = answer_events
    OBVIOUS
  <2>2. /\ Logged(a, "query", "none")'
        /\ Logged(a, "evidence_pack_created", "none")'
        /\ Finalizations(a)' # {}
        /\ requests'[a].question.access.tenant_id = access.tenant_id
    BY <2>1 DEF Readable, Logged, Finalizations, IsFinalized
  <2> QED
    BY <2>1, <2>2 DEF Readable
<1>3. /\ id \in Ids
      /\ IsStored(id)
      /\ AccessAllowed(id, memories[id], access)
      /\ EligibleAt(memories[id], requests[a].question.as_of)
  BY DEF TracedInv, AnswersInv, RowsKnown, Known, Readable
<1>4. /\ memories'[id] \in MemoryRecord
      /\ memories'[id].tenant_id = memories[id].tenant_id
      /\ IsStored(id)'
  BY <1>1, <1>3, RowKept, NamesAssumption DEF IsStored
<1>5. AccessAllowed(id, memories'[id], access)
  BY <1>3, <1>4 DEF AccessAllowed
<1>6. ~EligibleAt(memories'[id], requests[a].question.as_of)
  BY <1>1, <1>2, <1>4, <1>5, EligibleLoads
<1> QED
  BY <1>3, <1>6 DEF Stored

\* What a store call takes from a date, it takes for one of these reasons.
LEMMA EligibilityLost ==
  ASSUME JobsInv, Texts, Families, [Next]_vars, NEW id \in Stored, NEW d \in Date,
         EligibleAt(memories[id], d), ~EligibleAt(memories'[id], d)
  PROVE  \/ HasStatus(id, "expired")'
         \/ \E w \in Workers : ClosedFor(w, id, d) \/ Overwrites(w, id)
<1>1. memories' # memories
  OBVIOUS
<1>2. PICK w \in Workers : Begins(w) \/ Calls(w) \/ Crash(w)
  BY <1>1, NextIs DEF vars
<1>3. /\ Sound(job[w]) /\ job[w] \in Job /\ TypeOK /\ OfFamily(job[w]) /\ Fresh(w)
      /\ id \in Ids /\ IsStored(id) /\ memories[id] \in MemoryRecord
  BY DEF JobsInv, Families, Texts, Stored, IsStored, TypeOK
<1>4. CASE SaveOld(w)
  <2>1. /\ job[w].pc = "save_old" /\ job[w].op \in {"ingest", "approve", "expire"}
        /\ job[w].old \in DOMAIN job[w].todo /\ job[w].old \in Ids
    BY <1>4, SaveOldDoes
  <2>2. PICK record \in MemoryRecord :
          /\ Saves(job[w].old, record)
          /\ record.status = IF job[w].op = "expire" THEN "expired" ELSE "superseded"
    BY <1>4, SaveOldDoes
  <2>3. /\ memories'[job[w].old] = record
        /\ \A m \in Ids \ {job[w].old} : memories'[m] = memories[m]
    BY <1>3, <2>1, <2>2, SavesDoes
  <2>4. id = job[w].old /\ memories'[id] = record
    BY <1>3, <2>3
  <2>5. CASE job[w].op = "expire"
    BY <2>2, <2>4, <2>5, NamesAssumption DEF HasStatus, IsStored
  <2>6. CASE job[w].op # "expire" /\ job[w].todo[id] # memories[id]
    BY <2>1, <2>4, <2>6 DEF Overwrites
  <2>7. CASE job[w].op # "expire" /\ job[w].todo[id] = memories[id]
    <3>1. memories'[id] = Closed(memories[id], job[w].record)
      BY <1>3, <1>4, <2>4, <2>7 DEF SaveOld, Saves, TypeOK
    <3>2. job[w].record \in MemoryRecord
      BY <1>3, <2>1, <2>7 DEF Sound, Shape
    <3>3. Start(job[w].record) <= d
      BY <1>3, <3>1, <3>2, ClosedStaysEligible
    <3>4. /\ memories[id].tenant_id = job[w].record.tenant_id
          /\ memories[id].conflict_key = job[w].record.conflict_key
      BY <1>3, <2>1, <2>4, <2>7 DEF OfFamily
    <3> QED
      BY <2>1, <2>4, <2>7, <3>3, <3>4 DEF ClosedFor
  <2> QED
    BY <2>5, <2>6, <2>7
<1>5. CASE Save(w)
  <2>1. /\ job[w].pc = "save" /\ job[w].op \in {"ingest", "approve", "reject"}
        /\ job[w].id \in Ids /\ job[w].record \in MemoryRecord
        /\ Saves(job[w].id, job[w].record)
    BY <1>5, SaveDoes
  <2>2. \A m \in Ids \ {job[w].id} : memories'[m] = memories[m]
    BY <1>3, <2>1, SavesDoes
  <2>3. id = job[w].id
    BY <1>3, <2>2
  <2>4. job[w].op # "ingest"
    BY <1>3, <2>1, <2>3 DEF Fresh
  <2>5. memories[id].status # "pending"
    BY DEF EligibleAt
  <2> QED
    BY <2>1, <2>3, <2>4, <2>5 DEF Overwrites
<1>6. Begins(w) \/ Resolve(w) \/ Check(w) => memories' = memories
  BY BeginDoes, ResolveDoes, CheckDoes DEF Reads
<1>7. Notes(w) \/ LogOld(w) \/ LogReviewed(w) \/ LogStatus(w) => memories' = memories
  BY NoteDoes, LogOldDoes, LogReviewedDoes, LogStatusDoes DEF Logs
<1>8. GetOld(w) \/ Crash(w) => memories' = memories
  BY GetOldDoes, CrashDoes
<1> QED
  BY <1>1, <1>2, <1>4, <1>5, <1>6, <1>7, <1>8 DEF Calls

LEMMA TrailStays ==
  ASSUME ~CallersShareIds, TracedInv, [AnswerNext]_answerVars, NEW a \in Answers, NEW access,
         Readable(a, access), ~Readable(a, access)'
  PROVE  \E id \in DOMAIN requests[a].evidence :
           \/ HasStatus(id, "expired")'
           \/ \E w \in Workers :
                ClosedFor(w, id, requests[a].question.as_of) \/ Overwrites(w, id)
<1>1. CASE [Next]_vars /\ UNCHANGED <<requests, answer_events>>
  <2>1. PICK id \in DOMAIN requests[a].evidence :
          /\ id \in Stored
          /\ EligibleAt(memories[id], requests[a].question.as_of)
          /\ ~EligibleAt(memories'[id], requests[a].question.as_of)
    BY <1>1, RowsDecide
  <2>2. JobsInv /\ Texts /\ Families /\ requests[a].question.as_of \in Date
    BY ReadableIsLate, AnsweringAssumption DEF TracedInv, AnswersInv, Kept
  <2> QED
    BY <1>1, <2>1, <2>2, EligibilityLost
<1>2. ASSUME NEW b \in Answers, Answer(b) PROVE FALSE
  <2>1. UNCHANGED vars
    BY <1>2 DEF Answer, Ask, GetCandidate, EndSearch, ListAll, LogQuery, LogEvidence,
                LogRetrieval, LogEgress, Generate, LogVerified, Withhold, FinalizeAnswer, Raise
  <2>2. a # b
    BY <1>2, <2>1, OwnStepsKeep
  <2>3. Elsewhere(b)
    <3>0. AnswerShape /\ Honest(requests[b], answer_events[b])
      BY DEF TracedInv, AnswersInv
    <3>1. CASE LogQuery(b)
      BY <3>0, <3>1, LogQuerySound DEF LogQuery
    <3> QED
      BY <1>2, <3>0, <3>1, AskSound, SearchSound, LaterSound DEF Answer, Later
  <2>4. /\ requests'[a] = requests[a] /\ answer_events'[a] = answer_events[a]
        /\ memories' = memories
    BY <2>1, <2>2, <2>3 DEF Elsewhere, vars
  <2>5. Readable(a, access)'
    BY <2>4 DEF Readable, Logged, Finalizations, IsFinalized, IsStored
  <2> QED
    BY <2>5
<1> QED
  BY <1>1, <1>2 DEF AnswerNext, Govern, answerVars, vars

\* A trail that could be read stays readable until its evidence expires or is
\* closed by a version that covers the answer's business date or the time
\* before it, or is saved from a copy that another worker has made stale
\* (get_answer_audit_trail after ingest, review and expiry).  Callers choose
\* distinct ids.
THEOREM OldTrailsStayReadable ==
  ASSUME ~CallersShareIds
  PROVE  AnswerSpec => TrailOutlivesReplacement
<1>1. TracedInv /\ [AnswerNext]_answerVars =>
        [\A a \in Answers, q \in Questions :
           Readable(a, q.access) /\ ~Readable(a, q.access)' =>
             \E id \in DOMAIN requests[a].evidence :
               \/ HasStatus(id, "expired")'
               \/ \E w \in Workers :
                    ClosedFor(w, id, requests[a].question.as_of)
                      \/ Overwrites(w, id)]_answerVars
  BY TrailStays
<1> QED
  BY <1>1, TracedAlways, PTL DEF AnswerSpec, TrailOutlivesReplacement

=============================================================================
