----------------------------- MODULE MCAnswering -----------------------------
(***************************************************************************)
(* One question to a memory of three rows: an open one, one for a role and *)
(* of a class that must not leave, and one nobody may read, which was      *)
(* stored before and, to save states, is of a key of its own.              *)
(***************************************************************************)
EXTENDS Answering, TLC

CONSTANTS t1, t2, k1, k2, k3, p1, a, b, c, r1

Submission(tenant_id, key, source, authority, from, to) ==
  [tenant_id |-> tenant_id, conflict_key |-> key, source_type |-> source,
   authority |-> authority, valid_from |-> from, valid_to |-> to,
   evidence |-> TRUE, extraction_confidence |-> 100, durable_value |-> 100,
   status |-> "candidate", supersedes |-> NoId,
   page_id |-> p1, page_version |-> 1]

SomeSubmissions ==
  {Submission(t1, k1, "official_policy", 80, 1, NoDate),
   Submission(t1, k1, "official_policy", 80, 2, NoDate),
   Submission(t1, k1, "approved_exception", 90, 1, 1),
   Submission(t1, k2, "user_claim", 50, NoDate, NoDate)}

Question(chat, cloud, as_of, roles) ==
  [chat |-> chat, cloud |-> cloud, require_citations |-> chat, as_of |-> as_of,
   access |-> [tenant_id |-> t1, roles |-> roles]]

SomeQuestions ==
  {Question(FALSE, FALSE, 1, {r1}), Question(TRUE, TRUE, 1, {r1}),
   Question(TRUE, FALSE, 2, {}),
   [Question(TRUE, TRUE, 2, {r1}) EXCEPT !.require_citations = FALSE],
   [Question(FALSE, FALSE, 1, {}) EXCEPT !.access.tenant_id = t2]}

Roles == (a :> {}) @@ (b :> {r1}) @@ (c :> {})

Classes == (a :> "internal") @@ (b :> "confidential") @@ (c :> "restricted")

Unread == [Submission(t1, k3, "official_policy", 80, 1, NoDate) EXCEPT !.page_id = NoPage]

\* An ingest of `Unread' has ended.
RememberedInit ==
  /\ memories = [id \in Ids |->
       IF id = c THEN [Unread EXCEPT !.status = "verified_active"] ELSE NoRecord]
  /\ audit_events = [id \in Ids |->
       IF id = c THEN Append(AdmissionTrail(<<>>, Unread),
                             Event("status_changed", "verified_active", {}))
       ELSE <<>>]
  /\ job = [w \in Workers |-> NoWork]
  /\ crashes = 0 /\ halfway = {} /\ unlogged = {}
  /\ requests = [x \in Answers |-> NoRequest]
  /\ answer_events = [x \in Answers |-> <<>>]

RememberedSpec == RememberedInit /\ [][AnswerNext]_answerVars

=============================================================================
