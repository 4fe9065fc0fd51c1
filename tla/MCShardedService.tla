-------------------------- MODULE MCShardedService --------------------------
(***************************************************************************)
(* One worker with three records of one key, enough to replace two active  *)
(* versions at once, and one with a page of another key.  No submission    *)
(* replaces a version that starts when it does or later: the row saved for *)
(* such a version stops every list_all, the other worker's included.       *)
(***************************************************************************)
EXTENDS ShardedService, TLC

CONSTANTS a, b, c, d, w1, w2, t1, k1, k2, p1

Submission(source, authority, from, to) ==
  [tenant_id |-> t1, conflict_key |-> k1, source_type |-> source,
   authority |-> authority, valid_from |-> from, valid_to |-> to,
   evidence |-> TRUE, extraction_confidence |-> 100, durable_value |-> 100,
   status |-> "candidate", supersedes |-> NoId,
   page_id |-> NoPage, page_version |-> 0]

FirstPolicy == Submission("system_record", 80, 1, 1)

SecondPolicy == Submission("system_record", 80, 2, NoDate)

PolicySinceEver == Submission("official_policy", 95, MinDate, NoDate)

Exception == Submission("approved_exception", 90, NoDate, NoDate)

Claim == Submission("user_claim", 95, 3, NoDate)

PageNote ==
  [Submission("meeting_note", 70, 2, NoDate) EXCEPT
     !.conflict_key = k2, !.page_id = p1, !.page_version = 1]

Requests ==
  (w1 :> {<<a, FirstPolicy>>, <<b, SecondPolicy>>, <<b, PolicySinceEver>>,
          <<b, Claim>>, <<c, Exception>>, <<c, Claim>>})
  @@ (w2 :> {<<d, PageNote>>})

AllSubmissions == {r[2] : r \in UNION {Requests[w] : w \in Workers}}

ShardPages == (w1 :> {}) @@ (w2 :> {p1})

=============================================================================
