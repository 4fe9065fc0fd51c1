------------------------ MODULE MCConcurrentService ------------------------
(***************************************************************************)
(* Two workers on one conflict key: an official policy, a stronger one that *)
(* replaces it, one that starts at date.min and cannot, and a page that    *)
(* waits for a reviewer who may find it has expired; or a policy each of two *)
(* tenants, under ids of the callers' choice.                              *)
(***************************************************************************)
EXTENDS ConcurrentService, TLC

CONSTANTS t1, t2, k1, p1

Sym == Permutations(Ids) \cup Permutations(Workers)

Submission(source, authority, from) ==
  [tenant_id |-> t1, conflict_key |-> k1, source_type |-> source,
   authority |-> authority, valid_from |-> from, valid_to |-> NoDate,
   evidence |-> TRUE, extraction_confidence |-> 100, durable_value |-> 100,
   status |-> "candidate", supersedes |-> NoId,
   page_id |-> NoPage, page_version |-> 0]

Policy == Submission("official_policy", 80, 1)

StrongerPolicy == Submission("official_policy", 90, 2)

PolicySinceEver == Submission("official_policy", 95, MinDate)

PageNote ==
  [Submission("meeting_note", 95, 3) EXCEPT !.page_id = p1, !.page_version = 1]

\* The same fact, as two tenants would record it.
PolicyOfAnother == [Policy EXCEPT !.tenant_id = t2]

TenantsSubmissions == {Policy, PolicyOfAnother}

RacingSubmissions == {Policy, StrongerPolicy, PolicySinceEver, PageNote}

=============================================================================
