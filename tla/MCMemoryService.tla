--------------------------- MODULE MCMemoryService ---------------------------
(***************************************************************************)
(* A small company for TLC: three record ids, two tenants that share a     *)
(* conflict key, and one submission for each way admission and the         *)
(* conflict rules can go.                                                  *)
(***************************************************************************)
EXTENDS MemoryService, TLC

CONSTANTS t1, t2, k1, k2, p1

Sym == Permutations(Ids)

Submission(source, authority, from, to) ==
  [tenant_id |-> t1, conflict_key |-> k1, source_type |-> source,
   authority |-> authority, valid_from |-> from, valid_to |-> to,
   evidence |-> TRUE, extraction_confidence |-> 100, durable_value |-> 100,
   status |-> "candidate", supersedes |-> NoId,
   page_id |-> NoPage, page_version |-> 0]

FromPage(record, version) ==
  [record EXCEPT !.page_id = p1, !.page_version = version]

\* Records that can activate on their own.
Automatic ==
  {Submission("official_policy", 80, 1, NoDate),
   Submission("official_policy", 80, 2, 3),
   Submission("official_policy", 80, 3, NoDate),
   Submission("system_record", 80, 2, NoDate),
   Submission("approved_exception", 90, NoDate, 2),
   Submission("approved_exception", 90, 0, NoDate)}

\* Records that wait for a reviewer, or that admission turns away.
Confirmed ==
  {Submission("user_claim", 20, 1, NoDate),
   Submission("user_claim", 95, NoDate, NoDate),
   [Submission("official_policy", 85, 1, 2) EXCEPT !.extraction_confidence = 70],
   [Submission("official_policy", 95, 2, NoDate) EXCEPT !.evidence = FALSE],
   [Submission("official_policy", 90, 2, NoDate) EXCEPT !.durable_value = 60],
   Submission("model_inference", 95, 2, NoDate)}

\* A page synchronised as meeting notes, and once as an official policy.
Connected ==
  {FromPage(Submission("meeting_note", 85, 2, NoDate), 1),
   FromPage(Submission("meeting_note", 85, 3, NoDate), 2),
   FromPage(Submission("official_policy", 80, 2, NoDate), 1)}

\* Another tenant with the same conflict key, and another key.
Elsewhere ==
  {[Submission("official_policy", 80, 2, NoDate) EXCEPT !.tenant_id = t2],
   [Submission("official_policy", 80, 2, NoDate) EXCEPT !.conflict_key = k2]}

AllSubmissions == Automatic \cup Confirmed \cup Connected \cup Elsewhere

=============================================================================
