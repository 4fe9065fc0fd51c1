----------------------------- MODULE Governance -----------------------------
(***************************************************************************)
(* The pure decisions of GuardWrite and the hard eligibility rule of       *)
(* GuardRead: admission of a candidate record, overlap of two valid-time   *)
(* windows, resolution of a conflict, closing of a replaced version, and   *)
(* whether a stored version may be used as evidence at a business date.    *)
(*                                                                         *)
(* Dates are integers between date.min and date.max; a missing date is     *)
(* NoDate.  Confidences, durable values and authorities are hundredths.    *)
(***************************************************************************)
EXTENDS Integers

CONSTANTS MinDate,   \* date.min
          MaxDate,   \* date.max
          NoDate     \* None where a date is optional

ASSUME DatesAssumption ==
  /\ MinDate \in Int
  /\ MaxDate \in Int
  /\ MinDate <= MaxDate
  /\ NoDate \notin Int

Date == MinDate .. MaxDate

OptionalDate == Date \cup {NoDate}

SourceType == {"official_policy", "approved_exception", "meeting_note",
               "user_claim", "model_inference", "system_record",
               "public_dataset"}

MemoryStatus == {"candidate", "pending", "verified_active", "superseded",
                 "expired", "rejected"}

-----------------------------------------------------------------------------
(* Admission *)

SourceMinimum(confidence, durable, success) ==
  [confidence |-> confidence, durable |-> durable, success |-> success]

SOURCE_MINIMUMS ==
  [official_policy    |-> SourceMinimum(75, 70, "verified_active"),
   approved_exception |-> SourceMinimum(80, 70, "verified_active"),
   system_record      |-> SourceMinimum(75, 75, "verified_active"),
   public_dataset     |-> SourceMinimum(45, 50, "verified_active"),
   meeting_note       |-> SourceMinimum(65, 65, "pending"),
   user_claim         |-> SourceMinimum(80, 80, "pending"),
   model_inference    |-> SourceMinimum(101, 101, "rejected")]

\* The status admission gives a candidate, in the order of its early returns.
AdmissionStatus(record) ==
  LET minimum == SOURCE_MINIMUMS[record.source_type] IN
  IF record.source_type = "model_inference" THEN "rejected"
  ELSE IF ~record.evidence \/ record.extraction_confidence < minimum.confidence
       THEN "pending"
  ELSE IF record.durable_value < minimum.durable THEN "rejected"
  ELSE minimum.success

-----------------------------------------------------------------------------
(* Valid time *)

Start(record) == IF record.valid_from = NoDate THEN MinDate ELSE record.valid_from

End(record) == IF record.valid_to = NoDate THEN MaxDate ELSE record.valid_to

IntervalsOverlap(left, right) ==
  /\ Start(left) <= End(right)
  /\ Start(right) <= End(left)

IsValidAt(record, as_of) == as_of \in Start(record) .. End(record)

\* What the constructor demands of a window (a missing date is no limit).  It runs on a
\* submitted record and again on every row read back from the store, where failing it raises.
WellFormedWindow(record) == Start(record) <= End(record)

-----------------------------------------------------------------------------
(* Conflicts *)

\* An active version gives way to an incoming one.
YieldsTo(old, incoming) ==
  \/ incoming.authority > old.authority
  \/ /\ incoming.authority = old.authority
     /\ incoming.source_type = "official_policy"
     /\ Start(incoming) >= Start(old)

\* Wrong on purpose: what admission decided is forgotten without a conflict.
ResolvedStatusAlone(record, admitted, active) ==
  IF \A old \in active : YieldsTo(old, record) THEN "verified_active" ELSE "pending"

\* The status the resolver gives a record that admission left at
\* `admitted', when `active' is the set of active versions it overlaps.
ResolvedStatus(record, admitted, active) ==
  IF active = {} THEN admitted
  ELSE IF admitted = "verified_active" /\ \A old \in active : YieldsTo(old, record)
       THEN "verified_active"
  ELSE "pending"

\* Wrong on purpose: the underflow is not noticed.
NeverOverflows(record, active) == FALSE

\* Closing a window one day before date.min overflows.
ClosingOverflows(record, active) == active # {} /\ record.valid_from = MinDate

\* Wrong on purpose: closed on the replacement's first day, not the day before.
ClosedOnFirstDay(old, record) ==
  [old EXCEPT
     !.status   = "superseded",
     !.valid_to = IF record.valid_from = NoDate THEN old.valid_to ELSE record.valid_from]

\* Wrong on purpose: the window of the replaced version is left open.
LeftOpen(old, record) == [old EXCEPT !.status = "superseded"]

\* Wrong on purpose: the old record is overwritten, not superseded.
OverwrittenBy(old, record) == [record EXCEPT !.status = "superseded"]

\* The version `old' once `record' has replaced it.
Closed(old, record) ==
  [old EXCEPT
     !.status   = "superseded",
     !.valid_to = IF record.valid_from # NoDate
                     /\ (old.valid_to = NoDate \/ old.valid_to >= record.valid_from)
                  THEN record.valid_from - 1
                  ELSE old.valid_to]

-----------------------------------------------------------------------------
(* Reading *)

\* The status and time part of the hard filter.
EligibleAt(record, as_of) ==
  /\ \/ record.status = "verified_active"
     \/ record.status = "superseded" /\ record.valid_to # NoDate
  /\ IsValidAt(record, as_of)

=============================================================================
