---------------------------- MODULE Observability ----------------------------
(***************************************************************************)
(* What the service says of itself: the spans of its operations, kept in a *)
(* bounded buffer, and one metric of each kind.  The innermost open span   *)
(* is held in context variables, which every request has of its own; a     *)
(* span saves their values when it is entered and sets them back when it   *)
(* is left.  The buffer and the metrics have a lock each, so requests      *)
(* interleave between these calls.                                         *)
(*                                                                         *)
(* A query is counted and then its duration observed, once its spans are   *)
(* closed.  Ids are numbers in the order they are drawn; other attributes  *)
(* of a span are left out.                                                 *)
(***************************************************************************)
EXTENDS Integers, Sequences, FiniteSets

CONSTANTS Requests,      \* the threads that serve them
          MaxDepth,      \* how deep an operation's spans are nested
          max_spans,
          Cap,           \* 5,000 observations ...
          Trimmed,       \* ... of which 1,000 are dropped
          Durations,
          Percents,      \* the fractions, in percent
          MaxIds, MaxQueries      \* bounds on spans and on queries

ASSUME ObservabilityAssumption ==
  /\ IsFiniteSet(Requests)
  /\ MaxDepth \in Nat \ {0}
  /\ max_spans \in Nat \ {0}
  /\ Cap \in Nat \ {0}
  /\ Trimmed \in 1..Cap
  /\ Durations \subseteq Nat
  /\ Percents \subseteq 0..100
  /\ MaxIds \in Nat
  /\ MaxQueries \in Nat

\* None is 0.
Context == [trace_id: Nat, span_id: Nat]

NoContext == [trace_id |-> 0, span_id |-> 0]

SpanRecord ==
  [trace_id: Nat, span_id: Nat, parent_span_id: Nat, status: {"ok", "error"}]

VARIABLES context,       \* the two context variables of each request
          entered,       \* the spans it has open, each with the values it has saved
          stage,         \* serve, raise (an exception is on its way), count, observe
          spans,         \* the buffer
          ids,           \* how many ids were drawn
          queries_total,
          durations,     \* the observations kept
          observed       \* history: all of them

obsVars == <<context, entered, stage, spans, ids, queries_total, durations, observed>>

metricsVars == <<queries_total, durations, observed>>

\* The last n of s, or all.
LastOf(s, n) == IF Len(s) <= n THEN s ELSE SubSeq(s, Len(s) - n + 1, Len(s))

Top(s) == s[Len(s)]

Pop(s) == SubSeq(s, 1, Len(s) - 1)

-----------------------------------------------------------------------------
(* Tracer.span *)

NewSpan(r) ==
  [trace_id |-> IF context[r].trace_id # 0 THEN context[r].trace_id ELSE ids + 1,
   span_id |-> ids + 1, parent_span_id |-> context[r].span_id, status |-> "ok"]

\* deque(maxlen=max_spans).append
Retained(s, span) == LastOf(Append(s, span), max_spans)

Enter(r) ==
  /\ stage[r] = "serve"
  /\ Len(entered[r]) < MaxDepth
  /\ ids < MaxIds
  /\ ids' = ids + 1
  /\ entered' = [entered EXCEPT ![r] = Append(@, [record |-> NewSpan(r), saved |-> context[r]])]
  /\ context' = [context EXCEPT ![r] = [trace_id |-> NewSpan(r).trace_id, span_id |-> ids + 1]]
  /\ UNCHANGED <<stage, spans, metricsVars>>

\* The code inside the innermost span raises.
Raises(r) ==
  /\ stage[r] = "serve" /\ entered[r] # <<>>
  /\ stage' = [stage EXCEPT ![r] = "raise"]
  /\ UNCHANGED <<context, entered, spans, ids, metricsVars>>

\* Wrong on purpose: not set back if there was an exception.
ResetUnlessRaised(r) == IF stage[r] = "raise" THEN context[r] ELSE Top(entered[r]).saved

\* What the context variables are set back to.
Reset(r) == Top(entered[r]).saved

\* The innermost span ends; nobody catches what it raised before the request
\* ends.  A query that did not raise has its metrics still to report.
Leave(r) ==
  LET span == [Top(entered[r]).record EXCEPT
                 !.status = IF stage[r] = "raise" THEN "error" ELSE "ok"]
  IN
  /\ stage[r] \in {"serve", "raise"} /\ entered[r] # <<>>
  /\ spans' = Retained(spans, span)
  /\ context' = [context EXCEPT ![r] = Reset(r)]
  /\ entered' = [entered EXCEPT ![r] = Pop(@)]
  /\ \/ Len(entered[r]) > 1 /\ UNCHANGED stage
     \/ Len(entered[r]) = 1 /\ stage' = [stage EXCEPT ![r] = "serve"]
     \/ /\ Len(entered[r]) = 1 /\ stage[r] = "serve"
        /\ queries_total + Cardinality({q \in Requests : stage[q] = "count"}) < MaxQueries
        /\ stage' = [stage EXCEPT ![r] = "count"]
  /\ UNCHANGED <<ids, metricsVars>>

-----------------------------------------------------------------------------
(* MetricsRegistry *)

Increment(r) ==
  /\ stage[r] = "count"
  /\ queries_total' = queries_total + 1
  /\ stage' = [stage EXCEPT ![r] = "observe"]
  /\ UNCHANGED <<context, entered, spans, ids, durations, observed>>

\* Wrong on purpose: the newest are dropped.
TrimmedAtEnd(bucket) ==
  IF Len(bucket) > Cap THEN SubSeq(bucket, 1, Len(bucket) - Trimmed) ELSE bucket

AfterTrim(bucket) ==
  IF Len(bucket) > Cap THEN SubSeq(bucket, Trimmed + 1, Len(bucket)) ELSE bucket

Observe(r, value) ==
  /\ stage[r] = "observe"
  /\ durations' = AfterTrim(Append(durations, value))
  /\ observed' = Append(observed, value)
  /\ stage' = [stage EXCEPT ![r] = "serve"]
  /\ UNCHANGED <<context, entered, spans, ids, queries_total>>

UpTo(values, v) == Cardinality({i \in DOMAIN values : values[i] <= v})

Below(values, v) == Cardinality({i \in DOMAIN values : values[i] < v})

\* sorted(values), at a place counted from 1.
InOrder(values, place) ==
  CHOOSE v \in {values[i] : i \in DOMAIN values} :
    Below(values, v) < place /\ place <= UpTo(values, v)

Ceiling(n, d) == (n + d - 1) \div d

\* _percentile of a nonempty list.
Percentile(values, percent) ==
  LET place == Ceiling(Len(values) * percent, 100)
  IN  InOrder(values, IF place < 1 THEN 1 ELSE IF place > Len(values) THEN Len(values) ELSE place)

-----------------------------------------------------------------------------

ObservabilityInit ==
  /\ context = [r \in Requests |-> NoContext]
  /\ entered = [r \in Requests |-> <<>>]
  /\ stage = [r \in Requests |-> "serve"]
  /\ spans = <<>>
  /\ ids = 0
  /\ queries_total = 0
  /\ durations = <<>>
  /\ observed = <<>>

ObservabilityNext ==
  \E r \in Requests :
    \/ Enter(r) \/ Raises(r) \/ Leave(r)
    \/ Increment(r)
    \/ \E value \in Durations : Observe(r, value)

ObservabilitySpec == ObservabilityInit /\ [][ObservabilityNext]_obsVars

-----------------------------------------------------------------------------
(* Properties *)

IsOpen(span_id) ==
  \E r \in Requests : \E i \in DOMAIN entered[r] : entered[r][i].record.span_id = span_id

\* The trace viewer can always place a span: the parent of one the buffer has
\* kept is in it too, after it and of its trace, or has not ended yet; and a
\* span that failed made its parent fail.  Whichever requests interleave and
\* however many spans the buffer has dropped.
NoOrphans ==
  \A i \in DOMAIN spans : spans[i].parent_span_id # 0 =>
    \/ IsOpen(spans[i].parent_span_id)
    \/ \E j \in i + 1 .. Len(spans) :
         /\ spans[j].span_id = spans[i].parent_span_id
         /\ spans[j].trace_id = spans[i].trace_id
         /\ spans[i].status = "error" => spans[j].status = "error"

\* What the observations are taken from are the latest, all of them up to the
\* cap and never fewer than a trim leaves; each belongs to a counted query.
BucketIsRecent ==
  /\ durations = LastOf(observed, Len(durations))
  /\ Len(durations) <= Cap
  /\ Len(durations) = Len(observed) \/ Len(durations) > Cap - Trimmed
  /\ Len(observed) <= queries_total

\* ... and a percentile of them is the least of the values that as large a
\* part of them as it says do not exceed.
SnapshotIsRecent ==
  /\ BucketIsRecent
  /\ durations # <<>> => \A percent \in Percents :
       LET p == Percentile(durations, percent) IN
       /\ 100 * UpTo(durations, p) >= percent * Len(durations)
       /\ \A i \in DOMAIN durations : durations[i] < p =>
            100 * UpTo(durations, durations[i]) < percent * Len(durations)

=============================================================================
