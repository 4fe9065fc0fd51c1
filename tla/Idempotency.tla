----------------------------- MODULE Idempotency -----------------------------
(***************************************************************************)
(* The Idempotency-Key of the API: the idempotency_keys table of           *)
(* SQLiteMemoryStore, the three calls on it, and idempotency_response,     *)
(* which wraps an operation that writes in them.  Each table call holds    *)
(* the store's lock; between them the API's threads interleave.            *)
(*                                                                         *)
(* A call is one HTTP request that carries a key.  Its fingerprint stands  *)
(* for path and body, its response for itself: operations return fresh ids.*)
(* Several calls with one key and fingerprint are a client's retries.      *)
(***************************************************************************)
EXTENDS Integers

CONSTANTS Calls, IdempotencyKeys, Fingerprints,
          NoRow,          \* the key is not in the table
          NoResponse,     \* response_json is NULL
          TTL,            \* idempotency_ttl_seconds
          MaxClock,       \* bound on time
          MaxCrashes      \* bound on restarts of the process

ASSUME CallsAssumption ==
  /\ NoResponse \notin Calls
  /\ TTL \in Nat \ {0}
  /\ MaxClock \in Nat
  /\ MaxCrashes \in Nat

Row == [request_fingerprint: Fingerprints, response_json: Calls \cup {NoResponse},
        created_at: 0..MaxClock]

ASSUME NoRowAssumption == NoRow \notin Row

\* An operation that raised ends in "error".  A request whose table call
\* raised, or whose process stopped, was not served, has not had its key
\* released, got no answer stored, or is lost.
Outcome == {"none", "success", "replay", "conflict", "in_progress", "error",
            "unserved", "unreleased", "unanswered", "lost"}

VARIABLES idempotency_keys,
          call,      \* what each call carries, where it stands and what it was told
          clock,
          crashes

idempotencyVars == <<idempotency_keys, call, clock, crashes>>

\* `now' is the time the call read, `began' the time its key was reserved;
\* `wrote' is TRUE once its operation has committed, `outlived' once its key
\* was reserved anew while it ran.
Unsent(key, fingerprint) ==
  [pc |-> "unsent", key |-> key, fingerprint |-> fingerprint, now |-> 0, began |-> 0,
   wrote |-> FALSE, outlived |-> FALSE, outcome |-> "none", response |-> NoResponse]

Answer(c, outcome, response) ==
  call' = [call EXCEPT ![c].pc = "done", ![c].outcome = outcome, ![c].response = response]

Served(c) == call[c].pc \in {"operate", "complete", "abandon"}

InFlight(c) == call[c].pc = "begin" \/ Served(c)

-----------------------------------------------------------------------------
(* idempotency_begin *)

\* The clock is read before the lock is taken.
Send(c) ==
  /\ call[c].pc = "unsent"
  /\ call' = [call EXCEPT ![c].pc = "begin", ![c].now = clock]
  /\ UNCHANGED <<idempotency_keys, clock, crashes>>

\* Wrong on purpose: a row of exactly the TTL's age is deleted.
KeptAfter(now) == [k \in IdempotencyKeys |->
  IF idempotency_keys[k] # NoRow /\ idempotency_keys[k].created_at <= now - TTL
  THEN NoRow ELSE idempotency_keys[k]]

\* The table without the rows that are too old, answered or not.
Kept(now) == [k \in IdempotencyKeys |->
  IF idempotency_keys[k] # NoRow /\ idempotency_keys[k].created_at < now - TTL
  THEN NoRow ELSE idempotency_keys[k]]

\* Wrong on purpose: any answered row is replayed.
VerdictOfKey(row, fingerprint) ==
  IF row = NoRow THEN "new"
  ELSE IF row.response_json = NoResponse THEN "in_progress"
  ELSE "replay"

Verdict(row, fingerprint) ==
  IF row = NoRow THEN "new"
  ELSE IF row.request_fingerprint # fingerprint THEN "conflict"
  ELSE IF row.response_json = NoResponse THEN "in_progress"
  ELSE "replay"

\* Wrong on purpose: the cutoff is stored for the time.
ReservedAtCutoff(fingerprint, now) ==
  [request_fingerprint |-> fingerprint, response_json |-> NoResponse, created_at |-> now - TTL]

Reserved(fingerprint, now) ==
  [request_fingerprint |-> fingerprint, response_json |-> NoResponse, created_at |-> now]

\* From now on the key is c's, and whoever is still being served under it has
\* outlived his reservation.
TakesKey(c, pc, outcome) ==
  LET r == call[c] IN
  /\ idempotency_keys' = [Kept(r.now) EXCEPT ![r.key] = Reserved(r.fingerprint, r.now)]
  /\ call' = [d \in Calls |->
       IF d = c THEN [r EXCEPT !.pc = pc, !.outcome = outcome, !.began = clock]
       ELSE [call[d] EXCEPT !.outlived = @ \/ (Served(d) /\ call[d].key = r.key)]]

Begin(c) ==
  LET r       == call[c]
      table   == Kept(r.now)
      verdict == Verdict(table[r.key], r.fingerprint)
  IN
  /\ r.pc = "begin"
  /\ IF verdict = "new"
     THEN TakesKey(c, "operate", "none")
     ELSE /\ idempotency_keys' = table
          /\ Answer(c, verdict,
                    IF verdict = "replay" THEN table[r.key].response_json ELSE NoResponse)
  /\ UNCHANGED <<clock, crashes>>

-----------------------------------------------------------------------------
(* the operation *)

Operate(c) ==
  /\ call[c].pc = "operate"
  /\ call' = [call EXCEPT ![c].pc = "complete", ![c].wrote = TRUE]
  /\ UNCHANGED <<idempotency_keys, clock, crashes>>

\* It raises, before its write or (the record is stored, indexing it fails)
\* after it.
OperateRaises(c) ==
  /\ call[c].pc = "operate"
  /\ \E wrote \in BOOLEAN : call' = [call EXCEPT ![c].pc = "abandon", ![c].wrote = wrote]
  /\ UNCHANGED <<idempotency_keys, clock, crashes>>

\* Wrong on purpose: a failed reservation is kept.
AbandonNothing(c) ==
  /\ call[c].pc = "abandon"
  /\ Answer(c, "error", NoResponse)
  /\ UNCHANGED <<idempotency_keys, clock, crashes>>

\* Whatever row the key has by now, if it is unanswered.
Released(key) ==
  [idempotency_keys EXCEPT
     ![key] = IF @ # NoRow /\ @.response_json = NoResponse THEN NoRow ELSE @]

Abandon(c) ==
  /\ call[c].pc = "abandon"
  /\ idempotency_keys' = Released(call[c].key)
  /\ Answer(c, "error", NoResponse)
  /\ UNCHANGED <<clock, crashes>>

\* Whatever row the key has by now, answered or not.
Filled(key, c) ==
  [idempotency_keys EXCEPT
     ![key] = IF @ # NoRow THEN [@ EXCEPT !.response_json = c] ELSE @]

Complete(c) ==
  /\ call[c].pc = "complete"
  /\ idempotency_keys' = Filled(call[c].key, c)
  /\ Answer(c, "success", c)
  /\ UNCHANGED <<clock, crashes>>

\* A table call raises (another process holds the database).  What it was to
\* write is not there if a statement failed, and is there if the commit did;
\* nobody catches the error, and the caller is told it.
BeginRaises(c) ==
  /\ call[c].pc = "begin"
  /\ \/ /\ idempotency_keys' \in {idempotency_keys, Kept(call[c].now)}
        /\ Answer(c, "unserved", NoResponse)
     \/ /\ Kept(call[c].now)[call[c].key] = NoRow
        /\ TakesKey(c, "done", "unreleased")
  /\ UNCHANGED <<clock, crashes>>

AbandonRaises(c) ==
  /\ call[c].pc = "abandon"
  /\ idempotency_keys' \in {idempotency_keys, Released(call[c].key)}
  /\ Answer(c, "unreleased", NoResponse)
  /\ UNCHANGED <<clock, crashes>>

CompleteRaises(c) ==
  /\ call[c].pc = "complete"
  /\ idempotency_keys' \in {idempotency_keys, Filled(call[c].key, c)}
  /\ Answer(c, "unanswered", NoResponse)
  /\ UNCHANGED <<clock, crashes>>

-----------------------------------------------------------------------------

ClockTicks ==
  /\ clock < MaxClock
  /\ clock' = clock + 1
  /\ UNCHANGED <<idempotency_keys, call, crashes>>

\* The process restarts: its clients get no answer, the table stays.
Restart ==
  /\ crashes < MaxCrashes
  /\ \E c \in Calls : InFlight(c)
  /\ crashes' = crashes + 1
  /\ call' = [c \in Calls |->
       IF InFlight(c)
       THEN [call[c] EXCEPT !.pc = "done", !.outcome = IF Served(c) THEN "lost" ELSE "unserved"]
       ELSE call[c]]
  /\ UNCHANGED <<idempotency_keys, clock>>

IdempotencyInit ==
  /\ idempotency_keys = [k \in IdempotencyKeys |-> NoRow]
  /\ call \in [Calls -> {Unsent(k, f) : k \in IdempotencyKeys, f \in Fingerprints}]
  /\ clock = 0
  /\ crashes = 0

Handle(c) ==
  \/ Begin(c) \/ Operate(c) \/ OperateRaises(c) \/ Abandon(c) \/ Complete(c)
  \/ BeginRaises(c) \/ AbandonRaises(c) \/ CompleteRaises(c)

IdempotencyNext ==
  \/ \E c \in Calls : Send(c) \/ Handle(c)
  \/ ClockTicks
  \/ Restart

IdempotencySpec == IdempotencyInit /\ [][IdempotencyNext]_idempotencyVars

-----------------------------------------------------------------------------
(* Properties *)

Call == [pc: {"unsent", "begin", "operate", "complete", "abandon", "done"},
         key: IdempotencyKeys, fingerprint: Fingerprints,
         now: 0..MaxClock, began: 0..MaxClock, wrote: BOOLEAN, outlived: BOOLEAN,
         outcome: Outcome, response: Calls \cup {NoResponse}]

IdempotencyTypeOK ==
  /\ idempotency_keys \in [IdempotencyKeys -> Row \cup {NoRow}]
  /\ call \in [Calls -> Call]
  /\ clock \in 0..MaxClock
  /\ crashes \in 0..MaxCrashes

\* The operation of call c has returned, and its key was not then lost.
Effective(c) ==
  call[c].wrote /\ (call[c].pc = "complete" \/ call[c].outcome \in {"success", "unanswered"})

SameKey(c, d) == c # d /\ call[c].key = call[d].key

Outlived(key) == \E c \in Calls : call[c].key = key /\ call[c].outlived

\* The key was reserved for one of the two more than a TTL after the other
\* had read the clock.
TtlApart(c, d) ==
  \/ call[d].began > call[c].now + TTL
  \/ call[c].began > call[d].now + TTL

\* However retries interleave and whatever time each of them has read, two
\* operations under one key take effect only a TTL apart, unless one with
\* that key outlived its reservation.
OneWritePerTtl ==
  \A c, d \in Calls :
    SameKey(c, d) /\ Effective(c) /\ Effective(d) => TtlApart(c, d) \/ Outlived(call[c].key)

\* A replay is the answer of an operation that took effect, to the same key
\* and, with the same exception, to the same request.
ReplayIsFaithful ==
  \A c \in Calls : call[c].outcome = "replay" =>
    LET d == call[c].response IN
    /\ SameKey(c, d)
    /\ Effective(d)
    /\ call[d].fingerprint = call[c].fingerprint \/ Outlived(call[c].key)

\* The key may be reserved for c, or once was.
MayHold(c) == Served(c) \/ call[c].outcome \in {"lost", "unreleased", "unanswered"}

HasReserved(c) == MayHold(c) \/ call[c].outcome \in {"success", "error"}

\* A key is left reserved only by the call that reserved it, while that call
\* is being served, or after it was cut short or its own release or answer
\* raised: an operation that raised has given its key back.  Whatever was
\* left, a request is turned away (or replayed to) for at most a TTL from the
\* time that another one with its key had read when it reserved it.
NoKeyIsStuck ==
  /\ \A k \in IdempotencyKeys :
       idempotency_keys[k] # NoRow /\ idempotency_keys[k].response_json = NoResponse =>
         \E c \in Calls : /\ call[c].key = k /\ call[c].now = idempotency_keys[k].created_at
                         /\ MayHold(c)
  /\ \A c \in Calls : call[c].outcome \in {"replay", "conflict", "in_progress"} =>
       \E d \in Calls : SameKey(c, d) /\ HasReserved(d) /\ call[c].now <= call[d].now + TTL

(* What the sources say, and the code does not do *)

\* "Retry duplicates a memory write" is what the key is there to prevent
\* (SECURITY.md): two operations that wrote under one key are a TTL apart.
RetryWritesOnce ==
  \A c, d \in Calls :
    SameKey(c, d) /\ call[c].wrote /\ call[d].wrote => TtlApart(c, d)

=============================================================================
