----------------------------- MODULE RateLimiter -----------------------------
(***************************************************************************)
(* The SlidingWindowRateLimiter that guards the API, one window of times   *)
(* for each direct peer.  It runs in the server's event loop, so calls of  *)
(* `allow' do not overlap.  Time is monotonic and counted in ticks, with   *)
(* TicksPerSecond of them to a second, so that the hint to the client,     *)
(* which is in whole seconds, is rounded as the code rounds it.            *)
(***************************************************************************)
EXTENDS Integers, Sequences, FiniteSets

CONSTANTS Clients,
          limit,
          window_seconds,
          TicksPerSecond,
          MaxTime           \* bound on time

ASSUME LimiterAssumption ==
  /\ limit \in Nat \ {0}
  /\ window_seconds \in Nat \ {0}
  /\ TicksPerSecond \in Nat \ {0}
  /\ MaxTime \in Nat

VARIABLES requests,   \* _requests: each client's deque of times
          now,
          allowed,    \* history: the times of all requests each client was allowed
          refused     \* the last refusal of each client: when, and the Retry-After

limiterVars == <<requests, now, allowed, refused>>

Width == window_seconds * TicksPerSecond

\* Wrong on purpose: a time expires one tick too late.
ExpiredLate(time) == now - time > Width

\* Wrong on purpose: a time expires one tick too soon.
ExpiredEarly(time) == now - time >= Width - 1

Expired(time) == now - time >= Width

\* Wrong on purpose: the limit itself is let through.
FullBeyond(window) == Len(window) > limit

Full(window) == Len(window) >= limit

\* Wrong on purpose: rounded down.
RetryAfterTruncated(window) ==
  LET seconds == (Width - (now - window[1])) \div TicksPerSecond
  IN  IF seconds > 1 THEN seconds ELSE 1

RetryAfter(window) ==
  LET seconds == (Width - (now - window[1])) \div TicksPerSecond + 1
  IN  IF seconds > 1 THEN seconds ELSE 1

Never == [at |-> 0, retry_after |-> 0]

Refuse(client, window) ==
  /\ Full(window)
  /\ requests' = [requests EXCEPT ![client] = window]
  /\ refused' = [refused EXCEPT ![client] = [at |-> now, retry_after |-> RetryAfter(window)]]
  /\ UNCHANGED allowed

LetThrough(client, window) ==
  /\ ~Full(window)
  /\ requests' = [requests EXCEPT ![client] = Append(window, now)]
  /\ allowed' = [allowed EXCEPT ![client] = Append(@, now)]
  /\ refused' = [refused EXCEPT ![client] = Never]

\* The n times at the left of the deque that have expired are popped.
Allow(client) ==
  \E n \in 0..Len(requests[client]) :
    LET times  == requests[client]
        window == SubSeq(times, n + 1, Len(times))
    IN
    /\ \A i \in 1..n : Expired(times[i])
    /\ n < Len(times) => ~Expired(times[n + 1])
    /\ Refuse(client, window) \/ LetThrough(client, window)
    /\ UNCHANGED now

TimePasses ==
  /\ now < MaxTime
  /\ now' = now + 1
  /\ UNCHANGED <<requests, allowed, refused>>

LimiterInit ==
  /\ requests = [c \in Clients |-> <<>>]
  /\ now = 0
  /\ allowed = [c \in Clients |-> <<>>]
  /\ refused = [c \in Clients |-> Never]

LimiterNext == TimePasses \/ \E c \in Clients : Allow(c)

LimiterSpec == LimiterInit /\ [][LimiterNext]_limiterVars

-----------------------------------------------------------------------------
(* Properties *)

\* The shape of the state; no deque grows beyond the limit.
LimiterTypeOK ==
  /\ requests \in [Clients -> Seq(Nat)]
  /\ allowed \in [Clients -> Seq(Nat)]
  /\ refused \in [Clients -> [at: Nat, retry_after: Nat]]
  /\ now \in Nat
  /\ \A c \in Clients : Len(requests[c]) <= limit

\* Whatever the times of its requests, a client is never let through more
\* than `limit' times within the window: not in any stretch of that width,
\* wherever it begins.
AtMostLimitPerWindow ==
  \A c \in Clients : \A i \in 1..Len(allowed[c]) :
    i + limit <= Len(allowed[c]) => allowed[c][i + limit] - allowed[c][i] >= Width

\* The times let through that still count against a request at `time'.
Counting(c, time) == {i \in 1..Len(allowed[c]) : time - allowed[c][i] < Width}

\* A client that waits as long as Retry-After says, after its last refusal,
\* and is not let through meanwhile, is not refused then.
RetryAfterSuffices ==
  \A c \in Clients : refused[c] # Never =>
    Cardinality(Counting(c, refused[c].at + refused[c].retry_after * TicksPerSecond)) < limit

\* A client is refused only when `limit' of its requests were let through
\* within the window before.
RefusedWithCause ==
  \A c \in Clients : refused[c] # Never => Cardinality(Counting(c, refused[c].at)) >= limit

=============================================================================
