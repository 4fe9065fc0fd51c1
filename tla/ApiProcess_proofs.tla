--------------------------- MODULE ApiProcess_proofs ---------------------------
(***************************************************************************)
(* Proofs about the mechanisms of the API's process that guard or observe  *)
(* its requests and share no state, one part each: the rate limiter, the   *)
(* idempotency keys, the spans and observations, and the model's client.   *)
(***************************************************************************)
EXTENDS RateLimiter, Idempotency, Observability, ModelClient, FiniteSetTheorems, TLAPS

(***************************************************************************)
(*                            THE RATE LIMITER                             *)
(*                                                                         *)
(* It lets no client through more than `limit' times within any window,    *)
(* for every limit, width and set of clients; whom it refuses had cause    *)
(* to be refused; and a client that waits for as long as it was told is    *)
(* not refused again.                                                      *)
(*                                                                         *)
(* The deque forgets times, and the properties are about all of them, so   *)
(* the inductive invariant says what the deque is: the end of the history, *)
(* with everything before it expired.                                      *)
(***************************************************************************)

\* `deque', of length k, holds the last k of the h times of `history', and
\* those before them have expired at `time'.
EndsHistory(deque, k, history, h, time) ==
  /\ k <= h
  /\ \A i \in 1..k : deque[i] = history[(h - k) + i]
  /\ \A i \in 1..(h - k) : time - history[i] >= Width

\* Any limit + 1 consecutive times of the h of `history' spread over a window.
Spread(history, h) ==
  \A i \in 1..h : i + limit <= h => history[i + limit] - history[i] >= Width

\* What the invariant says of one client.
ClientInv(deque, history, time) ==
  /\ deque \in Seq(Nat)
  /\ history \in Seq(Nat)
  /\ Len(deque) <= limit
  /\ EndsHistory(deque, Len(deque), history, Len(history), time)
  /\ Spread(history, Len(history))

LimiterInv ==
  /\ LimiterTypeOK
  /\ \A c \in Clients : ClientInv(requests[c], allowed[c], now)

LEMMA WidthType == Width \in Nat
BY LimiterAssumption DEF Width

-----------------------------------------------------------------------------
(* Sequences *)

\* Popping n times from the left of the deque.
LEMMA Popped ==
  ASSUME NEW times \in Seq(Nat), NEW n \in 0..Len(times)
  PROVE  /\ SubSeq(times, n + 1, Len(times)) \in Seq(Nat)
         /\ Len(SubSeq(times, n + 1, Len(times))) = Len(times) - n
         /\ \A i \in 1..(Len(times) - n) : SubSeq(times, n + 1, Len(times))[i] = times[n + i]
OBVIOUS

LEMMA Appended ==
  ASSUME NEW times \in Seq(Nat), NEW time \in Nat
  PROVE  /\ Append(times, time) \in Seq(Nat)
         /\ Len(Append(times, time)) = Len(times) + 1
         /\ \A i \in 1..Len(times) : Append(times, time)[i] = times[i]
         /\ Append(times, time)[Len(times) + 1] = time
OBVIOUS

-----------------------------------------------------------------------------
(* One client *)

\* Time passes: what has expired stays so.
LEMMA RemembersLater ==
  ASSUME NEW deque \in Seq(Nat), NEW history \in Seq(Nat), NEW time \in Nat,
         EndsHistory(deque, Len(deque), history, Len(history), time)
  PROVE  EndsHistory(deque, Len(deque), history, Len(history), time + 1)
<1> SUFFICES ASSUME NEW i \in 1..(Len(history) - Len(deque))
             PROVE  time + 1 - history[i] >= Width
  BY SMTT(30) DEF EndsHistory
<1>1. history[i] \in Nat
  OBVIOUS
<1>2. time - history[i] >= Width
  BY DEF EndsHistory
<1> QED
  BY <1>1, <1>2, WidthType

\* Popping expired times: the deque still ends the history.
LEMMA RemembersPopped ==
  ASSUME NEW deque, NEW k \in Nat, NEW history, NEW h \in Nat, NEW time \in Nat,
         EndsHistory(deque, k, history, h, time),
         NEW n \in 0..k, NEW window,
         \A i \in 1..n : time - deque[i] >= Width,
         \A i \in 1..(k - n) : window[i] = deque[n + i]
  PROVE  EndsHistory(window, k - n, history, h, time)
<1>1. /\ k <= h
      /\ \A i \in 1..k : deque[i] = history[(h - k) + i]
      /\ \A i \in 1..(h - k) : time - history[i] >= Width
  BY DEF EndsHistory
<1>2. ASSUME NEW i \in 1..(k - n) PROVE window[i] = history[(h - (k - n)) + i]
  <2>1. n + i \in 1..k /\ (h - k) + (n + i) = (h - (k - n)) + i
    BY <1>1
  <2> QED
    BY <1>1, <2>1
<1>3. ASSUME NEW i \in 1..(h - (k - n)) PROVE time - history[i] >= Width
  <2>1. CASE i \in 1..(h - k)
    BY <1>1, <2>1
  <2>2. CASE i \notin 1..(h - k)
    <3>1. i - (h - k) \in 1..n /\ i - (h - k) \in 1..k /\ (h - k) + (i - (h - k)) = i
      BY <1>1, <2>2
    <3>2. deque[i - (h - k)] = history[i]
      BY <1>1, <3>1
    <3> QED
      BY <3>1, <3>2
  <2> QED
    BY <2>1, <2>2
<1> QED
  BY <1>1, <1>2, <1>3 DEF EndsHistory

\* A request is let through with fewer than `limit' in the deque.
LEMMA RemembersAppended ==
  ASSUME NEW deque, NEW k \in Nat, NEW history, NEW h \in Nat, NEW time \in Nat,
         EndsHistory(deque, k, history, h, time),
         Spread(history, h), k < limit,
         NEW deque1, NEW history1,
         \A i \in 1..k : deque1[i] = deque[i],
         deque1[k + 1] = time,
         \A i \in 1..h : history1[i] = history[i],
         history1[h + 1] = time
  PROVE  /\ EndsHistory(deque1, k + 1, history1, h + 1, time)
         /\ Spread(history1, h + 1)
<1>1. /\ k <= h
      /\ \A i \in 1..k : deque[i] = history[(h - k) + i]
      /\ \A i \in 1..(h - k) : time - history[i] >= Width
  BY DEF EndsHistory
<1>2. (h + 1) - (k + 1) = h - k
  OBVIOUS
<1>3. ASSUME NEW i \in 1..(k + 1) PROVE deque1[i] = history1[(h - k) + i]
  <2>1. CASE i \in 1..k
    <3>1. (h - k) + i \in 1..h
      BY <1>1, <2>1
    <3> QED
      BY <1>1, <2>1, <3>1
  <2>2. CASE i = k + 1
    <3>1. (h - k) + i = h + 1
      BY <2>2
    <3> QED
      BY <2>2, <3>1
  <2> QED
    BY <2>1, <2>2
<1>4. ASSUME NEW i \in 1..(h - k) PROVE time - history1[i] >= Width
  <2>1. i \in 1..h
    BY <1>1
  <2> QED
    BY <1>1, <2>1
<1>5. ASSUME NEW i \in 1..(h + 1), i + limit <= h + 1
      PROVE  history1[i + limit] - history1[i] >= Width
  <2>1. CASE i + limit <= h
    <3>1. i \in 1..h /\ i + limit \in 1..h
      BY <2>1, LimiterAssumption
    <3> QED
      BY <2>1, <3>1 DEF Spread
  <2>2. CASE i + limit = h + 1
    <3>1. i \in 1..(h - k)
      BY <1>1, <2>2, LimiterAssumption
    <3> QED
      BY <1>4, <2>2, <3>1
  <2> QED
    BY <1>5, <2>1, <2>2, LimiterAssumption
<1> QED
  BY <1>1, <1>2, <1>3, <1>4, <1>5 DEF EndsHistory, Spread

\* The hint of a refusal is a number of seconds.
LEMMA RetryAfterType ==
  ASSUME NEW window \in Seq(Nat), Len(window) > 0, now \in Nat
  PROVE  RetryAfter(window) \in Nat
<1> DEFINE left == Width - (now - window[1])
           seconds == left \div TicksPerSecond + 1
<1>1. left \in Int
  BY WidthType
<1> HIDE DEF left
<1>2. seconds \in Int
  BY <1>1, LimiterAssumption
<1>3. RetryAfter(window) = IF seconds > 1 THEN seconds ELSE 1
  BY DEF RetryAfter, left
<1> HIDE DEF seconds
<1> QED
  BY <1>2, <1>3

-----------------------------------------------------------------------------
(* The limiter *)

LEMMA LimiterStep == LimiterInv /\ [LimiterNext]_limiterVars => LimiterInv'
<1> SUFFICES ASSUME LimiterInv, [LimiterNext]_limiterVars PROVE LimiterInv'
  OBVIOUS
<1>1. CASE TimePasses
  <2>1. /\ now \in Nat /\ now' = now + 1
        /\ requests' = requests /\ allowed' = allowed /\ refused' = refused
    BY <1>1 DEF TimePasses, LimiterInv, LimiterTypeOK
  <2>2. LimiterTypeOK'
    BY <2>1 DEF LimiterInv, LimiterTypeOK
  <2>3. ASSUME NEW c \in Clients PROVE ClientInv(requests[c], allowed[c], now + 1)
    <3>1. ClientInv(requests[c], allowed[c], now)
      BY DEF LimiterInv
    <3> QED
      BY <2>1, <3>1, RemembersLater DEF ClientInv
  <2> QED
    BY <2>1, <2>2, <2>3 DEF LimiterInv
<1>2. ASSUME NEW caller \in Clients, Allow(caller) PROVE LimiterInv'
  <2> DEFINE times == requests[caller]
             past  == allowed[caller]
             rest(n) == SubSeq(times, n + 1, Len(times))
  <2>1. PICK n \in 0..Len(times) :
          /\ \A i \in 1..n : Expired(times[i])
          /\ Refuse(caller, rest(n)) \/ LetThrough(caller, rest(n))
          /\ now' = now
    BY <1>2 DEF Allow
  <2> DEFINE window == rest(n)
  <2>2. now \in Nat /\ ClientInv(times, past, now)
    BY DEF LimiterInv, LimiterTypeOK
  <2>3. times \in Seq(Nat) /\ past \in Seq(Nat) /\ Len(times) <= limit
    BY <2>2 DEF ClientInv
  <2>4. /\ window \in Seq(Nat)
        /\ Len(window) = Len(times) - n
        /\ \A i \in 1..(Len(times) - n) : window[i] = times[n + i]
    BY <2>3, Popped
  <2>5. past = allowed[caller]
    OBVIOUS
  <2>6. Refuse(caller, window) \/ LetThrough(caller, window)
    BY <2>1
  <2> HIDE DEF times, past, window, rest
  <2>7. Len(times) \in Nat /\ Len(past) \in Nat /\ Len(window) \in Nat
    BY <2>3, <2>4
  <2>8. EndsHistory(window, Len(window), past, Len(past), now)
    <3>1. \A i \in 1..n : now - times[i] >= Width
      BY <2>1 DEF Expired
    <3>2. EndsHistory(times, Len(times), past, Len(past), now)
      BY <2>2 DEF ClientInv
    <3> QED
      BY <2>2, <2>4, <2>7, <3>1, <3>2, RemembersPopped
  <2>9. Spread(past, Len(past)) /\ Len(window) <= limit
    BY <2>2, <2>3, <2>4, <2>7, LimiterAssumption DEF ClientInv
  <2>10. CASE Refuse(caller, window)
    <3>1. /\ requests' = [requests EXCEPT ![caller] = window]
          /\ allowed' = allowed
          /\ refused' = [refused EXCEPT ![caller] = [at |-> now, retry_after |-> RetryAfter(window)]]
          /\ Len(window) >= limit
      BY <2>10 DEF Refuse, Full
    <3>2. RetryAfter(window) \in Nat
      BY <2>2, <2>4, <2>7, <3>1, RetryAfterType, LimiterAssumption
    <3>3. LimiterTypeOK'
      BY <2>1, <2>4, <2>9, <3>1, <3>2 DEF LimiterInv, LimiterTypeOK
    <3>4. ASSUME NEW c \in Clients PROVE ClientInv(requests'[c], allowed'[c], now)
      <4>1. CASE c = caller
        <5>1. requests'[c] = window /\ allowed'[c] = past
          BY <2>5, <3>1, <4>1 DEF LimiterInv, LimiterTypeOK
        <5> QED
          BY <2>3, <2>4, <2>8, <2>9, <5>1 DEF ClientInv
      <4>2. CASE c # caller
        BY <3>1, <4>2 DEF LimiterInv, LimiterTypeOK
      <4> QED
        BY <4>1, <4>2
    <3> QED
      BY <2>1, <3>3, <3>4 DEF LimiterInv
  <2>11. CASE LetThrough(caller, window)
    <3>1. /\ requests' = [requests EXCEPT ![caller] = Append(window, now)]
          /\ allowed' = [allowed EXCEPT ![caller] = Append(past, now)]
          /\ refused' = [refused EXCEPT ![caller] = Never]
          /\ Len(window) < limit
      BY <2>5, <2>7, <2>11, LimiterAssumption DEF LetThrough, Full
    <3>2. /\ requests'[caller] = Append(window, now)
          /\ allowed'[caller] = Append(past, now)
          /\ \A c \in Clients \ {caller} :
               requests'[c] = requests[c] /\ allowed'[c] = allowed[c]
      BY <3>1 DEF LimiterInv, LimiterTypeOK
    <3>3. ClientInv(requests'[caller], allowed'[caller], now)
      <4>1. /\ Append(window, now) \in Seq(Nat)
            /\ Len(Append(window, now)) = Len(window) + 1
            /\ \A i \in 1..Len(window) : Append(window, now)[i] = window[i]
            /\ Append(window, now)[Len(window) + 1] = now
        BY <2>2, <2>4, Appended
      <4>2. /\ Append(past, now) \in Seq(Nat)
            /\ Len(Append(past, now)) = Len(past) + 1
            /\ \A i \in 1..Len(past) : Append(past, now)[i] = past[i]
            /\ Append(past, now)[Len(past) + 1] = now
        BY <2>2, <2>3, Appended
      <4>3. /\ EndsHistory(Append(window, now), Len(window) + 1, Append(past, now), Len(past) + 1, now)
            /\ Spread(Append(past, now), Len(past) + 1)
        <5> DEFINE window1 == Append(window, now)
                   past1   == Append(past, now)
                   k       == Len(window)
                   h       == Len(past)
        <5>1. now \in Nat /\ k \in Nat /\ h \in Nat
          BY <2>2, <2>7
        <5>2. EndsHistory(window, k, past, h, now) /\ Spread(past, h) /\ k < limit
          BY <2>8, <2>9, <3>1
        <5>3. (\A i \in 1..k : window1[i] = window[i]) /\ window1[k + 1] = now
          BY <4>1
        <5>4. (\A i \in 1..h : past1[i] = past[i]) /\ past1[h + 1] = now
          BY <4>2
        <5> HIDE DEF window1, past1, k, h
        <5>5. EndsHistory(window1, k + 1, past1, h + 1, now) /\ Spread(past1, h + 1)
          BY <5>1, <5>2, <5>3, <5>4, RemembersAppended, SMTT(30)
        <5> QED
          BY <5>5 DEF window1, past1, k, h
      <4>4. Len(window) + 1 <= limit
        BY <2>7, <3>1, LimiterAssumption
      <4> QED
        BY <3>2, <4>1, <4>2, <4>3, <4>4 DEF ClientInv
    <3>4. LimiterTypeOK'
      <4>1. Never \in [at: Nat, retry_after: Nat]
        BY DEF Never
      <4>2. /\ requests'[caller] \in Seq(Nat)
            /\ allowed'[caller] \in Seq(Nat)
            /\ Len(requests'[caller]) <= limit
        BY <3>3 DEF ClientInv
      <4>3. /\ requests \in [Clients -> Seq(Nat)]
            /\ allowed \in [Clients -> Seq(Nat)]
            /\ refused \in [Clients -> [at: Nat, retry_after: Nat]]
            /\ \A c \in Clients : Len(requests[c]) <= limit
        BY DEF LimiterInv, LimiterTypeOK
      <4>4. Append(window, now) \in Seq(Nat) /\ Append(past, now) \in Seq(Nat)
        BY <2>2, <2>3, <2>4
      <4>5. requests' \in [Clients -> Seq(Nat)] /\ allowed' \in [Clients -> Seq(Nat)]
        BY <3>1, <4>3, <4>4
      <4>6. refused' \in [Clients -> [at: Nat, retry_after: Nat]]
        BY <3>1, <4>1, <4>3
      <4>7. \A c \in Clients : Len(requests'[c]) <= limit
        BY <3>2, <4>2, <4>3
      <4>8. now' \in Nat
        BY <2>1, <2>2
      <4> QED
        BY <4>5, <4>6, <4>7, <4>8 DEF LimiterTypeOK
    <3>5. ASSUME NEW c \in Clients PROVE ClientInv(requests'[c], allowed'[c], now)
      BY <3>2, <3>3 DEF LimiterInv
    <3> QED
      BY <2>1, <3>4, <3>5 DEF LimiterInv
  <2> QED
    BY <2>6, <2>10, <2>11
<1>3. CASE UNCHANGED limiterVars
  BY <1>3 DEF limiterVars, LimiterInv, LimiterTypeOK
<1> QED
  BY <1>1, <1>2, <1>3 DEF LimiterNext

LEMMA LimiterStart == LimiterInit => LimiterInv
<1> SUFFICES ASSUME LimiterInit PROVE LimiterInv
  OBVIOUS
<1>1. LimiterTypeOK
  BY LimiterAssumption DEF LimiterInit, LimiterTypeOK, Never
<1>2. ASSUME NEW c \in Clients PROVE ClientInv(<<>>, <<>>, now)
  BY LimiterAssumption DEF ClientInv, EndsHistory, Spread
<1> QED
  BY <1>1, <1>2 DEF LimiterInit, LimiterInv

\* A client is never let through more than `limit' times in a stretch of the
\* window's width (SlidingWindowRateLimiter.allow).
THEOREM LimitHolds == LimiterSpec => []AtMostLimitPerWindow
<1>1. LimiterInv => AtMostLimitPerWindow
  BY DEF LimiterInv, ClientInv, Spread, AtMostLimitPerWindow
<1> QED
  BY <1>1, LimiterStart, LimiterStep, PTL DEF LimiterSpec

\* The deque of a client never holds more than `limit' times.
THEOREM LimiterTypeCorrect == LimiterSpec => []LimiterTypeOK
<1>1. LimiterInv => LimiterTypeOK
  BY DEF LimiterInv
<1> QED
  BY <1>1, LimiterStart, LimiterStep, PTL DEF LimiterSpec

-----------------------------------------------------------------------------
(* What a refusal says *)

\* The h times of `history' are in order, none after `time'.
Ordered(history, h, time) ==
  /\ \A i \in 1..h : history[i] <= time
  /\ \A i, j \in 1..h : i <= j => history[i] <= history[j]

\* The earliest of the last `limit' times counts at `at', and not at `later'.
Justifies(history, h, at, later) ==
  /\ limit <= h
  /\ at - history[(h - limit) + 1] < Width
  /\ later - history[(h - limit) + 1] >= Width

Later(refusal) == refusal.at + refusal.retry_after * TicksPerSecond

HintInv ==
  \A c \in Clients :
    /\ Ordered(allowed[c], Len(allowed[c]), now)
    /\ refused[c] # Never =>
         Justifies(allowed[c], Len(allowed[c]), refused[c].at, Later(refused[c]))

\* The hint, in whole seconds, is not shorter than what is left of the window.
LEMMA RetryAfterIsLong ==
  ASSUME NEW window \in Seq(Nat), Len(window) > 0, now \in Nat
  PROVE  now + RetryAfter(window) * TicksPerSecond - window[1] >= Width
<1> DEFINE left == Width - (now - window[1])
           seconds == left \div TicksPerSecond + 1
<1>1. left \in Int /\ window[1] \in Nat
  BY WidthType
<1>2. left + (now - window[1]) = Width
  BY <1>1, WidthType
<1>3. RetryAfter(window) = IF seconds > 1 THEN seconds ELSE 1
  BY DEF RetryAfter
<1> HIDE DEF left
<1>4. seconds \in Int /\ seconds * TicksPerSecond > left
  BY <1>1, LimiterAssumption
<1> HIDE DEF seconds
<1>5. RetryAfter(window) \in Int /\ RetryAfter(window) >= seconds
  BY <1>3, <1>4
<1>6. /\ RetryAfter(window) * TicksPerSecond >= seconds * TicksPerSecond
      /\ RetryAfter(window) * TicksPerSecond \in Int /\ seconds * TicksPerSecond \in Int
  BY <1>4, <1>5, LimiterAssumption
<1> QED
  BY <1>1, <1>2, <1>4, <1>6

LEMMA OrderedAppended ==
  ASSUME NEW history, NEW h \in Nat, NEW time \in Nat, Ordered(history, h, time),
         NEW history1, \A i \in 1..h : history1[i] = history[i], history1[h + 1] = time
  PROVE  Ordered(history1, h + 1, time)
<1>1. ASSUME NEW i \in 1..(h + 1), NEW j \in 1..(h + 1), i <= j
      PROVE  history1[i] <= history1[j]
  <2>1. CASE j \in 1..h
    BY <1>1, <2>1 DEF Ordered
  <2>2. CASE j = h + 1
    BY <1>1, <2>2 DEF Ordered
  <2> QED
    BY <2>1, <2>2
<1>2. ASSUME NEW i \in 1..(h + 1) PROVE history1[i] <= time
  BY DEF Ordered
<1> QED
  BY <1>1, <1>2 DEF Ordered

LEMMA HintStep == LimiterInv /\ HintInv /\ [LimiterNext]_limiterVars => HintInv'
<1> SUFFICES ASSUME LimiterInv, HintInv, [LimiterNext]_limiterVars PROVE HintInv'
  OBVIOUS
<1>0. /\ now \in Nat /\ allowed \in [Clients -> Seq(Nat)] /\ requests \in [Clients -> Seq(Nat)]
      /\ refused \in [Clients -> [at: Nat, retry_after: Nat]]
  BY DEF LimiterInv, LimiterTypeOK
<1>1. CASE TimePasses
  <2>1. now' = now + 1 /\ allowed' = allowed /\ refused' = refused
    BY <1>1 DEF TimePasses
  <2>2. ASSUME NEW c \in Clients PROVE Ordered(allowed[c], Len(allowed[c]), now + 1)
    <3>1. \A i \in 1..Len(allowed[c]) : allowed[c][i] \in Nat
      BY <1>0
    <3> QED
      BY <1>0, <3>1, SMTT(30) DEF HintInv, Ordered
  <2> QED
    BY <2>1, <2>2 DEF HintInv
<1>2. ASSUME NEW caller \in Clients, Allow(caller) PROVE HintInv'
  <2> DEFINE times == requests[caller]
             past  == allowed[caller]
             rest(n) == SubSeq(times, n + 1, Len(times))
  <2>1. PICK n \in 0..Len(times) :
          /\ n < Len(times) => ~Expired(times[n + 1])
          /\ \A i \in 1..n : Expired(times[i])
          /\ Refuse(caller, rest(n)) \/ LetThrough(caller, rest(n))
          /\ now' = now
    BY <1>2 DEF Allow
  <2> DEFINE window == rest(n)
  <2>2. /\ times \in Seq(Nat) /\ past \in Seq(Nat) /\ Len(times) <= limit
        /\ EndsHistory(times, Len(times), past, Len(past), now)
        /\ Ordered(past, Len(past), now)
    BY DEF LimiterInv, ClientInv, HintInv
  <2>3. /\ window \in Seq(Nat)
        /\ Len(window) = Len(times) - n
        /\ \A i \in 1..(Len(times) - n) : window[i] = times[n + i]
    BY <2>2, Popped
  <2>4. Refuse(caller, window) \/ LetThrough(caller, window)
    BY <2>1
  <2>5. past = allowed[caller]
    OBVIOUS
  <2> HIDE DEF times, past, window, rest
  <2>6. Len(times) \in Nat /\ Len(past) \in Nat /\ Len(window) \in Nat
    BY <2>2, <2>3
  <2>7. CASE Refuse(caller, window)
    <3> DEFINE refusal == [at |-> now, retry_after |-> RetryAfter(window)]
    <3>1. /\ allowed' = allowed /\ refused' = [refused EXCEPT ![caller] = refusal]
          /\ Len(window) >= limit
      BY <2>7 DEF Refuse, Full
    <3>2. Len(times) = limit /\ n = 0 /\ Len(window) = limit
      BY <2>1, <2>2, <2>3, <2>6, <3>1, LimiterAssumption
    <3>3. /\ Len(past) >= limit
          /\ window[1] = past[(Len(past) - limit) + 1] /\ window[1] = times[1]
      BY <2>2, <2>3, <2>6, <3>2, LimiterAssumption DEF EndsHistory
    <3>4. now - window[1] < Width
      <4>1. ~Expired(times[1])
        BY <2>1, <3>2, LimiterAssumption
      <4>2. times[1] \in Nat
        BY <2>2, <3>2, LimiterAssumption
      <4> QED
        BY <1>0, <3>3, <4>1, <4>2, WidthType DEF Expired
    <3>5. Later(refusal) - window[1] >= Width
      <4>1. Len(window) > 0
        BY <3>2, LimiterAssumption
      <4>2. now + RetryAfter(window) * TicksPerSecond - window[1] >= Width
        BY <1>0, <2>3, <4>1, RetryAfterIsLong
      <4>3. Later(refusal) = now + RetryAfter(window) * TicksPerSecond
        BY DEF Later
      <4>4. RetryAfter(window) \in Nat /\ window[1] \in Nat
        BY <1>0, <2>3, <4>1, RetryAfterType
      <4> HIDE DEF refusal
      <4> QED
        BY <1>0, <4>2, <4>3, <4>4, LimiterAssumption
    <3>6. Justifies(past, Len(past), now, Later(refusal))
      BY <2>6, <3>3, <3>4, <3>5 DEF Justifies
    <3>7. refusal.at = now
      OBVIOUS
    <3> HIDE DEF refusal
    <3>8. ASSUME NEW c \in Clients
          PROVE  refused'[c] # Never => Justifies(allowed'[c], Len(allowed'[c]), refused'[c].at, Later(refused'[c]))
      BY <1>0, <2>5, <3>1, <3>6, <3>7 DEF HintInv
    <3> QED
      BY <2>1, <3>1, <3>8 DEF HintInv
  <2>8. CASE LetThrough(caller, window)
    <3>1. /\ allowed' = [allowed EXCEPT ![caller] = Append(past, now)]
          /\ refused' = [refused EXCEPT ![caller] = Never]
      BY <2>5, <2>8 DEF LetThrough
    <3>2. /\ Append(past, now) \in Seq(Nat)
          /\ Len(Append(past, now)) = Len(past) + 1
          /\ \A i \in 1..Len(past) : Append(past, now)[i] = past[i]
          /\ Append(past, now)[Len(past) + 1] = now
      BY <1>0, <2>2, Appended
    <3>3. Ordered(Append(past, now), Len(Append(past, now)), now)
      <4> DEFINE past1 == Append(past, now)
      <4> HIDE DEF past1
      <4> QED
        BY <1>0, <2>2, <2>6, <3>2, OrderedAppended DEF past1
    <3>4. ASSUME NEW c \in Clients
          PROVE  /\ Ordered(allowed'[c], Len(allowed'[c]), now)
                 /\ refused'[c] # Never =>
                      Justifies(allowed'[c], Len(allowed'[c]), refused'[c].at, Later(refused'[c]))
      BY <1>0, <3>1, <3>3 DEF HintInv
    <3> QED
      BY <2>1, <3>4 DEF HintInv
  <2> QED
    BY <2>4, <2>7, <2>8
<1>3. CASE UNCHANGED limiterVars
  BY <1>3 DEF limiterVars, HintInv
<1> QED
  BY <1>1, <1>2, <1>3 DEF LimiterNext

LEMMA HintStart == LimiterInit => HintInv
BY DEF LimiterInit, HintInv, Ordered

LEMMA CountingBounds ==
  ASSUME LimiterInv, HintInv, NEW c \in Clients, refused[c] # Never
  PROVE  /\ Cardinality(Counting(c, refused[c].at)) >= limit
         /\ Cardinality(Counting(c, Later(refused[c]))) < limit
<1> DEFINE history == allowed[c]
           h       == Len(history)
           m       == (h - limit) + 1
           at      == refused[c].at
           later   == Later(refused[c])
<1>1. history \in Seq(Nat) /\ at \in Nat /\ refused[c].retry_after \in Nat
  BY DEF LimiterInv, LimiterTypeOK
<1>2. later \in Int
  BY <1>1, LimiterAssumption DEF Later
<1>3. Ordered(history, h, now) /\ Justifies(history, h, at, later)
  BY DEF HintInv
<1> HIDE DEF later
<1>4. h \in Nat /\ limit <= h /\ m \in 1..h /\ \A i \in 1..h : history[i] \in Nat
  BY <1>1, <1>3, LimiterAssumption, SMTT(30) DEF Justifies
<1>5. at - history[m] < Width /\ later - history[m] >= Width
  BY <1>3 DEF Justifies
<1>6. Cardinality(Counting(c, at)) >= limit
  <2>1. Counting(c, at) \in SUBSET (1..h) /\ IsFiniteSet(1..h)
    <3>1. 1 \in Int /\ h \in Int
      BY <1>4
    <3>2. IsFiniteSet(1..h)
      BY <3>1, FS_Interval
    <3> QED
      BY <3>2 DEF Counting
  <2>2. IsFiniteSet(Counting(c, at))
    BY <2>1, FS_Subset
  <2>3. ASSUME NEW i \in m..h PROVE i \in Counting(c, at)
    <3>1. i \in 1..h /\ history[m] <= history[i]
      BY <1>3, <1>4 DEF Ordered
    <3>2. history[i] \in Nat /\ history[m] \in Nat
      BY <1>4, <3>1
    <3> QED
      BY <1>1, <1>5, <3>1, <3>2, WidthType, SMTT(30) DEF Counting
  <2>4. m..h \in SUBSET Counting(c, at)
    BY <2>3
  <2>5. Cardinality(m..h) <= Cardinality(Counting(c, at))
    BY <2>2, <2>4, FS_Subset
  <2>6. Cardinality(m..h) = limit
    BY <1>4, FS_Interval, LimiterAssumption
  <2>7. Cardinality(Counting(c, at)) \in Nat
    BY <2>2, FS_CardinalityType
  <2> QED
    BY <2>5, <2>6, <2>7, LimiterAssumption
<1>7. Cardinality(Counting(c, later)) < limit
  <2>1. ASSUME NEW i \in Counting(c, later) PROVE i \in (m + 1)..h
    <3>1. i \in 1..h /\ later - history[i] < Width
      BY DEF Counting
    <3>2. CASE i <= m
      <4>1. history[i] <= history[m]
        BY <1>3, <1>4, <3>1, <3>2 DEF Ordered
      <4>2. history[i] \in Nat /\ history[m] \in Nat
        BY <1>4, <3>1
      <4> QED
        BY <1>2, <1>5, <3>1, <4>1, <4>2, WidthType
    <3> QED
      BY <1>4, <3>1, <3>2
  <2>2. Counting(c, later) \in SUBSET ((m + 1)..h)
    BY <2>1
  <2>3. IsFiniteSet((m + 1)..h) /\ Cardinality((m + 1)..h) = limit - 1
    <3>1. m + 1 \in Int /\ h \in Int
      BY <1>4
    <3>2. /\ IsFiniteSet((m + 1)..h)
          /\ Cardinality((m + 1)..h) = IF m + 1 > h THEN 0 ELSE h - (m + 1) + 1
      BY <3>1, FS_Interval
    <3>3. (IF m + 1 > h THEN 0 ELSE h - (m + 1) + 1) = limit - 1
      BY <1>4, LimiterAssumption
    <3> QED
      BY <3>2, <3>3
  <2>4. /\ Cardinality(Counting(c, later)) <= limit - 1
        /\ IsFiniteSet(Counting(c, later))
    BY <2>2, <2>3, FS_Subset
  <2>5. Cardinality(Counting(c, later)) \in Nat
    BY <2>4, FS_CardinalityType
  <2> QED
    BY <2>4, <2>5, LimiterAssumption
<1> QED
  BY <1>6, <1>7 DEF later

\* A client that waits as long as Retry-After says is let through: the
\* rounding to whole seconds never makes the hint too short.
THEOREM WaitingSuffices == LimiterSpec => []RetryAfterSuffices
<1>1. LimiterInv /\ HintInv => RetryAfterSuffices
  BY CountingBounds DEF RetryAfterSuffices, Later
<1> QED
  BY <1>1, LimiterStart, LimiterStep, HintStart, HintStep, PTL DEF LimiterSpec

\* No client is refused for times that have left the window.
THEOREM RefusalsHaveCause == LimiterSpec => []RefusedWithCause
<1>1. LimiterInv /\ HintInv => RefusedWithCause
  BY CountingBounds DEF RefusedWithCause
<1> QED
  BY <1>1, LimiterStart, LimiterStep, HintStart, HintStep, PTL DEF LimiterSpec

(***************************************************************************)
(*                          THE IDEMPOTENCY KEYS                           *)
(*                                                                         *)
(* Idempotent requests, for every number of calls and keys, every TTL and  *)
(* every interleaving.                                                     *)
(***************************************************************************)

-----------------------------------------------------------------------------
(* What each step does, field by field *)

\* All of d's fields but `outlived' stay as they are.
Keeps(d) ==
  /\ call'[d].pc = call[d].pc /\ call'[d].key = call[d].key
  /\ call'[d].fingerprint = call[d].fingerprint
  /\ call'[d].now = call[d].now /\ call'[d].began = call[d].began
  /\ call'[d].wrote = call[d].wrote
  /\ call'[d].outcome = call[d].outcome /\ call'[d].response = call[d].response

\* Only c moves, and nothing becomes of its key, fingerprint and history.
OnlyMoves(c) ==
  /\ call'[c].key = call[c].key /\ call'[c].fingerprint = call[c].fingerprint
  /\ call'[c].began = call[c].began /\ call'[c].outlived = call[c].outlived
  /\ \A d \in Calls \ {c} : call'[d] = call[d]
  /\ clock' = clock /\ crashes' = crashes

LEMMA SendDoes ==
  ASSUME IdempotencyTypeOK, NEW c \in Calls, Send(c)
  PROVE  /\ OnlyMoves(c) /\ idempotency_keys' = idempotency_keys
         /\ call[c].pc = "unsent" /\ call'[c].pc = "begin" /\ call'[c].now = clock
         /\ call'[c].wrote = call[c].wrote
         /\ call'[c].outcome = call[c].outcome /\ call'[c].response = call[c].response
BY DEF IdempotencyTypeOK, Send, OnlyMoves, Call

LEMMA OperateDoes ==
  ASSUME IdempotencyTypeOK, NEW c \in Calls, Operate(c)
  PROVE  /\ OnlyMoves(c) /\ idempotency_keys' = idempotency_keys
         /\ call[c].pc = "operate" /\ call'[c].pc = "complete" /\ call'[c].now = call[c].now
         /\ call'[c].wrote
         /\ call'[c].outcome = call[c].outcome /\ call'[c].response = call[c].response
BY DEF IdempotencyTypeOK, Operate, OnlyMoves, Call

LEMMA RaisesDoes ==
  ASSUME IdempotencyTypeOK, NEW c \in Calls, OperateRaises(c)
  PROVE  /\ OnlyMoves(c) /\ idempotency_keys' = idempotency_keys
         /\ call[c].pc = "operate" /\ call'[c].pc = "abandon" /\ call'[c].now = call[c].now
         /\ call'[c].outcome = call[c].outcome /\ call'[c].response = call[c].response
BY DEF IdempotencyTypeOK, OperateRaises, OnlyMoves, Call

\* A table call ends, whether it returns or raises.
Begins(c) == Begin(c) \/ BeginRaises(c)

Abandons(c) == Abandon(c) \/ AbandonRaises(c)

Completes(c) == Complete(c) \/ CompleteRaises(c)

LEMMA AnswerDoes ==
  ASSUME IdempotencyTypeOK, NEW c \in Calls, NEW outcome, NEW response,
         Answer(c, outcome, response), UNCHANGED <<clock, crashes>>
  PROVE  /\ OnlyMoves(c) /\ call'[c].pc = "done" /\ call'[c].now = call[c].now
         /\ call'[c].wrote = call[c].wrote
         /\ call'[c].outcome = outcome /\ call'[c].response = response
BY DEF IdempotencyTypeOK, Answer, OnlyMoves, Call

LEMMA AbandonDoes ==
  ASSUME IdempotencyTypeOK, NEW c \in Calls, Abandons(c)
  PROVE  /\ OnlyMoves(c)
         /\ call[c].pc = "abandon" /\ call'[c].pc = "done" /\ call'[c].now = call[c].now
         /\ call'[c].outcome \in {"error", "unreleased"}
         /\ \A k \in IdempotencyKeys \ {call[c].key} : idempotency_keys'[k] = idempotency_keys[k]
         /\ LET row == idempotency_keys[call[c].key] IN
              \/ /\ row # NoRow /\ row.response_json = NoResponse
                 /\ idempotency_keys'[call[c].key] = NoRow
              \/ /\ \/ call'[c].outcome = "unreleased"
                    \/ row = NoRow \/ row.response_json # NoResponse
                 /\ idempotency_keys'[call[c].key] = row
<1> DEFINE k == call[c].key
           row == idempotency_keys[k]
<1>1. k \in IdempotencyKeys /\ idempotency_keys \in [IdempotencyKeys -> Row \cup {NoRow}]
  BY DEF IdempotencyTypeOK, Call
<1>2. /\ Released(k)[k] = IF row # NoRow /\ row.response_json = NoResponse THEN NoRow ELSE row
      /\ \A j \in IdempotencyKeys \ {k} : Released(k)[j] = idempotency_keys[j]
  BY <1>1 DEF Released
<1>3. CASE Abandon(c)
  <2>1. /\ OnlyMoves(c) /\ call'[c].pc = "done" /\ call'[c].now = call[c].now
        /\ call'[c].outcome = "error"
    BY <1>3, AnswerDoes DEF Abandon
  <2>2. call[c].pc = "abandon" /\ idempotency_keys' = Released(k)
    BY <1>3 DEF Abandon
  <2> QED
    BY <1>2, <2>1, <2>2
<1>4. CASE AbandonRaises(c)
  <2>1. /\ OnlyMoves(c) /\ call'[c].pc = "done" /\ call'[c].now = call[c].now
        /\ call'[c].outcome = "unreleased"
    BY <1>4, AnswerDoes DEF AbandonRaises
  <2>2. /\ call[c].pc = "abandon"
        /\ idempotency_keys' = idempotency_keys \/ idempotency_keys' = Released(k)
    BY <1>4 DEF AbandonRaises
  <2> QED
    BY <1>2, <2>1, <2>2
<1> QED
  BY <1>3, <1>4 DEF Abandons

\* c's answer is in the row of k, if that is still there.
FillsRow(c, k) ==
  LET row  == idempotency_keys[k]
      next == idempotency_keys'[k]
  IN  /\ row = NoRow => next = NoRow
      /\ row # NoRow => /\ next # NoRow /\ next.response_json = c
                        /\ next.request_fingerprint = row.request_fingerprint
                        /\ next.created_at = row.created_at

LEMMA CompleteDoes ==
  ASSUME IdempotencyTypeOK, NEW c \in Calls, Completes(c)
  PROVE  /\ OnlyMoves(c)
         /\ call[c].pc = "complete" /\ call'[c].pc = "done" /\ call'[c].now = call[c].now
         /\ call'[c].wrote = call[c].wrote /\ call'[c].outcome \in {"success", "unanswered"}
         /\ \A k \in IdempotencyKeys \ {call[c].key} : idempotency_keys'[k] = idempotency_keys[k]
         /\ \/ FillsRow(c, call[c].key)
            \/ /\ call'[c].outcome = "unanswered"
               /\ idempotency_keys'[call[c].key] = idempotency_keys[call[c].key]
<1> DEFINE k == call[c].key
           row == idempotency_keys[k]
<1>1. ASSUME Complete(c)
      PROVE  /\ OnlyMoves(c)
             /\ call[c].pc = "complete" /\ call'[c].pc = "done" /\ call'[c].now = call[c].now
             /\ call'[c].wrote = call[c].wrote /\ call'[c].outcome = "success"
             /\ idempotency_keys' = Filled(k, c)
  BY <1>1, AnswerDoes DEF Complete
<1>2. ASSUME CompleteRaises(c)
      PROVE  /\ OnlyMoves(c)
             /\ call[c].pc = "complete" /\ call'[c].pc = "done" /\ call'[c].now = call[c].now
             /\ call'[c].wrote = call[c].wrote /\ call'[c].outcome = "unanswered"
             /\ idempotency_keys' = idempotency_keys \/ idempotency_keys' = Filled(k, c)
  BY <1>2, AnswerDoes DEF CompleteRaises
<1>3. k \in IdempotencyKeys /\ row \in Row \cup {NoRow}
  BY DEF IdempotencyTypeOK, Call
<1>4. /\ Filled(k, c)[k] = IF row # NoRow THEN [row EXCEPT !.response_json = c] ELSE row
      /\ \A j \in IdempotencyKeys \ {k} : Filled(k, c)[j] = idempotency_keys[j]
  BY <1>3 DEF IdempotencyTypeOK, Filled
<1>5. ASSUME row # NoRow
      PROVE  /\ [row EXCEPT !.response_json = c] # NoRow
             /\ [row EXCEPT !.response_json = c].response_json = c
             /\ [row EXCEPT !.response_json = c].request_fingerprint = row.request_fingerprint
             /\ [row EXCEPT !.response_json = c].created_at = row.created_at
  <2>1. row \in Row
    BY <1>3, <1>5
  <2>2. [row EXCEPT !.response_json = c] \in Row
    BY <2>1 DEF Row
  <2> QED
    BY <2>1, <2>2, NoRowAssumption DEF Row
<1>6. ASSUME idempotency_keys' = Filled(k, c)
      PROVE  /\ FillsRow(c, k)
             /\ \A j \in IdempotencyKeys \ {k} : idempotency_keys'[j] = idempotency_keys[j]
  BY <1>4, <1>5, <1>6 DEF FillsRow
<1> QED
  BY <1>1, <1>2, <1>6 DEF Completes

\* The rows a begun request goes by.
LEMMA KeptRows ==
  ASSUME NEW t, NEW k \in IdempotencyKeys
  PROVE  \/ Kept(t)[k] = idempotency_keys[k]
         \/ /\ Kept(t)[k] = NoRow /\ idempotency_keys[k] # NoRow
            /\ idempotency_keys[k].created_at < t - TTL
BY DEF Kept

Reserves(c) ==
  LET k == call[c].key IN
  /\ call[c].pc = "begin" /\ Kept(call[c].now)[k] = NoRow
  /\ \/ call'[c].pc = "operate" /\ call'[c].outcome = "none"
     \/ call'[c].pc = "done" /\ call'[c].outcome = "unreleased"
  /\ call'[c].began = clock
  /\ call'[c].key = k /\ call'[c].fingerprint = call[c].fingerprint
  /\ call'[c].now = call[c].now /\ call'[c].wrote = call[c].wrote
  /\ call'[c].outlived = call[c].outlived
  /\ \A d \in Calls \ {c} :
       /\ Keeps(d)
       /\ call[d].outlived => call'[d].outlived
       /\ Served(d) /\ call[d].key = k => call'[d].outlived
       /\ ~(Served(d) /\ call[d].key = k) => call'[d].outlived = call[d].outlived
  /\ idempotency_keys'[k] # NoRow
  /\ idempotency_keys'[k].request_fingerprint = call[c].fingerprint
  /\ idempotency_keys'[k].response_json = NoResponse
  /\ idempotency_keys'[k].created_at = call[c].now
  /\ \A j \in IdempotencyKeys \ {k} : idempotency_keys'[j] = Kept(call[c].now)[j]
  /\ clock' = clock /\ crashes' = crashes

IsAnswered(c) ==
  LET row == Kept(call[c].now)[call[c].key] IN
  /\ OnlyMoves(c)
  /\ call[c].pc = "begin" /\ call'[c].pc = "done" /\ call'[c].now = call[c].now
  /\ call'[c].wrote = call[c].wrote
  /\ call'[c].outcome \in {"conflict", "in_progress", "replay", "unserved"}
  /\ call'[c].outcome # "unserved" => row # NoRow
  /\ call'[c].outcome = "replay" =>
       /\ row.request_fingerprint = call[c].fingerprint
       /\ row.response_json # NoResponse /\ call'[c].response = row.response_json
  /\ idempotency_keys' = idempotency_keys \/ idempotency_keys' = Kept(call[c].now)

LEMMA TakesKeyDoes ==
  ASSUME IdempotencyTypeOK, NEW c \in Calls, NEW pc, NEW outcome,
         TakesKey(c, pc, outcome), call[c].pc = "begin", Kept(call[c].now)[call[c].key] = NoRow,
         \/ pc = "operate" /\ outcome = "none"
         \/ pc = "done" /\ outcome = "unreleased",
         clock' = clock, crashes' = crashes
  PROVE  Reserves(c)
<1> DEFINE r == call[c]
           table == Kept(r.now)
<1>1. /\ r \in Call /\ r.key \in IdempotencyKeys /\ r.now \in 0..MaxClock
      /\ r.fingerprint \in Fingerprints /\ call \in [Calls -> Call]
  BY DEF IdempotencyTypeOK, Call
<1>2. table = [k \in IdempotencyKeys |-> table[k]]
  BY DEF Kept
<1>3. idempotency_keys' = [table EXCEPT ![r.key] = Reserved(r.fingerprint, r.now)]
  BY DEF TakesKey
<1>4. call' = [d \in Calls |->
        IF d = c THEN [r EXCEPT !.pc = pc, !.outcome = outcome, !.began = clock]
        ELSE [call[d] EXCEPT !.outlived = @ \/ (Served(d) /\ call[d].key = r.key)]]
  BY DEF TakesKey
<1> HIDE DEF table
<1>5. /\ idempotency_keys'[r.key] = Reserved(r.fingerprint, r.now)
      /\ \A j \in IdempotencyKeys \ {r.key} : idempotency_keys'[j] = table[j]
  BY <1>1, <1>2, <1>3
<1>6. Reserved(r.fingerprint, r.now) \in Row
  BY <1>1, CallsAssumption DEF Reserved, Row
<1>7. call'[c] = [r EXCEPT !.pc = pc, !.outcome = outcome, !.began = clock]
  BY <1>4
<1>8. ASSUME NEW d \in Calls \ {c}
      PROVE  /\ Keeps(d)
             /\ call[d].outlived => call'[d].outlived
             /\ Served(d) /\ call[d].key = r.key => call'[d].outlived
             /\ ~(Served(d) /\ call[d].key = r.key) => call'[d].outlived = call[d].outlived
  <2>1. call'[d] = [call[d] EXCEPT !.outlived = @ \/ (Served(d) /\ call[d].key = r.key)]
    BY <1>4
  <2>2. call[d] \in Call
    BY <1>1
  <2>3. Keeps(d)
    BY <2>1, <2>2 DEF Keeps, Call
  <2>4. call'[d].outlived = (call[d].outlived \/ (Served(d) /\ call[d].key = r.key))
    BY <2>1, <2>2 DEF Call
  <2>5. call[d].outlived \in BOOLEAN
    BY <2>2 DEF Call
  <2> QED
    BY <2>3, <2>4, <2>5, Zenon
<1>9. /\ call'[c].pc = pc /\ call'[c].outcome = outcome /\ call'[c].began = clock
      /\ call'[c].key = r.key /\ call'[c].fingerprint = r.fingerprint
      /\ call'[c].now = r.now /\ call'[c].wrote = r.wrote
      /\ call'[c].outlived = r.outlived
  BY <1>1, <1>7 DEF Call
<1>10. /\ idempotency_keys'[r.key] # NoRow
       /\ idempotency_keys'[r.key].request_fingerprint = r.fingerprint
       /\ idempotency_keys'[r.key].response_json = NoResponse
       /\ idempotency_keys'[r.key].created_at = r.now
  BY <1>5, <1>6, NoRowAssumption DEF Reserved
<1> QED
  BY <1>5, <1>8, <1>9, <1>10 DEF Reserves, table

LEMMA BeginDoes ==
  ASSUME IdempotencyTypeOK, NEW c \in Calls, Begins(c)
  PROVE  Reserves(c) \/ IsAnswered(c)
<1> DEFINE r == call[c]
           table == Kept(r.now)
           verdict == Verdict(table[r.key], r.fingerprint)
<1>1. r.pc = "begin" /\ clock' = clock /\ crashes' = crashes
  BY DEF Begins, Begin, BeginRaises
<1>2. CASE Begin(c) /\ verdict = "new"
  <2>1. table[r.key] = NoRow
    BY <1>2 DEF Verdict
  <2>2. TakesKey(c, "operate", "none")
    BY <1>2 DEF Begin
  <2> QED
    BY <1>1, <2>1, <2>2, TakesKeyDoes
<1>3. CASE Begin(c) /\ verdict # "new"
  <2>1. /\ idempotency_keys' = table
        /\ Answer(c, verdict, IF verdict = "replay" THEN table[r.key].response_json ELSE NoResponse)
    BY <1>3 DEF Begin
  <2>2. /\ table[r.key] # NoRow /\ verdict \in {"conflict", "in_progress", "replay"}
        /\ verdict = "replay" => /\ table[r.key].request_fingerprint = r.fingerprint
                                 /\ table[r.key].response_json # NoResponse
    BY <1>3 DEF Verdict
  <2> HIDE DEF table, verdict
  <2>3. /\ OnlyMoves(c)
        /\ call'[c].pc = "done" /\ call'[c].now = call[c].now /\ call'[c].wrote = call[c].wrote
        /\ call'[c].outcome = verdict
        /\ verdict = "replay" => call'[c].response = table[r.key].response_json
    BY <1>1, <2>1, AnswerDoes
  <2> QED
    BY <1>1, <2>1, <2>2, <2>3 DEF IsAnswered, table
<1>4. CASE BeginRaises(c) /\ Answer(c, "unserved", NoResponse)
           /\ (idempotency_keys' = idempotency_keys \/ idempotency_keys' = table)
  <2>1. /\ OnlyMoves(c)
        /\ call'[c].pc = "done" /\ call'[c].now = call[c].now /\ call'[c].wrote = call[c].wrote
        /\ call'[c].outcome = "unserved"
    BY <1>1, <1>4, AnswerDoes
  <2> QED
    BY <1>1, <1>4, <2>1 DEF IsAnswered
<1>5. CASE BeginRaises(c) /\ table[r.key] = NoRow /\ TakesKey(c, "done", "unreleased")
  BY <1>1, <1>5, TakesKeyDoes
<1> QED
  BY <1>2, <1>3, <1>4, <1>5 DEF Begins, BeginRaises

LEMMA RestartDoes ==
  ASSUME IdempotencyTypeOK, Restart, NEW c \in Calls
  PROVE  /\ InFlight(c) =>
              /\ call'[c].pc = "done"
              /\ call'[c].outcome = IF Served(c) THEN "lost" ELSE "unserved"
              /\ call'[c].key = call[c].key /\ call'[c].fingerprint = call[c].fingerprint
              /\ call'[c].now = call[c].now /\ call'[c].began = call[c].began
              /\ call'[c].wrote = call[c].wrote /\ call'[c].outlived = call[c].outlived
              /\ call'[c].response = call[c].response
         /\ ~InFlight(c) => call'[c] = call[c]
         /\ idempotency_keys' = idempotency_keys /\ clock' = clock /\ crashes' = crashes + 1
<1> DEFINE outcome == IF Served(c) THEN "lost" ELSE "unserved"
<1>1. call[c] \in Call
  BY DEF IdempotencyTypeOK
<1>2. /\ call'[c] = IF InFlight(c) THEN [call[c] EXCEPT !.pc = "done", !.outcome = outcome] ELSE call[c]
      /\ idempotency_keys' = idempotency_keys /\ clock' = clock /\ crashes' = crashes + 1
  BY DEF Restart
<1> HIDE DEF outcome
<1>3. InFlight(c) =>
        /\ call'[c].pc = "done" /\ call'[c].outcome = outcome
        /\ call'[c].key = call[c].key /\ call'[c].fingerprint = call[c].fingerprint
        /\ call'[c].now = call[c].now /\ call'[c].began = call[c].began
        /\ call'[c].wrote = call[c].wrote /\ call'[c].outlived = call[c].outlived
        /\ call'[c].response = call[c].response
  BY <1>1, <1>2 DEF Call
<1> QED
  BY <1>2, <1>3 DEF outcome

\* What becomes of a call, whoever moves: its request stays what it is, so
\* does the time it read, an outlived reservation stays outlived, and what was
\* told was told.
GoesOn(d) ==
  /\ call'[d].key = call[d].key /\ call'[d].fingerprint = call[d].fingerprint
  /\ call[d].pc # "unsent" => call'[d].now = call[d].now
  /\ call[d].outlived => call'[d].outlived
  /\ call[d].pc = "done" => Keeps(d)

LEMMA CallsGoOn ==
  ASSUME IdempotencyTypeOK, IdempotencyNext, NEW d \in Calls
  PROVE  /\ GoesOn(d)
         /\ clock' = clock \/ (clock' = clock + 1 /\ call' = call)
<1>1. ASSUME NEW c \in Calls, Send(c) \/ Operate(c) \/ OperateRaises(c) \/ Abandons(c) \/ Completes(c)
      PROVE  /\ OnlyMoves(c) /\ call[c].pc # "done"
             /\ call[c].pc # "unsent" => call'[c].now = call[c].now
  BY <1>1, SendDoes, OperateDoes, RaisesDoes, AbandonDoes, CompleteDoes
<1>2. ASSUME NEW c \in Calls, OnlyMoves(c), call[c].pc # "done",
             call[c].pc # "unsent" => call'[c].now = call[c].now
      PROVE  GoesOn(d) /\ clock' = clock
  <2>1. CASE d = c
    BY <1>2, <2>1 DEF OnlyMoves, GoesOn
  <2>2. CASE d # c
    BY <1>2, <2>2 DEF OnlyMoves, Keeps, GoesOn
  <2> QED
    BY <2>1, <2>2
<1>3. ASSUME NEW c \in Calls, Begins(c)
      PROVE  GoesOn(d) /\ clock' = clock
  <2>1. CASE IsAnswered(c)
    BY <1>2, <2>1 DEF IsAnswered
  <2>2. CASE Reserves(c)
    <3>1. CASE d = c
      BY <2>2, <3>1 DEF Reserves, GoesOn
    <3>2. CASE d # c
      BY <2>2, <3>2 DEF Reserves, Keeps, GoesOn
    <3> QED
      BY <2>2, <3>1, <3>2 DEF Reserves
  <2> QED
    BY <1>3, <2>1, <2>2, BeginDoes
<1>4. CASE ClockTicks
  BY <1>4 DEF ClockTicks, Keeps, GoesOn
<1>5. CASE Restart
  BY <1>5, RestartDoes DEF Keeps, InFlight, Served, GoesOn
<1> QED
  BY <1>1, <1>2, <1>3, <1>4, <1>5 DEF IdempotencyNext, Handle, Begins, Abandons, Completes

LEMMA OutlivedStays ==
  ASSUME IdempotencyTypeOK, IdempotencyNext, NEW k, Outlived(k)
  PROVE  Outlived(k)'
<1>1. PICK c \in Calls : call[c].key = k /\ call[c].outlived
  BY DEF Outlived
<1>2. call'[c].key = k /\ call'[c].outlived
  BY <1>1, CallsGoOn DEF GoesOn
<1> QED
  BY <1>2 DEF Outlived

-----------------------------------------------------------------------------
(* Types *)

LEMMA KeptType ==
  ASSUME IdempotencyTypeOK, NEW t
  PROVE  Kept(t) \in [IdempotencyKeys -> Row \cup {NoRow}]
BY DEF IdempotencyTypeOK, Kept

LEMMA TypeStep ==
  ASSUME IdempotencyTypeOK, IdempotencyNext
  PROVE  IdempotencyTypeOK'
<1>0. /\ idempotency_keys \in [IdempotencyKeys -> Row \cup {NoRow}]
      /\ call \in [Calls -> Call] /\ clock \in 0..MaxClock /\ crashes \in 0..MaxCrashes
      /\ MaxClock \in Nat /\ MaxCrashes \in Nat
  BY CallsAssumption DEF IdempotencyTypeOK
<1>1. ASSUME NEW c \in Calls, Send(c) \/ Operate(c) \/ OperateRaises(c)
      PROVE  IdempotencyTypeOK'
  <2>1. call' \in [Calls -> Call]
    <3>0. call[c] \in Call
      BY <1>0
    <3>1. CASE Send(c)
      <4>1. call' = [call EXCEPT ![c] = [@ EXCEPT !.pc = "begin", !.now = clock]]
        BY <1>0, <3>1 DEF Send
      <4>2. [call[c] EXCEPT !.pc = "begin", !.now = clock] \in Call
        BY <1>0, <3>0 DEF Call
      <4> QED
        BY <1>0, <4>1, <4>2
    <3>2. CASE Operate(c)
      <4>1. call' = [call EXCEPT ![c] = [@ EXCEPT !.pc = "complete", !.wrote = TRUE]]
        BY <1>0, <3>2 DEF Operate
      <4>2. [call[c] EXCEPT !.pc = "complete", !.wrote = TRUE] \in Call
        BY <3>0 DEF Call
      <4> QED
        BY <1>0, <4>1, <4>2
    <3>3. CASE OperateRaises(c)
      <4>1. PICK wrote \in BOOLEAN :
              call' = [call EXCEPT ![c] = [@ EXCEPT !.pc = "abandon", !.wrote = wrote]]
        BY <1>0, <3>3 DEF OperateRaises
      <4>2. [call[c] EXCEPT !.pc = "abandon", !.wrote = wrote] \in Call
        BY <3>0 DEF Call
      <4> QED
        BY <1>0, <4>1, <4>2
    <3> QED
      BY <1>1, <3>1, <3>2, <3>3
  <2>2. idempotency_keys' = idempotency_keys /\ clock' = clock /\ crashes' = crashes
    BY <1>1 DEF Send, Operate, OperateRaises
  <2> QED
    BY <1>0, <2>1, <2>2 DEF IdempotencyTypeOK
<1>2. ASSUME NEW c \in Calls, NEW outcome \in Outcome, NEW response \in Calls \cup {NoResponse},
             Answer(c, outcome, response)
      PROVE  call' \in [Calls -> Call]
  <2>1. call[c] \in Call
    BY <1>0
  <2>2. [call[c] EXCEPT !.pc = "done", !.outcome = outcome, !.response = response] \in Call
    BY <2>1 DEF Call
  <2>3. call' = [call EXCEPT
          ![c] = [@ EXCEPT !.pc = "done", !.outcome = outcome, !.response = response]]
    BY <1>0, <1>2 DEF Answer
  <2> QED
    BY <1>0, <2>2, <2>3
<1>3. ASSUME NEW c \in Calls, Abandons(c)
      PROVE  IdempotencyTypeOK'
  <2>1. call' \in [Calls -> Call]
    BY <1>2, <1>3 DEF Abandons, Abandon, AbandonRaises, Outcome
  <2>2. Released(call[c].key) \in [IdempotencyKeys -> Row \cup {NoRow}]
    BY <1>0 DEF Released
  <2>3. idempotency_keys' \in [IdempotencyKeys -> Row \cup {NoRow}]
    BY <1>0, <1>3, <2>2 DEF Abandons, Abandon, AbandonRaises
  <2>4. clock' = clock /\ crashes' = crashes
    BY <1>3 DEF Abandons, Abandon, AbandonRaises
  <2> QED
    BY <1>0, <2>1, <2>3, <2>4 DEF IdempotencyTypeOK
<1>4. ASSUME NEW c \in Calls, Completes(c)
      PROVE  IdempotencyTypeOK'
  <2>1. call' \in [Calls -> Call]
    BY <1>2, <1>4 DEF Completes, Complete, CompleteRaises, Outcome
  <2>2. Filled(call[c].key, c) \in [IdempotencyKeys -> Row \cup {NoRow}]
    <3> DEFINE k == call[c].key
               row == idempotency_keys[k]
               next == IF row # NoRow THEN [row EXCEPT !.response_json = c] ELSE row
    <3>1. row \in Row \cup {NoRow} /\ k \in IdempotencyKeys
      BY <1>0 DEF Call
    <3>2. next \in Row \cup {NoRow}
      BY <3>1 DEF Row
    <3>3. Filled(k, c) = [idempotency_keys EXCEPT ![k] = next]
      BY DEF Filled
    <3> QED
      BY <1>0, <3>2, <3>3
  <2>3. idempotency_keys' \in [IdempotencyKeys -> Row \cup {NoRow}]
    BY <1>0, <1>4, <2>2 DEF Completes, Complete, CompleteRaises
  <2>4. clock' = clock /\ crashes' = crashes
    BY <1>4 DEF Completes, Complete, CompleteRaises
  <2> QED
    BY <1>0, <2>1, <2>3, <2>4 DEF IdempotencyTypeOK
<1>5. ASSUME NEW c \in Calls, Begins(c)
      PROVE  IdempotencyTypeOK'
  <2> DEFINE r == call[c]
             table == Kept(r.now)
             verdict == Verdict(table[r.key], r.fingerprint)
             response == IF verdict = "replay" THEN table[r.key].response_json ELSE NoResponse
  <2>1. r \in Call /\ table \in [IdempotencyKeys -> Row \cup {NoRow}]
    BY <1>0, KeptType
  <2>2. clock' = clock /\ crashes' = crashes
    BY <1>5 DEF Begins, Begin, BeginRaises
  <2>3. ASSUME NEW pc \in {"operate", "done"}, NEW outcome \in Outcome, TakesKey(c, pc, outcome)
        PROVE  IdempotencyTypeOK'
    <3>1. /\ idempotency_keys' = [table EXCEPT ![r.key] = Reserved(r.fingerprint, r.now)]
          /\ call' = [d \in Calls |->
               IF d = c THEN [r EXCEPT !.pc = pc, !.outcome = outcome, !.began = clock]
               ELSE [call[d] EXCEPT !.outlived = @ \/ (Served(d) /\ call[d].key = r.key)]]
      BY <2>3 DEF TakesKey
    <3> HIDE DEF table, verdict
    <3>2. Reserved(r.fingerprint, r.now) \in Row
      BY <2>1 DEF Reserved, Row, Call
    <3>3. idempotency_keys' \in [IdempotencyKeys -> Row \cup {NoRow}]
      BY <2>1, <3>1, <3>2
    <3>4. [r EXCEPT !.pc = pc, !.outcome = outcome, !.began = clock] \in Call
      BY <1>0, <2>1 DEF Call
    <3>5. ASSUME NEW d \in Calls
          PROVE  [call[d] EXCEPT !.outlived = @ \/ (Served(d) /\ call[d].key = r.key)] \in Call
      <4>1. call[d] \in Call
        BY <1>0
      <4>2. (call[d].outlived \/ (Served(d) /\ call[d].key = r.key)) \in BOOLEAN
        OBVIOUS
      <4> QED
        BY <4>1, <4>2 DEF Call
    <3>6. call' \in [Calls -> Call]
      BY <3>1, <3>4, <3>5
    <3> QED
      BY <1>0, <2>2, <3>3, <3>6 DEF IdempotencyTypeOK
  <2>4. CASE Begin(c) /\ verdict # "new"
    <3>1. idempotency_keys' = table /\ Answer(c, verdict, response)
      BY <2>4 DEF Begin
    <3>2. verdict \in Outcome
      BY <2>4 DEF Verdict, Outcome
    <3>3. verdict = "replay" => table[r.key] # NoRow
      BY DEF Verdict
    <3> HIDE DEF table, verdict
    <3>4. response \in Calls \cup {NoResponse}
      BY <2>1, <3>3 DEF Row, Call
    <3> HIDE DEF response
    <3>5. call' \in [Calls -> Call]
      BY <1>2, <3>1, <3>2, <3>4
    <3> QED
      BY <1>0, <2>1, <2>2, <3>1, <3>5 DEF IdempotencyTypeOK
  <2>5. CASE /\ Answer(c, "unserved", NoResponse)
             /\ idempotency_keys' = idempotency_keys \/ idempotency_keys' = table
    <3>1. call' \in [Calls -> Call]
      BY <1>2, <2>5 DEF Outcome
    <3> QED
      BY <1>0, <2>1, <2>2, <2>5, <3>1 DEF IdempotencyTypeOK
  <2>6. "none" \in Outcome /\ "unreleased" \in Outcome
    BY DEF Outcome
  <2>7. CASE Begin(c)
    BY <2>3, <2>4, <2>6, <2>7 DEF Begin
  <2>8. CASE BeginRaises(c)
    BY <2>3, <2>5, <2>6, <2>8 DEF BeginRaises
  <2> QED
    BY <1>5, <2>7, <2>8 DEF Begins
<1>6. CASE ClockTicks
  BY <1>0, <1>6 DEF ClockTicks, IdempotencyTypeOK
<1>7. CASE Restart
  <2> DEFINE outcome(c) == IF Served(c) THEN "lost" ELSE "unserved"
             f(c) == IF InFlight(c) THEN [call[c] EXCEPT !.pc = "done", !.outcome = outcome(c)]
                     ELSE call[c]
  <2>1. call' = [c \in Calls |-> f(c)]
    BY <1>7 DEF Restart
  <2>2. ASSUME NEW c \in Calls
        PROVE  [call[c] EXCEPT !.pc = "done", !.outcome = outcome(c)] \in Call
    <3>1. call[c] \in Call /\ outcome(c) \in Outcome
      BY <1>0 DEF Outcome
    <3> HIDE DEF outcome
    <3> QED
      BY <3>1 DEF Call
  <2>3. ASSUME NEW c \in Calls
        PROVE  f(c) \in Call
    BY <1>0, <2>2
  <2>4. call' \in [Calls -> Call]
    <3>1. \A c \in Calls : f(c) \in Call
      BY <2>3
    <3>2. call' = [c \in Calls |-> f(c)]
      BY <2>1
    <3> HIDE DEF f
    <3> QED
      BY <3>1, <3>2
  <2>5. /\ idempotency_keys' = idempotency_keys /\ clock' = clock
        /\ crashes < MaxCrashes /\ crashes' = crashes + 1
    BY <1>7 DEF Restart
  <2> QED
    BY <1>0, <2>4, <2>5 DEF IdempotencyTypeOK
<1> QED
  BY <1>1, <1>3, <1>4, <1>5, <1>6, <1>7
     DEF IdempotencyNext, Handle, Begins, Abandons, Completes

LEMMA TypeStart == IdempotencyInit => IdempotencyTypeOK
<1> SUFFICES ASSUME IdempotencyInit PROVE IdempotencyTypeOK
  OBVIOUS
<1>1. ASSUME NEW k \in IdempotencyKeys, NEW f \in Fingerprints PROVE Unsent(k, f) \in Call
  BY CallsAssumption DEF Unsent, Call, Outcome
<1>2. call \in [Calls -> Call]
  BY <1>1 DEF IdempotencyInit
<1> QED
  BY <1>2, CallsAssumption DEF IdempotencyInit, IdempotencyTypeOK

\* The table and the calls keep their shape: no response is of a request that
\* does not exist, and no time is one the clock has not shown.
THEOREM IdempotencyTypeCorrect == IdempotencySpec => []IdempotencyTypeOK
<1>1. IdempotencyTypeOK /\ [IdempotencyNext]_idempotencyVars => IdempotencyTypeOK'
  BY TypeStep DEF IdempotencyTypeOK, idempotencyVars
<1> QED
  BY <1>1, TypeStart, PTL DEF IdempotencySpec

-----------------------------------------------------------------------------
(* The invariant *)

IsReserved(k) == idempotency_keys[k] # NoRow /\ idempotency_keys[k].response_json = NoResponse

HasAnswer(k) == idempotency_keys[k] # NoRow /\ idempotency_keys[k].response_json # NoResponse

\* Its operation may take effect yet, or has.
Holds(c) == call[c].pc \in {"operate", "complete"} \/ Effective(c)

Sane ==
  \A c \in Calls :
    /\ call[c].now <= clock
    /\ call[c].outcome # "none" => call[c].pc = "done"
    /\ call[c].pc = "complete" => call[c].wrote

\* An unanswered row is of the call that reserved the key, if anybody's.
Waiting ==
  \A k \in IdempotencyKeys : IsReserved(k) =>
    \E c \in Calls : /\ call[c].key = k /\ call[c].now = idempotency_keys[k].created_at
                     /\ MayHold(c)

\* d reserved k at the time t.
ReservedBy(d, k, t) == call[d].key = k /\ call[d].now = t /\ HasReserved(d)

Attributed ==
  \A k \in IdempotencyKeys : idempotency_keys[k] # NoRow =>
    \E d \in Calls : ReservedBy(d, k, idempotency_keys[k].created_at)

\* Who is turned away, or replayed to, met a row of a TTL's age at most.
TurnedAway ==
  \A c \in Calls : call[c].outcome \in {"replay", "conflict", "in_progress"} =>
    \E d \in Calls : SameKey(c, d) /\ HasReserved(d) /\ call[c].now <= call[d].now + TTL

\* Two are served under one key only if one has outlived its reservation.
AlmostOne ==
  \A c, d \in Calls :
    SameKey(c, d) /\ Served(c) /\ Served(d) => Outlived(call[c].key)

\* Who is served finds its own row, if any.
Owned ==
  \A c \in Calls :
    LET row == idempotency_keys[call[c].key] IN
    Served(c) /\ row # NoRow /\ ~Outlived(call[c].key)
      => row.request_fingerprint = call[c].fingerprint

\* A holder's row is there until a TTL has passed.
Remembers(c) ==
  LET row == idempotency_keys[call[c].key] IN
  \/ clock > call[c].now + TTL
  \/ row # NoRow /\ row.created_at = call[c].now

Remembered == \A c \in Calls : Holds(c) /\ ~Outlived(call[c].key) => Remembers(c)

\* Whoever is served under the key of an operation that took effect is served
\* after its TTL.
Late ==
  \A c, d \in Calls :
    SameKey(c, d) /\ call[c].pc = "done" /\ Effective(c) /\ Served(d) =>
      clock > call[c].now + TTL \/ Outlived(call[c].key)

Apart ==
  \A c, d \in Calls :
    SameKey(c, d) /\ Holds(c) /\ Holds(d) => TtlApart(c, d) \/ Outlived(call[c].key)

\* The answer a row holds is of a request that was answered so.
IsAnswerTo(d, key, fingerprint) ==
  /\ d \in Calls /\ call[d].key = key /\ call[d].pc = "done" /\ Effective(d)
  /\ call[d].fingerprint = fingerprint \/ Outlived(key)

Answered ==
  \A k \in IdempotencyKeys : HasAnswer(k) =>
    IsAnswerTo(idempotency_keys[k].response_json, k, idempotency_keys[k].request_fingerprint)

Replayed ==
  \A c \in Calls : call[c].outcome = "replay" =>
    /\ call[c].response # c
    /\ IsAnswerTo(call[c].response, call[c].key, call[c].fingerprint)

IInv ==
  /\ IdempotencyTypeOK /\ Sane /\ Waiting /\ Attributed /\ TurnedAway /\ AlmostOne /\ Owned
  /\ Remembered /\ Late /\ Apart /\ Answered /\ Replayed

-----------------------------------------------------------------------------
(* What a step makes of a row and of a call *)

LEMMA Fields ==
  ASSUME IdempotencyTypeOK, NEW c \in Calls
  PROVE  /\ call[c].key \in IdempotencyKeys /\ call[c].now \in Nat /\ call[c].began \in Nat
         /\ clock \in Nat /\ crashes \in Nat /\ TTL \in Nat \ {0}
         /\ c # NoResponse
BY CallsAssumption DEF IdempotencyTypeOK, Call

\* The row of k has aged away at the time c has read.
Aged(k) ==
  /\ idempotency_keys[k] # NoRow /\ clock > idempotency_keys[k].created_at + TTL

LEMMA KeptAreOld ==
  ASSUME IdempotencyTypeOK, Sane, NEW c \in Calls, NEW k \in IdempotencyKeys
  PROVE  \/ Kept(call[c].now)[k] = idempotency_keys[k]
         \/ Kept(call[c].now)[k] = NoRow /\ Aged(k)
<1>1. call[c].now \in Nat /\ clock \in Nat /\ TTL \in Nat /\ call[c].now <= clock
  BY Fields DEF Sane
<1>2. idempotency_keys[k] # NoRow => idempotency_keys[k].created_at \in Nat
  BY CallsAssumption DEF IdempotencyTypeOK, Row
<1>3. ASSUME Kept(call[c].now)[k] # idempotency_keys[k]
      PROVE  /\ Kept(call[c].now)[k] = NoRow /\ idempotency_keys[k] # NoRow
             /\ idempotency_keys[k].created_at < call[c].now - TTL
  BY <1>3, KeptRows
<1>4. ASSUME Kept(call[c].now)[k] # idempotency_keys[k]
      PROVE  clock > idempotency_keys[k].created_at + TTL
  BY <1>1, <1>2, <1>3, <1>4
<1> QED
  BY <1>3, <1>4 DEF Aged

\* c gives the key back, or answers it.
GivesBack(c, k) ==
  /\ Abandons(c) /\ call[c].key = k /\ Served(c)
  /\ IsReserved(k) /\ idempotency_keys'[k] = NoRow

AnswersRow(c, k) ==
  LET row == idempotency_keys[k]
      next == idempotency_keys'[k]
  IN
  /\ Completes(c) /\ call[c].key = k
  /\ row # NoRow /\ next # NoRow /\ next.response_json = c
  /\ next.request_fingerprint = row.request_fingerprint /\ next.created_at = row.created_at

LEMMA RowsGoOn ==
  ASSUME IdempotencyTypeOK, Sane, IdempotencyNext, NEW k \in IdempotencyKeys
  PROVE  \/ idempotency_keys'[k] = idempotency_keys[k]
         \/ idempotency_keys'[k] = NoRow /\ Aged(k)
         \/ \E c \in Calls : GivesBack(c, k)
         \/ \E c \in Calls : AnswersRow(c, k)
         \/ \E c \in Calls : Reserves(c) /\ call[c].key = k
<1>1. ASSUME NEW c \in Calls, Abandons(c)
      PROVE  idempotency_keys'[k] = idempotency_keys[k] \/ GivesBack(c, k)
  BY <1>1, AbandonDoes DEF GivesBack, IsReserved, Served
<1>2. ASSUME NEW c \in Calls, Completes(c)
      PROVE  idempotency_keys'[k] = idempotency_keys[k] \/ AnswersRow(c, k)
  BY <1>2, CompleteDoes DEF AnswersRow, FillsRow
<1>3. ASSUME NEW c \in Calls, Begins(c)
      PROVE  \/ idempotency_keys'[k] = idempotency_keys[k]
             \/ idempotency_keys'[k] = NoRow /\ Aged(k)
             \/ Reserves(c) /\ call[c].key = k
  <2>1. CASE IsAnswered(c)
    BY <2>1, KeptAreOld DEF IsAnswered
  <2>2. CASE Reserves(c) /\ call[c].key # k
    BY <2>2, KeptAreOld DEF Reserves
  <2> QED
    BY <1>3, <2>1, <2>2, BeginDoes
<1>4. ASSUME NEW c \in Calls, Send(c) \/ Operate(c) \/ OperateRaises(c)
      PROVE  idempotency_keys' = idempotency_keys
  BY <1>4 DEF Send, Operate, OperateRaises
<1>5. CASE ClockTicks \/ Restart
  BY <1>5 DEF ClockTicks, Restart
<1> QED
  BY <1>1, <1>2, <1>3, <1>4, <1>5 DEF IdempotencyNext, Handle, Begins, Abandons, Completes

\* How a call may come to be served, cease to be, and come to hold its key.
LEMMA ServiceGoesOn ==
  ASSUME IdempotencyTypeOK, Sane, IdempotencyNext, NEW d \in Calls
  PROVE  /\ Served(d)' => Served(d) \/ Reserves(d)
         /\ Served(d) => Served(d)' \/ Abandons(d) \/ Completes(d) \/ Restart
         /\ Holds(d)' => \/ Reserves(d)
                         \/ /\ Holds(d) /\ call'[d].now = call[d].now
                            /\ call'[d].began = call[d].began
                            /\ call'[d].pc = "done" => call[d].pc = "done" \/ Completes(d)
         /\ call'[d].outcome = "replay" =>
              IsAnswered(d) \/ (call[d].outcome = "replay" /\ call[d].pc = "done")
<1> DEFINE P == /\ Served(d)' => Served(d) \/ Reserves(d)
                /\ Served(d) => Served(d)' \/ Abandons(d) \/ Completes(d) \/ Restart
                /\ Holds(d)' => \/ Reserves(d)
                                \/ /\ Holds(d) /\ call'[d].now = call[d].now
                                   /\ call'[d].began = call[d].began
                                   /\ call'[d].pc = "done" => call[d].pc = "done" \/ Completes(d)
                /\ call'[d].outcome = "replay" =>
                     IsAnswered(d) \/ (call[d].outcome = "replay" /\ call[d].pc = "done")
<1>0. /\ call[d].outcome # "none" => call[d].pc = "done"
      /\ call[d].pc = "complete" => call[d].wrote
  BY DEF Sane
<1>1. ASSUME Keeps(d) PROVE P
  BY <1>0, <1>1 DEF Keeps, Served, Holds, Effective
<1>2. ASSUME call'[d] = call[d] PROVE P
  BY <1>1, <1>2 DEF Keeps
<1>3. ASSUME NEW c \in Calls, OnlyMoves(c), c # d PROVE P
  BY <1>2, <1>3 DEF OnlyMoves
<1>4. ASSUME Send(d) PROVE P
  <2>1. call[d].pc = "unsent" /\ call'[d].pc = "begin" /\ call'[d].outcome = call[d].outcome
    BY <1>4, SendDoes
  <2> QED
    BY <1>0, <2>1 DEF Served, Holds, Effective
<1>5. ASSUME Operate(d) PROVE P
  <2>1. /\ call[d].pc = "operate" /\ call'[d].pc = "complete" /\ call'[d].now = call[d].now
        /\ call'[d].outcome = call[d].outcome /\ OnlyMoves(d)
    BY <1>5, OperateDoes
  <2> QED
    BY <1>0, <2>1 DEF Served, Holds, OnlyMoves
<1>6. ASSUME OperateRaises(d) PROVE P
  <2>1. /\ call[d].pc = "operate" /\ call'[d].pc = "abandon" /\ call'[d].now = call[d].now
        /\ call'[d].outcome = call[d].outcome
    BY <1>6, RaisesDoes
  <2> QED
    BY <1>0, <2>1 DEF Served, Holds, Effective
<1>7. ASSUME Abandons(d) PROVE P
  <2>1. /\ call[d].pc = "abandon" /\ call'[d].pc = "done" /\ call'[d].outcome \in {"error", "unreleased"}
    BY <1>7, AbandonDoes
  <2> QED
    BY <1>7, <2>1 DEF Served, Holds, Effective
<1>8. ASSUME Completes(d) PROVE P
  <2>1. /\ call[d].pc = "complete" /\ call'[d].pc = "done" /\ call'[d].outcome \in {"success", "unanswered"}
        /\ call'[d].now = call[d].now /\ OnlyMoves(d)
    BY <1>8, CompleteDoes
  <2> QED
    BY <1>8, <2>1 DEF Served, Holds, OnlyMoves
<1>9. ASSUME NEW c \in Calls, Begins(c) PROVE P
  <2>1. CASE IsAnswered(c) /\ c = d
    BY <2>1 DEF IsAnswered, Served, Holds, Effective
  <2>2. CASE IsAnswered(c) /\ c # d
    BY <1>3, <2>2 DEF IsAnswered
  <2>3. CASE Reserves(c) /\ c = d
    <3>1. call'[d].outcome \in {"none", "unreleased"} /\ call[d].pc = "begin"
      BY <2>3 DEF Reserves
    <3> QED
      BY <1>0, <2>3, <3>1 DEF Served
  <2>4. CASE Reserves(c) /\ c # d
    BY <1>1, <2>4 DEF Reserves
  <2> QED
    BY <1>9, <2>1, <2>2, <2>3, <2>4, BeginDoes
<1>10. ASSUME ClockTicks PROVE P
  BY <1>2, <1>10 DEF ClockTicks
<1>11. ASSUME Restart PROVE P
  <2>1. CASE InFlight(d)
    <3>1. call'[d].pc = "done" /\ call'[d].outcome \in {"lost", "unserved"}
      BY <1>11, <2>1, RestartDoes
    <3> QED
      BY <1>11, <3>1 DEF Served, Holds, Effective
  <2>2. CASE ~InFlight(d)
    BY <1>2, <1>11, <2>2, RestartDoes
  <2> QED
    BY <2>1, <2>2
<1>12. ASSUME NEW c \in Calls, c # d,
              Send(c) \/ Operate(c) \/ OperateRaises(c) \/ Abandons(c) \/ Completes(c)
       PROVE  P
  BY <1>3, <1>12, SendDoes, OperateDoes, RaisesDoes, AbandonDoes, CompleteDoes
<1> HIDE DEF P
<1>13. P
  <2>1. CASE ClockTicks \/ Restart
    BY <1>10, <1>11, <2>1
  <2>2. ASSUME NEW c \in Calls, Send(c) \/ Handle(c)
        PROVE  P
    <3>1. CASE c = d
      BY <1>4, <1>5, <1>6, <1>7, <1>8, <1>9, <2>2, <3>1 DEF Handle, Begins, Abandons, Completes
    <3>2. CASE c # d
      BY <1>9, <1>12, <2>2, <3>2 DEF Handle, Begins, Abandons, Completes
    <3> QED
      BY <3>1, <3>2
  <2> QED
    BY <2>1, <2>2 DEF IdempotencyNext
<1> QED
  BY <1>13 DEF P

\* c reserves its key: nobody else does, and nobody it outruns is left alone.
LEMMA OneReserves ==
  ASSUME IdempotencyTypeOK, NEW c \in Calls, Reserves(c), NEW d \in Calls, d # c
  PROVE  /\ ~Reserves(d) /\ Keeps(d)
         /\ Served(d) /\ call[d].key = call[c].key => Outlived(call[c].key)'
<1>1. call'[d].pc = call[d].pc /\ Keeps(d)
  BY DEF Reserves, Keeps
<1>2. ~Reserves(d)
  BY <1>1 DEF Reserves
<1>3. ASSUME Served(d), call[d].key = call[c].key
      PROVE  Outlived(call[c].key)'
  <2>1. call'[d].outlived /\ call'[d].key = call[d].key /\ call'[c].key = call[c].key
    BY <1>3 DEF Reserves, Keeps
  <2> QED
    BY <1>3, <2>1 DEF Outlived
<1> QED
  BY <1>1, <1>2, <1>3

-----------------------------------------------------------------------------
(* The invariant is kept *)

LEMMA SaneStep ==
  ASSUME IdempotencyTypeOK, Sane, IdempotencyNext
  PROVE  Sane'
<1> DEFINE P(d) == /\ call'[d].now <= clock'
                   /\ call'[d].outcome # "none" => call'[d].pc = "done"
                   /\ call'[d].pc = "complete" => call'[d].wrote
<1>1. ASSUME NEW d \in Calls
      PROVE  /\ call[d].now \in Nat /\ clock \in Nat /\ call[d].now <= clock
             /\ call[d].outcome # "none" => call[d].pc = "done"
             /\ call[d].pc = "complete" => call[d].wrote
  BY Fields DEF Sane
<1>2. ASSUME NEW d \in Calls, Keeps(d), clock' = clock PROVE P(d)
  BY <1>1, <1>2 DEF Keeps
<1>3. ASSUME NEW d \in Calls, call'[d] = call[d], clock' = clock PROVE P(d)
  BY <1>2, <1>3 DEF Keeps
<1>4. ASSUME NEW c \in Calls, OnlyMoves(c), P(c) PROVE \A d \in Calls : P(d)
  BY <1>3, <1>4 DEF OnlyMoves
<1>5. ASSUME NEW c \in Calls, Send(c) PROVE \A d \in Calls : P(d)
  <2>1. /\ OnlyMoves(c) /\ call'[c].now = clock /\ call'[c].pc = "begin" /\ clock' = clock
        /\ call[c].pc = "unsent" /\ call'[c].outcome = call[c].outcome
    BY <1>5, SendDoes DEF OnlyMoves
  <2> QED
    BY <1>1, <1>4, <2>1
<1>6. ASSUME NEW c \in Calls, Operate(c) PROVE \A d \in Calls : P(d)
  <2>1. /\ OnlyMoves(c) /\ call'[c].now = call[c].now /\ call'[c].wrote /\ clock' = clock
        /\ call[c].pc = "operate" /\ call'[c].outcome = call[c].outcome
    BY <1>6, OperateDoes DEF OnlyMoves
  <2> QED
    BY <1>1, <1>4, <2>1
<1>7. ASSUME NEW c \in Calls, OperateRaises(c) PROVE \A d \in Calls : P(d)
  <2>1. /\ OnlyMoves(c) /\ call'[c].now = call[c].now /\ call'[c].pc = "abandon" /\ clock' = clock
        /\ call[c].pc = "operate" /\ call'[c].outcome = call[c].outcome
    BY <1>7, RaisesDoes DEF OnlyMoves
  <2> QED
    BY <1>1, <1>4, <2>1
<1>8. ASSUME NEW c \in Calls, Abandons(c) \/ Completes(c) PROVE \A d \in Calls : P(d)
  <2>1. OnlyMoves(c) /\ call'[c].now = call[c].now /\ call'[c].pc = "done" /\ clock' = clock
    BY <1>8, AbandonDoes, CompleteDoes DEF OnlyMoves
  <2> QED
    BY <1>1, <1>4, <2>1
<1>9. ASSUME NEW c \in Calls, Begins(c) PROVE \A d \in Calls : P(d)
  <2>1. CASE IsAnswered(c)
    <3>1. OnlyMoves(c) /\ call'[c].now = call[c].now /\ call'[c].pc = "done" /\ clock' = clock
      BY <2>1 DEF IsAnswered, OnlyMoves
    <3> QED
      BY <1>1, <1>4, <3>1
  <2>2. CASE Reserves(c)
    <3>1. /\ call'[c].now = call[c].now /\ clock' = clock
          /\ \/ call'[c].pc = "operate" /\ call'[c].outcome = "none"
             \/ call'[c].pc = "done"
      BY <2>2 DEF Reserves
    <3>2. P(c)
      BY <1>1, <3>1
    <3>3. \A d \in Calls \ {c} : Keeps(d)
      BY <2>2 DEF Reserves
    <3> QED
      BY <1>2, <3>1, <3>2, <3>3
  <2> QED
    BY <1>9, <2>1, <2>2, BeginDoes
<1>10. ASSUME ClockTicks PROVE \A d \in Calls : P(d)
  <2>1. clock' = clock + 1 /\ call' = call
    BY <1>10 DEF ClockTicks
  <2> QED
    BY <1>1, <2>1
<1>11. ASSUME Restart, NEW d \in Calls PROVE P(d)
  <2>1. clock' = clock
    BY <1>11, RestartDoes
  <2>2. CASE InFlight(d)
    <3>1. call'[d].pc = "done" /\ call'[d].now = call[d].now
      BY <1>11, <2>2, RestartDoes
    <3> QED
      BY <1>1, <2>1, <3>1
  <2>3. CASE ~InFlight(d)
    BY <1>3, <1>11, <2>1, <2>3, RestartDoes
  <2> QED
    BY <2>2, <2>3
<1> HIDE DEF P
<1>12. \A d \in Calls : P(d)
  BY <1>5, <1>6, <1>7, <1>8, <1>9, <1>10, <1>11 DEF IdempotencyNext, Handle, Begins, Abandons, Completes
<1> QED
  BY <1>12 DEF P, Sane

\* Whoever may hold a key may hold it still, unless it has released or answered
\* its row; and whoever has reserved one has done so for good.
LEMMA HoldGoesOn ==
  ASSUME IdempotencyTypeOK, Sane, IdempotencyNext, NEW d \in Calls
  PROVE  /\ MayHold(d) =>
              \/ MayHold(d)' /\ call'[d].now = call[d].now
              \/ Abandons(d) /\ call'[d].outcome = "error"
              \/ Completes(d) /\ call'[d].outcome = "success"
         /\ HasReserved(d) => HasReserved(d)' /\ call'[d].now = call[d].now
<1>1. CASE Served(d)
  <2>1. call'[d].now = call[d].now
    BY <1>1, CallsGoOn DEF GoesOn, Served
  <2>2. Abandons(d) => call'[d].outcome \in {"error", "unreleased"}
    BY AbandonDoes
  <2>3. Completes(d) => call'[d].outcome \in {"success", "unanswered"}
    BY CompleteDoes
  <2>4. Restart => call'[d].outcome = "lost"
    BY <1>1, RestartDoes DEF InFlight
  <2> QED
    BY <1>1, <2>1, <2>2, <2>3, <2>4, ServiceGoesOn DEF MayHold, HasReserved
<1>2. CASE call[d].outcome \in {"lost", "unreleased", "unanswered", "success", "error"}
  <2>1. Keeps(d)
    BY <1>2, CallsGoOn DEF GoesOn, Sane
  <2> QED
    BY <1>2, <2>1 DEF Keeps, MayHold, HasReserved, Served
<1> QED
  BY <1>1, <1>2 DEF MayHold, HasReserved

LEMMA ReserverHolds ==
  ASSUME NEW c \in Calls, Reserves(c)
  PROVE  /\ MayHold(c)' /\ HasReserved(c)'
         /\ call'[c].key = call[c].key /\ call'[c].now = call[c].now
         /\ idempotency_keys'[call[c].key].created_at = call[c].now
<1>1. call'[c].pc = "operate" \/ call'[c].outcome = "unreleased"
  BY DEF Reserves
<1>2. MayHold(c)'
  BY <1>1 DEF MayHold, Served
<1> QED
  BY <1>2 DEF Reserves, HasReserved

LEMMA WaitingStep ==
  ASSUME IdempotencyTypeOK, Sane, Waiting, IdempotencyNext
  PROVE  Waiting'
<1> SUFFICES ASSUME NEW k \in IdempotencyKeys, IsReserved(k)'
             PROVE  \E c \in Calls : /\ call'[c].key = k
                                     /\ call'[c].now = idempotency_keys'[k].created_at
                                     /\ MayHold(c)'
  BY DEF Waiting
<1>1. idempotency_keys'[k] # NoRow /\ idempotency_keys'[k].response_json = NoResponse
  BY DEF IsReserved
<1>2. CASE idempotency_keys'[k] = idempotency_keys[k]
  <2>1. PICK c \in Calls : /\ call[c].key = k /\ call[c].now = idempotency_keys[k].created_at
                           /\ MayHold(c)
    BY <1>1, <1>2 DEF Waiting, IsReserved
  <2>2. ~(Abandons(c) /\ call'[c].outcome = "error")
    BY <1>1, <1>2, <2>1, AbandonDoes
  <2>3. ~(Completes(c) /\ call'[c].outcome = "success")
    <3>1. c # NoResponse
      BY Fields
    <3> QED
      BY <1>1, <1>2, <2>1, <3>1, CompleteDoes DEF FillsRow
  <2>4. MayHold(c)' /\ call'[c].now = call[c].now
    BY <2>1, <2>2, <2>3, HoldGoesOn
  <2>5. call'[c].key = k
    BY <2>1, CallsGoOn DEF GoesOn
  <2> QED
    BY <1>2, <2>1, <2>4, <2>5
<1>3. ASSUME NEW c \in Calls, Reserves(c), call[c].key = k
      PROVE  \E e \in Calls : /\ call'[e].key = k
                              /\ call'[e].now = idempotency_keys'[k].created_at
                              /\ MayHold(e)'
  BY <1>3, ReserverHolds
<1>4. ASSUME NEW c \in Calls, AnswersRow(c, k) PROVE FALSE
  <2>1. c # NoResponse
    BY Fields
  <2> QED
    BY <1>1, <1>4, <2>1 DEF AnswersRow
<1>5. ~(\E c \in Calls : GivesBack(c, k))
  BY <1>1 DEF GivesBack
<1> QED
  BY <1>1, <1>2, <1>3, <1>4, <1>5, RowsGoOn

LEMMA AttributedStep ==
  ASSUME IdempotencyTypeOK, Sane, Attributed, IdempotencyNext
  PROVE  Attributed'
<1> SUFFICES ASSUME NEW k \in IdempotencyKeys, idempotency_keys'[k] # NoRow
             PROVE  \E d \in Calls : /\ call'[d].key = k
                                     /\ call'[d].now = idempotency_keys'[k].created_at
                                     /\ HasReserved(d)'
  BY DEF Attributed, ReservedBy
<1>1. CASE /\ idempotency_keys[k] # NoRow
           /\ idempotency_keys'[k].created_at = idempotency_keys[k].created_at
  <2>1. PICK d \in Calls : ReservedBy(d, k, idempotency_keys[k].created_at)
    BY <1>1 DEF Attributed
  <2>2. call'[d].key = k /\ call'[d].now = call[d].now /\ HasReserved(d)'
    BY <2>1, HoldGoesOn, CallsGoOn DEF ReservedBy, GoesOn
  <2> QED
    BY <1>1, <2>1, <2>2 DEF ReservedBy
<1>2. ASSUME NEW c \in Calls, Reserves(c), call[c].key = k
      PROVE  \E d \in Calls : /\ call'[d].key = k
                              /\ call'[d].now = idempotency_keys'[k].created_at
                              /\ HasReserved(d)'
  BY <1>2, ReserverHolds
<1> QED
  BY <1>1, <1>2, RowsGoOn DEF GivesBack, AnswersRow

LEMMA TurningAway ==
  ASSUME IdempotencyTypeOK, Sane, IdempotencyNext, NEW c \in Calls,
         call'[c].outcome \in {"replay", "conflict", "in_progress"}
  PROVE  \/ IsAnswered(c)
         \/ /\ call[c].outcome \in {"replay", "conflict", "in_progress"}
            /\ call'[c].now = call[c].now
<1>1. CASE call[c].outcome # "none"
  <2>1. Keeps(c)
    BY <1>1, CallsGoOn DEF GoesOn, Sane
  <2> QED
    BY <2>1 DEF Keeps
<1>2. CASE call[c].outcome = "none" /\ ~IsAnswered(c)
  <2>1. ASSUME NEW d \in Calls, OnlyMoves(d), d # c PROVE FALSE
    BY <1>2, <2>1 DEF OnlyMoves
  <2>2. ASSUME NEW d \in Calls, Begins(d) PROVE FALSE
    <3>1. CASE IsAnswered(d)
      BY <1>2, <2>1, <3>1 DEF IsAnswered
    <3>2. CASE Reserves(d)
      BY <1>2, <3>2 DEF Reserves, Keeps
    <3> QED
      BY <2>2, <3>1, <3>2, BeginDoes
  <2>3. ASSUME NEW d \in Calls,
               Send(d) \/ Operate(d) \/ OperateRaises(d) \/ Abandons(d) \/ Completes(d)
        PROVE  FALSE
    <3>1. OnlyMoves(d)
      BY <2>3, SendDoes, OperateDoes, RaisesDoes, AbandonDoes, CompleteDoes
    <3>2. d = c
      BY <2>1, <3>1
    <3> QED
      BY <1>2, <2>3, <3>2, SendDoes, OperateDoes, RaisesDoes, AbandonDoes, CompleteDoes
  <2>4. CASE ClockTicks
    BY <1>2, <2>4 DEF ClockTicks
  <2>5. CASE Restart
    BY <1>2, <2>5, RestartDoes
  <2> QED
    BY <2>2, <2>3, <2>4, <2>5 DEF IdempotencyNext, Handle, Begins, Abandons, Completes
<1> QED
  BY <1>1, <1>2

LEMMA TurnedAwayStep ==
  ASSUME IdempotencyTypeOK, Sane, Attributed, TurnedAway, IdempotencyNext
  PROVE  TurnedAway'
<1>1. ASSUME NEW c \in Calls, call'[c].outcome \in {"replay", "conflict", "in_progress"}
      PROVE  \/ IsAnswered(c)
             \/ /\ call[c].outcome \in {"replay", "conflict", "in_progress"}
                /\ call'[c].now = call[c].now
  BY <1>1, TurningAway
<1>2. ASSUME NEW c \in Calls, IsAnswered(c), call'[c].outcome # "unserved"
      PROVE  \E d \in Calls : SameKey(c, d) /\ HasReserved(d) /\ call[c].now <= call[d].now + TTL
  <2> DEFINE k == call[c].key
             row == idempotency_keys[k]
  <2>1. k \in IdempotencyKeys /\ call[c].now \in Nat /\ TTL \in Nat
    BY Fields
  <2>2. Kept(call[c].now)[k] # NoRow
    BY <1>2 DEF IsAnswered
  <2>3. row # NoRow /\ ~(row.created_at < call[c].now - TTL)
    BY <2>1, <2>2 DEF Kept
  <2>4. PICK d \in Calls : ReservedBy(d, k, row.created_at)
    BY <2>1, <2>3 DEF Attributed
  <2>5. call[d].now \in Nat /\ call[c].now <= call[d].now + TTL
    <3>1. call[d].now \in Nat /\ call[d].now = row.created_at
      BY <2>4, Fields DEF ReservedBy
    <3> QED
      BY <2>1, <2>3, <3>1
  <2>6. d # c
    <3>1. call[c].pc = "begin"
      BY <1>2 DEF IsAnswered
    <3>2. ~HasReserved(c)
      BY <3>1 DEF Sane, HasReserved, MayHold, Served
    <3> QED
      BY <2>4, <3>2 DEF ReservedBy
  <2> QED
    BY <2>4, <2>5, <2>6 DEF SameKey, ReservedBy
<1>3. ASSUME NEW c \in Calls, call'[c].outcome \in {"replay", "conflict", "in_progress"}
      PROVE  \E d \in Calls : /\ c # d /\ call'[c].key = call'[d].key /\ HasReserved(d)'
                              /\ call'[c].now <= call'[d].now + TTL
  <2>1. call'[c].now = call[c].now
    BY <1>1, <1>3 DEF IsAnswered
  <2>2. PICK d \in Calls : SameKey(c, d) /\ HasReserved(d) /\ call[c].now <= call[d].now + TTL
    BY <1>1, <1>2, <1>3 DEF TurnedAway
  <2>3. /\ call'[c].key = call[c].key /\ call'[d].key = call[d].key
        /\ call'[d].now = call[d].now /\ HasReserved(d)'
    BY <2>2, HoldGoesOn, CallsGoOn DEF GoesOn
  <2> QED
    BY <2>1, <2>2, <2>3 DEF SameKey
<1> QED
  BY <1>3 DEF TurnedAway, SameKey

LEMMA AlmostOneStep ==
  ASSUME IdempotencyTypeOK, Sane, AlmostOne, IdempotencyNext
  PROVE  AlmostOne'
<1>1. ASSUME NEW c \in Calls, NEW d \in Calls, NEW k, k = call[c].key,
             SameKey(c, d)', Served(c)', Served(d)'
      PROVE  Outlived(k)'
  <2>1. SameKey(c, d) /\ call[d].key = k
    BY <1>1, CallsGoOn DEF SameKey, GoesOn
  <2>2. CASE Served(c) /\ Served(d)
    <3>1. Outlived(k)
      BY <1>1, <2>1, <2>2 DEF AlmostOne
    <3> QED
      BY <3>1, OutlivedStays
  <2>3. CASE Reserves(c)
    <3>1. call'[c].key = k /\ c # d /\ ~Reserves(d)
      BY <1>1, <2>1, <2>3, OneReserves DEF SameKey, Reserves
    <3>2. Served(d)
      BY <1>1, <3>1, ServiceGoesOn
    <3>3. Outlived(call[c].key)'
      BY <1>1, <2>1, <2>3, <3>1, <3>2, OneReserves
    <3> QED
      BY <3>1, <3>3
  <2>4. CASE Reserves(d)
    <3>1. call'[d].key = k /\ c # d /\ ~Reserves(c)
      BY <1>1, <2>1, <2>4, OneReserves DEF SameKey, Reserves
    <3>2. Served(c)
      BY <1>1, <3>1, ServiceGoesOn
    <3>3. Outlived(call[d].key)'
      BY <1>1, <2>1, <2>4, <3>1, <3>2, OneReserves
    <3> QED
      BY <3>1, <3>3
  <2> QED
    BY <1>1, <2>2, <2>3, <2>4, ServiceGoesOn
<1>2. \A c \in Calls : call'[c].key = call[c].key
  BY CallsGoOn DEF GoesOn
<1> QED
  BY <1>1, <1>2 DEF AlmostOne

LEMMA OwnedStep ==
  ASSUME IdempotencyTypeOK, Sane, Owned, IdempotencyNext
  PROVE  Owned'
<1>1. ASSUME NEW c \in Calls, NEW k \in IdempotencyKeys, k = call[c].key,
             Served(c)', idempotency_keys'[k] # NoRow, ~Outlived(k)'
      PROVE  idempotency_keys'[k].request_fingerprint = call[c].fingerprint
  <2>1. CASE Reserves(c)
    BY <1>1, <2>1 DEF Reserves
  <2>2. CASE Served(c)
    <3>1. idempotency_keys[k] # NoRow => idempotency_keys[k].request_fingerprint = call[c].fingerprint
      BY <1>1, <2>2, OutlivedStays DEF Owned
    <3>2. ASSUME NEW e \in Calls, AnswersRow(e, k)
          PROVE  idempotency_keys'[k].request_fingerprint = call[c].fingerprint
      BY <3>1, <3>2 DEF AnswersRow
    <3>3. ASSUME NEW e \in Calls, Reserves(e), call[e].key = k
          PROVE  idempotency_keys'[k].request_fingerprint = call[c].fingerprint
      <4>1. e # c
        BY <2>2, <3>3 DEF Reserves, Served
      <4>2. call'[e].key = k
        BY <3>3 DEF Reserves
      <4>3. Outlived(call[e].key)'
        BY <1>1, <2>2, <3>3, <4>1, OneReserves
      <4> QED
        BY <1>1, <4>2, <4>3
    <3> QED
      BY <1>1, <3>1, <3>2, <3>3, RowsGoOn DEF GivesBack
  <2> QED
    BY <1>1, <2>1, <2>2, ServiceGoesOn
<1>2. ASSUME NEW c \in Calls
      PROVE  /\ call'[c].key = call[c].key /\ call'[c].fingerprint = call[c].fingerprint
             /\ call[c].key \in IdempotencyKeys
  BY CallsGoOn, Fields DEF GoesOn
<1> QED
  BY <1>1, <1>2 DEF Owned

\* c remembers across a step that leaves it holding its key.
LEMMA RememberedStep ==
  ASSUME IdempotencyTypeOK, Sane, AlmostOne, Late, Remembered, IdempotencyNext
  PROVE  Remembered'
<1>1. ASSUME NEW c \in Calls, NEW k \in IdempotencyKeys, k = call[c].key,
             Holds(c)', ~Outlived(k)'
      PROVE  Remembers(c)'
  <2> DEFINE row == idempotency_keys[k]
             next == idempotency_keys'[k]
  <2>0. /\ call[c].now \in Nat /\ clock \in Nat /\ TTL \in Nat /\ call'[c].key = k
        /\ ~Outlived(k)
    BY <1>1, Fields, CallsGoOn, OutlivedStays DEF GoesOn
  <2>1. CASE Reserves(c)
    <3>1. next # NoRow /\ next.created_at = call'[c].now
      BY <1>1, <2>1 DEF Reserves
    <3> QED
      BY <2>0, <3>1 DEF Remembers
  <2>2. CASE ~Reserves(c)
    <3>1. Holds(c) /\ call'[c].now = call[c].now
      BY <1>1, <2>2, ServiceGoesOn
    <3>2. Remembers(c)
      BY <1>1, <2>0, <3>1 DEF Remembered
    <3>3. clock' = clock \/ clock' = clock + 1
      BY CallsGoOn DEF GoesOn
    <3>4. CASE clock > call[c].now + TTL
      <4>1. clock' > call'[c].now + TTL
        BY <2>0, <3>1, <3>3, <3>4
      <4> QED
        BY <4>1 DEF Remembers
    <3>5. CASE row # NoRow /\ row.created_at = call[c].now
      <4>1. CASE next = row
        BY <2>0, <3>1, <3>5, <4>1 DEF Remembers
      <4>2. CASE Aged(k)
        <5>1. clock > call[c].now + TTL
          BY <3>5, <4>2 DEF Aged
        <5>2. clock' > call'[c].now + TTL
          BY <2>0, <3>1, <3>3, <5>1
        <5> QED
          BY <5>2 DEF Remembers
      <4>3. ASSUME NEW e \in Calls, GivesBack(e, k) PROVE Remembers(c)'
        <5>1. e # c
          <6>1. Abandons(c) => ~Holds(c)'
            BY AbandonDoes DEF Holds, Effective
          <6> QED
            BY <1>1, <4>3, <6>1 DEF GivesBack
        <5>2. Served(e) /\ SameKey(c, e)
          BY <1>1, <4>3, <5>1 DEF GivesBack, SameKey
        <5>3. ~Served(c)
          BY <1>1, <2>0, <5>2 DEF AlmostOne
        <5>4. call[c].pc = "done" /\ Effective(c)
          BY <3>1, <5>3 DEF Holds, Served, Effective, Sane
        <5>5. clock > call[c].now + TTL
          BY <1>1, <2>0, <5>2, <5>4 DEF Late
        <5>6. clock' > call'[c].now + TTL
          BY <2>0, <3>1, <3>3, <5>5
        <5> QED
          BY <5>6 DEF Remembers
      <4>4. ASSUME NEW e \in Calls, AnswersRow(e, k) PROVE Remembers(c)'
        <5>1. next # NoRow /\ next.created_at = call[c].now
          BY <3>5, <4>4 DEF AnswersRow
        <5> QED
          BY <2>0, <3>1, <5>1 DEF Remembers
      <4>5. ASSUME NEW e \in Calls, Reserves(e), call[e].key = k PROVE Aged(k)
        BY <3>5, <4>5, KeptAreOld DEF Reserves
      <4> HIDE DEF row, next
      <4>6. \/ next = row \/ Aged(k)
            \/ \E e \in Calls : GivesBack(e, k)
            \/ \E e \in Calls : AnswersRow(e, k)
            \/ \E e \in Calls : Reserves(e) /\ call[e].key = k
        BY RowsGoOn DEF row, next
      <4> QED
        BY <4>1, <4>2, <4>3, <4>4, <4>5, <4>6
    <3> QED
      BY <1>1, <3>2, <3>4, <3>5 DEF Remembers
  <2> QED
    BY <2>1, <2>2
<1>2. ASSUME NEW c \in Calls
      PROVE  call'[c].key = call[c].key /\ call[c].key \in IdempotencyKeys
  BY CallsGoOn, Fields DEF GoesOn
<1> QED
  BY <1>1, <1>2 DEF Remembered

\* c reserves the key that d holds: a TTL has passed since d read the clock.
LEMMA ReservesLate ==
  ASSUME IdempotencyTypeOK, Sane, Remembered, IdempotencyNext,
         NEW c \in Calls, NEW d \in Calls, SameKey(c, d), Reserves(c),
         Holds(d), ~Outlived(call[c].key)
  PROVE  call'[c].began > call'[d].now + TTL
<1>1. /\ d # c /\ call[d].key = call[c].key /\ call[c].key \in IdempotencyKeys
      /\ call'[c].began = clock /\ call'[d].now = call[d].now
  BY Fields, OneReserves DEF SameKey, Reserves, Keeps
<1>2. Remembers(d)
  BY <1>1 DEF Remembered
<1>3. Kept(call[c].now)[call[c].key] = NoRow
  BY DEF Reserves
<1>4. clock > call[d].now + TTL
  <2>1. CASE idempotency_keys[call[c].key] = NoRow
    BY <1>1, <1>2, <2>1 DEF Remembers
  <2>2. CASE Aged(call[c].key)
    BY <1>1, <1>2, <2>2 DEF Remembers, Aged
  <2> QED
    BY <1>1, <1>3, <2>1, <2>2, KeptAreOld
<1> QED
  BY <1>1, <1>4

LEMMA LateStep ==
  ASSUME IdempotencyTypeOK, Sane, AlmostOne, Remembered, Late, IdempotencyNext
  PROVE  Late'
<1>1. ASSUME NEW c \in Calls, NEW d \in Calls, NEW k, k = call[c].key, SameKey(c, d),
             call'[c].pc = "done", Effective(c)', Served(d)', ~Outlived(k)'
      PROVE  clock' > call'[c].now + TTL
  <2>0. /\ call[c].now \in Nat /\ clock \in Nat /\ TTL \in Nat /\ ~Outlived(k) /\ Holds(c)'
        /\ clock' = clock \/ clock' = clock + 1
    BY <1>1, Fields, CallsGoOn, OutlivedStays DEF Holds
  <2>1. ~Reserves(c)
    BY <1>1 DEF Reserves, Effective
  <2>2. /\ Holds(c) /\ call'[c].now = call[c].now
        /\ call[c].pc = "done" \/ Completes(c)
    BY <1>1, <2>0, <2>1, ServiceGoesOn
  <2>3. CASE Reserves(d)
    <3>1. call'[d].began > call'[c].now + TTL
      BY <1>1, <2>0, <2>2, <2>3, ReservesLate DEF SameKey
    <3> QED
      BY <2>3, <3>1 DEF Reserves
  <2>4. CASE Served(d) /\ call[c].pc = "done"
    <3>1. Effective(c)
      BY <2>2, <2>4 DEF Holds
    <3>2. clock > call[c].now + TTL
      BY <1>1, <2>0, <2>4, <3>1 DEF Late
    <3> QED
      BY <2>0, <2>2, <3>2
  <2>5. CASE Served(d) /\ Completes(c)
    <3>1. Served(c)
      BY <2>5, CompleteDoes DEF Served
    <3> QED
      BY <1>1, <2>0, <2>5, <3>1 DEF AlmostOne
  <2> QED
    BY <1>1, <2>2, <2>3, <2>4, <2>5, ServiceGoesOn
<1>2. \A c \in Calls : call'[c].key = call[c].key
  BY CallsGoOn DEF GoesOn
<1> QED
  BY <1>1, <1>2 DEF Late, SameKey

LEMMA ApartStep ==
  ASSUME IdempotencyTypeOK, Sane, Remembered, Apart, IdempotencyNext
  PROVE  Apart'
<1>1. ASSUME NEW c \in Calls, NEW d \in Calls, NEW k, k = call[c].key,
             SameKey(c, d), Holds(c)', Holds(d)', ~Outlived(k)'
      PROVE  TtlApart(c, d)'
  <2>0. ~Outlived(k)
    BY <1>1, OutlivedStays
  <2>1. CASE Reserves(c)
    <3>1. Holds(d)
      BY <1>1, <2>1, ServiceGoesOn, OneReserves DEF SameKey
    <3> QED
      BY <1>1, <2>0, <2>1, <3>1, ReservesLate DEF TtlApart
  <2>2. CASE Reserves(d)
    <3>1. Holds(c) /\ SameKey(d, c) /\ call[d].key = k
      BY <1>1, <2>2, ServiceGoesOn, OneReserves DEF SameKey
    <3> QED
      BY <1>1, <2>0, <2>2, <3>1, ReservesLate DEF TtlApart
  <2>3. CASE ~Reserves(c) /\ ~Reserves(d)
    <3>1. /\ Holds(c) /\ call'[c].now = call[c].now /\ call'[c].began = call[c].began
          /\ Holds(d) /\ call'[d].now = call[d].now /\ call'[d].began = call[d].began
      BY <1>1, <2>3, ServiceGoesOn
    <3>2. TtlApart(c, d)
      BY <1>1, <2>0, <3>1 DEF Apart
    <3> QED
      BY <3>1, <3>2 DEF TtlApart
  <2> QED
    BY <2>1, <2>2, <2>3
<1>2. \A c \in Calls : call'[c].key = call[c].key
  BY CallsGoOn DEF GoesOn
<1> QED
  BY <1>1, <1>2 DEF Apart, SameKey

\* An answer that has been given stays the answer.
LEMMA AnswerStays ==
  ASSUME IdempotencyTypeOK, IdempotencyNext, NEW d, NEW key, NEW fingerprint,
         IsAnswerTo(d, key, fingerprint)
  PROVE  IsAnswerTo(d, key, fingerprint)'
<1>1. d \in Calls /\ call[d].pc = "done" /\ Effective(d) /\ call[d].key = key
  BY DEF IsAnswerTo
<1>2. Keeps(d)
  BY <1>1, CallsGoOn DEF GoesOn
<1>3. call[d].fingerprint = fingerprint \/ Outlived(key)'
  BY OutlivedStays DEF IsAnswerTo
<1> QED
  BY <1>1, <1>2, <1>3 DEF IsAnswerTo, Keeps, Effective

LEMMA AnsweredStep ==
  ASSUME IdempotencyTypeOK, Sane, Owned, Answered, IdempotencyNext
  PROVE  Answered'
<1> SUFFICES ASSUME NEW k \in IdempotencyKeys, HasAnswer(k)'
             PROVE  IsAnswerTo(idempotency_keys[k].response_json, k,
                               idempotency_keys[k].request_fingerprint)'
  BY DEF Answered
<1>0. idempotency_keys'[k] # NoRow /\ idempotency_keys'[k].response_json # NoResponse
  BY DEF HasAnswer
<1>1. CASE idempotency_keys'[k] = idempotency_keys[k]
  <2> DEFINE d == idempotency_keys[k].response_json
             f == idempotency_keys[k].request_fingerprint
  <2>1. IsAnswerTo(d, k, f)
    BY <1>0, <1>1 DEF Answered, HasAnswer
  <2> HIDE DEF d, f
  <2>2. IsAnswerTo(d, k, f)'
    <3>1. ASSUME NEW e, NEW g, IsAnswerTo(e, k, g)
          PROVE  /\ e \in Calls /\ call'[e].key = k /\ call'[e].pc = "done" /\ Effective(e)'
                 /\ call'[e].fingerprint = g \/ Outlived(k)'
      BY <3>1, AnswerStays DEF IsAnswerTo
    <3>2. d' = d /\ f' = f
      BY <1>1 DEF d, f
    <3> QED
      BY <2>1, <3>1, <3>2 DEF IsAnswerTo, Effective
  <2> QED
    BY <2>2 DEF d, f
<1>2. ASSUME NEW c \in Calls, AnswersRow(c, k)
      PROVE  IsAnswerTo(idempotency_keys[k].response_json, k,
                        idempotency_keys[k].request_fingerprint)'
  <2>1. /\ idempotency_keys[k] # NoRow /\ idempotency_keys'[k].response_json = c
        /\ idempotency_keys'[k].request_fingerprint = idempotency_keys[k].request_fingerprint
        /\ call[c].key = k /\ Completes(c)
    BY <1>2 DEF AnswersRow
  <2>2. /\ call[c].pc = "complete" /\ call[c].wrote
        /\ call'[c].pc = "done" /\ call'[c].outcome \in {"success", "unanswered"}
        /\ call'[c].wrote
        /\ call'[c].key = k /\ call'[c].fingerprint = call[c].fingerprint
    BY <2>1, CompleteDoes DEF OnlyMoves, Sane
  <2>3. Outlived(k) \/ idempotency_keys[k].request_fingerprint = call[c].fingerprint
    BY <2>1, <2>2 DEF Owned, Served
  <2>4. Outlived(k)' \/ idempotency_keys[k].request_fingerprint = call[c].fingerprint
    BY <2>3, OutlivedStays
  <2> QED
    BY <2>1, <2>2, <2>4 DEF IsAnswerTo, Effective
<1>3. ASSUME NEW c \in Calls, Reserves(c), call[c].key = k PROVE FALSE
  BY <1>0, <1>3 DEF Reserves
<1> QED
  BY <1>0, <1>1, <1>2, <1>3, RowsGoOn DEF GivesBack

LEMMA ReplayedStep ==
  ASSUME IdempotencyTypeOK, Sane, Answered, Replayed, IdempotencyNext
  PROVE  Replayed'
<1>1. ASSUME NEW c \in Calls, NEW k \in IdempotencyKeys, NEW f, NEW d,
             k = call[c].key, f = call[c].fingerprint, d = call'[c].response,
             call'[c].outcome = "replay"
      PROVE  d # c /\ IsAnswerTo(d, k, f)
  <2>1. CASE IsAnswered(c)
    <3> DEFINE row == Kept(call[c].now)[k]
    <3>1. /\ row # NoRow /\ row.request_fingerprint = f
          /\ row.response_json # NoResponse /\ d = row.response_json
          /\ call[c].pc = "begin"
      BY <1>1, <2>1 DEF IsAnswered
    <3>2. row = idempotency_keys[k]
      BY <3>1, KeptRows
    <3> HIDE DEF row
    <3>3. IsAnswerTo(d, k, f)
      BY <3>1, <3>2 DEF Answered, HasAnswer
    <3> QED
      BY <3>1, <3>3 DEF IsAnswerTo
  <2>2. CASE call[c].outcome = "replay" /\ call[c].pc = "done"
    <3>1. d = call[c].response
      BY <1>1, <2>2, CallsGoOn DEF Keeps, GoesOn
    <3> QED
      BY <1>1, <2>2, <3>1 DEF Replayed
  <2> QED
    BY <1>1, <2>1, <2>2, ServiceGoesOn
<1>2. ASSUME NEW c \in Calls
      PROVE  /\ call'[c].key = call[c].key /\ call'[c].fingerprint = call[c].fingerprint
             /\ call[c].key \in IdempotencyKeys
  BY CallsGoOn, Fields DEF GoesOn
<1>3. ASSUME NEW c \in Calls, NEW k \in IdempotencyKeys, NEW f, NEW d,
             k = call[c].key, f = call[c].fingerprint, d = call'[c].response,
             call'[c].outcome = "replay"
      PROVE  /\ d # c /\ d \in Calls /\ call'[d].key = k /\ call'[d].pc = "done" /\ Effective(d)'
             /\ call'[d].fingerprint = f \/ Outlived(k)'
  <2>1. d # c /\ IsAnswerTo(d, k, f)
    BY <1>1, <1>3
  <2>2. IsAnswerTo(d, k, f)'
    BY <2>1, AnswerStays
  <2> QED
    BY <2>1, <2>2 DEF IsAnswerTo
<1> QED
  BY <1>2, <1>3 DEF Replayed, IsAnswerTo, Effective

-----------------------------------------------------------------------------
(* The theorems *)

LEMMA IInvStart == IdempotencyInit => IInv
<1> SUFFICES ASSUME IdempotencyInit PROVE IInv
  OBVIOUS
<1>1. IdempotencyTypeOK
  BY TypeStart
<1>2. /\ \A k \in IdempotencyKeys : idempotency_keys[k] = NoRow
      /\ \A c \in Calls : /\ call[c].pc = "unsent" /\ call[c].now = 0 /\ ~call[c].wrote
                          /\ call[c].outcome = "none"
      /\ clock = 0
  BY DEF IdempotencyInit, Unsent
<1>3. \A c \in Calls : ~Served(c) /\ ~Holds(c)
  BY <1>2 DEF Served, Holds, Effective
<1>4. ASSUME NEW c \in Calls
      PROVE  /\ call[c].now <= clock
             /\ call[c].outcome # "none" => call[c].pc = "done"
             /\ call[c].pc = "complete" => call[c].wrote
  <2>1. call[c].now = 0 /\ clock = 0 /\ call[c].outcome = "none" /\ call[c].pc = "unsent"
    BY <1>2
  <2> QED
    BY <2>1
<1>5. Waiting /\ Answered
  BY <1>2 DEF Waiting, IsReserved, Answered, HasAnswer
<1>6. AlmostOne /\ Owned /\ Remembered /\ Late /\ Apart
  BY <1>3 DEF AlmostOne, Owned, Remembered, Late, Apart
<1>7. Replayed /\ TurnedAway /\ Attributed
  BY <1>2 DEF Replayed, TurnedAway, Attributed
<1> QED
  BY <1>1, <1>4, <1>5, <1>6, <1>7 DEF IInv, Sane

LEMMA IInvKept == IInv /\ [IdempotencyNext]_idempotencyVars => IInv'
<1>1. ASSUME IInv, IdempotencyNext PROVE IInv'
  BY <1>1, TypeStep, SaneStep, WaitingStep, AttributedStep, TurnedAwayStep, AlmostOneStep,
     OwnedStep, RememberedStep, LateStep, ApartStep, AnsweredStep, ReplayedStep DEF IInv
<1>2. ASSUME IInv, UNCHANGED idempotencyVars PROVE IInv'
  BY <1>2 DEF IInv, idempotencyVars, IdempotencyTypeOK, Sane, Waiting, IsReserved, Served,
     MayHold, HasReserved, Attributed, ReservedBy, TurnedAway, Late, AlmostOne, SameKey, Outlived, Owned, Remembered, Remembers, Holds, Effective, Apart,
     TtlApart, Answered, HasAnswer, IsAnswerTo, Replayed
<1> QED
  BY <1>1, <1>2

LEMMA Invariance == IdempotencySpec => []IInv
BY IInvStart, IInvKept, PTL DEF IdempotencySpec

\* A retry is served.  Whatever raises and wherever the process stops, a key is
\* left reserved by nobody but a call that is being served, was cut short, or
\* could not give it back, and turns nobody away after its TTL.
THEOREM NoKeyIsStuckHolds == IdempotencySpec => []NoKeyIsStuck
<1>1. IInv => NoKeyIsStuck
  BY DEF IInv, Waiting, TurnedAway, NoKeyIsStuck, IsReserved
<1> QED
  BY <1>1, Invariance, PTL

\* Two operations take effect under one key only a TTL apart, whatever the
\* order of the threads and however old the time each of them goes by, unless
\* one outlived its reservation.
THEOREM WritesAreApart == IdempotencySpec => []OneWritePerTtl
<1>1. IInv => OneWritePerTtl
  BY DEF IInv, Apart, OneWritePerTtl, Holds
<1> QED
  BY <1>1, Invariance, PTL

\* What a retry is told is what the same request, sent before under the same
\* key, was told when its operation took effect.
THEOREM ReplaysAreFaithful == IdempotencySpec => []ReplayIsFaithful
<1>1. IInv => ReplayIsFaithful
  BY DEF IInv, Replayed, IsAnswerTo, ReplayIsFaithful, SameKey
<1> QED
  BY <1>1, Invariance, PTL

(***************************************************************************)
(*                       THE SPANS AND OBSERVATIONS                        *)
(*                                                                         *)
(* What the service keeps of them, for every number of requests, depth of  *)
(* nesting, size of the buffer and cap.                                    *)
(***************************************************************************)

-----------------------------------------------------------------------------
(* Sequences *)

\* t is an end of s, and x after it.
EndOfWith(t, s, x) ==
  /\ Len(t) >= 1 /\ t[Len(t)] = x
  /\ \E d \in Nat :
       /\ Len(t) + d = Len(s) + 1
       /\ \A i \in 1..(Len(t) - 1) : t[i] = s[i + d]

\* What the buffer keeps when one more is appended.
LEMMA LastOfAppend ==
  ASSUME NEW S, NEW s \in Seq(S), NEW x \in S, NEW n \in Nat \ {0},
         NEW t, t = LastOf(Append(s, x), n)
  PROVE  t \in Seq(S) /\ EndOfWith(t, s, x)
<1> DEFINE u == Append(s, x)
<1>1. u \in Seq(S) /\ Len(u) = Len(s) + 1 /\ u[Len(s) + 1] = x /\ Len(s) \in Nat
  OBVIOUS
<1>2. \A i \in 1..Len(s) : u[i] = s[i]
  OBVIOUS
<1>0. t = LastOf(u, n)
  OBVIOUS
<1> HIDE DEF u
<1>3. CASE Len(u) <= n
  <2>1. t = u
    BY <1>0, <1>3 DEF LastOf
  <2>2. Len(t) + 0 = Len(s) + 1 /\ \A i \in 1..(Len(t) - 1) : t[i] = s[i + 0]
    BY <1>1, <1>2, <2>1, Len(t) - 1 = Len(s)
  <2>3. \E d \in Nat :
          Len(t) + d = Len(s) + 1 /\ \A i \in 1..(Len(t) - 1) : t[i] = s[i + d]
    BY <2>2
  <2>4. t \in Seq(S) /\ Len(t) >= 1 /\ t[Len(t)] = x
    BY <1>1, <2>1
  <2> QED
    BY <2>3, <2>4 DEF EndOfWith
<1>4. CASE ~(Len(u) <= n)
  <2> DEFINE d == Len(u) - n
  <2>1. t = SubSeq(u, d + 1, Len(u)) /\ d \in Nat /\ d >= 1 /\ d + n = Len(s) + 1
    <3>1. d \in Nat /\ d >= 1 /\ d + n = Len(s) + 1
      BY <1>1, <1>4
    <3>2. t = SubSeq(u, d + 1, Len(u))
      BY <1>0, <1>4 DEF LastOf
    <3> QED
      BY <3>1, <3>2
  <2>2. t \in Seq(S) /\ Len(t) = n
    BY <1>1, <1>4, <2>1
  <2>3. \A i \in 1..n : t[i] = u[i + d]
    BY <1>1, <1>4, <2>1
  <2> HIDE DEF d
  <2>4. t[n] = x
    BY <1>1, <2>1, <2>3
  <2>5. ASSUME NEW i \in 1..(n - 1) PROVE t[i] = s[i + d]
    <3>1. i \in 1..n /\ i + d \in 1..Len(s)
      BY <1>1, <2>1
    <3> QED
      BY <1>2, <2>3, <3>1
  <2>6. Len(t) + d = Len(s) + 1 /\ \A i \in 1..(Len(t) - 1) : t[i] = s[i + d]
    <3>1. Len(t) + d = Len(s) + 1
      BY <2>1, <2>2
    <3>2. Len(t) - 1 = n - 1
      BY <2>2
    <3> QED
      BY <2>5, <3>1, <3>2
  <2>7. \E e \in Nat :
          Len(t) + e = Len(s) + 1 /\ \A i \in 1..(Len(t) - 1) : t[i] = s[i + e]
    BY <2>1, <2>6
  <2>8. t \in Seq(S) /\ Len(t) >= 1 /\ t[Len(t)] = x
    BY <2>2, <2>4
  <2> QED
    BY <2>7, <2>8 DEF EndOfWith
<1> QED
  BY <1>3, <1>4

\* b is the end of o.
Ends(b, o) ==
  /\ Len(b) <= Len(o)
  /\ \A i \in 1..Len(b) : b[i] = o[Len(o) - Len(b) + i]

LEMMA EndsIsLast ==
  ASSUME NEW S, NEW o \in Seq(S), NEW b \in Seq(S), Ends(b, o)
  PROVE  b = LastOf(o, Len(b))
<1>1. Len(b) \in Nat /\ Len(o) \in Nat /\ Len(b) <= Len(o)
  BY DEF Ends
<1>2. CASE Len(o) <= Len(b)
  <2>1. Len(o) = Len(b)
    BY <1>1, <1>2
  <2>2. \A i \in 1..Len(b) : b[i] = o[i]
    BY <1>1, <2>1 DEF Ends
  <2> QED
    BY <1>2, <2>1, <2>2 DEF LastOf
<1>3. CASE ~(Len(o) <= Len(b))
  <2> DEFINE t == SubSeq(o, Len(o) - Len(b) + 1, Len(o))
  <2>1. t \in Seq(S) /\ Len(t) = Len(b)
    BY <1>1, <1>3
  <2>2. \A i \in 1..Len(b) : t[i] = o[Len(o) - Len(b) + i]
    BY <1>1, <1>3
  <2> HIDE DEF t
  <2>3. t = b
    BY <2>1, <2>2 DEF Ends
  <2> QED
    BY <1>3, <2>3 DEF LastOf, t
<1> QED
  BY <1>2, <1>3

LEMMA EndsAppend ==
  ASSUME NEW S, NEW o \in Seq(S), NEW b \in Seq(S), NEW v \in S, Ends(b, o)
  PROVE  Ends(Append(b, v), Append(o, v))
<1> DEFINE c == Append(b, v)
           p == Append(o, v)
<1>1. Len(b) \in Nat /\ Len(o) \in Nat /\ Len(b) <= Len(o)
  BY DEF Ends
<1>2. /\ Len(c) = Len(b) + 1 /\ c[Len(b) + 1] = v /\ \A i \in 1..Len(b) : c[i] = b[i]
      /\ Len(p) = Len(o) + 1 /\ p[Len(o) + 1] = v /\ \A i \in 1..Len(o) : p[i] = o[i]
  OBVIOUS
<1> HIDE DEF c, p
<1>3. ASSUME NEW i \in 1..Len(c) PROVE c[i] = p[Len(p) - Len(c) + i]
  <2>1. CASE i = Len(b) + 1
    BY <1>1, <1>2, <2>1
  <2>2. CASE i \in 1..Len(b)
    <3>1. Len(p) - Len(c) + i = Len(o) - Len(b) + i /\ Len(o) - Len(b) + i \in 1..Len(o)
      BY <1>1, <1>2, <2>2
    <3>2. b[i] = o[Len(o) - Len(b) + i]
      BY <2>2 DEF Ends
    <3> QED
      BY <1>2, <2>2, <3>1, <3>2
  <2> QED
    BY <1>1, <1>2, <2>1, <2>2
<1>4. Ends(c, p)
  BY <1>1, <1>2, <1>3 DEF Ends
<1> QED
  BY <1>4 DEF c, p

LEMMA EndsTrim ==
  ASSUME NEW S, NEW o \in Seq(S), NEW b \in Seq(S), NEW k \in Nat, k < Len(b), Ends(b, o)
  PROVE  LET c == SubSeq(b, k + 1, Len(b)) IN
         c \in Seq(S) /\ Len(c) = Len(b) - k /\ Ends(c, o)
<1> DEFINE c == SubSeq(b, k + 1, Len(b))
<1>1. Len(b) \in Nat /\ Len(o) \in Nat /\ Len(b) <= Len(o)
  BY DEF Ends
<1>2. c \in Seq(S) /\ Len(c) = Len(b) - k
  BY <1>1
<1>3. \A i \in 1..Len(c) : c[i] = b[i + k]
  BY <1>1, <1>2
<1> HIDE DEF c
<1>4. ASSUME NEW i \in 1..Len(c) PROVE c[i] = o[Len(o) - Len(c) + i]
  <2>1. i + k \in 1..Len(b) /\ Len(o) - Len(b) + (i + k) = Len(o) - Len(c) + i
    BY <1>1, <1>2
  <2> QED
    BY <1>3, <2>1 DEF Ends
<1>5. Ends(c, o)
  BY <1>1, <1>2, <1>4 DEF Ends
<1> QED
  BY <1>2, <1>5 DEF c

LEMMA FrontOf ==
  ASSUME NEW S, NEW e \in Seq(S), NEW m \in Nat, m <= Len(e)
  PROVE  /\ SubSeq(e, 1, m) \in Seq(S) /\ Len(SubSeq(e, 1, m)) = m
         /\ \A i \in 1..m : SubSeq(e, 1, m)[i] = e[i]
<1>1. SubSeq(e, 1, m) \in Seq(S)
  <2>1. \A i \in 1..m : e[i] \in S
    OBVIOUS
  <2> QED
    BY <2>1
<1>2. Len(SubSeq(e, 1, m)) = m
  OBVIOUS
<1>3. \A i \in 1..m : SubSeq(e, 1, m)[i] = e[i]
  OBVIOUS
<1> QED
  BY <1>1, <1>2, <1>3

-----------------------------------------------------------------------------
(* Observations *)

Reporting == {r \in Requests : stage[r] = "observe"}

\* Every counted query has its duration observed, or is about to.
MetricsInv ==
  /\ stage \in [Requests -> {"serve", "raise", "count", "observe"}]
  /\ durations \in Seq(Nat) /\ observed \in Seq(Nat)
  /\ Ends(durations, observed)
  /\ Len(durations) <= Cap
  /\ Len(durations) = Len(observed) \/ Len(durations) > Cap - Trimmed
  /\ queries_total = Len(observed) + Cardinality(Reporting)

LEMMA ReportingIsFinite == IsFiniteSet(Reporting) /\ Cardinality(Reporting) \in Nat
BY ObservabilityAssumption, FS_Subset, FS_CardinalityType DEF Reporting

LEMMA MetricsStart == ObservabilityInit => MetricsInv
<1> SUFFICES ASSUME ObservabilityInit PROVE MetricsInv
  OBVIOUS
<1>1. Reporting = {}
  BY DEF ObservabilityInit, Reporting
<1>2. Cardinality(Reporting) = 0
  BY <1>1, FS_EmptySet
<1> QED
  BY <1>2, ObservabilityAssumption DEF ObservabilityInit, MetricsInv, Ends

\* The steps of spans have nothing to do with them.
LEMMA TracingKeepsMetrics ==
  ASSUME MetricsInv, NEW r \in Requests, Enter(r) \/ Raises(r) \/ Leave(r)
  PROVE  MetricsInv'
<1>1. UNCHANGED metricsVars
  BY DEF Enter, Raises, Leave
<1>2. stage' \in [Requests -> {"serve", "raise", "count", "observe"}]
  BY DEF Enter, Raises, Leave, MetricsInv
<1>3. stage[r] # "observe" /\ stage'[r] # "observe" /\ \A q \in Requests \ {r} : stage'[q] = stage[q]
  BY DEF Enter, Raises, Leave, MetricsInv
<1>4. Reporting' = Reporting
  BY <1>3 DEF Reporting
<1> QED
  BY <1>1, <1>2, <1>4 DEF metricsVars, MetricsInv

LEMMA IncrementKeepsMetrics ==
  ASSUME MetricsInv, NEW r \in Requests, Increment(r)
  PROVE  MetricsInv'
<1>1. /\ stage' = [stage EXCEPT ![r] = "observe"] /\ stage[r] = "count"
      /\ queries_total' = queries_total + 1 /\ UNCHANGED <<durations, observed>>
  BY DEF Increment
<1>2. Reporting' = Reporting \cup {r} /\ r \notin Reporting
  BY <1>1 DEF Reporting, MetricsInv
<1>3. Cardinality(Reporting') = Cardinality(Reporting) + 1
  BY <1>2, ReportingIsFinite, FS_AddElement
<1>4. stage' \in [Requests -> {"serve", "raise", "count", "observe"}]
  BY <1>1 DEF MetricsInv
<1>5. queries_total' = Len(observed') + Cardinality(Reporting')
  BY <1>1, <1>3, ReportingIsFinite DEF MetricsInv
<1> QED
  BY <1>1, <1>4, <1>5 DEF MetricsInv

LEMMA ObserveKeepsMetrics ==
  ASSUME MetricsInv, NEW r \in Requests, NEW value \in Durations, Observe(r, value)
  PROVE  MetricsInv'
<1> DEFINE b == Append(durations, value)
           o == Append(observed, value)
<1>1. /\ stage' = [stage EXCEPT ![r] = "serve"] /\ stage[r] = "observe"
      /\ durations' = AfterTrim(b) /\ observed' = o /\ queries_total' = queries_total
  BY DEF Observe
<1>2. value \in Nat /\ Cap \in Nat \ {0} /\ Trimmed \in 1..Cap
  BY ObservabilityAssumption
<1>3. durations \in Seq(Nat) /\ observed \in Seq(Nat) /\ Ends(durations, observed)
  BY DEF MetricsInv
<1>4. /\ b \in Seq(Nat) /\ o \in Seq(Nat) /\ Ends(b, o)
      /\ Len(b) = Len(durations) + 1 /\ Len(o) = Len(observed) + 1
      /\ Len(durations) \in Nat /\ Len(observed) \in Nat
  BY <1>2, <1>3, EndsAppend
<1> HIDE DEF b, o
<1>5. /\ Len(durations) <= Cap
      /\ Len(durations) = Len(observed) \/ Len(durations) > Cap - Trimmed
      /\ Len(durations) <= Len(observed)
  BY DEF MetricsInv, Ends
<1>6. /\ durations' \in Seq(Nat) /\ Ends(durations', observed') /\ Len(durations') <= Cap
      /\ Len(durations') = Len(observed') \/ Len(durations') > Cap - Trimmed
  <2>1. CASE Len(b) > Cap
    <3> DEFINE c == SubSeq(b, Trimmed + 1, Len(b))
    <3>1. Trimmed \in Nat /\ Trimmed < Len(b)
      BY <1>2, <1>4, <2>1
    <3>2. c \in Seq(Nat) /\ Len(c) = Len(b) - Trimmed /\ Ends(c, o)
      BY <1>4, <3>1, EndsTrim
    <3>3. durations' = c
      BY <1>1, <2>1 DEF AfterTrim
    <3> HIDE DEF c
    <3>4. Len(c) <= Cap /\ Len(c) > Cap - Trimmed
      <4>1. /\ Len(b) \in Nat /\ Len(b) <= Cap + 1 /\ Len(b) > Cap
            /\ Len(c) = Len(b) - Trimmed
        BY <1>2, <1>4, <1>5, <2>1, <3>2
      <4> QED
        BY <1>2, <4>1
    <3> QED
      BY <1>1, <3>2, <3>3, <3>4
  <2>2. CASE ~(Len(b) > Cap)
    <3>1. durations' = b
      BY <1>1, <2>2 DEF AfterTrim
    <3>2. Len(b) <= Cap /\ (Len(b) = Len(o) \/ Len(b) > Cap - Trimmed)
      BY <1>2, <1>4, <1>5, <2>2, SMTT(30)
    <3> QED
      BY <1>1, <1>4, <3>1, <3>2
  <2> QED
    BY <2>1, <2>2
<1>7. Reporting' = Reporting \ {r} /\ r \in Reporting
  BY <1>1 DEF Reporting, MetricsInv
<1>8. Cardinality(Reporting') = Cardinality(Reporting) - 1
  BY <1>7, ReportingIsFinite, FS_RemoveElement
<1>9. stage' \in [Requests -> {"serve", "raise", "count", "observe"}]
  BY <1>1 DEF MetricsInv
<1>10. queries_total' = Len(observed') + Cardinality(Reporting')
  BY <1>1, <1>4, <1>8, ReportingIsFinite DEF MetricsInv
<1>11. observed' \in Seq(Nat)
  BY <1>1, <1>4
<1> QED
  BY <1>6, <1>9, <1>10, <1>11 DEF MetricsInv

LEMMA MetricsStep == MetricsInv /\ [ObservabilityNext]_obsVars => MetricsInv'
<1> SUFFICES ASSUME MetricsInv, [ObservabilityNext]_obsVars PROVE MetricsInv'
  OBVIOUS
<1>1. CASE UNCHANGED obsVars
  BY <1>1 DEF obsVars, MetricsInv, Reporting
<1> QED
  BY <1>1, TracingKeepsMetrics, IncrementKeepsMetrics, ObserveKeepsMetrics DEF ObservabilityNext

\* The facts of MetricsInv a snapshot is read by.
LEMMA MetricsMeansRecent == MetricsInv => BucketIsRecent
<1> SUFFICES ASSUME MetricsInv PROVE BucketIsRecent
  OBVIOUS
<1>1. durations = LastOf(observed, Len(durations))
  BY EndsIsLast DEF MetricsInv
<1>2. Len(observed) <= queries_total
  BY ReportingIsFinite DEF MetricsInv
<1> QED
  BY <1>1, <1>2 DEF MetricsInv, BucketIsRecent

\* The durations a snapshot is taken from are the latest ones, and no more are
\* observed than queries were counted (MetricsRegistry).
THEOREM BucketStaysRecent == ObservabilitySpec => []BucketIsRecent
BY MetricsMeansRecent, MetricsStart, MetricsStep, PTL DEF ObservabilitySpec

\* A nonempty set of naturals has a least member.
LEMMA LeastNat ==
  ASSUME NEW T \in SUBSET Nat, T # {}
  PROVE  \E x \in T : \A y \in T : x <= y
<1> DEFINE R == OpToRel(<, Nat)
<1>1. IsWellFoundedOn(R, Nat)
  BY NatLessThanWellFounded
<1>2. \A x, y \in Nat : x < y => <<x, y>> \in R
  BY DEF OpToRel
<1> HIDE DEF R
<1>3. PICK x \in T : \A y \in T : ~(<<y, x>> \in R)
  BY <1>1, WFMin
<1>4. ASSUME NEW y \in T PROVE x <= y
  <2>1. x \in Nat /\ y \in Nat
    BY <1>3, <1>4
  <2>2. ~(<<y, x>> \in R)
    BY <1>3, <1>4
  <2>3. ~(y < x)
    BY <1>2, <2>1, <2>2
  <2> QED
    BY <2>1, <2>3
<1> QED
  BY <1>4

\* ... and a bounded one a greatest.
LEMMA GreatestNat ==
  ASSUME NEW T \in SUBSET Nat, T # {}, NEW bound \in Nat, \A y \in T : y <= bound
  PROVE  \E x \in T : \A y \in T : y <= x
<1> DEFINE gaps == {bound - y : y \in T}
<1>1. gaps \in SUBSET Nat /\ gaps # {}
  <2>1. ASSUME NEW y \in T PROVE bound - y \in Nat
    <3>1. y \in Nat /\ y <= bound
      OBVIOUS
    <3> QED
      BY <3>1
  <2>2. \E y \in T : bound - y \in gaps
    OBVIOUS
  <2> QED
    BY <2>1, <2>2
<1>2. PICK gap \in gaps : \A other \in gaps : gap <= other
  BY <1>1, LeastNat
<1>3. PICK x \in T : gap = bound - x
  BY <1>2
<1>4. ASSUME NEW y \in T PROVE y <= x
  <2>1. bound - y \in gaps
    BY <1>4
  <2>2. gap <= bound - y
    BY <1>2, <2>1
  <2> QED
    BY <1>3, <1>4, <2>2
<1> QED
  BY <1>4

\* How many values do not exceed v, and how many are below it.
LEMMA Counts ==
  ASSUME NEW s \in Seq(Nat), NEW v \in Nat
  PROVE  /\ UpTo(s, v) \in Nat /\ Below(s, v) \in Nat
         /\ Below(s, v) <= UpTo(s, v) /\ UpTo(s, v) <= Len(s)
         /\ (\E i \in DOMAIN s : s[i] = v) => Below(s, v) < UpTo(s, v)
<1> DEFINE D == DOMAIN s
           U == {i \in D : s[i] <= v}
           B == {i \in D : s[i] < v}
<1>1. D = 1..Len(s) /\ Len(s) \in Nat
  OBVIOUS
<1>2. IsFiniteSet(D) /\ Cardinality(D) = Len(s)
  <2>1. IsFiniteSet(1..Len(s)) /\ Cardinality(1..Len(s)) = IF 1 > Len(s) THEN 0 ELSE Len(s) - 1 + 1
    BY <1>1, FS_Interval, SMTT(30)
  <2> QED
    BY <1>1, <2>1
<1>3. U \in SUBSET D /\ B \in SUBSET U
  OBVIOUS
<1>4. UpTo(s, v) = Cardinality(U) /\ Below(s, v) = Cardinality(B)
  BY DEF UpTo, Below
<1>5. (\E i \in D : s[i] = v) => B # U
  OBVIOUS
<1> HIDE DEF D, U, B
<1>6. IsFiniteSet(U) /\ Cardinality(U) <= Cardinality(D)
  BY <1>2, <1>3, FS_Subset
<1>7. IsFiniteSet(B) /\ Cardinality(B) <= Cardinality(U)
      /\ (Cardinality(U) = Cardinality(B) => U = B)
  BY <1>3, <1>6, FS_Subset
<1>8. Cardinality(U) \in Nat /\ Cardinality(B) \in Nat
  BY <1>6, <1>7, FS_CardinalityType
<1> QED
  BY <1>2, <1>4, <1>5, <1>6, <1>7, <1>8 DEF D

\* What does not exceed u is below any greater v.
LEMMA CountsGrow ==
  ASSUME NEW s \in Seq(Nat), NEW u \in Nat, NEW v \in Nat, u < v
  PROVE  UpTo(s, u) <= Below(s, v)
<1> DEFINE D == DOMAIN s
           U == {i \in D : s[i] <= u}
           B == {i \in D : s[i] < v}
<1>1. D = 1..Len(s) /\ Len(s) \in Nat
  OBVIOUS
<1>2. IsFiniteSet(D)
  BY <1>1, FS_Interval
<1>3. U \in SUBSET B /\ B \in SUBSET D
  OBVIOUS
<1>4. UpTo(s, u) = Cardinality(U) /\ Below(s, v) = Cardinality(B)
  BY DEF UpTo, Below
<1> HIDE DEF D, U, B
<1>5. IsFiniteSet(B)
  BY <1>2, <1>3, FS_Subset
<1> QED
  BY <1>3, <1>4, <1>5, FS_Subset

\* Every place of a series has a value, and InOrder finds it.
LEMMA InOrderFinds ==
  ASSUME NEW s \in Seq(Nat), NEW place \in 1..Len(s)
  PROVE  /\ InOrder(s, place) \in {s[i] : i \in DOMAIN s} /\ InOrder(s, place) \in Nat
         /\ Below(s, InOrder(s, place)) < place /\ place <= UpTo(s, InOrder(s, place))
<1> DEFINE V == {s[i] : i \in DOMAIN s}
           reached == {v \in V : place <= UpTo(s, v)}
<1>1. /\ Len(s) \in Nat /\ place \in Nat /\ 1 <= place /\ place <= Len(s)
      /\ DOMAIN s = 1..Len(s) /\ V \in SUBSET Nat
  OBVIOUS
<1>2. reached # {}
  <2> DEFINE all == {UpTo(s, v) : v \in V}
  <2>1. all \in SUBSET Nat /\ \A n \in all : n <= Len(s)
    BY <1>1, Counts
  <2>2. s[1] \in V
    BY <1>1
  <2>3. all # {}
    BY <2>2
  <2> HIDE DEF all
  <2>4. PICK most \in all : \A n \in all : n <= most
    BY <1>1, <2>1, <2>3, GreatestNat
  <2>5. PICK v \in V : most = UpTo(s, v)
    BY <2>4 DEF all
  <2>6. ASSUME NEW i \in DOMAIN s PROVE s[i] <= v
    <3>1. s[i] \in V /\ s[i] \in Nat /\ v \in Nat
      BY <1>1, <2>5, <2>6
    <3>2. UpTo(s, s[i]) \in all
      BY <3>1 DEF all
    <3>3. UpTo(s, s[i]) <= most
      BY <2>4, <3>2
    <3>4. CASE v < s[i]
      <4>1. UpTo(s, v) <= Below(s, s[i])
        BY <3>1, <3>4, CountsGrow
      <4>2. Below(s, s[i]) < UpTo(s, s[i])
        BY <2>6, <3>1, Counts
      <4>3. UpTo(s, v) \in Nat /\ UpTo(s, s[i]) \in Nat /\ Below(s, s[i]) \in Nat
        BY <3>1, Counts
      <4> QED
        BY <2>5, <3>3, <4>1, <4>2, <4>3
    <3> QED
      BY <3>1, <3>4
  <2>7. {i \in DOMAIN s : s[i] <= v} = DOMAIN s
    BY <2>6
  <2>8. UpTo(s, v) = Cardinality(1..Len(s))
    BY <1>1, <2>7 DEF UpTo
  <2>9. Cardinality(1..Len(s)) = Len(s)
    <3>1. Cardinality(1..Len(s)) = IF 1 > Len(s) THEN 0 ELSE Len(s) - 1 + 1
      BY <1>1, FS_Interval
    <3> QED
      BY <1>1, <3>1
  <2> QED
    BY <1>1, <2>5, <2>8, <2>9
<1>3. reached \in SUBSET Nat
  BY <1>1
<1> HIDE DEF reached
<1>4. PICK p \in reached : \A v \in reached : p <= v
  BY <1>2, <1>3, LeastNat
<1>5. p \in V /\ p \in Nat /\ place <= UpTo(s, p)
  BY <1>1, <1>4 DEF reached
<1>6. Below(s, p) < place
  <2> DEFINE lower == {v \in V : v < p}
             counts == {UpTo(s, v) : v \in lower}
  <2>1. CASE lower = {}
    <3>1. {i \in DOMAIN s : s[i] < p} = {}
      BY <2>1
    <3>2. Below(s, p) = 0
      BY <3>1, FS_EmptySet DEF Below
    <3> QED
      BY <1>1, <3>2
  <2>2. CASE lower # {}
    <3>1. lower \in SUBSET Nat /\ \A v \in lower : v <= p
      BY <1>1, <1>5
    <3> HIDE DEF lower
    <3>2. PICK u \in lower : \A v \in lower : v <= u
      BY <1>5, <2>2, <3>1, GreatestNat
    <3>3. u \in V /\ u \in Nat /\ u < p
      BY <1>1, <3>2 DEF lower
    <3>4. ASSUME NEW i \in DOMAIN s PROVE s[i] < p <=> s[i] <= u
      <4>1. s[i] \in V /\ s[i] \in Nat
        BY <1>1, <3>4
      <4>2. s[i] < p => s[i] <= u
        BY <3>2, <4>1 DEF lower
      <4> QED
        BY <1>5, <3>3, <4>1, <4>2, SMTT(30)
    <3>5. {i \in DOMAIN s : s[i] < p} = {i \in DOMAIN s : s[i] <= u}
      BY <3>4
    <3>6. Below(s, p) = UpTo(s, u)
      BY <3>5 DEF Below, UpTo
    <3>7. ~(p <= u)
      BY <1>5, <3>3
    <3>8. u \notin reached
      BY <1>4, <3>7
    <3>9. ~(place <= UpTo(s, u)) /\ UpTo(s, u) \in Nat
      BY <3>3, <3>8, Counts DEF reached
    <3> QED
      BY <1>1, <3>6, <3>9
  <2> QED
    BY <2>1, <2>2
<1>7. \E v \in V : Below(s, v) < place /\ place <= UpTo(s, v)
  BY <1>5, <1>6
<1>8. InOrder(s, place) = CHOOSE v \in V : Below(s, v) < place /\ place <= UpTo(s, v)
  BY DEF InOrder
<1> HIDE DEF V
<1>9. /\ InOrder(s, place) \in V
      /\ Below(s, InOrder(s, place)) < place /\ place <= UpTo(s, InOrder(s, place))
  BY <1>7, <1>8
<1> QED
  BY <1>1, <1>9 DEF V

\* A percentile is the least value that so large a part does not exceed.
LEMMA PercentileIsLeast ==
  ASSUME NEW s \in Seq(Nat), s # <<>>, NEW percent \in 0..100
  PROVE  /\ 100 * UpTo(s, Percentile(s, percent)) >= percent * Len(s)
         /\ \A i \in DOMAIN s : s[i] < Percentile(s, percent) =>
              100 * UpTo(s, s[i]) < percent * Len(s)
<1>1. PICK n : n = Len(s)
  OBVIOUS
<1>2. PICK part : part = n * percent
  OBVIOUS
<1>3. /\ n \in Nat /\ 1 <= n /\ percent \in Nat /\ percent <= 100
      /\ part \in Nat /\ part <= 100 * n /\ percent * n = part
  <2>1. n \in Nat /\ 1 <= n /\ percent \in Nat /\ percent <= 100
    BY <1>1
  <2>2. n * percent \in Nat /\ percent * n = n * percent /\ n * percent <= n * 100
    BY <2>1
  <2> QED
    BY <1>2, <2>1, <2>2
<1>4. PICK ceiling : ceiling = Ceiling(n * percent, 100)
  OBVIOUS
<1>5. ceiling \in Nat /\ 100 * ceiling >= part /\ 100 * (ceiling - 1) < part
  BY <1>2, <1>3, <1>4 DEF Ceiling
<1>6. PICK place : place = IF ceiling < 1 THEN 1 ELSE IF ceiling > n THEN n ELSE ceiling
  OBVIOUS
<1>7. /\ place \in 1..n /\ place \in Nat /\ 100 * place >= part
      /\ ceiling >= 1 => 100 * (place - 1) < part
      /\ ceiling < 1 => place = 1
  BY <1>3, <1>5, <1>6
<1>8. PICK p : p = Percentile(s, percent)
  OBVIOUS
<1>9. p = InOrder(s, place)
  BY <1>1, <1>4, <1>6, <1>8 DEF Percentile
<1>10. p \in Nat /\ Below(s, p) < place /\ place <= UpTo(s, p)
       /\ UpTo(s, p) \in Nat /\ Below(s, p) \in Nat
  BY <1>1, <1>7, <1>9, InOrderFinds, Counts
<1>11. 100 * UpTo(s, p) >= part
  BY <1>3, <1>7, <1>10
<1>12. ASSUME NEW i \in DOMAIN s, s[i] < p PROVE 100 * UpTo(s, s[i]) < part
  <2>1. s[i] \in Nat
    BY <1>12
  <2>2. UpTo(s, s[i]) <= Below(s, p) /\ UpTo(s, s[i]) \in Nat
    BY <1>10, <1>12, <2>1, CountsGrow, Counts
  <2>3. Below(s, s[i]) < UpTo(s, s[i]) /\ Below(s, s[i]) \in Nat
    BY <2>1, Counts
  <2>4. UpTo(s, s[i]) <= place - 1 /\ UpTo(s, s[i]) >= 1
    BY <1>7, <1>10, <2>2, <2>3
  <2> QED
    BY <1>3, <1>5, <1>7, <2>2, <2>4
<1> QED
  BY <1>1, <1>3, <1>8, <1>11, <1>12

\* Every percentile of a snapshot is the nearest rank of the latest durations:
\* it reaches the asked part of them, and no smaller one does
\* (MetricsRegistry.snapshot, _percentile).
THEOREM SnapshotsAreRecent == ObservabilitySpec => []SnapshotIsRecent
<1>1. MetricsInv => SnapshotIsRecent
  <2> SUFFICES ASSUME MetricsInv PROVE SnapshotIsRecent
    OBVIOUS
  <2>1. BucketIsRecent /\ durations \in Seq(Nat)
    BY MetricsMeansRecent DEF MetricsInv
  <2>2. ASSUME durations # <<>>, NEW percent \in Percents
        PROVE  /\ 100 * UpTo(durations, Percentile(durations, percent)) >= percent * Len(durations)
               /\ \A i \in DOMAIN durations : durations[i] < Percentile(durations, percent) =>
                    100 * UpTo(durations, durations[i]) < percent * Len(durations)
    <3>1. percent \in 0..100
      BY <2>2, ObservabilityAssumption
    <3> QED
      BY <2>1, <2>2, <3>1, PercentileIsLeast
  <2> QED
    BY <2>1, <2>2 DEF SnapshotIsRecent
<1> QED
  BY <1>1, MetricsStart, MetricsStep, PTL DEF ObservabilitySpec

-----------------------------------------------------------------------------
(* Spans *)

Frame == [record: SpanRecord, saved: Context]

ContextOf(frame) == [trace_id |-> frame.record.trace_id, span_id |-> frame.record.span_id]

\* The frame at place i of e belongs to the one below it.
FrameLinked(e, i) ==
  /\ e[i].saved = IF i = 1 THEN NoContext ELSE ContextOf(e[i - 1])
  /\ e[i].record.parent_span_id = e[i].saved.span_id
  /\ i > 1 => e[i].record.trace_id = e[i].saved.trace_id
  /\ e[i].record.trace_id # 0

\* The context variables c of a request whose open spans are e.
Linked(c, e) ==
  /\ e \in Seq(Frame)
  /\ c = IF e = <<>> THEN NoContext ELSE ContextOf(e[Len(e)])
  /\ \A i \in 1..Len(e) : FrameLinked(e, i)

\* The parent of the span at place i of s is open, or comes later in s.
Placed(i, s, e, g) == s[i].parent_span_id # 0 =>
  \/ \E r \in Requests : \E j \in 1..Len(e[r]) :
       /\ e[r][j].record.span_id = s[i].parent_span_id
       /\ e[r][j].record.trace_id = s[i].trace_id
       /\ s[i].status = "error" => g[r] = "raise"
  \/ \E j \in i + 1 .. Len(s) :
       /\ s[j].span_id = s[i].parent_span_id
       /\ s[j].trace_id = s[i].trace_id
       /\ s[i].status = "error" => s[j].status = "error"

TraceInv ==
  /\ ids \in Nat
  /\ stage \in [Requests -> {"serve", "raise", "count", "observe"}]
  /\ context \in [Requests -> Context]
  /\ entered \in [Requests -> Seq(Frame)]
  /\ spans \in Seq(SpanRecord)
  /\ \A r \in Requests : Linked(context[r], entered[r])
  /\ \A i \in 1..Len(spans) : Placed(i, spans, entered, stage)

LEMMA LinkedPush ==
  ASSUME NEW c, NEW e, Linked(c, e), NEW f \in Frame,
         f.saved = c, f.record.parent_span_id = c.span_id, f.record.trace_id # 0,
         c.trace_id # 0 => f.record.trace_id = c.trace_id
  PROVE  Linked(ContextOf(f), Append(e, f))
<1> DEFINE d == Append(e, f)
           n == Len(e)
<1>1. e \in Seq(Frame) /\ n \in Nat
  BY DEF Linked
<1>2. /\ d \in Seq(Frame) /\ Len(d) = n + 1 /\ d[n + 1] = f /\ d # <<>>
      /\ \A i \in 1..n : d[i] = e[i]
  BY <1>1
<1>3. (e = <<>>) <=> n = 0
  BY <1>1
<1>4. \A i \in 1..n : FrameLinked(e, i)
  BY DEF Linked
<1>5. c = IF n = 0 THEN NoContext ELSE ContextOf(e[n])
  BY <1>3 DEF Linked
<1> HIDE DEF d, n
<1>6. ASSUME NEW i \in 1..(n + 1) PROVE FrameLinked(d, i)
  <2>1. CASE i \in 1..n
    <3>1. d[i] = e[i] /\ (i > 1 => d[i - 1] = e[i - 1])
      BY <1>1, <1>2, <2>1
    <3>2. FrameLinked(e, i)
      BY <1>4, <2>1
    <3> QED
      BY <3>1, <3>2 DEF FrameLinked
  <2>2. CASE i = n + 1 /\ n = 0
    BY <1>2, <1>5, <2>2 DEF FrameLinked
  <2>3. CASE i = n + 1 /\ n # 0
    <3>0. i - 1 = n /\ n \in 1..n
      BY <1>1, <2>3
    <3>1. d[i] = f /\ d[i - 1] = e[n] /\ i # 1
      BY <1>1, <1>2, <2>3, <3>0
    <3>2. c = ContextOf(e[n])
      BY <1>5, <2>3
    <3>3. FrameLinked(e, n)
      BY <1>1, <1>4, <2>3
    <3>4. c.trace_id # 0
      BY <3>2, <3>3 DEF FrameLinked, ContextOf
    <3> QED
      BY <3>1, <3>2, <3>4 DEF FrameLinked
  <2> QED
    BY <1>1, <2>1, <2>2, <2>3
<1>7. Linked(ContextOf(f), d)
  BY <1>2, <1>6 DEF Linked
<1> QED
  BY <1>7 DEF d

LEMMA LinkedPop ==
  ASSUME NEW c, NEW e, Linked(c, e), e # <<>>
  PROVE  LET d == Pop(e)
             n == Len(e)
         IN  /\ d \in Seq(Frame) /\ n \in Nat \ {0} /\ Len(d) = n - 1
             /\ \A i \in 1..(n - 1) : d[i] = e[i]
             /\ e[n] \in Frame
             /\ Linked(e[n].saved, d)
<1> DEFINE d == Pop(e)
           n == Len(e)
<1>1. e \in Seq(Frame) /\ n \in Nat /\ n # 0
  BY DEF Linked
<1>2. /\ d \in Seq(Frame) /\ Len(d) = n - 1
      /\ \A i \in 1..(n - 1) : d[i] = e[i]
      /\ e[n] \in Frame
  <2>1. n - 1 \in Nat /\ n - 1 <= Len(e)
    BY <1>1
  <2>2. e[n] \in Frame
    BY <1>1
  <2>3. \A m \in Nat : m <= Len(e) =>
          /\ SubSeq(e, 1, m) \in Seq(Frame) /\ Len(SubSeq(e, 1, m)) = m
          /\ \A i \in 1..m : SubSeq(e, 1, m)[i] = e[i]
    BY <1>1, FrontOf
  <2> QED
    BY <2>1, <2>2, <2>3 DEF Pop
<1>3. \A i \in 1..n : FrameLinked(e, i)
  BY DEF Linked
<1> HIDE DEF d, n
<1>4. ASSUME NEW i \in 1..(n - 1) PROVE FrameLinked(d, i)
  <2>1. d[i] = e[i] /\ (i > 1 => d[i - 1] = e[i - 1])
    BY <1>1, <1>2
  <2>2. FrameLinked(e, i)
    BY <1>1, <1>3
  <2> QED
    BY <2>1, <2>2 DEF FrameLinked
<1>5. e[n].saved = IF n = 1 THEN NoContext ELSE ContextOf(e[n - 1])
  BY <1>1, <1>3 DEF FrameLinked
<1>6. (d = <<>>) <=> n = 1
  BY <1>1, <1>2
<1>7. d # <<>> => d[Len(d)] = e[n - 1]
  BY <1>1, <1>2, <1>6
<1>8. Linked(e[n].saved, d)
  BY <1>2, <1>4, <1>5, <1>6, <1>7 DEF Linked
<1> QED
  BY <1>1, <1>2, <1>8 DEF d, n

LEMMA TraceStart == ObservabilityInit => TraceInv
<1> SUFFICES ASSUME ObservabilityInit PROVE TraceInv
  OBVIOUS
<1>1. Linked(NoContext, <<>>)
  BY DEF Linked
<1> QED
  BY <1>1 DEF ObservabilityInit, TraceInv, Context, NoContext

\* What is open stays open while other spans are entered on top of it.
LEMMA EnterKeepsTrace ==
  ASSUME TraceInv, NEW r \in Requests, Enter(r)
  PROVE  TraceInv'
<1> DEFINE f == [record |-> NewSpan(r), saved |-> context[r]]
<1>1. /\ ids' = ids + 1 /\ UNCHANGED <<stage, spans>>
      /\ entered' = [entered EXCEPT ![r] = Append(entered[r], f)]
      /\ context' = [context EXCEPT ![r] = ContextOf(f)]
  BY DEF Enter, ContextOf, NewSpan
<1>2. /\ ids \in Nat /\ context[r] \in Context
      /\ context \in [Requests -> Context] /\ entered \in [Requests -> Seq(Frame)]
      /\ Linked(context[r], entered[r])
  BY DEF TraceInv
<1>3. /\ f \in Frame /\ f.saved = context[r]
      /\ f.record.parent_span_id = context[r].span_id /\ f.record.trace_id # 0
      /\ context[r].trace_id # 0 => f.record.trace_id = context[r].trace_id
  BY <1>2 DEF NewSpan, Frame, SpanRecord, Context
<1> HIDE DEF f
<1>4. ContextOf(f) \in Context
  BY <1>3 DEF ContextOf, Context, Frame, SpanRecord
<1>5. Linked(ContextOf(f), Append(entered[r], f))
  BY <1>2, <1>3, LinkedPush
<1>6. Append(entered[r], f) \in Seq(Frame)
  BY <1>2, <1>3
<1>7. /\ context' \in [Requests -> Context] /\ entered' \in [Requests -> Seq(Frame)]
      /\ context'[r] = ContextOf(f) /\ entered'[r] = Append(entered[r], f)
      /\ \A q \in Requests \ {r} : context'[q] = context[q] /\ entered'[q] = entered[q]
  BY <1>1, <1>2, <1>4, <1>6
<1>8. \A q \in Requests : Linked(context'[q], entered'[q])
  <2> SUFFICES ASSUME NEW q \in Requests PROVE Linked(context'[q], entered'[q])
    OBVIOUS
  <2>1. CASE q = r
    BY <1>5, <1>7, <2>1
  <2>2. CASE q # r
    BY <1>7, <2>2 DEF TraceInv
  <2> QED
    BY <2>1, <2>2
<1>9. \A q \in Requests : \A j \in 1..Len(entered[q]) :
        j \in 1..Len(entered'[q]) /\ entered'[q][j] = entered[q][j]
  <2> SUFFICES ASSUME NEW q \in Requests, NEW j \in 1..Len(entered[q])
               PROVE  j \in 1..Len(entered'[q]) /\ entered'[q][j] = entered[q][j]
    OBVIOUS
  <2>1. CASE q = r
    BY <1>2, <1>3, <1>7, <2>1
  <2>2. CASE q # r
    BY <1>7, <2>2
  <2> QED
    BY <2>1, <2>2
<1>10. \A i \in 1..Len(spans) : Placed(i, spans, entered', stage)
  <2> SUFFICES ASSUME NEW i \in 1..Len(spans) PROVE Placed(i, spans, entered', stage)
    OBVIOUS
  <2>1. Placed(i, spans, entered, stage)
    BY DEF TraceInv
  <2> QED
    BY <1>9, <2>1, SMTT(30) DEF Placed
<1>11. (\A i \in 1..Len(spans) : Placed(i, spans, entered, stage))'
  BY <1>1, <1>10
<1>12. ids' \in Nat /\ spans' \in Seq(SpanRecord)
       /\ stage' \in [Requests -> {"serve", "raise", "count", "observe"}]
  BY <1>1 DEF TraceInv
<1> QED
  BY <1>7, <1>8, <1>11, <1>12 DEF TraceInv

LEMMA RaisesKeepsTrace ==
  ASSUME TraceInv, NEW r \in Requests, Raises(r)
  PROVE  TraceInv'
<1>1. /\ UNCHANGED <<context, entered, spans, ids>>
      /\ stage' = [stage EXCEPT ![r] = "raise"]
  BY DEF Raises
<1>2. /\ stage' \in [Requests -> {"serve", "raise", "count", "observe"}]
      /\ \A q \in Requests : stage[q] = "raise" => stage'[q] = "raise"
  BY <1>1 DEF TraceInv
<1>3. \A i \in 1..Len(spans) : Placed(i, spans, entered, stage')
  <2> SUFFICES ASSUME NEW i \in 1..Len(spans) PROVE Placed(i, spans, entered, stage')
    OBVIOUS
  <2>1. Placed(i, spans, entered, stage)
    BY DEF TraceInv
  <2> QED
    BY <1>2, <2>1 DEF Placed
<1> QED
  BY <1>1, <1>2, <1>3 DEF TraceInv

\* Metrics are reported when nothing is on its way.
LEMMA MetricsKeepTrace ==
  ASSUME TraceInv, NEW r \in Requests,
         Increment(r) \/ \E value \in Durations : Observe(r, value)
  PROVE  TraceInv'
<1>1. /\ UNCHANGED <<context, entered, spans, ids>>
      /\ stage[r] \in {"count", "observe"}
      /\ \E v \in {"serve", "observe"} : stage' = [stage EXCEPT ![r] = v]
  BY DEF Increment, Observe
<1>2. /\ stage' \in [Requests -> {"serve", "raise", "count", "observe"}]
      /\ \A q \in Requests : stage[q] = "raise" => stage'[q] = "raise"
  BY <1>1 DEF TraceInv
<1>3. \A i \in 1..Len(spans) : Placed(i, spans, entered, stage')
  <2> SUFFICES ASSUME NEW i \in 1..Len(spans) PROVE Placed(i, spans, entered, stage')
    OBVIOUS
  <2>1. Placed(i, spans, entered, stage)
    BY DEF TraceInv
  <2> QED
    BY <1>2, <2>1 DEF Placed
<1> QED
  BY <1>1, <1>2, <1>3 DEF TraceInv

\* The heart: a span that is left goes to the end of the buffer, so after all
\* its children; and its own parent is open still.
LEMMA LeaveKeepsTrace ==
  ASSUME TraceInv, NEW r \in Requests, Leave(r)
  PROVE  TraceInv'
<1> DEFINE e == entered[r]
           n == Len(e)
           status == IF stage[r] = "raise" THEN "error" ELSE "ok"
           span == [e[n].record EXCEPT !.status = status]
           t == LastOf(Append(spans, span), max_spans)
<1>1. /\ e # <<>> /\ spans' = t /\ ids' = ids
      /\ context' = [context EXCEPT ![r] = e[n].saved]
      /\ entered' = [entered EXCEPT ![r] = Pop(e)]
      /\ n > 1 => stage' = stage
      /\ \E v \in {"serve", "raise", "count", "observe"} : stage' = [stage EXCEPT ![r] = v]
  <2>1. /\ e # <<>> /\ spans' = t /\ ids' = ids
        /\ context' = [context EXCEPT ![r] = e[n].saved]
        /\ entered' = [entered EXCEPT ![r] = Pop(e)]
    BY DEF Leave, Retained, Reset, Top
  <2>2. n > 1 => stage' = stage
    <3>1. n = 1 \/ stage' = stage
      BY DEF Leave
    <3>2. n = 1 => ~(n > 1)
      OBVIOUS
    <3> QED
      BY <3>1, <3>2
  <2>3. \E v \in {"serve", "raise", "count", "observe"} : stage' = [stage EXCEPT ![r] = v]
    BY DEF Leave, TraceInv
  <2> QED
    BY <2>1, <2>2, <2>3
<1>2. /\ ids \in Nat /\ spans \in Seq(SpanRecord)
      /\ context \in [Requests -> Context] /\ entered \in [Requests -> Seq(Frame)]
      /\ Linked(context[r], e)
      /\ stage \in [Requests -> {"serve", "raise", "count", "observe"}]
  BY DEF TraceInv
<1>3. /\ Pop(e) \in Seq(Frame) /\ n \in Nat \ {0} /\ Len(Pop(e)) = n - 1
      /\ \A i \in 1..(n - 1) : Pop(e)[i] = e[i]
      /\ e[n] \in Frame
      /\ Linked(e[n].saved, Pop(e))
  BY <1>1, <1>2, LinkedPop
<1>4. /\ span \in SpanRecord /\ span.status = status
      /\ span.span_id = e[n].record.span_id /\ span.trace_id = e[n].record.trace_id
      /\ span.parent_span_id = e[n].record.parent_span_id
  BY <1>3 DEF Frame, SpanRecord
<1>5. e[n].saved \in Context
  BY <1>3 DEF Frame
<1>6. FrameLinked(e, n)
  BY <1>2, <1>3 DEF Linked
<1> HIDE DEF span, t, e, n
<1>7. /\ t \in Seq(SpanRecord) /\ Len(t) \in Nat /\ Len(t) >= 1 /\ t[Len(t)] = span
      /\ \E d \in Nat : /\ Len(t) + d = Len(spans) + 1
                       /\ \A i \in 1..(Len(t) - 1) : t[i] = spans[i + d]
  <2>1. max_spans \in Nat \ {0}
    BY ObservabilityAssumption
  <2>2. t = LastOf(Append(spans, span), max_spans)
    BY DEF t
  <2>3. spans \in Seq(SpanRecord)
    BY <1>2
  <2>4. span \in SpanRecord
    BY <1>4
  <2>5. t \in Seq(SpanRecord) /\ EndOfWith(t, spans, span)
    BY <2>1, <2>2, <2>3, <2>4, LastOfAppend
  <2>6. Len(t) \in Nat
    BY <2>5
  <2> QED
    BY <2>5, <2>6 DEF EndOfWith
<1>8. PICK d \in Nat : /\ Len(t) + d = Len(spans) + 1
                      /\ \A i \in 1..(Len(t) - 1) : t[i] = spans[i + d]
  BY <1>7
<1>9. /\ context' \in [Requests -> Context] /\ entered' \in [Requests -> Seq(Frame)]
      /\ stage' \in [Requests -> {"serve", "raise", "count", "observe"}]
      /\ context'[r] = e[n].saved /\ entered'[r] = Pop(e)
      /\ \A q \in Requests \ {r} :
           context'[q] = context[q] /\ entered'[q] = entered[q] /\ stage'[q] = stage[q]
  BY <1>1, <1>2, <1>3, <1>5
<1>10. \A q \in Requests : Linked(context'[q], entered'[q])
  <2> SUFFICES ASSUME NEW q \in Requests PROVE Linked(context'[q], entered'[q])
    OBVIOUS
  <2>1. CASE q = r
    BY <1>3, <1>9, <2>1
  <2>2. CASE q # r
    BY <1>9, <2>2 DEF TraceInv
  <2> QED
    BY <2>1, <2>2
<1>11. \A i \in 1..Len(t) : Placed(i, t, entered', stage')
  <2> SUFFICES ASSUME NEW i \in 1..Len(t), t[i].parent_span_id # 0
               PROVE  Placed(i, t, entered', stage')
    BY DEF Placed
  <2>1. CASE i = Len(t)
    <3>1. e[n].saved.span_id # 0
      BY <1>4, <1>6, <1>7, <2>1 DEF FrameLinked
    <3>2. n > 1 /\ e[n].saved = ContextOf(e[n - 1])
      BY <1>3, <1>6, <3>1 DEF FrameLinked, NoContext
    <3>3. /\ n - 1 \in 1..Len(entered'[r]) /\ entered'[r][n - 1] = e[n - 1]
          /\ stage' = stage
      BY <1>1, <1>3, <1>9, <3>2
    <3>4. /\ e[n - 1].record.span_id = t[i].parent_span_id
          /\ e[n - 1].record.trace_id = t[i].trace_id
      BY <1>4, <1>6, <1>7, <2>1, <3>2 DEF FrameLinked, ContextOf
    <3>5. t[i].status = "error" => stage[r] = "raise"
      BY <1>4, <1>7, <2>1
    <3> QED
      BY <3>3, <3>4, <3>5 DEF Placed
  <2>2. CASE i # Len(t)
    <3>1. /\ i \in 1..(Len(t) - 1) /\ i + d \in 1..Len(spans) /\ t[i] = spans[i + d]
          /\ Len(spans) \in Nat
      <4>1. Len(spans) \in Nat
        BY <1>2
      <4>2. i \in 1..(Len(t) - 1) /\ i + d \in 1..Len(spans)
        BY <1>7, <1>8, <2>2, <4>1
      <4> QED
        BY <1>8, <4>1, <4>2
    <3>2. Placed(i + d, spans, entered, stage)
      BY <3>1 DEF TraceInv
    <3>3. CASE \E j \in i + d + 1 .. Len(spans) :
                 /\ spans[j].span_id = t[i].parent_span_id
                 /\ spans[j].trace_id = t[i].trace_id
                 /\ t[i].status = "error" => spans[j].status = "error"
      <4>1. PICK j \in i + d + 1 .. Len(spans) :
                 /\ spans[j].span_id = t[i].parent_span_id
                 /\ spans[j].trace_id = t[i].trace_id
                 /\ t[i].status = "error" => spans[j].status = "error"
        BY <3>3
      <4>2. j - d \in i + 1 .. Len(t) /\ t[j - d] = spans[j]
        <5>1. j - d \in 1..(Len(t) - 1) /\ (j - d) + d = j /\ j - d \in i + 1 .. Len(t)
          BY <1>7, <1>8, <3>1
        <5> QED
          BY <1>8, <5>1
      <4> QED
        BY <4>1, <4>2 DEF Placed
    <3>4. CASE \E q \in Requests : \E j \in 1..Len(entered[q]) :
                 /\ entered[q][j].record.span_id = t[i].parent_span_id
                 /\ entered[q][j].record.trace_id = t[i].trace_id
                 /\ t[i].status = "error" => stage[q] = "raise"
      <4>0. PICK q \in Requests : \E j \in 1..Len(entered[q]) :
                 /\ entered[q][j].record.span_id = t[i].parent_span_id
                 /\ entered[q][j].record.trace_id = t[i].trace_id
                 /\ t[i].status = "error" => stage[q] = "raise"
        BY <3>4
      <4>1. PICK j \in 1..Len(entered[q]) :
                 /\ entered[q][j].record.span_id = t[i].parent_span_id
                 /\ entered[q][j].record.trace_id = t[i].trace_id
                 /\ t[i].status = "error" => stage[q] = "raise"
        BY <4>0
      <4>2. CASE q # r
        <5>1. entered'[q] = entered[q] /\ stage'[q] = stage[q]
          BY <1>9, <4>2
        <5> QED
          BY <4>1, <5>1 DEF Placed
      <4>3. CASE q = r /\ j # n
        <5>1. j \in 1..(n - 1) /\ n > 1 /\ entered[q][j] = e[j]
          BY <1>3, <4>3 DEF e, n
        <5>2. j \in 1..Len(entered'[q]) /\ entered'[q][j] = entered[q][j] /\ stage' = stage
          BY <1>1, <1>3, <1>9, <4>3, <5>1
        <5> QED
          BY <4>1, <5>2 DEF Placed
      <4>4. CASE q = r /\ j = n
        <5>1. entered[q][j] = e[n]
          BY <4>4 DEF e
        <5>2. /\ span.span_id = t[i].parent_span_id /\ span.trace_id = t[i].trace_id
              /\ t[i].status = "error" => span.status = "error"
          BY <1>4, <4>1, <4>4, <5>1
        <5>3. Len(t) \in i + 1 .. Len(t)
          BY <1>7, <2>2
        <5> QED
          BY <1>7, <5>2, <5>3 DEF Placed
      <4> QED
        BY <4>2, <4>3, <4>4
    <3> QED
      BY <3>1, <3>2, <3>3, <3>4 DEF Placed
  <2> QED
    BY <2>1, <2>2
<1> QED
  BY <1>1, <1>2, <1>7, <1>9, <1>10, <1>11 DEF TraceInv

LEMMA TraceStep == TraceInv /\ [ObservabilityNext]_obsVars => TraceInv'
<1> SUFFICES ASSUME TraceInv, [ObservabilityNext]_obsVars PROVE TraceInv'
  OBVIOUS
<1>1. CASE UNCHANGED obsVars
  BY <1>1 DEF obsVars, TraceInv
<1> QED
  BY <1>1, EnterKeepsTrace, RaisesKeepsTrace, LeaveKeepsTrace, MetricsKeepTrace
     DEF ObservabilityNext

\* The parent of every span in the buffer is in it after the span, of the same
\* trace and as failed as the span is, or has not ended (Tracer.span).
THEOREM NobodyIsOrphaned == ObservabilitySpec => []NoOrphans
<1>1. TraceInv => NoOrphans
  <2> SUFFICES ASSUME TraceInv, NEW i \in DOMAIN spans, spans[i].parent_span_id # 0
               PROVE  \/ IsOpen(spans[i].parent_span_id)
                      \/ \E j \in i + 1 .. Len(spans) :
                           /\ spans[j].span_id = spans[i].parent_span_id
                           /\ spans[j].trace_id = spans[i].trace_id
                           /\ spans[i].status = "error" => spans[j].status = "error"
    BY DEF NoOrphans
  <2>1. i \in 1..Len(spans) /\ \A r \in Requests : DOMAIN entered[r] = 1..Len(entered[r])
    BY DEF TraceInv
  <2>2. Placed(i, spans, entered, stage)
    BY <2>1 DEF TraceInv
  <2> QED
    BY <2>1, <2>2 DEF Placed, IsOpen
<1> QED
  BY <1>1, TraceStart, TraceStep, PTL DEF ObservabilitySpec

(***************************************************************************)
(*                           THE MODEL'S CLIENT                            *)
(*                                                                         *)
(* When it asks again and when it gives up, for every set of environments  *)
(* and every sequence of responses.                                        *)
(***************************************************************************)

\* A client that posts was configured, and a chat under way has no result.
ModelSound ==
  /\ environment \in Environment
  /\ responses \in Seq(Response)
  /\ client = "deepseek" =>
       environment.has_key /\ environment.is_https /\ environment.max_retries >= 0
  /\ client \notin {"ollama", "deepseek"} => ~posting /\ responses = <<>>
  /\ posting \/ client = "none" => result = "none"

ModelInv == ModelSound /\ GivesUpWithCause

LEMMA ModelStart == ModelInit => ModelInv
<1> SUFFICES ASSUME ModelInit PROVE ModelInv
  OBVIOUS
<1>1. ModelSound
  BY ModelAssumption DEF ModelInit, ModelSound
<1>2. responses = <<>> /\ ~posting /\ client = "none"
  BY DEF ModelInit
<1>3. Len(responses) = 0
  BY <1>2
<1>4. GivesUpWithCause
  BY <1>2, <1>3 DEF GivesUpWithCause
<1> QED
  BY <1>1, <1>4 DEF ModelInv

LEMMA ConfigureKeeps == ModelInv /\ Configure => ModelInv'
<1> SUFFICES ASSUME ModelInv, Configure PROVE ModelInv'
  OBVIOUS
<1>1. /\ client = "none" /\ responses = <<>> /\ ~posting /\ result = "none"
      /\ UNCHANGED <<environment, posting, responses, result>>
  BY DEF ModelInv, ModelSound, Configure
<1>2. environment.max_retries \in Int
  BY DEF ModelInv, ModelSound, Environment
<1>3. client' = "deepseek" =>
        environment.has_key /\ environment.is_https /\ environment.max_retries >= 0
  BY <1>2 DEF Configure, IsRefused
<1>4. ModelSound'
  BY <1>1, <1>3 DEF ModelInv, ModelSound
<1>5. GivesUpWithCause'
  BY <1>1, <1>2, <1>3, Len(responses') = 0 DEF GivesUpWithCause
<1> QED
  BY <1>4, <1>5 DEF ModelInv

LEMMA ChatKeeps == ModelInv /\ Chat => ModelInv'
<1> SUFFICES ASSUME ModelInv, Chat PROVE ModelInv'
  OBVIOUS
<1>1. /\ responses' = <<>> /\ posting' = TRUE /\ result' = "none"
      /\ client \in {"ollama", "deepseek"} /\ UNCHANGED <<environment, client>>
  BY DEF Chat
<1>2. environment.max_retries \in Int
  BY DEF ModelInv, ModelSound, Environment
<1>3. ModelSound'
  BY <1>1 DEF ModelInv, ModelSound
<1>4. GivesUpWithCause'
  BY <1>1, <1>2, Len(responses') = 0 DEF GivesUpWithCause, ModelInv, ModelSound
<1> QED
  BY <1>3, <1>4 DEF ModelInv

\* The heart: a response is asked about again only below the limit, and is
\* the last one otherwise.
LEMMA RespondKeeps ==
  ASSUME ModelInv, NEW response \in Response, Respond(response)
  PROVE  ModelInv'
<1>1. /\ posting /\ responses \in Seq(Response) /\ result = "none"
      /\ UNCHANGED <<environment, client>>
      /\ client \in {"ollama", "deepseek"}
  BY DEF ModelInv, ModelSound, Respond
<1>2. environment.max_retries \in Int
  BY DEF ModelInv, ModelSound, Environment
<1> DEFINE n == Len(responses)
<1>3. n \in Nat /\ responses' = Append(responses, response)
  BY <1>1 DEF Respond
<1>4. /\ responses' \in Seq(Response) /\ Len(responses') = n + 1
      /\ responses'[n + 1] = response /\ responses' # <<>>
      /\ \A i \in 1..n : responses'[i] = responses[i]
  BY <1>1, <1>3
<1>5. /\ \A i \in 1..n : responses[i] \in Transient
      /\ n + 1 <= (IF client = "deepseek" THEN environment.max_retries + 1 ELSE 1)
  BY <1>1, <1>2, <1>3 DEF ModelInv, GivesUpWithCause
<1>6. client = "deepseek" => environment.has_key /\ environment.is_https
  BY DEF ModelInv, ModelSound
<1>7. CASE TriesAgain(response)
  <2>1. posting' = TRUE /\ result' = "none"
    BY <1>1, <1>7 DEF Respond
  <2>2. /\ client = "deepseek" /\ response \in Transient
        /\ n < environment.max_retries
    BY <1>7 DEF TriesAgain, Transient, Attempt
  <2>3. ModelSound'
    BY <1>1, <1>4, <2>1 DEF ModelInv, ModelSound
  <2>4. \A i \in 1..Len(responses') : responses'[i] \in Transient
    <3> SUFFICES ASSUME NEW i \in 1..(n + 1) PROVE responses'[i] \in Transient
      BY <1>4
    <3>1. CASE i = n + 1
      BY <1>4, <2>2, <3>1
    <3>2. CASE i \in 1..n
      BY <1>4, <1>5, <3>2
    <3> QED
      BY <3>1, <3>2, <1>3
  <2> HIDE DEF n
  <2>5. GivesUpWithCause'
    BY <1>1, <1>2, <1>3, <1>4, <1>6, <2>1, <2>2, <2>4 DEF GivesUpWithCause
  <2> QED
    BY <2>3, <2>5 DEF ModelInv
<1>8. CASE ~TriesAgain(response)
  <2>1. posting' = FALSE /\ result' = ResultOf(response)
    BY <1>8 DEF Respond
  <2>2. client = "deepseek" /\ response \in Transient => n >= environment.max_retries
    BY <1>2, <1>3, <1>8 DEF TriesAgain, Transient, Attempt
  <2>3. client = "deepseek" /\ ResultOf(response) = "answer" => response = "answer"
    BY DEF ResultOf, DeepSeekResult, Response, retryable_statuses
  <2>4. ModelSound'
    BY <1>1, <1>4, <2>1 DEF ModelInv, ModelSound
  <2>5. \A i \in 1..Len(responses') : i < Len(responses') => responses'[i] \in Transient
    BY <1>3, <1>4, <1>5
  <2> HIDE DEF n
  <2>6. Len(responses') <= (IF client = "deepseek" THEN environment.max_retries + 1 ELSE 1)
    BY <1>4, <1>5
  <2>7. client = "deepseek" =>
          \/ responses'[Len(responses')] \notin Transient
          \/ Len(responses') = environment.max_retries + 1
    BY <1>2, <1>3, <1>4, <1>5, <2>2
  <2>8. client = "deepseek" /\ result' = "answer" => responses'[Len(responses')] = "answer"
    BY <1>4, <2>1, <2>3
  <2>9. Len(responses') \in Nat
    BY <1>3, <1>4
  <2>10. GivesUpWithCause'
    BY <1>1, <1>2, <1>6, <2>1, <2>5, <2>6, <2>7, <2>8, <2>9 DEF GivesUpWithCause
  <2> QED
    BY <2>4, <2>10 DEF ModelInv
<1> QED
  BY <1>7, <1>8

LEMMA ModelStep == ModelInv /\ [ModelNext]_modelVars => ModelInv'
<1> SUFFICES ASSUME ModelInv, [ModelNext]_modelVars PROVE ModelInv'
  OBVIOUS
<1>1. ASSUME NEW has_evidence \in BOOLEAN, Extract(has_evidence) PROVE ModelInv'
  BY <1>1 DEF Extract, ModelInv, ModelSound, GivesUpWithCause
<1>2. CASE UNCHANGED modelVars
  BY <1>2 DEF modelVars, ModelInv, ModelSound, GivesUpWithCause
<1> QED
  BY <1>1, <1>2, ConfigureKeeps, ChatKeeps, RespondKeeps DEF ModelNext

\* The client asks again only after failures that may pass and never beyond
\* its limit, and fails for one of these only at the limit
\* (DeepSeekClient._post, OllamaClient._post).
THEOREM RetriesAreBounded == ModelSpec => []GivesUpWithCause
<1>1. ModelInv => GivesUpWithCause
  BY DEF ModelInv
<1> QED
  BY <1>1, ModelStart, ModelStep, PTL DEF ModelSpec

================================================================================
