---------------------------- MODULE MCApiProcess ----------------------------
(***************************************************************************)
(* The mechanisms of the API's process that guard or observe its requests  *)
(* and share no state: the rate limiter, the idempotency keys, the spans   *)
(* and metrics, and the model's client.  A behaviour is of one of them     *)
(* (`part' says which), so the run explores them side by side.             *)
(***************************************************************************)
EXTENDS RateLimiter, Idempotency, Observability, ModelClient, TLC

CONSTANTS c1, k1, k2, f1, f2

VARIABLE part

\* What a process may be started with: three clients, and four mistakes.
With(provider, has_key, is_https, known_model, max_retries) ==
  [provider |-> provider, has_key |-> has_key, is_https |-> is_https,
   known_model |-> known_model, max_retries |-> max_retries]

SomeEnvironments ==
  {With("extractive", FALSE, TRUE, TRUE, 2), With("ollama", FALSE, TRUE, TRUE, 2),
   With("deepseek", TRUE, TRUE, TRUE, 2), With("deepseek", TRUE, TRUE, TRUE, 0),
   With("deepseek", FALSE, TRUE, TRUE, 2), With("deepseek", TRUE, FALSE, TRUE, 2),
   With("deepseek", TRUE, TRUE, FALSE, 2), With("deepseek", TRUE, TRUE, TRUE, -1),
   With("other", TRUE, TRUE, TRUE, 2)}

Sym == Permutations(Calls) \cup Permutations(Clients)

\* Three retries of one request; two of it and another request with its key;
\* two of it and another request with a key of its own.
SomeCalls ==
  {[c \in Calls |-> IF c = c1 THEN third ELSE Unsent(k1, f1)] :
     third \in {Unsent(k1, f1), Unsent(k1, f2), Unsent(k2, f2)}}

\* What a part does not need is fixed.
ApiProcessInit ==
  /\ LimiterInit /\ IdempotencyInit /\ ObservabilityInit /\ ModelInit
  /\ part \in {"limiter", "keys", "spans", "model"}
  /\ call \in (IF part = "keys" THEN SomeCalls ELSE {[c \in Calls |-> Unsent(k1, f1)]})
  /\ part # "model" => environment.provider = "extractive"

Limiter == part = "limiter" /\ UNCHANGED <<idempotencyVars, obsVars, modelVars, part>>

Keys == part = "keys" /\ UNCHANGED <<limiterVars, obsVars, modelVars, part>>

Spans == part = "spans" /\ UNCHANGED <<limiterVars, idempotencyVars, modelVars, part>>

Model == part = "model" /\ UNCHANGED <<limiterVars, idempotencyVars, obsVars, part>>

\* The next-state relations of the parts, written out so that TLC counts
\* their actions.
ApiProcessNext ==
  \/ Limiter /\ TimePasses
  \/ \E c \in Clients : Limiter /\ Allow(c)
  \/ \E c \in Calls :
       \/ Keys /\ Send(c)
       \/ Keys /\ Begin(c)
       \/ Keys /\ Operate(c)
       \/ Keys /\ OperateRaises(c)
       \/ Keys /\ Abandon(c)
       \/ Keys /\ Complete(c)
       \/ Keys /\ BeginRaises(c)
       \/ Keys /\ AbandonRaises(c)
       \/ Keys /\ CompleteRaises(c)
  \/ Keys /\ ClockTicks
  \/ Keys /\ Restart
  \/ \E r \in Requests :
       \/ Spans /\ Enter(r)
       \/ Spans /\ Raises(r)
       \/ Spans /\ Leave(r)
       \/ Spans /\ Increment(r)
       \/ \E value \in Durations : Spans /\ Observe(r, value)
  \/ Model /\ Configure
  \/ Model /\ Chat
  \/ \E has_evidence \in BOOLEAN : Model /\ Extract(has_evidence)
  \/ \E response \in Response : Model /\ Respond(response)

apiProcessVars == <<limiterVars, idempotencyVars, obsVars, modelVars, part>>

ApiProcessSpec == ApiProcessInit /\ [][ApiProcessNext]_apiProcessVars

=============================================================================
