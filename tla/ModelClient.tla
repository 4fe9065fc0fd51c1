----------------------------- MODULE ModelClient -----------------------------
(***************************************************************************)
(* The client of the generation model: how the environment selects it, and *)
(* how often it asks.  DeepSeek is asked again after certain failures, up  *)
(* to a limit; Ollama is asked once; the extractive demo asks nobody.  The *)
(* service at the other end is external and may answer anything.           *)
(*                                                                         *)
(* A client serves one chat after another and keeps nothing of them.  The  *)
(* pauses between attempts are left out.                                   *)
(***************************************************************************)
EXTENDS Integers, Sequences

CONSTANTS Environments,   \* the settings the process may be started with
          MaxChats        \* bound on chats

Environment ==
  [provider: {"extractive", "ollama", "deepseek", "other"},
   has_key: BOOLEAN, is_https: BOOLEAN, known_model: BOOLEAN, max_retries: Int]

ASSUME ModelAssumption ==
  /\ Environments \subseteq Environment
  /\ MaxChats \in Nat

retryable_statuses == {"429", "500", "502", "503", "504"}

\* A body with an answer, without a choice, with a blank one, or not JSON; a
\* status; no connection; a connection that fell silent.
Response ==
  {"answer", "no_choice", "blank", "not_json", "400", "401", "402", "403",
   "unreachable", "silent"} \cup retryable_statuses

VARIABLES environment,
          client,      \* of which provider the client is
          posting,     \* the client waits for a response
          responses,   \* those of the chat so far
          result,      \* what the chat came to
          chats

modelVars == <<environment, client, posting, responses, result, chats>>

Attempt == Len(responses)

\* llm_from_environment and the constructors.
IsRefused(e) ==
  \/ e.provider = "other"
  \/ /\ e.provider = "deepseek"
     /\ ~e.has_key \/ ~e.is_https \/ ~e.known_model \/ e.max_retries < 0

Configure ==
  /\ client = "none"
  /\ client' = IF IsRefused(environment) THEN "refused" ELSE environment.provider
  /\ UNCHANGED <<environment, posting, responses, result, chats>>

Chat ==
  /\ client \in {"ollama", "deepseek"} /\ ~posting
  /\ chats < MaxChats
  /\ chats' = chats + 1
  /\ posting' = TRUE
  /\ responses' = <<>>
  /\ result' = "none"
  /\ UNCHANGED <<environment, client>>

\* The first evidence blocks are the answer, or there are none.
Extract(has_evidence) ==
  /\ client = "extractive"
  /\ chats < MaxChats
  /\ chats' = chats + 1
  /\ result' = IF has_evidence THEN "answer" ELSE "no_evidence"
  /\ UNCHANGED <<environment, client, posting, responses>>

\* Wrong on purpose: one attempt too many.
TriesOnceMore(response) ==
  /\ client = "deepseek"
  /\ response \in retryable_statuses \cup {"unreachable"}
  /\ Attempt <= environment.max_retries

\* What is asked again; a read that times out is not.
TriesAgain(response) ==
  /\ client = "deepseek"
  /\ response \in retryable_statuses \cup {"unreachable"}
  /\ Attempt < environment.max_retries

\* What DeepSeek's client makes of its last response.
DeepSeekResult(response) ==
  IF response \in {"401", "403"} THEN "unauthorized"
  ELSE IF response \in Response \ {"400", "500", "502", "503", "504"} THEN response
  ELSE "failed"

\* Ollama's: a blank answer is one, a status is as good as no connection.
OllamaResult(response) ==
  IF response \in {"answer", "blank"} THEN "answer"
  ELSE IF response \in {"no_choice", "not_json", "silent"} THEN response
  ELSE "unreachable"

ResultOf(response) ==
  IF client = "ollama" THEN OllamaResult(response) ELSE DeepSeekResult(response)

Respond(response) ==
  /\ posting
  /\ responses' = Append(responses, response)
  /\ IF TriesAgain(response) THEN UNCHANGED <<posting, result>>
     ELSE posting' = FALSE /\ result' = ResultOf(response)
  /\ UNCHANGED <<environment, client, chats>>

ModelInit ==
  /\ environment \in Environments
  /\ client = "none"
  /\ posting = FALSE
  /\ responses = <<>>
  /\ result = "none"
  /\ chats = 0

ModelNext ==
  \/ Configure
  \/ Chat
  \/ \E has_evidence \in BOOLEAN : Extract(has_evidence)
  \/ \E response \in Response : Respond(response)

ModelSpec == ModelInit /\ [][ModelNext]_modelVars

-----------------------------------------------------------------------------
(* Properties *)

\* Failures that may pass.
Transient == retryable_statuses \cup {"unreachable"}

\* A chat asks the service again only after a failure that may pass, so never
\* once it has answered; it asks at most max_retries times more, Ollama once.
\* It fails for such a failure only after all these attempts; and nothing is
\* sent without a key or to an address that is not https.
GivesUpWithCause ==
  /\ \A i \in 1..Len(responses) : i < Len(responses) \/ posting => responses[i] \in Transient
  /\ Len(responses) + (IF posting THEN 1 ELSE 0) <=
       (IF client = "deepseek" THEN environment.max_retries + 1 ELSE 1)
  /\ client = "deepseek" /\ ~posting /\ responses # <<>>
       => \/ responses[Len(responses)] \notin Transient
          \/ Len(responses) = environment.max_retries + 1
  /\ client = "deepseek" /\ (posting \/ responses # <<>>)
       => environment.has_key /\ environment.is_https
  /\ client = "deepseek" /\ result = "answer" => responses[Len(responses)] = "answer"

=============================================================================
