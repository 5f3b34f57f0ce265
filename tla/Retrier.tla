------------------------------ MODULE Retrier -------------------------------
(***************************************************************************)
(* The retry loop of internal/oneclick/retry.go around the calls of        *)
(* client.go: an attempt may be carried out upstream whether or not its    *)
(* answer comes back, before or after the caller has given up waiting for  *)
(* it.  The module has the steps of a call; who calls, when, and under     *)
(* which context is for the modules that extend it to say.                 *)
(***************************************************************************)
EXTENDS Naturals, Sequences, FiniteSets

CONSTANTS
  Calls,        \* calls of run, each made once
  MaxAttempts   \* retrier.maxAttempts (3 in the code)

ASSUME RetrierAssumption == MaxAttempts \in Nat \ {0}

\* What fn returns: nil, an APIError by the HTTP status it carries, or an
\* error of the transport, the request's own context included.
BadRequest   == "400"
Unauthorized == "401"
RateLimit    == "429"
OtherClient  == "4xx"
ServerError  == "5xx"
NoAnswer     == "transport"
Errors == {BadRequest, Unauthorized, RateLimit, OtherClient, ServerError, NoAnswer}
Nil == "nil"

VARIABLES
  at,         \* at[c]: "ready" for an attempt, "calling", "backoff" or "returned"
  answers,    \* answers[c]: what fn returned, attempt by attempt
  executed,   \* executed[c]: attempts the 1-click API has carried out
  running,    \* calls whose current attempt the API has carried out
  cancelled,  \* calls whose context has ended
  result      \* result[c]: what run returned, "" until then

vars == <<at, answers, executed, running, cancelled, result>>

TypeOK ==
  /\ at \in [Calls -> {"ready", "calling", "backoff", "returned"}]
  /\ answers \in [Calls -> Seq(Errors \cup {Nil})]
  /\ \A c \in Calls : Len(answers[c]) <= MaxAttempts
  /\ executed \in [Calls -> 0..MaxAttempts]
  /\ running \subseteq Calls
  /\ cancelled \subseteq Calls
  /\ result \in [Calls -> Errors \cup {Nil, "context", ""}]

Init ==
  /\ at = [c \in Calls |-> "ready"]
  /\ answers = [c \in Calls |-> <<>>]
  /\ executed = [c \in Calls |-> 0]
  /\ running = {}
  /\ cancelled = {}
  /\ result = [c \in Calls |-> ""]

-----------------------------------------------------------------------------

Last(c) == answers[c][Len(answers[c])]

Return(c, value) ==
  /\ at' = [at EXCEPT ![c] = "returned"]
  /\ result' = [result EXCEPT ![c] = value]

\* Faulty form of MayAttempt: <= for <.
MayAttemptOnceMore(c) == Len(answers[c]) <= MaxAttempts

MayAttempt(c) == Len(answers[c]) < MaxAttempts

Attempt(c) ==
  /\ at[c] = "ready"
  /\ MayAttempt(c) /\ c \notin cancelled
  /\ at' = [at EXCEPT ![c] = "calling"]
  /\ running' = running \ {c}
  /\ UNCHANGED <<answers, executed, cancelled, result>>

\* ctx.Err() before an attempt, ctx.Done() during a back-off.
GiveUp(c) ==
  /\ at[c] = "backoff" \/ (at[c] = "ready" /\ MayAttempt(c))
  /\ c \in cancelled
  /\ Return(c, "context")
  /\ UNCHANGED <<answers, executed, running, cancelled>>

\* Faulty form of LoopEnds: the error of the first attempt is returned.
LoopEndsFirst(c) ==
  /\ at[c] = "ready"
  /\ ~MayAttempt(c)
  /\ Return(c, answers[c][1])
  /\ UNCHANGED <<answers, executed, running, cancelled>>

\* The attempts are used up: lastErr is returned.
LoopEnds(c) ==
  /\ at[c] = "ready"
  /\ ~MayAttempt(c)
  /\ Return(c, Last(c))
  /\ UNCHANGED <<answers, executed, running, cancelled>>

\* Faulty form of Refused: 401 is retried as well.
RefusedBadRequest(e) == e = BadRequest

\* The errors run does not retry.
Refused(e) == e \in {BadRequest, Unauthorized}

\* Faulty form of Final: success is not looked for.
FinalIfRefused(answer) == Refused(answer)

\* What ends the loop at once.
Final(answer) == answer = Nil \/ Refused(answer)

\* fn returns.  The API answers 2xx only for what it has carried out and
\* turns down what it has not.
Answer(c, answer) ==
  /\ at[c] = "calling"
  /\ answer = Nil => c \in running
  /\ answer \in {BadRequest, Unauthorized, RateLimit, OtherClient} => c \notin running
  /\ answers' = [answers EXCEPT ![c] = Append(@, answer)]
  /\ IF Final(answer)
     THEN Return(c, answer)
     ELSE /\ at' = [at EXCEPT ![c] =
                      IF Len(answers[c]) + 1 < MaxAttempts THEN "backoff" ELSE "ready"]
          /\ UNCHANGED result
  /\ UNCHANGED <<executed, running, cancelled>>

\* Faulty form of BackoffOver: nothing fires the timer.
BackoffOverNever(c) == at[c] = "backoff" /\ FALSE /\ UNCHANGED vars

BackoffOver(c) ==
  /\ at[c] = "backoff"
  /\ at' = [at EXCEPT ![c] = "ready"]
  /\ UNCHANGED <<answers, executed, running, cancelled, result>>

\* The 1-click API carries the current attempt out.
Execute(c) ==
  /\ at[c] = "calling" /\ c \notin running
  /\ running' = running \cup {c}
  /\ executed' = [executed EXCEPT ![c] = @ + 1]
  /\ UNCHANGED <<at, answers, cancelled, result>>

\* An attempt that went unanswered, or was answered 5xx on its behalf, may reach
\* the API all the same and be carried out later.
Open(c) == {i \in 1..Len(answers[c]) : answers[c][i] \in {ServerError, NoAnswer, Nil}}

ExecuteLate(c) ==
  /\ executed[c] < Cardinality(Open(c)) + (IF at[c] = "calling" /\ c \in running THEN 1 ELSE 0)
  /\ executed' = [executed EXCEPT ![c] = @ + 1]
  /\ UNCHANGED <<at, answers, running, cancelled, result>>

-----------------------------------------------------------------------------

CallStep(c) ==
  \/ Attempt(c)
  \/ GiveUp(c)
  \/ LoopEnds(c)
  \/ \E answer \in Errors \cup {Nil} : Answer(c, answer)
  \/ BackoffOver(c)

ApiStep(c) == Execute(c) \/ ExecuteLate(c)

-----------------------------------------------------------------------------
(* What the loop promises. *)

\* A request the API has turned down for good (400, 401) or granted is not
\* sent again: a quote that was answered is never asked for a second time.
AsksNoMoreThanNeeded ==
  \A c \in Calls : \A i \in 1..Len(answers[c]) :
    answers[c][i] \in {BadRequest, Unauthorized, Nil} =>
      i = Len(answers[c]) /\ at[c] = "returned"

\* The caller learns the outcome of the last attempt and not of an earlier
\* one: success only for a call the API has carried out, an error only if
\* the API gave no success to tell of, the context's only if it has ended.
TellsTheOutcome ==
  \A c \in Calls : at[c] = "returned" =>
    /\ result[c] = Nil => executed[c] > 0
    /\ result[c] = "context" => c \in cancelled
    /\ result[c] # "context" => answers[c] # <<>> /\ result[c] = Last(c)
=============================================================================
