---------------------------- MODULE RetrierProofs ----------------------------
(***************************************************************************)
(* What every step of a retried call, its own or the 1-click API's, keeps. *)
(* The facts are about one call among any number, so that a module that    *)
(* extends Retrier can use them whoever calls, and when.                   *)
(***************************************************************************)
EXTENDS Retrier, Integers, FiniteSetTheorems, TLAPS

\* What fn may return, and what run may.
Answers == Errors \cup {Nil}
Results == Answers \cup {"context", ""}

Shape ==
  /\ at \in [Calls -> {"ready", "calling", "backoff", "returned"}]
  /\ answers \in [Calls -> Seq(Answers)]
  /\ executed \in [Calls -> Nat]
  /\ running \subseteq Calls
  /\ cancelled \subseteq Calls
  /\ result \in [Calls -> Results]

\* The current attempt has been carried out.
Running(c) == IF at[c] = "calling" /\ c \in running THEN 1 ELSE 0

\* An attempt is made, and another waited for, only below the limit.
Limited(c) ==
  /\ Len(answers[c]) <= MaxAttempts
  /\ at[c] \in {"calling", "backoff"} => Len(answers[c]) < MaxAttempts

\* A final answer is the last one and is what run has returned.
FinalsLast(c) ==
  \A i \in 1..Len(answers[c]) : Final(answers[c][i]) =>
    i = Len(answers[c]) /\ at[c] = "returned" /\ result[c] = answers[c][i]

\* Success is reported of what the API has carried out, an error as it was answered.
Reported(c) ==
  at[c] = "returned" =>
    /\ result[c] = Nil => executed[c] > 0
    /\ result[c] = "context" => c \in cancelled
    /\ result[c] # "context" => answers[c] # <<>> /\ result[c] = Last(c)

\* The API has carried out no more than the open attempts and the current one.
Accounted(c) ==
  /\ at[c] = "calling" /\ c \in running => executed[c] > 0
  /\ executed[c] <= Cardinality(Open(c)) + Running(c)

CallInv(c) == Limited(c) /\ FinalsLast(c) /\ Reported(c) /\ Accounted(c)

RInv == Shape /\ \A c \in Calls : CallInv(c)

\* A step of one call leaves the others alone.
OthersUnchanged(c) ==
  \A d \in Calls \ {c} :
    /\ at'[d] = at[d] /\ answers'[d] = answers[d] /\ executed'[d] = executed[d]
    /\ result'[d] = result[d]
    /\ d \in running' <=> d \in running

-----------------------------------------------------------------------------

\* The open attempts are finitely many, no more than there are answers.
LEMMA OpenFinite ==
  ASSUME Shape, NEW c \in Calls
  PROVE  /\ IsFiniteSet(Open(c))
         /\ Cardinality(Open(c)) \in Nat
         /\ Cardinality(Open(c)) <= Len(answers[c])
<1>1. answers[c] \in Seq(Answers) /\ Len(answers[c]) \in Nat
  BY DEF Shape
<1>2. /\ IsFiniteSet(1..Len(answers[c]))
      /\ Cardinality(1..Len(answers[c])) = Len(answers[c])
  BY <1>1, FS_Interval
<1>3. Open(c) \in SUBSET (1..Len(answers[c]))
  BY DEF Open
<1>4. IsFiniteSet(Open(c)) /\ Cardinality(Open(c)) <= Len(answers[c])
  BY <1>2, <1>3, FS_Subset
<1>5. QED
  BY <1>4, FS_CardinalityType

\* A new answer is open unless it refuses, and the earlier ones stay as they are.
LEMMA OpenGrows ==
  ASSUME Shape, NEW c \in Calls, NEW answer \in Answers,
         answers'[c] = Append(answers[c], answer)
  PROVE  Cardinality(Open(c)') =
           Cardinality(Open(c)) + (IF answer \in {ServerError, NoAnswer, Nil} THEN 1 ELSE 0)
<1> DEFINE n == Len(answers[c])
<1>1. answers[c] \in Seq(Answers) /\ n \in Nat
  BY DEF Shape
<1>2. /\ Len(answers'[c]) = n + 1
      /\ answers'[c][n + 1] = answer
      /\ \A i \in 1..n : answers'[c][i] = answers[c][i]
  BY <1>1
<1>3. \A i : i \in 1..(n + 1) <=> i \in 1..n \/ i = n + 1
  BY <1>1
<1>4. n + 1 \notin Open(c)
  BY <1>1 DEF Open
<1>5. CASE answer \in {ServerError, NoAnswer, Nil}
  <2>1. Open(c)' = Open(c) \cup {n + 1}
    BY <1>1, <1>2, <1>3, <1>5 DEF Open
  <2>2. QED
    BY <1>4, <1>5, <2>1, OpenFinite, FS_AddElement
<1>6. CASE answer \notin {ServerError, NoAnswer, Nil}
  <2>1. Open(c)' = Open(c)
    BY <1>1, <1>2, <1>3, <1>6 DEF Open
  <2>2. QED
    BY <1>6, <2>1, OpenFinite
<1>7. QED
  BY <1>5, <1>6

\* Nothing about a call changes but that its context may have ended.
LEMMA Untouched ==
  ASSUME RInv, NEW c \in Calls,
         at'[c] = at[c], answers'[c] = answers[c], executed'[c] = executed[c],
         result'[c] = result[c], c \in running' <=> c \in running,
         cancelled \subseteq cancelled'
  PROVE  CallInv(c)'
<1>1. Limited(c) /\ FinalsLast(c) /\ Reported(c) /\ Accounted(c)
  BY DEF RInv, CallInv
<1>2. Open(c)' = Open(c) /\ Running(c)' = Running(c) /\ Last(c)' = Last(c)
  BY DEF Open, Running, Last
<1>3. Limited(c)'
  BY <1>1 DEF Limited
<1>4. FinalsLast(c)'
  BY <1>1 DEF FinalsLast
<1>5. Reported(c)'
  BY <1>1, <1>2 DEF Reported
<1>6. Accounted(c)'
  BY <1>1, <1>2 DEF Accounted
<1>7. QED
  BY <1>3, <1>4, <1>5, <1>6 DEF CallInv

\* It is enough that a step keeps its own call's invariant.
LEMMA OneCall ==
  ASSUME RInv, NEW c \in Calls, OthersUnchanged(c), UNCHANGED cancelled,
         Shape', CallInv(c)'
  PROVE  RInv'
<1>1. ASSUME NEW d \in Calls, d # c PROVE CallInv(d)'
  BY <1>1, Untouched DEF OthersUnchanged
<1>2. QED
  BY <1>1 DEF RInv

-----------------------------------------------------------------------------

\* The answers and the count of a call, as numbers.
LEMMA Counts ==
  ASSUME RInv, NEW c \in Calls
  PROVE  /\ answers[c] \in Seq(Answers) /\ Len(answers[c]) \in Nat
         /\ executed[c] \in Nat
         /\ Cardinality(Open(c)) \in Nat /\ Cardinality(Open(c)) <= Len(answers[c])
<1>1. Shape
  BY DEF RInv
<1>2. QED
  BY <1>1, OpenFinite DEF Shape

\* A step that only moves a call on, or out with what it has learnt so far.
LEMMA LoopShape ==
  ASSUME RInv, NEW c \in Calls, NEW place \in {"ready", "calling", "backoff", "returned"},
         NEW value \in Results,
         at' = [at EXCEPT ![c] = place],
         result' = [result EXCEPT ![c] = value] \/ result' = result,
         running' = running \/ running' = running \ {c},
         UNCHANGED <<answers, executed, cancelled>>
  PROVE  Shape' /\ OthersUnchanged(c) /\ at'[c] = place
<1>1. Shape
  BY DEF RInv
<1>2. at' \in [Calls -> {"ready", "calling", "backoff", "returned"}]
  BY <1>1 DEF Shape
<1>3. result' \in [Calls -> Results]
  BY <1>1 DEF Shape
<1>4. running' \subseteq Calls
  BY <1>1 DEF Shape
<1>5. at'[c] = place
  BY <1>1 DEF Shape
<1>6. OthersUnchanged(c)
  <2> SUFFICES ASSUME NEW d \in Calls \ {c}
               PROVE  /\ at'[d] = at[d] /\ answers'[d] = answers[d] /\ executed'[d] = executed[d]
                      /\ result'[d] = result[d]
                      /\ d \in running' <=> d \in running
    BY DEF OthersUnchanged
  <2>1. at'[d] = at[d]
    BY <1>1 DEF Shape
  <2>2. result'[d] = result[d]
    BY <1>1 DEF Shape
  <2>3. d \in running' <=> d \in running
    OBVIOUS
  <2>4. QED
    BY <2>1, <2>2, <2>3
<1>7. QED
  BY <1>1, <1>2, <1>3, <1>4, <1>5, <1>6 DEF Shape

\* When the limit is reached, the last answer is an error to report.
LEMMA LastOfAll ==
  ASSUME RInv, RetrierAssumption, NEW c \in Calls, at[c] = "ready", ~MayAttempt(c)
  PROVE  answers[c] # <<>> /\ Last(c) \in Answers /\ ~Final(Last(c))
<1> DEFINE n == Len(answers[c])
<1>1. answers[c] \in Seq(Answers) /\ n \in Nat
  BY Counts
<1>2. n > 0 /\ n \in 1..n
  BY <1>1 DEF MayAttempt, RetrierAssumption
<1>3. answers[c] # <<>> /\ Last(c) \in Answers
  BY <1>1, <1>2 DEF Last
<1>4. FinalsLast(c)
  BY DEF RInv, CallInv
<1>5. ~Final(answers[c][n])
  BY <1>2, <1>4 DEF FinalsLast
<1>6. QED
  BY <1>3, <1>5 DEF Last

\* Each step of the loop that brings no answer.
LEMMA AttemptKeeps ==
  ASSUME RInv, NEW c \in Calls, Attempt(c)
  PROVE  RInv' /\ OthersUnchanged(c)
<1>1. Limited(c) /\ FinalsLast(c) /\ Accounted(c)
  BY DEF RInv, CallInv
<1>2. Shape' /\ OthersUnchanged(c) /\ at'[c] = "calling"
  BY LoopShape DEF Attempt, Results
<1>3. /\ at[c] = "ready" /\ MayAttempt(c) /\ c \notin running'
      /\ UNCHANGED <<answers, executed, cancelled, result>>
      /\ Open(c)' = Open(c)
  BY DEF Attempt, Open
<1>4. Limited(c)'
  BY <1>1, <1>2, <1>3 DEF Limited, MayAttempt
<1>5. FinalsLast(c)'
  BY <1>1, <1>2, <1>3 DEF FinalsLast
<1>6. Reported(c)'
  BY <1>2 DEF Reported
<1>7. Accounted(c)'
  <2>1. Running(c) = 0 /\ Running(c)' = 0
    BY <1>2, <1>3 DEF Running
  <2>2. QED
    BY <1>1, <1>3, <2>1 DEF Accounted
<1>8. QED
  BY <1>2, <1>3, <1>4, <1>5, <1>6, <1>7, OneCall DEF CallInv

LEMMA GiveUpKeeps ==
  ASSUME RInv, NEW c \in Calls, GiveUp(c)
  PROVE  RInv' /\ OthersUnchanged(c)
<1>1. Limited(c) /\ FinalsLast(c) /\ Accounted(c) /\ Shape
  BY DEF RInv, CallInv
<1>2. Shape' /\ OthersUnchanged(c) /\ at'[c] = "returned"
  BY LoopShape DEF GiveUp, Return, Results
<1>3. /\ at[c] \in {"backoff", "ready"} /\ c \in cancelled'
      /\ UNCHANGED <<answers, executed, running, cancelled>>
      /\ Open(c)' = Open(c)
  BY DEF GiveUp, Open
<1>4. result'[c] = "context"
  BY <1>1 DEF GiveUp, Return, Shape
<1>5. Limited(c)'
  BY <1>1, <1>2, <1>3 DEF Limited
<1>6. FinalsLast(c)'
  BY <1>1, <1>3 DEF FinalsLast
<1>7. Reported(c)'
  BY <1>3, <1>4 DEF Reported, Nil
<1>8. Accounted(c)'
  <2>1. Running(c) = 0 /\ Running(c)' = 0
    BY <1>2, <1>3 DEF Running
  <2>2. QED
    BY <1>1, <1>2, <1>3, <2>1 DEF Accounted
<1>9. QED
  BY <1>2, <1>3, <1>5, <1>6, <1>7, <1>8, OneCall DEF CallInv

LEMMA LoopEndsKeeps ==
  ASSUME RInv, RetrierAssumption, NEW c \in Calls, LoopEnds(c)
  PROVE  RInv' /\ OthersUnchanged(c)
<1>1. Limited(c) /\ FinalsLast(c) /\ Accounted(c) /\ Shape
  BY DEF RInv, CallInv
<1>2. /\ at[c] = "ready" /\ ~MayAttempt(c)
      /\ UNCHANGED <<answers, executed, running, cancelled>>
      /\ Open(c)' = Open(c) /\ Last(c)' = Last(c)
  BY DEF LoopEnds, Open, Last
<1>3. answers[c] # <<>> /\ Last(c) \in Answers /\ ~Final(Last(c))
  BY <1>2, LastOfAll
<1>4. Shape' /\ OthersUnchanged(c) /\ at'[c] = "returned"
  BY <1>3, LoopShape DEF LoopEnds, Return, Results
<1>5. result'[c] = Last(c) /\ result'[c] \notin {Nil, "context"}
  <2>1. result'[c] = Last(c) /\ Last(c) # Nil
    BY <1>1, <1>3 DEF LoopEnds, Return, Shape, Final
  <2>2. Last(c) # "context"
    BY <1>3 DEF Answers, Errors, Nil, BadRequest, Unauthorized, RateLimit, OtherClient,
                ServerError, NoAnswer
  <2>3. QED
    BY <2>1, <2>2
<1>6. Limited(c)'
  BY <1>1, <1>2, <1>4 DEF Limited
<1>7. FinalsLast(c)'
  BY <1>1, <1>2 DEF FinalsLast
<1>8. Reported(c)'
  BY <1>2, <1>3, <1>5 DEF Reported
<1>9. Accounted(c)'
  <2>1. Running(c) = 0 /\ Running(c)' = 0
    BY <1>2, <1>4 DEF Running
  <2>2. QED
    BY <1>1, <1>2, <1>4, <2>1 DEF Accounted
<1>10. QED
  BY <1>2, <1>4, <1>6, <1>7, <1>8, <1>9, OneCall DEF CallInv

LEMMA BackoffOverKeeps ==
  ASSUME RInv, NEW c \in Calls, BackoffOver(c)
  PROVE  RInv' /\ OthersUnchanged(c)
<1>1. Limited(c) /\ FinalsLast(c) /\ Accounted(c)
  BY DEF RInv, CallInv
<1>2. Shape' /\ OthersUnchanged(c) /\ at'[c] = "ready"
  BY LoopShape DEF BackoffOver, Results
<1>3. /\ at[c] = "backoff"
      /\ UNCHANGED <<answers, executed, running, cancelled, result>>
      /\ Open(c)' = Open(c)
  BY DEF BackoffOver, Open
<1>4. Limited(c)'
  BY <1>1, <1>2, <1>3 DEF Limited
<1>5. FinalsLast(c)'
  BY <1>1, <1>3 DEF FinalsLast
<1>6. Reported(c)'
  BY <1>2 DEF Reported
<1>7. Accounted(c)'
  <2>1. Running(c) = 0 /\ Running(c)' = 0
    BY <1>2, <1>3 DEF Running
  <2>2. QED
    BY <1>1, <1>2, <1>3, <2>1 DEF Accounted
<1>8. QED
  BY <1>2, <1>3, <1>4, <1>5, <1>6, <1>7, OneCall DEF CallInv

\* An answer: the attempt is over, and what the API did for it is open unless it
\* was refused.
LEMMA AnswerKeeps ==
  ASSUME RInv, NEW c \in Calls, NEW answer \in Answers, Answer(c, answer)
  PROVE  RInv' /\ OthersUnchanged(c)
<1> DEFINE n == Len(answers[c])
<1>1. Shape /\ Limited(c) /\ FinalsLast(c) /\ Accounted(c)
  BY DEF RInv, CallInv
<1>2. /\ at[c] = "calling"
      /\ answers' = [answers EXCEPT ![c] = Append(answers[c], answer)]
      /\ UNCHANGED <<executed, running, cancelled>>
      /\ answer = Nil => c \in running
      /\ answer \in {BadRequest, Unauthorized, RateLimit, OtherClient} => c \notin running
  BY DEF Answer
<1>3. /\ at' = [at EXCEPT ![c] = IF Final(answer) THEN "returned"
                                 ELSE IF n + 1 < MaxAttempts THEN "backoff" ELSE "ready"]
      /\ result' = IF Final(answer) THEN [result EXCEPT ![c] = answer] ELSE result
  BY DEF Answer, Return
<1>4. /\ answers[c] \in Seq(Answers) /\ n \in Nat /\ executed[c] \in Nat
      /\ Cardinality(Open(c)) \in Nat
  BY Counts
<1>5. answers'[c] = Append(answers[c], answer)
  BY <1>1, <1>2 DEF Shape
<1>6. n < MaxAttempts
  BY <1>1, <1>2 DEF Limited
<1>7. /\ Len(answers'[c]) = n + 1
      /\ answers'[c][n + 1] = answer
      /\ \A i \in 1..n : answers'[c][i] = answers[c][i]
      /\ answers'[c] # <<>>
  BY <1>4, <1>5
<1>8. at'[c] = IF Final(answer) THEN "returned"
               ELSE IF n + 1 < MaxAttempts THEN "backoff" ELSE "ready"
  BY <1>1, <1>3 DEF Shape
<1>9. Final(answer) => result'[c] = answer
  BY <1>1, <1>3 DEF Shape
<1>10. Shape'
  <2>1. answers' \in [Calls -> Seq(Answers)]
    BY <1>1, <1>2, <1>4 DEF Shape
  <2>2. at' \in [Calls -> {"ready", "calling", "backoff", "returned"}]
    BY <1>1, <1>3 DEF Shape
  <2>3. result' \in [Calls -> Results]
    BY <1>1, <1>3 DEF Shape, Results
  <2>4. QED
    BY <1>1, <1>2, <2>1, <2>2, <2>3 DEF Shape
<1>11. OthersUnchanged(c)
  <2> SUFFICES ASSUME NEW d \in Calls \ {c}
               PROVE  /\ at'[d] = at[d] /\ answers'[d] = answers[d] /\ executed'[d] = executed[d]
                      /\ result'[d] = result[d]
                      /\ d \in running' <=> d \in running
    BY DEF OthersUnchanged
  <2>1. at'[d] = at[d]
    BY <1>1, <1>3 DEF Shape
  <2>2. result'[d] = result[d]
    BY <1>1, <1>3 DEF Shape
  <2>3. answers'[d] = answers[d]
    BY <1>1, <1>2 DEF Shape
  <2>4. QED
    BY <1>2, <2>1, <2>2, <2>3
<1>12. Limited(c)'
  <2>1. n + 1 <= MaxAttempts
    BY <1>1, <1>4, <1>6, RetrierAssumption
  <2>2. QED
    BY <1>7, <1>8, <2>1 DEF Limited
<1>13. FinalsLast(c)'
  <2>1. \A i \in 1..n : ~Final(answers'[c][i])
    BY <1>1, <1>2, <1>7 DEF FinalsLast
  <2>2. \A i \in 1..(n + 1) : i \in 1..n \/ i = n + 1
    BY <1>4
  <2>3. Final(answer) => at'[c] = "returned"
    BY <1>8
  <2>4. QED
    BY <1>7, <1>9, <2>1, <2>2, <2>3 DEF FinalsLast
<1>14. Reported(c)'
  <2>1. at'[c] = "returned" => Final(answer)
    BY <1>8
  <2>2. answer # "context"
    BY DEF Answers, Errors, Nil, BadRequest, Unauthorized, RateLimit, OtherClient,
           ServerError, NoAnswer
  <2>3. answer = Nil => executed'[c] > 0
    BY <1>1, <1>2 DEF Accounted
  <2>4. Last(c)' = answer
    BY <1>7 DEF Last
  <2>5. QED
    BY <1>7, <1>9, <2>1, <2>2, <2>3, <2>4 DEF Reported
<1>15. Accounted(c)'
  <2>1. at'[c] # "calling" /\ Running(c)' = 0
    BY <1>8 DEF Running
  <2>2. answer \in {ServerError, NoAnswer, Nil} \/ Running(c) = 0
    BY <1>2 DEF Answers, Errors, Running
  <2>3. Cardinality(Open(c)') = Cardinality(Open(c)) + (IF answer \in {ServerError, NoAnswer, Nil} THEN 1 ELSE 0)
    BY <1>1, <1>5, OpenGrows
  <2>4. Running(c) \in {0, 1}
    BY DEF Running
  <2>5. executed[c] <= Cardinality(Open(c)) + Running(c)
    BY <1>1 DEF Accounted
  <2>6. executed[c] <= Cardinality(Open(c)')
    BY <1>4, <2>2, <2>3, <2>4, <2>5
  <2>7. executed'[c] <= Cardinality(Open(c)') + Running(c)'
    BY <1>2, <1>4, <2>1, <2>3, <2>6
  <2>8. QED
    BY <2>1, <2>7 DEF Accounted
<1>16. QED
  BY <1>2, <1>10, <1>11, <1>12, <1>13, <1>14, <1>15, OneCall DEF CallInv

\* Whatever a call does, it keeps the invariant and leaves the others alone.
LEMMA CallStepKeeps ==
  ASSUME RInv, RetrierAssumption, NEW c \in Calls, CallStep(c)
  PROVE  RInv' /\ OthersUnchanged(c) /\ UNCHANGED cancelled
<1>1. UNCHANGED cancelled
  BY DEF CallStep, Attempt, GiveUp, LoopEnds, BackoffOver, Answer
<1>2. QED
  BY <1>1, AttemptKeeps, GiveUpKeeps, LoopEndsKeeps, BackoffOverKeeps, AnswerKeeps
     DEF CallStep, Answers

\* The API carries attempts out, in time or late, but none that it has refused.
LEMMA ApiStepKeeps ==
  ASSUME RInv, NEW c \in Calls, ApiStep(c)
  PROVE  /\ RInv' /\ OthersUnchanged(c)
         /\ UNCHANGED <<at, answers, cancelled, result>>
         /\ answers[c] # <<>> \/ at[c] = "calling"
<1>1. Shape /\ Limited(c) /\ FinalsLast(c) /\ Reported(c) /\ Accounted(c)
  BY DEF RInv, CallInv
<1>2. /\ UNCHANGED <<at, answers, cancelled, result>>
      /\ executed' = [executed EXCEPT ![c] = executed[c] + 1]
      /\ running' = running \/ running' = running \cup {c}
  BY DEF ApiStep, Execute, ExecuteLate
<1>3. /\ answers[c] \in Seq(Answers) /\ Len(answers[c]) \in Nat /\ executed[c] \in Nat
      /\ Cardinality(Open(c)) \in Nat /\ Cardinality(Open(c)) <= Len(answers[c])
  BY Counts
<1>4. executed'[c] = executed[c] + 1 /\ executed' \in [Calls -> Nat]
  BY <1>1, <1>2, <1>3 DEF Shape
<1>5. Shape'
  BY <1>1, <1>2, <1>4 DEF Shape
<1>6. OthersUnchanged(c)
  BY <1>1, <1>2 DEF Shape, OthersUnchanged
<1>7. Open(c)' = Open(c) /\ Last(c)' = Last(c)
  BY <1>2 DEF Open, Last
<1>8. /\ executed'[c] <= Cardinality(Open(c)) + Running(c)'
      /\ Len(answers[c]) > 0 \/ at[c] = "calling"
  <2>1. CASE Execute(c)
    <3>1. Running(c) = 0 /\ Running(c)' = 1 /\ at[c] = "calling"
      BY <2>1 DEF Execute, Running
    <3>2. executed[c] <= Cardinality(Open(c)) + Running(c)
      BY <1>1 DEF Accounted
    <3>3. QED
      BY <1>3, <1>4, <3>1, <3>2
  <2>2. CASE ExecuteLate(c)
    <3>1. Running(c)' = Running(c) /\ executed[c] < Cardinality(Open(c)) + Running(c)
      BY <2>2 DEF ExecuteLate, Running
    <3>2. Running(c) \in {0, 1} /\ (Running(c) = 1 => at[c] = "calling")
      BY DEF Running
    <3>3. QED
      BY <1>3, <1>4, <3>1, <3>2
  <2>3. QED
    BY <2>1, <2>2 DEF ApiStep
<1>9. Accounted(c)'
  BY <1>3, <1>4, <1>7, <1>8 DEF Accounted
<1>10. Limited(c)' /\ FinalsLast(c)'
  BY <1>1, <1>2 DEF Limited, FinalsLast
<1>11. Reported(c)'
  BY <1>1, <1>2, <1>3, <1>4, <1>7 DEF Reported
<1>12. answers[c] # <<>> \/ at[c] = "calling"
  BY <1>3, <1>8
<1>13. QED
  BY <1>2, <1>5, <1>6, <1>9, <1>10, <1>11, <1>12, OneCall DEF CallInv

\* Nothing at all happens to the calls, or contexts end.
LEMMA OnlyContexts ==
  ASSUME RInv, UNCHANGED <<at, answers, executed, running, result>>,
         cancelled \subseteq cancelled', cancelled' \subseteq Calls
  PROVE  RInv'
<1>1. Shape'
  BY DEF RInv, Shape
<1>2. ASSUME NEW c \in Calls PROVE CallInv(c)'
  BY Untouched
<1>3. QED
  BY <1>1, <1>2 DEF RInv

\* Before anything happens no call has begun.
LEMMA InitEach ==
  ASSUME Init, NEW c \in Calls
  PROVE  /\ at[c] = "ready" /\ answers[c] = <<>> /\ executed[c] = 0
         /\ Len(answers[c]) = 0
BY DEF Init

\* Calls that have not begun satisfy the invariant.
LEMMA InitRInv == RetrierAssumption /\ Init => RInv
<1> SUFFICES ASSUME RetrierAssumption, Init PROVE RInv
  OBVIOUS
<1>1. Shape
  <2>1. "" \in Results /\ <<>> \in Seq(Answers)
    BY DEF Results
  <2>2. QED
    BY <2>1 DEF Init, Shape
<1>2. ASSUME NEW c \in Calls PROVE CallInv(c)
  <2>1. at[c] = "ready" /\ answers[c] = <<>> /\ executed[c] = 0 /\ Len(answers[c]) = 0
    BY InitEach
  <2>2. Limited(c)
    BY <2>1 DEF Limited, RetrierAssumption
  <2>3. FinalsLast(c)
    BY <2>1 DEF FinalsLast
  <2>4. Reported(c)
    BY <2>1 DEF Reported
  <2>5. Accounted(c)
    <3>1. Running(c) = 0 /\ Cardinality(Open(c)) \in Nat
      BY <1>1, <2>1, OpenFinite DEF Running
    <3>2. QED
      BY <2>1, <3>1 DEF Accounted
  <2>6. QED
    BY <2>2, <2>3, <2>4, <2>5 DEF CallInv
<1>3. QED
  BY <1>1, <1>2 DEF RInv

-----------------------------------------------------------------------------
(* What the invariant says of the properties. *)

LEMMA RInvTypeOK == RInv /\ RetrierAssumption => TypeOK
<1> SUFFICES ASSUME RInv, RetrierAssumption PROVE TypeOK
  OBVIOUS
<1>1. Shape
  BY DEF RInv
<1>2. ASSUME NEW c \in Calls PROVE executed[c] \in 0..MaxAttempts
  <2>1. Limited(c) /\ Accounted(c)
    BY DEF RInv, CallInv
  <2>2. /\ Cardinality(Open(c)) \in Nat /\ Cardinality(Open(c)) <= Len(answers[c])
        /\ Len(answers[c]) \in Nat /\ executed[c] \in Nat
    BY Counts
  <2>3. Running(c) = 0 \/ (Running(c) = 1 /\ at[c] = "calling")
    BY DEF Running
  <2>4. Len(answers[c]) + Running(c) <= MaxAttempts /\ Running(c) \in {0, 1}
    BY <2>1, <2>2, <2>3 DEF Limited, RetrierAssumption
  <2>5. executed[c] <= Cardinality(Open(c)) + Running(c)
    BY <2>1 DEF Accounted
  <2>6. QED
    BY <2>2, <2>4, <2>5 DEF RetrierAssumption
<1>3. executed \in [Calls -> 0..MaxAttempts]
  BY <1>1, <1>2 DEF Shape
<1>4. \A c \in Calls : Len(answers[c]) <= MaxAttempts
  BY DEF RInv, CallInv, Limited
<1>5. QED
  BY <1>1, <1>3, <1>4 DEF TypeOK, Shape, Answers, Results

LEMMA RInvAsks == RInv => AsksNoMoreThanNeeded
BY DEF RInv, CallInv, FinalsLast, AsksNoMoreThanNeeded, Final, Refused

LEMMA RInvTells == RInv => TellsTheOutcome
BY DEF RInv, CallInv, Reported, TellsTheOutcome
=============================================================================
