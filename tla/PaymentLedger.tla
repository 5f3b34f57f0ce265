--------------------------- MODULE PaymentLedger ----------------------------
(***************************************************************************)
(* What meowpayments promises about a payment, without saying how: which   *)
(* statuses may be recorded of it, by whom, and what its subscribers may   *)
(* be told, given where its swap really is.  A writer takes an active      *)
(* payment up and may record something of it at any later time, or never;  *)
(* nothing keeps two writers apart.                                        *)
(***************************************************************************)
EXTENDS PaymentStatus

CONSTANT Payments

VARIABLES
  status,   \* status[p]: what the table says of p
  held,     \* payments some writer has taken up
  told,     \* told[p]: what subscribers and callbacks were last told
  swap,     \* swap[p]: what the 1-click API knows of p
  overdue   \* payments whose expires_at has passed

ledgerVars == <<status, held, told, swap, overdue>>

Absent  == "ABSENT"
Nothing == ""
Unpaid  == {"PENDING", "AWAITING_DEPOSIT"}

Active == {p \in Payments : status[p] # Absent /\ ~IsTerminal(status[p])}

\* A swap is reported as completed or refunded only if it is: those are ends
\* the 1-click API does not take back.  FAILED is also what a cancel and a
\* payment given up are called, AWAITING_DEPOSIT what a blank answer is taken
\* for, and the rest may be old news when it is recorded.
Reportable(p, s) ==
  /\ s # "EXPIRED"
  /\ s = "COMPLETED" => swap[p] = "SUCCESS"
  /\ s = "REFUNDED" => swap[p] = "REFUNDED"

Init ==
  /\ status = [p \in Payments |-> Absent]
  /\ held = {}
  /\ told = [p \in Payments |-> Nothing]
  /\ swap = [p \in Payments |-> "UNQUOTED"]
  /\ overdue = {}

-----------------------------------------------------------------------------

Create(p) ==
  /\ status[p] = Absent
  /\ status' = [status EXCEPT ![p] = "AWAITING_DEPOSIT"]
  /\ UNCHANGED <<held, told, swap, overdue>>

TakeUp(S) ==
  /\ S \subseteq Active
  /\ held' = held \cup S
  /\ UNCHANGED <<status, told, swap, overdue>>

\* A writer records what it has learned, and may have been the last to hold p.
Record(p, s) ==
  /\ p \in held
  /\ Reportable(p, s)
  /\ status' = [status EXCEPT ![p] = s]
  /\ held' \in {held, held \ {p}}
  /\ UNCHANGED <<told, swap, overdue>>

\* Writers let go without a word: their call failed, or they are gone.
Release(S) ==
  /\ held' = held \ S
  /\ UNCHANGED <<status, told, swap, overdue>>

Tell(p, s) ==
  /\ Reportable(p, s)
  /\ told' = [told EXCEPT ![p] = s]
  /\ UNCHANGED <<status, held, swap, overdue>>

\* Overdue payments expire unless more than the wait for a deposit is on
\* record, whatever has reached the deposit address meanwhile.
Expire(S) ==
  /\ S \subseteq {p \in overdue : status[p] \in Unpaid}
  /\ status' = [p \in Payments |-> IF p \in S THEN "EXPIRED" ELSE status[p]]
  /\ UNCHANGED <<held, told, swap, overdue>>

\* Swaps move on, but not from their end, and so does the clock.
World ==
  /\ \A p \in Payments : swap[p] \in FinalRawStatuses => swap'[p] = swap[p]
  /\ overdue \subseteq overdue'
  /\ UNCHANGED <<status, held, told>>

Next ==
  \/ \E S \in SUBSET Payments : TakeUp(S) \/ Release(S) \/ Expire(S)
  \/ \E p \in Payments : Create(p)
  \/ \E p \in Payments, s \in PaymentStatuses : Record(p, s) \/ Tell(p, s)
  \/ World

Spec == Init /\ [][Next]_ledgerVars

-----------------------------------------------------------------------------

\* What the table or a notice says of a completed or a refunded payment is
\* true, whatever is in a writer's hands.
OutcomesAreReal ==
  \A p \in Payments : \A s \in {status[p], told[p]} :
    /\ s = "COMPLETED" => swap[p] = "SUCCESS"
    /\ s = "REFUNDED" => swap[p] = "REFUNDED"
=============================================================================
