-------------------------- MODULE CallbackDelivery --------------------------
(***************************************************************************)
(* What meowpayments promises a shop about its callbacks, without queue,   *)
(* workers, retries or time: a status change is dropped at once or becomes *)
(* pending; a pending one ends delivered, which the shop itself has        *)
(* confirmed, or abandoned; and the shop is told of it MaxRetries times at *)
(* most, possibly after it ended, never if it was dropped.  Only a service *)
(* that is not stopped has to end what is pending.                         *)
(***************************************************************************)
EXTENDS Naturals

CONSTANTS
  MaxRetries,   \* WORKER_CALLBACK_MAX_RETRIES
  MaxChanges    \* bound: status changes of payments that have a callback URL

Changes == 1..MaxChanges

VARIABLES
  fate,      \* fate[n]: what became of the callback for the n-th change
  receipts,  \* receipts[n]: how often the shop was told of it
  accepted,  \* changes the shop answered with success
  stopped    \* the service is shutting down

vars == <<fate, receipts, accepted, stopped>>

Init ==
  /\ fate = [n \in Changes |-> "none"]
  /\ receipts = [n \in Changes |-> 0]
  /\ accepted = {}
  /\ stopped = FALSE

Announce(n) ==
  /\ fate[n] = "none"
  /\ \E f \in {"pending", "dropped"} : fate' = [fate EXCEPT ![n] = f]
  /\ UNCHANGED <<receipts, accepted, stopped>>

Receive(n) ==
  /\ fate[n] \notin {"none", "dropped"}
  /\ receipts[n] < MaxRetries
  /\ receipts' = [receipts EXCEPT ![n] = @ + 1]
  /\ accepted' \in {accepted, accepted \cup {n}}
  /\ UNCHANGED <<fate, stopped>>

Finish(n) ==
  /\ fate[n] = "pending"
  /\ \/ n \in accepted /\ fate' = [fate EXCEPT ![n] = "delivered"]
     \/ fate' = [fate EXCEPT ![n] = "abandoned"]
  /\ UNCHANGED <<receipts, accepted, stopped>>

Stop == ~stopped /\ stopped' = TRUE /\ UNCHANGED <<fate, receipts, accepted>>

Next == (\E n \in Changes : Announce(n) \/ Receive(n) \/ Finish(n)) \/ Stop

Spec == Init /\ [][Next]_vars
FairSpec == Spec /\ \A n \in Changes : WF_vars(~stopped /\ Finish(n))
=============================================================================
