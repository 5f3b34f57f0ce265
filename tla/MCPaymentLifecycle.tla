------------------------- MODULE MCPaymentLifecycle -------------------------
(* Instances of PaymentLifecycle for TLC. *)
EXTENDS PaymentLifecycle, TLC

\* Payments and requests are interchangeable.  Only the safety runs use it.
Symmetry == Permutations(Payments) \cup Permutations(Requests)
=============================================================================
