------------------------------- MODULE MCHub -------------------------------
(* Instances of Hub for TLC. *)
EXTENDS Hub, TLC

\* Connections are interchangeable.  Only the safety runs use it.
Symmetry == Permutations(Conns)
=============================================================================
