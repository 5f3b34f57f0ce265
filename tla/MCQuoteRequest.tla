--------------------------- MODULE MCQuoteRequest ---------------------------
(* Instances of QuoteRequest for TLC. *)
EXTENDS QuoteRequest

\* Deadlines on both sides of each number that wraps around, and sums whose
\* amounts an int64 holds or does not, by the price, or at no price.
MCRequests ==
  [origin : {FALSE}, usd : {0}, expires : {-4097, -3, 0, 1, 4095, 4096, 8192, 8193}]
  \cup [origin : {TRUE}, usd : {0, 1, Infinity}, expires : {4095}]
=============================================================================
