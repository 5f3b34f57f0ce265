---------------------------- MODULE QuoteRequest ----------------------------
(***************************************************************************)
(* What POST /v1/payments does before there is a payment: the deadline     *)
(* (internal/api/handlers/payments.go) and the quote (Quote of             *)
(* internal/oneclick/client.go), which reads the token list for a price    *)
(* and then asks for a deposit address, both calls through the retry loop  *)
(* and under the context of the one request.  Requests share nothing.      *)
(*                                                                         *)
(* Integers have the width MaxInt gives them.  A float64 is a whole number *)
(* or Infinity where it is an input, and where it is computed, any number  *)
(* the rounding of its factors may lead to.                                *)
(***************************************************************************)
EXTENDS Retrier, Integers

CONSTANTS
  MaxInt,     \* the largest int64
  Second,     \* time.Second
  Requests,   \* what of the bodies of requests matters, see Request
  Prices,     \* what the token list says of the origin token: its PriceUSD
  Scale,      \* 10^decimals of the origin token
  Precision,  \* the rounded product is off by at most 1/Precision of itself
  Infinity,   \* a sum too large for a float64
  Unlisted    \* ... or that there is no such token

Tokens    == "Tokens"
PostQuote == "PostQuote"

Ints == (-MaxInt - 1)..MaxInt

\* A CreatePaymentRequest: whether it names an origin asset, its AmountUSD, 0 for
\* none and for one that does not parse, Infinity for one out of range, as the
\* error of ParseFloat is ignored, and its ExpiresInSeconds.
Request == [origin : BOOLEAN, usd : Nat \cup {Infinity}, expires : Ints]

ASSUME QuoteAssumption ==
  /\ Calls = {Tokens, PostQuote}
  /\ {MaxInt, Second, Scale} \subseteq Nat \ {0}
  /\ 3600 * Second <= MaxInt
  /\ Requests \subseteq Request
  /\ Prices \subseteq Nat
  /\ Unlisted \notin Prices
  /\ Precision \in Nat /\ Precision >= 201
  /\ Infinity \notin Int

VARIABLES
  asked,   \* the body of the request
  stage,   \* where Quote is: "begin", "tokens", "post", "quoted" or "failed"
  price,   \* what the list said of the origin token, Unlisted until it did
  body     \* the fields of the QuoteRequest that are computed, or NoBody

quoteVars == <<asked, stage, price, body>>

NoBody == [swap |-> "none", amount |-> 0, deadline |-> 0]

QuoteTypeOK ==
  /\ TypeOK
  /\ asked \in Requests
  /\ stage \in {"begin", "tokens", "post", "quoted", "failed"}
  /\ price \in Prices \cup {Unlisted}
  /\ body \in [swap : {"none", "ANY_INPUT", "EXACT_INPUT"}, amount : Ints, deadline : Ints]

QuoteInit ==
  /\ Init
  /\ asked \in Requests
  /\ stage = "begin"
  /\ price = Unlisted
  /\ body = NoBody

-----------------------------------------------------------------------------
(* The numbers. *)

\* int64 arithmetic.
Wrap(n) == ((n + MaxInt + 1) % (2 * MaxInt + 2)) - MaxInt - 1

\* Faulty form of ExpiresIn: only a missing number gets the default.
ExpiresInIfGiven(seconds) ==
  IF seconds = 0 THEN 3600 * Second ELSE Wrap(seconds * Second)

\* How far from now the payment's deadline is.
ExpiresIn(seconds) ==
  LET d == Wrap(seconds * Second) IN IF d <= 0 THEN 3600 * Second ELSE d

\* Faulty form of Due: without the 0.5%.
DueBare(usd) == usd * Scale * 200

\* The deposit in the token's smallest units is Due/Per, the 0.5% included.
Due(usd) == usd * Scale * 201
Per(p) == p * 200

Ceil(n, d) == (n + d - 1) \div d

\* What math.Ceil may give of the float64 that n/d was computed as: the quotient,
\* the constants and the products are rounded, each by at most one part in 2^53,
\* unless one is too small for a normal float64.
Units(n, d) ==
  Ceil(n * (Precision - 1), d * Precision)..Ceil(n * (Precision + 1), d * Precision)

\* int64 of a float64 out of its range is what the processor makes of it.
ToInt64(n) == IF n \in Ints THEN {n} ELSE {-MaxInt - 1, MaxInt}

-----------------------------------------------------------------------------
(* Quote. *)

NeedsPrice == asked.origin /\ asked.usd # 0

UnitsOf(usd, p) == IF usd = Infinity THEN {Infinity} ELSE Units(Due(usd), Per(p))

\* The QuoteRequest, given what the list says of the origin token: without a
\* price the operator's choice of it is dropped.
Compute(p) ==
  LET deadline == ExpiresIn(asked.expires)
  IN  IF p \in Prices \ {0}
      THEN \E units \in UnitsOf(asked.usd, p) : \E amount \in ToInt64(units) :
             body' = [swap |-> "EXACT_INPUT", amount |-> amount, deadline |-> deadline]
      ELSE body' = [swap |-> "ANY_INPUT", amount |-> 0, deadline |-> deadline]

Begin ==
  /\ stage = "begin"
  /\ IF NeedsPrice
     THEN stage' = "tokens" /\ UNCHANGED body
     ELSE stage' = "post" /\ Compute(Unlisted)
  /\ UNCHANGED <<vars, asked, price>>

\* Faulty form of TokensBack: an error is taken for a list without the token.
TokensBackAnyhow ==
  /\ stage = "tokens"
  /\ at[Tokens] = "returned"
  /\ price' \in Prices \cup {Unlisted}
  /\ Compute(price')
  /\ stage' = "post"
  /\ UNCHANGED <<vars, asked>>

\* Tokens has returned; the list may be empty, its answer blank.
TokensBack ==
  /\ stage = "tokens"
  /\ at[Tokens] = "returned"
  /\ IF result[Tokens] = Nil
     THEN /\ price' \in Prices \cup {Unlisted}
          /\ Compute(price')
          /\ stage' = "post"
     ELSE stage' = "failed" /\ UNCHANGED <<price, body>>
  /\ UNCHANGED <<vars, asked>>

\* PostQuote has returned: Create goes on to store the payment, or answers 502.
PostBack ==
  /\ stage = "post"
  /\ at[PostQuote] = "returned"
  /\ stage' = IF result[PostQuote] = Nil THEN "quoted" ELSE "failed"
  /\ UNCHANGED <<vars, asked, price, body>>

\* The steps of the call that is being made.
Current == IF stage = "tokens" THEN {Tokens} ELSE IF stage = "post" THEN {PostQuote} ELSE {}

CallMoves == \E c \in Current : CallStep(c) /\ UNCHANGED quoteVars

ApiMoves == \E c \in Calls : ApiStep(c) /\ UNCHANGED quoteVars

\* Both calls have the context of the request.
RequestEnds ==
  /\ cancelled = {}
  /\ cancelled' = Calls
  /\ UNCHANGED <<at, answers, executed, running, result, quoteVars>>

QuoteStep == Begin \/ TokensBack \/ PostBack \/ CallMoves

QuoteNext == QuoteStep \/ ApiMoves \/ RequestEnds

\* The handler's goroutine goes on: the HTTP client has a timeout, back-offs end.
QuoteSpec ==
  /\ QuoteInit /\ [][QuoteNext]_<<vars, quoteVars>>
  /\ WF_<<vars, quoteVars>>(QuoteStep)

-----------------------------------------------------------------------------
(* What the handler promises. *)

\* Whatever number the operator sends, negative ones and ones that overflow
\* included, the payment's deadline is ahead, and it is the one asked for
\* whenever that can be said in nanoseconds.
DeadlineAhead ==
  body # NoBody =>
    /\ body.deadline > 0
    /\ asked.expires \in 1..(MaxInt \div Second) => body.deadline = asked.expires * Second

\* A quote that takes a price is asked for only once the token list has been read,
\* whether or not it has the token: a list that could not be read leaves no deposit
\* address behind.
NoQuoteWithoutList ==
  executed[PostQuote] > 0 /\ NeedsPrice => result[Tokens] = Nil

\* Every deposit address the API has made for a request that got none, and every
\* further one for a request that got one, belongs to an attempt whose answer was
\* lost or is still awaited: nothing else makes a request ask twice.
OrphansWereUnanswered ==
  LET lost    == {i \in 1..Len(answers[PostQuote]) : answers[PostQuote][i] \in {ServerError, NoAnswer}}
      used    == IF result[PostQuote] = Nil THEN 1 ELSE 0
      waiting == IF at[PostQuote] = "calling" THEN 1 ELSE 0
  IN  executed[PostQuote] <= Cardinality(lost) + used + waiting

\* The rounding never eats up the 0.5%: the customer is asked to deposit what is
\* worth the sum at the listed price, and no whole unit more than 1% above that, as
\* long as the units can be counted in an int64.
WorthTheSum ==
  body.swap = "EXACT_INPUT" /\ asked.usd # Infinity =>
    LET sum == asked.usd * Scale
    IN  sum * 101 <= MaxInt * price * 100 =>
          /\ body.amount * price >= sum
          /\ (body.amount - 1) * price * 100 < sum * 101

\* Quote returns, whether the API answers or not.
QuoteReturns == <>(stage \in {"quoted", "failed"})

-----------------------------------------------------------------------------
(* What the repository's comments say and the code does not keep. *)

\* client.go: "amount = ceil((usd / price) * 1.005 * 10^decimals) as integer
\* string", give or take the rounding.
AmountIsCeil ==
  body.swap = "EXACT_INPUT" /\ asked.usd # Infinity =>
    body.amount \in Units(Due(asked.usd), Per(price))
=============================================================================
