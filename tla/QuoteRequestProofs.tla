------------------------- MODULE QuoteRequestProofs --------------------------
(***************************************************************************)
(* Theorems about QuoteRequest, for any width of the integers, any request *)
(* and any token list: the two calls from the invariant of RetrierProofs,  *)
(* the numbers from a few facts of arithmetic.                             *)
(***************************************************************************)
EXTENDS QuoteRequest, RetrierProofs

-----------------------------------------------------------------------------
(* Arithmetic. *)

LEMMA Remainder ==
  ASSUME NEW n \in Int, NEW m \in Nat \ {0}
  PROVE  n % m \in 0..(m - 1)
OBVIOUS

\* Wrapping gives an int64 ...
LEMMA WrapGivesInts ==
  ASSUME MaxInt \in Nat, NEW n \in Int
  PROVE  Wrap(n) \in Ints
<1> DEFINE m == 2 * MaxInt + 2
<1>1. m \in Nat \ {0}
  OBVIOUS
<1>2. (n + MaxInt + 1) % m \in 0..(m - 1)
  <2> HIDE DEF m
  <2> QED
    BY <1>1, Remainder
<1> QED
  BY <1>2 DEF Wrap, Ints

\* ... and leaves one as it is.
LEMMA WrapKeepsInts ==
  ASSUME MaxInt \in Nat, NEW n \in Ints
  PROVE  Wrap(n) = n
<1> DEFINE m == 2 * MaxInt + 2
           k == n + MaxInt + 1
<1>1. m \in Nat \ {0} /\ k \in 0..(m - 1)
  BY DEF Ints
<1>2. k % m = k
  <2> HIDE DEF m, k
  <2> QED
    BY <1>1
<1> QED
  BY <1>1, <1>2 DEF Wrap, Ints

\* What is rounded up is enough, and one less is not.
LEMMA CeilRoundsUp ==
  ASSUME NEW n \in Nat, NEW d \in Nat \ {0}
  PROVE  /\ Ceil(n, d) \in Nat
         /\ Ceil(n, d) * d >= n
         /\ (Ceil(n, d) - 1) * d < n
<1> DEFINE k == n + d - 1
           q == k \div d
<1>1. k \in Nat
  OBVIOUS
<1>2. q \in Nat /\ q * d <= k /\ k < (q + 1) * d
  <2> HIDE DEF k
  <2> QED
    BY <1>1
<1>3. k < q * d + d /\ (q - 1) * d = q * d - d
  <2> HIDE DEF q, k
  <2> QED
    BY <1>1, <1>2
<1> QED
  BY <1>2, <1>3 DEF Ceil

\* A positive factor on both sides of an inequality can be left out.
LEMMA Cancel ==
  ASSUME NEW a \in Int, NEW b \in Int, NEW k \in Nat \ {0}
  PROVE  /\ a * k < b * k => a < b
         /\ a * k >= b * k => a >= b
<1>1. ASSUME a * k < b * k, a >= b PROVE FALSE
  <2>1. a * k >= b * k
    BY <1>1
  <2>2. a * k \in Int /\ b * k \in Int
    OBVIOUS
  <2> QED
    BY <1>1, <2>1, <2>2
<1>2. ASSUME a * k >= b * k, a < b PROVE FALSE
  <2>1. a + 1 <= b
    BY <1>2
  <2>2. (a + 1) * k <= b * k
    BY <2>1
  <2>3. (a + 1) * k = a * k + k
    OBVIOUS
  <2>4. a * k \in Int /\ b * k \in Int
    OBVIOUS
  <2> QED
    BY <1>2, <2>2, <2>3, <2>4
<1> QED
  BY <1>1, <1>2

\* One part in 201 more or less.
LEMMA Within201st ==
  ASSUME NEW x \in Int, NEW n \in Nat, NEW P \in Nat, P >= 201
  PROVE  /\ x * P >= n * (P - 1) => x * 201 >= n * 200
         /\ x * P < n * (P + 1) => x * 201 < n * 202
<1> DEFINE y == x * P
           m == n * P
<1>1. y \in Int /\ m \in Int /\ P \in Nat \ {0}
  OBVIOUS
<1>2. n * (P - 1) = m - n /\ n * (P + 1) = m + n
  OBVIOUS
<1>3. n * 201 <= m
  OBVIOUS
<1>4. (x * 201) * P = y * 201 /\ (n * 200) * P = m * 200 /\ (n * 202) * P = m * 202
  OBVIOUS
<1>5. x * 201 \in Int /\ n * 200 \in Int /\ n * 202 \in Int
  OBVIOUS
<1>6. ASSUME x * P >= n * (P - 1) PROVE x * 201 >= n * 200
  <2>1. y >= m - n
    BY <1>2, <1>6
  <2> HIDE DEF y, m
  <2>2. y * 201 >= m * 200
    BY <1>1, <1>3, <2>1
  <2>3. (x * 201) * P >= (n * 200) * P
    BY <1>4, <2>2
  <2> QED
    BY <1>1, <1>5, <2>3, Cancel
<1>7. ASSUME x * P < n * (P + 1) PROVE x * 201 < n * 202
  <2>1. y < m + n
    BY <1>2, <1>7
  <2> HIDE DEF y, m
  <2>2. y * 201 < m * 202
    BY <1>1, <1>3, <2>1
  <2>3. (x * 201) * P < (n * 202) * P
    BY <1>4, <2>2
  <2> QED
    BY <1>1, <1>5, <2>3, Cancel
<1> QED
  BY <1>6, <1>7

\* What lies between two quotients rounded up.
LEMMA BetweenCeils ==
  ASSUME NEW a \in Nat, NEW b \in Nat, NEW k \in Nat \ {0}, NEW u \in Ceil(a, k)..Ceil(b, k)
  PROVE  u \in Nat /\ u * k >= a /\ (u - 1) * k < b
<1> DEFINE lo == Ceil(a, k)
           hi == Ceil(b, k)
<1>1. lo \in Nat /\ lo * k >= a
  BY CeilRoundsUp
<1>2. hi \in Nat /\ (hi - 1) * k < b
  BY CeilRoundsUp
<1> HIDE DEF lo, hi
<1>3. u \in Nat /\ lo <= u /\ u - 1 <= hi - 1
  BY <1>1, <1>2 DEF lo, hi
<1>4. u * k >= lo * k /\ (u - 1) * k <= (hi - 1) * k
  BY <1>1, <1>2, <1>3
<1>5. {u * k, lo * k, (u - 1) * k, (hi - 1) * k} \subseteq Int
  BY <1>1, <1>2, <1>3
<1> QED
  BY <1>1, <1>2, <1>3, <1>4, <1>5

\* Rounding moves what is rounded up by less than a 201st, and by a unit.
LEMMA UnitsNearQuotient ==
  ASSUME QuoteAssumption, NEW n \in Nat, NEW d \in Nat \ {0}, NEW u \in Units(n, d)
  PROVE  /\ u \in Nat
         /\ (u * d) * 201 >= n * 200
         /\ ((u - 1) * d) * 201 < n * 202
<1> DEFINE P == Precision
<1>1. P \in Nat /\ P >= 201
  BY DEF QuoteAssumption
<1>2. u \in Ceil(n * (P - 1), d * P)..Ceil(n * (P + 1), d * P)
  BY DEF Units
<1> HIDE DEF P
<1>3. n * (P - 1) \in Nat /\ n * (P + 1) \in Nat /\ d * P \in Nat \ {0}
  BY <1>1
<1>4. u \in Nat /\ u * (d * P) >= n * (P - 1) /\ (u - 1) * (d * P) < n * (P + 1)
  BY <1>2, <1>3, BetweenCeils
<1>5. u * d \in Int /\ (u - 1) * d \in Int
  BY <1>4
<1>6. (u * d) * P = u * (d * P) /\ ((u - 1) * d) * P = (u - 1) * (d * P)
  BY <1>1, <1>4
<1> QED
  BY <1>1, <1>4, <1>5, <1>6, Within201st

\* The number of seconds asked for, if nanoseconds can say it, or some other time ahead.
LEMMA DeadlineOf ==
  ASSUME QuoteAssumption, NEW seconds \in Ints
  PROVE  /\ ExpiresIn(seconds) \in Ints
         /\ ExpiresIn(seconds) > 0
         /\ seconds \in 1..(MaxInt \div Second) => ExpiresIn(seconds) = seconds * Second
<1>1. MaxInt \in Nat \ {0} /\ Second \in Nat \ {0} /\ 3600 * Second <= MaxInt
  BY DEF QuoteAssumption
<1>2. seconds \in Int /\ seconds * Second \in Int
  BY <1>1 DEF Ints
<1>3. Wrap(seconds * Second) \in Ints
  BY <1>1, <1>2, WrapGivesInts
<1>4. ExpiresIn(seconds) \in Ints /\ ExpiresIn(seconds) > 0
  BY <1>1, <1>3 DEF ExpiresIn, Ints
<1>5. ASSUME seconds \in 1..(MaxInt \div Second) PROVE ExpiresIn(seconds) = seconds * Second
  <2>1. (MaxInt \div Second) * Second <= MaxInt /\ MaxInt \div Second \in Nat
    BY <1>1
  <2>2. seconds * Second <= (MaxInt \div Second) * Second
    BY <1>1, <1>5, <2>1
  <2>3. seconds * Second > 0
    BY <1>1, <1>5, <2>1
  <2>4. seconds * Second \in Ints
    BY <1>1, <1>2, <2>1, <2>2, <2>3 DEF Ints
  <2>5. Wrap(seconds * Second) = seconds * Second
    BY <1>1, <2>4, WrapKeepsInts
  <2>6. QED
    BY <1>2, <2>3, <2>5 DEF ExpiresIn
<1>6. QED
  BY <1>4, <1>5

-----------------------------------------------------------------------------
(* The invariant. *)

QShape ==
  /\ asked \in Requests
  /\ stage \in {"begin", "tokens", "post", "quoted", "failed"}
  /\ price \in Prices \cup {Unlisted}

\* A body has the deadline that was asked for, and an amount only for a price.
Made ==
  /\ body \in [swap : {"ANY_INPUT", "EXACT_INPUT"}, amount : Ints, deadline : Ints]
  /\ body.deadline = ExpiresIn(asked.expires)
  /\ body.swap = "EXACT_INPUT" =>
       /\ price \in Prices \ {0}
       /\ \E units \in UnitsOf(asked.usd, price) : body.amount \in ToInt64(units)

BodyMade ==
  /\ stage \in {"begin", "tokens"} => body = NoBody
  /\ body = NoBody \/ Made

\* The list was read before the quote was asked for, if it takes a price ...
ListFirst == stage \in {"post", "quoted"} /\ NeedsPrice => result[Tokens] = Nil

\* ... and until then, or if it could not be read, nothing was.
QuoteUntouched ==
  stage \in {"begin", "tokens"} \/ (stage = "failed" /\ NeedsPrice /\ result[Tokens] # Nil) =>
    at[PostQuote] = "ready" /\ answers[PostQuote] = <<>> /\ executed[PostQuote] = 0

QInv == RInv /\ QShape /\ BodyMade /\ ListFirst /\ QuoteUntouched

-----------------------------------------------------------------------------

LEMMA TwoCalls ==
  ASSUME QuoteAssumption
  PROVE  Tokens \in Calls /\ PostQuote \in Calls /\ Tokens # PostQuote
<1>1. Tokens \in Calls /\ PostQuote \in Calls
  BY DEF QuoteAssumption
<1>2. Tokens # PostQuote
  BY DEF Tokens, PostQuote
<1>3. QED
  BY <1>1, <1>2

LEMMA InitQInv == QuoteAssumption /\ RetrierAssumption /\ QuoteInit => QInv
<1> SUFFICES ASSUME QuoteAssumption, RetrierAssumption, QuoteInit PROVE QInv
  OBVIOUS
<1>1. RInv
  BY InitRInv DEF QuoteInit
<1>2. QShape /\ BodyMade /\ ListFirst
  BY DEF QuoteInit, QShape, BodyMade, ListFirst
<1>3. QuoteUntouched
  BY TwoCalls, InitEach DEF QuoteInit, QuoteUntouched
<1>4. QED
  BY <1>1, <1>2, <1>3 DEF QInv

\* What Compute makes is as Made says.
LEMMA ComputeMakes ==
  ASSUME QuoteAssumption, asked \in Requests, asked' = asked,
         NEW p \in Prices \cup {Unlisted}, Compute(p), price' = p \/ p = Unlisted
  PROVE  Made'
<1>1. asked.expires \in Ints
  BY DEF QuoteAssumption, Request
<1>2. ExpiresIn(asked.expires) \in Ints
  BY <1>1, DeadlineOf
<1>3. MaxInt \in Nat \ {0} /\ Scale \in Nat \ {0} /\ Prices \subseteq Nat /\ Unlisted \notin Prices
  BY DEF QuoteAssumption
<1>4. CASE p \in Prices \ {0}
  <2>1. PICK units \in UnitsOf(asked.usd, p) : \E amount \in ToInt64(units) :
          body' = [swap |-> "EXACT_INPUT", amount |-> amount,
                   deadline |-> ExpiresIn(asked.expires)]
    BY <1>4 DEF Compute
  <2> PICK amount \in ToInt64(units) :
          body' = [swap |-> "EXACT_INPUT", amount |-> amount,
                   deadline |-> ExpiresIn(asked.expires)]
    BY <2>1
  <2>2. amount \in Ints
    <3>1. 0 - MaxInt - 1 \in Ints /\ MaxInt \in Ints
      BY <1>3 DEF Ints
    <3>2. QED
      BY <1>3, <3>1 DEF ToInt64, Ints
  <2>3. price' = p
    BY <1>3, <1>4
  <2>4. QED
    BY <1>2, <1>4, <2>1, <2>2, <2>3 DEF Made
<1>5. CASE p \notin Prices \ {0}
  <2>1. body' = [swap |-> "ANY_INPUT", amount |-> 0, deadline |-> ExpiresIn(asked.expires)]
    BY <1>5 DEF Compute
  <2>2. 0 \in Ints
    BY <1>3 DEF Ints
  <2>3. QED
    BY <1>2, <2>1, <2>2 DEF Made
<1>6. QED
  BY <1>4, <1>5

\* Whoever moves, as long as the request and its stage stay, so do all but the calls.
LEMMA OnlyCalls ==
  ASSUME QInv, RInv', UNCHANGED quoteVars,
         result'[Tokens] = result[Tokens] \/ stage \notin {"post", "quoted", "failed"}
                                          \/ ~NeedsPrice,
         QuoteUntouched'
  PROVE  QInv'
<1>1. UNCHANGED <<asked, stage, price, body>>
  BY DEF quoteVars
<1>2. QShape' /\ BodyMade'
  BY <1>1 DEF QInv, QShape, BodyMade, Made
<1>3. ListFirst'
  BY <1>1 DEF QInv, ListFirst, NeedsPrice
<1>4. QED
  BY <1>2, <1>3 DEF QInv

LEMMA BeginKeeps ==
  ASSUME QuoteAssumption, RetrierAssumption, QInv, Begin
  PROVE  QInv'
<1>1. /\ stage = "begin" /\ RInv /\ QShape /\ BodyMade /\ QuoteUntouched
      /\ UNCHANGED <<at, answers, executed, running, cancelled, result, asked, price>>
  BY DEF QInv, Begin, vars
<1>2. RInv'
  BY <1>1, OnlyContexts DEF RInv, Shape
<1>3. CASE NeedsPrice
  <2>1. stage' = "tokens" /\ body' = body
    BY <1>3 DEF Begin
  <2>2. QED
    BY <1>1, <1>2, <2>1 DEF QInv, QShape, BodyMade, ListFirst, QuoteUntouched
<1>4. CASE ~NeedsPrice
  <2>1. stage' = "post" /\ Compute(Unlisted)
    BY <1>4 DEF Begin
  <2>2. Made'
    <3> DEFINE p == Unlisted
    <3>1. p \in Prices \cup {Unlisted} /\ Compute(p) /\ p = Unlisted
      BY <2>1
    <3> HIDE DEF p
    <3>2. QED
      BY <1>1, <3>1, ComputeMakes DEF QShape
  <2>3. ~NeedsPrice'
    BY <1>1, <1>4 DEF NeedsPrice
  <2>4. QED
    BY <1>1, <1>2, <2>1, <2>2, <2>3 DEF QInv, QShape, BodyMade, ListFirst, QuoteUntouched
<1>5. QED
  BY <1>3, <1>4

LEMMA TokensBackKeeps ==
  ASSUME QuoteAssumption, RetrierAssumption, QInv, TokensBack
  PROVE  QInv'
<1>1. /\ stage = "tokens" /\ RInv /\ QShape /\ BodyMade /\ QuoteUntouched
      /\ UNCHANGED <<at, answers, executed, running, cancelled, result, asked>>
  BY DEF QInv, TokensBack, vars
<1>2. RInv'
  BY <1>1, OnlyContexts DEF RInv, Shape
<1>3. CASE result[Tokens] = Nil
  <2>1. price' \in Prices \cup {Unlisted} /\ Compute(price') /\ stage' = "post"
    BY <1>3 DEF TokensBack
  <2>2. Made'
    <3> DEFINE p == price'
    <3>1. p \in Prices \cup {Unlisted} /\ Compute(p) /\ price' = p
      BY <2>1
    <3> HIDE DEF p
    <3>2. QED
      BY <1>1, <3>1, ComputeMakes DEF QShape
  <2>3. QED
    BY <1>1, <1>2, <1>3, <2>1, <2>2 DEF QInv, QShape, BodyMade, ListFirst, QuoteUntouched
<1>4. CASE result[Tokens] # Nil
  <2>1. stage' = "failed" /\ price' = price /\ body' = body
    BY <1>4 DEF TokensBack
  <2>2. QED
    BY <1>1, <1>2, <2>1 DEF QInv, QShape, BodyMade, ListFirst, QuoteUntouched
<1>5. QED
  BY <1>3, <1>4

LEMMA PostBackKeeps ==
  ASSUME QuoteAssumption, RetrierAssumption, QInv, PostBack
  PROVE  QInv'
<1>1. /\ stage = "post" /\ RInv /\ QShape /\ BodyMade /\ ListFirst
      /\ stage' \in {"quoted", "failed"}
      /\ UNCHANGED <<at, answers, executed, running, cancelled, result, asked, price, body>>
  BY DEF QInv, PostBack, vars
<1>2. RInv'
  BY <1>1, OnlyContexts DEF RInv, Shape
<1>3. NeedsPrice' = NeedsPrice
  BY <1>1 DEF NeedsPrice
<1>4. QShape' /\ BodyMade'
  BY <1>1 DEF QShape, BodyMade, Made
<1>5. ListFirst' /\ QuoteUntouched'
  BY <1>1, <1>3 DEF ListFirst, QuoteUntouched
<1>6. QED
  BY <1>2, <1>4, <1>5 DEF QInv

LEMMA CallMovesKeeps ==
  ASSUME QuoteAssumption, RetrierAssumption, QInv, CallMoves
  PROVE  QInv'
<1>1. PICK c \in Current : CallStep(c) /\ UNCHANGED quoteVars
  BY DEF CallMoves
<1>2. c \in Calls
  BY TwoCalls DEF Current
<1>3. RInv' /\ OthersUnchanged(c)
  BY <1>1, <1>2, CallStepKeeps DEF QInv
<1>4. UNCHANGED <<asked, stage, price, body>>
  BY <1>1 DEF quoteVars
<1>5. CASE stage = "tokens"
  <2>1. c = Tokens
    BY <1>5 DEF Current
  <2>2. QuoteUntouched'
    BY <1>3, <1>4, <1>5, <2>1, TwoCalls DEF QInv, QuoteUntouched, OthersUnchanged
  <2>3. QED
    BY <1>1, <1>3, <1>5, <2>2, OnlyCalls
<1>6. CASE stage = "post"
  <2>1. c = PostQuote
    BY <1>6 DEF Current
  <2>2. result'[Tokens] = result[Tokens]
    BY <1>3, <2>1, TwoCalls DEF OthersUnchanged
  <2>3. QuoteUntouched'
    BY <1>4, <1>6 DEF QuoteUntouched
  <2>4. QED
    BY <1>1, <1>3, <2>2, <2>3, OnlyCalls
<1>7. QED
  BY <1>1, <1>5, <1>6 DEF Current

LEMMA ApiMovesKeeps ==
  ASSUME QuoteAssumption, RetrierAssumption, QInv, ApiMoves
  PROVE  QInv'
<1>1. PICK c \in Calls : ApiStep(c) /\ UNCHANGED quoteVars
  BY DEF ApiMoves
<1>2. /\ RInv' /\ OthersUnchanged(c)
      /\ UNCHANGED <<at, answers, cancelled, result>>
      /\ answers[c] # <<>> \/ at[c] = "calling"
  BY <1>1, ApiStepKeeps DEF QInv
<1>3. UNCHANGED <<asked, stage, price, body>>
  BY <1>1 DEF quoteVars
<1>4. NeedsPrice' = NeedsPrice
  BY <1>3 DEF NeedsPrice
<1>5. QuoteUntouched'
  <2>1. c = PostQuote \/ executed'[PostQuote] = executed[PostQuote]
    BY <1>2, TwoCalls DEF OthersUnchanged
  <2>2. QED
    BY <1>2, <1>3, <1>4, <2>1 DEF QInv, QuoteUntouched
<1>6. QED
  BY <1>1, <1>2, <1>5, OnlyCalls

LEMMA RequestEndsKeeps ==
  ASSUME QuoteAssumption, QInv, RequestEnds
  PROVE  QInv'
<1>1. /\ cancelled = {} /\ cancelled' = Calls
      /\ UNCHANGED <<at, answers, executed, running, result>>
      /\ UNCHANGED <<asked, stage, price, body>>
  BY DEF RequestEnds, quoteVars
<1>2. RInv'
  BY <1>1, OnlyContexts DEF QInv
<1>3. NeedsPrice' = NeedsPrice
  BY <1>1 DEF NeedsPrice
<1>4. QuoteUntouched'
  BY <1>1, <1>3 DEF QInv, QuoteUntouched
<1>5. QED
  BY <1>1, <1>2, <1>4, OnlyCalls DEF quoteVars

LEMMA NothingKeeps ==
  ASSUME QuoteAssumption, QInv, UNCHANGED <<vars, quoteVars>>
  PROVE  QInv'
<1>1. /\ UNCHANGED <<at, answers, executed, running, cancelled, result>>
      /\ UNCHANGED <<asked, stage, price, body>>
  BY DEF vars, quoteVars
<1>2. RInv'
  BY <1>1, OnlyContexts DEF QInv, RInv, Shape
<1>3. NeedsPrice' = NeedsPrice
  BY <1>1 DEF NeedsPrice
<1>4. QuoteUntouched'
  BY <1>1, <1>3 DEF QInv, QuoteUntouched
<1>5. QED
  BY <1>1, <1>2, <1>4, OnlyCalls DEF quoteVars

\* Every request, along every path, satisfies the invariant.
THEOREM Inductive == QuoteSpec => []QInv
<1>1. QuoteInit => QInv
  BY QuoteAssumption, RetrierAssumption, InitQInv
<1>2. QInv /\ [QuoteNext]_<<vars, quoteVars>> => QInv'
  <2> SUFFICES ASSUME QInv, [QuoteNext]_<<vars, quoteVars>> PROVE QInv'
    OBVIOUS
  <2>1. CASE QuoteStep
    BY <2>1, QuoteAssumption, RetrierAssumption, BeginKeeps, TokensBackKeeps, PostBackKeeps,
       CallMovesKeeps DEF QuoteStep
  <2>2. CASE ApiMoves
    BY <2>2, QuoteAssumption, RetrierAssumption, ApiMovesKeeps
  <2>3. CASE RequestEnds
    BY <2>3, QuoteAssumption, RequestEndsKeeps
  <2>4. CASE UNCHANGED <<vars, quoteVars>>
    BY <2>4, QuoteAssumption, NothingKeeps
  <2>5. QED
    BY <2>1, <2>2, <2>3, <2>4 DEF QuoteNext
<1>3. QED
  BY <1>1, <1>2, PTL DEF QuoteSpec

-----------------------------------------------------------------------------
(* What follows from it. *)

\* The variables of a request and of its two calls keep their types: an attempt is
\* carried out at most MaxAttempts times, and no amount or deadline leaves int64.
THEOREM QuoteTypeAlways == QuoteSpec => []QuoteTypeOK
<1>1. QInv => QuoteTypeOK
  <2> SUFFICES ASSUME QInv PROVE QuoteTypeOK
    OBVIOUS
  <2>1. TypeOK
    BY RetrierAssumption, RInvTypeOK DEF QInv
  <2>2. body \in [swap : {"none", "ANY_INPUT", "EXACT_INPUT"}, amount : Ints, deadline : Ints]
    <3>1. CASE body = NoBody
      <4>1. 0 \in Ints
        BY QuoteAssumption DEF QuoteAssumption, Ints
      <4>2. QED
        BY <3>1, <4>1 DEF NoBody
    <3>2. CASE Made
      BY <3>2 DEF Made
    <3>3. QED
      BY <3>1, <3>2 DEF QInv, BodyMade
  <2>3. QED
    BY <2>1, <2>2 DEF QInv, QShape, QuoteTypeOK
<1>2. QED
  BY <1>1, Inductive, PTL

\* Retries of the two calls stop at the first answer that settles them.
THEOREM SettledCallsStaySettled == QuoteSpec => []AsksNoMoreThanNeeded
<1>1. QInv => AsksNoMoreThanNeeded
  BY RInvAsks DEF QInv
<1>2. QED
  BY <1>1, Inductive, PTL

\* What run returns is the outcome of its last attempt.
THEOREM OutcomeTold == QuoteSpec => []TellsTheOutcome
<1>1. QInv => TellsTheOutcome
  BY RInvTells DEF QInv
<1>2. QED
  BY <1>1, Inductive, PTL

\* Whatever ExpiresInSeconds is, the deadline sent with the quote is ahead.
THEOREM DeadlineAlwaysAhead == QuoteSpec => []DeadlineAhead
<1>1. QInv => DeadlineAhead
  <2> SUFFICES ASSUME QInv, body # NoBody PROVE DeadlineAhead
    BY DEF DeadlineAhead
  <2>1. Made
    BY DEF QInv, BodyMade
  <2>2. asked.expires \in Ints
    BY QuoteAssumption DEF QuoteAssumption, QInv, QShape, Request
  <2>3. /\ ExpiresIn(asked.expires) > 0
        /\ asked.expires \in 1..(MaxInt \div Second) =>
             ExpiresIn(asked.expires) = asked.expires * Second
    BY <2>2, QuoteAssumption, DeadlineOf
  <2>4. QED
    BY <2>1, <2>3 DEF Made, DeadlineAhead
<1>2. QED
  BY <1>1, Inductive, PTL

\* No deposit address is asked for before the list with the price is read.
THEOREM ListBeforeQuote == QuoteSpec => []NoQuoteWithoutList
<1>1. QInv => NoQuoteWithoutList
  BY DEF QInv, QShape, ListFirst, QuoteUntouched, NoQuoteWithoutList
<1>2. QED
  BY <1>1, Inductive, PTL

\* A deposit address too many stems from an attempt whose answer never came.
THEOREM OrphansOnlyUnanswered == QuoteSpec => []OrphansWereUnanswered
<1>1. QInv => OrphansWereUnanswered
  <2> SUFFICES ASSUME QInv PROVE OrphansWereUnanswered
    OBVIOUS
  <2> DEFINE n       == Len(answers[PostQuote])
             lost    == {i \in 1..n : answers[PostQuote][i] \in {ServerError, NoAnswer}}
             used    == IF result[PostQuote] = Nil THEN 1 ELSE 0
             waiting == IF at[PostQuote] = "calling" THEN 1 ELSE 0
             open    == Open(PostQuote)
  <2>1. PostQuote \in Calls
    BY QuoteAssumption, TwoCalls
  <2>2. Accounted(PostQuote) /\ FinalsLast(PostQuote) /\ Shape
    BY <2>1 DEF QInv, RInv, CallInv
  <2>3. /\ n \in Nat /\ executed[PostQuote] \in Nat
        /\ IsFiniteSet(open) /\ Cardinality(open) \in Nat
    BY <2>1, <2>2, Counts, OpenFinite DEF QInv
  <2>4. /\ lost \in SUBSET open
        /\ IsFiniteSet(lost) /\ Cardinality(lost) \in Nat
    <3>1. lost \in SUBSET open
      BY DEF Open
    <3>2. QED
      BY <2>3, <3>1, FS_Subset, FS_CardinalityType
  <2>5. Cardinality(open) <= Cardinality(lost) + used
    <3>1. CASE \E i \in 1..n : answers[PostQuote][i] = Nil
      <4>1. PICK i \in 1..n : answers[PostQuote][i] = Nil
        BY <3>1
      <4>2. \A j \in 1..n : answers[PostQuote][j] = Nil => j = n /\ result[PostQuote] = Nil
        BY <2>2 DEF FinalsLast, Final
      <4>3. used = 1 /\ i = n
        BY <4>1, <4>2
      <4>4. open \subseteq lost \cup {n}
        BY <4>2 DEF Open
      <4>5. n \notin lost /\ n \in open
        BY <4>1, <4>3 DEF Open, Nil, ServerError, NoAnswer
      <4>6. open = lost \cup {n}
        BY <2>4, <4>4, <4>5
      <4>7. Cardinality(open) = Cardinality(lost) + 1
        BY <2>4, <4>5, <4>6, FS_AddElement
      <4>8. QED
        BY <2>3, <2>4, <4>3, <4>7
    <3>2. CASE \A i \in 1..n : answers[PostQuote][i] # Nil
      <4>1. open = lost
        BY <3>2 DEF Open
      <4>2. QED
        BY <2>4, <4>1
    <3>3. QED
      BY <3>1, <3>2
  <2>6. executed[PostQuote] <= Cardinality(open) + Running(PostQuote)
    BY <2>2 DEF Accounted
  <2>7. Running(PostQuote) \in {0, 1} /\ (Running(PostQuote) = 1 => waiting = 1)
    BY DEF Running
  <2>8. used \in {0, 1} /\ waiting \in {0, 1}
    OBVIOUS
  <2>9. executed[PostQuote] <= Cardinality(lost) + used + waiting
    <3> HIDE DEF open, lost, used, waiting
    <3> QED
      BY <2>3, <2>4, <2>5, <2>6, <2>7, <2>8
  <2>10. QED
    BY <2>9 DEF OrphansWereUnanswered
<1>2. QED
  BY <1>1, Inductive, PTL

\* Whatever the rounding of its factors does, by up to one part in 201, the amount
\* asked for is worth the sum and at most 1% and a unit more, if an int64 holds it.
THEOREM AmountAlwaysWorthTheSum == QuoteSpec => []WorthTheSum
<1>1. QInv => WorthTheSum
  <2> DEFINE sum == asked.usd * Scale
  <2> SUFFICES ASSUME QInv, body.swap = "EXACT_INPUT", asked.usd # Infinity,
                      sum * 101 <= MaxInt * price * 100
               PROVE  /\ body.amount * price >= sum
                      /\ (body.amount - 1) * price * 100 < sum * 101
    BY DEF WorthTheSum
  <2>1. Made
    BY DEF QInv, BodyMade, NoBody
  <2>2. /\ MaxInt \in Nat \ {0} /\ Scale \in Nat \ {0} /\ Prices \subseteq Nat
        /\ asked.usd \in Nat
    BY QuoteAssumption DEF QuoteAssumption, QInv, QShape, Request
  <2>3. price \in Nat \ {0}
    BY <2>1, <2>2 DEF Made
  <2>4. sum \in Nat
    BY <2>2
  <2>5. Due(asked.usd) = sum * 201 /\ Per(price) = price * 200
    BY DEF Due, Per
  <2>6. PICK u \in Units(sum * 201, price * 200) : body.amount \in ToInt64(u)
    BY <2>1, <2>5 DEF Made, UnitsOf
  <2> HIDE DEF sum
  <2>7. sum * 201 \in Nat /\ price * 200 \in Nat \ {0}
    BY <2>3, <2>4
  <2>8. /\ u \in Nat
        /\ (u * (price * 200)) * 201 >= (sum * 201) * 200
        /\ ((u - 1) * (price * 200)) * 201 < (sum * 201) * 202
    BY <2>7, QuoteAssumption, UnitsNearQuotient
  <2>9. u * price >= sum
    <3>1. u * price \in Int /\ (u * (price * 200)) * 201 = (u * price) * 40200
      BY <2>3, <2>8
    <3> QED
      BY <2>4, <2>8, <3>1
  <2>10. ((u - 1) * price) * 100 < sum * 101
    <3>1. (u - 1) * price \in Int
          /\ ((u - 1) * (price * 200)) * 201 = ((u - 1) * price) * 40200
      BY <2>3, <2>8
    <3> QED
      BY <2>4, <2>8, <3>1
  <2>11. u <= MaxInt
    <3>1. ((u - 1) * price) * 100 = (u - 1) * (price * 100)
      BY <2>3, <2>8
    <3>2. (MaxInt * price) * 100 = MaxInt * (price * 100)
      BY <2>2, <2>3
    <3>3. (u - 1) * (price * 100) \in Int /\ MaxInt * (price * 100) \in Int
      BY <2>2, <2>3, <2>8
    <3>4. (u - 1) * (price * 100) < MaxInt * (price * 100)
      BY <2>4, <2>10, <3>1, <3>2, <3>3
    <3>5. u - 1 \in Int /\ price * 100 \in Nat \ {0}
      BY <2>3, <2>8
    <3>6. u - 1 < MaxInt
      BY <2>2, <3>4, <3>5, Cancel
    <3> QED
      BY <2>2, <2>8, <3>6
  <2>12. body.amount = u
    <3>1. u \in Ints
      BY <2>2, <2>8, <2>11 DEF Ints
    <3> QED
      BY <2>6, <3>1 DEF ToInt64
  <2> QED
    BY <2>9, <2>10, <2>12
<1>2. QED
  BY <1>1, Inductive, PTL
=============================================================================
