\* Numbers around the ends of an int64, here of 15 bits, and the code's three
\* attempts at each call.
CONSTANTS
  Calls = {"Tokens", "PostQuote"}
  MaxAttempts = 3
  MaxInt = 16383
  Second = 4
  Requests <- MCRequests
  Prices = {0, 1, 37}
  Scale = 20000
  Precision = 500
  Infinity = Infinity
  Unlisted = Unlisted
CHECK_DEADLOCK FALSE
SPECIFICATION QuoteSpec
INVARIANT QuoteTypeOK AsksNoMoreThanNeeded TellsTheOutcome DeadlineAhead NoQuoteWithoutList OrphansWereUnanswered WorthTheSum
PROPERTY QuoteReturns
