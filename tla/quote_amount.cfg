\* A sum whose amount in the token's smallest units an int64 does not hold.
CONSTANTS
  Calls = {"Tokens", "PostQuote"}
  MaxAttempts = 3
  MaxInt = 16383
  Second = 4
  Requests <- MCRequests
  Prices = {0, 1, 37}
  Scale = 20000
  Precision = 500
  Infinity = Infinity
  Unlisted = Unlisted
CHECK_DEADLOCK FALSE
SPECIFICATION QuoteSpec
INVARIANT AmountIsCeil
