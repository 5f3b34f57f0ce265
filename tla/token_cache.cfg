\* Two requests and the loop refresh a cache at the same time.
CONSTANTS
  Readers = {r1, r2}
  Loop = loop
  TTL = 1
  MaxFetch = 2
SPECIFICATION FairSpec
INVARIANT TypeOK FreshEnough
PROPERTY Converges
