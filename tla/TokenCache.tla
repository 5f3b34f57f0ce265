----------------------------- MODULE TokenCache -----------------------------
(***************************************************************************)
(* The token list cache of internal/oneclick/tokencache.go.  Its users are *)
(* the requests for GET /v1/tokens, which refresh a stale cache each for   *)
(* itself, and the refresh loop.  A refresh asks the 1-click API with no   *)
(* lock held and stores what it got, so that refreshes overtake each       *)
(* other and an older list may replace a newer one.                        *)
(*                                                                         *)
(* Time is measured in ages, which Tick increases all at once; an age past *)
(* every bound it is compared with is not counted further.                 *)
(***************************************************************************)
EXTENDS Naturals

CONSTANTS
  Readers,    \* goroutines that serve GET /v1/tokens
  Loop,       \* the goroutine of StartRefreshLoop
  TTL,        \* cfg.OneClick.TokenCacheTTL
  MaxFetch    \* the longest a call of client.Tokens takes, retries included

ASSUME CacheAssumption ==
  /\ TTL \in Nat \ {0}
  /\ MaxFetch \in Nat \ {0}
  /\ Loop \notin Readers

VARIABLES
  tokens,     \* c.tokens, and c.byAssetID with it: "nil", "listed" or "empty"
  age,        \* how old the cached list is, counted from the API's reading
  refreshed,  \* the time since c.refreshedAt
  fetch,      \* fetch[g]: the call of refresh goroutine g is in
  up,         \* the 1-click API gives proper answers
  stopped     \* main's context has ended, and the loop with it

vars == <<tokens, age, refreshed, fetch, up, stopped>>

Refreshers == Readers \cup {Loop}

MaxAge == TTL + MaxFetch + 1

Fetch == [at      : {"none", "asking", "answered"},
          elapsed : 0..MaxFetch,          \* since refresh was called
          got     : {"listed", "empty"},  \* the answer, once there is one
          asOf    : 0..MaxFetch]          \* its age

InCall(at, elapsed, got, asOf) ==
  [at |-> at, elapsed |-> elapsed, got |-> got, asOf |-> asOf]

NoFetch == InCall("none", 0, "listed", 0)

\* No attempt of the call has an answer, and it began so long ago.
Asking(elapsed) == InCall("asking", elapsed, "listed", 0)

TypeOK ==
  /\ tokens \in {"nil", "listed", "empty"}
  /\ age \in 0..MaxAge
  /\ refreshed \in 0..(TTL + 1)
  /\ fetch \in [Refreshers -> Fetch]
  /\ up \in BOOLEAN
  /\ stopped \in BOOLEAN

\* StartRefreshLoop begins with a refresh.
Init ==
  /\ tokens = "nil"
  /\ age = 0
  /\ refreshed = 0
  /\ fetch = [g \in Refreshers |->
                IF g = Loop THEN Asking(0) ELSE NoFetch]
  /\ up \in BOOLEAN
  /\ stopped = FALSE

-----------------------------------------------------------------------------

\* Faulty form of IsStale: age is forgotten.
IsStaleIfNil == tokens = "nil"

IsStale == tokens = "nil" \/ refreshed > TTL

SetFetch(g, f) == fetch' = [fetch EXCEPT ![g] = f]

\* All finds the cache stale.  A request that finds it fresh is given the
\* cached list and changes nothing.
All(r) ==
  /\ fetch[r].at = "none"
  /\ IsStale
  /\ SetFetch(r, Asking(0))
  /\ UNCHANGED <<tokens, age, refreshed, up, stopped>>

\* Faulty form of LoopRefresh: the loop ends after its first refresh.
LoopRefreshOnce == FALSE /\ UNCHANGED vars

\* The ticker has fired; nothing depends on when.  (The select may also take a
\* tick after the context has ended: that refresh fails and changes nothing.)
LoopRefresh ==
  /\ fetch[Loop].at = "none"
  /\ ~stopped
  /\ SetFetch(Loop, Asking(0))
  /\ UNCHANGED <<tokens, age, refreshed, up, stopped>>

\* The API reads its list for g.  If it is down it may still answer 2xx with
\* an empty body, of which mapTokens makes an empty list.
Answer(g) ==
  /\ fetch[g].at = "asking"
  /\ SetFetch(g, InCall("answered", fetch[g].elapsed, IF up THEN "listed" ELSE "empty", 0))
  /\ UNCHANGED <<tokens, age, refreshed, up, stopped>>

\* The answer is lost and another attempt is made.
Retry(g) ==
  /\ fetch[g].at = "answered"
  /\ ~up
  /\ SetFetch(g, Asking(fetch[g].elapsed))
  /\ UNCHANGED <<tokens, age, refreshed, up, stopped>>

\* Whether the context refresh was called with may have ended.
MayBeCancelled(g) == g \in Readers \/ stopped

\* client.Tokens returns an error, and so does refresh; the cache stays.
Fail(g) ==
  /\ fetch[g].at # "none"
  /\ ~up \/ MayBeCancelled(g)
  /\ SetFetch(g, NoFetch)
  /\ UNCHANGED <<tokens, age, refreshed, up, stopped>>

\* ... or the list, which refresh stores under the lock, whatever is there.
Store(g) ==
  /\ fetch[g].at = "answered"
  /\ tokens' = fetch[g].got
  /\ age' = fetch[g].asOf
  /\ refreshed' = 0
  /\ SetFetch(g, NoFetch)
  /\ UNCHANGED <<up, stopped>>

-----------------------------------------------------------------------------

CountTo(bound, n) == IF n < bound THEN n + 1 ELSE n

\* A call after time has passed.
Older(f) ==
  IF f.at = "none" THEN f
  ELSE InCall(f.at, f.elapsed + 1, f.got, IF f.at = "answered" THEN f.asOf + 1 ELSE 0)

\* Faulty form of Tick: the HTTP client has no timeout.
TickWithoutTimeout ==
  /\ age' = CountTo(MaxAge, age)
  /\ refreshed' = CountTo(TTL + 1, refreshed)
  /\ fetch' = [g \in Refreshers |-> Older(fetch[g])]
  /\ UNCHANGED <<tokens, up, stopped>>

\* Time passes, but not past the timeouts and back-offs of a call in progress.
Tick ==
  /\ \A g \in Refreshers : fetch[g].elapsed < MaxFetch
  /\ age' = CountTo(MaxAge, age)
  /\ refreshed' = CountTo(TTL + 1, refreshed)
  /\ fetch' = [g \in Refreshers |-> Older(fetch[g])]
  /\ UNCHANGED <<tokens, up, stopped>>

ApiGoesUpOrDown ==
  /\ up' = ~up
  /\ UNCHANGED <<tokens, age, refreshed, fetch, stopped>>

Stop ==
  /\ ~stopped
  /\ stopped' = TRUE
  /\ UNCHANGED <<tokens, age, refreshed, fetch, up>>

-----------------------------------------------------------------------------

\* The two ways in which client.Tokens comes back.
Return(g) == Fail(g) \/ Store(g)

FetchStep(g) == Answer(g) \/ Retry(g) \/ Return(g)

Next ==
  \/ \E r \in Readers : All(r)
  \/ LoopRefresh
  \/ \E g \in Refreshers : FetchStep(g)
  \/ Tick
  \/ ApiGoesUpOrDown
  \/ Stop

Spec == Init /\ [][Next]_vars

\* The ticker goes on ticking and every call returns: that the API may be asked
\* once more is no excuse, because attempts are limited.
Fairness ==
  /\ WF_vars(LoopRefresh)
  /\ \A g \in Refreshers : WF_vars(Answer(g)) /\ SF_vars(Return(g))

FairSpec == Spec /\ Fairness

-----------------------------------------------------------------------------
(* What the cache promises. *)

\* What All serves without asking is never older than the TTL and the longest
\* call together, although refreshes overtake each other and a slow one puts
\* an older list back and calls it fresh.
FreshEnough == ~IsStale => age <= TTL + MaxFetch

\* Once the API is up for good the cache ends up with a proper list and keeps
\* it, even if a blank answer had emptied it and more are still on their way.
Converges == <>[](up /\ ~stopped) => <>[](tokens = "listed")
=============================================================================
