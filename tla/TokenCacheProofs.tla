-------------------------- MODULE TokenCacheProofs --------------------------
(***************************************************************************)
(* Proofs about the token list cache, for every number of requests, every  *)
(* TTL and every bound on the duration of a call.                          *)
(*                                                                         *)
(* FreshEnough is not inductive: a list that is stored late could have any *)
(* age unless an answer in flight is known to be younger than its call,    *)
(* and a cached list could be of any age unless its age is known to grow   *)
(* no faster than the time since it was stored.  Those two facts are what  *)
(* IInv adds.                                                              *)
(***************************************************************************)
EXTENDS TokenCache, TLAPS

\* An answer in flight is no older than the call that fetched it.
AnswersAreYoung == \A g \in Refreshers : fetch[g].asOf <= fetch[g].elapsed

\* What separates the age of the list from the time it was stored is the time
\* the call took after the API had read its list.
AgeFromStoring == tokens # "nil" /\ refreshed <= TTL => age <= refreshed + MaxFetch

IInv == TypeOK /\ AnswersAreYoung /\ AgeFromStoring

-----------------------------------------------------------------------------

\* A step of refresh that leaves the cache alone keeps the invariant if the new
\* state of the call is of its type and no older than the call.
LEMMA FetchChanges ==
  ASSUME IInv, NEW g \in Refreshers, NEW f \in Fetch, f.asOf <= f.elapsed,
         SetFetch(g, f), UNCHANGED <<tokens, age, refreshed>>,
         up' \in BOOLEAN, stopped' \in BOOLEAN
  PROVE  IInv'
<1>1. fetch \in [Refreshers -> Fetch]
  BY DEF IInv, TypeOK
<1>2. fetch' = [fetch EXCEPT ![g] = f]
  BY DEF SetFetch
<1>3. fetch' \in [Refreshers -> Fetch]
  BY <1>1, <1>2
<1>4. TypeOK'
  <2>1. tokens' \in {"nil", "listed", "empty"} /\ age' \in 0..MaxAge /\ refreshed' \in 0..(TTL + 1)
    BY DEF IInv, TypeOK, MaxAge
  <2>2. QED
    BY <1>3, <2>1, Zenon DEF TypeOK, MaxAge
<1>5. AnswersAreYoung'
  <2>1. SUFFICES ASSUME NEW h \in Refreshers PROVE fetch'[h].asOf <= fetch'[h].elapsed
    BY DEF AnswersAreYoung
  <2>2. CASE h = g
    <3>1. fetch'[h] = f
      BY <1>1, <1>2, <2>2
    <3>2. QED
      BY <3>1
  <2>3. CASE h # g
    <3>1. fetch'[h] = fetch[h]
      BY <1>1, <1>2, <2>3
    <3>2. QED
      BY <3>1 DEF IInv, AnswersAreYoung
  <2>4. QED
    BY <2>2, <2>3
<1>6. AgeFromStoring'
  BY DEF IInv, AgeFromStoring
<1>7. QED
  BY <1>4, <1>5, <1>6 DEF IInv

\* The state of a call at its beginning and at its end.
LEMMA NoFetchTyped ==
  /\ NoFetch \in Fetch
  /\ NoFetch.asOf <= NoFetch.elapsed
  /\ Asking(0) \in Fetch
  /\ Asking(0).asOf <= Asking(0).elapsed
BY CacheAssumption DEF NoFetch, Asking, InCall, Fetch

\* The first of the facts an inductive invariant is made of: it holds at start.
LEMMA InitIInv == Init => IInv
<1> SUFFICES ASSUME Init PROVE IInv
  OBVIOUS
<1>1. up \in BOOLEAN /\ stopped \in BOOLEAN
  BY Zenon DEF Init
<1>2. fetch \in [Refreshers -> Fetch]
  BY NoFetchTyped, Zenon DEF Init
<1>3. tokens \in {"nil", "listed", "empty"} /\ age \in 0..MaxAge /\ refreshed \in 0..(TTL + 1)
  BY CacheAssumption DEF Init, MaxAge
<1>4. TypeOK
  BY <1>1, <1>2, <1>3, Zenon DEF TypeOK
<1>5. AnswersAreYoung
  BY NoFetchTyped DEF Init, AnswersAreYoung
<1>6. AgeFromStoring
  BY DEF Init, AgeFromStoring
<1>7. QED
  BY <1>4, <1>5, <1>6 DEF IInv

\* Each step of a refresh keeps the invariant.
LEMMA FetchStepKeeps ==
  ASSUME IInv, NEW g \in Refreshers, FetchStep(g)
  PROVE  IInv'
<1> DEFINE old == fetch[g]
<1>1. old \in Fetch /\ old.asOf <= old.elapsed
  BY DEF IInv, TypeOK, AnswersAreYoung
<1>2. up \in BOOLEAN /\ stopped \in BOOLEAN
  BY Zenon DEF IInv, TypeOK
<1>3. CASE Answer(g)
  <2> DEFINE f == InCall("answered", old.elapsed, IF up THEN "listed" ELSE "empty", 0)
  <2>1. f \in Fetch /\ f.asOf <= f.elapsed
    BY <1>1, CacheAssumption DEF Fetch, InCall
  <2>2. SetFetch(g, f) /\ UNCHANGED <<tokens, age, refreshed, up, stopped>>
    BY <1>3, Zenon DEF Answer
  <2>3. up' \in BOOLEAN /\ stopped' \in BOOLEAN
    BY <1>2, <2>2, Zenon
  <2> HIDE DEF f
  <2>4. QED
    BY <2>1, <2>2, <2>3, FetchChanges
<1>4. CASE Retry(g)
  <2> DEFINE f == Asking(old.elapsed)
  <2>1. f \in Fetch /\ f.asOf <= f.elapsed
    BY <1>1, CacheAssumption DEF Fetch, Asking, InCall
  <2>2. SetFetch(g, f) /\ UNCHANGED <<tokens, age, refreshed, up, stopped>>
    BY <1>4, Zenon DEF Retry
  <2>3. up' \in BOOLEAN /\ stopped' \in BOOLEAN
    BY <1>2, <2>2, Zenon
  <2> HIDE DEF f
  <2>4. QED
    BY <2>1, <2>2, <2>3, FetchChanges
<1>5. CASE Fail(g)
  <2>1. SetFetch(g, NoFetch) /\ UNCHANGED <<tokens, age, refreshed, up, stopped>>
    BY <1>5, Zenon DEF Fail
  <2>2. up' \in BOOLEAN /\ stopped' \in BOOLEAN
    BY <1>2, <2>1, Zenon
  <2>3. QED
    BY <2>1, <2>2, NoFetchTyped, FetchChanges
<1>6. CASE Store(g)
  <2>1. /\ tokens' = old.got /\ age' = old.asOf /\ refreshed' = 0
        /\ fetch' = [fetch EXCEPT ![g] = NoFetch]
    BY <1>6, Zenon DEF Store, SetFetch
  <2>2. up' \in BOOLEAN /\ stopped' \in BOOLEAN
    BY <1>2, <1>6, Zenon DEF Store
  <2>3. fetch \in [Refreshers -> Fetch]
    BY DEF IInv, TypeOK
  <2>4. fetch' \in [Refreshers -> Fetch]
    BY <2>1, <2>3, NoFetchTyped
  <2>5. tokens' \in {"nil", "listed", "empty"} /\ age' \in 0..MaxAge /\ refreshed' \in 0..(TTL + 1)
    BY <1>1, <2>1, CacheAssumption DEF Fetch, MaxAge
  <2>6. TypeOK'
    BY <2>2, <2>4, <2>5, Zenon DEF TypeOK, MaxAge
  <2>7. AnswersAreYoung'
    BY <2>1, <2>3, NoFetchTyped DEF IInv, AnswersAreYoung
  <2>8. AgeFromStoring'
    BY <1>1, <2>1, CacheAssumption DEF AgeFromStoring, Fetch
  <2>9. QED
    BY <2>6, <2>7, <2>8 DEF IInv
<1>7. QED
  BY <1>3, <1>4, <1>5, <1>6 DEF FetchStep, Return

\* The passing of time keeps the invariant: no answer can become older than the
\* call, whose timeouts bound it, and list and clock grow alike.
LEMMA TickKeeps == IInv /\ Tick => IInv'
<1> SUFFICES ASSUME IInv, Tick PROVE IInv'
  OBVIOUS
<1>1. up' \in BOOLEAN /\ stopped' \in BOOLEAN
  BY Zenon DEF IInv, TypeOK, Tick
<1>2. ASSUME NEW g \in Refreshers
      PROVE  fetch'[g] \in Fetch /\ fetch'[g].asOf <= fetch'[g].elapsed
  <2>1. /\ fetch[g] \in Fetch /\ fetch[g].asOf <= fetch[g].elapsed
        /\ fetch[g].elapsed < MaxFetch
    BY DEF IInv, TypeOK, AnswersAreYoung, Tick
  <2>2. fetch'[g] = Older(fetch[g])
    BY DEF Tick
  <2>3. Older(fetch[g]) \in Fetch /\ Older(fetch[g]).asOf <= Older(fetch[g]).elapsed
    BY <2>1, CacheAssumption DEF Older, InCall, Fetch
  <2>4. QED
    BY <2>2, <2>3
<1>3. fetch' \in [Refreshers -> Fetch]
  <2>1. fetch' = [g \in Refreshers |-> Older(fetch[g])]
    BY DEF Tick
  <2>2. \A g \in Refreshers : Older(fetch[g]) \in Fetch
    BY <1>2, <2>1
  <2>3. QED
    BY <2>1, <2>2
<1>4. tokens' \in {"nil", "listed", "empty"} /\ age' \in 0..MaxAge /\ refreshed' \in 0..(TTL + 1)
  BY CacheAssumption DEF IInv, TypeOK, Tick, CountTo, MaxAge
<1>5. TypeOK'
  BY <1>1, <1>3, <1>4, Zenon DEF TypeOK, MaxAge
<1>6. AgeFromStoring'
  BY CacheAssumption DEF IInv, TypeOK, Tick, CountTo, MaxAge, AgeFromStoring
<1>7. QED
  BY <1>2, <1>5, <1>6 DEF IInv, AnswersAreYoung

\* Every step of the cache's users, of the loop, of the API and of the clock
\* keeps the invariant.
LEMMA NextIInv == IInv /\ [Next]_vars => IInv'
<1> SUFFICES ASSUME IInv, [Next]_vars PROVE IInv'
  OBVIOUS
<1>1. up \in BOOLEAN /\ stopped \in BOOLEAN
  BY Zenon DEF IInv, TypeOK
<1>2. ASSUME NEW r \in Readers, All(r) PROVE IInv'
  <2>1. r \in Refreshers
    BY DEF Refreshers
  <2>2. SetFetch(r, Asking(0)) /\ UNCHANGED <<tokens, age, refreshed, up, stopped>>
    BY <1>2, Zenon DEF All
  <2>3. up' \in BOOLEAN /\ stopped' \in BOOLEAN
    BY <1>1, <2>2, Zenon
  <2>4. QED
    BY <2>1, <2>2, <2>3, NoFetchTyped, FetchChanges
<1>3. CASE LoopRefresh
  <2>1. Loop \in Refreshers
    BY DEF Refreshers
  <2>2. SetFetch(Loop, Asking(0)) /\ UNCHANGED <<tokens, age, refreshed, up, stopped>>
    BY <1>3, Zenon DEF LoopRefresh
  <2>3. up' \in BOOLEAN /\ stopped' \in BOOLEAN
    BY <1>1, <2>2, Zenon
  <2>4. QED
    BY <2>1, <2>2, <2>3, NoFetchTyped, FetchChanges
<1>4. CASE UNCHANGED <<tokens, age, refreshed, fetch>> /\ up' \in BOOLEAN /\ stopped' \in BOOLEAN
  <2>1. TypeOK'
    BY <1>4, Zenon DEF IInv, TypeOK, MaxAge
  <2>2. AnswersAreYoung' /\ AgeFromStoring'
    BY <1>4 DEF IInv, AnswersAreYoung, AgeFromStoring
  <2>3. QED
    BY <2>1, <2>2 DEF IInv
<1>5. CASE ApiGoesUpOrDown
  BY <1>1, <1>4, <1>5, Zenon DEF ApiGoesUpOrDown
<1>6. CASE Stop
  BY <1>1, <1>4, <1>6, Zenon DEF Stop
<1>7. CASE UNCHANGED vars
  BY <1>1, <1>4, <1>7, Zenon DEF vars
<1>8. QED
  BY <1>2, <1>3, <1>5, <1>6, <1>7, TickKeeps, FetchStepKeeps, Zenon DEF Next

\* The strengthened invariant says what the cache promises.
LEMMA IInvFresh == IInv => FreshEnough
BY CacheAssumption DEF IInv, TypeOK, AgeFromStoring, FreshEnough, IsStale, MaxAge

\* The cache, the calls in flight and the clocks always have their types: in
\* particular no answer outlives its call's timeouts.
THEOREM CacheTypeAlways == Spec => []TypeOK
<1>1. IInv => TypeOK
  BY DEF IInv
<1>2. QED
  BY <1>1, InitIInv, NextIInv, PTL DEF Spec

\* However many requests refresh at once and whichever is last, a list that All
\* serves without asking is at most TTL plus the longest call old.
THEOREM FreshEnoughAlways == Spec => []FreshEnough
BY InitIInv, NextIInv, IInvFresh, PTL DEF Spec
=============================================================================
