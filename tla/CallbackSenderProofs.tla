----------------------- MODULE CallbackSenderProofs ------------------------
(***************************************************************************)
(* Proofs about CallbackSender for any number of workers, any queue        *)
(* capacity, any number of attempts and any shop: every callback is in one *)
(* place and leaves the queue in its turn, and what the shop sees is what  *)
(* CallbackDelivery promises it.                                           *)
(***************************************************************************)
EXTENDS CallbackSender, FiniteSetTheorems, TLAPS

-----------------------------------------------------------------------------
(* The inductive invariant. *)

InQueue(n) == \E i \in 1..Len(queue) : queue[i] = n

\* The queue holds changes that were announced, in that order.
QueueInv ==
  /\ announced \in 0..MaxChanges
  /\ queue \in Seq(Changes) /\ Len(queue) <= QueueCap
  /\ \A i \in 1..Len(queue) : queue[i] <= announced
  /\ \A i, j \in 1..Len(queue) : i < j => queue[i] < queue[j]

\* A worker counts the attempts at the change it holds, and a success it is
\* about to read is the shop's.
WorkerInv ==
  /\ at \in [Workers -> {"idle", "ready", "waiting", "backoff", "gone"}]
  /\ item \in [Workers -> 0..MaxChanges]
  /\ attempt \in [Workers -> 0..MaxRetries]
  /\ reply \in [Workers -> {"none", "success", "refusal"}]
  /\ \A w \in Workers :
       /\ item[w] = 0 <=> at[w] \in {"idle", "gone"}
       /\ item[w] = 0 => attempt[w] = 0
       /\ at[w] \in {"waiting", "backoff"} => attempt[w] < MaxRetries
       /\ at[w] = "waiting" /\ reply[w] = "success" => item[w] \in accepted

ShopInv ==
  /\ wire \in SUBSET (Changes \X (0..MaxRetries))
  /\ receipts \in [Changes -> 0..MaxRetries]
  /\ accepted \subseteq Changes

FateInv ==
  /\ fate \in [Changes -> {"none", "pending", "dropped", "delivered", "abandoned"}]
  /\ \A n \in Changes : fate[n] = "none" <=> n > announced

\* What waits or is being delivered is pending, and in one place only.
PlaceInv ==
  /\ \A i \in 1..Len(queue) : fate[queue[i]] = "pending"
  /\ \A w \in Workers : item[w] # 0 => fate[item[w]] = "pending" /\ ~InQueue(item[w])
  /\ \A v, w \in Workers : item[v] = item[w] /\ item[w] # 0 => v = w

\* What is pending is somewhere, as long as nothing made a worker forget it.
FoundInv ==
  stopped \/ \A n \in Changes :
    fate[n] = "pending" => InQueue(n) \/ \E w \in Workers : item[w] = n

\* The attempts of the requests for n that may still reach the shop.
Underway(n) == {k \in 0..MaxRetries : <<n, k>> \in wire}

\* Requests for n that left the service and are not known to be lost.
Requested(n) == receipts[n] + Cardinality(Underway(n))

\* Requests w has sent for the change it holds: the one of an attempt that is
\* not counted as failed yet is the last.
Sent(w) == IF at[w] = "waiting" THEN attempt[w] + 1 ELSE attempt[w]

\* Nobody asks for a change before a worker holds it, then no attempt is made
\* twice, and in the end there were no more requests than attempts.
RequestInv ==
  \A n \in Changes :
    /\ fate[n] \in {"none", "dropped"} \/ InQueue(n) => receipts[n] = 0 /\ Underway(n) = {}
    /\ Requested(n) <= MaxRetries
    /\ \A w \in Workers : item[w] = n =>
         /\ Requested(n) <= Sent(w)
         /\ \A k \in Underway(n) : k < Sent(w)

SInv ==
  /\ QueueInv /\ WorkerInv /\ ShopInv /\ FateInv /\ PlaceInv /\ FoundInv /\ RequestInv
  /\ stopped \in BOOLEAN

-----------------------------------------------------------------------------
(* The queue. *)

LEMMA QueuedChanges ==
  ASSUME QueueInv
  PROVE  Len(queue) \in Nat /\ \A i \in 1..Len(queue) : queue[i] \in Changes /\ queue[i] \in Nat
<1>1. Len(queue) \in Nat /\ \A i \in 1..Len(queue) : queue[i] \in Changes
  BY DEF QueueInv
<1> QED
  BY <1>1, SenderAssumption DEF Changes

\* Announcing one more change and queueing it keeps the queue in order.
LEMMA AppendChange ==
  ASSUME QueueInv, announced + 1 \in Changes
  PROVE  LET q == Append(queue, announced + 1)
         IN  /\ q \in Seq(Changes) /\ Len(q) = Len(queue) + 1
             /\ \A i \in 1..Len(queue) : q[i] = queue[i]
             /\ q[Len(queue) + 1] = announced + 1
             /\ \A i, j \in 1..Len(q) : i < j => q[i] < q[j]
             /\ \A i \in 1..Len(q) : q[i] <= announced + 1
<1> DEFINE q == Append(queue, announced + 1)
<1>1. /\ q \in Seq(Changes) /\ Len(q) = Len(queue) + 1 /\ Len(queue) \in Nat
      /\ \A i \in 1..Len(queue) : q[i] = queue[i]
      /\ q[Len(queue) + 1] = announced + 1
  BY DEF QueueInv
<1>2. announced \in Nat
  BY SenderAssumption DEF QueueInv
<1> HIDE DEF q
<1>3. \A i \in 1..(Len(queue) + 1) : i \in 1..Len(queue) \/ i = Len(queue) + 1
  BY <1>1
<1>4. \A i, j \in 1..Len(q) : i < j => i \in 1..Len(queue)
  BY <1>1
<1>5. \A i \in 1..Len(queue) : queue[i] < announced + 1
  BY <1>2, QueuedChanges DEF QueueInv
<1>6. \A i \in 1..Len(q) : q[i] <= announced + 1
  BY <1>1, <1>2, <1>3, <1>5, QueuedChanges
<1>7. \A i, j \in 1..Len(q) : i < j => q[i] < q[j]
  BY <1>1, <1>3, <1>4, <1>5 DEF QueueInv
<1> QED
  BY <1>1, <1>6, <1>7 DEF q

\* Taking the head moves the rest up by one and leaves no second copy of it.
LEMMA TakeHead ==
  ASSUME QueueInv, queue # <<>>
  PROVE  /\ Tail(queue) \in Seq(Changes) /\ Len(Tail(queue)) = Len(queue) - 1
         /\ Len(queue) \in Nat \ {0}
         /\ \A i \in 1..(Len(queue) - 1) : Tail(queue)[i] = queue[i + 1] /\ i + 1 \in 1..Len(queue)
         /\ Head(queue) = queue[1] /\ 1 \in 1..Len(queue)
         /\ Head(queue) \in Changes
         /\ \A i \in 1..(Len(queue) - 1) : Tail(queue)[i] > Head(queue)
<1>1. /\ Tail(queue) \in Seq(Changes) /\ Len(Tail(queue)) = Len(queue) - 1
      /\ Len(queue) \in Nat \ {0}
      /\ \A i \in 1..(Len(queue) - 1) : Tail(queue)[i] = queue[i + 1]
      /\ Head(queue) = queue[1] /\ Head(queue) \in Changes
  BY DEF QueueInv
<1>2. \A i \in 1..(Len(queue) - 1) : i + 1 \in 1..Len(queue) /\ 1 < i + 1
  BY <1>1
<1>3. 1 \in 1..Len(queue)
  BY <1>1
<1>4. \A i \in 1..(Len(queue) - 1) : queue[1] < queue[i + 1]
  BY <1>1, <1>2, <1>3 DEF QueueInv
<1>5. \A i \in 1..(Len(queue) - 1) : Tail(queue)[i] > Head(queue)
  BY <1>1, <1>2, <1>3, <1>4, QueuedChanges
<1> QED
  BY <1>1, <1>2, <1>3, <1>5

\* What each step leaves alone.
LEMMA WorkerFrame ==
  ASSUME NEW w \in Workers, WorkerStep(w)
  PROVE  /\ UNCHANGED <<announced, shopVars, stopped>>
         /\ ~Take(w) => UNCHANGED queue
         /\ ~Post(w) => UNCHANGED wire
BY DEF WorkerStep, Take, Post, Acknowledged, Failed, BackoffOver, Exhausted, Forget, WorkerStop

LEMMA NextCases ==
  ASSUME [Next]_vars
  PROVE  \/ Enqueue \/ Stop \/ UNCHANGED vars
         \/ \E w \in Workers : WorkerStep(w)
         \/ \E n \in Changes, k \in 0..MaxRetries, answer \in {"success", "refusal"} :
              ShopHandles(n, k, answer)
BY DEF Next, ShopStep

LEMMA QueueStep ==
  ASSUME QueueInv, [Next]_vars
  PROVE  QueueInv'
<1>1. CASE Enqueue
  <2>1. announced + 1 \in Changes /\ announced' = announced + 1 /\ announced' \in 0..MaxChanges
    BY <1>1, SenderAssumption DEF Enqueue, QueueInv, Changes
  <2>2. CASE queue' = queue
    <3>1. \A i \in 1..Len(queue) : queue[i] <= announced + 1
      BY SenderAssumption DEF QueueInv, Changes
    <3> QED
      BY <2>1, <2>2, <3>1 DEF QueueInv
  <2>3. CASE Len(queue) < QueueCap /\ queue' = Append(queue, announced + 1)
    <3>1. Len(queue') <= QueueCap
      BY <2>1, <2>3, AppendChange, SenderAssumption DEF QueueInv
    <3> QED
      BY <2>1, <2>3, <3>1, AppendChange DEF QueueInv
  <2> QED
    BY <1>1, <2>2, <2>3 DEF Enqueue
<1>2. ASSUME NEW w \in Workers, Take(w)
      PROVE  QueueInv'
  <2>1. queue # <<>> /\ queue' = Tail(queue) /\ announced' = announced
    BY <1>2 DEF Take
  <2>2. queue' \in Seq(Changes) /\ Len(queue') = Len(queue) - 1 /\ Len(queue') <= QueueCap
    BY <2>1, TakeHead, SenderAssumption DEF QueueInv
  <2>3. \A i \in 1..Len(queue') : queue'[i] = queue[i + 1] /\ i + 1 \in 1..Len(queue)
    BY <2>1, TakeHead
  <2>4. \A i, j \in 1..Len(queue') : i < j => i + 1 < j + 1
    BY <2>2
  <2> QED
    BY <2>1, <2>2, <2>3, <2>4 DEF QueueInv
<1>3. CASE UNCHANGED <<announced, queue>>
  BY <1>3 DEF QueueInv
<1> QED
  BY <1>1, <1>2, <1>3, NextCases, WorkerFrame DEF Stop, ShopHandles, vars

-----------------------------------------------------------------------------
(* The workers and the shop. *)

LEMMA WorkerStepInv ==
  ASSUME WorkerInv, QueueInv, NEW w \in Workers, WorkerStep(w)
  PROVE  WorkerInv'
<1>1. UNCHANGED accepted /\ \A v \in Workers : attempt[v] \in Nat
  BY WorkerFrame, SenderAssumption DEF shopVars, WorkerInv
<1>2. CASE Take(w)
  <2>1. Head(queue) \in 1..MaxChanges
    BY <1>2, TakeHead DEF Take, Changes
  <2>2. Head(queue) \in 0..MaxChanges /\ Head(queue) # 0
    BY <2>1, SenderAssumption
  <2> QED
    BY <1>1, <1>2, <2>2 DEF Take, Goes, WorkerInv
<1>3. CASE Post(w)
  BY <1>1, <1>3 DEF Post, MayPost, Goes, WorkerInv
<1>4. CASE Acknowledged(w) \/ Exhausted(w) \/ Forget(w)
  <2>1. Release(w) /\ (reply' = reply \/ reply' = [reply EXCEPT ![w] = "none"])
    BY <1>4 DEF Acknowledged, Exhausted, Forget
  <2>2. 0 \in 0..MaxChanges /\ 0 \in 0..MaxRetries
    BY SenderAssumption
  <2> QED
    BY <1>1, <2>1, <2>2 DEF Release, Goes, WorkerInv
<1>5. CASE Failed(w)
  <2>1. attempt[w] + 1 \in 0..MaxRetries
    BY <1>1, <1>5, SenderAssumption DEF Failed, WorkerInv
  <2>2. item[w] # 0
    BY <1>5 DEF Failed, WorkerInv
  <2> QED
    BY <1>1, <1>5, <2>1, <2>2 DEF Failed, Goes, WorkerInv
<1>6. CASE BackoffOver(w) \/ WorkerStop(w)
  BY <1>1, <1>6 DEF BackoffOver, WorkerStop, Goes, WorkerInv
<1> QED
  BY <1>2, <1>3, <1>4, <1>5, <1>6 DEF WorkerStep

LEMMA WorkersStep ==
  ASSUME WorkerInv, QueueInv, [Next]_vars
  PROVE  WorkerInv'
<1>1. ASSUME NEW w \in Workers, WorkerStep(w) PROVE WorkerInv'
  BY <1>1, WorkerStepInv
<1>2. ASSUME NEW n \in Changes, NEW k \in 0..MaxRetries, NEW answer \in {"success", "refusal"},
             ShopHandles(n, k, answer)
      PROVE  WorkerInv'
  BY <1>2 DEF ShopHandles, WorkerInv
<1>3. CASE Enqueue \/ Stop \/ UNCHANGED vars
  BY <1>3 DEF Enqueue, Stop, vars, shopVars, WorkerInv
<1> QED
  BY <1>1, <1>2, <1>3, NextCases

\* Handling a request takes it off the wire and counts it.
LEMMA HandledOnce ==
  ASSUME ShopInv, NEW n \in Changes, NEW k \in 0..MaxRetries, NEW answer,
         ShopHandles(n, k, answer)
  PROVE  /\ \A m \in Changes \ {n} : Underway(m)' = Underway(m) /\ receipts'[m] = receipts[m]
         /\ Underway(n)' = Underway(n) \ {k} /\ k \in Underway(n)
         /\ receipts'[n] = receipts[n] + 1
BY DEF ShopHandles, ShopInv, Underway

LEMMA UnderwayFinite ==
  ASSUME NEW n
  PROVE  IsFiniteSet(Underway(n)) /\ Cardinality(Underway(n)) \in Nat
<1>1. IsFiniteSet(0..MaxRetries)
  BY FS_Interval, SenderAssumption
<1> QED
  BY <1>1, FS_Subset, FS_CardinalityType DEF Underway

LEMMA RequestedHandled ==
  ASSUME ShopInv, NEW n \in Changes, NEW k \in 0..MaxRetries, NEW answer,
         ShopHandles(n, k, answer)
  PROVE  /\ \A m \in Changes : Requested(m)' = Requested(m)
         /\ receipts[n] + 1 <= Requested(n)
<1>1. Cardinality(Underway(n) \ {k}) = Cardinality(Underway(n)) - 1
  BY HandledOnce, UnderwayFinite, FS_RemoveElement
<1>2. receipts[n] \in Nat /\ Cardinality(Underway(n)) \in Nat /\ Cardinality(Underway(n)) # 0
  BY HandledOnce, UnderwayFinite, FS_EmptySet, SenderAssumption DEF ShopInv
<1>3. Requested(n)' = Requested(n)
  BY <1>1, <1>2, HandledOnce DEF Requested
<1>4. \A m \in Changes \ {n} : Requested(m)' = Requested(m)
  BY HandledOnce DEF Requested
<1> QED
  BY <1>2, <1>3, <1>4 DEF Requested

LEMMA ShopInvStep ==
  ASSUME ShopInv, WorkerInv, RequestInv, [Next]_vars
  PROVE  ShopInv'
<1>1. ASSUME NEW w \in Workers, Post(w)
      PROVE  ShopInv'
  <2>1. item[w] \in Changes
    BY <1>1, SenderAssumption DEF Post, WorkerInv, Changes
  <2>2. <<item[w], attempt[w]>> \in Changes \X (0..MaxRetries)
    BY <2>1 DEF WorkerInv
  <2> QED
    BY <1>1, <2>2 DEF Post, ShopInv, shopVars
<1>2. ASSUME NEW n \in Changes, NEW k \in 0..MaxRetries, NEW answer \in {"success", "refusal"},
             ShopHandles(n, k, answer)
      PROVE  ShopInv'
  <2>1. receipts[n] + 1 <= MaxRetries /\ receipts[n] \in Nat
    <3>1. receipts[n] \in Nat /\ Requested(n) \in Nat
      BY UnderwayFinite, SenderAssumption DEF ShopInv, Requested
    <3> QED
      BY <1>2, <3>1, RequestedHandled, SenderAssumption DEF RequestInv
  <2>2. receipts[n] + 1 \in 0..MaxRetries
    BY <2>1, SenderAssumption
  <2> QED
    BY <1>2, <2>2 DEF ShopHandles, ShopInv
<1>3. CASE UNCHANGED <<wire, receipts, accepted>>
  BY <1>3 DEF ShopInv
<1> QED
  BY <1>1, <1>2, <1>3, NextCases, WorkerFrame DEF Enqueue, Stop, vars, shopVars

-----------------------------------------------------------------------------
(* Where the callbacks are. *)

LEMMA EnqueueQueues ==
  ASSUME QueueInv, Enqueue
  PROVE  \/ /\ queue' = queue
            /\ fate' = [fate EXCEPT ![announced + 1] = "dropped"]
            /\ \A n : InQueue(n)' <=> InQueue(n)
         \/ /\ queue' = Append(queue, announced + 1)
            /\ fate' = [fate EXCEPT ![announced + 1] = "pending"]
            /\ \A n : InQueue(n)' <=> InQueue(n) \/ n = announced + 1
<1>1. CASE queue' = queue
  BY <1>1 DEF Enqueue, InQueue
<1>2. CASE queue' = Append(queue, announced + 1)
  <2>1. announced + 1 \in Changes
    BY SenderAssumption DEF Enqueue, QueueInv, Changes
  <2>2. /\ Len(queue') = Len(queue) + 1 /\ Len(queue) \in Nat
        /\ \A i \in 1..Len(queue) : queue'[i] = queue[i]
        /\ queue'[Len(queue) + 1] = announced + 1
    BY <1>2, <2>1, AppendChange, QueuedChanges
  <2>3. \A i : i \in 1..Len(queue') <=> i \in 1..Len(queue) \/ i = Len(queue) + 1
    BY <2>2
  <2>4. \A n : InQueue(n)' <=> InQueue(n) \/ n = announced + 1
    BY <2>2, <2>3 DEF InQueue
  <2>5. queue' # queue
    BY <2>2
  <2> QED
    BY <1>2, <2>4, <2>5 DEF Enqueue
<1> QED
  BY <1>1, <1>2 DEF Enqueue

LEMMA TakeDequeues ==
  ASSUME QueueInv, queue # <<>>, queue' = Tail(queue)
  PROVE  /\ InQueue(Head(queue))
         /\ \A n : InQueue(n)' <=> InQueue(n) /\ n # Head(queue)
<1>1. Head(queue) \in Nat /\ \A i \in 1..(Len(queue) - 1) : Tail(queue)[i] # Head(queue)
  BY TakeHead, QueuedChanges
<1>2. \A i \in 1..Len(queue) : i = 1 \/ (i - 1 \in 1..(Len(queue) - 1) /\ (i - 1) + 1 = i)
  BY TakeHead
<1>3. InQueue(Head(queue))
  BY TakeHead DEF InQueue
<1>4. ASSUME NEW i \in 1..Len(queue), i # 1
      PROVE  Tail(queue)[i - 1] = queue[i] /\ i - 1 \in 1..(Len(queue) - 1)
  BY <1>2, <1>4, TakeHead
<1>5. ASSUME NEW n, InQueue(n), n # Head(queue)
      PROVE  InQueue(n)'
  <2>1. PICK i \in 1..Len(queue) : queue[i] = n
    BY <1>5 DEF InQueue
  <2> QED
    BY <1>4, <1>5, <2>1, TakeHead DEF InQueue
<1>6. ASSUME NEW n, InQueue(n)'
      PROVE  InQueue(n) /\ n # Head(queue)
  BY <1>1, <1>6, TakeHead DEF InQueue
<1> QED
  BY <1>3, <1>5, <1>6

\* deliver returns with the last word on its callback, or without a word.
LEMMA EndsItem ==
  ASSUME WorkerInv, NEW w \in Workers, Acknowledged(w) \/ Exhausted(w) \/ Forget(w)
  PROVE  /\ item[w] \in Changes /\ item[w] # 0 /\ item'[w] = 0
         /\ \A v \in Workers \ {w} : item'[v] = item[v]
         /\ UNCHANGED <<announced, queue, wire, shopVars, stopped>>
         /\ \/ fate' = [fate EXCEPT ![item[w]] = "delivered"] /\ item[w] \in accepted
            \/ fate' = [fate EXCEPT ![item[w]] = "abandoned"]
            \/ fate' = fate /\ stopped
<1>1. at[w] \in {"ready", "waiting", "backoff"} /\ Release(w)
  BY DEF Acknowledged, Exhausted, Forget
<1>2. item[w] \in 0..MaxChanges /\ item[w] # 0
  BY <1>1 DEF WorkerInv
<1>3. item[w] \in Changes
  BY <1>2, SenderAssumption DEF Changes
<1>4. item'[w] = 0 /\ \A v \in Workers \ {w} : item'[v] = item[v]
  BY <1>1 DEF Release, WorkerInv
<1>5. Acknowledged(w) => item[w] \in accepted
  BY DEF Acknowledged, WorkerInv
<1> QED
  BY <1>2, <1>3, <1>4, <1>5 DEF Acknowledged, Exhausted, Forget

\* The other steps of a worker keep its callback and say nothing of it.
LEMMA HoldsItem ==
  ASSUME NEW w \in Workers, WorkerStep(w), ~Take(w),
         ~Acknowledged(w), ~Exhausted(w), ~Forget(w)
  PROVE  UNCHANGED <<announced, queue, item, shopVars, fate, stopped>>
BY DEF WorkerStep, Post, Failed, BackoffOver, WorkerStop

LEMMA FateStep ==
  ASSUME QueueInv, WorkerInv, FateInv, PlaceInv, [Next]_vars
  PROVE  FateInv'
<1>1. CASE Enqueue
  <2>1. announced + 1 \in Changes /\ announced' = announced + 1 /\ announced \in Nat
    BY <1>1, SenderAssumption DEF Enqueue, QueueInv, Changes
  <2>2. \A n \in Changes : n \in Nat /\ (n > announced + 1 <=> n > announced /\ n # announced + 1)
    BY <2>1 DEF Changes
  <2> QED
    BY <1>1, <2>1, <2>2, EnqueueQueues DEF FateInv
<1>2. ASSUME NEW w \in Workers, Acknowledged(w) \/ Exhausted(w) \/ Forget(w)
      PROVE  FateInv'
  <2>1. fate[item[w]] = "pending"
    BY <1>2, EndsItem DEF PlaceInv
  <2> QED
    BY <1>2, <2>1, EndsItem DEF FateInv
<1>3. CASE UNCHANGED <<announced, fate>>
  BY <1>3 DEF FateInv
<1>4. ASSUME NEW w \in Workers, WorkerStep(w)
      PROVE  FateInv'
  BY <1>2, <1>3, <1>4, HoldsItem DEF Take
<1> QED
  BY <1>1, <1>3, <1>4, NextCases DEF Stop, ShopHandles, vars

LEMMA PlaceStep ==
  ASSUME QueueInv, WorkerInv, FateInv, PlaceInv, [Next]_vars
  PROVE  PlaceInv'
<1> USE DEF PlaceInv
<1>0. \A n \in Changes : InQueue(n) => fate[n] = "pending"
  BY DEF InQueue
<1>1. CASE Enqueue
  <2>1. announced + 1 \in Changes /\ announced \in Nat /\ UNCHANGED item
    BY <1>1, SenderAssumption DEF Enqueue, QueueInv, Changes
  <2>2. fate[announced + 1] = "none"
    BY <2>1 DEF FateInv
  <2>3. /\ \A n \in Changes \ {announced + 1} : fate'[n] = fate[n]
        /\ \A n : InQueue(n)' => InQueue(n) \/ (n = announced + 1 /\ fate'[n] = "pending")
    BY <1>1, <2>1, EnqueueQueues DEF FateInv
  <2>4. \A w \in Workers : item[w] # 0 => item[w] \in Changes
    BY SenderAssumption DEF WorkerInv, Changes
  <2>5. \A n : InQueue(n)' => fate'[n] = "pending"
    BY <1>0, <2>2, <2>3, QueuedChanges DEF InQueue
  <2>6. \A i \in 1..Len(queue') : \A n : queue'[i] = n => InQueue(n)'
    BY DEF InQueue
  <2>7. \A i \in 1..Len(queue') : fate'[queue'[i]] = "pending"
    BY <2>5, <2>6
  <2>8. ASSUME NEW w \in Workers, item[w] # 0
        PROVE  fate'[item[w]] = "pending" /\ ~(InQueue(item[w]) \/ item[w] = announced + 1)
    BY <2>2, <2>3, <2>4, <2>8
  <2>9. \A n \in Changes : InQueue(n)' => InQueue(n) \/ n = announced + 1
    BY <2>3
  <2>10. ASSUME NEW w \in Workers, item'[w] # 0
         PROVE  fate'[item'[w]] = "pending" /\ \A n : item'[w] = n => ~InQueue(n)'
    BY <2>1, <2>4, <2>8, <2>9, <2>10
  <2>11. \A w \in Workers : item'[w] # 0 => fate'[item'[w]] = "pending" /\ ~InQueue(item[w])'
    BY <2>10
  <2> QED
    BY <2>1, <2>7, <2>11
<1>2. ASSUME NEW w \in Workers, Take(w)
      PROVE  PlaceInv'
  <2>1. /\ queue # <<>> /\ queue' = Tail(queue) /\ fate' = fate
        /\ item'[w] = Head(queue) /\ item[w] = 0
        /\ \A v \in Workers \ {w} : item'[v] = item[v]
    BY <1>2 DEF Take, WorkerInv
  <2>2. Head(queue) \in Changes /\ InQueue(Head(queue))
    BY <2>1, TakeHead, TakeDequeues
  <2>3. \A n : InQueue(n)' <=> InQueue(n) /\ n # Head(queue)
    BY <2>1, TakeDequeues
  <2>4. \A i \in 1..Len(queue') : fate'[queue'[i]] = "pending"
    <3>1. \A i \in 1..Len(queue') : \A n : queue'[i] = n => InQueue(n)'
      BY DEF InQueue
    <3> QED
      BY <1>0, <2>1, <2>3, <3>1, QueuedChanges DEF InQueue
  <2> QED
    BY <1>0, <2>1, <2>2, <2>3, <2>4
<1>3. ASSUME NEW w \in Workers, Acknowledged(w) \/ Exhausted(w) \/ Forget(w)
      PROVE  PlaceInv'
  <2>1. /\ item'[w] = 0 /\ item[w] # 0 /\ item[w] \in Changes
        /\ \A v \in Workers \ {w} : item'[v] = item[v]
        /\ queue' = queue
        /\ \A n \in Changes \ {item[w]} : fate'[n] = fate[n]
    BY <1>3, EndsItem DEF FateInv
  <2>2. \A n : InQueue(n)' <=> InQueue(n)
    BY <2>1 DEF InQueue
  <2>3. ~InQueue(item[w]) /\ \A v \in Workers \ {w} : item[v] # item[w]
    BY <2>1
  <2>4. \A v \in Workers : item[v] # 0 => item[v] \in Changes
    BY SenderAssumption DEF WorkerInv, Changes
  <2>5. \A i \in 1..Len(queue) : fate'[queue[i]] = "pending"
    BY <2>1, <2>3, QueuedChanges DEF InQueue
  <2> QED
    BY <2>1, <2>2, <2>3, <2>4, <2>5
<1>4. CASE UNCHANGED <<queue, item, fate>>
  BY <1>4 DEF InQueue
<1>5. ASSUME NEW w \in Workers, WorkerStep(w)
      PROVE  PlaceInv'
  BY <1>2, <1>3, <1>4, <1>5, HoldsItem
<1> QED
  BY <1>1, <1>4, <1>5, NextCases DEF Stop, ShopHandles, vars

LEMMA FoundStep ==
  ASSUME QueueInv, WorkerInv, FateInv, PlaceInv, FoundInv, [Next]_vars, stopped \in BOOLEAN
  PROVE  FoundInv' /\ stopped' \in BOOLEAN
<1>1. stopped' \in BOOLEAN /\ (stopped => stopped')
  <2>1. UNCHANGED stopped \/ stopped' = TRUE
    BY NextCases, WorkerFrame, Zenon DEF Enqueue, Stop, ShopHandles, vars
  <2> QED
    BY <2>1, Zenon
<1> SUFFICES ASSUME ~stopped', NEW n \in Changes, fate'[n] = "pending"
             PROVE  InQueue(n)' \/ \E w \in Workers : item'[w] = n
  BY <1>1, Zenon DEF FoundInv
<1>2. fate[n] = "pending" => InQueue(n) \/ \E w \in Workers : item[w] = n
  BY <1>1, Zenon DEF FoundInv
<1>3. CASE Enqueue
  <2>1. announced + 1 \in Changes /\ UNCHANGED item
    BY <1>3, SenderAssumption DEF Enqueue, QueueInv, Changes
  <2> QED
    BY <1>2, <1>3, <2>1, EnqueueQueues DEF FateInv
<1>4. ASSUME NEW w \in Workers, Take(w)
      PROVE  InQueue(n)' \/ \E v \in Workers : item'[v] = n
  <2>1. /\ queue # <<>> /\ queue' = Tail(queue) /\ fate' = fate
        /\ item'[w] = Head(queue) /\ item[w] = 0
        /\ \A v \in Workers \ {w} : item'[v] = item[v]
    BY <1>4 DEF Take, WorkerInv
  <2>2. n # 0
    BY SenderAssumption DEF Changes
  <2> QED
    BY <1>2, <2>1, <2>2, TakeDequeues
<1>5. ASSUME NEW w \in Workers, Acknowledged(w) \/ Exhausted(w) \/ Forget(w)
      PROVE  InQueue(n)' \/ \E v \in Workers : item'[v] = n
  <2>1. item[w] # n /\ fate[n] = "pending"
    BY <1>1, <1>5, EndsItem DEF FateInv, PlaceInv
  <2> QED
    BY <1>2, <1>5, <2>1, EndsItem DEF InQueue
<1>6. CASE UNCHANGED <<queue, item, fate>>
  BY <1>2, <1>6 DEF InQueue
<1>7. ASSUME NEW w \in Workers, WorkerStep(w)
      PROVE  InQueue(n)' \/ \E v \in Workers : item'[v] = n
  BY <1>4, <1>5, <1>6, <1>7, HoldsItem
<1> QED
  BY <1>3, <1>6, <1>7, NextCases DEF Stop, ShopHandles, vars

-----------------------------------------------------------------------------
(* The requests. *)

LEMMA SameRequests ==
  ASSUME UNCHANGED <<wire, receipts>>
  PROVE  \A n \in Changes : /\ Underway(n)' = Underway(n) /\ Requested(n)' = Requested(n)
                            /\ receipts'[n] = receipts[n]
<1>1. \A n \in Changes : Underway(n)' = Underway(n)
  BY DEF Underway
<1> QED
  BY <1>1 DEF Requested

\* A worker posts an attempt it has not made before.
LEMMA PostRequests ==
  ASSUME WorkerInv, ShopInv, RequestInv, NEW w \in Workers, Post(w)
  PROVE  /\ item[w] \in Changes
         /\ \A n \in Changes \ {item[w]} : Underway(n)' = Underway(n) /\ Requested(n)' = Requested(n)
         /\ \A n \in Changes : n = item[w] =>
              /\ Underway(n)' = Underway(n) \cup {attempt[w]}
              /\ Requested(n)' = Requested(n) + 1
         /\ Sent(w) = attempt[w] /\ Sent(w)' = attempt[w] + 1 /\ attempt[w] + 1 <= MaxRetries
         /\ \A v \in Workers \ {w} : Sent(v)' = Sent(v)
<1>1. item[w] \in Changes
  BY SenderAssumption DEF Post, WorkerInv, Changes
<1>2. /\ attempt[w] \in 0..MaxRetries /\ attempt[w] \in Nat /\ attempt[w] + 1 <= MaxRetries
      /\ wire' = wire \cup {<<item[w], attempt[w]>>}
      /\ UNCHANGED <<receipts, attempt, item>>
  BY SenderAssumption DEF Post, MayPost, WorkerInv, shopVars
<1>3. \A n \in Changes \ {item[w]} : Underway(n)' = Underway(n)
  BY <1>2 DEF Underway
<1>4. \A n \in Changes : n = item[w] => Underway(n)' = Underway(n) \cup {attempt[w]}
  BY <1>2 DEF Underway
<1>5. at[w] = "ready" /\ at'[w] = "waiting" /\ \A v \in Workers \ {w} : at'[v] = at[v]
  BY DEF Post, Goes, WorkerInv
<1>6. Sent(w) = attempt[w] /\ Sent(w)' = attempt[w] + 1 /\ \A v \in Workers \ {w} : Sent(v)' = Sent(v)
  BY <1>2, <1>5 DEF Sent
<1>7. ASSUME NEW n \in Changes, n = item[w]
      PROVE  Requested(n)' = Requested(n) + 1
  <2>1. attempt[w] \notin Underway(n)
    BY <1>2, <1>6, <1>7 DEF RequestInv
  <2>2. Cardinality(Underway(n) \cup {attempt[w]}) = Cardinality(Underway(n)) + 1
    BY <2>1, UnderwayFinite, FS_AddElement
  <2>3. receipts[n] \in Nat /\ Cardinality(Underway(n)) \in Nat
    BY UnderwayFinite, SenderAssumption DEF ShopInv
  <2>4. Requested(n)' = receipts[n] + Cardinality(Underway(n) \cup {attempt[w]})
    BY <1>2, <1>4, <1>7 DEF Requested
  <2>5. Requested(n)' = receipts[n] + (Cardinality(Underway(n)) + 1)
    BY <2>2, <2>4
  <2>6. Requested(n) = receipts[n] + Cardinality(Underway(n))
    BY DEF Requested
  <2> QED
    BY <2>3, <2>5, <2>6
<1>8. \A n \in Changes \ {item[w]} : Requested(n)' = Requested(n)
  BY <1>2, <1>3 DEF Requested
<1> QED
  BY <1>1, <1>2, <1>3, <1>4, <1>6, <1>7, <1>8

LEMMA RequestsStep ==
  ASSUME QueueInv, WorkerInv, ShopInv, FateInv, PlaceInv, RequestInv, [Next]_vars
  PROVE  RequestInv'
<1>0. \A n \in Changes : Requested(n) \in Nat
  BY UnderwayFinite, SenderAssumption DEF ShopInv, Requested
<1>1. CASE Enqueue
  <2>1. /\ announced + 1 \in Changes /\ UNCHANGED <<wire, receipts, item, at, attempt>>
        /\ announced \in Nat
    BY <1>1, SenderAssumption DEF Enqueue, QueueInv, Changes, shopVars
  <2>2. fate[announced + 1] = "none"
    BY <2>1 DEF FateInv
  <2>3. ASSUME NEW n \in Changes, fate'[n] \in {"none", "dropped"} \/ InQueue(n)'
        PROVE  fate[n] \in {"none", "dropped"} \/ InQueue(n)
    BY <1>1, <2>1, <2>2, <2>3, EnqueueQueues DEF FateInv
  <2>4. \A w \in Workers : Sent(w)' = Sent(w)
    BY <2>1 DEF Sent
  <2>5. \A n \in Changes : /\ Underway(n)' = Underway(n) /\ Requested(n)' = Requested(n)
                           /\ receipts'[n] = receipts[n]
    BY <2>1, SameRequests
  <2> QED
    BY <2>1, <2>3, <2>4, <2>5 DEF RequestInv
<1>2. ASSUME NEW w \in Workers, Take(w)
      PROVE  RequestInv'
  <2>1. /\ queue # <<>> /\ queue' = Tail(queue) /\ UNCHANGED <<fate, wire, receipts, attempt>>
        /\ item'[w] = Head(queue) /\ item[w] = 0 /\ at'[w] = "ready" /\ attempt[w] = 0
        /\ \A v \in Workers \ {w} : item'[v] = item[v] /\ at'[v] = at[v]
    BY <1>2 DEF Take, Goes, WorkerInv, shopVars
  <2>2. \A n \in Changes : /\ Underway(n)' = Underway(n) /\ Requested(n)' = Requested(n)
                           /\ receipts'[n] = receipts[n]
    BY <2>1, SameRequests
  <2>3. \A n : InQueue(n)' => InQueue(n)
    BY <2>1, TakeDequeues
  <2>4. Sent(w)' = 0 /\ \A v \in Workers \ {w} : Sent(v)' = Sent(v)
    BY <2>1 DEF Sent
  <2>5. ASSUME NEW n \in Changes, n = Head(queue)
        PROVE  Requested(n) = 0 /\ Underway(n) = {}
    <3>1. receipts[n] = 0 /\ Underway(n) = {}
      BY <2>1, <2>5, TakeDequeues DEF RequestInv
    <3> QED
      BY <3>1, FS_EmptySet DEF Requested
  <2> QED
    BY <2>1, <2>2, <2>3, <2>4, <2>5 DEF RequestInv
<1>3. ASSUME NEW w \in Workers, Post(w)
      PROVE  RequestInv'
  <2>1. UNCHANGED <<queue, fate, item, receipts>>
    BY <1>3 DEF Post, shopVars
  <2>2. \A n : InQueue(n)' <=> InQueue(n)
    BY <2>1 DEF InQueue
  <2>3. /\ item[w] # 0 /\ fate[item[w]] = "pending" /\ ~InQueue(item[w])
        /\ \A v \in Workers \ {w} : item[v] # item[w]
    BY <1>3 DEF Post, WorkerInv, PlaceInv
  <2>4. ASSUME NEW n \in Changes, n # item[w]
        PROVE  /\ fate[n] \in {"none", "dropped"} \/ InQueue(n) => receipts[n] = 0 /\ Underway(n)' = {}
               /\ Requested(n)' <= MaxRetries
               /\ \A v \in Workers : item[v] = n =>
                    /\ Requested(n)' <= Sent(v)'
                    /\ \A k \in Underway(n)' : k < Sent(v)'
    BY <1>3, <2>4, PostRequests DEF RequestInv
  <2>5. ASSUME NEW n \in Changes, n = item[w]
        PROVE  /\ Requested(n)' <= MaxRetries
               /\ Requested(n)' <= Sent(w)'
               /\ \A k \in Underway(n)' : k < Sent(w)'
    <3>1. attempt[w] \in Nat /\ Requested(n) <= attempt[w] /\ \A k \in Underway(n) : k < attempt[w]
      BY <1>3, <2>5, PostRequests, SenderAssumption DEF RequestInv, WorkerInv
    <3>2. \A k \in Underway(n) : k \in Nat
      BY SenderAssumption DEF Underway
    <3> QED
      BY <1>0, <1>3, <2>5, <3>1, <3>2, PostRequests, SenderAssumption
  <2> QED
    BY <2>1, <2>2, <2>3, <2>4, <2>5 DEF RequestInv
<1>4. ASSUME NEW w \in Workers, Acknowledged(w) \/ Exhausted(w) \/ Forget(w)
      PROVE  RequestInv'
  <2>1. /\ \A v \in Workers \ {w} : Sent(v)' = Sent(v)
        /\ UNCHANGED <<queue, wire, receipts>>
    BY <1>4 DEF Acknowledged, Exhausted, Forget, Release, Goes, WorkerInv, Sent, shopVars
  <2>2. \A n \in Changes : /\ Underway(n)' = Underway(n) /\ Requested(n)' = Requested(n)
                           /\ receipts'[n] = receipts[n]
    BY <2>1, SameRequests
  <2>3. \A n : InQueue(n)' <=> InQueue(n)
    BY <2>1 DEF InQueue
  <2>4. \A n \in Changes : fate'[n] \in {"none", "dropped"} => fate[n] \in {"none", "dropped"}
    BY <1>4, EndsItem DEF FateInv
  <2>5. item'[w] = 0 /\ \A v \in Workers \ {w} : item'[v] = item[v]
    BY <1>4, EndsItem
  <2>6. \A n \in Changes : n # 0
    BY SenderAssumption DEF Changes
  <2> QED
    BY <2>1, <2>2, <2>3, <2>4, <2>5, <2>6 DEF RequestInv
<1>5. ASSUME NEW w \in Workers, Failed(w) \/ BackoffOver(w) \/ WorkerStop(w)
      PROVE  RequestInv'
  <2>1. UNCHANGED <<queue, fate, item, wire, receipts>>
    BY <1>5 DEF Failed, BackoffOver, WorkerStop, shopVars
  <2>2. \A v \in Workers : Sent(v)' = Sent(v)
    <3>1. attempt[w] \in Nat
      BY SenderAssumption DEF WorkerInv
    <3> QED
      BY <1>5, <3>1 DEF Failed, BackoffOver, WorkerStop, Goes, WorkerInv, Sent
  <2>3. \A n \in Changes : /\ Underway(n)' = Underway(n) /\ Requested(n)' = Requested(n)
                           /\ receipts'[n] = receipts[n]
    BY <2>1, SameRequests
  <2>4. \A n : InQueue(n)' <=> InQueue(n)
    BY <2>1 DEF InQueue
  <2> QED
    BY <2>1, <2>2, <2>3, <2>4 DEF RequestInv
<1>6. ASSUME NEW n \in Changes, NEW k \in 0..MaxRetries, NEW answer \in {"success", "refusal"},
             ShopHandles(n, k, answer)
      PROVE  RequestInv'
  <2>1. UNCHANGED <<queue, fate, item, at, attempt>>
    BY <1>6 DEF ShopHandles
  <2>2. \A v \in Workers : Sent(v)' = Sent(v)
    BY <2>1 DEF Sent
  <2>3. \A m : InQueue(m)' <=> InQueue(m)
    BY <2>1 DEF InQueue
  <2>4. \A m \in Changes : Requested(m)' = Requested(m) /\ Underway(m)' \subseteq Underway(m)
    BY <1>6, RequestedHandled, HandledOnce
  <2>5. ~(fate[n] \in {"none", "dropped"} \/ InQueue(n))
    BY <1>6, HandledOnce DEF RequestInv
  <2>6. \A m \in Changes \ {n} : receipts'[m] = receipts[m]
    BY <1>6, HandledOnce
  <2> QED
    BY <2>1, <2>2, <2>3, <2>4, <2>5, <2>6 DEF RequestInv
<1>7. CASE Stop \/ UNCHANGED vars
  <2>1. UNCHANGED <<queue, fate, item, at, attempt, wire, receipts>>
    BY <1>7 DEF Stop, vars, shopVars
  <2>2. \A n \in Changes : /\ Underway(n)' = Underway(n) /\ Requested(n)' = Requested(n)
                           /\ receipts'[n] = receipts[n]
    BY <2>1, SameRequests
  <2> QED
    BY <2>1, <2>2 DEF RequestInv, InQueue, Sent
<1> QED
  BY <1>1, <1>2, <1>3, <1>4, <1>5, <1>6, <1>7, NextCases DEF WorkerStep

-----------------------------------------------------------------------------
(* The invariant holds, and what it says of a state. *)

LEMMA InitInv == Init => SInv
<1> SUFFICES ASSUME Init PROVE SInv
  OBVIOUS
<1>1. QueueInv /\ FateInv
  BY SenderAssumption DEF Init, QueueInv, FateInv, Changes
<1>2. WorkerInv /\ ShopInv
  BY SenderAssumption DEF Init, WorkerInv, ShopInv
<1>3. PlaceInv /\ FoundInv
  BY DEF Init, PlaceInv, FoundInv
<1>4. RequestInv
  <2>1. ASSUME NEW n \in Changes
        PROVE  Underway(n) = {} /\ receipts[n] = 0 /\ Requested(n) = 0
    <3>1. Underway(n) = {} /\ receipts[n] = 0
      BY DEF Init, Underway
    <3> QED
      BY <3>1, FS_EmptySet DEF Requested
  <2>2. ASSUME NEW w \in Workers
        PROVE  item[w] \notin Changes
    BY SenderAssumption DEF Init, Changes
  <2> QED
    BY <2>1, <2>2, SenderAssumption DEF RequestInv
<1>5. stopped \in BOOLEAN
  BY DEF Init
<1> QED
  BY <1>1, <1>2, <1>3, <1>4, <1>5, Zenon DEF SInv

LEMMA NextInv == SInv /\ [Next]_vars => SInv'
<1> SUFFICES ASSUME SInv, [Next]_vars PROVE SInv'
  OBVIOUS
<1>1. /\ QueueInv /\ WorkerInv /\ ShopInv /\ FateInv /\ PlaceInv /\ FoundInv /\ RequestInv
      /\ stopped \in BOOLEAN
  BY Zenon DEF SInv
<1>2. QueueInv' /\ WorkerInv' /\ ShopInv'
  BY <1>1, QueueStep, WorkersStep, ShopInvStep
<1>3. FateInv' /\ PlaceInv'
  BY <1>1, FateStep, PlaceStep
<1>4. FoundInv' /\ stopped' \in BOOLEAN
  BY <1>1, FoundStep, Zenon
<1>5. RequestInv'
  BY <1>1, RequestsStep
<1> QED
  BY <1>2, <1>3, <1>4, <1>5, Zenon DEF SInv

LEMMA InvTypeOK == SInv => TypeOK
<1> SUFFICES ASSUME SInv PROVE TypeOK
  OBVIOUS
<1>1. QueueInv /\ WorkerInv /\ ShopInv /\ FateInv /\ stopped \in BOOLEAN
  BY Zenon DEF SInv
<1> QED
  BY <1>1, Zenon DEF TypeOK, QueueInv, WorkerInv, ShopInv, FateInv

LEMMA InvOnePlace ==
  ASSUME SInv
  PROVE  EachInOnePlace
<1>1. QueueInv /\ WorkerInv /\ PlaceInv /\ FoundInv
  BY DEF SInv
<1> SUFFICES ASSUME ~stopped, NEW n \in Changes
             PROVE  Cardinality(Places(n)) = IF fate[n] = "pending" THEN 1 ELSE 0
  BY DEF EachInOnePlace
<1>2. \A i, j \in 1..Len(queue) : queue[i] = queue[j] => i = j
  BY <1>1, QueuedChanges DEF QueueInv
<1>3. n # 0
  BY SenderAssumption DEF Changes
<1>4. CASE InQueue(n)
  <2>1. PICK i \in 1..Len(queue) : queue[i] = n
    BY <1>4 DEF InQueue
  <2>2. fate[n] = "pending" /\ \A w \in Workers : item[w] # n
    BY <1>1, <1>3, <1>4, <2>1 DEF PlaceInv
  <2>3. Places(n) = {<<"queue", i>>}
    BY <1>2, <2>1, <2>2 DEF Places
  <2> QED
    BY <2>2, <2>3, FS_Singleton
<1>5. ASSUME NEW w \in Workers, item[w] = n
      PROVE  Cardinality(Places(n)) = IF fate[n] = "pending" THEN 1 ELSE 0
  <2>1. fate[n] = "pending" /\ ~InQueue(n) /\ \A v \in Workers : item[v] = n => v = w
    BY <1>1, <1>3, <1>5 DEF PlaceInv
  <2>2. Places(n) = {<<"worker", w>>}
    BY <1>5, <2>1 DEF Places, InQueue
  <2> QED
    BY <2>1, <2>2, FS_Singleton
<1>6. CASE ~InQueue(n) /\ \A w \in Workers : item[w] # n
  <2>1. fate[n] # "pending"
    BY <1>1, <1>6, Zenon DEF FoundInv
  <2>2. Places(n) = {}
    BY <1>6 DEF Places, InQueue
  <2> QED
    BY <2>1, <2>2, FS_EmptySet
<1> QED
  BY <1>4, <1>5, <1>6

\* What the log says last of a callback stays.
LEMMA DoneStays ==
  ASSUME SInv, [Next]_vars, NEW n \in Changes, fate[n] \in {"dropped", "delivered", "abandoned"}
  PROVE  fate'[n] = fate[n]
<1>1. QueueInv /\ WorkerInv /\ FateInv /\ PlaceInv
  BY DEF SInv
<1>2. CASE Enqueue
  <2>1. n # announced + 1
    BY <1>1, SenderAssumption DEF FateInv, QueueInv, Changes
  <2> QED
    BY <1>1, <1>2, <2>1 DEF Enqueue, FateInv
<1>3. ASSUME NEW w \in Workers, Acknowledged(w) \/ Exhausted(w) \/ Forget(w)
      PROVE  fate'[n] = fate[n]
  <2>1. item[w] # n
    BY <1>1, <1>3, EndsItem DEF PlaceInv
  <2> QED
    BY <1>1, <1>3, <2>1, EndsItem DEF FateInv
<1>4. CASE UNCHANGED fate
  BY <1>4
<1>5. ASSUME NEW w \in Workers, WorkerStep(w)
      PROVE  fate'[n] = fate[n]
  BY <1>3, <1>4, <1>5, HoldsItem DEF Take
<1> QED
  BY <1>2, <1>4, <1>5, NextCases DEF Stop, ShopHandles, vars

LEMMA OrderStep ==
  ASSUME SInv, TakenInOrder, [Next]_vars
  PROVE  TakenInOrder'
<1>1. QueueInv /\ FateInv /\ announced \in Nat
  BY SenderAssumption DEF SInv, QueueInv
<1>2. CASE Enqueue
  <2>1. announced + 1 \in Changes /\ announced' = announced + 1
    BY <1>1, <1>2, SenderAssumption DEF Enqueue, QueueInv, Changes
  <2> SUFFICES ASSUME NEW i \in 1..Len(queue'), NEW n \in (queue'[i] + 1)..(announced + 1)
               PROVE  fate'[n] = "dropped" \/ \E j \in (i + 1)..Len(queue') : queue'[j] = n
    BY <2>1 DEF TakenInOrder
  <2>2. CASE queue' = queue /\ fate'[announced + 1] = "dropped"
    <3>1. n = announced + 1 \/ n \in (queue[i] + 1)..announced
      BY <1>1, <2>2, QueuedChanges
    <3>2. n \in (queue[i] + 1)..announced => n \in Changes
      BY <1>1, <2>2, QueuedChanges, SenderAssumption DEF QueueInv, Changes
    <3> QED
      BY <2>2, <3>1, <3>2, DoneStays DEF TakenInOrder
  <2>3. CASE queue' = Append(queue, announced + 1)
    <3>1. /\ Len(queue') = Len(queue) + 1 /\ Len(queue) \in Nat
          /\ \A j \in 1..Len(queue) : queue'[j] = queue[j]
          /\ queue'[Len(queue) + 1] = announced + 1
      BY <1>1, <2>1, <2>3, AppendChange, QueuedChanges
    <3>2. i \in 1..Len(queue) /\ queue[i] \in Nat /\ queue'[i] = queue[i]
      BY <1>1, <3>1, QueuedChanges
    <3>3. CASE n = announced + 1
      BY <3>1, <3>2, <3>3
    <3>4. CASE n \in (queue[i] + 1)..announced
      <4>1. n \in Changes
        BY <1>1, <3>2, <3>4, QueuedChanges, SenderAssumption DEF QueueInv, Changes
      <4>2. fate[n] = "dropped" \/ \E j \in (i + 1)..Len(queue) : queue[j] = n
        BY <3>2, <3>4 DEF TakenInOrder
      <4>3. \A j \in (i + 1)..Len(queue) : j \in (i + 1)..Len(queue') /\ queue'[j] = queue[j]
        BY <3>1, <3>2
      <4> QED
        BY <4>1, <4>2, <4>3, DoneStays
    <3> QED
      BY <1>1, <3>2, <3>3, <3>4
  <2> QED
    BY <1>1, <1>2, <2>1, <2>2, <2>3, EnqueueQueues DEF FateInv
<1>3. ASSUME NEW w \in Workers, Take(w)
      PROVE  TakenInOrder'
  <2>1. queue # <<>> /\ queue' = Tail(queue) /\ UNCHANGED <<announced, fate>>
    BY <1>3 DEF Take
  <2> SUFFICES ASSUME NEW i \in 1..Len(queue'), NEW n \in (queue'[i] + 1)..announced
               PROVE  fate[n] = "dropped" \/ \E j \in (i + 1)..Len(queue') : queue'[j] = n
    BY <2>1 DEF TakenInOrder
  <2>2. /\ Len(queue') = Len(queue) - 1 /\ Len(queue) \in Nat
        /\ i + 1 \in 1..Len(queue) /\ queue'[i] = queue[i + 1]
    BY <1>1, <2>1, TakeHead
  <2>3. fate[n] = "dropped" \/ \E j \in (i + 2)..Len(queue) : queue[j] = n
    <3>1. (i + 1) + 1 = i + 2
      OBVIOUS
    <3> QED
      BY <2>2, <3>1 DEF TakenInOrder
  <2>4. ASSUME NEW j \in (i + 2)..Len(queue)
        PROVE  j - 1 \in (i + 1)..Len(queue') /\ queue'[j - 1] = queue[j]
    <3>1. j - 1 \in 1..(Len(queue) - 1) /\ (j - 1) + 1 = j /\ j - 1 \in (i + 1)..Len(queue')
      BY <2>2
    <3> QED
      BY <1>1, <2>1, <3>1, TakeHead
  <2> QED
    BY <2>3, <2>4
<1>4. CASE UNCHANGED <<announced, queue>>
  <2> SUFFICES ASSUME NEW i \in 1..Len(queue), NEW n \in (queue[i] + 1)..announced
               PROVE  fate'[n] = "dropped" \/ \E j \in (i + 1)..Len(queue) : queue[j] = n
    BY <1>4 DEF TakenInOrder
  <2>1. n \in Changes
    BY <1>1, QueuedChanges, SenderAssumption DEF QueueInv, Changes
  <2> QED
    BY <2>1, DoneStays DEF TakenInOrder
<1> QED
  BY <1>2, <1>3, <1>4, NextCases, WorkerFrame DEF Stop, ShopHandles, vars

\* Only Post puts a request on the wire, and only for what is pending.
LEMMA PostsPending ==
  ASSUME SInv, [Next]_vars, NEW n \in Changes, NEW k,
         <<n, k>> \in wire', <<n, k>> \notin wire
  PROVE  fate[n] = "pending"
<1>1. WorkerInv /\ PlaceInv
  BY DEF SInv
<1>2. ASSUME NEW w \in Workers, Post(w)
      PROVE  fate[n] = "pending"
  BY <1>1, <1>2 DEF Post, WorkerInv, PlaceInv
<1> QED
  BY <1>2, NextCases, WorkerFrame DEF Enqueue, Stop, ShopHandles, vars

-----------------------------------------------------------------------------
(* Every step is one of the contract's, or none. *)

LEMMA ContractInit == Init => Delivery!Init
BY DEF Init, Delivery!Init, Changes, Delivery!Changes

LEMMA ContractStep ==
  ASSUME SInv, [Next]_vars
  PROVE  [Delivery!Next]_(Delivery!vars)
<1> USE DEF Delivery!Next, Delivery!vars, Delivery!Changes, Changes
<1>1. QueueInv /\ WorkerInv /\ ShopInv /\ FateInv /\ PlaceInv /\ RequestInv
  BY DEF SInv
<1>2. CASE Enqueue
  <2>1. announced + 1 \in Changes /\ UNCHANGED <<receipts, accepted, stopped>>
    BY <1>1, <1>2, SenderAssumption DEF Enqueue, QueueInv, shopVars
  <2>2. fate[announced + 1] = "none"
    BY <1>1, <2>1, SenderAssumption DEF FateInv, QueueInv
  <2>3. \E f \in {"pending", "dropped"} : fate' = [fate EXCEPT ![announced + 1] = f]
    BY <1>2 DEF Enqueue
  <2>4. Delivery!Announce(announced + 1)
    BY <2>1, <2>2, <2>3, Zenon DEF Delivery!Announce
  <2> QED
    BY <2>1, <2>4
<1>3. ASSUME NEW w \in Workers, Acknowledged(w) \/ Exhausted(w) \/ Forget(w)
      PROVE  [Delivery!Next]_(Delivery!vars)
  <2>1. /\ item[w] \in Changes /\ fate[item[w]] = "pending"
        /\ UNCHANGED <<receipts, accepted, stopped>>
    BY <1>1, <1>3, EndsItem DEF PlaceInv, shopVars
  <2>2. CASE fate' = fate
    BY <2>1, <2>2
  <2>3. CASE \/ fate' = [fate EXCEPT ![item[w]] = "delivered"] /\ item[w] \in accepted
             \/ fate' = [fate EXCEPT ![item[w]] = "abandoned"]
    <3>1. Delivery!Finish(item[w])
      BY <2>1, <2>3, Zenon DEF Delivery!Finish
    <3> QED
      BY <2>1, <3>1
  <2> QED
    BY <1>1, <1>3, <2>2, <2>3, EndsItem
<1>4. ASSUME NEW n \in Changes, NEW k \in 0..MaxRetries, NEW answer \in {"success", "refusal"},
             ShopHandles(n, k, answer)
      PROVE  [Delivery!Next]_(Delivery!vars)
  <2>1. fate[n] \notin {"none", "dropped"}
    BY <1>1, <1>4, HandledOnce DEF RequestInv
  <2>2. receipts[n] \in Nat /\ Requested(n) \in Nat /\ Requested(n) <= MaxRetries
    BY <1>1, UnderwayFinite, SenderAssumption DEF ShopInv, Requested, RequestInv
  <2>3. receipts[n] < MaxRetries
    BY <1>1, <1>4, <2>2, RequestedHandled, SenderAssumption
  <2>4. /\ receipts' = [receipts EXCEPT ![n] = @ + 1] /\ UNCHANGED <<fate, stopped>>
        /\ accepted' \in {accepted, accepted \cup {n}}
    BY <1>4 DEF ShopHandles
  <2>5. Delivery!Receive(n)
    BY <2>1, <2>3, <2>4, Zenon DEF Delivery!Receive
  <2> QED
    BY <2>5
<1>5. CASE Stop
  <2>1. Delivery!Stop
    BY <1>5, Zenon DEF Stop, Delivery!Stop, shopVars
  <2> QED
    BY <2>1
<1>6. CASE UNCHANGED <<fate, receipts, accepted, stopped>>
  BY <1>6
<1>7. ASSUME NEW w \in Workers, WorkerStep(w)
      PROVE  [Delivery!Next]_(Delivery!vars)
  BY <1>3, <1>6, <1>7, HoldsItem DEF Take, shopVars
<1> QED
  BY <1>2, <1>4, <1>5, <1>6, <1>7, NextCases DEF vars, shopVars

-----------------------------------------------------------------------------
(* The theorems. *)

\* The invariant the sender's promises rest on: the places a callback can be
\* in, what its log entry says and the requests sent for it never disagree.
THEOREM Invariance == Spec => []SInv
<1> QED
  BY InitInv, NextInv, PTL DEF Spec

\* The queue never outgrows its capacity, no worker counts more than
\* MaxRetries attempts and the shop hears of a change that often at most.
THEOREM TypeCorrect == Spec => []TypeOK
<1> QED
  BY Invariance, InvTypeOK, PTL

\* For any workers and capacities: while the service runs, a callback that has
\* not ended is in the queue once or with one worker, never lost, never twice.
THEOREM NoneForgotten == Spec => []EachInOnePlace
<1>1. SInv => EachInOnePlace
  BY InvOnePlace
<1> QED
  BY <1>1, Invariance, PTL

\* For any workers and capacities, the queue hands changes out in the order the
\* dispatcher made them, skipping only those it had no room for.
THEOREM OrderKept == Spec => []TakenInOrder
<1>1. Init => TakenInOrder
  BY DEF Init, TakenInOrder
<1>2. SInv /\ TakenInOrder /\ [Next]_vars => TakenInOrder'
  BY OrderStep
<1> QED
  BY <1>1, <1>2, Invariance, PTL DEF Spec

\* What the log says last of a callback is never taken back, and no request for
\* it leaves the service afterwards, even if the shop answers late.
THEOREM LastWord == Spec => QuietOnceDone
<1> DEFINE Quiet ==
      \A n \in Changes : fate[n] \in {"dropped", "delivered", "abandoned"} =>
        /\ fate'[n] = fate[n]
        /\ \A k \in 0..MaxRetries : <<n, k>> \in wire' => <<n, k>> \in wire
<1>1. SInv /\ [Next]_vars => Quiet
  BY DoneStays, PostsPending
<1>2. SInv /\ [Next]_vars => [Quiet]_vars
  BY <1>1
<1> QED
  BY <1>2, Invariance, PTL DEF Spec, QuietOnceDone

\* The sender implements the contract with the shop, for any workers, capacity
\* and attempts: no request too many, none for a dropped change, and
\* "delivered" only when the shop has said so.
THEOREM ContractKept == Spec => Delivery!Spec
<1>1. SInv /\ [Next]_vars => [Delivery!Next]_(Delivery!vars)
  BY ContractStep
<1> QED
  BY <1>1, ContractInit, Invariance, PTL DEF Spec, Delivery!Spec

-----------------------------------------------------------------------------
(* What follows from the contract alone. *)

\* What the log and the shop's own books can be relied on to agree about.
LogInv ==
  /\ fate \in [Changes -> {"none", "pending", "dropped", "delivered", "abandoned"}]
  /\ receipts \in [Changes -> Nat]
  /\ \A n \in Changes :
       /\ receipts[n] <= MaxRetries
       /\ fate[n] \in {"none", "dropped"} => receipts[n] = 0 /\ n \notin accepted
       /\ fate[n] = "delivered" => n \in accepted

LEMMA LogStep ==
  ASSUME LogInv, [Delivery!Next]_(Delivery!vars)
  PROVE  LogInv'
<1> USE DEF LogInv
<1>1. ASSUME NEW n \in Changes, Delivery!Announce(n)
      PROVE  LogInv'
  BY <1>1 DEF Delivery!Announce
<1>2. ASSUME NEW n \in Changes, Delivery!Receive(n)
      PROVE  LogInv'
  <2>1. /\ UNCHANGED fate /\ receipts' = [receipts EXCEPT ![n] = @ + 1]
        /\ fate[n] \notin {"none", "dropped"} /\ receipts[n] < MaxRetries
        /\ accepted \subseteq accepted' /\ accepted' \subseteq accepted \cup {n}
    BY <1>2 DEF Delivery!Receive
  <2>2. receipts[n] + 1 \in Nat /\ receipts[n] + 1 <= MaxRetries
    BY <2>1, SenderAssumption
  <2> QED
    BY <2>1, <2>2
<1>3. ASSUME NEW n \in Changes, Delivery!Finish(n)
      PROVE  LogInv'
  BY <1>3 DEF Delivery!Finish
<1>4. CASE UNCHANGED <<fate, receipts, accepted>>
  BY <1>4
<1> QED
  BY <1>1, <1>2, <1>3, <1>4 DEF Delivery!Next, Delivery!Stop, Delivery!vars, Delivery!Changes, Changes

\* Whatever keeps the contract with the shop, and so the sender, logs a callback
\* as delivered only if the shop took it, and as dropped only if the shop was
\* never told of it.
THEOREM LogIsTrue == Spec => []LogInv
<1>1. Delivery!Init => LogInv
  BY SenderAssumption DEF Delivery!Init, Delivery!Changes, Changes, LogInv
<1>2. LogInv /\ [Delivery!Next]_(Delivery!vars) => LogInv'
  BY LogStep
<1>3. Delivery!Spec => []LogInv
  BY <1>1, <1>2, PTL DEF Delivery!Spec
<1> QED
  BY <1>3, ContractKept, PTL
=============================================================================
