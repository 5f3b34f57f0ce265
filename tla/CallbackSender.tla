--------------------------- MODULE CallbackSender ---------------------------
(***************************************************************************)
(* The callback sender of internal/worker/callbacksender.go: the bounded   *)
(* queue the dispatcher fills without ever blocking, the pool of workers   *)
(* that drain it, each taking a callback through its attempts, and a shop  *)
(* that may answer late, refuse, or see a request the worker has given up. *)
(***************************************************************************)
EXTENDS Naturals, Sequences, FiniteSets

CONSTANTS
  Workers,      \* the goroutines Run launches
  QueueCap,     \* capacity of s.queue (256 in the code)
  MaxRetries,   \* WORKER_CALLBACK_MAX_RETRIES
  MaxChanges    \* bound: status changes of payments that have a callback URL

ASSUME SenderAssumption ==
  /\ QueueCap \in Nat \ {0}
  /\ {MaxRetries, MaxChanges} \subseteq Nat

Changes == 1..MaxChanges

VARIABLES
  announced,  \* status changes dispatched so far
  queue,      \* s.queue: the changes waiting for a worker
  at,         \* at[w]: where worker w is in worker and deliver
  item,       \* item[w]: the change w delivers, 0 for none
  attempt,    \* attempt[w]: its attempts that failed so far
  reply,      \* reply[w]: the shop's answer to the request w waits for
  wire,       \* requests, <<change, attempt>>, that may still reach the shop
  receipts,   \* receipts[n]: requests for change n the shop has handled
  accepted,   \* changes the shop answered with success
  fate,       \* fate[n]: what the sender's log says of change n
  stopped     \* the context of Run is cancelled

shopVars == <<receipts, accepted>>
vars == <<announced, queue, at, item, attempt, reply, wire, shopVars, fate, stopped>>

TypeOK ==
  /\ announced \in 0..MaxChanges
  /\ queue \in Seq(Changes) /\ Len(queue) <= QueueCap
  /\ at \in [Workers -> {"idle", "ready", "waiting", "backoff", "gone"}]
  /\ item \in [Workers -> 0..MaxChanges]
  /\ \A w \in Workers : item[w] = 0 <=> at[w] \in {"idle", "gone"}
  /\ attempt \in [Workers -> 0..MaxRetries]
  /\ reply \in [Workers -> {"none", "success", "refusal"}]
  /\ wire \in SUBSET (Changes \X (0..MaxRetries))
  /\ receipts \in [Changes -> 0..MaxRetries]
  /\ accepted \subseteq Changes
  /\ fate \in [Changes -> {"none", "pending", "dropped", "delivered", "abandoned"}]
  /\ stopped \in BOOLEAN

Init ==
  /\ announced = 0
  /\ queue = <<>>
  /\ at = [w \in Workers |-> "idle"]
  /\ item = [w \in Workers |-> 0]
  /\ attempt = [w \in Workers |-> 0]
  /\ reply = [w \in Workers |-> "none"]
  /\ wire = {}
  /\ receipts = [n \in Changes |-> 0]
  /\ accepted = {}
  /\ fate = [n \in Changes |-> "none"]
  /\ stopped = FALSE

-----------------------------------------------------------------------------
(* The dispatcher's goroutine. *)

\* Faulty form of Enqueue: a full queue makes room by dropping its oldest
\* callback, and nobody says so.
EnqueueEvicting ==
  /\ announced < MaxChanges
  /\ announced' = announced + 1
  /\ queue' = IF Len(queue) < QueueCap
              THEN Append(queue, announced + 1)
              ELSE Append(Tail(queue), announced + 1)
  /\ fate' = [fate EXCEPT ![announced + 1] = "pending"]
  /\ UNCHANGED <<at, item, attempt, reply, wire, shopVars, stopped>>

\* Faulty form of Enqueue: the newest callback is served first.
EnqueueFirst ==
  /\ announced < MaxChanges
  /\ announced' = announced + 1
  /\ IF Len(queue) < QueueCap
     THEN /\ queue' = <<announced + 1>> \o queue
          /\ fate' = [fate EXCEPT ![announced + 1] = "pending"]
     ELSE /\ fate' = [fate EXCEPT ![announced + 1] = "dropped"]
          /\ UNCHANGED queue
  /\ UNCHANGED <<at, item, attempt, reply, wire, shopVars, stopped>>

\* Never blocks: a full queue drops the new callback and logs it.
Enqueue ==
  /\ announced < MaxChanges
  /\ announced' = announced + 1
  /\ IF Len(queue) < QueueCap
     THEN /\ queue' = Append(queue, announced + 1)
          /\ fate' = [fate EXCEPT ![announced + 1] = "pending"]
     ELSE /\ fate' = [fate EXCEPT ![announced + 1] = "dropped"]
          /\ UNCHANGED queue
  /\ UNCHANGED <<at, item, attempt, reply, wire, shopVars, stopped>>

-----------------------------------------------------------------------------
(* A worker. *)

Goes(w, place) == at' = [at EXCEPT ![w] = place]

\* deliver returns.
Release(w) ==
  /\ Goes(w, "idle")
  /\ item' = [item EXCEPT ![w] = 0]
  /\ attempt' = [attempt EXCEPT ![w] = 0]

\* select takes from the queue, even if the context is cancelled by then.
Take(w) ==
  /\ at[w] = "idle"
  /\ queue # <<>>
  /\ item' = [item EXCEPT ![w] = Head(queue)]
  /\ queue' = Tail(queue)
  /\ Goes(w, "ready")
  /\ UNCHANGED <<announced, attempt, reply, wire, shopVars, fate, stopped>>

\* Faulty form of MayPost: <= for <.
MayPostOnceMore(w) == attempt[w] <= MaxRetries

MayPost(w) == attempt[w] < MaxRetries

Post(w) ==
  /\ at[w] = "ready"
  /\ MayPost(w)
  /\ ~stopped
  /\ wire' = wire \cup {<<item[w], attempt[w]>>}
  /\ reply' = [reply EXCEPT ![w] = "none"]
  /\ Goes(w, "waiting")
  /\ UNCHANGED <<announced, queue, item, attempt, shopVars, fate, stopped>>

\* Faulty form of Acknowledged: any answer counts as success.
AcknowledgedAny(w) ==
  /\ at[w] = "waiting"
  /\ reply[w] # "none"
  /\ fate' = [fate EXCEPT ![item[w]] = "delivered"]
  /\ reply' = [reply EXCEPT ![w] = "none"]
  /\ Release(w)
  /\ UNCHANGED <<announced, queue, wire, shopVars, stopped>>

\* Faulty form of Acknowledged: the loop goes on after a success.
AcknowledgedGoesOn(w) ==
  /\ at[w] = "waiting"
  /\ reply[w] = "success"
  /\ fate' = [fate EXCEPT ![item[w]] = "delivered"]
  /\ reply' = [reply EXCEPT ![w] = "none"]
  /\ attempt' = [attempt EXCEPT ![w] = @ + 1]
  /\ Goes(w, "ready")
  /\ UNCHANGED <<announced, queue, item, wire, shopVars, stopped>>

Acknowledged(w) ==
  /\ at[w] = "waiting"
  /\ reply[w] = "success"
  /\ fate' = [fate EXCEPT ![item[w]] = "delivered"]
  /\ reply' = [reply EXCEPT ![w] = "none"]
  /\ Release(w)
  /\ UNCHANGED <<announced, queue, wire, shopVars, stopped>>

\* Faulty form of Failed: a failure does not count as an attempt.
FailedUncounted(w) ==
  /\ at[w] = "waiting"
  /\ reply' = [reply EXCEPT ![w] = "none"]
  /\ Goes(w, "backoff")
  /\ UNCHANGED <<announced, queue, item, attempt, wire, shopVars, fate, stopped>>

\* The post failed: a refusal, WORKER_CALLBACK_TIMEOUT or a broken connection, with
\* the request or its answer still under way, or the context cancelled.
Failed(w) ==
  /\ at[w] = "waiting"
  /\ reply' = [reply EXCEPT ![w] = "none"]
  /\ attempt' = [attempt EXCEPT ![w] = @ + 1]
  /\ Goes(w, IF attempt[w] + 1 < MaxRetries THEN "backoff" ELSE "ready")
  /\ UNCHANGED <<announced, queue, item, wire, shopVars, fate, stopped>>

BackoffOver(w) ==
  /\ at[w] = "backoff"
  /\ Goes(w, "ready")
  /\ UNCHANGED <<announced, queue, item, attempt, reply, wire, shopVars, fate, stopped>>

Exhausted(w) ==
  /\ at[w] = "ready"
  /\ ~MayPost(w)
  /\ fate' = [fate EXCEPT ![item[w]] = "abandoned"]
  /\ Release(w)
  /\ UNCHANGED <<announced, queue, reply, wire, shopVars, stopped>>

\* ctx.Err() before an attempt or ctx.Done() during the back-off: the
\* callback is forgotten without a word.
Forget(w) ==
  /\ stopped
  /\ at[w] = "backoff" \/ (at[w] = "ready" /\ MayPost(w))
  /\ Release(w)
  /\ UNCHANGED <<announced, queue, reply, wire, shopVars, fate, stopped>>

WorkerStop(w) ==
  /\ stopped
  /\ at[w] = "idle"
  /\ Goes(w, "gone")
  /\ UNCHANGED <<announced, queue, item, attempt, reply, wire, shopVars, fate, stopped>>

-----------------------------------------------------------------------------
(* The shop and the operator of the service. *)

\* A request that reaches the shop is answered; only a worker that still
\* waits for that request hears the answer.
ShopHandles(n, k, answer) ==
  /\ <<n, k>> \in wire
  /\ wire' = wire \ {<<n, k>>}
  /\ receipts' = [receipts EXCEPT ![n] = @ + 1]
  /\ accepted' = IF answer = "success" THEN accepted \cup {n} ELSE accepted
  /\ reply' = [w \in Workers |->
                 IF at[w] = "waiting" /\ item[w] = n /\ attempt[w] = k THEN answer ELSE reply[w]]
  /\ UNCHANGED <<announced, queue, at, item, attempt, fate, stopped>>

Stop ==
  /\ ~stopped
  /\ stopped' = TRUE
  /\ UNCHANGED <<announced, queue, at, item, attempt, reply, wire, shopVars, fate>>

-----------------------------------------------------------------------------

WorkerStep(w) ==
  \/ Take(w)
  \/ Post(w)
  \/ Acknowledged(w)
  \/ Failed(w)
  \/ BackoffOver(w)
  \/ Exhausted(w)
  \/ Forget(w)
  \/ WorkerStop(w)

ShopStep ==
  \E n \in Changes, k \in 0..MaxRetries, answer \in {"success", "refusal"} :
    ShopHandles(n, k, answer)

Next == Enqueue \/ (\E w \in Workers : WorkerStep(w)) \/ ShopStep \/ Stop

\* The HTTP client has a timeout, back-offs end and a worker at select takes
\* what is in the queue.  Nothing makes the shop answer.
Fairness == \A w \in Workers : WF_vars(WorkerStep(w))

Spec == Init /\ [][Next]_vars
FairSpec == Spec /\ Fairness

-----------------------------------------------------------------------------
(* What the sender promises. *)

Places(n) ==
  {<<"queue", i>> : i \in {j \in 1..Len(queue) : queue[j] = n}}
    \cup {<<"worker", w>> : w \in {v \in Workers : item[v] = n}}

\* While the service runs, a callback that is neither dropped nor ended is in
\* exactly one place, the queue or one worker's hands: none is forgotten and
\* no two workers tell the shop of the same change at the same time.
EachInOnePlace ==
  ~stopped => \A n \in Changes : Cardinality(Places(n)) = IF fate[n] = "pending" THEN 1 ELSE 0

\* Changes leave the queue in the order they were dispatched: a later one
\* overtakes an earlier one only while some worker is busy with the latter.
TakenInOrder ==
  \A i \in 1..Len(queue) : \A n \in (queue[i] + 1)..announced :
    fate[n] = "dropped" \/ \E j \in (i + 1)..Len(queue) : queue[j] = n

\* Once the log says a callback was delivered, exhausted or dropped, that is
\* the last word and no request for it is sent any more.
QuietOnceDone ==
  [][\A n \in Changes : fate[n] \in {"dropped", "delivered", "abandoned"} =>
       /\ fate'[n] = fate[n]
       /\ \A k \in 0..MaxRetries : <<n, k>> \in wire' => <<n, k>> \in wire]_vars

Delivery == INSTANCE CallbackDelivery

\* The sender keeps the contract with the shop, whatever is refused, lost,
\* late or stopped: at most MaxRetries requests for a change, none for a
\* dropped one, "delivered" only if the shop said so and, as long as the service
\* runs, every pending callback ends, whether the shop ever answers or not.
KeepsContract == Delivery!FairSpec
=============================================================================
