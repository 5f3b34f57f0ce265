----------------------------- MODULE HubProofs -----------------------------
(***************************************************************************)
(* Proofs about Hub for any connections, rooms and channel capacities: no  *)
(* channel outgrows its capacity; every connection hears of its room only, *)
(* in order; no channel is closed twice; and whoever is in a room with a   *)
(* closed channel, which alone can make Run panic, is one whose Unregister *)
(* select took before its Register.                                        *)
(***************************************************************************)
EXTENDS Hub, SequenceTheorems, TLAPS

\* What the proof needs of the variables' types.
Shape ==
  /\ members \in [Rooms -> SUBSET Conns]
  /\ subscribe \in Seq(Conns)
  /\ unsubscribe \in Seq(Conns)
  /\ handler \in [Conns -> {"new", "registering", "serving", "leaving", "gone"}]
  /\ room \in [Conns -> CustomerRooms \cup {Global}]
  /\ closed \subseteq Conns
  /\ crossed \subseteq Conns
  /\ hub \in {"running", "stopped", "panicked"}

Distinct(queue) == \A i, j \in 1..Len(queue) : queue[i] = queue[j] => i = j

Member(c) == \E r \in Rooms : c \in members[r]

\* Where c stands between its handler and the hub.  A handler that has not
\* registered c is all there is of it; until it is done with c, the hub has heard
\* of no Unregister; and an Unregister that was taken was c's only one, and came
\* after its Register unless the two crossed.
Stage(c) ==
  /\ handler[c] \in {"new", "registering"} => ~Queued(subscribe, c) /\ ~Member(c)
  /\ handler[c] # "gone" => ~Queued(unsubscribe, c) /\ c \notin closed
  /\ Queued(unsubscribe, c) => c \notin closed
  /\ c \in closed => c \in crossed \/ (~Queued(subscribe, c) /\ ~Member(c))

Stages == \A c \in Conns : Stage(c)

HInv ==
  /\ Shape
  /\ Distinct(subscribe)
  /\ Distinct(unsubscribe)
  /\ Stages
  /\ PanicNeedsGhost

-----------------------------------------------------------------------------
(* Queues. *)

\* Appending adds one element, and a new one leaves the queue distinct.
LEMMA AppendQueue ==
  ASSUME NEW S, NEW q \in Seq(S), NEW c \in S
  PROVE  /\ Append(q, c) \in Seq(S)
         /\ \A d : Queued(Append(q, c), d) <=> d = c \/ Queued(q, d)
         /\ Distinct(q) /\ ~Queued(q, c) => Distinct(Append(q, c))
<1>1. /\ Append(q, c) \in Seq(S)
      /\ Len(q) \in Nat
      /\ Len(Append(q, c)) = Len(q) + 1
      /\ \A i \in 1..Len(q) : Append(q, c)[i] = q[i]
      /\ Append(q, c)[Len(q) + 1] = c
  OBVIOUS
<1>2. \A i : i \in 1..(Len(q) + 1) <=> i \in 1..Len(q) \/ i = Len(q) + 1
  BY <1>1
<1>3. \A d : Queued(Append(q, c), d) <=> d = c \/ Queued(q, d)
  BY <1>1, <1>2 DEF Queued
<1>4. Distinct(q) /\ ~Queued(q, c) => Distinct(Append(q, c))
  BY <1>1, <1>2 DEF Queued, Distinct
<1> QED
  BY <1>1, <1>3, <1>4

\* Taking the head of a distinct queue takes that element out of it.
LEMMA TailQueue ==
  ASSUME NEW S, NEW q \in Seq(S), q # <<>>
  PROVE  /\ Head(q) \in S
         /\ Tail(q) \in Seq(S)
         /\ Queued(q, Head(q))
         /\ \A d : Queued(Tail(q), d) => Queued(q, d)
         /\ Distinct(q) => Distinct(Tail(q)) /\ ~Queued(Tail(q), Head(q))
<1>1. /\ Len(q) \in Nat \ {0}
      /\ Head(q) = q[1]
      /\ Head(q) \in S
      /\ Tail(q) \in Seq(S)
      /\ Len(Tail(q)) = Len(q) - 1
      /\ \A i \in 1..(Len(q) - 1) : Tail(q)[i] = q[i + 1]
  OBVIOUS
<1>2. \A i \in 1..(Len(q) - 1) : i \in Nat /\ i + 1 \in 1..Len(q) /\ i + 1 # 1
  BY <1>1
<1>3. 1 \in 1..Len(q)
  BY <1>1
<1>4. Queued(q, Head(q)) /\ \A d : Queued(Tail(q), d) => Queued(q, d)
  BY <1>1, <1>2, <1>3 DEF Queued
<1>5. ASSUME Distinct(q)
      PROVE  Distinct(Tail(q)) /\ ~Queued(Tail(q), Head(q))
  <2>1. \A i, j \in 1..(Len(q) - 1) : i + 1 = j + 1 => i = j
    BY <1>2
  <2>2. Distinct(Tail(q))
    BY <1>1, <1>2, <1>5, <2>1 DEF Distinct
  <2>3. ~Queued(Tail(q), Head(q))
    BY <1>1, <1>2, <1>3, <1>5 DEF Distinct, Queued
  <2> QED
    BY <2>2, <2>3
<1> QED
  BY <1>1, <1>4, <1>5

-----------------------------------------------------------------------------
(* Types and capacities. *)

\* A full channel blocks its sender or drops the message, an empty one blocks
\* its receiver: appending and taking keep a queue within its capacity.
LEMMA BoundedQueue ==
  ASSUME NEW S, NEW q \in Seq(S), NEW cap \in Nat, Len(q) <= cap
  PROVE  /\ \A x \in S : Len(q) < cap => Append(q, x) \in Seq(S) /\ Len(Append(q, x)) <= cap
         /\ q # <<>> => Head(q) \in S /\ Tail(q) \in Seq(S) /\ Len(Tail(q)) <= cap
<1>1. ASSUME NEW x \in S, Len(q) < cap
      PROVE  Append(q, x) \in Seq(S) /\ Len(Append(q, x)) <= cap
  <2>1. Append(q, x) \in Seq(S) /\ Len(Append(q, x)) = Len(q) + 1 /\ Len(q) \in Nat
    OBVIOUS
  <2> QED
    BY <1>1, <2>1
<1>2. ASSUME q # <<>>
      PROVE  Head(q) \in S /\ Tail(q) \in Seq(S) /\ Len(Tail(q)) <= cap
  <2>1. Head(q) \in S /\ Tail(q) \in Seq(S) /\ Len(Tail(q)) = Len(q) - 1 /\ Len(q) \in Nat
    BY <1>2
  <2> QED
    BY <2>1
<1> QED
  BY <1>1, <1>2

LEMMA SendToT ==
  ASSUME TypeOK, hub = "running", NEW targets, NEW msg \in Messages, SendTo(targets, msg)
  PROVE  /\ hub' \in {"running", "panicked"}
         /\ send' \in [Conns -> Seq(Messages)]
         /\ \A c \in Conns : Len(send'[c]) <= SendCap
<1>1. SendCap \in Nat
  BY HubAssumption
<1>2. ASSUME NEW c \in Conns
      PROVE  send'[c] \in Seq(Messages) /\ Len(send'[c]) <= SendCap
  <2>1. send[c] \in Seq(Messages) /\ Len(send[c]) <= SendCap
    BY DEF TypeOK
  <2>2. CASE c \in targets /\ Len(send[c]) < SendCap
    <3>1. send'[c] = Append(send[c], msg)
      BY <2>2 DEF SendTo, HasRoom
    <3> QED
      BY <1>1, <2>1, <2>2, <3>1, BoundedQueue
  <2>3. CASE ~(c \in targets /\ Len(send[c]) < SendCap)
    BY <2>1, <2>3 DEF SendTo, HasRoom
  <2> QED
    BY <2>2, <2>3
<1>3. send' = [c \in Conns |-> send'[c]]
  BY DEF SendTo
<1> QED
  BY <1>2, <1>3 DEF SendTo

LEMMA BroadcastT ==
  ASSUME TypeOK, NEW r \in Rooms, NEW m \in Messages, Broadcast(r, m)
  PROVE  broadcast' \in Seq([room : Rooms, msg : Messages]) /\ Len(broadcast') <= BroadcastCap
<1>1. BroadcastCap \in Nat /\ [room |-> r, msg |-> m] \in [room : Rooms, msg : Messages]
  BY HubAssumption
<1>2. broadcast \in Seq([room : Rooms, msg : Messages]) /\ Len(broadcast) <= BroadcastCap
  BY DEF TypeOK
<1> QED
  BY <1>1, <1>2, BoundedQueue DEF Broadcast

LEMMA InitT == Init => TypeOK
<1>1. /\ 0 \in 0..MaxMessages /\ 0 \in 0..MaxPings
      /\ 0 <= ControlCap /\ 0 <= BroadcastCap /\ 0 <= SendCap
  BY HubAssumption
<1> QED
  BY <1>1 DEF Init, TypeOK

LEMMA StepT ==
  ASSUME TypeOK, [Next]_vars
  PROVE  TypeOK'
<1> USE HubAssumption
<1> USE DEF TypeOK, hubVars, connVars, pumpVars, dispVars
<1>1. ASSUME NEW c \in Conns, ConnStep(c)
      PROVE  TypeOK'
  <2>1. CASE Accept(c)
    BY <2>1 DEF Accept
  <2>2. CASE Register(c)
    <3>1. subscribe' \in Seq(Conns) /\ Len(subscribe') <= ControlCap
      BY <2>2, BoundedQueue DEF Register
    <3> QED
      BY <2>2, <3>1 DEF Register
  <2>3. CASE ContextDone(c)
    BY <2>3 DEF ContextDone
  <2>4. CASE Unregister(c)
    <3>1. unsubscribe' \in Seq(Conns) /\ Len(unsubscribe') <= ControlCap
      BY <2>4, BoundedQueue DEF Unregister
    <3> QED
      BY <2>4, <3>1 DEF Unregister
  <2>5. CASE PumpTake(c)
    <3>1. /\ send[c] \in Seq(Messages) /\ Len(send[c]) <= SendCap /\ send[c] # <<>>
          /\ send' = [send EXCEPT ![c] = Tail(@)]
          /\ writing' = [writing EXCEPT ![c] = <<Head(send[c])>>]
      BY <2>5 DEF PumpTake
    <3>2. /\ Head(send[c]) \in Messages
          /\ Tail(send[c]) \in Seq(Messages) /\ Len(Tail(send[c])) <= SendCap
      BY <3>1, BoundedQueue
    <3>3. send' \in [Conns -> Seq(Messages)] /\ \A d \in Conns : Len(send'[d]) <= SendCap
      BY <3>1, <3>2
    <3>4. /\ <<Head(send[c])>> \in Seq(Messages)
          /\ Len(<<Head(send[c])>>) <= 1
      BY <3>2
    <3>5. writing' \in [Conns -> Seq(Messages)] /\ \A d \in Conns : Len(writing'[d]) <= 1
      BY <3>1, <3>4
    <3> QED
      BY <2>5, <3>3, <3>5 DEF PumpTake
  <2>6. CASE PumpWrite(c)
    <3>1. written[c] \o writing[c] \in Seq(Messages)
      OBVIOUS
    <3>2. <<>> \in Seq(Messages) /\ Len(<<>>) <= 1
      OBVIOUS
    <3>3. written' \in [Conns -> Seq(Messages)]
      BY <2>6, <3>1 DEF PumpWrite
    <3>4. writing' \in [Conns -> Seq(Messages)] /\ \A d \in Conns : Len(writing'[d]) <= 1
      BY <2>6, <3>2 DEF PumpWrite
    <3> QED
      BY <2>6, <3>3, <3>4 DEF PumpWrite
  <2>7. CASE PumpEnd(c)
    BY <2>7 DEF PumpEnd
  <2> QED
    BY <1>1, <2>1, <2>2, <2>3, <2>4, <2>5, <2>6, <2>7 DEF ConnStep
<1>2. CASE HubStep
  <2>1. CASE HubSubscribe
    <3>1. /\ Head(subscribe) \in Conns
          /\ subscribe' \in Seq(Conns) /\ Len(subscribe') <= ControlCap
      BY <2>1, BoundedQueue DEF HubSubscribe
    <3>2. members' \in [Rooms -> SUBSET Conns]
      BY <2>1, <3>1 DEF HubSubscribe
    <3> QED
      BY <2>1, <3>1, <3>2 DEF HubSubscribe
  <2>2. CASE HubUnsubscribe
    <3>1. /\ Head(unsubscribe) \in Conns
          /\ unsubscribe' \in Seq(Conns) /\ Len(unsubscribe') <= ControlCap
      BY <2>2, BoundedQueue DEF HubUnsubscribe
    <3>2. members' \in [Rooms -> SUBSET Conns]
      BY <2>2, <3>1 DEF HubUnsubscribe, LeaveRooms
    <3> QED
      BY <2>2, <3>1, <3>2 DEF HubUnsubscribe, CloseSend
  <2>3. CASE HubBroadcast
    <3>1. /\ Head(broadcast) \in [room : Rooms, msg : Messages]
          /\ broadcast' \in Seq([room : Rooms, msg : Messages])
          /\ Len(broadcast') <= BroadcastCap
      BY <2>3, BoundedQueue DEF HubBroadcast
    <3>2. /\ hub' \in {"running", "panicked"}
          /\ send' \in [Conns -> Seq(Messages)]
          /\ \A c \in Conns : Len(send'[c]) <= SendCap
      BY <2>3, <3>1, SendToT DEF HubBroadcast
    <3> QED
      BY <2>3, <3>1, <3>2 DEF HubBroadcast
  <2>4. CASE HubPing
    <3>1. pings' \in 0..MaxPings
      BY <2>4 DEF HubPing
    <3>2. /\ hub' \in {"running", "panicked"}
          /\ send' \in [Conns -> Seq(Messages)]
          /\ \A c \in Conns : Len(send'[c]) <= SendCap
      BY <2>4, SendToT DEF HubPing, Messages
    <3> QED
      BY <2>4, <3>1, <3>2 DEF HubPing
  <2>5. CASE HubStop
    BY <2>5 DEF HubStop
  <2> QED
    BY <1>2, <2>1, <2>2, <2>3, <2>4, <2>5 DEF HubStep
<1>3. CASE DispatcherStep
  <2>1. ASSUME NEW p \in Payments, DispatchPayment(p)
        PROVE  TypeOK'
    <3> DEFINE m == [n |-> dispatched + 1, about |-> p]
    <3>1. dispatched' \in 0..MaxMessages /\ dispatched + 1 \in 1..MaxMessages
      BY <2>1 DEF DispatchPayment
    <3>2. m \in Messages /\ p \in Rooms
      BY <3>1 DEF Messages, Rooms
    <3>3. Broadcast(p, m) /\ halfway' = <<m>>
      BY <2>1 DEF DispatchPayment
    <3> HIDE DEF m
    <3>4. /\ broadcast' \in Seq([room : Rooms, msg : Messages])
          /\ Len(broadcast') <= BroadcastCap
      BY <3>2, <3>3, BroadcastT
    <3>5. halfway' \in Seq(Messages) /\ Len(halfway') <= 1
      BY <3>2, <3>3
    <3> QED
      BY <2>1, <3>1, <3>4, <3>5 DEF DispatchPayment
  <2>2. CASE DispatchGlobal
    <3>1. Head(halfway) \in Messages /\ Global \in Rooms
      BY <2>2 DEF DispatchGlobal, Rooms
    <3>2. /\ broadcast' \in Seq([room : Rooms, msg : Messages])
          /\ Len(broadcast') <= BroadcastCap
      BY <2>2, <3>1, BroadcastT DEF DispatchGlobal
    <3>3. halfway' \in Seq(Messages) /\ Len(halfway') <= 1
      BY <2>2 DEF DispatchGlobal
    <3> QED
      BY <2>2, <3>2, <3>3 DEF DispatchGlobal
  <2> QED
    BY <1>3, <2>1, <2>2 DEF DispatcherStep
<1>4. CASE UNCHANGED vars
  BY <1>4 DEF vars
<1> QED
  BY <1>1, <1>2, <1>3, <1>4 DEF Next

-----------------------------------------------------------------------------
(* The steps that move a connection. *)

LEMMA InitH == Init => HInv
BY DEF Init, HInv, Shape, Distinct, Stages, Stage, Queued, Member, PanicNeedsGhost

LEMMA RegisterH ==
  ASSUME HInv, NEW c \in Conns, Register(c)
  PROVE  HInv'
<1> USE DEF HInv, Shape
<1>1. /\ handler[c] = "registering"
      /\ subscribe' = Append(subscribe, c)
      /\ handler' = [handler EXCEPT ![c] = "serving"]
      /\ UNCHANGED <<members, hub, closed, crossed, unsubscribe, room>>
  BY DEF Register, hubVars
<1>2. ~Queued(subscribe, c) /\ ~Queued(unsubscribe, c) /\ c \notin closed
  <2>1. Stage(c)
    BY DEF Stages
  <2> QED
    BY <1>1, <2>1 DEF Stage
<1>3. /\ subscribe' \in Seq(Conns)
      /\ \A d : Queued(subscribe', d) <=> d = c \/ Queued(subscribe, d)
      /\ Distinct(subscribe')
  BY <1>1, <1>2, AppendQueue
<1>4. Stages'
  <2> SUFFICES ASSUME NEW d \in Conns PROVE Stage(d)'
    BY DEF Stages
  <2>1. Member(d)' <=> Member(d)
    BY <1>1 DEF Member
  <2> QED
    BY <1>1, <1>2, <1>3, <2>1 DEF Stages, Stage, Queued
<1>5. PanicNeedsGhost'
  BY <1>1 DEF PanicNeedsGhost
<1> QED
  BY <1>1, <1>3, <1>4, <1>5 DEF Distinct

LEMMA UnregisterH ==
  ASSUME HInv, NEW c \in Conns, Unregister(c)
  PROVE  HInv'
<1> USE DEF HInv, Shape
<1>1. /\ handler[c] = "leaving"
      /\ unsubscribe' = Append(unsubscribe, c)
      /\ handler' = [handler EXCEPT ![c] = "gone"]
      /\ UNCHANGED <<members, hub, closed, crossed, subscribe, room>>
  BY DEF Unregister, hubVars
<1>2. ~Queued(unsubscribe, c) /\ c \notin closed
  <2>1. Stage(c)
    BY DEF Stages
  <2> QED
    BY <1>1, <2>1 DEF Stage
<1>3. /\ unsubscribe' \in Seq(Conns)
      /\ \A d : Queued(unsubscribe', d) <=> d = c \/ Queued(unsubscribe, d)
      /\ Distinct(unsubscribe')
  BY <1>1, <1>2, AppendQueue
<1>4. Stages'
  <2> SUFFICES ASSUME NEW d \in Conns PROVE Stage(d)'
    BY DEF Stages
  <2>1. Member(d)' <=> Member(d)
    BY <1>1 DEF Member
  <2> QED
    BY <1>1, <1>2, <1>3, <2>1 DEF Stages, Stage, Queued
<1>5. PanicNeedsGhost'
  BY <1>1 DEF PanicNeedsGhost
<1> QED
  BY <1>1, <1>3, <1>4, <1>5 DEF Distinct

LEMMA HubSubscribeH ==
  ASSUME HInv, HubSubscribe
  PROVE  HInv'
<1> USE DEF HInv, Shape
<1> DEFINE c == Head(subscribe)
<1>1. /\ subscribe # <<>> /\ hub = "running"
      /\ members' = [members EXCEPT ![room[c]] = @ \cup {c}]
      /\ subscribe' = Tail(subscribe)
      /\ UNCHANGED <<unsubscribe, hub, closed, crossed, handler, room>>
  BY DEF HubSubscribe, connVars
<1>2. /\ c \in Conns
      /\ subscribe' \in Seq(Conns)
      /\ Queued(subscribe, c)
      /\ \A d : Queued(subscribe', d) => Queued(subscribe, d)
      /\ Distinct(subscribe')
      /\ ~Queued(subscribe', c)
  BY <1>1, TailQueue
<1> HIDE DEF c
<1>3. handler[c] \notin {"new", "registering"} /\ (c \in closed => c \in crossed)
  BY <1>2 DEF Stages, Stage
<1>4. members' \in [Rooms -> SUBSET Conns]
  BY <1>1, <1>2
<1>5. \A d \in Conns \ {c} : Member(d)' => Member(d)
  BY <1>1, <1>2 DEF Member
<1>6. Stages'
  <2> SUFFICES ASSUME NEW d \in Conns PROVE Stage(d)'
    BY DEF Stages
  <2>1. Queued(unsubscribe, d)' <=> Queued(unsubscribe, d)
    BY <1>1 DEF Queued
  <2>2. CASE d = c
    BY <1>1, <1>2, <1>3, <2>1, <2>2 DEF Stages, Stage
  <2>3. CASE d # c
    BY <1>1, <1>2, <1>5, <2>1, <2>3 DEF Stages, Stage
  <2> QED
    BY <2>2, <2>3
<1>7. PanicNeedsGhost'
  BY <1>1 DEF PanicNeedsGhost
<1> QED
  BY <1>1, <1>2, <1>4, <1>6, <1>7 DEF Distinct

LEMMA HubUnsubscribeH ==
  ASSUME HInv, HubUnsubscribe
  PROVE  HInv'
<1> USE DEF HInv, Shape
<1> DEFINE c == Head(unsubscribe)
<1>1. /\ unsubscribe # <<>> /\ hub = "running"
      /\ members' = [r \in Rooms |-> members[r] \ {c}]
      /\ closed' = closed \cup {c}
      /\ hub' = IF c \in closed THEN "panicked" ELSE hub
      /\ crossed' = IF Queued(subscribe, c) THEN crossed \cup {c} ELSE crossed
      /\ unsubscribe' = Tail(unsubscribe)
      /\ UNCHANGED <<subscribe, handler, room>>
  BY DEF HubUnsubscribe, LeaveRooms, CloseSend, connVars
<1>2. /\ c \in Conns
      /\ unsubscribe' \in Seq(Conns)
      /\ Queued(unsubscribe, c)
      /\ \A d : Queued(unsubscribe', d) => Queued(unsubscribe, d)
      /\ Distinct(unsubscribe')
      /\ ~Queued(unsubscribe', c)
  BY <1>1, TailQueue
<1> HIDE DEF c
<1>3. handler[c] = "gone" /\ c \notin closed
  BY <1>2 DEF Stages, Stage
<1>4. /\ members' \in [Rooms -> SUBSET Conns]
      /\ \A r \in Rooms : members'[r] = members[r] \ {c}
  BY <1>1
<1>5. \A d \in Conns : Member(d)' => Member(d) /\ d # c
  BY <1>4 DEF Member
<1>6. Stages'
  <2> SUFFICES ASSUME NEW d \in Conns PROVE Stage(d)'
    BY DEF Stages
  <2>1. Stage(d) /\ (Member(d)' => Member(d) /\ d # c)
    BY <1>5 DEF Stages
  <2>2. Queued(subscribe, d)' <=> Queued(subscribe, d)
    BY <1>1 DEF Queued
  <2>3. CASE d = c
    BY <1>1, <1>2, <1>3, <2>1, <2>2, <2>3 DEF Stage
  <2>4. CASE d # c
    BY <1>1, <1>2, <2>1, <2>2, <2>4 DEF Stage
  <2> QED
    BY <2>3, <2>4
<1>7. Shape'
  BY <1>1, <1>2, <1>3, <1>4
<1>8. PanicNeedsGhost'
  BY <1>1, <1>3 DEF PanicNeedsGhost
<1>9. Distinct(subscribe)' /\ Distinct(unsubscribe)'
  BY <1>1, <1>2 DEF Distinct
<1> QED
  BY <1>6, <1>7, <1>8, <1>9

\* A member of a room with a closed channel is a ghost.
LEMMA ClosedMembers ==
  ASSUME HInv, NEW r \in Rooms
  PROVE  members[r] \cap closed \subseteq crossed
BY DEF HInv, Shape, Stages, Stage, Member

\* A message sent to members of rooms meets a closed channel at a ghost only.
LEMMA SendToH ==
  ASSUME HInv,
         NEW targets, targets \subseteq UNION {members[r] : r \in Rooms},
         NEW msg, SendTo(targets, msg)
  PROVE  \/ hub' = hub
         \/ \E r \in Rooms : members[r] \cap closed \cap crossed # {}
<1>1. CASE targets \cap closed = {}
  BY <1>1 DEF SendTo
<1>2. CASE targets \cap closed # {}
  <2>1. PICK c \in targets : c \in closed
    BY <1>2
  <2>2. PICK r \in Rooms : c \in members[r]
    BY <2>1
  <2>3. c \in crossed
    BY <2>1, <2>2, ClosedMembers
  <2> QED
    BY <2>1, <2>2, <2>3
<1> QED
  BY <1>1, <1>2

\* Steps that leave the queues, the rooms and the handlers alone.
LEMMA ElsewhereH ==
  ASSUME HInv,
         UNCHANGED <<members, subscribe, unsubscribe, handler, room, closed, crossed>>,
         hub' \in {"running", "stopped", "panicked"},
         hub' = hub \/ hub' = "stopped" \/ \E r \in Rooms : members[r] \cap closed \cap crossed # {}
  PROVE  HInv'
<1>1. Stages'
  BY DEF HInv, Stages, Stage, Queued, Member
<1>2. PanicNeedsGhost'
  BY DEF HInv, PanicNeedsGhost
<1> QED
  BY <1>1, <1>2 DEF HInv, Shape, Distinct

\* A handler that has not registered its connection, or that stops serving it,
\* moves on by itself.
LEMMA HandlerH ==
  ASSUME HInv, NEW c \in Conns, Accept(c) \/ ContextDone(c)
  PROVE  HInv'
<1> USE DEF HInv, Shape
<1>1. UNCHANGED <<members, subscribe, unsubscribe, hub, closed, crossed, room>>
  BY DEF Accept, ContextDone, hubVars
<1>2. \/ handler[c] = "new" /\ handler' = [handler EXCEPT ![c] = "registering"]
      \/ handler[c] = "serving" /\ handler' = [handler EXCEPT ![c] = "leaving"]
  BY DEF Accept, ContextDone
<1>3. Stages'
  <2> SUFFICES ASSUME NEW d \in Conns PROVE Stage(d)'
    BY DEF Stages
  <2>1. /\ Member(d)' <=> Member(d)
        /\ Queued(subscribe, d)' <=> Queued(subscribe, d)
        /\ Queued(unsubscribe, d)' <=> Queued(unsubscribe, d)
    BY <1>1 DEF Member, Queued
  <2> QED
    BY <1>1, <1>2, <2>1 DEF Stages, Stage
<1>4. PanicNeedsGhost'
  BY <1>1 DEF PanicNeedsGhost
<1> QED
  BY <1>1, <1>2, <1>3, <1>4 DEF Distinct

\* Every step keeps the invariant.
LEMMA StepH ==
  ASSUME TypeOK, HInv, [Next]_vars
  PROVE  HInv'
<1>1. ASSUME NEW c \in Conns, ConnStep(c)
      PROVE  HInv'
  <2>1. CASE Accept(c) \/ ContextDone(c)
    BY <2>1, HandlerH
  <2>2. CASE Register(c)
    BY <2>2, RegisterH
  <2>3. CASE Unregister(c)
    BY <2>3, UnregisterH
  <2>4. CASE PumpTake(c) \/ PumpWrite(c) \/ PumpEnd(c)
    BY <2>4, ElsewhereH DEF TypeOK, PumpTake, PumpWrite, PumpEnd, hubVars, connVars
  <2> QED
    BY <1>1, <2>1, <2>2, <2>3, <2>4 DEF ConnStep
<1>2. CASE HubStep
  <2>1. CASE HubSubscribe
    BY <2>1, HubSubscribeH
  <2>2. CASE HubUnsubscribe
    BY <2>2, HubUnsubscribeH
  <2>3. CASE HubBroadcast
    <3>1. broadcast # <<>> /\ SendTo(members[Head(broadcast).room], Head(broadcast).msg)
      BY <2>3 DEF HubBroadcast
    <3>2. Head(broadcast).room \in Rooms
      <4>1. /\ broadcast \in Seq([room : Rooms, msg : Messages])
            /\ Len(broadcast) \in Nat /\ Len(broadcast) <= BroadcastCap /\ BroadcastCap \in Nat
        BY HubAssumption DEF TypeOK
      <4>2. Head(broadcast) \in [room : Rooms, msg : Messages]
        BY <3>1, <4>1, BoundedQueue
      <4> QED
        BY <4>2
    <3>3. members[Head(broadcast).room] \subseteq UNION {members[r] : r \in Rooms}
      BY <3>2
    <3>4. hub' = hub \/ \E r \in Rooms : members[r] \cap closed \cap crossed # {}
      BY <3>1, <3>3, SendToH
    <3>5. hub' \in {"running", "stopped", "panicked"}
      BY <3>1 DEF SendTo, TypeOK
    <3> QED
      BY <2>3, <3>4, <3>5, ElsewhereH DEF HubBroadcast, connVars
  <2>4. CASE HubPing
    <3>1. SendTo(UNION {members[r] : r \in Rooms}, Ping)
      BY <2>4 DEF HubPing
    <3>2. hub' = hub \/ \E r \in Rooms : members[r] \cap closed \cap crossed # {}
      BY <3>1, SendToH
    <3>3. hub' \in {"running", "stopped", "panicked"}
      BY <3>1 DEF SendTo, TypeOK
    <3> QED
      BY <2>4, <3>2, <3>3, ElsewhereH DEF HubPing, connVars
  <2>5. CASE HubStop
    BY <2>5, ElsewhereH DEF HubStop, connVars
  <2> QED
    BY <1>2, <2>1, <2>2, <2>3, <2>4, <2>5 DEF HubStep
<1>3. CASE DispatcherStep
  BY <1>3, ElsewhereH DEF TypeOK, DispatcherStep, DispatchPayment, DispatchGlobal, hubVars, connVars
<1>4. CASE UNCHANGED vars
  BY <1>4, ElsewhereH DEF TypeOK, vars, hubVars, connVars
<1> QED
  BY <1>1, <1>2, <1>3, <1>4 DEF Next

-----------------------------------------------------------------------------
(* The theorems. *)

\* No channel ever holds more than its capacity, and every message is one the
\* dispatcher or the ping ticker made, whatever the capacities.
THEOREM TypeCorrect == Spec => []TypeOK
<1>1. Init => TypeOK
  BY InitT
<1>2. TypeOK /\ [Next]_vars => TypeOK'
  BY StepT
<1> QED
  BY <1>1, <1>2, PTL DEF Spec

\* The invariant the hub's safety rests on: hub.go never lets a connection be
\* in a room, or wait to enter one, once its Unregister has been taken, unless
\* select took that before the connection's Register.
THEOREM Invariance == Spec => []HInv
<1>1. Init => HInv
  BY InitH
<1>2. TypeOK /\ HInv /\ [Next]_vars => HInv'
  BY StepH
<1> QED
  BY <1>1, <1>2, TypeCorrect, PTL DEF Spec

\* For any connections and capacities, and whenever contexts end: Run closes no
\* channel twice, and if it panics, then because a room has a ghost in it.
THEOREM OnlyGhostsPanic == Spec => []PanicNeedsGhost
<1>1. HInv => PanicNeedsGhost
  BY DEF HInv
<1> QED
  BY <1>1, Invariance, PTL

\* For any connections and capacities, and whenever contexts end: a connection
\* whose Unregister the hub has taken is in no room, then or later, unless its own
\* Unregister was taken before its Register.
THEOREM UnregisteredStaysOut == Spec => []UnregisteredIsOut
<1>1. HInv => UnregisteredIsOut
  BY ClosedMembers DEF UnregisteredIsOut
<1> QED
  BY <1>1, Invariance, PTL

-----------------------------------------------------------------------------
(* The feeds. *)

\* The messages that wait for the hub: changes already dispatched, each for its
\* payment's room or the operators', and those for one room in order.
WaitingInv ==
  /\ \A k \in 1..Len(broadcast) :
       /\ broadcast[k].msg # Ping
       /\ broadcast[k].msg.n <= dispatched
       /\ broadcast[k].room \in {broadcast[k].msg.about, Global}
  /\ \A j, k \in 1..Len(broadcast) :
       j < k /\ broadcast[j].room = broadcast[k].room => broadcast[j].msg.n < broadcast[k].msg.n

\* A change halfway to the operators' room is the last one, and not there yet.
HalfwayInv ==
  halfway # <<>> =>
    /\ Head(halfway) # Ping
    /\ Head(halfway).n = dispatched
    /\ \A k \in 1..Len(broadcast) : broadcast[k].room = Global => broadcast[k].msg.n < dispatched

RoomsInv == \A r \in Rooms : \A c \in members[r] : room[c] = r

\* What c has heard of comes before all that still waits for its room.
HeardInv ==
  \A c \in Conns : \A i \in Events(c) :
    /\ Feed(c)[i].n <= dispatched
    /\ halfway # <<>> /\ room[c] = Global => Feed(c)[i].n < dispatched
    /\ \A k \in 1..Len(broadcast) : broadcast[k].room = room[c] => Feed(c)[i].n < broadcast[k].msg.n

FeedInv == WaitingInv /\ HalfwayInv /\ RoomsInv /\ HeardInv /\ FeedTellsTheRoom

LEMMA Reassociate ==
  ASSUME NEW s \in Seq(Messages), NEW t \in Seq(Messages), NEW u \in Seq(Messages)
  PROVE  (s \o t) \o u = s \o (t \o u)
BY ConcatAssociative

LEMMA FeedSeq ==
  ASSUME TypeOK, NEW c \in Conns
  PROVE  /\ Feed(c) \in Seq(Messages) /\ Len(Feed(c)) \in Nat
         /\ \A i \in 1..Len(Feed(c)) : Feed(c)[i] \in Messages /\ Feed(c)[i].n \in Nat
<1>1. written[c] \in Seq(Messages) /\ writing[c] \in Seq(Messages) /\ send[c] \in Seq(Messages)
  BY DEF TypeOK
<1>2. Feed(c) \in Seq(Messages)
  BY <1>1, ConcatProperties DEF Feed
<1>3. \A m \in Messages : m.n \in Nat
  BY HubAssumption DEF Messages, Ping
<1> QED
  BY <1>2, <1>3

\* The write pump moves messages along the feed and changes nothing in it.
LEMMA PumpKeepsFeed ==
  ASSUME TypeOK, NEW c \in Conns, NEW d \in Conns, PumpTake(d) \/ PumpWrite(d)
  PROVE  Feed(c)' = Feed(c)
<1>1. written[c] \in Seq(Messages) /\ writing[c] \in Seq(Messages) /\ send[c] \in Seq(Messages)
  BY DEF TypeOK
<1>2. CASE c # d
  BY <1>2 DEF TypeOK, PumpTake, PumpWrite, Feed
<1>3. CASE c = d /\ PumpTake(d)
  <2>1. /\ writing[c] = <<>> /\ send[c] # <<>> /\ written'[c] = written[c]
        /\ writing'[c] = <<Head(send[c])>> /\ send'[c] = Tail(send[c])
    BY <1>3 DEF TypeOK, PumpTake
  <2>2. /\ Head(send[c]) \in Messages /\ <<Head(send[c])>> \in Seq(Messages)
        /\ Tail(send[c]) \in Seq(Messages)
    BY <1>1, <2>1
  <2>3. <<Head(send[c])>> \o Tail(send[c]) = send[c]
    <3>1. Len(send[c]) \in Nat \ {0} /\ 1 \in 1..Len(send[c])
      BY <1>1, <2>1
    <3>2. SubSeq(send[c], 1, Len(send[c])) = <<send[c][1]>> \o SubSeq(send[c], 2, Len(send[c]))
      BY <1>1, <3>1, SubSeqRecursiveFirst
    <3>3. SubSeq(send[c], 1, Len(send[c])) = send[c]
      BY <1>1, SubSeqFull
    <3>4. Tail(send[c]) = SubSeq(send[c], 2, Len(send[c])) /\ Head(send[c]) = send[c][1]
      BY <1>1, <2>1, TailIsSubSeq
    <3> QED
      BY <3>2, <3>3, <3>4
  <2>4. (written[c] \o <<Head(send[c])>>) \o Tail(send[c]) = written[c] \o send[c]
    <3>1. (written[c] \o <<Head(send[c])>>) \o Tail(send[c])
            = written[c] \o (<<Head(send[c])>> \o Tail(send[c]))
      BY <1>1, <2>2, Reassociate, Zenon
    <3> QED
      BY <2>3, <3>1, Zenon
  <2>5. written[c] \o <<>> = written[c]
    BY <1>1, ConcatEmptySeq
  <2> QED
    BY <2>1, <2>4, <2>5 DEF Feed
<1>4. CASE c = d /\ PumpWrite(d)
  <2>1. written'[c] = written[c] \o writing[c] /\ writing'[c] = <<>> /\ send'[c] = send[c]
    BY <1>4 DEF TypeOK, PumpWrite
  <2>2. (written[c] \o writing[c]) \o <<>> = written[c] \o writing[c]
    BY <1>1, ConcatProperties, ConcatEmptySeq
  <2> QED
    BY <2>1, <2>2 DEF Feed
<1> QED
  BY <1>2, <1>3, <1>4

\* What the hub sends is added at the end of the feeds of those it is sent to.
LEMMA SendGrowsFeed ==
  ASSUME TypeOK, NEW c \in Conns, NEW targets, NEW msg \in Messages, SendTo(targets, msg),
         UNCHANGED <<writing, written>>
  PROVE  \/ Feed(c)' = Feed(c)
         \/ c \in targets /\ Feed(c)' = Append(Feed(c), msg)
<1>1. written[c] \in Seq(Messages) /\ writing[c] \in Seq(Messages) /\ send[c] \in Seq(Messages)
  BY DEF TypeOK
<1>2. CASE send'[c] = send[c]
  BY <1>2 DEF Feed
<1>3. CASE c \in targets /\ send'[c] = Append(send[c], msg)
  <2>1. written[c] \o writing[c] \in Seq(Messages) /\ <<msg>> \in Seq(Messages)
    BY <1>1, ConcatProperties
  <2>2. Append(send[c], msg) = send[c] \o <<msg>>
    BY <1>1, AppendIsConcat
  <2>3. Append(Feed(c), msg) = Feed(c) \o <<msg>>
    BY FeedSeq, AppendIsConcat
  <2>4. ((written[c] \o writing[c]) \o send[c]) \o <<msg>>
          = (written[c] \o writing[c]) \o (send[c] \o <<msg>>)
    BY <1>1, <2>1, Reassociate, Zenon
  <2> QED
    BY <1>3, <2>2, <2>3, <2>4 DEF Feed
<1> QED
  BY <1>2, <1>3 DEF SendTo

\* Only the hub adds to a feed: the message at the head of its queue, to the
\* members of that message's room, or a ping.
LEMMA FeedStep ==
  ASSUME TypeOK, [Next]_vars, NEW c \in Conns
  PROVE  \/ Feed(c)' = Feed(c)
         \/ HubPing /\ Feed(c)' = Append(Feed(c), Ping)
         \/ /\ HubBroadcast
            /\ c \in members[Head(broadcast).room]
            /\ Feed(c)' = Append(Feed(c), Head(broadcast).msg)
<1>1. CASE HubBroadcast
  <2>1. broadcast \in Seq([room : Rooms, msg : Messages]) /\ broadcast # <<>>
    BY <1>1 DEF TypeOK, HubBroadcast
  <2>2. Head(broadcast).msg \in Messages
    <3>1. Head(broadcast) \in [room : Rooms, msg : Messages]
      BY <2>1, HeadTailProperties, Zenon
    <3> QED
      BY <3>1
  <2> QED
    BY <1>1, <2>2, SendGrowsFeed DEF HubBroadcast, pumpVars
<1>2. CASE HubPing
  <2>1. Ping \in Messages
    BY DEF Messages
  <2> QED
    BY <1>2, <2>1, SendGrowsFeed DEF HubPing, pumpVars
<1>3. ASSUME NEW d \in Conns, PumpTake(d) \/ PumpWrite(d)
      PROVE  Feed(c)' = Feed(c)
  BY <1>3, PumpKeepsFeed
<1>4. ASSUME UNCHANGED <<written, writing, send>>
      PROVE  Feed(c)' = Feed(c)
  BY <1>4 DEF Feed
<1>5. ASSUME NEW d \in Conns, ConnStep(d)
      PROVE  Feed(c)' = Feed(c)
  <2>1. CASE Accept(d) \/ Register(d) \/ ContextDone(d) \/ Unregister(d) \/ PumpEnd(d)
    <3>1. UNCHANGED <<written, writing, send>>
      BY <2>1 DEF Accept, Register, ContextDone, Unregister, PumpEnd, pumpVars
    <3> QED
      BY <1>4, <3>1
  <2> QED
    BY <1>3, <1>5, <2>1 DEF ConnStep
<1>6. CASE HubSubscribe \/ HubUnsubscribe \/ HubStop
  BY <1>4, <1>6 DEF HubSubscribe, HubUnsubscribe, HubStop, pumpVars
<1>7. CASE DispatcherStep
  BY <1>4, <1>7 DEF DispatcherStep, DispatchPayment, DispatchGlobal, pumpVars
<1>8. CASE UNCHANGED vars
  BY <1>4, <1>8 DEF vars, pumpVars
<1> QED
  BY <1>1, <1>2, <1>5, <1>6, <1>7, <1>8 DEF Next, HubStep

\* A feed that did not change tells of the same changes, one that grew of one
\* more, unless that was a ping.
LEMMA EventsStay ==
  ASSUME NEW c \in Conns, Feed(c)' = Feed(c)
  PROVE  Events(c)' = Events(c)
BY DEF Events

LEMMA EventsGrow ==
  ASSUME TypeOK, NEW c \in Conns, NEW msg \in Messages, Feed(c)' = Append(Feed(c), msg)
  PROVE  /\ \A i \in Events(c)' :
              \/ i \in Events(c) /\ Feed(c)'[i] = Feed(c)[i]
              \/ i = Len(Feed(c)) + 1 /\ Feed(c)'[i] = msg /\ msg # Ping
         /\ \A i \in Events(c) : i \in Nat /\ i < Len(Feed(c)) + 1
<1>1. /\ Len(Feed(c)') = Len(Feed(c)) + 1 /\ Len(Feed(c)) \in Nat
      /\ \A i \in 1..Len(Feed(c)) : Feed(c)'[i] = Feed(c)[i]
      /\ Feed(c)'[Len(Feed(c)) + 1] = msg
  BY FeedSeq, AppendProperties
<1>2. \A i \in 1..(Len(Feed(c)) + 1) : i \in 1..Len(Feed(c)) \/ i = Len(Feed(c)) + 1
  BY <1>1
<1>3. Events(c)' = {i \in 1..Len(Feed(c)') : Feed(c)'[i] # Ping}
  BY DEF Events
<1> QED
  BY <1>1, <1>2, <1>3 DEF Events

-----------------------------------------------------------------------------
(* The messages that wait for the hub. *)

LEMMA WaitingTyped ==
  ASSUME TypeOK
  PROVE  /\ Len(broadcast) \in Nat /\ dispatched \in Nat
         /\ \A k \in 1..Len(broadcast) :
              /\ broadcast[k].msg \in Messages /\ broadcast[k].msg.n \in Nat
              /\ broadcast[k].room \in Rooms
<1>1. \A m \in Messages : m.n \in Nat
  BY HubAssumption DEF Messages, Ping
<1>2. broadcast \in Seq([room : Rooms, msg : Messages])
  BY DEF TypeOK
<1>3. Len(broadcast) \in Nat /\ \A k \in 1..Len(broadcast) : broadcast[k] \in [room : Rooms, msg : Messages]
  BY <1>2, LenProperties, ElementOfSeq, Zenon
<1>4. dispatched \in Nat
  BY HubAssumption DEF TypeOK
<1> QED
  BY <1>1, <1>3, <1>4

LEMMA BroadcastAdds ==
  ASSUME TypeOK, NEW r \in Rooms, NEW m \in Messages, Broadcast(r, m)
  PROVE  \/ broadcast' = broadcast
         \/ /\ Len(broadcast') = Len(broadcast) + 1
            /\ \A k \in 1..Len(broadcast) : broadcast'[k] = broadcast[k]
            /\ broadcast'[Len(broadcast) + 1].room = r
            /\ broadcast'[Len(broadcast) + 1].msg = m
            /\ \A k \in 1..Len(broadcast') : k \in 1..Len(broadcast) \/ k = Len(broadcast) + 1
<1> DEFINE b == [room |-> r, msg |-> m]
<1>1. b \in [room : Rooms, msg : Messages] /\ b.room = r /\ b.msg = m
  OBVIOUS
<1>2. broadcast \in Seq([room : Rooms, msg : Messages])
  BY DEF TypeOK
<1>3. broadcast' = broadcast \/ broadcast' = Append(broadcast, b)
  BY DEF Broadcast
<1> HIDE DEF b
<1>4. CASE broadcast' = Append(broadcast, b)
  <2>1. /\ Len(broadcast') = Len(broadcast) + 1 /\ Len(broadcast) \in Nat
        /\ \A k \in 1..Len(broadcast) : broadcast'[k] = broadcast[k]
        /\ broadcast'[Len(broadcast) + 1] = b
    BY <1>1, <1>2, <1>4
  <2> QED
    BY <1>1, <2>1
<1> QED
  BY <1>3, <1>4

\* DispatchPayment makes the next change and DispatchGlobal repeats the last.
LEMMA DispatchesPayment ==
  ASSUME TypeOK, NEW p \in Payments, DispatchPayment(p)
  PROVE  /\ dispatched' = dispatched + 1 /\ halfway = <<>>
         /\ UNCHANGED <<members, room>> /\ p \in Rooms /\ p # Global
         /\ \E m \in Messages : /\ Broadcast(p, m) /\ halfway' = <<m>>
                                /\ m.n = dispatched + 1 /\ m.about = p /\ m # Ping
<1> DEFINE m == [n |-> dispatched + 1, about |-> p]
<1>1. dispatched + 1 \in 1..MaxMessages /\ dispatched + 1 # 0
  BY WaitingTyped, HubAssumption DEF DispatchPayment, TypeOK
<1>2. m \in Messages /\ m.n = dispatched + 1 /\ m.about = p
  BY <1>1 DEF Messages
<1>3. m # Ping
  BY <1>1, <1>2 DEF Ping
<1>4. Broadcast(p, m) /\ halfway' = <<m>>
  BY DEF DispatchPayment
<1> HIDE DEF m
<1>5. p \in Rooms /\ p # Global
  BY HubAssumption DEF Rooms
<1> QED
  BY <1>2, <1>3, <1>4, <1>5 DEF DispatchPayment, hubVars, connVars

LEMMA DispatchesGlobal ==
  ASSUME TypeOK, HalfwayInv, DispatchGlobal
  PROVE  /\ halfway # <<>> /\ halfway' = <<>> /\ UNCHANGED <<dispatched, members, room>>
         /\ \E m \in Messages : /\ Broadcast(Global, m) /\ m.n = dispatched /\ m # Ping
                                /\ Global \in Rooms
<1>1. halfway # <<>> /\ Head(halfway) \in Messages
  BY DEF DispatchGlobal, TypeOK
<1> QED
  BY <1>1 DEF DispatchGlobal, HalfwayInv, Rooms, hubVars, connVars

LEMMA HubTakes ==
  ASSUME TypeOK, HubBroadcast
  PROVE  /\ Len(broadcast') = Len(broadcast) - 1 /\ 1 \in 1..Len(broadcast)
         /\ Head(broadcast) = broadcast[1]
         /\ \A k \in 1..Len(broadcast') :
              broadcast'[k] = broadcast[k + 1] /\ k + 1 \in 1..Len(broadcast) /\ 1 < k + 1
         /\ UNCHANGED <<dispatched, halfway, members, room>>
<1>1. broadcast \in Seq([room : Rooms, msg : Messages]) /\ broadcast # <<>> /\ broadcast' = Tail(broadcast)
  BY DEF TypeOK, HubBroadcast
<1>2. /\ Len(broadcast) \in Nat \ {0} /\ Len(broadcast') = Len(broadcast) - 1
      /\ Head(broadcast) = broadcast[1]
      /\ \A k \in 1..(Len(broadcast) - 1) : broadcast'[k] = broadcast[k + 1]
  BY <1>1
<1>3. 1 \in 1..Len(broadcast)
        /\ \A k \in 1..(Len(broadcast) - 1) : k + 1 \in 1..Len(broadcast) /\ 1 < k + 1
  BY <1>2
<1> QED
  BY <1>2, <1>3 DEF HubBroadcast, dispVars, connVars

\* The steps the queue of messages, its contents' feeds and rooms depend on.
LEMMA HubCases ==
  ASSUME [Next]_vars
  PROVE  \/ \E p \in Payments : DispatchPayment(p)
         \/ DispatchGlobal
         \/ HubBroadcast
         \/ UNCHANGED <<broadcast, dispatched, halfway>>
<1>1. CASE UNCHANGED vars
  BY <1>1 DEF vars, dispVars
<1>2. ASSUME NEW c \in Conns, ConnStep(c)
      PROVE  UNCHANGED <<broadcast, dispatched, halfway>>
  BY <1>2 DEF ConnStep, Accept, Register, ContextDone, Unregister, PumpTake, PumpWrite, PumpEnd, dispVars
<1>3. CASE HubSubscribe \/ HubUnsubscribe \/ HubPing \/ HubStop
  BY <1>3 DEF HubSubscribe, HubUnsubscribe, HubPing, HubStop, dispVars
<1> QED
  BY <1>1, <1>2, <1>3 DEF Next, HubStep, DispatcherStep

\* A message later than all that wait for its room may wait behind them.
LEMMA WaitsBehind ==
  ASSUME TypeOK, WaitingInv, NEW r \in Rooms, NEW m \in Messages, Broadcast(r, m),
         m # Ping, r \in {m.about, Global},
         dispatched' \in Nat, dispatched <= dispatched', m.n <= dispatched',
         \A k \in 1..Len(broadcast) : broadcast[k].room = r => broadcast[k].msg.n < m.n
  PROVE  WaitingInv'
<1>1. /\ \A k \in 1..Len(broadcast) :
           /\ broadcast[k].msg # Ping /\ broadcast[k].msg.n <= dispatched'
           /\ broadcast[k].room \in {broadcast[k].msg.about, Global}
      /\ \A j, k \in 1..Len(broadcast) :
           j < k /\ broadcast[j].room = broadcast[k].room => broadcast[j].msg.n < broadcast[k].msg.n
  BY WaitingTyped DEF WaitingInv
<1>2. CASE broadcast' = broadcast
  BY <1>1, <1>2 DEF WaitingInv
<1>3. CASE broadcast' # broadcast
  <2>1. /\ Len(broadcast') = Len(broadcast) + 1 /\ Len(broadcast) \in Nat
        /\ \A k \in 1..Len(broadcast) : broadcast'[k] = broadcast[k]
        /\ broadcast'[Len(broadcast) + 1].room = r
        /\ broadcast'[Len(broadcast) + 1].msg = m
        /\ \A k \in 1..Len(broadcast') : k \in 1..Len(broadcast) \/ k = Len(broadcast) + 1
    BY <1>3, BroadcastAdds, WaitingTyped
  <2>2. \A k \in 1..Len(broadcast') :
          /\ broadcast'[k].msg # Ping /\ broadcast'[k].msg.n <= dispatched'
          /\ broadcast'[k].room \in {broadcast'[k].msg.about, Global}
    BY <1>1, <2>1
  <2>3. ASSUME NEW j \in 1..Len(broadcast'), NEW k \in 1..Len(broadcast'),
               j < k, broadcast'[j].room = broadcast'[k].room
        PROVE  broadcast'[j].msg.n < broadcast'[k].msg.n
    <3>1. j \in 1..Len(broadcast) /\ broadcast'[j] = broadcast[j]
      BY <2>1, <2>3
    <3>2. CASE k \in 1..Len(broadcast)
      <4>1. broadcast'[k] = broadcast[k]
        BY <2>1, <3>2
      <4> QED
        BY <1>1, <2>3, <3>1, <3>2, <4>1
    <3>3. CASE k = Len(broadcast) + 1
      <4>1. broadcast[j].room = r
        BY <2>1, <2>3, <3>1, <3>3
      <4>2. broadcast[j].msg.n < m.n
        BY <3>1, <4>1
      <4> QED
        BY <2>1, <3>1, <3>3, <4>2
    <3> QED
      BY <2>1, <3>2, <3>3
  <2> QED
    BY <2>2, <2>3 DEF WaitingInv
<1> QED
  BY <1>2, <1>3

LEMMA WaitingStep ==
  ASSUME TypeOK, WaitingInv, HalfwayInv, [Next]_vars
  PROVE  WaitingInv'
<1> USE WaitingTyped
<1>1. ASSUME NEW p \in Payments, DispatchPayment(p)
      PROVE  WaitingInv'
  <2>1. PICK m \in Messages : Broadcast(p, m) /\ m.n = dispatched + 1 /\ m.about = p /\ m # Ping
    BY <1>1, DispatchesPayment
  <2>2. dispatched' = dispatched + 1 /\ p \in Rooms
    BY <1>1, DispatchesPayment
  <2>3. /\ dispatched' \in Nat /\ dispatched <= dispatched' /\ m.n <= dispatched'
        /\ \A k \in 1..Len(broadcast) : broadcast[k].msg.n < m.n
    BY <2>1, <2>2 DEF WaitingInv
  <2> QED
    BY <2>1, <2>2, <2>3, WaitsBehind
<1>2. CASE DispatchGlobal
  <2>1. PICK m \in Messages : Broadcast(Global, m) /\ m.n = dispatched /\ m # Ping /\ Global \in Rooms
    BY <1>2, DispatchesGlobal
  <2>2. dispatched' = dispatched /\ halfway # <<>>
    BY <1>2, DispatchesGlobal
  <2>3. \A k \in 1..Len(broadcast) : broadcast[k].room = Global => broadcast[k].msg.n < m.n
    BY <2>1, <2>2 DEF HalfwayInv
  <2> QED
    BY <2>1, <2>2, <2>3, WaitsBehind
<1>3. CASE HubBroadcast
  <2>1. \A j, k \in 1..Len(broadcast') : j < k => j + 1 < k + 1
    BY <1>3, HubTakes
  <2> QED
    BY <1>3, <2>1, HubTakes DEF WaitingInv
<1>4. CASE UNCHANGED <<broadcast, dispatched, halfway>>
  BY <1>4 DEF WaitingInv
<1> QED
  BY <1>1, <1>2, <1>3, <1>4, HubCases

LEMMA HalfwayStep ==
  ASSUME TypeOK, WaitingInv, HalfwayInv, [Next]_vars
  PROVE  HalfwayInv'
<1> USE WaitingTyped
<1>1. ASSUME NEW p \in Payments, DispatchPayment(p)
      PROVE  HalfwayInv'
  <2>1. PICK m \in Messages : /\ Broadcast(p, m) /\ halfway' = <<m>>
                              /\ m.n = dispatched + 1 /\ m.about = p /\ m # Ping
    BY <1>1, DispatchesPayment
  <2>2. dispatched' = dispatched + 1 /\ p \in Rooms /\ p # Global
    BY <1>1, DispatchesPayment
  <2>3. Head(halfway') = m
    BY <2>1
  <2>4. \A k \in 1..Len(broadcast') :
          broadcast'[k].room = Global => k \in 1..Len(broadcast) /\ broadcast'[k] = broadcast[k]
    BY <2>1, <2>2, BroadcastAdds
  <2> QED
    BY <2>1, <2>2, <2>3, <2>4 DEF WaitingInv, HalfwayInv
<1>2. CASE DispatchGlobal
  BY <1>2, DispatchesGlobal DEF HalfwayInv
<1>3. CASE HubBroadcast
  BY <1>3, HubTakes DEF HalfwayInv
<1>4. CASE UNCHANGED <<broadcast, dispatched, halfway>>
  BY <1>4 DEF HalfwayInv
<1> QED
  BY <1>1, <1>2, <1>3, <1>4, HubCases

\* A connection is added to its own room, and to no other.
LEMMA RoomsStep ==
  ASSUME TypeOK, RoomsInv, [Next]_vars
  PROVE  RoomsInv' /\ room' = room
<1>1. CASE UNCHANGED <<members, room>>
  BY <1>1 DEF RoomsInv
<1>2. CASE HubSubscribe
  <2>1. members' = [members EXCEPT ![room[Head(subscribe)]] = @ \cup {Head(subscribe)}] /\ room' = room
    BY <1>2 DEF HubSubscribe, connVars
  <2> QED
    BY <2>1 DEF RoomsInv, TypeOK
<1>3. CASE HubUnsubscribe
  <2>1. /\ \A r \in Rooms : members'[r] = members[r] \ {Head(unsubscribe)}
        /\ room' = room
    BY <1>3 DEF HubUnsubscribe, LeaveRooms, connVars
  <2> QED
    BY <2>1 DEF RoomsInv
<1>4. ASSUME NEW c \in Conns, ConnStep(c)
      PROVE  UNCHANGED <<members, room>>
  BY <1>4 DEF ConnStep, Accept, Register, ContextDone, Unregister, PumpTake, PumpWrite, PumpEnd,
              hubVars, connVars
<1>5. CASE HubBroadcast \/ HubPing \/ HubStop
  BY <1>1, <1>5 DEF HubBroadcast, HubPing, HubStop, connVars
<1>6. CASE DispatcherStep
  BY <1>1, <1>6 DEF DispatcherStep, DispatchPayment, DispatchGlobal, hubVars, connVars
<1>7. CASE UNCHANGED vars
  BY <1>1, <1>7 DEF vars, hubVars, connVars
<1> QED
  BY <1>1, <1>2, <1>3, <1>4, <1>5, <1>6, <1>7 DEF Next, HubStep

-----------------------------------------------------------------------------
(* The feeds follow the queue. *)

LEMMA HeardStep ==
  ASSUME TypeOK, WaitingInv, HalfwayInv, RoomsInv, HeardInv, [Next]_vars
  PROVE  HeardInv'
<1> USE WaitingTyped
<1> SUFFICES ASSUME NEW c \in Conns
             PROVE  \A i \in Events(c)' :
                      /\ Feed(c)'[i].n <= dispatched'
                      /\ halfway' # <<>> /\ room'[c] = Global => Feed(c)'[i].n < dispatched'
                      /\ \A k \in 1..Len(broadcast') :
                           broadcast'[k].room = room'[c] => Feed(c)'[i].n < broadcast'[k].msg.n
  BY DEF HeardInv
<1>0. room' = room /\ \A i \in Events(c) : Feed(c)[i].n \in Nat
  BY RoomsStep, FeedSeq DEF Events
<1>1. \A i \in Events(c) :
        /\ Feed(c)[i].n <= dispatched
        /\ halfway # <<>> /\ room[c] = Global => Feed(c)[i].n < dispatched
        /\ \A k \in 1..Len(broadcast) : broadcast[k].room = room[c] => Feed(c)[i].n < broadcast[k].msg.n
  BY DEF HeardInv
<1>2. ASSUME NEW p \in Payments, DispatchPayment(p)
      PROVE  \A i \in Events(c) :
               /\ Feed(c)[i].n < dispatched'
               /\ \A k \in 1..Len(broadcast') :
                    broadcast'[k].room = room[c] => Feed(c)[i].n < broadcast'[k].msg.n
  <2>1. PICK m \in Messages : Broadcast(p, m) /\ m.n = dispatched + 1
    BY <1>2, DispatchesPayment
  <2>2. dispatched' = dispatched + 1 /\ p \in Rooms
    BY <1>2, DispatchesPayment
  <2>3. \A k \in 1..Len(broadcast') :
          (k \in 1..Len(broadcast) /\ broadcast'[k] = broadcast[k]) \/ broadcast'[k].msg = m
    BY <2>1, <2>2, BroadcastAdds
  <2> QED
    BY <1>0, <1>1, <2>1, <2>2, <2>3
<1>3. ASSUME DispatchGlobal
      PROVE  /\ \A i \in Events(c) : \A k \in 1..Len(broadcast') :
                  broadcast'[k].room = room[c] => Feed(c)[i].n < broadcast'[k].msg.n
             /\ halfway' = <<>> /\ dispatched' = dispatched
  <2>1. PICK m \in Messages : Broadcast(Global, m) /\ m.n = dispatched /\ Global \in Rooms
    BY <1>3, DispatchesGlobal
  <2>2. halfway # <<>> /\ halfway' = <<>> /\ dispatched' = dispatched
    BY <1>3, DispatchesGlobal
  <2>3. \A k \in 1..Len(broadcast') :
          \/ k \in 1..Len(broadcast) /\ broadcast'[k] = broadcast[k]
          \/ broadcast'[k].msg = m /\ broadcast'[k].room = Global
    BY <2>1, BroadcastAdds
  <2> QED
    BY <1>1, <2>1, <2>2, <2>3
<1>4. ASSUME HubBroadcast
      PROVE  /\ UNCHANGED <<dispatched, halfway>> /\ Head(broadcast) = broadcast[1] /\ 1 \in 1..Len(broadcast)
             /\ \A k \in 1..Len(broadcast') :
                  broadcast'[k] = broadcast[k + 1] /\ k + 1 \in 1..Len(broadcast) /\ 1 < k + 1
  BY <1>4, HubTakes
<1>5. CASE \A i \in Events(c)' : i \in Events(c) /\ Feed(c)'[i] = Feed(c)[i]
  <2>1. CASE \E p \in Payments : DispatchPayment(p)
    <3>1. \A i \in Events(c) :
            /\ Feed(c)[i].n < dispatched' /\ dispatched' \in Nat
            /\ \A k \in 1..Len(broadcast') :
                 broadcast'[k].room = room[c] => Feed(c)[i].n < broadcast'[k].msg.n
      BY <1>2, <2>1, DispatchesPayment
    <3> QED
      BY <1>0, <1>5, <3>1
  <2>2. CASE DispatchGlobal
    BY <1>0, <1>1, <1>3, <1>5, <2>2
  <2>3. CASE HubBroadcast
    BY <1>0, <1>1, <1>4, <1>5, <2>3
  <2>4. CASE UNCHANGED <<broadcast, dispatched, halfway>>
    BY <1>0, <1>1, <1>5, <2>4
  <2> QED
    BY <2>1, <2>2, <2>3, <2>4, HubCases
<1>6. CASE /\ HubBroadcast /\ c \in members[Head(broadcast).room]
           /\ Feed(c)' = Append(Feed(c), Head(broadcast).msg)
  <2>1. /\ room[c] = broadcast[1].room
        /\ broadcast[1].msg \in Messages /\ broadcast[1].msg.n <= dispatched
        /\ \A k \in 1..Len(broadcast') :
             broadcast'[k].room = room[c] => broadcast[1].msg.n < broadcast'[k].msg.n
    <3>1. room[c] = broadcast[1].room
      BY <1>4, <1>6 DEF RoomsInv
    <3>2. /\ broadcast[1].msg \in Messages /\ broadcast[1].msg.n <= dispatched
          /\ \A k \in 2..Len(broadcast) :
               broadcast[k].room = broadcast[1].room => broadcast[1].msg.n < broadcast[k].msg.n
      BY <1>4, <1>6 DEF WaitingInv
    <3>3. \A k \in 1..Len(broadcast') : broadcast'[k] = broadcast[k + 1] /\ k + 1 \in 2..Len(broadcast)
      BY <1>4, <1>6
    <3> QED
      BY <3>1, <3>2, <3>3
  <2>2. halfway # <<>> /\ room[c] = Global => broadcast[1].msg.n < dispatched
    BY <1>4, <1>6, <2>1 DEF HalfwayInv
  <2>3. Feed(c)' = Append(Feed(c), broadcast[1].msg)
    BY <1>4, <1>6
  <2>4. \A i \in Events(c)' :
          (i \in Events(c) /\ Feed(c)'[i] = Feed(c)[i]) \/ Feed(c)'[i] = broadcast[1].msg
    BY <2>1, <2>3, EventsGrow, Zenon
  <2> QED
    BY <1>0, <1>1, <1>4, <1>6, <2>1, <2>2, <2>4
<1>7. CASE Feed(c)' = Append(Feed(c), Ping)
  <2>1. Ping \in Messages
    BY DEF Messages
  <2>2. \A i \in Events(c)' : i \in Events(c) /\ Feed(c)'[i] = Feed(c)[i]
    BY <1>7, <2>1, EventsGrow, Zenon
  <2> QED
    BY <1>5, <2>2
<1>8. CASE Feed(c)' = Feed(c)
  BY <1>5, <1>8, EventsStay
<1> QED
  BY <1>6, <1>7, <1>8, FeedStep

LEMMA StoryStep ==
  ASSUME TypeOK, WaitingInv, RoomsInv, HeardInv, FeedTellsTheRoom, [Next]_vars
  PROVE  FeedTellsTheRoom'
<1> SUFFICES ASSUME NEW c \in Conns
             PROVE  /\ \A i, j \in Events(c)' : i < j => Feed(c)'[i].n < Feed(c)'[j].n
                    /\ room[c] # Global => \A i \in Events(c)' : Feed(c)'[i].about = room[c]
  BY RoomsStep DEF FeedTellsTheRoom
<1>1. /\ \A i, j \in Events(c) : i < j => Feed(c)[i].n < Feed(c)[j].n
      /\ room[c] # Global => \A i \in Events(c) : Feed(c)[i].about = room[c]
  BY DEF FeedTellsTheRoom
<1>2. CASE Feed(c)' = Feed(c)
  BY <1>1, <1>2, EventsStay
<1>3. CASE Feed(c)' = Append(Feed(c), Ping)
  <2>1. Ping \in Messages
    BY DEF Messages
  <2>2. \A i \in Events(c)' : i \in Events(c) /\ Feed(c)'[i] = Feed(c)[i]
    BY <1>3, <2>1, EventsGrow
  <2> QED
    BY <1>1, <2>2
<1>4. CASE /\ HubBroadcast /\ c \in members[Head(broadcast).room]
           /\ Feed(c)' = Append(Feed(c), Head(broadcast).msg)
  <2>1. Head(broadcast) = broadcast[1] /\ 1 \in 1..Len(broadcast)
    BY <1>4, HubTakes
  <2>2. /\ room[c] = broadcast[1].room /\ broadcast[1].msg \in Messages
        /\ room[c] # Global => broadcast[1].msg.about = room[c]
    BY <1>4, <2>1, WaitingTyped DEF RoomsInv, WaitingInv
  <2>3. Feed(c)' = Append(Feed(c), broadcast[1].msg)
    BY <1>4, <2>1
  <2>4. \A i \in Events(c) : Feed(c)[i].n < broadcast[1].msg.n
    BY <2>1, <2>2 DEF HeardInv
  <2>5. \A i \in Events(c)' :
          \/ i \in Events(c) /\ Feed(c)'[i] = Feed(c)[i]
          \/ i = Len(Feed(c)) + 1 /\ Feed(c)'[i] = broadcast[1].msg
    BY <2>2, <2>3, EventsGrow, Zenon
  <2>6. /\ Len(Feed(c)) + 1 \in Nat
        /\ \A i \in Events(c) : i \in Nat /\ i < Len(Feed(c)) + 1
    BY <2>3, <2>2, FeedSeq, EventsGrow
  <2>7. \A i, j \in Events(c)' : i < j => i \in Events(c) /\ Feed(c)'[i] = Feed(c)[i]
    BY <2>5, <2>6
  <2> QED
    BY <1>1, <2>2, <2>4, <2>5, <2>7
<1> QED
  BY <1>2, <1>3, <1>4, FeedStep

LEMMA InitF == Init => FeedInv
<1> SUFFICES ASSUME Init PROVE FeedInv
  OBVIOUS
<1>1. \A c \in Conns : Feed(c) = <<>>
  <2>1. <<>> \o <<>> = <<>>
    BY ConcatEmptySeq, EmptySeq, Zenon
  <2> QED
    BY <2>1 DEF Init, Feed
<1>2. \A c \in Conns : Events(c) = {}
  <2>1. \A i : i \notin 1..Len(<<>>)
    OBVIOUS
  <2> QED
    BY <1>1, <2>1 DEF Events
<1> QED
  BY <1>2 DEF Init, FeedInv, WaitingInv, HalfwayInv, RoomsInv, HeardInv, FeedTellsTheRoom

\* For any connections, rooms and capacities, and even if contexts end early: a
\* feed tells of its room's changes only, in order and none twice.
THEOREM FeedsTellTheRoom == Spec => []FeedTellsTheRoom
<1>1. TypeOK /\ FeedInv /\ [Next]_vars => FeedInv'
  BY WaitingStep, HalfwayStep, RoomsStep, HeardStep, StoryStep DEF FeedInv
<1>2. FeedInv => FeedTellsTheRoom
  BY DEF FeedInv
<1>3. Spec => []FeedInv
  BY <1>1, InitF, TypeCorrect, PTL DEF Spec
<1> QED
  BY <1>2, <1>3, PTL
=============================================================================
