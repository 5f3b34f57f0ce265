-------------------------------- MODULE Hub --------------------------------
(***************************************************************************)
(* The WebSocket hub of internal/hub/hub.go with the handlers that         *)
(* register and unregister connections (internal/api/handlers/websocket.go)*)
(* and the Dispatcher that broadcasts to it (internal/worker/dispatcher.go).*)
(*                                                                         *)
(* One goroutine, Run, owns the rooms.  Handlers and the dispatcher reach  *)
(* it through three bounded channels, between which its select chooses at  *)
(* random; it reaches each connection's writePump through that             *)
(* connection's own bounded channel, which it alone sends on and closes.   *)
(***************************************************************************)
EXTENDS Naturals, Sequences

CONSTANTS
  Conns,          \* connections; each goroutine serving one is used once
  Payments,       \* payment ids as the dispatcher prints them
  CustomerRooms,  \* rooms customers join, named after the id in their URL
  ControlCap,     \* capacity of h.subscribe and of h.unsubscribe (64 in the code)
  BroadcastCap,   \* capacity of h.broadcast (256)
  SendCap,        \* capacity of conn.send (64)
  MaxMessages,    \* bound: status changes dispatched
  MaxPings,       \* bound: ping ticks
  Stoppable       \* may the context of Run be cancelled?

Global == "global"
Rooms == CustomerRooms \cup Payments \cup {Global}

ASSUME HubAssumption ==
  /\ {ControlCap, BroadcastCap, SendCap} \subseteq Nat \ {0}
  /\ {MaxMessages, MaxPings} \subseteq Nat
  /\ Stoppable \in BOOLEAN
  /\ Global \notin CustomerRooms \cup Payments

VARIABLES
  members,      \* h.rooms: the connections of each room
  subscribe,    \* h.subscribe: connections waiting to be added to their room
  unsubscribe,  \* h.unsubscribe: connections waiting to be removed
  broadcast,    \* h.broadcast: messages, each with its room
  hub,          \* the goroutine of Run: "running", "stopped" or "panicked"
  handler,      \* handler[c]: where the goroutine that serves c is
  room,         \* room[c]: the room c's handler registers it in
  send,         \* conn.send
  closed,       \* connections whose send channel is closed
  crossed,      \* history: connections whose Unregister was taken before their Register
  pump,         \* pump[c]: the goroutine of writePump: "off", "on" or "done"
  writing,      \* writing[c]: the message writePump is busy with, if any
  written,      \* written[c]: messages handed to ws.Write, in order
  dispatched,   \* status changes dispatched so far
  halfway,      \* the dispatched message still to be sent to the global room
  pings         \* ping ticks so far

hubVars  == <<members, hub, closed, crossed, pings>>
connVars == <<handler, room>>
pumpVars == <<pump, writing, written>>
dispVars == <<dispatched, halfway>>
vars == <<hubVars, subscribe, unsubscribe, broadcast, connVars, send, pumpVars, dispVars>>

\* A message is the n-th status change, of payment about; a ping is about none.
Ping == [n |-> 0, about |-> Global]
Messages == [n : 1..MaxMessages, about : Payments] \cup {Ping}

TypeOK ==
  /\ members \in [Rooms -> SUBSET Conns]
  /\ subscribe \in Seq(Conns) /\ Len(subscribe) <= ControlCap
  /\ unsubscribe \in Seq(Conns) /\ Len(unsubscribe) <= ControlCap
  /\ broadcast \in Seq([room : Rooms, msg : Messages]) /\ Len(broadcast) <= BroadcastCap
  /\ hub \in {"running", "stopped", "panicked"}
  /\ handler \in [Conns -> {"new", "registering", "serving", "leaving", "gone"}]
  /\ room \in [Conns -> CustomerRooms \cup {Global}]
  /\ send \in [Conns -> Seq(Messages)] /\ \A c \in Conns : Len(send[c]) <= SendCap
  /\ closed \subseteq Conns /\ crossed \subseteq Conns
  /\ pump \in [Conns -> {"off", "on", "done"}]
  /\ writing \in [Conns -> Seq(Messages)] /\ \A c \in Conns : Len(writing[c]) <= 1
  /\ written \in [Conns -> Seq(Messages)]
  /\ dispatched \in 0..MaxMessages
  /\ halfway \in Seq(Messages) /\ Len(halfway) <= 1
  /\ pings \in 0..MaxPings

Init ==
  /\ members = [r \in Rooms |-> {}]
  /\ subscribe = <<>> /\ unsubscribe = <<>> /\ broadcast = <<>>
  /\ hub = "running"
  /\ handler = [c \in Conns |-> "new"]
  /\ room \in [Conns -> CustomerRooms \cup {Global}]
  /\ send = [c \in Conns |-> <<>>]
  /\ closed = {} /\ crossed = {}
  /\ pump = [c \in Conns |-> "off"]
  /\ writing = [c \in Conns |-> <<>>]
  /\ written = [c \in Conns |-> <<>>]
  /\ dispatched = 0
  /\ halfway = <<>>
  /\ pings = 0

-----------------------------------------------------------------------------
(* The handler of a connection. *)

Queued(queue, c) == \E i \in 1..Len(queue) : queue[i] = c

\* websocket.Accept succeeded; Register blocks while h.subscribe is full.
Accept(c) ==
  /\ handler[c] = "new"
  /\ handler' = [handler EXCEPT ![c] = "registering"]
  /\ UNCHANGED <<hubVars, subscribe, unsubscribe, broadcast, room, send, pumpVars, dispVars>>

Register(c) ==
  /\ handler[c] = "registering"
  /\ Len(subscribe) < ControlCap
  /\ subscribe' = Append(subscribe, c)
  /\ pump' = [pump EXCEPT ![c] = "on"]
  /\ handler' = [handler EXCEPT ![c] = "serving"]
  /\ UNCHANGED <<hubVars, unsubscribe, broadcast, room, send, writing, written, dispVars>>

\* <-c.Context().Done(): the client is gone or the server is going, whether or
\* not the hub has taken the subscription yet.
ContextDone(c) ==
  /\ handler[c] = "serving"
  /\ handler' = [handler EXCEPT ![c] = "leaving"]
  /\ UNCHANGED <<hubVars, subscribe, unsubscribe, broadcast, room, send, pumpVars, dispVars>>

\* Faulty form of Unregister: called once more.
UnregisterAgain(c) ==
  /\ handler[c] \in {"leaving", "gone"}
  /\ Len(unsubscribe) < ControlCap
  /\ unsubscribe' = Append(unsubscribe, c)
  /\ handler' = [handler EXCEPT ![c] = "gone"]
  /\ UNCHANGED <<hubVars, subscribe, broadcast, room, send, pumpVars, dispVars>>

\* The deferred Unregister blocks while h.unsubscribe is full.
Unregister(c) ==
  /\ handler[c] = "leaving"
  /\ Len(unsubscribe) < ControlCap
  /\ unsubscribe' = Append(unsubscribe, c)
  /\ handler' = [handler EXCEPT ![c] = "gone"]
  /\ UNCHANGED <<hubVars, subscribe, broadcast, room, send, pumpVars, dispVars>>

-----------------------------------------------------------------------------
(* The goroutine of Run. *)

HubSubscribe ==
  /\ hub = "running"
  /\ subscribe # <<>>
  /\ LET c == Head(subscribe)
     IN  members' = [members EXCEPT ![room[c]] = @ \cup {c}]
  /\ subscribe' = Tail(subscribe)
  /\ UNCHANGED <<unsubscribe, broadcast, hub, closed, crossed, pings,
                 connVars, send, pumpVars, dispVars>>

\* Faulty form of LeaveRooms: the operators' room is forgotten.
LeaveCustomerRooms(c) ==
  [r \in Rooms |-> IF r = Global THEN members[r] ELSE members[r] \ {c}]

LeaveRooms(c) == [r \in Rooms |-> members[r] \ {c}]

\* Faulty form of CloseSend: the channel is left open.
CloseNothing(c) == UNCHANGED <<closed, hub>>

\* Closing a closed channel panics.
CloseSend(c) ==
  /\ closed' = closed \cup {c}
  /\ hub' = IF c \in closed THEN "panicked" ELSE hub

\* Faulty form of HubUnsubscribe: select has no case for it.
HubUnsubscribeNever == FALSE /\ UNCHANGED vars

HubUnsubscribe ==
  /\ hub = "running"
  /\ unsubscribe # <<>>
  /\ LET c == Head(unsubscribe)
     IN  /\ members' = LeaveRooms(c)
         /\ CloseSend(c)
         /\ crossed' = IF Queued(subscribe, c) THEN crossed \cup {c} ELSE crossed
  /\ unsubscribe' = Tail(unsubscribe)
  /\ UNCHANGED <<subscribe, broadcast, pings, connVars, send, pumpVars, dispVars>>

\* Faulty forms of HasRoom: an off-by-one either way.
HasRoomAtCap(c) == Len(send[c]) <= SendCap
HasRoomBelowCap(c) == Len(send[c]) + 1 < SendCap

HasRoom(c) == Len(send[c]) < SendCap

\* Sending on a closed channel panics; a full one makes select take its
\* default.  Only this goroutine adds to the channels, so a writePump that
\* takes a message in the middle might as well have taken it before.
SendTo(targets, msg) ==
  /\ hub' = IF targets \cap closed # {} THEN "panicked" ELSE hub
  /\ send' = [c \in Conns |->
                IF c \in targets /\ HasRoom(c) THEN Append(send[c], msg) ELSE send[c]]

HubBroadcast ==
  /\ hub = "running"
  /\ broadcast # <<>>
  /\ SendTo(members[Head(broadcast).room], Head(broadcast).msg)
  /\ broadcast' = Tail(broadcast)
  /\ UNCHANGED <<members, subscribe, unsubscribe, closed, crossed, pings,
                 connVars, pumpVars, dispVars>>

HubPing ==
  /\ hub = "running"
  /\ pings < MaxPings
  /\ pings' = pings + 1
  /\ SendTo(UNION {members[r] : r \in Rooms}, Ping)
  /\ UNCHANGED <<members, subscribe, unsubscribe, broadcast, closed, crossed,
                 connVars, pumpVars, dispVars>>

\* ctx.Done(): Run returns, everything else goes on.
HubStop ==
  /\ Stoppable
  /\ hub = "running"
  /\ hub' = "stopped"
  /\ UNCHANGED <<members, subscribe, unsubscribe, broadcast, closed, crossed, pings,
                 connVars, send, pumpVars, dispVars>>

-----------------------------------------------------------------------------
(* The writePump of a connection. *)

PumpTake(c) ==
  /\ pump[c] = "on" /\ writing[c] = <<>>
  /\ send[c] # <<>>
  /\ writing' = [writing EXCEPT ![c] = <<Head(send[c])>>]
  /\ send' = [send EXCEPT ![c] = Tail(@)]
  /\ UNCHANGED <<hubVars, subscribe, unsubscribe, broadcast, connVars, pump, written, dispVars>>

\* ws.Write returns, within ten seconds and whatever its error.
PumpWrite(c) ==
  /\ writing[c] # <<>>
  /\ written' = [written EXCEPT ![c] = @ \o writing[c]]
  /\ writing' = [writing EXCEPT ![c] = <<>>]
  /\ UNCHANGED <<hubVars, subscribe, unsubscribe, broadcast, connVars, send, pump, dispVars>>

PumpEnd(c) ==
  /\ pump[c] = "on" /\ writing[c] = <<>>
  /\ c \in closed /\ send[c] = <<>>
  /\ pump' = [pump EXCEPT ![c] = "done"]
  /\ UNCHANGED <<hubVars, subscribe, unsubscribe, broadcast, connVars, send,
                 writing, written, dispVars>>

-----------------------------------------------------------------------------
(* Dispatcher.OnStatusChange, called by the poller's goroutine only. *)

\* Faulty form of Broadcast: the newest message overtakes the waiting ones.
BroadcastFirst(r, m) ==
  broadcast' = IF Len(broadcast) < BroadcastCap
               THEN <<[room |-> r, msg |-> m]>> \o broadcast
               ELSE broadcast

\* Hub.Broadcast never blocks: a full channel drops the message.
Broadcast(r, m) ==
  broadcast' = IF Len(broadcast) < BroadcastCap
               THEN Append(broadcast, [room |-> r, msg |-> m])
               ELSE broadcast

DispatchPayment(p) ==
  /\ halfway = <<>>
  /\ dispatched < MaxMessages
  /\ dispatched' = dispatched + 1
  /\ LET m == [n |-> dispatched + 1, about |-> p]
     IN  Broadcast(p, m) /\ halfway' = <<m>>
  /\ UNCHANGED <<hubVars, subscribe, unsubscribe, connVars, send, pumpVars>>

DispatchGlobal ==
  /\ halfway # <<>>
  /\ Broadcast(Global, Head(halfway))
  /\ halfway' = <<>>
  /\ UNCHANGED <<hubVars, subscribe, unsubscribe, connVars, send, pumpVars, dispatched>>

-----------------------------------------------------------------------------

ConnStep(c) ==
  \/ Accept(c)
  \/ Register(c)
  \/ ContextDone(c)
  \/ Unregister(c)
  \/ PumpTake(c)
  \/ PumpWrite(c)
  \/ PumpEnd(c)

HubStep == HubSubscribe \/ HubUnsubscribe \/ HubBroadcast \/ HubPing \/ HubStop

DispatcherStep == (\E p \in Payments : DispatchPayment(p)) \/ DispatchGlobal

\* A panic of one goroutine ends the process.
Next ==
  /\ hub # "panicked"
  /\ (\E c \in Conns : ConnStep(c)) \/ HubStep \/ DispatcherStep

\* A select that finds a channel ready again and again takes it some day, a
\* sender blocked on a channel is served in its turn, and every write ends.
Fairness ==
  /\ WF_vars(HubSubscribe) /\ WF_vars(HubUnsubscribe) /\ WF_vars(HubBroadcast)
  /\ WF_vars(DispatchGlobal)
  /\ \A c \in Conns :
       /\ SF_vars(Register(c)) /\ SF_vars(Unregister(c))
       /\ WF_vars(PumpTake(c)) /\ WF_vars(PumpWrite(c)) /\ WF_vars(PumpEnd(c))

Spec == Init /\ [][Next]_vars
FairSpec == Spec /\ Fairness

-----------------------------------------------------------------------------
(* What the hub promises. *)

\* Everything c was sent, delivered or not, and where in it the status changes are.
Feed(c) == written[c] \o writing[c] \o send[c]
Events(c) == {i \in 1..Len(Feed(c)) : Feed(c)[i] # Ping}

\* A connection's feed tells the story of its room in order and without
\* repetition: a customer hears of their payment only, an operator of all,
\* whatever was dropped and however the channels interleave.
FeedTellsTheRoom ==
  \A c \in Conns :
    /\ \A i, j \in Events(c) : i < j => Feed(c)[i].n < Feed(c)[j].n
    /\ room[c] # Global => \A i \in Events(c) : Feed(c)[i].about = room[c]

\* Run closes no channel twice, and sends on a closed one only to a ghost: a
\* member of a room whose Unregister select took before its Register.  Nothing
\* else takes the process down.
PanicNeedsGhost ==
  hub = "panicked" => \E r \in Rooms : members[r] \cap closed \cap crossed # {}

\* A connection whose Unregister the hub has taken is in no room, then or later,
\* unless select took that connection's own Unregister before its Register.
UnregisteredIsOut == \A r \in Rooms : members[r] \cap closed \subseteq crossed

\* A handler never stays blocked in Register or Unregister while Run runs.
HandlersProceed ==
  \A c \in Conns :
    /\ handler[c] = "registering" ~> handler[c] # "registering" \/ hub # "running"
    /\ handler[c] = "leaving" ~> handler[c] = "gone" \/ hub # "running"

\* The writePump of a connection that left ends once it has written what was
\* already in its channel: the goroutine does not leak.
PumpEnds ==
  \A c \in Conns : handler[c] = "gone" ~> pump[c] = "done" \/ hub # "running"

\* Given room in the channels, a message for a room reaches every connection
\* that is in the room when it is queued, unless the connection leaves.
EventuallyDelivered ==
  \A c \in Conns : \A n \in 1..MaxMessages :
    (/\ c \in members[room[c]]
     /\ \E i \in 1..Len(broadcast) : broadcast[i].room = room[c] /\ broadcast[i].msg.n = n)
    ~> \/ \E i \in 1..Len(written[c]) : written[c][i].n = n
       \/ handler[c] \in {"leaving", "gone"}
       \/ hub # "running"

-----------------------------------------------------------------------------
(* What the repository's comments say and the code does not keep. *)

\* hub.go: "Unregister removes a connection from all rooms".
UnregisterRemoves == \A r \in Rooms : members[r] \cap closed = {}
=============================================================================
