-------------------------------- MODULE Hub --------------------------------
(***************************************************************************)
(* The WebSocket hub (internal/ws/hub.go): one goroutine, Run, owns the    *)
(* set of clients and hands every published event to each of them; each    *)
(* client has two goroutines, WritePump and ReadPump; and the handlers of  *)
(* incoming WhatsApp messages walk the same set in BroadcastToInstance,    *)
(* in goroutines of their own.                                             *)
(*                                                                         *)
(* Run changes the set while it holds only the read lock, so it does so    *)
(* under the feet of BroadcastToInstance.  What Go's runtime makes of that *)
(* is nondeterministic here: nothing, or the end of the process.           *)
(***************************************************************************)
EXTENDS Naturals, Sequences

CONSTANTS
  Client,       \* connections, each made at most once
  Instance,     \* WhatsApp instances
  NoInstance,
  ListensTo,    \* the instance a client listens to, NoInstance on /ws
  Sees,         \* the instances whose events a client may see
  Broadcaster,  \* goroutines that handle incoming messages
  Buffer,       \* capacity of a client's channel
  Backlog,      \* capacity of the hub's channel
  MaxEvents,    \* bound: published events
  MaxMessages   \* bound: incoming messages

ASSUME InstanceAssumption ==
  /\ NoInstance \notin Instance
  /\ ListensTo \in [Client -> Instance \union {NoInstance}]
  /\ Sees \in [Client -> SUBSET Instance]
ASSUME CapacityAssumption == Buffer \in Nat \ {0} /\ Backlog \in Nat \ {0}
ASSUME BoundAssumption    == MaxEvents \in Nat /\ MaxMessages \in Nat

VARIABLES
  log,       \* InstanceID of every event published so far, in order
  taken,     \* how many of them Run has taken from the channel
  todo,      \* clients Run has still to offer event number `taken` to
  clients,   \* h.clients
  send,      \* what is in each client's channel
  closed,    \* the channel is closed
  pump,      \* where each client's goroutines are
  conn,      \* the client's connection
  since,     \* how many events Run had taken when it registered the client
  received,  \* what was written to the connection
  target,    \* the instance a broadcaster broadcasts to
  visiting,  \* clients it has still to visit
  messages,  \* incoming messages so far
  crashed    \* the process has ended

hub      == <<log, taken, todo, clients>>
client   == <<pump, conn, since, received>>
incoming == <<target, visiting, messages>>
vars     == <<hub, send, closed, client, incoming, crashed>>

\* A client's channel holds the numbers of published events, and 0 for an
\* incoming message.
Item == 0..MaxEvents

Pump == {"write", "read"}

\* Broadcasters that hold the read lock.
Reading == {b \in Broadcaster : target[b] # NoInstance}

shouldDeliverEvent(c, n) == log[n] = NoInstance \/ log[n] \in Sees[c]

Full(c) == Len(send[c]) = Buffer

Put(c, item) == send' = [send EXCEPT ![c] = Append(@, item)]

-----------------------------------------------------------------------------

Init ==
  /\ log = <<>>
  /\ taken = 0
  /\ todo = {}
  /\ clients = {}
  /\ send = [c \in Client |-> <<>>]
  /\ closed = [c \in Client |-> FALSE]
  /\ pump = [c \in Client |-> [p \in Pump |-> "none"]]
  /\ conn = [c \in Client |-> "none"]
  /\ since = [c \in Client |-> 0]
  /\ received = [c \in Client |-> <<>>]
  /\ target = [b \in Broadcaster |-> NoInstance]
  /\ visiting = [b \in Broadcaster |-> {}]
  /\ messages = 0
  /\ crashed = FALSE

\* Publish blocks while the hub's channel is full.
Publish(i) ==
  /\ Len(log) < MaxEvents
  /\ Len(log) - taken < Backlog
  /\ log' = Append(log, i)
  /\ UNCHANGED <<taken, todo, clients, send, closed, client, incoming, crashed>>

-----------------------------------------------------------------------------
(* Run.                                                                    *)

\* Run is at its select: it has offered the last event to every client.
Selecting == todo = {}

\* h.mu.Lock() waits for the broadcasters.
Exclusive == Selecting /\ Reading = {}

\* A connection is upgraded, its client registered and its pumps started.
Register(c) ==
  /\ Exclusive
  /\ conn[c] = "none"
  /\ clients' = clients \union {c}
  /\ conn' = [conn EXCEPT ![c] = "open"]
  /\ pump' = [pump EXCEPT ![c] = [p \in Pump |-> "running"]]
  /\ since' = [since EXCEPT ![c] = taken]
  /\ UNCHANGED <<log, taken, todo, send, closed, received, incoming, crashed>>

TakeEvent ==
  /\ Selecting
  /\ taken < Len(log)
  /\ taken' = taken + 1
  /\ todo' = {c \in clients : shouldDeliverEvent(c, taken + 1)}
  /\ UNCHANGED <<log, clients, send, closed, client, incoming, crashed>>

Offer(c) ==
  /\ c \in todo
  /\ ~Full(c)
  /\ todo' = todo \ {c}
  /\ Put(c, taken)
  /\ UNCHANGED <<log, taken, clients, closed, client, incoming, crashed>>

\* Deviation: a client that falls behind misses an event.
SkipFull(c) ==
  /\ c \in todo
  /\ Full(c)
  /\ todo' = todo \ {c}
  /\ UNCHANGED <<log, taken, clients, send, closed, client, incoming, crashed>>

\* Deviation: its channel is closed, but the client stays in the set.
CloseFull(c) ==
  /\ c \in todo
  /\ Full(c)
  /\ todo' = todo \ {c}
  /\ closed' = [closed EXCEPT ![c] = TRUE]
  /\ UNCHANGED <<log, taken, clients, send, client, incoming, crashed>>

\* Deviation: Run waits for room.
AwaitRoom(c) == FALSE

\* A client that falls behind is dropped, under the read lock.
Drop(c) ==
  /\ c \in todo
  /\ Full(c)
  /\ todo' = todo \ {c}
  /\ closed' = [closed EXCEPT ![c] = TRUE]
  /\ clients' = clients \ {c}
  /\ crashed' \in {FALSE, Reading # {}}
  /\ UNCHANGED <<log, taken, send, client, incoming>>

\* Deviation: a pump ends without unregistering its client.
LeaveOnly(c, p) ==
  /\ pump[c][p] = "leaving"
  /\ pump' = [pump EXCEPT ![c][p] = "done"]
  /\ conn' = [conn EXCEPT ![c] = "closed"]
  /\ UNCHANGED <<hub, send, closed, since, received, incoming, crashed>>

\* The deferred call of a pump: Run unregisters its client, unless it has
\* already done so, and the pump closes the connection.
Leave(c, p) ==
  /\ Exclusive
  /\ pump[c][p] = "leaving"
  /\ pump' = [pump EXCEPT ![c][p] = "done"]
  /\ conn' = [conn EXCEPT ![c] = "closed"]
  /\ clients' = clients \ {c}
  /\ closed' = [closed EXCEPT ![c] = TRUE]
  /\ UNCHANGED <<log, taken, todo, send, since, received, incoming, crashed>>

-----------------------------------------------------------------------------
(* A client's pumps.                                                       *)

\* The peer goes away, or stops reading until a write times out.
PeerLeaves(c) ==
  /\ conn[c] = "open"
  /\ conn' = [conn EXCEPT ![c] = "broken"]
  /\ UNCHANGED <<hub, send, closed, pump, since, received, incoming, crashed>>

Writing(c) == pump[c]["write"] = "running"

Write(c) ==
  /\ Writing(c)
  /\ send[c] # <<>>
  /\ conn[c] = "open"
  /\ received' = [received EXCEPT ![c] = Append(@, Head(send[c]))]
  /\ send' = [send EXCEPT ![c] = Tail(@)]
  /\ UNCHANGED <<hub, closed, pump, conn, since, incoming, crashed>>

\* A write, of an item or of a ping, fails.
WriteFails(c) ==
  /\ Writing(c)
  /\ conn[c] # "open"
  /\ send' \in {send, [send EXCEPT ![c] = IF @ = <<>> THEN @ ELSE Tail(@)]}
  /\ pump' = [pump EXCEPT ![c]["write"] = "leaving"]
  /\ UNCHANGED <<hub, closed, conn, since, received, incoming, crashed>>

\* The channel is closed and empty.
WriteEnds(c) ==
  /\ Writing(c)
  /\ send[c] = <<>>
  /\ closed[c]
  /\ pump' = [pump EXCEPT ![c]["write"] = "leaving"]
  /\ UNCHANGED <<hub, send, closed, conn, since, received, incoming, crashed>>

ReadFails(c) ==
  /\ pump[c]["read"] = "running"
  /\ conn[c] # "open"
  /\ pump' = [pump EXCEPT ![c]["read"] = "leaving"]
  /\ UNCHANGED <<hub, send, closed, conn, since, received, incoming, crashed>>

-----------------------------------------------------------------------------
(* BroadcastToInstance.                                                    *)

Broadcast(b, i) ==
  /\ target[b] = NoInstance
  /\ messages < MaxMessages
  /\ messages' = messages + 1
  /\ target' = [target EXCEPT ![b] = i]
  /\ visiting' = [visiting EXCEPT ![b] = {c \in clients : ListensTo[c] = i}]
  /\ UNCHANGED <<hub, send, closed, client, crashed>>

Visited(b, c) ==
  /\ c \in visiting[b]
  /\ visiting' = [visiting EXCEPT ![b] = @ \ {c}]

SendIncoming(b, c) ==
  /\ Visited(b, c)
  /\ ~closed[c] /\ ~Full(c)
  /\ Put(c, 0)
  /\ UNCHANGED <<hub, closed, client, target, messages, crashed>>

\* The client's channel is full, or Run has removed the client meanwhile and
\* the walk does not come across it any more.
MissIncoming(b, c) ==
  /\ Visited(b, c)
  /\ closed[c] \/ Full(c)
  /\ UNCHANGED <<hub, send, closed, client, target, messages, crashed>>

\* The walk does come across it: a send on a closed channel panics, which ends
\* the process unless the caller recovers.
SendOnClosed(b, c) ==
  /\ c \in visiting[b]
  /\ closed[c]
  /\ target' = [target EXCEPT ![b] = NoInstance]
  /\ visiting' = [visiting EXCEPT ![b] = {}]
  /\ crashed' \in BOOLEAN
  /\ UNCHANGED <<hub, send, closed, client, messages>>

EndBroadcast(b) ==
  /\ b \in Reading
  /\ visiting[b] = {}
  /\ target' = [target EXCEPT ![b] = NoInstance]
  /\ UNCHANGED <<hub, send, closed, client, visiting, messages, crashed>>

-----------------------------------------------------------------------------

RunStep == TakeEvent \/ \E c \in Client : Offer(c) \/ Drop(c)

PumpStep(c) == Write(c) \/ WriteFails(c) \/ WriteEnds(c)

BroadcastStep(b) ==
  \/ \E c \in Client : SendIncoming(b, c) \/ MissIncoming(b, c) \/ SendOnClosed(b, c)
  \/ EndBroadcast(b)

Next ==
  /\ ~crashed
  /\ \/ \E i \in Instance \union {NoInstance} : Publish(i)
     \/ RunStep
     \/ \E c \in Client : Register(c) \/ PeerLeaves(c) \/ PumpStep(c) \/ ReadFails(c)
     \/ \E c \in Client, p \in Pump : Leave(c, p)
     \/ \E b \in Broadcaster, i \in Instance : Broadcast(b, i)
     \/ \E b \in Broadcaster : BroadcastStep(b)

Spec == Init /\ [][Next]_vars

\* Every goroutine that can run does; Run's select picks at random among the
\* channels that are ready, so it does not pass over one of them for ever.
Fairness ==
  /\ WF_vars(~crashed /\ RunStep)
  /\ \A b \in Broadcaster : WF_vars(~crashed /\ BroadcastStep(b))
  /\ \A c \in Client :
       /\ WF_vars(~crashed /\ PumpStep(c))
       /\ WF_vars(~crashed /\ ReadFails(c))
  /\ SF_vars(~crashed /\ \E c \in Client, p \in Pump : Leave(c, p))

FairSpec == Spec /\ Fairness

-----------------------------------------------------------------------------
(* Properties.                                                             *)

TypeOK ==
  /\ log \in Seq(Instance \union {NoInstance}) /\ Len(log) <= MaxEvents
  /\ taken \in 0..Len(log)
  /\ todo \in SUBSET clients
  /\ clients \in SUBSET Client
  /\ send \in [Client -> Seq(Item)]
  /\ \A c \in Client : Len(send[c]) <= Buffer
  /\ closed \in [Client -> BOOLEAN]
  /\ pump \in [Client -> [Pump -> {"none", "running", "leaving", "done"}]]
  /\ conn \in [Client -> {"none", "open", "broken", "closed"}]
  /\ since \in [Client -> 0..MaxEvents]
  /\ received \in [Client -> Seq(Item)]
  /\ target \in [Broadcaster -> Instance \union {NoInstance}]
  /\ visiting \in [Broadcaster -> SUBSET Client]
  /\ messages \in 0..MaxMessages
  /\ crashed \in BOOLEAN

\* Once a client is registered its channel is open exactly as long as the hub
\* knows it: Run never sends on, or closes, a closed channel, and no WritePump
\* waits on a channel that nobody will close.
OpenWhileRegistered ==
  \A c \in Client : conn[c] # "none" => (closed[c] <=> c \notin clients)

\* The published events a registered client should have been given by now.
Due(c) ==
  {n \in since[c] + 1..taken : shouldDeliverEvent(c, n) /\ (n = taken => c \notin todo)}

\* As long as its connection works a registered client misses no event, gets
\* none twice and none it may not see, and gets them in the order of their
\* publication, whatever its speed and whatever messages come in between.
CompleteInOrder ==
  \A c \in clients : Writing(c) =>
    LET items == received[c] \o send[c]
        got == {k \in DOMAIN items : items[k] # 0}
    IN /\ \A j, k \in got : j < k => items[j] < items[k]
       /\ {items[k] : k \in got} = Due(c)

\* Publish never blocks its caller for good: Run comes to every event, also
\* when clients do not read and their pumps wait for Run at the same time.
EventsDispatched ==
  \A n \in 1..MaxEvents : Len(log) >= n ~> (taken >= n /\ Selecting) \/ crashed

\* A client whose peer is gone is forgotten, and both its goroutines end.
GoneIsForgotten ==
  \A c \in Client :
    conn[c] = "broken" ~> (c \notin clients /\ \A p \in Pump : pump[c][p] = "done") \/ crashed

\* internal/ws/hub.go:272, of the walk in BroadcastToInstance: "Add RLock to
\* prevent race condition".
NoRaceWithRun == [][Reading # {} => clients' = clients]_vars
=============================================================================
