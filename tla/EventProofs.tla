---------------------------- MODULE EventProofs ----------------------------
(***************************************************************************)
(* Proofs about the two ways an event of WhatsApp leaves the server.       *)
(*                                                                         *)
(* Hub, to connected clients: for every number of clients and broadcasters *)
(* and every capacity of the channels.  WebhookDelivery, to the instance's *)
(* webhook: for every number of messages, requests and attempts.  The two  *)
(* share nothing.  The state and the promises of the second are here, its  *)
(* steps in an instance, prefixed Webhook, whose theorems say that they    *)
(* need the assumption on its constants.                                   *)
(***************************************************************************)
EXTENDS Hub, WebhookState, SequenceTheorems, TLAPS

\* A client that has not connected is unknown to the hub, and its pumps have
\* not been started.
NotYetConnected ==
  \A c \in Client : conn[c] = "none" =>
    c \notin clients /\ ~closed[c] /\ \A p \in Pump : pump[c][p] = "none"

IInv == TypeOK /\ OpenWhileRegistered /\ NotYetConnected

LEMMA InitIInv == ASSUME Init PROVE IInv
<1>1. TypeOK
  <2>1. send \in [Client -> Seq(Item)] /\ received \in [Client -> Seq(Item)]
    BY DEF Init
  <2>2. \A c \in Client : Len(send[c]) <= Buffer
    <3>1. ASSUME NEW c \in Client PROVE send[c] = <<>>
      BY DEF Init
    <3>2. Len(<<>>) = 0
      OBVIOUS
    <3>3. 0 <= Buffer
      BY CapacityAssumption
    <3>4. ASSUME NEW c \in Client PROVE Len(send[c]) <= Buffer
      BY <3>1, <3>2, <3>3
    <3> QED BY <3>4
  <2>3. log \in Seq(Instance \union {NoInstance}) /\ Len(log) = 0
    BY DEF Init
  <2>4. Len(log) <= MaxEvents /\ taken \in 0..Len(log) /\ messages \in 0..MaxMessages
    BY <2>3, BoundAssumption DEF Init
  <2>5. since \in [Client -> 0..MaxEvents]
    BY BoundAssumption DEF Init
  <2> QED
    BY <2>1, <2>2, <2>3, <2>4, <2>5 DEF Init, TypeOK, Pump
<1>2. OpenWhileRegistered /\ NotYetConnected
  BY DEF Init, OpenWhileRegistered, NotYetConnected
<1>3. QED BY <1>1, <1>2 DEF IInv

\* What a pump's move leaves of the types.
LEMMA PumpType ==
  ASSUME TypeOK, NEW c \in Client, NEW p \in Pump, NEW v \in {"leaving", "done"},
         pump' = [pump EXCEPT ![c][p] = v]
  PROVE  /\ pump' \in [Client -> [Pump -> {"none", "running", "leaving", "done"}]]
         /\ \A d \in Client : d # c => pump'[d] = pump[d]
BY DEF TypeOK

LEMMA PutType ==
  ASSUME TypeOK, NEW c \in Client, NEW item \in Item, ~Full(c), Put(c, item)
  PROVE  send' \in [Client -> Seq(Item)] /\ \A d \in Client : Len(send'[d]) <= Buffer
<1>1. send[c] \in Seq(Item) /\ Len(send[c]) <= Buffer /\ Len(send[c]) # Buffer
  BY DEF TypeOK, Full
<1>2. Append(send[c], item) \in Seq(Item) /\ Len(Append(send[c], item)) = Len(send[c]) + 1
  BY <1>1
<1>3. Len(Append(send[c], item)) <= Buffer
  BY <1>1, <1>2, CapacityAssumption
<1>4. send' = [send EXCEPT ![c] = Append(send[c], item)]
  BY DEF Put
<1> QED BY <1>2, <1>3, <1>4 DEF TypeOK

LEMMA TailType ==
  ASSUME TypeOK, NEW c \in Client, send[c] # <<>>,
         send' = [send EXCEPT ![c] = Tail(send[c])]
  PROVE  /\ Head(send[c]) \in Item
         /\ send' \in [Client -> Seq(Item)]
         /\ \A d \in Client : Len(send'[d]) <= Buffer
<1>1. send[c] \in Seq(Item) /\ Len(send[c]) <= Buffer
  BY DEF TypeOK
<1>2. /\ Head(send[c]) \in Item
      /\ Tail(send[c]) \in Seq(Item)
      /\ Len(Tail(send[c])) = Len(send[c]) - 1
  BY <1>1
<1>3. Len(Tail(send[c])) <= Buffer
  BY <1>1, <1>2, CapacityAssumption
<1> QED BY <1>2, <1>3 DEF TypeOK

-----------------------------------------------------------------------------

LEMMA PublishStep ==
  ASSUME IInv, NEW i \in Instance \union {NoInstance}, Publish(i)
  PROVE  IInv'
<1>1. log \in Seq(Instance \union {NoInstance}) /\ Len(log) < MaxEvents
  BY DEF IInv, TypeOK, Publish
<1>2. log' = Append(log, i) /\ taken' = taken
  BY DEF Publish
<1>3. log' \in Seq(Instance \union {NoInstance}) /\ Len(log') = Len(log) + 1
  BY <1>1, <1>2
<1>4. Len(log') <= MaxEvents /\ taken' \in 0..Len(log')
  BY <1>1, <1>2, <1>3, BoundAssumption DEF IInv, TypeOK
<1>5. TypeOK'
  BY <1>3, <1>4 DEF IInv, TypeOK, Publish, client, incoming
<1>6. OpenWhileRegistered' /\ NotYetConnected'
  BY DEF IInv, OpenWhileRegistered, NotYetConnected, Publish, client
<1> QED BY <1>5, <1>6 DEF IInv

LEMMA RunKeeps == ASSUME IInv, RunStep PROVE IInv'
<1>1. CASE TakeEvent
  <2>1. taken' \in 0..Len(log') /\ todo' \in SUBSET clients'
    BY <1>1 DEF TakeEvent, IInv, TypeOK
  <2>2. TypeOK'
    BY <1>1, <2>1 DEF TakeEvent, IInv, TypeOK, client, incoming
  <2>3. OpenWhileRegistered' /\ NotYetConnected'
    BY <1>1 DEF TakeEvent, IInv, OpenWhileRegistered, NotYetConnected, client
  <2> QED BY <2>2, <2>3 DEF IInv
<1>2. ASSUME NEW c \in Client, Offer(c) PROVE IInv'
  <2>1. taken \in Item
    BY BoundAssumption DEF IInv, TypeOK, Item
  <2>2. send' \in [Client -> Seq(Item)] /\ \A d \in Client : Len(send'[d]) <= Buffer
    BY <1>2, <2>1, PutType DEF Offer, IInv
  <2>3. TypeOK'
    BY <1>2, <2>2 DEF Offer, IInv, TypeOK, client, incoming
  <2>4. OpenWhileRegistered' /\ NotYetConnected'
    BY <1>2 DEF Offer, IInv, OpenWhileRegistered, NotYetConnected, client
  <2> QED BY <2>3, <2>4 DEF IInv
<1>3. ASSUME NEW c \in Client, Drop(c) PROVE IInv'
  <2>1. c \in clients /\ conn[c] # "none"
    BY <1>3 DEF Drop, IInv, TypeOK, NotYetConnected
  <2>2. crashed' \in BOOLEAN /\ closed' \in [Client -> BOOLEAN]
    BY <1>3 DEF Drop, IInv, TypeOK
  <2>3. todo' \in SUBSET clients' /\ clients' \in SUBSET Client
    BY <1>3 DEF Drop, IInv, TypeOK
  <2>4. TypeOK'
    BY <1>3, <2>2, <2>3 DEF Drop, IInv, TypeOK, client, incoming
  <2>5. OpenWhileRegistered'
    BY <1>3 DEF Drop, IInv, TypeOK, OpenWhileRegistered, client
  <2>6. NotYetConnected'
    BY <1>3, <2>1 DEF Drop, IInv, TypeOK, NotYetConnected, client
  <2> QED BY <2>4, <2>5, <2>6 DEF IInv
<1>4. QED BY <1>1, <1>2, <1>3 DEF RunStep

LEMMA RegisterStep == ASSUME IInv, NEW c \in Client, Register(c) PROVE IInv'
<1>1. since' \in [Client -> 0..MaxEvents]
  BY BoundAssumption DEF Register, IInv, TypeOK
<1>2. /\ clients' \in SUBSET Client /\ todo' \in SUBSET clients'
      /\ conn' \in [Client -> {"none", "open", "broken", "closed"}]
      /\ pump' \in [Client -> [Pump -> {"none", "running", "leaving", "done"}]]
  BY DEF Register, IInv, TypeOK
<1>3. TypeOK'
  BY <1>1, <1>2 DEF Register, IInv, TypeOK, incoming
<1>4. OpenWhileRegistered'
  BY DEF Register, IInv, TypeOK, OpenWhileRegistered, NotYetConnected
<1>5. NotYetConnected'
  BY DEF Register, IInv, TypeOK, NotYetConnected
<1> QED BY <1>3, <1>4, <1>5 DEF IInv

LEMMA LeaveStep == ASSUME IInv, NEW c \in Client, NEW p \in Pump, Leave(c, p) PROVE IInv'
<1>1. /\ pump' \in [Client -> [Pump -> {"none", "running", "leaving", "done"}]]
      /\ \A d \in Client : d # c => pump'[d] = pump[d]
  BY PumpType DEF Leave, IInv
<1>2. /\ conn' \in [Client -> {"none", "open", "broken", "closed"}]
      /\ closed' \in [Client -> BOOLEAN]
      /\ clients' \in SUBSET Client
  BY DEF Leave, IInv, TypeOK
<1>3. todo' \in SUBSET clients'
  BY DEF Leave, Exclusive, Selecting
<1>4. TypeOK'
  BY <1>1, <1>2, <1>3 DEF Leave, IInv, TypeOK, incoming
<1>5. OpenWhileRegistered'
  BY DEF Leave, IInv, TypeOK, OpenWhileRegistered
<1>6. NotYetConnected'
  BY <1>1 DEF Leave, IInv, TypeOK, NotYetConnected
<1> QED BY <1>4, <1>5, <1>6 DEF IInv

\* The steps of a client's goroutines, and of its peer, between registration
\* and unregistration.
LEMMA ClientStep ==
  ASSUME IInv, NEW c \in Client, PeerLeaves(c) \/ PumpStep(c) \/ ReadFails(c)
  PROVE  IInv'
<1>1. CASE PeerLeaves(c)
  <2>1. TypeOK'
    BY <1>1 DEF PeerLeaves, IInv, TypeOK, hub, incoming
  <2>2. OpenWhileRegistered' /\ NotYetConnected'
    BY <1>1 DEF PeerLeaves, IInv, TypeOK, OpenWhileRegistered, NotYetConnected, hub
  <2> QED BY <2>1, <2>2 DEF IInv
<1>2. CASE Write(c)
  <2>1. /\ Head(send[c]) \in Item
        /\ send' \in [Client -> Seq(Item)]
        /\ \A d \in Client : Len(send'[d]) <= Buffer
    BY <1>2, TailType DEF Write, IInv
  <2>2. received' \in [Client -> Seq(Item)]
    <3>1. received[c] \in Seq(Item)
      BY DEF IInv, TypeOK
    <3>2. Append(received[c], Head(send[c])) \in Seq(Item)
      BY <2>1, <3>1
    <3> QED BY <1>2, <3>2 DEF Write, IInv, TypeOK
  <2>3. TypeOK'
    BY <1>2, <2>1, <2>2 DEF Write, IInv, TypeOK, hub, incoming
  <2>4. OpenWhileRegistered' /\ NotYetConnected'
    BY <1>2 DEF Write, IInv, OpenWhileRegistered, NotYetConnected, hub
  <2> QED BY <2>3, <2>4 DEF IInv
<1>3. ASSUME pump[c]["write"] # "none" \/ pump[c]["read"] # "none",
             \E p \in Pump : pump' = [pump EXCEPT ![c][p] = "leaving"],
             send' \in [Client -> Seq(Item)],
             \A d \in Client : Len(send'[d]) <= Buffer,
             UNCHANGED <<hub, closed, conn, since, received, incoming, crashed>>
      PROVE  IInv'
  <2>1. PICK p \in Pump : pump' = [pump EXCEPT ![c][p] = "leaving"]
    BY <1>3
  <2>2. /\ pump' \in [Client -> [Pump -> {"none", "running", "leaving", "done"}]]
        /\ \A d \in Client : d # c => pump'[d] = pump[d]
    BY <2>1, PumpType DEF IInv
  <2>3. TypeOK'
    BY <1>3, <2>2 DEF IInv, TypeOK, hub, incoming
  <2>4. OpenWhileRegistered'
    BY <1>3 DEF IInv, OpenWhileRegistered, hub
  <2>5. conn[c] # "none"
    BY <1>3 DEF IInv, NotYetConnected, Pump
  <2>6. NotYetConnected'
    BY <1>3, <2>2, <2>5 DEF IInv, NotYetConnected, hub
  <2> QED BY <2>3, <2>4, <2>6 DEF IInv
<1>4. CASE WriteFails(c)
  <2>1. send' \in [Client -> Seq(Item)] /\ \A d \in Client : Len(send'[d]) <= Buffer
    <3>1. CASE send' = send
      BY <3>1 DEF IInv, TypeOK
    <3>2. CASE send[c] = <<>> /\ send' = [send EXCEPT ![c] = send[c]]
      BY <3>2 DEF IInv, TypeOK
    <3>3. CASE send[c] # <<>> /\ send' = [send EXCEPT ![c] = Tail(send[c])]
      BY <3>3, TailType DEF IInv
    <3> QED BY <1>4, <3>1, <3>2, <3>3 DEF WriteFails
  <2> QED BY <1>3, <1>4, <2>1 DEF WriteFails, Writing, Pump
<1>5. CASE WriteEnds(c)
  <2>1. send' \in [Client -> Seq(Item)] /\ \A d \in Client : Len(send'[d]) <= Buffer
    BY <1>5 DEF WriteEnds, IInv, TypeOK
  <2> QED BY <1>3, <1>5, <2>1 DEF WriteEnds, Writing, Pump
<1>6. CASE ReadFails(c)
  <2>1. send' \in [Client -> Seq(Item)] /\ \A d \in Client : Len(send'[d]) <= Buffer
    BY <1>6 DEF ReadFails, IInv, TypeOK
  <2> QED BY <1>3, <1>6, <2>1 DEF ReadFails, Pump
<1>7. QED BY <1>1, <1>2, <1>4, <1>5, <1>6 DEF PumpStep

\* BroadcastToInstance changes channels and its own walk only.
LEMMA WalkStep ==
  ASSUME IInv,
         \/ \E b \in Broadcaster, i \in Instance : Broadcast(b, i)
         \/ \E b \in Broadcaster : BroadcastStep(b)
  PROVE  IInv'
<1>1. ASSUME send' \in [Client -> Seq(Item)],
             \A d \in Client : Len(send'[d]) <= Buffer,
             target' \in [Broadcaster -> Instance \union {NoInstance}],
             visiting' \in [Broadcaster -> SUBSET Client],
             messages' \in 0..MaxMessages, crashed' \in BOOLEAN,
             UNCHANGED <<hub, closed, client>>
      PROVE  IInv'
  <2>1. TypeOK'
    BY <1>1 DEF IInv, TypeOK, hub, client
  <2>2. OpenWhileRegistered' /\ NotYetConnected'
    BY <1>1 DEF IInv, OpenWhileRegistered, NotYetConnected, hub, client
  <2> QED BY <2>1, <2>2 DEF IInv
<1>2. ASSUME NEW b \in Broadcaster, NEW i \in Instance, Broadcast(b, i) PROVE IInv'
  <2>1. {c \in clients : ListensTo[c] = i} \in SUBSET Client
    BY DEF IInv, TypeOK
  <2>2. messages' \in 0..MaxMessages
    BY <1>2, BoundAssumption DEF Broadcast, IInv, TypeOK
  <2>3. visiting' \in [Broadcaster -> SUBSET Client]
    BY <1>2, <2>1 DEF Broadcast, IInv, TypeOK
  <2> QED BY <1>1, <1>2, <2>2, <2>3 DEF Broadcast, IInv, TypeOK
<1>3. ASSUME NEW b \in Broadcaster, NEW c \in Client, SendIncoming(b, c) PROVE IInv'
  <2>1. send' \in [Client -> Seq(Item)] /\ \A d \in Client : Len(send'[d]) <= Buffer
    <3>1. 0 \in Item
      BY BoundAssumption DEF Item
    <3> QED BY <1>3, <3>1, PutType DEF SendIncoming, IInv
  <2>2. visiting' \in [Broadcaster -> SUBSET Client]
    BY <1>3 DEF SendIncoming, Visited, IInv, TypeOK
  <2> QED BY <1>1, <1>3, <2>1, <2>2 DEF SendIncoming, IInv, TypeOK
<1>4. ASSUME NEW b \in Broadcaster, NEW c \in Client, MissIncoming(b, c) PROVE IInv'
  <2>1. visiting' \in [Broadcaster -> SUBSET Client]
    BY <1>4 DEF MissIncoming, Visited, IInv, TypeOK
  <2> QED BY <1>1, <1>4, <2>1 DEF MissIncoming, IInv, TypeOK
<1>5. ASSUME NEW b \in Broadcaster, NEW c \in Client, SendOnClosed(b, c) PROVE IInv'
  BY <1>1, <1>5 DEF SendOnClosed, IInv, TypeOK
<1>6. ASSUME NEW b \in Broadcaster, EndBroadcast(b) PROVE IInv'
  BY <1>1, <1>6 DEF EndBroadcast, IInv, TypeOK
<1>7. QED BY <1>2, <1>3, <1>4, <1>5, <1>6 DEF BroadcastStep

LEMMA NextIInv == ASSUME IInv, [Next]_vars PROVE IInv'
<1>1. CASE UNCHANGED vars
  BY <1>1 DEF vars, hub, client, incoming, IInv, TypeOK, OpenWhileRegistered, NotYetConnected
<1>2. CASE Next
  BY <1>2, PublishStep, RunKeeps, RegisterStep, LeaveStep, ClientStep, WalkStep DEF Next
<1>3. QED BY <1>1, <1>2

\* Every variable of the hub and its clients keeps its type; no channel holds
\* more than its capacity.
THEOREM HubTypeCorrect == Spec => []TypeOK
<1>1. Init => IInv
  BY InitIInv
<1>2. IInv /\ [Next]_vars => IInv'
  BY NextIInv
<1>3. IInv => TypeOK
  BY DEF IInv
<1>4. QED BY <1>1, <1>2, <1>3, PTL DEF Spec

\* A registered client's channel is open exactly as long as h.clients holds
\* it, so Run, which sends on and closes only channels of clients it finds
\* there, never panics, and an abandoned channel is always closed.
THEOREM OpenWhileRegisteredHolds == Spec => []OpenWhileRegistered
<1>1. Init => IInv
  BY InitIInv
<1>2. IInv /\ [Next]_vars => IInv'
  BY NextIInv
<1>3. IInv => OpenWhileRegistered
  BY DEF IInv
<1>4. QED BY <1>1, <1>2, <1>3, PTL DEF Spec

-----------------------------------------------------------------------------
(***************************************************************************)
(* What a client has been given.  Its connection and its channel together  *)
(* hold every event that was due, in order, with messages in between.      *)
(***************************************************************************)
Places(s) == {k \in DOMAIN s : s[k] # 0}
Events(s) == {s[k] : k \in Places(s)}
Ordered(s) == \A j, k \in Places(s) : j < k => s[j] < s[k]

LEMMA AppendedEvents ==
  ASSUME NEW s \in Seq(Nat), NEW x \in Nat
  PROVE  /\ Events(Append(s, x)) = IF x = 0 THEN Events(s) ELSE Events(s) \union {x}
         /\ Ordered(s) /\ (x # 0 => \A e \in Events(s) : e < x) => Ordered(Append(s, x))
<1> DEFINE t == Append(s, x)
           n == Len(s)
<1>1. /\ t \in Seq(Nat) /\ n \in Nat /\ DOMAIN s = 1..n /\ DOMAIN t = 1..(n + 1)
      /\ t[n + 1] = x /\ \A k \in 1..n : t[k] = s[k]
  OBVIOUS
<1>2. \A k \in 1..n : s[k] \in Nat
  OBVIOUS
<1> HIDE DEF t, n
<1>3. \A k \in 1..(n + 1) : k = n + 1 \/ k \in 1..n
  BY <1>1
<1>4. n + 1 \in 1..(n + 1) /\ 1..n \subseteq 1..(n + 1) /\ \A k \in 1..n : k < n + 1
  BY <1>1
<1>5. Events(t) = IF x = 0 THEN Events(s) ELSE Events(s) \union {x}
  <2>1. ASSUME NEW e \in Events(t) PROVE e \in Events(s) \/ (e = x /\ x # 0)
    BY <1>1, <1>3, <2>1 DEF Events, Places
  <2>2. ASSUME NEW e \in Events(s) PROVE e \in Events(t)
    BY <1>1, <1>4, <2>2 DEF Events, Places
  <2>3. x # 0 => x \in Events(t)
    BY <1>1, <1>4 DEF Events, Places
  <2>4. x \notin Events(s) \/ x # 0
    BY DEF Events, Places
  <2> QED BY <2>1, <2>2, <2>3, <2>4
<1>6. ASSUME Ordered(s), x # 0 => \A e \in Events(s) : e < x PROVE Ordered(t)
  <2> SUFFICES ASSUME NEW j \in 1..(n + 1), NEW k \in 1..(n + 1), t[j] # 0, t[k] # 0, j < k PROVE t[j] < t[k]
    BY <1>1 DEF Ordered, Places
  <2>1. j \in 1..n
    BY <1>1
  <2>2. CASE k \in 1..n
    BY <1>1, <1>6, <2>1, <2>2 DEF Ordered, Places
  <2>3. CASE k = n + 1
    <3>1. t[j] \in Events(s) /\ t[k] = x
      BY <1>1, <2>1, <2>3 DEF Events, Places
    <3> QED BY <1>6, <3>1
  <2> QED BY <1>3, <2>2, <2>3
<1> QED BY <1>5, <1>6 DEF t

LEMMA ItemMoves ==
  ASSUME NEW r \in Seq(Nat), NEW s \in Seq(Nat)
  PROVE  /\ r \o s \in Seq(Nat)
         /\ \A x \in Nat : r \o Append(s, x) = Append(r \o s, x)
         /\ s # <<>> => Append(r, Head(s)) \o Tail(s) = r \o s
<1>1. r \o s \in Seq(Nat) /\ \A x \in Nat : r \o Append(s, x) = Append(r \o s, x)
  OBVIOUS
<1>2. ASSUME s # <<>> PROVE Append(r, Head(s)) \o Tail(s) = r \o s
  <2>1. Head(s) \in Nat /\ Tail(s) \in Seq(Nat) /\ <<Head(s)>> \in Seq(Nat)
    BY <1>2
  <2>2. <<Head(s)>> \o Tail(s) = s
    BY <1>2, <2>1
  <2>3. Append(r, Head(s)) = r \o <<Head(s)>>
    BY <2>1, AppendIsConcat
  <2>4. (r \o <<Head(s)>>) \o Tail(s) = r \o (<<Head(s)>> \o Tail(s))
    BY <2>1, ConcatAssociative
  <2> QED BY <2>2, <2>3, <2>4
<1> QED BY <1>1, <1>2

\* The client has been given what is due to it.
Given(c) == Ordered(received[c] \o send[c]) /\ Events(received[c] \o send[c]) = Due(c)

LEMMA InOrderIsGiven == CompleteInOrder <=> \A c \in clients : Writing(c) => Given(c)
BY DEF CompleteInOrder, Given, Ordered, Events, Places

OrderInv ==
  /\ CompleteInOrder
  /\ \A c \in Client : since[c] <= taken
  /\ \A c \in todo : since[c] < taken /\ shouldDeliverEvent(c, taken)
  /\ \A c \in Client : conn[c] = "none" => send[c] = <<>> /\ received[c] = <<>>

LEMMA ItemsAreNat ==
  ASSUME IInv, NEW c \in Client PROVE send[c] \in Seq(Nat) /\ received[c] \in Seq(Nat) /\ taken \in Nat /\ since[c] \in Nat
<1>1. Item \subseteq Nat
  BY BoundAssumption DEF Item
<1>2. send[c] \in Seq(Item) /\ received[c] \in Seq(Item) /\ taken \in 0..Len(log) /\ since[c] \in 0..MaxEvents
      /\ log \in Seq(Instance \union {NoInstance})
  BY DEF IInv, TypeOK
<1>3. Len(log) \in Nat
  BY <1>2
<1>4. \A s \in Seq(Item) : s \in Seq(Nat)
  <2> SUFFICES ASSUME NEW s \in Seq(Item) PROVE s \in Seq(Nat)
    OBVIOUS
  <2>1. s \in [1..Len(s) -> Item] /\ Len(s) \in Nat
    OBVIOUS
  <2>2. s \in [1..Len(s) -> Nat]
    BY <1>1, <2>1
  <2> QED BY <2>1, <2>2
<1>5. taken \in Nat /\ since[c] \in Nat
  BY <1>2, <1>3, BoundAssumption
<1> QED BY <1>2, <1>4, <1>5

LEMMA InOrderAfter == CompleteInOrder' <=> \A c \in clients' : Writing(c)' => Given(c)'
BY DEF CompleteInOrder, Given, Ordered, Events, Places

\* What a client has been given depends on what was sent and what is due.
LEMMA GivenKept ==
  ASSUME NEW c, Given(c), Due(c)' = Due(c),
         received'[c] \o send'[c] = received[c] \o send[c]
  PROVE  Given(c)'
BY DEF Given

\* Steps that move no event of the hub and put nothing into a channel.
LEMMA QuietOrder ==
  ASSUME OrderInv, IInv, UNCHANGED <<hub, since>>,
         \A c \in Client : conn'[c] = "none" => conn[c] = "none" /\ UNCHANGED <<send[c], received[c]>>,
         \A c \in clients : Writing(c)' => Writing(c) /\ received'[c] \o send'[c] = received[c] \o send[c]
  PROVE  OrderInv'
<1>1. ASSUME NEW c \in Client PROVE Due(c)' = Due(c)
  BY DEF hub, Due, shouldDeliverEvent
<1>2. ASSUME NEW c \in clients', Writing(c)' PROVE Given(c)'
  <2>1. c \in clients /\ c \in Client /\ Writing(c)
    BY <1>2 DEF hub, IInv, TypeOK
  <2>2. Given(c)
    BY <2>1, InOrderIsGiven DEF OrderInv
  <2> QED BY <1>1, <1>2, <2>1, <2>2, GivenKept
<1>3. CompleteInOrder'
  BY <1>2, InOrderAfter
<1>4. \A c \in Client : since'[c] <= taken'
  BY DEF OrderInv, hub
<1>5. \A c \in todo' : since'[c] < taken' /\ shouldDeliverEvent(c, taken)'
  BY DEF OrderInv, hub, shouldDeliverEvent
<1>6. \A c \in Client : conn'[c] = "none" => send'[c] = <<>> /\ received'[c] = <<>>
  BY DEF OrderInv
<1> QED BY <1>3, <1>4, <1>5, <1>6 DEF OrderInv

LEMMA PublishOrder ==
  ASSUME OrderInv, IInv, NEW i \in Instance \union {NoInstance}, Publish(i)
  PROVE  OrderInv'
<1>1. log \in Seq(Instance \union {NoInstance}) /\ taken \in 0..Len(log)
  BY DEF IInv, TypeOK
<1>2. \A n \in 1..Len(log) : log'[n] = log[n]
  BY <1>1 DEF Publish
<1>3. ASSUME NEW c \in Client PROVE Due(c)' = Due(c)
  <2>1. \A n \in since[c] + 1..taken : log'[n] = log[n]
    BY <1>1, <1>2, ItemsAreNat
  <2> QED BY <2>1 DEF Due, shouldDeliverEvent, Publish, client
<1>4. ASSUME NEW c \in clients', Writing(c)' PROVE Given(c)'
  <2>1. c \in clients /\ c \in Client /\ Writing(c)
    BY <1>4 DEF Publish, client, Writing, IInv, TypeOK
  <2>2. Given(c)
    BY <2>1, InOrderIsGiven DEF OrderInv
  <2> QED BY <1>3, <2>1, <2>2, GivenKept DEF Publish, client
<1>5. CompleteInOrder'
  BY <1>4, InOrderAfter
<1>6. \A c \in todo' : since'[c] < taken' /\ shouldDeliverEvent(c, taken)'
  <2> SUFFICES ASSUME NEW c \in todo PROVE since[c] < taken /\ shouldDeliverEvent(c, taken)'
    BY DEF Publish, client
  <2>1. since[c] < taken /\ shouldDeliverEvent(c, taken) /\ c \in Client
    BY DEF OrderInv, IInv, TypeOK
  <2>2. taken \in 1..Len(log)
    BY <1>1, <2>1, ItemsAreNat
  <2> QED BY <1>2, <2>1, <2>2 DEF shouldDeliverEvent, Publish
<1> QED BY <1>5, <1>6 DEF OrderInv, Publish, client

LEMMA TakeOrder == ASSUME OrderInv, IInv, TakeEvent PROVE OrderInv'
<1>1. log \in Seq(Instance \union {NoInstance}) /\ taken \in Nat /\ clients \subseteq Client /\ todo = {}
  BY DEF IInv, TypeOK, TakeEvent, Selecting
<1>2. ASSUME NEW c \in clients PROVE Due(c)' = Due(c)
  <2>1. since[c] \in Nat /\ since[c] <= taken
    BY <1>1, ItemsAreNat DEF OrderInv
  <2>2. c \notin todo' => ~shouldDeliverEvent(c, taken + 1)
    BY DEF TakeEvent
  <2>3. since[c] + 1..taken + 1 = (since[c] + 1..taken) \union {taken + 1}
    BY <1>1, <2>1
  <2>4. \A n \in since[c] + 1..taken : n # taken + 1 /\ (n = taken => c \notin todo)
    BY <1>1, <2>1
  <2> QED BY <2>2, <2>3, <2>4 DEF Due, shouldDeliverEvent, TakeEvent, client
<1>3. ASSUME NEW c \in clients', Writing(c)' PROVE Given(c)'
  <2>1. c \in clients /\ Writing(c)
    BY <1>3 DEF TakeEvent, client, Writing
  <2>2. Given(c)
    BY <2>1, InOrderIsGiven DEF OrderInv
  <2> QED BY <1>2, <2>1, <2>2, GivenKept DEF TakeEvent, client
<1>4. CompleteInOrder'
  BY <1>3, InOrderAfter
<1>5. \A c \in Client : since'[c] <= taken' /\ since'[c] < taken'
  BY <1>1, ItemsAreNat DEF OrderInv, TakeEvent, client
<1>6. \A c \in todo' : since'[c] < taken' /\ shouldDeliverEvent(c, taken)'
  BY <1>1, <1>5 DEF TakeEvent, shouldDeliverEvent
<1> QED BY <1>4, <1>5, <1>6 DEF OrderInv, TakeEvent, client

\* The event a client is offered is later than all it has been given.
LEMMA OfferOrder == ASSUME OrderInv, IInv, NEW c \in Client, Offer(c) PROVE OrderInv'
<1>1. c \in todo /\ todo' = todo \ {c} /\ c \in clients
  BY DEF Offer, IInv, TypeOK
<1>2. since[c] < taken /\ shouldDeliverEvent(c, taken) /\ taken \in Nat /\ since[c] \in Nat
  BY <1>1, ItemsAreNat DEF OrderInv
<1>3. Due(c)' = Due(c) \union {taken} /\ \A n \in Due(c) : n < taken
  <2>1. since[c] + 1..taken = (since[c] + 1..taken - 1) \union {taken}
    BY <1>2
  <2>2. \A n \in since[c] + 1..taken - 1 : n < taken
    BY <1>2
  <2> QED BY <1>1, <1>2, <2>1, <2>2 DEF Due, shouldDeliverEvent, Offer, client
<1>4. ASSUME NEW d \in Client, d # c PROVE Due(d)' = Due(d)
  BY <1>1, <1>4 DEF Due, shouldDeliverEvent, Offer, client
<1>5. send'[c] = Append(send[c], taken) /\ \A d \in Client : d # c => send'[d] = send[d]
  BY DEF Offer, Put, IInv, TypeOK
<1>6. ASSUME NEW d \in clients', Writing(d)' PROVE Given(d)'
  <2>1. d \in clients /\ d \in Client /\ Writing(d)
    BY <1>6 DEF Offer, client, Writing, IInv, TypeOK
  <2>2. Given(d)
    BY <2>1, InOrderIsGiven DEF OrderInv
  <2>3. CASE d # c
    BY <1>4, <1>5, <2>1, <2>2, <2>3, GivenKept DEF Offer, client
  <2>4. CASE d = c
    <3>1. received[c] \o send[c] \in Seq(Nat)
          /\ received[c] \o Append(send[c], taken) = Append(received[c] \o send[c], taken)
      BY <1>2, ItemsAreNat, ItemMoves
    <3>2. received'[c] \o send'[c] = Append(received[c] \o send[c], taken)
      BY <1>5, <3>1 DEF Offer, client
    <3>3. Ordered(received[c] \o send[c]) /\ Events(received[c] \o send[c]) = Due(c)
      BY <2>2, <2>4 DEF Given
    <3>4. taken # 0
      BY <1>2
    <3>5. /\ Events(Append(received[c] \o send[c], taken)) = Due(c) \union {taken}
          /\ Ordered(Append(received[c] \o send[c], taken))
      BY <1>2, <1>3, <3>1, <3>3, <3>4, AppendedEvents
    <3> QED BY <1>3, <2>4, <3>2, <3>5 DEF Given
  <2> QED BY <2>3, <2>4
<1>7. CompleteInOrder'
  BY <1>6, InOrderAfter
<1>8. \A d \in todo' : since'[d] < taken' /\ shouldDeliverEvent(d, taken)'
  BY <1>1 DEF OrderInv, Offer, client, shouldDeliverEvent
<1>9. conn[c] # "none"
  BY <1>1 DEF IInv, NotYetConnected
<1>10. \A d \in Client : conn'[d] = "none" => send'[d] = <<>> /\ received'[d] = <<>>
  BY <1>5, <1>9 DEF OrderInv, Offer, client
<1> QED BY <1>7, <1>8, <1>10 DEF OrderInv, Offer, client

\* Clients that leave h.clients take their rights with them.
LEMMA RemoveOrder ==
  ASSUME OrderInv, IInv, NEW c \in Client, clients' = clients \ {c}, todo' = todo \ {c},
         UNCHANGED <<log, taken, since, send, received>>,
         \A d \in Client : d # c => pump'[d] = pump[d],
         \A d \in Client : conn'[d] = "none" => conn[d] = "none"
  PROVE  OrderInv'
<1>1. ASSUME NEW d \in Client, d # c PROVE Due(d)' = Due(d)
  BY <1>1 DEF Due, shouldDeliverEvent
<1>2. ASSUME NEW d \in clients', Writing(d)' PROVE Given(d)'
  <2>1. d \in clients /\ d \in Client /\ d # c /\ Writing(d)
    BY <1>2 DEF Writing, IInv, TypeOK
  <2>2. Given(d)
    BY <2>1, InOrderIsGiven DEF OrderInv
  <2> QED BY <1>1, <2>1, <2>2, GivenKept
<1>3. CompleteInOrder'
  BY <1>2, InOrderAfter
<1>4. \A d \in todo' : since'[d] < taken' /\ shouldDeliverEvent(d, taken)'
  BY DEF OrderInv, shouldDeliverEvent
<1> QED BY <1>3, <1>4 DEF OrderInv

LEMMA RegisterOrder == ASSUME OrderInv, IInv, NEW c \in Client, Register(c) PROVE OrderInv'
<1>1. todo = {} /\ todo' = {} /\ taken \in Nat
  BY ItemsAreNat DEF Register, Exclusive, Selecting
<1>2. /\ since'[c] = taken /\ \A d \in Client : d # c => since'[d] = since[d]
      /\ \A d \in Client : d # c => pump'[d] = pump[d] /\ conn'[d] = conn[d]
      /\ UNCHANGED <<log, taken, send, received>>
      /\ conn'[c] = "open"
  BY DEF Register, IInv, TypeOK
<1>3. ASSUME NEW d \in clients', Writing(d)' PROVE Given(d)'
  <2>1. d \in Client
    BY <1>3 DEF Register, IInv, TypeOK
  <2>2. CASE d = c
    <3>1. send'[c] = <<>> /\ received'[c] = <<>>
      BY <1>2 DEF Register, OrderInv
    <3>2. Due(c)' = {}
      <4>1. taken + 1..taken = {}
        BY <1>1
      <4> QED BY <1>2, <4>1 DEF Due
    <3>3. received'[c] \o send'[c] = <<>>
      BY <3>1
    <3>4. Ordered(<<>>) /\ Events(<<>>) = {}
      BY DEF Ordered, Events, Places
    <3> QED BY <2>2, <3>2, <3>3, <3>4 DEF Given
  <2>3. CASE d # c
    <3>1. d \in clients /\ Writing(d)
      BY <1>2, <1>3, <2>1, <2>3 DEF Register, Writing
    <3>2. Given(d)
      BY <3>1, InOrderIsGiven DEF OrderInv
    <3>3. Due(d)' = Due(d)
      BY <1>1, <1>2, <2>1, <2>3 DEF Due, shouldDeliverEvent
    <3> QED BY <1>2, <3>2, <3>3, GivenKept
  <2> QED BY <2>2, <2>3
<1>4. CompleteInOrder'
  BY <1>3, InOrderAfter
<1>5. \A d \in Client : since'[d] <= taken'
  <2> SUFFICES ASSUME NEW d \in Client PROVE since'[d] <= taken
    BY <1>2
  <2>1. CASE d = c
    BY <1>1, <1>2, <2>1
  <2>2. CASE d # c
    BY <1>2, <2>2 DEF OrderInv
  <2> QED BY <2>1, <2>2
<1>6. \A d \in Client : conn'[d] = "none" => send'[d] = <<>> /\ received'[d] = <<>>
  BY <1>2 DEF OrderInv
<1> QED BY <1>1, <1>4, <1>5, <1>6 DEF OrderInv

LEMMA PumpOrder ==
  ASSUME OrderInv, IInv, NEW c \in Client, PeerLeaves(c) \/ PumpStep(c) \/ ReadFails(c)
  PROVE  OrderInv'
<1>1. CASE PeerLeaves(c)
  <2>1. \A d \in Client : conn'[d] = "none" => conn[d] = "none"
    BY <1>1 DEF PeerLeaves, IInv, TypeOK
  <2> QED BY <1>1, <2>1, QuietOrder DEF PeerLeaves, Writing
<1>2. CASE Write(c)
  <2>1. /\ received'[c] = Append(received[c], Head(send[c])) /\ send'[c] = Tail(send[c])
        /\ \A d \in Client : d # c => received'[d] = received[d] /\ send'[d] = send[d]
    BY <1>2 DEF Write, IInv, TypeOK
  <2>2. received'[c] \o send'[c] = received[c] \o send[c]
    <3>1. send[c] \in Seq(Nat) /\ received[c] \in Seq(Nat)
      BY ItemsAreNat
    <3>2. send[c] # <<>>
      BY <1>2 DEF Write
    <3>3. Append(received[c], Head(send[c])) \o Tail(send[c]) = received[c] \o send[c]
      BY <3>1, <3>2, ItemMoves
    <3> QED BY <2>1, <3>3
  <2>3. \A d \in clients : received'[d] \o send'[d] = received[d] \o send[d]
    BY <2>1, <2>2 DEF IInv, TypeOK
  <2>4. \A d \in Client : conn'[d] = "none" => conn[d] = "none" /\ UNCHANGED <<send[d], received[d]>>
    BY <1>2, <2>1 DEF Write
  <2> QED BY <1>2, <2>3, <2>4, QuietOrder DEF Write, Writing
<1>3. ASSUME pump' = [pump EXCEPT ![c]["write"] = "leaving"],
             UNCHANGED <<hub, since, conn, received>>,
             \A d \in Client : d # c => send'[d] = send[d],
             conn[c] # "none"
      PROVE  OrderInv'
  <2>1. ~Writing(c)' /\ \A d \in Client : d # c => (Writing(d)' <=> Writing(d))
    BY <1>3 DEF Writing, IInv, TypeOK, Pump
  <2>2. \A d \in Client : conn'[d] = "none" => conn[d] = "none" /\ UNCHANGED <<send[d], received[d]>>
    BY <1>3
  <2>3. \A d \in clients : Writing(d)' => Writing(d) /\ received'[d] \o send'[d] = received[d] \o send[d]
    BY <1>3, <2>1 DEF IInv, TypeOK
  <2> QED BY <1>3, <2>2, <2>3, QuietOrder
<1>4. Writing(c) => conn[c] # "none"
  BY DEF Writing, IInv, NotYetConnected, Pump
<1>5. CASE WriteFails(c)
  <2>1. \A d \in Client : d # c => send'[d] = send[d]
    BY <1>5 DEF WriteFails, IInv, TypeOK
  <2> QED BY <1>3, <1>4, <1>5, <2>1 DEF WriteFails
<1>6. CASE WriteEnds(c)
  BY <1>3, <1>4, <1>6 DEF WriteEnds
<1>7. CASE ReadFails(c)
  <2>1. \A d \in Client : Writing(d)' <=> Writing(d)
    BY <1>7 DEF ReadFails, Writing, IInv, TypeOK, Pump
  <2> QED BY <1>7, <2>1, QuietOrder DEF ReadFails, IInv, TypeOK
<1> QED BY <1>1, <1>2, <1>5, <1>6, <1>7 DEF PumpStep

\* BroadcastToInstance visits clients that have been registered.
VisitInv == \A b \in Broadcaster : \A c \in visiting[b] : conn[c] # "none"

LEMMA NextVisitInv == ASSUME IInv, VisitInv, [Next]_vars PROVE VisitInv'
<1>1. \A c \in Client : conn[c] # "none" => conn'[c] # "none"
  <2> SUFFICES ASSUME NEW c \in Client, conn[c] # "none" PROVE conn'[c] # "none"
    OBVIOUS
  <2>1. ASSUME UNCHANGED conn PROVE conn'[c] # "none"
    BY <2>1
  <2>2. ASSUME NEW d \in Client, NEW v \in {"open", "broken", "closed"}, conn' = [conn EXCEPT ![d] = v]
        PROVE  conn'[c] # "none"
    BY <2>2 DEF IInv, TypeOK
  <2>3. CASE \E i \in Instance \union {NoInstance} : Publish(i)
    BY <2>1, <2>3 DEF Publish, client
  <2>4. CASE RunStep
    BY <2>1, <2>4 DEF RunStep, TakeEvent, Offer, Drop, client
  <2>5. CASE \E d \in Client : Register(d) \/ PeerLeaves(d) \/ PumpStep(d) \/ ReadFails(d)
    BY <2>1, <2>2, <2>5 DEF Register, PeerLeaves, PumpStep, Write, WriteFails, WriteEnds, ReadFails
  <2>6. CASE \E d \in Client, p \in Pump : Leave(d, p)
    BY <2>2, <2>6 DEF Leave
  <2>7. CASE \/ \E b \in Broadcaster, i \in Instance : Broadcast(b, i)
             \/ \E b \in Broadcaster : BroadcastStep(b)
    BY <2>1, <2>7 DEF Broadcast, BroadcastStep, SendIncoming, MissIncoming, SendOnClosed, EndBroadcast, client
  <2>8. CASE UNCHANGED vars
    BY <2>1, <2>8 DEF vars, client
  <2> QED BY <2>3, <2>4, <2>5, <2>6, <2>7, <2>8 DEF Next
<1>2. ASSUME NEW b \in Broadcaster PROVE visiting'[b] \subseteq visiting[b] \union clients
  <2>1. ASSUME UNCHANGED visiting PROVE visiting'[b] \subseteq visiting[b] \union clients
    BY <2>1
  <2>2. ASSUME NEW a \in Broadcaster, NEW s \in SUBSET (visiting[a] \union clients), visiting' = [visiting EXCEPT ![a] = s]
        PROVE  visiting'[b] \subseteq visiting[b] \union clients
    BY <2>2 DEF IInv, TypeOK
  <2>3. CASE \E i \in Instance \union {NoInstance} : Publish(i)
    BY <2>1, <2>3 DEF Publish, incoming
  <2>4. CASE RunStep
    BY <2>1, <2>4 DEF RunStep, TakeEvent, Offer, Drop, incoming
  <2>5. CASE \E d \in Client : Register(d) \/ PeerLeaves(d) \/ PumpStep(d) \/ ReadFails(d)
    BY <2>1, <2>5 DEF Register, PeerLeaves, PumpStep, Write, WriteFails, WriteEnds, ReadFails, incoming
  <2>6. CASE \E d \in Client, p \in Pump : Leave(d, p)
    BY <2>1, <2>6 DEF Leave, incoming
  <2>7. CASE \E a \in Broadcaster, i \in Instance : Broadcast(a, i)
    <3>1. PICK a \in Broadcaster, i \in Instance : Broadcast(a, i)
      BY <2>7
    <3>2. {c \in clients : ListensTo[c] = i} \in SUBSET (visiting[a] \union clients)
      OBVIOUS
    <3> QED BY <2>2, <3>1, <3>2 DEF Broadcast
  <2>8. CASE \E a \in Broadcaster : BroadcastStep(a)
    <3>1. PICK a \in Broadcaster : BroadcastStep(a)
      BY <2>8
    <3>2. \A c \in Client : visiting[a] \ {c} \in SUBSET (visiting[a] \union clients)
      OBVIOUS
    <3>3. {} \in SUBSET (visiting[a] \union clients)
      OBVIOUS
    <3> QED BY <2>1, <2>2, <3>1, <3>2, <3>3
        DEF BroadcastStep, SendIncoming, MissIncoming, Visited, SendOnClosed, EndBroadcast
  <2>9. CASE UNCHANGED vars
    BY <2>1, <2>9 DEF vars, incoming
  <2> QED BY <2>3, <2>4, <2>5, <2>6, <2>7, <2>8, <2>9 DEF Next
<1>3. \A c \in clients : conn[c] # "none" /\ c \in Client
  BY DEF IInv, TypeOK, NotYetConnected
<1>4. \A b \in Broadcaster : visiting[b] \subseteq Client
  BY DEF IInv, TypeOK
<1> QED BY <1>1, <1>2, <1>3, <1>4 DEF VisitInv

\* A message comes between events and disturbs none.
LEMMA WalkOrder ==
  ASSUME OrderInv, IInv, VisitInv,
         \/ \E b \in Broadcaster, i \in Instance : Broadcast(b, i)
         \/ \E b \in Broadcaster : BroadcastStep(b)
  PROVE  OrderInv'
<1>1. ASSUME UNCHANGED <<hub, send, client>> PROVE OrderInv'
  BY <1>1, QuietOrder DEF client, Writing
<1>2. ASSUME NEW b \in Broadcaster, NEW i \in Instance, Broadcast(b, i) PROVE OrderInv'
  BY <1>1, <1>2 DEF Broadcast
<1>3. ASSUME NEW b \in Broadcaster, NEW c \in Client, MissIncoming(b, c) PROVE OrderInv'
  BY <1>1, <1>3 DEF MissIncoming
<1>4. ASSUME NEW b \in Broadcaster, NEW c \in Client, SendOnClosed(b, c) PROVE OrderInv'
  BY <1>1, <1>4 DEF SendOnClosed
<1>5. ASSUME NEW b \in Broadcaster, EndBroadcast(b) PROVE OrderInv'
  BY <1>1, <1>5 DEF EndBroadcast
<1>6. ASSUME NEW b \in Broadcaster, NEW c \in Client, SendIncoming(b, c) PROVE OrderInv'
  <2>0. conn[c] # "none"
    BY <1>6 DEF SendIncoming, Visited, VisitInv
  <2>1. send'[c] = Append(send[c], 0) /\ \A d \in Client : d # c => send'[d] = send[d]
    BY <1>6 DEF SendIncoming, Put, IInv, TypeOK
  <2>2. UNCHANGED <<hub, pump, conn, since, received>>
    BY <1>6 DEF SendIncoming, client
  <2>3. ASSUME NEW d \in Client PROVE Due(d)' = Due(d)
    BY <2>2 DEF hub, Due, shouldDeliverEvent
  <2>4. ASSUME NEW d \in clients', Writing(d)' PROVE Given(d)'
    <3>1. d \in clients /\ d \in Client /\ Writing(d)
      BY <2>2, <2>4 DEF hub, Writing, IInv, TypeOK
    <3>2. Given(d)
      BY <3>1, InOrderIsGiven DEF OrderInv
    <3>3. CASE d # c
      BY <2>1, <2>2, <2>3, <3>1, <3>2, <3>3, GivenKept
    <3>4. CASE d = c
      <4>1. received[c] \o send[c] \in Seq(Nat)
            /\ received[c] \o Append(send[c], 0) = Append(received[c] \o send[c], 0)
        BY ItemsAreNat, ItemMoves
      <4>2. received'[c] \o send'[c] = Append(received[c] \o send[c], 0)
        BY <2>1, <2>2, <4>1
      <4>3. Ordered(received[c] \o send[c]) /\ Events(received[c] \o send[c]) = Due(c)
        BY <3>2, <3>4 DEF Given
      <4>4. /\ Events(Append(received[c] \o send[c], 0)) = Due(c)
            /\ Ordered(Append(received[c] \o send[c], 0))
        BY <4>1, <4>3, AppendedEvents
      <4> QED BY <2>3, <3>4, <4>2, <4>4 DEF Given
    <3> QED BY <3>3, <3>4
  <2>5. CompleteInOrder'
    BY <2>4, InOrderAfter
  <2>6. \A d \in todo' : since'[d] < taken' /\ shouldDeliverEvent(d, taken)'
    BY <2>2 DEF OrderInv, hub, shouldDeliverEvent
  <2>7. \A d \in Client : conn'[d] = "none" => send'[d] = <<>> /\ received'[d] = <<>>
    BY <2>0, <2>1, <2>2 DEF OrderInv
  <2> QED BY <2>2, <2>5, <2>6, <2>7 DEF OrderInv, hub
<1> QED BY <1>2, <1>3, <1>4, <1>5, <1>6 DEF BroadcastStep

LEMMA InitOrderInv == ASSUME Init PROVE OrderInv /\ VisitInv
<1>1. CompleteInOrder
  BY DEF Init, CompleteInOrder
<1>2. \A c \in Client : since[c] <= taken /\ send[c] = <<>> /\ received[c] = <<>>
  <2>1. \A c \in Client : since[c] = 0 /\ taken = 0 /\ send[c] = <<>> /\ received[c] = <<>>
    BY DEF Init
  <2>2. 0 <= 0
    OBVIOUS
  <2> QED BY <2>1, <2>2
<1>3. \A c \in todo : since[c] < taken /\ shouldDeliverEvent(c, taken)
  BY DEF Init
<1>4. VisitInv
  BY DEF Init, VisitInv
<1> QED BY <1>1, <1>2, <1>3, <1>4 DEF OrderInv

LEMMA NextOrderInv == ASSUME IInv, VisitInv, OrderInv, [Next]_vars PROVE OrderInv'
<1>1. CASE UNCHANGED vars
  <2>1. UNCHANGED <<hub, since, send, received, conn, pump>>
    BY <1>1 DEF vars, client
  <2> QED BY <2>1, QuietOrder DEF Writing
<1>2. ASSUME NEW c \in Client, Drop(c) PROVE OrderInv'
  BY <1>2, RemoveOrder DEF Drop, client
<1>3. ASSUME NEW c \in Client, NEW p \in Pump, Leave(c, p) PROVE OrderInv'
  <2>1. \A d \in Client : d # c => pump'[d] = pump[d]
    BY <1>3, PumpType DEF Leave, IInv
  <2>2. \A d \in Client : conn'[d] = "none" => conn[d] = "none"
    BY <1>3 DEF Leave, IInv, TypeOK
  <2>3. todo' = todo \ {c}
    BY <1>3 DEF Leave, Exclusive, Selecting
  <2> QED BY <1>3, <2>1, <2>2, <2>3, RemoveOrder DEF Leave
<1>4. CASE Next
  BY <1>2, <1>3, <1>4, PublishOrder, TakeOrder, OfferOrder, RegisterOrder, PumpOrder, WalkOrder DEF Next, RunStep
<1> QED BY <1>1, <1>4

\* As long as its connection works a registered client misses no published
\* event, gets none twice and none it may not see, and gets them in order,
\* whatever broadcasts put in between.
THEOREM CompleteInOrderHolds == Spec => []CompleteInOrder
<1>1. Init => IInv /\ VisitInv /\ OrderInv
  BY InitIInv, InitOrderInv
<1>2. IInv /\ VisitInv /\ OrderInv /\ [Next]_vars => (IInv /\ VisitInv /\ OrderInv)'
  BY NextIInv, NextVisitInv, NextOrderInv
<1>3. OrderInv => CompleteInOrder
  BY DEF OrderInv
<1>4. QED BY <1>1, <1>2, <1>3, PTL DEF Spec

-----------------------------------------------------------------------------
(* Webhooks.                                                               *)

CONSTANTS Handlers, Urls, Refused, Secrets, Attempts

Webhook == INSTANCE WebhookDelivery

\* The records that handlers, requests and the cache hold.
Handled(pcs) == [pc : pcs, config : Webhook!Config, floor : Webhook!Version, late : BOOLEAN, failed : 0..Attempts - 1]
Delivery == Handled({"new", "store", "post", "gaveUp", "done"})

LEMMA SettledType == ASSUME Webhook!WebhookAssumption
 PROVE /\ Webhook!Settled \in Delivery /\ Webhook!Settled.pc = "done" /\ Webhook!NoConfig \in Webhook!Config
   /\ Webhook!Settled.late = FALSE
<1>1. 0 \in 0..Attempts - 1
  BY DEF Webhook!WebhookAssumption
<1>2. Webhook!NoConfig \in Webhook!Config
  BY DEF Webhook!WebhookAssumption, Webhook!NoConfig, Webhook!Config, Webhook!Url, Webhook!Secret, Webhook!Version
<1> QED BY <1>1, <1>2 DEF Webhook!Settled, Delivery, Handled, Webhook!Version

\* What a handler does with a configuration.
LEMMA SendType ==
  ASSUME Webhook!WebhookAssumption, Webhook!TypeOK, NEW m \in Messages, NEW config \in Webhook!Config,
         NEW floor \in Nat, NEW late \in BOOLEAN
  PROVE  /\ Webhook!Send(m, config, floor, late) \in Delivery
         /\ Webhook!Send(m, config, floor, late).pc = "post" =>
              /\ Webhook!Send(m, config, floor, late).config = config
              /\ Webhook!Send(m, config, floor, late).floor = floor
              /\ Webhook!Send(m, config, floor, late).late = late
<1>1. PICK r \in Delivery : r = msg[m]
  BY DEF Webhook!TypeOK, Delivery, Handled
<1> DEFINE s == [r EXCEPT !.pc = "post", !.config = config, !.floor = floor, !.late = late]
<1>2. s \in Delivery /\ s.pc = "post" /\ s.config = config /\ s.floor = floor /\ s.late = late
  BY DEF Delivery, Handled, Webhook!Version
<1>3. Webhook!Send(m, config, floor, late) \in {Webhook!Settled, s}
  BY <1>1 DEF Webhook!Send
<1> HIDE DEF s
<1> QED BY <1>2, <1>3, SettledType

Asked(pcs) == [pc : pcs, url : Webhook!Url, secret : Webhook!Secret, seen : Webhook!Config]
Change == Asked({"idle", "update", "invalidate", "done"})
Entry == [config : Webhook!Config, fresh : BOOLEAN, late : BOOLEAN]

LEMMA ConstantTypes ==
  ASSUME Webhook!WebhookAssumption
  PROVE  /\ Webhook!NoEntry \in Entry
         /\ Webhook!Answered \in Change /\ Webhook!Answered.pc = "done"
         /\ [Webhook!Answered EXCEPT !.pc = "idle"] \in Change
         /\ [Webhook!Settled EXCEPT !.pc = "new"] \in Delivery
BY SettledType
   DEF Webhook!WebhookAssumption, Webhook!NoEntry, Webhook!Answered, Entry, Change, Asked, Delivery, Handled,
       Webhook!Url, Webhook!Secret

WebhookTypes == Webhook!WebhookAssumption /\ Webhook!TypeOK

LEMMA TypesAre ==
  ASSUME WebhookTypes
  PROVE  /\ row \in Webhook!Config /\ entry \in Entry /\ answered \in Nat
         /\ msg \in [Messages -> Delivery] /\ req \in [Writers -> Change]
         /\ row.ver \in Nat /\ entry.config \in Webhook!Config /\ entry.late \in BOOLEAN
BY DEF WebhookTypes, Webhook!TypeOK, Webhook!Config, Entry, Change, Asked, Delivery, Handled, Webhook!Version

\* Invalidate marks the fills that have read the row and changes nothing else of
\* the messages.
LEMMA InvalidateTypes ==
  ASSUME WebhookTypes, Webhook!Invalidate
  PROVE  /\ cached' = FALSE /\ entry' = Webhook!NoEntry /\ msg' \in [Messages -> Delivery]
         /\ \A m \in Messages :
              /\ msg'[m].pc = msg[m].pc /\ msg'[m].config = msg[m].config /\ msg'[m].floor = msg[m].floor
              /\ msg[m].pc = "store" => msg'[m].late
              /\ msg[m].late => msg'[m].late
<1>1. ASSUME NEW m \in Messages
      PROVE  /\ msg'[m] \in Delivery
             /\ msg'[m].pc = msg[m].pc /\ msg'[m].config = msg[m].config /\ msg'[m].floor = msg[m].floor
             /\ msg[m].pc = "store" => msg'[m].late
             /\ msg[m].late => msg'[m].late
  <2>1. PICK r \in Delivery : r = msg[m]
    BY TypesAre
  <2>2. msg'[m] = IF r.pc = "store" THEN [r EXCEPT !.late = TRUE] ELSE r
    BY <2>1 DEF Webhook!Invalidate
  <2>3. /\ [r EXCEPT !.late = TRUE] \in Delivery
        /\ [r EXCEPT !.late = TRUE].pc = r.pc /\ [r EXCEPT !.late = TRUE].config = r.config
        /\ [r EXCEPT !.late = TRUE].floor = r.floor /\ [r EXCEPT !.late = TRUE].late = TRUE
    BY DEF Delivery, Handled
  <2>4. r.late \in BOOLEAN
    BY DEF Delivery, Handled
  <2>5. CASE r.pc = "store"
    BY <2>1, <2>2, <2>3, <2>5
  <2>6. CASE r.pc # "store"
    BY <2>1, <2>2, <2>4, <2>6
  <2> QED BY <2>5, <2>6
<1>2. msg' \in [Messages -> Delivery]
  BY <1>1 DEF Webhook!Invalidate
<1> QED BY <1>1, <1>2 DEF Webhook!Invalidate

\* A request has read the row as it is, or as an earlier write left it.
ReadsThePast ==
  /\ answered <= row.ver
  /\ \A w \in Writers :
       /\ req[w].pc \in {"update", "invalidate"} => req[w].seen.ver <= row.ver
       /\ req[w].pc = "update" /\ req[w].seen.ver = row.ver => req[w].seen = row

\* What is older than the last answer is marked.
OldIsLate ==
  /\ cached => entry.config.ver >= answered \/ entry.late
  /\ \A m \in Messages : msg[m].pc = "store" =>
       msg[m].floor <= answered /\ (msg[m].config.ver >= answered \/ msg[m].late)

WebhookInv == WebhookTypes /\ ReadsThePast /\ OldIsLate /\ UsesAnswered

LEMMA InitWebhook == ASSUME Webhook!WebhookAssumption, Webhook!Init PROVE WebhookInv
<1>1. Webhook!NoConfig.ver = 0 /\ Webhook!NoConfig \in Webhook!Config
  BY SettledType DEF Webhook!NoConfig
<1>2. \A m \in Messages : msg[m].pc = "new"
  BY DEF Webhook!Init, Webhook!Settled
<1>3. \A w \in Writers : req[w].pc = "idle"
  BY DEF Webhook!Init, Webhook!Answered
<1>4. WebhookTypes
  BY <1>1, ConstantTypes
     DEF WebhookTypes, Webhook!TypeOK, Webhook!Init, Delivery, Handled, Change, Asked, Entry, Webhook!Version
<1> QED BY <1>1, <1>2, <1>3, <1>4 DEF WebhookInv, ReadsThePast, OldIsLate, UsesAnswered, Webhook!Init

\* A step of a message's handler or of its delivery.
LEMMA HandlerStep ==
  ASSUME WebhookInv, NEW m \in Messages, Webhook!MessageStep(m) PROVE WebhookInv'
<1>1. PICK r \in Delivery : r = msg[m]
  BY TypesAre DEF WebhookInv
<1>2. /\ r.pc = "store" => r.floor <= answered /\ (r.config.ver >= answered \/ r.late)
      /\ r.pc = "post" => r.config.ver >= r.floor \/ r.late
      /\ r.config \in Webhook!Config /\ r.floor \in Nat /\ r.late \in BOOLEAN /\ r.config.ver \in Nat
  BY <1>1 DEF WebhookInv, OldIsLate, UsesAnswered, Delivery, Handled, Webhook!Version, Webhook!Config
<1>3. ASSUME NEW q \in Delivery, msg' = [msg EXCEPT ![m] = q], UNCHANGED <<exists, row, req, deleting, answered>>,
             q.pc = "store" => q.floor <= answered /\ (q.config.ver >= answered \/ q.late),
             q.pc = "post" => q.config.ver >= q.floor \/ q.late,
             \/ UNCHANGED <<cached, entry>>
             \/ /\ cached' = TRUE /\ r.pc = "store"
                /\ entry' = [config |-> r.config, fresh |-> TRUE, late |-> r.late]
      PROVE  WebhookInv'
  <2>1. /\ msg' \in [Messages -> Delivery] /\ msg'[m] = q
        /\ \A n \in Messages : n # m => msg'[n] = msg[n]
    BY <1>3, TypesAre DEF WebhookInv
  <2>2. cached' \in BOOLEAN /\ entry' \in Entry /\ (cached' => entry'.config.ver >= answered \/ entry'.late)
    <3>1. CASE UNCHANGED <<cached, entry>>
      BY <3>1, TypesAre DEF WebhookInv, OldIsLate, WebhookTypes, Webhook!TypeOK
    <3>2. CASE /\ cached' = TRUE /\ r.pc = "store"
               /\ entry' = [config |-> r.config, fresh |-> TRUE, late |-> r.late]
      BY <1>2, <3>2 DEF Entry
    <3> QED BY <1>3, <3>1, <3>2
  <2>3. WebhookTypes'
    BY <1>3, <2>1, <2>2 DEF WebhookInv, WebhookTypes, Webhook!TypeOK, Delivery, Handled, Entry
  <2>4. ReadsThePast'
    BY <1>3 DEF WebhookInv, ReadsThePast
  <2>5. OldIsLate' /\ UsesAnswered'
    BY <1>3, <2>1, <2>2 DEF WebhookInv, OldIsLate, UsesAnswered
  <2> QED BY <2>3, <2>4, <2>5 DEF WebhookInv
<1>4. CASE Webhook!Hit(m)
  <2> DEFINE q == Webhook!Send(m, entry.config, answered, entry.late)
  <2>1. q \in Delivery /\ (q.pc = "post" => q.config = entry.config /\ q.floor = answered /\ q.late = entry.late)
    BY TypesAre, SendType DEF WebhookInv, WebhookTypes
  <2>2. q.pc # "store"
    BY <1>1, SettledType DEF Webhook!Send, Delivery, Handled, WebhookInv, WebhookTypes
  <2>3. msg' = [msg EXCEPT ![m] = q] /\ cached /\ UNCHANGED <<exists, row, req, deleting, answered, cached, entry>>
    BY <1>4 DEF Webhook!Hit
  <2> HIDE DEF q
  <2>4. q.pc = "post" => q.config.ver >= q.floor \/ q.late
    BY <2>1, <2>3 DEF WebhookInv, OldIsLate
  <2> QED BY <1>3, <2>1, <2>2, <2>3, <2>4
<1>5. CASE Webhook!Load(m)
  <2> DEFINE q == [r EXCEPT !.pc = "store", !.config = row, !.floor = answered]
  <2>1. q \in Delivery /\ q.pc = "store" /\ q.config = row /\ q.floor = answered
    BY TypesAre DEF Delivery, Handled, WebhookInv, Webhook!Version
  <2>2. msg' = [msg EXCEPT ![m] = q] \/ msg' = [msg EXCEPT ![m] = Webhook!Settled]
    BY <1>1, <1>5 DEF Webhook!Load
  <2>3. UNCHANGED <<exists, row, req, deleting, answered, cached, entry>>
    BY <1>5 DEF Webhook!Load
  <2> HIDE DEF q
  <2>4. q.floor <= answered /\ q.config.ver >= answered
    BY <2>1, TypesAre DEF WebhookInv, ReadsThePast
  <2>5. CASE msg' = [msg EXCEPT ![m] = q]
    BY <1>3, <2>1, <2>3, <2>4, <2>5
  <2>6. CASE msg' = [msg EXCEPT ![m] = Webhook!Settled]
    BY <1>3, <2>3, <2>6, SettledType DEF WebhookInv, WebhookTypes
  <2> QED BY <2>2, <2>5, <2>6
<1>6. CASE Webhook!Store(m)
  <2> DEFINE q == Webhook!Send(m, r.config, r.floor, r.late)
  <2>1. q \in Delivery /\ (q.pc = "post" => q.config = r.config /\ q.floor = r.floor /\ q.late = r.late)
    BY <1>2, SendType DEF WebhookInv, WebhookTypes
  <2>2. q.pc # "store"
    BY <1>1, SettledType DEF Webhook!Send, Delivery, Handled, WebhookInv, WebhookTypes
  <2>3. /\ msg' = [msg EXCEPT ![m] = q] /\ UNCHANGED <<exists, row, req, deleting, answered>>
        /\ cached' = TRUE /\ r.pc = "store"
        /\ entry' = [config |-> r.config, fresh |-> TRUE, late |-> r.late]
    BY <1>1, <1>6 DEF Webhook!Store
  <2> HIDE DEF q
  <2>4. q.pc = "post" => q.config.ver >= q.floor \/ q.late
    BY <1>2, <2>1, <2>3, TypesAre DEF WebhookInv
  <2> QED BY <1>3, <2>1, <2>2, <2>3, <2>4
<1>7. CASE Webhook!Accepted(m)
  BY <1>3, <1>7, SettledType DEF Webhook!Accepted, WebhookInv, WebhookTypes
<1>8. CASE Webhook!Failed(m)
  <2> DEFINE g == [Webhook!Settled EXCEPT !.pc = "gaveUp"]
             f == [r EXCEPT !.failed = r.failed + 1]
  <2>1. g \in Delivery /\ g.pc = "gaveUp"
    BY SettledType DEF Delivery, Handled, WebhookInv, WebhookTypes
  <2>2. r.failed + 1 # Attempts => r.failed + 1 \in 0..Attempts - 1
    BY DEF Delivery, Handled, WebhookInv, WebhookTypes, Webhook!WebhookAssumption
  <2>3. r.failed + 1 # Attempts => f \in Delivery /\ f.pc = r.pc /\ f.config = r.config /\ f.floor = r.floor /\ f.late = r.late
    BY <2>2 DEF Delivery, Handled
  <2>4. /\ msg' = [msg EXCEPT ![m] = IF r.failed + 1 = Attempts THEN g ELSE f]
        /\ r.pc = "post" /\ UNCHANGED <<exists, row, req, deleting, answered, cached, entry>>
    BY <1>1, <1>8 DEF Webhook!Failed, Webhook!Fails
  <2> HIDE DEF f, g
  <2> QED BY <1>2, <1>3, <2>1, <2>3, <2>4
<1> QED BY <1>4, <1>5, <1>6, <1>7, <1>8 DEF Webhook!MessageStep

\* The cache is invalidated, by a request that is answered with it or by the
\* deletion of the instance.
LEMMA InvalidateStep ==
  ASSUME WebhookInv, Webhook!Invalidate, answered' \in Nat, answered' >= answered, answered' <= row.ver,
         UNCHANGED row, exists' \in BOOLEAN, deleting' \in BOOLEAN, req' \in [Writers -> Change],
         \A w \in Writers : req'[w] = req[w] \/ req'[w].pc = "done"
  PROVE  WebhookInv'
<1>1. /\ msg' \in [Messages -> Delivery] /\ cached' = FALSE /\ entry' = Webhook!NoEntry
      /\ \A m \in Messages :
           /\ msg'[m].pc = msg[m].pc /\ msg'[m].config = msg[m].config /\ msg'[m].floor = msg[m].floor
           /\ msg[m].pc = "store" => msg'[m].late
           /\ msg[m].late => msg'[m].late
  BY InvalidateTypes DEF WebhookInv
<1>2. WebhookTypes'
  BY <1>1, ConstantTypes
     DEF WebhookInv, WebhookTypes, Webhook!TypeOK, Delivery, Handled, Change, Asked, Entry, Webhook!Version
<1>3. ReadsThePast'
  BY DEF WebhookInv, ReadsThePast
<1>4. OldIsLate' /\ UsesAnswered'
  <2> SUFFICES ASSUME NEW m \in Messages
               PROVE  /\ msg'[m].pc = "store" => msg'[m].floor <= answered' /\ msg'[m].late
                      /\ msg'[m].pc = "post" => msg'[m].config.ver >= msg'[m].floor \/ msg'[m].late
    BY <1>1 DEF OldIsLate, UsesAnswered
  <2>1. msg[m].floor \in Nat /\ answered \in Nat
    BY TypesAre DEF WebhookInv, Delivery, Handled, Webhook!Version
  <2>2. /\ msg[m].pc = "store" => msg[m].floor <= answered
        /\ msg[m].pc = "post" => msg[m].config.ver >= msg[m].floor \/ msg[m].late
    BY DEF WebhookInv, OldIsLate, UsesAnswered
  <2>3. /\ msg'[m].pc = msg[m].pc /\ msg'[m].config = msg[m].config /\ msg'[m].floor = msg[m].floor
        /\ msg[m].pc = "store" => msg'[m].late
        /\ msg[m].late => msg'[m].late
    BY <1>1
  <2>4. msg[m].floor <= answered => msg[m].floor <= answered'
    BY <2>1
  <2> QED BY <2>2, <2>3, <2>4
<1> QED BY <1>2, <1>3, <1>4 DEF WebhookInv

\* A step of a request that leaves the cache, the messages and the answers alone.
LEMMA RowStep ==
  ASSUME WebhookInv, UNCHANGED <<exists, cached, entry, msg, deleting, answered>>,
         NEW w \in Writers, NEW q \in Change, req' = [req EXCEPT ![w] = q],
         row' \in Webhook!Config, row' = row \/ row'.ver = row.ver + 1,
         q.pc \in {"update", "invalidate"} => q.seen = row'
  PROVE  WebhookInv'
<1>1. /\ req' \in [Writers -> Change] /\ req'[w] = q
      /\ \A v \in Writers : v # w => req'[v] = req[v]
  BY TypesAre DEF WebhookInv
<1>2. WebhookTypes'
  BY <1>1 DEF WebhookInv, WebhookTypes, Webhook!TypeOK, Change, Asked
<1>3. row.ver \in Nat /\ answered \in Nat /\ row'.ver \in Nat /\ \A v \in Writers : req[v].seen.ver \in Nat
  BY TypesAre DEF WebhookInv, Webhook!Config, Change, Asked, Webhook!Version
<1>4. ReadsThePast'
  <2> SUFFICES ASSUME NEW v \in Writers
               PROVE  /\ req'[v].pc \in {"update", "invalidate"} => req'[v].seen.ver <= row'.ver
                      /\ req'[v].pc = "update" /\ req'[v].seen.ver = row'.ver => req'[v].seen = row'
    BY <1>3 DEF WebhookInv, ReadsThePast
  <2>1. CASE v = w
    BY <1>1, <1>3, <2>1
  <2>2. CASE v # w
    BY <1>1, <1>3, <2>2 DEF WebhookInv, ReadsThePast
  <2> QED BY <2>1, <2>2
<1>5. OldIsLate' /\ UsesAnswered'
  BY DEF WebhookInv, OldIsLate, UsesAnswered
<1> QED BY <1>2, <1>4, <1>5 DEF WebhookInv

LEMMA RequestStep == ASSUME WebhookInv, NEW w \in Writers, Webhook!WriterStep(w) PROVE WebhookInv'
<1>1. PICK r \in Change : r = req[w]
  BY TypesAre DEF WebhookInv
<1>2. row \in Webhook!Config /\ row.ver \in Nat /\ answered \in Nat /\ r.seen.ver \in Nat
  BY TypesAre DEF WebhookInv, Change, Asked, Webhook!Config, Webhook!Version
<1>3. Webhook!Answered \in Change /\ Webhook!Answered.pc = "done"
  BY ConstantTypes DEF WebhookInv, WebhookTypes
<1>4. CASE Webhook!Update(w)
  <2> DEFINE new == [url |-> r.url, secret |-> Webhook!resolveWebhookSecret(w), ver |-> row.ver + 1]
             q == [r EXCEPT !.pc = "invalidate", !.seen = row']
  <2>1. Webhook!resolveWebhookSecret(w) \in Webhook!Secret
    BY <1>1 DEF Webhook!resolveWebhookSecret, Webhook!Secret, Change, Asked, Webhook!Config
  <2>2. new \in Webhook!Config /\ new.ver = row.ver + 1
    BY <1>2, <2>1 DEF Webhook!Config, Change, Asked, Webhook!Version
  <2>3. row' \in Webhook!Config => q \in Change /\ q.pc = "invalidate" /\ q.seen = row'
    BY DEF Change, Asked
  <2>4. /\ \/ row' = new /\ req' = [req EXCEPT ![w] = q]
           \/ req' = [req EXCEPT ![w] = Webhook!Answered] /\ row' = row
        /\ UNCHANGED <<exists, cached, entry, msg, deleting, answered>>
    BY <1>1, <1>4 DEF Webhook!Update
  <2> HIDE DEF new, q
  <2> QED BY <1>2, <1>3, <2>2, <2>3, <2>4, RowStep
<1>5. CASE Webhook!InvalidateAndAnswer(w)
  <2>1. /\ req' = [req EXCEPT ![w] = Webhook!Answered] /\ UNCHANGED <<exists, row, deleting>>
        /\ answered' = IF r.seen.ver > answered THEN r.seen.ver ELSE answered
        /\ Webhook!Invalidate /\ r.pc = "invalidate"
    BY <1>1, <1>5 DEF Webhook!InvalidateAndAnswer
  <2>2. r.seen.ver <= row.ver /\ answered <= row.ver
    BY <1>1, <2>1 DEF WebhookInv, ReadsThePast
  <2>3. answered' \in Nat /\ answered' >= answered /\ answered' <= row.ver
    BY <1>2, <2>1, <2>2
  <2>4. req' \in [Writers -> Change] /\ \A v \in Writers : req'[v] = req[v] \/ req'[v].pc = "done"
    BY <1>3, <2>1, TypesAre DEF WebhookInv
  <2>5. exists' \in BOOLEAN /\ deleting' \in BOOLEAN
    BY <2>1 DEF WebhookInv, WebhookTypes, Webhook!TypeOK
  <2> QED BY <2>1, <2>3, <2>4, <2>5, InvalidateStep
<1>6. ASSUME NEW url \in Webhook!Url, NEW secret \in Secrets \union {None}, Webhook!Ask(w, url, secret)
      PROVE  WebhookInv'
  <2> DEFINE q == [pc |-> "update", url |-> url, secret |-> secret, seen |-> row]
  <2>1. q \in Change /\ q.seen = row
    BY <1>2 DEF Change, Asked, Webhook!Secret
  <2>2. req' = [req EXCEPT ![w] = q] \/ req' = [req EXCEPT ![w] = Webhook!Answered]
    BY <1>6 DEF Webhook!Ask
  <2>3. UNCHANGED <<exists, row, cached, entry, msg, deleting, answered>>
    BY <1>6 DEF Webhook!Ask
  <2> HIDE DEF q
  <2> QED BY <1>2, <1>3, <2>1, <2>2, <2>3, RowStep
<1> QED BY <1>4, <1>5, <1>6 DEF Webhook!WriterStep

LEMMA NextWebhook == ASSUME WebhookInv, [Webhook!Next]_(Webhook!webhook) PROVE WebhookInv'
<1>1. CASE UNCHANGED Webhook!webhook
  BY <1>1 DEF Webhook!webhook, WebhookInv, WebhookTypes, Webhook!TypeOK, ReadsThePast, OldIsLate, UsesAnswered
<1>2. CASE Webhook!Expire \/ Webhook!sweepExpiredWebhookCache
  <2>1. PICK e \in Entry : e = entry
    BY TypesAre DEF WebhookInv
  <2>2. /\ [e EXCEPT !.fresh = FALSE] \in Entry /\ [e EXCEPT !.fresh = FALSE].config = e.config
        /\ [e EXCEPT !.fresh = FALSE].late = e.late
    BY DEF Entry
  <2>3. /\ UNCHANGED <<exists, row, msg, req, deleting, answered>>
        /\ \/ cached' = cached /\ entry' = [e EXCEPT !.fresh = FALSE]
           \/ cached' = FALSE /\ entry' = Webhook!NoEntry
    BY <1>2, <2>1 DEF Webhook!Expire, Webhook!sweepExpiredWebhookCache
  <2>4. /\ cached' \in BOOLEAN /\ entry' \in Entry
        /\ cached' => cached /\ entry'.config = entry.config /\ (entry.late => entry'.late)
    <3>1. CASE cached' = cached /\ entry' = [e EXCEPT !.fresh = FALSE]
      BY <2>1, <2>2, <3>1 DEF WebhookInv, WebhookTypes, Webhook!TypeOK
    <3>2. CASE cached' = FALSE /\ entry' = Webhook!NoEntry
      BY <3>2, ConstantTypes DEF WebhookInv, WebhookTypes
    <3> QED BY <2>3, <3>1, <3>2
  <2>5. WebhookTypes'
    BY <2>3, <2>4 DEF WebhookInv, WebhookTypes, Webhook!TypeOK, Entry
  <2> QED BY <2>3, <2>4, <2>5 DEF WebhookInv, ReadsThePast, OldIsLate, UsesAnswered
<1>3. CASE Webhook!DeleteRow
  BY <1>3 DEF Webhook!DeleteRow, WebhookInv, WebhookTypes, Webhook!TypeOK, ReadsThePast, OldIsLate, UsesAnswered
<1>4. CASE Webhook!InvalidateDeleted
  <2>1. answered \in Nat /\ answered <= row.ver /\ exists \in BOOLEAN /\ req \in [Writers -> Change]
    BY TypesAre DEF WebhookInv, ReadsThePast, WebhookTypes, Webhook!TypeOK
  <2>2. /\ Webhook!Invalidate /\ UNCHANGED <<exists, row, req, answered>>
        /\ deleting' \in BOOLEAN
    BY <1>4 DEF Webhook!InvalidateDeleted
  <2> QED BY <2>1, <2>2, InvalidateStep
<1> QED BY <1>1, <1>2, <1>3, <1>4, HandlerStep, RequestStep DEF Webhook!Next

\* The stored configuration, the cache entry, and every message and request keep
\* their types.
THEOREM WebhookTypeCorrect == ASSUME Webhook!WebhookAssumption PROVE Webhook!Spec => []Webhook!TypeOK
<1>1. Webhook!Init => WebhookInv
  BY InitWebhook
<1>2. WebhookInv /\ [Webhook!Next]_(Webhook!webhook) => WebhookInv'
  BY NextWebhook
<1>3. WebhookInv => Webhook!TypeOK
  BY DEF WebhookInv, WebhookTypes
<1> QED BY <1>1, <1>2, <1>3, PTL DEF Webhook!Spec

\* A message handled after SetWebhookConfig has answered a request is posted with
\* the configuration of that request or of a later one, unless GetWebhookConfig
\* served it, or filled the cache, from a reading of the row older than the
\* invalidation - for any number of messages, requests and attempts.
THEOREM UsesAnsweredHolds == ASSUME Webhook!WebhookAssumption PROVE Webhook!Spec => []UsesAnswered
<1>1. Webhook!Init => WebhookInv
  BY InitWebhook
<1>2. WebhookInv /\ [Webhook!Next]_(Webhook!webhook) => WebhookInv'
  BY NextWebhook
<1>3. WebhookInv => UsesAnswered
  BY DEF WebhookInv
<1> QED BY <1>1, <1>2, <1>3, PTL DEF Webhook!Spec

\* The one step that can change the secret is the update of a request.
LEMMA SecretStep ==
  ASSUME WebhookInv, [Webhook!Next]_(Webhook!webhook), NEW w \in Writers, req[w].pc = "update", req'[w].pc # "update",
         row.secret # None, row'.secret # row.secret
  PROVE  req[w].secret # None \/ req[w].seen.ver # row.ver
<1>1. CASE Webhook!Update(w)
  <2>1. row'.secret = Webhook!resolveWebhookSecret(w)
    BY <1>1 DEF Webhook!Update
  <2>2. SUFFICES ASSUME req[w].secret = None, req[w].seen = row PROVE FALSE
    BY DEF WebhookInv, ReadsThePast
  <2> QED BY <2>1, <2>2 DEF Webhook!resolveWebhookSecret
<1>2. ASSUME NEW v \in Writers, Webhook!WriterStep(v), v # w PROVE req'[w] = req[w]
  BY <1>2, TypesAre
     DEF WebhookInv, Webhook!WriterStep, Webhook!Update, Webhook!InvalidateAndAnswer, Webhook!Ask
<1>3. ASSUME Webhook!WriterStep(w), ~Webhook!Update(w) PROVE FALSE
  BY <1>3 DEF Webhook!WriterStep, Webhook!InvalidateAndAnswer, Webhook!Ask
<1>4. ASSUME NEW m \in Messages, Webhook!MessageStep(m) PROVE UNCHANGED req
  BY <1>4 DEF Webhook!MessageStep, Webhook!Hit, Webhook!Load, Webhook!Store, Webhook!Accepted, Webhook!Failed, Webhook!Fails
<1> QED
  BY <1>1, <1>2, <1>3, <1>4
     DEF Webhook!Next, Webhook!webhook, Webhook!Expire, Webhook!sweepExpiredWebhookCache, Webhook!DeleteRow,
         Webhook!InvalidateDeleted

\* resolveWebhookSecret never replaces the receiver's secret unless the request
\* names one or another request has written the row since this one read it.
THEOREM SecretKeptHolds == ASSUME Webhook!WebhookAssumption PROVE Webhook!Spec => SecretKept
<1>1. Webhook!Init => WebhookInv
  BY InitWebhook
<1>2. WebhookInv /\ [Webhook!Next]_(Webhook!webhook) => WebhookInv'
  BY NextWebhook
<1>3. WebhookInv /\ [Webhook!Next]_(Webhook!webhook) =>
        [\A w \in Writers :
           /\ req[w].pc = "update" /\ req'[w].pc # "update"
           /\ row.secret # None /\ row'.secret # row.secret
           => req[w].secret # None \/ req[w].seen.ver # row.ver]_webhook
  BY SecretStep DEF webhook, Webhook!webhook
<1>4. Webhook!webhook = webhook
  BY DEF Webhook!webhook, webhook
<1> QED BY <1>1, <1>2, <1>3, <1>4, PTL DEF Webhook!Spec, SecretKept
=============================================================================
