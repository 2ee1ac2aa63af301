------------------------- MODULE InstanceSessionsProofs -------------------------
(***************************************************************************)
(* Proofs about InstanceSessions for every number of instances, devices,   *)
(* pairing attempts and requests, and every bound.                         *)
(***************************************************************************)
EXTENDS InstanceSessions, TLAPS

Row     == [status : Status, connected : BOOLEAN, jid : Clients \cup {None}]
Client  == [i : Instances \cup {None}, dev : Device, sock : Socket, marked : BOOLEAN]
Tasks   == [kind : {"connected", "disconnected", "loggedOut"}, c : Clients,
            pc : {"check", "mark", "close", "record", "remove"}]
Req     == [i : Instances \cup {None}, c : Clients \cup {None},
            pc : {"idle", "session", "register", "take", "unlink", "record", "clear",
                  "drop", "forget", "row"}]
Att     == [i : Instances \cup {None}, c : Clients \cup {None}, cancelled : BOOLEAN,
            pc : {"new", "start", "listen", "end", "done"}]

\* A client belongs to the instance it was made for, from then on.
Made(c) == c \in Clients /\ client[c].i \in Instances

\* Who refers to whom: what a session, a handler, a request, an attempt or the
\* loader is about exists.
Owned ==
    /\ \A i \in Instances : sessions[i] # None => client[sessions[i]].i = i
    /\ \A i \in Instances : row[i].jid # None => client[row[i].jid].i = i
    /\ \A c \in Clients : client[c].sock # "off" \/ HasID(c) \/ c \in out => Made(c)
    /\ \A t \in tasks : Made(t.c)
    /\ \A p \in Callers : /\ req[p].pc # "idle" => req[p].i \in Instances
                          /\ req[p].pc = "register" => Made(req[p].c)
                          /\ req[p].pc = "unlink" => Made(req[p].c) /\ client[req[p].c].i = req[p].i
    /\ \A a \in Attempts : /\ att[a].pc # "new" => att[a].i \in Instances /\ Made(att[a].c)
                           /\ att[a].pc = "new" => att[a] = NoAttempt
    /\ \A i \in Instances : qr[i] # None => att[qr[i]].pc # "new"
    /\ \A c \in loader.todo : Made(c)
    /\ loader.pc \in {"store", "record"} => Made(loader.at)

\* The loader and the requests never run at the same time.
Loading ==
    /\ serving <=> loader.pc = "done"
    /\ ~serving => \A p \in Callers : req[p].pc = "idle"
    /\ serving => loader.todo = {}

Shape == TypeOK /\ Owned /\ Loading

LEMMA ShapeInit == ASSUME Init PROVE Shape
<1>1. TypeOK
  BY SessionAssumption DEF Init, TypeOK, Status, Device, Socket, Idle, NoAttempt
<1>2. Owned /\ Loading
  BY DEF Init, Owned, Loading, Idle, NoAttempt, HasID
<1> QED BY <1>1, <1>2 DEF Shape

\* One client, one request, one attempt or one row written.
LEMMA ClientEdit ==
  ASSUME Shape, NEW c \in Clients, NEW r \in Client, client' = [client EXCEPT ![c] = r]
  PROVE  /\ client' \in [Clients -> Client]
         /\ client'[c] = r /\ \A d \in Clients \ {c} : client'[d] = client[d]
BY DEF Shape, TypeOK, Client

LEMMA ReqEdit ==
  ASSUME Shape, NEW p \in Callers, NEW r \in Req, req' = [req EXCEPT ![p] = r]
  PROVE  /\ req' \in [Callers -> Req]
         /\ req'[p] = r /\ \A q \in Callers \ {p} : req'[q] = req[q]
BY DEF Shape, TypeOK, Req

LEMMA AttEdit ==
  ASSUME Shape, NEW a \in Attempts, NEW r \in Att, att' = [att EXCEPT ![a] = r]
  PROVE  /\ att' \in [Attempts -> Att]
         /\ att'[a] = r /\ \A b \in Attempts \ {a} : att'[b] = att[b]
BY DEF Shape, TypeOK, Att

-----------------------------------------------------------------------------
(***************************************************************************)
(* What a step does to the clients: they keep their instance, and none is  *)
(* connected or paired before it has one.                                  *)
(***************************************************************************)
Up(c) == client[c].sock = "on" /\ client[c].dev # "none"

\* The steps that may leave a client without its connection.
Down(c) ==
    \/ NetDown(c) \/ Unlink(c) \/ StreamReplaced(c)
    \/ \E t \in tasks : CloseLoggedOut(t) /\ sessions[client[t.c].i] = c
    \/ \E p \in Callers : LogoutClient(p) /\ req[p].c = c
    \/ \E p \in Callers : DropClient(p) /\ req[p].i \in Instances /\ sessions[req[p].i] = c
    \/ Crash

ClientsKept ==
    /\ client' \in [Clients -> Client]
    /\ \A c \in Clients : /\ Made(c) => client'[c].i = client[c].i
                          /\ client'[c].sock # "off" \/ client'[c].dev # "none" => client'[c].i \in Instances

\* And they are paired by a scan only, and lose a connection by these steps only.
ClientsServe ==
    \A c \in Clients : /\ client[c].dev = "none" => client'[c].dev = "none" \/ \E a \in Attempts : Scan(a) /\ att[a].c = c
                       /\ Up(c) => (client'[c].sock = "on" /\ client'[c].dev # "none") \/ Down(c)

LEMMA ConnectedIsMade ==
  ASSUME Shape, NEW c \in Clients, client[c].sock # "off" \/ client[c].dev # "none" PROVE Made(c)
BY DEF Shape, Owned, HasID

LEMMA ClientWritten ==
  ASSUME Shape, NEW c \in Clients, NEW r \in Client, client' = [client EXCEPT ![c] = r],
         Made(c) => r.i = client[c].i,
         r.sock # "off" \/ r.dev # "none" => r.i \in Instances,
         client[c].dev = "none" => r.dev = "none" \/ \E a \in Attempts : Scan(a) /\ att[a].c = c,
         Up(c) => (r.sock = "on" /\ r.dev # "none") \/ Down(c)
  PROVE  ClientsKept /\ ClientsServe
<1>1. ClientsKept
  BY ClientEdit, ConnectedIsMade DEF ClientsKept, Made
<1>2. ClientsServe
  BY ClientEdit DEF ClientsServe, Up
<1> QED BY <1>1, <1>2

LEMMA ClientSame == ASSUME Shape, UNCHANGED client PROVE ClientsKept /\ ClientsServe
BY ConnectedIsMade DEF Shape, TypeOK, ClientsKept, ClientsServe, Up, Made, Client

LEMMA ClientType == ASSUME Shape, NEW c \in Clients PROVE client[c] \in Client
BY DEF Shape, TypeOK, Client

\* A step of WhatsApp's.
LEMMA ClientNetwork ==
  ASSUME Shape, NEW c \in Clients, NetDown(c) \/ NetUp(c) \/ Unlink(c) \/ StreamReplaced(c) PROVE ClientsKept /\ ClientsServe
<1> DEFINE d == [client[c] EXCEPT !.sock = "lost"]
           u == [client[c] EXCEPT !.sock = "on"]
           n == [client[c] EXCEPT !.sock = "off", !.dev = "none"]
           o == [client[c] EXCEPT !.sock = "off"]
<1>1. client[c] \in Client
  BY ClientType
<1>2. d \in Client /\ d.i = client[c].i /\ u \in Client /\ u.i = client[c].i /\ n \in Client /\ n.i = client[c].i
        /\ d.dev = client[c].dev /\ u.dev = client[c].dev /\ u.sock = "on" /\ n.dev = "none"
        /\ o \in Client /\ o.i = client[c].i /\ o.dev = client[c].dev
  BY <1>1 DEF Client, Socket, Device
<1>3. client[c].i \in Instances
  BY DEF NetDown, NetUp, Unlink, StreamReplaced, Shape, Owned, Made, HasID
<1>4. \/ client' = [client EXCEPT ![c] = d] /\ Down(c)
      \/ client' = [client EXCEPT ![c] = u]
      \/ client' = [client EXCEPT ![c] = n] /\ Down(c)
      \/ client' = [client EXCEPT ![c] = o] /\ Down(c)
  BY DEF NetDown, NetUp, Unlink, StreamReplaced, Down
<1> HIDE DEF d, u, n, o
<1> QED BY <1>2, <1>3, <1>4, ClientWritten DEF Up

\* An event handler's.
LEMMA ClientHandled ==
  ASSUME Shape, NEW t \in tasks, Handle(t) PROVE ClientsKept /\ ClientsServe
<1> DEFINE c == sessions[client[t.c].i]
           y == [client[c] EXCEPT !.marked = TRUE]
           n == [client[c] EXCEPT !.marked = FALSE]
           d == IF client[c].dev = "paired" THEN "erased" ELSE client[c].dev
           e == [client[c] EXCEPT !.marked = FALSE, !.sock = "off", !.dev = d]
           f == [client[c] EXCEPT !.marked = FALSE, !.sock = "off", !.dev = client[c].dev]
<1>1. CASE UNCHANGED client
  BY <1>1, ClientSame
<1>2. CASE ~UNCHANGED client
  <2>1. client[t.c].i \in Instances
    BY DEF Shape, Owned, Made
  <2>2. c # None
    BY <1>2 DEF Handle, Check, MarkConnected, RecordConnected, MarkDisconnected, RecordDisconnected,
                CloseLoggedOut, RecordLoggedOut, RemoveLoggedOut
  <2>3. c \in Clients /\ client[c].i = client[t.c].i
    BY <2>1, <2>2 DEF Shape, TypeOK, Owned
  <2>4. client[c] \in Client
    BY <2>3, ClientType
  <2>5. d \in Device
    BY <2>4 DEF Client, Device
  <2>6. \/ client' = [client EXCEPT ![c] = y]
        \/ client' = [client EXCEPT ![c] = n]
        \/ client' = [client EXCEPT ![c] = e] /\ Down(c)
        \/ client' = [client EXCEPT ![c] = f] /\ Down(c)
    <3>1. CASE MarkConnected(t)
      BY <1>2, <3>1 DEF MarkConnected
    <3>2. CASE MarkDisconnected(t)
      BY <1>2, <3>2 DEF MarkDisconnected
    <3>3. CASE CloseLoggedOut(t)
      <4>1. Down(c)
        BY <3>3 DEF Down
      <4>2. PICK dev \in {client[c].dev} \cup IF client[c].dev = "paired" THEN {"erased"} ELSE {} :
               client' = [client EXCEPT ![c].marked = FALSE, ![c].sock = "off", ![c].dev = dev]
        BY <2>2, <3>3 DEF CloseLoggedOut
      <4>3. client' = [client EXCEPT ![c] = e] \/ client' = [client EXCEPT ![c] = f]
        BY <4>2
      <4> QED BY <4>1, <4>3
    <3> HIDE DEF y, n, e, f
    <3> QED
      BY <1>2, <3>1, <3>2, <3>3 DEF Handle, Check, RecordConnected, RecordDisconnected, RecordLoggedOut,
                                    RemoveLoggedOut
  <2> HIDE DEF d
  <2>7. y \in Client /\ n \in Client /\ e \in Client /\ y.i = client[c].i /\ n.i = client[c].i /\ e.i = client[c].i
        /\ y.sock = client[c].sock /\ y.dev = client[c].dev /\ n.sock = client[c].sock /\ n.dev = client[c].dev
        /\ e.dev = d /\ f \in Client /\ f.i = client[c].i /\ f.dev = client[c].dev
    BY <2>4, <2>5 DEF Client, Socket
  <2>8. client[c].dev = "none" => d = "none"
    BY DEF d
  <2> HIDE DEF c, y, n, e, f
  <2> QED BY <2>1, <2>3, <2>6, <2>7, <2>8, ClientWritten DEF Up
<1> QED BY <1>1, <1>2

\* The session that a request or an attempt makes, or finds.
LEMMA ClientCreated ==
  ASSUME Shape, NEW i \in Instances, NEW c \in Clients, CreateSession(i, c)
  PROVE  ClientsKept /\ ClientsServe /\ ~Made(c) /\ client'[c].i = i /\ \A d \in Clients \ {c} : client'[d] = client[d]
<1> DEFINE r == [client[c] EXCEPT !.i = i]
<1>1. client[c] \in Client /\ client[c].i = None
  BY ClientType DEF CreateSession, Fresh
<1>2. r \in Client /\ r.i = i /\ r.dev = client[c].dev /\ r.sock = client[c].sock
  BY <1>1 DEF Client
<1>3. ~Made(c)
  BY <1>1, SessionAssumption DEF Made
<1>4. client' = [client EXCEPT ![c] = r]
  BY DEF CreateSession
<1> HIDE DEF r
<1> QED BY <1>2, <1>3, <1>4, ClientWritten, ClientEdit DEF Up

LEMMA ClientRequested ==
  ASSUME Shape, NEW p \in Callers, Request(p) PROVE ClientsKept /\ ClientsServe
<1>1. CASE UNCHANGED client
  BY <1>1, ClientSame
<1>2. CASE QRSession(p) /\ ~UNCHANGED client
  <2>1. req[p].i \in Instances
    BY <1>2 DEF QRSession, Shape, Owned
  <2>2. PICK c \in Clients : CreateSession(req[p].i, c)
    BY <1>2 DEF QRSession, Fresh
  <2> QED BY <2>1, <2>2, ClientCreated
<1>3. CASE LogoutClient(p)
  <2> DEFINE c == req[p].c
             n == [client[c] EXCEPT !.dev = "none", !.sock = "off"]
             o == [client[c] EXCEPT !.sock = "off"]
  <2>1. Made(c)
    BY <1>3 DEF LogoutClient, Shape, Owned
  <2>2. client[c] \in Client /\ c \in Clients
    BY <2>1, ClientType DEF Made
  <2>3. n \in Client /\ n.i = client[c].i /\ o \in Client /\ o.i = client[c].i
        /\ n.dev = "none" /\ o.dev = client[c].dev
    BY <2>2 DEF Client, Socket, Device
  <2>4. (client' = [client EXCEPT ![c] = n] \/ client' = [client EXCEPT ![c] = o]) /\ Down(c)
    BY <1>3 DEF LogoutClient, Down
  <2> HIDE DEF n, o
  <2> QED BY <2>1, <2>2, <2>3, <2>4, ClientWritten DEF Made
<1>4. CASE DropClient(p) /\ ~UNCHANGED client
  <2> DEFINE c == sessions[req[p].i]
             n == [client[c] EXCEPT !.sock = "off", !.dev = "none"]
             o == [client[c] EXCEPT !.sock = "off", !.dev = client[c].dev]
  <2>1. req[p].i \in Instances
    BY <1>4 DEF DropClient, Shape, Owned
  <2>2. c \in Clients /\ (client' = [client EXCEPT ![c] = n] \/ client' = [client EXCEPT ![c] = o])
    BY <1>4, <2>1 DEF DropClient, Shape, TypeOK
  <2>3. client[c] \in Client
    BY <2>2, ClientType
  <2>4. n \in Client /\ n.i = client[c].i /\ n.sock = "off" /\ n.dev = "none"
        /\ o \in Client /\ o.i = client[c].i /\ o.dev = client[c].dev
    BY <2>3 DEF Client, Socket, Device
  <2>5. Down(c)
    BY <1>4, <2>1 DEF Down
  <2>6. Made(c)
    BY <2>1, <2>2, SessionAssumption DEF Made, Shape, Owned, TypeOK
  <2> HIDE DEF n, o
  <2> QED BY <2>2, <2>4, <2>5, <2>6, ClientWritten DEF Made
<1> QED
  BY <1>1, <1>2, <1>3, <1>4 DEF Request, CheckQR, CancelQR, SetFlag, ReadRow, RegisterQR, TakeSession,
        RecordLogout, ClearFlag, DropClient, DeleteSessionFromMemory, DeleteRow

\* A pairing attempt's.
LEMMA ClientPaired ==
  ASSUME Shape, NEW a \in Attempts, Pairing(a) \/ Scan(a) PROVE ClientsKept /\ ClientsServe
<1> DEFINE c == att[a].c
           u == [client[c] EXCEPT !.sock = "on"]
           o == [client[c] EXCEPT !.sock = "off"]
           s == [client[c] EXCEPT !.dev = "paired"]
<1>1. CASE UNCHANGED client
  BY <1>1, ClientSame
<1>2. CASE ~UNCHANGED client
  <2>1. Made(c)
    BY <1>2 DEF Pairing, StartQR, publishQRCode, EndQR, ReleaseQR, Scan, Shape, Owned
  <2>2. \/ client' = [client EXCEPT ![c] = u]
        \/ client' = [client EXCEPT ![c] = o] /\ ~HasID(c)
        \/ client' = [client EXCEPT ![c] = s] /\ Scan(a)
    BY <1>2 DEF Pairing, StartQR, publishQRCode, EndQR, ReleaseQR, Scan
  <2>3. client[c] \in Client /\ c \in Clients
    BY <2>1, ClientType DEF Made
  <2>4. u \in Client /\ u.i = client[c].i /\ o \in Client /\ o.i = client[c].i /\ s \in Client /\ s.i = client[c].i
        /\ u.dev = client[c].dev /\ u.sock = "on" /\ o.dev = client[c].dev
        /\ s.dev = "paired" /\ s.sock = client[c].sock
    BY <2>3 DEF Client, Socket, Device
  <2> HIDE DEF u, o, s
  <2> QED BY <2>1, <2>2, <2>3, <2>4, ClientWritten DEF Made, Up, HasID
<1> QED BY <1>1, <1>2

\* The loader's.
LEMMA ClientLoaded ==
  ASSUME Shape, LoadAllDevices PROVE ClientsKept /\ ClientsServe
<1>1. CASE UNCHANGED client
  BY <1>1, ClientSame
<1>2. ASSUME NEW c \in Clients, Visit(c), ~UNCHANGED client PROVE ClientsKept /\ ClientsServe
  <2> DEFINE u == [client[c] EXCEPT !.sock = "on"]
  <2>1. client' = [client EXCEPT ![c] = u] /\ Made(c) /\ client[c] \in Client
    BY <1>2, ClientType DEF Visit, Shape, Owned
  <2>2. u \in Client /\ u.i = client[c].i /\ u.dev = client[c].dev /\ u.sock = "on"
    BY <2>1 DEF Client, Socket
  <2> HIDE DEF u
  <2> QED BY <2>1, <2>2, ClientWritten DEF Made, Up
<1>3. CASE StoreLoaded
  <2> DEFINE c == loader.at
             m == client[c].sock = "on"
             u == [client[c] EXCEPT !.marked = m]
  <2>1. client' = [client EXCEPT ![c] = u] /\ Made(c)
    BY <1>3 DEF StoreLoaded, Shape, Owned
  <2>2. client[c] \in Client /\ c \in Clients
    BY <2>1, ClientType DEF Made
  <2>3. m \in BOOLEAN
    OBVIOUS
  <2> HIDE DEF m
  <2>4. u \in Client /\ u.i = client[c].i /\ u.dev = client[c].dev /\ u.sock = client[c].sock
    BY <2>2, <2>3 DEF Client
  <2> HIDE DEF u
  <2> QED BY <2>1, <2>2, <2>4, ClientWritten DEF Made, Up
<1> QED BY <1>1, <1>2, <1>3 DEF LoadAllDevices, RecordLoaded, Serve

LEMMA ClientCrashed == ASSUME Shape, Crash PROVE ClientsKept /\ ClientsServe
<1>1. ASSUME NEW c \in Clients
      PROVE  /\ client'[c] \in Client /\ client'[c].i = client[c].i /\ client'[c].sock = "off"
             /\ client'[c].dev = (IF client[c].dev = "paired" THEN "paired" ELSE "none")
  <2> DEFINE d == IF client[c].dev = "paired" THEN "paired" ELSE "none"
             r == [client[c] EXCEPT !.sock = "off", !.marked = FALSE, !.dev = d]
  <2>1. client[c] \in Client
    BY ClientType
  <2>2. d \in Device
    BY DEF Device
  <2>3. client'[c] = r
    BY DEF Crash
  <2> HIDE DEF d
  <2>4. r \in Client /\ r.i = client[c].i /\ r.sock = "off" /\ r.dev = d
    BY <2>1, <2>2 DEF Client, Socket
  <2> HIDE DEF r
  <2> QED BY <2>3, <2>4 DEF d
<1>2. client' \in [Clients -> Client]
  <2>1. client' = [c \in Clients |-> client'[c]]
    BY DEF Crash
  <2> QED BY <1>1, <2>1
<1>3. ClientsServe
  BY <1>1 DEF ClientsServe, Down
<1> QED BY <1>1, <1>2, <1>3, ConnectedIsMade DEF ClientsKept, Made

LEMMA ClientStep == ASSUME Shape, [Next]_vars PROVE ClientsKept /\ ClientsServe
<1>1. ASSUME NEW i \in Instances, NEW c \in Clients, Login(i, c) PROVE ClientsKept /\ ClientsServe
  BY <1>1, ClientCreated DEF Login
<1> QED
  BY <1>1, ClientNetwork, ClientHandled, ClientRequested, ClientPaired, ClientLoaded, ClientCrashed, ClientSame
     DEF Next, vars

-----------------------------------------------------------------------------
(***************************************************************************)
(* What a step does to the rows: each names a device of its instance.      *)
(***************************************************************************)
RowsKept ==
    /\ row' \in [Instances -> Row]
    /\ \A i \in Instances : row'[i].jid # None => client'[row'[i].jid].i = i

LEMMA RowSame == ASSUME Shape, ClientsKept, UNCHANGED row PROVE RowsKept
<1> SUFFICES ASSUME NEW i \in Instances, row[i].jid # None PROVE client'[row[i].jid].i = i
  BY DEF RowsKept, Shape, TypeOK, Row
<1>1. Made(row[i].jid) /\ client[row[i].jid].i = i
  BY DEF Shape, TypeOK, Owned, Made
<1> QED BY <1>1 DEF ClientsKept, Made

LEMMA RowWritten ==
  ASSUME Shape, ClientsKept, NEW i \in Instances, NEW r \in Row, row' = [row EXCEPT ![i] = r],
         r.jid # None => r.jid \in Clients /\ client[r.jid].i = i
  PROVE  RowsKept
<1>1. row' \in [Instances -> Row] /\ row'[i] = r /\ \A j \in Instances \ {i} : row'[j] = row[j]
  BY DEF Shape, TypeOK, Row
<1>2. ASSUME NEW j \in Instances, NEW c \in Clients, client[c].i = j PROVE client'[c].i = j
  BY <1>2 DEF ClientsKept, Made
<1>3. \A j \in Instances : row[j].jid # None => row[j].jid \in Clients /\ client[row[j].jid].i = j
  BY DEF Shape, TypeOK, Owned
<1> QED BY <1>1, <1>2, <1>3 DEF RowsKept

LEMMA RowSet ==
  ASSUME Shape, ClientsKept, NEW i \in Instances, NEW status \in Status, NEW connected \in BOOLEAN, NEW jid,
         jid # None => jid \in Clients /\ client[jid].i = i,
         Set(i, status, connected, jid)
  PROVE  RowsKept /\ unserved' \subseteq Instances
<1>1. unserved \subseteq Instances
  BY DEF Shape, TypeOK
<1>2. CASE row[i].status \in Gone
  BY <1>1, <1>2, RowSame DEF Set
<1>3. CASE row[i].status \notin Gone
  <2> DEFINE r == [status |-> status, connected |-> connected, jid |-> jid]
  <2>1. r \in Row /\ r.jid = jid
    BY DEF Row
  <2>2. row' = [row EXCEPT ![i] = r] /\ unserved' \in {unserved \cup {i}, unserved \ {i}}
    BY <1>3 DEF Set
  <2> HIDE DEF r
  <2> QED BY <1>1, <2>1, <2>2, RowWritten
<1> QED BY <1>2, <1>3

LEMMA RowFailed ==
  ASSUME Shape, ClientsKept, NEW i \in Instances, Fails(i) PROVE RowsKept /\ unserved' \subseteq Instances
BY RowSame DEF Fails, Shape, TypeOK

LEMMA RowType == ASSUME Shape, NEW i \in Instances
  PROVE row[i] \in Row /\ (row[i].jid # None => row[i].jid \in Clients /\ client[row[i].jid].i = i)
BY DEF Shape, TypeOK, Owned, Row

LEMMA RowStep == ASSUME Shape, [Next]_vars PROVE RowsKept /\ unserved' \subseteq Instances
<1>0. ClientsKept /\ unserved \subseteq Instances
  BY ClientStep DEF Shape, TypeOK
<1>1. ASSUME NEW t \in tasks, Handle(t) PROVE RowsKept /\ unserved' \subseteq Instances
  <2>1. t.c \in Clients /\ client[t.c].i \in Instances
    BY DEF Shape, Owned, Made
  <2>2. CASE RecordConnected(t)
    BY <1>0, <2>1, <2>2, RowSet, RowSame, RowFailed DEF RecordConnected, UpdateInstanceOnConnected, Status
  <2>3. CASE RecordDisconnected(t)
    BY <1>0, <2>1, <2>3, RowSet, RowType, RowFailed DEF RecordDisconnected, UpdateInstanceOnDisconnected, Status
  <2>4. CASE RecordLoggedOut(t)
    BY <1>0, <2>1, <2>4, RowSet, RowType, RowFailed DEF RecordLoggedOut, UpdateInstanceOnLoggedOut, Status
  <2>5. CASE Check(t) \/ MarkConnected(t) \/ MarkDisconnected(t) \/ CloseLoggedOut(t) \/ RemoveLoggedOut(t)
    BY <1>0, <2>1, <2>5, RowSame DEF Check, MarkConnected, MarkDisconnected, CloseLoggedOut, RemoveLoggedOut, history
  <2> QED BY <1>1, <2>2, <2>3, <2>4, <2>5 DEF Handle
<1>2. ASSUME NEW p \in Callers, Request(p) PROVE RowsKept /\ unserved' \subseteq Instances
  <2>1. CASE RecordLogout(p)
    <3>1. req[p].i \in Instances
      BY <2>1 DEF RecordLogout, Shape, Owned
    <3> QED BY <1>0, <2>1, <3>1, RowSet, RowType, RowFailed DEF RecordLogout, UpdateInstanceStatus, Status
  <2>2. CASE DeleteRow(p)
    <3> DEFINE i == req[p].i
               r == [row[i] EXCEPT !.status = "deleted", !.connected = FALSE]
    <3>1. i \in Instances
      BY <2>2 DEF DeleteRow, Shape, Owned
    <3>0. CASE Fails(i)
      BY <1>0, <3>0, <3>1, RowFailed
    <3>2. row[i] \in Row /\ (row[i].jid # None => row[i].jid \in Clients /\ client[row[i].jid].i = i)
      BY <3>1, RowType
    <3>3. r \in Row /\ r.jid = row[i].jid
      BY <3>2 DEF Row, Status
    <3>4. Fails(i) \/ (row' = [row EXCEPT ![i] = r] /\ unserved' = unserved \ {i})
      BY <2>2 DEF DeleteRow
    <3> HIDE DEF r
    <3> QED BY <1>0, <3>0, <3>1, <3>2, <3>3, <3>4, RowWritten
  <2>3. CASE UNCHANGED <<row, unserved>>
    BY <1>0, <2>3, RowSame
  <2> QED
    BY <1>2, <2>1, <2>2, <2>3 DEF Request, CheckQR, CancelQR, SetFlag, ReadRow, QRSession, RegisterQR, TakeSession,
          LogoutClient, ClearFlag, DropClient, DeleteSessionFromMemory, history
<1>3. ASSUME NEW i \in Instances, NEW c \in Clients, Login(i, c) PROVE RowsKept /\ unserved' \subseteq Instances
  <2> DEFINE r == [row[i] EXCEPT !.status = "qr_required"]
  <2>1. row[i] \in Row /\ (row[i].jid # None => row[i].jid \in Clients /\ client[row[i].jid].i = i)
    BY RowType
  <2>2. r \in Row /\ r.jid = row[i].jid
    BY <2>1 DEF Row, Status
  <2>3. row' = [row EXCEPT ![i] = r] \/ row' = row
    BY <1>3 DEF Login, persistNewInstance
  <2> HIDE DEF r
  <2>4. RowsKept
    BY <1>0, <2>1, <2>2, <2>3, RowWritten, RowSame
  <2> QED BY <1>0, <1>3, <2>4 DEF Login, history
<1>4. ASSUME NEW a \in Attempts, publishQRCode(a) PROVE RowsKept /\ unserved' \subseteq Instances
  <2>1. att[a].i \in Instances
    BY <1>4 DEF publishQRCode, Shape, Owned
  <2>2. row[att[a].i].connected \in BOOLEAN
    BY <2>1, RowType DEF Row
  <2> QED BY <1>0, <1>4, <2>1, <2>2, RowSet, RowType DEF publishQRCode, UpdateInstanceQR, Status
<1>5. ASSUME NEW a \in Attempts, Scan(a) PROVE RowsKept /\ unserved' \subseteq Instances
  <2>1. ASSUME NEW i \in Instances
        PROVE  row'[i] \in Row /\ (row'[i].jid # None => row'[i].jid = row[i].jid)
    <3> DEFINE j == IF row[i].jid = att[a].c THEN None ELSE row[i].jid
               r == [row[i] EXCEPT !.jid = j]
    <3>1. row[i] \in Row
      BY RowType
    <3>2. j \in Clients \cup {None}
      BY <3>1 DEF Row
    <3>3. row'[i] = r
      BY <1>5 DEF Scan
    <3> HIDE DEF j
    <3>4. r \in Row /\ r.jid = j
      BY <3>1, <3>2 DEF Row
    <3> HIDE DEF r
    <3> QED BY <3>3, <3>4 DEF j
  <2>2. row' \in [Instances -> Row]
    <3>1. row' = [i \in Instances |-> row'[i]]
      BY <1>5 DEF Scan
    <3> QED BY <2>1, <3>1
  <2>3. ASSUME NEW i \in Instances, row'[i].jid # None PROVE client'[row'[i].jid].i = i
    <3>1. row'[i].jid = row[i].jid /\ row[i].jid \in Clients /\ client[row[i].jid].i = i
      BY <2>1, <2>3, RowType
    <3> QED BY <1>0, <3>1 DEF ClientsKept, Made
  <2> QED BY <1>0, <1>5, <2>2, <2>3 DEF Scan, RowsKept
<1>6. ASSUME NEW a \in Attempts, Pairing(a), ~publishQRCode(a) PROVE RowsKept /\ unserved' \subseteq Instances
  BY <1>0, <1>6, RowSame DEF Pairing, StartQR, EndQR, ReleaseQR, history
<1>7. CASE LoadAllDevices
  <2>1. CASE RecordLoaded
    <3>1. Made(loader.at)
      BY <2>1 DEF RecordLoaded, Shape, Owned
    <3> QED BY <1>0, <2>1, <3>1, RowSet, RowFailed DEF RecordLoaded, UpdateInstanceOnConnected, Status, Made
  <2> QED BY <1>0, <1>7, <2>1, RowSame DEF LoadAllDevices, Visit, StoreLoaded, Serve, history
<1>8. CASE Crash
  BY <1>0, <1>8, RowSame DEF Crash
<1>9. ASSUME NEW c \in Clients, NetDown(c) \/ NetUp(c) \/ Unlink(c) \/ StreamReplaced(c) PROVE RowsKept /\ unserved' \subseteq Instances
  <2>1. client[c].i \in Instances
    BY <1>9 DEF NetDown, NetUp, Unlink, StreamReplaced, HasID, Shape, Owned, Made
  <2> QED BY <1>0, <1>9, <2>1, RowSame DEF NetDown, NetUp, Unlink, StreamReplaced, history
<1>10. CASE UNCHANGED vars
  BY <1>0, <1>10, RowSame DEF vars, history
<1> QED BY <1>1, <1>2, <1>3, <1>4, <1>5, <1>6, <1>7, <1>8, <1>9, <1>10 DEF Next

-----------------------------------------------------------------------------
(***************************************************************************)
(* What a step does to the handlers, the map of sessions and the logged    *)
(* out clients.                                                            *)
(***************************************************************************)
LEMMA MadeKept ==
  ASSUME ClientsKept, NEW c, Made(c)
  PROVE  c \in Clients /\ client'[c].i = client[c].i /\ client'[c].i \in Instances
BY DEF ClientsKept, Made

TasksKept == tasks' \subseteq Tasks /\ \A t \in tasks' : t.c \in Clients /\ client'[t.c].i \in Instances

LEMMA TaskStep == ASSUME Shape, [Next]_vars PROVE TasksKept
<1>0. ClientsKept /\ tasks \subseteq Tasks /\ \A t \in tasks : Made(t.c)
  BY ClientStep DEF Shape, TypeOK, Owned, Tasks
<1>1. ASSUME NEW c, Made(c), NEW kind \in {"connected", "disconnected", "loggedOut"}, eventHandler(kind, c)
      PROVE  TasksKept
  <2> DEFINE n == Task(kind, c, IF kind = "loggedOut" THEN "close" ELSE "check")
  <2>1. n \in Tasks /\ n.c = c
    BY <1>1 DEF Task, Tasks, Made
  <2>2. tasks' = tasks \cup {n}
    BY <1>1 DEF eventHandler
  <2> HIDE DEF n
  <2> QED BY <1>0, <1>1, <2>1, <2>2, MadeKept DEF TasksKept
<1>2. ASSUME tasks' \subseteq tasks PROVE TasksKept
  BY <1>0, <1>2, MadeKept DEF TasksKept
<1>3. ASSUME NEW c \in Clients, NetDown(c) \/ NetUp(c) \/ Unlink(c) \/ StreamReplaced(c) PROVE TasksKept
  <2>1. Made(c)
    BY <1>3 DEF NetDown, NetUp, Unlink, StreamReplaced, Shape, Owned
  <2> QED BY <1>1, <1>2, <1>3, <2>1 DEF NetDown, NetUp, Unlink, StreamReplaced
<1>4. ASSUME NEW t \in tasks, Handle(t) PROVE TasksKept
  <2>1. t \in Tasks /\ Made(t.c)
    BY <1>0
  <2>2. ASSUME NEW pc \in {"mark", "record", "remove"}, Advance(t, pc) PROVE TasksKept
    <3> DEFINE n == [t EXCEPT !.pc = pc]
    <3>1. n \in Tasks /\ n.c = t.c
      BY <2>1 DEF Tasks
    <3>2. tasks' \subseteq tasks \cup {n}
      BY <2>2 DEF Advance
    <3> HIDE DEF n
    <3> QED BY <1>0, <2>1, <3>1, <3>2, MadeKept DEF TasksKept
  <2>3. CASE Finish(t)
    BY <1>2, <2>3 DEF Finish
  <2>4. CASE MarkConnected(t) /\ ~Finish(t)
    <3> DEFINE s == sessions[client[t.c].i]
               n == Task("connected", s, "record")
    <3>1. Made(s)
      BY <2>1, <2>4 DEF MarkConnected, Shape, TypeOK, Owned, Made
    <3>2. n \in Tasks /\ n.c = s
      BY <3>1 DEF Task, Tasks, Made
    <3>3. tasks' \subseteq tasks \cup {n}
      BY <2>4 DEF MarkConnected
    <3> HIDE DEF n, s
    <3> QED BY <1>0, <3>1, <3>2, <3>3, MadeKept DEF TasksKept
  <2> QED
    BY <1>4, <2>2, <2>3, <2>4 DEF Handle, Check, MarkConnected, RecordConnected, MarkDisconnected,
                                  RecordDisconnected, CloseLoggedOut, RecordLoggedOut, RemoveLoggedOut
<1>5. ASSUME NEW a \in Attempts, Scan(a) PROVE TasksKept
  <2>1. Made(att[a].c)
    BY <1>5 DEF Scan, Shape, Owned
  <2> QED BY <1>1, <1>5, <2>1 DEF Scan
<1>6. ASSUME NEW c \in Clients, Visit(c) PROVE TasksKept
  <2>1. Made(c)
    BY <1>6 DEF Visit, Shape, Owned
  <2> QED BY <1>1, <1>2, <1>6, <2>1 DEF Visit
<1>7. CASE Crash
  BY <1>2, <1>7 DEF Crash
<1> QED
  BY <1>2, <1>3, <1>4, <1>5, <1>6, <1>7
     DEF Next, vars, Login, Request, CheckQR, QRSession, RegisterQR, CancelQR, SetFlag, TakeSession, LogoutClient,
         RecordLogout, ClearFlag, ReadRow, DropClient, DeleteSessionFromMemory, DeleteRow, Pairing, StartQR,
         publishQRCode, EndQR, ReleaseQR, LoadAllDevices, StoreLoaded, RecordLoaded, Serve

SessionsKept ==
    /\ sessions' \in [Instances -> Clients \cup {None}]
    /\ \A i \in Instances : sessions'[i] # None => client'[sessions'[i]].i = i

LEMMA SessionStep == ASSUME Shape, [Next]_vars PROVE SessionsKept
<1>0. ClientsKept /\ sessions \in [Instances -> Clients \cup {None}]
  BY ClientStep DEF Shape, TypeOK
<1>1. \A i \in Instances : sessions[i] # None => Made(sessions[i]) /\ client[sessions[i]].i = i
  BY DEF Shape, TypeOK, Owned, Made
<1>2. ASSUME UNCHANGED sessions PROVE SessionsKept
  BY <1>0, <1>1, <1>2, MadeKept DEF SessionsKept
<1>3. ASSUME NEW i, NEW c \in Clients \cup {None}, sessions' = [sessions EXCEPT ![i] = c],
             c # None => client'[c].i = i
      PROVE  SessionsKept
  BY <1>0, <1>1, <1>3, MadeKept DEF SessionsKept
<1>4. ASSUME NEW i \in Instances, NEW c \in Clients, CreateSession(i, c) PROVE SessionsKept
  BY <1>3, <1>4, ClientCreated DEF CreateSession
<1>5. ASSUME NEW p \in Callers, QRSession(p), ~UNCHANGED sessions PROVE SessionsKept
  <2>1. req[p].i \in Instances
    BY <1>5 DEF QRSession, Shape, Owned
  <2> QED BY <1>4, <1>5, <2>1 DEF QRSession, Fresh
<1>6. CASE StoreLoaded
  <2>1. Made(loader.at)
    BY <1>6 DEF StoreLoaded, Shape, Owned
  <2> QED BY <1>0, <1>3, <1>6, <2>1, MadeKept DEF StoreLoaded, Made
<1>7. CASE Crash
  BY <1>7 DEF Crash, SessionsKept
<1>8. ASSUME NEW t \in tasks, RemoveLoggedOut(t) PROVE SessionsKept
  BY <1>3, <1>8 DEF RemoveLoggedOut
<1>9. ASSUME NEW p \in Callers, TakeSession(p) \/ DeleteSessionFromMemory(p) PROVE SessionsKept
  BY <1>3, <1>9 DEF TakeSession, DeleteSessionFromMemory
<1> QED
  BY <1>2, <1>4, <1>5, <1>6, <1>7, <1>8, <1>9
     DEF Next, vars, NetDown, NetUp, Unlink, StreamReplaced, Handle, Check, MarkConnected, RecordConnected, MarkDisconnected,
         RecordDisconnected, CloseLoggedOut, RecordLoggedOut, Login, Request, CheckQR, RegisterQR, CancelQR, SetFlag,
         LogoutClient, RecordLogout, ClearFlag, ReadRow, DropClient, DeleteRow, Pairing, StartQR, publishQRCode,
         EndQR, ReleaseQR, Scan, LoadAllDevices, Visit, RecordLoaded, Serve

OutKept == out' \subseteq Clients /\ kept' \subseteq Clients /\ \A c \in out' : client'[c].i \in Instances

LEMMA OutStep == ASSUME Shape, [Next]_vars PROVE OutKept
<1>0. ClientsKept /\ out \subseteq Clients /\ kept \subseteq Clients /\ \A c \in out : Made(c)
  BY ClientStep DEF Shape, TypeOK, Owned
<1>1. ASSUME out' \subseteq out, kept' \subseteq kept PROVE OutKept
  BY <1>0, <1>1, MadeKept DEF OutKept
<1>2. ASSUME NEW p \in Callers, LogoutClient(p) PROVE OutKept
  <2>1. Made(req[p].c)
    BY <1>2 DEF LogoutClient, Shape, Owned
  <2>2. out' \subseteq out \cup {req[p].c} /\ kept' \subseteq kept \cup {req[p].c}
    BY <1>2 DEF LogoutClient
  <2> QED BY <1>0, <2>1, <2>2, MadeKept DEF OutKept, Made
<1>3. ASSUME NEW a \in Attempts, Scan(a) PROVE OutKept
  BY <1>1, <1>3 DEF Scan
<1> QED
  BY <1>1, <1>2, <1>3
     DEF Next, vars, history, NetDown, NetUp, Unlink, StreamReplaced, Handle, Check, MarkConnected, RecordConnected, MarkDisconnected,
         RecordDisconnected, CloseLoggedOut, RecordLoggedOut, RemoveLoggedOut, Login, Request, CheckQR, QRSession,
         RegisterQR, CancelQR, SetFlag, TakeSession, RecordLogout, ClearFlag, ReadRow, DropClient,
         DeleteSessionFromMemory, DeleteRow, Pairing, StartQR, publishQRCode, EndQR, ReleaseQR, LoadAllDevices,
         Visit, StoreLoaded, RecordLoaded, Serve, Crash

-----------------------------------------------------------------------------
(***************************************************************************)
(* What a step does to the requests and the pairing attempts.              *)
(***************************************************************************)
ReqsKept ==
    /\ req' \in [Callers -> Req]
    /\ \A p \in Callers :
          /\ req'[p].pc # "idle" => req'[p].i \in Instances
          /\ req'[p].pc \in {"register", "unlink"} => req'[p].c \in Clients /\ client'[req'[p].c].i \in Instances
          /\ req'[p].pc = "unlink" => client'[req'[p].c].i = req'[p].i

LEMMA ReqSame == ASSUME Shape, ClientsKept, UNCHANGED req PROVE ReqsKept
<1>1. req \in [Callers -> Req]
  BY DEF Shape, TypeOK, Req
<1>2. ASSUME NEW p \in Callers, req[p].pc \in {"register", "unlink"} PROVE Made(req[p].c)
  BY <1>2 DEF Shape, Owned
<1> QED BY <1>1, <1>2, MadeKept DEF ReqsKept, Shape, Owned

LEMMA ReqWritten ==
  ASSUME Shape, ClientsKept, NEW p \in Callers, NEW r \in Req, req' = [req EXCEPT ![p] = r],
         r.pc # "idle" => r.i \in Instances,
         r.pc \in {"register", "unlink"} => r.c \in Clients /\ client'[r.c].i \in Instances,
         r.pc = "unlink" => client'[r.c].i = r.i
  PROVE  ReqsKept
<1>1. req' \in [Callers -> Req] /\ req'[p] = r /\ \A q \in Callers \ {p} : req'[q] = req[q]
  BY ReqEdit
<1>2. ASSUME NEW q \in Callers, req[q].pc \in {"register", "unlink"} PROVE Made(req[q].c)
  BY <1>2 DEF Shape, Owned
<1> QED BY <1>1, <1>2, MadeKept DEF ReqsKept, Shape, Owned

LEMMA ReqType ==
  ASSUME Shape, NEW p \in Callers PROVE req[p] \in Req /\ (req[p].pc # "idle" => req[p].i \in Instances)
BY DEF Shape, TypeOK, Owned, Req

\* A request that is answered, begins, or goes on with what it has.
LEMMA ReqAnswered ==
  ASSUME Shape, ClientsKept, NEW p \in Callers, Answer(p) PROVE ReqsKept
<1>1. Idle \in Req /\ Idle.pc = "idle"
  BY DEF Idle, Req
<1> QED BY <1>1, ReqWritten DEF Answer

LEMMA ReqGoes ==
  ASSUME Shape, ClientsKept, NEW p \in Callers, NEW i \in Instances, NEW pc \in {"session", "take", "drop"},
         Goes(p, i, pc)
  PROVE  ReqsKept
<1> DEFINE r == [i |-> i, c |-> None, pc |-> pc]
<1>1. r \in Req /\ r.pc = pc /\ r.i = i
  BY DEF Req
<1>2. req' = [req EXCEPT ![p] = r]
  BY DEF Goes
<1> HIDE DEF r
<1> QED BY <1>1, <1>2, ReqWritten

LEMMA ReqOn ==
  ASSUME Shape, ClientsKept, NEW p \in Callers, req[p].pc # "idle", NEW pc \in {"record", "clear", "forget", "row"},
         Step(p, pc)
  PROVE  ReqsKept
<1> DEFINE r == [req[p] EXCEPT !.pc = pc]
<1>1. r \in Req /\ r.pc = pc /\ r.i = req[p].i /\ req[p].i \in Instances
  BY ReqType DEF Req
<1>2. req' = [req EXCEPT ![p] = r]
  BY DEF Step
<1> HIDE DEF r
<1> QED BY <1>1, <1>2, ReqWritten

LEMMA ReqTakes ==
  ASSUME Shape, ClientsKept, NEW p \in Callers, req[p].pc # "idle", NEW c \in Clients \cup {None},
         NEW pc \in {"register", "unlink", "clear"}, req' = [req EXCEPT ![p].pc = pc, ![p].c = c],
         pc # "clear" => c \in Clients /\ client'[c].i = req[p].i
  PROVE  ReqsKept
<1> DEFINE r == [req[p] EXCEPT !.pc = pc, !.c = c]
<1>1. r \in Req /\ r.pc = pc /\ r.i = req[p].i /\ r.c = c /\ req[p].i \in Instances
  BY ReqType DEF Req
<1>2. req' = [req EXCEPT ![p] = r]
  OBVIOUS
<1> HIDE DEF r
<1> QED BY <1>1, <1>2, ReqWritten

LEMMA ReqStep == ASSUME Shape, [Next]_vars PROVE ReqsKept
<1>0. ClientsKept
  BY ClientStep
<1>1. ASSUME NEW p \in Callers, Request(p) PROVE ReqsKept
  <2>0. \A i \in Instances : sessions[i] # None => Made(sessions[i]) /\ client[sessions[i]].i = i
    BY DEF Shape, TypeOK, Owned, Made
  <2>1. ASSUME NEW i \in Instances, CheckQR(p, i) \/ CancelQR(p, i) \/ SetFlag(p, i) \/ ReadRow(p, i) PROVE ReqsKept
    BY <1>0, <2>1, ReqAnswered, ReqGoes DEF CheckQR, CancelQR, SetFlag, ReadRow
  <2>2. CASE QRSession(p)
    <3>1. req[p].i \in Instances /\ req[p].pc # "idle"
      BY <2>2, ReqType DEF QRSession
    <3>2. CASE sessions[req[p].i] = None
      <4>1. PICK c \in Clients : CreateSession(req[p].i, c) /\ req' = [req EXCEPT ![p].pc = "register", ![p].c = c]
        BY <2>2, <3>2 DEF QRSession, Fresh
      <4>2. client'[c].i = req[p].i
        BY <3>1, <4>1, ClientCreated
      <4> QED BY <1>0, <3>1, <4>1, <4>2, ReqTakes
    <3>3. CASE sessions[req[p].i] # None
      <4> DEFINE c == sessions[req[p].i]
      <4>1. c \in Clients /\ client'[c].i = req[p].i
        BY <1>0, <2>0, <3>1, <3>3, MadeKept
      <4>2. Answer(p) \/ req' = [req EXCEPT ![p].pc = "register", ![p].c = c]
        BY <2>2, <3>3 DEF QRSession
      <4> HIDE DEF c
      <4> QED BY <1>0, <3>1, <4>1, <4>2, ReqTakes, ReqAnswered
    <3> QED BY <3>2, <3>3
  <2>3. CASE TakeSession(p)
    <3> DEFINE s == sessions[req[p].i]
    <3>1. req[p].i \in Instances /\ req[p].pc # "idle"
      BY <2>3, ReqType DEF TakeSession
    <3>2. s \in Clients \cup {None} /\ (s # None => s \in Clients /\ client'[s].i = req[p].i)
      BY <1>0, <2>0, <3>1, MadeKept DEF Shape, TypeOK
    <3>3. \/ s = None /\ req' = [req EXCEPT ![p].pc = "clear", ![p].c = s]
          \/ s # None /\ req' = [req EXCEPT ![p].pc = "unlink", ![p].c = s]
      BY <2>3 DEF TakeSession
    <3> HIDE DEF s
    <3> QED BY <1>0, <3>1, <3>2, <3>3, ReqTakes
  <2>4. CASE LogoutClient(p) \/ RecordLogout(p) \/ DropClient(p) \/ DeleteSessionFromMemory(p)
    BY <1>0, <2>4, ReqOn, ReqAnswered DEF LogoutClient, RecordLogout, DropClient, DeleteSessionFromMemory
  <2>5. CASE ClearFlag(p) \/ DeleteRow(p)
    BY <1>0, <2>5, ReqAnswered DEF ClearFlag, DeleteRow
  <2>6. ASSUME NEW a \in Attempts, RegisterQR(p, a) PROVE ReqsKept
    BY <1>0, <2>6, ReqAnswered DEF RegisterQR
  <2> QED BY <1>1, <2>1, <2>2, <2>3, <2>4, <2>5, <2>6 DEF Request
<1>2. CASE Crash
  BY <1>2 DEF Crash, Idle, ReqsKept, Req
<1>3. CASE UNCHANGED req
  BY <1>0, <1>3, ReqSame
<1> QED
  BY <1>1, <1>2, <1>3
     DEF Next, vars, NetDown, NetUp, Unlink, StreamReplaced, Handle, Check, MarkConnected, RecordConnected, MarkDisconnected,
         RecordDisconnected, CloseLoggedOut, RecordLoggedOut, RemoveLoggedOut, Login, Pairing, StartQR, publishQRCode,
         EndQR, ReleaseQR, Scan, LoadAllDevices, Visit, StoreLoaded, RecordLoaded, Serve

AttsKept ==
    /\ att' \in [Attempts -> Att]
    /\ \A a \in Attempts :
          /\ att'[a].pc # "new" =>
               att'[a].i \in Instances /\ att'[a].c \in Clients /\ client'[att'[a].c].i \in Instances
          /\ att'[a].pc = "new" => att'[a] = NoAttempt /\ att[a].pc = "new"

LEMMA AttType ==
  ASSUME Shape, NEW a \in Attempts
  PROVE  /\ att[a] \in Att
         /\ att[a].pc # "new" => att[a].i \in Instances /\ Made(att[a].c)
         /\ att[a].pc = "new" => att[a] = NoAttempt
BY DEF Shape, TypeOK, Owned, Att

LEMMA AttWritten ==
  ASSUME Shape, ClientsKept, NEW a \in Attempts, NEW r \in Att, att' = [att EXCEPT ![a] = r],
         r.pc # "new" /\ r.i \in Instances /\ Made(r.c)
  PROVE  AttsKept
<1>1. att' \in [Attempts -> Att] /\ att'[a] = r /\ \A b \in Attempts \ {a} : att'[b] = att[b]
  BY AttEdit
<1> QED BY <1>1, AttType, MadeKept DEF AttsKept

LEMMA AttStep == ASSUME Shape, [Next]_vars PROVE AttsKept
<1>0. ClientsKept /\ att \in [Attempts -> Att]
  BY ClientStep DEF Shape, TypeOK, Att
<1>1. CASE UNCHANGED att
  BY <1>0, <1>1, AttType, MadeKept DEF AttsKept
<1>2. ASSUME NEW a \in Attempts, att[a].pc # "new", NEW pc \in {"listen", "end", "done"}, Attempt(a, pc) PROVE AttsKept
  <2> DEFINE r == [att[a] EXCEPT !.pc = pc]
  <2>1. att[a] \in Att /\ att[a].i \in Instances /\ Made(att[a].c)
    BY <1>2, AttType
  <2>2. r \in Att /\ r.i = att[a].i /\ r.c = att[a].c /\ r.pc = pc
    BY <2>1 DEF Att
  <2>3. att' = [att EXCEPT ![a] = r]
    BY <1>2 DEF Attempt
  <2> HIDE DEF r
  <2> QED BY <1>0, <2>1, <2>2, <2>3, AttWritten
<1>3. ASSUME NEW a \in Attempts, Pairing(a) \/ Scan(a) PROVE AttsKept
  BY <1>1, <1>2, <1>3 DEF Pairing, StartQR, publishQRCode, EndQR, ReleaseQR, Scan
<1>4. ASSUME NEW p \in Callers, NEW a \in Attempts, RegisterQR(p, a) PROVE AttsKept
  <2> DEFINE i == req[p].i
             c == req[p].c
             r == [NoAttempt EXCEPT !.i = i, !.c = c, !.pc = "start"]
  <2>1. i \in Instances /\ Made(c)
    BY <1>4 DEF RegisterQR, Shape, Owned
  <2>2. r \in Att /\ r.i = i /\ r.c = c /\ r.pc = "start"
    BY <2>1 DEF Att, NoAttempt, Made
  <2>3. att' = [att EXCEPT ![a] = r]
    BY <1>4 DEF RegisterQR
  <2> HIDE DEF i, c, r
  <2> QED BY <1>0, <2>1, <2>2, <2>3, AttWritten
<1>5. ASSUME NEW p \in Callers, NEW i \in Instances, CancelQR(p, i), qr[i] # None PROVE AttsKept
  <2> DEFINE a == qr[i]
             r == [att[a] EXCEPT !.cancelled = TRUE]
  <2>1. a \in Attempts /\ att[a].pc # "new"
    BY <1>5 DEF Shape, TypeOK, Owned
  <2>2. att[a] \in Att /\ att[a].i \in Instances /\ Made(att[a].c)
    BY <2>1, AttType
  <2>3. r \in Att /\ r.i = att[a].i /\ r.c = att[a].c /\ r.pc = att[a].pc
    BY <2>2 DEF Att
  <2>4. att' = [att EXCEPT ![a] = r]
    BY <1>5 DEF CancelQR
  <2> HIDE DEF r, a
  <2> QED BY <1>0, <2>1, <2>2, <2>3, <2>4, AttWritten
<1>6. CASE Crash
  <2>1. ASSUME NEW a \in Attempts
        PROVE  /\ att'[a] \in Att
               /\ att'[a].pc # "new" => att'[a].i \in Instances /\ Made(att'[a].c)
               /\ att'[a].pc = "new" => att'[a] = NoAttempt /\ att[a].pc = "new"
    <3> DEFINE r == [att[a] EXCEPT !.pc = "done"]
    <3>1. att'[a] = IF a \in Unused THEN NoAttempt ELSE r
      BY <1>6 DEF Crash
    <3>2. att[a] \in Att /\ r \in Att /\ r.i = att[a].i /\ r.c = att[a].c /\ r.pc = "done"
      BY AttType DEF Att
    <3>3. NoAttempt \in Att /\ NoAttempt.pc = "new"
      BY DEF NoAttempt, Att
    <3> HIDE DEF r
    <3> QED BY <3>1, <3>2, <3>3, AttType DEF Unused
  <2>2. att' = [a \in Attempts |-> att'[a]]
    BY <1>6 DEF Crash
  <2> QED BY <1>0, <2>1, <2>2, MadeKept DEF AttsKept
<1> QED
  BY <1>1, <1>3, <1>4, <1>5, <1>6
     DEF Next, vars, NetDown, NetUp, Unlink, StreamReplaced, Handle, Check, MarkConnected, RecordConnected, MarkDisconnected,
         RecordDisconnected, CloseLoggedOut, RecordLoggedOut, RemoveLoggedOut, Login, Request, CheckQR, QRSession,
         CancelQR, SetFlag, TakeSession, LogoutClient, RecordLogout, ClearFlag, ReadRow, DropClient,
         DeleteSessionFromMemory, DeleteRow, LoadAllDevices, Visit, StoreLoaded, RecordLoaded, Serve

QRKept ==
    /\ qr' \in [Instances -> Attempts \cup {None}]
    /\ \A i \in Instances : qr'[i] # None => att'[qr'[i]].pc # "new"

LEMMA QRStep == ASSUME Shape, [Next]_vars PROVE QRKept
<1>0. AttsKept /\ qr \in [Instances -> Attempts \cup {None}]
      /\ \A i \in Instances : qr[i] # None => qr[i] \in Attempts /\ att[qr[i]].pc # "new"
  BY AttStep DEF Shape, TypeOK, Owned
<1>1. CASE UNCHANGED qr
  BY <1>0, <1>1 DEF QRKept, AttsKept
<1>2. ASSUME NEW p \in Callers, NEW a \in Attempts, RegisterQR(p, a) PROVE QRKept
  <2> DEFINE i == req[p].i
             r == [NoAttempt EXCEPT !.i = i, !.c = req[p].c, !.pc = "start"]
  <2>1. r.pc = "start"
    BY DEF NoAttempt
  <2>2. att' = [att EXCEPT ![a] = r] /\ qr' = [qr EXCEPT ![i] = a]
    BY <1>2 DEF RegisterQR
  <2> HIDE DEF r, i
  <2>3. att'[a].pc = "start"
    BY <2>1, <2>2 DEF Shape, TypeOK
  <2> QED BY <1>0, <2>2, <2>3 DEF QRKept, AttsKept
<1>3. ASSUME NEW a \in Attempts, ReleaseQR(a) PROVE QRKept
  BY <1>0, <1>3 DEF ReleaseQR, QRKept, AttsKept
<1>4. CASE Crash
  BY <1>4 DEF Crash, QRKept
<1> QED
  BY <1>1, <1>2, <1>3, <1>4
     DEF Next, vars, NetDown, NetUp, Unlink, StreamReplaced, Handle, Check, MarkConnected, RecordConnected, MarkDisconnected,
         RecordDisconnected, CloseLoggedOut, RecordLoggedOut, RemoveLoggedOut, Login, Request, CheckQR, QRSession,
         CancelQR, SetFlag, TakeSession, LogoutClient, RecordLogout, ClearFlag, ReadRow, DropClient,
         DeleteSessionFromMemory, DeleteRow, Pairing, StartQR, publishQRCode, EndQR, Scan, LoadAllDevices, Visit,
         StoreLoaded, RecordLoaded, Serve

-----------------------------------------------------------------------------
(***************************************************************************)
(* What a step does to the loader, and the rest.                           *)
(***************************************************************************)
LoaderKept ==
    /\ loader' \in [todo : SUBSET Clients, at : Clients \cup {None}, pc : {"next", "store", "record", "done"}]
    /\ \A c \in loader'.todo : client'[c].i \in Instances
    /\ loader'.pc \in {"store", "record"} => loader'.at \in Clients /\ client'[loader'.at].i \in Instances
    /\ Loading'

\* Requests begin, and go on, only when the loader is done.
LEMMA RequestServed == ASSUME Shape, NEW p \in Callers, Request(p) PROVE serving
BY DEF Shape, Loading, Request, CheckQR, QRSession, RegisterQR, CancelQR, SetFlag, TakeSession, LogoutClient,
       RecordLogout, ClearFlag, ReadRow, DropClient, DeleteSessionFromMemory, DeleteRow, Begins

LEMMA LoaderStep == ASSUME Shape, [Next]_vars PROVE LoaderKept
<1>0. /\ ClientsKept
      /\ loader \in [todo : SUBSET Clients, at : Clients \cup {None}, pc : {"next", "store", "record", "done"}]
      /\ \A c \in loader.todo : Made(c)
      /\ loader.pc \in {"store", "record"} => Made(loader.at)
      /\ Loading
  BY ClientStep DEF Shape, TypeOK, Owned
<1>1. CASE UNCHANGED <<loader, serving>> /\ (serving \/ UNCHANGED req)
  BY <1>0, <1>1, MadeKept DEF LoaderKept, Loading
<1>2. ASSUME NEW r, loader' = r, loader.pc # "done", UNCHANGED <<serving, req>>,
             r \in [todo : SUBSET Clients, at : Clients \cup {None}, pc : {"next", "store", "record"}],
             r.todo \subseteq loader.todo, r.pc \in {"store", "record"} => Made(r.at)
      PROVE  LoaderKept
  BY <1>0, <1>2, MadeKept DEF LoaderKept, Loading
<1>3. ASSUME NEW c \in Clients, Visit(c) PROVE LoaderKept
  <2> DEFINE n == [loader EXCEPT !.todo = loader.todo \ {c}]
             v == [todo |-> loader.todo \ {c}, at |-> c, pc |-> "store"]
  <2>1. n \in [todo : SUBSET Clients, at : Clients \cup {None}, pc : {"next", "store", "record"}]
        /\ n.todo = loader.todo \ {c} /\ n.pc = "next"
    BY <1>0, <1>3 DEF Visit
  <2>2. v \in [todo : SUBSET Clients, at : Clients \cup {None}, pc : {"next", "store", "record"}]
        /\ v.todo = loader.todo \ {c} /\ v.at = c
    BY <1>0
  <2>3. (loader' = n \/ loader' = v) /\ loader.pc = "next" /\ Made(c) /\ UNCHANGED <<serving, req>>
    BY <1>0, <1>3 DEF Visit
  <2> HIDE DEF n, v
  <2> QED BY <1>2, <2>1, <2>2, <2>3
<1>4. ASSUME NEW pc \in {"record", "next"}, loader' = [loader EXCEPT !.pc = pc], loader.pc \in {"store", "record"},
             UNCHANGED <<serving, req>>
      PROVE  LoaderKept
  <2> DEFINE r == [loader EXCEPT !.pc = pc]
  <2>1. r \in [todo : SUBSET Clients, at : Clients \cup {None}, pc : {"next", "store", "record"}]
        /\ r.todo = loader.todo /\ r.at = loader.at
    BY <1>0
  <2>2. loader' = r
    BY <1>4
  <2> HIDE DEF r
  <2> QED BY <1>0, <1>2, <1>4, <2>1, <2>2
<1>5. CASE StoreLoaded \/ RecordLoaded
  BY <1>4, <1>5 DEF StoreLoaded, RecordLoaded
<1>6. CASE Serve
  BY <1>0, <1>6 DEF Serve, LoaderKept, Loading
<1>7. CASE Crash
  <2>1. \A c \in Clients : client[c].dev = "paired" => Made(c)
    BY ConnectedIsMade
  <2>2. \A c \in loader'.todo : Made(c)
    BY <1>7, <2>1 DEF Crash
  <2> QED BY <1>0, <1>7, <2>2, MadeKept DEF Crash, LoaderKept, Loading, Idle
<1>8. ASSUME NEW p \in Callers, Request(p) PROVE UNCHANGED <<loader, serving>>
  BY <1>8 DEF Request, CheckQR, QRSession, RegisterQR, CancelQR, SetFlag, TakeSession, LogoutClient,
              RecordLogout, ClearFlag, ReadRow, DropClient, DeleteSessionFromMemory, DeleteRow
<1> QED
  BY <1>1, <1>3, <1>5, <1>6, <1>7, <1>8, RequestServed
     DEF Next, vars, NetDown, NetUp, Unlink, StreamReplaced, Handle, Check, MarkConnected, RecordConnected, MarkDisconnected,
         RecordDisconnected, CloseLoggedOut, RecordLoggedOut, RemoveLoggedOut, Login, Pairing, StartQR,
         publishQRCode, EndQR, ReleaseQR, Scan, LoadAllDevices

LeftType == [drops : 0..MaxDrops, faults : 0..MaxFaults, crashes : 0..MaxCrashes, calls : 0..MaxCalls]

LEMMA LeftStep == ASSUME Shape, [Next]_vars PROVE left' \in LeftType
<1>1. left \in LeftType /\ {MaxDrops, MaxFaults, MaxCrashes, MaxCalls} \subseteq Nat
  BY SessionAssumption DEF Shape, TypeOK, LeftType
<1>2. ASSUME NEW c \in Clients, NetDown(c) \/ Unlink(c) \/ StreamReplaced(c) PROVE left' \in LeftType
  <2>1. left.drops > 0 /\ left' = [left EXCEPT !.drops = left.drops - 1]
    BY <1>2 DEF NetDown, Unlink, StreamReplaced
  <2>2. left.drops - 1 \in 0..MaxDrops
    BY <1>1, <2>1 DEF LeftType
  <2> QED BY <1>1, <2>1, <2>2 DEF LeftType
<1>3. ASSUME NEW p, NEW i, Begins(p, i) PROVE left' \in LeftType
  <2>1. left.calls > 0 /\ left' = [left EXCEPT !.calls = left.calls - 1]
    BY <1>3 DEF Begins
  <2>2. left.calls - 1 \in 0..MaxCalls
    BY <1>1, <2>1 DEF LeftType
  <2> QED BY <1>1, <2>1, <2>2 DEF LeftType
<1>4. CASE Crash
  <2>1. left.crashes > 0 /\ left' = [left EXCEPT !.crashes = left.crashes - 1]
    BY <1>4 DEF Crash
  <2>2. left.crashes - 1 \in 0..MaxCrashes
    BY <1>1, <2>1 DEF LeftType
  <2> QED BY <1>1, <2>1, <2>2 DEF LeftType
<1>5. CASE UNCHANGED left
  BY <1>1, <1>5
<1>6. CASE Fault
  <2>1. left.faults > 0 /\ left' = [left EXCEPT !.faults = left.faults - 1]
    BY <1>6 DEF Fault
  <2>2. left.faults - 1 \in 0..MaxFaults
    BY <1>1, <2>1 DEF LeftType
  <2> QED BY <1>1, <2>1, <2>2 DEF LeftType
<1> QED
  BY <1>2, <1>3, <1>4, <1>5, <1>6
     DEF Fails, Reads, Panics, Next, vars, NetUp, Handle, Check, MarkConnected, RecordConnected, MarkDisconnected,
         RecordDisconnected, CloseLoggedOut, RecordLoggedOut, RemoveLoggedOut, Login, Request, CheckQR, QRSession,
         RegisterQR, CancelQR, SetFlag, TakeSession, LogoutClient, RecordLogout, ClearFlag, ReadRow, DropClient,
         DeleteSessionFromMemory, DeleteRow, Pairing, StartQR, publishQRCode, EndQR, ReleaseQR, Scan,
         LoadAllDevices, Visit, StoreLoaded, RecordLoaded, Serve

LEMMA FlagsStep == ASSUME Shape, [Next]_vars PROVE loggingOut' \subseteq Instances /\ outrun' \subseteq Attempts
<1>1. loggingOut \subseteq Instances /\ outrun \subseteq Attempts
  BY DEF Shape, TypeOK
<1> QED
  BY <1>1
     DEF Next, vars, history, NetDown, NetUp, Unlink, StreamReplaced, Handle, Check, MarkConnected, RecordConnected, MarkDisconnected,
         RecordDisconnected, CloseLoggedOut, RecordLoggedOut, RemoveLoggedOut, Login, Request, CheckQR, QRSession,
         RegisterQR, Running, CancelQR, SetFlag, TakeSession, LogoutClient, RecordLogout, ClearFlag, ReadRow,
         DropClient, DeleteSessionFromMemory, DeleteRow, Pairing, StartQR, publishQRCode, EndQR, ReleaseQR, Scan,
         LoadAllDevices, Visit, StoreLoaded, RecordLoaded, Serve, Crash

LEMMA ServingStep == ASSUME Shape, [Next]_vars PROVE serving' \in BOOLEAN
<1>1. ASSUME NEW p \in Callers, Request(p) PROVE UNCHANGED serving
  BY <1>1 DEF Request, CheckQR, QRSession, RegisterQR, CancelQR, SetFlag, TakeSession, LogoutClient,
              RecordLogout, ClearFlag, ReadRow, DropClient, DeleteSessionFromMemory, DeleteRow
<1>2. ASSUME NEW t \in tasks, Handle(t) PROVE UNCHANGED serving
  BY <1>2 DEF Handle, Check, MarkConnected, RecordConnected, MarkDisconnected, RecordDisconnected,
              CloseLoggedOut, RecordLoggedOut, RemoveLoggedOut
<1>3. ASSUME NEW a \in Attempts, Pairing(a) \/ Scan(a) PROVE UNCHANGED serving
  BY <1>3 DEF Pairing, StartQR, publishQRCode, EndQR, ReleaseQR, Scan
<1>4. CASE Serve
  BY <1>4 DEF Serve
<1>5. CASE Crash
  BY <1>5 DEF Crash
<1>6. CASE UNCHANGED serving
  BY <1>6 DEF Shape, TypeOK
<1> QED
  BY <1>1, <1>2, <1>3, <1>4, <1>5, <1>6
     DEF Next, vars, NetDown, NetUp, Unlink, StreamReplaced, Login, LoadAllDevices, Visit, StoreLoaded, RecordLoaded

LEMMA ShapeStep == ASSUME Shape, [Next]_vars PROVE Shape'
<1>1. ClientsKept /\ RowsKept /\ TasksKept /\ SessionsKept /\ OutKept /\ ReqsKept /\ AttsKept /\ QRKept /\ LoaderKept
  BY ClientStep, RowStep, TaskStep, SessionStep, OutStep, ReqStep, AttStep, QRStep, LoaderStep
<1>2. unserved' \subseteq Instances /\ left' \in LeftType /\ loggingOut' \subseteq Instances /\ outrun' \subseteq Attempts
  BY RowStep, LeftStep, FlagsStep
<1>3. serving' \in BOOLEAN
  BY ServingStep
<1>4. TypeOK'
  BY <1>1, <1>2, <1>3 DEF TypeOK, ClientsKept, RowsKept, TasksKept, SessionsKept, OutKept, ReqsKept, AttsKept, QRKept,
         LoaderKept, LeftType, Client, Row, Tasks, Req, Att
<1>5. Owned'
  BY <1>1 DEF Owned, Made, HasID, ClientsKept, RowsKept, TasksKept, SessionsKept, OutKept, ReqsKept, AttsKept, QRKept,
         LoaderKept
<1> QED BY <1>1, <1>4, <1>5 DEF Shape, LoaderKept

\* The types of the tables and maps, and that what a session, a handler, a
\* request or an attempt is about exists.
THEOREM SessionsTypeCorrect == Spec => []TypeOK
<1>1. Shape => TypeOK
  BY DEF Shape
<1> QED BY <1>1, ShapeInit, ShapeStep, PTL DEF Spec

-----------------------------------------------------------------------------
(***************************************************************************)
(* The pairing attempts.  Two of an instance that run at the same time are *)
(* both told so, whichever of them the map names by then: the clean-up of  *)
(* one may remove the other's slot, and a third attempt may take it.       *)
(***************************************************************************)
Runs(a) == att[a].pc \in {"start", "listen", "end"}

SlotInv ==
    /\ \A i \in Instances : qr[i] # None => Runs(qr[i]) /\ att[qr[i]].i = i
    /\ \A a \in Attempts : Runs(a) => qr[att[a].i] = a \/ a \in outrun
    /\ \A a, b \in Attempts : Runs(a) /\ Runs(b) /\ a # b /\ att[a].i = att[b].i => a \in outrun

LEMMA SlotSame ==
  ASSUME Shape, SlotInv, UNCHANGED <<qr, outrun>>,
         \A a \in Attempts : (att'[a].pc \in {"start", "listen", "end"} <=> Runs(a)) /\ (Runs(a) => att'[a].i = att[a].i)
  PROVE  SlotInv'
<1>1. \A i \in Instances : qr[i] \in Attempts \cup {None}
  BY DEF Shape, TypeOK
<1> QED BY <1>1 DEF SlotInv, Runs

LEMMA SlotStep == ASSUME Shape, SlotInv, [Next]_vars PROVE SlotInv'
<1>1. CASE UNCHANGED <<qr, outrun, att>>
  BY <1>1, SlotSame DEF Runs
<1>2. ASSUME NEW p \in Callers, NEW i \in Instances, CancelQR(p, i), qr[i] # None PROVE SlotInv'
  <2> DEFINE a == qr[i]
             r == [att[a] EXCEPT !.cancelled = TRUE]
  <2>1. a \in Attempts /\ UNCHANGED <<qr, outrun>>
    BY <1>2 DEF Shape, TypeOK, CancelQR, history
  <2>2. att[a] \in Att
    BY <2>1, AttType
  <2>3. r \in Att /\ r.i = att[a].i /\ r.pc = att[a].pc
    BY <2>2 DEF Att
  <2>4. att' = [att EXCEPT ![a] = r]
    BY <1>2 DEF CancelQR
  <2> HIDE DEF r, a
  <2> QED BY <2>1, <2>3, <2>4, AttEdit, SlotSame DEF Runs
<1>3. ASSUME NEW a \in Attempts, Runs(a), NEW pc \in {"listen", "end"}, Attempt(a, pc), UNCHANGED <<qr, outrun>>
      PROVE  SlotInv'
  <2> DEFINE r == [att[a] EXCEPT !.pc = pc]
  <2>1. att[a] \in Att
    BY AttType
  <2>2. r \in Att /\ r.i = att[a].i /\ r.pc = pc
    BY <2>1 DEF Att
  <2>3. att' = [att EXCEPT ![a] = r]
    BY <1>3 DEF Attempt
  <2> HIDE DEF r
  <2> QED BY <1>3, <2>2, <2>3, AttEdit, SlotSame DEF Runs
<1>4. ASSUME NEW a \in Attempts, StartQR(a) \/ EndQR(a) PROVE SlotInv'
  BY <1>3, <1>4 DEF StartQR, EndQR, Runs, history
<1>5. ASSUME NEW p \in Callers, NEW a \in Attempts, RegisterQR(p, a) PROVE SlotInv'
  <2> DEFINE i == req[p].i
             c == req[p].c
             r == [NoAttempt EXCEPT !.i = i, !.c = c, !.pc = "start"]
  <2>1. i \in Instances /\ Made(c) /\ a \in Unused
    BY <1>5 DEF RegisterQR, Shape, Owned
  <2>2. r \in Att /\ r.i = i /\ r.pc = "start"
    BY <2>1 DEF Att, NoAttempt, Made
  <2>3. att' = [att EXCEPT ![a] = r] /\ qr' = [qr EXCEPT ![i] = a]
        /\ outrun' = IF Running(i) = {} THEN outrun ELSE outrun \cup Running(i) \cup {a}
    BY <1>5 DEF RegisterQR
  <2>4. Running(i) = {b \in Attempts : att[b].i = i /\ Runs(b)} /\ ~Runs(a)
    BY <2>1 DEF Running, Runs, Unused, NoAttempt
  <2> HIDE DEF r, i, c
  <2>5. att'[a] = r /\ \A b \in Attempts \ {a} : att'[b] = att[b]
    BY <2>2, <2>3, AttEdit
  <2>6. qr'[i] = a /\ (\A j \in Instances \ {i} : qr'[j] = qr[j]) /\ \A j \in Instances : qr[j] \in Attempts \cup {None}
    BY <2>1, <2>3 DEF Shape, TypeOK
  <2>7. \A b \in Attempts : Runs(b) /\ att[b].i = i => b \in outrun' /\ a \in outrun'
    BY <2>3, <2>4
  <2>8. outrun \subseteq outrun'
    BY <2>3
  <2>9. ASSUME NEW j \in Instances, qr'[j] # None
        PROVE  att'[qr'[j]].pc \in {"start", "listen", "end"} /\ att'[qr'[j]].i = j
    <3>1. CASE j = i
      BY <2>2, <2>5, <2>6, <3>1
    <3>2. CASE j # i
      <4>1. qr'[j] = qr[j] /\ qr[j] \in Attempts /\ Runs(qr[j]) /\ att[qr[j]].i = j
        BY <2>6, <2>9, <3>2 DEF SlotInv
      <4> QED BY <2>4, <2>5, <4>1 DEF Runs
    <3> QED BY <3>1, <3>2
  <2>10. ASSUME NEW b \in Attempts, att'[b].pc \in {"start", "listen", "end"}
         PROVE  qr'[att'[b].i] = b \/ b \in outrun'
    <3>1. CASE b = a
      BY <2>2, <2>5, <2>6, <3>1
    <3>2. CASE b # a
      <4>1. att'[b] = att[b] /\ Runs(b) /\ att[b].i \in Instances
        BY <2>5, <2>10, <3>2, AttType DEF Runs
      <4> QED BY <2>6, <2>7, <2>8, <4>1 DEF SlotInv
    <3> QED BY <3>1, <3>2
  <2>11. ASSUME NEW b \in Attempts, NEW d \in Attempts, b # d, att'[b].i = att'[d].i,
                att'[b].pc \in {"start", "listen", "end"}, att'[d].pc \in {"start", "listen", "end"}
         PROVE  b \in outrun'
    <3>1. CASE b = a
      BY <2>2, <2>5, <2>7, <2>11, <3>1 DEF Runs
    <3>2. CASE d = a
      BY <2>2, <2>5, <2>7, <2>11, <3>2 DEF Runs
    <3>3. CASE b # a /\ d # a
      BY <2>5, <2>8, <2>11, <3>3 DEF Runs, SlotInv
    <3> QED BY <3>1, <3>2, <3>3
  <2> QED BY <2>9, <2>10, <2>11 DEF SlotInv, Runs
<1>6. ASSUME NEW a \in Attempts, ReleaseQR(a) PROVE SlotInv'
  <2> DEFINE i == att[a].i
             r == [att[a] EXCEPT !.pc = "done"]
  <2>1. att[a] \in Att /\ i \in Instances /\ Runs(a)
    BY <1>6, AttType DEF ReleaseQR, Runs
  <2>2. r \in Att /\ r.i = i /\ r.pc = "done"
    BY <2>1 DEF Att
  <2>3. att' = [att EXCEPT ![a] = r] /\ qr' = [qr EXCEPT ![i] = None] /\ UNCHANGED outrun
    BY <1>6 DEF ReleaseQR, Attempt, history
  <2> HIDE DEF r, i
  <2>4. att'[a] = r /\ \A b \in Attempts \ {a} : att'[b] = att[b]
    BY <2>2, <2>3, AttEdit
  <2>5. qr'[i] = None /\ (\A j \in Instances \ {i} : qr'[j] = qr[j]) /\ \A j \in Instances : qr[j] \in Attempts \cup {None}
    BY <2>1, <2>3 DEF Shape, TypeOK
  <2>6. ASSUME NEW j \in Instances, qr'[j] # None
        PROVE  att'[qr'[j]].pc \in {"start", "listen", "end"} /\ att'[qr'[j]].i = j
    <3>1. j # i /\ qr'[j] = qr[j] /\ qr[j] \in Attempts /\ Runs(qr[j]) /\ att[qr[j]].i = j
      BY <2>5, <2>6 DEF SlotInv
    <3>2. qr[j] # a
      BY <3>1 DEF i
    <3> QED BY <2>4, <3>1, <3>2 DEF Runs
  <2>7. ASSUME NEW b \in Attempts, att'[b].pc \in {"start", "listen", "end"}
        PROVE  b # a /\ att'[b] = att[b] /\ Runs(b) /\ att[b].i \in Instances
    BY <2>2, <2>4, <2>7, AttType DEF Runs
  <2>8. ASSUME NEW b \in Attempts, att'[b].pc \in {"start", "listen", "end"}
        PROVE  qr'[att'[b].i] = b \/ b \in outrun'
    <3>1. CASE att[b].i = i
      BY <2>1, <2>3, <2>7, <2>8, <3>1 DEF SlotInv, i
    <3>2. CASE att[b].i # i
      BY <2>3, <2>5, <2>7, <2>8, <3>2 DEF SlotInv
    <3> QED BY <3>1, <3>2
  <2>9. ASSUME NEW b \in Attempts, NEW d \in Attempts, b # d, att'[b].i = att'[d].i,
               att'[b].pc \in {"start", "listen", "end"}, att'[d].pc \in {"start", "listen", "end"}
        PROVE  b \in outrun'
    BY <2>3, <2>7, <2>9 DEF SlotInv
  <2> QED BY <2>6, <2>8, <2>9 DEF SlotInv, Runs
<1>7. CASE Crash
  <2>1. ASSUME NEW a \in Attempts PROVE att'[a].pc \in {"new", "done"}
    <3> DEFINE r == [att[a] EXCEPT !.pc = "done"]
    <3>1. att'[a] = IF a \in Unused THEN NoAttempt ELSE r
      BY <1>7 DEF Crash
    <3>2. att[a] \in Att
      BY AttType
    <3>3. r.pc = "done" /\ NoAttempt.pc = "new"
      BY <3>2 DEF Att, NoAttempt
    <3> HIDE DEF r
    <3> QED BY <3>1, <3>3
  <2> QED BY <1>7, <2>1 DEF Crash, SlotInv, Runs
<1> QED
  BY <1>1, <1>2, <1>4, <1>5, <1>6, <1>7
     DEF Next, vars, history, NetDown, NetUp, Unlink, StreamReplaced, Handle, Check, MarkConnected, RecordConnected, MarkDisconnected,
         RecordDisconnected, CloseLoggedOut, RecordLoggedOut, RemoveLoggedOut, Login, Request, CheckQR, QRSession,
         CancelQR, SetFlag, TakeSession, LogoutClient, RecordLogout, ClearFlag, ReadRow, DropClient,
         DeleteSessionFromMemory, DeleteRow, Pairing, publishQRCode, Scan, LoadAllDevices, Visit,
         StoreLoaded, RecordLoaded, Serve

\* A slot never outlives its attempt (runQRGeneration), and an attempt that runs
\* is the one DELETE /qr cancels, unless another one of the instance ran at the
\* same time (GetQR).
THEOREM SlotMatchesAttemptHolds == Spec => []SlotMatchesAttempt
<1>1. Init => SlotInv
  BY DEF Init, SlotInv, Runs, NoAttempt
<1>2. SlotInv => SlotMatchesAttempt
  BY DEF SlotInv, Runs, SlotMatchesAttempt
<1> QED BY <1>1, <1>2, ShapeInit, ShapeStep, SlotStep, PTL DEF Spec

-----------------------------------------------------------------------------
(***************************************************************************)
(* Logouts.  A client that was logged out has no device any more, unless   *)
(* WhatsApp could not be told; a request is about a client that its        *)
(* instance no longer has; and a restart loads paired devices only.        *)
(***************************************************************************)
OutInv ==
    /\ \A c \in out : c \in kept \/ client[c].dev = "none"
    /\ \A p \in Callers : req[p].pc = "unlink" => sessions[req[p].i] # req[p].c
    /\ \A c \in out : c \in loader.todo \/ (loader.pc = "store" /\ loader.at = c) => c \in kept
    /\ LogoutIsFinal

\* Whoever removes an entry: the request goes on, or the row is known not to be served.
Removed(i) ==
    \/ \E p \in Callers : req'[p].i = i /\ req'[p].pc \in {"unlink", "row"}
    \/ row'[i].status = "online" => i \in unserved'

\* How the map changes: an entry is removed, is made for a new client, or is loaded.
SessionsMove ==
    \A i \in Instances :
       \/ sessions'[i] = sessions[i]
       \/ sessions'[i] = None /\ Removed(i)
       \/ serving /\ sessions[i] = None /\ sessions'[i] \in Clients /\ ~Made(sessions'[i])
       \/ loader.pc = "store" /\ i = client[loader.at].i /\ sessions'[i] = loader.at

LEMMA SessionsMoved == ASSUME Shape, [Next]_vars PROVE SessionsMove
<1>0. sessions \in [Instances -> Clients \cup {None}]
  BY DEF Shape, TypeOK
<1>1. ASSUME serving, NEW i \in Instances, NEW c \in Clients, CreateSession(i, c) PROVE SessionsMove
  <2>1. ~Made(c)
    BY <1>1, ClientCreated
  <2>2. sessions[i] = None /\ sessions' = [sessions EXCEPT ![i] = c]
    BY <1>1 DEF CreateSession
  <2> QED BY <1>0, <1>1, <2>1, <2>2 DEF SessionsMove
<1>2. ASSUME NEW p \in Callers, QRSession(p) PROVE SessionsMove
  <2>1. req[p].i \in Instances /\ serving
    BY <1>2, RequestServed DEF QRSession, Request, Shape, Owned
  <2>2. CASE UNCHANGED sessions
    BY <2>2 DEF SessionsMove
  <2> QED BY <1>1, <1>2, <2>1, <2>2 DEF QRSession, Fresh
<1>3. ASSUME NEW i, sessions' = [sessions EXCEPT ![i] = None], i \in Instances => Removed(i) PROVE SessionsMove
  BY <1>0, <1>3 DEF SessionsMove
<1>4. ASSUME NEW p \in Callers, TakeSession(p) PROVE SessionsMove
  <2>0. CASE UNCHANGED sessions
    BY <2>0 DEF SessionsMove
  <2> SUFFICES ASSUME ~UNCHANGED sessions PROVE SessionsMove
    BY <2>0
  <2> DEFINE s == sessions[req[p].i]
             r == [req[p] EXCEPT !.pc = "unlink", !.c = s]
  <2>1. s # None
    BY <1>0, <1>4 DEF TakeSession
  <2>2. req' = [req EXCEPT ![p] = r]
    BY <1>4, <2>1 DEF TakeSession
  <2>3. r.i = req[p].i /\ r.pc = "unlink"
    BY ReqType DEF Req
  <2> HIDE DEF r, s
  <2>4. req'[p] = r
    BY <2>2 DEF Shape, TypeOK
  <2>5. Removed(req[p].i)
    BY <2>3, <2>4 DEF Removed
  <2> QED BY <1>3, <1>4, <2>5 DEF TakeSession
<1>5. ASSUME NEW p \in Callers, DeleteSessionFromMemory(p) PROVE SessionsMove
  <2> DEFINE r == [req[p] EXCEPT !.pc = "row"]
  <2>1. req' = [req EXCEPT ![p] = r]
    BY <1>5 DEF DeleteSessionFromMemory, Step
  <2>2. r.i = req[p].i /\ r.pc = "row"
    BY ReqType DEF Req
  <2> HIDE DEF r
  <2>3. req'[p] = r
    BY <2>1 DEF Shape, TypeOK
  <2>4. Removed(req[p].i)
    BY <2>2, <2>3 DEF Removed
  <2> QED BY <1>3, <1>5, <2>4 DEF DeleteSessionFromMemory
<1>6. ASSUME NEW t \in tasks, RemoveLoggedOut(t) PROVE SessionsMove
  BY <1>3, <1>6 DEF RemoveLoggedOut, Removed
<1>7. CASE StoreLoaded
  <2>1. sessions' = [sessions EXCEPT ![client[loader.at].i] = loader.at] /\ loader.pc = "store"
    BY <1>7 DEF StoreLoaded
  <2> QED BY <1>0, <2>1 DEF SessionsMove
<1>8. CASE Crash
  <2>1. sessions' = [i \in Instances |-> None] /\ UNCHANGED row
        /\ unserved' = unserved \cup {i \in Instances : row[i].status = "online"}
    BY <1>8 DEF Crash
  <2>2. ASSUME NEW i \in Instances PROVE sessions'[i] = None /\ Removed(i)
    BY <2>1 DEF Removed
  <2> QED BY <2>2 DEF SessionsMove
<1>9. CASE UNCHANGED sessions
  BY <1>9 DEF SessionsMove
<1>10. ASSUME NEW i \in Instances, NEW c \in Clients, Login(i, c) PROVE SessionsMove
  BY <1>1, <1>10 DEF Login
<1>11. ASSUME NEW p \in Callers, Request(p) PROVE SessionsMove
  BY <1>2, <1>4, <1>5, <1>9, <1>11 DEF Request, CheckQR, RegisterQR, CancelQR, SetFlag, LogoutClient, RecordLogout,
        ClearFlag, ReadRow, DropClient, DeleteRow
<1>12. ASSUME NEW t \in tasks, Handle(t) PROVE SessionsMove
  BY <1>6, <1>9, <1>12 DEF Handle, Check, MarkConnected, RecordConnected, MarkDisconnected, RecordDisconnected,
        CloseLoggedOut, RecordLoggedOut
<1> QED
  BY <1>7, <1>8, <1>9, <1>10, <1>11, <1>12
     DEF Next, vars, NetDown, NetUp, Unlink, StreamReplaced, Pairing, StartQR, publishQRCode, EndQR, ReleaseQR, Scan, LoadAllDevices,
         Visit, RecordLoaded, Serve

\* A client leaves out and kept together, by a scan, and is added by its logout.
OutMove ==
    \A c \in Clients :
       /\ c \in out' /\ c \notin out => /\ \E p \in Callers : req[p].pc = "unlink" /\ req[p].c = c
                                        /\ c \in kept' \/ client'[c].dev = "none"
       /\ c \in out' /\ c \in kept => c \in kept'

LEMMA OutMoved == ASSUME Shape, [Next]_vars PROVE OutMove
<1>2. ASSUME UNCHANGED <<out, kept>> PROVE OutMove
  BY <1>2 DEF OutMove
<1>3. ASSUME NEW p \in Callers, LogoutClient(p) PROVE OutMove
  <2> DEFINE c == req[p].c
             n == [client[c] EXCEPT !.dev = "none", !.sock = "off"]
             o == [client[c] EXCEPT !.sock = "off"]
  <2>1. out' = out \cup {c} /\ kept \subseteq kept' /\ req[p].pc = "unlink"
    BY <1>3 DEF LogoutClient
  <2>2. c \in Clients
    BY <1>3 DEF LogoutClient, Shape, Owned, Made
  <2>3. n.dev = "none" /\ o.dev = client[c].dev
    BY <2>2, ClientType DEF Client
  <2>4. client' = [client EXCEPT ![c] = n] \/ (client' = [client EXCEPT ![c] = o] /\ (HasID(c) => c \in kept'))
    BY <1>3 DEF LogoutClient
  <2> HIDE DEF n, o
  <2>5. client'[c] = n \/ (client'[c] = o /\ (HasID(c) => c \in kept'))
    BY <2>2, <2>4 DEF Shape, TypeOK
  <2> HIDE DEF c
  <2> QED BY <2>1, <2>3, <2>5 DEF OutMove, HasID, c
<1>4. ASSUME NEW a \in Attempts, Scan(a) PROVE OutMove
  <2>1. out' = out \ {att[a].c} /\ kept' = kept \ {att[a].c}
    BY <1>4 DEF Scan
  <2> QED BY <2>1 DEF OutMove
<1> QED
  BY <1>2, <1>3, <1>4
     DEF Next, vars, history, NetDown, NetUp, Unlink, StreamReplaced, Handle, Check, MarkConnected, RecordConnected, MarkDisconnected,
         RecordDisconnected, CloseLoggedOut, RecordLoggedOut, RemoveLoggedOut, Login, Request, CheckQR, QRSession,
         RegisterQR, CancelQR, SetFlag, TakeSession, RecordLogout, ClearFlag, ReadRow, DropClient,
         DeleteSessionFromMemory, DeleteRow, Pairing, StartQR, publishQRCode, EndQR, ReleaseQR, LoadAllDevices,
         Visit, StoreLoaded, RecordLoaded, Serve, Crash

\* The loader's devices are those that were paired at the crash.
LoaderMove ==
    \A c \in Clients :
       c \in loader'.todo \/ (loader'.pc = "store" /\ loader'.at = c) =>
          \/ c \in loader.todo \/ (loader.pc = "store" /\ loader.at = c)
          \/ client[c].dev = "paired" /\ UNCHANGED <<out, kept>>

LEMMA LoaderMoved == ASSUME Shape, [Next]_vars PROVE LoaderMove
<1>0. loader \in [todo : SUBSET Clients, at : Clients \cup {None}, pc : {"next", "store", "record", "done"}]
  BY DEF Shape, TypeOK
<1>1. CASE UNCHANGED loader
  BY <1>1 DEF LoaderMove
<1>2. ASSUME NEW c \in Clients, Visit(c) PROVE LoaderMove
  <2>1. \/ loader' = [loader EXCEPT !.todo = loader.todo \ {c}]
        \/ loader' = [todo |-> loader.todo \ {c}, at |-> c, pc |-> "store"] /\ c \in loader.todo
    BY <1>2 DEF Visit
  <2> QED BY <1>0, <2>1 DEF LoaderMove
<1>3. ASSUME NEW pc \in {"record", "next", "done"}, loader' = [loader EXCEPT !.pc = pc] PROVE LoaderMove
  BY <1>0, <1>3 DEF LoaderMove
<1>4. CASE StoreLoaded \/ RecordLoaded \/ Serve
  BY <1>3, <1>4 DEF StoreLoaded, RecordLoaded, Serve
<1>5. CASE Crash
  BY <1>5 DEF Crash, LoaderMove
<1>6. ASSUME NEW p \in Callers, Request(p) PROVE UNCHANGED loader
  BY <1>6 DEF Request, CheckQR, QRSession, RegisterQR, CancelQR, SetFlag, TakeSession, LogoutClient,
              RecordLogout, ClearFlag, ReadRow, DropClient, DeleteSessionFromMemory, DeleteRow
<1> QED
  BY <1>1, <1>2, <1>4, <1>5, <1>6
     DEF Next, vars, NetDown, NetUp, Unlink, StreamReplaced, Handle, Check, MarkConnected, RecordConnected, MarkDisconnected,
         RecordDisconnected, CloseLoggedOut, RecordLoggedOut, RemoveLoggedOut, Login, Pairing, StartQR,
         publishQRCode, EndQR, ReleaseQR, Scan, LoadAllDevices

\* A request about a client it has taken either went on with it or has just taken it
\* from the map.
ReqMove ==
    \A p \in Callers :
       req'[p].pc = "unlink" =>
          \/ req'[p] = req[p]
          \/ sessions' = [sessions EXCEPT ![req'[p].i] = None]

LEMMA ReqMoved == ASSUME Shape, [Next]_vars PROVE ReqMove
<1>0. req \in [Callers -> Req]
  BY DEF Shape, TypeOK, Req
<1>1. ASSUME NEW p \in Callers, NEW r \in Req, req' = [req EXCEPT ![p] = r], r.pc # "unlink" PROVE ReqMove
  BY <1>1, ReqEdit DEF ReqMove
<1>2. ASSUME NEW p \in Callers, Answer(p) PROVE ReqMove
  <2>1. Idle \in Req /\ Idle.pc # "unlink"
    BY DEF Idle, Req
  <2> QED BY <1>1, <1>2, <2>1 DEF Answer
<1>3. ASSUME NEW p \in Callers, NEW pc \in {"record", "clear", "forget", "row"}, Step(p, pc) PROVE ReqMove
  <2> DEFINE r == [req[p] EXCEPT !.pc = pc]
  <2>1. r \in Req /\ r.pc = pc
    BY ReqType DEF Req
  <2>2. req' = [req EXCEPT ![p] = r]
    BY <1>3 DEF Step
  <2> HIDE DEF r
  <2> QED BY <1>1, <2>1, <2>2
<1>4. ASSUME NEW p \in Callers, NEW i \in Instances, NEW pc \in {"session", "take", "drop"}, Goes(p, i, pc) PROVE ReqMove
  <2> DEFINE r == [i |-> i, c |-> None, pc |-> pc]
  <2>1. r \in Req /\ r.pc = pc
    BY DEF Req
  <2>2. req' = [req EXCEPT ![p] = r]
    BY <1>4 DEF Goes
  <2> HIDE DEF r
  <2> QED BY <1>1, <2>1, <2>2
<1>5. ASSUME NEW p \in Callers, NEW c \in Clients, req' = [req EXCEPT ![p].pc = "register", ![p].c = c] PROVE ReqMove
  <2> DEFINE r == [req[p] EXCEPT !.pc = "register", !.c = c]
  <2>1. r \in Req /\ r.pc = "register"
    BY ReqType DEF Req
  <2>2. req' = [req EXCEPT ![p] = r]
    BY <1>5
  <2> HIDE DEF r
  <2> QED BY <1>1, <2>1, <2>2
<1>6. ASSUME NEW p \in Callers, QRSession(p) PROVE ReqMove
  <2>1. req[p].i \in Instances
    BY <1>6, ReqType DEF QRSession
  <2>2. sessions[req[p].i] # None => sessions[req[p].i] \in Clients
    BY <2>1 DEF Shape, TypeOK
  <2> QED BY <1>2, <1>5, <1>6, <2>2 DEF QRSession, Fresh
<1>7. ASSUME NEW p \in Callers, TakeSession(p) PROVE ReqMove
  <2> DEFINE i == req[p].i
             s == sessions[i]
             pc == IF s = None THEN "clear" ELSE "unlink"
             r == [req[p] EXCEPT !.pc = pc, !.c = s]
  <2>1. i \in Instances
    BY <1>7, ReqType DEF TakeSession
  <2>2. s \in Clients \cup {None}
    BY <2>1 DEF Shape, TypeOK
  <2>3. r \in Req /\ r.i = i
    BY <2>2, ReqType DEF Req
  <2>4. req' = [req EXCEPT ![p] = r] /\ sessions' = [sessions EXCEPT ![i] = None]
    BY <1>7 DEF TakeSession
  <2> HIDE DEF i, s, r
  <2> QED BY <2>3, <2>4, ReqEdit DEF ReqMove
<1>8. ASSUME NEW p \in Callers, Request(p) PROVE ReqMove
  <2>1. CASE QRSession(p) \/ TakeSession(p)
    BY <1>6, <1>7, <2>1
  <2>2. CASE \E i \in Instances : CheckQR(p, i) \/ CancelQR(p, i) \/ SetFlag(p, i) \/ ReadRow(p, i)
    BY <1>2, <1>4, <2>2 DEF CheckQR, CancelQR, SetFlag, ReadRow
  <2>3. CASE (\E a \in Attempts : RegisterQR(p, a)) \/ ClearFlag(p) \/ DeleteRow(p)
    BY <1>2, <2>3 DEF RegisterQR, ClearFlag, DeleteRow
  <2>4. CASE LogoutClient(p) \/ RecordLogout(p) \/ DropClient(p) \/ DeleteSessionFromMemory(p)
    BY <1>2, <1>3, <2>4 DEF LogoutClient, RecordLogout, DropClient, DeleteSessionFromMemory
  <2> QED BY <1>8, <2>1, <2>2, <2>3, <2>4 DEF Request
<1>9. CASE Crash
  BY <1>9 DEF Crash, Idle, ReqMove
<1>10. CASE UNCHANGED req
  BY <1>10 DEF ReqMove
<1> QED
  BY <1>8, <1>9, <1>10
     DEF Next, vars, NetDown, NetUp, Unlink, StreamReplaced, Handle, Check, MarkConnected, RecordConnected, MarkDisconnected,
         RecordDisconnected, CloseLoggedOut, RecordLoggedOut, RemoveLoggedOut, Login, Pairing, StartQR, publishQRCode,
         EndQR, ReleaseQR, Scan, LoadAllDevices, Visit, StoreLoaded, RecordLoaded, Serve

LEMMA OutInvStep == ASSUME Shape, OutInv, [Next]_vars PROVE OutInv'
<1>0. SessionsMove /\ OutMove /\ LoaderMove /\ ReqMove /\ ClientsServe
  BY SessionsMoved, OutMoved, LoaderMoved, ReqMoved, ClientStep
<1>1. /\ sessions \in [Instances -> Clients \cup {None}] /\ out \subseteq Clients
      /\ \A c \in out : Made(c)
      /\ \A i \in Instances : sessions[i] # None => client[sessions[i]].i = i
      /\ \A p \in Callers : req[p].pc = "unlink" => /\ req[p].i \in Instances /\ Made(req[p].c)
                                                    /\ client[req[p].c].i = req[p].i
                                                    /\ loader.pc = "done" /\ loader.todo = {}
  BY DEF Shape, TypeOK, Owned, Loading
<1>2. Shape'
  BY ShapeStep
<1>3. ASSUME NEW c \in out' PROVE c \in Clients /\ \A a \in Attempts : Scan(a) => att[a].c # c
  BY <1>2, <1>3 DEF Shape, TypeOK, Scan
<1>4. ASSUME NEW c \in out' PROVE c \in kept' \/ client'[c].dev = "none"
  BY <1>0, <1>3, <1>4 DEF OutInv, OutMove, ClientsServe
<1>5. ASSUME NEW p \in Callers, req'[p].pc = "unlink" PROVE sessions'[req'[p].i] # req'[p].c
  <2>1. req'[p].i \in Instances /\ req'[p].c \in Clients
    BY <1>2, <1>5 DEF Shape, Owned, Made
  <2>2. req'[p].c # None
    BY <2>1, SessionAssumption
  <2>3. CASE sessions' = [sessions EXCEPT ![req'[p].i] = None]
    BY <1>1, <2>1, <2>2, <2>3
  <2>4. CASE req'[p] = req[p]
    <3>1. req[p].pc = "unlink" /\ sessions[req[p].i] # req[p].c /\ Made(req[p].c) /\ req[p].i \in Instances
          /\ loader.pc = "done"
      BY <1>1, <1>5, <2>4 DEF OutInv
    <3> QED BY <1>0, <2>2, <2>4, <3>1 DEF SessionsMove
  <2> QED BY <1>0, <1>5, <2>3, <2>4 DEF ReqMove
<1>6. ASSUME NEW c \in out', c \in loader'.todo \/ (loader'.pc = "store" /\ loader'.at = c) PROVE c \in kept'
  <2>1. CASE c \in out /\ (c \in loader.todo \/ (loader.pc = "store" /\ loader.at = c))
    BY <1>0, <1>3, <2>1 DEF OutInv, OutMove
  <2>2. CASE c \notin out /\ (c \in loader.todo \/ (loader.pc = "store" /\ loader.at = c))
    BY <1>0, <1>1, <1>3, <2>2 DEF OutMove
  <2>3. CASE client[c].dev = "paired" /\ UNCHANGED <<out, kept>>
    BY <1>6, <2>3 DEF OutInv
  <2> QED BY <1>0, <1>3, <1>6, <2>1, <2>2, <2>3 DEF LoaderMove
<1>7. ASSUME NEW i \in Instances, sessions'[i] \in out' PROVE sessions'[i] \in kept'
  <2> DEFINE c == sessions'[i]
  <2>1. c \in Clients /\ c # None
    BY <1>3, <1>7, SessionAssumption
  <2>2. ASSUME c \notin out PROVE c \in kept'
    <3>1. PICK p \in Callers : req[p].pc = "unlink" /\ req[p].c = c
      BY <1>0, <1>7, <2>1, <2>2 DEF OutMove
    <3>2. sessions[i] # c
      <4>1. req[p].i = client[c].i /\ sessions[req[p].i] # c
        BY <1>1, <3>1 DEF OutInv
      <4> QED BY <1>1, <2>1, <4>1
    <3>3. Made(c) /\ loader.pc = "done"
      BY <1>1, <3>1
    <3> QED BY <1>0, <2>1, <3>2, <3>3 DEF SessionsMove
  <2>3. ASSUME c \in out PROVE c \in kept'
    <3>1. c \in kept
      <4>1. Made(c)
        BY <1>1, <2>3
      <4> QED BY <1>0, <2>1, <2>3, <4>1 DEF SessionsMove, OutInv, LogoutIsFinal
    <3> QED BY <1>0, <1>7, <2>1, <3>1 DEF OutMove
  <2> QED BY <2>2, <2>3
<1> QED BY <1>4, <1>5, <1>6, <1>7 DEF OutInv, LogoutIsFinal

\* A device that a logout request removed (DeleteSession) does not serve its instance
\* again, not even after a restart (LoadAllDevices), unless WhatsApp could not be told.
THEOREM LogoutIsFinalHolds == Spec => []LogoutIsFinal
<1>1. Init => OutInv
  BY DEF Init, OutInv, LogoutIsFinal, Idle
<1>2. OutInv => LogoutIsFinal
  BY DEF OutInv
<1> QED BY <1>1, <1>2, ShapeInit, ShapeStep, OutInvStep, PTL DEF Spec

-----------------------------------------------------------------------------
(***************************************************************************)
(* What the database calls online.  While a restarted server loads its     *)
(* devices, everything that connects is the device its row names, so that  *)
(* the loader never replaces a session by another one.                     *)
(***************************************************************************)
Restarting ==
    ~serving =>
       /\ \A a \in Attempts : ~Runs(a)
       /\ \A c \in Clients : client[c].sock # "off" => row[client[c].i].jid = c
       /\ \A t \in tasks : t.kind = "connected" => row[client[t.c].i].jid = t.c
       /\ \A i \in Instances : sessions[i] # None => row[i].jid = sessions[i]
       /\ loader.pc \in {"store", "record"} => row[client[loader.at].i].jid = loader.at

\* A statement that writes the device the row has already.
LEMMA SetJid ==
  ASSUME Shape, NEW i \in Instances, NEW status, NEW connected, Set(i, status, connected, row[i].jid)
  PROVE  \A j \in Instances : row'[j].jid = row[j].jid
BY DEF Set, Shape, TypeOK

LEMMA JidKept ==
  ASSUME Shape, Restarting, ~serving, [Next]_vars PROVE \A i \in Instances : row'[i].jid = row[i].jid
<1>1. CASE UNCHANGED row
  BY <1>1
<1>2. ASSUME NEW t \in tasks, Handle(t) PROVE \A i \in Instances : row'[i].jid = row[i].jid
  <2>1. client[t.c].i \in Instances
    BY DEF Shape, Owned, Made
  <2>2. CASE RecordConnected(t) /\ ~UNCHANGED row
    <3>1. Set(client[t.c].i, "online", TRUE, t.c) /\ t.kind = "connected"
      BY <2>2 DEF RecordConnected, UpdateInstanceOnConnected, Fails
    <3>2. row[client[t.c].i].jid = t.c
      BY <3>1 DEF Restarting
    <3> QED BY <2>1, <3>1, <3>2, SetJid
  <2>3. CASE RecordDisconnected(t) \/ RecordLoggedOut(t)
    BY <2>1, <2>3, SetJid DEF RecordDisconnected, RecordLoggedOut, UpdateInstanceOnDisconnected,
                              UpdateInstanceOnLoggedOut, Fails
  <2> QED
    BY <1>1, <1>2, <2>2, <2>3 DEF Handle, Check, MarkConnected, MarkDisconnected, CloseLoggedOut, RemoveLoggedOut
<1>3. CASE RecordLoaded
  <2>1. client[loader.at].i \in Instances /\ row[client[loader.at].i].jid = loader.at
    BY <1>3 DEF RecordLoaded, Restarting, Shape, Owned, Made
  <2> QED BY <1>3, <2>1, SetJid DEF RecordLoaded, UpdateInstanceOnConnected, Fails
<1>4. ASSUME NEW a \in Attempts PROVE ~publishQRCode(a) /\ ~Scan(a)
  BY DEF Restarting, Runs, publishQRCode, Scan
<1> QED
  BY <1>1, <1>2, <1>3, <1>4, RequestServed
     DEF Next, vars, NetDown, NetUp, Unlink, StreamReplaced, Login, Pairing, StartQR, EndQR, ReleaseQR, LoadAllDevices, Visit,
         StoreLoaded, Serve, Crash

\* A client is connected by its attempt, or by the loader, whose rows name it.
SockMove ==
    \A c \in Clients :
       client'[c].sock # "off" =>
          \/ client[c].sock # "off"
          \/ \E a \in Attempts : Runs(a)
          \/ \E i \in Instances : row[i].jid = c

LEMMA SockWritten ==
  ASSUME Shape, NEW c \in Clients, NEW r, client' = [client EXCEPT ![c] = r],
         r.sock # "off" => client[c].sock # "off" \/ (\E a \in Attempts : Runs(a)) \/ \E i \in Instances : row[i].jid = c
  PROVE  SockMove
BY DEF Shape, TypeOK, SockMove

LEMMA SockMoved == ASSUME Shape, [Next]_vars PROVE SockMove
<1>0. client \in [Clients -> Client]
  BY DEF Shape, TypeOK, Client
<1>1. ASSUME UNCHANGED client PROVE SockMove
  BY <1>1 DEF SockMove
<1>2. ASSUME NEW c \in Clients, NetDown(c) \/ NetUp(c) \/ Unlink(c) \/ StreamReplaced(c) PROVE SockMove
  <2>1. client[c].sock # "off"
    BY <1>2 DEF NetDown, NetUp, Unlink, StreamReplaced
  <2>2. \E r : client' = [client EXCEPT ![c] = r]
    BY <1>2 DEF NetDown, NetUp, Unlink, StreamReplaced
  <2> QED BY <2>1, <2>2, SockWritten
<1>3. ASSUME NEW t \in tasks, Handle(t) PROVE SockMove
  <2> DEFINE s == sessions[client[t.c].i]
             y == [client[s] EXCEPT !.marked = TRUE]
             n == [client[s] EXCEPT !.marked = FALSE]
  <2>1. s # None => s \in Clients
    BY DEF Shape, TypeOK, Owned, Made
  <2>2. CASE MarkConnected(t) \/ MarkDisconnected(t)
    <3>1. CASE UNCHANGED client
      BY <1>1, <3>1
    <3>2. CASE ~UNCHANGED client
      <4>1. s # None /\ (client' = [client EXCEPT ![s] = y] \/ client' = [client EXCEPT ![s] = n])
        BY <2>2, <3>2 DEF MarkConnected, MarkDisconnected
      <4>2. y.sock = client[s].sock /\ n.sock = client[s].sock
        BY <1>0, <2>1, <4>1 DEF Client
      <4> HIDE DEF s, y, n
      <4> QED BY <2>1, <4>1, <4>2, SockWritten
    <3> QED BY <3>1, <3>2
  <2>3. CASE CloseLoggedOut(t)
    <3>1. CASE s = None
      BY <1>1, <2>3, <3>1 DEF CloseLoggedOut
    <3>2. CASE s # None
      <4> DEFINE x == [client EXCEPT ![s].marked = FALSE, ![s].sock = "off"]
      <4>1. PICK d : client' = [x EXCEPT ![s].dev = d]
        BY <2>3, <3>2 DEF CloseLoggedOut
      <4>2. x \in [Clients -> Client] /\ x[s].sock = "off" /\ \A c \in Clients \ {s} : x[c] = client[c]
        BY <1>0, <2>1, <3>2 DEF Client, Socket
      <4> HIDE DEF x, s
      <4>3. \A c \in Clients : client'[c].sock = x[c].sock
        BY <4>1, <4>2 DEF Client
      <4> QED BY <4>2, <4>3 DEF SockMove
    <3> QED BY <3>1, <3>2
  <2> QED BY <1>1, <1>3, <2>2, <2>3 DEF Handle, Check, RecordConnected, RecordDisconnected, RecordLoggedOut, RemoveLoggedOut
<1>4. ASSUME NEW i \in Instances, NEW c \in Clients, CreateSession(i, c) PROVE SockMove
  <2> DEFINE r == [client[c] EXCEPT !.i = i]
  <2>1. client' = [client EXCEPT ![c] = r]
    BY <1>4 DEF CreateSession
  <2>2. r.sock = client[c].sock
    BY <1>0 DEF Client
  <2> HIDE DEF r
  <2> QED BY <2>1, <2>2, SockWritten
<1>5. ASSUME NEW p \in Callers, Request(p) PROVE SockMove
  <2>1. CASE QRSession(p)
    <3>1. req[p].i \in Instances
      BY <2>1, ReqType DEF QRSession
    <3> QED BY <1>1, <1>4, <2>1, <3>1 DEF QRSession, Fresh
  <2>2. ASSUME NEW c, NEW r, c \in Clients, r.sock = "off", client' = [client EXCEPT ![c] = r] PROVE SockMove
    BY <2>2, SockWritten
  <2>3. CASE LogoutClient(p)
    <3> DEFINE c == req[p].c
               n == [client[c] EXCEPT !.dev = "none", !.sock = "off"]
               o == [client[c] EXCEPT !.sock = "off"]
    <3>1. c \in Clients
      BY <2>3 DEF LogoutClient, Shape, Owned, Made
    <3>2. n.sock = "off" /\ o.sock = "off"
      BY <1>0, <3>1 DEF Client
    <3>3. client' = [client EXCEPT ![c] = n] \/ client' = [client EXCEPT ![c] = o]
      BY <2>3 DEF LogoutClient
    <3> HIDE DEF c, n, o
    <3> QED BY <2>2, <3>1, <3>2, <3>3
  <2>4. CASE DropClient(p) /\ ~UNCHANGED client
    <3> DEFINE c == sessions[req[p].i]
    <3>1. c # None /\ \E dev : client' = [client EXCEPT ![c].sock = "off", ![c].dev = dev]
      BY <2>4 DEF DropClient
    <3>2. c \in Clients
      BY <2>4, <3>1, ReqType DEF DropClient, Shape, TypeOK
    <3>3. PICK dev : client' = [client EXCEPT ![c].sock = "off", ![c].dev = dev]
      BY <3>1
    <3> DEFINE n == [client[c] EXCEPT !.sock = "off", !.dev = dev]
    <3>4. n.sock = "off"
      BY <1>0, <3>2 DEF Client
    <3>5. client' = [client EXCEPT ![c] = n]
      BY <3>3
    <3> HIDE DEF c, n
    <3> QED BY <2>2, <3>2, <3>4, <3>5
  <2> QED
    BY <1>1, <1>5, <2>1, <2>3, <2>4 DEF Request, CheckQR, CancelQR, SetFlag, ReadRow, RegisterQR, TakeSession,
          RecordLogout, ClearFlag, DropClient, DeleteSessionFromMemory, DeleteRow
<1>6. ASSUME NEW a \in Attempts, Pairing(a) \/ Scan(a) PROVE SockMove
  <2>1. CASE UNCHANGED client
    BY <1>1, <2>1
  <2>2. CASE ~UNCHANGED client
    <3>1. Runs(a)
      BY <1>6, <2>2 DEF Pairing, StartQR, publishQRCode, EndQR, ReleaseQR, Scan, Runs
    <3> QED BY <3>1 DEF SockMove
  <2> QED BY <2>1, <2>2
<1>7. ASSUME NEW c \in Clients, Visit(c) PROVE SockMove
  <2> DEFINE r == [client[c] EXCEPT !.sock = "on"]
  <2>1. UNCHANGED client \/ (client' = [client EXCEPT ![c] = r] /\ \E i \in Instances : row[i].jid = c)
    BY <1>7 DEF Visit
  <2> HIDE DEF r
  <2> QED BY <1>1, <2>1, SockWritten
<1>8. CASE StoreLoaded
  <2> DEFINE c == loader.at
             m == client[c].sock = "on"
             r == [client[c] EXCEPT !.marked = m]
  <2>1. c \in Clients /\ client' = [client EXCEPT ![c] = r]
    BY <1>8 DEF StoreLoaded, Shape, Owned, Made
  <2> HIDE DEF m
  <2>2. r.sock = client[c].sock
    BY <1>0, <2>1 DEF Client
  <2> HIDE DEF r, c
  <2> QED BY <2>1, <2>2, SockWritten
<1>9. CASE Crash
  <2>1. ASSUME NEW c \in Clients PROVE client'[c].sock = "off"
    <3> DEFINE d == IF client[c].dev = "paired" THEN "paired" ELSE "none"
               r == [client[c] EXCEPT !.sock = "off", !.marked = FALSE, !.dev = d]
    <3>1. client'[c] = r
      BY <1>9 DEF Crash
    <3>2. client[c] \in Client
      BY <1>0
    <3> HIDE DEF d
    <3>3. r.sock = "off"
      BY <3>2 DEF Client
    <3> HIDE DEF r
    <3> QED BY <3>1, <3>3
  <2> QED BY <2>1 DEF SockMove
<1>10. ASSUME NEW i \in Instances, NEW c \in Clients, Login(i, c) PROVE SockMove
  BY <1>4, <1>10 DEF Login
<1> QED
  BY <1>1, <1>2, <1>3, <1>5, <1>6, <1>7, <1>8, <1>9, <1>10 DEF Next, vars, LoadAllDevices, RecordLoaded, Serve

\* The connected handlers are those of clients that connect, and of sessions.
ConnectedMove ==
    \A t \in tasks' :
       t.kind = "connected" =>
          \/ t \in tasks
          \/ \E u \in tasks : u.kind = "connected" /\ t.c = u.c
          \/ t.c \in Clients /\ client'[t.c].sock # "off"
          \/ \E i \in Instances : t.c = sessions[i] /\ sessions[i] # None

LEMMA ConnectedMoved == ASSUME Shape, [Next]_vars PROVE ConnectedMove
<1>0. tasks \subseteq Tasks /\ client \in [Clients -> Client]
  BY DEF Shape, TypeOK, Tasks, Client
<1>1. ASSUME tasks' \subseteq tasks PROVE ConnectedMove
  BY <1>1 DEF ConnectedMove
<1>2. ASSUME NEW c \in Clients, NEW kind, eventHandler(kind, c), kind = "connected" => client'[c].sock # "off"
      PROVE  ConnectedMove
  BY <1>2 DEF ConnectedMove, eventHandler, Task
<1>3. ASSUME NEW c \in Clients, NetDown(c) \/ NetUp(c) \/ Unlink(c) \/ StreamReplaced(c) PROVE ConnectedMove
  <2> DEFINE u == [client[c] EXCEPT !.sock = "on"]
  <2>1. CASE NetUp(c)
    <3>1. client' = [client EXCEPT ![c] = u] /\ eventHandler("connected", c)
      BY <2>1 DEF NetUp
    <3>2. u.sock = "on"
      BY <1>0 DEF Client
    <3> HIDE DEF u
    <3>3. client'[c].sock = "on"
      BY <1>0, <3>1, <3>2
    <3> QED BY <1>2, <3>1, <3>3
  <2>2. CASE NetDown(c) \/ Unlink(c)
    BY <1>2, <2>2 DEF NetDown, Unlink
  <2>3. CASE StreamReplaced(c)
    BY <1>1, <2>3 DEF StreamReplaced
  <2> QED BY <1>3, <2>1, <2>2, <2>3
<1>4. ASSUME NEW t \in tasks, Handle(t) PROVE ConnectedMove
  <2>1. ASSUME NEW pc, Advance(t, pc) PROVE ConnectedMove
    <3> DEFINE n == [t EXCEPT !.pc = pc]
    <3>1. n.c = t.c /\ n.kind = t.kind
      BY <1>0 DEF Tasks
    <3>2. tasks' \subseteq tasks \cup {n}
      BY <2>1 DEF Advance
    <3> HIDE DEF n
    <3> QED BY <3>1, <3>2 DEF ConnectedMove
  <2>2. CASE Finish(t)
    BY <1>1, <2>2 DEF Finish
  <2>3. CASE MarkConnected(t) /\ ~Finish(t)
    <3> DEFINE i == client[t.c].i
               n == Task("connected", sessions[i], "record")
    <3>1. tasks' \subseteq tasks \cup {n} /\ i \in Instances /\ sessions[i] # None
      BY <2>3 DEF MarkConnected, Shape, Owned, Made
    <3>2. n.c = sessions[i]
      BY DEF Task
    <3> HIDE DEF n, i
    <3> QED BY <3>1, <3>2 DEF ConnectedMove
  <2> QED
    BY <1>4, <2>1, <2>2, <2>3 DEF Handle, Check, MarkConnected, RecordConnected, MarkDisconnected,
                                  RecordDisconnected, CloseLoggedOut, RecordLoggedOut, RemoveLoggedOut
<1>5. ASSUME NEW a \in Attempts, Scan(a) PROVE ConnectedMove
  <2> DEFINE c == att[a].c
             u == [client[c] EXCEPT !.dev = "paired"]
  <2>1. c \in Clients
    BY <1>5 DEF Scan, Shape, Owned, Made
  <2>2. client' = [client EXCEPT ![c] = u] /\ eventHandler("connected", c) /\ client[c].sock = "on"
    BY <1>5 DEF Scan
  <2>3. u.sock = client[c].sock
    BY <1>0, <2>1 DEF Client
  <2> HIDE DEF u
  <2>4. client'[c].sock = "on"
    BY <1>0, <2>1, <2>2, <2>3
  <2> QED BY <1>2, <2>1, <2>2, <2>4
<1>6. ASSUME NEW c \in Clients, Visit(c) PROVE ConnectedMove
  <2> DEFINE u == [client[c] EXCEPT !.sock = "on"]
  <2>1. UNCHANGED tasks \/ (client' = [client EXCEPT ![c] = u] /\ eventHandler("connected", c))
    BY <1>6 DEF Visit
  <2>2. u.sock = "on"
    BY <1>0 DEF Client
  <2> HIDE DEF u
  <2>3. UNCHANGED tasks \/ (client'[c].sock = "on" /\ eventHandler("connected", c))
    BY <1>0, <2>1, <2>2
  <2> QED BY <1>1, <1>2, <2>3
<1>7. CASE Crash
  BY <1>1, <1>7 DEF Crash
<1>8. ASSUME NEW p \in Callers, Request(p) PROVE UNCHANGED tasks
  BY <1>8 DEF Request, CheckQR, QRSession, RegisterQR, CancelQR, SetFlag, TakeSession, LogoutClient,
              RecordLogout, ClearFlag, ReadRow, DropClient, DeleteSessionFromMemory, DeleteRow
<1> QED
  BY <1>1, <1>3, <1>4, <1>5, <1>6, <1>7, <1>8
     DEF Next, vars, Login, Pairing, StartQR, publishQRCode, EndQR, ReleaseQR, LoadAllDevices, StoreLoaded,
         RecordLoaded, Serve

LEMMA RestartingStep == ASSUME Shape, Restarting, [Next]_vars PROVE Restarting'
<1> SUFFICES ASSUME ~serving'
    PROVE  /\ \A a \in Attempts : att'[a].pc \notin {"start", "listen", "end"}
           /\ \A c \in Clients : client'[c].sock # "off" => row'[client'[c].i].jid = c
           /\ \A t \in tasks' : t.kind = "connected" => row'[client'[t.c].i].jid = t.c
           /\ \A i \in Instances : sessions'[i] # None => row'[i].jid = sessions'[i]
           /\ loader'.pc \in {"store", "record"} => row'[client'[loader'.at].i].jid = loader'.at
  BY DEF Restarting, Runs
<1>1. CASE Crash
  <2>1. tasks' = {} /\ loader'.pc = "next" /\ \A i \in Instances : sessions'[i] = None
    BY <1>1 DEF Crash
  <2>2. ASSUME NEW c \in Clients PROVE client'[c].sock = "off"
    <3> DEFINE d == IF client[c].dev = "paired" THEN "paired" ELSE "none"
               r == [client[c] EXCEPT !.sock = "off", !.marked = FALSE, !.dev = d]
    <3>1. client'[c] = r /\ client[c] \in Client
      BY <1>1, ClientType DEF Crash
    <3> HIDE DEF d
    <3>2. r.sock = "off"
      BY <3>1 DEF Client
    <3> HIDE DEF r
    <3> QED BY <3>1, <3>2
  <2>3. ASSUME NEW a \in Attempts PROVE att'[a].pc \in {"new", "done"}
    <3> DEFINE r == [att[a] EXCEPT !.pc = "done"]
    <3>1. att'[a] = IF a \in Unused THEN NoAttempt ELSE r
      BY <1>1 DEF Crash
    <3>2. att[a] \in Att
      BY AttType
    <3>3. r.pc = "done" /\ NoAttempt.pc = "new"
      BY <3>2 DEF Att, NoAttempt
    <3> HIDE DEF r
    <3> QED BY <3>1, <3>3
  <2> QED BY <2>1, <2>2, <2>3
<1>2. CASE ~Crash
  <2>0. ~serving /\ \A p \in Callers : ~Request(p)
    <3>1. ASSUME NEW p \in Callers, Request(p) PROVE FALSE
      <4>1. UNCHANGED serving
        BY <3>1 DEF Request, CheckQR, QRSession, RegisterQR, CancelQR, SetFlag, TakeSession, LogoutClient,
              RecordLogout, ClearFlag, ReadRow, DropClient, DeleteSessionFromMemory, DeleteRow
      <4> QED BY <3>1, <4>1, RequestServed
    <3>2. ASSUME NEW t \in tasks, Handle(t) PROVE UNCHANGED serving
      BY <3>2 DEF Handle, Check, MarkConnected, RecordConnected, MarkDisconnected, RecordDisconnected, CloseLoggedOut,
              RecordLoggedOut, RemoveLoggedOut
    <3>3. ASSUME NEW a \in Attempts, Pairing(a) \/ Scan(a) PROVE UNCHANGED serving
      BY <3>3 DEF Pairing, StartQR, publishQRCode, EndQR, ReleaseQR, Scan
    <3>4. ASSUME NEW c \in Clients, NetDown(c) \/ NetUp(c) \/ Unlink(c) \/ StreamReplaced(c) PROVE UNCHANGED serving
      BY <3>4 DEF NetDown, NetUp, Unlink, StreamReplaced
    <3>5. ASSUME NEW i \in Instances, NEW c \in Clients, Login(i, c) PROVE UNCHANGED serving
      BY <3>5 DEF Login
    <3>6. ASSUME LoadAllDevices PROVE UNCHANGED serving
      BY <3>6 DEF LoadAllDevices, Visit, StoreLoaded, RecordLoaded, Serve
    <3>7. ASSUME UNCHANGED vars PROVE UNCHANGED serving
      BY <3>7 DEF vars
    <3> QED BY <1>2, <3>1, <3>2, <3>3, <3>4, <3>5, <3>6, <3>7 DEF Next
  <2>1. /\ \A i \in Instances : row'[i].jid = row[i].jid
        /\ SockMove /\ ConnectedMove /\ SessionsMove /\ ClientsKept
    BY <2>0, JidKept, SockMoved, ConnectedMoved, SessionsMoved, ClientStep
  <2>2. /\ \A a \in Attempts : ~Runs(a)
        /\ \A c \in Clients : client[c].sock # "off" => row[client[c].i].jid = c
        /\ \A t \in tasks : t.kind = "connected" => row[client[t.c].i].jid = t.c
        /\ \A i \in Instances : sessions[i] # None => row[i].jid = sessions[i]
        /\ loader.pc \in {"store", "record"} => row[client[loader.at].i].jid = loader.at
    BY <2>0 DEF Restarting
  <2>3. UNCHANGED att
    BY <1>2, <2>0, <2>2
       DEF Next, vars, NetDown, NetUp, Unlink, StreamReplaced, Handle, Check, MarkConnected, RecordConnected, MarkDisconnected,
           RecordDisconnected, CloseLoggedOut, RecordLoggedOut, RemoveLoggedOut, Login, Pairing, StartQR, publishQRCode,
           EndQR, ReleaseQR, Scan, LoadAllDevices, Visit, StoreLoaded, RecordLoaded, Serve, Runs
  \* A client of which the row says so, before the step, is still the row's after it.
  <2>4. ASSUME NEW c, Made(c), row[client[c].i].jid = c PROVE row'[client'[c].i].jid = c
    BY <2>1, <2>4, MadeKept DEF Made
  <2>5. ASSUME NEW i \in Instances, row[i].jid # None PROVE Made(row[i].jid) /\ client[row[i].jid].i = i
    BY <2>5, RowType DEF Made
  <2>6. ASSUME NEW c \in Clients, client'[c].sock # "off" PROVE row'[client'[c].i].jid = c
    <3>1. c # None
      BY SessionAssumption
    <3>2. client[c].sock # "off" \/ \E i \in Instances : row[i].jid = c
      BY <2>1, <2>2, <2>6 DEF SockMove
    <3>3. Made(c) /\ row[client[c].i].jid = c
      BY <2>2, <2>5, <3>1, <3>2, ConnectedIsMade
    <3> QED BY <2>4, <3>3
  <2>7. ASSUME NEW t \in tasks', t.kind = "connected" PROVE row'[client'[t.c].i].jid = t.c
    <3>1. CASE \E u \in tasks : u.kind = "connected" /\ t.c = u.c
      <4>1. Made(t.c) /\ row[client[t.c].i].jid = t.c
        BY <2>2, <3>1 DEF Shape, Owned
      <4> QED BY <2>4, <4>1
    <3>2. CASE t.c \in Clients /\ client'[t.c].sock # "off"
      BY <2>6, <3>2
    <3>3. CASE \E i \in Instances : t.c = sessions[i] /\ sessions[i] # None
      BY <2>2, <2>4, <2>5, <3>3
    <3> QED BY <2>1, <2>7, <3>1, <3>2, <3>3 DEF ConnectedMove
  <2>8. ASSUME NEW i \in Instances, sessions'[i] # None PROVE row'[i].jid = sessions'[i]
    <3>1. CASE sessions'[i] = sessions[i]
      BY <2>1, <2>2, <2>8, <3>1
    <3>2. CASE loader.pc = "store" /\ i = client[loader.at].i /\ sessions'[i] = loader.at
      BY <2>1, <2>2, <3>2
    <3> QED BY <2>0, <2>1, <2>8, <3>1, <3>2 DEF SessionsMove
  <2>9. ASSUME loader'.pc \in {"store", "record"} PROVE row'[client'[loader'.at].i].jid = loader'.at
    <3>1. CASE UNCHANGED loader
      <4>1. Made(loader.at)
        BY <2>9, <3>1 DEF Shape, Owned
      <4> QED BY <2>2, <2>4, <2>9, <3>1, <4>1
    <3>2. ASSUME NEW c \in Clients, Visit(c) PROVE row'[client'[loader'.at].i].jid = loader'.at
      <4>1. CASE \E i \in Instances : row[i].jid = c /\ loader'.at = c
        <5>1. Made(c) /\ row[client[c].i].jid = c
          BY <2>5, <4>1, SessionAssumption
        <5> QED BY <2>4, <4>1, <5>1
      <4> QED BY <2>9, <3>2, <4>1 DEF Visit, Shape, TypeOK
    <3>3. CASE StoreLoaded \/ RecordLoaded
      <4>1. loader.pc \in {"store", "record"} /\ loader'.at = loader.at
        BY <3>3 DEF StoreLoaded, RecordLoaded, Shape, TypeOK
      <4>2. Made(loader.at)
        BY <4>1 DEF Shape, Owned
      <4> QED BY <2>2, <2>4, <4>1, <4>2
    <3> QED
      BY <1>2, <2>0, <2>9, <3>1, <3>2, <3>3
         DEF Next, vars, NetDown, NetUp, Unlink, StreamReplaced, Handle, Check, MarkConnected, RecordConnected, MarkDisconnected,
             RecordDisconnected, CloseLoggedOut, RecordLoggedOut, RemoveLoggedOut, Login, Pairing, StartQR, publishQRCode,
             EndQR, ReleaseQR, Scan, LoadAllDevices, Serve
  <2> QED BY <2>2, <2>3, <2>6, <2>7, <2>8, <2>9 DEF Runs
<1> QED BY <1>1, <1>2

\* A step in progress that will take the row of the instance offline, or delete it.
Corrects(t, i) == t.kind \in {"disconnected", "loggedOut"} /\ client[t.c].i = i
Takes(p, i) == req[p].i = i /\ req[p].pc \in {"unlink", "record", "forget", "row"}
Correcting(i) == (\E t \in tasks : Corrects(t, i)) \/ \E p \in Callers : Takes(p, i)

\* A logged out handler does not look at the flag.
Begun == \A t \in tasks : t.kind = "loggedOut" => t.pc # "check"

OnlineInv ==
    /\ Begun
    /\ \A i \in Instances :
          row[i].status = "online" /\ i \notin unserved => Serves(row[i].jid, i) \/ Correcting(i)

\* After the step, the row of the instance says online and is not excused.
Stale(i) == row'[i].status = "online" /\ i \notin unserved'

\* A statement that says online has a session behind it, or is noted.
RowMove(i) ==
    Stale(i) =>
       \/ /\ row[i].status = "online" /\ i \notin unserved
          /\ row'[i].jid = row[i].jid \/ ~Serves(row[i].jid, i)
       \/ Serves(row'[i].jid, i) /\ UNCHANGED <<sessions, client>>

LEMMA RowMoveSet ==
  ASSUME Shape, NEW j \in Instances, NEW status, NEW connected, NEW jid, Set(j, status, connected, jid),
         status = "online" => UNCHANGED <<sessions, client>>, NEW i \in Instances
  PROVE  RowMove(i)
<1>0. row \in [Instances -> Row]
  BY DEF Shape, TypeOK, Row
<1>1. CASE row[j].status \in Gone
  BY <1>1 DEF Set, RowMove, Stale
<1>2. CASE row[j].status \notin Gone
  <2> DEFINE r == [status |-> status, connected |-> connected, jid |-> jid]
  <2>1. r.status = status /\ r.jid = jid
    OBVIOUS
  <2>2. row' = [row EXCEPT ![j] = r]
        /\ unserved' = IF status = "online" /\ ~Serves(jid, j) THEN unserved \cup {j} ELSE unserved \ {j}
    BY <1>2 DEF Set
  <2> HIDE DEF r
  <2>3. row'[j] = r /\ (i # j => row'[i] = row[i])
    BY <1>0, <2>2
  <2>4. CASE i = j
    BY <2>1, <2>2, <2>3, <2>4 DEF RowMove, Stale
  <2>5. CASE i # j
    BY <2>2, <2>3, <2>5 DEF RowMove, Stale
  <2> QED BY <2>4, <2>5
<1> QED BY <1>1, <1>2

LEMMA RowMoved == ASSUME Shape, [Next]_vars, NEW i \in Instances PROVE RowMove(i)
<1>0. row \in [Instances -> Row]
  BY DEF Shape, TypeOK, Row
<1>1. ASSUME UNCHANGED row, unserved \subseteq unserved' PROVE RowMove(i)
  BY <1>1 DEF RowMove, Stale
<1>13. ASSUME NEW j, Fails(j) PROVE RowMove(i)
  BY <1>1, <1>13 DEF Fails
<1>2. ASSUME NEW t \in tasks, Handle(t) PROVE RowMove(i)
  <2>1. client[t.c].i \in Instances
    BY DEF Shape, Owned, Made
  <2>2. CASE RecordConnected(t)
    BY <1>1, <1>13, <2>1, <2>2, RowMoveSet DEF RecordConnected, UpdateInstanceOnConnected
  <2>3. CASE RecordDisconnected(t)
    BY <1>13, <2>1, <2>3, RowMoveSet DEF RecordDisconnected, UpdateInstanceOnDisconnected
  <2>4. CASE RecordLoggedOut(t)
    BY <1>13, <2>1, <2>4, RowMoveSet DEF RecordLoggedOut, UpdateInstanceOnLoggedOut
  <2>5. CASE Check(t) \/ MarkConnected(t) \/ MarkDisconnected(t) \/ CloseLoggedOut(t) \/ RemoveLoggedOut(t)
    BY <1>1, <2>5 DEF Check, MarkConnected, MarkDisconnected, CloseLoggedOut, RemoveLoggedOut, history
  <2> QED BY <1>2, <2>2, <2>3, <2>4, <2>5 DEF Handle
<1>3. ASSUME NEW p \in Callers, Request(p) PROVE RowMove(i)
  <2>1. CASE RecordLogout(p)
    BY <1>13, <2>1, ReqType, RowMoveSet DEF RecordLogout, UpdateInstanceStatus
  <2>2. CASE DeleteRow(p)
    <3> DEFINE j == req[p].i
               r == [row[j] EXCEPT !.status = "deleted", !.connected = FALSE]
    <3>1. j \in Instances /\ (Fails(j) \/ (row' = [row EXCEPT ![j] = r] /\ unserved' = unserved \ {j}))
      BY <2>2, ReqType DEF DeleteRow
    <3>2. r.status = "deleted"
      BY <1>0, <3>1 DEF Row
    <3> HIDE DEF r, j
    <3> QED BY <1>0, <1>13, <3>1, <3>2 DEF RowMove, Stale
  <2>3. CASE UNCHANGED <<row, unserved>>
    BY <1>1, <2>3
  <2> QED
    BY <1>3, <2>1, <2>2, <2>3 DEF Request, CheckQR, CancelQR, SetFlag, ReadRow, QRSession, RegisterQR, TakeSession,
          LogoutClient, ClearFlag, DropClient, DeleteSessionFromMemory, history
<1>4. ASSUME NEW j \in Instances, NEW c \in Clients, Login(j, c) PROVE RowMove(i)
  <2> DEFINE r == [row[j] EXCEPT !.status = "qr_required"]
  <2>1. (row' = [row EXCEPT ![j] = r] \/ row' = row) /\ UNCHANGED unserved
    BY <1>4 DEF Login, persistNewInstance, history
  <2>2. r.status = "qr_required"
    BY <1>0 DEF Row
  <2> HIDE DEF r
  <2> QED BY <1>0, <2>1, <2>2 DEF RowMove, Stale
<1>5. ASSUME NEW a \in Attempts, publishQRCode(a) PROVE RowMove(i)
  <2>1. att[a].i \in Instances
    BY <1>5 DEF publishQRCode, Shape, Owned
  <2> QED BY <1>5, <2>1, RowMoveSet DEF publishQRCode, UpdateInstanceQR
<1>6. ASSUME NEW a \in Attempts, Scan(a) PROVE RowMove(i)
  <2> DEFINE j == IF row[i].jid = att[a].c THEN None ELSE row[i].jid
             r == [row[i] EXCEPT !.jid = j]
  <2>1. row'[i] = r /\ UNCHANGED unserved /\ ~HasID(att[a].c)
    BY <1>6 DEF Scan
  <2> HIDE DEF j
  <2>2. r.status = row[i].status /\ r.jid = j
    BY <1>0 DEF Row
  <2> HIDE DEF r
  <2> QED BY <2>1, <2>2 DEF RowMove, Stale, Serves, j
<1>7. CASE RecordLoaded
  <2>1. client[loader.at].i \in Instances
    BY <1>7 DEF RecordLoaded, Shape, Owned, Made
  <2> QED BY <1>7, <1>13, <2>1, RowMoveSet DEF RecordLoaded, UpdateInstanceOnConnected
<1>8. CASE Crash
  BY <1>1, <1>8 DEF Crash
<1>9. ASSUME NEW a \in Attempts, Pairing(a), ~publishQRCode(a) PROVE RowMove(i)
  BY <1>1, <1>9 DEF Pairing, StartQR, EndQR, ReleaseQR, history
<1>10. ASSUME NEW c \in Clients, NetDown(c) \/ NetUp(c) \/ Unlink(c) \/ StreamReplaced(c) PROVE RowMove(i)
  BY <1>1, <1>10 DEF NetDown, NetUp, Unlink, StreamReplaced, history
<1>11. CASE LoadAllDevices
  BY <1>1, <1>7, <1>11 DEF LoadAllDevices, Visit, StoreLoaded, Serve, history
<1>12. CASE UNCHANGED vars
  BY <1>1, <1>12 DEF vars, history
<1> QED BY <1>2, <1>3, <1>4, <1>5, <1>6, <1>8, <1>9, <1>10, <1>11, <1>12 DEF Next

LEMMA BegunStep == ASSUME Shape, Begun, [Next]_vars PROVE Begun'
<1>0. tasks \subseteq Tasks
  BY DEF Shape, TypeOK, Tasks
<1>1. ASSUME NEW c, NEW kind, eventHandler(kind, c) PROVE Begun'
  BY <1>1 DEF eventHandler, Task, Begun
<1>2. ASSUME tasks' \subseteq tasks PROVE Begun'
  BY <1>2 DEF Begun
<1>3. ASSUME NEW t \in tasks, NEW pc \in {"mark", "record", "remove"}, Advance(t, pc) PROVE Begun'
  <2> DEFINE n == [t EXCEPT !.pc = pc]
  <2>1. n.pc = pc
    BY <1>0 DEF Tasks
  <2>2. tasks' \subseteq tasks \cup {n}
    BY <1>3 DEF Advance
  <2> HIDE DEF n
  <2> QED BY <2>1, <2>2 DEF Begun
<1>4. ASSUME NEW t \in tasks, Handle(t) PROVE Begun'
  <2>1. CASE MarkConnected(t)
    BY <2>1 DEF MarkConnected, Finish, Task, Begun
  <2> QED
    BY <1>2, <1>3, <1>4, <2>1 DEF Handle, Finish, Check, RecordConnected, MarkDisconnected, RecordDisconnected,
          CloseLoggedOut, RecordLoggedOut, RemoveLoggedOut
<1>5. CASE Crash
  BY <1>5 DEF Crash, Begun
<1>6. ASSUME NEW p \in Callers, Request(p) PROVE UNCHANGED tasks
  BY <1>6 DEF Request, CheckQR, QRSession, RegisterQR, CancelQR, SetFlag, TakeSession, LogoutClient,
              RecordLogout, ClearFlag, ReadRow, DropClient, DeleteSessionFromMemory, DeleteRow
<1>7. ASSUME NEW c \in Clients, NetDown(c) \/ NetUp(c) \/ Unlink(c) \/ StreamReplaced(c) PROVE Begun'
  BY <1>1, <1>2, <1>7 DEF NetDown, NetUp, Unlink, StreamReplaced
<1>8. ASSUME NEW a \in Attempts, Pairing(a) \/ Scan(a) PROVE Begun'
  BY <1>1, <1>2, <1>8 DEF Pairing, StartQR, publishQRCode, EndQR, ReleaseQR, Scan
<1>9. CASE LoadAllDevices
  BY <1>1, <1>2, <1>9 DEF LoadAllDevices, Visit, StoreLoaded, RecordLoaded, Serve
<1>10. CASE UNCHANGED tasks
  BY <1>2, <1>10
<1> QED BY <1>4, <1>5, <1>6, <1>7, <1>8, <1>9, <1>10 DEF Next, vars, Login

\* A statement that takes the row offline.
LEMMA SetOff ==
  ASSUME Shape, NEW i \in Instances, NEW status, status # "online", NEW connected, NEW jid,
         Set(i, status, connected, jid)
  PROVE  row'[i].status # "online"
<1>1. CASE row[i].status \in Gone
  BY <1>1 DEF Set, Gone
<1>2. CASE row[i].status \notin Gone
  <2> DEFINE r == [status |-> status, connected |-> connected, jid |-> jid]
  <2>1. row' = [row EXCEPT ![i] = r] /\ r.status = status
    BY <1>2 DEF Set
  <2> HIDE DEF r
  <2> QED BY <2>1 DEF Shape, TypeOK
<1> QED BY <1>1, <1>2

\* A handler that will correct the row goes on, unless it has.
\* A statement has failed in the step, and the row, if it is not noted, has its session.
Failed(i) == Fails(i) /\ UNCHANGED <<sessions, client>>
StillCorrects(i) == \E u \in tasks' : u.kind \in {"disconnected", "loggedOut"} /\ client'[u.c].i = i

LEMMA TaskCorrects ==
  ASSUME Shape, OnlineInv, [Next]_vars, NEW i \in Instances, NEW t \in tasks, Corrects(t, i), Stale(i)
  PROVE  StillCorrects(i) \/ Failed(i)
<1>0. t \in Tasks /\ client'[t.c].i = client[t.c].i /\ client[t.c].i = i /\ t.kind # "connected"
  BY ClientStep, MadeKept DEF Shape, TypeOK, Owned, Tasks, Corrects
<1>1. ASSUME t \in tasks' PROVE StillCorrects(i)
  BY <1>0, <1>1 DEF Tasks, StillCorrects
<1>2. ASSUME NEW u \in tasks, Handle(u), u # t PROVE StillCorrects(i)
  BY <1>1, <1>2 DEF Handle, Advance, Finish, Check, MarkConnected, RecordConnected, MarkDisconnected, RecordDisconnected,
        CloseLoggedOut, RecordLoggedOut, RemoveLoggedOut
<1>3. ASSUME NEW pc, Advance(t, pc) PROVE StillCorrects(i)
  <2> DEFINE n == [t EXCEPT !.pc = pc]
  <2>1. n.c = t.c /\ n.kind = t.kind
    BY <1>0 DEF Tasks
  <2>2. n \in tasks'
    BY <1>3 DEF Advance
  <2> HIDE DEF n
  <2> QED BY <1>0, <2>1, <2>2 DEF Tasks, StillCorrects
<1>4. CASE Handle(t)
  <2>1. CASE RecordDisconnected(t)
    BY <1>0, <2>1, SetOff DEF RecordDisconnected, UpdateInstanceOnDisconnected, Stale, Failed
  <2>4. CASE RecordLoggedOut(t)
    BY <1>0, <2>4, SetOff DEF RecordLoggedOut, UpdateInstanceOnLoggedOut, Stale, Failed
  <2>2. CASE Check(t) /\ Finish(t)
    <3>1. t.kind = "disconnected"
      BY <1>0, <2>2 DEF OnlineInv, Begun, Check, Tasks
    <3>2. client[t.c].i \in loggingOut => StillCorrects(i)
      BY <1>0, <2>2, <3>1 DEF Check, Stale
    <3>3. client[t.c].i \notin loggingOut => Advance(t, "mark")
      BY <2>2 DEF Check
    <3> QED BY <1>3, <3>2, <3>3
  <2>3. CASE RemoveLoggedOut(t)
    BY <1>0, <2>3 DEF RemoveLoggedOut, Stale
  <2> QED
    BY <1>0, <1>3, <1>4, <2>1, <2>2, <2>3, <2>4 DEF Handle, Check, MarkConnected, RecordConnected, MarkDisconnected,
          CloseLoggedOut
<1>5. CASE Crash
  BY <1>5 DEF Crash, Stale
<1>6. ASSUME NEW p \in Callers, Request(p) PROVE UNCHANGED tasks
  BY <1>6 DEF Request, CheckQR, QRSession, RegisterQR, CancelQR, SetFlag, TakeSession, LogoutClient,
              RecordLogout, ClearFlag, ReadRow, DropClient, DeleteSessionFromMemory, DeleteRow
<1>7. ASSUME tasks \subseteq tasks' PROVE StillCorrects(i)
  BY <1>1, <1>7
<1>8. ASSUME NEW c \in Clients, NetDown(c) \/ NetUp(c) \/ Unlink(c) \/ StreamReplaced(c) PROVE StillCorrects(i)
  BY <1>7, <1>8 DEF NetDown, NetUp, Unlink, StreamReplaced, eventHandler
<1>9. ASSUME NEW a \in Attempts, Pairing(a) \/ Scan(a) PROVE StillCorrects(i)
  BY <1>7, <1>9 DEF Pairing, StartQR, publishQRCode, EndQR, ReleaseQR, Scan, eventHandler
<1>10. CASE LoadAllDevices
  BY <1>7, <1>10 DEF LoadAllDevices, Visit, StoreLoaded, RecordLoaded, Serve, eventHandler
<1>11. CASE UNCHANGED tasks
  BY <1>7, <1>11
<1> QED BY <1>2, <1>4, <1>5, <1>6, <1>8, <1>9, <1>10, <1>11 DEF Next, vars, Login

\* So does a request.
LEMMA ReqOther ==
  ASSUME Shape, NEW p \in Callers, NEW q \in Callers \ {p}, Request(q) PROVE req'[p] = req[p]
<1>0. req \in [Callers -> Req]
  BY DEF Shape, TypeOK, Req
<1>1. ASSUME NEW r, req' = [req EXCEPT ![q] = r] PROVE req'[p] = req[p]
  BY <1>0, <1>1
<1>2. ASSUME NEW pc, Step(q, pc) PROVE req'[p] = req[p]
  BY <1>0, <1>2 DEF Step
<1>3. ASSUME NEW pc, NEW c, req' = [req EXCEPT ![q].pc = pc, ![q].c = c] PROVE req'[p] = req[p]
  BY <1>0, <1>3
<1>4. ASSUME Answer(q) \/ \E i \in Instances, pc \in {"session", "take", "drop"} : Goes(q, i, pc) PROVE req'[p] = req[p]
  BY <1>1, <1>4 DEF Answer, Goes
<1> QED
  BY <1>2, <1>3, <1>4 DEF Request, CheckQR, QRSession, RegisterQR, CancelQR, SetFlag, TakeSession, LogoutClient,
        RecordLogout, ClearFlag, ReadRow, DropClient, DeleteSessionFromMemory, DeleteRow

LEMMA ReqStepped ==
  ASSUME Shape, NEW p \in Callers, NEW pc, Step(p, pc) PROVE req'[p].pc = pc /\ req'[p].i = req[p].i
<1> DEFINE r == [req[p] EXCEPT !.pc = pc]
<1>1. r.pc = pc /\ r.i = req[p].i
  BY ReqType DEF Req
<1>2. req' = [req EXCEPT ![p] = r]
  BY DEF Step
<1> HIDE DEF r
<1> QED BY <1>1, <1>2 DEF Shape, TypeOK

LEMMA ReqCorrects ==
  ASSUME Shape, [Next]_vars, NEW i \in Instances, NEW p \in Callers, Takes(p, i), Stale(i)
  PROVE  Failed(i) \/ (req'[p].i = i /\ req'[p].pc \in {"unlink", "record", "forget", "row"})
<1>0. req[p].i = i /\ req[p].pc \in {"unlink", "record", "forget", "row"}
  BY DEF Takes
<1>1. CASE req'[p] = req[p]
  BY <1>0, <1>1
<1>2. CASE Request(p)
  <2>1. CASE LogoutClient(p) \/ DeleteSessionFromMemory(p)
    BY <1>0, <2>1, ReqStepped DEF LogoutClient, DeleteSessionFromMemory
  <2>2. CASE RecordLogout(p)
    BY <1>0, <2>2, SetOff DEF RecordLogout, UpdateInstanceStatus, Stale, Failed
  <2>3. CASE DeleteRow(p)
    <3> DEFINE r == [row[i] EXCEPT !.status = "deleted", !.connected = FALSE]
    <3>1. row' = [row EXCEPT ![i] = r] \/ Failed(i)
      BY <1>0, <2>3 DEF DeleteRow, Failed
    <3>2. r.status = "deleted"
      BY RowType DEF Row
    <3> HIDE DEF r
    <3> QED BY <3>1, <3>2 DEF Stale, Shape, TypeOK
  <2>4. ASSUME NEW j \in Instances, CheckQR(p, j) \/ CancelQR(p, j) \/ SetFlag(p, j) \/ ReadRow(p, j) PROVE FALSE
    BY <1>0, <2>4 DEF CheckQR, CancelQR, SetFlag, ReadRow, Begins, Idle
  <2> QED
    BY <1>0, <1>2, <2>1, <2>2, <2>3, <2>4 DEF Request, QRSession, RegisterQR, TakeSession, ClearFlag, DropClient
<1>3. CASE Crash
  BY <1>3 DEF Crash, Stale
<1>4. CASE UNCHANGED req
  BY <1>1, <1>4
<1> QED
  BY <1>1, <1>2, <1>3, <1>4, ReqOther
     DEF Next, vars, NetDown, NetUp, Unlink, StreamReplaced, Handle, Check, MarkConnected, RecordConnected, MarkDisconnected,
         RecordDisconnected, CloseLoggedOut, RecordLoggedOut, RemoveLoggedOut, Login, Pairing, StartQR, publishQRCode,
         EndQR, ReleaseQR, Scan, LoadAllDevices, Visit, StoreLoaded, RecordLoaded, Serve

\* A connected session of the row's stays that, or whoever took it is about to say so.
LEMMA DownCorrects ==
  ASSUME Shape, [Next]_vars, NEW i \in Instances, NEW c \in Clients, client[c].i = i, Down(c), Stale(i)
  PROVE  StillCorrects(i) \/ \E p \in Callers : req'[p].i = i /\ req'[p].pc \in {"unlink", "record", "forget", "row"}
<1>0. Made(c) /\ client'[c].i = i
  BY ClientStep, MadeKept DEF Made
<1>6. ~StreamReplaced(c)
  BY DEF StreamReplaced, Stale
<1>1. CASE NetDown(c) \/ Unlink(c)
  <2>1. PICK kind \in {"disconnected", "loggedOut"} : eventHandler(kind, c)
    BY <1>1 DEF NetDown, Unlink
  <2> DEFINE n == Task(kind, c, IF kind = "loggedOut" THEN "close" ELSE "check")
  <2>2. n \in tasks' /\ n.c = c /\ n.kind = kind
    BY <2>1 DEF eventHandler, Task
  <2> HIDE DEF n
  <2> QED BY <1>0, <2>1, <2>2 DEF StillCorrects
<1>2. ASSUME NEW t \in tasks, CloseLoggedOut(t), sessions[client[t.c].i] = c PROVE StillCorrects(i)
  <2> DEFINE n == [t EXCEPT !.pc = "record"]
  <2>1. t \in Tasks /\ Made(t.c) /\ client[t.c].i \in Instances
    BY DEF Shape, TypeOK, Owned, Tasks, Made
  <2>2. client[t.c].i = i
    BY <1>2, <2>1, SessionAssumption DEF Shape, Owned
  <2>3. client'[t.c].i = i
    BY <2>1, <2>2, ClientStep, MadeKept
  <2>4. n \in tasks' /\ n.c = t.c /\ n.kind = "loggedOut"
    BY <1>2, <2>1 DEF CloseLoggedOut, Advance, Tasks
  <2> HIDE DEF n
  <2> QED BY <2>3, <2>4 DEF StillCorrects
<1>3. ASSUME NEW p \in Callers, LogoutClient(p), req[p].c = c PROVE req'[p].i = i /\ req'[p].pc = "record"
  <2>1. req[p].i = i
    BY <1>3 DEF LogoutClient, Shape, Owned
  <2> QED BY <1>3, <2>1, ReqStepped DEF LogoutClient
<1>4. ASSUME NEW p \in Callers, DropClient(p), req[p].i \in Instances, sessions[req[p].i] = c
      PROVE  req'[p].i = i /\ req'[p].pc = "forget"
  <2>1. req[p].i = i /\ Step(p, "forget")
    BY <1>4, SessionAssumption DEF DropClient, Shape, Owned
  <2> QED BY <2>1, ReqStepped
<1>5. ~Crash
  BY DEF Crash, Stale
<1> QED BY <1>1, <1>2, <1>3, <1>4, <1>5, <1>6 DEF Down

LEMMA ServeMoved ==
  ASSUME Shape, Restarting, [Next]_vars, NEW i \in Instances, Serves(row[i].jid, i), Stale(i), row'[i].jid = row[i].jid
  PROVE  \/ sessions'[i] = row[i].jid /\ client'[row[i].jid].sock = "on" /\ client'[row[i].jid].dev # "none"
         \/ StillCorrects(i)
         \/ \E p \in Callers : req'[p].i = i /\ req'[p].pc \in {"unlink", "record", "forget", "row"}
<1> DEFINE c == row[i].jid
<1>1. c # None /\ c \in Clients /\ sessions[i] = c /\ client[c].i = i /\ Up(c)
  BY RowType DEF Serves, Up, HasID
<1>2. SessionsMove /\ ClientsServe
  BY SessionsMoved, ClientStep
<1>3. (client'[c].sock = "on" /\ client'[c].dev # "none") \/ Down(c)
  BY <1>1, <1>2 DEF ClientsServe
<1>4. sessions'[i] = c \/ \E p \in Callers : req'[p].i = i /\ req'[p].pc \in {"unlink", "row"}
  <2>1. CASE sessions'[i] = None /\ Removed(i)
    BY <2>1 DEF Removed, Stale
  <2>2. CASE loader.pc = "store" /\ i = client[loader.at].i /\ sessions'[i] = loader.at
    <3>1. ~serving
      BY <2>2 DEF Shape, Loading
    <3>2. row[client[loader.at].i].jid = loader.at
      BY <2>2, <3>1 DEF Restarting
    <3> QED BY <2>2, <3>2
  <2> QED BY <1>1, <1>2, <2>1, <2>2 DEF SessionsMove
<1> HIDE DEF c
<1>5. CASE Down(c)
  BY <1>1, <1>5, DownCorrects
<1> QED BY <1>3, <1>4, <1>5 DEF c

LEMMA OnlineStep == ASSUME Shape, Restarting, OnlineInv, [Next]_vars PROVE OnlineInv'
<1>1. Begun'
  BY BegunStep DEF OnlineInv
<1>2. ASSUME NEW i \in Instances, Stale(i)
      PROVE  \/ /\ row'[i].jid # None /\ sessions'[i] = row'[i].jid
                /\ client'[row'[i].jid].sock = "on" /\ client'[row'[i].jid].dev # "none"
             \/ StillCorrects(i)
             \/ \E p \in Callers : req'[p].i = i /\ req'[p].pc \in {"unlink", "record", "forget", "row"}
  <2>1. RowMove(i)
    BY RowMoved
  <2>2. CASE Serves(row'[i].jid, i) /\ UNCHANGED <<sessions, client>>
    BY <2>2 DEF Serves, HasID
  <2>3. CASE row[i].status = "online" /\ i \notin unserved /\ (row'[i].jid = row[i].jid \/ ~Serves(row[i].jid, i))
    <3>1. CASE Serves(row[i].jid, i)
      BY <1>2, <2>3, <3>1, ServeMoved DEF Serves
    <3>2. ASSUME NEW t \in tasks, Corrects(t, i) PROVE StillCorrects(i) \/ Failed(i)
      BY <1>2, <3>2, TaskCorrects
    <3>3. ASSUME NEW p \in Callers, Takes(p, i)
          PROVE  Failed(i) \/ (req'[p].i = i /\ req'[p].pc \in {"unlink", "record", "forget", "row"})
      BY <1>2, <3>3, ReqCorrects
    <3>4. CASE Failed(i)
      <4>1. Serves(row[i].jid, i)
        BY <1>2, <3>4 DEF Failed, Fails, Stale
      <4> QED BY <3>4, <4>1 DEF Failed, Fails, Serves, HasID
    <3> QED BY <2>3, <3>1, <3>2, <3>3, <3>4 DEF OnlineInv, Correcting
  <2> QED BY <1>2, <2>1, <2>2, <2>3 DEF RowMove
<1> QED BY <1>1, <1>2 DEF OnlineInv, Stale, Serves, HasID, Correcting, Corrects, Takes, StillCorrects

\* When nothing is in progress, an instance that the database calls online is in memory
\* and connected, but for the races that unserved records and the rows of before a restart
\* (eventHandler, DeleteSession, LoadAllDevices).
THEOREM OnlineIsServedHolds == Spec => []OnlineIsServed
<1>1. Init => Restarting /\ OnlineInv
  BY DEF Init, Restarting, OnlineInv, Begun
<1>2. OnlineInv => OnlineIsServed
  BY DEF OnlineInv, OnlineIsServed, AtRest, Correcting, Corrects, Takes
<1> QED BY <1>1, <1>2, ShapeInit, ShapeStep, RestartingStep, OnlineStep, PTL DEF Spec
=================================================================================
