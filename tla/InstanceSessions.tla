-------------------------- MODULE InstanceSessions --------------------------
(***************************************************************************)
(* The WhatsApp sessions of the API server: internal/service/whatsapp.go,  *)
(* the pairing endpoints of internal/handler/auth.go and the columns of    *)
(* the instances table they write (internal/model/instance.go).            *)
(*                                                                         *)
(* An instance is a row of the database and, in memory, at most one entry  *)
(* of the map `sessions'.  Four kinds of activity run at the same time:    *)
(* the event handlers whatsmeow starts for a client (one goroutine for     *)
(* each event), the API's requests, the goroutines that drive a QR pairing *)
(* attempt, and, before the server accepts requests, the loader of the     *)
(* saved devices.  They share the map, a flag for each logout in progress  *)
(* and the row, under separate locks, so that each action below is one     *)
(* critical section or one statement of the code.                          *)
(*                                                                         *)
(* A client is identified with the device it signs in as (its JID): the    *)
(* restarted server makes a new whatsmeow client for a saved device, and   *)
(* the model uses the same element of Clients for it.  Delays (the 3 to 8  *)
(* seconds before a reconnected device is activated, the pause between two *)
(* devices at start-up) are the steps that other processes may take        *)
(* between two actions.  The heartbeat goroutines, which write nothing     *)
(* that is shared, are left out.                                           *)
(***************************************************************************)
EXTENDS Naturals, FiniteSets

CONSTANTS
    Instances,  \* the instances, by instance_id
    Clients,    \* the devices that may ever be created
    Attempts,   \* the QR pairing attempts
    Callers,    \* the API's requests in progress at the same time
    None,
    MaxDrops,   \* bound: how often the network fails or a device is taken away from its client
    MaxFaults,  \* bound: how often a statement on the row fails
    MaxCrashes, \* bound: how often the server restarts
    MaxCalls    \* bound: how many requests are made

ASSUME SessionAssumption ==
    /\ None \notin Clients \cup Attempts \cup Instances
    /\ {MaxDrops, MaxFaults, MaxCrashes, MaxCalls} \subseteq Nat

VARIABLES
    row,        \* the instances table: status, is_connected and jid of each instance
    sessions,   \* the map sessions: the client of each instance
    client,     \* of each client: its instance, its device store, its socket, Session.IsConnected
    loggingOut, \* the instances whose flag loggingOut is set
    tasks,      \* the event handlers that run
    req,        \* the request each caller makes
    qr,         \* the map qrCancelFuncs
    att,        \* the pairing attempts
    loader,     \* the devices LoadAllDevices has still to visit, and the one it is at
    serving,    \* does the server accept requests?
    left,       \* what the bounds still allow
    unserved,   \* history: rows that say online by one of the ways OnlineIsServed names
    outrun,     \* history: attempts that ran while another one of their instance did
    out,        \* history: clients that a logout request took down
    kept        \* history: clients that WhatsApp could not unlink at their logout

vars == <<row, sessions, client, loggingOut, tasks, req, qr, att, loader, serving,
          left, unserved, outrun, out, kept>>

history == <<unserved, outrun, out, kept>>

Status == {"absent", "qr_required", "online", "disconnected", "logged_out", "deleted"}
Gone == {"absent", "deleted"}   \* no row yet, no row any more
Device == {"none", "paired", "erased"}   \* erased: deleted in the database, its id still in memory
Socket == {"off", "on", "lost"}          \* lost: whatsmeow will connect again by itself
Idle == [i |-> None, pc |-> "idle", c |-> None]
NoAttempt == [i |-> None, c |-> None, pc |-> "new", cancelled |-> FALSE]

Init ==
    /\ row = [i \in Instances |-> [status |-> "absent", connected |-> FALSE, jid |-> None]]
    /\ sessions = [i \in Instances |-> None]
    /\ client = [c \in Clients |-> [i |-> None, dev |-> "none", sock |-> "off", marked |-> FALSE]]
    /\ loggingOut = {}
    /\ tasks = {}
    /\ req = [p \in Callers |-> Idle]
    /\ qr = [i \in Instances |-> None]
    /\ att = [a \in Attempts |-> NoAttempt]
    /\ loader = [todo |-> {}, at |-> None, pc |-> "done"]
    /\ serving = TRUE
    /\ left = [drops |-> MaxDrops, faults |-> MaxFaults, crashes |-> MaxCrashes, calls |-> MaxCalls]
    /\ unserved = {} /\ outrun = {} /\ out = {} /\ kept = {}

\* session.Client.Store.ID # nil
HasID(c) == client[c].dev # "none"

\* Is client c the session of the instance, paired and connected?
Serves(c, i) == c # None /\ sessions[i] = c /\ client[c].sock = "on" /\ HasID(c)

(***************************************************************************)
(* The statements on the row.  An UPDATE of a row that is gone changes     *)
(* nothing.                                                                *)
(***************************************************************************)
Set(i, status, connected, jid) ==
    IF row[i].status \in Gone THEN UNCHANGED <<row, unserved>>
    ELSE /\ row' = [row EXCEPT ![i] = [status |-> status, connected |-> connected, jid |-> jid]]
         /\ unserved' = IF status = "online" /\ ~Serves(jid, i) THEN unserved \cup {i}
                                                           ELSE unserved \ {i}

UpdateInstanceOnConnected(i, c) == Set(i, "online", TRUE, c)
UpdateInstanceOnDisconnected(i) == Set(i, "disconnected", FALSE, row[i].jid)
UpdateInstanceOnLoggedOut(i) == Set(i, "logged_out", FALSE, row[i].jid)
UpdateInstanceStatus(i) == Set(i, "logged_out", FALSE, row[i].jid)

\* The code of a pairing attempt: is_connected and jid keep their values.
UpdateInstanceQR(i) == Set(i, "qr_required", row[i].connected, row[i].jid)

Fault == left.faults > 0 /\ left' = [left EXCEPT !.faults = @ - 1]

\* The statement fails, which is only logged: the row says what it said.
Fails(i) ==
    /\ Fault
    /\ UNCHANGED row
    /\ unserved' = unserved \cup
          {j \in {i} : row[j].status = "online" /\ ~Serves(row[j].jid, j)}

\* GetInstanceByInstanceID, after a write, for the event: without the row the
\* handler panics.
Reads(i)  == row[i].status \notin Gone /\ UNCHANGED left
Panics(i) == IF row[i].status \in Gone THEN UNCHANGED left ELSE Fault

(***************************************************************************)
(* What WhatsApp does to a client (external: go.mau.fi/whatsmeow, as       *)
(* eventHandler receives it).  Each event starts a handler of its own.     *)
(***************************************************************************)
Task(kind, c, pc) == [kind |-> kind, c |-> c, pc |-> pc]

\* Deviation: a lost connection is not handled.
IgnoreDisconnected(kind, c) ==
    tasks' = IF kind = "disconnected" THEN tasks
             ELSE tasks \cup {Task(kind, c, IF kind = "loggedOut" THEN "close" ELSE "check")}

eventHandler(kind, c) ==
    tasks' = tasks \cup {Task(kind, c, IF kind = "loggedOut" THEN "close" ELSE "check")}

NetDown(c) ==
    /\ left.drops > 0 /\ client[c].sock = "on" /\ HasID(c)
    /\ left' = [left EXCEPT !.drops = @ - 1]
    /\ client' = [client EXCEPT ![c].sock = "lost"]
    /\ eventHandler("disconnected", c)
    /\ UNCHANGED <<row, sessions, loggingOut, req, qr, att, loader, serving, history>>

NetUp(c) ==
    /\ client[c].sock = "lost" /\ HasID(c)
    /\ client' = [client EXCEPT ![c].sock = "on"]
    /\ eventHandler("connected", c)
    /\ UNCHANGED <<row, sessions, loggingOut, req, qr, att, loader, serving, left, history>>

\* The phone's owner removes the device: whatsmeow deletes its store and reports it.
Unlink(c) ==
    /\ left.drops > 0 /\ client[c].sock = "on" /\ client[c].dev = "paired"
    /\ left' = [left EXCEPT !.drops = @ - 1]
    /\ client' = [client EXCEPT ![c].sock = "off", ![c].dev = "none"]
    /\ eventHandler("loggedOut", c)
    /\ UNCHANGED <<row, sessions, loggingOut, req, qr, att, loader, serving, history>>

\* The device is used elsewhere, which the handler prints only; a temporary ban
\* or a client too old, which it ignores, end the connection the same way.
StreamReplaced(c) ==
    /\ left.drops > 0 /\ client[c].sock = "on" /\ HasID(c)
    /\ left' = [left EXCEPT !.drops = @ - 1]
    /\ client' = [client EXCEPT ![c].sock = "off"]
    /\ unserved' = unserved \cup {i \in {client[c].i} : row[i].status = "online"}
    /\ UNCHANGED <<row, sessions, loggingOut, tasks, req, qr, att, loader, serving,
                   outrun, out, kept>>

(***************************************************************************)
(* The event handlers.                                                     *)
(***************************************************************************)
Advance(t, pc) == tasks' = (tasks \ {t}) \cup {[t EXCEPT !.pc = pc]}
Finish(t) == tasks' = tasks \ {t}

\* isLoggingOut, the first thing a connected or disconnected handler looks at
Check(t) ==
    /\ t.pc = "check"
    /\ LET i == client[t.c].i
       IN IF i \in loggingOut
          THEN /\ Finish(t)
               /\ unserved' = IF t.kind = "disconnected" /\ row[i].status = "online"
                              THEN unserved \cup {i} ELSE unserved
          ELSE Advance(t, "mark") /\ UNCHANGED unserved
    /\ UNCHANGED <<row, sessions, client, loggingOut, req, qr, att, loader, serving, left,
                   outrun, out, kept>>

\* markSessionConnected: the session of the instance, which need not be this client's
MarkConnected(t) ==
    /\ t.kind = "connected" /\ t.pc = "mark"
    /\ LET s == sessions[client[t.c].i]
       IN IF s = None THEN Finish(t) /\ UNCHANGED client
          ELSE /\ client' = [client EXCEPT ![s].marked = TRUE]
               /\ tasks' = (tasks \ {t}) \cup {Task("connected", s, "record")}
    /\ UNCHANGED <<row, sessions, loggingOut, req, qr, att, loader, serving, left, history>>

\* After the presence and the delay: no second look at the flag or the map
RecordConnected(t) ==
    /\ t.kind = "connected" /\ t.pc = "record"
    /\ Finish(t)
    /\ \/ HasID(t.c) /\ UpdateInstanceOnConnected(client[t.c].i, t.c) /\ UNCHANGED left
       \/ HasID(t.c) /\ Fails(client[t.c].i)
       \/ ~HasID(t.c) /\ UNCHANGED <<row, unserved, left>>
    /\ UNCHANGED <<sessions, client, loggingOut, req, qr, att, loader, serving,
                   outrun, out, kept>>

MarkDisconnected(t) ==
    /\ t.kind = "disconnected" /\ t.pc = "mark"
    /\ LET s == sessions[client[t.c].i]
       IN client' = IF s = None THEN client ELSE [client EXCEPT ![s].marked = FALSE]
    /\ Advance(t, "record")
    /\ UNCHANGED <<row, sessions, loggingOut, req, qr, att, loader, serving, left, history>>

RecordDisconnected(t) ==
    /\ t.kind = "disconnected" /\ t.pc = "record"
    /\ Finish(t)
    /\ \/ UpdateInstanceOnDisconnected(client[t.c].i) /\ UNCHANGED left
       \/ Fails(client[t.c].i)
    /\ UNCHANGED <<sessions, client, loggingOut, req, qr, att, loader, serving,
                   outrun, out, kept>>

\* closeLoggedOutSession acts on whatever session the instance has now; a failure
\* of DeleteDevice is only logged.
CloseLoggedOut(t) ==
    /\ t.kind = "loggedOut" /\ t.pc = "close"
    /\ LET s == sessions[client[t.c].i]
       IN IF s = None THEN UNCHANGED client
          ELSE \E dev \in {client[s].dev} \cup IF client[s].dev = "paired" THEN {"erased"} ELSE {} :
                  client' = [client EXCEPT ![s].marked = FALSE, ![s].sock = "off", ![s].dev = dev]
    /\ Advance(t, "record")
    /\ UNCHANGED <<row, sessions, loggingOut, req, qr, att, loader, serving, left, history>>

RecordLoggedOut(t) ==
    /\ t.kind = "loggedOut" /\ t.pc = "record"
    /\ LET i == client[t.c].i
       IN \/ UpdateInstanceOnLoggedOut(i) /\ Reads(i) /\ Advance(t, "remove")
          \/ UpdateInstanceOnLoggedOut(i) /\ Panics(i) /\ Finish(t)
          \/ Fails(i) /\ Advance(t, "remove")
    /\ UNCHANGED <<sessions, client, loggingOut, req, qr, att, loader, serving,
                   outrun, out, kept>>

\* Whatever session the instance has by now: a new pairing may have come in between.
RemoveLoggedOut(t) ==
    /\ t.kind = "loggedOut" /\ t.pc = "remove"
    /\ Finish(t)
    /\ sessions' = [sessions EXCEPT ![client[t.c].i] = None]
    /\ unserved' = unserved \cup {i \in {client[t.c].i} : row[i].status = "online"}
    /\ UNCHANGED <<row, client, loggingOut, req, qr, att, loader, serving, left,
                   outrun, out, kept>>

Handle(t) ==
    \/ Check(t) \/ MarkConnected(t) \/ RecordConnected(t)
    \/ MarkDisconnected(t) \/ RecordDisconnected(t)
    \/ CloseLoggedOut(t) \/ RecordLoggedOut(t) \/ RemoveLoggedOut(t)

(***************************************************************************)
(* The API's requests.                                                     *)
(***************************************************************************)
Step(p, pc) == req' = [req EXCEPT ![p].pc = pc]
Answer(p) == req' = [req EXCEPT ![p] = Idle]

\* A caller that waits for nothing makes a request about an instance.
Begins(p, i) ==
    /\ serving /\ left.calls > 0 /\ req[p] = Idle /\ row[i].status # "absent"
    /\ left' = [left EXCEPT !.calls = @ - 1]

Goes(p, i, pc) == req' = [req EXCEPT ![p] = [i |-> i, c |-> None, pc |-> pc]]

Fresh == {c \in Clients : client[c].i = None}

\* CreateSession: a new device and client, stored under the map's lock
CreateSession(i, c) ==
    /\ sessions[i] = None /\ c \in Fresh
    /\ sessions' = [sessions EXCEPT ![i] = c]
    /\ client' = [client EXCEPT ![c].i = i]

\* The row is inserted, unless the user has as many instances as the limit
\* allows or the database refuses it.
persistNewInstance(i) ==
    \/ row' = [row EXCEPT ![i].status = "qr_required"]
    \/ UNCHANGED row

\* POST /login: a new session, then the row; without a row the session stays in memory.
Login(i, c) ==
    /\ serving /\ row[i].status = "absent"
    /\ CreateSession(i, c)
    /\ persistNewInstance(i)
    /\ UNCHANGED <<loggingOut, tasks, req, qr, att, loader, serving, left, history>>

(* GET /qr/:instanceId *)
CheckQR(p, i) ==
    /\ Begins(p, i)
    /\ IF qr[i] # None THEN Answer(p) ELSE Goes(p, i, "session")
    /\ UNCHANGED <<row, sessions, client, loggingOut, tasks, qr, att, loader, serving, history>>

QRSession(p) ==
    LET i == req[p].i
    IN /\ req[p].pc = "session"
       /\ IF sessions[i] = None
          THEN \E c \in Fresh :
                  /\ CreateSession(i, c)
                  /\ req' = [req EXCEPT ![p].pc = "register", ![p].c = c]
          ELSE /\ IF client[sessions[i]].marked THEN Answer(p)
                  ELSE req' = [req EXCEPT ![p].pc = "register", ![p].c = sessions[i]]
               /\ UNCHANGED <<sessions, client>>
       /\ UNCHANGED <<row, loggingOut, tasks, qr, att, loader, serving, left, history>>

Unused == {a \in Attempts : att[a] = NoAttempt}
Running(i) == {a \in Attempts : att[a].i = i /\ att[a].pc \in {"start", "listen", "end"}}

RegisterQR(p, a) ==
    LET i == req[p].i
    IN /\ req[p].pc = "register" /\ a \in Unused
       /\ qr' = [qr EXCEPT ![i] = a]
       /\ outrun' = IF Running(i) = {} THEN outrun ELSE outrun \cup Running(i) \cup {a}
       /\ att' = [att EXCEPT ![a] = [NoAttempt EXCEPT !.i = i, !.c = req[p].c, !.pc = "start"]]
       /\ Answer(p)
       /\ UNCHANGED <<row, sessions, client, loggingOut, tasks, loader, serving, left,
                      unserved, out, kept>>

\* DELETE /qr/:instanceId
CancelQR(p, i) ==
    /\ Begins(p, i)
    /\ att' = IF qr[i] = None THEN att ELSE [att EXCEPT ![qr[i]].cancelled = TRUE]
    /\ Answer(p)
    /\ UNCHANGED <<row, sessions, client, loggingOut, tasks, qr, loader, serving, history>>

(* POST /logout/:instanceId: DeleteSession *)
SetFlag(p, i) ==
    /\ Begins(p, i)
    /\ loggingOut' = loggingOut \cup {i}
    /\ Goes(p, i, "take")
    /\ UNCHANGED <<row, sessions, client, tasks, qr, att, loader, serving, history>>

TakeSession(p) ==
    LET s == sessions[req[p].i]
    IN /\ req[p].pc = "take"
       /\ req' = [req EXCEPT ![p].pc = IF s = None THEN "clear" ELSE "unlink", ![p].c = s]
       /\ sessions' = [sessions EXCEPT ![req[p].i] = None]
       /\ UNCHANGED <<row, client, loggingOut, tasks, qr, att, loader, serving, left, history>>

\* Deviation: the client is disconnected and its device left linked.
DisconnectOnly(p) ==
    /\ req[p].pc = "unlink" /\ Step(p, "record")
    /\ client' = [client EXCEPT ![req[p].c].sock = "off"]
    /\ out' = out \cup {req[p].c}
    /\ UNCHANGED <<row, sessions, loggingOut, tasks, qr, att, loader, serving, left,
                   unserved, outrun, kept>>

\* Client.Logout deletes the device unless WhatsApp cannot be told; Disconnect.
LogoutClient(p) ==
    LET c == req[p].c
    IN /\ req[p].pc = "unlink"
       /\ \/ /\ client[c].sock = "on" /\ HasID(c)
             /\ client' = [client EXCEPT ![c].dev = "none", ![c].sock = "off"]
             /\ UNCHANGED kept
          \/ /\ client' = [client EXCEPT ![c].sock = "off"]
             /\ kept' = IF HasID(c) THEN kept \cup {c} ELSE kept
       /\ out' = out \cup {c}
       /\ Step(p, "record")
       /\ UNCHANGED <<row, sessions, loggingOut, tasks, qr, att, loader, serving, left,
                      unserved, outrun>>

\* A panic leaves the flag set.
RecordLogout(p) ==
    /\ req[p].pc = "record"
    /\ LET i == req[p].i
       IN \/ UpdateInstanceStatus(i) /\ Reads(i) /\ Step(p, "clear")
          \/ UpdateInstanceStatus(i) /\ Panics(i) /\ Answer(p)
          \/ Fails(i) /\ Step(p, "clear")
    /\ UNCHANGED <<sessions, client, loggingOut, tasks, qr, att, loader, serving,
                   outrun, out, kept>>

\* The flag belongs to the instance, not to the request that set it.
ClearFlag(p) ==
    /\ req[p].pc = "clear"
    /\ loggingOut' = loggingOut \ {req[p].i}
    /\ Answer(p)
    /\ UNCHANGED <<row, sessions, client, tasks, qr, att, loader, serving, left, history>>

(* DELETE /instances/:instanceId: DeleteInstance *)
ReadRow(p, i) ==
    /\ Begins(p, i)
    /\ IF row[i].status \in Gone \cup {"online"} \/ row[i].connected THEN Answer(p)
                                                                  ELSE Goes(p, i, "drop")
    /\ UNCHANGED <<row, sessions, client, loggingOut, tasks, qr, att, loader, serving, history>>

\* The error of Store.Delete is not looked at.
DropClient(p) ==
    LET s == sessions[req[p].i]
    IN /\ req[p].pc = "drop"
       /\ IF s = None THEN Step(p, "row") /\ UNCHANGED client
          ELSE /\ \E dev \in {"none", client[s].dev} :
                     client' = [client EXCEPT ![s].sock = "off", ![s].dev = dev]
               /\ Step(p, "forget")
       /\ UNCHANGED <<row, sessions, loggingOut, tasks, qr, att, loader, serving, left, history>>

DeleteSessionFromMemory(p) ==
    /\ req[p].pc = "forget"
    /\ sessions' = [sessions EXCEPT ![req[p].i] = None]
    /\ Step(p, "row")
    /\ UNCHANGED <<row, client, loggingOut, tasks, qr, att, loader, serving, left, history>>

DeleteRow(p) ==
    /\ req[p].pc = "row"
    /\ \/ /\ row' = [row EXCEPT ![req[p].i] = [@ EXCEPT !.status = "deleted", !.connected = FALSE]]
          /\ unserved' = unserved \ {req[p].i}
          /\ UNCHANGED left
       \/ Fails(req[p].i)
    /\ Answer(p)
    /\ UNCHANGED <<sessions, client, loggingOut, tasks, qr, att, loader, serving,
                   outrun, out, kept>>

Request(p) ==
    \/ \E i \in Instances : CheckQR(p, i) \/ CancelQR(p, i) \/ SetFlag(p, i) \/ ReadRow(p, i)
    \/ QRSession(p) \/ (\E a \in Attempts : RegisterQR(p, a))
    \/ TakeSession(p) \/ LogoutClient(p) \/ RecordLogout(p) \/ ClearFlag(p)
    \/ DropClient(p) \/ DeleteSessionFromMemory(p) \/ DeleteRow(p)

(***************************************************************************)
(* runQRGeneration: the goroutine of a pairing attempt.                    *)
(***************************************************************************)
Attempt(a, pc) == att' = [att EXCEPT ![a].pc = pc]

\* Deviation: an attempt that cannot start returns past its clean-up.
FailQuietly(a) ==
    LET c == att[a].c
    IN /\ att[a].pc = "start"
       /\ \/ Attempt(a, "done") /\ UNCHANGED client
          \/ /\ client[c].sock = "off" /\ ~HasID(c)
             /\ client' = [client EXCEPT ![c].sock = "on"]
             /\ Attempt(a, "listen")
       /\ UNCHANGED <<row, sessions, loggingOut, tasks, req, qr, loader, serving, left, history>>

\* GetQRChannel and Connect fail for a client that is connected or paired.
StartQR(a) ==
    LET c == att[a].c
    IN /\ att[a].pc = "start"
       /\ \/ Attempt(a, "end") /\ UNCHANGED client
          \/ /\ client[c].sock = "off" /\ ~HasID(c)
             /\ client' = [client EXCEPT ![c].sock = "on"]
             /\ Attempt(a, "listen")
       /\ UNCHANGED <<row, sessions, loggingOut, tasks, req, qr, loader, serving, left, history>>

\* A code from the channel is stored, while the client waits for its phone.
publishQRCode(a) ==
    /\ att[a].pc = "listen" /\ ~att[a].cancelled
    /\ client[att[a].c].sock = "on" /\ ~HasID(att[a].c)
    /\ UpdateInstanceQR(att[a].i)
    /\ UNCHANGED <<sessions, client, loggingOut, tasks, req, qr, att, loader, serving, left,
                   outrun, out, kept>>

\* The phone scans a code: the device is saved and the client signs in (external).
\* It is a new device: a row that names the client's former one names nothing now.
Scan(a) ==
    LET c == att[a].c
    IN /\ att[a].pc = "listen" /\ client[c].sock = "on" /\ ~HasID(c)
       /\ client' = [client EXCEPT ![c].dev = "paired"]
       /\ row' = [i \in Instances |-> [row[i] EXCEPT !.jid = IF @ = c THEN None ELSE @]]
       /\ out' = out \ {c} /\ kept' = kept \ {c}
       /\ eventHandler("connected", c)
       /\ UNCHANGED <<sessions, loggingOut, req, qr, att, loader, serving, left, unserved, outrun>>

\* Success, timeout, an error or the context: whatsmeow closes the channel, and
\* disconnects a client that was not paired.
EndQR(a) ==
    LET c == att[a].c
    IN /\ att[a].pc = "listen"
       /\ client' = IF HasID(c) THEN client ELSE [client EXCEPT ![c].sock = "off"]
       /\ Attempt(a, "end")
       /\ UNCHANGED <<row, sessions, loggingOut, tasks, req, qr, loader, serving, left, history>>

\* The deferred function removes the entry of the instance, whoever made it.
ReleaseQR(a) ==
    /\ att[a].pc = "end"
    /\ qr' = [qr EXCEPT ![att[a].i] = None]
    /\ Attempt(a, "done")
    /\ UNCHANGED <<row, sessions, client, loggingOut, tasks, req, loader, serving, left, history>>

Pairing(a) == StartQR(a) \/ publishQRCode(a) \/ EndQR(a) \/ ReleaseQR(a)

(***************************************************************************)
(* A restart, and LoadAllDevices.                                          *)
(***************************************************************************)
Crash ==
    /\ left.crashes > 0
    /\ left' = [left EXCEPT !.crashes = @ - 1]
    /\ sessions' = [i \in Instances |-> None]
    /\ client' = [c \in Clients |-> [client[c] EXCEPT !.sock = "off", !.marked = FALSE,
                                        !.dev = IF @ = "paired" THEN "paired" ELSE "none"]]
    /\ loggingOut' = {} /\ tasks' = {}
    /\ req' = [p \in Callers |-> Idle]
    /\ qr' = [i \in Instances |-> None]
    /\ att' = [a \in Attempts |-> IF a \in Unused THEN NoAttempt ELSE [att[a] EXCEPT !.pc = "done"]]
    /\ loader' = [todo |-> {c \in Clients : client[c].dev = "paired"}, at |-> None, pc |-> "next"]
    /\ serving' = FALSE
    /\ unserved' = unserved \cup {i \in Instances : row[i].status = "online"}
    /\ UNCHANGED <<row, outrun, out, kept>>

Visit(c) ==
    LET found == \E i \in Instances : row[i].jid = c /\ row[i].status \notin Gone
    IN /\ loader.pc = "next" /\ c \in loader.todo
       /\ \/ /\ loader' = [loader EXCEPT !.todo = @ \ {c}]   \* no row, or Connect failed
             /\ UNCHANGED <<client, tasks>>
          \/ /\ found
             /\ loader' = [todo |-> loader.todo \ {c}, at |-> c, pc |-> "store"]
             /\ client' = [client EXCEPT ![c].sock = "on"]
             /\ eventHandler("connected", c)
       /\ UNCHANGED <<row, sessions, loggingOut, req, qr, att, serving, left, history>>

StoreLoaded ==
    LET c == loader.at
    IN /\ loader.pc = "store"
       /\ sessions' = [sessions EXCEPT ![client[c].i] = c]
       /\ client' = [client EXCEPT ![c].marked = client[c].sock = "on"]
       /\ loader' = [loader EXCEPT !.pc = IF client[c].sock = "on" THEN "record" ELSE "next"]
       /\ UNCHANGED <<row, loggingOut, tasks, req, qr, att, serving, left, history>>

RecordLoaded ==
    /\ loader.pc = "record"
    /\ \/ UpdateInstanceOnConnected(client[loader.at].i, loader.at) /\ UNCHANGED left
       \/ Fails(client[loader.at].i)
    /\ loader' = [loader EXCEPT !.pc = "next"]
    /\ UNCHANGED <<sessions, client, loggingOut, tasks, req, qr, att, serving,
                   outrun, out, kept>>

Serve ==
    /\ loader.pc = "next" /\ loader.todo = {}
    /\ loader' = [loader EXCEPT !.pc = "done"]
    /\ serving' = TRUE
    /\ UNCHANGED <<row, sessions, client, loggingOut, tasks, req, qr, att, left, history>>

LoadAllDevices == (\E c \in Clients : Visit(c)) \/ StoreLoaded \/ RecordLoaded \/ Serve

Next ==
    \/ \E c \in Clients : NetDown(c) \/ NetUp(c) \/ Unlink(c) \/ StreamReplaced(c)
    \/ \E t \in tasks : Handle(t)
    \/ \E i \in Instances, c \in Clients : Login(i, c)
    \/ \E p \in Callers : Request(p)
    \/ \E a \in Attempts : Pairing(a) \/ Scan(a)
    \/ LoadAllDevices
    \/ Crash

Spec == Init /\ [][Next]_vars

(***************************************************************************)
(* Properties.                                                             *)
(***************************************************************************)
TypeOK ==
    /\ row \in [Instances -> [status : Status, connected : BOOLEAN, jid : Clients \cup {None}]]
    /\ sessions \in [Instances -> Clients \cup {None}]
    /\ client \in [Clients -> [i : Instances \cup {None}, dev : Device, sock : Socket, marked : BOOLEAN]]
    /\ loggingOut \subseteq Instances
    /\ tasks \subseteq [kind : {"connected", "disconnected", "loggedOut"}, c : Clients,
                        pc : {"check", "mark", "close", "record", "remove"}]
    /\ req \in [Callers -> [i : Instances \cup {None}, c : Clients \cup {None},
                            pc : {"idle", "session", "register", "take", "unlink", "record", "clear",
                                  "drop", "forget", "row"}]]
    /\ qr \in [Instances -> Attempts \cup {None}]
    /\ att \in [Attempts -> [i : Instances \cup {None}, c : Clients \cup {None}, cancelled : BOOLEAN,
                             pc : {"new", "start", "listen", "end", "done"}]]
    /\ loader \in [todo : SUBSET Clients, at : Clients \cup {None}, pc : {"next", "store", "record", "done"}]
    /\ serving \in BOOLEAN
    /\ left \in [drops : 0..MaxDrops, faults : 0..MaxFaults, crashes : 0..MaxCrashes, calls : 0..MaxCalls]
    /\ unserved \subseteq Instances /\ outrun \subseteq Attempts
    /\ out \subseteq Clients /\ kept \subseteq Clients

\* Nothing is in progress for the instance.
AtRest(i) ==
    /\ serving
    /\ \A t \in tasks : client[t.c].i # i
    /\ \A p \in Callers : req[p].i # i
    /\ \A a \in Attempts : att[a].i = i => att[a].pc = "done"

(* The hazard of a row that outlives its session.  When nothing is in      *)
(* progress, an instance that the database calls online is in memory and   *)
(* connected, so that the worker does not route messages to a dead         *)
(* session, unless its row was last set online by a step that no longer    *)
(* had such a session behind it (a connected handler that slept through a  *)
(* logout), unless the flag of a logout swallowed a disconnect (the flag   *)
(* stays set for good when the logout panics over a row it cannot read),   *)
(* unless a logged out handler removed a session paired meanwhile, the     *)
(* session ended in an event that eventHandler does not act on, the        *)
(* statement that was to say so failed, or the row is left from before a   *)
(* restart.                                                                *)
OnlineIsServed ==
    \A i \in Instances : AtRest(i) /\ row[i].status = "online" =>
                            Serves(row[i].jid, i) \/ i \in unserved

(* A device that a logout request has removed does not serve its instance  *)
(* again, not even after a restart, unless WhatsApp could not be told: the *)
(* error of Client.Logout is only printed, and the saved device comes back *)
(* with the next start.                                                    *)
LogoutIsFinal == \A i \in Instances : sessions[i] \in out => sessions[i] \in kept

(* The hazard of two GetQR requests that both find no attempt in progress. *)
(* A slot never outlives its attempt: whichever way it ends, the instance  *)
(* can be paired again; and an attempt that runs is the one DELETE /qr     *)
(* cancels, unless another one of the instance ran at the same time: one   *)
(* may overwrite the other's cancel function, and the first to end removes *)
(* whichever is there, be it a third one's.                                *)
SlotMatchesAttempt ==
    /\ \A i \in Instances : qr[i] # None => att[qr[i]].pc \notin {"new", "done"}
    /\ \A a \in Attempts : att[a].pc \in {"start", "listen", "end"} =>
                               qr[att[a].i] = a \/ a \in outrun

=============================================================================
