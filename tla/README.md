# Verification of Charon

TLA+ specifications of Charon (a WhatsApp gateway: a Go API server, a Go worker
process and PostgreSQL), the TLC configurations that check them on small
instances, and TLAPS proofs of their main properties for all instances. Paths
are relative to the repository.

Check one run with `tlc -config WarmingRooms.cfg WarmingRooms.tla`, one proof
module with `tlapm WarmingRoomsProofs.tla`. `PROJECT.json` lists the runs, the
deviations each property is known to catch, the lines each definition stands
for, and the hazards of the code.

## 1. The system

Two programs share PostgreSQL. The **API server** (`src/main.go`) serves HTTP
and WebSockets, owns the WhatsApp connections and runs the warming worker. The
**worker process** (`src/cmd/worker`) sends the rows of the `outbox` table
through the API server's HTTP interface. Either can be run in several replicas,
and each is restarted by the container runtime (`docker-compose.yml`:
`restart: unless-stopped`).

    application --POST--> API server --INSERT--> outbox <--claim, record-- worker process
                             ^  |                                             |
                             |  +--whatsmeow--> WhatsApp                      |
                             +-------------- POST /api/send/... --------------+
    API server: sessions <-> events -> DB status, hub -> browsers, webhooks, auto reply
    API server: warming worker -> rooms table -> messages between own instances

### Components

**Outbox enqueue** (`internal/model/outbox.go`, `internal/handler/outbox.go`).
State: the rows of `outbox`. One transaction for each request takes the client's
advisory lock, counts the client's rows of the day, and inserts. Hard: the
date is the transaction's, the lock is waited for, the pool has 25 connections.
Correct when the daily limit is never exceeded and a batch is stored whole or
not at all. *Modelled: `OutboxEnqueue`.*

**Outbox delivery** (`cmd/worker/worker.go`, `model.go`, `api_client.go`).
State: each row's status and `claimed_at`; for each worker its cycle. A worker
claims the oldest pending row (`FOR UPDATE SKIP LOCKED`), resolves the
destination, picks an instance, calls the API and records the outcome; a reaper
requeues old claims. Hard: replicas, crashes, timeouts whose requests still
deliver, cancellation, updates by id alone. Correct when a claim has one
owner, a message goes out twice only when its first sender vanished, settled
rows stay settled, and every row is settled in the end. *Modelled:
`OutboxDelivery`, `OutboxContract`.*

**Worker manager** (`cmd/worker/manager.go`, `main.go`; the rows it runs by are
written in `internal/handler/worker_config.go`). State: `m.workers`, each
worker's context and `WaitGroup`; the table `outbox_worker_config`. Reload makes
the workers match the table's enabled rows; Stop drains them; the API's requests create,
update, switch and delete rows. Hard: a reload races with a shutdown, goroutines
with the `WaitGroup` they have not yet joined, an update with a switch. Correct
when a configuration never has two workers in a cycle, none is left running
unknown to the manager, and changes take effect. *Modelled: `WorkerManager`.*

**WebSocket hub** (`internal/ws/hub.go`). State: the clients, each with a
bounded channel and two pumps. Hard: slow clients, unbuffered register and
unregister, broadcasts that walk the map from other goroutines. Correct when a
registered client gets each event it may see once and in order, nobody sends on
a closed channel, and Run never stops. *Modelled: `Hub`.*

**Warming rooms** (`internal/worker/warming_worker.go`,
`internal/model/warming/warming_room.go`). State: each room's status,
`current_sequence`, `next_run_at`, an advisory lock. Replicas read the due
rooms, lock each, send the next line and write the progress. Hard: what was
read before the lock is used after it, users change the room meanwhile.
Correct when a script is sent in order, without gaps, to its end, and stopping
a room stops it. *Modelled: `WarmingRooms`.*

**Auto reply** (`internal/service/warming_auto_reply.go`,
`internal/handler/warming`, `internal/model/warming`). State: the time of the
last reply of each room (`lastReplyTime`), the room's row, the lines of its
script. An incoming message of a whitelisted human is answered, after a delay,
by the AI or by the next line of the script, while users edit, reorder and
generate lines and change rooms. Hard: the cooldown is loaded and stored in two
steps, the reply works from the room as it was before the delay, replies
overlap. Correct when one reply goes out in a cooldown, lines are answered in
order and none is passed over. *Modelled: `AutoReply`.*

**Sessions of instances** (`internal/service/whatsapp.go`,
`internal/model/instance.go`) and **QR pairing**
(`internal/handler/auth.go`). State: the map of sessions, the logout flags, one
cancel function for each instance being paired, and `instances.status` in the
database. Events of whatsmeow (connected, disconnected, logged out) race with
logout, deletion, pairing and the start-up loader. Correct when a row that says
online has a connected session once nothing is under way, a logged-out device does not
come back, and each pairing attempt can be cancelled and gives its place free.
*Modelled: `InstanceSessions`.*

**Webhooks** (`internal/service/webhook.go`, `internal/handler/webhook.go`).
State: a cache of URL and secret with a time to live; one goroutine for each
delivery, four attempts. Hard: a cache fill spans an update. Correct when a
configuration is used from its update on and a secret changes only when asked
for. *Modelled: `WebhookDelivery`.*

**Login sessions and accounts** (`internal/model/auth_session.go`, `user.go`,
`admin.go`, `internal/handler/user_auth.go`,
`internal/middleware/auth_middleware.go`). State: sessions with a sliding and an
absolute expiry, failure counters and locks, roles. Hard: each request is a
sequence of statements with no transaction. Correct when no session outlives its
cap or its password, a locked account is not tried further, and one
administrator remains, and where not, one of a few causes is to blame. *Modelled:
`Accounts`.*

**Start-up, phone numbers and their backfill** (`internal/helper/schema.go`,
`phone_backfill.go`, `phone.go`, `config/phone.go`, `cmd/worker/phone_region.go`,
`internal/model/system_setting.go`). State: the tables that exist, a marker and a
backup for the one-time rewriting of stored numbers, a region held in memory by
every process. Hard: several servers start at once, die between two statements,
and write next to other writers. Correct when a clean start has a whole schema,
the rewriting can be undone and lets other writers win, and the worker follows
the stored region. *Modelled: `Startup`.*

**API keys and permissions** (`internal/middleware/*`, `internal/model/api_key.go`):
one lookup for a request. **Request guards** (`internal/handler/response.go`,
`send_guard.go`, `session_guard.go`): helpers that write an error response and
return the result of writing it, which is nil. **Instance list cache**
(`cmd/worker/api_client.go`): one minute, shared by the workers of a process.
**Templates, logs, spintax, media, files, contacts, groups, web interface**: no
concurrent protocol of their own, or pure functions.

Start-up order of the API server (`src/main.go`): pools, schema, phone backfill,
saved devices (which connect and may already raise events), webhook sweeper, hub,
routes, warming worker, HTTP server. A termination signal cancels the warming
worker's context and gives requests 30 s.

## 2. The modules

| module | models | extended or used by |
|---|---|---|
| `OutboxContract` | what the outbox promises, without workers or claims | `OutboxDelivery` (`INSTANCE ... WITH`) |
| `OutboxDelivery` | claim, send, record, reap, cancel, crash | `MCOutboxDelivery`, `OutboxProofs` |
| `WorkerManager` | reload, stop, the life of worker goroutines, the requests that write its rows | `MCWorkerManager`, `WorkerManagerProofs` |
| `OutboxQuota` | what requests have stored, and the daily limit on it | `OutboxEnqueue`, `OutboxProofs` |
| `OutboxEnqueue` | the enqueue transactions and the connection pool | `MCOutboxEnqueue`, `OutboxProofs` (`INSTANCE ... WITH`) |
| `Hub` | Run, clients, pumps, broadcasts | `MCHub`, `EventProofs` |
| `WarmingRooms` | the room executors, users' requests | `WarmingRoomsProofs` |
| `AutoReply` | rooms with a human, their replies, script edits | `MCAutoReply`, `AutoReplyProofs` |
| `InstanceSessions` | sessions, events, logout, deletion, pairing, loader | `MCInstanceSessions`, `InstanceSessionsProofs` |
| `WebhookState` | the configuration where it is stored, cached and used, and what readers may rely on | `WebhookDelivery`, `EventProofs` |
| `WebhookDelivery` | the cache, its requests, the deliveries | `MCWebhookDelivery`, `EventProofs` (`INSTANCE`) |
| `Accounts` | logins, sessions, users, administrators | `MCAccounts`, `AccountsProofs` |
| `Startup` | schema, stored region, backfill, several servers | `MCStartup`, `StartupProofs` |

`OutboxQuota` and `WebhookState` are the state, and the promises made about it,
of a component whose proofs share a module with another one's: that module extends
them, so that its theorems are about the very definitions the runs check, and takes the
steps from an instance, whose names would otherwise collide.

The `MC` modules give the function-valued constants their values and define the
symmetry sets. A variable marked *history* is read by properties only, never by
a guard. A definition marked *Deviation* is a plausible bug, used by
`PROJECT.json` to show that a property notices it; no specification uses it.

### OutboxDelivery

A worker's `stage` is the point `runCycle` has reached: `idle`, `claiming` (the
claim statement holds the row lock of its subquery), `claimed`, `badPhone`,
`picking`, `sending`, ... and back to `idle`. `ClaimBegin`, `ClaimCommit`,
`ClaimRollback` and `ClaimLost` split `ClaimPendingOutbox` where another actor
can interfere. `Dispatch`, `ApiDelivers`, `AnswerSuccess`, `AnswerRefused` and
`CallFails` are the HTTP call seen from both sides; a call that fails leaves an
orphan in the API server, which sends with a background context
(`OrphanDelivers`, `OrphanEnds`). `RecordSuccess`, `RecordFailure` and
`RecordBadPhone` write by id alone; `RecordLost` is the write that fails and is
only logged. `Boot` and `Reap` are `ReapStaleClaims` at start and every 60 s;
`Crash` kills a process with its workers; a claim under way may still commit.

Time is an age for each row since its claim and for each worker since its own,
both counted up to `Lease + 1` (10 minutes and one unit), beyond which the code
does not distinguish them. `Tick` may not make a worker overstay `AttemptLimit`
in the stages whose calls carry a timeout (30 s, 5 s), and, unless
`DatabaseStalls`, in the others. The instance list, the pauses between cycles
and the message types are abstracted.

### WorkerManager

`FetchWorkerConfigs`, `ReloadLocks`, one `Apply...` action for each case of the
loop over configurations, `RemoveStopped`, `ReloadUnlocks` are `reload`;
`Shutdown`, `StopLocks`, `DrainWorker`, `Drained`, `StopReturns`, `ProcessExit`
are the signal handler and `Stop`. `Begin`, `RunCycle`, `EndCycle`, `Quit` are
the goroutine: `Begin` is its `wg.Add(1)`, which runs some time after `go`.
`CreateWorkerConfig`, `DeleteWorkerConfig` and `ToggleWorkerConfig` are one statement
each; an update is two, `LoadWorkerConfig` and `UpdateWorkerConfig`, and writes
back the enabled flag it read unless its request names another, whatever
was written between the two. A failed read of
the table (`FetchFails`) leaves everything as it is, but the process goes on.

### OutboxEnqueue

A request goes through `Begin` (takes a pool connection and fixes the
transaction's date), `Lock` (`pg_advisory_xact_lock`), `Count`, `Insert` for each
message, `Commit`; `Rollback` and `CommitLost` are the failures. `Midnight`
changes the date at any time.

### Hub

`Run`'s select is `Register`, `Leave`, `TakeEvent`, with `Offer` and `Drop` for
each client of an event's loop; `WritePump` and `ReadPump` are `Write`,
`WriteFails`, `WriteEnds`, `ReadFails`, `Leave`. `Broadcast`, `SendIncoming`,
`MissIncoming`, `SendOnClosed`, `EndBroadcast` are `BroadcastToInstance`, called by the
goroutines of incoming messages. A client that is offered an event with a full
channel is dropped. `crashed` stands for the panic of a send on a closed
channel.

### WarmingRooms

`Fetch` is `GetActiveRoomsForWorker`, whose result (`todo`) is used long after;
`Take` and `TryLockRoom`, `SelectLine`, `Send...`, `Record`, `Retry`, `Pause`, `Finish`
and `UnlockRoom` are `processActiveRooms` and `executeRoom` for one room.
`AskStatus` is the check of a transition, `UpdateRoomStatus` the write that follows it in a
statement of its own; `Restart` and `DeleteRoom` are one statement each. `history`
records what was sent since the last restart and why a repeat happened; no
action's guard reads it.

Abstracted: times other than due or not due. A reading returns every due room,
or `Limit` (ten) of them when there are more; which ones is left open, as
`next_run_at` is. Not modelled: an edit of a room or its
script while it runs, rooms with a human, an unlock that fails (its connection
is closed with the lock).

### AutoReply

A message goes through `Receive` (the room as it is read), `LoadStamp` and
`StoreStamp` (`inReplyCooldown`), the delay, then `AIReply`, or `SelectLine`,
`UpdateRoomProgress` or `ProgressFails`, and `SendReply`. A client hands over
one message at a time, two instances theirs at the same time. `Elapse` ages a
stamp. The requests that change a room or a script are one action for each
statement; `CleanupReplyTime` is the step that follows the write of a room's
status. `history` notes the lines tried, the lines edited, and why a line may go
out again; it goes on noting for a room that was deleted until the last reply to
it is given. What the AI answers is abstracted.

### InstanceSessions

A task is the goroutine of one event: `Check` looks at the logout flag,
`MarkConnected` or `MarkDisconnected` at the map, `RecordConnected` or
`RecordDisconnected` writes the row after the delay; `CloseLoggedOut`,
`RecordLoggedOut` and `RemoveLoggedOut` are `handleLoggedOutEvent`. `StreamReplaced`
ends a connection by an event that `eventHandler` only logs. A statement on the row
may fail (`Fails`): the code warns and goes on, so the row keeps what it said. The
read that follows a write may fail too, or find no row (`Reads`, `Panics`): the
handler then panics over the nil instance, a logged-out handler without the removal
that was to come, a logout without clearing its flag. A logout is `SetFlag`,
`TakeSession`, `LogoutClient`, `RecordLogout`, `ClearFlag`; a deletion adds
`ReadRow`, `DropClient`, `DeleteSessionFromMemory`, `DeleteRow`; GetQR is `CheckQR`,
`QRSession`, `RegisterQR`, and its goroutine `StartQR`, `publishQRCode`, `EndQR`,
`ReleaseQR`. `NetDown`, `NetUp`, `Unlink` and `Scan` are whatsmeow. `Crash` empties
the memory; `Visit`, `StoreLoaded` and `RecordLoaded` are `LoadAllDevices` before
`Serve`.

### WebhookDelivery

`Hit`, or `Load` and `Store`, are `GetWebhookConfig`; `Accepted` and `Failed` the
attempts of `SendIncomingWebhook`; `Ask`, `Update` and `InvalidateAndAnswer` the request
that sets a configuration; `DeleteRow` and `InvalidateDeleted` the deletion;
`Expire` and `sweepExpiredWebhookCache` the entry's end. Versions number the
writes of the row. A request that the address check refuses goes on, as the code
does after `ErrorResponse` has returned nil. Signatures and payloads are
abstracted.

### Accounts

A login is `BeginLogin` (the lock is asked for), `Authenticate`,
`IncrementFailedLogin` or `ResetFailedLogin`, `CreateAuthSession`; a password
change `UpdateUserPassword`, then `DestroyAllUserSessions`; an update or deletion by
an administrator likewise. `GetAuthSessionByToken` authenticates and leaves a
goroutine that extends the session later (`TouchAuthSession`); `Age` is time.
Any statement of a login, a password change, an update, a deletion or a seeding
may fail, and does what the code does then: a lookup of the lock that fails lets the login
go on as if there were no lock (`blind`), a failed deletion of sessions is only
logged (`Spare`), an update may be answered with an error although it was made,
and a failed seeding leaves the server without an administrator (`unseeded`).
`AdminDeleteUserAtomic` is the one transaction: it locks its row and counts
what is committed. `Restart` drops what is in progress and seeds an
administrator (`SeedAdminUser`).

### Startup

`Blocks` is `InitCustomSchema` as a sequence: the tables each block needs and makes,
whether its failure ends the process or is only logged, and what it then skips.
`RunBlock` runs one, `SeedTemplate` the templates, `ApplyStoredPhoneRegion` reads
the region (`read` keeps what it found), `ClaimPhoneBackfill` sets the marker,
`PlanTarget` and `ApplyPhoneUpdate` plan and rewrite. `SaveRegion` and `SwapRegion`
are an administrator's change, `RefreshPhoneRegion` the worker's reading.
`WriteNumber` and `Move` are the other writers of the rows, from the start of the
rewriting on. libphonenumber is two functions, constants of the module: `Parse`
reads a number with a default region, `Abroad` reads digits with a plus sign in
front. `NormalizePhone` is built from them as in the code, so that a canonical
number may be read as yet another one, and a room may keep digits that are no number
(`Whitelisted`). `Restored` is the outcome of the statements of `docs/DR.md`: one
UPDATE for each table, which for the rooms the unique index may undo as a whole.

## 3. The runs

Fault, cancel, edit, request, event and message counts are bounded by constants
named `Max...` or by the sets of requests and messages; they are guards of the
actions of the environment only. No run uses a state constraint.

| run | instance | shows |
|---|---|---|
| `delivery` | 2 processes with a worker each, 2 rows, 2 claims a row, 1 cancel, 1 fault | exclusive claims, duplicates only in doubt, the reaper spares the living, the contract is implemented |
| `stall` | 1 process, 2 workers, 1 row, `DatabaseStalls`, 1 cancel, 1 fault | what is left when an update without timeout outlasts the lease: one send for a claim, and every row settles |
| `manager` | 2 configurations, 3 workers, 2 changes, 1 update in progress | one cycle for a configuration, workers as the last reload read them; changes take effect, shutdown completes |
| `enqueue` | 2 clients, 4 requests, 2 connections, 1 midnight, 1 fault | the daily limit, every request answered however the pool and the lock are held |
| `hub` | 2 clients, buffers of 1, 2 events, 1 message | open channels, complete and ordered delivery, events are dispatched, clients that are gone are forgotten |
| `hub_race` | the same | **violation**: the map of clients changes under a broadcast |
| `warming` | 1 room, 2 replicas, 3 lines, 1 fault, 3 requests | no line skipped, repeats only for a cause, a finished room is complete, an active room comes to the end of its script |
| `auto_reply` | 2 rooms, 2 instances, 2 lines in 3 places, 3 messages and requests, 1 fault | one reply in a cooldown, no line lost, repeats only for a cause, no throttle left behind |
| `sessions` | 1 instance, 2 devices, 2 attempts, 2 callers, 3 requests, 1 drop, 1 fault, 1 crash | online means served but for the ways that are named, a logout lasts, an attempt can be cancelled and gives its place free |
| `webhook` | 2 messages, 2 requests, 1 deletion, 2 attempts | answered configurations are used, secrets are kept, entries of the deleted are forgotten |
| `accounts` | 2 users, 1 session, 2 requests at a time, 4 in all, 1 restart | a changed password ends sessions, guesses are bounded, expired sessions stay out, how administrators can be lost, with a failure of any statement |
| `startup` | 2 servers, 1 worker, 4 rows, 1 event, 1 change of region, empty or older schema | a clean start is complete, the backfill is complete, reversible but for rooms that meet, and lets writers win, the worker follows |

Several properties of the newer modules have the form "this holds, unless one of
these things happened", because the code does not rule those out; the exceptions
are named in history variables, so that a property tells exactly which races
exist and that there are no others (see section 6).

Why the bounds suffice. A double claim, a reap of a living worker or a late write
takes two workers and one row; the second row of `delivery` is there for the choice
of the oldest. Two claims of a row and one fault reach the claim that is lost, the
claim that follows, and the orphan that delivers between them; `stall` leaves room
for every claim that its cancel, its fault and its stalls can lose, so that no row
is given up for want of claims. The manager begins with a worker to start and a row
to be created; two changes are a switch under an update in progress, or a row that
appears and one that goes, and three workers are a first one, its replacement and
one that was started too late. In the enqueue run a day has room for one of two
batches of a client: its three requests contend for the lock, two of them hold every
connection, and a midnight falls between any two steps. In the hub one client falls
behind, or goes, while the other keeps up, with every buffer at its limit. In
`warming` the rooms share nothing but a replica's batch, and a replica may hold the
reading of a room for as long as it likes, which is all that other rooms in its
batch could cause; three lines with a gap let a reading be two lines old and let a
repeat be told from a skip, and three requests stop, start and restart a room. In
`auto_reply` two instances hear the same human, two rooms are for the same number
one after the other, and two lines with a gap tell a sequence from a line. In
`sessions` two devices are an old session and its successor, and two overlapping
requests are all a race needs; the third is one that comes later. The fault is a
statement on the row that fails. Two attempts overlap; what a third one adds is left to the
proof. A webhook entry and its fill meet one update and
its invalidation; the second request is the other writer of the row. Two accounts
are the last two administrators, and the threshold of failures is two instead of
five, with two requests at a time: one too many shows. The failures of statements
are not bounded there. Two servers at start-up are one that dies and the one that
follows, or two that compete; the rows are one for each table and two rooms that
come to the same number. Among the numbers are a local one that two regions read
differently, one with a plus sign, a LID that no region reads, and a canonical one
that another region reads as its own; the one event is a failure, a death, or a
writer's step. What lies beyond these bounds is covered by the proofs, for all but
the liveness properties.

The violation is a disagreement between the code and what it says of itself;
`PROJECT.json` quotes the sentence under `findings`.

`CHECK_DEADLOCK FALSE` is used where the modelled system really stops: the
manager's process exits, every request is answered, and the environments of the
others run out of events, messages or requests.

## 4. Fairness

- Goroutines are scheduled and statements return: weak fairness of the steps of
  a worker, of a reload, of `Stop`, of a transaction, of a pump, of a replica's
  batch.
- Timers and tickers fire: weak fairness of `Tick`, of the reaper, of a room's
  `BecomesDue`.
- The container runtime restarts a process: weak fairness of `Boot`, which
  `Crash` does not disable for ever.
- `StartWorker` is the manager's next reload (every 30 s), weakly fair.
- A Go `select` picks at random among its ready cases, so Run does not prefer
  another case for ever while pumps wait to unregister: strong fairness of `Leave`,
  of all pumps together, in `Hub` only. `ReadFails` is weakly fair because a
  connection whose peer is gone fails its read deadline.
- In `WebhookDelivery` handlers, deliveries and requests under way go on, entries
  expire and the sweeper ticks; in `Startup` a server's start goes on and the
  worker keeps refreshing its region. A failed read does not count as a step of
  the reload or of the refresh: it is assumed that one succeeds in the end.
- `InstanceSessions`, `Accounts` and `AutoReply` check safety only and assume no
  fairness.
- Faults, crashes, cancellations, edits, requests and publications are never
  fair.

## 5. The proofs

| module | theorems | assumptions beyond the constants' types |
|---|---|---|
| `OutboxProofs` | `TypeCorrect`, `OneSendPerClaimHolds`, `SentWasDeliveredHolds` | none |
| | `ExclusiveClaimHolds`, `ReapsOnlyAbandonedHolds`, `SettledIsFinalHolds`, `DuplicateOnlyInDoubtHolds`, `ImplementsContractHolds` | `DatabaseStalls = FALSE` |
| `WorkerManagerProofs` | `ManagerTypeCorrect`, `NoStrayWorkerHolds`, `OneCyclePerConfigHolds`, `StopDrainsHolds`, `MatchesLastReloadHolds` | none |
| | `EnqueueTypeCorrect`, `DailyLimitHolds`, `AllOrNothingHolds` | none |
| `EventProofs` | `HubTypeCorrect`, `OpenWhileRegisteredHolds`, `CompleteInOrderHolds` | none |
| | `WebhookTypeCorrect`, `UsesAnsweredHolds`, `SecretKeptHolds` | none |
| `WarmingRoomsProofs` | `RoomsTypeCorrect`, `ExecutesAloneHolds`, `NoLineSkippedHolds`, `RepeatsExplainedHolds`, `AtMostOneLateHolds`, `FinishedIsCompleteHolds` | none |
| `AutoReplyProofs` | `AutoReplyTypeCorrect`, `OncePerCooldownHolds`, `NoLineLostHolds`, `RepeatsExplainedHolds`, `CooldownForgottenHolds` | none |
| `InstanceSessionsProofs` | `SessionsTypeCorrect`, `SlotMatchesAttemptHolds`, `LogoutIsFinalHolds`, `OnlineIsServedHolds` | none |
| `AccountsProofs` | `AccountsTypeCorrect`, `RevokedIsOutHolds`, `GuessesBoundedHolds`, `ExpiredIsOutHolds`, `AdminLostOnlyHolds` | none |
| `StartupProofs` | `StartupTypeCorrect`, `CleanStartHolds`, `RestorableHolds`, `WritersWinHolds`, `RewrittenHolds` | none |

They hold for any number of rows, workers, processes, clients, requests, rooms,
replicas, instances, devices, messages, lines, accounts, servers, numbers and
regions, any library that reads numbers, and any values of the `Max...` bounds.
`OutboxProofs` and `EventProofs` each treat the two components that meet in one
place, the `outbox` table and the events of WhatsApp, the steps of the second one as
an instance; the hypothesis of the theorems about it (`EnqueueAssumptions`,
`Webhook!WebhookAssumption`) is what the instanced module assumes of its constants,
no more. Some assumptions deserve a word. `LeaseAssumption` says that an attempt's
own timeouts fit into the lease (30 s + 30 s + 5 s against 10 minutes).
`DatabaseStalls = FALSE` says the statements without a timeout return within it as
well, and that the clocks of hosts and database agree; the run `stall` shows what is
left without it: a claim is sent once, which is proved without the assumption too,
and every row settles. `SchemaAssumption` says that an older version has no table or
column that the present `InitCustomSchema` does not make, and `StartupAssumption`
that a region the settings may hold is one the library knows, none, or no row at
all, and that what the library makes of a number is in canonical form.

The inductive invariants:

- *Delivery.* `Ownership` relates each claimed row to the one worker whose
  `attemptAge` is the row's `age`: as long as the worker is within its limit,
  the row is not stale, so the reaper cannot take it, and so the late write by id
  is still the owner's. The duplicates need a count besides: what has been sent
  and what may still be sent of a row is at most the number of its claims
  (`SpendInv`), and one unless a claim of it was lost (`DoubtInv`). The
  refinement maps each step to one of the contract's or to a stutter.
- *Manager.* The worker instances that are alive are the ones in `m.workers`, or
  cancelled and past their cycle, or the one the reload is waiting for; the step
  that is hard is `stopWorker`'s wait, which may return before the goroutine has
  called `wg.Add`: the instance is then cancelled and has not begun a cycle.
  `ReloadInv` follows the loop of a reload: the configurations it is done with
  run as they were read, which is `MatchesLastReload` once none is left.
- *Enqueue.* `LockExclusive`, `RowsWereCommitted` and `CountIsCurrent`: while a
  request holds the lock, the number it counted is still what the table has
  from its day on, whatever other clients and other days do.
- *Hub.* `OpenWhileRegistered` is inductive together with the fact that a
  client that has not yet connected has no goroutines. `OrderInv` adds what
  `CompleteInOrder` needs at the two ends of a client's list: a client that Run
  has yet to offer the event at hand registered before that event was taken, and
  one that has not connected has been given nothing. An offer then appends the
  one event that was due, and a pump moves an item from the channel to what was
  received, which leaves the list as it is.
- *Webhooks.* `ReadsThePast`: a request has read the row as it is, or as an
  earlier write left it, and what was answered is in the row. `OldIsLate`: a
  cache entry, and a fill that is about to store, is at least as new as the last
  answer, or is marked as late; an event in its attempts inherits that from the
  entry or the row it was taken from.
- *Rooms.* `LockHeld` (an execution holds its lock), `OncePerBatch` (a
  replica holds one reading of a room), `InTurn` (what is being
  sent follows the reading it was chosen from), `ReadingsSent` (every line up to
  a reading, however old, was sent), from which `NoLineSkipped` follows at every
  write; `FreshReadings` (while no other replica, lost write or restart interfered, a
  reading is the row's present sequence), from which `RepeatsExplained`; and
  `LateOnce` for the replicas that still hold a reading of a stopped room.
- *Auto reply.* `CoolInv`: an instance handles one message at a time
  (`OneAtATime`), none has passed since a stamp ran out (`NotYetPassed`), and a
  message that is about to store its stamp is its instance's first
  (`PassesFirst`). `AnswerInv` holds of each room by itself: `LostAt` says that
  everything up to the room's progress, and up to the reading of any reply under
  way, was answered or is being answered; `RepeatAt` that, while nothing has
  excused a repeat, the replies under way have the room's present progress as
  their reading, the line they chose is the next one, and no line that was
  answered lies beyond the progress.
- *Sessions.* `SlotInv`: a slot holds an attempt that runs for its instance, and
  of two attempts that run for one instance each is in `outrun`. `OutInv`: a
  device that was removed is unlinked, or kept because WhatsApp could not be
  told; one that is being unlinked is out of the map, and the loader has none to
  visit that was removed and not kept. For `OnlineIsServed`,
  `OnlineInv` says at every moment, not only at rest, that a row that says
  online is served, or excused, or has somebody under way who will correct it
  (the handler of a disconnect or of an unlinked phone, a logout, a deletion); a
  statement that fails, a handler that panics and a replaced stream each take
  that somebody away, and excuse the row in the same step if it says online;
  `Restarting` describes the memory between a crash and the first request.
- *Accounts.* `RevokeInv`: a session, and a login that is past its password
  check, has the present password, or a request is about to destroy the
  sessions of its user, or the session is marked as late, which a failed deletion
  does as well. `GuessInv`: while an
  account is locked, the failures since then and the logins that may still fail,
  other than those that were told of no lock, are together fewer than the
  requests. `AdminInv`: until a demotion, an
  overlap or a failed seeding, there is an administrator besides each one whose
  deletion has been counted.

- *Start-up.* Invariants for each of its concerns, on top of the types. `SchemaInv`:
  what a server without a failure has been through is there, for each of the 26
  blocks, whoever made it; the step that is hard is a block that cannot run, which
  can only be the index over the rooms, because every other block names only what an
  earlier one makes (`NamedEarlier`). `SeededInv`: once the table of templates is
  not empty it is full, or being filled, or a filling broke off. `OrderInv`: one
  server rewrites, and only behind the marker; a row of a table it has yet to plan
  has not been rewritten, and the updates it still holds are one to a row, of rows
  it has not rewritten. This is what carries the other two, because a canonical
  number need not be left alone by another reading. `RestoreInv`: a row that was
  rewritten, and not written since, has the number its writers gave it in the backup
  next to the one it holds; any other row holds what it was given and has no backup.
  `WritersWin` follows from `OrderInv` and the guard of the UPDATE. `RegionInv`: a
  server that starts plans by the region it read, whoever saves another one
  meanwhile. `RewriteInv`: of the tables that have been planned, every row that
  nothing excuses is settled (it holds the reading of what it was given, and no
  update of it is left) or among the updates of that reading; when the server is
  done, every row is.

Proved, and not repeated by a run: the types of all these modules,
`SettledIsFinal`, `SentWasDelivered`, `NoStrayWorker`, `StopDrains`,
`AllOrNothing`, `ExecutesAlone` and `AtMostOneLate`.

Only model-checked: liveness (`EveryRowSettles`, `RoutingTakesEffect`,
`ShutdownCompletes`, `EveryRequestAnswered`, `EventsDispatched`,
`GoneIsForgotten`, `ScriptsEnd`, `DeletedIsForgotten`, `WorkerFollows`), which
this prover does not do under fairness. Every invariant and action property that
a passing run checks is proved.

What the proofs found in the models. Three properties held on the instances
that were checked and not in general, because a history variable missed a case
that needs one more actor or step than those instances have:

- `InstanceSessions`: when the first of two attempts that overlap ends, it empties
  the slot, and a third attempt that then takes it loses its cancel function to
  the second. `RegisterQR` now notes every attempt that runs at the time. The run
  keeps two attempts.
- `AutoReply`: a line that is edited after its room was deleted, and before the
  last reply to the room, was not noted as edited, so its repeat stayed
  unexplained. This takes four messages and requests; `Watched` now covers such a
  room. The run keeps three.
- `Accounts`: a restart may create the seeded administrator anew after the account
  was deleted while locked; the new account is not locked, but the count of the
  deleted one's failures went on. `Restart` now sets it to zero.

`CompleteInOrder` is stated with the positions of the events instead of a
filtered sequence, and the sequence that follows the last line of a script
(`NextSequenceStart`) is a quantified variable instead of a choice: the same
meaning in a form that can be reasoned about.

## 6. Where the code departs from what it says

The run `hub_race` shows one of these as a counterexample. The others are part of
the models, as the behaviour of the code, and their properties are stated with them
in mind.

- `cmd/worker/worker.go:158` writes an invalid destination under the worker's
  context, so a cancelled worker leaves its claim to the reaper; lines 241-242
  promise that every exit leaves the row in a terminal state. (`OutboxDelivery`)
- `cmd/worker/manager.go:103` compares four settings only, so a changed owner,
  media permission or name does not restart a worker; lines 100-101 say the
  function reports whether the settings still match. (`WorkerManager`)
- `internal/ws/hub.go:79-90` closes and deletes clients under the read lock that
  `BroadcastToInstance` holds too; line 272 says the lock prevents the race. (`Hub`,
  run `hub_race`)
- `internal/handler/worker_config.go:236-237`: an update that does not mention the
  enabled flag writes back the one it read and may undo a switch made meanwhile;
  the comment means the stored flag to survive. (`WorkerManager`)
- `docs/DR.md:129-130` says the restoration leaves only rows alone that were changed
  after the backfill; when an old number meets another active room's, the UPDATE of
  the rooms fails under `idx_unique_active_human_room`
  (`internal/helper/schema.go:501-505`) and restores none. (`Startup`,
  where `RoomsMeet` names it)
- `internal/worker/warming_worker.go:49-50` says the lock keeps a replica from claiming
  the same row between query and execution; the row is not read again under the
  lock, so a line can go out twice. A restart can be overwritten by the line in
  flight, against `warming_room.go:733`. (`WarmingRooms`)
- `internal/service/warming_auto_reply.go:95-97` says two concurrent messages
  cannot both pass the cooldown; two that are handled at the same time, by two
  instances, can. The reset after a room has left ACTIVE
  (`internal/handler/warming/warming_room.go:214-216`) can precede the stamp of a
  message that was being handled. (`AutoReply`)
- `internal/model/admin.go:180` says the transaction prevents two administrators
  from deleting each other; each locks only its own row. (`Accounts`)
- `README.md:502` says sent and failed outbox rows are not touched by the
  backfill; a row that is sent between plan and update is. (`Startup`)
- `config/phone.go:57-58` says API and worker always classify a number the same
  way; between a change of the region and the worker's next reload they do not.
  (`Startup`)

## 7. What is left

1. Compositions: the manager's workers as the workers of `OutboxDelivery`
   (`StartWorker`, `Cancel` and `Exit` refine it), and the enqueue's commit as
   its `Enqueue`.
2. An abstract life cycle of an instance that `InstanceSessions` implements as
   far as its races allow.
3. `AutoReply` and `WarmingRooms` on the rooms table together: the same status
   writes reach both kinds of room.

Not modelled, and not planned: the guards and permissions of requests, which
read once and keep no state; the cap on a user's instances, which repeats the
advisory lock of the enqueue; the heartbeat of a session; the instance list
cache of the worker, whose age `OutboxDelivery` leaves open; media and files,
contacts and groups (calls forwarded to WhatsApp); templates, logs and message
rendering; the web interface; libphonenumber, whatsmeow and the AI provider, which
appear as environment where code depends on them.
