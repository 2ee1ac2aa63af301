--------------------------------- MODULE Startup ---------------------------------
(***************************************************************************)
(* The start of the API servers (main.go: bootstrapRuntime): the schema,   *)
(* the region that local phone numbers are read in, the one-time rewriting *)
(* of the stored numbers (internal/helper/phone_backfill.go), and the      *)
(* region that servers and worker process each keep a copy of.             *)
(*                                                                         *)
(* Several servers start on one database, next to the writers of the rows  *)
(* the rewriting is about.  A statement of the database may fail and a     *)
(* server may die between any two; the container runtime starts it again.  *)
(* The first administrator is in Accounts, the devices in InstanceSessions.*)
(***************************************************************************)
EXTENDS Naturals, Sequences

CONSTANTS
  Server,       \* processes of the API
  Worker,       \* the worker process
  Region,       \* regions the library knows
  Env,          \* PHONE_DEFAULT_REGION of each process
  Number,       \* phone numbers, as they are typed or stored
  Plus, Digits, \* those that begin with a plus sign, those of digits alone
  Canonical,    \* those in bare E.164 form
  Parse,        \* the library: the valid number read with a default region
  Abroad,       \* the library: that of 11 digits or more, a plus sign in front
  Row,          \* rows with a phone number
  TableOf,      \* the table of each: "instances", "warming_rooms" or "outbox"
  Old,          \* the schema of the installed version
  OldNumber,    \* the numbers a row of it may hold
  OldLive,      \* the sets of rows of it that may be live
  OldStored,    \* the regions it may have stored
  Template,     \* conversation templates the server brings along
  OwnOutbox,    \* is OUTBOX_DATABASE_URL another database?
  MaxEvents,    \* bound: failing statements, deaths of a process, writes to the rows
  MaxUpdates    \* bound: changes of the region

None == "none"             \* no region: numbers need their country code
NoNumber == "no number"    \* NULL, empty or a group's id; what is not a valid number

ASSUME StartupAssumption ==
  /\ Worker \notin Server /\ Region \intersect {None, "unset"} = {} /\ NoNumber \notin Number
  /\ Plus \subseteq Number /\ Digits \subseteq Number /\ Canonical \subseteq Digits
  /\ Parse \in [Region \union {None} -> [Number -> Canonical \union {NoNumber}]]
  /\ Abroad \in [Number -> Canonical \union {NoNumber}]
  /\ TableOf \in [Row -> {"instances", "warming_rooms", "outbox"}]
  /\ OldStored \subseteq Region \union {None, "unset"} /\ OldLive \subseteq SUBSET Row
  /\ OwnOutbox \in BOOLEAN
  /\ MaxEvents \in Nat /\ MaxUpdates \in Nat

Held == Number \union {NoNumber}
Process == Server \union {Worker}

VARIABLES
  schema,     \* tables, and groups of columns and indexes, that exist
  templates,  \* warming_templates
  stored,     \* system_settings: phone_config, "unset" without a row
  marker,     \* system_settings: phone_backfill_v1
  number,     \* the number in each row
  live,       \* rows that are an ACTIVE room or a pending message
  backup,     \* phone_backfill_backup_v1
  region,     \* config.phoneDefaultRegion of each process
  server,     \* each server: where it is and what it knows
  events, updates,
  story       \* history: what kept rows from being rewritten

db == <<schema, templates, stored, marker>>
rows == <<number, live, backup>>
bounds == <<events, updates>>
vars == <<db, rows, region, server, bounds, story>>

Off == [pc |-> "off", block |-> 1, own |-> FALSE, tables |-> <<>>, todo |-> {},
        saving |-> {}, read |-> None, clean |-> FALSE]

-----------------------------------------------------------------------------
(* InitCustomSchema: blocks of statements, each one transaction.  A block  *)
(* fails where something it names is not there; the server gives up when a *)
(* required one fails.  What a block creates stays as it is if it exists.  *)

Must(needs, makes) == [must |-> TRUE,  needs |-> needs, makes |-> makes, skips |-> 0]
Try(needs, makes)  == [must |-> FALSE, needs |-> needs, makes |-> makes, skips |-> 1]

InstanceBlocks ==
  << Must({}, {"instances"}), Must({"instances"}, {"instances.webhook"}) >>
WarmingBlocks ==
  << Must({}, {"scripts", "lines", "warming_rooms", "logs"}) >>
HumanBlocks ==
  << Must({"warming_rooms"}, {"rooms.human"}), Must({}, {"templates"}) >>
AIBlocks ==
  << Try({"warming_rooms"}, {"rooms.ai"}), Try({"logs"}, {"logs.sender"}) >>
\* Deviation: the column comes before the table it refers to.
UserBlocksTurned ==
  << Try({"instances", "users"}, {"instances.created_by"}),
     Must({"instances"}, {"users", "user_instances", "audit_logs"}) >>

UserBlocks ==
  << Must({"instances"}, {"users", "user_instances", "audit_logs"}),
     Try({"instances", "users"}, {"instances.created_by"}) >>
SessionBlocks ==
  << Try({}, {"system_settings"}), Try({}, {}), Try({"users"}, {"sessions"}) >>
OwnerBlocks ==
  << Try({"users", "scripts", "templates", "warming_rooms", "logs"}, {"warming.created_by"}) >>
RoomIndex == Try({"rooms.human"}, {"rooms.unique"})
LockoutBlocks ==
  << RoomIndex, Try({"users"}, {"users.lockout"}), Try({"users"}, {"users.region"}) >>
ConfigBlocks ==
  << Try({"users"}, {"worker_config"}), Try({}, {"worker_logs"}),
     [Try({"worker_config", "worker_logs"}, {"worker.columns"}) EXCEPT !.skips = 2],
     Try({"worker.columns"}, {"worker_logs.index"}), Try({"worker_config"}, {}) >>
OutboxBlocks ==
  << Try({}, {"outbox"}), Try({"outbox"}, {"outbox.table_id"}),
     Try({"outbox"}, {"outbox.claimed_at"}), Try({"outbox.claimed_at"}, {"outbox.index"}) >>
KeyBlocks == << Try({"users"}, {"api_keys"}) >>

Blocks ==
  InstanceBlocks \o WarmingBlocks \o HumanBlocks \o AIBlocks \o UserBlocks \o SessionBlocks
    \o OwnerBlocks \o LockoutBlocks \o ConfigBlocks \o OutboxBlocks \o KeyBlocks
Complete == UNION {Blocks[n].makes : n \in DOMAIN Blocks}
ASSUME SchemaAssumption == Old \subseteq Complete
SeedAt  == Len(InstanceBlocks \o WarmingBlocks \o HumanBlocks) + 1

-----------------------------------------------------------------------------
(* Numbers.                                                                *)

\* A number that is valid in region r wins; digits that are not are tried once
\* more with a plus sign.  Without a region only that sign will do.
NormalizePhone(n, r) ==
  IF r = None /\ n \notin Plus THEN NoNumber
  ELSE IF r # None /\ Parse[r][n] = NoNumber THEN Abroad[n] ELSE Parse[r][n]
Parses(n, r) == n # NoNumber /\ NormalizePhone(n, r) # NoNumber

\* normalizeWhitelistedNumber: digits that are no number are kept as they are.
Whitelisted(typed, r) ==
  IF Parses(typed, r) THEN {NormalizePhone(typed, r)} ELSE {typed} \intersect Digits

Supported(r) == r \in Region
\* resolvePhoneRegion: an unknown code counts as none.
FromEnv(p) == IF Supported(Env[p]) THEN Env[p] ELSE None
\* SetPhoneRegion refuses an unknown code.
SetRegion(p, r) ==
  region' = IF r = None \/ Supported(r) THEN [region EXCEPT ![p] = r] ELSE region

IsRoom(row) == TableOf[row] = "warming_rooms"
\* The rows of idx_unique_active_human_room, which refuses a number twice.
Indexed == {row \in live : IsRoom(row) /\ number[row] # NoNumber}
Refused(row, n) ==
  "rooms.unique" \in schema /\ row \in Indexed /\ \E o \in Indexed \ {row} : number[o] = n
Twins == \E o, row \in Indexed : o # row /\ number[o] = number[row]

-----------------------------------------------------------------------------
Init ==
  /\ schema \in {{}, Old}
  /\ templates = {}
  /\ stored \in IF "system_settings" \in schema THEN OldStored ELSE {"unset"}
  /\ marker = FALSE
  /\ number \in IF schema = {} THEN [Row -> {NoNumber}]
                ELSE {f \in [Row -> Held] : \A row \in Row : f[row] \in OldNumber[row]}
  /\ live \in IF schema = {} THEN {{}} ELSE OldLive
  /\ "rooms.unique" \in schema => ~Twins
  /\ backup = {}
  /\ region = [p \in Process |-> FromEnv(p)]
  /\ server = [s \in Server |-> Off]
  /\ events = 0 /\ updates = 0
  /\ story = [given |-> number, cut |-> FALSE, half |-> FALSE, written |-> {}, again |-> {}, moved |-> {},
              rewritten |-> {}, shadowed |-> {}, used |-> None]

At(s, pc)   == server[s].pc = pc
GoTo(s, pc) == server' = [server EXCEPT ![s].pc = pc]
NoFault == UNCHANGED events
\* A statement of s fails, and s goes on to pc.
Fault(s, pc) ==
  /\ events < MaxEvents /\ events' = events + 1
  /\ server' = [server EXCEPT ![s].pc = pc, ![s].clean = FALSE]
Rest == UNCHANGED updates

Rewriting == \E s \in Server : At(s, "plan") \/ At(s, "apply")

-----------------------------------------------------------------------------
(* A server starts.                                                        *)

\* InitOutboxDB: when the other database does not answer, the pool of the
\* application takes its place.
OutboxPool(s) ==
  \/ NoFault /\ server' = [server EXCEPT ![s] = [Off EXCEPT !.pc = "schema", !.own = OwnOutbox, !.clean = TRUE]]
  \/ OwnOutbox /\ events < MaxEvents /\ events' = events + 1
     /\ server' = [server EXCEPT ![s] = [Off EXCEPT !.pc = "schema"]]

Boot(s) ==
  /\ At(s, "off") /\ OutboxPool(s)
  /\ region' = [region EXCEPT ![s] = FromEnv(s)]
  /\ Rest /\ UNCHANGED <<db, rows, story>>

\* The block after b, the templates after the last one before SeedAt.
NextBlock(s, n) ==
  server' = [server EXCEPT ![s].block = n,
               ![s].pc = IF n = SeedAt THEN "count" ELSE IF n > Len(Blocks) THEN "region" ELSE "schema"]

\* The statements of a block find what they name, and no two rooms that the
\* unique index would not allow.
CanRun(b) ==
  /\ b.needs \subseteq schema
  /\ b = RoomIndex => "rooms.unique" \in schema \/ ~Twins

\* mustExec and tryExec.
RunBlock(s) ==
  LET n == server[s].block  b == Blocks[n] IN
  /\ At(s, "schema")
  /\ \/ CanRun(b) /\ schema' = schema \union b.makes /\ NextBlock(s, n + 1) /\ NoFault
     \/ /\ UNCHANGED schema
        /\ \/ ~CanRun(b) /\ NoFault
              /\ IF b.must THEN server' = [server EXCEPT ![s] = Off] ELSE NextBlock(s, n + b.skips)
           \/ /\ events < MaxEvents /\ events' = events + 1
              /\ server' = [server EXCEPT ![s] =
                   IF b.must THEN Off
                   ELSE [server[s] EXCEPT !.clean = FALSE, !.block = n + b.skips,
                                  !.pc = IF n + b.skips > Len(Blocks) THEN "region" ELSE "schema"]]
  /\ Rest /\ UNCHANGED <<templates, stored, marker, rows, region, story>>

\* SELECT COUNT(*): only an empty table is filled.
CountTemplates(s) ==
  /\ At(s, "count")
  /\ \/ /\ NoFault
        /\ server' = [server EXCEPT ![s].todo = IF templates = {} THEN Template ELSE {},
                                    ![s].pc = IF templates = {} THEN "seeding" ELSE "schema"]
     \/ Fault(s, "schema")
  /\ Rest /\ UNCHANGED <<db, rows, region, story>>

\* seedInitialTemplates: an insert that fails, as that of a template that is
\* there does, is told and passed over.
SeedTemplate(s) ==
  /\ At(s, "seeding")
  /\ \E t \in server[s].todo :
       LET pc == IF server[s].todo = {t} THEN "schema" ELSE "seeding" IN
       \/ /\ NoFault /\ templates' = templates \union {t}
          /\ server' = [server EXCEPT ![s].todo = server[s].todo \ {t}, ![s].pc = pc]
          /\ UNCHANGED story
       \/ /\ events < MaxEvents /\ events' = events + 1
          /\ server' = [server EXCEPT ![s].todo = server[s].todo \ {t}, ![s].pc = pc, ![s].clean = FALSE]
          /\ story' = [story EXCEPT !.half = TRUE]
          /\ UNCHANGED templates
  /\ Rest /\ UNCHANGED <<schema, stored, marker, rows, region>>

\* The stored region wins over the one of the environment.
ApplyStoredPhoneRegion(s) ==
  /\ At(s, "region")
  /\ \/ /\ NoFault
        /\ server' = [server EXCEPT ![s].pc = "claim",
                                    ![s].read = IF stored = "unset" THEN FromEnv(s) ELSE stored]
        /\ IF stored # "unset" THEN SetRegion(s, stored) ELSE UNCHANGED region
     \/ Fault(s, "claim") /\ UNCHANGED region
  /\ Rest /\ UNCHANGED <<db, rows, story>>

-----------------------------------------------------------------------------
(* RunPhoneBackfill: whoever inserts the marker rewrites table by table.   *)

Targets == <<"instances", "warming_rooms", "outbox">>

ClaimPhoneBackfill(s) ==
  /\ At(s, "claim")
  /\ \/ Fault(s, "serve") /\ UNCHANGED <<marker, story>>
     \/ /\ NoFault /\ ("system_settings" \notin schema \/ marker) /\ GoTo(s, "serve")
        /\ UNCHANGED <<marker, story>>
     \/ /\ NoFault /\ "system_settings" \in schema /\ ~marker
        /\ marker' = TRUE
        /\ server' = [server EXCEPT ![s].pc = "plan", ![s].tables = Targets]
        /\ story' = [story EXCEPT !.used = server[s].read, !.cut = ~server[s].clean]
  /\ Rest /\ UNCHANGED <<schema, templates, stored, rows, region>>

\* Deviation: a table with nothing to rewrite ends the run.
AfterOrEnd(todo, tables) ==
  IF todo # {} THEN "apply" ELSE "serve"

After(todo, tables) ==
  IF todo # {} THEN "apply" ELSE IF tables # <<>> THEN "plan" ELSE "serve"

\* loadPhoneRows: the rows with a number; of the outbox, the pending messages.
Loaded(s, t) ==
  {row \in Row : /\ TableOf[row] = t
                 /\ number[row] # NoNumber
                 /\ t = "outbox" => row \in live /\ server[s].own = OwnOutbox}

\* planBackfill: of the rooms that come to one number only the latest is
\* rewritten; which one that is depends on times that are not kept here.
Plans(s, t) ==
  LET r == region[s]
      candidates == {row \in Loaded(s, t) : Parses(number[row], r)}
      target(row) == NormalizePhone(number[row], r)
      winners == IF t # "warming_rooms" THEN {candidates}
                 ELSE {w \in SUBSET candidates :
                         /\ \A x, y \in w : target(x) = target(y) => x = y
                         /\ \A c \in candidates : \E x \in w : target(x) = target(c)}
  IN {[todo |-> {[row |-> row, old |-> number[row], new |-> target(row)] :
                    row \in {x \in w : target(x) # number[x]}},
       shadowed |-> candidates \ w] : w \in winners}

\* runPhoneBackfillTarget: a statement that fails ends the table.
PlanTarget(s) ==
  LET t == Head(server[s].tables)  rest == Tail(server[s].tables) IN
  /\ At(s, "plan")
  /\ \/ /\ events < MaxEvents /\ events' = events + 1
        /\ server' = [server EXCEPT ![s].tables = rest, ![s].pc = After({}, rest), ![s].clean = FALSE]
        /\ story' = [story EXCEPT !.cut = TRUE]
     \/ /\ NoFault
        /\ \E plan \in Plans(s, t) :
             /\ server' = [server EXCEPT ![s].tables = rest, ![s].todo = plan.todo,
                                         ![s].pc = After(plan.todo, rest)]
             /\ story' = [story EXCEPT !.shadowed = @ \union plan.shadowed,
                            !.cut = @ \/ (t = "outbox" /\ server[s].own # OwnOutbox)]
  /\ Rest /\ UNCHANGED <<db, rows, region>>

\* Deviation: the row is rewritten whatever it holds.
Whatever(u) == TRUE
\* The row still holds what was read.
Unchanged(u) == number[u.row] = u.old

\* Deviation: the backup row stays when the row has changed meanwhile.
BackupAlways(u) == backup \union {u}

BackupWith(u) == IF Unchanged(u) THEN backup \union {u} ELSE backup

\* applyPhoneUpdates, applyPhoneUpdate: backup row and update in one
\* transaction, rolled back when the row has changed meanwhile; an error ends
\* the table.
ApplyPhoneUpdate(s) ==
  /\ At(s, "apply")
  /\ \E u \in server[s].todo :
       LET fits == Unchanged(u)  stops == fits /\ Refused(u.row, u.new)
           left == IF stops THEN {} ELSE server[s].todo \ {u} IN
       \/ /\ NoFault
          /\ server' = [server EXCEPT ![s].todo = left, ![s].pc = After(left, server[s].tables)]
          /\ IF stops
             THEN UNCHANGED rows /\ story' = [story EXCEPT !.cut = TRUE]
             ELSE /\ number' = IF fits THEN [number EXCEPT ![u.row] = u.new] ELSE number
                  /\ backup' = BackupWith(u)
                  /\ UNCHANGED live
                  /\ story' = IF fits THEN [story EXCEPT !.rewritten = @ \union {u.row}] ELSE story
       \/ /\ events < MaxEvents /\ events' = events + 1
          /\ server' = [server EXCEPT ![s].todo = {}, ![s].clean = FALSE,
                                      ![s].pc = After({}, server[s].tables)]
          /\ story' = [story EXCEPT !.cut = TRUE]
          /\ UNCHANGED rows
  /\ Rest /\ UNCHANGED <<db, region>>

\* The server dies; what it had not committed is gone.
Crash(s) ==
  /\ ~At(s, "off") /\ events < MaxEvents
  /\ events' = events + 1
  /\ server' = [server EXCEPT ![s] = Off]
  /\ story' = [story EXCEPT !.cut = @ \/ server[s].pc \in {"plan", "apply"},
                            !.half = @ \/ At(s, "seeding")]
  /\ UNCHANGED <<db, rows, region, updates>>

-----------------------------------------------------------------------------
(* The region, changed by an administrator, and the worker's copy of it.    *)

\* UpdatePhoneConfigHandler: the row is written first ...
SaveRegion(s, r) ==
  /\ At(s, "serve") /\ updates < MaxUpdates /\ "system_settings" \in schema
  /\ updates' = updates + 1
  /\ stored' = r
  /\ server' = [server EXCEPT ![s].saving = server[s].saving \union {r}]
  /\ UNCHANGED <<schema, templates, marker, rows, region, events, story>>

\* ... and then the copy of the server that answers the request.
SwapRegion(s) ==
  \E r \in server[s].saving :
    /\ At(s, "serve") /\ SetRegion(s, r)
    /\ server' = [server EXCEPT ![s].saving = server[s].saving \ {r}]
    /\ UNCHANGED <<db, rows, bounds, story>>

\* Deviation: only a worker without a region looks for one.
RefreshOnce ==
  /\ stored # "unset" /\ region[Worker] = FromEnv(Worker) /\ SetRegion(Worker, stored)
  /\ UNCHANGED <<db, rows, server, bounds, story>>

\* refreshPhoneRegion, with every reload of the worker.
RefreshPhoneRegion ==
  /\ stored # "unset" /\ SetRegion(Worker, stored)
  /\ UNCHANGED <<db, rows, server, bounds, story>>

\* The worker process dies and starts again.
RestartWorker ==
  /\ events < MaxEvents /\ events' = events + 1
  /\ region' = [region EXCEPT ![Worker] = FromEnv(Worker)]
  /\ UNCHANGED <<db, rows, server, updates, story>>

-----------------------------------------------------------------------------
(* The other writers of the rows: servers that are up, of this release or   *)
(* the one before, whatever their region, and the worker.  Before the       *)
(* rewriting begins they only make another state to begin with.             *)

Write == Rewriting /\ events < MaxEvents /\ events' = events + 1
  /\ UNCHANGED <<db, backup, region, server, updates>>

\* The number of a device that connects, or the one typed for a room.
Entered(row) ==
  IF TableOf[row] = "instances" THEN Canonical
  ELSE UNION {Whitelisted(typed, r) : typed \in Number, r \in Region \union {None}}

WriteNumber(row, n) ==
  /\ Write /\ TableOf[row] # "outbox" /\ n # number[row] /\ ~Refused(row, n)
  /\ number' = [number EXCEPT ![row] = n]
  /\ story' = [story EXCEPT !.given[row] = n, !.written = @ \union {row},
                            !.again = IF row \in story.rewritten THEN @ \union {row} ELSE @]
  /\ UNCHANGED live

\* A room is started or stopped, a pending message is sent.
Move(row) ==
  /\ Write
  /\ \/ row \in live /\ TableOf[row] # "instances" /\ live' = live \ {row}
     \/ /\ row \notin live /\ IsRoom(row) /\ live' = live \union {row}
        /\ "rooms.unique" \in schema => \A o \in Indexed : number[o] # number[row]
  /\ story' = [story EXCEPT !.moved = @ \union {row}]
  /\ UNCHANGED number

Start(s) ==
  \/ Boot(s) \/ RunBlock(s) \/ CountTemplates(s) \/ SeedTemplate(s)
  \/ ApplyStoredPhoneRegion(s) \/ ClaimPhoneBackfill(s) \/ PlanTarget(s) \/ ApplyPhoneUpdate(s)

ServerStep(s) ==
  \/ Start(s) \/ Crash(s) \/ SwapRegion(s)
  \/ \E r \in Region \union {None} : SaveRegion(s, r)

Next ==
  \/ \E s \in Server : ServerStep(s)
  \/ RefreshPhoneRegion \/ RestartWorker
  \/ \E row \in Row : Move(row) \/ \E n \in Entered(row) : WriteNumber(row, n)

\* A server goes on with its start, and the worker reloads every 30 seconds.
Spec == /\ Init /\ [][Next]_vars
        /\ \A s \in Server : WF_vars(Start(s))
        /\ WF_vars(RefreshPhoneRegion)

-----------------------------------------------------------------------------
(* Types: what the database, the servers and the worker may hold.          *)
TypeOK ==
  /\ schema \subseteq Complete /\ templates \subseteq Template
  /\ stored \in Region \union {None, "unset"} /\ marker \in BOOLEAN
  /\ number \in [Row -> Held] /\ live \subseteq Row
  /\ backup \subseteq [row : Row, old : Number, new : Canonical]
  /\ region \in [Process -> Region \union {None}]
  /\ \A s \in Server :
       /\ server[s].pc \in {"off", "schema", "count", "seeding", "region", "claim", "plan", "apply", "serve"}
       /\ At(s, "schema") => server[s].block \in DOMAIN Blocks
       /\ At(s, "plan") => server[s].tables # <<>>
       /\ server[s].saving \subseteq Region \union {None} /\ server[s].read \in Region \union {None}

\* A server whose own start met no failing statement serves on a complete schema,
\* whatever other servers, starting or dying at the same time, have left behind:
\* the order of InitCustomSchema gives every block the tables it names.  The
\* templates are complete too, unless a server that filled the table died or
\* failed half-way, which no later start repairs, or is still at it.
CleanStartIsComplete ==
  \A s \in Server : At(s, "serve") /\ server[s].clean =>
    /\ Complete \ {"rooms.unique"} \subseteq schema
    /\ templates = Template \/ story.half \/ \E o \in Server : At(o, "seeding")

\* applyPhoneUpdate lets a concurrent writer win: the rewriting replaces a number
\* by the reading of that very number, never by what it made of an earlier one.
WritersWin ==
  [][\A row \in Row : number'[row] # number[row] =>
       \/ events' # events     \* another writer
       \/ \E s \in Server : At(s, "apply") /\ number'[row] = NormalizePhone(number[row], region[s])]_vars

\* The statements of docs/DR.md: one UPDATE for each table, from the backup, of the
\* rows that still hold what the rewriting gave them.  The index is checked row by
\* row, so a room's old number may meet one that another live room has now, or will
\* have: the UPDATE of the rooms is then undone as a whole.
Reverted(row) ==
  IF \E b \in backup : b.row = row /\ b.new = number[row]
  THEN (CHOOSE b \in backup : b.row = row /\ b.new = number[row]).old
  ELSE number[row]
RoomsMeet ==
  /\ "rooms.unique" \in schema
  /\ \E row, o \in Indexed : o # row /\ Reverted(row) # number[row] /\ Reverted(row) \in {number[o], Reverted(o)}
Restored(row) == IF IsRoom(row) /\ RoomsMeet THEN number[row] ELSE Reverted(row)

\* After those statements every row has the number that its writers gave it, the
\* rows included that the rewriting did not change because a writer came first -
\* but for rows written again since, and the rooms when two of them meet.
Restorable ==
  \A row \in Row \ story.again : (IsRoom(row) => ~RoomsMeet) => Restored(row) = story.given[row]

\* The marker is set once, before any row is rewritten.  When the server that set
\* it is done, every row that held a number is in canonical form, by the region that
\* was stored when this server read it (main.go:147), or else its environment's -
\* unless the server died or met an error, the row was written or changed its status
\* meanwhile, or another room came to its number.  A region that is saved between
\* that reading and the marker comes too late.
RewrittenUnlessExplained ==
  marker /\ ~story.cut /\ ~Rewriting =>
    \A row \in Row \ (story.written \union story.moved \union story.shadowed) :
      Parses(story.given[row], story.used) /\ (TableOf[row] = "outbox" => row \in live)
        => number[row] = NormalizePhone(story.given[row], story.used)

\* README: the worker picks a changed region up with its next reload.  Once
\* nobody changes the region any more, the worker reads numbers by the stored
\* one for good, whatever its environment says and however often it restarts.
WorkerFollows == <>[](stored # "unset" => region[Worker] = stored)
=============================================================================
