---------------------------- MODULE StartupProofs ----------------------------
(***************************************************************************)
(* Proofs about Startup, for every number of servers, rows and regions and *)
(* every number of failures.                                               *)
(*                                                                         *)
(* First the blocks of the schema, the types, and for each action what it  *)
(* puts in the place of its server's state.  Then the invariants, each     *)
(* with the properties it is for: SchemaInv and SeededInv (what a clean    *)
(* start has made), OrderInv (one server rewrites, and each row once),     *)
(* RestoreInv (what the backup of the rewriting says), RegionInv and       *)
(* RewriteInv (how far the rewriting is, and by what).  Of the library     *)
(* that reads the numbers nothing is assumed but that it is a function.    *)
(***************************************************************************)
EXTENDS Startup, TLAPS

-----------------------------------------------------------------------------
(* The blocks of InitCustomSchema.                                         *)

LEMMA BlockList ==
  /\ Len(Blocks) = 26
  /\ Blocks[1] = Must({}, {"instances"})
  /\ Blocks[2] = Must({"instances"}, {"instances.webhook"})
  /\ Blocks[3] = Must({}, {"scripts", "lines", "warming_rooms", "logs"})
  /\ Blocks[4] = Must({"warming_rooms"}, {"rooms.human"})
  /\ Blocks[5] = Must({}, {"templates"})
  /\ Blocks[6] = Try({"warming_rooms"}, {"rooms.ai"})
  /\ Blocks[7] = Try({"logs"}, {"logs.sender"})
  /\ Blocks[8] = Must({"instances"}, {"users", "user_instances", "audit_logs"})
  /\ Blocks[9] = Try({"instances", "users"}, {"instances.created_by"})
  /\ Blocks[10] = Try({}, {"system_settings"})
  /\ Blocks[11] = Try({}, {})
  /\ Blocks[12] = Try({"users"}, {"sessions"})
  /\ Blocks[13] = Try({"users", "scripts", "templates", "warming_rooms", "logs"}, {"warming.created_by"})
  /\ Blocks[14] = RoomIndex
  /\ Blocks[15] = Try({"users"}, {"users.lockout"})
  /\ Blocks[16] = Try({"users"}, {"users.region"})
  /\ Blocks[17] = Try({"users"}, {"worker_config"})
  /\ Blocks[18] = Try({}, {"worker_logs"})
  /\ Blocks[19] = [Try({"worker_config", "worker_logs"}, {"worker.columns"}) EXCEPT !.skips = 2]
  /\ Blocks[20] = Try({"worker.columns"}, {"worker_logs.index"})
  /\ Blocks[21] = Try({"worker_config"}, {})
  /\ Blocks[22] = Try({}, {"outbox"})
  /\ Blocks[23] = Try({"outbox"}, {"outbox.table_id"})
  /\ Blocks[24] = Try({"outbox"}, {"outbox.claimed_at"})
  /\ Blocks[25] = Try({"outbox.claimed_at"}, {"outbox.index"})
  /\ Blocks[26] = Try({"users"}, {"api_keys"})
BY DEF Blocks, InstanceBlocks, WarmingBlocks, HumanBlocks, AIBlocks, UserBlocks, SessionBlocks,
       OwnerBlocks, LockoutBlocks, ConfigBlocks, OutboxBlocks, KeyBlocks

LEMMA BlockFacts ==
  /\ SeedAt = 6 /\ Len(Blocks) = 26 /\ DOMAIN Blocks = 1..26
  /\ \A n \in 1..26 :
       /\ Blocks[n].must \in BOOLEAN /\ Blocks[n].skips \in {0, 1, 2} /\ Blocks[n].makes \subseteq Complete
       /\ n < 6 => Blocks[n].must
       /\ ~Blocks[n].must => Blocks[n].skips \in {1, 2}
<1>1. SeedAt = 6
  BY DEF SeedAt, InstanceBlocks, WarmingBlocks, HumanBlocks
<1>2. Len(Blocks) = 26 /\ DOMAIN Blocks = 1..26
  BY BlockList
<1>3. ASSUME NEW n \in 1..26
      PROVE  /\ Blocks[n].must \in BOOLEAN /\ Blocks[n].skips \in {0, 1, 2}
             /\ n < 6 => Blocks[n].must
             /\ ~Blocks[n].must => Blocks[n].skips \in {1, 2}
  <2>1. \A k \in {1, 2, 3, 4, 5, 8} : Blocks[k].must = TRUE /\ Blocks[k].skips = 0
    BY BlockList DEF Must
  <2>2. \A k \in {6, 7} \union 9..18 \union 20..26 : Blocks[k].must = FALSE /\ Blocks[k].skips = 1
    BY BlockList DEF Try, RoomIndex
  <2>3. Blocks[19].must = FALSE /\ Blocks[19].skips = 2
    BY BlockList DEF Try
  <2>4. CASE n \in {1, 2, 3, 4, 5, 8}
    <3>1. Blocks[n].must = TRUE /\ Blocks[n].skips = 0
      BY <2>1, <2>4
    <3> QED BY <3>1
  <2>5. CASE n \in {6, 7} \union 9..18 \union 20..26
    <3>1. Blocks[n].must = FALSE /\ Blocks[n].skips = 1 /\ ~(n < 6)
      BY <2>2, <2>5
    <3> QED BY <3>1
  <2>6. CASE n = 19
    <3>1. Blocks[n].must = FALSE /\ Blocks[n].skips = 2 /\ ~(n < 6)
      BY <2>3, <2>6
    <3> QED BY <3>1
  <2> QED BY <2>4, <2>5, <2>6
<1>4. \A n \in 1..26 : Blocks[n].makes \subseteq Complete
  BY <1>2 DEF Complete
<1> QED BY <1>1, <1>2, <1>3, <1>4

LEMMA Makes ==
  /\ "instances" \in Blocks[1].makes /\ "templates" \in Blocks[5].makes
  /\ {"scripts", "warming_rooms", "logs"} \subseteq Blocks[3].makes /\ "rooms.human" \in Blocks[4].makes
  /\ "users" \in Blocks[8].makes /\ "worker_config" \in Blocks[17].makes /\ "worker_logs" \in Blocks[18].makes
  /\ "worker.columns" \in Blocks[19].makes /\ "outbox" \in Blocks[22].makes
  /\ "outbox.claimed_at" \in Blocks[24].makes
BY BlockList DEF Must, Try

\* Whatever a block names is made by an earlier one, and never by the index that
\* two active rooms with one number keep from being created.
LEMMA NamedEarlier ==
  ASSUME NEW n \in 1..26, NEW x \in Blocks[n].needs
  PROVE  x # "rooms.unique" /\ \E j \in 1..26 : j < n /\ x \in Blocks[j].makes
<1>1. \/ n \in {2, 8, 9} /\ x = "instances"
      \/ n \in {4, 6, 13} /\ x = "warming_rooms"
      \/ n \in {7, 13} /\ x = "logs"
      \/ n \in {9, 12, 13, 15, 16, 17, 26} /\ x = "users"
      \/ n = 13 /\ x \in {"scripts", "templates"}
      \/ n = 14 /\ x = "rooms.human"
      \/ n \in {19, 21} /\ x = "worker_config"
      \/ n = 19 /\ x = "worker_logs"
      \/ n = 20 /\ x = "worker.columns"
      \/ n \in {23, 24} /\ x = "outbox"
      \/ n = 25 /\ x = "outbox.claimed_at"
  <2> DEFINE b == Blocks[n]
  <2>1. /\ n \in {1, 3, 5, 10, 11, 18, 22} => b.needs = {}
        /\ n \in {2, 8} => b.needs = {"instances"}
        /\ n \in {4, 6} => b.needs = {"warming_rooms"}
        /\ n = 7 => b.needs = {"logs"}
        /\ n = 9 => b.needs = {"instances", "users"}
        /\ n \in {12, 15, 16, 17, 26} => b.needs = {"users"}
        /\ n = 13 => b.needs = {"users", "scripts", "templates", "warming_rooms", "logs"}
        /\ n = 14 => b.needs = {"rooms.human"}
        /\ n = 19 => b.needs = {"worker_config", "worker_logs"}
        /\ n = 20 => b.needs = {"worker.columns"}
        /\ n = 21 => b.needs = {"worker_config"}
        /\ n \in {23, 24} => b.needs = {"outbox"}
        /\ n = 25 => b.needs = {"outbox.claimed_at"}
    BY BlockList DEF Must, Try, RoomIndex
  <2> HIDE DEF b
  <2>2. x \in b.needs
    BY DEF b
  <2> QED BY <2>1, <2>2
<1> QED BY <1>1, Makes

-----------------------------------------------------------------------------
(* Types.                                                                  *)

Update == [row : Row, old : Number, new : Canonical]
Remaining == {Targets, <<"warming_rooms", "outbox">>, <<"outbox">>, <<>>}

ServerState ==
  [pc : {"off", "schema", "count", "seeding", "region", "claim", "plan", "apply", "serve"},
   block : Nat, own : BOOLEAN, tables : Remaining, todo : SUBSET (Template \union Update),
   saving : SUBSET (Region \union {None}), read : Region \union {None}, clean : BOOLEAN]

Story ==
  [given : [Row -> Held], cut : BOOLEAN, half : BOOLEAN, written : SUBSET Row, again : SUBSET Row,
   moved : SUBSET Row, rewritten : SUBSET Row, shadowed : SUBSET Row, used : Region \union {None}]

\* What a server keeps at each point of its start.
Sound(q) ==
  /\ q \in ServerState
  /\ q.pc = "schema" => q.block \in 1..26
  /\ q.pc \in {"count", "seeding"} => q.block = 6
  /\ q.pc = "plan" => q.tables # <<>>
  /\ q.pc = "seeding" => q.todo \subseteq Template
  /\ q.pc = "apply" => q.todo \subseteq Update
  /\ q.pc \notin {"seeding", "apply"} => q.todo = {}

Data ==
  /\ schema \subseteq Complete /\ templates \subseteq Template
  /\ stored \in Region \union {None, "unset"} /\ marker \in BOOLEAN
  /\ number \in [Row -> Held] /\ live \subseteq Row /\ backup \subseteq Update
  /\ region \in [Process -> Region \union {None}]
  /\ events \in Nat /\ story \in Story

Types == Data /\ server \in [Server -> ServerState] /\ \A s \in Server : Sound(server[s])

LEMMA RemainingFacts ==
  /\ Targets \in Remaining /\ <<>> \in Remaining /\ Targets # <<>>
  /\ {Targets[k] : k \in DOMAIN Targets} = {"instances", "warming_rooms", "outbox"}
  /\ \A ts \in Remaining : ts # <<>> =>
       /\ Tail(ts) \in Remaining /\ Head(ts) \in {ts[j] : j \in DOMAIN ts}
       /\ Head(ts) \in {"instances", "warming_rooms", "outbox"}
       /\ \A k \in DOMAIN Tail(ts) : Tail(ts)[k] # Head(ts) /\ Tail(ts)[k] \in {ts[j] : j \in DOMAIN ts}
       /\ \A k \in DOMAIN ts : ts[k] = Head(ts) \/ ts[k] \in {Tail(ts)[j] : j \in DOMAIN Tail(ts)}
<1>1. DOMAIN Targets = 1..3 /\ Targets[1] = "instances" /\ Targets[2] = "warming_rooms" /\ Targets[3] = "outbox"
  BY DEF Targets
<1>2. Targets # <<>> /\ {Targets[k] : k \in DOMAIN Targets} = {"instances", "warming_rooms", "outbox"}
  BY <1>1
<1>3. ASSUME NEW ts \in Remaining, ts # <<>>
      PROVE  /\ Tail(ts) \in Remaining /\ Head(ts) \in {ts[j] : j \in DOMAIN ts}
             /\ Head(ts) \in {"instances", "warming_rooms", "outbox"}
             /\ \A k \in DOMAIN Tail(ts) : Tail(ts)[k] # Head(ts) /\ Tail(ts)[k] \in {ts[j] : j \in DOMAIN ts}
             /\ \A k \in DOMAIN ts : ts[k] = Head(ts) \/ ts[k] \in {Tail(ts)[j] : j \in DOMAIN Tail(ts)}
  <2>1. CASE ts = Targets
    BY <2>1 DEF Targets, Remaining
  <2>2. CASE ts = <<"warming_rooms", "outbox">>
    BY <2>2 DEF Remaining
  <2>3. CASE ts = <<"outbox">>
    BY <2>3 DEF Remaining
  <2> QED BY <1>3, <2>1, <2>2, <2>3 DEF Remaining
<1> QED BY <1>2, <1>3 DEF Remaining

LEMMA NormalType ==
  ASSUME NEW n \in Held, NEW r \in Region \union {None}, Parses(n, r)
  PROVE  n \in Number /\ NormalizePhone(n, r) \in Canonical
<1>1. n \in Number /\ NormalizePhone(n, r) # NoNumber
  BY DEF Held, Parses
<1>2. Parse[r][n] \in Canonical \union {NoNumber} /\ Abroad[n] \in Canonical \union {NoNumber}
  BY <1>1, StartupAssumption DEF StartupAssumption
<1> QED BY <1>1, <1>2 DEF NormalizePhone

LEMMA CanonicalHeld == Canonical \subseteq Number /\ Canonical \subseteq Held /\ Number \subseteq Held
BY StartupAssumption DEF StartupAssumption, Held

LEMMA EnteredType == ASSUME NEW row, NEW n \in Entered(row) PROVE n \in Number
<1>1. CASE TableOf[row] = "instances"
  BY <1>1, CanonicalHeld DEF Entered
<1>2. CASE TableOf[row] # "instances"
  <2>1. PICK typed \in Number, r \in Region \union {None} : n \in Whitelisted(typed, r)
    BY <1>2 DEF Entered
  <2>2. typed \in Held
    BY CanonicalHeld
  <2>3. CASE Parses(typed, r)
    <3>1. n = NormalizePhone(typed, r)
      BY <2>1, <2>3 DEF Whitelisted
    <3> QED BY <2>2, <2>3, <3>1, NormalType, CanonicalHeld
  <2>4. CASE ~Parses(typed, r)
    BY <2>1, <2>4 DEF Whitelisted
  <2> QED BY <2>3, <2>4
<1> QED BY <1>1, <1>2

LEMMA FromEnvType == ASSUME NEW p PROVE FromEnv(p) \in Region \union {None}
BY DEF FromEnv, Supported

-----------------------------------------------------------------------------
(* What each step puts in the place of a server's state.                   *)

Puts(s, q) == server' = [server EXCEPT ![s] = q]

LEMMA Current ==
  ASSUME Types, NEW s \in Server
  PROVE  \E r \in ServerState : r = server[s] /\ Sound(r)
BY DEF Types

LEMMA OffIsSound == Off \in ServerState /\ Sound(Off) /\ Off.pc = "off" /\ ~Off.clean
BY RemainingFacts DEF Off, Sound, ServerState

\* The others stay as they are, and all remain sound.
LEMMA PutsType ==
  ASSUME Types, NEW s \in Server, NEW q, Sound(q), Puts(s, q)
  PROVE  /\ server' \in [Server -> ServerState] /\ server'[s] = q
         /\ \A o \in Server : o # s => server'[o] = server[o]
         /\ \A o \in Server : Sound(server'[o])
<1>1. q \in ServerState
  BY DEF Sound
<1>2. /\ server' \in [Server -> ServerState] /\ server'[s] = q
      /\ \A o \in Server : o # s => server'[o] = server[o]
  BY <1>1 DEF Types, Puts
<1>3. ASSUME NEW o \in Server PROVE Sound(server'[o])
  <2>1. CASE o = s
    BY <1>2, <2>1
  <2>2. CASE o # s
    BY <1>2, <2>2 DEF Types
  <2> QED BY <2>1, <2>2
<1> QED BY <1>2, <1>3

LEMMA BootEffect ==
  ASSUME Types, NEW s \in Server, Boot(s)
  PROVE  /\ server[s].pc = "off" /\ events' \in Nat
         /\ region' = [region EXCEPT ![s] = FromEnv(s)]
         /\ UNCHANGED <<schema, templates, stored, marker, number, live, backup, story>>
         /\ \E q : Sound(q) /\ Puts(s, q) /\ q.pc = "schema" /\ q.block = 1
<1> DEFINE a == [Off EXCEPT !.pc = "schema", !.own = OwnOutbox, !.clean = TRUE]
           b == [Off EXCEPT !.pc = "schema"]
<1>1. /\ Sound(a) /\ a.pc = "schema" /\ a.block = 1
      /\ Sound(b) /\ b.pc = "schema" /\ b.block = 1
  <2>1. Off \in ServerState /\ Off.block = 1 /\ Off.todo = {} /\ OwnOutbox \in BOOLEAN
    BY OffIsSound, StartupAssumption DEF Off
  <2>2. /\ a \in ServerState /\ a.pc = "schema" /\ a.block = 1 /\ a.todo = {}
        /\ b \in ServerState /\ b.pc = "schema" /\ b.block = 1 /\ b.todo = {}
    BY <2>1 DEF ServerState
  <2> HIDE DEF a, b
  <2> QED BY <2>2 DEF Sound
<1>2. Puts(s, a) \/ Puts(s, b)
  BY DEF Boot, OutboxPool, Puts
<1> HIDE DEF a, b
<1>3. events' \in Nat
  BY DEF Boot, OutboxPool, NoFault, Types, Data
<1> QED BY <1>1, <1>2, <1>3 DEF Boot, At, db, rows

LEMMA BlockEffect ==
  ASSUME Types, NEW s \in Server, RunBlock(s)
  PROVE  /\ server[s].pc = "schema" /\ server[s].block \in 1..26 /\ events' \in Nat
         /\ UNCHANGED <<templates, stored, marker, number, live, backup, region, story>>
         /\ schema \subseteq schema' /\ schema' \subseteq Complete
         /\ \E q : /\ Sound(q) /\ Puts(s, q) /\ q.pc \in {"off", "schema", "count", "region"}
                   /\ q.pc = "region" => q.block > 26
                   /\ q.pc = "region" \/ (q.pc = "schema" /\ q.block >= 6) => server[s].block >= 6
                   /\ q.clean =>
                        /\ server[s].clean /\ q.pc # "off"
                        /\ \/ q.block = server[s].block + 1 /\ Blocks[server[s].block].makes \subseteq schema'
                           \/ /\ ~CanRun(Blocks[server[s].block])
                              /\ q.block = server[s].block + Blocks[server[s].block].skips
<1>1. PICK r \in ServerState : r = server[s] /\ Sound(r)
  BY Current
<1>2. PICK n \in 1..26 : r.block = n /\ r.pc = "schema"
  BY <1>1 DEF RunBlock, At, Sound
<1>3. PICK b : b = Blocks[n]
  OBVIOUS
<1>4. /\ b.must \in BOOLEAN /\ b.skips \in {0, 1, 2} /\ b.makes \subseteq Complete
      /\ n < 6 => b.must
      /\ ~b.must => b.skips \in {1, 2}
      /\ SeedAt = 6 /\ Len(Blocks) = 26
  BY <1>3, BlockFacts
<1> DEFINE next(k) == [r EXCEPT !.block = k,
                         !.pc = IF k = 6 THEN "count" ELSE IF k > 26 THEN "region" ELSE "schema"]
           over(k) == [r EXCEPT !.clean = FALSE, !.block = k,
                         !.pc = IF k > 26 THEN "region" ELSE "schema"]
<1>5. ASSUME NEW k \in {n + 1, n + b.skips}, k > n, k = n + 1 \/ n >= 6
      PROVE  /\ Sound(next(k)) /\ next(k).pc \in {"count", "region", "schema"} /\ next(k).block = k
             /\ next(k).clean = r.clean
             /\ next(k).pc = "region" => k > 26
             /\ next(k).pc = "region" \/ (next(k).pc = "schema" /\ k >= 6) => n >= 6
  <2>1. k \in Nat /\ k > 0 /\ (k = 6 => n = 5 \/ n >= 6)
    BY <1>4, <1>5
  <2>2. next(k) \in ServerState /\ next(k).block = k /\ next(k).clean = r.clean /\ next(k).todo = r.todo
        /\ next(k).pc = IF k = 6 THEN "count" ELSE IF k > 26 THEN "region" ELSE "schema"
    BY <2>1 DEF ServerState
  <2>3. r.todo = {}
    BY <1>1, <1>2 DEF Sound
  <2> HIDE DEF next
  <2>4. Sound(next(k))
    BY <2>1, <2>2, <2>3 DEF Sound
  <2> QED BY <1>5, <2>1, <2>2, <2>4
<1>6. ASSUME NEW k \in {n + b.skips}, k > n, n >= 6
      PROVE  /\ Sound(over(k)) /\ over(k).pc \in {"region", "schema"} /\ over(k).block = k
             /\ ~over(k).clean
             /\ over(k).pc = "region" => k > 26
  <2>1. k \in Nat /\ k > 6
    BY <1>4, <1>6
  <2>2. over(k) \in ServerState /\ over(k).block = k /\ over(k).clean = FALSE /\ over(k).todo = r.todo
        /\ over(k).pc = IF k > 26 THEN "region" ELSE "schema"
    BY <2>1 DEF ServerState
  <2>3. r.todo = {}
    BY <1>1, <1>2 DEF Sound
  <2> HIDE DEF over
  <2>4. Sound(over(k))
    BY <2>1, <2>2, <2>3 DEF Sound
  <2> QED BY <1>6, <2>1, <2>2, <2>4
<1>7. \/ CanRun(b) /\ schema' = schema \union b.makes /\ Puts(s, next(n + 1)) /\ events' = events
      \/ schema' = schema /\ Puts(s, Off) /\ (events' = events \/ events' = events + 1)
      \/ schema' = schema /\ ~CanRun(b) /\ ~b.must /\ Puts(s, next(n + b.skips)) /\ events' = events
      \/ schema' = schema /\ ~b.must /\ Puts(s, over(n + b.skips)) /\ events' = events + 1
  BY <1>1, <1>2, <1>3, <1>4 DEF RunBlock, NextBlock, NoFault, Puts
<1> HIDE DEF next, over
<1>8. /\ UNCHANGED <<templates, stored, marker, number, live, backup, region, story>> /\ events' \in Nat
      /\ schema \subseteq schema' /\ schema' \subseteq Complete
  <2>1. schema' = schema \/ schema' = schema \union b.makes
    BY <1>7
  <2>2. events' \in Nat
    BY <1>7 DEF Types, Data
  <2> QED BY <1>4, <2>1, <2>2 DEF RunBlock, rows, Types, Data
<1> DEFINE Good(q) ==
      /\ Sound(q) /\ Puts(s, q) /\ q.pc \in {"off", "schema", "count", "region"}
      /\ q.pc = "region" => q.block > 26
      /\ q.pc = "region" \/ (q.pc = "schema" /\ q.block >= 6) => n >= 6
      /\ q.clean =>
           /\ r.clean /\ q.pc # "off"
           /\ \/ q.block = n + 1 /\ b.makes \subseteq schema'
              \/ ~CanRun(b) /\ q.block = n + b.skips
<1>9. \E q : Good(q)
  <2>1. CASE schema' = schema \union b.makes /\ Puts(s, next(n + 1))
    <3>1. Good(next(n + 1))
      BY <1>5, <2>1
    <3> QED BY <3>1
  <2>2. CASE Puts(s, Off)
    <3>1. Good(Off)
      BY <2>2, OffIsSound
    <3> QED BY <3>1
  <2>3. CASE ~CanRun(b) /\ ~b.must /\ Puts(s, next(n + b.skips))
    <3>1. n + b.skips > n /\ n >= 6
      BY <1>4, <2>3
    <3>2. Good(next(n + b.skips))
      BY <1>5, <2>3, <3>1
    <3> QED BY <3>2
  <2>4. CASE ~b.must /\ Puts(s, over(n + b.skips))
    <3>1. n + b.skips > n /\ n >= 6
      BY <1>4, <2>4
    <3>2. Good(over(n + b.skips))
      BY <1>6, <2>4, <3>1
    <3> QED BY <3>2
  <2> HIDE DEF Good
  <2> QED BY <1>7, <2>1, <2>2, <2>3, <2>4
<1> QED BY <1>1, <1>2, <1>3, <1>8, <1>9

LEMMA CountEffect ==
  ASSUME Types, NEW s \in Server, CountTemplates(s)
  PROVE  /\ server[s].pc = "count" /\ events' \in Nat
         /\ UNCHANGED <<schema, templates, stored, marker, number, live, backup, region, story>>
         /\ \E q : /\ Sound(q) /\ Puts(s, q)
                   /\ \/ /\ q.pc = "schema" /\ q.block = 6 /\ (q.clean => server[s].clean /\ templates # {})
                      \/ q.pc = "seeding" /\ q.todo = Template /\ (q.clean => server[s].clean) /\ templates = {}
<1>1. PICK r \in ServerState : r = server[s] /\ Sound(r)
  BY Current
<1>2. r.pc = "count" /\ r.block = 6 /\ r.todo = {}
  BY <1>1 DEF CountTemplates, At, Sound
<1> DEFINE a == [r EXCEPT !.todo = Template, !.pc = "seeding"]
           b == [r EXCEPT !.todo = {}, !.pc = "schema"]
           c == [r EXCEPT !.pc = "schema", !.clean = FALSE]
<1>3. /\ a \in ServerState /\ a.pc = "seeding" /\ a.todo = Template /\ a.block = 6 /\ a.clean = r.clean
      /\ b \in ServerState /\ b.pc = "schema" /\ b.todo = {} /\ b.block = 6 /\ b.clean = r.clean
      /\ c \in ServerState /\ c.pc = "schema" /\ c.todo = {} /\ c.block = 6 /\ c.clean = FALSE
  BY <1>2 DEF ServerState
<1>4. \/ templates = {} /\ Puts(s, a) /\ events' = events
      \/ templates # {} /\ Puts(s, b) /\ events' = events
      \/ Puts(s, c) /\ events' = events + 1
  BY <1>1 DEF CountTemplates, Fault, NoFault, Puts
<1> HIDE DEF a, b, c
<1>5. Sound(a) /\ Sound(b) /\ Sound(c)
  BY <1>3 DEF Sound
<1>6. events' \in Nat /\ UNCHANGED <<schema, templates, stored, marker, number, live, backup, region, story>>
  BY <1>4 DEF Types, Data, CountTemplates, db, rows
<1> QED BY <1>1, <1>2, <1>3, <1>4, <1>5, <1>6

LEMMA SeedEffect ==
  ASSUME Types, NEW s \in Server, SeedTemplate(s)
  PROVE  /\ server[s].pc = "seeding" /\ events' \in Nat
         /\ UNCHANGED <<schema, stored, marker, number, live, backup, region>>
         /\ \E q, t : /\ Sound(q) /\ Puts(s, q) /\ t \in server[s].todo /\ q.todo = server[s].todo \ {t}
                      /\ (q.clean => server[s].clean) /\ q.block = 6
                      /\ q.pc = IF q.todo = {} THEN "schema" ELSE "seeding"
                      /\ \/ templates' = templates \union {t} /\ UNCHANGED story
                         \/ templates' = templates /\ story' = [story EXCEPT !.half = TRUE]
<1>1. PICK r \in ServerState : r = server[s] /\ Sound(r)
  BY Current
<1>2. r.pc = "seeding" /\ r.block = 6 /\ r.todo \subseteq Template
  BY <1>1 DEF SeedTemplate, At, Sound
<1>3. PICK t \in server[s].todo :
       \/ /\ events' = events /\ templates' = templates \union {t} /\ UNCHANGED story
          /\ server' = [server EXCEPT ![s].todo = server[s].todo \ {t},
                                      ![s].pc = IF server[s].todo = {t} THEN "schema" ELSE "seeding"]
       \/ /\ events' = events + 1 /\ templates' = templates /\ story' = [story EXCEPT !.half = TRUE]
          /\ server' = [server EXCEPT ![s].todo = server[s].todo \ {t},
                                      ![s].pc = IF server[s].todo = {t} THEN "schema" ELSE "seeding",
                                      ![s].clean = FALSE]
  BY DEF SeedTemplate, NoFault
<1> DEFINE pc == IF r.todo = {t} THEN "schema" ELSE "seeding"
           a == [r EXCEPT !.todo = r.todo \ {t}, !.pc = pc]
           b == [r EXCEPT !.todo = r.todo \ {t}, !.pc = pc, !.clean = FALSE]
<1>4. /\ a \in ServerState /\ a.pc = pc /\ a.todo = r.todo \ {t} /\ a.block = 6 /\ a.clean = r.clean
      /\ b \in ServerState /\ b.pc = pc /\ b.todo = r.todo \ {t} /\ b.block = 6 /\ b.clean = FALSE
  BY <1>2 DEF ServerState
<1>5. \/ events' = events /\ templates' = templates \union {t} /\ UNCHANGED story /\ Puts(s, a)
      \/ events' = events + 1 /\ templates' = templates /\ story' = [story EXCEPT !.half = TRUE] /\ Puts(s, b)
  BY <1>1, <1>3 DEF Puts
<1> HIDE DEF a, b
<1>6. Sound(a) /\ Sound(b)
  BY <1>2, <1>4 DEF Sound
<1>7. pc = IF r.todo \ {t} = {} THEN "schema" ELSE "seeding"
  BY <1>1, <1>3
<1> HIDE DEF pc
<1>8. events' \in Nat
  BY <1>5 DEF Types, Data
<1>9. UNCHANGED <<schema, stored, marker, number, live, backup, region>>
  BY DEF SeedTemplate, rows
<1> QED BY <1>1, <1>2, <1>3, <1>4, <1>5, <1>6, <1>7, <1>8, <1>9

LEMMA RegionEffect ==
  ASSUME Types, NEW s \in Server, ApplyStoredPhoneRegion(s)
  PROVE  /\ server[s].pc = "region" /\ events' \in Nat
         /\ region' \in [Process -> Region \union {None}]
         /\ \A o \in Server : o # s => region'[o] = region[o]
         /\ UNCHANGED <<schema, templates, stored, marker, number, live, backup, story>>
         /\ \E q : /\ Sound(q) /\ Puts(s, q) /\ q.pc = "claim"
                   /\ q.clean => /\ server[s].clean
                                 /\ q.read = IF stored = "unset" THEN FromEnv(s) ELSE stored
                                 /\ region'[s] = IF stored = "unset" THEN region[s] ELSE stored
<1>1. PICK r \in ServerState : r = server[s] /\ Sound(r)
  BY Current
<1>2. r.pc = "region" /\ r.todo = {}
  BY <1>1 DEF ApplyStoredPhoneRegion, At, Sound
<1>9. PICK f \in Region \union {None} : f = IF stored = "unset" THEN FromEnv(s) ELSE stored
  BY FromEnvType DEF Types, Data
<1> DEFINE a == [r EXCEPT !.pc = "claim", !.read = f]
           b == [r EXCEPT !.pc = "claim", !.clean = FALSE]
<1>3. /\ a \in ServerState /\ a.pc = "claim" /\ a.todo = {} /\ a.clean = r.clean /\ a.read = f
      /\ b \in ServerState /\ b.pc = "claim" /\ b.todo = {} /\ b.clean = FALSE
  BY <1>2 DEF ServerState
<1>4. \/ /\ Puts(s, a) /\ events' = events
         /\ IF stored # "unset" THEN SetRegion(s, stored) ELSE UNCHANGED region
      \/ Puts(s, b) /\ events' = events + 1 /\ UNCHANGED region
  BY <1>1, <1>9 DEF ApplyStoredPhoneRegion, Fault, NoFault, Puts
<1> HIDE DEF a, b
<1>5. Sound(a) /\ Sound(b)
  BY <1>3 DEF Sound
<1>6. events' \in Nat /\ UNCHANGED <<schema, templates, stored, marker, number, live, backup, story>>
  BY <1>4 DEF Types, Data, ApplyStoredPhoneRegion, db, rows
<1>7. /\ s \in Process /\ region \in [Process -> Region \union {None}]
      /\ stored # "unset" => stored \in Region \union {None}
  BY DEF Process, Types, Data
<1>8. /\ region' \in [Process -> Region \union {None}]
      /\ \A o \in Server : o # s => region'[o] = region[o]
      /\ region'[s] = (IF stored = "unset" THEN region[s] ELSE stored) \/ Puts(s, b)
  <2>1. CASE UNCHANGED region /\ (Puts(s, b) \/ stored = "unset")
    BY <1>7, <2>1
  <2>2. CASE stored # "unset" /\ SetRegion(s, stored)
    <3>1. region' = [region EXCEPT ![s] = stored]
      BY <1>7, <2>2 DEF SetRegion, Supported
    <3> QED BY <1>7, <2>2, <3>1 DEF Process
  <2> QED BY <1>4, <2>1, <2>2
<1> QED BY <1>1, <1>2, <1>3, <1>4, <1>5, <1>6, <1>8, <1>9

LEMMA ClaimEffect ==
  ASSUME Types, NEW s \in Server, ClaimPhoneBackfill(s)
  PROVE  /\ server[s].pc = "claim" /\ events' \in Nat
         /\ UNCHANGED <<schema, templates, stored, number, live, backup, region>>
         /\ \E q : /\ Sound(q) /\ Puts(s, q) /\ (q.clean => server[s].clean)
                   /\ \/ q.pc = "serve" /\ UNCHANGED <<marker, story>>
                      \/ /\ q.pc = "plan" /\ q.tables = Targets /\ q.todo = {} /\ ~marker /\ marker' = TRUE
                         /\ story' = [story EXCEPT !.used = server[s].read,
                                                   !.cut = ~server[s].clean]
<1>1. PICK r \in ServerState : r = server[s] /\ Sound(r)
  BY Current
<1>2. r.pc = "claim" /\ r.todo = {}
  BY <1>1 DEF ClaimPhoneBackfill, At, Sound
<1> DEFINE a == [r EXCEPT !.pc = "serve", !.clean = FALSE]
           b == [r EXCEPT !.pc = "serve"]
           c == [r EXCEPT !.pc = "plan", !.tables = Targets]
<1>3. /\ a \in ServerState /\ a.pc = "serve" /\ a.todo = {} /\ a.clean = FALSE
      /\ b \in ServerState /\ b.pc = "serve" /\ b.todo = {} /\ b.clean = r.clean
      /\ c \in ServerState /\ c.pc = "plan" /\ c.todo = {} /\ c.tables = Targets /\ c.clean = r.clean
  BY <1>2, RemainingFacts DEF ServerState
<1>4. \/ Puts(s, a) /\ events' = events + 1 /\ UNCHANGED <<marker, story>>
      \/ Puts(s, b) /\ events' = events /\ UNCHANGED <<marker, story>>
      \/ /\ Puts(s, c) /\ events' = events /\ ~marker /\ marker' = TRUE
         /\ story' = [story EXCEPT !.used = server[s].read,
                                   !.cut = ~server[s].clean]
  BY <1>1 DEF ClaimPhoneBackfill, Fault, GoTo, NoFault, Puts
<1> HIDE DEF a, b, c
<1>5. Sound(a) /\ Sound(b) /\ Sound(c)
  BY <1>3, RemainingFacts DEF Sound
<1>6. events' \in Nat
  BY <1>4 DEF Types, Data
<1>7. UNCHANGED <<schema, templates, stored, number, live, backup, region>>
  BY DEF ClaimPhoneBackfill, rows
<1> QED BY <1>1, <1>2, <1>3, <1>4, <1>5, <1>6, <1>7

\* What a server is up to once it knows what is left of a table.
LEMMA AfterFacts ==
  ASSUME NEW todo, NEW tables
  PROVE  /\ todo # {} => After(todo, tables) = "apply"
         /\ todo = {} /\ tables # <<>> => After(todo, tables) = "plan"
         /\ todo = {} /\ tables = <<>> => After(todo, tables) = "serve"
BY DEF After

\* A plan of a table rewrites rows of it that it read, to another number that they
\* normalise to; of those it could read it leaves out the ones that are there
\* already, or that another room shadows.
LEMMA PlanFacts ==
  ASSUME Types, NEW s \in Server, NEW t, NEW plan \in Plans(s, t)
  PROVE  /\ plan.todo \subseteq Update /\ plan.shadowed \subseteq Row
         /\ \A u \in plan.todo :
              /\ TableOf[u.row] = t /\ u.old = number[u.row]
              /\ u.new = NormalizePhone(u.old, region[s]) /\ u.new # u.old
              /\ \A v \in plan.todo : v.row = u.row => v = u
         /\ \A row \in Row :
              /\ TableOf[row] = t /\ Parses(number[row], region[s]) /\ row \notin plan.shadowed
              /\ t = "outbox" => row \in live /\ server[s].own = OwnOutbox
              => \/ NormalizePhone(number[row], region[s]) = number[row]
                 \/ \E u \in plan.todo : /\ u.row = row /\ u.old = number[row]
                                         /\ u.new = NormalizePhone(number[row], region[s])
<1>1. PICK r \in Region \union {None} : r = region[s]
  BY DEF Types, Data, Process
<1> DEFINE candidates == {row \in Loaded(s, t) : Parses(number[row], r)}
           entry(row) == [row |-> row, old |-> number[row], new |-> NormalizePhone(number[row], r)]
<1>2. PICK w \in SUBSET candidates :
        /\ plan = [todo |-> {entry(row) : row \in {x \in w : NormalizePhone(number[x], r) # number[x]}},
                   shadowed |-> candidates \ w]
  BY <1>1 DEF Plans
<1>3. \A row \in candidates :
        /\ row \in Row /\ TableOf[row] = t /\ number[row] \in Held /\ Parses(number[row], r)
  BY DEF Loaded, Types, Data
<1>4. \A row \in candidates :
        /\ number[row] \in Number /\ NormalizePhone(number[row], r) \in Canonical
  BY <1>3, NormalType
<1>5. ASSUME NEW row \in Row, TableOf[row] = t, Parses(number[row], r),
             t = "outbox" => row \in live /\ server[s].own = OwnOutbox
      PROVE  row \in candidates
  BY <1>5 DEF Loaded, Parses
<1> HIDE DEF candidates
<1>6. plan.todo = {entry(row) : row \in {x \in w : NormalizePhone(number[x], r) # number[x]}}
      /\ plan.shadowed = candidates \ w
  BY <1>2
<1>7. ASSUME NEW u \in plan.todo
      PROVE  /\ u \in Update /\ TableOf[u.row] = t /\ u.old = number[u.row]
             /\ u.new = NormalizePhone(u.old, r) /\ u.new # u.old
             /\ u = entry(u.row)
  <2>1. PICK row \in w : u = entry(row) /\ NormalizePhone(number[row], r) # number[row]
    BY <1>6
  <2>2. u.row = row /\ u.old = number[row] /\ u.new = NormalizePhone(number[row], r)
    BY <2>1
  <2>3. row \in candidates
    OBVIOUS
  <2> QED BY <1>3, <1>4, <2>1, <2>2, <2>3 DEF Update
<1>8. ASSUME NEW row \in Row, TableOf[row] = t, Parses(number[row], r), row \notin plan.shadowed,
             t = "outbox" => row \in live /\ server[s].own = OwnOutbox
      PROVE  \/ NormalizePhone(number[row], r) = number[row]
             \/ \E u \in plan.todo : u.row = row /\ u.old = number[row] /\ u.new = NormalizePhone(number[row], r)
  <2>1. row \in w
    BY <1>5, <1>6, <1>8
  <2>2. CASE NormalizePhone(number[row], r) # number[row]
    <3>1. entry(row) \in plan.todo
      BY <1>6, <2>1, <2>2
    <3>2. entry(row).row = row /\ entry(row).old = number[row] /\ entry(row).new = NormalizePhone(number[row], r)
      OBVIOUS
    <3> HIDE DEF entry
    <3> QED BY <3>1, <3>2
  <2> QED BY <2>2
<1>9. plan.todo \subseteq Update /\ plan.shadowed \subseteq Row
  BY <1>3, <1>6, <1>7
<1> HIDE DEF entry
<1> QED BY <1>1, <1>7, <1>8, <1>9

LEMMA PlanEffect ==
  ASSUME Types, NEW s \in Server, PlanTarget(s)
  PROVE  /\ server[s].pc = "plan" /\ events' \in Nat
         /\ UNCHANGED <<schema, templates, stored, marker, number, live, backup, region>>
         /\ \E q : /\ Sound(q) /\ Puts(s, q) /\ q.tables = Tail(server[s].tables)
                   /\ q.pc = After(q.todo, q.tables) /\ (q.clean => server[s].clean)
                   /\ \/ q.todo = {} /\ story' = [story EXCEPT !.cut = TRUE]
                      \/ \E plan \in Plans(s, Head(server[s].tables)) :
                           /\ q.todo = plan.todo
                           /\ story' = [story EXCEPT !.shadowed = story.shadowed \union plan.shadowed,
                                          !.cut = \/ story.cut
                                                  \/ /\ Head(server[s].tables) = "outbox"
                                                     /\ server[s].own # OwnOutbox]
<1>1. PICK r \in ServerState : r = server[s] /\ Sound(r)
  BY Current
<1>2. r.pc = "plan" /\ r.todo = {} /\ r.tables # <<>> /\ r.tables \in Remaining
  BY <1>1 DEF PlanTarget, At, Sound, ServerState
<1>3. PICK rest \in Remaining : rest = Tail(r.tables)
  BY <1>2, RemainingFacts
<1> DEFINE a == [r EXCEPT !.tables = rest, !.pc = After({}, rest), !.clean = FALSE]
           b(todo) == [r EXCEPT !.tables = rest, !.todo = todo, !.pc = After(todo, rest)]
<1>4. \A todo : After(todo, rest) \in {"apply", "plan", "serve"}
  BY DEF After
<1>5. a \in ServerState /\ a.pc = After({}, rest) /\ a.todo = {} /\ a.tables = rest /\ a.clean = FALSE
  BY <1>2, <1>4 DEF ServerState
<1>6. ASSUME NEW todo \in SUBSET Update
      PROVE  /\ b(todo) \in ServerState /\ b(todo).pc = After(todo, rest) /\ b(todo).todo = todo
             /\ b(todo).tables = rest /\ b(todo).clean = r.clean
  BY <1>4 DEF ServerState
<1>7. \/ Puts(s, a) /\ events' = events + 1 /\ story' = [story EXCEPT !.cut = TRUE]
      \/ /\ events' = events
         /\ \E plan \in Plans(s, Head(server[s].tables)) :
              /\ Puts(s, b(plan.todo))
              /\ story' = [story EXCEPT !.shadowed = story.shadowed \union plan.shadowed,
                             !.cut = \/ story.cut
                                     \/ Head(server[s].tables) = "outbox" /\ server[s].own # OwnOutbox]
  <2>1. \/ /\ events' = events + 1 /\ story' = [story EXCEPT !.cut = TRUE]
           /\ server' = [server EXCEPT ![s].tables = Tail(server[s].tables),
                                       ![s].pc = After({}, Tail(server[s].tables)), ![s].clean = FALSE]
        \/ /\ events' = events
           /\ \E plan \in Plans(s, Head(server[s].tables)) :
                /\ server' = [server EXCEPT ![s].tables = Tail(server[s].tables), ![s].todo = plan.todo,
                                            ![s].pc = After(plan.todo, Tail(server[s].tables))]
                /\ story' = [story EXCEPT !.shadowed = @ \union plan.shadowed,
                               !.cut = @ \/ (Head(server[s].tables) = "outbox" /\ server[s].own # OwnOutbox)]
    BY DEF PlanTarget, NoFault
  <2>2. /\ server' = [server EXCEPT ![s].tables = Tail(server[s].tables),
                        ![s].pc = After({}, Tail(server[s].tables)), ![s].clean = FALSE] => Puts(s, a)
        /\ \A todo : server' = [server EXCEPT ![s].tables = Tail(server[s].tables), ![s].todo = todo,
                                  ![s].pc = After(todo, Tail(server[s].tables))] => Puts(s, b(todo))
    BY <1>1, <1>3 DEF Puts
  <2> HIDE DEF a, b
  <2> QED BY <2>1, <2>2
<1> HIDE DEF a, b
<1>8. Sound(a) /\ \A todo \in SUBSET Update : Sound(b(todo))
  BY <1>5, <1>6, AfterFacts DEF Sound
<1>9. events' \in Nat
  <2>1. events' = events + 1 \/ events' = events
    BY <1>7
  <2> QED BY <2>1 DEF Types, Data
<1>10. UNCHANGED <<schema, templates, stored, marker, number, live, backup, region>>
  BY DEF PlanTarget, db, rows
<1>11. CASE Puts(s, a) /\ story' = [story EXCEPT !.cut = TRUE]
  BY <1>1, <1>2, <1>3, <1>5, <1>8, <1>9, <1>10, <1>11
<1>12. CASE \E plan \in Plans(s, Head(server[s].tables)) :
              /\ Puts(s, b(plan.todo))
              /\ story' = [story EXCEPT !.shadowed = story.shadowed \union plan.shadowed,
                             !.cut = \/ story.cut
                                     \/ Head(server[s].tables) = "outbox" /\ server[s].own # OwnOutbox]
  <2>1. PICK plan \in Plans(s, Head(server[s].tables)) :
              /\ Puts(s, b(plan.todo))
              /\ story' = [story EXCEPT !.shadowed = story.shadowed \union plan.shadowed,
                             !.cut = \/ story.cut
                                     \/ Head(server[s].tables) = "outbox" /\ server[s].own # OwnOutbox]
    BY <1>12
  <2>2. PICK todo \in SUBSET Update : todo = plan.todo
    BY PlanFacts
  <2>3. /\ Sound(b(todo)) /\ Puts(s, b(todo)) /\ b(todo).tables = Tail(server[s].tables)
        /\ b(todo).pc = After(b(todo).todo, b(todo).tables) /\ (b(todo).clean => server[s].clean)
        /\ b(todo).todo = plan.todo
    BY <1>1, <1>3, <1>6, <1>8, <2>1, <2>2
  <2> QED BY <1>1, <1>2, <1>9, <1>10, <2>1, <2>3
<1> QED BY <1>7, <1>11, <1>12

\* The server puts q in place, having dealt with the planned update u.
Deals(s, q, u) ==
  /\ Sound(q) /\ Puts(s, q) /\ q.tables = server[s].tables /\ u \in server[s].todo
  /\ q.pc = After(q.todo, q.tables) /\ (q.clean => server[s].clean)
  /\ \/ /\ Unchanged(u) /\ number' = [number EXCEPT ![u.row] = u.new]
        /\ backup' = backup \union {u} /\ q.todo = server[s].todo \ {u}
        /\ story' = [story EXCEPT !.rewritten = story.rewritten \union {u.row}]
     \/ /\ ~Unchanged(u) /\ UNCHANGED <<number, backup, story>>
        /\ q.todo = server[s].todo \ {u}
     \/ /\ story' = [story EXCEPT !.cut = TRUE] /\ UNCHANGED <<number, backup>>
        /\ q.todo = {}

LEMMA ApplyEffect ==
  ASSUME Types, NEW s \in Server, ApplyPhoneUpdate(s)
  PROVE  /\ server[s].pc = "apply" /\ events' \in Nat
         /\ UNCHANGED <<schema, templates, stored, marker, live, region>>
         /\ \E q, u : Deals(s, q, u)
<1>1. PICK r \in ServerState : r = server[s] /\ Sound(r)
  BY Current
<1>2. r.pc = "apply" /\ r.todo \subseteq Update
  BY <1>1 DEF ApplyPhoneUpdate, At, Sound
<1> DEFINE a(todo) == [r EXCEPT !.todo = todo, !.pc = After(todo, r.tables)]
           b == [r EXCEPT !.todo = {}, !.clean = FALSE, !.pc = After({}, r.tables)]
<1>3. \A todo : After(todo, r.tables) \in {"apply", "plan", "serve"}
  BY DEF After
<1>4. ASSUME NEW todo \in SUBSET Update
      PROVE  /\ a(todo) \in ServerState /\ a(todo).pc = After(todo, r.tables) /\ a(todo).todo = todo
             /\ a(todo).tables = r.tables /\ a(todo).clean = r.clean
  BY <1>3 DEF ServerState
<1>5. b \in ServerState /\ b.pc = After({}, r.tables) /\ b.todo = {} /\ b.tables = r.tables /\ b.clean = FALSE
  BY <1>3 DEF ServerState
<1>6. PICK u \in r.todo :
        \/ /\ Unchanged(u) /\ number' = [number EXCEPT ![u.row] = u.new]
           /\ backup' = backup \union {u} /\ Puts(s, a(r.todo \ {u})) /\ events' = events
           /\ story' = [story EXCEPT !.rewritten = story.rewritten \union {u.row}]
        \/ /\ ~Unchanged(u) /\ UNCHANGED <<number, backup, story>>
           /\ Puts(s, a(r.todo \ {u})) /\ events' = events
        \/ story' = [story EXCEPT !.cut = TRUE] /\ UNCHANGED <<number, backup>>
           /\ Puts(s, a({})) /\ events' = events
        \/ story' = [story EXCEPT !.cut = TRUE] /\ UNCHANGED <<number, backup>>
           /\ Puts(s, b) /\ events' = events + 1
  <2> DEFINE left(u) == IF Unchanged(u) /\ Refused(u.row, u.new) THEN {} ELSE server[s].todo \ {u}
  <2>1. \E u \in server[s].todo :
          \/ /\ events' = events
             /\ server' = [server EXCEPT ![s].todo = left(u), ![s].pc = After(left(u), server[s].tables)]
             /\ IF Unchanged(u) /\ Refused(u.row, u.new)
                THEN UNCHANGED rows /\ story' = [story EXCEPT !.cut = TRUE]
                ELSE /\ number' = IF Unchanged(u) THEN [number EXCEPT ![u.row] = u.new] ELSE number
                     /\ backup' = BackupWith(u)
                     /\ story' = IF Unchanged(u) THEN [story EXCEPT !.rewritten = @ \union {u.row}] ELSE story
          \/ /\ events' = events + 1
             /\ server' = [server EXCEPT ![s].todo = {}, ![s].clean = FALSE,
                                         ![s].pc = After({}, server[s].tables)]
             /\ story' = [story EXCEPT !.cut = TRUE]
             /\ UNCHANGED rows
    BY DEF ApplyPhoneUpdate, NoFault
  <2>2. /\ server' = [server EXCEPT ![s].todo = {}, ![s].clean = FALSE,
                                    ![s].pc = After({}, server[s].tables)] => Puts(s, b)
        /\ \A todo : server' = [server EXCEPT ![s].todo = todo, ![s].pc = After(todo, server[s].tables)]
                       => Puts(s, a(todo))
    BY <1>1 DEF Puts
  <2> HIDE DEF a, b, left
  <2>3. \E u \in r.todo :
          \/ /\ events' = events /\ Puts(s, a(left(u)))
             /\ IF Unchanged(u) /\ Refused(u.row, u.new)
                THEN UNCHANGED rows /\ story' = [story EXCEPT !.cut = TRUE]
                ELSE /\ number' = IF Unchanged(u) THEN [number EXCEPT ![u.row] = u.new] ELSE number
                     /\ backup' = BackupWith(u)
                     /\ story' = IF Unchanged(u) THEN [story EXCEPT !.rewritten = @ \union {u.row}] ELSE story
          \/ events' = events + 1 /\ Puts(s, b) /\ story' = [story EXCEPT !.cut = TRUE] /\ UNCHANGED rows
    BY <1>1, <2>1, <2>2
  <2>4. \A u : /\ Unchanged(u) /\ Refused(u.row, u.new) => left(u) = {}
               /\ ~(Unchanged(u) /\ Refused(u.row, u.new)) => left(u) = r.todo \ {u}
    BY <1>1 DEF left
  <2> QED BY <2>3, <2>4 DEF rows, BackupWith
<1> HIDE DEF a, b
<1>7. Sound(b) /\ \A todo \in SUBSET Update : Sound(a(todo))
  BY <1>4, <1>5, AfterFacts DEF Sound
<1>8. events' \in Nat
  BY <1>6 DEF Types, Data
<1>9. UNCHANGED <<schema, templates, stored, marker, live, region>>
  BY DEF ApplyPhoneUpdate, db, rows
<1>10. r.todo \ {u} \in SUBSET Update /\ {} \in SUBSET Update
  BY <1>2
<1>11. PICK rest : rest = r.todo \ {u}
  OBVIOUS
<1>12. /\ Sound(a(rest)) /\ a(rest).todo = rest /\ a(rest).tables = r.tables /\ a(rest).clean = r.clean
       /\ a(rest).pc = After(rest, r.tables)
       /\ Sound(a({})) /\ a({}).todo = {} /\ a({}).tables = r.tables /\ a({}).clean = r.clean
       /\ a({}).pc = After({}, r.tables)
  BY <1>4, <1>7, <1>10, <1>11
<1>13. ASSUME /\ Unchanged(u) /\ number' = [number EXCEPT ![u.row] = u.new]
              /\ backup' = backup \union {u} /\ Puts(s, a(rest))
              /\ story' = [story EXCEPT !.rewritten = story.rewritten \union {u.row}]
       PROVE  Deals(s, a(rest), u)
  BY <1>1, <1>11, <1>12, <1>13 DEF Deals
<1>14. ASSUME ~Unchanged(u) /\ UNCHANGED <<number, backup, story>> /\ Puts(s, a(rest))
       PROVE  Deals(s, a(rest), u)
  BY <1>1, <1>11, <1>12, <1>14 DEF Deals
<1>15. ASSUME story' = [story EXCEPT !.cut = TRUE] /\ UNCHANGED <<number, backup>> /\ Puts(s, a({}))
       PROVE  Deals(s, a({}), u)
  BY <1>1, <1>12, <1>15 DEF Deals
<1>16. ASSUME story' = [story EXCEPT !.cut = TRUE] /\ UNCHANGED <<number, backup>> /\ Puts(s, b)
       PROVE  Deals(s, b, u)
  BY <1>1, <1>5, <1>7, <1>16 DEF Deals
<1>17. \E q, v : Deals(s, q, v)
  BY <1>6, <1>11, <1>13, <1>14, <1>15, <1>16
<1> QED BY <1>1, <1>2, <1>8, <1>9, <1>17

LEMMA CrashEffect ==
  ASSUME Types, NEW s \in Server, Crash(s)
  PROVE  /\ server[s].pc # "off" /\ events' \in Nat
         /\ UNCHANGED <<schema, templates, stored, marker, number, live, backup, region>>
         /\ Puts(s, Off)
         /\ story' = [story EXCEPT !.cut = story.cut \/ server[s].pc \in {"plan", "apply"},
                                   !.half = story.half \/ server[s].pc = "seeding"]
BY DEF Crash, At, Types, Data, Puts, db, rows

LEMMA SaveEffect ==
  ASSUME Types, NEW s \in Server, NEW r \in Region \union {None}, SaveRegion(s, r)
  PROVE  /\ server[s].pc = "serve" /\ events' \in Nat /\ stored' = r
         /\ UNCHANGED <<schema, templates, marker, number, live, backup, region, story>>
         /\ \E q : Sound(q) /\ Puts(s, q) /\ q.pc = "serve" /\ q.clean = server[s].clean
<1>1. PICK c \in ServerState : c = server[s] /\ Sound(c)
  BY Current
<1> DEFINE q == [c EXCEPT !.saving = c.saving \union {r}]
<1>2. c.pc = "serve" /\ c.todo = {}
  BY <1>1 DEF SaveRegion, At, Sound
<1>3. q \in ServerState /\ q.pc = "serve" /\ q.clean = c.clean /\ q.todo = {}
  BY <1>2 DEF ServerState
<1>4. Puts(s, q)
  BY <1>1 DEF SaveRegion, Puts
<1> HIDE DEF q
<1>5. Sound(q)
  BY <1>3 DEF Sound
<1> QED BY <1>1, <1>2, <1>3, <1>4, <1>5 DEF SaveRegion, rows, Types, Data

LEMMA SwapEffect ==
  ASSUME Types, NEW s \in Server, SwapRegion(s)
  PROVE  /\ server[s].pc = "serve" /\ events' \in Nat /\ region' \in [Process -> Region \union {None}]
         /\ \A o \in Server : o # s => region'[o] = region[o]
         /\ UNCHANGED <<schema, templates, stored, marker, number, live, backup, story>>
         /\ \E q : Sound(q) /\ Puts(s, q) /\ q.pc = server[s].pc /\ q.clean = server[s].clean
<1>1. PICK c \in ServerState : c = server[s] /\ Sound(c)
  BY Current
<1>2. PICK r \in c.saving : /\ At(s, "serve") /\ SetRegion(s, r)
                            /\ server' = [server EXCEPT ![s].saving = server[s].saving \ {r}]
                            /\ UNCHANGED <<db, rows, bounds, story>>
  BY <1>1 DEF SwapRegion
<1> DEFINE q == [c EXCEPT !.saving = c.saving \ {r}]
<1>3. /\ q \in ServerState /\ q.pc = c.pc /\ q.clean = c.clean /\ q.todo = c.todo
      /\ q.block = c.block /\ q.tables = c.tables
  BY DEF ServerState
<1>4. Puts(s, q)
  BY <1>1, <1>2 DEF Puts
<1> HIDE DEF q
<1>5. Sound(q)
  BY <1>1, <1>3 DEF Sound
<1>6. r \in Region \union {None} /\ s \in Process
  BY DEF ServerState, Process
<1>7. region' \in [Process -> Region \union {None}] /\ \A o \in Server : o # s => region'[o] = region[o]
  BY <1>2, <1>6 DEF SetRegion, Types, Data, Process
<1> QED BY <1>1, <1>2, <1>3, <1>4, <1>5, <1>7 DEF At, rows, db, bounds, Types, Data

LEMMA WriteEffect ==
  ASSUME Types, NEW row \in Row, NEW n \in Entered(row), WriteNumber(row, n)
  PROVE  /\ Rewriting /\ events' = events + 1
         /\ number' \in [Row -> Held] /\ number'[row] = n /\ \A o \in Row : o # row => number'[o] = number[o]
         /\ story' \in Story /\ story'.given[row] = n
         /\ \A o \in Row : o # row => story'.given[o] = story.given[o]
         /\ story'.written = story.written \union {row}
         /\ story'.again = IF row \in story.rewritten THEN story.again \union {row} ELSE story.again
         /\ story'.rewritten = story.rewritten /\ story'.moved = story.moved
         /\ story'.shadowed = story.shadowed /\ story'.used = story.used
         /\ story'.cut = story.cut /\ story'.half = story.half
         /\ UNCHANGED <<schema, templates, stored, marker, live, backup, region, server>>
<1>1. n \in Held
  BY EnteredType, CanonicalHeld
<1>2. /\ number' = [number EXCEPT ![row] = n]
      /\ story' = [story EXCEPT !.given[row] = n, !.written = @ \union {row},
                                !.again = IF row \in story.rewritten THEN @ \union {row} ELSE @]
  BY DEF WriteNumber
<1>3. number \in [Row -> Held] /\ story \in Story /\ story.given \in [Row -> Held]
  BY DEF Types, Data, Story
<1>4. number' \in [Row -> Held] /\ number'[row] = n /\ \A o \in Row : o # row => number'[o] = number[o]
  BY <1>1, <1>2, <1>3
<1>5. PICK g : g = [story.given EXCEPT ![row] = n]
  OBVIOUS
<1>6. g \in [Row -> Held] /\ g[row] = n /\ \A o \in Row : o # row => g[o] = story.given[o]
  BY <1>1, <1>3, <1>5
<1>7. PICK a \in SUBSET Row : a = IF row \in story.rewritten THEN story.again \union {row} ELSE story.again
  BY <1>3 DEF Story
<1>8. story' = [story EXCEPT !.given = g, !.written = story.written \union {row}, !.again = a]
  BY <1>2, <1>3, <1>5, <1>7 DEF Story
<1>9. /\ story' \in Story /\ story'.given = g /\ story'.written = story.written \union {row} /\ story'.again = a
      /\ story'.rewritten = story.rewritten /\ story'.moved = story.moved
      /\ story'.shadowed = story.shadowed /\ story'.used = story.used
      /\ story'.cut = story.cut /\ story'.half = story.half
  BY <1>3, <1>6, <1>8 DEF Story
<1> QED BY <1>4, <1>6, <1>7, <1>9 DEF WriteNumber, Write, db

LEMMA MoveEffect ==
  ASSUME Types, NEW row \in Row, Move(row)
  PROVE  /\ Rewriting /\ events' = events + 1 /\ live' \subseteq Row
         /\ \A o \in Row : o # row => (o \in live' <=> o \in live)
         /\ story' = [story EXCEPT !.moved = story.moved \union {row}]
         /\ UNCHANGED <<schema, templates, stored, marker, number, backup, region, server>>
<1>1. live' = live \ {row} \/ live' = live \union {row}
  BY DEF Move
<1>2. live' \subseteq Row /\ \A o \in Row : o # row => (o \in live' <=> o \in live)
  BY <1>1 DEF Types, Data
<1> QED BY <1>2 DEF Move, Write, db

\* The worker follows, or starts again.
WorkerStep == RefreshPhoneRegion \/ RestartWorker

LEMMA WorkerEffect ==
  ASSUME Types, WorkerStep
  PROVE  /\ region' \in [Process -> Region \union {None}] /\ events' \in Nat
         /\ \A s \in Server : region'[s] = region[s]
         /\ UNCHANGED <<schema, templates, stored, marker, number, live, backup, server, story>>
<1>1. /\ Worker \in Process /\ region \in [Process -> Region \union {None}] /\ events \in Nat
      /\ stored # "unset" => stored \in Region \union {None}
      /\ \A s \in Server : s \in Process /\ s # Worker
  BY StartupAssumption DEF Types, Data, Process
<1>2. /\ UNCHANGED <<schema, templates, stored, marker, number, live, backup, server, story>>
      /\ events' = events \/ events' = events + 1
      /\ region' = region \/ \E r \in Region \union {None} : region' = [region EXCEPT ![Worker] = r]
  <2>1. CASE RefreshPhoneRegion
    BY <1>1, <2>1 DEF RefreshPhoneRegion, SetRegion, db, rows, bounds
  <2>2. CASE RestartWorker
    BY <1>1, <2>2, FromEnvType DEF RestartWorker, db, rows
  <2> QED BY <2>1, <2>2 DEF WorkerStep
<1> QED BY <1>1, <1>2

\* What the steps do to the history.
LEMMA StoryFacts ==
  ASSUME Types
  PROVE  /\ [story EXCEPT !.cut = TRUE] \in Story /\ [story EXCEPT !.half = TRUE] \in Story
         /\ \A b, c \in BOOLEAN : [story EXCEPT !.cut = b, !.half = c] \in Story
         /\ \A r \in Region \union {None}, b \in BOOLEAN : [story EXCEPT !.used = r, !.cut = b] \in Story
         /\ \A S \in SUBSET Row, b \in BOOLEAN :
              /\ [story EXCEPT !.shadowed = story.shadowed \union S, !.cut = b] \in Story
              /\ [story EXCEPT !.rewritten = story.rewritten \union S] \in Story
              /\ [story EXCEPT !.moved = story.moved \union S] \in Story
BY DEF Types, Data, Story

LEMMA InitTypes == ASSUME Init PROVE Types
<1>1. number \in [Row -> Held]
  BY DEF Init, Held
<1>2. schema \subseteq Complete /\ live \subseteq Row /\ stored \in Region \union {None, "unset"}
  BY StartupAssumption, SchemaAssumption DEF Init
<1>3. region \in [Process -> Region \union {None}]
  BY FromEnvType DEF Init
<1>4. story \in Story
  BY <1>1 DEF Init, Story
<1>5. server \in [Server -> ServerState] /\ \A s \in Server : Sound(server[s])
  BY OffIsSound DEF Init
<1> QED BY <1>1, <1>2, <1>3, <1>4, <1>5 DEF Init, Types, Data

LEMMA StartTypes == ASSUME Types, NEW s \in Server, Start(s) PROVE Types'
<1>1. ASSUME \E q : Sound(q) /\ Puts(s, q)
      PROVE  server' \in [Server -> ServerState] /\ \A o \in Server : Sound(server'[o])
  BY <1>1, PutsType
<1> DEFINE Servers == server' \in [Server -> ServerState] /\ \A o \in Server : Sound(server'[o])
<1>2. CASE Boot(s)
  <2>1. Servers
    BY <1>1, <1>2, BootEffect
  <2>2. region' \in [Process -> Region \union {None}]
    BY <1>2, BootEffect, FromEnvType DEF Types, Data
  <2> QED BY <1>2, <2>1, <2>2, BootEffect DEF Types, Data
<1>3. CASE RunBlock(s)
  BY <1>1, <1>3, BlockEffect DEF Types, Data
<1>4. CASE CountTemplates(s)
  BY <1>1, <1>4, CountEffect DEF Types, Data
<1>5. CASE SeedTemplate(s)
  <2>1. Servers
    BY <1>1, <1>5, SeedEffect
  <2>2. story' \in Story
    BY <1>5, SeedEffect, StoryFacts DEF Types, Data
  <2>3. PICK t \in server[s].todo : templates' = templates \/ templates' = templates \union {t}
    BY <1>5, SeedEffect
  <2>4. t \in Template
    BY <1>5, SeedEffect DEF Types, Sound
  <2> QED BY <1>5, <2>1, <2>2, <2>3, <2>4, SeedEffect DEF Types, Data
<1>6. CASE ApplyStoredPhoneRegion(s)
  BY <1>1, <1>6, RegionEffect DEF Types, Data
<1>7. CASE ClaimPhoneBackfill(s)
  <2>1. Servers
    BY <1>1, <1>7, ClaimEffect
  <2>2. server[s].read \in Region \union {None} /\ server[s].clean \in BOOLEAN
    BY DEF Types, ServerState
  <2>3. story' \in Story /\ marker' \in BOOLEAN
    BY <1>7, <2>2, ClaimEffect, StoryFacts DEF Types, Data
  <2> QED BY <1>7, <2>1, <2>3, ClaimEffect DEF Types, Data
<1>8. CASE PlanTarget(s)
  <2>1. Servers
    BY <1>1, <1>8, PlanEffect
  <2>2. story' \in Story
    <3>1. CASE story' = [story EXCEPT !.cut = TRUE]
      BY <3>1, StoryFacts
    <3>2. CASE \E plan \in Plans(s, Head(server[s].tables)) :
                 story' = [story EXCEPT !.shadowed = story.shadowed \union plan.shadowed,
                             !.cut = \/ story.cut
                                     \/ Head(server[s].tables) = "outbox" /\ server[s].own # OwnOutbox]
      <4>1. PICK plan \in Plans(s, Head(server[s].tables)) :
              story' = [story EXCEPT !.shadowed = story.shadowed \union plan.shadowed,
                          !.cut = \/ story.cut
                                  \/ Head(server[s].tables) = "outbox" /\ server[s].own # OwnOutbox]
        BY <3>2
      <4>2. plan.shadowed \subseteq Row
        BY PlanFacts
      <4> QED BY <4>1, <4>2 DEF Types, Data, Story
    <3> QED BY <1>8, <3>1, <3>2, PlanEffect
  <2> QED BY <1>8, <2>1, <2>2, PlanEffect DEF Types, Data
<1>9. CASE ApplyPhoneUpdate(s)
  <2>1. PICK q, u : Deals(s, q, u)
    BY <1>9, ApplyEffect
  <2>2. Servers
    BY <1>1, <2>1 DEF Deals
  <2>3. u \in Update
    BY <1>9, <2>1, ApplyEffect DEF Deals, Types, Sound
  <2>4. u.row \in Row /\ u.new \in Held
    BY <2>3, CanonicalHeld DEF Update
  <2>5. number' \in [Row -> Held] /\ backup' \subseteq Update
    BY <2>1, <2>3, <2>4 DEF Deals, Types, Data
  <2>6. {u.row} \in SUBSET Row
    BY <2>4
  <2>7. story' \in Story
    BY <2>1, <2>6, StoryFacts DEF Deals, Types, Data
  <2> QED BY <1>9, <2>2, <2>5, <2>7, ApplyEffect DEF Types, Data
<1> QED BY <1>2, <1>3, <1>4, <1>5, <1>6, <1>7, <1>8, <1>9 DEF Start

LEMMA NextTypes == ASSUME Types, [Next]_vars PROVE Types'
<1>1. CASE UNCHANGED vars
  BY <1>1 DEF Types, Data, vars, db, rows, bounds
<1>2. ASSUME NEW s \in Server, Crash(s) PROVE Types'
  <2>1. story' \in Story
    <3>1. story' = [story EXCEPT !.cut = story.cut \/ server[s].pc \in {"plan", "apply"},
                                 !.half = story.half \/ server[s].pc = "seeding"]
      BY <1>2, CrashEffect
    <3> QED BY <3>1 DEF Types, Data, Story
  <2> QED BY <1>2, <2>1, CrashEffect, OffIsSound, PutsType DEF Types, Data
<1>3. ASSUME NEW s \in Server, SwapRegion(s) PROVE Types'
  BY <1>3, SwapEffect, PutsType DEF Types, Data
<1>4. ASSUME NEW s \in Server, NEW r \in Region \union {None}, SaveRegion(s, r) PROVE Types'
  BY <1>4, SaveEffect, PutsType DEF Types, Data
<1>5. ASSUME WorkerStep PROVE Types'
  BY <1>5, WorkerEffect DEF Types, Data
<1>6. ASSUME NEW row \in Row, Move(row) PROVE Types'
  <2>1. {row} \in SUBSET Row
    OBVIOUS
  <2>2. story' \in Story
    BY <1>6, <2>1, MoveEffect, StoryFacts
  <2> QED BY <1>6, <2>2, MoveEffect DEF Types, Data
<1>7. ASSUME NEW row \in Row, NEW n \in Entered(row), WriteNumber(row, n) PROVE Types'
  <2>1. UNCHANGED <<schema, templates, stored, marker, live, backup, region, server>> /\ events' = events + 1
    BY <1>7, WriteEffect
  <2>2. number' \in [Row -> Held] /\ story' \in Story
    BY <1>7, WriteEffect
  <2>3. Data'
    BY <2>1, <2>2 DEF Types, Data
  <2> QED BY <2>1, <2>3 DEF Types
<1> QED BY <1>1, <1>2, <1>3, <1>4, <1>5, <1>6, <1>7, StartTypes DEF Next, ServerStep, WorkerStep

\* The database, the servers and the worker hold what they may hold.
THEOREM StartupTypeCorrect == Spec => []TypeOK
<1>1. Init => Types
  BY InitTypes
<1>2. Types /\ [Next]_vars => Types'
  BY NextTypes
<1>3. Types => TypeOK
  BY BlockFacts DEF Types, Data, TypeOK, Sound, At, Update, ServerState
<1> QED BY <1>1, <1>2, <1>3, PTL DEF Spec

-----------------------------------------------------------------------------
(* A clean start.                                                          *)

\* What block j makes, but for the index that may be refused, is there.
Kept(j) == Blocks[j].makes \ {"rooms.unique"} \subseteq schema

\* What a server without a failure has been through is there.
Done(s) ==
  server[s].clean =>
    /\ server[s].pc \in {"schema", "count", "seeding"} => \A j \in 1..26 : j < server[s].block => Kept(j)
    /\ server[s].pc \in {"region", "claim", "plan", "apply", "serve"} => \A j \in 1..26 : Kept(j)

SchemaInv == \A s \in Server : Done(s)

LEMMA SchemaKept ==
  ASSUME Types, SchemaInv, schema \subseteq schema', NEW s \in Server, NEW q, Sound(q), Puts(s, q), Done(s)'
  PROVE  SchemaInv'
<1>1. \A j \in 1..26 : Kept(j) => Kept(j)'
  BY DEF Kept
<1>2. ASSUME NEW o \in Server, o # s PROVE Done(o)'
  BY <1>1, <1>2, PutsType DEF SchemaInv, Done
<1> QED BY <1>2 DEF SchemaInv

\* Each block finds what it names, so only the index can be passed over.
LEMMA BlockSchema == ASSUME Types, SchemaInv, NEW s \in Server, RunBlock(s) PROVE SchemaInv'
<1>1. PICK n \in 1..26 : n = server[s].block
  BY BlockEffect
<1>2. PICK q : /\ Sound(q) /\ Puts(s, q) /\ q.pc \in {"off", "schema", "count", "region"}
               /\ q.pc = "region" => q.block > 26
               /\ q.clean =>
                    /\ server[s].clean /\ q.pc # "off"
                    /\ \/ q.block = n + 1 /\ Blocks[n].makes \subseteq schema'
                       \/ ~CanRun(Blocks[n]) /\ q.block = n + Blocks[n].skips
  BY <1>1, BlockEffect
<1>3. server'[s] = q /\ schema \subseteq schema' /\ server[s].pc = "schema"
  BY <1>2, PutsType, BlockEffect
<1>4. ASSUME q.clean PROVE q.block = n + 1 /\ \A j \in 1..26 : j < n + 1 => Kept(j)'
  <2>1. \A j \in 1..26 : j < n => Kept(j)
    BY <1>1, <1>2, <1>3, <1>4 DEF SchemaInv, Done
  <2>2. Blocks[n].needs \subseteq schema
    BY <2>1, NamedEarlier DEF Kept
  <2>3. q.block = n + 1 /\ Kept(n)'
    <3>1. CASE q.block = n + 1 /\ Blocks[n].makes \subseteq schema'
      BY <3>1 DEF Kept
    <3>2. CASE ~CanRun(Blocks[n]) /\ q.block = n + Blocks[n].skips
      <4>1. Blocks[n] = RoomIndex
        BY <2>2, <3>2 DEF CanRun
      <4>2. Blocks[n].makes = {"rooms.unique"} /\ Blocks[n].skips = 1
        BY <4>1 DEF RoomIndex, Try
      <4> QED BY <3>2, <4>2 DEF Kept
    <3> QED BY <1>2, <1>4, <3>1, <3>2
  <2>4. \A j \in 1..26 : j < n + 1 => j < n \/ j = n
    OBVIOUS
  <2> QED BY <1>3, <2>1, <2>3, <2>4 DEF Kept
<1>5. Done(s)'
  <2> SUFFICES ASSUME q.clean
               PROVE  /\ q.pc \in {"schema", "count"} => \A j \in 1..26 : j < q.block => Kept(j)'
                      /\ q.pc = "region" => \A j \in 1..26 : Kept(j)'
    BY <1>2, <1>3 DEF Done
  <2>1. q.block > 26 => n = 26
    BY <1>4
  <2>2. \A j \in 1..26 : j < 27
    OBVIOUS
  <2> QED BY <1>2, <1>4, <2>1, <2>2
<1> QED BY <1>2, <1>3, <1>5, SchemaKept

LEMMA NextSchema == ASSUME Types, SchemaInv, [Next]_vars PROVE SchemaInv'
<1>1. ASSUME UNCHANGED <<schema, server>> PROVE SchemaInv'
  BY <1>1 DEF SchemaInv, Done, Kept
<1>2. ASSUME NEW s \in Server, NEW q, Sound(q), Puts(s, q), schema' = schema,
             \/ ~q.clean
             \/ q.pc = "schema" /\ q.block = 1
             \/ /\ server[s].clean /\ q.block = server[s].block
                /\ server[s].pc \in {"count", "seeding"} /\ q.pc \in {"schema", "seeding"}
             \/ /\ server[s].clean /\ server[s].pc \in {"region", "claim", "plan", "apply", "serve"}
                /\ q.pc \in {"claim", "plan", "apply", "serve"}
             \/ q.pc = "off" /\ server[s].pc = "off"
      PROVE  SchemaInv'
  <2>1. server'[s] = q /\ \A j \in 1..26 : Kept(j)' <=> Kept(j)
    BY <1>2, PutsType DEF Kept
  <2>2. Done(s)'
    BY <1>2, <2>1 DEF SchemaInv, Done
  <2> QED BY <1>2, <2>2, SchemaKept
<1>3. ASSUME NEW s \in Server, Boot(s) PROVE SchemaInv'
  BY <1>2, <1>3, BootEffect
<1>4. ASSUME NEW s \in Server, CountTemplates(s) PROVE SchemaInv'
  <2>1. server[s].block = 6
    BY <1>4, CountEffect DEF Types, Sound
  <2>2. PICK q : /\ Sound(q) /\ Puts(s, q) /\ q.pc \in {"schema", "seeding"} /\ (q.clean => server[s].clean)
                 /\ q.block = 6
    BY <1>4, CountEffect DEF Sound
  <2> QED BY <1>2, <1>4, <2>1, <2>2, CountEffect
<1>5. ASSUME NEW s \in Server, SeedTemplate(s) PROVE SchemaInv'
  <2>1. server[s].block = 6
    BY <1>5, SeedEffect DEF Types, Sound
  <2>2. PICK q : /\ Sound(q) /\ Puts(s, q) /\ q.pc \in {"schema", "seeding"} /\ (q.clean => server[s].clean)
                 /\ q.block = 6
    BY <1>5, SeedEffect
  <2> QED BY <1>2, <1>5, <2>1, <2>2, SeedEffect
<1>6. ASSUME NEW s \in Server, ApplyStoredPhoneRegion(s) PROVE SchemaInv'
  BY <1>2, <1>6, RegionEffect
<1>7. ASSUME NEW s \in Server, ClaimPhoneBackfill(s) PROVE SchemaInv'
  BY <1>2, <1>7, ClaimEffect
<1>8. ASSUME NEW s \in Server, PlanTarget(s) PROVE SchemaInv'
  <2>1. PICK q : Sound(q) /\ Puts(s, q) /\ (q.clean => server[s].clean) /\ q.pc \in {"plan", "apply", "serve"}
    BY <1>8, PlanEffect DEF After
  <2> QED BY <1>2, <1>8, <2>1, PlanEffect
<1>9. ASSUME NEW s \in Server, ApplyPhoneUpdate(s) PROVE SchemaInv'
  <2>1. PICK q : Sound(q) /\ Puts(s, q) /\ (q.clean => server[s].clean) /\ q.pc \in {"plan", "apply", "serve"}
    BY <1>9, ApplyEffect DEF Deals, After
  <2> QED BY <1>2, <1>9, <2>1, ApplyEffect
<1>10. ASSUME NEW s \in Server, Crash(s) PROVE SchemaInv'
  BY <1>2, <1>10, CrashEffect, OffIsSound
<1>11. ASSUME NEW s \in Server, NEW r \in Region \union {None}, SaveRegion(s, r) PROVE SchemaInv'
  BY <1>2, <1>11, SaveEffect
<1>12. ASSUME NEW s \in Server, SwapRegion(s) PROVE SchemaInv'
  BY <1>2, <1>12, SwapEffect
<1>13. ASSUME WorkerStep PROVE SchemaInv'
  BY <1>1, <1>13, WorkerEffect
<1>14. ASSUME NEW row \in Row, Move(row) PROVE SchemaInv'
  BY <1>1, <1>14, MoveEffect
<1>15. ASSUME NEW row \in Row, NEW n \in Entered(row), WriteNumber(row, n) PROVE SchemaInv'
  BY <1>1, <1>15, WriteEffect
<1>16. CASE UNCHANGED vars
  BY <1>1, <1>16 DEF vars, db
<1> QED
  BY <1>3, <1>4, <1>5, <1>6, <1>7, <1>8, <1>9, <1>10, <1>11, <1>12, <1>13, <1>14, <1>15, <1>16, BlockSchema
     DEF Next, ServerStep, Start, WorkerStep

\* A server that met no failure has found the templates there, or has seen to them.
Counted(q) ==
  (q.pc = "schema" /\ q.block >= 6) \/ q.pc \in {"region", "claim", "plan", "apply", "serve"}
Filled == templates = Template \/ story.half \/ \E o \in Server : server[o].pc = "seeding"

SeededInv ==
  /\ \A s \in Server : server[s].pc = "seeding" /\ ~story.half => server[s].todo \union templates = Template
  /\ templates # {} => Filled
  /\ \A s \in Server : server[s].clean /\ Counted(server[s]) => Filled

\* Whoever leaves the templates alone, and is not at them, keeps what is known.
LEMMA SeededKept ==
  ASSUME Types, SeededInv, NEW s \in Server, NEW q, Sound(q), Puts(s, q), templates' = templates,
         story.half => story'.half, server[s].pc = "seeding" => story'.half, q.pc # "seeding",
         q.clean /\ Counted(q) => Filled
  PROVE  SeededInv'
<1>1. server'[s] = q /\ \A o \in Server : o # s => server'[o] = server[o]
  BY PutsType
<1>2. Filled => Filled'
  <2>1. CASE \E o \in Server : server[o].pc = "seeding" /\ o # s
    BY <1>1, <2>1 DEF Filled
  <2> QED BY <2>1 DEF Filled
<1>3. ASSUME NEW o \in Server, server'[o].pc = "seeding" /\ ~story'.half
      PROVE  server'[o].todo \union templates' = Template
  <2>1. o # s
    BY <1>1, <1>3
  <2> QED BY <1>1, <1>3, <2>1 DEF SeededInv
<1>4. ASSUME NEW o \in Server, server'[o].clean, Counted(server'[o])
      PROVE  Filled
  <2>1. CASE o = s
    BY <1>1, <1>4, <2>1
  <2>2. CASE o # s
    BY <1>1, <1>4, <2>2 DEF SeededInv
  <2> QED BY <2>1, <2>2
<1> QED BY <1>2, <1>3, <1>4 DEF SeededInv, Counted

LEMMA CountSeeded == ASSUME Types, SeededInv, NEW s \in Server, CountTemplates(s) PROVE SeededInv'
<1>1. PICK q : /\ Sound(q) /\ Puts(s, q)
               /\ \/ /\ q.pc = "schema" /\ q.block = 6 /\ (q.clean => server[s].clean /\ templates # {})
                  \/ q.pc = "seeding" /\ q.todo = Template /\ (q.clean => server[s].clean) /\ templates = {}
  BY CountEffect
<1>2. server[s].pc = "count" /\ templates' = templates /\ story' = story
  BY CountEffect
<1>3. CASE q.pc = "schema" /\ (q.clean => templates # {})
  <2>1. q.clean => Filled
    BY <1>3 DEF SeededInv
  <2> QED BY <1>1, <1>2, <1>3, <2>1, SeededKept
<1>4. CASE q.pc = "seeding" /\ q.todo = Template
  <2>1. server'[s] = q /\ \A o \in Server : o # s => server'[o] = server[o]
    BY <1>1, PutsType
  <2>2. Filled'
    BY <1>4, <2>1 DEF Filled
  <2>3. templates \subseteq Template
    BY DEF Types, Data
  <2>4. ASSUME NEW o \in Server, server'[o].pc = "seeding" /\ ~story'.half
        PROVE  server'[o].todo \union templates' = Template
    <3>1. CASE o = s
      BY <1>2, <1>4, <2>1, <2>3, <3>1
    <3>2. CASE o # s
      BY <1>2, <2>1, <2>4, <3>2 DEF SeededInv
    <3> QED BY <3>1, <3>2
  <2> QED BY <2>2, <2>4 DEF SeededInv
<1> QED BY <1>1, <1>3, <1>4

LEMMA SeedSeeded == ASSUME Types, SeededInv, NEW s \in Server, SeedTemplate(s) PROVE SeededInv'
<1>1. PICK q, t : /\ Sound(q) /\ Puts(s, q) /\ t \in server[s].todo /\ q.todo = server[s].todo \ {t}
                  /\ q.pc = IF q.todo = {} THEN "schema" ELSE "seeding"
                  /\ \/ templates' = templates \union {t} /\ UNCHANGED story
                     \/ templates' = templates /\ story' = [story EXCEPT !.half = TRUE]
  BY SeedEffect
<1>2. server[s].pc = "seeding" /\ server'[s] = q /\ \A o \in Server : o # s => server'[o] = server[o]
  BY <1>1, PutsType, SeedEffect
<1>3. server[s].todo \subseteq Template /\ templates \subseteq Template
  BY <1>2 DEF Types, Data, Sound
<1>4. CASE templates' = templates \union {t} /\ UNCHANGED story
  <2>1. ASSUME NEW o \in Server, server'[o].pc = "seeding" /\ ~story'.half
        PROVE  server'[o].todo \union templates' = Template
    <3>1. CASE o = s
      BY <1>1, <1>2, <1>4, <2>1, <3>1 DEF SeededInv
    <3>2. CASE o # s
      BY <1>1, <1>2, <1>3, <1>4, <2>1, <3>2 DEF SeededInv
    <3> QED BY <3>1, <3>2
  <2>2. Filled'
    <3>1. CASE q.todo = {}
      <4>1. ~story.half => server[s].todo \union templates = Template
        BY <1>2 DEF SeededInv
      <4>2. server[s].todo \union templates = templates'
        BY <1>1, <1>4, <3>1
      <4> QED BY <1>4, <4>1, <4>2 DEF Filled
    <3>2. CASE q.todo # {}
      BY <1>1, <1>2, <3>2 DEF Filled
    <3> QED BY <3>1, <3>2
  <2> QED BY <2>1, <2>2 DEF SeededInv
<1>5. CASE story' = [story EXCEPT !.half = TRUE]
  <2>1. story'.half
    BY <1>5 DEF Types, Data, Story
  <2> QED BY <2>1 DEF SeededInv, Filled
<1> QED BY <1>1, <1>4, <1>5

LEMMA NextSeeded == ASSUME Types, SeededInv, [Next]_vars PROVE SeededInv'
<1>1. ASSUME UNCHANGED <<templates, server>>, story'.half = story.half PROVE SeededInv'
  BY <1>1 DEF SeededInv, Filled, Counted
<1>2. ASSUME NEW s \in Server, NEW q, Sound(q), Puts(s, q), UNCHANGED templates, story'.half = story.half,
             server[s].pc # "seeding", q.pc # "seeding",
             \/ q.pc = "schema" /\ q.block = 1
             \/ q.clean => server[s].clean /\ (Counted(q) => Counted(server[s]))
      PROVE  SeededInv'
  <2>1. q.clean /\ Counted(q) => Filled
    BY <1>2 DEF SeededInv, Counted
  <2> QED BY <1>2, <2>1, SeededKept
<1>3. ASSUME NEW s \in Server, Boot(s) PROVE SeededInv'
  BY <1>2, <1>3, BootEffect
<1>4. ASSUME NEW s \in Server, RunBlock(s) PROVE SeededInv'
  <2>1. PICK q : /\ Sound(q) /\ Puts(s, q) /\ q.pc \in {"off", "schema", "count", "region"}
                 /\ q.pc = "region" \/ (q.pc = "schema" /\ q.block >= 6) => server[s].block >= 6
                 /\ q.clean => server[s].clean
    BY <1>4, BlockEffect
  <2>2. server[s].pc = "schema" /\ UNCHANGED <<templates, story>>
    BY <1>4, BlockEffect
  <2>3. Counted(q) => Counted(server[s])
    BY <2>1, <2>2 DEF Counted
  <2> QED BY <1>2, <2>1, <2>2, <2>3
<1>5. ASSUME NEW s \in Server, NEW q, Sound(q), Puts(s, q), UNCHANGED templates, story'.half = story.half,
             server[s].pc \in {"region", "claim", "plan", "apply", "serve"},
             q.pc \in {"claim", "plan", "apply", "serve"}, q.clean => server[s].clean
      PROVE  SeededInv'
  BY <1>2, <1>5 DEF Counted
<1>6. ASSUME NEW s \in Server, ApplyStoredPhoneRegion(s) PROVE SeededInv'
  BY <1>5, <1>6, RegionEffect
<1>7. ASSUME NEW s \in Server, ClaimPhoneBackfill(s) PROVE SeededInv'
  <2>1. PICK q : /\ Sound(q) /\ Puts(s, q) /\ (q.clean => server[s].clean) /\ q.pc \in {"plan", "serve"}
                 /\ \/ story' = story
                    \/ story' = [story EXCEPT !.used = server[s].read,
                                              !.cut = ~server[s].clean]
    BY <1>7, ClaimEffect
  <2>2. story'.half = story.half
    BY <2>1 DEF Types, Data, Story
  <2> QED BY <1>5, <1>7, <2>1, <2>2, ClaimEffect
<1>8. ASSUME NEW s \in Server, PlanTarget(s) PROVE SeededInv'
  <2>1. PICK q : /\ Sound(q) /\ Puts(s, q) /\ (q.clean => server[s].clean) /\ q.pc \in {"plan", "apply", "serve"}
                 /\ \/ story' = [story EXCEPT !.cut = TRUE]
                    \/ \E plan \in Plans(s, Head(server[s].tables)) :
                         story' = [story EXCEPT !.shadowed = story.shadowed \union plan.shadowed,
                                     !.cut = \/ story.cut
                                             \/ Head(server[s].tables) = "outbox" /\ server[s].own # OwnOutbox]
    BY <1>8, PlanEffect DEF After
  <2>2. story'.half = story.half
    BY <2>1 DEF Types, Data, Story
  <2> QED BY <1>5, <1>8, <2>1, <2>2, PlanEffect
<1>9. ASSUME NEW s \in Server, ApplyPhoneUpdate(s) PROVE SeededInv'
  <2>1. PICK q, u : Deals(s, q, u)
    BY <1>9, ApplyEffect
  <2>2. story'.half = story.half
    BY <2>1 DEF Deals, Types, Data, Story
  <2>3. Sound(q) /\ Puts(s, q) /\ (q.clean => server[s].clean) /\ q.pc \in {"plan", "apply", "serve"}
    BY <2>1 DEF Deals, After
  <2> QED BY <1>5, <1>9, <2>2, <2>3, ApplyEffect
<1>10. ASSUME NEW s \in Server, Crash(s) PROVE SeededInv'
  <2>1. story'.half = (story.half \/ server[s].pc = "seeding")
    BY <1>10, CrashEffect DEF Types, Data, Story
  <2> QED BY <1>10, <2>1, CrashEffect, OffIsSound, SeededKept
<1>11. ASSUME NEW s \in Server, NEW r \in Region \union {None}, SaveRegion(s, r) PROVE SeededInv'
  BY <1>5, <1>11, SaveEffect
<1>12. ASSUME NEW s \in Server, SwapRegion(s) PROVE SeededInv'
  BY <1>5, <1>12, SwapEffect
<1>13. ASSUME WorkerStep PROVE SeededInv'
  BY <1>1, <1>13, WorkerEffect
<1>14. ASSUME NEW row \in Row, Move(row) PROVE SeededInv'
  BY <1>1, <1>14, MoveEffect DEF Types, Data, Story
<1>15. ASSUME NEW row \in Row, NEW n \in Entered(row), WriteNumber(row, n) PROVE SeededInv'
  BY <1>1, <1>15, WriteEffect
<1>16. CASE UNCHANGED vars
  BY <1>1, <1>16 DEF vars, db
<1> QED
  BY <1>3, <1>4, <1>6, <1>7, <1>8, <1>9, <1>10, <1>11, <1>12, <1>13, <1>14, <1>15, <1>16,
     CountSeeded, SeedSeeded DEF Next, ServerStep, Start, WorkerStep

\* The order of InitCustomSchema gives every block the tables it names: a server
\* whose own start met no failing statement serves on a complete schema, whatever
\* others have left behind, and on all the templates unless a filling broke off.
THEOREM CleanStartHolds == Spec => []CleanStartIsComplete
<1> DEFINE Inv == Types /\ SchemaInv /\ SeededInv
<1>1. ASSUME Init PROVE Inv
  <2>1. \A s \in Server : server[s] = Off
    BY <1>1 DEF Init
  <2>2. templates = {}
    BY <1>1 DEF Init
  <2> QED BY <1>1, <2>1, <2>2, InitTypes, OffIsSound DEF SchemaInv, SeededInv, Done
<1>2. Inv /\ [Next]_vars => Inv'
  BY NextTypes, NextSchema, NextSeeded
<1>3. ASSUME Inv PROVE CleanStartIsComplete
  <2> SUFFICES ASSUME NEW s \in Server, server[s].pc = "serve", server[s].clean
               PROVE  Complete \ {"rooms.unique"} \subseteq schema /\ Filled
    BY DEF CleanStartIsComplete, At, Filled
  <2>1. \A j \in 1..26 : Kept(j)
    BY <1>3 DEF SchemaInv, Done
  <2>2. Complete \ {"rooms.unique"} \subseteq schema
    BY <2>1, BlockFacts DEF Kept, Complete
  <2>3. Filled
    BY <1>3 DEF SeededInv, Counted
  <2> QED BY <2>2, <2>3
<1> QED BY <1>1, <1>2, <1>3, PTL DEF Spec

-----------------------------------------------------------------------------
(* The rewriting of the stored numbers, and the steps aside from it.       *)

Works(q) == q.pc \in {"plan", "apply"}

\* The history of the rewriting stays as it is.
Told ==
  /\ story'.given = story.given /\ story'.written = story.written /\ story'.again = story.again
  /\ story'.moved = story.moved /\ story'.rewritten = story.rewritten /\ story'.shadowed = story.shadowed /\ story'.used = story.used

\* A step that has nothing to do with the rewriting.
Aside ==
  /\ UNCHANGED <<number, live, backup, marker>> /\ Told /\ story'.cut = story.cut
  /\ \A o \in Server : Works(server[o]) \/ Works(server'[o]) =>
       server'[o] = server[o] /\ region'[o] = region[o]

\* The step that sets the marker.
Claims(s) == ClaimPhoneBackfill(s) /\ ~marker /\ marker'

LEMMA PutAside ==
  ASSUME Types, NEW s \in Server, NEW q, Sound(q), Puts(s, q), ~Works(server[s]), ~Works(q),
         UNCHANGED <<number, live, backup, marker>>, Told, story'.cut = story.cut,
         \A o \in Server : o # s => region'[o] = region[o]
  PROVE  Aside
<1>1. server'[s] = q /\ \A o \in Server : o # s => server'[o] = server[o]
  BY PutsType
<1> QED BY <1>1 DEF Aside

LEMMA StepKinds ==
  ASSUME Types, [Next]_vars
  PROVE  \/ Aside
         \/ \E s \in Server : \/ Claims(s) \/ PlanTarget(s) \/ ApplyPhoneUpdate(s)
                              \/ Crash(s) /\ Works(server[s])
         \/ \E row \in Row : Move(row) \/ \E n \in Entered(row) : WriteNumber(row, n)
<1>1. story' = story => Told /\ story'.cut = story.cut
  BY DEF Told
<1>2. story' = [story EXCEPT !.half = TRUE] => Told /\ story'.cut = story.cut
  BY DEF Told, Types, Data, Story
<1>3. ASSUME NEW s \in Server, Boot(s) PROVE Aside
  <2>1. \A o \in Server : o # s => region'[o] = region[o]
    BY <1>3, BootEffect DEF Types, Data, Process
  <2> QED BY <1>1, <1>3, <2>1, BootEffect, PutAside DEF Works
<1>4. ASSUME NEW s \in Server, RunBlock(s) PROVE Aside
  <2>1. PICK q : Sound(q) /\ Puts(s, q) /\ q.pc \in {"off", "schema", "count", "region"}
    BY <1>4, BlockEffect
  <2> QED BY <1>1, <1>4, <2>1, BlockEffect, PutAside DEF Works
<1>5. ASSUME NEW s \in Server, CountTemplates(s) PROVE Aside
  BY <1>1, <1>5, CountEffect, PutAside DEF Works
<1>6. ASSUME NEW s \in Server, SeedTemplate(s) PROVE Aside
  <2>1. PICK q : Sound(q) /\ Puts(s, q) /\ q.pc \in {"schema", "seeding"}
                 /\ (story' = story \/ story' = [story EXCEPT !.half = TRUE])
    BY <1>6, SeedEffect
  <2> QED BY <1>1, <1>2, <1>6, <2>1, SeedEffect, PutAside DEF Works
<1>7. ASSUME NEW s \in Server, ApplyStoredPhoneRegion(s) PROVE Aside
  BY <1>1, <1>7, RegionEffect, PutAside DEF Works
<1>8. ASSUME NEW s \in Server, ClaimPhoneBackfill(s) PROVE Aside \/ Claims(s)
  BY <1>1, <1>8, ClaimEffect, PutAside DEF Works, Claims
<1>9. ASSUME NEW s \in Server, Crash(s), ~Works(server[s]) PROVE Aside
  <2>1. story' = [story EXCEPT !.cut = story.cut \/ server[s].pc \in {"plan", "apply"},
                               !.half = story.half \/ server[s].pc = "seeding"]
    BY <1>9, CrashEffect
  <2>2. Told /\ story'.cut = (story.cut \/ server[s].pc \in {"plan", "apply"}) /\ story.cut \in BOOLEAN
    BY <2>1 DEF Told, Types, Data, Story
  <2>3. story'.cut = story.cut
    BY <1>9, <2>2 DEF Works
  <2> QED BY <1>9, <2>2, <2>3, CrashEffect, OffIsSound, PutAside DEF Works
<1>10. ASSUME NEW s \in Server, NEW r \in Region \union {None}, SaveRegion(s, r) PROVE Aside
  BY <1>1, <1>10, SaveEffect, PutAside DEF Works
<1>11. ASSUME NEW s \in Server, SwapRegion(s) PROVE Aside
  BY <1>1, <1>11, SwapEffect, PutAside DEF Works
<1>12. ASSUME WorkerStep PROVE Aside
  BY <1>1, <1>12, WorkerEffect DEF Aside
<1>13. CASE UNCHANGED vars
  BY <1>1, <1>13 DEF Aside, vars, db, rows
<1> QED
  BY <1>3, <1>4, <1>5, <1>6, <1>7, <1>8, <1>9, <1>10, <1>11, <1>12, <1>13
     DEF Next, ServerStep, Start, WorkerStep

-----------------------------------------------------------------------------
(* One server rewrites, table after table, and each row once.              *)

\* The tables a server has still to plan.
Left(q) == {q.tables[k] : k \in DOMAIN q.tables}

\* Nothing of a table that is still to be planned has been rewritten, nor has a
\* row that an update waits for; the updates are one to a row.
Fresh(q) ==
  /\ \A row \in Row : TableOf[row] \in Left(q) => row \notin story.rewritten
  /\ q.pc = "apply" =>
       \A u \in q.todo : /\ TableOf[u.row] \notin Left(q) /\ u.row \notin story.rewritten
                         /\ \A v \in q.todo : v.row = u.row => v = u

\* An update is what its server reads the old number as.
Reading(s) ==
  server[s].pc = "apply" => \A u \in server[s].todo : u.new = NormalizePhone(u.old, region[s])

Alone == \A s, o \in Server : Works(server[s]) /\ Works(server[o]) => s = o
Marked == \A s \in Server : Works(server[s]) => marker
Unmarked == ~marker => story.rewritten = {}

OrderInv ==
  /\ Alone /\ Marked /\ Unmarked
  /\ \A s \in Server : (Works(server[s]) => Fresh(server[s])) /\ Reading(s)

\* A step of the server at work: nobody else is, and nobody else is disturbed.
LEMMA WorkerAlone ==
  ASSUME Types, OrderInv, NEW s \in Server, Works(server[s]), NEW q, Sound(q), Puts(s, q), UNCHANGED marker
  PROVE  /\ marker /\ marker' /\ server'[s] = q
         /\ \A o \in Server : o # s => server'[o] = server[o] /\ ~Works(server[o]) /\ ~Works(server'[o])
         /\ Alone' /\ Marked' /\ Unmarked'
<1>1. marker /\ server'[s] = q /\ \A o \in Server : o # s => server'[o] = server[o] /\ ~Works(server[o])
  BY PutsType DEF OrderInv, Marked, Alone
<1> QED BY <1>1 DEF Alone, Marked, Unmarked

LEMMA OrderKept ==
  ASSUME Types, OrderInv, NEW s \in Server, Works(server[s]), NEW q, Sound(q), Puts(s, q), UNCHANGED marker,
         Works(q) => Fresh(q)',
         q.pc = "apply" => \A u \in q.todo : u.new = NormalizePhone(u.old, region'[s])
  PROVE  OrderInv'
<1>1. /\ server'[s] = q /\ \A o \in Server : o # s => server'[o] = server[o] /\ ~Works(server'[o])
      /\ Alone' /\ Marked' /\ Unmarked'
  BY WorkerAlone
<1>2. ASSUME NEW o \in Server PROVE (Works(server[o]) => Fresh(server[o]))' /\ Reading(o)'
  <2>1. CASE o = s
    BY <1>1, <2>1 DEF Fresh, Left, Reading
  <2>2. CASE o # s
    BY <1>1, <2>2 DEF Works, Reading
  <2> QED BY <2>1, <2>2
<1> QED BY <1>1, <1>2 DEF OrderInv

LEMMA PlanOrder == ASSUME Types, OrderInv, NEW s \in Server, PlanTarget(s) PROVE OrderInv'
<1>1. PICK r : r = server[s]
  OBVIOUS
<1>2. PICK q : /\ Sound(q) /\ Puts(s, q) /\ q.tables = Tail(server[s].tables)
               /\ q.pc = After(q.todo, q.tables) /\ (q.clean => server[s].clean)
               /\ \/ q.todo = {} /\ story' = [story EXCEPT !.cut = TRUE]
                  \/ \E plan \in Plans(s, Head(server[s].tables)) :
                       /\ q.todo = plan.todo
                       /\ story' = [story EXCEPT !.shadowed = story.shadowed \union plan.shadowed,
                                      !.cut = \/ story.cut
                                              \/ Head(server[s].tables) = "outbox" /\ server[s].own # OwnOutbox]
  BY PlanEffect
<1>3. /\ r.pc = "plan" /\ r.tables \in Remaining /\ r.tables # <<>> /\ Works(server[s])
      /\ UNCHANGED <<marker, region>>
  BY <1>1, PlanEffect DEF Types, Sound, ServerState, Works
<1>4. /\ Head(r.tables) \in Left(r) /\ Left(q) \subseteq Left(r) /\ Head(r.tables) \notin Left(q)
  <2>1. /\ Head(r.tables) \in {r.tables[j] : j \in DOMAIN r.tables}
        /\ \A k \in DOMAIN Tail(r.tables) : /\ Tail(r.tables)[k] # Head(r.tables)
                                            /\ Tail(r.tables)[k] \in {r.tables[j] : j \in DOMAIN r.tables}
    BY <1>3, RemainingFacts
  <2>4. q.tables = Tail(r.tables)
    BY <1>1, <1>2
  <2>2. Left(q) = {Tail(r.tables)[k] : k \in DOMAIN Tail(r.tables)} /\ Left(r) = {r.tables[j] : j \in DOMAIN r.tables}
    BY <2>4 DEF Left
  <2>3. ASSUME NEW t \in {Tail(r.tables)[k] : k \in DOMAIN Tail(r.tables)}
        PROVE  t \in Left(r) /\ t # Head(r.tables)
    <3>1. PICK k \in DOMAIN Tail(r.tables) : t = Tail(r.tables)[k]
      BY <2>3
    <3> QED BY <2>1, <2>2, <3>1
  <2> QED BY <2>1, <2>2, <2>3
<1>5. /\ story'.rewritten = story.rewritten
      /\ \A u \in q.todo : /\ TableOf[u.row] = Head(r.tables) /\ u.new = NormalizePhone(u.old, region[s])
                           /\ u.row \in Row /\ \A v \in q.todo : v.row = u.row => v = u
  <2>1. CASE q.todo = {} /\ story' = [story EXCEPT !.cut = TRUE]
    BY <2>1 DEF Types, Data, Story
  <2>2. ASSUME NEW plan \in Plans(s, Head(server[s].tables)), q.todo = plan.todo,
               story' = [story EXCEPT !.shadowed = story.shadowed \union plan.shadowed,
                           !.cut = \/ story.cut
                                   \/ Head(server[s].tables) = "outbox" /\ server[s].own # OwnOutbox]
        PROVE  /\ story'.rewritten = story.rewritten
               /\ \A u \in q.todo : /\ TableOf[u.row] = Head(r.tables) /\ u.new = NormalizePhone(u.old, region[s])
                                    /\ u.row \in Row /\ \A v \in q.todo : v.row = u.row => v = u
    <3>1. story'.rewritten = story.rewritten
      BY <2>2 DEF Types, Data, Story
    <3>2. \A u \in plan.todo : /\ TableOf[u.row] = Head(r.tables) /\ u.new = NormalizePhone(u.old, region[s])
                               /\ u \in Update /\ \A v \in plan.todo : v.row = u.row => v = u
      BY <1>1, PlanFacts
    <3> QED BY <2>2, <3>1, <3>2 DEF Update
  <2> QED BY <1>2, <2>1, <2>2
<1>6. Fresh(r)
  BY <1>1, <1>3 DEF OrderInv
<1>7. Fresh(q)'
  <2>1. \A row \in Row : TableOf[row] \in Left(q) => row \notin story'.rewritten
    BY <1>4, <1>5, <1>6 DEF Fresh
  <2>2. \A u \in q.todo : /\ TableOf[u.row] \notin Left(q) /\ u.row \notin story'.rewritten
                          /\ \A v \in q.todo : v.row = u.row => v = u
    BY <1>4, <1>5, <1>6 DEF Fresh
  <2> QED BY <2>1, <2>2 DEF Fresh, Left
<1> QED BY <1>2, <1>3, <1>5, <1>7, OrderKept

LEMMA ApplyOrder == ASSUME Types, OrderInv, NEW s \in Server, ApplyPhoneUpdate(s) PROVE OrderInv'
<1>1. PICK r : r = server[s]
  OBVIOUS
<1>2. PICK q, u : Deals(s, q, u)
  BY ApplyEffect
<1>3. /\ r.pc = "apply" /\ Works(server[s]) /\ UNCHANGED <<marker, region>>
      /\ Fresh(r) /\ \A v \in r.todo : v.new = NormalizePhone(v.old, region[s])
  BY <1>1, ApplyEffect DEF Works, OrderInv, Reading
<1>4. /\ Sound(q) /\ Puts(s, q) /\ q.todo \subseteq r.todo /\ u \in r.todo /\ q.tables = r.tables
      /\ \/ story'.rewritten = story.rewritten
         \/ story'.rewritten = story.rewritten \union {u.row} /\ q.todo = r.todo \ {u}
  BY <1>1, <1>2 DEF Deals, Types, Data, Story
<1>5. Left(q) = Left(r)
  BY <1>4 DEF Left
<1>6. Fresh(q)'
  <2>1. \A row \in Row : TableOf[row] \in Left(q) => row \notin story'.rewritten
    BY <1>3, <1>4, <1>5 DEF Fresh
  <2>2. \A v \in q.todo : /\ TableOf[v.row] \notin Left(q) /\ v.row \notin story'.rewritten
                          /\ \A x \in q.todo : x.row = v.row => x = v
    BY <1>3, <1>4, <1>5 DEF Fresh
  <2> QED BY <2>1, <2>2 DEF Fresh, Left
<1> QED BY <1>3, <1>4, <1>6, OrderKept

LEMMA NextOrder == ASSUME Types, OrderInv, [Next]_vars PROVE OrderInv'
<1>1. CASE Aside
  <2>1. \A o \in Server : Works(server[o]) \/ Works(server'[o]) => server'[o] = server[o] /\ region'[o] = region[o]
    BY <1>1 DEF Aside
  <2>2. Alone' /\ Marked' /\ Unmarked'
    BY <1>1, <2>1 DEF OrderInv, Alone, Marked, Unmarked, Aside, Told
  <2>3. ASSUME NEW o \in Server PROVE (Works(server[o]) => Fresh(server[o]))' /\ Reading(o)'
    <3>1. CASE ~Works(server'[o])
      BY <3>1 DEF Works, Reading
    <3>2. CASE Works(server'[o])
      <4>1. PICK q : q = server[o]
        OBVIOUS
      <4>2. server'[o] = q /\ region'[o] = region[o] /\ Fresh(q) /\ story'.rewritten = story.rewritten
        BY <1>1, <2>1, <3>2, <4>1 DEF OrderInv, Aside, Told
      <4>3. Reading(o)'
        BY <4>1, <4>2 DEF OrderInv, Reading
      <4> QED BY <4>2, <4>3 DEF Fresh, Left
    <3> QED BY <3>1, <3>2
  <2> QED BY <2>2, <2>3 DEF OrderInv
<1>2. ASSUME NEW s \in Server, Claims(s) PROVE OrderInv'
  <2>1. PICK q : /\ Sound(q) /\ Puts(s, q) /\ q.pc = "plan" /\ q.tables = Targets
                 /\ story' = [story EXCEPT !.used = server[s].read, !.cut = ~server[s].clean]
    BY <1>2, ClaimEffect DEF Claims
  <2>2. server'[s] = q /\ \A o \in Server : o # s => server'[o] = server[o]
    BY <2>1, PutsType
  <2>3. /\ ~marker /\ marker' /\ UNCHANGED region /\ \A o \in Server : ~Works(server[o])
        /\ story.rewritten = {}
    BY <1>2, ClaimEffect DEF Claims, OrderInv, Marked, Unmarked
  <2>4. story'.rewritten = {}
    BY <2>1, <2>3 DEF Types, Data, Story
  <2>5. Alone' /\ Marked' /\ Unmarked'
    BY <2>2, <2>3 DEF Alone, Marked, Unmarked
  <2>6. ASSUME NEW o \in Server PROVE (Works(server[o]) => Fresh(server[o]))' /\ Reading(o)'
    <3>1. CASE o = s
      BY <2>1, <2>2, <2>4, <3>1 DEF Fresh, Reading
    <3>2. CASE o # s
      BY <2>2, <2>3, <3>2 DEF Works, Reading
    <3> QED BY <3>1, <3>2
  <2> QED BY <2>5, <2>6 DEF OrderInv
<1>3. ASSUME NEW s \in Server, Crash(s), Works(server[s]) PROVE OrderInv'
  BY <1>3, CrashEffect, OffIsSound, OrderKept DEF Works
<1>4. ASSUME UNCHANGED <<marker, region, server>>, story'.rewritten = story.rewritten PROVE OrderInv'
  BY <1>4 DEF OrderInv, Alone, Marked, Unmarked, Fresh, Left, Reading
<1>5. ASSUME NEW row \in Row, Move(row) PROVE OrderInv'
  <2>1. story'.rewritten = story.rewritten
    BY <1>5, MoveEffect DEF Types, Data, Story
  <2> QED BY <1>4, <1>5, <2>1, MoveEffect
<1>6. ASSUME NEW row \in Row, NEW n \in Entered(row), WriteNumber(row, n) PROVE OrderInv'
  BY <1>4, <1>6, WriteEffect
<1> QED BY <1>1, <1>2, <1>3, <1>5, <1>6, PlanOrder, ApplyOrder, StepKinds

-----------------------------------------------------------------------------
(* What the backup says.                                                   *)

\* A row that has been rewritten, and not written again, has in the backup what its
\* writers gave it, next to what it was given by the rewriting; a row that has not
\* been rewritten holds what they gave it, and has no entry.
RestoreInv ==
  /\ \A b \in backup : /\ b.row \in story.rewritten
                       /\ b.row \notin story.again => b.old = story.given[b.row] /\ b.new = number[b.row]
  /\ story.again \subseteq story.rewritten
  /\ \A row \in Row :
       IF row \in story.rewritten THEN \E b \in backup : b.row = row ELSE number[row] = story.given[row]

LEMMA RestoreKept ==
  ASSUME RestoreInv, UNCHANGED <<number, backup>>, story'.given = story.given,
         story'.again = story.again, story'.rewritten = story.rewritten
  PROVE  RestoreInv'
BY DEF RestoreInv

LEMMA PlanRestore == ASSUME Types, RestoreInv, NEW s \in Server, PlanTarget(s) PROVE RestoreInv'
<1>1. PICK q : /\ Sound(q) /\ Puts(s, q) /\ q.tables = Tail(server[s].tables)
               /\ q.pc = After(q.todo, q.tables) /\ (q.clean => server[s].clean)
               /\ \/ q.todo = {} /\ story' = [story EXCEPT !.cut = TRUE]
                  \/ \E plan \in Plans(s, Head(server[s].tables)) :
                       /\ q.todo = plan.todo
                       /\ story' = [story EXCEPT !.shadowed = story.shadowed \union plan.shadowed,
                                      !.cut = \/ story.cut
                                              \/ Head(server[s].tables) = "outbox" /\ server[s].own # OwnOutbox]
  BY PlanEffect
<1>2. story'.given = story.given /\ story'.again = story.again /\ story'.rewritten = story.rewritten
  BY <1>1 DEF Types, Data, Story
<1> QED BY <1>2, PlanEffect, RestoreKept

LEMMA ApplyRestore == ASSUME Types, OrderInv, RestoreInv, NEW s \in Server, ApplyPhoneUpdate(s) PROVE RestoreInv'
<1>1. PICK q, u : Deals(s, q, u)
  BY ApplyEffect
<1>2. server[s].pc = "apply" /\ u \in server[s].todo /\ u.row \notin story.rewritten
  BY <1>1, ApplyEffect DEF Deals, OrderInv, Works, Fresh
<1>3. u \in Update /\ u.row \in Row
  BY <1>2 DEF Types, Sound, Update
<1>4. CASE /\ Unchanged(u) /\ number' = [number EXCEPT ![u.row] = u.new]
           /\ backup' = backup \union {u}
           /\ story' = [story EXCEPT !.rewritten = story.rewritten \union {u.row}]
  <2>1. u.old = story.given[u.row]
    BY <1>2, <1>3, <1>4 DEF RestoreInv, Unchanged
  <2>2. /\ story'.given = story.given /\ story'.again = story.again
        /\ story'.rewritten = story.rewritten \union {u.row}
    BY <1>4 DEF Types, Data, Story
  <2>3. number'[u.row] = u.new /\ \A row \in Row : row # u.row => number'[row] = number[row]
    BY <1>3, <1>4 DEF Types, Data
  <2>4. ASSUME NEW b \in backup'
        PROVE  /\ b.row \in story'.rewritten
               /\ b.row \notin story'.again => b.old = story'.given[b.row] /\ b.new = number'[b.row]
    <3>1. CASE b = u
      BY <2>1, <2>2, <2>3, <3>1
    <3>2. CASE b \in backup
      <4>1. b.row # u.row /\ b.row \in Row
        BY <1>2, <3>2 DEF RestoreInv, Types, Data, Update
      <4> QED BY <2>2, <2>3, <3>2, <4>1 DEF RestoreInv
    <3> QED BY <1>4, <3>1, <3>2
  <2>5. ASSUME NEW row \in Row
        PROVE  IF row \in story'.rewritten THEN \E b \in backup' : b.row = row
               ELSE number'[row] = story'.given[row]
    <3>1. CASE row = u.row
      BY <1>4, <2>2, <3>1
    <3>2. CASE row # u.row
      BY <1>4, <2>2, <2>3, <3>2 DEF RestoreInv
    <3> QED BY <3>1, <3>2
  <2>6. story'.again \subseteq story'.rewritten
    BY <2>2 DEF RestoreInv
  <2> QED BY <2>4, <2>5, <2>6 DEF RestoreInv
<1>5. CASE UNCHANGED <<number, backup, story>>
  BY <1>5, RestoreKept
<1>6. CASE story' = [story EXCEPT !.cut = TRUE] /\ UNCHANGED <<number, backup>>
  <2>1. story'.given = story.given /\ story'.again = story.again /\ story'.rewritten = story.rewritten
    BY <1>6 DEF Types, Data, Story
  <2> QED BY <1>6, <2>1, RestoreKept
<1> QED BY <1>1, <1>4, <1>5, <1>6 DEF Deals

LEMMA NextRestore == ASSUME Types, OrderInv, RestoreInv, [Next]_vars PROVE RestoreInv'
<1>1. CASE Aside
  BY <1>1, RestoreKept DEF Aside, Told
<1>2. ASSUME NEW s \in Server, Claims(s) PROVE RestoreInv'
  <2>1. story' = [story EXCEPT !.used = server[s].read, !.cut = ~server[s].clean]
    BY <1>2, ClaimEffect DEF Claims
  <2>2. story'.given = story.given /\ story'.again = story.again /\ story'.rewritten = story.rewritten
    BY <2>1 DEF Types, Data, Story
  <2> QED BY <1>2, <2>2, ClaimEffect, RestoreKept DEF Claims
<1>3. ASSUME NEW s \in Server, Crash(s) PROVE RestoreInv'
  <2>1. story' = [story EXCEPT !.cut = story.cut \/ server[s].pc \in {"plan", "apply"},
                               !.half = story.half \/ server[s].pc = "seeding"]
    BY <1>3, CrashEffect
  <2>2. story'.given = story.given /\ story'.again = story.again /\ story'.rewritten = story.rewritten
    BY <2>1 DEF Types, Data, Story
  <2> QED BY <1>3, <2>2, CrashEffect, RestoreKept
<1>4. ASSUME NEW row \in Row, Move(row) PROVE RestoreInv'
  <2>1. story'.given = story.given /\ story'.again = story.again /\ story'.rewritten = story.rewritten
    BY <1>4, MoveEffect DEF Types, Data, Story
  <2> QED BY <1>4, <2>1, MoveEffect, RestoreKept
<1>5. ASSUME NEW row \in Row, NEW n \in Entered(row), WriteNumber(row, n) PROVE RestoreInv'
  <2>1. /\ number'[row] = n /\ story'.given[row] = n
        /\ \A o \in Row : o # row => number'[o] = number[o] /\ story'.given[o] = story.given[o]
    BY <1>5, WriteEffect
  <2>2. /\ story'.again = IF row \in story.rewritten THEN story.again \union {row} ELSE story.again
        /\ story'.rewritten = story.rewritten /\ backup' = backup
    BY <1>5, WriteEffect
  <2>3. \A b \in backup : b.row \in Row
    BY DEF Types, Data, Update
  <2>4. ASSUME NEW b \in backup
        PROVE  /\ b.row \in story'.rewritten
               /\ b.row \notin story'.again => b.old = story'.given[b.row] /\ b.new = number'[b.row]
    <3>1. b.row = row => b.row \in story'.again
      BY <2>2 DEF RestoreInv
    <3>2. story.again \subseteq story'.again
      BY <2>2
    <3> QED BY <2>1, <2>2, <2>3, <3>1, <3>2 DEF RestoreInv
  <2>5. story'.again \subseteq story'.rewritten
    BY <2>2 DEF RestoreInv
  <2>6. \A o \in Row : IF o \in story'.rewritten THEN \E b \in backup : b.row = o
                       ELSE number'[o] = story'.given[o]
    BY <2>1, <2>2 DEF RestoreInv
  <2> QED BY <2>2, <2>4, <2>5, <2>6 DEF RestoreInv
<1> QED BY <1>1, <1>2, <1>3, <1>4, <1>5, PlanRestore, ApplyRestore, StepKinds

LEMMA RestoreInvariant == Spec => [](Types /\ OrderInv /\ RestoreInv)
<1>1. Init => Types /\ OrderInv /\ RestoreInv
  <2> SUFFICES ASSUME Init PROVE OrderInv /\ RestoreInv
    BY InitTypes
  <2>1. /\ backup = {} /\ story.given = number /\ story.again = {} /\ story.rewritten = {} /\ ~marker
        /\ \A s \in Server : server[s].pc = "off"
    BY OffIsSound DEF Init
  <2> QED BY <2>1 DEF OrderInv, RestoreInv, Alone, Marked, Unmarked, Works, Reading
<1>2. (Types /\ OrderInv /\ RestoreInv) /\ [Next]_vars => (Types /\ OrderInv /\ RestoreInv)'
  BY NextTypes, NextOrder, NextRestore
<1> QED BY <1>1, <1>2, PTL DEF Spec

\* applyPhoneUpdate keeps the backup row and the update in one transaction, and
\* rewrites a row once: the statements of docs/DR.md give every row the number its
\* writers gave it, but for rows written again since, and for the rooms as a whole
\* when a room's old number meets that of another live one.
THEOREM RestorableHolds == Spec => []Restorable
<1>1. ASSUME Types, RestoreInv PROVE Restorable
  <2> SUFFICES ASSUME NEW row \in Row \ story.again
               PROVE  Reverted(row) = story.given[row]
    BY DEF Restorable, Restored
  <2>1. CASE \E b \in backup : b.row = row /\ b.new = number[row]
    <3>1. PICK c : c = CHOOSE b \in backup : b.row = row /\ b.new = number[row]
      OBVIOUS
    <3>2. c \in backup /\ c.row = row
      BY <2>1, <3>1
    <3>3. Reverted(row) = c.old
      BY <2>1, <3>1 DEF Reverted
    <3> QED BY <1>1, <3>2, <3>3 DEF RestoreInv
  <2>2. CASE ~\E b \in backup : b.row = row /\ b.new = number[row]
    <3>1. Reverted(row) = number[row]
      BY <2>2 DEF Reverted
    <3> QED BY <1>1, <2>2, <3>1 DEF RestoreInv
  <2> QED BY <2>1, <2>2
<1> QED BY <1>1, RestoreInvariant, PTL

\* applyPhoneUpdate rewrites a row only while it holds what was read, to what that
\* number is read as: no number is replaced by the reading of an earlier one,
\* whatever the library makes of them.
THEOREM WritersWinHolds == Spec => WritersWin
<1> DEFINE Wins ==
      \A row \in Row : number'[row] # number[row] =>
        \/ events' # events
        \/ \E s \in Server : At(s, "apply") /\ number'[row] = NormalizePhone(number[row], region[s])
<1>1. ASSUME Types, OrderInv, [Next]_vars PROVE [Wins]_vars
  <2>1. events \in Nat
    BY <1>1 DEF Types, Data
  <2>2. ASSUME number' = number \/ events' = events + 1 PROVE Wins
    BY <2>1, <2>2
  <2>3. ASSUME NEW s \in Server, ApplyPhoneUpdate(s) PROVE Wins
    <3>1. PICK q, u : Deals(s, q, u)
      BY <1>1, <2>3, ApplyEffect
    <3>2. /\ server[s].pc = "apply" /\ u.new = NormalizePhone(u.old, region[s]) /\ u.row \in Row
      BY <1>1, <2>3, <3>1, ApplyEffect DEF Deals, OrderInv, Reading, Types, Sound, Update
    <3>3. CASE Unchanged(u) /\ number' = [number EXCEPT ![u.row] = u.new]
      <4>1. /\ number'[u.row] = NormalizePhone(number[u.row], region[s])
            /\ \A row \in Row : row # u.row => number'[row] = number[row]
        BY <1>1, <3>2, <3>3 DEF Types, Data, Unchanged
      <4> QED BY <3>2, <4>1 DEF At
    <3> QED BY <2>2, <3>1, <3>3 DEF Deals
  <2>4. ASSUME NEW s \in Server, Claims(s) \/ PlanTarget(s) \/ Crash(s) PROVE Wins
    BY <1>1, <2>2, <2>4, ClaimEffect, PlanEffect, CrashEffect DEF Claims
  <2>5. ASSUME NEW row \in Row, Move(row) \/ \E n \in Entered(row) : WriteNumber(row, n) PROVE Wins
    BY <1>1, <2>2, <2>5, MoveEffect, WriteEffect
  <2> HIDE DEF Wins
  <2>6. CASE Aside
    BY <2>2, <2>6 DEF Aside
  <2> QED BY <1>1, <2>3, <2>4, <2>5, <2>6, StepKinds
<1> QED BY <1>1, RestoreInvariant, PTL DEF Spec, WritersWin
-----------------------------------------------------------------------------
(* The region a server plans by.                                           *)

\* A server starts with the region of its environment, and goes on with the one it
\* read; neither changes while it starts, whoever saves another one.
RegionInv ==
  \A s \in Server :
    /\ server[s].pc \in {"schema", "count", "seeding", "region"} => region[s] = FromEnv(s)
    /\ server[s].pc = "claim" /\ server[s].clean => region[s] = server[s].read

LEMMA RegionKept ==
  ASSUME Types, RegionInv, NEW s \in Server, NEW q, Sound(q), Puts(s, q),
         \A o \in Server : o # s => region'[o] = region[o],
         q.pc \in {"schema", "count", "seeding", "region"} => region'[s] = FromEnv(s),
         q.pc = "claim" /\ q.clean => region'[s] = q.read
  PROVE  RegionInv'
<1>1. server'[s] = q /\ \A o \in Server : o # s => server'[o] = server[o]
  BY PutsType
<1>3. ASSUME NEW o \in Server
      PROVE  /\ server'[o].pc \in {"schema", "count", "seeding", "region"} => region'[o] = FromEnv(o)
             /\ server'[o].pc = "claim" /\ server'[o].clean => region'[o] = server'[o].read
  <2>1. CASE o = s
    BY <1>1, <2>1
  <2>2. CASE o # s
    BY <1>1, <2>2 DEF RegionInv
  <2> QED BY <2>1, <2>2
<1> QED BY <1>3 DEF RegionInv

LEMMA NextRegion == ASSUME Types, RegionInv, [Next]_vars PROVE RegionInv'
<1>1. ASSUME UNCHANGED server, \A s \in Server : region'[s] = region[s] PROVE RegionInv'
  BY <1>1 DEF RegionInv
<1>2. ASSUME NEW s \in Server, NEW q, Sound(q), Puts(s, q), \A o \in Server : o # s => region'[o] = region[o],
             q.pc = "serve" \/ UNCHANGED region,
             \/ q.pc \notin {"schema", "count", "seeding", "region", "claim"}
             \/ q.pc # "claim" /\ server[s].pc \in {"schema", "count", "seeding"}
      PROVE  RegionInv'
  <2>1. q.pc \in {"schema", "count", "seeding", "region"} => region[s] = FromEnv(s)
    BY <1>2 DEF RegionInv
  <2>2. q.pc # "claim"
    BY <1>2
  <2> QED BY <1>2, <2>1, <2>2, RegionKept
<1>3. ASSUME NEW s \in Server, Boot(s) PROVE RegionInv'
  <2>1. region'[s] = FromEnv(s) /\ \A o \in Server : o # s => region'[o] = region[o]
    BY <1>3, BootEffect DEF Types, Data, Process
  <2> QED BY <1>3, <2>1, BootEffect, RegionKept
<1>4. ASSUME NEW s \in Server, RunBlock(s) PROVE RegionInv'
  <2>1. PICK q : Sound(q) /\ Puts(s, q) /\ q.pc \in {"off", "schema", "count", "region"}
    BY <1>4, BlockEffect
  <2> QED BY <1>2, <1>4, <2>1, BlockEffect
<1>5. ASSUME NEW s \in Server, CountTemplates(s) PROVE RegionInv'
  BY <1>2, <1>5, CountEffect
<1>6. ASSUME NEW s \in Server, SeedTemplate(s) PROVE RegionInv'
  <2>1. PICK q : Sound(q) /\ Puts(s, q) /\ q.pc \in {"schema", "seeding"}
    BY <1>6, SeedEffect
  <2> QED BY <1>2, <1>6, <2>1, SeedEffect
<1>7. ASSUME NEW s \in Server, ApplyStoredPhoneRegion(s) PROVE RegionInv'
  <2>1. region[s] = FromEnv(s)
    BY <1>7, RegionEffect DEF RegionInv
  <2>2. PICK q : /\ Sound(q) /\ Puts(s, q) /\ q.pc = "claim"
                 /\ q.clean => /\ q.read = IF stored = "unset" THEN FromEnv(s) ELSE stored
                               /\ region'[s] = IF stored = "unset" THEN region[s] ELSE stored
    BY <1>7, RegionEffect
  <2>3. q.clean => region'[s] = q.read
    BY <2>1, <2>2
  <2> QED BY <1>7, <2>2, <2>3, RegionEffect, RegionKept
<1>8. ASSUME NEW s \in Server, ClaimPhoneBackfill(s) PROVE RegionInv'
  BY <1>2, <1>8, ClaimEffect
<1>9. ASSUME NEW s \in Server, PlanTarget(s) PROVE RegionInv'
  <2>1. PICK q : Sound(q) /\ Puts(s, q) /\ q.pc \in {"plan", "apply", "serve"}
    BY <1>9, PlanEffect DEF After
  <2> QED BY <1>2, <1>9, <2>1, PlanEffect
<1>10. ASSUME NEW s \in Server, ApplyPhoneUpdate(s) PROVE RegionInv'
  <2>1. PICK q : Sound(q) /\ Puts(s, q) /\ q.pc \in {"plan", "apply", "serve"}
    BY <1>10, ApplyEffect DEF Deals, After
  <2> QED BY <1>2, <1>10, <2>1, ApplyEffect
<1>11. ASSUME NEW s \in Server, Crash(s) PROVE RegionInv'
  BY <1>2, <1>11, CrashEffect, OffIsSound
<1>13. ASSUME NEW s \in Server, NEW r \in Region \union {None}, SaveRegion(s, r) PROVE RegionInv'
  BY <1>2, <1>13, SaveEffect
<1>14. ASSUME NEW s \in Server, SwapRegion(s) PROVE RegionInv'
  BY <1>2, <1>14, SwapEffect
<1>15. ASSUME WorkerStep PROVE RegionInv'
  BY <1>1, <1>15, WorkerEffect
<1>16. ASSUME NEW row \in Row, Move(row) PROVE RegionInv'
  BY <1>1, <1>16, MoveEffect
<1>17. ASSUME NEW row \in Row, NEW n \in Entered(row), WriteNumber(row, n) PROVE RegionInv'
  BY <1>1, <1>17, WriteEffect
<1>18. CASE UNCHANGED vars
  BY <1>1, <1>18 DEF vars, db
<1> QED
  BY <1>3, <1>4, <1>5, <1>6, <1>7, <1>8, <1>9, <1>10, <1>11, <1>13, <1>14, <1>15, <1>16, <1>17, <1>18
     DEF Next, ServerStep, Start, WorkerStep

-----------------------------------------------------------------------------
(* How far the rewriting is.                                               *)

\* Nothing explains why the row should not be rewritten ...
Due(row) ==
  /\ row \notin story.written \union story.moved \union story.shadowed
  /\ Parses(story.given[row], story.used)
  /\ TableOf[row] = "outbox" => row \in live
\* ... it is, and will be left so, or the server at work has it among its updates.
\* What is there may be read as yet another number: that it is left alone needs more
\* than that it is ready.
Ready(row) == number[row] = NormalizePhone(story.given[row], story.used)
Settled(q, row) == Ready(row) /\ (q.pc = "apply" => \A u \in q.todo : u.row # row)
Planned(q, row) ==
  /\ q.pc = "apply"
  /\ \E u \in q.todo : /\ u.row = row /\ u.old = number[row]
                       /\ u.new = NormalizePhone(story.given[row], story.used)

Follows(q) ==
  \A row \in Row : Due(row) /\ TableOf[row] \notin Left(q) => Settled(q, row) \/ Planned(q, row)

OnCourse(s) == Works(server[s]) /\ ~story.cut => region[s] = story.used /\ Follows(server[s])
Over == marker /\ ~story.cut /\ (\A s \in Server : ~Works(server[s])) => \A row \in Row : Due(row) => Ready(row)

RewriteInv == Over /\ \A s \in Server : OnCourse(s)

\* What is done and what is planned stays so while the rows do, and while their
\* history only grows.
LEMMA FollowsKept ==
  ASSUME NEW q, Follows(q), story'.used = story.used,
         \A row \in Row : Due(row)' => Due(row) /\ number'[row] = number[row] /\ story'.given[row] = story.given[row]
  PROVE  Follows(q)'
<1> SUFFICES ASSUME NEW row \in Row, Due(row)', TableOf[row] \notin Left(q)
             PROVE  Settled(q, row)' \/ Planned(q, row)'
  BY DEF Follows, Left
<1>1. /\ Due(row) /\ number'[row] = number[row] /\ story'.given[row] = story.given[row]
      /\ Settled(q, row) \/ Planned(q, row)
  BY DEF Follows
<1> QED BY <1>1 DEF Settled, Ready, Planned

LEMMA PlanFollows ==
  ASSUME Types, OrderInv, RestoreInv, NEW s \in Server, PlanTarget(s), NEW q, Sound(q),
         region[s] = story.used, NEW r, r = server[s], Follows(r), q.tables = Tail(r.tables),
         q.pc = After(q.todo, q.tables), NEW plan \in Plans(s, Head(r.tables)), q.todo = plan.todo,
         story'.shadowed = story.shadowed \union plan.shadowed,
         story'.given = story.given, story'.written = story.written, story'.moved = story.moved,
         story'.used = story.used, Head(r.tables) = "outbox" => r.own = OwnOutbox
  PROVE  Follows(q)'
<1>1. /\ r.pc = "plan" /\ r.tables \in Remaining /\ r.tables # <<>> /\ number' = number /\ live' = live
      /\ Works(server[s])
  BY PlanEffect DEF Types, Sound, ServerState, Works
<1>2. /\ Head(r.tables) \in Left(r)
      /\ \A t \in Left(r) : t = Head(r.tables) \/ t \in Left(q)
  <2>1. /\ Head(r.tables) \in {r.tables[j] : j \in DOMAIN r.tables}
        /\ \A k \in DOMAIN r.tables : \/ r.tables[k] = Head(r.tables)
                                      \/ r.tables[k] \in {Tail(r.tables)[j] : j \in DOMAIN Tail(r.tables)}
    BY <1>1, RemainingFacts
  <2> QED BY <2>1 DEF Left
<1>3. ASSUME NEW row \in Row, Due(row)', TableOf[row] \notin Left(q)
      PROVE  Settled(q, row)' \/ Planned(q, row)'
  <2>1. /\ Due(row) /\ row \notin plan.shadowed /\ Parses(story.given[row], story.used)
        /\ TableOf[row] = "outbox" => row \in live
    BY <1>1, <1>3 DEF Due
  <2>2. \A u \in plan.todo : /\ TableOf[u.row] = Head(r.tables) /\ u.old = number[u.row]
                             /\ u.new = NormalizePhone(u.old, region[s]) /\ u.new # u.old
    BY PlanFacts
  <2>3. CASE TableOf[row] = Head(r.tables)
    <3>1. number[row] = story.given[row]
      <4>1. row \notin story.rewritten
        BY <1>1, <1>2, <2>3 DEF OrderInv, Fresh
      <4> QED BY <4>1 DEF RestoreInv
    <3>2. \/ Ready(row)
          \/ \E u \in plan.todo : /\ u.row = row /\ u.old = number[row]
                                  /\ u.new = NormalizePhone(story.given[row], story.used)
      BY <2>1, <2>3, <3>1, PlanFacts DEF Ready
    <3>3. q.todo # {} => q.pc = "apply"
      BY AfterFacts
    <3>4. Ready(row) => \A u \in plan.todo : u.row # row
      BY <2>2, <3>1 DEF Ready
    <3> QED BY <1>1, <3>2, <3>3, <3>4 DEF Ready, Settled, Planned
  <2>4. CASE TableOf[row] # Head(r.tables)
    <3>1. Ready(row)
      BY <1>1, <1>2, <1>3, <2>1, <2>4 DEF Follows, Settled, Planned
    <3>2. \A u \in plan.todo : u.row # row
      BY <2>2, <2>4
    <3> QED BY <1>1, <3>1, <3>2 DEF Ready, Settled
  <2> QED BY <2>3, <2>4
<1> QED BY <1>3 DEF Follows, Left

LEMMA ApplyFollows ==
  ASSUME Types, OrderInv, NEW s \in Server, ApplyPhoneUpdate(s), NEW r, r = server[s], Follows(r),
         NEW q, NEW u, Deals(s, q, u), ~story'.cut
  PROVE  Follows(q)'
<1>1. /\ r.pc = "apply" /\ u \in r.todo /\ live' = live
      /\ \A v, x \in r.todo : v.row = x.row => v = x
  BY ApplyEffect DEF Deals, OrderInv, Fresh, Works
<1>2. u.row \in Row
  BY <1>1 DEF Types, Sound, Update
<1>3. /\ q.todo = r.todo \ {u} /\ Left(q) = Left(r) /\ (q.todo # {} => q.pc = "apply")
      /\ \/ /\ Unchanged(u) /\ number' = [number EXCEPT ![u.row] = u.new]
            /\ story' = [story EXCEPT !.rewritten = story.rewritten \union {u.row}]
         \/ ~Unchanged(u) /\ UNCHANGED <<number, story>>
  <2>1. ~(story' = [story EXCEPT !.cut = TRUE])
    BY DEF Types, Data, Story
  <2>2. Left(q) = Left(r)
    BY DEF Deals, Left
  <2> QED BY <2>1, <2>2, AfterFacts DEF Deals
<1>4. /\ story'.given = story.given /\ story'.used = story.used /\ story'.written = story.written
      /\ story'.moved = story.moved /\ story'.shadowed = story.shadowed
  BY <1>3 DEF Types, Data, Story
<1>5. /\ Unchanged(u) => number'[u.row] = u.new
      /\ \A row \in Row : row # u.row => number'[row] = number[row]
  BY <1>2, <1>3 DEF Types, Data
<1>6. ASSUME NEW row \in Row, Due(row)', TableOf[row] \notin Left(q)
      PROVE  Settled(q, row)' \/ Planned(q, row)'
  <2>1. Due(row) /\ (Settled(r, row) \/ Planned(r, row))
    BY <1>1, <1>3, <1>4, <1>6 DEF Due, Follows
  <2>2. CASE Settled(r, row)
    <3>1. row # u.row /\ Ready(row) /\ \A v \in q.todo : v.row # row
      BY <1>1, <1>3, <2>2 DEF Settled
    <3> QED BY <1>4, <1>5, <3>1 DEF Ready, Settled
  <2>3. CASE Planned(r, row)
    <3>1. PICK v \in r.todo : /\ v.row = row /\ v.old = number[row]
                              /\ v.new = NormalizePhone(story.given[row], story.used)
      BY <2>3 DEF Planned
    <3>2. CASE v = u
      <4>1. Unchanged(u) /\ \A x \in q.todo : x.row # row
        BY <1>1, <1>3, <3>1, <3>2 DEF Unchanged
      <4> QED BY <1>4, <1>5, <3>1, <3>2, <4>1 DEF Ready, Settled
    <3>3. CASE v # u
      <4>1. v \in q.todo /\ row # u.row /\ q.pc = "apply"
        BY <1>1, <1>3, <3>1, <3>3
      <4>2. number'[row] = number[row]
        BY <1>5, <4>1
      <4> QED BY <1>4, <3>1, <4>1, <4>2 DEF Planned
    <3> QED BY <3>2, <3>3
  <2> QED BY <2>1, <2>2, <2>3
<1> QED BY <1>6 DEF Follows, Left

\* A step of the server at work.
LEMMA RewriterKept ==
  ASSUME Types, OrderInv, NEW s \in Server, Works(server[s]), NEW q, Sound(q), Puts(s, q),
         UNCHANGED <<marker, region>>,
         Works(q) /\ ~story'.cut => region[s] = story'.used /\ Follows(q)',
         ~Works(q) /\ ~story'.cut => \A row \in Row : Due(row)' => Ready(row)'
  PROVE  RewriteInv'
<1>1. server'[s] = q /\ \A o \in Server : o # s => ~Works(server'[o])
  BY WorkerAlone
<1>2. Over'
  BY <1>1 DEF Over
<1>3. ASSUME NEW o \in Server PROVE OnCourse(o)'
  <2>1. CASE o = s
    BY <1>1, <2>1 DEF OnCourse, Follows, Planned, Settled, Left
  <2>2. CASE o # s
    BY <1>1, <2>2 DEF OnCourse
  <2> QED BY <2>1, <2>2
<1> QED BY <1>2, <1>3 DEF RewriteInv

LEMMA AsideRewrite == ASSUME Types, RewriteInv, Aside PROVE RewriteInv'
<1>1. \A o \in Server : Works(server[o]) \/ Works(server'[o]) => server'[o] = server[o] /\ region'[o] = region[o]
  BY DEF Aside
<1>2. \A row \in Row : (Due(row)' <=> Due(row)) /\ (Ready(row)' <=> Ready(row))
  BY DEF Aside, Told, Due, Ready
<1>3. Over'
  BY <1>1, <1>2 DEF RewriteInv, Over, Aside
<1>4. ASSUME NEW o \in Server PROVE OnCourse(o)'
  <2>1. CASE ~Works(server'[o])
    BY <2>1 DEF OnCourse
  <2>2. CASE Works(server'[o])
    <3>1. PICK q : q = server[o]
      OBVIOUS
    <3>2. server'[o] = q /\ region'[o] = region[o] /\ Works(q)
      BY <1>1, <2>2, <3>1
    <3>3. ~story.cut => region[o] = story.used /\ Follows(q)
      BY <3>1, <3>2 DEF RewriteInv, OnCourse
    <3>4. Follows(q) => Follows(q)'
      BY <1>2, FollowsKept DEF Aside, Told
    <3> QED BY <3>2, <3>3, <3>4 DEF OnCourse, Follows, Planned, Settled, Left, Aside, Told
  <2> QED BY <2>1, <2>2
<1> QED BY <1>3, <1>4 DEF RewriteInv

LEMMA ClaimRewrite ==
  ASSUME Types, OrderInv, RegionInv, NEW s \in Server, Claims(s)
  PROVE  RewriteInv'
<1>1. PICK q : /\ Sound(q) /\ Puts(s, q) /\ q.pc = "plan" /\ q.tables = Targets
               /\ story' = [story EXCEPT !.used = server[s].read, !.cut = ~server[s].clean]
  BY ClaimEffect DEF Claims
<1>2. server'[s] = q /\ \A o \in Server : o # s => server'[o] = server[o]
  BY <1>1, PutsType
<1>3. /\ server[s].pc = "claim" /\ UNCHANGED region /\ \A o \in Server : ~Works(server[o])
  BY ClaimEffect DEF Claims, OrderInv, Marked
<1>4. story'.used = server[s].read /\ story'.cut = ~server[s].clean
  BY <1>1 DEF Types, Data, Story
<1>5. Over'
  BY <1>1, <1>2 DEF Over, Works
\* No table is behind.
<1>6. \A row \in Row : TableOf[row] \in Left(q)
  <2>1. Left(q) = {"instances", "warming_rooms", "outbox"}
    BY <1>1, RemainingFacts DEF Left
  <2> QED BY <2>1, StartupAssumption DEF StartupAssumption
<1>7. ~story'.cut => region'[s] = story'.used
  BY <1>3, <1>4 DEF RegionInv
<1>8. ASSUME NEW o \in Server PROVE OnCourse(o)'
  <2>1. CASE o = s
    BY <1>2, <1>6, <1>7, <2>1 DEF OnCourse, Follows, Left
  <2>2. CASE o # s
    BY <1>2, <1>3, <2>2 DEF OnCourse, Works
  <2> QED BY <2>1, <2>2
<1> QED BY <1>5, <1>8 DEF RewriteInv

LEMMA PlanRewrite ==
  ASSUME Types, OrderInv, RestoreInv, RewriteInv, NEW s \in Server, PlanTarget(s)
  PROVE  RewriteInv'
<1>1. PICK r : r = server[s]
  OBVIOUS
<1>2. PICK q : /\ Sound(q) /\ Puts(s, q) /\ q.tables = Tail(server[s].tables)
               /\ q.pc = After(q.todo, q.tables) /\ (q.clean => server[s].clean)
               /\ \/ q.todo = {} /\ story' = [story EXCEPT !.cut = TRUE]
                  \/ \E plan \in Plans(s, Head(server[s].tables)) :
                       /\ q.todo = plan.todo
                       /\ story' = [story EXCEPT !.shadowed = story.shadowed \union plan.shadowed,
                                      !.cut = \/ story.cut
                                              \/ Head(server[s].tables) = "outbox" /\ server[s].own # OwnOutbox]
  BY PlanEffect
<1>3. r.pc = "plan" /\ Works(server[s]) /\ UNCHANGED <<marker, region>>
  BY <1>1, PlanEffect DEF Works
<1>4. CASE q.todo = {} /\ story' = [story EXCEPT !.cut = TRUE]
  <2>1. story'.cut
    BY <1>4 DEF Types, Data, Story
  <2> QED BY <1>2, <1>3, <2>1, RewriterKept
<1>5. CASE \E plan \in Plans(s, Head(server[s].tables)) :
             /\ q.todo = plan.todo
             /\ story' = [story EXCEPT !.shadowed = story.shadowed \union plan.shadowed,
                            !.cut = \/ story.cut
                                    \/ Head(server[s].tables) = "outbox" /\ server[s].own # OwnOutbox]
  <2>1. PICK plan \in Plans(s, Head(server[s].tables)) :
             /\ q.todo = plan.todo
             /\ story' = [story EXCEPT !.shadowed = story.shadowed \union plan.shadowed,
                            !.cut = \/ story.cut
                                    \/ Head(server[s].tables) = "outbox" /\ server[s].own # OwnOutbox]
    BY <1>5
  <2>2. /\ story'.shadowed = story.shadowed \union plan.shadowed
        /\ story'.given = story.given /\ story'.written = story.written /\ story'.moved = story.moved
        /\ story'.used = story.used
        /\ ~story'.cut => ~story.cut /\ ~(Head(server[s].tables) = "outbox" /\ server[s].own # OwnOutbox)
    BY <2>1 DEF Types, Data, Story
  <2>3. ~story'.cut => region[s] = story.used /\ Follows(r)
    BY <1>1, <1>3, <2>2 DEF RewriteInv, OnCourse
  <2>4. ~story'.cut => Follows(q)'
    BY <1>1, <1>2, <2>1, <2>2, <2>3, PlanFollows
  <2>5. ~Works(q) /\ ~story'.cut => \A row \in Row : Due(row)' => Ready(row)'
    <3>1. q.pc = After(q.todo, q.tables)
      BY <1>2
    <3>2. ~Works(q) => Left(q) = {} /\ q.pc # "apply"
      BY <3>1, AfterFacts DEF Works, Left
    <3> QED BY <2>4, <3>2 DEF Follows, Planned, Settled, Left
  <2> QED BY <1>2, <1>3, <2>2, <2>3, <2>4, <2>5, RewriterKept
<1> QED BY <1>2, <1>4, <1>5

LEMMA ApplyRewrite ==
  ASSUME Types, OrderInv, RewriteInv, NEW s \in Server, ApplyPhoneUpdate(s)
  PROVE  RewriteInv'
<1>1. PICK r : r = server[s]
  OBVIOUS
<1>2. PICK q, u : Deals(s, q, u)
  BY ApplyEffect
<1>3. Sound(q) /\ Puts(s, q) /\ q.pc = After(q.todo, q.tables)
  BY <1>2 DEF Deals
<1>4. r.pc = "apply" /\ Works(server[s]) /\ UNCHANGED <<marker, region>>
  BY <1>1, ApplyEffect DEF Works
<1>5. story'.used = story.used /\ (~story'.cut => ~story.cut)
  BY <1>2 DEF Deals, Types, Data, Story
<1>6. ~story.cut => region[s] = story.used /\ Follows(r)
  BY <1>1, <1>4 DEF RewriteInv, OnCourse
<1>7. ~story'.cut => Follows(q)'
  BY <1>1, <1>2, <1>5, <1>6, ApplyFollows
<1>8. ~Works(q) /\ ~story'.cut => \A row \in Row : Due(row)' => Ready(row)'
  <2>1. ~Works(q) => Left(q) = {} /\ q.pc # "apply"
    BY <1>3, AfterFacts DEF Works, Left
  <2> QED BY <1>7, <2>1 DEF Follows, Planned, Settled, Left
<1> QED BY <1>3, <1>4, <1>5, <1>6, <1>7, <1>8, RewriterKept

LEMMA NextRewrite ==
  ASSUME Types, OrderInv, RestoreInv, RegionInv, RewriteInv, [Next]_vars
  PROVE  RewriteInv'
<1>1. ASSUME NEW s \in Server, Crash(s), Works(server[s]) PROVE RewriteInv'
  <2>1. story' = [story EXCEPT !.cut = story.cut \/ server[s].pc \in {"plan", "apply"},
                               !.half = story.half \/ server[s].pc = "seeding"]
    BY <1>1, CrashEffect
  <2>2. story'.cut
    BY <1>1, <2>1 DEF Types, Data, Story, Works
  <2> QED BY <1>1, <2>2, CrashEffect, OffIsSound, RewriterKept
\* A writer: its row is one of those that need no explanation any more.
<1>2. ASSUME Rewriting, UNCHANGED <<marker, region, server>>,
             story'.used = story.used /\ story'.cut = story.cut,
             \A row \in Row : Due(row)' => Due(row) /\ number'[row] = number[row]
                                           /\ story'.given[row] = story.given[row]
      PROVE  RewriteInv'
  <2>1. Over'
    BY <1>2 DEF Over, Rewriting, At, Works
  <2>2. ASSUME NEW o \in Server PROVE OnCourse(o)'
    <3>1. PICK q : q = server[o]
      OBVIOUS
    <3>2. Works(q) /\ ~story.cut => region[o] = story.used /\ Follows(q)
      BY <3>1 DEF RewriteInv, OnCourse
    <3>3. Follows(q) => Follows(q)'
      BY <1>2, FollowsKept
    <3> QED BY <1>2, <3>1, <3>2, <3>3 DEF OnCourse, Follows, Planned, Settled, Left
  <2> QED BY <2>1, <2>2 DEF RewriteInv
<1>3. ASSUME NEW row \in Row, Move(row) PROVE RewriteInv'
  <2>1. /\ story'.given = story.given /\ story'.used = story.used /\ story'.cut = story.cut
        /\ story'.moved = story.moved \union {row} /\ story'.written = story.written
        /\ story'.shadowed = story.shadowed
    BY <1>3, MoveEffect DEF Types, Data, Story
  <2>2. \A o \in Row : Due(o)' => Due(o) /\ number'[o] = number[o] /\ story'.given[o] = story.given[o]
    BY <1>3, <2>1, MoveEffect DEF Due
  <2> QED BY <1>2, <1>3, <2>1, <2>2, MoveEffect
<1>4. ASSUME NEW row \in Row, NEW n \in Entered(row), WriteNumber(row, n) PROVE RewriteInv'
  <2>1. /\ story'.used = story.used /\ story'.cut = story.cut
        /\ story'.written = story.written \union {row} /\ story'.moved = story.moved
        /\ story'.shadowed = story.shadowed /\ live' = live
        /\ \A o \in Row : o # row => number'[o] = number[o] /\ story'.given[o] = story.given[o]
    BY <1>4, WriteEffect
  <2>2. \A o \in Row : Due(o)' => Due(o) /\ number'[o] = number[o] /\ story'.given[o] = story.given[o]
    BY <2>1 DEF Due
  <2>3. Rewriting /\ UNCHANGED <<marker, region, server>>
    BY <1>4, WriteEffect
  <2> QED BY <1>2, <2>1, <2>2, <2>3
<1> QED BY <1>1, <1>3, <1>4, AsideRewrite, ClaimRewrite, PlanRewrite, ApplyRewrite, StepKinds

LEMMA RewriteInvariant == Spec => [](Types /\ OrderInv /\ RestoreInv /\ RegionInv /\ RewriteInv)
<1> DEFINE Inv == Types /\ OrderInv /\ RestoreInv /\ RegionInv /\ RewriteInv
<1>1. ASSUME Init PROVE RegionInv /\ RewriteInv
  <2>1. \A s \in Server : server[s] = Off /\ server[s].pc = "off"
    BY <1>1, OffIsSound DEF Init
  <2>2. ~marker
    BY <1>1 DEF Init
  <2> QED BY <2>1, <2>2 DEF RegionInv, RewriteInv, Over, OnCourse, Works
<1>2. Inv /\ [Next]_vars => Inv'
  BY NextTypes, NextOrder, NextRestore, NextRegion, NextRewrite
<1> QED BY <1>1, <1>2, RestoreInvariant, PTL DEF Spec

\* RunPhoneBackfill sets its marker before it rewrites anything, so that one
\* server rewrites, once: when it is done every row is in canonical form, by the
\* region this server read at its start, unless something that happened explains it.
THEOREM RewrittenHolds == Spec => []RewrittenUnlessExplained
<1>1. RewriteInv => RewrittenUnlessExplained
  BY DEF RewriteInv, RewrittenUnlessExplained, Over, Rewriting, At, Works, Due, Ready
<1> QED BY <1>1, RewriteInvariant, PTL
=============================================================================
