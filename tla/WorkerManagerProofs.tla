------------------------ MODULE WorkerManagerProofs ------------------------
(***************************************************************************)
(* Proofs about WorkerManager for every number of configurations, worker   *)
(* instances, updates and edits.                                            *)
(***************************************************************************)
EXTENDS WorkerManager, TLAPS

LEMMA TypeInit == ASSUME Init PROVE TypeOK
BY BoundAssumption, TableAssumption DEF Init, TypeOK, Instance

\* A request touches the table and the updates in progress, and nothing else.
LEMMA WriteTypes ==
  ASSUME TypeOK, NEW c \in Config, NEW is \in {"absent", "enabled", "disabled", "deleted"},
         NEW v \in Setting \union {None}, Write(c, is, v)
  PROVE  table' \in [Config -> Row] /\ edits' \in 0..MaxEdits
<1>1. [is |-> is, setting |-> v] \in Row
  BY DEF Row
<1>2. QED
  BY <1>1, BoundAssumption DEF Write, TypeOK

LEMMA UpdateTypes ==
  ASSUME TypeOK, NEW p \in Caller, NEW v \in Setting, UpdateWorkerConfig(p, v)
  PROVE  table' \in [Config -> Row] /\ update' \in [Caller -> Update \union {None}] /\ edits' \in 0..MaxEdits
<1>1. update[p] \in Update
  BY DEF UpdateWorkerConfig, TypeOK
<1>2. update[p].config \in Config /\ applyWorkerConfigRequest(update[p]) \in {"enabled", "disabled"}
  BY <1>1 DEF applyWorkerConfigRequest, Update
<1>3. update' \in [Caller -> Update \union {None}]
  BY DEF UpdateWorkerConfig, TypeOK
<1>4. QED
  BY <1>2, <1>3, WriteTypes DEF UpdateWorkerConfig, TypeOK

LEMMA RequestFrame ==
  ASSUME RequestStep PROVE UNCHANGED <<manager, workers, created, instance>>
BY DEF RequestStep, CreateWorkerConfig, DeleteWorkerConfig, ToggleWorkerConfig, LoadWorkerConfig,
       UpdateWorkerConfig, Write

LEMMA RequestTypes ==
  ASSUME TypeOK, RequestStep
  PROVE  table' \in [Config -> Row] /\ update' \in [Caller -> Update \union {None}] /\ edits' \in 0..MaxEdits
<1>1. \A c \in Config : table[c].setting \in Setting \union {None}
  BY DEF TypeOK, Row
<1>2. ASSUME NEW c \in Config, NEW is \in {"enabled", "disabled"}, NEW v \in Setting,
             CreateWorkerConfig(c, is, v)
      PROVE  table' \in [Config -> Row] /\ edits' \in 0..MaxEdits /\ update' = update
  BY <1>2, WriteTypes DEF CreateWorkerConfig
<1>3. ASSUME NEW c \in Config, DeleteWorkerConfig(c)
      PROVE  table' \in [Config -> Row] /\ edits' \in 0..MaxEdits /\ update' = update
  BY <1>3, WriteTypes DEF DeleteWorkerConfig
<1>4. ASSUME NEW c \in Config, ToggleWorkerConfig(c)
      PROVE  table' \in [Config -> Row] /\ edits' \in 0..MaxEdits /\ update' = update
  BY <1>1, <1>4, WriteTypes DEF ToggleWorkerConfig
<1>5. ASSUME NEW c \in Config, NEW p \in Caller, NEW asks \in {"enabled", "disabled", None},
             LoadWorkerConfig(p, c, asks)
      PROVE  update' \in [Caller -> Update \union {None}] /\ UNCHANGED <<table, edits>>
  BY <1>5 DEF LoadWorkerConfig, Exists, Update, TypeOK
<1>6. QED
  BY <1>2, <1>3, <1>4, <1>5, UpdateTypes DEF RequestStep, TypeOK

LEMMA WantedTypes == ASSUME TypeOK PROVE wanted \in [Config -> Setting \union {None}]
BY DEF wanted, TypeOK, Row

\* What a started or stopped worker leaves of the types.
LEMMA StartTypes ==
  ASSUME TypeOK, NEW c \in Config, StartWorker(c)
  PROVE  /\ created' \in 0..MaxWorkers
         /\ workers' \in [Config -> 0..MaxWorkers]
         /\ owner' \in [Instance -> Config \union {None}]
         /\ setting' \in [Instance -> Setting \union {None}]
         /\ state' \in [Instance -> {"none", "spawned", "idle", "cycle", "done"}]
         /\ cancelled' \in [Instance -> BOOLEAN]
<1>1. created' \in 0..MaxWorkers /\ created' \in Instance
  BY BoundAssumption DEF StartWorker, TypeOK, Instance
<1>2. cancelled' \in [Instance -> BOOLEAN]
  BY Zenon DEF StartWorker, TypeOK
<1>3. /\ workers' = [workers EXCEPT ![c] = created']
      /\ owner' = [owner EXCEPT ![created'] = c]
      /\ setting' = [setting EXCEPT ![created'] = snapshot[c]]
      /\ state' = [state EXCEPT ![created'] = "spawned"]
  BY DEF StartWorker
<1>4. QED
  BY <1>1, <1>2, <1>3 DEF TypeOK

LEMMA StopTypes ==
  ASSUME TypeOK, NEW c \in Config, StopWorker(c)
  PROVE  /\ waiting' \in Config \union {None}
         /\ cancelled' \in [Instance -> BOOLEAN]
         /\ UNCHANGED <<owner, setting, state>>
BY Zenon DEF StopWorker, TypeOK

LEMMA MoveTypes ==
  ASSUME TypeOK, NEW i \in Instance, NEW from, NEW to \in {"idle", "cycle", "done"}, Move(i, from, to)
  PROVE  TypeOK'
BY DEF Move, TypeOK, source, manager

LEMMA TypeStep == ASSUME TypeOK, [Next]_vars PROVE TypeOK'
<1>1. CASE RequestStep
  BY <1>1, RequestFrame, RequestTypes DEF TypeOK, manager, instance
<1>2. CASE FetchWorkerConfigs \/ ReloadLocks \/ ReloadUnlocks
  BY <1>2, WantedTypes DEF FetchWorkerConfigs, ReloadLocks, Enabled, ReloadUnlocks, Started, TypeOK, source, instance
<1>3. CASE FetchFails
  BY <1>3 DEF FetchFails, Started, TypeOK, source, instance
<1>4. ASSUME NEW c \in Config, ApplyNew(c) \/ ApplyRestarted(c) PROVE TypeOK'
  <2>1. StartWorker(c)
    BY <1>4 DEF ApplyNew, ApplyRestarted
  <2>2. QED
    BY <1>4, <2>1, StartTypes DEF ApplyNew, ApplyRestarted, TypeOK, source
<1>5. ASSUME NEW c \in Config, ApplySame(c) \/ RemoveStopped(c) \/ Drained(c) PROVE TypeOK'
  BY <1>5, BoundAssumption DEF ApplySame, RemoveStopped, Drained, TypeOK, source, instance
<1>6. ASSUME NEW c \in Config, ApplyChanged(c) \/ StopRemoved(c) \/ DrainWorker(c) PROVE TypeOK'
  <2>1. StopWorker(c)
    BY <1>6 DEF ApplyChanged, StopRemoved, DrainWorker
  <2>2. QED
    BY <1>6, <2>1, StopTypes DEF ApplyChanged, StopRemoved, DrainWorker, TypeOK, source
<1>7. CASE Shutdown \/ StopLocks \/ StopReturns
  BY <1>7 DEF Shutdown, StopLocks, StopReturns, Present, TypeOK, source, instance
<1>8. CASE ProcessExit
  BY <1>8 DEF ProcessExit, TypeOK, source
<1>9. ASSUME NEW i \in Instance, WorkerStep(i) PROVE TypeOK'
  BY <1>9, MoveTypes DEF WorkerStep, Begin, RunCycle, EndCycle, Quit
<1>10. CASE UNCHANGED vars
  BY <1>10 DEF vars, source, manager, instance, TypeOK
<1>11. QED
  BY <1>1, <1>2, <1>3, <1>4, <1>5, <1>6, <1>7, <1>8, <1>9, <1>10
     DEF Next, ReloadStep, StopStep

\* Every variable of the manager keeps its type; in particular it never names
\* a worker instance that was not created.
THEOREM ManagerTypeCorrect == Spec => []TypeOK
BY TypeInit, TypeStep, PTL DEF Spec

-----------------------------------------------------------------------------
(***************************************************************************)
(* Every instance is either its configuration's entry in m.workers or      *)
(* cancelled and out of its cycle for good: an entry is replaced only when *)
(* there was none, or when Stop has returned, which cancelled the instance *)
(* first and then found its goroutine not started or gone.                 *)
(***************************************************************************)

EntryInv ==
  \A c \in Config : workers[c] # 0 =>
    /\ workers[c] \in Instance
    /\ workers[c] <= created
    /\ owner[workers[c]] = c

OwnerInv ==
  \A i \in Instance :
    /\ state[i] # "none" => owner[i] \in Config
    /\ i > created => state[i] = "none"

WaitInv == waiting # None => workers[waiting] # 0 /\ cancelled[workers[waiting]]

\* m.mu is held by the one who works on m.workers.
MutexInv ==
  /\ reload = "applying" => mu = "reload"
  /\ main = "draining" => mu = "stop" /\ todo \subseteq Present

ManagerInv == TypeOK /\ EntryInv /\ OwnerInv /\ WaitInv /\ MutexInv /\ NoStrayWorker

LEMMA ManagerInit == ASSUME Init PROVE ManagerInv
BY TypeInit DEF Init, ManagerInv, EntryInv, OwnerInv, WaitInv, MutexInv, NoStrayWorker

\* Steps that only move the manager's own variables.
LEMMA QuietStep ==
  ASSUME ManagerInv, TypeOK', MutexInv', UNCHANGED <<workers, created, instance>>, waiting' \in {waiting, None}
  PROVE  ManagerInv'
BY DEF ManagerInv, EntryInv, OwnerInv, WaitInv, NoStrayWorker, instance

LEMMA StartStep ==
  ASSUME ManagerInv, TypeOK', MutexInv', NEW c \in Config, StartWorker(c),
         workers[c] = 0 \/ (waiting = c /\ WaitReturns(c)),
         waiting' = None
  PROVE  ManagerInv'
<1> DEFINE n == created + 1
<1>1. /\ n \in Instance /\ n > created /\ created' = n /\ created \in Nat
      /\ workers' = [workers EXCEPT ![c] = n]
      /\ owner' = [owner EXCEPT ![n] = c]
      /\ state' = [state EXCEPT ![n] = "spawned"]
      /\ cancelled' = [cancelled EXCEPT ![n] = FALSE]
  BY BoundAssumption DEF StartWorker, ManagerInv, TypeOK, Instance
<1> HIDE DEF n
<1>2. EntryInv'
  <2> SUFFICES ASSUME NEW d \in Config, workers'[d] # 0
               PROVE  workers'[d] \in Instance /\ workers'[d] <= created' /\ owner'[workers'[d]] = d
    BY DEF EntryInv
  <2>1. CASE d = c
    BY <1>1, <2>1 DEF ManagerInv, TypeOK, Instance
  <2>2. CASE d # c
    BY <1>1, <2>2 DEF ManagerInv, EntryInv, TypeOK, Instance
  <2>3. QED
    BY <2>1, <2>2
<1>3. OwnerInv'
  BY <1>1 DEF ManagerInv, OwnerInv, TypeOK, Instance
<1>4. WaitInv'
  BY DEF WaitInv
<1>5. ASSUME NEW i \in Instance, state'[i] \notin {"none", "done"}, workers'[owner'[i]] # i
      PROVE  cancelled'[i] /\ state'[i] # "cycle"
  <2>1. i # n
    BY <1>1, <1>5 DEF ManagerInv, TypeOK
  <2>2. owner'[i] = owner[i] /\ state'[i] = state[i] /\ (cancelled[i] => cancelled'[i])
    BY <1>1, <2>1 DEF ManagerInv, TypeOK
  <2>3. CASE workers[owner[i]] # i
    BY <1>5, <2>2, <2>3 DEF ManagerInv, NoStrayWorker
  <2>4. CASE workers[owner[i]] = i
    <3>1. owner[i] = c
      BY <1>1, <1>5, <2>2, <2>4 DEF ManagerInv, TypeOK, OwnerInv
    <3>2. waiting = c /\ WaitReturns(c)
      BY <2>4, <3>1 DEF Instance
    <3>3. cancelled[i] /\ state[i] \notin Counted
      BY <2>4, <3>1, <3>2, NoneAssumption DEF ManagerInv, WaitInv, WaitReturns
    <3>4. QED
      BY <2>2, <3>3 DEF Counted
  <2>5. QED
    BY <2>3, <2>4
<1>6. QED
  BY <1>2, <1>3, <1>4, <1>5 DEF ManagerInv, NoStrayWorker

LEMMA StopStepInv ==
  ASSUME ManagerInv, TypeOK', MutexInv', NEW c \in Config, workers[c] # 0, StopWorker(c),
         UNCHANGED <<workers, created>>
  PROVE  ManagerInv'
<1>1. /\ waiting' = c /\ UNCHANGED <<owner, state>>
      /\ cancelled' = [cancelled EXCEPT ![workers[c]] = TRUE]
  BY DEF StopWorker
<1>2. workers[c] \in Instance
  BY DEF ManagerInv, EntryInv
<1>3. cancelled'[workers[c]] /\ \A i \in Instance : cancelled[i] => cancelled'[i]
  BY <1>1, <1>2 DEF ManagerInv, TypeOK
<1>4. EntryInv' /\ OwnerInv'
  BY <1>1 DEF ManagerInv, EntryInv, OwnerInv
<1>5. WaitInv'
  BY <1>1, <1>3 DEF WaitInv
<1>6. NoStrayWorker'
  BY <1>1, <1>3 DEF ManagerInv, NoStrayWorker
<1>7. QED
  BY <1>4, <1>5, <1>6 DEF ManagerInv

LEMMA MoveStep ==
  ASSUME ManagerInv, TypeOK', MutexInv', NEW i \in Instance, NEW from, NEW to, Move(i, from, to),
         from # "none", from # "done", to = "cycle" => ~cancelled[i]
  PROVE  ManagerInv'
<1>1. /\ state[i] = from /\ state' = [state EXCEPT ![i] = to]
      /\ UNCHANGED <<workers, created, owner, cancelled, waiting>>
  BY DEF Move, manager
<1>2. EntryInv' /\ WaitInv'
  BY <1>1 DEF ManagerInv, EntryInv, WaitInv
<1>3. OwnerInv'
  BY <1>1 DEF ManagerInv, OwnerInv, TypeOK
<1>4. NoStrayWorker'
  BY <1>1 DEF ManagerInv, NoStrayWorker, TypeOK
<1>5. QED
  BY <1>2, <1>3, <1>4 DEF ManagerInv

LEMMA MutexStep == ASSUME ManagerInv, [Next]_vars PROVE MutexInv'
<1> USE DEF ManagerInv, MutexInv
<1>1. CASE RequestStep
  BY <1>1, RequestFrame DEF manager, Present
<1>2. CASE FetchWorkerConfigs \/ FetchFails \/ ReloadLocks \/ ReloadUnlocks
  BY <1>2 DEF FetchWorkerConfigs, FetchFails, ReloadLocks, ReloadUnlocks, Started, Stopping, Present
<1>3. CASE Shutdown \/ StopLocks \/ StopReturns \/ ProcessExit \/ UNCHANGED vars
  BY <1>3 DEF Shutdown, StopLocks, StopReturns, ProcessExit, vars, manager, Present
<1>4. ASSUME NEW c \in Config,
             ApplyNew(c) \/ ApplySame(c) \/ ApplyChanged(c) \/ ApplyRestarted(c)
               \/ StopRemoved(c) \/ RemoveStopped(c)
      PROVE  MutexInv'
  BY <1>4 DEF ApplyNew, ApplySame, ApplyChanged, ApplyRestarted, StopRemoved, RemoveStopped
<1>5. ASSUME NEW c \in Config, DrainWorker(c) \/ Drained(c) PROVE MutexInv'
  BY <1>5 DEF DrainWorker, Drained, Present
<1>6. ASSUME NEW i \in Instance, WorkerStep(i) PROVE MutexInv'
  BY <1>6 DEF WorkerStep, Begin, RunCycle, EndCycle, Quit, Move, manager, Present
<1>7. QED
  BY <1>1, <1>2, <1>3, <1>4, <1>5, <1>6 DEF Next, ReloadStep, StopStep

LEMMA ManagerStep == ASSUME ManagerInv, [Next]_vars PROVE ManagerInv'
<1>0. TypeOK'
  BY TypeStep DEF ManagerInv
<1>a. MutexInv'
  BY MutexStep
<1>1. ASSUME UNCHANGED <<workers, created, instance>>, waiting' \in {waiting, None} PROVE ManagerInv'
  BY <1>0, <1>a, <1>1, QuietStep
<1>2. CASE RequestStep
  BY <1>1, <1>2, RequestFrame DEF manager
<1>3. CASE FetchWorkerConfigs \/ FetchFails \/ ReloadLocks \/ ReloadUnlocks \/ Shutdown
             \/ StopLocks \/ StopReturns \/ UNCHANGED vars
  BY <1>1, <1>3 DEF FetchWorkerConfigs, FetchFails, ReloadLocks, ReloadUnlocks, Shutdown, StopLocks,
                    StopReturns, vars, manager
<1>4. ASSUME NEW c \in Config, ApplyNew(c) \/ ApplyRestarted(c) PROVE ManagerInv'
  BY <1>0, <1>a, <1>4, StartStep DEF ApplyNew, ApplyRestarted
<1>5. ASSUME NEW c \in Config, ApplySame(c) \/ Drained(c) PROVE ManagerInv'
  BY <1>1, <1>5 DEF ApplySame, Drained
<1>6. ASSUME NEW c \in Config, ApplyChanged(c) \/ StopRemoved(c) \/ DrainWorker(c) PROVE ManagerInv'
  <2>1. workers[c] # 0
    BY <1>6 DEF ApplyChanged, StopRemoved, Removable, Present, DrainWorker, ManagerInv, MutexInv
  <2>2. QED
    BY <1>0, <1>a, <1>6, <2>1, StopStepInv DEF ApplyChanged, StopRemoved, DrainWorker
<1>7. ASSUME NEW c \in Config, RemoveStopped(c) PROVE ManagerInv'
  <2>1. /\ waiting = c /\ waiting' = None /\ WaitReturns(c)
        /\ workers' = [workers EXCEPT ![c] = 0]
        /\ UNCHANGED <<created, owner, state, cancelled>>
    BY <1>7 DEF RemoveStopped, instance
  <2>2. EntryInv' /\ OwnerInv' /\ WaitInv'
    BY <2>1 DEF ManagerInv, EntryInv, OwnerInv, WaitInv, TypeOK
  <2>3. ASSUME NEW i \in Instance, state[i] \notin {"none", "done"}, workers'[owner[i]] # i
        PROVE  cancelled[i] /\ state[i] # "cycle"
    <3>1. CASE workers[owner[i]] # i
      BY <2>3, <3>1 DEF ManagerInv, NoStrayWorker
    <3>2. CASE workers[owner[i]] = i
      <4>1. owner[i] = c
        BY <2>1, <2>3, <3>2 DEF ManagerInv, TypeOK, OwnerInv
      <4>2. QED
        BY <2>1, <3>2, <4>1, NoneAssumption DEF ManagerInv, WaitInv, WaitReturns, Counted
    <3>3. QED
      BY <3>1, <3>2
  <2>4. QED
    BY <1>0, <1>a, <2>1, <2>2, <2>3 DEF ManagerInv, NoStrayWorker
<1>8. CASE ProcessExit
  BY <1>0, <1>a, <1>8 DEF ProcessExit, ManagerInv, EntryInv, OwnerInv, WaitInv, NoStrayWorker
<1>9. ASSUME NEW i \in Instance, WorkerStep(i) PROVE ManagerInv'
  BY <1>0, <1>a, <1>9, MoveStep DEF WorkerStep, Begin, RunCycle, EndCycle, Quit
<1>10. QED
  BY <1>2, <1>3, <1>4, <1>5, <1>6, <1>7, <1>8, <1>9 DEF Next, ReloadStep, StopStep

LEMMA ManagerCorrect == Spec => []ManagerInv
BY ManagerInit, ManagerStep, PTL DEF Spec

\* The manager never loses a worker that could still deliver.
THEOREM NoStrayWorkerHolds == Spec => []NoStrayWorker
<1>1. ManagerInv => NoStrayWorker
  BY DEF ManagerInv
<1>2. QED
  BY <1>1, ManagerCorrect, PTL

\* A configuration never has two workers delivering at the same time: both
\* would be its entry in m.workers.
THEOREM OneCyclePerConfigHolds == Spec => []OneCyclePerConfig
<1>1. ManagerInv => OneCyclePerConfig
  BY DEF ManagerInv, NoStrayWorker, OneCyclePerConfig
<1>2. QED
  BY <1>1, ManagerCorrect, PTL

-----------------------------------------------------------------------------
(***************************************************************************)
(* What Stop waits for.  While it drains, an instance of before is either  *)
(* still on its list or cancelled and out of its cycle.                    *)
(***************************************************************************)

Halted(i) == state[i] \in {"none", "done"} \/ (cancelled[i] /\ state[i] # "cycle")

DrainInv ==
  /\ drained <= created
  /\ main = "draining" => \A i \in Instance : i <= drained => owner[i] \in todo \/ Halted(i)
  /\ main = "stopped" => \A i \in Instance : i <= drained => Halted(i)

\* A halted instance stays halted.
LEMMA HaltedStep ==
  ASSUME ManagerInv, [Next]_vars, NEW i \in Instance, i <= created, Halted(i)
  PROVE  Halted(i)' /\ owner'[i] = owner[i]
<1> USE DEF Halted
<1>1. ASSUME NEW c \in Config, StartWorker(c) PROVE Halted(i)' /\ owner'[i] = owner[i]
  <2>1. created' # i
    BY <1>1 DEF StartWorker, ManagerInv, TypeOK, Instance
  <2>2. QED
    BY <1>1, <2>1 DEF StartWorker, ManagerInv, TypeOK
<1>2. ASSUME NEW c \in Config, StopWorker(c) PROVE Halted(i)' /\ owner'[i] = owner[i]
  BY <1>2 DEF StopWorker, ManagerInv, TypeOK
<1>3. ASSUME UNCHANGED instance PROVE Halted(i)' /\ owner'[i] = owner[i]
  BY <1>3 DEF instance
<1>4. ASSUME NEW j \in Instance, WorkerStep(j) PROVE Halted(i)' /\ owner'[i] = owner[i]
  BY <1>4 DEF WorkerStep, Begin, RunCycle, EndCycle, Quit, Move, ManagerInv, TypeOK
<1>5. CASE ProcessExit
  BY <1>5 DEF ProcessExit
<1>6. ASSUME NEW c \in Config, ApplyNew(c) \/ ApplyRestarted(c) PROVE StartWorker(c)
  BY <1>6 DEF ApplyNew, ApplyRestarted
<1>7. ASSUME NEW c \in Config, ApplyChanged(c) \/ StopRemoved(c) \/ DrainWorker(c) PROVE StopWorker(c)
  BY <1>7 DEF ApplyChanged, StopRemoved, DrainWorker
<1>8. ASSUME NEW c \in Config, ApplySame(c) \/ RemoveStopped(c) \/ Drained(c) PROVE UNCHANGED instance
  BY <1>8 DEF ApplySame, RemoveStopped, Drained
<1>9. RequestStep => UNCHANGED instance
  BY RequestFrame
<1>10. FetchWorkerConfigs \/ FetchFails \/ ReloadLocks \/ ReloadUnlocks \/ Shutdown \/ StopLocks
         \/ StopReturns \/ UNCHANGED vars => UNCHANGED instance
  BY DEF FetchWorkerConfigs, FetchFails, ReloadLocks, ReloadUnlocks, Shutdown, StopLocks, StopReturns, vars
<1>11. QED
  BY <1>1, <1>2, <1>3, <1>4, <1>5, <1>6, <1>7, <1>8, <1>9, <1>10 DEF Next, ReloadStep, StopStep

\* The configuration of an instance never changes.
LEMMA OwnerKept ==
  ASSUME ManagerInv, [Next]_vars, NEW i \in Instance, i <= created PROVE owner'[i] = owner[i]
<1>1. ASSUME NEW c \in Config, StartWorker(c) PROVE owner'[i] = owner[i]
  BY <1>1 DEF StartWorker, ManagerInv, TypeOK, Instance
<1>2. ASSUME NEW c \in Config, ApplyNew(c) \/ ApplyRestarted(c) PROVE StartWorker(c)
  BY <1>2 DEF ApplyNew, ApplyRestarted
<1>3. QED
  BY <1>1, <1>2, RequestFrame
     DEF Next, ReloadStep, StopStep, FetchWorkerConfigs, FetchFails, ReloadLocks, ReloadUnlocks,
         ApplySame, ApplyChanged, StopRemoved, RemoveStopped, StopWorker, Shutdown, StopLocks,
         DrainWorker, Drained, StopReturns, ProcessExit, WorkerStep, Begin, RunCycle, EndCycle, Quit,
         Move, vars, instance

\* An instance that a configuration's entry no longer keeps going is halted.
LEMMA EntryOrHalted ==
  ASSUME ManagerInv, NEW i \in Instance, workers[owner[i]] # i PROVE Halted(i)
BY DEF ManagerInv, NoStrayWorker, Halted

LEMMA WaitedHalted ==
  ASSUME ManagerInv, waiting # None, WaitReturns(waiting), NEW i \in Instance, owner[i] = waiting
  PROVE  Halted(i)
<1>1. CASE workers[waiting] = i
  BY <1>1 DEF ManagerInv, WaitInv, WaitReturns, Counted, Halted
<1>2. CASE workers[waiting] # i
  BY <1>2, EntryOrHalted
<1>3. QED
  BY <1>1, <1>2

LEMMA DrainLocks == ASSUME ManagerInv, StopLocks PROVE DrainInv'
<1>1. /\ drained' = created /\ created' = created /\ todo' = Present
      /\ main' = "draining" /\ UNCHANGED <<owner, state, cancelled>>
  BY DEF StopLocks, instance
<1>2. ASSUME NEW i \in Instance, i <= created, ~Halted(i) PROVE owner[i] \in Present
  <2>1. workers[owner[i]] = i
    BY <1>2, EntryOrHalted
  <2>2. owner[i] \in Config
    BY <1>2 DEF Halted, ManagerInv, OwnerInv
  <2>3. QED
    BY <2>1, <2>2 DEF Present, Instance
<1>3. QED
  BY <1>1, <1>2 DEF DrainInv, Halted, ManagerInv, TypeOK

LEMMA DrainStep == ASSUME ManagerInv, DrainInv, [Next]_vars PROVE DrainInv'
<1>1. CASE StopLocks
  BY <1>1, DrainLocks
<1>2. ASSUME NEW c \in Config, Drained(c) PROVE DrainInv'
  <2>1. /\ main = "draining" /\ main' = main /\ waiting = c /\ WaitReturns(c) /\ todo' = todo \ {c}
        /\ UNCHANGED <<drained, created, owner, state, cancelled>>
    BY <1>2 DEF Drained, instance
  <2>2. \A i \in Instance : owner[i] = c => Halted(i)
    BY <2>1, WaitedHalted, NoneAssumption
  <2>3. QED
    BY <2>1, <2>2 DEF DrainInv, Halted
<1>3. CASE StopReturns
  BY <1>3 DEF StopReturns, DrainInv, Halted, instance
<1>4. ASSUME drained' = drained, created' >= created,
             main' = main \/ main' \notin {"draining", "stopped"},
             main' = "draining" => todo' = todo
      PROVE  DrainInv'
  <2>1. drained \in Nat /\ created \in Nat /\ created' \in Nat /\ drained <= created
    BY <1>4, TypeStep, BoundAssumption DEF ManagerInv, TypeOK, DrainInv
  <2>2. ASSUME NEW i \in Instance, i <= drained, Halted(i) PROVE Halted(i)'
    BY <2>1, <2>2, HaltedStep DEF Instance
  <2>3. ASSUME NEW i \in Instance, main' = "draining", i <= drained PROVE owner'[i] \in todo' \/ Halted(i)'
    <3>1. CASE Halted(i)
      BY <2>2, <2>3, <3>1
    <3>2. CASE ~Halted(i)
      BY <1>4, <2>1, <2>3, <3>2, OwnerKept DEF DrainInv, Instance
    <3>3. QED
      BY <3>1, <3>2
  <2>4. ASSUME NEW i \in Instance, main' = "stopped", i <= drained PROVE Halted(i)'
    BY <1>4, <2>2, <2>4 DEF DrainInv
  <2>5. QED
    BY <1>4, <2>1, <2>3, <2>4 DEF DrainInv
<1>5. ASSUME NEW c \in Config, ApplyNew(c) \/ ApplyRestarted(c) PROVE DrainInv'
  BY <1>4, <1>5, BoundAssumption
     DEF ApplyNew, ApplyRestarted, StartWorker, ManagerInv, MutexInv, TypeOK
<1>6. ASSUME NEW c \in Config,
             ApplySame(c) \/ ApplyChanged(c) \/ StopRemoved(c) \/ RemoveStopped(c) \/ DrainWorker(c)
      PROVE  DrainInv'
  BY <1>4, <1>6, BoundAssumption
     DEF ApplySame, ApplyChanged, StopRemoved, RemoveStopped, DrainWorker, ManagerInv, MutexInv, TypeOK
<1>7. CASE RequestStep
  BY <1>4, <1>7, RequestFrame, BoundAssumption DEF manager, ManagerInv, TypeOK
<1>8. CASE FetchWorkerConfigs \/ FetchFails \/ ReloadLocks \/ ReloadUnlocks \/ Shutdown
             \/ ProcessExit \/ UNCHANGED vars
  BY <1>4, <1>8, BoundAssumption
     DEF FetchWorkerConfigs, FetchFails, ReloadLocks, ReloadUnlocks, Started, Shutdown, ProcessExit,
         vars, manager, ManagerInv, MutexInv, TypeOK
<1>9. ASSUME NEW i \in Instance, WorkerStep(i) PROVE DrainInv'
  BY <1>4, <1>9, BoundAssumption
     DEF WorkerStep, Begin, RunCycle, EndCycle, Quit, Move, manager, ManagerInv, TypeOK
<1>10. QED
  BY <1>1, <1>2, <1>3, <1>5, <1>6, <1>7, <1>8, <1>9 DEF Next, ReloadStep, StopStep

\* When Stop returns, the end of the process cuts no delivery short that one of
\* the workers there were when it took m.mu had begun.
THEOREM StopDrainsHolds == Spec => []StopDrains
<1>1. Init => DrainInv
  BY DEF Init, DrainInv
<1>2. ManagerInv /\ DrainInv /\ [Next]_vars => DrainInv'
  BY DrainStep
<1>3. DrainInv => StopDrains
  BY DEF DrainInv, StopDrains, Halted
<1>4. QED
  BY <1>1, <1>2, <1>3, ManagerCorrect, PTL DEF Spec

-----------------------------------------------------------------------------
(***************************************************************************)
(* What the process runs between two reloads.  Until Stop takes m.mu, a    *)
(* worker that m.workers names is cancelled only while it is waited for;   *)
(* while a reload applies its snapshot, the configurations it has looked   *)
(* at are as the snapshot says, and when it is done all of them are.       *)
(***************************************************************************)

BeforeDrain == main \in {"starting", "running", "stopping"}

\* The worker of c, or that it has none, is what the last read says.
AsRead(c) ==
  IF snapshot[c] = None
  THEN workers[c] = 0
  ELSE /\ workers[c] # 0
       /\ ~cancelled[workers[c]]
       /\ setting[workers[c]].routing = snapshot[c].routing

AllGoing == \A c \in Config : workers[c] # 0 /\ waiting # c => ~cancelled[workers[c]]

ReloadInv ==
  BeforeDrain =>
    /\ AllGoing
    /\ reload # "applying" => waiting = None
    /\ reload = "idle" => \A c \in Config : AsRead(c)
    /\ reload = "applying" =>
         /\ todo \subseteq Enabled(snapshot)
         /\ \A c \in Enabled(snapshot) \ todo : AsRead(c)

\* Two configurations never share a worker.
LEMMA EntriesDiffer ==
  ASSUME ManagerInv, NEW c \in Config, NEW d \in Config, c # d, workers[c] # 0
  PROVE  workers[d] # workers[c]
BY DEF ManagerInv, EntryInv

\* A started worker is as read, and the others stay as they were.
LEMMA StartAsRead ==
  ASSUME ManagerInv, NEW c \in Config, StartWorker(c), snapshot' = snapshot, snapshot[c] # None
  PROVE  /\ AsRead(c)'
         /\ workers'[c] # 0 /\ ~cancelled'[workers'[c]]
         /\ \A d \in Config \ {c} :
              /\ workers'[d] = workers[d]
              /\ workers[d] # 0 => cancelled'[workers[d]] = cancelled[workers[d]]
              /\ AsRead(d) => AsRead(d)'
<1> DEFINE n == created + 1
<1>1. /\ n \in Instance /\ created' = n /\ n # 0
      /\ workers' = [workers EXCEPT ![c] = n]
      /\ setting' = [setting EXCEPT ![n] = snapshot[c]]
      /\ cancelled' = [cancelled EXCEPT ![n] = FALSE]
  BY BoundAssumption DEF StartWorker, ManagerInv, TypeOK, Instance
<1>2. \A d \in Config : workers[d] # n
  BY BoundAssumption DEF ManagerInv, TypeOK, EntryInv, Instance
<1> HIDE DEF n
<1>3. workers'[c] = n /\ \A d \in Config \ {c} : workers'[d] = workers[d]
  BY <1>1 DEF ManagerInv, TypeOK
<1>4. setting'[n] = snapshot[c] /\ cancelled'[n] = FALSE
  BY <1>1 DEF ManagerInv, TypeOK
<1>5. \A i \in Instance \ {n} : setting'[i] = setting[i] /\ cancelled'[i] = cancelled[i]
  BY <1>1 DEF ManagerInv, TypeOK
<1>6. \A d \in Config : workers[d] # 0 => workers[d] \in Instance \ {n}
  BY <1>2 DEF ManagerInv, EntryInv
<1>7. AsRead(c)'
  BY <1>1, <1>3, <1>4 DEF AsRead
<1>8. ASSUME NEW d \in Config \ {c}
      PROVE  /\ workers'[d] = workers[d]
             /\ workers[d] # 0 => cancelled'[workers[d]] = cancelled[workers[d]]
             /\ AsRead(d) => AsRead(d)'
  BY <1>3, <1>5, <1>6 DEF AsRead
<1> QED
  BY <1>1, <1>3, <1>4, <1>7, <1>8

\* Stopping a worker leaves the others as they were.
LEMMA StopAsRead ==
  ASSUME ManagerInv, NEW c \in Config, StopWorker(c), workers[c] # 0,
         UNCHANGED <<workers, snapshot>>
  PROVE  \A d \in Config \ {c} :
           /\ workers[d] # 0 => cancelled'[workers[d]] = cancelled[workers[d]]
           /\ AsRead(d) => AsRead(d)'
<1>1. /\ cancelled' = [cancelled EXCEPT ![workers[c]] = TRUE]
      /\ setting' = setting
  BY DEF StopWorker
<1>2. \A d \in Config \ {c} : workers[d] # 0 => workers[d] \in Instance /\ workers[d] # workers[c]
  BY EntriesDiffer DEF ManagerInv, EntryInv
<1> QED
  BY <1>1, <1>2 DEF AsRead, ManagerInv, TypeOK

\* Steps that leave what the invariant speaks of.
LEMMA ReloadQuiet ==
  ASSUME ReloadInv, BeforeDrain' => BeforeDrain,
         UNCHANGED <<reload, snapshot, todo, waiting, workers, setting, cancelled>>
  PROVE  ReloadInv'
BY DEF ReloadInv, AllGoing, AsRead, Enabled

LEMMA ReloadInvStep == ASSUME ManagerInv, ReloadInv, [Next]_vars PROVE ReloadInv'
<1>1. CASE RequestStep \/ FetchFails \/ Shutdown \/ StopReturns \/ ProcessExit \/ UNCHANGED vars
  <2>1. CASE RequestStep \/ FetchFails \/ Shutdown \/ UNCHANGED vars
    BY <2>1, RequestFrame, ReloadQuiet
       DEF FetchFails, Started, Shutdown, vars, manager, instance, BeforeDrain
  <2>2. CASE StopReturns \/ ProcessExit
    BY <2>2 DEF StopReturns, ProcessExit, ReloadInv, BeforeDrain
  <2> QED BY <1>1, <2>1, <2>2
<1>2. CASE FetchWorkerConfigs
  BY <1>2 DEF FetchWorkerConfigs, ReloadInv, BeforeDrain, AllGoing, instance
<1>3. CASE ReloadLocks
  BY <1>3 DEF ReloadLocks, ReloadInv, BeforeDrain, AllGoing, Enabled, instance
<1>4. CASE ReloadUnlocks
  <2>1. ASSUME BeforeDrain' PROVE BeforeDrain
    BY <1>4, <2>1 DEF ReloadUnlocks, Started, BeforeDrain
  <2>2. ASSUME BeforeDrain, NEW c \in Config PROVE AsRead(c)
    BY <1>4, <2>2 DEF ReloadUnlocks, ReloadInv, Enabled, Removable, Present, AsRead
  <2> QED
    BY <1>4, <2>1, <2>2 DEF ReloadUnlocks, ReloadInv, AllGoing, AsRead, instance
<1>5. ASSUME NEW c \in Config, ApplyNew(c) \/ ApplyRestarted(c) PROVE ReloadInv'
  <2>1. /\ StartWorker(c) /\ reload = "applying" /\ c \in todo /\ todo' = todo \ {c} /\ waiting' = None
        /\ waiting \in {None, c} /\ UNCHANGED <<main, reload, snapshot>>
    BY <1>5 DEF ApplyNew, ApplyRestarted
  <2>2. CASE BeforeDrain
    <3>1. snapshot[c] # None /\ todo \subseteq Enabled(snapshot)
      BY <2>1, <2>2 DEF ReloadInv, Enabled
    <3>2. /\ AsRead(c)' /\ workers'[c] # 0 /\ ~cancelled'[workers'[c]]
          /\ \A d \in Config \ {c} :
               /\ workers'[d] = workers[d]
               /\ workers[d] # 0 => cancelled'[workers[d]] = cancelled[workers[d]]
               /\ AsRead(d) => AsRead(d)'
      BY <2>1, <3>1, StartAsRead
    <3>3. AllGoing'
      BY <2>1, <2>2, <3>2, NoneAssumption DEF ReloadInv, AllGoing
    <3>4. \A d \in Enabled(snapshot) \ todo : d # c /\ AsRead(d)
      BY <2>1, <2>2 DEF ReloadInv
    <3> QED
      BY <2>1, <3>1, <3>2, <3>3, <3>4 DEF ReloadInv, Enabled
  <2>3. CASE ~BeforeDrain
    BY <2>1, <2>3 DEF ReloadInv, BeforeDrain
  <2> QED BY <2>2, <2>3
<1>6. ASSUME NEW c \in Config, ApplySame(c) PROVE ReloadInv'
  <2>1. /\ reload = "applying" /\ c \in todo /\ workers[c] # 0 /\ waiting = None /\ todo' = todo \ {c}
        /\ setting[workers[c]].routing = snapshot[c].routing
        /\ UNCHANGED <<main, reload, snapshot, waiting, workers, setting, cancelled>>
    BY <1>6 DEF ApplySame, needsRestart, instance
  <2>2. BeforeDrain => AsRead(c)
    BY <2>1, NoneAssumption DEF ReloadInv, AllGoing, AsRead, Enabled
  <2> QED
    BY <2>1, <2>2 DEF ReloadInv, BeforeDrain, AllGoing, AsRead, Enabled
<1>7. ASSUME NEW c \in Config, ApplyChanged(c) \/ StopRemoved(c) PROVE ReloadInv'
  <2>1. /\ StopWorker(c) /\ workers[c] # 0 /\ c \notin Enabled(snapshot) \ todo /\ reload = "applying"
        /\ UNCHANGED <<main, reload, snapshot, todo, workers>>
    BY <1>7 DEF ApplyChanged, StopRemoved, Removable, Present
  <2>2. \A d \in Config \ {c} :
           /\ workers[d] # 0 => cancelled'[workers[d]] = cancelled[workers[d]]
           /\ AsRead(d) => AsRead(d)'
    BY <2>1, StopAsRead
  <2>3. waiting = None /\ waiting' = c
    BY <2>1 DEF StopWorker
  <2> QED
    BY <2>1, <2>2, <2>3, NoneAssumption DEF ReloadInv, BeforeDrain, AllGoing, Enabled
<1>8. ASSUME NEW c \in Config, RemoveStopped(c) PROVE ReloadInv'
  <2>1. /\ workers' = [workers EXCEPT ![c] = 0] /\ waiting = c /\ waiting' = None /\ c \notin Enabled(snapshot)
        /\ reload = "applying" /\ UNCHANGED <<main, reload, snapshot, todo, setting, cancelled>>
    BY <1>8 DEF RemoveStopped, Removable, instance
  <2>2. workers'[c] = 0 /\ \A d \in Config \ {c} : workers'[d] = workers[d]
    BY <2>1 DEF ManagerInv, TypeOK
  <2>3. \A d \in Enabled(snapshot) : AsRead(d) => AsRead(d)'
    BY <2>1, <2>2 DEF AsRead, Enabled
  <2> QED
    BY <2>1, <2>2, <2>3 DEF ReloadInv, BeforeDrain, AllGoing, Enabled
<1>9. CASE StopLocks
  BY <1>9 DEF StopLocks, ReloadInv, BeforeDrain
<1>10. ASSUME NEW c \in Config, DrainWorker(c) \/ Drained(c) PROVE ReloadInv'
  BY <1>10 DEF DrainWorker, Drained, ReloadInv, BeforeDrain
<1>11. ASSUME NEW i \in Instance, WorkerStep(i) PROVE ReloadInv'
  BY <1>11, ReloadQuiet DEF WorkerStep, Begin, RunCycle, EndCycle, Quit, Move, manager, BeforeDrain
<1>12. QED
  BY <1>1, <1>2, <1>3, <1>4, <1>5, <1>6, <1>7, <1>8, <1>9, <1>10, <1>11 DEF Next, ReloadStep, StopStep

\* Between two reloads the process runs what the last one read, with the routing
\* it read, and a worker it has no row for starts no cycle (reloadConfigs).
THEOREM MatchesLastReloadHolds == Spec => []MatchesLastReload
<1>1. Init => ReloadInv
  BY NoneAssumption DEF Init, ReloadInv, AllGoing, AsRead
<1>2. ManagerInv /\ ReloadInv /\ [Next]_vars => ReloadInv'
  BY ReloadInvStep
<1>3. ManagerInv /\ ReloadInv => MatchesLastReload
  <2> SUFFICES ASSUME ManagerInv, ReloadInv, main = "running", reload = "idle", NEW c \in Config
               PROVE  IF snapshot[c] = None
                      THEN \A i \in Instance : owner[i] = c => state[i] # "cycle"
                      ELSE /\ workers[c] # 0
                           /\ ~cancelled[workers[c]]
                           /\ setting[workers[c]].routing = snapshot[c].routing
    BY DEF MatchesLastReload
  <2>1. AsRead(c)
    BY DEF ReloadInv, BeforeDrain
  <2>2. ASSUME workers[c] = 0, NEW i \in Instance, owner[i] = c PROVE state[i] # "cycle"
    BY <2>2 DEF ManagerInv, NoStrayWorker, Instance
  <2> QED BY <2>1, <2>2 DEF AsRead
<1>4. QED
  BY <1>1, <1>2, <1>3, ManagerCorrect, PTL DEF Spec

=============================================================================
