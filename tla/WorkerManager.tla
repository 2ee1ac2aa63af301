--------------------------- MODULE WorkerManager ---------------------------
(***************************************************************************)
(* The manager of a worker process (cmd/worker/manager.go) and the life of *)
(* the worker goroutines it starts.                                        *)
(*                                                                         *)
(* A reload reads the enabled configurations, then takes m.mu and makes    *)
(* m.workers match them: it starts, restarts and stops workers, waiting    *)
(* for each one it stops.  A shutdown cancels the manager's context, takes *)
(* m.mu too and waits for every worker.  Between the read and the lock     *)
(* anything may happen, and a goroutine that was started with `go` may not *)
(* yet have run when it is stopped: it has not yet called wg.Add.          *)
(*                                                                         *)
(* The rows are written by the requests of the API server's users          *)
(* (internal/handler/worker_config.go), each of them a statement, but for  *)
(* an update, which writes back what it read of the row and was not asked  *)
(* to change.                                                              *)
(***************************************************************************)
EXTENDS Naturals

CONSTANTS
  Config,     \* ids of the rows of outbox_worker_config
  None,       \* no setting, no configuration
  Routing,    \* values of the settings needsRestart compares
  Extra,      \* values of those it does not (media, webhook, owner, name)
  OldTable,   \* what the table may hold when the process starts
  Caller,     \* updates of a row in progress
  MaxWorkers, \* bound: worker instances created
  MaxEdits    \* bound: changes of the configuration table

Setting == [routing : Routing, extra : Extra]

\* A row of outbox_worker_config; ids are never given twice.
Row == [is : {"absent", "enabled", "disabled", "deleted"}, setting : Setting \union {None}]

\* An update that has read the row of config, and whether it asks for enabled.
Update == [config : Config, read : {"enabled", "disabled"},
           asks : {"enabled", "disabled", None}]

\* Worker instances, numbered in the order the manager creates them.
Instance == 1..MaxWorkers

ASSUME NoneAssumption  == None \notin Config \union Setting \union Update \union {"enabled", "disabled"}
ASSUME TableAssumption == OldTable \subseteq [Config -> Row]
ASSUME BoundAssumption == MaxWorkers \in Nat /\ MaxEdits \in Nat

VARIABLES
  table,      \* outbox_worker_config
  update,     \* the updates in progress
  edits,
  main,       \* what the process's main goroutine is doing
  reload,     \* what the goroutine that reloads is doing
  snapshot,   \* the rows the last successful read returned
  mu,         \* who holds m.mu
  todo,       \* configurations the holder of m.mu has yet to look at
  waiting,    \* the configuration whose worker the holder of m.mu waits for
  workers,    \* m.workers, 0 where it has no entry
  created,    \* worker instances created so far
  drained,    \* those created before Stop took m.mu (an observation)
  owner,      \* the configuration each instance was created for
  setting,    \* its config
  state,      \* where its goroutine is
  cancelled   \* its context is cancelled

source   == <<table, update, edits>>
manager  == <<main, reload, snapshot, mu, todo, waiting, drained>>
instance == <<owner, setting, state, cancelled>>
vars     == <<source, manager, workers, created, instance>>

\* wg.Add has run and wg.Done has not.
Counted == {"idle", "cycle"}

WaitReturns(c) == state[workers[c]] \notin Counted

\* The process is being shut down: m.cancel() has been called.
Stopping == main \notin {"starting", "running"}

\* Deviation: a changed configuration is taken for the same.
neverRestart(running, latest) == FALSE

needsRestart(running, latest) == running.routing # latest.routing

\* What FetchWorkerConfigs reads.
wanted == [c \in Config |-> IF table[c].is = "enabled" THEN table[c].setting ELSE None]

Enabled(rows) == {c \in Config : rows[c] # None}

Present == {c \in Config : workers[c] # 0}

-----------------------------------------------------------------------------

Init ==
  /\ table \in OldTable
  /\ update = [p \in Caller |-> None]
  /\ edits = 0
  /\ main = "starting"
  /\ reload = "idle"
  /\ snapshot = [c \in Config |-> None]
  /\ mu = "free"
  /\ todo = {}
  /\ waiting = None
  /\ workers = [c \in Config |-> 0]
  /\ created = 0
  /\ drained = 0
  /\ owner = [i \in Instance |-> None]
  /\ setting = [i \in Instance |-> None]
  /\ state = [i \in Instance |-> "none"]
  /\ cancelled = [i \in Instance |-> FALSE]

-----------------------------------------------------------------------------
(* The requests that write the table.                                      *)

\* loadOwnedWorkerConfig finds the row; that its caller may act on it is left
\* out, and so are the requests that are refused: they change nothing.
Exists(c) == table[c].is \in {"enabled", "disabled"}

Write(c, is, v) ==
  /\ edits < MaxEdits
  /\ edits' = edits + 1
  /\ table' = [table EXCEPT ![c] = [is |-> is, setting |-> v]]
  /\ UNCHANGED <<manager, workers, created, instance>>

CreateWorkerConfig(c, is, v) ==
  /\ table[c].is = "absent"
  /\ Write(c, is, v)
  /\ UNCHANGED update

DeleteWorkerConfig(c) ==
  /\ Exists(c)
  /\ Write(c, "deleted", None)
  /\ UNCHANGED update

\* NOT enabled, in the statement itself.
ToggleWorkerConfig(c) ==
  /\ Exists(c)
  /\ Write(c, IF table[c].is = "enabled" THEN "disabled" ELSE "enabled", table[c].setting)
  /\ UNCHANGED update

\* UpdateWorkerConfig reads the row, ...
LoadWorkerConfig(p, c, asks) ==
  /\ Exists(c)
  /\ update[p] = None
  /\ update' = [update EXCEPT ![p] = [config |-> c, read |-> table[c].is, asks |-> asks]]
  /\ UNCHANGED <<table, edits, manager, workers, created, instance>>

\* Whatever the request does not name keeps the value that was read.
applyWorkerConfigRequest(u) == IF u.asks = None THEN u.read ELSE u.asks

\* ... and writes it, with the settings of the request: the statement finds no
\* row if it was deleted in between.
UpdateWorkerConfig(p, v) ==
  /\ update[p] # None
  /\ update' = [update EXCEPT ![p] = None]
  /\ IF Exists(update[p].config)
     THEN Write(update[p].config, applyWorkerConfigRequest(update[p]), v)
     ELSE UNCHANGED <<table, edits, manager, workers, created, instance>>

-----------------------------------------------------------------------------
(* reloadConfigs and applyConfig.                                          *)

\* The first reload runs in Start, before the process listens for signals.
Started == main' = IF main = "starting" THEN "running" ELSE main

FetchWorkerConfigs ==
  /\ reload = "idle"
  /\ ~Stopping
  /\ reload' = "fetched"
  /\ snapshot' = wanted
  /\ UNCHANGED <<source, main, mu, todo, waiting, drained, workers, created, instance>>

\* The worker goes on with what it has.
FetchFails ==
  /\ reload = "idle"
  /\ ~Stopping
  /\ Started
  /\ UNCHANGED <<source, reload, snapshot, mu, todo, waiting, drained, workers, created, instance>>

ReloadLocks ==
  /\ reload = "fetched"
  /\ mu = "free"
  /\ reload' = "applying"
  /\ mu' = "reload"
  /\ todo' = Enabled(snapshot)
  /\ UNCHANGED <<source, main, snapshot, waiting, drained, workers, created, instance>>

\* NewWorkerInstance and `go newWorker.Start()`.
StartWorker(c) ==
  /\ created < MaxWorkers
  /\ created' = created + 1
  /\ workers' = [workers EXCEPT ![c] = created']
  /\ owner' = [owner EXCEPT ![created'] = c]
  /\ setting' = [setting EXCEPT ![created'] = snapshot[c]]
  /\ state' = [state EXCEPT ![created'] = "spawned"]
  /\ cancelled' = [cancelled EXCEPT ![created'] = FALSE]

\* Deviation: Stop cancels only after the wait.
StopWithoutCancel(c) ==
  /\ waiting = None
  /\ waiting' = c
  /\ UNCHANGED instance

\* The holder of m.mu calls Stop on the worker of c: it cancels it and waits.
StopWorker(c) ==
  /\ waiting = None
  /\ waiting' = c
  /\ cancelled' = [cancelled EXCEPT ![workers[c]] = TRUE]
  /\ UNCHANGED <<owner, setting, state>>

ApplyNew(c) ==
  /\ reload = "applying" /\ waiting = None
  /\ c \in todo
  /\ workers[c] = 0
  /\ StartWorker(c)
  /\ todo' = todo \ {c}
  /\ UNCHANGED <<source, main, reload, snapshot, mu, waiting, drained>>

ApplySame(c) ==
  /\ reload = "applying" /\ waiting = None
  /\ c \in todo
  /\ workers[c] # 0
  /\ ~needsRestart(setting[workers[c]], snapshot[c])
  /\ todo' = todo \ {c}
  /\ UNCHANGED <<source, main, reload, snapshot, mu, waiting, drained, workers, created, instance>>

\* Deviation: a changed worker is replaced without stopping it.
ReplaceChanged(c) ==
  /\ reload = "applying" /\ waiting = None
  /\ c \in todo
  /\ workers[c] # 0
  /\ needsRestart(setting[workers[c]], snapshot[c])
  /\ StartWorker(c)
  /\ todo' = todo \ {c}
  /\ UNCHANGED <<source, main, reload, snapshot, mu, waiting, drained>>

ApplyChanged(c) ==
  /\ reload = "applying"
  /\ c \in todo
  /\ workers[c] # 0
  /\ needsRestart(setting[workers[c]], snapshot[c])
  /\ StopWorker(c)
  /\ UNCHANGED <<source, main, reload, snapshot, mu, todo, drained, workers, created>>

ApplyRestarted(c) ==
  /\ reload = "applying"
  /\ waiting = c
  /\ c \in todo
  /\ WaitReturns(c)
  /\ StartWorker(c)
  /\ todo' = todo \ {c}
  /\ waiting' = None
  /\ UNCHANGED <<source, main, reload, snapshot, mu, drained>>

\* Workers whose row is gone or disabled, looked at after all the others.
Removable == Present \ Enabled(snapshot)

StopRemoved(c) ==
  /\ reload = "applying"
  /\ todo = {}
  /\ c \in Removable
  /\ StopWorker(c)
  /\ UNCHANGED <<source, main, reload, snapshot, mu, todo, drained, workers, created>>

RemoveStopped(c) ==
  /\ reload = "applying"
  /\ waiting = c
  /\ c \in Removable
  /\ WaitReturns(c)
  /\ workers' = [workers EXCEPT ![c] = 0]
  /\ waiting' = None
  /\ UNCHANGED <<source, main, reload, snapshot, mu, todo, drained, created, instance>>

\* Deviation: the reload returns with m.mu still locked.
ReloadKeepsLock ==
  /\ reload = "applying"
  /\ todo = {} /\ waiting = None /\ Removable = {}
  /\ reload' = "idle"
  /\ Started
  /\ UNCHANGED <<source, snapshot, mu, todo, waiting, drained, workers, created, instance>>

ReloadUnlocks ==
  /\ reload = "applying"
  /\ todo = {} /\ waiting = None /\ Removable = {}
  /\ reload' = "idle"
  /\ mu' = "free"
  /\ Started
  /\ UNCHANGED <<source, snapshot, todo, waiting, drained, workers, created, instance>>

-----------------------------------------------------------------------------
(* Stop, and the end of the process.                                       *)

\* SIGTERM or SIGINT arrives; Stop cancels the manager's context.
Shutdown ==
  /\ main = "running"
  /\ main' = "stopping"
  /\ UNCHANGED <<source, reload, snapshot, mu, todo, waiting, drained, workers, created, instance>>

StopLocks ==
  /\ main = "stopping"
  /\ mu = "free"
  /\ main' = "draining"
  /\ mu' = "stop"
  /\ todo' = Present
  /\ drained' = created
  /\ UNCHANGED <<source, reload, snapshot, waiting, workers, created, instance>>

DrainWorker(c) ==
  /\ main = "draining"
  /\ c \in todo
  /\ StopWorker(c)
  /\ UNCHANGED <<source, main, reload, snapshot, mu, todo, drained, workers, created>>

Drained(c) ==
  /\ main = "draining"
  /\ waiting = c
  /\ WaitReturns(c)
  /\ todo' = todo \ {c}
  /\ waiting' = None
  /\ UNCHANGED <<source, main, reload, snapshot, mu, drained, workers, created, instance>>

StopReturns ==
  /\ main = "draining"
  /\ todo = {} /\ waiting = None
  /\ main' = "stopped"
  /\ mu' = "free"
  /\ UNCHANGED <<source, reload, snapshot, todo, waiting, drained, workers, created, instance>>

\* main returns, which ends every goroutine.
ProcessExit ==
  /\ main = "stopped"
  /\ main' = "exited"
  /\ state' = [i \in Instance |-> "none"]
  /\ reload' = "ended"
  /\ UNCHANGED <<source, snapshot, mu, todo, waiting, drained, workers, created, owner, setting, cancelled>>

-----------------------------------------------------------------------------
(* WorkerInstance.Start: the goroutine of one worker.                      *)

Move(i, from, to) ==
  /\ state[i] = from
  /\ state' = [state EXCEPT ![i] = to]
  /\ UNCHANGED <<source, manager, workers, created, owner, setting, cancelled>>

Begin(i)    == Move(i, "spawned", "idle")
RunCycle(i) == ~cancelled[i] /\ Move(i, "idle", "cycle")
EndCycle(i) == Move(i, "cycle", "idle")
Quit(i)     == cancelled[i] /\ Move(i, "idle", "done")

-----------------------------------------------------------------------------

ReloadStep ==
  \/ FetchWorkerConfigs \/ ReloadLocks \/ ReloadUnlocks
  \/ \E c \in Config :
       \/ ApplyNew(c) \/ ApplySame(c) \/ ApplyChanged(c) \/ ApplyRestarted(c)
       \/ StopRemoved(c) \/ RemoveStopped(c)

StopStep ==
  \/ StopLocks \/ StopReturns \/ ProcessExit
  \/ \E c \in Config : DrainWorker(c) \/ Drained(c)

WorkerStep(i) == Begin(i) \/ RunCycle(i) \/ EndCycle(i) \/ Quit(i)

RequestStep ==
  \/ \E c \in Config :
       \/ \E is \in {"enabled", "disabled"}, v \in Setting : CreateWorkerConfig(c, is, v)
       \/ DeleteWorkerConfig(c) \/ ToggleWorkerConfig(c)
       \/ \E p \in Caller, asks \in {"enabled", "disabled", None} : LoadWorkerConfig(p, c, asks)
  \/ \E p \in Caller, v \in Setting : UpdateWorkerConfig(p, v)

Next ==
  \/ RequestStep
  \/ ReloadStep \/ FetchFails
  \/ Shutdown \/ StopStep
  \/ \E i \in Instance : WorkerStep(i)

Spec == Init /\ [][Next]_vars

\* The reload ticker fires and does not find the database down for ever, Stop runs to its end once called, and a worker's
\* cycle ends: its calls have timeouts and the database answers.
Fairness ==
  /\ WF_vars(ReloadStep)
  /\ WF_vars(StopStep)
  /\ \A i \in Instance : WF_vars(WorkerStep(i))

FairSpec == Spec /\ Fairness

-----------------------------------------------------------------------------
(* Properties.                                                             *)

TypeOK ==
  /\ table \in [Config -> Row]
  /\ update \in [Caller -> Update \union {None}]
  /\ edits \in 0..MaxEdits
  /\ main \in {"starting", "running", "stopping", "draining", "stopped", "exited"}
  /\ reload \in {"idle", "fetched", "applying", "ended"}
  /\ snapshot \in [Config -> Setting \union {None}]
  /\ mu \in {"free", "reload", "stop"}
  /\ todo \in SUBSET Config
  /\ waiting \in Config \union {None}
  /\ workers \in [Config -> 0..MaxWorkers]
  /\ created \in 0..MaxWorkers
  /\ drained \in 0..MaxWorkers
  /\ owner \in [Instance -> Config \union {None}]
  /\ setting \in [Instance -> Setting \union {None}]
  /\ state \in [Instance -> {"none", "spawned", "idle", "cycle", "done"}]
  /\ cancelled \in [Instance -> BOOLEAN]

\* A configuration never has two workers delivering at the same time, although
\* a restart may wait for a goroutine that has not yet counted itself.
OneCyclePerConfig ==
  \A i, j \in Instance :
    state[i] = "cycle" /\ state[j] = "cycle" /\ owner[i] = owner[j] => i = j

\* The manager never loses a worker: one that m.workers does not name has been
\* cancelled and starts no further cycle.
NoStrayWorker ==
  \A i \in Instance :
    state[i] \notin {"none", "done"} /\ workers[owner[i]] # i
      => cancelled[i] /\ state[i] # "cycle"

\* Between two reloads the process runs what the last one read: a worker with
\* the routing it read for every enabled configuration, and none for another.
MatchesLastReload ==
  main = "running" /\ mu = "free" /\ reload = "idle" =>
    \A c \in Config :
      IF snapshot[c] = None
      THEN \A i \in Instance : owner[i] = c => state[i] # "cycle"
      ELSE /\ workers[c] # 0
           /\ ~cancelled[workers[c]]
           /\ setting[workers[c]].routing = snapshot[c].routing

\* When Stop returns, none of the workers there were when it took m.mu is left
\* in a cycle that the end of the process would cut short.
StopDrains ==
  main = "stopped" => \A i \in Instance : i <= drained => state[i] # "cycle"

\* Every worker, once its row stays unchanged and the process goes on, runs
\* with the row's routing, and none runs without a row.
RoutingTakesEffect ==
  <>[](main = "running") =>
    <>[](\A c \in Config :
           IF wanted[c] = None
           THEN \A i \in Instance : owner[i] = c => state[i] \in {"none", "done"}
           ELSE workers[c] # 0 /\ setting[workers[c]].routing = wanted[c].routing)

\* A shutdown ends, whatever reload it races with.
ShutdownCompletes == main = "stopping" ~> main = "exited"
=============================================================================
