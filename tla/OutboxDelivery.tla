--------------------------- MODULE OutboxDelivery ---------------------------
(***************************************************************************)
(* The outbox worker (cmd/worker): goroutines that claim rows of the       *)
(* outbox table, send each one through the HTTP API and record what        *)
(* happened, and the reaper that requeues claims nobody recorded.          *)
(*                                                                         *)
(* The table is shared by every worker of every worker process.  A worker  *)
(* works on one row at a time; its steps interleave with the other         *)
(* workers', with the API server (which keeps sending a message whose      *)
(* caller has given up), with cancellation, crashes, and database errors.  *)
(*                                                                         *)
(* Time is kept as ages: age[r] is the time since claimed_at of row r,     *)
(* attemptAge[w] the time since w's own claim.  Both stop counting at      *)
(* Lease + 1, past which nothing distinguishes them.                       *)
(***************************************************************************)
EXTENDS Naturals

CONSTANTS
  Row,            \* rows that may be inserted into the outbox table
  NoRow,          \* "this worker holds no row"
  Worker,         \* enabled worker configurations, one goroutine each
  Process,        \* worker processes sharing the database
  Host,           \* the process each worker runs in
  Eligible,       \* rows matching a worker's application and tenant filter
  Stamp,          \* insertDateTime values
  Lease,          \* the reaper's maxAge (10 minutes)
  AttemptLimit,   \* time the code's timeouts allow from claim to record
  DatabaseStalls, \* may a statement without a timeout outlast AttemptLimit?
  MaxTries,       \* bound: claims per row
  MaxCancels,     \* bound: worker cancellations
  MaxFaults       \* bound: crashes and failed database calls

ASSUME RowAssumption      == NoRow \notin Row
ASSUME HostAssumption     == Host \in [Worker -> Process]
ASSUME EligibleAssumption == Eligible \in [Worker -> SUBSET Row]
ASSUME StampAssumption    == Stamp \subseteq Nat
ASSUME BoundAssumption    == MaxTries \in Nat /\ MaxCancels \in Nat /\ MaxFaults \in Nat
ASSUME StallAssumption    == DatabaseStalls \in BOOLEAN

\* Two 30 s API calls and one 5 s write fit well inside the 10 minute lease.
ASSUME LeaseAssumption ==
  /\ Lease \in Nat
  /\ AttemptLimit \in Nat
  /\ AttemptLimit <= Lease

VARIABLES
  status,     \* the row's status column
  stamp,      \* the row's insertDateTime column
  age,        \* time since the row's claimed_at (Lease + 1 also stands for NULL)
  stage,      \* where each worker is in its cycle
  row,        \* the row each worker is claiming or working on
  attemptAge, \* time since the worker's claim was committed
  cancelled,  \* the worker's context is cancelled
  up,         \* the process is running
  cancels, faults,            \* how much of the bounds is used up
  tries, sends, orphans, doubt \* observations, read by no step

table    == <<status, stamp, age>>
worker   == <<stage, row, attemptAge, cancelled>>
budget   == <<cancels, faults>>
observed == <<tries, sends, orphans, doubt>>
vars     == <<table, worker, up, budget, observed>>

-----------------------------------------------------------------------------

Status == {"none", "pending", "sent", "failed", "processing"}

\* Stages of a cycle in which the worker works on a row it has claimed, by
\* whether a request for the row has reached the API.
BeforeCall == {"claimed", "badPhone", "picking", "failing"}
AfterCall  == {"calling", "delivered", "callError", "succeeded", "refused"}
Working    == BeforeCall \union AfterCall

Stage == {"off", "idle", "claiming"} \union Working

Holds(w, r) == row[w] = r /\ stage[w] \in Working

\* Deviation: a claim without FOR UPDATE SKIP LOCKED.
NothingLocked == {}

\* Rows locked by the subquery of a claim still being executed.
Locked == {row[w] : w \in {v \in Worker : stage[v] = "claiming"}}

\* Stages whose only database call carries no timeout of its own.
NoTimeout == {"badPhone", "failing", "callError"}

\* Work of w that time cannot outrun: calls that carry a timeout, and the
\* others too as long as the database answers.
Timed(w) == stage[w] \in Working \ (IF DatabaseStalls THEN NoTimeout ELSE {})

Fault == faults < MaxFaults /\ faults' = faults + 1

\* A database call under w's context fails: the context is cancelled, or the
\* call itself goes wrong.
ContextError(w) ==
  \/ cancelled[w] /\ UNCHANGED faults
  \/ Fault

Grow(n) == IF n <= Lease THEN n + 1 ELSE n

\* The worker's cycle is over.
Release(w) ==
  /\ stage' = [stage EXCEPT ![w] = "idle"]
  /\ row' = [row EXCEPT ![w] = NoRow]
  /\ attemptAge' = [attemptAge EXCEPT ![w] = 0]
  /\ UNCHANGED cancelled

Goto(w, s) ==
  /\ stage' = [stage EXCEPT ![w] = s]
  /\ UNCHANGED <<row, attemptAge, cancelled>>

-----------------------------------------------------------------------------
(* Configurations, processes and time.                                     *)

Init ==
  /\ status \in [Row -> {"none", "processing"}]
  /\ stamp \in [Row -> Stamp]
  /\ age = [r \in Row |-> Lease + 1]
  /\ stage = [w \in Worker |-> "off"]
  /\ row = [w \in Worker |-> NoRow]
  /\ attemptAge = [w \in Worker |-> 0]
  /\ cancelled = [w \in Worker |-> FALSE]
  /\ up = [p \in Process |-> FALSE]
  /\ cancels = 0
  /\ faults = 0
  /\ tries = [r \in Row |-> 0]
  /\ sends = [r \in Row |-> 0]
  /\ orphans = [r \in Row |-> 0]
  /\ doubt = [r \in Row |-> FALSE]

\* The API commits a batch of rows, all with the time its transaction began.
Enqueue(S, t) ==
  /\ \A r \in S : status[r] = "none"
  /\ status' = [r \in Row |-> IF r \in S THEN "pending" ELSE status[r]]
  /\ stamp' = [r \in Row |-> IF r \in S THEN t ELSE stamp[r]]
  /\ UNCHANGED <<age, worker, up, budget, observed>>

\* Deviation: a sweep that forgets the age of what it requeues.
AnyProcessing == {r \in Row : status[r] = "processing"}

\* Claims older than the lease, and those without a claim time.
Stale == {r \in Row : status[r] = "processing" /\ age[r] > Lease}

RequeueStale ==
  /\ status' = [r \in Row |-> IF r \in Stale THEN "pending" ELSE status[r]]
  /\ age' = [r \in Row |-> IF r \in Stale THEN Lease + 1 ELSE age[r]]
  /\ UNCHANGED stamp

\* A process starts: it sweeps stale claims before it starts any worker.
Boot(p) ==
  /\ ~up[p]
  /\ up' = [up EXCEPT ![p] = TRUE]
  /\ RequeueStale
  /\ UNCHANGED <<worker, budget, observed>>

\* The 60 second reaper tick.
Reap(p) ==
  /\ up[p]
  /\ Stale # {}
  /\ RequeueStale
  /\ UNCHANGED <<worker, up, budget, observed>>

\* The manager starts a worker for a configuration that has none running.
StartWorker(w) ==
  /\ up[Host[w]]
  /\ stage[w] = "off"
  /\ stage' = [stage EXCEPT ![w] = "idle"]
  /\ cancelled' = [cancelled EXCEPT ![w] = FALSE]
  /\ UNCHANGED <<row, attemptAge, table, up, budget, observed>>

\* The manager cancels a worker: its configuration changed or was removed, or
\* the process is shutting down.
Cancel(w) ==
  /\ stage[w] # "off"
  /\ ~cancelled[w]
  /\ cancels < MaxCancels
  /\ cancels' = cancels + 1
  /\ cancelled' = [cancelled EXCEPT ![w] = TRUE]
  /\ UNCHANGED <<stage, row, attemptAge, table, up, faults, observed>>

\* Start's loop sees the cancelled context between two cycles and returns.
Exit(w) ==
  /\ stage[w] = "idle"
  /\ cancelled[w]
  /\ Goto(w, "off")
  /\ UNCHANGED <<table, up, budget, observed>>

Tick ==
  /\ \A w \in Worker : Timed(w) => attemptAge[w] < AttemptLimit
  /\ age' = [r \in Row |-> IF status[r] = "processing" THEN Grow(age[r]) ELSE age[r]]
  /\ attemptAge' = [w \in Worker |->
                      IF stage[w] \in Working THEN Grow(attemptAge[w]) ELSE attemptAge[w]]
  /\ UNCHANGED <<status, stamp, stage, row, cancelled, up, budget, observed>>

-----------------------------------------------------------------------------
(* ClaimPendingOutbox: one statement that locks the oldest pending row no   *)
(* other claim has locked, and commits it as processing.                    *)

\* Deviation: rows claimed once before are passed over.
FirstClaimable(w) ==
  {r \in Eligible[w] : status[r] = "pending" /\ r \notin Locked /\ tries[r] = 0}

Claimable(w) == {r \in Eligible[w] : status[r] = "pending" /\ r \notin Locked}

ClaimBegin(w, r) ==
  /\ stage[w] = "idle"
  /\ ~cancelled[w]
  /\ r \in Claimable(w)
  /\ \A s \in Claimable(w) : stamp[r] <= stamp[s]
  /\ tries[r] < MaxTries
  /\ stage' = [stage EXCEPT ![w] = "claiming"]
  /\ row' = [row EXCEPT ![w] = r]
  /\ UNCHANGED <<attemptAge, cancelled, table, up, budget, observed>>

\* What committing the claim does to row r.
MarkClaimed(S) ==
  /\ status' = [r \in Row |-> IF r \in S THEN "processing" ELSE status[r]]
  /\ age' = [r \in Row |-> IF r \in S THEN 0 ELSE age[r]]
  /\ tries' = [r \in Row |-> IF r \in S THEN tries[r] + 1 ELSE tries[r]]
  /\ UNCHANGED stamp

ClaimCommit(w) ==
  /\ stage[w] = "claiming"
  /\ MarkClaimed({row[w]})
  /\ Goto(w, "claimed")
  /\ UNCHANGED <<up, budget, sends, orphans, doubt>>

\* The statement is cancelled or fails: the row stays pending.
ClaimRollback(w) ==
  /\ stage[w] = "claiming"
  /\ ContextError(w)
  /\ Release(w)
  /\ UNCHANGED <<table, up, cancels, observed>>

\* The claim commits, but its result never reaches the worker.
ClaimLost(w) ==
  /\ stage[w] = "claiming"
  /\ ContextError(w)
  /\ MarkClaimed({row[w]})
  /\ Release(w)
  /\ UNCHANGED <<up, cancels, sends, orphans, doubt>>

-----------------------------------------------------------------------------
(* resolveDestination, pickInstance and dispatch.                          *)

Resolve(w) ==
  /\ stage[w] = "claimed"
  /\ Goto(w, "picking")
  /\ UNCHANGED <<table, up, budget, observed>>

ResolveInvalid(w) ==
  /\ stage[w] = "claimed"
  /\ Goto(w, "badPhone")
  /\ UNCHANGED <<table, up, budget, observed>>

\* No instance, or the request never reaches the API.
PickFails(w) ==
  /\ stage[w] = "picking"
  /\ Goto(w, "failing")
  /\ UNCHANGED <<table, up, budget, observed>>

\* An instance is picked and the send request reaches the API.
Dispatch(w) ==
  /\ stage[w] = "picking"
  /\ ~cancelled[w]
  /\ Goto(w, "calling")
  /\ UNCHANGED <<table, up, budget, observed>>

\* The API hands the message to WhatsApp.
ApiDelivers(w) ==
  /\ stage[w] = "calling"
  /\ Goto(w, "delivered")
  /\ sends' = [sends EXCEPT ![row[w]] = @ + 1]
  /\ UNCHANGED <<table, up, budget, tries, orphans, doubt>>

AnswerSuccess(w) ==
  /\ stage[w] = "delivered"
  /\ Goto(w, "succeeded")
  /\ UNCHANGED <<table, up, budget, observed>>

\* The API answers success=false, perhaps after the message went out.
AnswerRefused(w) ==
  /\ stage[w] \in {"calling", "delivered"}
  /\ Goto(w, "refused")
  /\ UNCHANGED <<table, up, budget, observed>>

\* Requests the API still executes although their caller is gone.
Orphaned(S) ==
  orphans' = [r \in Row |->
                IF \E w \in S : row[w] = r /\ stage[w] = "calling"
                THEN orphans[r] + 1 ELSE orphans[r]]

\* Deviation: a failed call is made again at once.
CallAgain(w) ==
  /\ stage[w] \in {"calling", "delivered"}
  /\ Goto(w, "picking")
  /\ Orphaned({w})
  /\ UNCHANGED <<table, up, budget, tries, sends, doubt>>

\* Timeout, cancelled context, broken connection or an unreadable answer.
CallFails(w) ==
  /\ stage[w] \in {"calling", "delivered"}
  /\ Goto(w, "callError")
  /\ Orphaned({w})
  /\ UNCHANGED <<table, up, budget, tries, sends, doubt>>

\* The API sends with a background context: an abandoned request still delivers.
OrphanDelivers(r) ==
  /\ orphans[r] > 0
  /\ orphans' = [orphans EXCEPT ![r] = @ - 1]
  /\ sends' = [sends EXCEPT ![r] = @ + 1]
  /\ UNCHANGED <<table, worker, up, budget, tries, doubt>>

OrphanEnds(r) ==
  /\ orphans[r] > 0
  /\ orphans' = [orphans EXCEPT ![r] = @ - 1]
  /\ UNCHANGED <<table, worker, up, budget, tries, sends, doubt>>

-----------------------------------------------------------------------------
(* Recording the outcome.  The updates name the row by its id only; like    *)
(* any update they wait for a claim that has the row locked.                *)

Record(w, outcome) ==
  /\ row[w] \notin Locked
  /\ status' = [status EXCEPT ![row[w]] = outcome]
  /\ age' = [age EXCEPT ![row[w]] = Lease + 1]
  /\ Release(w)
  /\ UNCHANGED <<stamp, up, budget, observed>>

\* Deviations: any answer counts as success, a failure is put back for another try.
RecordAnyAnswer(w) == stage[w] \in {"succeeded", "refused"} /\ Record(w, "sent")
RequeueFailure(w)  == stage[w] \in {"failing", "callError", "refused"} /\ Record(w, "pending")

RecordSuccess(w) ==
  /\ stage[w] = "succeeded"
  /\ Record(w, "sent")

RecordFailure(w) ==
  /\ stage[w] \in {"failing", "callError", "refused"}
  /\ Record(w, "failed")

\* The one update that runs under the worker's own context.
RecordBadPhone(w) ==
  /\ stage[w] = "badPhone"
  /\ ~cancelled[w]
  /\ Record(w, "failed")

\* Claims whose outcome will not be recorded although a request went out.
Doubted(S) ==
  doubt' = [r \in Row |->
              doubt[r] \/ \E w \in S : row[w] = r /\ stage[w] \in AfterCall]

\* The update fails; the worker logs it and goes on to the next cycle.
RecordLost(w) ==
  /\ \/ stage[w] \in {"failing", "callError", "refused", "succeeded"} /\ Fault
     \/ stage[w] = "badPhone" /\ ContextError(w)
  /\ Release(w)
  /\ Doubted({w})
  /\ UNCHANGED <<table, up, cancels, tries, sends, orphans>>

On(p) == {w \in Worker : Host[w] = p}

\* A process dies with all its workers.  A claim statement being executed may
\* still commit.
Crash(p) ==
  /\ up[p]
  /\ Fault
  /\ up' = [up EXCEPT ![p] = FALSE]
  /\ \E C \in SUBSET {w \in On(p) : stage[w] = "claiming"} : MarkClaimed({row[w] : w \in C})
  /\ stage' = [w \in Worker |-> IF w \in On(p) THEN "off" ELSE stage[w]]
  /\ row' = [w \in Worker |-> IF w \in On(p) THEN NoRow ELSE row[w]]
  /\ attemptAge' = [w \in Worker |-> IF w \in On(p) THEN 0 ELSE attemptAge[w]]
  /\ cancelled' = [w \in Worker |-> IF w \in On(p) THEN FALSE ELSE cancelled[w]]
  /\ Orphaned(On(p))
  /\ Doubted(On(p))
  /\ UNCHANGED <<cancels, sends>>

-----------------------------------------------------------------------------

\* What w does next when nothing goes wrong on its side.
Progress(w) ==
  \/ Exit(w)
  \/ \E r \in Row : ClaimBegin(w, r)
  \/ ClaimCommit(w)
  \/ Resolve(w) \/ ResolveInvalid(w)
  \/ PickFails(w) \/ Dispatch(w)
  \/ ApiDelivers(w) \/ AnswerSuccess(w) \/ AnswerRefused(w) \/ CallFails(w)
  \/ RecordSuccess(w) \/ RecordFailure(w) \/ RecordBadPhone(w)
  \/ stage[w] = "badPhone" /\ cancelled[w] /\ RecordLost(w)

Next ==
  \/ \E S \in (SUBSET Row) \ {{}}, t \in Stamp : Enqueue(S, t)
  \/ \E p \in Process : Boot(p) \/ Reap(p) \/ Crash(p)
  \/ \E w \in Worker :
       \/ StartWorker(w) \/ Cancel(w)
       \/ ClaimRollback(w) \/ ClaimLost(w) \/ RecordLost(w)
       \/ Progress(w)
  \/ \E r \in Row : OrphanDelivers(r) \/ OrphanEnds(r)
  \/ Tick

Spec == Init /\ [][Next]_vars

\* Goroutines are scheduled, timers fire, and a supervisor restarts a process.
Fairness ==
  /\ WF_vars(Tick)
  /\ \A p \in Process : WF_vars(Boot(p)) /\ WF_vars(Reap(p))
  /\ \A w \in Worker : WF_vars(StartWorker(w)) /\ WF_vars(Progress(w))

FairSpec == Spec /\ Fairness

-----------------------------------------------------------------------------
(* Properties.                                                             *)

TypeOK ==
  /\ status \in [Row -> Status]
  /\ stamp \in [Row -> Stamp]
  /\ age \in [Row -> 0..Lease + 1]
  /\ stage \in [Worker -> Stage]
  /\ row \in [Worker -> Row \union {NoRow}]
  /\ attemptAge \in [Worker -> 0..Lease + 1]
  /\ cancelled \in [Worker -> BOOLEAN]
  /\ up \in [Process -> BOOLEAN]
  /\ cancels \in 0..MaxCancels
  /\ faults \in 0..MaxFaults
  /\ tries \in [Row -> Nat]
  /\ sends \in [Row -> Nat]
  /\ orphans \in [Row -> Nat]
  /\ doubt \in [Row -> BOOLEAN]

\* No two workers ever work on the same row, neither by claiming it at the
\* same time nor because the reaper requeued a row still being worked on.
ExclusiveClaim ==
  \A v, w \in Worker, r \in Row : Holds(v, r) /\ Holds(w, r) => v = w

\* WhatsApp gets a message twice only if an earlier claim of it was lost
\* after its send request had gone out; no other failure, cancellation,
\* timeout or requeue duplicates a message.
DuplicateOnlyInDoubt == \A r \in Row : sends[r] > 1 => doubt[r]

\* One claim sends a message at most once, even when its caller gave up and
\* the row was reclaimed meanwhile.
OneSendPerClaim == \A r \in Row : sends[r] + orphans[r] <= tries[r]

\* A row reported as sent did reach WhatsApp.
SentWasDelivered == \A r \in Row : status[r] = "sent" => sends[r] > 0

\* The reaper and the startup sweep requeue only claims no worker is on.
ReapsOnlyAbandoned ==
  [][\A r \in Row : status[r] = "processing" /\ status'[r] = "pending"
                     => \A w \in Worker : ~Holds(w, r)]_vars

\* What the status API once reported as sent or failed never changes.
SettledIsFinal ==
  [][\A r \in Row : status[r] \in {"sent", "failed"} => status'[r] = status[r]]_vars

\* A row in the outbox is eventually settled: no crash, lost claim, failed
\* update or cancelled worker leaves it behind for good.
EveryRowSettles ==
  \A r \in Row : status[r] # "none" ~> status[r] \in {"sent", "failed"}

\* The outbox seen through its contract: a claimed row is still queued.
Phase ==
  [r \in Row |-> IF status[r] \in {"pending", "processing"} THEN "queued" ELSE status[r]]

Contract ==
  INSTANCE OutboxContract WITH Message <- Row, phase <- Phase, copies <- sends

\* The delivery protocol implements the contract.
ImplementsContract == Contract!ContractSpec
=============================================================================
