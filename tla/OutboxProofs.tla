---------------------------- MODULE OutboxProofs ----------------------------
(***************************************************************************)
(* Proofs about the outbox for every value of its constants: how its rows  *)
(* are delivered (OutboxDelivery) and how requests fill it (OutboxEnqueue).*)
(*                                                                         *)
(* What requests store and the limit on it are here; their transactions    *)
(* are in an instance, prefixed Filling, whose theorems say that they need *)
(* the assumptions on its constants.                                       *)
(***************************************************************************)
EXTENDS OutboxDelivery, OutboxQuota, FiniteSetTheorems, TLAPS

LEMMA StageFacts ==
  /\ Working \subseteq Stage
  /\ BeforeCall \subseteq Working
  /\ AfterCall \subseteq Working
  /\ NoTimeout \subseteq Working
  /\ {"off", "idle", "claiming"} \subseteq Stage
  /\ {"off", "idle", "claiming"} \intersect Working = {}
BY DEF Working, Stage, BeforeCall, AfterCall, NoTimeout

LEMMA GrowType == ASSUME NEW n \in 0..Lease + 1 PROVE Grow(n) \in 0..Lease + 1
BY LeaseAssumption DEF Grow

LEMMA TypeInit == ASSUME Init PROVE TypeOK
BY LeaseAssumption, BoundAssumption DEF Init, TypeOK, Status, Stage

LEMMA TypeStep == ASSUME TypeOK, [Next]_vars PROVE TypeOK'
<1> USE LeaseAssumption, BoundAssumption, HostAssumption, EligibleAssumption
<1>1. ASSUME NEW S \in (SUBSET Row) \ {{}}, NEW t \in Stamp, Enqueue(S, t) PROVE TypeOK'
  BY <1>1 DEF Enqueue, TypeOK, worker, budget, observed, Status
<1>2. ASSUME NEW p \in Process, Boot(p) PROVE TypeOK'
  BY <1>2 DEF Boot, RequeueStale, TypeOK, worker, budget, observed, Status
<1>3. ASSUME NEW p \in Process, Reap(p) PROVE TypeOK'
  BY <1>3 DEF Reap, RequeueStale, TypeOK, worker, budget, observed, Status
<1>4. ASSUME NEW p \in Process, Crash(p) PROVE TypeOK'
  <2>1. PICK S : MarkClaimed(S)
    BY <1>4 DEF Crash
  <2>2. /\ status' \in [Row -> Status] /\ stamp' \in [Row -> Stamp]
        /\ age' \in [Row -> 0..Lease + 1] /\ tries' \in [Row -> Nat]
    BY <2>1 DEF MarkClaimed, TypeOK, Status
  <2>3. /\ stage' \in [Worker -> Stage]
        /\ row' \in [Worker -> Row \union {NoRow}]
        /\ attemptAge' \in [Worker -> 0..Lease + 1]
        /\ cancelled' \in [Worker -> BOOLEAN]
        /\ up' \in [Process -> BOOLEAN]
    <3>1. stage' = [w \in Worker |-> IF w \in On(p) THEN "off" ELSE stage[w]]
      BY <1>4 DEF Crash
    <3>2. row' = [w \in Worker |-> IF w \in On(p) THEN NoRow ELSE row[w]]
      BY <1>4 DEF Crash
    <3>3. attemptAge' = [w \in Worker |-> IF w \in On(p) THEN 0 ELSE attemptAge[w]]
      BY <1>4 DEF Crash
    <3>4. cancelled' = [w \in Worker |-> IF w \in On(p) THEN FALSE ELSE cancelled[w]]
      BY <1>4 DEF Crash
    <3>5. up' = [up EXCEPT ![p] = FALSE]
      BY <1>4 DEF Crash
    <3>6. cancelled' \in [Worker -> BOOLEAN] /\ up' \in [Process -> BOOLEAN]
      BY <3>4, <3>5, Zenon DEF TypeOK
    <3>7. QED
      BY <3>1, <3>2, <3>3, <3>6 DEF TypeOK, Stage
  <2>4. /\ cancels' \in 0..MaxCancels /\ faults' \in 0..MaxFaults
        /\ sends' \in [Row -> Nat]
    BY <1>4 DEF Crash, Fault, TypeOK
  <2>5. orphans' \in [Row -> Nat] /\ doubt' \in [Row -> BOOLEAN]
    BY <1>4 DEF Crash, Orphaned, Doubted, TypeOK
  <2>6. QED
    BY <2>2, <2>3, <2>4, <2>5 DEF TypeOK
<1>5. ASSUME NEW w \in Worker, StartWorker(w) PROVE TypeOK'
  BY <1>5 DEF StartWorker, TypeOK, table, budget, observed, Stage
<1>6. ASSUME NEW w \in Worker, Cancel(w) PROVE TypeOK'
  BY <1>6 DEF Cancel, TypeOK, table, observed
<1>7. ASSUME NEW w \in Worker, ClaimRollback(w) PROVE TypeOK'
  BY <1>7 DEF ClaimRollback, ContextError, Fault, Release, TypeOK, table, observed, Stage
<1>8. ASSUME NEW w \in Worker, ClaimLost(w) PROVE TypeOK'
  BY <1>8 DEF ClaimLost, ContextError, Fault, MarkClaimed, Release, TypeOK, Stage, Status
<1>9. ASSUME NEW w \in Worker, RecordLost(w) PROVE TypeOK'
  BY <1>9 DEF RecordLost, ContextError, Fault, Release, Doubted, TypeOK, table, Stage
<1>10. ASSUME NEW w \in Worker, Exit(w) PROVE TypeOK'
  BY <1>10 DEF Exit, Goto, TypeOK, table, budget, observed, Stage
<1>11. ASSUME NEW w \in Worker, NEW r \in Row, ClaimBegin(w, r) PROVE TypeOK'
  BY <1>11 DEF ClaimBegin, TypeOK, table, budget, observed, Stage
<1>12. ASSUME NEW w \in Worker, ClaimCommit(w) PROVE TypeOK'
  BY <1>12 DEF ClaimCommit, MarkClaimed, Goto, TypeOK, budget, Stage, Working, BeforeCall, Status
<1>13. ASSUME NEW w \in Worker,
              Resolve(w) \/ ResolveInvalid(w) \/ PickFails(w) \/ Dispatch(w)
                \/ AnswerSuccess(w) \/ AnswerRefused(w)
       PROVE TypeOK'
  BY <1>13 DEF Resolve, ResolveInvalid, PickFails, Dispatch, AnswerSuccess, AnswerRefused,
               Goto, TypeOK, table, budget, observed, Stage, Working, BeforeCall, AfterCall
<1>14. ASSUME NEW w \in Worker, ApiDelivers(w) PROVE TypeOK'
  <2>1. row[w] \in Row \union {NoRow} /\ stage' \in [Worker -> Stage]
    BY <1>14 DEF ApiDelivers, Goto, TypeOK, Stage, Working, AfterCall
  <2>2. sends' \in [Row -> Nat]
    <3>1. /\ sends \in [Row -> Nat]
          /\ sends' = [sends EXCEPT ![row[w]] = sends[row[w]] + 1]
      BY <1>14 DEF ApiDelivers, TypeOK
    <3>2. ASSUME NEW r \in Row PROVE sends'[r] \in Nat
      BY <3>1
    <3>3. QED
      BY <3>1, <3>2
  <2>3. QED
    BY <1>14, <2>1, <2>2 DEF ApiDelivers, Goto, TypeOK, table, budget
<1>15. ASSUME NEW w \in Worker, CallFails(w) PROVE TypeOK'
  BY <1>15 DEF CallFails, Orphaned, Goto, TypeOK, table, budget, Stage, Working, AfterCall
<1>16. ASSUME NEW w \in Worker, RecordSuccess(w) \/ RecordFailure(w) \/ RecordBadPhone(w)
       PROVE TypeOK'
  BY <1>16 DEF RecordSuccess, RecordFailure, RecordBadPhone, Record, Release, TypeOK,
               budget, observed, Stage, Status
<1>17. ASSUME NEW r \in Row, OrphanDelivers(r) \/ OrphanEnds(r) PROVE TypeOK'
  BY <1>17 DEF OrphanDelivers, OrphanEnds, TypeOK, table, worker, budget
<1>18. CASE Tick
  BY <1>18, GrowType DEF Tick, TypeOK, budget, observed
<1>19. CASE UNCHANGED vars
  BY <1>19 DEF vars, table, worker, budget, observed, TypeOK
<1>20. QED
  BY <1>1, <1>2, <1>3, <1>4, <1>5, <1>6, <1>7, <1>8, <1>9, <1>10, <1>11, <1>12, <1>13,
     <1>14, <1>15, <1>16, <1>17, <1>18, <1>19 DEF Next, Progress

\* Every variable keeps its type: in particular no action counts a fault or a
\* cancellation past its bound, or ages a claim past the point the model
\* distinguishes.
THEOREM TypeCorrect == Spec => []TypeOK
<1>1. Init => TypeOK
  BY TypeInit
<1>2. TypeOK /\ [Next]_vars => TypeOK'
  BY TypeStep
<1>3. QED
  BY <1>1, <1>2, PTL DEF Spec

-----------------------------------------------------------------------------
(***************************************************************************)
(* Who owns a row.  A worker whose attempt the code's timeouts bound owns  *)
(* its row exclusively: the row is not pending, and as long as it is still *)
(* processing its age is that of the worker's attempt, which therefore     *)
(* keeps it from becoming stale.                                           *)
(***************************************************************************)

HoldInv ==
  \A w \in Worker :
    /\ row[w] \in Row <=> stage[w] \in Working \union {"claiming"}
    /\ stage[w] \notin Working => attemptAge[w] = 0

LockInv ==
  \A v, w \in Worker :
    stage[w] = "claiming" =>
      /\ status[row[w]] = "pending"
      /\ stage[v] = "claiming" /\ row[v] = row[w] => v = w

FreshInv ==
  \A w \in Worker :
    Timed(w) =>
      /\ attemptAge[w] <= AttemptLimit
      /\ status[row[w]] \in {"processing", "sent", "failed"}
      /\ status[row[w]] = "processing" => age[row[w]] = attemptAge[w]
      /\ ~DatabaseStalls => status[row[w]] = "processing"

OwnerInv == \A v, w \in Worker : Timed(v) /\ Timed(w) /\ row[v] = row[w] => v = w

Ownership == TypeOK /\ HoldInv /\ LockInv /\ FreshInv /\ OwnerInv

-----------------------------------------------------------------------------
(* How often a row is sent.                                                *)

\* The stages in which a claim may still get its message delivered.
Unspent == {"claimed", "picking", "calling"}

SpendInv ==
  /\ OneSendPerClaim
  /\ \A r \in Row : status[r] = "none" => tries[r] = 0
  /\ \A w \in Worker :
       stage[w] \in Unspent => sends[row[w]] + orphans[row[w]] < tries[row[w]]

DeliveredInv ==
  /\ SentWasDelivered
  /\ \A w \in Worker : stage[w] \in {"delivered", "succeeded"} => sends[row[w]] > 0

\* Once the API has settled the call, one of its outcomes is on the way.
Answered == AfterCall \ {"calling"}

Settled(r) == status[r] \in {"sent", "failed"}

DoubtInv ==
  \A r \in Row :
    \/ doubt[r]
    \/ sends[r] + orphans[r] = 0
    \/ /\ sends[r] + orphans[r] = 1
       /\ Settled(r) \/ \E w \in Worker : row[w] = r /\ stage[w] \in Answered

-----------------------------------------------------------------------------
(* Ownership is inductive.                                                 *)

\* A worker moves on within its attempt.
LEMMA GotoOwnership ==
  ASSUME Ownership, TypeOK', NEW w \in Worker, NEW s \in Working,
         stage[w] \in {"claimed", "picking", "calling", "delivered"},
         Goto(w, s), UNCHANGED table
  PROVE  Ownership'
<1>1. Timed(w) /\ stage[w] \in Working /\ "claiming" \notin Working
  BY DEF Timed, Working, BeforeCall, AfterCall, NoTimeout
<1>2. stage' = [stage EXCEPT ![w] = s] /\ row' = row /\ attemptAge' = attemptAge
      /\ status' = status /\ age' = age
  BY DEF Goto, table
<1>3. \A v \in Worker : Timed(v)' => Timed(v)
  BY <1>1, <1>2 DEF Timed, Ownership, TypeOK
<1>4. HoldInv'
  BY <1>1, <1>2 DEF HoldInv, Ownership, TypeOK
<1>5. LockInv'
  BY <1>1, <1>2 DEF LockInv, Ownership, TypeOK
<1>6. FreshInv' /\ OwnerInv'
  BY <1>2, <1>3 DEF FreshInv, OwnerInv, Ownership
<1>7. QED
  BY <1>4, <1>5, <1>6 DEF Ownership

\* A worker leaves its cycle without touching the table.
LEMMA ReleaseOwnership ==
  ASSUME Ownership, TypeOK', NEW w \in Worker, Release(w), UNCHANGED table
  PROVE  Ownership'
<1>1. /\ stage' = [stage EXCEPT ![w] = "idle"] /\ row' = [row EXCEPT ![w] = NoRow]
      /\ attemptAge' = [attemptAge EXCEPT ![w] = 0] /\ status' = status /\ age' = age
  BY DEF Release, table
<1>2. "idle" \notin Working \union {"claiming"}
  BY StageFacts
<1>3. \A v \in Worker : Timed(v)' => v # w /\ Timed(v)
  BY <1>1, <1>2 DEF Timed, Ownership, TypeOK
<1>4. HoldInv'
  BY <1>1, <1>2, RowAssumption DEF HoldInv, Ownership, TypeOK
<1>5. LockInv'
  BY <1>1 DEF LockInv, Ownership, TypeOK
<1>6. FreshInv' /\ OwnerInv'
  BY <1>1, <1>3 DEF FreshInv, OwnerInv, Ownership, TypeOK
<1>7. QED
  BY <1>4, <1>5, <1>6 DEF Ownership

\* A worker records its outcome: the row it settles is its own.
LEMMA RecordOwnership ==
  ASSUME Ownership, TypeOK', NEW w \in Worker, stage[w] \in Working,
         NEW o \in {"sent", "failed"}, Record(w, o)
  PROVE  Ownership'
<1>1. /\ stage' = [stage EXCEPT ![w] = "idle"] /\ row' = [row EXCEPT ![w] = NoRow]
      /\ attemptAge' = [attemptAge EXCEPT ![w] = 0]
      /\ status' = [status EXCEPT ![row[w]] = o] /\ age' = [age EXCEPT ![row[w]] = Lease + 1]
      /\ row[w] \notin Locked
  BY DEF Release, Record
<1>2. "idle" \notin Working \union {"claiming"} /\ row[w] \in Row
  BY StageFacts DEF Ownership, HoldInv
<1>3. \A v \in Worker : Timed(v)' => v # w /\ Timed(v)
  BY <1>1, <1>2 DEF Timed, Ownership, TypeOK
<1>4. HoldInv'
  BY <1>1, <1>2, RowAssumption DEF HoldInv, Ownership, TypeOK
<1>5. LockInv'
  BY <1>1, <1>2 DEF LockInv, Locked, Ownership, TypeOK
<1>6. \A v \in Worker : Timed(v) => row[v] \in Row
  BY DEF Timed, Ownership, HoldInv
<1>7. ~DatabaseStalls => \A v \in Worker : Timed(v)' => row[v] # row[w]
  <2>1. ~DatabaseStalls => Timed(w)
    BY DEF Timed
  <2>2. QED
    BY <2>1, <1>3 DEF Ownership, OwnerInv
<1>8. FreshInv'
  BY <1>1, <1>2, <1>3, <1>6, <1>7 DEF FreshInv, Ownership, TypeOK
<1>9. OwnerInv'
  BY <1>1, <1>3 DEF OwnerInv, Ownership, TypeOK
<1>10. QED
  BY <1>4, <1>5, <1>8, <1>9 DEF Ownership

\* The rows the reaper requeues belong to no timed attempt and to no claim.
LEMMA RequeueOwnership ==
  ASSUME Ownership, TypeOK', RequeueStale, UNCHANGED worker
  PROVE  Ownership'
<1>1. /\ status' = [r \in Row |-> IF r \in Stale THEN "pending" ELSE status[r]]
      /\ age' = [r \in Row |-> IF r \in Stale THEN Lease + 1 ELSE age[r]]
      /\ stage' = stage /\ row' = row /\ attemptAge' = attemptAge
  BY DEF RequeueStale, worker
<1>2. \A w \in Worker : Timed(w) => row[w] \in Row /\ row[w] \notin Stale
  BY LeaseAssumption DEF Timed, Stale, Ownership, HoldInv, FreshInv, TypeOK
<1>3. \A w \in Worker : stage[w] = "claiming" => row[w] \in Row /\ row[w] \notin Stale
  BY DEF Stale, Ownership, HoldInv, LockInv
<1>4. HoldInv' /\ OwnerInv'
  BY <1>1 DEF HoldInv, OwnerInv, Timed, Ownership
<1>5. LockInv'
  BY <1>1, <1>3 DEF LockInv, Ownership
<1>6. FreshInv'
  BY <1>1, <1>2 DEF FreshInv, Timed, Ownership
<1>7. QED
  BY <1>4, <1>5, <1>6 DEF Ownership

\* The workers in D vanish, some of them with their claim committed.
LEMMA VanishOwnership ==
  ASSUME Ownership, TypeOK', NEW D \in SUBSET Worker, NEW off \in {"off", "idle"},
         NEW C \in SUBSET D, \A w \in C : stage[w] = "claiming",
         MarkClaimed({row[w] : w \in C}),
         stage' = [w \in Worker |-> IF w \in D THEN off ELSE stage[w]],
         row' = [w \in Worker |-> IF w \in D THEN NoRow ELSE row[w]],
         attemptAge' = [w \in Worker |-> IF w \in D THEN 0 ELSE attemptAge[w]]
  PROVE  Ownership'
<1> DEFINE S == {row[w] : w \in C}
<1>1. /\ status' = [r \in Row |-> IF r \in S THEN "processing" ELSE status[r]]
      /\ age' = [r \in Row |-> IF r \in S THEN 0 ELSE age[r]]
  BY DEF MarkClaimed
<1>2. off \notin Working \union {"claiming"}
  BY StageFacts
<1>3. \A v \in Worker : Timed(v)' => v \notin D /\ Timed(v)
  BY <1>2 DEF Timed, Ownership, TypeOK
<1>4. \A v \in Worker : Timed(v) => row[v] \in Row /\ row[v] \notin S
  <2>1. \A w \in C : status[row[w]] = "pending"
    BY DEF Ownership, LockInv
  <2>2. QED
    BY <2>1 DEF Timed, Ownership, HoldInv, FreshInv
<1>5. \A v \in Worker : stage[v] = "claiming" /\ v \notin D => row[v] \in Row /\ row[v] \notin S
  BY DEF Ownership, HoldInv, LockInv
<1> HIDE DEF S
<1>6. HoldInv'
  BY <1>2, RowAssumption DEF HoldInv, Ownership, TypeOK
<1>7. LockInv'
  BY <1>1, <1>2, <1>5 DEF LockInv, Ownership
<1>8. FreshInv'
  BY <1>1, <1>3, <1>4 DEF FreshInv, Ownership
<1>9. OwnerInv'
  BY <1>3 DEF OwnerInv, Ownership
<1>10. QED
  BY <1>6, <1>7, <1>8, <1>9 DEF Ownership

\* Stopping, starting, or cancelling a worker that holds no row.
LEMMA IdleOwnership ==
  ASSUME Ownership, TypeOK', NEW w \in Worker, stage[w] \notin Working \union {"claiming"},
         NEW s \in {"off", "idle"}, stage' = [stage EXCEPT ![w] = s],
         UNCHANGED <<table, row, attemptAge>>
  PROVE  Ownership'
<1>1. s \notin Working \union {"claiming"} /\ status' = status /\ age' = age
  BY StageFacts DEF table
<1>2. \A v \in Worker : Timed(v)' <=> Timed(v)
  BY <1>1 DEF Timed, Ownership, TypeOK
<1>3. HoldInv' /\ LockInv'
  BY <1>1 DEF HoldInv, LockInv, Ownership, TypeOK
<1>4. FreshInv' /\ OwnerInv'
  BY <1>1, <1>2 DEF FreshInv, OwnerInv, Ownership
<1>5. QED
  BY <1>3, <1>4 DEF Ownership

LEMMA SameOwnership ==
  ASSUME Ownership, TypeOK', UNCHANGED <<table, stage, row, attemptAge>>
  PROVE  Ownership'
BY DEF Ownership, HoldInv, LockInv, FreshInv, OwnerInv, Timed, table

LEMMA EnqueueOwnership ==
  ASSUME Ownership, TypeOK', NEW S \in SUBSET Row, NEW t \in Stamp, Enqueue(S, t)
  PROVE  Ownership'
<1>1. /\ status' = [r \in Row |-> IF r \in S THEN "pending" ELSE status[r]]
      /\ \A r \in S : status[r] = "none"
      /\ age' = age /\ stage' = stage /\ row' = row /\ attemptAge' = attemptAge
  BY DEF Enqueue, worker
<1>2. \A w \in Worker : Timed(w) => row[w] \in Row /\ row[w] \notin S
  BY <1>1 DEF Timed, Ownership, HoldInv, FreshInv
<1>3. \A w \in Worker : stage[w] = "claiming" => row[w] \in Row
  BY DEF Ownership, HoldInv
<1>4. HoldInv' /\ OwnerInv' /\ LockInv'
  BY <1>1, <1>3 DEF HoldInv, OwnerInv, LockInv, Timed, Ownership
<1>5. FreshInv'
  BY <1>1, <1>2 DEF FreshInv, Timed, Ownership
<1>6. QED
  BY <1>4, <1>5 DEF Ownership

LEMMA TickOwnership == ASSUME Ownership, TypeOK', Tick PROVE Ownership'
<1>1. /\ \A w \in Worker : Timed(w) => attemptAge[w] < AttemptLimit
      /\ age' = [r \in Row |-> IF status[r] = "processing" THEN Grow(age[r]) ELSE age[r]]
      /\ attemptAge' = [w \in Worker |->
                          IF stage[w] \in Working THEN Grow(attemptAge[w]) ELSE attemptAge[w]]
      /\ status' = status /\ stage' = stage /\ row' = row
  BY DEF Tick
<1>2. HoldInv' /\ LockInv' /\ OwnerInv'
  BY <1>1 DEF HoldInv, LockInv, OwnerInv, Timed, Ownership
<1>3. ASSUME NEW w \in Worker, Timed(w)' PROVE attemptAge'[w] <= AttemptLimit
  BY <1>1, <1>3, LeaseAssumption DEF Timed, Grow, Ownership, TypeOK
<1>4. FreshInv'
  BY <1>1, <1>3 DEF FreshInv, HoldInv, Timed, Ownership
<1>5. QED
  BY <1>2, <1>4 DEF Ownership

LEMMA ClaimBeginOwnership ==
  ASSUME Ownership, TypeOK', NEW w \in Worker, NEW r \in Row, ClaimBegin(w, r)
  PROVE  Ownership'
<1>1. /\ stage[w] = "idle" /\ status[r] = "pending" /\ r \notin Locked
      /\ stage' = [stage EXCEPT ![w] = "claiming"] /\ row' = [row EXCEPT ![w] = r]
      /\ attemptAge' = attemptAge /\ status' = status /\ age' = age
  BY DEF ClaimBegin, Claimable, table
<1>2. "claiming" \notin Working
  BY StageFacts
<1>3. \A v \in Worker : Timed(v)' => v # w /\ Timed(v)
  BY <1>1, <1>2 DEF Timed, Ownership, TypeOK
<1>4. HoldInv'
  BY <1>1, <1>2, StageFacts DEF HoldInv, Ownership, TypeOK
<1>5. LockInv'
  BY <1>1 DEF LockInv, Locked, Ownership, TypeOK
<1>6. FreshInv' /\ OwnerInv'
  BY <1>1, <1>3 DEF FreshInv, OwnerInv, Ownership, TypeOK
<1>7. QED
  BY <1>4, <1>5, <1>6 DEF Ownership

\* A committed claim: no other timed attempt has the row, since it was pending.
LEMMA ClaimCommitOwnership ==
  ASSUME Ownership, TypeOK', NEW w \in Worker, ClaimCommit(w)
  PROVE  Ownership'
<1>1. /\ stage[w] = "claiming" /\ row[w] \in Row /\ status[row[w]] = "pending"
      /\ stage' = [stage EXCEPT ![w] = "claimed"] /\ row' = row /\ attemptAge' = attemptAge
      /\ status' = [status EXCEPT ![row[w]] = "processing"]
      /\ age' = [age EXCEPT ![row[w]] = 0]
  <2>1. stage[w] = "claiming" /\ row[w] \in Row /\ status[row[w]] = "pending"
    BY DEF ClaimCommit, Ownership, HoldInv, LockInv
  <2>2. /\ stage' = [stage EXCEPT ![w] = "claimed"] /\ row' = row /\ attemptAge' = attemptAge
        /\ status' = [r \in Row |-> IF r \in {row[w]} THEN "processing" ELSE status[r]]
        /\ age' = [r \in Row |-> IF r \in {row[w]} THEN 0 ELSE age[r]]
    BY DEF ClaimCommit, MarkClaimed, Goto
  <2>3. QED
    BY <2>1, <2>2 DEF Ownership, TypeOK
<1>2. attemptAge[w] = 0
  BY <1>1, StageFacts DEF Ownership, HoldInv
<1>3. "claimed" \in Working
  BY DEF Working, BeforeCall
<1>4. \A v \in Worker : Timed(v)' => v = w \/ Timed(v)
  BY <1>1 DEF Timed, Ownership, TypeOK
<1>5. \A v \in Worker : Timed(v) => row[v] \in Row /\ row[v] # row[w]
  BY <1>1 DEF Timed, Ownership, HoldInv, FreshInv
<1>6. HoldInv'
  BY <1>1, <1>3 DEF HoldInv, Ownership, TypeOK
<1>7. LockInv'
  BY <1>1 DEF LockInv, Ownership, HoldInv, TypeOK
<1>8. FreshInv'
  BY <1>1, <1>2, <1>4, <1>5, LeaseAssumption DEF FreshInv, Ownership, TypeOK
<1>9. OwnerInv'
  BY <1>1, <1>4, <1>5 DEF OwnerInv, Ownership
<1>10. QED
  BY <1>6, <1>7, <1>8, <1>9 DEF Ownership

LEMMA OwnershipStep == ASSUME Ownership, [Next]_vars PROVE Ownership'
<1>0. TypeOK'
  BY TypeStep DEF Ownership
<1>1. ASSUME NEW S \in (SUBSET Row) \ {{}}, NEW t \in Stamp, Enqueue(S, t) PROVE Ownership'
  BY <1>0, <1>1, EnqueueOwnership
<1>2. ASSUME NEW p \in Process, Boot(p) \/ Reap(p) PROVE Ownership'
  BY <1>0, <1>2, RequeueOwnership DEF Boot, Reap
<1>3. ASSUME NEW p \in Process, Crash(p) PROVE Ownership'
  <2>1. PICK C \in SUBSET {w \in On(p) : stage[w] = "claiming"} : MarkClaimed({row[w] : w \in C})
    BY <1>3 DEF Crash
  <2>2. /\ stage' = [w \in Worker |-> IF w \in On(p) THEN "off" ELSE stage[w]]
        /\ row' = [w \in Worker |-> IF w \in On(p) THEN NoRow ELSE row[w]]
        /\ attemptAge' = [w \in Worker |-> IF w \in On(p) THEN 0 ELSE attemptAge[w]]
    BY <1>3 DEF Crash
  <2>3. On(p) \in SUBSET Worker /\ C \in SUBSET On(p) /\ \A w \in C : stage[w] = "claiming"
    BY DEF On
  <2>4. QED
    BY <1>0, <2>1, <2>2, <2>3, VanishOwnership
<1>4. ASSUME NEW w \in Worker, StartWorker(w) \/ Exit(w) PROVE Ownership'
  <2>1. stage[w] \notin Working \union {"claiming"}
    BY <1>4, StageFacts DEF StartWorker, Exit
  <2>2. QED
    BY <1>0, <1>4, <2>1, IdleOwnership DEF StartWorker, Exit, Goto, table
<1>5. ASSUME NEW w \in Worker, Cancel(w) PROVE Ownership'
  BY <1>0, <1>5, SameOwnership DEF Cancel
<1>6. ASSUME NEW w \in Worker, ClaimRollback(w) \/ RecordLost(w) PROVE Ownership'
  BY <1>0, <1>6, ReleaseOwnership DEF ClaimRollback, RecordLost
<1>7. ASSUME NEW w \in Worker, ClaimLost(w) PROVE Ownership'
  <2>1. /\ MarkClaimed({row[v] : v \in {w}})
        /\ \A v \in {w} : stage[v] = "claiming"
        /\ {w} \in SUBSET Worker
    BY <1>7 DEF ClaimLost, MarkClaimed
  <2>2. /\ stage' = [v \in Worker |-> IF v \in {w} THEN "idle" ELSE stage[v]]
        /\ row' = [v \in Worker |-> IF v \in {w} THEN NoRow ELSE row[v]]
        /\ attemptAge' = [v \in Worker |-> IF v \in {w} THEN 0 ELSE attemptAge[v]]
    BY <1>7 DEF ClaimLost, Release, Ownership, TypeOK
  <2>3. QED
    BY <1>0, <2>1, <2>2, VanishOwnership
<1>8. ASSUME NEW w \in Worker, NEW r \in Row, ClaimBegin(w, r) PROVE Ownership'
  BY <1>0, <1>8, ClaimBeginOwnership
<1>9. ASSUME NEW w \in Worker, ClaimCommit(w) PROVE Ownership'
  BY <1>0, <1>9, ClaimCommitOwnership
<1>10. ASSUME NEW w \in Worker,
              Resolve(w) \/ ResolveInvalid(w) \/ PickFails(w) \/ Dispatch(w) \/ ApiDelivers(w)
                \/ AnswerSuccess(w) \/ AnswerRefused(w) \/ CallFails(w)
       PROVE Ownership'
  BY <1>0, <1>10, GotoOwnership
     DEF Resolve, ResolveInvalid, PickFails, Dispatch, ApiDelivers, AnswerSuccess,
         AnswerRefused, CallFails, Working, BeforeCall, AfterCall
<1>11. ASSUME NEW w \in Worker, RecordSuccess(w) \/ RecordFailure(w) \/ RecordBadPhone(w)
       PROVE Ownership'
  BY <1>0, <1>11, RecordOwnership
     DEF RecordSuccess, RecordFailure, RecordBadPhone, Working, BeforeCall, AfterCall
<1>12. ASSUME NEW r \in Row, OrphanDelivers(r) \/ OrphanEnds(r) PROVE Ownership'
  BY <1>0, <1>12, SameOwnership DEF OrphanDelivers, OrphanEnds, worker
<1>13. CASE Tick
  BY <1>0, <1>13, TickOwnership
<1>14. CASE UNCHANGED vars
  BY <1>0, <1>14, SameOwnership DEF vars, worker
<1>15. QED
  BY <1>1, <1>2, <1>3, <1>4, <1>5, <1>6, <1>7, <1>8, <1>9, <1>10, <1>11, <1>12, <1>13, <1>14
     DEF Next, Progress

LEMMA OwnershipInit == ASSUME Init PROVE Ownership
<1>1. TypeOK
  BY TypeInit
<1>2. \A w \in Worker : stage[w] = "off" /\ row[w] = NoRow /\ attemptAge[w] = 0
  BY DEF Init
<1>3. \A w \in Worker : stage[w] \notin Working \union {"claiming"}
  BY <1>2, StageFacts
<1>4. \A w \in Worker : ~Timed(w)
  BY <1>3 DEF Timed
<1>5. QED
  BY <1>1, <1>2, <1>3, <1>4, RowAssumption
     DEF Ownership, HoldInv, LockInv, FreshInv, OwnerInv

LEMMA OwnershipCorrect == Spec => []Ownership
BY OwnershipInit, OwnershipStep, PTL DEF Spec

\* As long as the database answers within the time the code allows, no two
\* workers ever work on the same row.
THEOREM ExclusiveClaimHolds == ASSUME DatabaseStalls = FALSE PROVE Spec => []ExclusiveClaim
<1>1. Ownership => ExclusiveClaim
  BY DEF Ownership, OwnerInv, Timed, ExclusiveClaim, Holds
<1>2. QED
  BY <1>1, OwnershipCorrect, PTL

\* The ways a step may change the status column.
LEMMA StatusSteps ==
  ASSUME [Next]_vars
  PROVE  \/ UNCHANGED status
         \/ \E S \in SUBSET Row, t \in Stamp : Enqueue(S, t)
         \/ RequeueStale
         \/ \E C \in SUBSET {w \in Worker : stage[w] = "claiming"} : MarkClaimed({row[w] : w \in C})
         \/ \E w \in Worker : RecordSuccess(w) \/ RecordFailure(w) \/ RecordBadPhone(w)
<1>1. ASSUME NEW p \in Process, Boot(p) \/ Reap(p) PROVE RequeueStale
  BY <1>1 DEF Boot, Reap
<1>2. ASSUME NEW p \in Process, Crash(p)
      PROVE \E C \in SUBSET {w \in Worker : stage[w] = "claiming"} : MarkClaimed({row[w] : w \in C})
  <2>1. PICK C \in SUBSET {w \in On(p) : stage[w] = "claiming"} : MarkClaimed({row[w] : w \in C})
    BY <1>2 DEF Crash
  <2>2. C \in SUBSET {w \in Worker : stage[w] = "claiming"}
    BY DEF On
  <2>3. QED
    BY <2>1, <2>2
<1>3. ASSUME NEW w \in Worker, ClaimLost(w) \/ ClaimCommit(w)
      PROVE \E C \in SUBSET {v \in Worker : stage[v] = "claiming"} : MarkClaimed({row[v] : v \in C})
  <2>1. MarkClaimed({row[v] : v \in {w}}) /\ stage[w] = "claiming"
    <3>1. {row[v] : v \in {w}} = {row[w]}
      OBVIOUS
    <3>2. QED
      BY <1>3, <3>1 DEF ClaimLost, ClaimCommit
  <2>2. {w} \in SUBSET {v \in Worker : stage[v] = "claiming"}
    BY <2>1
  <2>3. QED
    BY <2>1, <2>2
<1>4. ASSUME NEW w \in Worker,
             StartWorker(w) \/ Cancel(w) \/ ClaimRollback(w) \/ RecordLost(w) \/ Exit(w)
      PROVE UNCHANGED status
  BY <1>4 DEF StartWorker, Cancel, ClaimRollback, RecordLost, Exit, table
<1>5. ASSUME NEW w \in Worker, NEW r \in Row, ClaimBegin(w, r) PROVE UNCHANGED status
  BY <1>5 DEF ClaimBegin, table
<1>6. ASSUME NEW w \in Worker,
             Resolve(w) \/ ResolveInvalid(w) \/ PickFails(w) \/ Dispatch(w) \/ ApiDelivers(w)
               \/ AnswerSuccess(w) \/ AnswerRefused(w) \/ CallFails(w)
      PROVE UNCHANGED status
  BY <1>6 DEF Resolve, ResolveInvalid, PickFails, Dispatch, ApiDelivers, AnswerSuccess,
              AnswerRefused, CallFails, table
<1>7. ASSUME NEW r \in Row, OrphanDelivers(r) \/ OrphanEnds(r) PROVE UNCHANGED status
  BY <1>7 DEF OrphanDelivers, OrphanEnds, table
<1>8. Tick \/ UNCHANGED vars => UNCHANGED status
  BY DEF Tick, vars, table
<1>9. QED
  BY <1>1, <1>2, <1>3, <1>4, <1>5, <1>6, <1>7, <1>8 DEF Next, Progress

\* As long as the database answers in time, neither the reaper nor the startup
\* sweep takes a row from the worker that is on it.
THEOREM ReapsOnlyAbandonedHolds ==
  ASSUME DatabaseStalls = FALSE PROVE Spec => ReapsOnlyAbandoned
<1>1. Ownership /\ [Next]_vars =>
        [\A r \in Row : status[r] = "processing" /\ status'[r] = "pending"
                        => \A w \in Worker : ~Holds(w, r)]_vars
  <2> SUFFICES ASSUME Ownership, [Next]_vars, NEW r \in Row, NEW w \in Worker,
                      status[r] = "processing", status'[r] = "pending", Holds(w, r)
               PROVE FALSE
    OBVIOUS
  <2>1. Timed(w) /\ row[w] = r
    BY DEF Timed, Holds
  <2>2. age[r] <= Lease
    BY <2>1, LeaseAssumption DEF Ownership, FreshInv, TypeOK
  <2>3. r \notin Stale
    BY <2>2, LeaseAssumption DEF Stale, Ownership, TypeOK
  <2>4. ASSUME NEW v \in Worker, RecordSuccess(v) \/ RecordFailure(v) \/ RecordBadPhone(v)
        PROVE FALSE
    BY <2>4 DEF RecordSuccess, RecordFailure, RecordBadPhone, Record, Ownership, TypeOK
  <2>5. QED
    BY <2>3, <2>4, StatusSteps DEF Enqueue, RequeueStale, MarkClaimed
<1>2. QED
  BY <1>1, OwnershipCorrect, PTL DEF Spec, ReapsOnlyAbandoned

LEMMA SettledStep ==
  ASSUME DatabaseStalls = FALSE, Ownership, [Next]_vars,
         NEW r \in Row, status[r] \in {"sent", "failed"}
  PROVE  status'[r] = status[r]
<1>1. ASSUME NEW w \in Worker, RecordSuccess(w) \/ RecordFailure(w) \/ RecordBadPhone(w)
      PROVE status'[r] = status[r]
  <2>1. Timed(w)
    BY <1>1 DEF RecordSuccess, RecordFailure, RecordBadPhone, Timed, Working, BeforeCall, AfterCall
  <2>2. row[w] # r
    BY <2>1 DEF Ownership, FreshInv
  <2>3. QED
    BY <1>1, <2>2 DEF RecordSuccess, RecordFailure, RecordBadPhone, Record, Ownership, TypeOK
<1>2. \A w \in Worker : stage[w] = "claiming" => row[w] # r
  BY DEF Ownership, LockInv
<1>3. QED
  BY <1>1, <1>2, StatusSteps DEF Enqueue, RequeueStale, Stale, MarkClaimed

\* As long as the database answers in time, a row once sent or failed stays so:
\* nobody is left working on it who could overwrite its outcome.
THEOREM SettledIsFinalHolds == ASSUME DatabaseStalls = FALSE PROVE Spec => SettledIsFinal
<1>1. Ownership /\ [Next]_vars =>
        [\A r \in Row : status[r] \in {"sent", "failed"} => status'[r] = status[r]]_vars
  BY SettledStep
<1>2. QED
  BY <1>1, OwnershipCorrect, PTL DEF Spec, SettledIsFinal

-----------------------------------------------------------------------------
(***************************************************************************)
(* Each claim sends at most once.  X is the set of rows whose send right   *)
(* the step uses up, by the one worker whose call is outstanding.          *)
(***************************************************************************)
LEMMA SpendGeneral ==
  ASSUME Ownership, SpendInv, TypeOK', NEW X \in SUBSET Row,
         \A r \in X : \E w \in Worker : stage[w] = "calling" /\ row[w] = r /\ stage'[w] \notin Unspent,
         \A r \in X : sends'[r] + orphans'[r] <= sends[r] + orphans[r] + 1,
         \A r \in Row \ X : sends'[r] + orphans'[r] <= sends[r] + orphans[r],
         \A r \in Row : tries'[r] >= tries[r],
         \A r \in Row : status'[r] = "none" => status[r] = "none" /\ tries'[r] = tries[r],
         \A w \in Worker :
           stage'[w] \in Unspent =>
             /\ row'[w] = row[w]
             /\ stage[w] \in Unspent \/ (stage[w] = "claiming" /\ tries'[row[w]] > tries[row[w]])
  PROVE  SpendInv'
<1>1. \A w \in Worker : stage[w] \in Unspent => Timed(w)
  BY DEF Unspent, Timed, Working, BeforeCall, AfterCall, NoTimeout
<1>2. \A w \in Worker : stage[w] \in Unspent \union {"claiming"} => row[w] \in Row
  BY <1>1 DEF Timed, Ownership, HoldInv
<1>3. \A r \in Row : /\ sends[r] \in Nat /\ orphans[r] \in Nat /\ tries[r] \in Nat
                    /\ sends'[r] \in Nat /\ orphans'[r] \in Nat /\ tries'[r] \in Nat
  BY DEF Ownership, TypeOK
<1>4. \A r \in X : sends[r] + orphans[r] < tries[r]
  BY DEF SpendInv, Unspent
<1>5. OneSendPerClaim'
  BY <1>3, <1>4 DEF SpendInv, OneSendPerClaim
<1>6. ASSUME NEW w \in Worker, stage'[w] \in Unspent
      PROVE sends'[row'[w]] + orphans'[row'[w]] < tries'[row'[w]]
  <2> DEFINE r == row[w]
  <2>1. r \in Row /\ row'[w] = r
    BY <1>2, <1>6
  <2>2. r \notin X
    <3>1. SUFFICES ASSUME r \in X PROVE FALSE
      OBVIOUS
    <3>2. PICK v \in Worker : stage[v] = "calling" /\ row[v] = r /\ stage'[v] \notin Unspent
      BY <3>1
    <3>3. Timed(v) /\ v # w /\ status[r] # "pending"
      BY <1>1, <1>6, <3>2 DEF Unspent, Ownership, FreshInv
    <3>4. CASE stage[w] \in Unspent
      BY <1>1, <3>2, <3>3, <3>4 DEF Ownership, OwnerInv
    <3>5. CASE stage[w] = "claiming"
      BY <3>3, <3>5 DEF Ownership, LockInv
    <3>6. QED
      BY <3>4, <3>5, <1>6
  <2>3. sends'[r] + orphans'[r] <= sends[r] + orphans[r]
    BY <2>1, <2>2
  <2>4. CASE stage[w] \in Unspent
    BY <1>3, <2>1, <2>3, <2>4 DEF SpendInv
  <2>5. CASE stage[w] = "claiming" /\ tries'[r] > tries[r]
    BY <1>3, <2>1, <2>3, <2>5 DEF SpendInv, OneSendPerClaim
  <2>6. QED
    BY <1>6, <2>1, <2>4, <2>5
<1>7. \A r \in Row : status'[r] = "none" => tries'[r] = 0
  BY DEF SpendInv
<1>8. QED
  BY <1>5, <1>6, <1>7 DEF SpendInv

\* Steps that use up no send right.
LEMMA SpendSame ==
  ASSUME Ownership, SpendInv, TypeOK', UNCHANGED <<sends, orphans, tries>>,
         \A r \in Row : status'[r] = "none" => status[r] = "none",
         \A w \in Worker : stage'[w] \in Unspent => row'[w] = row[w] /\ stage[w] \in Unspent
  PROVE  SpendInv'
<1>1. \A r \in Row : sends[r] \in Nat /\ orphans[r] \in Nat /\ tries[r] \in Nat
  BY DEF Ownership, TypeOK
<1>2. {} \in SUBSET Row
  OBVIOUS
<1>3. /\ \A r \in Row \ {} : sends'[r] + orphans'[r] <= sends[r] + orphans[r]
      /\ \A r \in Row : tries'[r] >= tries[r]
  BY <1>1
<1>4. QED
  BY <1>2, <1>3, SpendGeneral

LEMMA SpendStep == ASSUME Ownership, SpendInv, [Next]_vars PROVE SpendInv'
<1>0. TypeOK' /\ TypeOK
  BY TypeStep DEF Ownership
<1> DEFINE NoneBefore == \A r \in Row : status'[r] = "none" => status[r] = "none"
           StillOpen == \A w \in Worker :
                          stage'[w] \in Unspent => row'[w] = row[w] /\ stage[w] \in Unspent
<1>1. ASSUME NEW S \in (SUBSET Row) \ {{}}, NEW t \in Stamp, Enqueue(S, t) PROVE SpendInv'
  BY <1>0, <1>1, SpendSame DEF Enqueue, worker, observed, TypeOK
<1>2. ASSUME NEW p \in Process, Boot(p) \/ Reap(p) PROVE SpendInv'
  BY <1>0, <1>2, SpendSame DEF Boot, Reap, RequeueStale, worker, observed, TypeOK
<1>3. ASSUME NEW p \in Process, Crash(p) PROVE SpendInv'
  <2> DEFINE X == {r \in Row : \E w \in On(p) : row[w] = r /\ stage[w] = "calling"}
  <2>1. PICK C \in SUBSET {w \in On(p) : stage[w] = "claiming"} : MarkClaimed({row[w] : w \in C})
    BY <1>3 DEF Crash
  <2>2. /\ stage' = [w \in Worker |-> IF w \in On(p) THEN "off" ELSE stage[w]]
        /\ row' = [w \in Worker |-> IF w \in On(p) THEN NoRow ELSE row[w]]
        /\ orphans' = [r \in Row |-> IF r \in X THEN orphans[r] + 1 ELSE orphans[r]]
        /\ sends' = sends
        /\ On(p) \in SUBSET Worker
    BY <1>3 DEF Crash, Orphaned, On
  <2>3. \A r \in Row : tries'[r] >= tries[r]
    BY <1>0, <2>1 DEF MarkClaimed, TypeOK
  <2>4. \A r \in Row : status'[r] = "none" => status[r] = "none" /\ tries'[r] = tries[r]
    BY <1>0, <2>1 DEF MarkClaimed, TypeOK
  <2>5. \A r \in X : sends'[r] + orphans'[r] <= sends[r] + orphans[r] + 1
    BY <1>0, <2>2 DEF TypeOK
  <2>6. \A r \in Row \ X : sends'[r] + orphans'[r] <= sends[r] + orphans[r]
    BY <1>0, <2>2 DEF TypeOK
  <2>7. \A r \in X : \E w \in Worker : stage[w] = "calling" /\ row[w] = r /\ stage'[w] \notin Unspent
    BY <2>2 DEF Unspent
  <2>8. \A w \in Worker :
          stage'[w] \in Unspent =>
            /\ row'[w] = row[w]
            /\ stage[w] \in Unspent \/ (stage[w] = "claiming" /\ tries'[row[w]] > tries[row[w]])
    BY <2>2 DEF Unspent
  <2>9. X \in SUBSET Row
    OBVIOUS
  <2> HIDE DEF X
  <2>10. QED
    BY <1>0, <2>3, <2>4, <2>5, <2>6, <2>7, <2>8, <2>9, SpendGeneral, Zenon
<1>4. ASSUME NEW w \in Worker,
             StartWorker(w) \/ Cancel(w) \/ ClaimRollback(w) \/ RecordLost(w) \/ Exit(w)
      PROVE SpendInv'
  <2>1. NoneBefore /\ UNCHANGED <<sends, orphans, tries>>
    BY <1>4 DEF StartWorker, Cancel, ClaimRollback, RecordLost, Exit, table, observed
  <2>2. StillOpen
    BY <1>0, <1>4 DEF StartWorker, Cancel, ClaimRollback, RecordLost, Exit, Goto, Release, Unspent, TypeOK
  <2>3. QED
    BY <1>0, <2>1, <2>2, SpendSame
<1>5. ASSUME NEW w \in Worker, NEW r \in Row, ClaimBegin(w, r) PROVE SpendInv'
  <2>1. StillOpen
    BY <1>0, <1>5 DEF ClaimBegin, Unspent, TypeOK
  <2>2. QED
    BY <1>0, <1>5, <2>1, SpendSame DEF ClaimBegin, table, observed
<1>6. ASSUME NEW w \in Worker, ClaimCommit(w) \/ ClaimLost(w) PROVE SpendInv'
  <2>1. /\ stage[w] = "claiming" /\ row[w] \in Row /\ sends' = sends /\ orphans' = orphans
        /\ MarkClaimed({row[w]})
    BY <1>6 DEF ClaimCommit, ClaimLost, Ownership, HoldInv
  <2>2. \A r \in Row : tries'[r] >= tries[r]
    BY <1>0, <2>1 DEF MarkClaimed, TypeOK
  <2>3. \A r \in Row : status'[r] = "none" => status[r] = "none" /\ tries'[r] = tries[r]
    BY <1>0, <2>1 DEF MarkClaimed, TypeOK
  <2>4. tries'[row[w]] > tries[row[w]]
    BY <1>0, <2>1 DEF MarkClaimed, TypeOK
  <2>5. \A r \in Row \ {} : sends'[r] + orphans'[r] <= sends[r] + orphans[r]
    BY <1>0, <2>1 DEF TypeOK
  <2>6. \A v \in Worker : v # w => stage'[v] = stage[v] /\ row'[v] = row[v]
    BY <1>0, <1>6 DEF ClaimCommit, ClaimLost, Goto, Release, TypeOK
  <2>7. stage'[w] \in Unspent => row'[w] = row[w]
    BY <1>0, <1>6 DEF ClaimCommit, ClaimLost, Goto, Release, TypeOK, Unspent
  <2>8. \A v \in Worker :
          stage'[v] \in Unspent =>
            /\ row'[v] = row[v]
            /\ stage[v] \in Unspent \/ (stage[v] = "claiming" /\ tries'[row[v]] > tries[row[v]])
    BY <2>1, <2>4, <2>6, <2>7
  <2>9. {} \in SUBSET Row
    OBVIOUS
  <2>10. /\ \A r \in {} : \E v \in Worker : stage[v] = "calling" /\ row[v] = r /\ stage'[v] \notin Unspent
         /\ \A r \in {} : sends'[r] + orphans'[r] <= sends[r] + orphans[r] + 1
    OBVIOUS
  <2>11. QED
    BY <1>0, <2>2, <2>5, <2>8, <2>9, <2>3, <2>10, SpendGeneral, Zenon
<1>7. ASSUME NEW w \in Worker,
             Resolve(w) \/ ResolveInvalid(w) \/ PickFails(w) \/ Dispatch(w)
               \/ AnswerSuccess(w) \/ AnswerRefused(w)
      PROVE SpendInv'
  <2>1. StillOpen
    BY <1>0, <1>7 DEF Resolve, ResolveInvalid, PickFails, Dispatch, AnswerSuccess, AnswerRefused,
                      Goto, Unspent, TypeOK
  <2>2. NoneBefore /\ UNCHANGED <<sends, orphans, tries>>
    BY <1>7 DEF Resolve, ResolveInvalid, PickFails, Dispatch, AnswerSuccess, AnswerRefused,
                table, observed
  <2>3. QED
    BY <1>0, <2>1, <2>2, SpendSame
<1>8. ASSUME NEW w \in Worker, ApiDelivers(w) \/ CallFails(w) PROVE SpendInv'
  <2>1. CASE stage[w] = "calling"
    <3>1. row[w] \in Row
      BY <2>1 DEF Ownership, HoldInv, Working, AfterCall
    <3>2. /\ \A r \in {row[w]} : sends'[r] + orphans'[r] <= sends[r] + orphans[r] + 1
          /\ \A r \in Row \ {row[w]} : sends'[r] + orphans'[r] <= sends[r] + orphans[r]
      BY <1>0, <1>8, <3>1 DEF ApiDelivers, CallFails, Orphaned, TypeOK
    <3>3. /\ \A v \in Worker : v # w => stage'[v] = stage[v]
          /\ stage'[w] \notin Unspent /\ row' = row /\ tries' = tries /\ status' = status
      BY <1>0, <1>8 DEF ApiDelivers, CallFails, Goto, Unspent, TypeOK, table
    <3>4. \A r \in Row : tries'[r] >= tries[r]
      BY <1>0, <3>3 DEF TypeOK
    <3>5. {row[w]} \in SUBSET Row
      BY <3>1
    <3>6. QED
      BY <1>0, <2>1, <3>2, <3>3, <3>4, <3>5, SpendGeneral
  <2>2. CASE stage[w] = "delivered"
    <3>1. StillOpen /\ UNCHANGED <<sends, tries, status>>
      BY <1>0, <1>8, <2>2 DEF ApiDelivers, CallFails, Goto, Unspent, TypeOK, table
    <3>2. orphans' = orphans
      BY <1>0, <1>8, <2>2 DEF ApiDelivers, CallFails, Orphaned, TypeOK
    <3>3. QED
      BY <1>0, <3>1, <3>2, SpendSame
  <2>3. QED
    BY <1>8, <2>1, <2>2 DEF ApiDelivers, CallFails
<1>9. ASSUME NEW w \in Worker, RecordSuccess(w) \/ RecordFailure(w) \/ RecordBadPhone(w)
      PROVE SpendInv'
  <2>1. StillOpen /\ NoneBefore
    BY <1>0, <1>9 DEF RecordSuccess, RecordFailure, RecordBadPhone, Record, Release, Unspent, TypeOK
  <2>2. UNCHANGED <<sends, orphans, tries>>
    BY <1>9 DEF RecordSuccess, RecordFailure, RecordBadPhone, Record, observed
  <2>3. QED
    BY <1>0, <2>1, <2>2, SpendSame
<1>10. ASSUME NEW r \in Row, OrphanDelivers(r) \/ OrphanEnds(r) PROVE SpendInv'
  <2>1. \A s \in Row \ {} : sends'[s] + orphans'[s] <= sends[s] + orphans[s]
    BY <1>0, <1>10 DEF OrphanDelivers, OrphanEnds, TypeOK
  <2>2. \A s \in Row : tries'[s] >= tries[s] /\ tries'[s] = tries[s] /\ status'[s] = status[s]
    BY <1>0, <1>10 DEF OrphanDelivers, OrphanEnds, TypeOK, table
  <2>3. StillOpen
    BY <1>10 DEF OrphanDelivers, OrphanEnds, worker
  <2>4. {} \in SUBSET Row
    OBVIOUS
  <2>5. QED
    BY <1>0, <2>1, <2>2, <2>3, <2>4, SpendGeneral
<1>11. CASE Tick \/ UNCHANGED vars
  BY <1>0, <1>11, SpendSame DEF Tick, vars, table, worker, observed
<1>12. QED
  BY <1>1, <1>2, <1>3, <1>4, <1>5, <1>6, <1>7, <1>8, <1>9, <1>10, <1>11 DEF Next, Progress

LEMMA SpendInit == ASSUME Init PROVE SpendInv
BY TypeInit DEF Init, SpendInv, OneSendPerClaim, Unspent, TypeOK

LEMMA SpendCorrect == Spec => []SpendInv
BY OwnershipCorrect, SpendInit, SpendStep, PTL DEF Spec

\* However long the database stalls and whatever is reaped and claimed again,
\* each claim of a row sends its message at most once.
THEOREM OneSendPerClaimHolds == Spec => []OneSendPerClaim
<1>1. SpendInv => OneSendPerClaim
  BY DEF SpendInv
<1>2. QED
  BY <1>1, SpendCorrect, PTL

-----------------------------------------------------------------------------
(* What a settled or answered row stands for.                              *)

LEMMA DeliveredStep == ASSUME Ownership, DeliveredInv, [Next]_vars PROVE DeliveredInv'
<1>0. TypeOK /\ TypeOK'
  BY TypeStep DEF Ownership
<1>1. \A r \in Row : sends[r] > 0 => sends'[r] > 0
  <2>1. ASSUME NEW w \in Worker, ApiDelivers(w) PROVE \A r \in Row : sends[r] > 0 => sends'[r] > 0
    BY <1>0, <2>1 DEF ApiDelivers, TypeOK
  <2>2. ASSUME NEW r \in Row, OrphanDelivers(r) PROVE \A s \in Row : sends[s] > 0 => sends'[s] > 0
    BY <1>0, <2>2 DEF OrphanDelivers, TypeOK
  <2>3. UNCHANGED sends \/ (\E w \in Worker : ApiDelivers(w)) \/ (\E r \in Row : OrphanDelivers(r))
    BY DEF Next, Progress, vars, observed, Enqueue, Boot, Reap, Crash, StartWorker, Cancel,
           ClaimRollback, ClaimLost, RecordLost, Exit, ClaimBegin, ClaimCommit, Resolve,
           ResolveInvalid, PickFails, Dispatch, AnswerSuccess, AnswerRefused, CallFails,
           RecordSuccess, RecordFailure, RecordBadPhone, Record, OrphanEnds, Tick
  <2>4. QED
    BY <2>1, <2>2, <2>3
<1>2. SentWasDelivered'
  <2>1. ASSUME NEW w \in Worker, RecordSuccess(w), NEW r \in Row, status'[r] = "sent"
        PROVE sends[r] > 0
    BY <1>0, <2>1 DEF RecordSuccess, Record, DeliveredInv, SentWasDelivered, TypeOK
  <2>2. ASSUME NEW w \in Worker, RecordFailure(w) \/ RecordBadPhone(w),
               NEW r \in Row, status'[r] = "sent"
        PROVE sends[r] > 0
    BY <1>0, <2>2 DEF RecordFailure, RecordBadPhone, Record, DeliveredInv, SentWasDelivered, TypeOK
  <2>3. ASSUME NEW r \in Row, status'[r] = "sent" PROVE sends[r] > 0
    BY <1>0, <2>1, <2>2, <2>3, StatusSteps
       DEF Enqueue, RequeueStale, MarkClaimed, DeliveredInv, SentWasDelivered, TypeOK
  <2>4. QED
    BY <1>1, <2>3 DEF SentWasDelivered
<1>3. ASSUME NEW w \in Worker, stage'[w] \in {"delivered", "succeeded"} PROVE sends'[row'[w]] > 0
  <2> DEFINE Late == stage[w] \in {"delivered", "succeeded"} /\ row'[w] = row[w]
  <2>1. CASE Late
    <3>1. row[w] \in Row
      BY <2>1 DEF Ownership, HoldInv, Working, AfterCall
    <3>2. QED
      BY <1>1, <2>1, <3>1 DEF DeliveredInv
  <2>2. CASE ApiDelivers(w)
    <3>1. row[w] \in Row
      BY <2>2 DEF ApiDelivers, Ownership, HoldInv, Working, AfterCall
    <3>2. QED
      BY <1>0, <2>2, <3>1 DEF ApiDelivers, Goto, TypeOK
  <2>3. Late \/ ApiDelivers(w)
    <3>1. ASSUME NEW p \in Process, Boot(p) \/ Reap(p) PROVE Late
      BY <1>3, <3>1 DEF Boot, Reap, worker
    <3>2. ASSUME NEW p \in Process, Crash(p) PROVE Late
      <4>1. /\ stage' = [v \in Worker |-> IF v \in On(p) THEN "off" ELSE stage[v]]
            /\ row' = [v \in Worker |-> IF v \in On(p) THEN NoRow ELSE row[v]]
        BY <3>2 DEF Crash
      <4>2. QED
        BY <1>3, <4>1
    <3>3. ASSUME NEW v \in Worker,
                 StartWorker(v) \/ Cancel(v) \/ ClaimRollback(v) \/ ClaimLost(v) \/ RecordLost(v)
                   \/ Exit(v) \/ RecordSuccess(v) \/ RecordFailure(v) \/ RecordBadPhone(v)
          PROVE Late
      BY <1>0, <1>3, <3>3
         DEF StartWorker, Cancel, ClaimRollback, ClaimLost, RecordLost, Exit, RecordSuccess,
             RecordFailure, RecordBadPhone, Record, Release, Goto, TypeOK
    <3>4. ASSUME NEW v \in Worker, NEW r \in Row, ClaimBegin(v, r) PROVE Late
      BY <1>0, <1>3, <3>4 DEF ClaimBegin, TypeOK
    <3>5. ASSUME NEW v \in Worker,
                 ClaimCommit(v) \/ Resolve(v) \/ ResolveInvalid(v) \/ PickFails(v) \/ Dispatch(v)
                   \/ AnswerSuccess(v) \/ AnswerRefused(v) \/ CallFails(v)
          PROVE Late
      BY <1>0, <1>3, <3>5
         DEF ClaimCommit, Resolve, ResolveInvalid, PickFails, Dispatch, AnswerSuccess,
             AnswerRefused, CallFails, Goto, TypeOK
    <3>6. ASSUME NEW v \in Worker, ApiDelivers(v) PROVE Late \/ ApiDelivers(w)
      BY <1>0, <1>3, <3>6 DEF ApiDelivers, Goto, TypeOK
    <3>7. ASSUME NEW r \in Row, OrphanDelivers(r) \/ OrphanEnds(r) PROVE Late
      BY <1>3, <3>7 DEF OrphanDelivers, OrphanEnds, worker
    <3>8. Tick \/ UNCHANGED vars => Late
      BY <1>3 DEF Tick, vars, worker
    <3>9. ASSUME NEW S \in (SUBSET Row) \ {{}}, NEW t \in Stamp, Enqueue(S, t) PROVE Late
      BY <1>3, <3>9 DEF Enqueue, worker
    <3>10. QED
      BY <3>1, <3>2, <3>3, <3>4, <3>5, <3>6, <3>7, <3>8, <3>9 DEF Next, Progress
  <2>4. QED
    BY <2>1, <2>2, <2>3
<1>4. QED
  BY <1>2, <1>3 DEF DeliveredInv

LEMMA DeliveredInit == ASSUME Init PROVE DeliveredInv
BY DEF Init, DeliveredInv, SentWasDelivered

LEMMA DeliveredCorrect == Spec => []DeliveredInv
BY OwnershipCorrect, DeliveredInit, DeliveredStep, PTL DEF Spec

\* A row the status API reports as sent did reach WhatsApp, however long the
\* database stalls.
THEOREM SentWasDeliveredHolds == Spec => []SentWasDelivered
<1>1. DeliveredInv => SentWasDelivered
  BY DEF DeliveredInv
<1>2. QED
  BY <1>1, DeliveredCorrect, PTL

-----------------------------------------------------------------------------
(***************************************************************************)
(* Only doubt duplicates.  A step either leaves the copies of a row, sent  *)
(* or on their way, as they were, or is that of the row's only worker.     *)
(***************************************************************************)
LEMMA DoubtGeneral ==
  ASSUME DatabaseStalls = FALSE, Ownership, TypeOK', DoubtInv,
         \A r \in Row : doubt[r] => doubt'[r],
         \A r \in Row : Settled(r) => Settled(r)',
         \A w \in Worker :
           stage[w] \in Answered =>
             \/ row'[w] = row[w] /\ stage'[w] \in Answered
             \/ doubt'[row[w]]
             \/ status'[row[w]] \in {"sent", "failed"},
         \A r \in Row :
           \/ doubt'[r]
           \/ sends'[r] + orphans'[r] <= sends[r] + orphans[r]
           \/ /\ sends'[r] + orphans'[r] = sends[r] + orphans[r] + 1
              /\ \E w \in Worker : /\ stage[w] = "calling" /\ row[w] = r
                                  /\ row'[w] = r /\ stage'[w] \in Answered
  PROVE  DoubtInv'
<1> SUFFICES ASSUME NEW r \in Row, ~doubt'[r]
             PROVE  \/ sends'[r] + orphans'[r] = 0
                    \/ /\ sends'[r] + orphans'[r] = 1
                       /\ Settled(r)' \/ \E w \in Worker : row'[w] = r /\ stage'[w] \in Answered
  BY DEF DoubtInv
<1>1. /\ sends[r] \in Nat /\ orphans[r] \in Nat
      /\ sends'[r] \in Nat /\ orphans'[r] \in Nat
  BY DEF Ownership, TypeOK
<1>2. \/ sends[r] + orphans[r] = 0
      \/ /\ sends[r] + orphans[r] = 1
         /\ Settled(r) \/ \E w \in Worker : row[w] = r /\ stage[w] \in Answered
  BY DEF DoubtInv
<1>3. (Settled(r) \/ \E w \in Worker : row[w] = r /\ stage[w] \in Answered)
        => Settled(r)' \/ \E w \in Worker : row'[w] = r /\ stage'[w] \in Answered
  BY DEF Settled
<1>4. CASE sends'[r] + orphans'[r] <= sends[r] + orphans[r]
  BY <1>1, <1>2, <1>3, <1>4
<1>5. ASSUME sends'[r] + orphans'[r] = sends[r] + orphans[r] + 1,
             NEW w \in Worker, stage[w] = "calling", row[w] = r,
             row'[w] = r, stage'[w] \in Answered
      PROVE  sends'[r] + orphans'[r] = 1
  <2>1. Timed(w)
    BY <1>5 DEF Timed, Working, AfterCall
  <2>2. ~Settled(r)
    BY <1>5, <2>1 DEF Settled, Ownership, FreshInv
  <2>3. ASSUME NEW v \in Worker, row[v] = r, stage[v] \in Answered PROVE FALSE
    BY <1>5, <2>1, <2>3 DEF Timed, Answered, Working, Ownership, OwnerInv
  <2>4. QED
    BY <1>1, <1>2, <1>5, <2>2, <2>3
<1>6. QED
  BY <1>4, <1>5

LEMMA DoubtStep ==
  ASSUME DatabaseStalls = FALSE, Ownership, DoubtInv, [Next]_vars PROVE DoubtInv'
<1>0. TypeOK /\ TypeOK'
  BY TypeStep DEF Ownership
<1>a. \A w \in Worker : stage[w] \in Working => row[w] \in Row
  BY DEF Ownership, HoldInv
<1>b. \A r \in Row : Settled(r) => Settled(r)'
  BY SettledStep DEF Settled
<1> DEFINE
      DoubtStays == \A r \in Row : doubt[r] => doubt'[r]
      AnswerStays(w) == stage[w] \in Answered =>
                          \/ row'[w] = row[w] /\ stage'[w] \in Answered
                          \/ doubt'[row[w]]
                          \/ status'[row[w]] \in {"sent", "failed"}
      Fewer(r) == sends'[r] + orphans'[r] <= sends[r] + orphans[r]
<1>1. ASSUME UNCHANGED <<sends, orphans, doubt>>, \A w \in Worker : AnswerStays(w)
      PROVE DoubtInv'
  <2>1. DoubtStays /\ \A r \in Row : Fewer(r)
    BY <1>0, <1>1 DEF TypeOK
  <2>2. QED
    BY <1>0, <1>b, <1>1, <2>1, DoubtGeneral
<1>2. ASSUME NEW S \in (SUBSET Row) \ {{}}, NEW t \in Stamp, Enqueue(S, t) PROVE DoubtInv'
  BY <1>1, <1>2 DEF Enqueue, worker, observed
<1>3. ASSUME NEW p \in Process, Boot(p) \/ Reap(p) PROVE DoubtInv'
  BY <1>1, <1>3 DEF Boot, Reap, worker, observed
<1>4. ASSUME NEW p \in Process, Crash(p) PROVE DoubtInv'
  <2>1. /\ stage' = [w \in Worker |-> IF w \in On(p) THEN "off" ELSE stage[w]]
        /\ row' = [w \in Worker |-> IF w \in On(p) THEN NoRow ELSE row[w]]
        /\ sends' = sends
        /\ orphans' = [r \in Row |-> IF \E w \in On(p) : row[w] = r /\ stage[w] = "calling"
                                    THEN orphans[r] + 1 ELSE orphans[r]]
        /\ doubt' = [r \in Row |-> doubt[r] \/ \E w \in On(p) : row[w] = r /\ stage[w] \in AfterCall]
    BY <1>4 DEF Crash, Orphaned, Doubted
  <2>2. DoubtStays
    BY <2>1
  <2>3. ASSUME NEW w \in Worker, stage[w] \in Answered, w \in On(p) PROVE doubt'[row[w]]
    BY <1>a, <2>1, <2>3 DEF Answered, Working
  <2>4. ASSUME NEW w \in Worker, w \notin On(p) PROVE row'[w] = row[w] /\ stage'[w] = stage[w]
    BY <2>1, <2>4
  <2>5. \A w \in Worker : AnswerStays(w)
    BY <2>3, <2>4
  <2>6. ASSUME NEW r \in Row PROVE doubt'[r] \/ Fewer(r)
    <3>1. CASE \E w \in On(p) : row[w] = r /\ stage[w] = "calling"
      BY <2>1, <3>1 DEF AfterCall
    <3>2. CASE ~\E w \in On(p) : row[w] = r /\ stage[w] = "calling"
      BY <1>0, <2>1, <3>2 DEF TypeOK
    <3>3. QED
      BY <3>1, <3>2
  <2>7. QED
    BY <1>0, <1>b, <2>2, <2>5, <2>6, DoubtGeneral
<1>5. ASSUME NEW w \in Worker, StartWorker(w) \/ Cancel(w) \/ ClaimRollback(w) \/ ClaimLost(w) \/ Exit(w)
      PROVE DoubtInv'
  <2>1. UNCHANGED <<sends, orphans, doubt>>
    BY <1>5 DEF StartWorker, Cancel, ClaimRollback, ClaimLost, Exit, observed
  <2>2. \A v \in Worker : AnswerStays(v)
    BY <1>0, <1>5 DEF StartWorker, Cancel, ClaimRollback, ClaimLost, Exit, Release, Goto, Answered,
                      AfterCall, TypeOK
  <2>3. QED
    BY <1>1, <2>1, <2>2
<1>6. ASSUME NEW w \in Worker, RecordLost(w) PROVE DoubtInv'
  <2>1. /\ stage' = [stage EXCEPT ![w] = "idle"] /\ row' = [row EXCEPT ![w] = NoRow]
        /\ sends' = sends /\ orphans' = orphans
        /\ doubt' = [r \in Row |-> doubt[r] \/ (row[w] = r /\ stage[w] \in AfterCall)]
    BY <1>6 DEF RecordLost, Release, Doubted
  <2>2. DoubtStays
    BY <2>1
  <2>3. \A r \in Row : Fewer(r)
    BY <1>0, <2>1 DEF TypeOK
  <2>4. stage[w] \in Answered => doubt'[row[w]]
    BY <1>a, <2>1 DEF Answered, Working
  <2>5. \A v \in Worker : v # w => row'[v] = row[v] /\ stage'[v] = stage[v]
    BY <1>0, <2>1 DEF TypeOK
  <2>6. \A v \in Worker : AnswerStays(v)
    BY <2>4, <2>5
  <2>7. QED
    BY <1>0, <1>b, <2>2, <2>3, <2>6, DoubtGeneral
<1>7. ASSUME NEW w \in Worker, NEW r \in Row, ClaimBegin(w, r) PROVE DoubtInv'
  <2>1. \A v \in Worker : AnswerStays(v)
    BY <1>0, <1>7 DEF ClaimBegin, Answered, AfterCall, TypeOK
  <2>2. QED
    BY <1>1, <1>7, <2>1 DEF ClaimBegin, observed
<1>8. ASSUME NEW w \in Worker,
             ClaimCommit(w) \/ Resolve(w) \/ ResolveInvalid(w) \/ PickFails(w) \/ Dispatch(w)
               \/ AnswerSuccess(w) \/ AnswerRefused(w)
      PROVE DoubtInv'
  <2>1. UNCHANGED <<sends, orphans, doubt>>
    BY <1>8 DEF ClaimCommit, Resolve, ResolveInvalid, PickFails, Dispatch, AnswerSuccess,
                AnswerRefused, observed
  <2>2. \A v \in Worker : AnswerStays(v)
    BY <1>0, <1>8 DEF ClaimCommit, Resolve, ResolveInvalid, PickFails, Dispatch, AnswerSuccess,
                      AnswerRefused, Goto, Answered, AfterCall, TypeOK
  <2>3. QED
    BY <1>1, <2>1, <2>2
<1>9. ASSUME NEW w \in Worker, ApiDelivers(w) \/ CallFails(w) PROVE DoubtInv'
  <2>1. row[w] \in Row /\ stage[w] \in {"calling", "delivered"}
    BY <1>a, <1>9 DEF ApiDelivers, CallFails, Working, AfterCall
  <2>2. /\ \A v \in Worker : v # w => stage'[v] = stage[v]
        /\ stage'[w] \in Answered /\ row' = row /\ doubt' = doubt
    BY <1>0, <1>9 DEF ApiDelivers, CallFails, Goto, Answered, AfterCall, TypeOK
  <2>3. DoubtStays /\ \A v \in Worker : AnswerStays(v)
    BY <2>2
  <2>4. \A r \in Row : r # row[w] => Fewer(r)
    BY <1>0, <1>9, <2>1 DEF ApiDelivers, CallFails, Orphaned, TypeOK
  <2>5. CASE stage[w] = "calling"
    <3>1. sends'[row[w]] + orphans'[row[w]] = sends[row[w]] + orphans[row[w]] + 1
      BY <1>0, <1>9, <2>1, <2>5 DEF ApiDelivers, CallFails, Orphaned, TypeOK
    <3>2. \A r \in Row :
            \/ Fewer(r)
            \/ /\ sends'[r] + orphans'[r] = sends[r] + orphans[r] + 1
               /\ \E v \in Worker : /\ stage[v] = "calling" /\ row[v] = r
                                   /\ row'[v] = r /\ stage'[v] \in Answered
      BY <2>1, <2>2, <2>4, <2>5, <3>1
    <3>3. QED
      BY <1>0, <1>b, <2>3, <3>2, DoubtGeneral
  <2>6. CASE stage[w] = "delivered"
    <3>1. Fewer(row[w])
      BY <1>0, <1>9, <2>1, <2>6 DEF ApiDelivers, CallFails, Orphaned, TypeOK
    <3>2. \A r \in Row : Fewer(r)
      BY <2>4, <3>1
    <3>3. QED
      BY <1>0, <1>b, <2>3, <3>2, DoubtGeneral
  <2>7. QED
    BY <2>1, <2>5, <2>6
<1>10. ASSUME NEW w \in Worker, RecordSuccess(w) \/ RecordFailure(w) \/ RecordBadPhone(w)
       PROVE DoubtInv'
  <2>1. /\ stage' = [stage EXCEPT ![w] = "idle"] /\ row' = [row EXCEPT ![w] = NoRow]
        /\ UNCHANGED <<sends, orphans, doubt>>
    BY <1>10 DEF RecordSuccess, RecordFailure, RecordBadPhone, Record, Release, observed
  <2>2. stage[w] \in Working
    BY <1>10 DEF RecordSuccess, RecordFailure, RecordBadPhone, Working, BeforeCall, AfterCall
  <2>3. status'[row[w]] \in {"sent", "failed"}
    BY <1>0, <1>a, <1>10, <2>2 DEF RecordSuccess, RecordFailure, RecordBadPhone, Record, TypeOK
  <2>4. \A v \in Worker : v # w => row'[v] = row[v] /\ stage'[v] = stage[v]
    BY <1>0, <2>1 DEF TypeOK
  <2>5. \A v \in Worker : AnswerStays(v)
    BY <2>1, <2>3, <2>4
  <2>6. QED
    BY <1>1, <2>1, <2>5
<1>11. ASSUME NEW r \in Row, OrphanDelivers(r) \/ OrphanEnds(r) PROVE DoubtInv'
  <2>1. DoubtStays /\ \A w \in Worker : AnswerStays(w)
    BY <1>11 DEF OrphanDelivers, OrphanEnds, worker
  <2>2. \A s \in Row : Fewer(s)
    BY <1>0, <1>11 DEF OrphanDelivers, OrphanEnds, TypeOK
  <2>3. QED
    BY <1>0, <1>b, <2>1, <2>2, DoubtGeneral
<1>12. CASE Tick \/ UNCHANGED vars
  BY <1>1, <1>12 DEF Tick, vars, worker, observed
<1>13. QED
  BY <1>2, <1>3, <1>4, <1>5, <1>6, <1>7, <1>8, <1>9, <1>10, <1>11, <1>12 DEF Next, Progress

LEMMA DoubtCorrect == ASSUME DatabaseStalls = FALSE PROVE Spec => []DoubtInv
<1>1. Init => DoubtInv
  <2> SUFFICES ASSUME Init, NEW r \in Row PROVE sends[r] + orphans[r] = 0
    BY DEF DoubtInv
  <2> QED
    BY DEF Init
<1>2. Ownership /\ DoubtInv /\ [Next]_vars => DoubtInv'
  BY DoubtStep
<1>3. QED
  BY <1>1, <1>2, OwnershipCorrect, PTL DEF Spec

\* As long as the database answers in time, a message reaches WhatsApp twice
\* only if a claim of it was lost with its request already sent.
THEOREM DuplicateOnlyInDoubtHolds ==
  ASSUME DatabaseStalls = FALSE PROVE Spec => []DuplicateOnlyInDoubt
<1>1. Ownership /\ DoubtInv => DuplicateOnlyInDoubt
  BY DEF Ownership, TypeOK, DoubtInv, DuplicateOnlyInDoubt
<1>2. QED
  BY <1>1, OwnershipCorrect, DoubtCorrect, PTL

-----------------------------------------------------------------------------
(***************************************************************************)
(* The delivery protocol implements the contract.  Most steps leave what   *)
(* the application sees alone; the others are one step of the contract.    *)
(***************************************************************************)

DeliveryInv == Ownership /\ SpendInv /\ DeliveredInv /\ DoubtInv

\* A row that is sent by its current worker, or by an orphan of an earlier
\* one, is the contract's to deliver.
LEMMA DeliverableRow ==
  ASSUME DatabaseStalls = FALSE, DeliveryInv, NEW r \in Row,
         orphans[r] > 0 \/ \E w \in Worker : stage[w] = "calling" /\ row[w] = r
  PROVE  Phase[r] # "none" /\ (sends[r] = 0 \/ doubt[r])
<1>1. sends[r] \in Nat /\ orphans[r] \in Nat
  BY DEF DeliveryInv, Ownership, TypeOK
<1>2. CASE orphans[r] > 0
  <2>1. status[r] # "none"
    BY <1>1, <1>2 DEF DeliveryInv, SpendInv, OneSendPerClaim
  <2>2. sends[r] = 0 \/ doubt[r]
    BY <1>1, <1>2 DEF DeliveryInv, DoubtInv
  <2>3. QED
    BY <2>1, <2>2 DEF Phase
<1>3. CASE \E w \in Worker : stage[w] = "calling" /\ row[w] = r
  <2>1. PICK w \in Worker : stage[w] = "calling" /\ row[w] = r
    BY <1>3
  <2>2. Timed(w)
    BY <2>1 DEF Timed, Working, AfterCall
  <2>3. status[r] = "processing"
    BY <2>1, <2>2 DEF DeliveryInv, Ownership, FreshInv
  <2>4. ASSUME NEW v \in Worker, row[v] = r, stage[v] \in Answered PROVE FALSE
    BY <2>1, <2>2, <2>4 DEF Timed, Answered, Working, DeliveryInv, Ownership, OwnerInv
  <2>5. sends[r] = 0 \/ doubt[r]
    BY <1>1, <2>3, <2>4 DEF DeliveryInv, DoubtInv, Settled
  <2>6. QED
    BY <2>3, <2>5 DEF Phase
<1>4. QED
  BY <1>2, <1>3

LEMMA RefinementInit == ASSUME Init PROVE Contract!ContractInit
BY DEF Init, Phase, Contract!ContractInit

\* Steps the application does not see.
LEMMA RefinementStutter ==
  ASSUME UNCHANGED <<sends, doubt>>,
         \A r \in Row : status'[r] = status[r]
                          \/ {status[r], status'[r]} \subseteq {"pending", "processing"}
  PROVE  UNCHANGED Contract!contract
<1>1. Phase' = Phase
  BY DEF Phase
<1>2. QED
  BY <1>1 DEF Contract!contract

LEMMA RefinementRecord ==
  ASSUME DatabaseStalls = FALSE, DeliveryInv, NEW w \in Worker, stage[w] \in Working,
         NEW outcome \in {"sent", "failed"}, Record(w, outcome),
         outcome = "sent" => stage[w] = "succeeded"
  PROVE  Contract!Settle(row[w], outcome) /\ row[w] \in Row
<1>1. row[w] \in Row /\ status[row[w]] = "processing"
  BY DEF DeliveryInv, Ownership, HoldInv, FreshInv, Timed
<1>2. outcome = "sent" => sends[row[w]] > 0
  BY DEF DeliveryInv, DeliveredInv
<1>3. /\ status' = [status EXCEPT ![row[w]] = outcome] /\ UNCHANGED <<sends, doubt>>
      /\ status \in [Row -> Status]
  BY DEF Record, observed, DeliveryInv, Ownership, TypeOK
<1>4. Phase[row[w]] = "queued"
  BY <1>1 DEF Phase
<1>5. Phase' = [Phase EXCEPT ![row[w]] = outcome]
  BY <1>1, <1>3 DEF Phase
<1>6. QED
  BY <1>1, <1>2, <1>3, <1>4, <1>5 DEF Contract!Settle

\* Claims given up unrecorded leave their rows, which are still queued, in doubt.
LEMMA RefinementDoubt ==
  ASSUME DatabaseStalls = FALSE, DeliveryInv, NEW W \in SUBSET Worker, Doubted(W),
         sends' = sends,
         \A r \in Row : status'[r] = status[r]
                          \/ {status[r], status'[r]} \subseteq {"pending", "processing"}
  PROVE  \E S \in SUBSET Row : Contract!LeaveInDoubt(S)
<1> DEFINE S == {r \in Row : \E w \in W : row[w] = r /\ stage[w] \in AfterCall}
<1>1. Phase' = Phase
  BY DEF Phase
<1>2. ASSUME NEW r \in S PROVE Phase[r] = "queued"
  <2>1. PICK w \in W : row[w] = r /\ stage[w] \in AfterCall
    BY <1>2
  <2>2. Timed(w) /\ r \in Row
    BY <1>2, <2>1 DEF Timed, Working
  <2>3. status[r] = "processing"
    BY <2>1, <2>2 DEF DeliveryInv, Ownership, FreshInv
  <2>4. QED
    BY <2>2, <2>3 DEF Phase
<1>3. doubt' = [r \in Row |-> doubt[r] \/ r \in S]
  BY Zenon DEF Doubted
<1>4. S \in SUBSET Row
  OBVIOUS
<1> HIDE DEF S
<1>5. Contract!LeaveInDoubt(S)
  BY <1>1, <1>2, <1>3, Zenon DEF Contract!LeaveInDoubt
<1>6. QED
  BY <1>4, <1>5

LEMMA RefinementStep ==
  ASSUME DatabaseStalls = FALSE, DeliveryInv, [Next]_vars
  PROVE  [Contract!ContractNext]_(Contract!contract)
<1>0. TypeOK /\ TypeOK'
  BY TypeStep DEF DeliveryInv, Ownership
<1>1. ASSUME NEW S \in (SUBSET Row) \ {{}}, NEW t \in Stamp, Enqueue(S, t)
      PROVE  Contract!Submit(S) /\ S \in SUBSET Row
  <2>1. Phase' = [r \in Row |-> IF r \in S THEN "queued" ELSE Phase[r]]
    BY <1>1 DEF Enqueue, Phase
  <2>2. \A r \in S : Phase[r] = "none"
    BY <1>1 DEF Enqueue, Phase
  <2>3. UNCHANGED <<sends, doubt>>
    BY <1>1 DEF Enqueue, observed
  <2>4. QED
    BY <2>1, <2>2, <2>3 DEF Contract!Submit
<1>2. ASSUME NEW p \in Process, Boot(p) \/ Reap(p) PROVE UNCHANGED Contract!contract
  BY <1>0, <1>2, RefinementStutter DEF Boot, Reap, RequeueStale, Stale, observed, TypeOK
<1>3. ASSUME NEW w \in Worker, ClaimCommit(w) \/ ClaimLost(w) PROVE UNCHANGED Contract!contract
  <2>1. status[row[w]] = "pending" /\ MarkClaimed({row[w]}) /\ UNCHANGED <<sends, doubt>>
    BY <1>3 DEF ClaimCommit, ClaimLost, DeliveryInv, Ownership, LockInv
  <2>2. QED
    BY <1>0, <2>1, RefinementStutter DEF MarkClaimed, TypeOK
<1>4. ASSUME NEW p \in Process, Crash(p) PROVE \E S \in SUBSET Row : Contract!LeaveInDoubt(S)
  <2>1. PICK C \in SUBSET {w \in On(p) : stage[w] = "claiming"} : MarkClaimed({row[w] : w \in C})
    BY <1>4 DEF Crash
  <2>2. \A w \in C : status[row[w]] = "pending"
    BY DEF DeliveryInv, Ownership, LockInv, On
  <2>3. \A r \in Row : status'[r] = status[r]
                         \/ {status[r], status'[r]} \subseteq {"pending", "processing"}
    BY <2>1, <2>2 DEF MarkClaimed
  <2>4. Doubted(On(p)) /\ sends' = sends /\ On(p) \in SUBSET Worker
    BY <1>4 DEF Crash, On
  <2>5. QED
    BY <2>3, <2>4, RefinementDoubt
<1>5. ASSUME NEW w \in Worker, RecordLost(w) PROVE \E S \in SUBSET Row : Contract!LeaveInDoubt(S)
  <2>1. Doubted({w}) /\ sends' = sends /\ status' = status /\ {w} \in SUBSET Worker
    BY <1>5 DEF RecordLost, table
  <2>2. QED
    BY <2>1, RefinementDoubt
<1>6. ASSUME NEW w \in Worker, ApiDelivers(w) PROVE Contract!Deliver(row[w]) /\ row[w] \in Row
  <2>1. row[w] \in Row /\ stage[w] = "calling"
    BY <1>6 DEF ApiDelivers, DeliveryInv, Ownership, HoldInv, Working, AfterCall
  <2>2. Phase[row[w]] # "none" /\ (sends[row[w]] = 0 \/ doubt[row[w]])
    BY <2>1, DeliverableRow
  <2>3. Phase' = Phase /\ doubt' = doubt /\ sends' = [sends EXCEPT ![row[w]] = @ + 1]
    BY <1>6 DEF ApiDelivers, table, Phase
  <2>4. QED
    BY <2>1, <2>2, <2>3 DEF Contract!Deliver
<1>7. ASSUME NEW r \in Row, OrphanDelivers(r) PROVE Contract!Deliver(r)
  <2>1. Phase[r] # "none" /\ (sends[r] = 0 \/ doubt[r])
    BY <1>7, DeliverableRow DEF OrphanDelivers
  <2>2. Phase' = Phase /\ doubt' = doubt /\ sends' = [sends EXCEPT ![r] = @ + 1]
    BY <1>7 DEF OrphanDelivers, table, Phase
  <2>3. QED
    BY <2>1, <2>2 DEF Contract!Deliver
<1>8. ASSUME NEW w \in Worker, RecordSuccess(w) PROVE Contract!Settle(row[w], "sent") /\ row[w] \in Row
  BY <1>8, RefinementRecord DEF RecordSuccess, Working, AfterCall
<1>9. ASSUME NEW w \in Worker, RecordFailure(w) \/ RecordBadPhone(w)
      PROVE  Contract!Settle(row[w], "failed") /\ row[w] \in Row
  BY <1>9, RefinementRecord DEF RecordFailure, RecordBadPhone, Working, BeforeCall, AfterCall
<1>10. ASSUME UNCHANGED <<status, sends, doubt>> PROVE UNCHANGED Contract!contract
  BY <1>10, RefinementStutter
<1>11. ASSUME NEW w \in Worker,
              \/ StartWorker(w) \/ Cancel(w) \/ ClaimRollback(w) \/ Exit(w)
              \/ Resolve(w) \/ ResolveInvalid(w) \/ PickFails(w) \/ Dispatch(w)
              \/ AnswerSuccess(w) \/ AnswerRefused(w) \/ CallFails(w)
       PROVE  UNCHANGED <<status, sends, doubt>>
  BY <1>11 DEF StartWorker, Cancel, ClaimRollback, Exit, Resolve, ResolveInvalid,
               PickFails, Dispatch, AnswerSuccess, AnswerRefused, CallFails, table, observed
<1>12. ASSUME NEW r \in Row, OrphanEnds(r) \/ \E w \in Worker : ClaimBegin(w, r)
       PROVE  UNCHANGED <<status, sends, doubt>>
  BY <1>12 DEF ClaimBegin, OrphanEnds, table, observed
<1>13. Tick \/ UNCHANGED vars => UNCHANGED <<status, sends, doubt>>
  BY DEF Tick, vars, table, observed
<1>14. QED
  BY <1>1, <1>2, <1>3, <1>4, <1>5, <1>6, <1>7, <1>8, <1>9, <1>10, <1>11, <1>12, <1>13
     DEF Next, Progress, Contract!ContractNext

\* As long as the database answers in time, claims, reaping, crashes and
\* cancellations are invisible through the outbox's contract.
THEOREM ImplementsContractHolds == ASSUME DatabaseStalls = FALSE PROVE Spec => ImplementsContract
<1>1. Init => Contract!ContractInit
  BY RefinementInit
<1>2. DeliveryInv /\ [Next]_vars => [Contract!ContractNext]_(Contract!contract)
  BY RefinementStep
<1>3. Spec => []DeliveryInv
  <2>1. Ownership /\ SpendInv /\ DeliveredInv /\ DoubtInv => DeliveryInv
    BY DEF DeliveryInv
  <2>2. QED
    BY <2>1, OwnershipCorrect, SpendCorrect, DeliveredCorrect, DoubtCorrect, PTL
<1>4. QED
  BY <1>1, <1>2, <1>3, PTL DEF Spec, ImplementsContract, Contract!ContractSpec

-----------------------------------------------------------------------------
(* Filling the outbox.                                                     *)

CONSTANTS Request, Size, Pool, MaxRequestFaults
VARIABLES today, requestStage, seen, inserted, requestFaults

Filling == INSTANCE OutboxEnqueue
             WITH stage <- requestStage, faults <- requestFaults, MaxFaults <- MaxRequestFaults

\* The instance has a copy of what it takes from FiniteSets.
LEMMA SameFinite == \A S : Filling!IsFiniteSet(S) <=> IsFiniteSet(S)
BY DEF Filling!IsFiniteSet, IsFiniteSet

LEMMA SameCount == \A S : Filling!Cardinality(S) = Cardinality(S)
BY SameFinite DEF Filling!Cardinality, Cardinality

EnqueueAssumptions ==
  /\ Filling!SizeAssumption
  /\ Filling!LimitAssumption
  /\ Filling!BoundAssumption

\* A client's lock has one owner.
LockExclusive == \A r, s \in Filling!Owner : ClientOf[r] = ClientOf[s] => r = s

\* A request has no rows before its transaction has ended.
RowsWereCommitted == \A x \in rows : requestStage[x[1]] \in {"accepted", "failed"}

\* While a request is between its count and its commit, the count stays right
\* and leaves room for it.
CountIsCurrent ==
  \A r \in Request : requestStage[r] = "counted" =>
    /\ seen[r] = Filling!CountToday(r)
    /\ seen[r] + Size[r] <= MaxDaily

EnqueueInv ==
  /\ Filling!TypeOK
  /\ LockExclusive
  /\ RowsWereCommitted
  /\ CountIsCurrent
  /\ Filling!DailyLimit
  /\ Filling!AllOrNothing

-----------------------------------------------------------------------------

\* The rows a commit adds are as many as were inserted.
LEMMA NewRows ==
  ASSUME NEW r \in Request, NEW n \in Nat
  PROVE  /\ IsFiniteSet({<<r, k>> : k \in 1..n})
         /\ Cardinality({<<r, k>> : k \in 1..n}) <= n
<1> DEFINE S == 1..n
           T == {<<r, k>> : k \in 1..n}
           f == [k \in S |-> <<r, k>>]
<1>1. f \in Surjection(S, T)
  BY DEF Surjection
<1>2. IsFiniteSet(S) /\ Cardinality(S) = n
  BY FS_Interval
<1>3. IsFiniteSet(T) /\ Cardinality(T) <= Cardinality(S)
  <2> HIDE DEF S, T, f
  <2> QED BY <1>1, <1>2, FS_Surjection
<1>4. QED BY <1>2, <1>3

LEMMA FiniteRows ==
  ASSUME Filling!TypeOK, NEW T \in SUBSET rows
  PROVE  IsFiniteSet(T) /\ Cardinality(T) \in Nat
BY SameFinite, FS_Subset, FS_CardinalityType DEF Filling!TypeOK

LEMMA CountIsNat ==
  ASSUME Filling!TypeOK, NEW r \in Request
  PROVE  Filling!CountToday(r) \in Nat
<1>1. {x \in Filling!RowsOf(ClientOf[r]) : day[x[1]] >= day[r]} \in SUBSET rows
  BY DEF Filling!RowsOf
<1>2. QED BY SameCount, <1>1, FiniteRows DEF Filling!CountToday

LEMMA InitEnqueue == ASSUME EnqueueAssumptions, Filling!Init PROVE EnqueueInv
<1>1. Filling!TypeOK
  BY SameFinite, FS_EmptySet
     DEF Filling!Init, Filling!TypeOK, Filling!Day, EnqueueAssumptions, Filling!SizeAssumption, Filling!BoundAssumption
<1>2. LockExclusive /\ RowsWereCommitted /\ CountIsCurrent
  BY DEF Filling!Init, LockExclusive, Filling!Owner, RowsWereCommitted, CountIsCurrent
<1>3. Filling!DailyLimit
  <2> SUFFICES ASSUME NEW c \in Client, NEW d \in Filling!Day
               PROVE  Cardinality({x \in Filling!RowsOf(c) : day[x[1]] = d}) <= MaxDaily
    BY SameCount DEF Filling!DailyLimit
  <2>1. {x \in Filling!RowsOf(c) : day[x[1]] = d} = {}
    BY DEF Filling!Init, Filling!RowsOf
  <2>2. Cardinality({}) = 0
    BY FS_EmptySet
  <2>3. 0 <= MaxDaily
    BY DEF EnqueueAssumptions, Filling!LimitAssumption
  <2> QED BY <2>1, <2>2, <2>3
<1>4. Filling!AllOrNothing
  <2> SUFFICES ASSUME NEW r \in Request
               PROVE  /\ {x \in rows : x[1] = r} = {}
                      /\ {<<r, k>> : k \in 1..Size[r]} # {}
                      /\ requestStage[r] = "new"
    BY DEF Filling!AllOrNothing
  <2>1. 1 \in 1..Size[r]
    BY DEF EnqueueAssumptions, Filling!SizeAssumption
  <2> QED BY <2>1 DEF Filling!Init
<1>5. QED BY <1>1, <1>2, <1>3, <1>4 DEF EnqueueInv

\* The rows, and the days of the requests that have some, stay: so do all the
\* counts.
LEMMA RowsUnchanged ==
  ASSUME EnqueueAssumptions, EnqueueInv, rows' = rows, \A x \in rows : day'[x[1]] = day[x[1]]
  PROVE  /\ Filling!DailyLimit'
         /\ \A r \in Request : day'[r] = day[r] => Filling!CountToday(r)' = Filling!CountToday(r)
<1>1. ASSUME NEW c \in Client, NEW d \in Filling!Day
      PROVE  {x \in Filling!RowsOf(c) : day[x[1]] = d}' = {x \in Filling!RowsOf(c) : day[x[1]] = d}
  BY DEF Filling!RowsOf
<1>2. Filling!DailyLimit'
  BY <1>1 DEF Filling!DailyLimit, EnqueueInv
<1>3. ASSUME NEW r \in Request, day'[r] = day[r]
      PROVE  {x \in Filling!RowsOf(ClientOf[r]) : day[x[1]] >= day[r]}'
               = {x \in Filling!RowsOf(ClientOf[r]) : day[x[1]] >= day[r]}
  BY <1>3 DEF Filling!RowsOf
<1>4. QED BY <1>2, <1>3 DEF Filling!CountToday

\* A request ends without rows.
LEMMA EndsEmpty ==
  ASSUME EnqueueAssumptions, EnqueueInv, NEW r \in Request, NEW v \in {"refused", "failed"},
         requestStage[r] \in {"new", "begun", "locked", "counted"},
         requestStage' = [requestStage EXCEPT ![r] = v],
         UNCHANGED <<day, rows>>,
         \A s \in Request : s # r => seen'[s] = seen[s]
  PROVE  /\ LockExclusive' /\ RowsWereCommitted' /\ CountIsCurrent'
         /\ Filling!DailyLimit' /\ Filling!AllOrNothing'
<1>1. LockExclusive'
  BY DEF EnqueueInv, Filling!TypeOK, LockExclusive, Filling!Owner
<1>2. RowsWereCommitted' /\ \A x \in rows : x[1] # r
  BY DEF EnqueueInv, Filling!TypeOK, RowsWereCommitted
<1>3. Filling!DailyLimit' /\ \A s \in Request : Filling!CountToday(s)' = Filling!CountToday(s)
  BY RowsUnchanged
<1>4. CountIsCurrent'
  BY <1>3 DEF EnqueueInv, Filling!TypeOK, CountIsCurrent
<1>5. Filling!AllOrNothing'
  <2>1. {<<r, k>> : k \in 1..Size[r]} # {}
    <3>1. 1 \in 1..Size[r]
      BY DEF EnqueueAssumptions, Filling!SizeAssumption
    <3> QED BY <3>1
  <2>2. {x \in rows : x[1] = r} = {}
    BY <1>2
  <2> QED
    BY <2>1, <2>2 DEF Filling!AllOrNothing, EnqueueInv, Filling!TypeOK
<1>6. QED BY <1>1, <1>2, <1>3, <1>4, <1>5

\* The commit of a counted request keeps the limit, whatever its caller is told.
LEMMA Settles ==
  ASSUME EnqueueAssumptions, EnqueueInv, NEW r \in Request, NEW v \in {"accepted", "failed"},
         requestStage[r] = "counted", inserted[r] = Size[r],
         Filling!Committed(r),
         requestStage' = [requestStage EXCEPT ![r] = v],
         UNCHANGED <<today, day, seen, inserted>>
  PROVE  /\ rows' \subseteq Request \X (Nat \ {0}) /\ IsFiniteSet(rows')
         /\ LockExclusive' /\ RowsWereCommitted' /\ CountIsCurrent'
         /\ Filling!DailyLimit' /\ Filling!AllOrNothing'
<1> DEFINE New == {<<r, k>> : k \in 1..Size[r]}
<1>0. rows' = rows \union New /\ Size[r] \in Nat
  BY DEF Filling!Committed, EnqueueAssumptions, Filling!SizeAssumption
<1>1. /\ \A x \in New : x[1] = r /\ x \in Request \X (Nat \ {0})
      /\ New # {}
  <2>1. 1 \in 1..Size[r]
    BY DEF EnqueueAssumptions, Filling!SizeAssumption
  <2>2. New # {}
    BY <2>1
  <2>3. \A k \in 1..Size[r] : k \in Nat \ {0}
    BY <1>0
  <2> QED BY <2>2, <2>3
<1>2. IsFiniteSet(New) /\ Cardinality(New) <= Size[r] /\ Cardinality(New) \in Nat
  BY <1>0, NewRows, FS_CardinalityType
<1> HIDE DEF New
<1>3. rows' \subseteq Request \X (Nat \ {0}) /\ IsFiniteSet(rows')
  BY SameFinite, <1>0, <1>1, <1>2, FS_Union DEF EnqueueInv, Filling!TypeOK
<1>4. LockExclusive'
  BY DEF EnqueueInv, Filling!TypeOK, LockExclusive, Filling!Owner
<1>5. RowsWereCommitted' /\ \A x \in rows : x[1] # r
  BY <1>0, <1>1 DEF EnqueueInv, Filling!TypeOK, RowsWereCommitted
<1>6. CountIsCurrent'
  <2> SUFFICES ASSUME NEW s \in Request, requestStage'[s] = "counted"
               PROVE  seen[s] = Filling!CountToday(s)' /\ seen[s] + Size[s] <= MaxDaily
    BY DEF CountIsCurrent
  <2>1. s # r /\ requestStage[s] = "counted"
    BY DEF EnqueueInv, Filling!TypeOK
  <2>2. ClientOf[s] # ClientOf[r]
    BY <2>1 DEF EnqueueInv, LockExclusive, Filling!Owner
  <2>3. {x \in Filling!RowsOf(ClientOf[s]) : day[x[1]] >= day[s]}'
          = {x \in Filling!RowsOf(ClientOf[s]) : day[x[1]] >= day[s]}
    BY <1>0, <1>1, <2>2 DEF Filling!RowsOf
  <2>4. Filling!CountToday(s)' = Filling!CountToday(s)
    BY <2>3 DEF Filling!CountToday
  <2> QED BY <2>1, <2>4 DEF EnqueueInv, CountIsCurrent
<1>7. Filling!DailyLimit'
  <2> SUFFICES ASSUME NEW c \in Client, NEW d \in Filling!Day
               PROVE  Cardinality({x \in Filling!RowsOf(c)' : day[x[1]] = d}) <= MaxDaily
    BY SameCount DEF Filling!DailyLimit
  <2> DEFINE Old == {x \in Filling!RowsOf(c) : day[x[1]] = d}
             Now == {x \in Filling!RowsOf(c)' : day[x[1]] = d}
  <2>1. CASE c = ClientOf[r] /\ d = day[r]
    <3> DEFINE Later == {x \in Filling!RowsOf(ClientOf[r]) : day[x[1]] >= day[r]}
    <3>1. Cardinality(Later) + Size[r] <= MaxDaily
      BY SameCount DEF EnqueueInv, CountIsCurrent, Filling!CountToday
    <3>2. Now = Old \union New
      BY <1>0, <1>1, <2>1 DEF Filling!RowsOf
    <3>3. Later \in SUBSET rows /\ Old \in SUBSET Later /\ Old \in SUBSET rows
      BY <2>1 DEF Filling!RowsOf, EnqueueInv, Filling!TypeOK, Filling!Day
    <3>4. /\ IsFiniteSet(Later) /\ Cardinality(Later) \in Nat
          /\ IsFiniteSet(Old) /\ Cardinality(Old) \in Nat
      BY <3>3, FiniteRows DEF EnqueueInv
    <3> HIDE DEF Later, Old, Now
    <3>5. Cardinality(Old) <= Cardinality(Later)
      BY <3>3, <3>4, FS_Subset
    <3>6. Cardinality(Now) = Cardinality(Old) + Cardinality(New) - Cardinality(Old \cap New)
      BY <3>2, <3>4, <1>2, FS_Union
    <3>7. Cardinality(Old \cap New) \in Nat
      <4>1. Old \cap New \in SUBSET Old
        OBVIOUS
      <4> QED BY <4>1, <3>4, FS_Subset, FS_CardinalityType
    <3>8. Cardinality(Now) <= MaxDaily
      BY <1>0, <1>2, <3>1, <3>4, <3>5, <3>6, <3>7 DEF EnqueueAssumptions, Filling!LimitAssumption
    <3> QED BY <3>8 DEF Now
  <2>2. CASE ~(c = ClientOf[r] /\ d = day[r])
    <3>1. Now = Old
      BY <1>0, <1>1, <2>2 DEF Filling!RowsOf
    <3> QED BY SameCount, <3>1 DEF EnqueueInv, Filling!DailyLimit
  <2> QED BY <2>1, <2>2
<1>8. Filling!AllOrNothing'
  <2> SUFFICES ASSUME NEW s \in Request
               PROVE  LET stored == {x \in rows' : x[1] = s}
                          all    == {<<s, k>> : k \in 1..Size[s]}
                      IN /\ stored \in {{}, all}
                         /\ requestStage'[s] = "accepted" => stored = all
                         /\ requestStage'[s] # "failed" /\ stored = all => requestStage'[s] = "accepted"
    BY DEF Filling!AllOrNothing
  <2>1. CASE s = r
    <3>1. {x \in rows' : x[1] = r} = New
      BY <1>0, <1>1, <1>5
    <3>2. requestStage'[r] = v
      BY DEF EnqueueInv, Filling!TypeOK
    <3> QED BY <2>1, <3>1, <3>2 DEF New
  <2>2. CASE s # r
    <3>1. {x \in rows' : x[1] = s} = {x \in rows : x[1] = s}
      BY <1>0, <1>1, <2>2
    <3>2. requestStage'[s] = requestStage[s]
      BY <2>2 DEF EnqueueInv, Filling!TypeOK
    <3> QED BY <3>1, <3>2 DEF EnqueueInv, Filling!AllOrNothing
  <2> QED BY <2>1, <2>2
<1>9. QED BY <1>3, <1>4, <1>5, <1>6, <1>7, <1>8

\* A request moves on within its open transaction.
LEMMA MovesOn ==
  ASSUME EnqueueAssumptions, EnqueueInv, NEW r \in Request, NEW v \in {"begun", "locked", "counted"},
         requestStage[r] \in {"new", "begun", "locked", "counted"},
         requestStage' = [requestStage EXCEPT ![r] = v],
         rows' = rows, \A x \in rows : day'[x[1]] = day[x[1]]
  PROVE  RowsWereCommitted' /\ Filling!DailyLimit' /\ Filling!AllOrNothing'
<1>1. RowsWereCommitted' /\ \A x \in rows : x[1] # r
  BY DEF EnqueueInv, Filling!TypeOK, RowsWereCommitted
<1>2. Filling!DailyLimit'
  BY RowsUnchanged
<1>3. Filling!AllOrNothing'
  <2>1. {<<r, k>> : k \in 1..Size[r]} # {}
    <3>1. 1 \in 1..Size[r]
      BY DEF EnqueueAssumptions, Filling!SizeAssumption
    <3> QED BY <3>1
  <2>2. {x \in rows : x[1] = r} = {}
    BY <1>1
  <2> QED
    BY <2>1, <2>2 DEF Filling!AllOrNothing, EnqueueInv, Filling!TypeOK
<1>4. QED BY <1>1, <1>2, <1>3

-----------------------------------------------------------------------------

LEMMA SizeIsNat == ASSUME EnqueueAssumptions, NEW r \in Request PROVE Size[r] \in Nat /\ Size[r] > 0
<1>1. Size[r] \in Nat \ {0}
  BY DEF EnqueueAssumptions, Filling!SizeAssumption
<1>2. QED BY <1>1

LEMMA EnqueueTypeStep == ASSUME EnqueueAssumptions, EnqueueInv,
         [Filling!Next]_(Filling!vars) PROVE Filling!TypeOK'
<1>0. Filling!TypeOK
  BY DEF EnqueueInv
<1>1. CASE Filling!Midnight
  BY <1>0, <1>1
     DEF Filling!Midnight, Filling!TypeOK, Filling!Day, EnqueueAssumptions, Filling!BoundAssumption
<1>2. ASSUME NEW r \in Request, Filling!Progress(r) \/ Filling!Rollback(r) \/ Filling!CommitLost(r)
      PROVE  Filling!TypeOK'
  <2>1. CASE Filling!Begin(r)
    BY <1>0, <2>1 DEF Filling!Begin, Filling!TypeOK
  <2>2. CASE Filling!Lock(r)
    BY <1>0, <2>2 DEF Filling!Lock, Filling!TypeOK
  <2>3. CASE Filling!Count(r)
    <3>1. Filling!CountToday(r) \in Nat
      BY <1>0, CountIsNat
    <3> QED BY <1>0, <2>3, <3>1 DEF Filling!Count, Filling!TypeOK, Filling!Answer
  <2>4. CASE Filling!Insert(r)
    <3>1. inserted' = [inserted EXCEPT ![r] = inserted[r] + 1]
      BY <2>4 DEF Filling!Insert
    <3>2. inserted[r] + 1 \in Nat /\ inserted[r] + 1 <= Size[r]
      BY <1>0, <2>4, SizeIsNat DEF Filling!Insert, Filling!TypeOK
    <3>3. inserted' \in [Request -> Nat]
      BY <1>0, <3>1, <3>2 DEF Filling!TypeOK
    <3>4. \A s \in Request : inserted'[s] <= Size[s]
      BY <1>0, <3>1, <3>2 DEF Filling!TypeOK
    <3> QED BY <1>0, <2>4, <3>3, <3>4 DEF Filling!Insert, Filling!TypeOK
  <2>5. CASE Filling!Commit(r)
    <3>1. rows' \subseteq Request \X (Nat \ {0}) /\ IsFiniteSet(rows')
      BY <2>5, Settles DEF Filling!Commit
    <3> QED BY SameFinite, <1>0, <2>5, <3>1 DEF Filling!Commit, Filling!TypeOK, Filling!Answer
  <2>6. CASE Filling!Rollback(r)
    <3>1. inserted' = [inserted EXCEPT ![r] = 0]
      BY <2>6 DEF Filling!Rollback
    <3>2. 0 \in Nat /\ 0 <= Size[r]
      BY SizeIsNat
    <3>3. inserted' \in [Request -> Nat]
      BY <1>0, <3>1, <3>2 DEF Filling!TypeOK
    <3>4. \A s \in Request : inserted'[s] <= Size[s]
      BY <1>0, <3>1, <3>2 DEF Filling!TypeOK
    <3> QED BY <1>0, <2>6, <3>3, <3>4
         DEF Filling!Rollback, Filling!Fault, Filling!TypeOK, Filling!Answer, EnqueueAssumptions, Filling!BoundAssumption
  <2>7. CASE Filling!CommitLost(r)
    <3>1. rows' \subseteq Request \X (Nat \ {0}) /\ IsFiniteSet(rows')
      BY <2>7, Settles DEF Filling!CommitLost, Filling!Fault
    <3> QED BY SameFinite, <1>0, <2>7, <3>1
         DEF Filling!CommitLost, Filling!Fault, Filling!TypeOK, Filling!Answer, EnqueueAssumptions, Filling!BoundAssumption
  <2>8. QED BY <1>2, <2>1, <2>2, <2>3, <2>4, <2>5, <2>6, <2>7 DEF Filling!Progress
<1>3. CASE UNCHANGED Filling!vars
  BY <1>0, <1>3 DEF Filling!vars, Filling!TypeOK
<1>4. QED BY <1>1, <1>2, <1>3 DEF Filling!Next

LEMMA RequestStep ==
  ASSUME EnqueueAssumptions, EnqueueInv, NEW r \in Request,
           Filling!Progress(r) \/ Filling!Rollback(r) \/ Filling!CommitLost(r)
  PROVE  /\ LockExclusive' /\ RowsWereCommitted' /\ CountIsCurrent'
         /\ Filling!DailyLimit' /\ Filling!AllOrNothing'
<1>1. CASE Filling!Begin(r)
  <2>1. \A x \in rows : x[1] # r
    BY <1>1 DEF Filling!Begin, EnqueueInv, RowsWereCommitted
  <2>2. /\ \A x \in rows : day'[x[1]] = day[x[1]]
        /\ \A s \in Request : s # r => day'[s] = day[s] /\ requestStage'[s] = requestStage[s]
    BY <1>1, <2>1 DEF Filling!Begin, EnqueueInv, Filling!TypeOK
  <2>3. RowsWereCommitted' /\ Filling!DailyLimit' /\ Filling!AllOrNothing'
    BY <1>1, <2>2, MovesOn DEF Filling!Begin
  <2>4. LockExclusive'
    BY <1>1 DEF Filling!Begin, EnqueueInv, Filling!TypeOK, LockExclusive, Filling!Owner
  <2>5. ASSUME NEW s \in Request, requestStage'[s] = "counted"
        PROVE  s # r /\ requestStage[s] = "counted" /\ Filling!CountToday(s)' = Filling!CountToday(s)
    <3>1. s # r
      BY <1>1, <2>5 DEF Filling!Begin, EnqueueInv, Filling!TypeOK
    <3>2. Filling!CountToday(s)' = Filling!CountToday(s)
      BY <1>1, <2>2, <3>1, RowsUnchanged DEF Filling!Begin
    <3> QED BY <2>2, <2>5, <3>1, <3>2
  <2>6. CountIsCurrent'
    BY <1>1, <2>5 DEF Filling!Begin, EnqueueInv, CountIsCurrent
  <2> QED BY <2>3, <2>4, <2>6
<1>2. CASE Filling!Lock(r)
  <2>1. RowsWereCommitted' /\ Filling!DailyLimit' /\ Filling!AllOrNothing'
    BY <1>2, MovesOn DEF Filling!Lock
  <2>2. LockExclusive'
    BY <1>2 DEF Filling!Lock, EnqueueInv, Filling!TypeOK, LockExclusive, Filling!Owner
  <2>3. \A s \in Request : Filling!CountToday(s)' = Filling!CountToday(s)
    BY <1>2, RowsUnchanged DEF Filling!Lock
  <2>4. CountIsCurrent'
    BY <1>2, <2>3 DEF Filling!Lock, EnqueueInv, Filling!TypeOK, CountIsCurrent
  <2> QED BY <2>1, <2>2, <2>4
<1>3. CASE Filling!Count(r)
  <2>1. \A s \in Request : Filling!CountToday(s)' = Filling!CountToday(s)
    BY <1>3, RowsUnchanged DEF Filling!Count
  <2>2. CASE Filling!OverLimit(r, Filling!CountToday(r))
    BY <1>3, <2>2, EndsEmpty DEF Filling!Count, EnqueueInv, Filling!TypeOK
  <2>3. CASE ~Filling!OverLimit(r, Filling!CountToday(r))
    <3>1. RowsWereCommitted' /\ Filling!DailyLimit' /\ Filling!AllOrNothing'
      BY <1>3, <2>3, MovesOn DEF Filling!Count
    <3>2. LockExclusive'
      BY <1>3 DEF Filling!Count, EnqueueInv, Filling!TypeOK, LockExclusive, Filling!Owner
    <3>3. Filling!CountToday(r) \in Nat
      BY CountIsNat DEF EnqueueInv
    <3>4. Filling!CountToday(r) + Size[r] <= MaxDaily
      BY <2>3, <3>3
         DEF Filling!OverLimit, EnqueueAssumptions, Filling!SizeAssumption, Filling!LimitAssumption
    <3>5. CountIsCurrent'
      BY <1>3, <2>1, <3>4 DEF Filling!Count, EnqueueInv, Filling!TypeOK, CountIsCurrent
    <3> QED BY <3>1, <3>2, <3>5
  <2> QED BY <2>2, <2>3
<1>4. CASE Filling!Insert(r)
  <2>1. \A s \in Request : Filling!CountToday(s)' = Filling!CountToday(s)
    BY <1>4, RowsUnchanged DEF Filling!Insert
  <2>2. Filling!DailyLimit'
    BY <1>4, RowsUnchanged DEF Filling!Insert
  <2>3. CountIsCurrent'
    BY <1>4, <2>1 DEF Filling!Insert, EnqueueInv, CountIsCurrent
  <2>4. LockExclusive' /\ RowsWereCommitted' /\ Filling!AllOrNothing'
    BY <1>4
       DEF Filling!Insert, EnqueueInv, LockExclusive, Filling!Owner, RowsWereCommitted, Filling!AllOrNothing
  <2> QED BY <2>2, <2>3, <2>4
<1>5. CASE Filling!Commit(r)
  BY <1>5, Settles DEF Filling!Commit
<1>6. CASE Filling!Rollback(r)
  BY <1>6, EndsEmpty DEF Filling!Rollback, Filling!Open
<1>7. CASE Filling!CommitLost(r)
  BY <1>7, Settles DEF Filling!CommitLost
<1>8. QED BY <1>1, <1>2, <1>3, <1>4, <1>5, <1>6, <1>7 DEF Filling!Progress

LEMMA NextEnqueue == ASSUME EnqueueAssumptions, EnqueueInv, [Filling!Next]_(Filling!vars) PROVE EnqueueInv'
<1>1. Filling!TypeOK'
  BY EnqueueTypeStep
<1>2. CASE Filling!Midnight \/ UNCHANGED Filling!vars
  <2>1. UNCHANGED <<requestStage, day, seen, inserted, rows>>
    BY <1>2 DEF Filling!Midnight, Filling!vars
  <2>2. Filling!DailyLimit' /\ \A s \in Request : Filling!CountToday(s)' = Filling!CountToday(s)
    BY <2>1, RowsUnchanged
  <2>3. CountIsCurrent'
    BY <2>1, <2>2 DEF EnqueueInv, CountIsCurrent
  <2>4. LockExclusive' /\ RowsWereCommitted' /\ Filling!AllOrNothing'
    BY <2>1 DEF EnqueueInv, LockExclusive, Filling!Owner, RowsWereCommitted, Filling!AllOrNothing
  <2> QED BY <1>1, <2>2, <2>3, <2>4 DEF EnqueueInv
<1>3. CASE \E r \in Request : Filling!Progress(r) \/ Filling!Rollback(r) \/ Filling!CommitLost(r)
  BY <1>1, <1>3, RequestStep DEF EnqueueInv
<1>4. QED BY <1>2, <1>3 DEF Filling!Next

\* The strengthened invariant holds in every reachable state.
THEOREM EnqueueInvariant == ASSUME EnqueueAssumptions PROVE Filling!Spec => []EnqueueInv
<1>1. Filling!Init => EnqueueInv
  BY InitEnqueue
<1>2. EnqueueInv /\ [Filling!Next]_(Filling!vars) => EnqueueInv'
  BY NextEnqueue
<1>3. QED BY <1>1, <1>2, PTL DEF Filling!Spec

\* Every variable of the enqueue transactions keeps its type.
THEOREM EnqueueTypeCorrect == ASSUME EnqueueAssumptions PROVE Filling!Spec => []Filling!TypeOK
<1>1. EnqueueInv => Filling!TypeOK
  BY DEF EnqueueInv
<1>2. QED BY <1>1, EnqueueInvariant, PTL

\* No client ever stores more rows of one day than EnqueueOutbox*WithLimit
\* allows, however many requests run and wherever midnight falls.
THEOREM DailyLimitHolds == ASSUME EnqueueAssumptions PROVE Filling!Spec => []DailyLimit
<1>1. EnqueueInv => DailyLimit
  BY SameCount DEF EnqueueInv, Filling!DailyLimit, Filling!RowsOf, Filling!Day, DailyLimit, RowsOf, Day
<1>2. QED BY <1>1, EnqueueInvariant, PTL

\* A batch is stored whole or not at all.
THEOREM AllOrNothingHolds == ASSUME EnqueueAssumptions PROVE Filling!Spec => []Filling!AllOrNothing
<1>1. EnqueueInv => Filling!AllOrNothing
  BY DEF EnqueueInv
<1>2. QED BY <1>1, EnqueueInvariant, PTL
=============================================================================
