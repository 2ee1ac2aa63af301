--------------------------- MODULE OutboxEnqueue ---------------------------
(***************************************************************************)
(* Filling the outbox (internal/model/outbox.go): each request runs one    *)
(* transaction that takes the client's advisory lock, counts what the      *)
(* client enqueued today, refuses what would exceed the daily limit, and   *)
(* inserts the rows of the request one by one before it commits.           *)
(*                                                                         *)
(* Requests of all clients share a bounded connection pool.  "Today" and   *)
(* the date the rows get are both fixed when the transaction begins, which *)
(* may be long before it gets the lock: midnight can fall in between, and  *)
(* a transaction of the new day can overtake one of the old.               *)
(***************************************************************************)
EXTENDS OutboxQuota

CONSTANTS
  Request,    \* enqueue requests
  Size,       \* how many messages it carries (1 for the single endpoint)
  Pool,       \* connections in the pool
  MaxFaults   \* bound: failed database calls and requests given up

ASSUME ClientAssumption == ClientOf \in [Request -> Client]
ASSUME SizeAssumption   == Size \in [Request -> Nat \ {0}]
ASSUME LimitAssumption  == MaxDaily \in Nat /\ Pool \in Nat \ {0}
ASSUME BoundAssumption  == LastDay \in Nat /\ MaxFaults \in Nat

VARIABLES
  today,
  stage,     \* how far each request is
  seen,      \* what its transaction counted
  inserted,  \* how many of its rows it has inserted, not yet committed
  faults

vars == <<today, stage, day, seen, inserted, rows, faults>>

Answer == {"accepted", "refused", "failed"}

\* Requests whose transaction is open, and those among them that hold their
\* client's advisory lock.
Open == {r \in Request : stage[r] \in {"begun", "locked", "counted"}}

\* Deviation: a refused request returns without ending its transaction.
RefusedOwner == {r \in Request : stage[r] \in {"locked", "counted", "refused"}}

Owner == {r \in Request : stage[r] \in {"locked", "counted"}}

-----------------------------------------------------------------------------

Init ==
  /\ today = 0
  /\ stage = [r \in Request |-> "new"]
  /\ day = [r \in Request |-> 0]
  /\ seen = [r \in Request |-> 0]
  /\ inserted = [r \in Request |-> 0]
  /\ rows = {}
  /\ faults = 0

Midnight ==
  /\ today < LastDay
  /\ today' = today + 1
  /\ UNCHANGED <<stage, day, seen, inserted, rows, faults>>

\* BeginTx: waits for a connection, and fixes NOW() and CURRENT_DATE.
Begin(r) ==
  /\ stage[r] = "new"
  /\ Cardinality(Open) < Pool
  /\ stage' = [stage EXCEPT ![r] = "begun"]
  /\ day' = [day EXCEPT ![r] = today]
  /\ UNCHANGED <<today, seen, inserted, rows, faults>>

\* pg_advisory_xact_lock, held until the transaction ends.
Lock(r) ==
  /\ stage[r] = "begun"
  /\ \A s \in Owner : ClientOf[s] # ClientOf[r]
  /\ stage' = [stage EXCEPT ![r] = "locked"]
  /\ UNCHANGED <<today, day, seen, inserted, rows, faults>>

\* Deviation: only the rows of the day on which the count is made.
CountSameDay(r) == Cardinality({x \in RowsOf(ClientOf[r]) : day[x[1]] = today})

\* enqueueCountToday counts the client's rows from the transaction's day on.
CountToday(r) == Cardinality({x \in RowsOf(ClientOf[r]) : day[x[1]] >= day[r]})

OverLimit(r, n) == n + Size[r] > MaxDaily

Count(r) ==
  /\ stage[r] = "locked"
  /\ seen' = [seen EXCEPT ![r] = CountToday(r)]
  /\ stage' = [stage EXCEPT ![r] = IF OverLimit(r, CountToday(r)) THEN "refused" ELSE "counted"]
  /\ UNCHANGED <<today, day, inserted, rows, faults>>

Insert(r) ==
  /\ stage[r] = "counted"
  /\ inserted[r] < Size[r]
  /\ inserted' = [inserted EXCEPT ![r] = @ + 1]
  /\ UNCHANGED <<today, stage, day, seen, rows, faults>>

\* What committing r's transaction adds to the table.
Committed(r) == rows' = rows \union {<<r, k>> : k \in 1..inserted[r]}

Commit(r) ==
  /\ stage[r] = "counted"
  /\ inserted[r] = Size[r]
  /\ Committed(r)
  /\ stage' = [stage EXCEPT ![r] = "accepted"]
  /\ UNCHANGED <<today, day, seen, inserted, faults>>

Fault == faults < MaxFaults /\ faults' = faults + 1

\* A call fails or the caller gives up: the transaction is rolled back.
Rollback(r) ==
  /\ stage[r] = "new" \/ r \in Open
  /\ Fault
  /\ stage' = [stage EXCEPT ![r] = "failed"]
  /\ inserted' = [inserted EXCEPT ![r] = 0]
  /\ UNCHANGED <<today, day, seen, rows>>

\* The commit takes effect, but its caller is told that it failed.
CommitLost(r) ==
  /\ stage[r] = "counted"
  /\ inserted[r] = Size[r]
  /\ Fault
  /\ Committed(r)
  /\ stage' = [stage EXCEPT ![r] = "failed"]
  /\ UNCHANGED <<today, day, seen, inserted>>

-----------------------------------------------------------------------------

Progress(r) == Begin(r) \/ Lock(r) \/ Count(r) \/ Insert(r) \/ Commit(r)

Next ==
  \/ Midnight
  \/ \E r \in Request : Progress(r) \/ Rollback(r) \/ CommitLost(r)

Spec == Init /\ [][Next]_vars

\* Each request runs in a goroutine of its own, the database answers, and a
\* connection or a lock that stays free is given to one that waits for it.
Fairness == \A r \in Request : WF_vars(Progress(r))

FairSpec == Spec /\ Fairness

-----------------------------------------------------------------------------
(* Properties.                                                             *)

TypeOK ==
  /\ today \in Day
  /\ stage \in [Request -> {"new", "begun", "locked", "counted"} \union Answer]
  /\ day \in [Request -> Day]
  /\ seen \in [Request -> Nat]
  /\ inserted \in [Request -> Nat]
  /\ \A r \in Request : inserted[r] <= Size[r]
  /\ rows \subseteq Request \X (Nat \ {0})
  /\ IsFiniteSet(rows)
  /\ faults \in 0..MaxFaults

\* A request leaves all its rows or none: all if it was accepted, none if it
\* was refused; one that failed may have left them all.
AllOrNothing ==
  \A r \in Request :
    LET stored == {x \in rows : x[1] = r}
        all    == {<<r, k>> : k \in 1..Size[r]}
    IN /\ stored \in {{}, all}
       /\ stage[r] = "accepted" => stored = all
       /\ stage[r] # "failed" /\ stored = all => stage[r] = "accepted"

\* Every request is answered, also when the requests that wait for one
\* client's lock hold every connection of the pool.
EveryRequestAnswered == \A r \in Request : <>(stage[r] \in Answer)
=============================================================================
