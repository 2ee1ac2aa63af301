---------------------------- MODULE WarmingRooms ----------------------------
(***************************************************************************)
(* Warming rooms between two bots (internal/worker/warming_worker.go): at  *)
(* every tick each replica reads the rooms that are due, then takes them   *)
(* one after the other: it locks the room, sends the script line that      *)
(* follows the sequence it read, writes the room's progress, and unlocks.  *)
(* Users pause, resume, restart and delete rooms meanwhile, and the        *)
(* process can die anywhere.                                               *)
(*                                                                         *)
(* The sequence is read before the lock is taken, so it may be out of date *)
(* by the time it is used; and a restart takes no lock at all.             *)
(***************************************************************************)
EXTENDS Naturals, FiniteSets

CONSTANTS
  Room,
  Replica,      \* processes that run the warming worker
  NoReplica,
  Line,         \* sequence_order of the lines of the script
  Limit,        \* rooms read at a tick (10)
  MaxFaults,    \* bound: failed sends, failed writes and crashes
  MaxRequests   \* bound: requests of the users

ASSUME LineAssumption    == Line \subseteq Nat \ {0}
ASSUME LimitAssumption   == Limit \in Nat \ {0}
ASSUME ReplicaAssumption == NoReplica \notin Replica
ASSUME BoundAssumption   == MaxFaults \in Nat /\ MaxRequests \in Nat

VARIABLES
  room,      \* the table: status, current_sequence and next_run_at
  lock,      \* who holds the room's advisory lock
  todo,      \* rooms a replica read as due and has yet to take, with the
             \* sequence it read
  job,       \* the room a replica has locked
  asked,     \* status changes checked against the room but not yet written
  faults, requests,
  history    \* what each room has sent since it was last restarted

worker == <<lock, todo, job>>
users  == <<asked, requests>>
vars   == <<room, worker, users, faults, history>>

Status   == {"STOPPED", "ACTIVE", "PAUSED", "FINISHED"}
Sequence == {0} \union Line

\* A line that is sent ends in one of the last three stages but "done".
Stage == {"locked", "send", "record", "retry", "pause", "done"}

NoJob == [stage |-> "idle"]

\* The lines of the script up to one of them.
UpTo(s) == {l \in Line : l <= s}

\* Deviation: sequence_order >= the current one.
FollowsOrSame(l, s) == l \in Line /\ l >= s /\ \A k \in Line : k >= s => l <= k

\* GetNextAvailableScriptLine.
Follows(l, s) == l \in Line /\ l > s /\ \A k \in Line : k > s => l <= k

Working(p, r) == job[p] # NoJob /\ job[p].room = r
Listed(p, r)  == \E s \in Sequence : <<r, s>> \in todo[p]
Holds(p, r)   == Working(p, r) \/ Listed(p, r)

-----------------------------------------------------------------------------

\* A new room is STOPPED, its next_run_at is NULL.
Init ==
  /\ room = [r \in Room |-> [status |-> "STOPPED", seq |-> 0, next |-> "null"]]
  /\ lock = [r \in Room |-> NoReplica]
  /\ todo = [p \in Replica |-> {}]
  /\ job = [p \in Replica |-> NoJob]
  /\ asked = {}
  /\ faults = 0
  /\ requests = 0
  /\ history = [r \in Room |->
       [sent |-> {}, repeated |-> FALSE, lost |-> FALSE, raced |-> FALSE,
        overtaken |-> FALSE, late |-> {}, lateTwice |-> FALSE]]

Fault   == faults < MaxFaults /\ faults' = faults + 1
Request == requests < MaxRequests /\ requests' = requests + 1

\* next_run_at passes.
BecomesDue(r) ==
  /\ room[r].next = "later"
  /\ room' = [room EXCEPT ![r].next = "due"]
  /\ UNCHANGED <<worker, users, faults, history>>

-----------------------------------------------------------------------------
(* A replica.                                                              *)

\* The rooms GetActiveRoomsForWorker asks for.
Due == {r \in Room : room[r].status = "ACTIVE" /\ room[r].next = "due"}

\* It returns all of them, or Limit of them; the order of next_run_at is left
\* open.
Batch ==
  {B \in SUBSET Due :
     Cardinality(B) = Limit \/ (B = Due /\ Cardinality(B) < Limit)}

Fetch(p) ==
  /\ job[p] = NoJob
  /\ todo[p] = {}
  /\ \E B \in Batch \ {{}} :
       todo' = [todo EXCEPT ![p] = {<<r, room[r].seq>> : r \in B}]
  /\ UNCHANGED <<room, lock, job, users, faults, history>>

Take(p, r, s) ==
  /\ job[p] = NoJob
  /\ <<r, s>> \in todo[p]
  /\ todo' = [todo EXCEPT ![p] = @ \ {<<r, s>>}]

TryLockRoom(p, r, s) ==
  /\ Take(p, r, s)
  /\ lock[r] = NoReplica
  /\ lock' = [lock EXCEPT ![r] = p]
  /\ job' = [job EXCEPT ![p] =
               [room |-> r, seq |-> s, line |-> s, stage |-> "locked"]]
  /\ UNCHANGED <<room, users, faults, history>>

Skip(p, r, s) ==
  /\ Take(p, r, s)
  /\ \/ lock[r] # NoReplica /\ UNCHANGED faults
     \/ Fault
  /\ UNCHANGED <<room, lock, job, users, history>>

\* The replica goes on to a later stage of its job.
At(p, stage)   == job[p] # NoJob /\ job[p].stage = stage
GoTo(p, stage) == job' = [job EXCEPT ![p].stage = stage]

SelectLine(p) ==
  /\ At(p, "locked")
  /\ \E l \in Line :
       /\ Follows(l, job[p].seq)
       /\ job' = [job EXCEPT ![p].line = l, ![p].stage = "send"]
  /\ UNCHANGED <<room, lock, todo, users, faults, history>>

\* Writing to a room that was deleted affects no row.
Write(r, new) ==
  room' = IF room[r].status = "DELETED" THEN room ELSE [room EXCEPT ![r] = new]

\* Deviation: the line after sequence s is looked up as s + 1.
FinishAtGap(p) ==
  /\ At(p, "locked")
  /\ job[p].seq + 1 \notin Line
  /\ LET r == job[p].room
     IN  Write(r, [room[r] EXCEPT !.status = "FINISHED", !.next = "null"])
  /\ GoTo(p, "done")
  /\ UNCHANGED <<lock, todo, users, faults, history>>

\* finishRoom.
Finish(p) ==
  /\ At(p, "locked")
  /\ UpTo(job[p].seq) = Line
  /\ LET r == job[p].room
     IN  Write(r, [room[r] EXCEPT !.status = "FINISHED", !.next = "null"])
  /\ GoTo(p, "done")
  /\ UNCHANGED <<lock, todo, users, faults, history>>

\* A query fails: it is logged, and the room left as it is.
Fails(p) ==
  /\ Fault
  /\ At(p, "locked") \/ At(p, "retry") \/ At(p, "pause")
  /\ GoTo(p, "done")
  /\ UNCHANGED <<room, lock, todo, users, history>>

\* What the delivery of the replica's line adds to the room's history.
Delivered(p) ==
  LET r == job[p].room
      h == history[r]
      late == room[r].status # "ACTIVE"
  IN [h EXCEPT !.sent = @ \union {job[p].line},
               !.repeated = @ \/ job[p].line \in h.sent,
               !.late = IF late THEN @ \union {p} ELSE @,
               !.lateTwice = @ \/ (late /\ p \in h.late)]

Send(p) ==
  /\ At(p, "send")
  /\ history' = [history EXCEPT ![job[p].room] = Delivered(p)]
  /\ GoTo(p, "record")
  /\ UNCHANGED <<room, lock, todo, users, faults>>

\* SendMessage returns an error, which does not mean that nothing was sent.
SendFails(p) ==
  /\ Fault
  /\ At(p, "send")
  /\ \/ UNCHANGED history
     \/ history' = [history EXCEPT ![job[p].room] =
                      [Delivered(p) EXCEPT !.lost = TRUE]]
  /\ GoTo(p, "retry")
  /\ UNCHANGED <<room, lock, todo, users>>

\* The sender has no session, or it is not connected.
SendDisconnected(p) ==
  /\ Fault
  /\ At(p, "send")
  /\ GoTo(p, "pause")
  /\ UNCHANGED <<room, lock, todo, users, history>>

\* Deviation: a success keeps the sequence as well.
RecordSame(p) ==
  /\ At(p, "record")
  /\ LET r == job[p].room
     IN  Write(r, [room[r] EXCEPT !.seq = job[p].seq, !.next = "later"])
  /\ GoTo(p, "done")
  /\ UNCHANGED <<lock, todo, users, faults, history>>

\* advanceRoom after a success.
Record(p) ==
  /\ At(p, "record")
  /\ LET r == job[p].room
     IN /\ Write(r, [room[r] EXCEPT !.seq = job[p].line, !.next = "later"])
        /\ history' = [history EXCEPT ![r].raced =
                         @ \/ \E q \in Replica \ {p} : Holds(q, r)]
  /\ GoTo(p, "done")
  /\ UNCHANGED <<lock, todo, users, faults>>

RecordFails(p) ==
  /\ Fault
  /\ At(p, "record")
  /\ history' = [history EXCEPT ![job[p].room].lost = TRUE]
  /\ GoTo(p, "done")
  /\ UNCHANGED <<room, lock, todo, users>>

\* Deviation: a failed line is passed over.
RetryNext(p) ==
  /\ At(p, "retry")
  /\ LET r == job[p].room
     IN  Write(r, [room[r] EXCEPT !.seq = job[p].line, !.next = "later"])
  /\ GoTo(p, "done")
  /\ UNCHANGED <<lock, todo, users, faults, history>>

\* advanceRoom after a failure writes the sequence it read.
Retry(p) ==
  /\ At(p, "retry")
  /\ LET r == job[p].room
     IN  Write(r, [room[r] EXCEPT !.seq = job[p].seq, !.next = "later"])
  /\ GoTo(p, "done")
  /\ UNCHANGED <<lock, todo, users, faults, history>>

\* pauseRoom.
Pause(p) ==
  /\ At(p, "pause")
  /\ LET r == job[p].room
     IN  Write(r, [room[r] EXCEPT !.status = "PAUSED", !.next = "null"])
  /\ GoTo(p, "done")
  /\ UNCHANGED <<lock, todo, users, faults, history>>

UnlockRoom(p) ==
  /\ At(p, "done")
  /\ lock' = [lock EXCEPT ![job[p].room] = NoReplica]
  /\ job' = [job EXCEPT ![p] = NoJob]
  /\ UNCHANGED <<room, todo, users, faults, history>>

\* The process dies: its database sessions end, and with them its locks.
Crash(p) ==
  /\ Fault
  /\ todo' = [todo EXCEPT ![p] = {}]
  /\ job' = [job EXCEPT ![p] = NoJob]
  /\ lock' = [r \in Room |-> IF lock[r] = p THEN NoReplica ELSE lock[r]]
  /\ history' = [r \in Room |->
       [history[r] EXCEPT !.lost = @ \/ (At(p, "record") /\ job[p].room = r)]]
  /\ UNCHANGED <<room, users>>

-----------------------------------------------------------------------------
(* The users.                                                              *)

\* UpdateRoomStatusService reads the room, and refuses the status it has...
AskStatus(r, status) ==
  /\ Request
  /\ room[r].status \notin {status, "DELETED"}
  /\ asked' = asked \union {<<r, status>>}
  /\ UNCHANGED <<room, worker, faults, history>>

\* What an activation does to the history: nothing sent before it is late.
Resumed(h) == [h EXCEPT !.late = {}]

\* ... and then writes the new one, whatever it has become.
UpdateRoomStatus(r, status) ==
  /\ <<r, status>> \in asked
  /\ asked' = asked \ {<<r, status>>}
  /\ Write(r, [room[r] EXCEPT
                 !.status = status,
                 !.next = IF status = "ACTIVE" THEN "later" ELSE "null"])
  /\ history' = IF status = "ACTIVE"
                THEN [history EXCEPT ![r] = Resumed(@)] ELSE history
  /\ UNCHANGED <<worker, requests, faults>>

\* A restart is overtaken if a replica still holds the room as it was.
Restart(r) ==
  /\ Request
  /\ room[r].status # "DELETED"
  /\ room' = [room EXCEPT
                ![r] = [status |-> "ACTIVE", seq |-> 0, next |-> "due"]]
  /\ history' = [history EXCEPT
       ![r] = [Resumed(@) EXCEPT
                 !.sent = {}, !.repeated = FALSE, !.lost = FALSE,
                 !.raced = FALSE,
                 !.overtaken = \E p \in Replica : Holds(p, r)]]
  /\ UNCHANGED <<worker, asked, faults>>

DeleteRoom(r) ==
  /\ Request
  /\ room[r].status # "DELETED"
  /\ room' = [room EXCEPT ![r].status = "DELETED", ![r].next = "null"]
  /\ UNCHANGED <<worker, asked, faults, history>>

-----------------------------------------------------------------------------

ReplicaStep(p) ==
  \/ Fetch(p) \/ SelectLine(p) \/ Finish(p) \/ Send(p) \/ Record(p)
  \/ Retry(p) \/ Pause(p) \/ UnlockRoom(p)
  \/ \E r \in Room, s \in Sequence : TryLockRoom(p, r, s) \/ Skip(p, r, s)

ReplicaFault(p) ==
  \/ Fails(p) \/ SendFails(p) \/ SendDisconnected(p) \/ RecordFails(p)
  \/ Crash(p)

UserStep(r) ==
  \/ Restart(r) \/ DeleteRoom(r)
  \/ \E s \in Status : AskStatus(r, s) \/ UpdateRoomStatus(r, s)

Next ==
  \/ \E p \in Replica : ReplicaStep(p) \/ ReplicaFault(p)
  \/ \E r \in Room : BecomesDue(r) \/ UserStep(r)

Spec == Init /\ [][Next]_vars

\* The tickers tick, goroutines are scheduled, and requests are answered.
Fairness ==
  /\ \A p \in Replica : WF_vars(ReplicaStep(p))
  /\ \A r \in Room : WF_vars(BecomesDue(r))

FairSpec == Spec /\ Fairness

-----------------------------------------------------------------------------
(* Properties.                                                             *)

History ==
  [sent : SUBSET Line, repeated : BOOLEAN, lost : BOOLEAN, raced : BOOLEAN,
   overtaken : BOOLEAN, late : SUBSET Replica, lateTwice : BOOLEAN]

Job == [room : Room, seq : Sequence, line : Sequence, stage : Stage]

\* Types, and an active room always has a time to run at.
TypeOK ==
  /\ room \in [Room -> [status : Status \union {"DELETED"}, seq : Sequence,
                        next : {"null", "later", "due"}]]
  /\ \A r \in Room : room[r].status = "ACTIVE" => room[r].next # "null"
  /\ lock \in [Room -> Replica \union {NoReplica}]
  /\ todo \in [Replica -> SUBSET (Room \X Sequence)]
  /\ job \in [Replica -> {NoJob} \union Job]
  /\ asked \in SUBSET (Room \X Status)
  /\ faults \in 0..MaxFaults
  /\ requests \in 0..MaxRequests
  /\ history \in [Room -> History]

\* TryLockRoom: two replicas never execute the same room at a time.
ExecutesAlone ==
  \A p, q \in Replica, r \in Room : Working(p, r) /\ Working(q, r) => p = q

\* current_sequence is the "last executed sequence": every line up to it was
\* sent since the restart, even if replicas wrote it from readings that were
\* out of date, unless one of them held the room during the restart.
NoLineSkipped ==
  \A r \in Room : ~history[r].overtaken => UpTo(room[r].seq) \subseteq history[r].sent

\* The worker finishes a room (FinishRoom) only once it sent the whole
\* script, unless a replica held the room during the restart.
FinishedIsComplete ==
  [][ \A r \in Room :
        /\ room[r].status # "FINISHED"
        /\ room'[r].status = "FINISHED"
        /\ asked' = asked
        => history[r].overtaken \/ history[r].sent = Line ]_vars

\* A line is sent again only if the record of having sent it was lost, or
\* another replica, or a restart, changed the sequence the sender had read.
RepeatsExplained ==
  \A r \in Room : history[r].repeated =>
    history[r].lost \/ history[r].raced \/ history[r].overtaken

\* Each replica sends at most one more message of a room that has been
\* paused, stopped, finished or deleted, until it is active again.
AtMostOneLate == \A r \in Room : ~history[r].lateTwice

\* executeRoom: an active room comes to the end of its script, if nobody
\* stops it before.
ScriptsEnd == \A r \in Room : room[r].status = "ACTIVE" ~> room[r].status # "ACTIVE"

=============================================================================
