------------------------- MODULE WarmingRoomsProofs -------------------------
(***************************************************************************)
(* Proofs about WarmingRooms for every number of rooms and replicas and    *)
(* every script.                                                           *)
(***************************************************************************)
EXTENDS WarmingRooms, TLAPS

\* The replica has sent its line and has yet to record it.
Recording(p, r) == Working(p, r) /\ job[p].stage = "record"

\* The replica may still send a message of the room.
MaySend(p, r) ==
  Listed(p, r) \/ (Working(p, r) /\ job[p].stage \in {"locked", "send"})

LockHeld ==
  \A p \in Replica, r \in Room : Working(p, r) => lock[r] = p

\* A batch holds a room once.
OncePerBatch ==
  \A p \in Replica, r \in Room :
    /\ Working(p, r) => ~Listed(p, r)
    /\ \A s, t \in Sequence : <<r, s>> \in todo[p] /\ <<r, t>> \in todo[p] => s = t

\* The line of a job follows the sequence the replica read.
InTurn ==
  \A p \in Replica, r \in Room :
    Working(p, r) /\ job[p].stage \in {"send", "record", "retry", "pause"} =>
      Follows(job[p].line, job[p].seq)

\* Whatever a replica read was sent, and so was the line it records.
ReadingsSent ==
  \A r \in Room : ~history[r].overtaken =>
    \A p \in Replica :
      /\ \A s \in Sequence : <<r, s>> \in todo[p] => UpTo(s) \subseteq history[r].sent
      /\ Working(p, r) => UpTo(job[p].seq) \subseteq history[r].sent
      /\ Recording(p, r) => job[p].line \in history[r].sent

Clean(r) == ~history[r].lost /\ ~history[r].raced /\ ~history[r].overtaken

InFlight(r) == {l \in Line : \E p \in Replica : Recording(p, r) /\ job[p].line = l}

\* Nothing beyond the sequence was sent, but for a line being recorded.
Fresh(r, s) == history[r].sent \subseteq UpTo(s) \union InFlight(r)

FreshRoom(r) ==
  /\ ~history[r].repeated
  /\ room[r].status # "DELETED" => Fresh(r, room[r].seq)
  /\ \A p \in Replica, s \in Sequence : <<r, s>> \in todo[p] => Fresh(r, s)
  /\ \A p \in Replica :
       /\ Working(p, r) /\ job[p].stage \in {"locked", "send", "retry", "pause"} =>
            history[r].sent \subseteq UpTo(job[p].seq)
       /\ Recording(p, r) => history[r].sent \subseteq UpTo(job[p].line)

FreshReadings == \A r \in Room : Clean(r) => FreshRoom(r)

\* A replica that sent a late message will not send another.
LateOnce ==
  \A r \in Room :
    /\ room[r].status = "ACTIVE" => history[r].late = {}
    /\ \A p \in history[r].late : ~MaySend(p, r)

IInv ==
  /\ TypeOK
  /\ LockHeld
  /\ OncePerBatch
  /\ InTurn
  /\ ReadingsSent
  /\ NoLineSkipped
  /\ FreshReadings
  /\ LateOnce
  /\ AtMostOneLate

-----------------------------------------------------------------------------

LEMMA NoJobIsNoJob == NoJob \notin Job
<1>1. ASSUME NoJob \in Job PROVE FALSE
  <2>1. NoJob.stage \in Stage
    BY <1>1 DEF Job
  <2>2. NoJob.stage = "idle"
    BY DEF NoJob
  <2> QED BY <2>1, <2>2 DEF Stage
<1> QED BY <1>1

LEMMA JobType ==
  ASSUME TypeOK, NEW p \in Replica, job[p] # NoJob
  PROVE  /\ job[p] \in Job
         /\ job[p].room \in Room
         /\ job[p].seq \in Sequence
         /\ job[p].line \in Sequence
         /\ job[p].stage \in Stage
         /\ Working(p, job[p].room)
BY DEF TypeOK, Job, Working

LEMMA SequenceType == Sequence \subseteq Nat /\ Line \subseteq Sequence
BY LineAssumption DEF Sequence

LEMMA InitIInv == ASSUME Init PROVE IInv
<1>1. TypeOK
  BY BoundAssumption DEF Init, TypeOK, History, Status, Sequence
<1>2. \A p \in Replica, r \in Room : ~Working(p, r) /\ ~Listed(p, r) /\ todo[p] = {}
  BY DEF Init, Working, Listed
<1>3. LockHeld /\ OncePerBatch /\ InTurn
  BY <1>2 DEF LockHeld, OncePerBatch, InTurn
<1>4. ReadingsSent
  BY <1>2 DEF ReadingsSent, Recording
<1>5. \A r \in Room : room[r].seq = 0
  BY DEF Init
<1>5a. UpTo(0) = {}
  <2>1. \A l \in Line : ~(l <= 0)
    BY LineAssumption
  <2> QED BY <2>1 DEF UpTo
<1>6. NoLineSkipped
  BY <1>5, <1>5a DEF NoLineSkipped
<1>7. \A r \in Room : history[r].sent = {} /\ ~history[r].repeated
  BY DEF Init
<1>8. FreshReadings
  BY <1>2, <1>7 DEF FreshReadings, FreshRoom, Fresh, Recording
<1>9. LateOnce /\ AtMostOneLate
  BY DEF Init, LateOnce, AtMostOneLate
<1> QED BY <1>1, <1>3, <1>4, <1>6, <1>8, <1>9 DEF IInv

-----------------------------------------------------------------------------
(* What the steps of a job have in common.                                 *)

\* The replica's job goes on, and nothing else about the replicas changes.
JobMoves(p, line, stage) ==
  /\ job[p] # NoJob
  /\ UNCHANGED <<lock, todo>>
  /\ line \in Sequence /\ stage \in Stage
  /\ job' = [job EXCEPT ![p].line = line, ![p].stage = stage]

LEMMA GoToMoves ==
  ASSUME TypeOK, NEW p \in Replica, NEW old \in Stage, NEW new \in Stage,
         At(p, old), GoTo(p, new), UNCHANGED <<lock, todo>>
  PROVE  JobMoves(p, job[p].line, new)
<1>1. job[p] # NoJob /\ job[p] \in Job /\ job[p].line \in Sequence
  BY JobType DEF At
<1>2. [job[p] EXCEPT !.stage = new]
        = [job[p] EXCEPT !.line = job[p].line, !.stage = new]
  BY <1>1 DEF Job
<1>3. job' = [job EXCEPT ![p].line = job[p].line, ![p].stage = new]
  BY <1>2 DEF GoTo
<1> QED BY <1>1, <1>3 DEF JobMoves

LEMMA Moved ==
  ASSUME TypeOK, LockHeld, OncePerBatch,
         NEW p \in Replica, NEW line, NEW stage, JobMoves(p, line, stage)
  PROVE  /\ job' \in [Replica -> {NoJob} \union Job]
         /\ job'[p] # NoJob
         /\ job'[p].room = job[p].room /\ job'[p].seq = job[p].seq
         /\ job'[p].line = line /\ job'[p].stage = stage
         /\ \A q \in Replica : q # p => job'[q] = job[q]
         /\ \A q \in Replica, r \in Room :
              /\ Working(q, r)' = Working(q, r)
              /\ Listed(q, r)' = Listed(q, r)
         /\ \A q \in Replica : Working(q, job[p].room) => q = p
         /\ LockHeld' /\ OncePerBatch'
<1>1. /\ job[p] \in Job /\ job[p].room \in Room
      /\ Working(p, job[p].room)
  BY JobType DEF JobMoves
<1> DEFINE new == [job[p] EXCEPT !.line = line, !.stage = stage]
<1>2. new \in Job
  BY <1>1 DEF JobMoves, Job
<1>3. new # NoJob
  BY <1>2, NoJobIsNoJob
<1>4. /\ new.room = job[p].room /\ new.seq = job[p].seq
      /\ new.line = line /\ new.stage = stage
  BY <1>1 DEF Job
<1>5. job' = [job EXCEPT ![p] = new]
  BY DEF JobMoves
<1> HIDE DEF new
<1>6. /\ job' \in [Replica -> {NoJob} \union Job]
      /\ job'[p] = new
      /\ \A q \in Replica : q # p => job'[q] = job[q]
  BY <1>2, <1>5 DEF TypeOK
<1>7. \A q \in Replica, r \in Room : Working(q, r)' = Working(q, r)
  BY <1>3, <1>4, <1>6 DEF Working, JobMoves
<1>8. \A q \in Replica, r \in Room : Listed(q, r)' = Listed(q, r)
  BY DEF Listed, JobMoves
<1>9. \A q \in Replica : Working(q, job[p].room) => q = p
  BY <1>1 DEF LockHeld
<1>10. LockHeld' /\ OncePerBatch'
  BY <1>7, <1>8 DEF LockHeld, OncePerBatch, JobMoves
<1> QED BY <1>3, <1>4, <1>6, <1>7, <1>8, <1>9, <1>10

-----------------------------------------------------------------------------
(* The replicas' steps.                                                    *)

\* A step that leaves the rooms and the history alone and lets a job go on
\* keeps the invariant, unless it goes on to, or from, recording.
LEMMA QuietMove ==
  ASSUME IInv, NEW p \in Replica, NEW line, NEW stage, JobMoves(p, line, stage),
         UNCHANGED <<room, users, history>>, faults' \in 0..MaxFaults,
         \/ job[p].stage = "locked" /\ stage = "send" /\ Follows(line, job[p].seq)
         \/ line = job[p].line /\ job[p].stage = "send" /\ stage \in {"retry", "pause"}
         \/ line = job[p].line /\ job[p].stage # "record" /\ stage = "done"
  PROVE  IInv'
<1> DEFINE r == job[p].room
<1>1. TypeOK /\ LockHeld /\ OncePerBatch
  BY DEF IInv
<1>2. /\ job' \in [Replica -> {NoJob} \union Job]
      /\ job'[p] # NoJob
      /\ job'[p].room = r /\ job'[p].seq = job[p].seq
      /\ job'[p].line = line /\ job'[p].stage = stage
      /\ \A q \in Replica : q # p => job'[q] = job[q]
      /\ \A q \in Replica, x \in Room :
           Working(q, x)' = Working(q, x) /\ Listed(q, x)' = Listed(q, x)
      /\ LockHeld' /\ OncePerBatch'
  BY <1>1, Moved
<1>3. todo' = todo
  BY DEF JobMoves
<1>4. TypeOK'
  BY <1>1, <1>2, <1>3 DEF TypeOK, JobMoves, users
<1>5. InTurn'
  BY <1>2 DEF IInv, InTurn, Working
<1>6. \A q \in Replica, x \in Room : Recording(q, x)' = Recording(q, x)
  BY <1>2 DEF Recording, JobMoves, Working
<1>7. ReadingsSent' /\ NoLineSkipped'
  BY <1>2, <1>3, <1>6 DEF IInv, ReadingsSent, NoLineSkipped, Recording
<1>8. \A x \in Room : InFlight(x)' = InFlight(x)
  BY <1>2, <1>6 DEF InFlight, Recording
<1>9. FreshReadings'
  BY <1>2, <1>3, <1>8 DEF IInv, FreshReadings, FreshRoom, Fresh, Clean, Recording
<1>10. \A q \in Replica, x \in Room : MaySend(q, x)' => MaySend(q, x)
  BY <1>2 DEF MaySend, Working
<1>11. LateOnce' /\ AtMostOneLate'
  BY <1>1, <1>10 DEF IInv, LateOnce, AtMostOneLate, TypeOK, History
<1> QED BY <1>2, <1>4, <1>5, <1>7, <1>9, <1>11 DEF IInv

\* A job that has not sent its line writes its room and is done.
LEMMA WriteMove ==
  ASSUME IInv, NEW p \in Replica, JobMoves(p, job[p].line, "done"),
         UNCHANGED <<users, faults, history>>,
         job[p].stage \in {"locked", "retry", "pause"},
         NEW status, NEW seq, NEW next,
         Write(job[p].room, [room[job[p].room] EXCEPT
                               !.status = status, !.seq = seq, !.next = next]),
         \/ status = room[job[p].room].status /\ next = "later"
         \/ status \in {"PAUSED", "FINISHED"} /\ next = "null",
         seq \in {room[job[p].room].seq, job[p].seq}
  PROVE  IInv'
<1> DEFINE r == job[p].room
<1>1. TypeOK /\ LockHeld /\ OncePerBatch
  BY DEF IInv
<1>2. /\ job' \in [Replica -> {NoJob} \union Job]
      /\ job'[p] # NoJob
      /\ job'[p].room = r /\ job'[p].seq = job[p].seq
      /\ job'[p].line = job[p].line /\ job'[p].stage = "done"
      /\ \A q \in Replica : q # p => job'[q] = job[q]
      /\ \A q \in Replica, x \in Room :
           Working(q, x)' = Working(q, x) /\ Listed(q, x)' = Listed(q, x)
      /\ LockHeld' /\ OncePerBatch'
  BY <1>1, Moved
<1>3. todo' = todo
  BY DEF JobMoves
<1>4. r \in Room /\ job[p].seq \in Sequence /\ Working(p, r)
  BY <1>1, JobType DEF JobMoves
<1>5. /\ room[r].status \in Status \union {"DELETED"}
      /\ room[r].seq \in Sequence
      /\ room \in [Room -> [status : Status \union {"DELETED"}, seq : Sequence,
                            next : {"null", "later", "due"}]]
  BY <1>1, <1>4 DEF TypeOK
<1>6. /\ room' \in [Room -> [status : Status \union {"DELETED"}, seq : Sequence,
                             next : {"null", "later", "due"}]]
      /\ \A x \in Room : room'[x].status = "ACTIVE" => room'[x].next # "null"
      /\ \A x \in Room : room'[x].status = "ACTIVE" => room[x].status = "ACTIVE"
      /\ \A x \in Room : room'[x].status = "DELETED" <=> room[x].status = "DELETED"
      /\ \A x \in Room : x # r => room'[x] = room[x]
      /\ room'[r].seq \in {room[r].seq, job[p].seq}
  <2>1. CASE room[r].status = "DELETED"
    BY <1>1, <1>5, <2>1 DEF Write, TypeOK
  <2>2. CASE room[r].status # "DELETED"
    <3> DEFINE new == [room[r] EXCEPT !.status = status, !.seq = seq, !.next = next]
    <3>1. /\ new \in [status : Status, seq : Sequence, next : {"null", "later", "due"}]
          /\ new.status = status /\ new.seq = seq /\ new.next = next
      BY <1>4, <1>5, <2>2 DEF Status
    <3>2. room' = [room EXCEPT ![r] = new]
      BY <2>2 DEF Write
    <3> HIDE DEF new
    <3>3. room'[r] = new /\ \A x \in Room : x # r => room'[x] = room[x]
      BY <1>4, <1>5, <3>2
    <3>4. room' \in [Room -> [status : Status \union {"DELETED"}, seq : Sequence,
                             next : {"null", "later", "due"}]]
      BY <1>5, <3>1, <3>2
    <3>5. room'[r].status = "ACTIVE" =>
            room'[r].next # "null" /\ room[r].status = "ACTIVE"
      BY <3>1, <3>3
    <3>6. room'[r].status # "DELETED"
      BY <2>2, <3>1, <3>3 DEF Status
    <3> HIDE DEF r
    <3> QED BY <1>1, <2>2, <3>1, <3>3, <3>4, <3>5, <3>6 DEF TypeOK, r
  <2> QED BY <2>1, <2>2
<1>7. TypeOK'
  BY <1>1, <1>2, <1>3, <1>6 DEF TypeOK, JobMoves, users
<1>8. InTurn'
  BY <1>2 DEF IInv, InTurn, Working
<1>9. \A q \in Replica, x \in Room : Recording(q, x)' = Recording(q, x)
  BY <1>2 DEF Recording, Working
<1>10. ReadingsSent'
  BY <1>2, <1>3, <1>9 DEF IInv, ReadingsSent, Recording
<1>11. NoLineSkipped'
  BY <1>4, <1>6 DEF IInv, ReadingsSent, NoLineSkipped
<1>12. \A x \in Room : InFlight(x)' = InFlight(x)
  BY <1>2, <1>9 DEF InFlight, Recording
<1>13. \A x \in Room : Clean(x)' => Clean(x)
  BY DEF Clean
<1>14. Clean(r) => history[r].sent \subseteq UpTo(job[p].seq)
  BY <1>4 DEF IInv, FreshReadings, FreshRoom
<1>15. ASSUME NEW x \in Room, Clean(x)', room'[x].status # "DELETED"
       PROVE  Fresh(x, room[x].seq)'
  <2>1. Clean(x) /\ Fresh(x, room[x].seq)
    BY <1>6, <1>13, <1>15 DEF IInv, FreshReadings, FreshRoom
  <2>2. CASE room'[x].seq = room[x].seq
    BY <1>12, <2>1, <2>2 DEF Fresh
  <2>3. CASE x = r /\ room'[x].seq = job[p].seq
    BY <1>14, <2>1, <2>3 DEF Fresh
  <2> QED BY <1>6, <2>2, <2>3
<1>16. FreshReadings'
  BY <1>2, <1>3, <1>12, <1>13, <1>9, <1>15 DEF IInv, FreshReadings, FreshRoom, Fresh
<1>17. \A q \in Replica, x \in Room : MaySend(q, x)' => MaySend(q, x)
  BY <1>2 DEF MaySend, Working
<1>18. LateOnce' /\ AtMostOneLate'
  BY <1>1, <1>6, <1>17 DEF IInv, LateOnce, AtMostOneLate, TypeOK, History
<1> QED BY <1>2, <1>7, <1>8, <1>10, <1>11, <1>16, <1>18 DEF IInv

\* A job delivers its line, and learns of it or not.
LEMMA DeliveryMove ==
  ASSUME IInv, NEW p \in Replica, NEW stage, job[p].stage = "send",
         JobMoves(p, job[p].line, stage),
         UNCHANGED <<room, users>>, faults' \in 0..MaxFaults,
         NEW h,
         history' = [history EXCEPT ![job[p].room] = h],
         \/ stage = "record" /\ h = Delivered(p)
         \/ stage = "retry" /\ h = [Delivered(p) EXCEPT !.lost = TRUE]
  PROVE  IInv'
<1>1. TypeOK /\ LockHeld /\ OncePerBatch
  BY DEF IInv
<1>a. /\ job[p].room \in Room /\ job[p].seq \in Sequence
      /\ Working(p, job[p].room) /\ job[p] # NoJob
  BY <1>1, JobType DEF JobMoves
<1>b. PICK r \in Room : r = job[p].room
  BY <1>a
<1>c. job[p].line \in Line /\ job[p].line > job[p].seq
  BY <1>a DEF IInv, InTurn, Follows
<1>d. PICK l \in Line : l = job[p].line
  BY <1>c
<1>2. /\ job' \in [Replica -> {NoJob} \union Job]
      /\ job'[p] # NoJob
      /\ job'[p].room = r /\ job'[p].seq = job[p].seq
      /\ job'[p].line = l /\ job'[p].stage = stage
      /\ \A q \in Replica : q # p => job'[q] = job[q]
      /\ \A q \in Replica, x \in Room :
           Working(q, x)' = Working(q, x) /\ Listed(q, x)' = Listed(q, x)
      /\ \A q \in Replica : Working(q, r) => q = p
      /\ LockHeld' /\ OncePerBatch'
  BY <1>1, <1>b, <1>d, Moved
<1>3. todo' = todo
  BY DEF JobMoves
<1>4. r \in Room /\ job[p].seq \in Sequence /\ Working(p, r)
  BY <1>a, <1>b
<1>5. l \in Line /\ l > job[p].seq
  BY <1>c, <1>d
<1>6. history \in [Room -> History] /\ history[r] \in History
  BY <1>1, <1>4 DEF TypeOK
<1>7. /\ h \in History
      /\ h.sent = history[r].sent \union {l}
      /\ h.repeated = (history[r].repeated \/ l \in history[r].sent)
      /\ h.raced = history[r].raced /\ h.overtaken = history[r].overtaken
      /\ ~h.lost => ~history[r].lost /\ stage = "record"
      /\ h.late = IF room[r].status # "ACTIVE"
                  THEN history[r].late \union {p} ELSE history[r].late
      /\ h.lateTwice = (history[r].lateTwice
                          \/ (room[r].status # "ACTIVE" /\ p \in history[r].late))
  <2>1. /\ Delivered(p) \in History
        /\ Delivered(p).sent = history[r].sent \union {l}
        /\ Delivered(p).repeated = (history[r].repeated \/ l \in history[r].sent)
        /\ Delivered(p).raced = history[r].raced
        /\ Delivered(p).overtaken = history[r].overtaken
        /\ Delivered(p).lost = history[r].lost
        /\ Delivered(p).late = IF room[r].status # "ACTIVE"
                    THEN history[r].late \union {p} ELSE history[r].late
        /\ Delivered(p).lateTwice = (history[r].lateTwice
                          \/ (room[r].status # "ACTIVE" /\ p \in history[r].late))
    BY <1>5, <1>6, <1>b, <1>d DEF Delivered, History
  <2>2. CASE stage = "record" /\ h = Delivered(p)
    BY <2>1, <2>2
  <2>3. CASE stage = "retry" /\ h = [Delivered(p) EXCEPT !.lost = TRUE]
    <3> DEFINE d == Delivered(p)
    <3>1. d \in History
      BY <2>1
    <3> HIDE DEF d
    <3>2. /\ [d EXCEPT !.lost = TRUE] \in History
          /\ [d EXCEPT !.lost = TRUE].lost = TRUE
          /\ [d EXCEPT !.lost = TRUE].sent = d.sent
          /\ [d EXCEPT !.lost = TRUE].repeated = d.repeated
          /\ [d EXCEPT !.lost = TRUE].raced = d.raced
          /\ [d EXCEPT !.lost = TRUE].overtaken = d.overtaken
          /\ [d EXCEPT !.lost = TRUE].late = d.late
          /\ [d EXCEPT !.lost = TRUE].lateTwice = d.lateTwice
      BY <3>1 DEF History
    <3>3. h = [d EXCEPT !.lost = TRUE]
      BY <2>3 DEF d
    <3>4. /\ h \in History /\ h.lost = TRUE
          /\ h.sent = d.sent /\ h.repeated = d.repeated /\ h.raced = d.raced
          /\ h.overtaken = d.overtaken /\ h.late = d.late
          /\ h.lateTwice = d.lateTwice
      BY <3>2, <3>3
    <3> QED BY <2>1, <3>4 DEF d
  <2> QED BY <2>2, <2>3
<1>8. /\ history' \in [Room -> History]
      /\ history'[r] = h
      /\ \A x \in Room : x # r => history'[x] = history[x]
  BY <1>4, <1>6, <1>7, <1>b
<1>9. TypeOK'
  BY <1>1, <1>2, <1>3, <1>8 DEF TypeOK, users, JobMoves
<1>10. InTurn'
  <2>1. Follows(l, job[p].seq)
    BY <1>4, <1>d DEF IInv, InTurn
  <2> QED BY <1>2, <1>4, <2>1 DEF IInv, InTurn, Working
<1>11. \A q \in Replica, x \in Room : q # p => Recording(q, x)' = Recording(q, x)
  BY <1>2 DEF Recording
<1>12. \A x \in Room : history[x].sent \subseteq history'[x].sent
                       /\ history'[x].overtaken = history[x].overtaken
  BY <1>7, <1>8
<1>13. ReadingsSent'
  <2>1. \A q \in Replica, x \in Room :
          Recording(q, x)' => Recording(q, x) \/ (q = p /\ x = r)
    BY <1>2, <1>4, <1>11, <1>b DEF Recording, Working
  <2>2. l \in history'[r].sent
    BY <1>7, <1>8
  <2>3. \A q \in Replica, x \in Room : Working(q, x) => job'[q].seq = job[q].seq
                                        /\ job'[q].line = job[q].line
    BY <1>2, <1>d
  <2> QED BY <1>2, <1>3, <1>12, <2>1, <2>2, <2>3 DEF IInv, ReadingsSent, Recording
<1>14. NoLineSkipped'
  BY <1>12 DEF IInv, NoLineSkipped
<1>15. ASSUME NEW x \in Room, Clean(x)'
       PROVE  Clean(x) /\ (x = r => stage = "record")
  BY <1>7, <1>8, <1>15 DEF Clean
<1>16. \A x \in Room : x # r => InFlight(x)' = InFlight(x)
  BY <1>2, <1>4, <1>11, <1>b DEF InFlight, Recording, Working
<1>17. stage = "record" => InFlight(r)' = {l}
  BY <1>2, <1>4, <1>5 DEF InFlight, Recording
<1>18. InFlight(r) = {}
  BY <1>2, <1>4 DEF InFlight, Recording
<1>19. FreshReadings'
  <2>1. ASSUME NEW x \in Room, Clean(x)', x # r PROVE FreshRoom(x)'
    <3>1. FreshRoom(x) /\ history'[x] = history[x] /\ InFlight(x)' = InFlight(x)
      BY <1>8, <1>15, <1>16, <2>1 DEF IInv, FreshReadings
    <3>2. \A q \in Replica : Working(q, x) => q # p
      BY <2>1, <1>b DEF Working
    <3>3. \A q \in Replica :
            /\ Working(q, x)' = Working(q, x) /\ Recording(q, x)' = Recording(q, x)
            /\ Working(q, x) => job'[q] = job[q]
      BY <1>2, <3>2 DEF Recording
    <3>4. \A s \in Sequence : Fresh(x, s)' = Fresh(x, s)
      BY <3>1 DEF Fresh, UpTo
    <3>5. room[x].seq \in Sequence
      BY <1>1 DEF TypeOK
    <3> QED BY <1>3, <3>1, <3>3, <3>4, <3>5 DEF FreshRoom, Recording
  <2>2. ASSUME Clean(r)' PROVE FreshRoom(r)'
    <3>1. FreshRoom(r) /\ stage = "record"
      BY <1>4, <1>15, <2>2 DEF IInv, FreshReadings
    <3>2. history[r].sent \subseteq UpTo(job[p].seq)
      BY <1>4, <3>1 DEF FreshRoom
    <3>3. l \notin history[r].sent
      BY <1>4, <1>5, <3>2, SequenceType DEF UpTo
    <3>4. history'[r].sent = history[r].sent \union {l} /\ ~history'[r].repeated
      BY <1>7, <1>8, <3>1, <3>3 DEF FreshRoom
    <3>5. \A s \in Sequence : Fresh(r, s) => Fresh(r, s)'
      BY <1>17, <1>18, <3>1, <3>4 DEF Fresh, UpTo
    <3>6. history'[r].sent \subseteq UpTo(l)
      BY <1>4, <1>5, <3>2, <3>4, SequenceType DEF UpTo
    <3>7. room[r].seq \in Sequence
      BY <1>1, <1>4 DEF TypeOK
    <3>8. \A q \in Replica : Working(q, r)' => job'[q].line = l /\ job'[q].stage = "record"
      BY <1>2, <3>1, <1>4
    <3>9. room'[r].status # "DELETED" => Fresh(r, room[r].seq)'
      <4>1. room[r].status # "DELETED" => Fresh(r, room[r].seq)
        BY <3>1 DEF FreshRoom
      <4>2. room' = room
        OBVIOUS
      <4> QED BY <3>5, <3>7, <4>1, <4>2 DEF Fresh
    <3>10. \A q \in Replica, s \in Sequence : <<r, s>> \in todo'[q] => Fresh(r, s)'
      BY <1>3, <3>1, <3>5 DEF FreshRoom
    <3>11. \A q \in Replica : Working(q, r)' =>
             job'[q].stage = "record" /\ history'[r].sent \subseteq UpTo(job'[q].line)
      BY <3>6, <3>8
    <3> QED BY <3>4, <3>9, <3>10, <3>11 DEF FreshRoom, Recording
  <2> QED BY <2>1, <2>2 DEF FreshReadings
<1>20. LateOnce' /\ AtMostOneLate'
  <2>1. \A q \in Replica, x \in Room : MaySend(q, x)' => MaySend(q, x)
    BY <1>2 DEF MaySend, Working
  <2>2. MaySend(p, r)
    BY <1>4 DEF MaySend
  <2>3. p \notin history[r].late
    BY <1>4, <2>2 DEF IInv, LateOnce
  <2>4. ~MaySend(p, r)'
    <3>1. ~Listed(p, r)
      BY <1>1, <1>4 DEF OncePerBatch
    <3> QED BY <1>2, <1>4, <3>1 DEF MaySend
  <2>5. \A q \in history'[r].late : ~MaySend(q, r)'
    <3>1. history'[r].late \subseteq history[r].late \union {p}
      BY <1>7, <1>8
    <3>2. history[r].late \subseteq Replica
      BY <1>6 DEF History
    <3> QED BY <1>4, <2>1, <2>4, <3>1, <3>2 DEF IInv, LateOnce
  <2>6. room[r].status = "ACTIVE" => history'[r].late = {}
    BY <1>4, <1>7, <1>8 DEF IInv, LateOnce
  <2>7. ~history'[r].lateTwice
    BY <1>4, <1>7, <1>8, <2>3 DEF IInv, AtMostOneLate
  <2>8. ASSUME NEW x \in Room, x # r
        PROVE  /\ room[x].status = "ACTIVE" => history'[x].late = {}
               /\ \A q \in history'[x].late : ~MaySend(q, x)'
               /\ ~history'[x].lateTwice
    <3>1. history[x].late \subseteq Replica
      BY <1>1, <2>8 DEF TypeOK, History
    <3> QED BY <1>8, <2>1, <2>8, <3>1 DEF IInv, LateOnce, AtMostOneLate
  <2> QED BY <2>5, <2>6, <2>7, <2>8 DEF LateOnce, AtMostOneLate
<1> QED BY <1>2, <1>9, <1>10, <1>13, <1>14, <1>19, <1>20 DEF IInv

\* A job whose line went out records it, or fails to.
LEMMA RecordMove ==
  ASSUME IInv, NEW p \in Replica, NEW r \in Room, NEW l \in Line,
         r = job[p].room, l = job[p].line, job[p].stage = "record",
         JobMoves(p, l, "done"), UNCHANGED users, faults' \in 0..MaxFaults,
         NEW raced \in BOOLEAN,
         ~raced => ~history[r].raced /\ \A q \in Replica \ {p} : ~Holds(q, r),
         NEW h, history' = [history EXCEPT ![r] = h],
         \/ /\ Write(r, [room[r] EXCEPT !.seq = l, !.next = "later"])
            /\ h = [history[r] EXCEPT !.raced = raced]
         \/ /\ UNCHANGED room
            /\ h = [history[r] EXCEPT !.lost = TRUE]
  PROVE  IInv'
<1>1. TypeOK /\ LockHeld /\ OncePerBatch
  BY DEF IInv
<1>2. /\ job' \in [Replica -> {NoJob} \union Job]
      /\ job'[p] # NoJob
      /\ job'[p].room = r /\ job'[p].seq = job[p].seq
      /\ job'[p].line = l /\ job'[p].stage = "done"
      /\ \A q \in Replica : q # p => job'[q] = job[q]
      /\ \A q \in Replica, x \in Room :
           Working(q, x)' = Working(q, x) /\ Listed(q, x)' = Listed(q, x)
      /\ \A q \in Replica : Working(q, r) => q = p
      /\ LockHeld' /\ OncePerBatch'
  BY <1>1, Moved
<1>3. todo' = todo /\ lock' = lock /\ job[p] # NoJob
  BY DEF JobMoves
<1>4. Working(p, r) /\ Recording(p, r) /\ job[p].seq \in Sequence
  BY <1>1, <1>3, JobType DEF Recording
<1>5. Follows(l, job[p].seq)
  BY <1>4 DEF IInv, InTurn
<1>6. history \in [Room -> History] /\ history[r] \in History
  BY <1>1 DEF TypeOK
<1>7. /\ h \in History
      /\ h.sent = history[r].sent /\ h.repeated = history[r].repeated
      /\ h.overtaken = history[r].overtaken /\ h.late = history[r].late
      /\ h.lateTwice = history[r].lateTwice
      /\ ~h.lost /\ ~h.raced =>
           /\ ~history[r].lost /\ ~history[r].raced
           /\ \A q \in Replica \ {p} : ~Holds(q, r)
           /\ Write(r, [room[r] EXCEPT !.seq = l, !.next = "later"])
  BY <1>6 DEF History
<1>8. /\ history' \in [Room -> History]
      /\ history'[r] = h
      /\ \A x \in Room : x # r => history'[x] = history[x]
  BY <1>6, <1>7
<1>9. /\ room' \in [Room -> [status : Status \union {"DELETED"}, seq : Sequence,
                             next : {"null", "later", "due"}]]
      /\ \A x \in Room : room'[x].status = room[x].status
      /\ \A x \in Room : room'[x].next \in {room[x].next, "later"}
      /\ \A x \in Room : x # r => room'[x] = room[x]
      /\ room'[r].seq \in {room[r].seq, l}
      /\ Write(r, [room[r] EXCEPT !.seq = l, !.next = "later"]) =>
           room[r].status = "DELETED" \/ room'[r].seq = l
  <2> DEFINE new == [room[r] EXCEPT !.seq = l, !.next = "later"]
  <2>1. room \in [Room -> [status : Status \union {"DELETED"}, seq : Sequence,
                           next : {"null", "later", "due"}]]
    BY <1>1 DEF TypeOK
  <2>2. /\ new \in [status : Status \union {"DELETED"}, seq : Sequence,
                    next : {"null", "later", "due"}]
        /\ new.status = room[r].status /\ new.seq = l /\ new.next = "later"
    BY <2>1, SequenceType
  <2>3. room' = room \/ room' = [room EXCEPT ![r] = new]
    BY DEF Write
  <2>4. Write(r, new) => room[r].status = "DELETED" \/ room' = [room EXCEPT ![r] = new]
    BY DEF Write
  <2> HIDE DEF new
  <2>5. CASE room' = room /\ ~Write(r, new)
    BY <2>1, <2>5 DEF new
  <2>6. CASE room' = room /\ room[r].status = "DELETED"
    BY <2>1, <2>6
  <2>7. CASE room' = [room EXCEPT ![r] = new]
    <3>1. room'[r] = new /\ \A x \in Room : x # r => room'[x] = room[x]
      BY <2>1, <2>7
    <3>2. room' \in [Room -> [status : Status \union {"DELETED"}, seq : Sequence,
                              next : {"null", "later", "due"}]]
      BY <2>1, <2>2, <2>7
    <3> QED BY <2>2, <3>1, <3>2
  <2> QED BY <2>3, <2>4, <2>5, <2>6, <2>7
<1>10. TypeOK'
  BY <1>1, <1>2, <1>3, <1>8, <1>9 DEF TypeOK, users
<1>11. InTurn'
  BY <1>2 DEF IInv, InTurn, Working
<1>12. \A q \in Replica, x \in Room :
         Recording(q, x)' = (Recording(q, x) /\ q # p)
  BY <1>2 DEF Recording
<1>13. \A x \in Room : history'[x].sent = history[x].sent
                       /\ history'[x].overtaken = history[x].overtaken
  BY <1>7, <1>8
<1>14. ReadingsSent'
  BY <1>2, <1>3, <1>12, <1>13 DEF IInv, ReadingsSent, Recording
<1>15. NoLineSkipped'
  <2>1. ~history[r].overtaken => UpTo(l) \subseteq history[r].sent
    <3>1. UpTo(l) \subseteq UpTo(job[p].seq) \union {l}
      BY <1>4, <1>5, SequenceType DEF UpTo, Follows
    <3> QED BY <1>4, <3>1 DEF IInv, ReadingsSent
  <2> QED BY <1>9, <1>13, <2>1 DEF IInv, NoLineSkipped
<1>16. FreshReadings'
  <2>1. ASSUME NEW x \in Room, Clean(x)', x # r PROVE FreshRoom(x)'
    <3>1. Clean(x) /\ FreshRoom(x) /\ history'[x] = history[x] /\ room'[x] = room[x]
      BY <1>8, <1>9, <2>1 DEF IInv, FreshReadings, Clean
    <3>2. \A q \in Replica : Working(q, x) => q # p
      BY <2>1 DEF Working
    <3>3. \A q \in Replica :
            /\ Working(q, x)' = Working(q, x) /\ Recording(q, x)' = Recording(q, x)
            /\ Working(q, x) => job'[q] = job[q]
      BY <1>2, <3>2 DEF Recording
    <3>4. InFlight(x)' = InFlight(x)
      BY <3>3 DEF InFlight, Recording
    <3>5. \A s \in Sequence : Fresh(x, s)' = Fresh(x, s)
      BY <3>1, <3>4 DEF Fresh, UpTo
    <3>6. room[x].seq \in Sequence
      BY <1>1 DEF TypeOK
    <3> QED BY <1>3, <3>1, <3>3, <3>5, <3>6 DEF FreshRoom, Recording
  <2>2. ASSUME Clean(r)' PROVE FreshRoom(r)'
    <3>1. /\ Clean(r) /\ FreshRoom(r)
          /\ \A q \in Replica \ {p} : ~Holds(q, r)
          /\ room[r].status = "DELETED" \/ room'[r].seq = l
      BY <1>7, <1>8, <1>9, <2>2 DEF IInv, FreshReadings, Clean
    <3>2. history'[r].sent \subseteq UpTo(l) /\ ~history'[r].repeated
      BY <1>4, <1>7, <1>8, <3>1 DEF FreshRoom
    <3>3. room'[r].status # "DELETED" => Fresh(r, room[r].seq)'
      BY <1>9, <3>1, <3>2 DEF Fresh
    <3>4. \A q \in Replica : ~Listed(q, r)
      BY <1>1, <1>4, <3>1 DEF OncePerBatch, Holds
    <3>5. \A q \in Replica, s \in Sequence : <<r, s>> \notin todo'[q]
      BY <1>3, <3>4 DEF Listed
    <3>6. \A q \in Replica : Working(q, r)' => job'[q].stage = "done"
      BY <1>2
    <3> QED BY <3>2, <3>3, <3>5, <3>6 DEF FreshRoom, Recording
  <2> QED BY <2>1, <2>2 DEF FreshReadings
<1>17. \A q \in Replica, x \in Room : MaySend(q, x)' => MaySend(q, x)
  BY <1>2 DEF MaySend
<1>18. LateOnce' /\ AtMostOneLate'
  <2>1. \A x \in Room : history'[x].late = history[x].late
                        /\ history'[x].lateTwice = history[x].lateTwice
                        /\ history[x].late \subseteq Replica
    BY <1>6, <1>7, <1>8 DEF History
  <2> QED BY <1>9, <1>17, <2>1 DEF IInv, LateOnce, AtMostOneLate
<1> QED BY <1>2, <1>10, <1>11, <1>14, <1>15, <1>16, <1>18 DEF IInv

\* A replica drops rooms it read, or its job; if it had yet to record that
\* job, this is lost.
LEMMA LetGo ==
  ASSUME IInv, NEW p \in Replica, UNCHANGED <<room, users>>, faults' \in 0..MaxFaults,
         todo' \in [Replica -> SUBSET (Room \X Sequence)],
         \A q \in Replica : todo'[q] \subseteq todo[q],
         job' \in [Replica -> {NoJob} \union Job],
         \A q \in Replica : job'[q] = job[q] \/ (q = p /\ job'[q] = NoJob),
         lock' \in [Room -> Replica \union {NoReplica}],
         \A x \in Room : lock'[x] = lock[x] \/ (lock[x] = p /\ job'[p] = NoJob),
         history' \in [Room -> History],
         \A x \in Room :
           /\ history'[x].sent = history[x].sent
           /\ history'[x].repeated = history[x].repeated
           /\ history'[x].raced = history[x].raced
           /\ history'[x].overtaken = history[x].overtaken
           /\ history'[x].late = history[x].late
           /\ history'[x].lateTwice = history[x].lateTwice
           /\ ~history'[x].lost =>
                ~history[x].lost /\ (Recording(p, x) => job'[p] = job[p])
  PROVE  IInv'
<1>1. TypeOK /\ LockHeld /\ OncePerBatch
  BY DEF IInv
<1>2. TypeOK'
  BY <1>1 DEF TypeOK, users
<1>3. \A q \in Replica, x \in Room :
        /\ Working(q, x)' => Working(q, x) /\ job'[q] = job[q]
        /\ Recording(q, x)' => Recording(q, x) /\ job'[q] = job[q]
        /\ Listed(q, x)' => Listed(q, x)
        /\ MaySend(q, x)' => MaySend(q, x)
  BY DEF Working, Recording, Listed, MaySend
<1>4. LockHeld'
  BY <1>1, <1>3 DEF LockHeld, Working
<1>5. OncePerBatch'
  BY <1>1, <1>3 DEF OncePerBatch
<1>6. InTurn'
  BY <1>3 DEF IInv, InTurn
<1>7. ReadingsSent'
  BY <1>3 DEF IInv, ReadingsSent
<1>8. NoLineSkipped'
  BY DEF IInv, NoLineSkipped
<1>9. FreshReadings'
  <2>1. ASSUME NEW x \in Room, Clean(x)' PROVE FreshRoom(x)'
    <3>1. Clean(x) /\ FreshRoom(x)
      BY <2>1 DEF IInv, FreshReadings, Clean
    <3>2. \A q \in Replica : Recording(q, x) => Recording(q, x)' /\ job'[q] = job[q]
      BY <2>1 DEF Recording, Working, Clean
    <3>3. InFlight(x) \subseteq InFlight(x)'
      BY <3>2 DEF InFlight
    <3>4. \A s \in Sequence : Fresh(x, s) => Fresh(x, s)'
      BY <3>3 DEF Fresh, UpTo
    <3>5. room[x].seq \in Sequence
      BY <1>1 DEF TypeOK
    <3> QED BY <1>3, <3>1, <3>4, <3>5 DEF FreshRoom
  <2> QED BY <2>1 DEF FreshReadings
<1>10. LateOnce' /\ AtMostOneLate'
  <2>1. \A x \in Room : history[x].late \subseteq Replica
    BY <1>1 DEF TypeOK, History
  <2> QED BY <1>3, <2>1 DEF IInv, LateOnce, AtMostOneLate
<1> QED BY <1>2, <1>4, <1>5, <1>6, <1>7, <1>8, <1>9, <1>10 DEF IInv

\* Reading the rooms that are due.
LEMMA FetchStep == ASSUME IInv, NEW p \in Replica, Fetch(p) PROVE IInv'
<1>1. TypeOK /\ LockHeld /\ OncePerBatch
  BY DEF IInv
<1>2. PICK B \in SUBSET Due :
      /\ UNCHANGED <<room, lock, job, users, faults, history>>
      /\ todo' = [todo EXCEPT ![p] = {<<r, room[r].seq>> : r \in B}]
      /\ job[p] = NoJob
  BY DEF Fetch, Batch
<1>3. \A r \in Room : room[r].seq \in Sequence
  BY <1>1 DEF TypeOK
<1>4. {<<r, room[r].seq>> : r \in B} \in SUBSET (Room \X Sequence)
  BY <1>3 DEF Due
<1>5. /\ todo' \in [Replica -> SUBSET (Room \X Sequence)]
      /\ todo'[p] = {<<r, room[r].seq>> : r \in B}
      /\ \A q \in Replica : q # p => todo'[q] = todo[q]
  BY <1>1, <1>2, <1>4 DEF TypeOK
<1>6. TypeOK'
  BY <1>1, <1>2, <1>5 DEF TypeOK, users
<1>7. \A r \in Room, s \in Sequence : <<r, s>> \in todo'[p] =>
        s = room[r].seq /\ room[r].status = "ACTIVE"
  BY <1>5 DEF Due
<1>8. \A q \in Replica, x \in Room :
        Working(q, x)' = Working(q, x) /\ Recording(q, x)' = Recording(q, x)
  BY <1>2 DEF Working, Recording
<1>9. LockHeld' /\ InTurn'
  BY <1>2, <1>8 DEF IInv, LockHeld, InTurn
<1>10. OncePerBatch'
  BY <1>1, <1>2, <1>5, <1>7 DEF OncePerBatch, Working, Listed
<1>11. ReadingsSent'
  BY <1>2, <1>5, <1>7, <1>8 DEF IInv, ReadingsSent, NoLineSkipped
<1>12. NoLineSkipped'
  BY <1>2 DEF IInv, NoLineSkipped
<1>13. FreshReadings'
  <2>1. ASSUME NEW x \in Room, Clean(x)' PROVE FreshRoom(x)'
    <3>1. Clean(x) /\ FreshRoom(x)
      BY <1>2, <2>1 DEF IInv, FreshReadings, Clean
    <3>2. InFlight(x)' = InFlight(x)
      BY <1>2, <1>8 DEF InFlight
    <3>3. \A s \in Sequence : Fresh(x, s)' = Fresh(x, s)
      BY <1>2, <3>2 DEF Fresh, UpTo
    <3>4. \A q \in Replica, s \in Sequence : <<x, s>> \in todo'[q] => Fresh(x, s)
      BY <1>5, <1>7, <3>1 DEF FreshRoom
    <3> QED BY <1>2, <1>3, <1>8, <3>1, <3>3, <3>4 DEF FreshRoom
  <2> QED BY <2>1 DEF FreshReadings
<1>14. LateOnce' /\ AtMostOneLate'
  <2>1. \A q \in Replica, x \in Room : MaySend(q, x)' =>
          MaySend(q, x) \/ room[x].status = "ACTIVE"
    BY <1>2, <1>5, <1>7, <1>8 DEF MaySend, Listed
  <2>2. \A x \in Room : history[x].late \subseteq Replica
    BY <1>1 DEF TypeOK, History
  <2> QED BY <1>2, <2>1, <2>2 DEF IInv, LateOnce, AtMostOneLate
<1> QED BY <1>6, <1>9, <1>10, <1>11, <1>12, <1>13, <1>14 DEF IInv

\* Locking a room that was read as due.
LEMMA LockStep ==
  ASSUME IInv, NEW p \in Replica, NEW r \in Room, NEW s \in Sequence,
         TryLockRoom(p, r, s)
  PROVE  IInv'
<1> DEFINE new == [room |-> r, seq |-> s, line |-> s, stage |-> "locked"]
<1>1. TypeOK /\ LockHeld /\ OncePerBatch
  BY DEF IInv
<1>2. /\ UNCHANGED <<room, users, faults, history>>
      /\ job[p] = NoJob /\ <<r, s>> \in todo[p]
      /\ todo' = [todo EXCEPT ![p] = todo[p] \ {<<r, s>>}]
      /\ lock[r] = NoReplica
      /\ lock' = [lock EXCEPT ![r] = p]
      /\ job' = [job EXCEPT ![p] = new]
  BY DEF TryLockRoom, Take
<1>3. new \in Job /\ new # NoJob
  BY NoJobIsNoJob DEF Job, Stage
<1>4. new.room = r /\ new.seq = s /\ new.line = s /\ new.stage = "locked"
  OBVIOUS
<1> HIDE DEF new
<1>5. /\ job' \in [Replica -> {NoJob} \union Job]
      /\ job'[p] = new
      /\ \A q \in Replica : q # p => job'[q] = job[q]
  BY <1>1, <1>2, <1>3 DEF TypeOK
<1>6. /\ lock' \in [Room -> Replica \union {NoReplica}]
      /\ lock'[r] = p /\ \A x \in Room : x # r => lock'[x] = lock[x]
  BY <1>1, <1>2 DEF TypeOK
<1>7. /\ todo' \in [Replica -> SUBSET (Room \X Sequence)]
      /\ todo'[p] = todo[p] \ {<<r, s>>}
      /\ \A q \in Replica : q # p => todo'[q] = todo[q]
  BY <1>1, <1>2 DEF TypeOK
<1>8. TypeOK'
  BY <1>1, <1>2, <1>5, <1>6, <1>7 DEF TypeOK, users
<1>9. \A q \in Replica : ~Working(q, r)
  BY <1>1, <1>2, ReplicaAssumption DEF LockHeld
<1>10. \A q \in Replica, x \in Room :
         /\ Working(q, x)' = (Working(q, x) \/ (q = p /\ x = r))
         /\ Recording(q, x)' = Recording(q, x)
         /\ Listed(q, x)' => Listed(q, x)
         /\ Recording(q, x) => job'[q] = job[q]
  BY <1>2, <1>3, <1>4, <1>5, <1>7 DEF Working, Recording, Listed
<1>11. LockHeld'
  BY <1>1, <1>6, <1>9, <1>10 DEF LockHeld
<1>12. OncePerBatch'
  <2>1. ~Listed(p, r)'
    BY <1>1, <1>2, <1>7 DEF OncePerBatch, Listed
  <2>2. \A q \in Replica : todo'[q] \subseteq todo[q]
    BY <1>7
  <2> QED BY <1>1, <1>10, <2>1, <2>2 DEF OncePerBatch
<1>13. InTurn'
  BY <1>4, <1>5, <1>10 DEF IInv, InTurn, Working
<1>14. ReadingsSent'
  <2>1. ~history[r].overtaken => UpTo(s) \subseteq history[r].sent
    BY <1>2 DEF IInv, ReadingsSent
  <2>2. \A q \in Replica : todo'[q] \subseteq todo[q]
    BY <1>7
  <2>3. \A q \in Replica, x \in Room : Working(q, x)' =>
          (Working(q, x) /\ job'[q] = job[q]) \/ (q = p /\ x = r)
    BY <1>2, <1>5, <1>10 DEF Working
  <2> QED BY <1>2, <1>4, <1>5, <1>10, <2>1, <2>2, <2>3 DEF IInv, ReadingsSent
<1>15. NoLineSkipped'
  BY <1>2 DEF IInv, NoLineSkipped
<1>16. FreshReadings'
  <2>1. ASSUME NEW x \in Room, Clean(x)' PROVE FreshRoom(x)'
    <3>1. Clean(x) /\ FreshRoom(x)
      BY <1>2, <2>1 DEF IInv, FreshReadings, Clean
    <3>2. InFlight(x)' = InFlight(x)
      BY <1>10 DEF InFlight
    <3>3. \A t \in Sequence : Fresh(x, t)' = Fresh(x, t)
      BY <1>2, <3>2 DEF Fresh, UpTo
    <3>4. room'[x] = room[x] /\ room[x].seq \in Sequence /\ history' = history
      BY <1>1, <1>2 DEF TypeOK
    <3>5. \A q \in Replica, t \in Sequence : <<x, t>> \in todo'[q] => Fresh(x, t)
      BY <1>7, <3>1 DEF FreshRoom
    <3>6. x = r => history[r].sent \subseteq UpTo(s)
      <4>1. InFlight(r) = {}
        BY <1>9 DEF InFlight, Recording
      <4> QED BY <1>2, <3>1, <4>1 DEF FreshRoom, Fresh
    <3>7. \A q \in Replica : Working(q, x)' =>
            (Working(q, x) /\ job'[q] = job[q]) \/ (q = p /\ x = r)
      BY <1>2, <1>5, <1>10 DEF Working
    <3> QED BY <1>4, <1>5, <1>10, <3>1, <3>3, <3>4, <3>5, <3>6, <3>7 DEF FreshRoom
  <2> QED BY <2>1 DEF FreshReadings
<1>17. LateOnce' /\ AtMostOneLate'
  <2>1. \A q \in Replica, x \in Room : MaySend(q, x)' => MaySend(q, x)
    BY <1>2, <1>5, <1>7, <1>10 DEF MaySend, Listed, Working
  <2>2. \A x \in Room : history[x].late \subseteq Replica
    BY <1>1 DEF TypeOK, History
  <2> QED BY <1>2, <2>1, <2>2 DEF IInv, LateOnce, AtMostOneLate
<1> QED BY <1>8, <1>11, <1>12, <1>13, <1>14, <1>15, <1>16, <1>17 DEF IInv

LEMMA ReplicaKeeps == ASSUME IInv, NEW p \in Replica, ReplicaStep(p) PROVE IInv'
<1>1. TypeOK /\ LockHeld /\ OncePerBatch
  BY DEF IInv
<1>2. CASE Fetch(p)
  BY <1>2, FetchStep
<1>3. CASE SelectLine(p)
  <2>1. PICK l \in Line : /\ Follows(l, job[p].seq)
                          /\ job' = [job EXCEPT ![p].line = l, ![p].stage = "send"]
    BY <1>3 DEF SelectLine
  <2>2. JobMoves(p, l, "send") /\ job[p].stage = "locked"
    BY <1>3, <2>1, SequenceType DEF SelectLine, At, JobMoves, Stage
  <2>3. UNCHANGED <<room, users, history>> /\ faults' \in 0..MaxFaults
    BY <1>1, <1>3 DEF SelectLine, TypeOK
  <2> QED BY <2>1, <2>2, <2>3, QuietMove
<1>4. CASE Finish(p)
  <2>1. JobMoves(p, job[p].line, "done") /\ job[p].stage = "locked"
    BY <1>1, <1>4, GoToMoves DEF Finish, At, Stage
  <2>2. room[job[p].room] \in [status : Status \union {"DELETED"}, seq : Sequence,
                               next : {"null", "later", "due"}]
    BY <1>1, <2>1, JobType DEF TypeOK, JobMoves
  <2>3. [room[job[p].room] EXCEPT !.status = "FINISHED", !.next = "null"]
          = [room[job[p].room] EXCEPT !.status = "FINISHED",
                                      !.seq = room[job[p].room].seq, !.next = "null"]
    BY <2>2
  <2>4. Write(job[p].room, [room[job[p].room] EXCEPT !.status = "FINISHED",
                              !.seq = room[job[p].room].seq, !.next = "null"])
    BY <1>4, <2>3 DEF Finish
  <2>5. UNCHANGED <<users, faults, history>>
    BY <1>4 DEF Finish
  <2> QED BY <2>1, <2>4, <2>5, WriteMove
<1>5. CASE Send(p)
  <2>1. JobMoves(p, job[p].line, "record") /\ job[p].stage = "send"
    BY <1>1, <1>5, GoToMoves DEF Send, At, Stage
  <2>2. UNCHANGED <<room, users>> /\ faults' \in 0..MaxFaults
    BY <1>1, <1>5 DEF Send, TypeOK
  <2>3. history' = [history EXCEPT ![job[p].room] = Delivered(p)]
    BY <1>5 DEF Send
  <2> QED BY <2>1, <2>2, <2>3, DeliveryMove
<1>6. CASE Record(p)
  <2>1. JobMoves(p, job[p].line, "done") /\ job[p].stage = "record"
    BY <1>1, <1>6, GoToMoves DEF Record, At, Stage
  <2>2. PICK r \in Room : r = job[p].room
    BY <1>1, <2>1, JobType DEF JobMoves
  <2>3. PICK l \in Line : l = job[p].line
    BY <1>1, <2>1, JobType DEF JobMoves, IInv, InTurn, Follows
  <2>4. /\ Write(r, [room[r] EXCEPT !.seq = l, !.next = "later"])
        /\ history' = [history EXCEPT ![r].raced =
                         @ \/ \E q \in Replica \ {p} : Holds(q, r)]
        /\ UNCHANGED users /\ faults' \in 0..MaxFaults
    BY <1>1, <1>6, <2>2, <2>3 DEF Record, TypeOK
  <2>5. PICK raced \in BOOLEAN :
          raced = (history[r].raced \/ \E q \in Replica \ {p} : Holds(q, r))
    OBVIOUS
  <2>6. ~raced => ~history[r].raced /\ \A q \in Replica \ {p} : ~Holds(q, r)
    BY <2>5
  <2>7. history' = [history EXCEPT ![r] = [history[r] EXCEPT !.raced = raced]]
    BY <2>4, <2>5
  <2>8. JobMoves(p, l, "done") /\ UNCHANGED users /\ faults' \in 0..MaxFaults
    BY <2>1, <2>3, <2>4
  <2>9. Write(r, [room[r] EXCEPT !.seq = l, !.next = "later"])
    BY <2>4
  <2> QED BY <2>1, <2>2, <2>3, <2>6, <2>7, <2>8, <2>9, RecordMove
<1>7. CASE Retry(p)
  <2>1. JobMoves(p, job[p].line, "done") /\ job[p].stage = "retry"
    BY <1>1, <1>7, GoToMoves DEF Retry, At, Stage
  <2>2. room[job[p].room] \in [status : Status \union {"DELETED"}, seq : Sequence,
                               next : {"null", "later", "due"}]
    BY <1>1, <2>1, JobType DEF TypeOK, JobMoves
  <2>3. [room[job[p].room] EXCEPT !.seq = job[p].seq, !.next = "later"]
          = [room[job[p].room] EXCEPT !.status = room[job[p].room].status,
                                      !.seq = job[p].seq, !.next = "later"]
    BY <2>2
  <2>4. Write(job[p].room, [room[job[p].room] EXCEPT
                              !.status = room[job[p].room].status,
                              !.seq = job[p].seq, !.next = "later"])
    BY <1>7, <2>3 DEF Retry
  <2>5. UNCHANGED <<users, faults, history>>
    BY <1>7 DEF Retry
  <2> QED BY <2>1, <2>4, <2>5, WriteMove
<1>8. CASE Pause(p)
  <2>1. JobMoves(p, job[p].line, "done") /\ job[p].stage = "pause"
    BY <1>1, <1>8, GoToMoves DEF Pause, At, Stage
  <2>2. room[job[p].room] \in [status : Status \union {"DELETED"}, seq : Sequence,
                               next : {"null", "later", "due"}]
    BY <1>1, <2>1, JobType DEF TypeOK, JobMoves
  <2>3. [room[job[p].room] EXCEPT !.status = "PAUSED", !.next = "null"]
          = [room[job[p].room] EXCEPT !.status = "PAUSED",
                                      !.seq = room[job[p].room].seq, !.next = "null"]
    BY <2>2
  <2>4. Write(job[p].room, [room[job[p].room] EXCEPT !.status = "PAUSED",
                              !.seq = room[job[p].room].seq, !.next = "null"])
    BY <1>8, <2>3 DEF Pause
  <2>5. UNCHANGED <<users, faults, history>>
    BY <1>8 DEF Pause
  <2> QED BY <2>1, <2>4, <2>5, WriteMove
<1>9. CASE UnlockRoom(p)
  <2>1. /\ job[p].stage = "done"
        /\ lock' = [lock EXCEPT ![job[p].room] = NoReplica]
        /\ job' = [job EXCEPT ![p] = NoJob]
        /\ UNCHANGED <<room, todo, users, faults, history>>
        /\ job[p] # NoJob
    BY <1>9 DEF UnlockRoom, At
  <2>2. lock[job[p].room] = p /\ job[p].room \in Room
    BY <1>1, <2>1, JobType DEF LockHeld
  <2>3. \A x \in Room : ~Recording(p, x)
    BY <2>1 DEF Recording
  <2>4. /\ job' \in [Replica -> {NoJob} \union Job]
        /\ lock' \in [Room -> Replica \union {NoReplica}]
        /\ todo' \in [Replica -> SUBSET (Room \X Sequence)]
        /\ history' \in [Room -> History] /\ faults' \in 0..MaxFaults
        /\ \A q \in Replica : job'[q] = job[q] \/ (q = p /\ job'[q] = NoJob)
        /\ \A x \in Room : lock'[x] = lock[x] \/ (lock[x] = p /\ job'[p] = NoJob)
    BY <1>1, <2>1, <2>2 DEF TypeOK
  <2> QED BY <2>1, <2>3, <2>4, LetGo
<1>10. ASSUME NEW r \in Room, NEW s \in Sequence, TryLockRoom(p, r, s) PROVE IInv'
  BY <1>10, LockStep
<1>11. ASSUME NEW r \in Room, NEW s \in Sequence, Skip(p, r, s) PROVE IInv'
  <2>1. /\ UNCHANGED <<room, lock, job, users, history>>
        /\ todo' = [todo EXCEPT ![p] = todo[p] \ {<<r, s>>}]
    BY <1>11 DEF Skip, Take
  <2>2. faults' \in 0..MaxFaults
    BY <1>1, <1>11, BoundAssumption DEF Skip, Fault, TypeOK
  <2>3. /\ todo' \in [Replica -> SUBSET (Room \X Sequence)]
        /\ \A q \in Replica : todo'[q] \subseteq todo[q]
        /\ job' \in [Replica -> {NoJob} \union Job]
        /\ lock' \in [Room -> Replica \union {NoReplica}]
        /\ history' \in [Room -> History]
    BY <1>1, <2>1 DEF TypeOK
  <2> QED BY <2>1, <2>2, <2>3, LetGo
<1> QED
  BY <1>2, <1>3, <1>4, <1>5, <1>6, <1>7, <1>8, <1>9, <1>10, <1>11 DEF ReplicaStep

LEMMA FaultKeeps == ASSUME IInv, NEW p \in Replica, ReplicaFault(p) PROVE IInv'
<1>1. TypeOK /\ LockHeld /\ OncePerBatch
  BY DEF IInv
<1>2. ASSUME Fault PROVE faults' \in 0..MaxFaults
  BY <1>1, <1>2, BoundAssumption DEF Fault, TypeOK
<1>3. CASE Fails(p)
  <2>1. JobMoves(p, job[p].line, "done")
    BY <1>1, <1>3, GoToMoves DEF Fails, At, Stage
  <2>2. job[p].stage # "record" /\ faults' \in 0..MaxFaults
        /\ UNCHANGED <<room, users, history>>
    BY <1>2, <1>3 DEF Fails, At
  <2> QED BY <2>1, <2>2, QuietMove
<1>4. CASE SendFails(p)
  <2>1. JobMoves(p, job[p].line, "retry") /\ job[p].stage = "send"
    BY <1>1, <1>4, GoToMoves DEF SendFails, At, Stage
  <2>2. UNCHANGED <<room, users>> /\ faults' \in 0..MaxFaults
    BY <1>2, <1>4 DEF SendFails
  <2>3. CASE UNCHANGED history
    BY <2>1, <2>2, <2>3, QuietMove
  <2>4. CASE history' = [history EXCEPT ![job[p].room] =
                           [Delivered(p) EXCEPT !.lost = TRUE]]
    BY <2>1, <2>2, <2>4, DeliveryMove
  <2> QED BY <1>4, <2>3, <2>4 DEF SendFails
<1>5. CASE SendDisconnected(p)
  <2>1. JobMoves(p, job[p].line, "pause") /\ job[p].stage = "send"
    BY <1>1, <1>5, GoToMoves DEF SendDisconnected, At, Stage
  <2>2. UNCHANGED <<room, users, history>> /\ faults' \in 0..MaxFaults
    BY <1>2, <1>5 DEF SendDisconnected
  <2> QED BY <2>1, <2>2, QuietMove
<1>6. CASE RecordFails(p)
  <2>1. JobMoves(p, job[p].line, "done") /\ job[p].stage = "record"
    BY <1>1, <1>6, GoToMoves DEF RecordFails, At, Stage
  <2>2. PICK r \in Room : r = job[p].room
    BY <1>1, <2>1, JobType DEF JobMoves
  <2>3. PICK l \in Line : l = job[p].line
    BY <1>1, <2>1, JobType DEF JobMoves, IInv, InTurn, Follows
  <2>4. /\ history' = [history EXCEPT ![r] = [history[r] EXCEPT !.lost = TRUE]]
        /\ UNCHANGED <<room, users>> /\ faults' \in 0..MaxFaults
    BY <1>2, <1>6, <2>2 DEF RecordFails
  <2>5. TRUE \in BOOLEAN
    OBVIOUS
  <2> QED BY <2>1, <2>2, <2>3, <2>4, <2>5, RecordMove
<1>7. CASE Crash(p)
  <2>1. /\ UNCHANGED <<room, users>> /\ faults' \in 0..MaxFaults
        /\ todo' = [todo EXCEPT ![p] = {}]
        /\ job' = [job EXCEPT ![p] = NoJob]
        /\ lock' = [r \in Room |-> IF lock[r] = p THEN NoReplica ELSE lock[r]]
        /\ history' = [r \in Room |->
             [history[r] EXCEPT !.lost = @ \/ (At(p, "record") /\ job[p].room = r)]]
    BY <1>2, <1>7 DEF Crash
  <2>2. /\ todo' \in [Replica -> SUBSET (Room \X Sequence)]
        /\ \A q \in Replica : todo'[q] \subseteq todo[q]
        /\ job' \in [Replica -> {NoJob} \union Job]
        /\ \A q \in Replica : job'[q] = job[q] \/ (q = p /\ job'[q] = NoJob)
        /\ job'[p] = NoJob
        /\ lock' \in [Room -> Replica \union {NoReplica}]
        /\ \A x \in Room : lock'[x] = lock[x] \/ lock[x] = p
    BY <1>1, <2>1 DEF TypeOK
  <2>3. ASSUME NEW x \in Room
        PROVE  /\ history'[x] \in History
               /\ history'[x].sent = history[x].sent
               /\ history'[x].repeated = history[x].repeated
               /\ history'[x].raced = history[x].raced
               /\ history'[x].overtaken = history[x].overtaken
               /\ history'[x].late = history[x].late
               /\ history'[x].lateTwice = history[x].lateTwice
               /\ ~history'[x].lost => ~history[x].lost /\ ~Recording(p, x)
    <3>1. history[x] \in History
      BY <1>1 DEF TypeOK
    <3> DEFINE lost == history[x].lost \/ (At(p, "record") /\ job[p].room = x)
    <3>2. lost \in BOOLEAN
      BY DEF lost
    <3>3. ~lost => ~history[x].lost /\ ~Recording(p, x)
      BY DEF lost, Recording, Working, At
    <3>4. history'[x] = [history[x] EXCEPT !.lost = lost]
      BY <2>1 DEF lost
    <3> HIDE DEF lost
    <3> QED BY <3>1, <3>2, <3>3, <3>4 DEF History
  <2>4. history' \in [Room -> History]
    BY <2>1, <2>3
  <2>5. \A q \in Replica : job'[q] = job[q] \/ (q = p /\ job'[q] = NoJob)
    BY <2>2
  <2>6. \A x \in Room : lock'[x] = lock[x] \/ (lock[x] = p /\ job'[p] = NoJob)
    BY <2>2
  <2>7. \A x \in Room :
           /\ history'[x].sent = history[x].sent
           /\ history'[x].repeated = history[x].repeated
           /\ history'[x].raced = history[x].raced
           /\ history'[x].overtaken = history[x].overtaken
           /\ history'[x].late = history[x].late
           /\ history'[x].lateTwice = history[x].lateTwice
           /\ ~history'[x].lost =>
                ~history[x].lost /\ (Recording(p, x) => job'[p] = job[p])
    BY <2>3
  <2>8. UNCHANGED <<room, users>> /\ faults' \in 0..MaxFaults
    BY <2>1
  <2> QED BY <2>2, <2>4, <2>5, <2>6, <2>7, <2>8, LetGo
<1> QED BY <1>3, <1>4, <1>5, <1>6, <1>7 DEF ReplicaFault

-----------------------------------------------------------------------------
(* The users' steps.                                                       *)

\* The room's history goes on, or is cleared of its late messages.
GoesOn(x) ==
  /\ history'[x].sent = history[x].sent
  /\ history'[x].repeated = history[x].repeated
  /\ history'[x].lost = history[x].lost
  /\ history'[x].raced = history[x].raced
  /\ history'[x].overtaken = history[x].overtaken
  /\ room'[x].seq = room[x].seq
  /\ room'[x].status # "DELETED" => room[x].status # "DELETED"
  /\ \/ /\ history'[x].late = history[x].late
        /\ room'[x].status = "ACTIVE" => room[x].status = "ACTIVE"
     \/ history'[x].late = {}

StartsOver(x) ==
  /\ history'[x].sent = {}
  /\ ~history'[x].repeated
  /\ history'[x].overtaken = \E p \in Replica : Holds(p, x)
  /\ history'[x].late = {}
  /\ room'[x].seq = 0

LEMMA RoomMove ==
  ASSUME IInv, TypeOK', UNCHANGED worker,
         \A x \in Room : history'[x].lateTwice = history[x].lateTwice,
         \A x \in Room : GoesOn(x) \/ StartsOver(x)
  PROVE  IInv'
<1>1. \A p \in Replica, x \in Room :
        /\ Working(p, x)' = Working(p, x) /\ Recording(p, x)' = Recording(p, x)
        /\ Listed(p, x)' = Listed(p, x) /\ MaySend(p, x)' = MaySend(p, x)
  BY DEF worker, Working, Recording, Listed, MaySend
<1>2. LockHeld' /\ OncePerBatch' /\ InTurn'
  BY <1>1 DEF IInv, LockHeld, OncePerBatch, InTurn, worker
<1>3. ASSUME NEW x \in Room, StartsOver(x), ~history'[x].overtaken, NEW p \in Replica
      PROVE  ~Working(p, x) /\ \A s \in Sequence : <<x, s>> \notin todo[p]
  BY <1>3 DEF StartsOver, Holds, Listed
<1>4. ReadingsSent'
  <2>1. ASSUME NEW x \in Room, ~history'[x].overtaken, NEW p \in Replica
        PROVE  /\ \A s \in Sequence : <<x, s>> \in todo[p] => UpTo(s) \subseteq history'[x].sent
               /\ Working(p, x) => UpTo(job[p].seq) \subseteq history'[x].sent
               /\ Recording(p, x) => job[p].line \in history'[x].sent
    <3>1. CASE StartsOver(x)
      BY <1>3, <2>1, <3>1 DEF Recording
    <3>2. CASE GoesOn(x)
      BY <2>1, <3>2 DEF GoesOn, IInv, ReadingsSent
    <3> QED BY <3>1, <3>2
  <2> QED BY <1>1, <2>1 DEF ReadingsSent, worker
<1>5. NoLineSkipped'
  <2>1. UpTo(0) = {}
    <3>1. \A l \in Line : ~(l <= 0)
      BY LineAssumption
    <3> QED BY <3>1 DEF UpTo
  <2>2. ASSUME NEW x \in Room, ~history'[x].overtaken
        PROVE  UpTo(room'[x].seq) \subseteq history'[x].sent
    <3>1. CASE StartsOver(x)
      BY <2>1, <3>1 DEF StartsOver
    <3>2. CASE GoesOn(x)
      BY <2>2, <3>2 DEF GoesOn, IInv, NoLineSkipped
    <3> QED BY <3>1, <3>2
  <2> QED BY <2>2 DEF NoLineSkipped
<1>6. \A x \in Room : InFlight(x)' = InFlight(x)
  BY <1>1 DEF InFlight, worker
<1>7. FreshReadings'
  <2>1. ASSUME NEW x \in Room, Clean(x)' PROVE FreshRoom(x)'
    <3>1. room'[x].seq \in Sequence
      BY DEF TypeOK
    <3>2. CASE StartsOver(x)
      <4>1. \A s \in Sequence : Fresh(x, s)'
        BY <3>2 DEF StartsOver, Fresh
      <4>2. history'[x].sent = {} /\ ~history'[x].repeated
        BY <3>2 DEF StartsOver
      <4> QED BY <3>1, <4>1, <4>2 DEF FreshRoom
    <3>3. CASE GoesOn(x)
      <4>1. Clean(x) /\ FreshRoom(x)
        BY <2>1, <3>3 DEF GoesOn, Clean, IInv, FreshReadings
      <4>2. \A s \in Sequence : Fresh(x, s)' = Fresh(x, s)
        BY <1>6, <3>3 DEF Fresh, UpTo, GoesOn
      <4>3. room'[x].status # "DELETED" => Fresh(x, room[x].seq)'
        BY <3>1, <3>3, <4>1, <4>2 DEF GoesOn, FreshRoom
      <4>4. job' = job /\ todo' = todo /\ history'[x].sent = history[x].sent
            /\ history'[x].repeated = history[x].repeated
        BY <3>3 DEF worker, GoesOn
      <4> QED BY <1>1, <4>1, <4>2, <4>3, <4>4 DEF FreshRoom
    <3> QED BY <3>2, <3>3
  <2> QED BY <2>1 DEF FreshReadings
<1>8. LateOnce' /\ AtMostOneLate'
  <2>1. ASSUME NEW x \in Room
        PROVE  /\ room'[x].status = "ACTIVE" => history'[x].late = {}
               /\ \A p \in history'[x].late : ~MaySend(p, x)'
    <3>1. history[x].late \subseteq Replica
      BY DEF IInv, TypeOK, History
    <3>2. CASE history'[x].late = {}
      BY <3>2
    <3>3. CASE history'[x].late = history[x].late
               /\ (room'[x].status = "ACTIVE" => room[x].status = "ACTIVE")
      BY <1>1, <3>1, <3>3 DEF IInv, LateOnce
    <3> QED BY <3>2, <3>3 DEF GoesOn, StartsOver
  <2> QED BY <2>1 DEF IInv, LateOnce, AtMostOneLate
<1> QED BY <1>2, <1>4, <1>5, <1>7, <1>8 DEF IInv

LEMMA DueKeeps == ASSUME IInv, NEW r \in Room, BecomesDue(r) PROVE IInv'
<1>1. /\ TypeOK /\ room' = [room EXCEPT ![r].next = "due"]
      /\ UNCHANGED <<worker, users, faults, history>>
  BY DEF IInv, BecomesDue
<1>2. \A x \in Room : room'[x].status = room[x].status /\ room'[x].seq = room[x].seq
                      /\ room'[x].next \in {room[x].next, "due"}
  BY <1>1 DEF TypeOK
<1>3. room' \in [Room -> [status : Status \union {"DELETED"}, seq : Sequence,
                          next : {"null", "later", "due"}]]
  BY <1>1 DEF TypeOK
<1>4. TypeOK'
  BY <1>1, <1>2, <1>3 DEF TypeOK, worker, users
<1>5. \A x \in Room : GoesOn(x)
  BY <1>1, <1>2 DEF GoesOn
<1> QED BY <1>1, <1>4, <1>5, RoomMove

\* What Write makes of the table.
LEMMA WriteType ==
  ASSUME TypeOK, NEW r \in Room, NEW status \in Status, NEW next,
         next = IF status = "ACTIVE" THEN "later" ELSE "null",
         Write(r, [room[r] EXCEPT !.status = status, !.next = next])
  PROVE  /\ room' \in [Room -> [status : Status \union {"DELETED"}, seq : Sequence,
                                next : {"null", "later", "due"}]]
         /\ \A x \in Room :
              /\ room'[x].seq = room[x].seq
              /\ room'[x].status = "ACTIVE" => room'[x].next # "null"
              /\ room'[x].status # "DELETED" => room[x].status # "DELETED"
              /\ room'[x] = room[x] \/ (x = r /\ room'[x].status = status)
<1> DEFINE new == [room[r] EXCEPT !.status = status, !.next = next]
<1>1. room \in [Room -> [status : Status \union {"DELETED"}, seq : Sequence,
                         next : {"null", "later", "due"}]]
  BY DEF TypeOK
<1>2. /\ new \in [status : Status, seq : Sequence, next : {"null", "later", "due"}]
      /\ new.status = status /\ new.seq = room[r].seq /\ new.next = next
  BY <1>1
<1>3. \/ room' = room
      \/ room[r].status # "DELETED" /\ room' = [room EXCEPT ![r] = new]
  BY DEF Write
<1> HIDE DEF new
<1>4. CASE room' = room
  BY <1>1, <1>4 DEF TypeOK
<1>5. CASE room[r].status # "DELETED" /\ room' = [room EXCEPT ![r] = new]
  <2>1. room'[r] = new /\ \A x \in Room : x # r => room'[x] = room[x]
    BY <1>1, <1>5
  <2>2. room' \in [Room -> [status : Status \union {"DELETED"}, seq : Sequence,
                            next : {"null", "later", "due"}]]
    BY <1>1, <1>2, <1>5
  <2>3. \A x \in Room : room[x].status = "ACTIVE" => room[x].next # "null"
    BY DEF TypeOK
  <2>4. new.status = "ACTIVE" => new.next # "null"
    BY <1>2
  <2> QED BY <1>2, <1>5, <2>1, <2>2, <2>3, <2>4
<1> QED BY <1>3, <1>4, <1>5

LEMMA RequestType == ASSUME TypeOK, Request PROVE requests' \in 0..MaxRequests
BY BoundAssumption DEF Request, TypeOK

LEMMA UserKeeps == ASSUME IInv, NEW r \in Room, UserStep(r) PROVE IInv'
<1>1. /\ TypeOK /\ history[r] \in History /\ history \in [Room -> History]
      /\ room \in [Room -> [status : Status \union {"DELETED"}, seq : Sequence,
                            next : {"null", "later", "due"}]]
  BY DEF IInv, TypeOK
<1>2. ASSUME NEW status \in Status, AskStatus(r, status) PROVE IInv'
  <2>1. /\ UNCHANGED <<room, worker, faults, history>>
        /\ asked' = asked \union {<<r, status>>} /\ Request
    BY <1>2 DEF AskStatus
  <2>2. TypeOK'
    BY <1>1, <2>1, RequestType DEF TypeOK, worker
  <2>3. \A x \in Room : GoesOn(x)
    BY <2>1 DEF GoesOn
  <2> QED BY <2>1, <2>2, <2>3, RoomMove
<1>3. ASSUME NEW status \in Status, UpdateRoomStatus(r, status) PROVE IInv'
  <2> DEFINE next == IF status = "ACTIVE" THEN "later" ELSE "null"
  <2>1. /\ asked' = asked \ {<<r, status>>}
        /\ Write(r, [room[r] EXCEPT !.status = status, !.next = next])
        /\ UNCHANGED <<worker, requests, faults>>
    BY <1>3 DEF UpdateRoomStatus
  <2>2. /\ room' \in [Room -> [status : Status \union {"DELETED"}, seq : Sequence,
                               next : {"null", "later", "due"}]]
        /\ \A x \in Room :
             /\ room'[x].seq = room[x].seq
             /\ room'[x].status = "ACTIVE" => room'[x].next # "null"
             /\ room'[x].status # "DELETED" => room[x].status # "DELETED"
             /\ room'[x] = room[x] \/ (x = r /\ room'[x].status = status)
    BY <1>1, <2>1, WriteType
  <2>3. /\ Resumed(history[r]) \in History
        /\ Resumed(history[r]).late = {}
        /\ Resumed(history[r]).sent = history[r].sent
        /\ Resumed(history[r]).repeated = history[r].repeated
        /\ Resumed(history[r]).lost = history[r].lost
        /\ Resumed(history[r]).raced = history[r].raced
        /\ Resumed(history[r]).overtaken = history[r].overtaken
        /\ Resumed(history[r]).lateTwice = history[r].lateTwice
    BY <1>1 DEF Resumed, History
  <2>4. \/ status = "ACTIVE" /\ history' = [history EXCEPT ![r] = Resumed(history[r])]
        \/ status # "ACTIVE" /\ history' = history
    BY <1>3 DEF UpdateRoomStatus
  <2>5. /\ history' \in [Room -> History]
        /\ \A x \in Room : history'[x].lateTwice = history[x].lateTwice
    BY <1>1, <2>3, <2>4
  <2>6. TypeOK'
    BY <1>1, <2>1, <2>2, <2>5 DEF TypeOK, worker
  <2>7. ASSUME NEW x \in Room PROVE GoesOn(x)
    BY <1>1, <2>2, <2>3, <2>4 DEF GoesOn
  <2> QED BY <2>1, <2>5, <2>6, <2>7, RoomMove
<1>4. CASE Restart(r)
  <2>1. PICK overtaken \in BOOLEAN : overtaken = \E p \in Replica : Holds(p, r)
    OBVIOUS
  <2> DEFINE h == [Resumed(history[r]) EXCEPT !.sent = {}, !.repeated = FALSE,
                     !.lost = FALSE, !.raced = FALSE, !.overtaken = overtaken]
             new == [status |-> "ACTIVE", seq |-> 0, next |-> "due"]
  <2>2. /\ room' = [room EXCEPT ![r] = new]
        /\ history' = [history EXCEPT ![r] = h]
        /\ UNCHANGED <<worker, asked, faults>> /\ Request
    BY <1>4, <2>1 DEF Restart
  <2>3. /\ h \in History /\ h.sent = {} /\ ~h.repeated /\ h.late = {}
        /\ h.overtaken = overtaken /\ h.lateTwice = history[r].lateTwice
    BY <1>1, <2>1 DEF Resumed, History
  <2>4. /\ new \in [status : Status \union {"DELETED"}, seq : Sequence,
                    next : {"null", "later", "due"}]
        /\ new.seq = 0 /\ new.status = "ACTIVE" /\ new.next # "null"
    BY DEF Status, Sequence
  <2> HIDE DEF h, new
  <2>5. /\ room' \in [Room -> [status : Status \union {"DELETED"}, seq : Sequence,
                               next : {"null", "later", "due"}]]
        /\ room'[r] = new /\ \A x \in Room : x # r => room'[x] = room[x]
        /\ history' \in [Room -> History]
        /\ history'[r] = h /\ \A x \in Room : x # r => history'[x] = history[x]
    BY <1>1, <2>2, <2>3, <2>4
  <2>6. TypeOK'
    BY <1>1, <2>2, <2>4, <2>5, RequestType DEF TypeOK, worker
  <2>7. StartsOver(r)
    BY <2>1, <2>3, <2>4, <2>5 DEF StartsOver
  <2>8. \A x \in Room : x # r => GoesOn(x)
    BY <2>5 DEF GoesOn
  <2>9. \A x \in Room : history'[x].lateTwice = history[x].lateTwice
    BY <2>3, <2>5
  <2> QED BY <2>2, <2>6, <2>7, <2>8, <2>9, RoomMove
<1>5. CASE DeleteRoom(r)
  <2>1. /\ room' = [room EXCEPT ![r].status = "DELETED", ![r].next = "null"]
        /\ UNCHANGED <<worker, asked, faults, history>> /\ Request
    BY <1>5 DEF DeleteRoom
  <2>2. /\ room' \in [Room -> [status : Status \union {"DELETED"}, seq : Sequence,
                               next : {"null", "later", "due"}]]
        /\ \A x \in Room : x # r => room'[x] = room[x]
        /\ room'[r].status = "DELETED" /\ room'[r].seq = room[r].seq
    BY <1>1, <2>1
  <2>3. TypeOK'
    BY <1>1, <2>1, <2>2, RequestType DEF TypeOK, worker
  <2>4. \A x \in Room : GoesOn(x)
    BY <2>1, <2>2 DEF GoesOn
  <2> QED BY <2>1, <2>3, <2>4, RoomMove
<1> QED BY <1>2, <1>3, <1>4, <1>5 DEF UserStep

-----------------------------------------------------------------------------

LEMMA NextKeeps == ASSUME IInv, [Next]_vars PROVE IInv'
<1>1. CASE Next
  BY <1>1, ReplicaKeeps, FaultKeeps, DueKeeps, UserKeeps DEF Next
<1>2. CASE UNCHANGED vars
  <2>1. UNCHANGED <<room, worker, users, faults, history>>
    BY <1>2 DEF vars
  <2>2. TypeOK'
    BY <2>1 DEF IInv, TypeOK, worker, users
  <2>3. \A x \in Room : GoesOn(x)
    BY <2>1 DEF GoesOn
  <2> QED BY <2>1, <2>2, <2>3, RoomMove
<1> QED BY <1>1, <1>2

\* The whole invariant holds in every state.
THEOREM RoomsInvariant == Spec => []IInv
<1>1. Init => IInv
  BY InitIInv
<1>2. IInv /\ [Next]_vars => IInv'
  BY NextKeeps
<1> QED BY <1>1, <1>2, PTL DEF Spec

\* Every variable of the warming worker keeps its type, and an active room is
\* always scheduled.
THEOREM RoomsTypeCorrect == Spec => []TypeOK
<1>1. IInv => TypeOK
  BY DEF IInv
<1> QED BY <1>1, RoomsInvariant, PTL

\* TryLockRoom keeps replicas apart, whatever crashes.
THEOREM ExecutesAloneHolds == Spec => []ExecutesAlone
<1>1. IInv => ExecutesAlone
  BY DEF IInv, LockHeld, ExecutesAlone
<1> QED BY <1>1, RoomsInvariant, PTL

\* advanceRoom never skips a line of the script, unless it overtakes a restart.
THEOREM NoLineSkippedHolds == Spec => []NoLineSkipped
<1>1. IInv => NoLineSkipped
  BY DEF IInv
<1> QED BY <1>1, RoomsInvariant, PTL

\* executeRoom sends a line twice only for one of the three known reasons.
THEOREM RepeatsExplainedHolds == Spec => []RepeatsExplained
<1>1. IInv => RepeatsExplained
  BY DEF IInv, FreshReadings, FreshRoom, Clean, RepeatsExplained
<1> QED BY <1>1, RoomsInvariant, PTL

\* A room that is not active gets at most one more message of each replica.
THEOREM AtMostOneLateHolds == Spec => []AtMostOneLate
<1>1. IInv => AtMostOneLate
  BY DEF IInv
<1> QED BY <1>1, RoomsInvariant, PTL

\* What one step must not do for FinishedIsComplete.
FinishStep ==
  \A r \in Room :
    /\ room[r].status # "FINISHED"
    /\ room'[r].status = "FINISHED"
    /\ asked' = asked
    => history[r].overtaken \/ history[r].sent = Line

\* Writes of a replica's job leave every other room as it is.
LEMMA WriteElsewhere ==
  ASSUME TypeOK, NEW x \in Room, NEW r, NEW new, Write(r, new), x # r
  PROVE  room'[x] = room[x]
BY DEF Write, TypeOK

LEMMA FinishesComplete == ASSUME IInv, [Next]_vars PROVE FinishStep
<1> SUFFICES ASSUME NEW r \in Room, room[r].status # "FINISHED",
                    room'[r].status = "FINISHED", asked' = asked
             PROVE  history[r].overtaken \/ history[r].sent = Line
  BY DEF FinishStep
<1>1. TypeOK /\ room' # room
  BY DEF IInv
<1>2. ASSUME NEW p \in Replica, Finish(p)
      PROVE  history[r].overtaken \/ history[r].sent = Line
  <2>1. UpTo(job[p].seq) = Line /\ job[p] # NoJob
    BY <1>2 DEF Finish, At
  <2>2. r = job[p].room
    BY <1>1, <1>2, WriteElsewhere DEF Finish
  <2>3. Working(p, r)
    BY <2>1, <2>2 DEF Working
  <2>4. history[r].sent \subseteq Line
    BY <1>1 DEF TypeOK, History
  <2> QED BY <2>1, <2>3, <2>4 DEF IInv, ReadingsSent
<1>3. ASSUME NEW p \in Replica, Record(p) \/ Retry(p) \/ Pause(p)
      PROVE  FALSE
  <2>1. job[p] # NoJob
    BY <1>3 DEF Record, Retry, Pause, At
  <2>2. PICK x \in Room : x = job[p].room
    BY <1>1, <2>1, JobType
  <2>3. r = x
    BY <1>1, <1>3, <2>2, WriteElsewhere DEF Record, Retry, Pause
  <2>4. room[r] \in [status : Status \union {"DELETED"}, seq : Sequence,
                     next : {"null", "later", "due"}]
    BY <1>1 DEF TypeOK
  <2>5. room'[r].status \in {room[r].status, "PAUSED"}
    <3> DEFINE a == [room[r] EXCEPT !.seq = job[p].line, !.next = "later"]
               b == [room[r] EXCEPT !.seq = job[p].seq, !.next = "later"]
               c == [room[r] EXCEPT !.status = "PAUSED", !.next = "null"]
    <3>1. a.status = room[r].status /\ b.status = room[r].status /\ c.status = "PAUSED"
      BY <2>4
    <3>2. Write(r, a) \/ Write(r, b) \/ Write(r, c)
      BY <1>3, <2>2, <2>3 DEF Record, Retry, Pause
    <3> HIDE DEF a, b, c
    <3>3. room \in [Room -> [status : Status \union {"DELETED"}, seq : Sequence,
                             next : {"null", "later", "due"}]]
      BY <1>1 DEF TypeOK
    <3>4. room'[r] \in {room[r], a, b, c}
      BY <3>2, <3>3 DEF Write
    <3> QED BY <3>1, <3>4
  <2> QED BY <2>5
<1>4. ASSUME NEW x \in Room, BecomesDue(x) \/ DeleteRoom(x) \/ Restart(x)
      PROVE  FALSE
  BY <1>1, <1>4 DEF BecomesDue, DeleteRoom, Restart, TypeOK
<1>5. ASSUME NEW x \in Room, NEW s \in Status, UpdateRoomStatus(x, s) PROVE FALSE
  BY <1>5 DEF UpdateRoomStatus
<1>6. ASSUME NEW x \in Room, NEW s \in Status, AskStatus(x, s) PROVE FALSE
  BY <1>1, <1>6 DEF AskStatus
<1>7. ASSUME NEW p \in Replica, ReplicaFault(p) PROVE FALSE
  BY <1>1, <1>7 DEF ReplicaFault, Fails, SendFails, SendDisconnected, RecordFails, Crash
<1>8. ASSUME NEW p \in Replica,
             \/ Fetch(p) \/ SelectLine(p) \/ Send(p) \/ UnlockRoom(p)
             \/ \E x \in Room, s \in Sequence : TryLockRoom(p, x, s) \/ Skip(p, x, s)
      PROVE  FALSE
  BY <1>1, <1>8 DEF Fetch, SelectLine, Send, UnlockRoom, TryLockRoom, Skip
<1> QED
  BY <1>1, <1>2, <1>3, <1>4, <1>5, <1>6, <1>7, <1>8
  DEF Next, ReplicaStep, UserStep, vars

\* FinishRoom comes after the last line of the script, unless it overtakes a
\* restart.
THEOREM FinishedIsCompleteHolds == Spec => FinishedIsComplete
<1>1. IInv /\ [Next]_vars => [FinishStep]_vars
  BY FinishesComplete
<1> QED BY <1>1, RoomsInvariant, PTL DEF Spec, FinishedIsComplete, FinishStep
====
