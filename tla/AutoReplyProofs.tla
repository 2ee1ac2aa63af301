--------------------------- MODULE AutoReplyProofs ---------------------------
(***************************************************************************)
(* Proofs about AutoReply for every number of messages, requests, rooms,   *)
(* lines and instances, and for every bound on them.                       *)
(***************************************************************************)
EXTENDS AutoReply, FiniteSetTheorems, TLAPS

ReplyPc == {"marking", "stamp", "delay", "progress", "send"}

AboutStatus == [pc : {"check", "write", "cleanup"}, room : Room, status : Status]
AboutNumber == [pc : {"number"}, room : Room, number : Number]
Inserting   == [pc : {"insert"}, number : Number]
Generating  == [pc : {"generate"}, left : Nat \ {0}, seq : Nat]

\* A message that is neither new nor done is a reply.
LEMMA Replies ==
  ASSUME TypeOK, NEW m \in Message
  PROVE  /\ msg[m] \notin {New, Done} => msg[m] \in Reply
         /\ msg[m] \in Reply => msg[m] \notin {New, Done}
         /\ \A p \in ReplyPc : At(m, p) =>
              /\ msg[m] \in Reply /\ msg[m] \notin {New, Done}
              /\ msg[m].room \in Room /\ msg[m].at \in Instance
              /\ msg[m].seq \in Nat /\ msg[m].line \in LineId \union {None}
<1>1. msg[m] \in {New, Done} \union Reply
  BY DEF TypeOK
<1>2. msg[m] \in Reply => msg[m] \notin {New, Done}
  BY DEF Reply, New, Done
<1>3. ASSUME NEW p \in ReplyPc, At(m, p) PROVE msg[m] \in Reply
  BY <1>1, <1>3 DEF At, ReplyPc, New, Done
<1>4. msg[m] \in Reply => /\ msg[m].room \in Room /\ msg[m].at \in Instance
                          /\ msg[m].seq \in Nat /\ msg[m].line \in LineId \union {None}
  BY DEF Reply
<1> QED BY <1>1, <1>2, <1>3, <1>4

\* What a reply's step from one place to the next leaves as it was.
LEMMA Goes ==
  ASSUME TypeOK, NEW m \in Message, msg[m] \in Reply, NEW p \in ReplyPc, GoTo(m, p)
  PROVE  /\ msg' \in [Message -> {New, Done} \union Reply]
         /\ msg'[m] \in Reply /\ msg'[m].pc = p /\ msg'[m].room = msg[m].room
         /\ msg'[m].at = msg[m].at /\ msg'[m].seq = msg[m].seq /\ msg'[m].line = msg[m].line
         /\ \A n \in Message : n # m => msg'[n] = msg[n]
<1> DEFINE x == [msg[m] EXCEPT !.pc = p]
<1>1. x \in Reply /\ x.pc = p /\ x.room = msg[m].room
      /\ x.at = msg[m].at /\ x.seq = msg[m].seq /\ x.line = msg[m].line
  BY DEF Reply, ReplyPc
<1>2. msg' = [msg EXCEPT ![m] = x]
  BY DEF GoTo
<1> HIDE DEF x
<1> QED BY <1>1, <1>2 DEF TypeOK

LEMMA Ends ==
  ASSUME TypeOK, NEW m \in Message, Finish(m)
  PROVE  /\ msg' \in [Message -> {New, Done} \union Reply]
         /\ msg'[m] = Done /\ \A n \in Message : n # m => msg'[n] = msg[n]
BY DEF Finish, TypeOK

\* A request that waits for its next step has the fields of its kind.
LEMMA Requests ==
  ASSUME TypeOK, NEW q \in Request
  PROVE  /\ \A p \in {"check", "write", "cleanup"} : Req(q, p) =>
              req[q] \in AboutStatus /\ req[q].room \in Room /\ req[q].status \in Status
         /\ Req(q, "number") => req[q].room \in Room /\ req[q].number \in Number
         /\ Req(q, "insert") => req[q].number \in Number
         /\ Req(q, "generate") => req[q] \in Generating /\ req[q].seq \in Nat
<1>1. \/ req[q] \in {New, Done} \/ req[q] \in AboutStatus \/ req[q] \in Inserting
      \/ req[q] \in AboutNumber \/ req[q] \in Generating
  BY DEF TypeOK, Asked, AboutStatus, AboutNumber, Inserting, Generating
<1> QED BY <1>1 DEF Req, New, Done, AboutStatus, AboutNumber, Inserting, Generating

LEMMA Steps ==
  ASSUME TypeOK, NEW q \in Request, NEW x \in {New, Done} \union Asked, Step(q, x)
  PROVE  /\ req' \in [Request -> {New, Done} \union Asked]
         /\ req'[q] = x /\ \A p \in Request : p # q => req'[p] = req[p]
BY DEF Step, TypeOK

\* Faults are counted.
LEMMA FaultType == ASSUME TypeOK, Fault PROVE faults' \in 0..MaxFaults
BY AutoReplyAssumption DEF TypeOK, Fault

LEMMA NoteType ==
  ASSUME TypeOK, NEW r \in Room, NEW new \in History, Note(r, new)
  PROVE  /\ history' \in [Room -> History]
         /\ history'[r] = IF history[r].overtaken THEN history[r] ELSE new
         /\ \A s \in Room : s # r => history'[s] = history[s]
BY DEF Note, TypeOK

-----------------------------------------------------------------------------
(* Types.                                                                  *)

LEMMA InitTypes == ASSUME Init PROVE TypeOK
<1>1. room \in [Room -> RoomRow]
  <2>1. {Absent, NewRoom(Human), [NewRoom(Human) EXCEPT !.status = "ACTIVE"]} \subseteq RoomRow
    BY AutoReplyAssumption DEF Absent, NewRoom, RoomRow, Status
  <2> QED BY <2>1 DEF Init
<1>2. history \in [Room -> History]
  BY DEF Init, NewHistory, History
<1>3. 0 \in 0..MaxFaults
  BY AutoReplyAssumption
<1>4. msg \in [Message -> {New, Done} \union Reply] /\ req \in [Request -> {New, Done} \union Asked]
  BY DEF Init
<1>5. passed \in [Room -> [Instance -> Nat]] /\ stamp \in [Room -> {"none", "fresh", "old"}]
  BY DEF Init
<1>6. /\ line \in [LineId -> 0..MaxSeq] /\ late \subseteq Room /\ faults \in 0..MaxFaults
      /\ \A k, l \in LineId : line[k] = line[l] => k = l \/ line[k] = 0
  BY <1>3 DEF Init
<1> QED BY <1>1, <1>2, <1>4, <1>5, <1>6 DEF TypeOK

LEMMA MessageTypes == ASSUME TypeOK, NEW m \in Message, MessageStep(m) PROVE TypeOK'
<1>1. ASSUME msg' \in [Message -> {New, Done} \union Reply],
             history' \in [Room -> History], room' \in [Room -> RoomRow], faults' \in 0..MaxFaults,
             UNCHANGED <<line, req, cooldown>>
      PROVE  TypeOK'
  BY <1>1 DEF TypeOK, cooldown
<1>2. CASE LoadStamp(m)
  <2>1. msg' \in [Message -> {New, Done} \union Reply]
    BY <1>2, Replies, Goes, Ends DEF LoadStamp, ReplyPc
  <2> QED BY <1>1, <1>2, <2>1 DEF LoadStamp, TypeOK
<1>3. CASE StoreStamp(m)
  <2>1. msg[m].room \in Room /\ msg[m].at \in Instance /\ msg[m] \in Reply
    BY <1>3, Replies DEF StoreStamp, ReplyPc
  <2>2. msg' \in [Message -> {New, Done} \union Reply]
    BY <1>3, <2>1, Goes DEF StoreStamp, ReplyPc
  <2>3. passed' \in [Room -> [Instance -> Nat]]
    BY <1>3, <2>1 DEF StoreStamp, Pass, TypeOK
  <2>4. stamp' \in [Room -> {"none", "fresh", "old"}] /\ late' \subseteq Room
    BY <1>3, <2>1 DEF StoreStamp, TypeOK
  <2> QED BY <1>3, <2>2, <2>3, <2>4 DEF StoreStamp, TypeOK
<1>4. CASE AIReply(m)
  <2>1. msg' \in [Message -> {New, Done} \union Reply]
    BY <1>4, Replies, Goes, Ends DEF AIReply, ReplyPc
  <2> QED BY <1>1, <1>4, <2>1 DEF AIReply, TypeOK
<1>5. CASE NoLineLeft(m)
  <2>1. msg' \in [Message -> {New, Done} \union Reply]
    BY <1>5, Ends DEF NoLineLeft
  <2> QED BY <1>1, <1>5, <2>1 DEF NoLineLeft, TypeOK
<1>6. CASE UpdateRoomProgress(m)
  <2> DEFINE r == msg[m].room
  <2>1. r \in Room /\ msg[m].seq \in Nat /\ msg[m] \in Reply
    BY <1>6, Replies DEF UpdateRoomProgress, ReplyPc
  <2>2. msg' \in [Message -> {New, Done} \union Reply]
    BY <1>6, <2>1, Goes DEF UpdateRoomProgress, ReplyPc
  <2>3. room' \in [Room -> RoomRow]
    <3>1. [room[r] EXCEPT !.seq = NextSeq(m)] \in RoomRow
      <4>1. room[r] \in RoomRow /\ NextSeq(m) \in Nat
        BY <2>1 DEF NextSeq, TypeOK
      <4> HIDE DEF r
      <4> QED BY <4>1 DEF RoomRow
    <3> QED BY <1>6, <2>1, <3>1 DEF UpdateRoomProgress, Write, TypeOK
  <2>4. history' \in [Room -> History]
    <3> DEFINE e == \E n \in Message \ {m} : Reading(n, r) /\ ~At(n, "send")
               h == [history[r] EXCEPT !.excused = @ \/ e]
    <3>1. h \in History
      <4>1. history[r] \in History /\ (history[r].excused \/ e) \in BOOLEAN
        BY <2>1 DEF TypeOK, History
      <4> HIDE DEF e
      <4> QED BY <4>1 DEF History
    <3>2. Note(r, h)
      BY <1>6 DEF UpdateRoomProgress
    <3> QED BY <2>1, <3>1, <3>2, NoteType
  <2> QED BY <1>1, <1>6, <2>2, <2>3, <2>4 DEF UpdateRoomProgress, TypeOK
<1>7. CASE ProgressFails(m)
  <2> DEFINE r == msg[m].room
  <2>1. r \in Room /\ msg[m] \in Reply
    BY <1>7, Replies DEF ProgressFails, ReplyPc
  <2>2. msg' \in [Message -> {New, Done} \union Reply]
    BY <1>7, <2>1, Goes DEF ProgressFails, ReplyPc
  <2>3. history' \in [Room -> History]
    <3>1. [history[r] EXCEPT !.excused = TRUE] \in History
      <4>1. history[r] \in History
        BY <2>1 DEF TypeOK
      <4> HIDE DEF r
      <4> QED BY <4>1 DEF History
    <3>2. Note(r, [history[r] EXCEPT !.excused = TRUE])
      BY <1>7 DEF ProgressFails
    <3> QED BY <2>1, <3>1, <3>2, NoteType
  <2> QED BY <1>1, <1>7, <2>2, <2>3, FaultType DEF ProgressFails, TypeOK
<1>8. CASE SendReply(m)
  <2> DEFINE r == msg[m].room
             h == history[r]
             l == msg[m].line
             b == l \in h.tried \ h.moved /\ ~h.excused
             new == [h EXCEPT !.tried = @ \union {l}, !.repeated = @ \/ b]
  <2>1. r \in Room /\ msg[m] \in Reply /\ l \in LineId \union {None}
    BY <1>8, Replies DEF SendReply, ReplyPc
  <2>2. msg' \in [Message -> {New, Done} \union Reply]
    BY <1>8, <2>1, Ends DEF SendReply
  <2>3. history' \in [Room -> History]
    <3>1. CASE l = None
      BY <1>8, <3>1 DEF SendReply, TypeOK
    <3>2. CASE l # None
      <4>1. h \in History /\ h.tried \union {l} \in SUBSET LineId /\ (h.repeated \/ b) \in BOOLEAN
        BY <2>1, <3>2 DEF TypeOK, History
      <4>2. Note(r, new)
        BY <1>8, <3>2 DEF SendReply
      <4> HIDE DEF b
      <4>3. new \in History
        BY <4>1 DEF History
      <4> QED BY <2>1, <4>2, <4>3, NoteType
    <3> QED BY <3>1, <3>2
  <2> QED BY <1>1, <1>8, <2>2, <2>3 DEF SendReply, TypeOK
<1>9. ASSUME NEW i \in Instance, NEW r \in Room, Receive(m, i, r) PROVE TypeOK'
  <2> DEFINE x == [pc |-> "marking", at |-> i, room |-> r, seq |-> room[r].seq, line |-> None]
  <2>1. x \in Reply
    BY DEF TypeOK, RoomRow, Reply
  <2>2. msg' = [msg EXCEPT ![m] = x]
    BY <1>9 DEF Receive
  <2> HIDE DEF x
  <2>3. msg' \in [Message -> {New, Done} \union Reply]
    BY <2>1, <2>2 DEF TypeOK
  <2> QED BY <1>1, <1>9, <2>3 DEF Receive, TypeOK
<1>10. ASSUME NEW l \in LineId, SelectLine(m, l) PROVE TypeOK'
  <2> DEFINE r == msg[m].room
             x == [msg[m] EXCEPT !.pc = "progress", !.line = l]
             e == line[l] > msg[m].seq + 1
             h == [history[r] EXCEPT !.excused = @ \/ e]
  <2>1. r \in Room /\ msg[m] \in Reply
    BY <1>10, Replies DEF SelectLine, ReplyPc
  <2>2. x \in Reply
    BY <2>1 DEF Reply
  <2>3. msg' = [msg EXCEPT ![m] = x]
    BY <1>10 DEF SelectLine
  <2>4. Note(r, h)
    BY <1>10 DEF SelectLine
  <2>5. h \in History
    <3>1. history[r] \in History /\ (history[r].excused \/ e) \in BOOLEAN
      BY <2>1 DEF TypeOK, History
    <3> HIDE DEF e
    <3> QED BY <3>1 DEF History
  <2> HIDE DEF x, h, r
  <2>6. msg' \in [Message -> {New, Done} \union Reply]
    BY <2>2, <2>3 DEF TypeOK
  <2>7. history' \in [Room -> History]
    BY <2>1, <2>4, <2>5, NoteType
  <2> QED BY <1>1, <1>10, <2>6, <2>7 DEF SelectLine, TypeOK
<1> QED BY <1>2, <1>3, <1>4, <1>5, <1>6, <1>7, <1>8, <1>9, <1>10 DEF MessageStep

\* The requests for rooms, and what they leave alone.
LEMMA RoomRequestTypes ==
  ASSUME TypeOK, NEW q \in Request, RoomRequest(q)
  PROVE  TypeOK' /\ UNCHANGED <<line, msg, faults>>
<1>1. ASSUME req' \in [Request -> {New, Done} \union Asked],
             room' \in [Room -> RoomRow], history' \in [Room -> History],
             UNCHANGED <<line, msg, faults, cooldown>>
      PROVE  TypeOK'
  BY <1>1 DEF TypeOK, cooldown
<1>2. ASSUME NEW r \in Room, req[q].room = r, NEW row \in RoomRow, NEW next \in {New, Done} \union Asked,
             UpdateRow(q, row, next), UNCHANGED <<line, msg, faults, cooldown, history>>
      PROVE  TypeOK'
  <2>1. \E x \in {New, Done} \union Asked : Step(q, x)
    BY <1>2 DEF UpdateRow
  <2>2. req' \in [Request -> {New, Done} \union Asked]
    BY <2>1, Steps
  <2>3. room' \in [Room -> RoomRow]
    BY <1>2 DEF UpdateRow, TypeOK
  <2> QED BY <1>1, <1>2, <2>2, <2>3 DEF TypeOK
<1>3. ASSUME NEW x \in {New, Done} \union Asked, Step(q, x),
             UNCHANGED <<room, line, msg, faults, cooldown, history>>
      PROVE  TypeOK'
  BY <1>1, <1>3, Steps DEF TypeOK
<1>4. \A r \in Room : \A status \in Status :
         \A p \in {"check", "write", "cleanup"} : [pc |-> p, room |-> r, status |-> status] \in Asked
  BY DEF Asked
<1>5. \A n \in Number : [pc |-> "insert", number |-> n] \in Asked
                        /\ \A r \in Room : [pc |-> "number", room |-> r, number |-> n] \in Asked
  BY DEF Asked
<1>6. CASE CheckActivationWhitelist(q)
  <2>1. req[q] \in AboutStatus
    BY <1>6, Requests DEF CheckActivationWhitelist
  <2>2. [req[q] EXCEPT !.pc = "write"] \in Asked
    BY <2>1 DEF AboutStatus, Asked
  <2> QED BY <1>3, <1>6, <2>2 DEF CheckActivationWhitelist
<1>7. CASE UpdateRoomStatus(q)
  <2>1. req[q] \in AboutStatus /\ req[q].room \in Room /\ req[q].status \in Status
    BY <1>7, Requests DEF UpdateRoomStatus
  <2>2. [req[q] EXCEPT !.pc = "cleanup"] \in Asked
    BY <2>1 DEF AboutStatus, Asked
  <2>3. room[req[q].room] \in RoomRow
    BY <2>1 DEF TypeOK
  <2>4. Written(q) \in RoomRow
    BY <2>1, <2>3 DEF Written, RoomRow
  <2> QED BY <1>2, <1>7, <2>1, <2>2, <2>4 DEF UpdateRoomStatus
<1>8. CASE CleanupReplyTime(q)
  <2>1. req[q].room \in Room
    BY <1>8, Requests DEF CleanupReplyTime
  <2>2. req' \in [Request -> {New, Done} \union Asked]
    BY <1>8, Steps DEF CleanupReplyTime
  <2>3. stamp' \in [Room -> {"none", "fresh", "old"}] /\ passed' \in [Room -> [Instance -> Nat]] /\ late' \subseteq Room
    BY <1>8, <2>1 DEF CleanupReplyTime, TypeOK
  <2> QED BY <1>8, <2>2, <2>3 DEF CleanupReplyTime, TypeOK
<1>9. CASE UpdateWarmingRoom(q)
  <2>1. req[q].room \in Room /\ req[q].number \in Number
    BY <1>9, Requests DEF UpdateWarmingRoom
  <2>2. room[req[q].room] \in RoomRow
    BY <2>1 DEF TypeOK
  <2>3. [room[req[q].room] EXCEPT !.number = req[q].number] \in RoomRow
    BY <2>1, <2>2 DEF RoomRow
  <2> QED BY <1>2, <1>9, <2>1, <2>3 DEF UpdateWarmingRoom
<1>10. ASSUME NEW r \in Room, RestartRoom(q, r) PROVE TypeOK'
  <2> DEFINE row == [room[r] EXCEPT !.status = "ACTIVE", !.seq = 0]
             o == \E m \in Message : Reading(m, r)
             h == [NewHistory EXCEPT !.overtaken = o]
  <2>1. row \in RoomRow /\ h \in History
    <3>1. o \in BOOLEAN
      OBVIOUS
    <3> HIDE DEF o
    <3>2. h \in History
      BY <3>1 DEF NewHistory, History
    <3>3. room[r] \in RoomRow
      BY DEF TypeOK
    <3>4. row \in RoomRow
      BY <3>3 DEF RoomRow, Status
    <3> QED BY <3>2, <3>4
  <2>2. \E x \in {New, Done} \union Asked : Step(q, x)
    BY <1>4, <1>10 DEF RestartRoom, Status
  <2>3. \/ UNCHANGED <<room, history>>
        \/ room' = [room EXCEPT ![r] = row] /\ history' = [history EXCEPT ![r] = h]
    BY <1>10 DEF RestartRoom
  <2> HIDE DEF row, h
  <2>4. room' \in [Room -> RoomRow] /\ history' \in [Room -> History]
    BY <2>1, <2>3 DEF TypeOK
  <2> QED BY <1>1, <1>10, <2>2, <2>4, Steps DEF RestartRoom
<1>11. ASSUME NEW r \in Room, DeleteWarmingRoom(q, r) PROVE TypeOK'
  <2>1. room[r] \in RoomRow
    BY DEF TypeOK
  <2>2. [room[r] EXCEPT !.status = "DELETED"] \in RoomRow
    BY <2>1 DEF RoomRow
  <2>3. room' \in [Room -> RoomRow]
    <3> DEFINE x == [room[r] EXCEPT !.status = "DELETED"]
    <3>1. room' = [room EXCEPT ![r] = x]
      BY <1>11 DEF DeleteWarmingRoom
    <3> HIDE DEF x
    <3> QED BY <2>2, <3>1 DEF TypeOK, x
  <2>4. req' \in [Request -> {New, Done} \union Asked]
    BY <1>4, <1>11, Steps DEF DeleteWarmingRoom, Status
  <2> QED BY <1>1, <1>11, <2>3, <2>4 DEF DeleteWarmingRoom, TypeOK
<1>12. ASSUME NEW r \in Room, CreateWarmingRoom(q, r) PROVE TypeOK'
  <2>1. req[q].number \in Number
    BY <1>12, Requests DEF CreateWarmingRoom
  <2>2. NewRoom(req[q].number) \in RoomRow
    BY <2>1 DEF NewRoom, RoomRow, Status
  <2>3. room' \in [Room -> RoomRow] /\ req' \in [Request -> {New, Done} \union Asked]
    BY <1>12, <2>2, Steps DEF CreateWarmingRoom, TypeOK
  <2> QED BY <1>1, <1>12, <2>3 DEF CreateWarmingRoom, TypeOK
<1>13. ASSUME NEW r \in Room, NEW s \in Status, AskStatus(q, r, s) PROVE TypeOK'
  BY <1>3, <1>4, <1>13 DEF AskStatus
<1>14. ASSUME NEW r \in Room, NEW n \in Number, AskUpdate(q, r, n) PROVE TypeOK'
  BY <1>3, <1>5, <1>14 DEF AskUpdate
<1>15. ASSUME NEW n \in Number, AskCreate(q, n) PROVE TypeOK'
  BY <1>3, <1>5, <1>15 DEF AskCreate
<1>16. TypeOK'
  BY <1>6, <1>7, <1>8, <1>9, <1>10, <1>11, <1>12, <1>13, <1>14, <1>15 DEF RoomRequest
<1>17. UNCHANGED <<line, msg, faults>>
  BY DEF RoomRequest, CheckActivationWhitelist, UpdateRoomStatus, CleanupReplyTime, UpdateWarmingRoom,
         RestartRoom, DeleteWarmingRoom, CreateWarmingRoom, AskStatus, AskUpdate, AskCreate
<1> QED BY <1>16, <1>17

\* A set of lines has been moved, and every room that is watched knows.
Moved(L) ==
  /\ \A l \in LineId \ L : line'[l] = line[l]
  /\ \A r \in Room : Watched(r) /\ ~history[r].overtaken =>
       /\ history'[r].moved = history[r].moved \union L
       /\ history'[r].tried = history[r].tried
       /\ history'[r].excused = history[r].excused
       /\ history'[r].repeated = history[r].repeated
       /\ history'[r].overtaken = FALSE
  /\ \A r \in Room : ~Watched(r) \/ history[r].overtaken => history'[r] = history[r]

LEMMA Moves ==
  ASSUME TypeOK, NEW L \in SUBSET LineId, NEW new \in [LineId -> 0..MaxSeq], Move(L, new),
         \A k, l \in LineId : new[k] = new[l] => k = l \/ new[k] = 0,
         \A l \in LineId \ L : new[l] = line[l],
         req' \in [Request -> {New, Done} \union Asked]
  PROVE  TypeOK' /\ Moved(L) /\ UNCHANGED <<room, msg, faults, cooldown>>
<1> DEFINE h(r) == [history[r] EXCEPT !.moved = @ \union L]
<1>1. ASSUME NEW r \in Room
      PROVE  /\ h(r) \in History /\ h(r).moved = history[r].moved \union L /\ h(r).tried = history[r].tried
             /\ h(r).excused = history[r].excused /\ h(r).repeated = history[r].repeated
             /\ h(r).overtaken = history[r].overtaken
  <2>1. history[r] \in History
    BY DEF TypeOK
  <2> QED BY <2>1 DEF History
<1>2. history' = [r \in Room |-> IF Watched(r) /\ ~history[r].overtaken THEN h(r) ELSE history[r]]
  BY DEF Move
<1> HIDE DEF h
<1>3. \A r \in Room : history[r] \in History /\ history[r].overtaken \in BOOLEAN
  BY DEF TypeOK, History
<1>4. history' \in [Room -> History]
  BY <1>1, <1>2, <1>3
<1>5. Moved(L)
  BY <1>1, <1>2, <1>3 DEF Moved, Move
<1>6. TypeOK'
  BY <1>4 DEF Move, TypeOK, cooldown
<1> QED BY <1>5, <1>6 DEF Move

LEMMA LineRequestMoves ==
  ASSUME TypeOK, NEW q \in Request, LineRequest(q)
  PROVE  /\ TypeOK'
         /\ UNCHANGED <<room, msg, faults, cooldown>>
         /\ UNCHANGED <<line, history>> \/ \E L \in SUBSET LineId : Moved(L)
<1> DEFINE Goal == /\ TypeOK'
                   /\ UNCHANGED <<room, msg, faults, cooldown>>
                   /\ UNCHANGED <<line, history>> \/ \E L \in SUBSET LineId : Moved(L)
<1>1. ASSUME NEW x \in {New, Done} \union Asked, Step(q, x),
             UNCHANGED <<room, line, msg, faults, cooldown, history>>
      PROVE  Goal
  BY <1>1, Steps DEF TypeOK, cooldown
<1>2. ASSUME NEW x \in {New, Done} \union Asked, Step(q, x), NEW l \in LineId, NEW s \in 0..MaxSeq,
             s # 0 => ~Taken(s), Move({l}, [line EXCEPT ![l] = s])
      PROVE  Goal
  <2> DEFINE new == [line EXCEPT ![l] = s]
  <2>1. line \in [LineId -> 0..MaxSeq] /\ new \in [LineId -> 0..MaxSeq]
    BY DEF TypeOK
  <2>2. new[l] = s /\ \A k \in LineId : k # l => new[k] = line[k]
    BY <2>1
  <2>3. \A k \in LineId : s # 0 => line[k] # s
    BY <1>2 DEF Taken
  <2>4. Move({l}, new)
    BY <1>2
  <2> HIDE DEF new
  <2>5. \A j, k \in LineId : new[j] = new[k] => j = k \/ new[j] = 0
    BY <2>2, <2>3 DEF TypeOK
  <2> QED BY <1>2, <2>1, <2>2, <2>4, <2>5, Moves, Steps
<1>3. CASE ReorderScriptLines(q)
  <2>1. PICK L \in SUBSET {l \in LineId : line[l] # 0} : \E order \in [L -> 1..MaxSeq] :
       /\ \A k, l \in L : order[k] = order[l] => k = l
       /\ \A l \in L, k \in LineId \ L : order[l] # line[k]
       /\ Move(L, [l \in LineId |-> IF l \in L THEN order[l] ELSE line[l]])
    BY <1>3 DEF ReorderScriptLines
  <2>2. PICK order \in [L -> 1..MaxSeq] :
       /\ \A k, l \in L : order[k] = order[l] => k = l
       /\ \A l \in L, k \in LineId \ L : order[l] # line[k]
       /\ Move(L, [l \in LineId |-> IF l \in L THEN order[l] ELSE line[l]])
    BY <2>1
  <2> DEFINE new == [l \in LineId |-> IF l \in L THEN order[l] ELSE line[l]]
  <2>3. new \in [LineId -> 0..MaxSeq]
    BY AutoReplyAssumption DEF TypeOK
  <2>4. \A k \in LineId : new[k] = IF k \in L THEN order[k] ELSE line[k]
    OBVIOUS
  <2>5. Move(L, new)
    BY <2>2
  <2> HIDE DEF new
  <2>6. \A j, k \in LineId : new[j] = new[k] => j = k \/ new[j] = 0
    BY <2>2, <2>4 DEF TypeOK
  <2>7. L \in SUBSET LineId
    OBVIOUS
  <2>8. req' \in [Request -> {New, Done} \union Asked]
    BY <1>3, Steps DEF ReorderScriptLines
  <2>9. \A l \in LineId \ L : new[l] = line[l]
    BY <2>4
  <2> QED BY <2>3, <2>5, <2>6, <2>7, <2>8, <2>9, Moves
<1>4. CASE GenerationFails(q)
  BY <1>1, <1>4 DEF GenerationFails
<1>5. ASSUME NEW n \in 1..Cardinality(LineId), NextSequenceStart(q, n) PROVE Goal
  <2>1. PICK s \in 0..MaxSeq : Step(q, [pc |-> "generate", left |-> n, seq |-> s + 1])
    BY <1>5 DEF NextSequenceStart
  <2>2. n \in Nat \ {0} /\ s + 1 \in Nat
    <3>1. Cardinality(LineId) \in Nat
      BY AutoReplyAssumption, FS_CardinalityType
    <3> QED BY <3>1, AutoReplyAssumption
  <2>3. [pc |-> "generate", left |-> n, seq |-> s + 1] \in Asked
    BY <2>2 DEF Asked
  <2> QED BY <1>1, <1>5, <2>1, <2>3 DEF NextSequenceStart
<1>6. ASSUME NEW l \in LineId, DeleteWarmingScriptLine(q, l) PROVE Goal
  <2>1. 0 \in 0..MaxSeq
    BY AutoReplyAssumption
  <2> QED BY <1>2, <1>6, <2>1 DEF DeleteWarmingScriptLine
<1>7. ASSUME NEW l \in LineId, PersistGeneratedLine(q, l) PROVE Goal
  <2>1. req[q] \in Generating /\ req[q].seq \in 0..MaxSeq
    BY <1>7, Requests, AutoReplyAssumption DEF PersistGeneratedLine
  <2> DEFINE x == [req[q] EXCEPT !.left = @ - 1, !.seq = @ + 1]
  <2>2. req[q].left # 1 => x \in Asked
    <3> SUFFICES ASSUME req[q].left # 1 PROVE x \in Generating
      BY DEF Generating, Asked
    <3>1. req[q].left \in Nat \ {0} /\ req[q].seq \in Nat
      BY <2>1 DEF Generating
    <3>2. req[q].left - 1 \in Nat \ {0} /\ req[q].seq + 1 \in Nat
      BY <3>1
    <3>3. x = [req[q] EXCEPT !.left = req[q].left - 1, !.seq = req[q].seq + 1]
      BY <2>1 DEF Generating
    <3> QED BY <2>1, <3>2, <3>3 DEF Generating
  <2>3. Step(q, IF req[q].left = 1 THEN Done ELSE x) /\ Move({l}, [line EXCEPT ![l] = req[q].seq])
    BY <1>7 DEF PersistGeneratedLine, Generated
  <2> HIDE DEF x
  <2>4. (IF req[q].left = 1 THEN Done ELSE x) \in {New, Done} \union Asked
    BY <2>2
  <2>5. ~Taken(req[q].seq)
    BY <1>7 DEF PersistGeneratedLine
  <2> QED BY <1>2, <2>1, <2>3, <2>4, <2>5
<1>8. ASSUME NEW l \in LineId, NEW s \in 1..MaxSeq, CreateWarmingScriptLine(q, l, s) PROVE Goal
  BY <1>2, <1>8, AutoReplyAssumption DEF CreateWarmingScriptLine
<1>9. ASSUME NEW l \in LineId, NEW s \in 1..MaxSeq, UpdateWarmingScriptLine(q, l, s) PROVE Goal
  BY <1>2, <1>9, AutoReplyAssumption DEF UpdateWarmingScriptLine
<1> QED BY <1>3, <1>4, <1>5, <1>6, <1>7, <1>8, <1>9 DEF LineRequest

\* The end of a cooldown, and of the process.
LEMMA ElapseTypes == ASSUME TypeOK, NEW r \in Room, Elapse(r) PROVE TypeOK'
<1>1. stamp' \in [Room -> {"none", "fresh", "old"}] /\ passed' \in [Room -> [Instance -> Nat]]
  BY DEF Elapse, TypeOK
<1> QED BY <1>1 DEF Elapse, TypeOK

LEMMA RestartTypes ==
  ASSUME TypeOK, Restart
  PROVE  /\ TypeOK'
         /\ \A m \in Message : msg'[m] \in {New, Done}
         /\ \A r \in Room :
              /\ history'[r].moved = history[r].moved /\ history'[r].excused = history[r].excused
              /\ history'[r].repeated = history[r].repeated /\ history'[r].overtaken = history[r].overtaken
              /\ history[r].overtaken => history'[r].tried = history[r].tried
              /\ ~history[r].overtaken =>
                   history'[r].tried = history[r].tried \union
                     {l \in LineId : \E m \in Message : Reading(m, r) /\ At(m, "send") /\ msg[m].line = l}
<1> DEFINE sent(r) == {l \in LineId : \E m \in Message : Reading(m, r) /\ At(m, "send") /\ msg[m].line = l}
           h(r) == [history[r] EXCEPT !.tried = @ \union sent(r)]
<1>1. ASSUME NEW r \in Room
      PROVE  /\ h(r) \in History /\ h(r).moved = history[r].moved /\ h(r).excused = history[r].excused
             /\ h(r).repeated = history[r].repeated /\ h(r).overtaken = history[r].overtaken
             /\ h(r).tried = history[r].tried \union sent(r)
  <2>1. history[r] \in History /\ sent(r) \in SUBSET LineId
    BY DEF TypeOK
  <2> HIDE DEF sent
  <2> QED BY <2>1 DEF History
<1>2. history' = [r \in Room |-> IF history[r].overtaken THEN history[r] ELSE h(r)]
  BY DEF Restart
<1> HIDE DEF h
<1>3. \A r \in Room : history[r] \in History /\ history[r].overtaken \in BOOLEAN
  BY DEF TypeOK, History
<1>4. history' \in [Room -> History]
  BY <1>1, <1>2, <1>3
<1>5. msg' \in [Message -> {New, Done} \union Reply] /\ req' \in [Request -> {New, Done} \union Asked]
  BY DEF Restart
<1>6. stamp' \in [Room -> {"none", "fresh", "old"}] /\ passed' \in [Room -> [Instance -> Nat]] /\ late' \subseteq Room
  BY DEF Restart
<1>7. TypeOK'
  BY <1>4, <1>5, <1>6, FaultType DEF Restart, TypeOK
<1>8. \A m \in Message : msg'[m] \in {New, Done}
  BY DEF Restart
<1> QED BY <1>1, <1>2, <1>3, <1>7, <1>8

LEMMA NextTypes == ASSUME TypeOK, [Next]_vars PROVE TypeOK'
<1>1. CASE UNCHANGED vars
  BY <1>1 DEF vars, cooldown, TypeOK
<1>2. CASE Next
  BY <1>2, MessageTypes, RoomRequestTypes, LineRequestMoves, ElapseTypes, RestartTypes DEF Next
<1> QED BY <1>1, <1>2

\* Every row, message, request and stamp keeps its type, and no two lines of a
\* script have the same sequence.
THEOREM AutoReplyTypeCorrect == Spec => []TypeOK
<1>1. Init => TypeOK
  BY InitTypes
<1>2. TypeOK /\ [Next]_vars => TypeOK'
  BY NextTypes
<1> QED BY <1>1, <1>2, PTL DEF Spec

-----------------------------------------------------------------------------
(***************************************************************************)
(* The cooldown.  A client hands its messages over one at a time, so of    *)
(* one instance's messages at most one is between LoadStamp and StoreStamp;*)
(* it got there because the stamp was not fresh, when nothing had passed.  *)
(***************************************************************************)
OneAtATime == \A m, n \in Message, i \in Instance : Handled(m, i) /\ Handled(n, i) => m = n

NotYetPassed == \A r \in Room : stamp[r] # "fresh" => \A i \in Instance : passed[r][i] = 0

PassesFirst == \A m \in Message : At(m, "stamp") => passed[msg[m].room][msg[m].at] = 0

CoolInv == OncePerCooldown /\ OneAtATime /\ NotYetPassed /\ PassesFirst

LEMMA InitCool == ASSUME Init PROVE CoolInv
<1>1. \A m \in Message : msg[m] = New
  BY DEF Init
<1>2. OneAtATime /\ PassesFirst
  BY <1>1 DEF OneAtATime, PassesFirst, Handled, At, New
<1>3. \A r \in Room, i \in Instance : passed[r][i] = 0
  BY DEF Init
<1>4. OncePerCooldown
  <2>1. 0 <= 1
    OBVIOUS
  <2> QED BY <1>3, <2>1 DEF OncePerCooldown
<1> QED BY <1>2, <1>3, <1>4 DEF CoolInv, NotYetPassed

\* Steps of replies that are past the cooldown, and ends of messages.
LEMMA CoolKept ==
  ASSUME TypeOK, CoolInv, UNCHANGED <<stamp, passed>>,
         \A m \in Message : \/ msg'[m] = msg[m]
                            \/ msg'[m] \in {New, Done}
                            \/ msg'[m].pc \notin {"marking", "stamp"}
  PROVE  CoolInv'
<1>1. ASSUME NEW m \in Message, NEW i \in Instance, Handled(m, i)' PROVE Handled(m, i)
  BY <1>1 DEF Handled
<1>2. ASSUME NEW m \in Message, At(m, "stamp")' PROVE msg'[m] = msg[m]
  BY <1>2 DEF At, New, Done
<1> QED BY <1>1, <1>2 DEF CoolInv, OncePerCooldown, OneAtATime, NotYetPassed, PassesFirst, At

LEMMA CoolMessage == ASSUME TypeOK, CoolInv, NEW m \in Message, MessageStep(m) PROVE CoolInv'
<1>1. ASSUME NEW p \in {"delay", "progress", "send"}, msg[m] \in Reply, GoTo(m, p), UNCHANGED cooldown
      PROVE  CoolInv'
  BY <1>1, Goes, CoolKept DEF cooldown, ReplyPc
<1>2. ASSUME Finish(m), UNCHANGED cooldown PROVE CoolInv'
  BY <1>2, Ends, CoolKept DEF cooldown
<1>3. CASE LoadStamp(m)
  <2>1. msg[m] \in Reply /\ msg[m].room \in Room /\ msg[m].at \in Instance
    BY <1>3, Replies DEF LoadStamp, ReplyPc
  <2>2. CASE stamp[msg[m].room] = "fresh"
    BY <1>2, <1>3, <2>2 DEF LoadStamp
  <2>3. CASE stamp[msg[m].room] # "fresh"
    <3>1. /\ msg'[m].pc = "stamp" /\ msg'[m].room = msg[m].room /\ msg'[m].at = msg[m].at
          /\ \A n \in Message : n # m => msg'[n] = msg[n]
      BY <1>3, <2>1, <2>3, Goes DEF LoadStamp, ReplyPc
    <3>2. \A i \in Instance : passed[msg[m].room][i] = 0
      BY <2>1, <2>3 DEF CoolInv, NotYetPassed
    <3>3. PassesFirst'
      BY <1>3, <2>1, <3>1, <3>2 DEF LoadStamp, cooldown, CoolInv, PassesFirst, At
    <3>4. ASSUME NEW n \in Message, NEW i \in Instance, Handled(n, i)' PROVE Handled(n, i)
      <4>1. CASE n # m
        BY <3>1, <3>4, <4>1 DEF Handled
      <4>2. CASE n = m
        <5>1. msg[m] \notin {New, Done} /\ msg[m].pc = "marking"
          BY <1>3, Replies DEF LoadStamp, ReplyPc, At
        <5> QED BY <3>1, <3>4, <4>2, <5>1 DEF Handled
      <4> QED BY <4>1, <4>2
    <3> QED BY <1>3, <3>3, <3>4 DEF LoadStamp, cooldown, CoolInv, OncePerCooldown, OneAtATime, NotYetPassed
  <2> QED BY <2>2, <2>3
<1>4. CASE StoreStamp(m)
  <2>1. msg[m] \in Reply /\ msg[m] \notin {New, Done} /\ msg[m].room \in Room /\ msg[m].at \in Instance /\ At(m, "stamp")
    BY <1>4, Replies DEF StoreStamp, ReplyPc
  <2>2. PICK r \in Room, i \in Instance : r = msg[m].room /\ i = msg[m].at
    BY <2>1
  <2>3. passed[r][i] = 0
    BY <2>1, <2>2 DEF CoolInv, PassesFirst
  <2>4. passed' = [passed EXCEPT ![r][i] = 1]
    BY <1>4, <2>2, <2>3 DEF StoreStamp, Pass, TypeOK
  <2>5. /\ passed'[r][i] = 1
        /\ \A s \in Room, j \in Instance : s # r \/ j # i => passed'[s][j] = passed[s][j]
    BY <2>4 DEF TypeOK
  <2>6. stamp'[r] = "fresh" /\ \A s \in Room : s # r => stamp'[s] = stamp[s]
    BY <1>4, <2>2 DEF StoreStamp, TypeOK
  <2>7. msg'[m].pc = "delay" /\ \A n \in Message : n # m => msg'[n] = msg[n]
    BY <1>4, <2>1, Goes DEF StoreStamp, ReplyPc
  <2>8. OncePerCooldown'
    <3>1. 1 <= 1
      OBVIOUS
    <3> QED BY <2>5, <3>1 DEF CoolInv, OncePerCooldown
  <2>9. OneAtATime'
    <3>1. ASSUME NEW n \in Message, NEW j \in Instance, Handled(n, j)' PROVE Handled(n, j) /\ n # m
      BY <2>7, <3>1 DEF Handled
    <3> QED BY <3>1 DEF CoolInv, OneAtATime
  <2>10. NotYetPassed'
    <3> SUFFICES ASSUME NEW s \in Room, stamp'[s] # "fresh", NEW j \in Instance PROVE passed'[s][j] = 0
      BY DEF NotYetPassed
    <3>1. s # r /\ stamp[s] # "fresh"
      BY <2>6
    <3> QED BY <2>5, <3>1 DEF CoolInv, NotYetPassed
  <2>11. PassesFirst'
    <3> SUFFICES ASSUME NEW n \in Message, At(n, "stamp")' PROVE passed'[msg'[n].room][msg'[n].at] = 0
      BY DEF PassesFirst
    <3>1. n # m /\ msg'[n] = msg[n] /\ At(n, "stamp")
      BY <2>7 DEF At
    <3>2. msg[n] \notin {New, Done} /\ msg[n].room \in Room /\ msg[n].at \in Instance
      BY <3>1, Replies DEF ReplyPc
    <3>3. msg[n].at # i
      <4> SUFFICES ASSUME msg[n].at = i PROVE FALSE
        OBVIOUS
      <4>1. Handled(n, i) /\ Handled(m, i)
        BY <2>1, <2>2, <3>1, <3>2 DEF Handled, At
      <4> QED BY <3>1, <4>1 DEF CoolInv, OneAtATime
    <3> QED BY <2>5, <3>1, <3>2, <3>3 DEF CoolInv, PassesFirst
  <2> QED BY <2>8, <2>9, <2>10, <2>11 DEF CoolInv
<1>5. CASE AIReply(m)
  BY <1>1, <1>2, <1>5, Replies DEF AIReply, ReplyPc
<1>6. CASE NoLineLeft(m)
  BY <1>2, <1>6 DEF NoLineLeft
<1>7. CASE UpdateRoomProgress(m)
  BY <1>1, <1>7, Replies DEF UpdateRoomProgress, ReplyPc
<1>8. CASE ProgressFails(m)
  BY <1>1, <1>8, Replies DEF ProgressFails, ReplyPc
<1>9. CASE SendReply(m)
  BY <1>2, <1>9 DEF SendReply
<1>10. ASSUME NEW l \in LineId, SelectLine(m, l) PROVE CoolInv'
  <2> DEFINE x == [msg[m] EXCEPT !.pc = "progress", !.line = l]
  <2>1. msg[m] \in Reply
    BY <1>10, Replies DEF SelectLine, ReplyPc
  <2>2. x.pc = "progress"
    BY <2>1 DEF Reply
  <2>3. msg' = [msg EXCEPT ![m] = x]
    BY <1>10 DEF SelectLine
  <2> HIDE DEF x
  <2>4. msg'[m].pc = "progress" /\ \A n \in Message : n # m => msg'[n] = msg[n]
    BY <2>2, <2>3 DEF TypeOK
  <2> QED BY <1>10, <2>4, CoolKept DEF SelectLine, cooldown
<1>11. ASSUME NEW i \in Instance, NEW r \in Room, Receive(m, i, r) PROVE CoolInv'
  <2>1. msg'[m].pc = "marking" /\ msg'[m].at = i /\ \A n \in Message : n # m => msg'[n] = msg[n]
    BY <1>11 DEF Receive, TypeOK
  <2>2. ASSUME NEW n \in Message, NEW j \in Instance, Handled(n, j)'
        PROVE  (n = m /\ j = i) \/ (n # m /\ Handled(n, j))
    BY <2>1, <2>2 DEF Handled
  <2>3. \A n \in Message : ~Handled(n, i)
    BY <1>11 DEF Receive
  <2>4. OneAtATime'
    BY <2>2, <2>3 DEF CoolInv, OneAtATime
  <2>5. PassesFirst'
    BY <1>11, <2>1 DEF Receive, cooldown, CoolInv, PassesFirst, At
  <2> QED BY <1>11, <2>4, <2>5 DEF Receive, cooldown, CoolInv, OncePerCooldown, NotYetPassed
<1> QED BY <1>3, <1>4, <1>5, <1>6, <1>7, <1>8, <1>9, <1>10, <1>11 DEF MessageStep

\* Wherever the stamp is cleared or ages, the count starts anew.
LEMMA CoolReset ==
  ASSUME TypeOK, CoolInv, NEW r \in Room, NEW v \in {"none", "old"},
         stamp' = [stamp EXCEPT ![r] = v],
         passed' = [passed EXCEPT ![r] = [i \in Instance |-> 0]],
         UNCHANGED msg
  PROVE  CoolInv'
<1>1. \A i \in Instance : passed'[r][i] = 0 /\ \A s \in Room : s # r => passed'[s] = passed[s] /\ stamp'[s] = stamp[s]
  BY DEF TypeOK
<1>2. OncePerCooldown'
  <2>1. 0 <= 1
    OBVIOUS
  <2> QED BY <1>1, <2>1 DEF CoolInv, OncePerCooldown
<1>3. NotYetPassed'
  BY <1>1 DEF CoolInv, NotYetPassed
<1>4. PassesFirst'
  <2> SUFFICES ASSUME NEW m \in Message, At(m, "stamp") PROVE passed'[msg[m].room][msg[m].at] = 0
    BY DEF PassesFirst, At
  <2>1. msg[m].room \in Room /\ msg[m].at \in Instance
    BY Replies DEF ReplyPc
  <2> QED BY <1>1, <2>1 DEF CoolInv, PassesFirst
<1>5. OneAtATime'
  BY DEF CoolInv, OneAtATime, Handled
<1> QED BY <1>2, <1>3, <1>4, <1>5 DEF CoolInv

LEMMA NextCool == ASSUME TypeOK, CoolInv, [Next]_vars PROVE CoolInv'
<1>1. ASSUME UNCHANGED <<msg, stamp, passed>> PROVE CoolInv'
  BY <1>1, CoolKept
<1>2. CASE UNCHANGED vars
  BY <1>1, <1>2 DEF vars, cooldown
<1>3. ASSUME NEW q \in Request, RoomRequest(q) PROVE CoolInv'
  <2>1. CASE CleanupReplyTime(q)
    BY <2>1, Requests, CoolReset DEF CleanupReplyTime
  <2>2. CASE ~CleanupReplyTime(q)
    <3>1. UNCHANGED <<msg, stamp, passed>>
      BY <1>3, <2>2 DEF RoomRequest, CheckActivationWhitelist, UpdateRoomStatus, UpdateWarmingRoom,
         RestartRoom, DeleteWarmingRoom, CreateWarmingRoom, AskStatus, AskUpdate, AskCreate, cooldown
    <3> QED BY <1>1, <3>1
  <2> QED BY <2>1, <2>2
<1>4. ASSUME NEW q \in Request, LineRequest(q) PROVE CoolInv'
  BY <1>1, <1>4, LineRequestMoves DEF cooldown
<1>5. ASSUME NEW r \in Room, Elapse(r) PROVE CoolInv'
  BY <1>5, CoolReset DEF Elapse
<1>6. CASE Restart
  <2>1. \A m \in Message : msg'[m] \in {New, Done}
    BY <1>6, RestartTypes
  <2>2. OneAtATime' /\ PassesFirst'
    BY <2>1 DEF OneAtATime, PassesFirst, Handled, At, New, Done
  <2>3. \A r \in Room, i \in Instance : passed'[r][i] = 0
    BY <1>6 DEF Restart
  <2>4. OncePerCooldown'
    <3>1. 0 <= 1
      OBVIOUS
    <3> QED BY <2>3, <3>1 DEF OncePerCooldown
  <2> QED BY <2>2, <2>3, <2>4 DEF CoolInv, NotYetPassed
<1> QED BY <1>2, <1>3, <1>4, <1>5, <1>6, CoolMessage DEF Next

\* Within a cooldown of a room each instance lets at most one of the human's
\* messages through, although looking at the stamp and setting it are two steps.
THEOREM OncePerCooldownHolds == Spec => []OncePerCooldown
<1>1. Init => TypeOK /\ CoolInv
  BY InitTypes, InitCool
<1>2. TypeOK /\ CoolInv /\ [Next]_vars => (TypeOK /\ CoolInv)'
  BY NextTypes, NextCool
<1>3. CoolInv => OncePerCooldown
  BY DEF CoolInv
<1> QED BY <1>1, <1>2, <1>3, PTL DEF Spec

-----------------------------------------------------------------------------
(***************************************************************************)
(* The time of the last reply.  It is set for a room that is not active    *)
(* only by a message that was under way, and a request that takes a room   *)
(* out of ACTIVE does not end without clearing it.                         *)
(***************************************************************************)
Cleaning(q, r) == Req(q, "cleanup") /\ req[q].room = r

\* Steps that stamp no room, take none out of ACTIVE and end no cleanup.
LEMMA ForgottenKept ==
  ASSUME TypeOK, CooldownForgotten,
         \A r \in Room : stamp'[r] # "none" => stamp[r] # "none",
         \A r \in Room : room'[r].status # "ACTIVE" => room[r].status # "ACTIVE",
         late \subseteq late',
         \A q \in Request : Req(q, "cleanup") => req'[q] = req[q]
  PROVE  CooldownForgotten'
BY DEF CooldownForgotten, Req

LEMMA ForgottenRequest ==
  ASSUME TypeOK, CooldownForgotten, NEW q \in Request, RoomRequest(q)
  PROVE  CooldownForgotten'
<1>1. ASSUME NEW r \in Room, NEW x \in {New, Done} \union Asked, Step(q, x), ~Req(q, "cleanup"),
             x.pc = "cleanup", x.room = r,
             \A s \in Room : s # r => room'[s] = room[s],
             UNCHANGED cooldown
      PROVE  CooldownForgotten'
  <2>1. Cleaning(q, r)' /\ \A p \in Request : Req(p, "cleanup") => req'[p] = req[p]
    BY <1>1, Steps DEF Req, Cleaning
  <2> SUFFICES ASSUME NEW s \in Room, room'[s].status # "ACTIVE", stamp'[s] # "none"
               PROVE  s \in late' \/ \E p \in Request : Req(p, "cleanup")' /\ req'[p].room = s
    BY DEF CooldownForgotten
  <2>2. CASE s = r
    BY <2>1, <2>2 DEF Cleaning
  <2>3. CASE s # r
    BY <1>1, <2>1, <2>3 DEF CooldownForgotten, Req, cooldown
  <2> QED BY <2>2, <2>3
<1>2. ASSUME NEW x \in {New, Done} \union Asked, Step(q, x), ~Req(q, "cleanup"),
             \A r \in Room : room'[r].status # "ACTIVE" => room[r].status # "ACTIVE",
             UNCHANGED cooldown
      PROVE  CooldownForgotten'
  BY <1>2, Steps, ForgottenKept DEF cooldown
<1>3. \A r \in Room : \A status \in Status :
         \A p \in {"check", "write", "cleanup"} : [pc |-> p, room |-> r, status |-> status] \in Asked
  BY DEF Asked
<1>4. \A n \in Number : [pc |-> "insert", number |-> n] \in Asked
                        /\ \A r \in Room : [pc |-> "number", room |-> r, number |-> n] \in Asked
  BY DEF Asked
<1>5. New.pc = "new"
  BY DEF New
<1>6. CASE CheckActivationWhitelist(q)
  <2>1. req[q] \in AboutStatus
    BY <1>6, Requests DEF CheckActivationWhitelist
  <2>2. [req[q] EXCEPT !.pc = "write"] \in Asked
    BY <2>1 DEF AboutStatus, Asked
  <2> QED BY <1>2, <1>6, <2>2 DEF CheckActivationWhitelist, Req
<1>7. CASE UpdateRoomStatus(q)
  <2> DEFINE x == [req[q] EXCEPT !.pc = "cleanup"]
  <2>1. req[q] \in AboutStatus /\ req[q].room \in Room /\ req[q].status \in Status
    BY <1>7, Requests DEF UpdateRoomStatus
  <2>2. x \in Asked /\ x.pc = "cleanup" /\ x.room = req[q].room
    BY <2>1 DEF AboutStatus, Asked
  <2>3. ~Req(q, "cleanup")
    BY <1>7 DEF UpdateRoomStatus, Req
  <2>4. Written(q).status = req[q].status
    BY <2>1 DEF Written, TypeOK, RoomRow
  <2>5. UpdateRow(q, Written(q), IF req[q].status = "ACTIVE" THEN Done ELSE x)
    BY <1>7 DEF UpdateRoomStatus
  <2> HIDE DEF x
  <2>6. CASE room' = room
    <3>1. \E y \in {New, Done} \union Asked : Step(q, y)
      BY <2>2, <2>5 DEF UpdateRow
    <3> QED BY <1>2, <1>7, <2>3, <2>6, <3>1 DEF UpdateRoomStatus
  <2>7. CASE room' = [room EXCEPT ![req[q].room] = Written(q)] /\ req[q].status = "ACTIVE"
    <3>1. \E y \in {New, Done} \union Asked : Step(q, y)
      BY <2>2, <2>5 DEF UpdateRow
    <3>2. \A r \in Room : room'[r].status # "ACTIVE" => room[r].status # "ACTIVE"
      BY <2>1, <2>4, <2>7 DEF TypeOK
    <3> QED BY <1>2, <1>7, <2>3, <3>1, <3>2 DEF UpdateRoomStatus
  <2>8. CASE room' = [room EXCEPT ![req[q].room] = Written(q)] /\ req[q].status # "ACTIVE" /\ Step(q, x)
    <3>1. \A s \in Room : s # req[q].room => room'[s] = room[s]
      BY <2>8 DEF TypeOK
    <3> QED BY <1>1, <1>7, <2>1, <2>2, <2>3, <2>8, <3>1 DEF UpdateRoomStatus
  <2> QED BY <2>5, <2>6, <2>7, <2>8 DEF UpdateRow
<1>8. CASE CleanupReplyTime(q)
  <2>1. req[q].room \in Room /\ \A p \in Request : p # q => req'[p] = req[p]
    BY <1>8, Requests, Steps DEF CleanupReplyTime
  <2> SUFFICES ASSUME NEW s \in Room, room[s].status # "ACTIVE", stamp'[s] # "none"
               PROVE  s \in late' \/ \E p \in Request : Req(p, "cleanup")' /\ req'[p].room = s
    BY <1>8 DEF CooldownForgotten, CleanupReplyTime
  <2>2. s # req[q].room /\ stamp[s] # "none"
    BY <1>8, <2>1 DEF CleanupReplyTime, TypeOK
  <2>3. CASE s \in late
    BY <1>8, <2>2, <2>3 DEF CleanupReplyTime
  <2>4. ASSUME NEW p \in Request, Req(p, "cleanup"), req[p].room = s
        PROVE  Req(p, "cleanup")' /\ req'[p].room = s
    BY <2>1, <2>2, <2>4 DEF Req
  <2> QED BY <2>2, <2>3, <2>4 DEF CooldownForgotten
<1>9. CASE UpdateWarmingRoom(q)
  <2>1. req[q].room \in Room /\ req[q].number \in Number
    BY <1>9, Requests DEF UpdateWarmingRoom
  <2> DEFINE row == [room[req[q].room] EXCEPT !.number = req[q].number]
  <2>2. row.status = room[req[q].room].status
    BY <2>1 DEF TypeOK, RoomRow
  <2>3. UpdateRow(q, row, Done)
    BY <1>9 DEF UpdateWarmingRoom
  <2> HIDE DEF row
  <2>4. Step(q, Done)
    BY <2>3 DEF UpdateRow
  <2>5. \A r \in Room : room'[r].status # "ACTIVE" => room[r].status # "ACTIVE"
    BY <2>1, <2>2, <2>3 DEF UpdateRow, TypeOK
  <2> QED BY <1>2, <1>9, <2>4, <2>5 DEF UpdateWarmingRoom, Req
<1>10. ASSUME NEW r \in Room, RestartRoom(q, r) PROVE CooldownForgotten'
  <2> DEFINE row == [room[r] EXCEPT !.status = "ACTIVE", !.seq = 0]
  <2>1. room' = room \/ room' = [room EXCEPT ![r] = row]
    BY <1>10 DEF RestartRoom
  <2>2. \E x \in {New, Done} \union Asked : Step(q, x)
    BY <1>3, <1>10 DEF RestartRoom, Status
  <2>3. row.status = "ACTIVE"
    BY DEF TypeOK, RoomRow
  <2> HIDE DEF row
  <2>4. \A s \in Room : room'[s].status # "ACTIVE" => room[s].status # "ACTIVE"
    BY <2>1, <2>3 DEF TypeOK
  <2>5. ~Req(q, "cleanup")
    BY <1>5, <1>10 DEF RestartRoom, Take, Ask, Req
  <2> QED BY <1>2, <1>10, <2>2, <2>4, <2>5 DEF RestartRoom
<1>11. ASSUME NEW r \in Room, DeleteWarmingRoom(q, r) PROVE CooldownForgotten'
  <2>1. ~Req(q, "cleanup")
    BY <1>5, <1>11 DEF DeleteWarmingRoom, Take, Ask, Req
  <2>2. \A s \in Room : s # r => room'[s] = room[s]
    BY <1>11 DEF DeleteWarmingRoom, TypeOK
  <2> QED BY <1>1, <1>3, <1>11, <2>1, <2>2 DEF DeleteWarmingRoom, Status
<1>12. ASSUME NEW r \in Room, CreateWarmingRoom(q, r) PROVE CooldownForgotten'
  <2>1. \A s \in Room : room'[s].status # "ACTIVE" => room[s].status # "ACTIVE"
    BY <1>12 DEF CreateWarmingRoom, TypeOK, Absent
  <2> QED BY <1>2, <1>12, <2>1 DEF CreateWarmingRoom, Req
<1>13. ASSUME Ask(q), UNCHANGED <<room, cooldown>>, \E x \in {New, Done} \union Asked : Step(q, x)
       PROVE  CooldownForgotten'
  BY <1>2, <1>5, <1>13 DEF Ask, Req
<1>14. ASSUME NEW r \in Room, NEW s \in Status, AskStatus(q, r, s) PROVE CooldownForgotten'
  BY <1>3, <1>13, <1>14 DEF AskStatus, Take
<1>15. ASSUME NEW r \in Room, NEW n \in Number, AskUpdate(q, r, n) PROVE CooldownForgotten'
  BY <1>4, <1>13, <1>15 DEF AskUpdate, Take
<1>16. ASSUME NEW n \in Number, AskCreate(q, n) PROVE CooldownForgotten'
  BY <1>4, <1>13, <1>16 DEF AskCreate
<1> QED BY <1>6, <1>7, <1>8, <1>9, <1>10, <1>11, <1>12, <1>14, <1>15, <1>16 DEF RoomRequest

\* The requests for lines clean nothing up.
LEMMA LineRequestKeeps ==
  ASSUME TypeOK, NEW q \in Request, LineRequest(q)
  PROVE  \A p \in Request : Req(p, "cleanup") => req'[p] = req[p]
<1>1. ~Req(q, "cleanup")
  <2>1. Ask(q) \/ Req(q, "generate")
    BY DEF LineRequest, ReorderScriptLines, GenerationFails, NextSequenceStart, DeleteWarmingScriptLine,
           PersistGeneratedLine, CreateWarmingScriptLine, UpdateWarmingScriptLine
  <2>2. Ask(q) => req[q].pc = "new"
    BY DEF Ask, New
  <2> QED BY <2>1, <2>2 DEF Req
<1>2. \E x : req' = [req EXCEPT ![q] = x]
  BY DEF LineRequest, ReorderScriptLines, GenerationFails, NextSequenceStart, DeleteWarmingScriptLine,
         PersistGeneratedLine, Generated, CreateWarmingScriptLine, UpdateWarmingScriptLine, Step
<1> QED BY <1>1, <1>2 DEF TypeOK

LEMMA NextForgotten == ASSUME TypeOK, CooldownForgotten, [Next]_vars PROVE CooldownForgotten'
<1>1. ASSUME UNCHANGED <<stamp, late>>, \A q \in Request : Req(q, "cleanup") => req'[q] = req[q],
             \A r \in Room : room'[r].status = room[r].status
      PROVE  CooldownForgotten'
  BY <1>1, ForgottenKept
<1>2. CASE UNCHANGED vars
  BY <1>1, <1>2 DEF vars, cooldown
<1>3. ASSUME NEW m \in Message, MessageStep(m) PROVE CooldownForgotten'
  <2>1. CASE StoreStamp(m)
    <3>1. msg[m].room \in Room
      BY <2>1, Replies DEF StoreStamp, ReplyPc
    <3> SUFFICES ASSUME NEW s \in Room, room[s].status # "ACTIVE", stamp'[s] # "none"
                 PROVE  s \in late' \/ \E q \in Request : Req(q, "cleanup") /\ req[q].room = s
      BY <2>1 DEF CooldownForgotten, StoreStamp, Req
    <3>2. CASE s = msg[m].room
      BY <2>1, <3>2 DEF StoreStamp
    <3>3. CASE s # msg[m].room
      <4>1. stamp[s] # "none"
        BY <2>1, <3>3 DEF StoreStamp, TypeOK
      <4> QED BY <2>1, <4>1 DEF StoreStamp, CooldownForgotten
    <3> QED BY <3>2, <3>3
  <2>2. CASE UpdateRoomProgress(m)
    <3> DEFINE r == msg[m].room
               row == [room[r] EXCEPT !.seq = NextSeq(m)]
    <3>1. r \in Room
      BY <2>2, Replies DEF UpdateRoomProgress, ReplyPc
    <3>2. row.status = room[r].status
      <4>1. room[r] \in RoomRow
        BY <3>1 DEF TypeOK
      <4> QED BY <4>1 DEF RoomRow
    <3>3. room' = room \/ room' = [room EXCEPT ![r] = row]
      BY <2>2 DEF UpdateRoomProgress, Write
    <3> HIDE DEF row
    <3>4. \A s \in Room : room'[s].status = room[s].status
      BY <3>1, <3>2, <3>3 DEF TypeOK
    <3> QED BY <1>1, <2>2, <3>4 DEF UpdateRoomProgress, cooldown
  <2>3. CASE ~StoreStamp(m) /\ ~UpdateRoomProgress(m)
    <3>1. UNCHANGED <<room, stamp, late, req>>
      BY <1>3, <2>3 DEF MessageStep, LoadStamp, AIReply, NoLineLeft, ProgressFails, SendReply, Receive, SelectLine, cooldown
    <3> QED BY <1>1, <3>1
  <2> QED BY <2>1, <2>2, <2>3
<1>4. ASSUME NEW q \in Request, LineRequest(q) PROVE CooldownForgotten'
  <2>1. UNCHANGED <<room, stamp, late>>
    BY <1>4, LineRequestMoves DEF cooldown
  <2> QED BY <1>1, <1>4, <2>1, LineRequestKeeps
<1>5. ASSUME NEW r \in Room, Elapse(r) PROVE CooldownForgotten'
  <2>1. \A s \in Room : stamp'[s] # "none" => stamp[s] # "none"
    BY <1>5 DEF Elapse, TypeOK
  <2> QED BY <1>5, <2>1, ForgottenKept DEF Elapse
<1>6. CASE Restart
  BY <1>6 DEF Restart, CooldownForgotten
<1> QED BY <1>2, <1>3, <1>4, <1>5, <1>6, ForgottenRequest DEF Next

\* A room that has left ACTIVE is not throttled by a reply of the time before,
\* but while the request that took it out has still to clear the time, or when
\* a message was being handled meanwhile.
THEOREM CooldownForgottenHolds == Spec => []CooldownForgotten
<1>1. Init => TypeOK /\ CooldownForgotten
  <2>1. Init => CooldownForgotten
    BY DEF Init, CooldownForgotten
  <2> QED BY <2>1, InitTypes
<1>2. TypeOK /\ CooldownForgotten /\ [Next]_vars => (TypeOK /\ CooldownForgotten)'
  BY NextTypes, NextForgotten
<1> QED BY <1>1, <1>2, PTL DEF Spec

-----------------------------------------------------------------------------
(***************************************************************************)
(* The lines.  A line that no user has touched since the room was last     *)
(* restarted is covered when it was tried or is about to be.  Every        *)
(* sequence a reply or the row holds lies in a prefix of covered lines,    *)
(* and the line a reply has chosen is the next after its own prefix: that  *)
(* is why writing back an old sequence plus one loses nothing.  As long as *)
(* nothing excuses a repetition, all replies that have still to write read *)
(* the row's sequence as it is, and what is covered does not reach past it.*)
(***************************************************************************)
Open(m, r)    == Reading(m, r) /\ ~At(m, "send")
Sending(m, r) == Reading(m, r) /\ At(m, "send")
Live(r)       == There(r) \/ \E m \in Message : Open(m, r)
Covered(r, l) == l \in history[r].tried \/ \E m \in Message : Sending(m, r) /\ msg[m].line = l
Scripted(r)   == LineId \ history[r].moved
Plain(r)      == ~history[r].overtaken /\ ~history[r].excused

\* A room that has not been created has no past.
Unused(r) == room[r].status = "absent" => history[r] = NewHistory /\ \A m \in Message : ~Reading(m, r)

\* A reply chooses its line after the delay.
LineChosenLate == \A m \in Message : \A p \in {"marking", "stamp", "delay"} : At(m, p) => msg[m].line = None

LostAt(r) == There(r) /\ ~history[r].overtaken =>
  /\ \A l \in Scripted(r) : line[l] \in 1..room[r].seq => Covered(r, l)
  /\ \A m \in Message : Reading(m, r) => \A l \in Scripted(r) :
       /\ line[l] \in 1..msg[m].seq => Covered(r, l)
       /\ At(m, "progress") /\ line[l] = msg[m].seq + 1 => msg[m].line = l

OpenAreCurrent(r) == \A m \in Message : Open(m, r) => msg[m].seq = room[r].seq
ChosenIsNext(r) == \A m \in Message :
  Open(m, r) /\ At(m, "progress") /\ msg[m].line \in Scripted(r) => line[msg[m].line] = msg[m].seq + 1
CoveredIsPast(r) == \A l \in Scripted(r) : Live(r) /\ Covered(r, l) => line[l] <= room[r].seq
SentIsNew(r) == \A m \in Message :
  Sending(m, r) /\ msg[m].line \in Scripted(r) => msg[m].line \notin history[r].tried
SentOnce(r) == \A m, n \in Message :
  Sending(m, r) /\ Sending(n, r) /\ msg[m].line \in Scripted(r) /\ msg[m].line = msg[n].line => m = n

RepeatAt(r) ==
  /\ ~history[r].repeated
  /\ Plain(r) => OpenAreCurrent(r) /\ ChosenIsNext(r) /\ CoveredIsPast(r) /\ SentIsNew(r) /\ SentOnce(r)

AnswersAt(r) == Unused(r) /\ LostAt(r) /\ RepeatAt(r)

AnswerInv == LineChosenLate /\ \A r \in Room : AnswersAt(r)

LEMMA AnswersImply == AnswerInv => NoLineLost /\ RepeatsExplained
<1>1. AnswerInv => RepeatsExplained
  BY DEF AnswerInv, AnswersAt, RepeatAt, RepeatsExplained
<1>2. AnswerInv => NoLineLost
  BY DEF AnswerInv, AnswersAt, LostAt, NoLineLost, Scripted, Covered, Sending
<1> QED BY <1>1, <1>2

\* The step moves no line and does nothing to what the room has covered.
Quiet(r) ==
  /\ There(r)' => There(r)
  /\ room'[r].status = "absent" => room[r].status = "absent"
  /\ room'[r].seq = room[r].seq
  /\ history'[r] = history[r]
  /\ line' = line
  /\ \A m \in Message : Reading(m, r)' =>
       /\ Reading(m, r) /\ msg'[m].seq = msg[m].seq
       /\ At(m, "progress")' => msg'[m] = msg[m]
       /\ At(m, "send") => At(m, "send")'
       /\ Sending(m, r)' /\ msg'[m].line \in LineId => msg'[m] = msg[m]
  /\ \A m \in Message : Sending(m, r) /\ msg[m].line \in LineId => msg'[m] = msg[m]

LEMMA QuietKeeps ==
  ASSUME TypeOK, NEW r \in Room, AnswersAt(r), Quiet(r)
  PROVE  AnswersAt(r)'
<1>1. Scripted(r)' = Scripted(r) /\ Scripted(r) \subseteq LineId /\ UNCHANGED <<line, room[r].seq, history[r]>>
  BY DEF Quiet, Scripted
<1>2. ASSUME NEW m \in Message, Open(m, r)' PROVE Open(m, r) /\ msg'[m].seq = msg[m].seq
  BY <1>2 DEF Quiet, Open
<1>3. ASSUME NEW m \in Message, Sending(m, r), msg[m].line \in LineId PROVE Sending(m, r)' /\ msg'[m] = msg[m]
  BY <1>3 DEF Quiet, Sending, Reading, At
<1>4. ASSUME NEW m \in Message, Sending(m, r)', msg'[m].line \in LineId PROVE Sending(m, r) /\ msg'[m] = msg[m]
  BY <1>4 DEF Quiet, Sending, Reading, At
<1>5. \A l \in LineId : Covered(r, l)' <=> Covered(r, l)
  BY <1>1, <1>3, <1>4 DEF Covered
<1>6. Live(r)' => Live(r)
  BY <1>2 DEF Live, Quiet
<1>7. Unused(r)'
  BY DEF Quiet, AnswersAt, Unused
<1>8. LostAt(r)'
  <2> SUFFICES ASSUME There(r)', ~history'[r].overtaken
               PROVE  /\ \A l \in Scripted(r) : line[l] \in 1..room[r].seq => Covered(r, l)'
                      /\ \A m \in Message : Reading(m, r)' => \A l \in Scripted(r) :
                           /\ line[l] \in 1..msg'[m].seq => Covered(r, l)'
                           /\ At(m, "progress")' /\ line[l] = msg'[m].seq + 1 => msg'[m].line = l
    BY <1>1 DEF LostAt
  <2>1. There(r) /\ ~history[r].overtaken
    BY <1>1 DEF Quiet
  <2>2. ASSUME NEW l \in Scripted(r), line[l] \in 1..room[r].seq PROVE Covered(r, l)'
    BY <1>1, <1>5, <2>1, <2>2 DEF AnswersAt, LostAt
  <2>3. ASSUME NEW m \in Message, Reading(m, r)', NEW l \in Scripted(r)
        PROVE  /\ line[l] \in 1..msg'[m].seq => Covered(r, l)'
               /\ At(m, "progress")' /\ line[l] = msg'[m].seq + 1 => msg'[m].line = l
    <3>1. Reading(m, r) /\ msg'[m].seq = msg[m].seq /\ (At(m, "progress")' => msg'[m] = msg[m])
      BY <2>3 DEF Quiet
    <3>2. /\ line[l] \in 1..msg[m].seq => Covered(r, l)
          /\ At(m, "progress") /\ line[l] = msg[m].seq + 1 => msg[m].line = l
      BY <2>1, <3>1 DEF AnswersAt, LostAt
    <3> QED BY <1>1, <1>5, <3>1, <3>2 DEF At
  <2> QED BY <2>2, <2>3
<1>9. RepeatAt(r)'
  <2>1. ~history'[r].repeated
    BY <1>1 DEF AnswersAt, RepeatAt
  <2> SUFFICES ASSUME Plain(r)'
               PROVE  (OpenAreCurrent(r) /\ ChosenIsNext(r) /\ CoveredIsPast(r) /\ SentIsNew(r) /\ SentOnce(r))'
    BY <2>1 DEF RepeatAt
  <2>2. OpenAreCurrent(r) /\ ChosenIsNext(r) /\ CoveredIsPast(r) /\ SentIsNew(r) /\ SentOnce(r)
    BY <1>1 DEF Plain, AnswersAt, RepeatAt
  <2>3. OpenAreCurrent(r)'
    BY <1>1, <1>2, <2>2 DEF OpenAreCurrent
  <2>4. ChosenIsNext(r)'
    BY <1>1, <1>2, <2>2 DEF ChosenIsNext, Quiet, Open, At
  <2>5. CoveredIsPast(r)'
    BY <1>1, <1>5, <1>6, <2>2 DEF CoveredIsPast
  <2>6. SentIsNew(r)'
    BY <1>1, <1>4, <2>2 DEF SentIsNew
  <2>7. SentOnce(r)'
    BY <1>1, <1>4, <2>2 DEF SentOnce
  <2> QED BY <2>3, <2>4, <2>5, <2>6, <2>7
<1> QED BY <1>7, <1>8, <1>9 DEF AnswersAt

\* A room whose replies and lines are untouched.
LEMMA OtherRoomQuiet ==
  ASSUME NEW m \in Message, NEW s \in Room, ~Reading(m, s), ~Reading(m, s)',
         line' = line, room'[s] = room[s], history'[s] = history[s],
         \A n \in Message : n # m => msg'[n] = msg[n]
  PROVE  Quiet(s)
<1>1. ASSUME NEW n \in Message, Reading(n, s) \/ Reading(n, s)' PROVE msg'[n] = msg[n]
  BY <1>1
<1> QED BY <1>1 DEF Quiet, There, Reading, At, Sending

\* A room that starts: no replies, and nothing tried.
LEMMA FreshRoom ==
  ASSUME NEW r \in Room, room'[r].status # "absent", room'[r].seq = 0,
         history'[r].tried = {}, ~history'[r].repeated,
         history'[r].overtaken \/ \A m \in Message : ~Reading(m, r)'
  PROVE  AnswersAt(r)'
<1>1. Unused(r)'
  BY DEF Unused
<1>2. CASE history'[r].overtaken
  BY <1>1, <1>2 DEF AnswersAt, LostAt, RepeatAt, Plain
<1>3. CASE \A m \in Message : ~Reading(m, r)'
  <2>1. 1..0 = {}
    OBVIOUS
  <2>2. LostAt(r)'
    BY <1>3, <2>1 DEF LostAt
  <2>3. \A l : ~Covered(r, l)'
    BY <1>3 DEF Covered, Sending
  <2>4. RepeatAt(r)'
    BY <1>3, <2>3 DEF RepeatAt, OpenAreCurrent, ChosenIsNext, CoveredIsPast, SentIsNew, SentOnce, Open, Sending
  <2> QED BY <1>1, <2>2, <2>4 DEF AnswersAt
<1> QED BY <1>2, <1>3

LEMMA InitAnswers == ASSUME Init PROVE AnswerInv
<1>1. \A m \in Message : msg[m] = New /\ \A r \in Room : ~Reading(m, r)
  BY DEF Init, Reading
<1>2. LineChosenLate
  BY <1>1 DEF LineChosenLate, At, New
<1>3. \A r \in Room : /\ history[r] = NewHistory /\ history[r].tried = {} /\ ~history[r].repeated
                      /\ room[r].seq = 0
  BY DEF Init, NewHistory, Absent, NewRoom
<1>4. ASSUME NEW r \in Room PROVE AnswersAt(r)
  <2>1. 1..0 = {}
    OBVIOUS
  <2>2. Unused(r) /\ LostAt(r)
    BY <1>1, <1>3, <2>1 DEF Unused, LostAt
  <2>3. \A l : ~Covered(r, l)
    BY <1>1, <1>3 DEF Covered, Sending
  <2>4. RepeatAt(r)
    BY <1>1, <1>3, <2>3 DEF RepeatAt, OpenAreCurrent, ChosenIsNext, CoveredIsPast, SentIsNew, SentOnce, Open, Sending
  <2> QED BY <2>2, <2>4 DEF AnswersAt
<1> QED BY <1>2, <1>4 DEF AnswerInv

\* Where a reply's own step is, and what it does to the other rooms.
LEMMA ReplyRoom ==
  ASSUME TypeOK, NEW m \in Message, msg[m] \in Reply,
         msg'[m] \in {New, Done} \/ msg'[m].room = msg[m].room,
         line' = line,
         \A n \in Message : n # m => msg'[n] = msg[n],
         \A s \in Room : s # msg[m].room => room'[s] = room[s] /\ history'[s] = history[s]
  PROVE  /\ Reading(m, msg[m].room) /\ msg[m].room \in Room
         /\ \A s \in Room : s # msg[m].room => Quiet(s)
<1>1. Reading(m, msg[m].room) /\ msg[m].room \in Room
  BY Replies DEF Reading, Reply
<1>2. ASSUME NEW s \in Room, s # msg[m].room PROVE Quiet(s)
  BY <1>2, OtherRoomQuiet DEF Reading
<1> QED BY <1>1, <1>2

\* The steps of a reply before it has a line, and when it ends without one.
LEMMA EarlyStep ==
  ASSUME TypeOK, NEW m \in Message, msg[m] \in Reply, UNCHANGED <<room, line, history>>,
         ~At(m, "send") \/ msg[m].line = None, LineChosenLate,
         \/ Finish(m)
         \/ ~At(m, "progress") /\ ~At(m, "send") /\ \E p \in {"stamp", "delay", "send"} : GoTo(m, p)
  PROVE  LineChosenLate' /\ \A r \in Room : Quiet(r)
<1>0. PICK r0 \in Room : r0 = msg[m].room
  BY DEF Reply
<1>1. \A n \in Message : n # m => msg'[n] = msg[n]
  BY Goes, Ends DEF ReplyPc
<1>2. CASE Finish(m)
  <2>1. msg'[m] = Done
    BY <1>2, Ends
  <2>2. LineChosenLate'
    BY <1>1, <2>1 DEF LineChosenLate, At, Done
  <2>3. Quiet(r0)
    <3>1. \A r : ~Reading(m, r)'
      BY <2>1 DEF Reading
    <3>2. None \notin LineId
      BY AutoReplyAssumption
    <3>3. ASSUME NEW n \in Message, NEW r, Sending(n, r), msg[n].line \in LineId PROVE msg'[n] = msg[n]
      BY <1>1, <3>2, <3>3 DEF Sending
    <3> QED BY <1>1, <3>1, <3>3 DEF Quiet, There, Reading, At, Sending
  <2> QED BY <1>0, <1>1, <2>1, <2>2, <2>3, ReplyRoom
<1>3. ASSUME NEW p \in {"stamp", "delay", "send"}, GoTo(m, p), ~At(m, "progress"), ~At(m, "send")
      PROVE  LineChosenLate' /\ \A r \in Room : Quiet(r)
  <2>1. /\ msg'[m] \in Reply /\ msg'[m].pc = p /\ msg'[m].room = msg[m].room
        /\ msg'[m].seq = msg[m].seq /\ msg'[m].line = msg[m].line
    BY <1>3, Goes DEF ReplyPc
  <2>2. msg[m].line = None
    BY <1>3 DEF LineChosenLate, At, Reply
  <2>3. LineChosenLate'
    BY <1>1, <2>1, <2>2 DEF LineChosenLate, At
  <2>4. Quiet(r0)
    <3>1. msg'[m] \notin {New, Done} /\ msg[m] \notin {New, Done} /\ msg'[m].pc # "progress"
      BY <2>1, Replies DEF Reply, New, Done
    <3>2. None \notin LineId
      BY AutoReplyAssumption
    <3>3. ASSUME NEW n \in Message, NEW r, Reading(n, r)'
          PROVE  /\ Reading(n, r) /\ msg'[n].seq = msg[n].seq
                 /\ At(n, "progress")' => msg'[n] = msg[n]
                 /\ At(n, "send") => At(n, "send")'
                 /\ Sending(n, r)' /\ msg'[n].line \in LineId => msg'[n] = msg[n]
      <4>1. CASE n = m
        BY <1>3, <2>1, <2>2, <3>1, <3>2, <3>3, <4>1 DEF Reading, At, Sending
      <4>2. CASE n # m
        BY <1>1, <3>3, <4>2 DEF Reading, At, Sending
      <4> QED BY <4>1, <4>2
    <3>4. ASSUME NEW n \in Message, NEW r, Sending(n, r), msg[n].line \in LineId PROVE msg'[n] = msg[n]
      BY <1>1, <1>3, <3>4 DEF Sending
    <3> QED BY <3>3, <3>4 DEF Quiet, There
  <2> QED BY <1>0, <1>1, <2>1, <2>3, <2>4, ReplyRoom
<1> QED BY <1>2, <1>3

\* What choosing and writing note about the room.
LEMMA NoteExcused ==
  ASSUME TypeOK, NEW r \in Room, NEW e \in BOOLEAN, Note(r, [history[r] EXCEPT !.excused = e])
  PROVE  /\ history'[r].moved = history[r].moved /\ history'[r].overtaken = history[r].overtaken
         /\ history'[r].tried = history[r].tried /\ history'[r].repeated = history[r].repeated
         /\ ~history[r].overtaken => history'[r].excused = e
         /\ \A s \in Room : s # r => history'[s] = history[s]
<1> DEFINE h == [history[r] EXCEPT !.excused = e]
<1>1. history[r] \in History
  BY DEF TypeOK
<1>2. /\ h \in History /\ h.excused = e /\ h.tried = history[r].tried /\ h.repeated = history[r].repeated
      /\ h.moved = history[r].moved /\ h.overtaken = history[r].overtaken
  BY <1>1 DEF History
<1>3. Note(r, h)
  OBVIOUS
<1> HIDE DEF h
<1> QED BY <1>2, <1>3, NoteType

LEMMA NoteTried ==
  ASSUME TypeOK, NEW r \in Room, NEW L \in SUBSET LineId, NEW b \in BOOLEAN,
         Note(r, [history[r] EXCEPT !.tried = L, !.repeated = b])
  PROVE  /\ history'[r].moved = history[r].moved /\ history'[r].overtaken = history[r].overtaken
         /\ history'[r].excused = history[r].excused
         /\ history[r].overtaken => history'[r] = history[r]
         /\ ~history[r].overtaken => history'[r].tried = L /\ history'[r].repeated = b
         /\ \A s \in Room : s # r => history'[s] = history[s]
<1> DEFINE h == [history[r] EXCEPT !.tried = L, !.repeated = b]
<1>1. history[r] \in History
  BY DEF TypeOK
<1>2. /\ h \in History /\ h.excused = history[r].excused /\ h.tried = L /\ h.repeated = b
      /\ h.moved = history[r].moved /\ h.overtaken = history[r].overtaken
  BY <1>1 DEF History
<1>3. Note(r, h)
  OBVIOUS
<1> HIDE DEF h
<1> QED BY <1>2, <1>3, NoteType

LEMMA ProgressWritten ==
  ASSUME TypeOK, AnswerInv, NEW m \in Message, UpdateRoomProgress(m) PROVE AnswerInv'
<1>1. PICK r \in Room : r = msg[m].room
  BY Replies DEF UpdateRoomProgress, ReplyPc
<1>2. /\ msg[m] \in Reply /\ msg[m] \notin {New, Done} /\ msg[m].seq \in Nat /\ At(m, "progress")
      /\ Open(m, r) /\ Reading(m, r)
  BY <1>1, Replies DEF UpdateRoomProgress, ReplyPc, Open, Reading, At
<1>3. /\ msg'[m] \in Reply /\ msg'[m].pc = "send" /\ msg'[m].room = r /\ msg'[m] \notin {New, Done}
      /\ msg'[m].seq = msg[m].seq /\ msg'[m].line = msg[m].line
      /\ \A n \in Message : n # m => msg'[n] = msg[n]
  BY <1>1, <1>2, Goes DEF UpdateRoomProgress, ReplyPc, Reply, New, Done
<1> DEFINE row == [room[r] EXCEPT !.seq = NextSeq(m)]
<1>4. /\ room'[r].status = room[r].status /\ \A s \in Room : s # r => room'[s] = room[s]
      /\ There(r) => room'[r].seq = msg[m].seq + 1
  <2>1. room[r] \in RoomRow
    BY DEF TypeOK
  <2>2. row.status = room[r].status /\ row.seq = msg[m].seq + 1
    BY <2>1 DEF RoomRow, NextSeq
  <2>3. room' = IF There(r) THEN [room EXCEPT ![r] = row] ELSE room
    BY <1>1 DEF UpdateRoomProgress, Write
  <2> HIDE DEF row
  <2> QED BY <2>2, <2>3 DEF TypeOK
<1> DEFINE e == \E n \in Message \ {m} : Reading(n, r) /\ ~At(n, "send")
<1>5. /\ history'[r].moved = history[r].moved /\ history'[r].overtaken = history[r].overtaken
      /\ history'[r].tried = history[r].tried /\ history'[r].repeated = history[r].repeated
      /\ ~history[r].overtaken => (history'[r].excused <=> (history[r].excused \/ e))
      /\ \A s \in Room : s # r => history'[s] = history[s]
  <2>1. Note(r, [history[r] EXCEPT !.excused = @ \/ e])
    BY <1>1 DEF UpdateRoomProgress
  <2>2. Note(r, [history[r] EXCEPT !.excused = history[r].excused \/ e])
    <3>1. history[r] \in History
      BY DEF TypeOK
    <3>2. [history[r] EXCEPT !.excused = @ \/ e] = [history[r] EXCEPT !.excused = history[r].excused \/ e]
      BY <3>1 DEF History
    <3> QED BY <2>1, <3>2
  <2>3. (history[r].excused \/ e) \in BOOLEAN
    OBVIOUS
  <2> HIDE DEF e
  <2> QED BY <2>2, <2>3, NoteExcused
<1>6. UNCHANGED line
  BY DEF UpdateRoomProgress
<1>7. \A s \in Room : s # r => Quiet(s)
  BY <1>1, <1>2, <1>3, <1>4, <1>5, <1>6, ReplyRoom
<1>8. /\ Scripted(r)' = Scripted(r) /\ Scripted(r) \subseteq LineId
      /\ \A n \in Message : (Reading(n, r)' <=> Reading(n, r)) /\ msg'[n].seq = msg[n].seq /\ msg'[n].line = msg[n].line
      /\ \A n \in Message : Sending(n, r)' <=> Sending(n, r) \/ n = m
      /\ \A n \in Message : Open(n, r)' <=> Open(n, r) /\ n # m
  <2>1. ASSUME NEW n \in Message
        PROVE  /\ (Reading(n, r)' <=> Reading(n, r)) /\ msg'[n].seq = msg[n].seq /\ msg'[n].line = msg[n].line
               /\ Sending(n, r)' <=> Sending(n, r) \/ n = m
               /\ Open(n, r)' <=> Open(n, r) /\ n # m
    <3>1. CASE n = m
      BY <1>1, <1>2, <1>3, <3>1 DEF Reading, At, Sending, Open
    <3>2. CASE n # m
      BY <1>3, <3>2 DEF Reading, At, Sending, Open
    <3> QED BY <3>1, <3>2
  <2> QED BY <1>5, <2>1 DEF Scripted
<1>9. ~Sending(m, r) /\ \A l \in LineId : Covered(r, l)' <=> Covered(r, l) \/ l = msg[m].line
  <2>1. ~Sending(m, r)
    BY <1>2 DEF Open, Sending
  <2> QED BY <1>5, <1>8, <2>1 DEF Covered
<1>10. Unused(r)' /\ Unused(r)
  BY <1>2, <1>4 DEF AnswerInv, AnswersAt, Unused
<1>11. \A l \in LineId : line[l] \in Nat
  BY AutoReplyAssumption DEF TypeOK
<1>12. LostAt(r)'
  <2> SUFFICES ASSUME There(r), ~history[r].overtaken
               PROVE  /\ \A l \in Scripted(r) : line[l] \in 1..room'[r].seq => Covered(r, l)'
                      /\ \A n \in Message : Reading(n, r)' => \A l \in Scripted(r) :
                           /\ line[l] \in 1..msg'[n].seq => Covered(r, l)'
                           /\ At(n, "progress")' /\ line[l] = msg'[n].seq + 1 => msg'[n].line = l
    BY <1>4, <1>5, <1>6, <1>8 DEF LostAt, There
  <2>1. \A n \in Message : Reading(n, r) => \A l \in Scripted(r) :
          /\ line[l] \in 1..msg[n].seq => Covered(r, l)
          /\ At(n, "progress") /\ line[l] = msg[n].seq + 1 => msg[n].line = l
    BY DEF AnswerInv, AnswersAt, LostAt
  <2>2. ASSUME NEW l \in Scripted(r), line[l] \in 1..room'[r].seq PROVE Covered(r, l)'
    <3>1. line[l] \in 1..msg[m].seq \/ line[l] = msg[m].seq + 1
      BY <1>2, <1>4, <1>8, <1>11, <2>2
    <3> QED BY <1>2, <1>8, <1>9, <2>1, <3>1
  <2>3. ASSUME NEW n \in Message, Reading(n, r)', NEW l \in Scripted(r)
        PROVE  /\ line[l] \in 1..msg'[n].seq => Covered(r, l)'
               /\ At(n, "progress")' /\ line[l] = msg'[n].seq + 1 => msg'[n].line = l
    <3>1. Reading(n, r) /\ msg'[n].seq = msg[n].seq /\ msg'[n].line = msg[n].line
      BY <1>8, <2>3
    <3>2. At(n, "progress")' => At(n, "progress")
      BY <1>3 DEF At
    <3> QED BY <1>8, <1>9, <2>1, <3>1, <3>2
  <2> QED BY <2>2, <2>3
<1>13. RepeatAt(r)'
  <2>1. ~history'[r].repeated
    BY <1>5 DEF AnswerInv, AnswersAt, RepeatAt
  <2> SUFFICES ASSUME Plain(r)'
               PROVE  (OpenAreCurrent(r) /\ ChosenIsNext(r) /\ CoveredIsPast(r) /\ SentIsNew(r) /\ SentOnce(r))'
    BY <2>1 DEF RepeatAt
  <2>2. Plain(r) /\ ~e
    BY <1>5 DEF Plain
  <2>3. OpenAreCurrent(r) /\ ChosenIsNext(r) /\ CoveredIsPast(r) /\ SentIsNew(r) /\ SentOnce(r)
    BY <2>2 DEF AnswerInv, AnswersAt, RepeatAt
  <2>4. \A n \in Message : ~Open(n, r)'
    BY <1>8, <2>2 DEF Open
  <2>5. msg[m].seq = room[r].seq /\ (msg[m].line \in Scripted(r) => line[msg[m].line] = msg[m].seq + 1)
    BY <1>2, <2>3 DEF OpenAreCurrent, ChosenIsNext
  <2>6. \A l \in Scripted(r) : Covered(r, l) => line[l] <= msg[m].seq
    BY <1>2, <2>3, <2>5 DEF CoveredIsPast, Live
  <2>7. msg[m].line \in Scripted(r) => ~Covered(r, msg[m].line)
    BY <1>2, <2>5, <2>6
  <2>8. OpenAreCurrent(r)' /\ ChosenIsNext(r)'
    BY <2>4 DEF OpenAreCurrent, ChosenIsNext
  <2>9. CoveredIsPast(r)'
    <3> SUFFICES ASSUME NEW l \in Scripted(r), Live(r)', Covered(r, l)' PROVE line[l] <= room'[r].seq
      BY <1>6, <1>8 DEF CoveredIsPast
    <3>1. There(r) /\ room'[r].seq = msg[m].seq + 1
      BY <1>4, <2>4 DEF Live, There
    <3>2. CASE Covered(r, l)
      BY <1>2, <1>8, <1>11, <2>6, <3>1, <3>2
    <3>3. CASE l = msg[m].line
      BY <1>2, <2>5, <3>1, <3>3
    <3> QED BY <1>8, <1>9, <3>2, <3>3
  <2>10. SentIsNew(r)'
    BY <1>5, <1>8, <2>3, <2>7 DEF SentIsNew, Covered
  <2>11. SentOnce(r)'
    BY <1>8, <2>3, <2>7 DEF SentOnce, Covered
  <2> QED BY <2>8, <2>9, <2>10, <2>11
<1>14. LineChosenLate'
  <2> SUFFICES ASSUME NEW n \in Message, NEW p \in {"marking", "stamp", "delay"}, At(n, p)' PROVE msg'[n].line = None
    BY DEF LineChosenLate
  <2>1. n # m
    BY <1>3 DEF At
  <2> QED BY <1>3, <2>1 DEF At, AnswerInv, LineChosenLate
<1>15. \A s \in Room : s # r => AnswersAt(s)'
  BY <1>7, QuietKeeps DEF AnswerInv
<1> QED BY <1>10, <1>12, <1>13, <1>14, <1>15 DEF AnswerInv, AnswersAt

\* A reply whose progress could not be written is sent all the same.
LEMMA ProgressNotWritten ==
  ASSUME TypeOK, AnswerInv, NEW m \in Message, ProgressFails(m) PROVE AnswerInv'
<1>1. PICK r \in Room : r = msg[m].room
  BY Replies DEF ProgressFails, ReplyPc
<1>2. /\ msg[m] \in Reply /\ msg[m] \notin {New, Done} /\ At(m, "progress")
      /\ Open(m, r) /\ Reading(m, r)
  BY <1>1, Replies DEF ProgressFails, ReplyPc, Open, Reading, At
<1>3. /\ msg'[m] \in Reply /\ msg'[m].pc = "send" /\ msg'[m].room = r /\ msg'[m] \notin {New, Done}
      /\ msg'[m].seq = msg[m].seq /\ msg'[m].line = msg[m].line
      /\ \A n \in Message : n # m => msg'[n] = msg[n]
  BY <1>1, <1>2, Goes DEF ProgressFails, ReplyPc, Reply, New, Done
<1>4. UNCHANGED <<room, line>>
  BY DEF ProgressFails
<1>5. /\ history'[r].moved = history[r].moved /\ history'[r].overtaken = history[r].overtaken
      /\ history'[r].tried = history[r].tried /\ history'[r].repeated = history[r].repeated
      /\ ~history[r].overtaken => history'[r].excused
      /\ \A s \in Room : s # r => history'[s] = history[s]
  <2>1. Note(r, [history[r] EXCEPT !.excused = TRUE])
    BY <1>1 DEF ProgressFails
  <2> QED BY <2>1, NoteExcused
<1>6. \A s \in Room : s # r => Quiet(s)
  BY <1>1, <1>2, <1>3, <1>4, <1>5, ReplyRoom
<1>7. \A n \in Message : /\ (Reading(n, r)' <=> Reading(n, r)) /\ msg'[n].seq = msg[n].seq /\ msg'[n].line = msg[n].line
                         /\ Sending(n, r) => Sending(n, r)'
                         /\ At(n, "progress")' => At(n, "progress")
  <2> SUFFICES ASSUME NEW n \in Message
        PROVE  /\ (Reading(n, r)' <=> Reading(n, r)) /\ msg'[n].seq = msg[n].seq /\ msg'[n].line = msg[n].line
               /\ Sending(n, r) => Sending(n, r)'
               /\ At(n, "progress")' => At(n, "progress")
    OBVIOUS
  <2>1. CASE n = m
    BY <1>1, <1>2, <1>3, <2>1 DEF Reading, At, Sending
  <2>2. CASE n # m
    BY <1>3, <2>2 DEF Reading, At, Sending
  <2> QED BY <2>1, <2>2
<1>8. \A l \in LineId : Covered(r, l) => Covered(r, l)'
  BY <1>5, <1>7 DEF Covered
<1>9. Unused(r)'
  BY <1>2, <1>4 DEF AnswerInv, AnswersAt, Unused
<1>10. LostAt(r)'
  <2>1. LostAt(r) /\ Scripted(r)' = Scripted(r) /\ Scripted(r) \subseteq LineId
    BY <1>5 DEF AnswerInv, AnswersAt, Scripted
  <2> QED BY <1>4, <1>5, <1>7, <1>8, <2>1 DEF LostAt, There
<1>11. RepeatAt(r)'
  BY <1>5 DEF AnswerInv, AnswersAt, RepeatAt, Plain
<1>12. LineChosenLate'
  <2> SUFFICES ASSUME NEW n \in Message, NEW p \in {"marking", "stamp", "delay"}, At(n, p)' PROVE msg'[n].line = None
    BY DEF LineChosenLate
  <2>1. n # m
    BY <1>3 DEF At
  <2> QED BY <1>3, <2>1 DEF At, AnswerInv, LineChosenLate
<1>13. \A s \in Room : s # r => AnswersAt(s)'
  BY <1>6, QuietKeeps DEF AnswerInv
<1> QED BY <1>9, <1>10, <1>11, <1>12, <1>13 DEF AnswerInv, AnswersAt

\* A line that has been sent stays covered, and was not covered twice.
LEMMA LineSent ==
  ASSUME TypeOK, AnswerInv, NEW m \in Message, SendReply(m) PROVE AnswerInv'
<1>1. PICK r \in Room, l0 \in LineId \union {None} : r = msg[m].room /\ l0 = msg[m].line
  BY Replies DEF SendReply, ReplyPc
<1>2. /\ msg[m] \in Reply /\ msg[m] \notin {New, Done} /\ At(m, "send")
      /\ Sending(m, r) /\ Reading(m, r)
  BY <1>1, Replies DEF SendReply, ReplyPc, Sending, Reading, At
<1>3. UNCHANGED <<room, line>> /\ Finish(m)
  BY DEF SendReply
<1>4. msg'[m] = Done /\ \A n \in Message : n # m => msg'[n] = msg[n]
  BY <1>3, Ends
<1>5. CASE l0 = None
  <2>1. UNCHANGED history
    BY <1>1, <1>5 DEF SendReply
  <2>2. LineChosenLate' /\ \A s \in Room : Quiet(s)
    BY <1>1, <1>2, <1>3, <1>5, <2>1, EarlyStep DEF AnswerInv
  <2> QED BY <2>2, QuietKeeps DEF AnswerInv
<1>6. CASE l0 # None
  <2> DEFINE h == history[r]
             b == l0 \in h.tried \ h.moved /\ ~h.excused
  <2>1. l0 \in LineId
    BY <1>6
  <2>2. /\ history'[r].moved = history[r].moved /\ history'[r].overtaken = history[r].overtaken
        /\ history'[r].excused = history[r].excused
        /\ history[r].overtaken => history'[r] = history[r]
        /\ ~history[r].overtaken => /\ history'[r].tried = history[r].tried \union {l0}
                                    /\ history'[r].repeated <=> history[r].repeated \/ b
        /\ \A s \in Room : s # r => history'[s] = history[s]
    <3>1. h \in History
      BY DEF TypeOK
    <3>2. Note(r, [h EXCEPT !.tried = @ \union {l0}, !.repeated = @ \/ b])
      BY <1>1, <1>6 DEF SendReply
    <3>3. [h EXCEPT !.tried = @ \union {l0}, !.repeated = @ \/ b]
          = [h EXCEPT !.tried = h.tried \union {l0}, !.repeated = h.repeated \/ b]
      <4> HIDE DEF b
      <4> QED BY <3>1 DEF History
    <3>4. h.tried \union {l0} \in SUBSET LineId /\ (h.repeated \/ b) \in BOOLEAN
      BY <2>1, <3>1 DEF History
    <3> HIDE DEF b
    <3> QED BY <3>2, <3>3, <3>4, NoteTried
  <2>3. \A s \in Room : s # r => Quiet(s)
    BY <1>1, <1>2, <1>3, <1>4, <2>2, ReplyRoom
  <2>4. /\ ~Reading(m, r)'
        /\ \A n \in Message : n # m => /\ (Reading(n, r)' <=> Reading(n, r)) /\ (Sending(n, r)' <=> Sending(n, r))
                                       /\ (Open(n, r)' <=> Open(n, r)) /\ msg'[n] = msg[n]
    BY <1>4 DEF Reading, Sending, Open, At
  <2>5. Scripted(r)' = Scripted(r) /\ Scripted(r) \subseteq LineId
    BY <2>2 DEF Scripted
  <2>6. ~history[r].overtaken => \A l \in LineId : Covered(r, l)' <=> Covered(r, l)
    <3> SUFFICES ASSUME ~history[r].overtaken, NEW l \in LineId PROVE Covered(r, l)' <=> Covered(r, l)
      OBVIOUS
    <3>1. CASE l = l0
      BY <1>1, <1>2, <2>2, <3>1 DEF Covered
    <3>2. CASE l # l0
      BY <1>1, <2>2, <2>4, <3>2 DEF Covered, Sending
    <3> QED BY <3>1, <3>2
  <2>7. ~Open(m, r) /\ ~Open(m, r)' /\ ~Sending(m, r)'
    BY <1>2, <2>4 DEF Open, Sending
  <2>8. Unused(r)'
    BY <1>2, <1>3 DEF AnswerInv, AnswersAt, Unused
  <2>9. LostAt(r)'
    <3> SUFFICES ASSUME There(r), ~history[r].overtaken
                 PROVE  /\ \A l \in Scripted(r) : line[l] \in 1..room[r].seq => Covered(r, l)'
                        /\ \A n \in Message : Reading(n, r)' => \A l \in Scripted(r) :
                             /\ line[l] \in 1..msg'[n].seq => Covered(r, l)'
                             /\ At(n, "progress")' /\ line[l] = msg'[n].seq + 1 => msg'[n].line = l
      BY <1>3, <2>2, <2>5 DEF LostAt, There
    <3>1. /\ \A l \in Scripted(r) : line[l] \in 1..room[r].seq => Covered(r, l)
          /\ \A n \in Message : Reading(n, r) => \A l \in Scripted(r) :
               /\ line[l] \in 1..msg[n].seq => Covered(r, l)
               /\ At(n, "progress") /\ line[l] = msg[n].seq + 1 => msg[n].line = l
      BY DEF AnswerInv, AnswersAt, LostAt
    <3>2. \A n \in Message : Reading(n, r)' => Reading(n, r) /\ msg'[n] = msg[n]
      BY <2>4
    <3> QED BY <2>5, <2>6, <3>1, <3>2 DEF At
  <2>10. RepeatAt(r)'
    <3>1. CASE history[r].overtaken
      BY <2>2, <3>1 DEF AnswerInv, AnswersAt, RepeatAt, Plain
    <3>2. CASE ~history[r].overtaken
      <4>1. ~history'[r].repeated
        <5>1. ~history[r].repeated
          BY DEF AnswerInv, AnswersAt, RepeatAt
        <5>2. ~b
          <6> SUFFICES ASSUME ~history[r].excused, l0 \notin history[r].moved PROVE l0 \notin history[r].tried
            OBVIOUS
          <6>1. SentIsNew(r)
            BY <3>2 DEF AnswerInv, AnswersAt, RepeatAt, Plain
          <6> QED BY <1>1, <1>2, <2>1, <6>1 DEF SentIsNew, Scripted
        <5> HIDE DEF b
        <5> QED BY <2>2, <3>2, <5>1, <5>2
      <4> SUFFICES ASSUME Plain(r)'
                   PROVE  (OpenAreCurrent(r) /\ ChosenIsNext(r) /\ CoveredIsPast(r) /\ SentIsNew(r) /\ SentOnce(r))'
        BY <4>1 DEF RepeatAt
      <4>2. Plain(r)
        BY <2>2, <3>2 DEF Plain
      <4>3. OpenAreCurrent(r) /\ ChosenIsNext(r) /\ CoveredIsPast(r) /\ SentIsNew(r) /\ SentOnce(r)
        BY <4>2 DEF AnswerInv, AnswersAt, RepeatAt
      <4>4. \A n \in Message : (Open(n, r)' => Open(n, r) /\ msg'[n] = msg[n])
                               /\ (Sending(n, r)' => Sending(n, r) /\ n # m /\ msg'[n] = msg[n])
        BY <2>4, <2>7
      <4>5. OpenAreCurrent(r)' /\ ChosenIsNext(r)'
        BY <1>3, <2>5, <4>3, <4>4 DEF OpenAreCurrent, ChosenIsNext, At
      <4>6. CoveredIsPast(r)'
        BY <1>3, <2>5, <2>6, <3>2, <4>3, <4>4 DEF CoveredIsPast, Live, There
      <4>7. SentIsNew(r)'
        BY <1>1, <1>2, <2>2, <2>5, <3>2, <4>3, <4>4 DEF SentIsNew, SentOnce
      <4>8. SentOnce(r)'
        BY <2>5, <4>3, <4>4 DEF SentOnce
      <4> QED BY <4>5, <4>6, <4>7, <4>8
    <3> QED BY <3>1, <3>2
  <2>11. LineChosenLate'
    BY <1>4 DEF At, AnswerInv, LineChosenLate, Done
  <2>12. \A s \in Room : s # r => AnswersAt(s)'
    BY <2>3, QuietKeeps DEF AnswerInv
  <2> QED BY <2>8, <2>9, <2>10, <2>11, <2>12 DEF AnswerInv, AnswersAt
<1> QED BY <1>5, <1>6

\* The line a reply chooses is the first after the sequence it has read.
LEMMA LineChosen ==
  ASSUME TypeOK, AnswerInv, NEW m \in Message, NEW l0 \in LineId, SelectLine(m, l0) PROVE AnswerInv'
<1>1. PICK r \in Room : r = msg[m].room
  BY Replies DEF SelectLine, ReplyPc
<1>2. /\ msg[m] \in Reply /\ msg[m] \notin {New, Done} /\ At(m, "delay") /\ msg[m].seq \in Nat
      /\ Open(m, r) /\ Reading(m, r)
  BY <1>1, Replies DEF SelectLine, ReplyPc, Open, Reading, At
<1>3. /\ msg'[m] \notin {New, Done} /\ msg'[m].pc = "progress" /\ msg'[m].room = r
      /\ msg'[m].seq = msg[m].seq /\ msg'[m].line = l0
      /\ \A n \in Message : n # m => msg'[n] = msg[n]
  <2> DEFINE x == [msg[m] EXCEPT !.pc = "progress", !.line = l0]
  <2>1. x.pc = "progress" /\ x.room = r /\ x.seq = msg[m].seq /\ x.line = l0
    BY <1>1, <1>2 DEF Reply
  <2>2. msg' = [msg EXCEPT ![m] = x]
    BY DEF SelectLine
  <2> HIDE DEF x
  <2>3. x \notin {New, Done}
    BY <2>1 DEF New, Done
  <2> QED BY <2>1, <2>2, <2>3 DEF TypeOK
<1>4. UNCHANGED <<room, line>> /\ Follows(l0, msg[m].seq)
  BY DEF SelectLine
<1> DEFINE e == line[l0] > msg[m].seq + 1
<1>5. /\ history'[r].moved = history[r].moved /\ history'[r].overtaken = history[r].overtaken
      /\ history'[r].tried = history[r].tried /\ history'[r].repeated = history[r].repeated
      /\ ~history[r].overtaken => (history'[r].excused <=> (history[r].excused \/ e))
      /\ \A s \in Room : s # r => history'[s] = history[s]
  <2>1. Note(r, [history[r] EXCEPT !.excused = @ \/ e])
    BY <1>1 DEF SelectLine
  <2>2. (history[r].excused \/ e) \in BOOLEAN /\ history[r] \in History
    BY DEF TypeOK
  <2> HIDE DEF e
  <2>3. [history[r] EXCEPT !.excused = @ \/ e] = [history[r] EXCEPT !.excused = history[r].excused \/ e]
    BY <2>2 DEF History
  <2> QED BY <2>1, <2>2, <2>3, NoteExcused
<1>6. \A s \in Room : s # r => Quiet(s)
  BY <1>1, <1>2, <1>3, <1>4, <1>5, ReplyRoom
<1>7. \A n \in Message : /\ (Reading(n, r)' <=> Reading(n, r)) /\ msg'[n].seq = msg[n].seq
                         /\ (Sending(n, r)' <=> Sending(n, r)) /\ (Sending(n, r) => n # m)
                         /\ (Open(n, r)' <=> Open(n, r))
                         /\ n # m => msg'[n] = msg[n]
  <2> SUFFICES ASSUME NEW n \in Message
        PROVE  /\ (Reading(n, r)' <=> Reading(n, r)) /\ msg'[n].seq = msg[n].seq
               /\ (Sending(n, r)' <=> Sending(n, r)) /\ (Sending(n, r) => n # m)
               /\ (Open(n, r)' <=> Open(n, r))
               /\ n # m => msg'[n] = msg[n]
    OBVIOUS
  <2>1. CASE n = m
    BY <1>1, <1>2, <1>3, <2>1 DEF Reading, At, Sending, Open
  <2>2. CASE n # m
    BY <1>3, <2>2 DEF Reading, At, Sending, Open
  <2> QED BY <2>1, <2>2
<1>8. \A l \in LineId : Covered(r, l)' <=> Covered(r, l)
  BY <1>5, <1>7 DEF Covered
<1>9. Scripted(r)' = Scripted(r) /\ Scripted(r) \subseteq LineId
  BY <1>5 DEF Scripted
<1>10. \A l \in LineId : line[l] \in Nat /\ (line[l] = line[l0] => l = l0)
  BY <1>2, <1>4, AutoReplyAssumption DEF TypeOK, Follows
<1>11. Unused(r)'
  BY <1>2, <1>4 DEF AnswerInv, AnswersAt, Unused
<1>12. LostAt(r)'
  <2> SUFFICES ASSUME There(r), ~history[r].overtaken
               PROVE  /\ \A l \in Scripted(r) : line[l] \in 1..room[r].seq => Covered(r, l)'
                      /\ \A n \in Message : Reading(n, r)' => \A l \in Scripted(r) :
                           /\ line[l] \in 1..msg'[n].seq => Covered(r, l)'
                           /\ At(n, "progress")' /\ line[l] = msg'[n].seq + 1 => msg'[n].line = l
    BY <1>4, <1>5, <1>9 DEF LostAt, There
  <2>1. /\ \A l \in Scripted(r) : line[l] \in 1..room[r].seq => Covered(r, l)
        /\ \A n \in Message : Reading(n, r) => \A l \in Scripted(r) :
             /\ line[l] \in 1..msg[n].seq => Covered(r, l)
             /\ At(n, "progress") /\ line[l] = msg[n].seq + 1 => msg[n].line = l
    BY DEF AnswerInv, AnswersAt, LostAt
  <2>2. ASSUME NEW n \in Message, Reading(n, r)', NEW l \in Scripted(r)
        PROVE  /\ line[l] \in 1..msg'[n].seq => Covered(r, l)'
               /\ At(n, "progress")' /\ line[l] = msg'[n].seq + 1 => msg'[n].line = l
    <3>1. line[l] \in 1..msg'[n].seq => Covered(r, l)'
      BY <1>7, <1>8, <1>9, <2>1, <2>2
    <3>2. CASE n # m
      BY <1>7, <2>1, <2>2, <3>1, <3>2 DEF At
    <3>3. CASE n = m
      <4>1. ASSUME line[l] = msg[m].seq + 1 PROVE l = l0
        <5>1. line[l] > msg[m].seq /\ line[l0] > msg[m].seq
          BY <1>2, <1>4, <4>1 DEF Follows
        <5>2. line[l0] <= line[l]
          BY <1>4, <1>9, <5>1 DEF Follows
        <5>3. line[l0] = line[l]
          BY <1>2, <1>9, <1>10, <4>1, <5>1, <5>2
        <5> QED BY <1>9, <1>10, <5>3
      <4> QED BY <1>3, <3>1, <3>3, <4>1
    <3> QED BY <3>2, <3>3
  <2> QED BY <1>8, <1>9, <2>1, <2>2
<1>13. RepeatAt(r)'
  <2>1. ~history'[r].repeated
    BY <1>5 DEF AnswerInv, AnswersAt, RepeatAt
  <2> SUFFICES ASSUME Plain(r)'
               PROVE  (OpenAreCurrent(r) /\ ChosenIsNext(r) /\ CoveredIsPast(r) /\ SentIsNew(r) /\ SentOnce(r))'
    BY <2>1 DEF RepeatAt
  <2>2. Plain(r) /\ ~e
    BY <1>5 DEF Plain
  <2>3. OpenAreCurrent(r) /\ ChosenIsNext(r) /\ CoveredIsPast(r) /\ SentIsNew(r) /\ SentOnce(r)
    BY <2>2 DEF AnswerInv, AnswersAt, RepeatAt
  <2>4. line[l0] = msg[m].seq + 1
    BY <1>2, <1>4, <1>10, <2>2 DEF Follows
  <2>5. OpenAreCurrent(r)'
    BY <1>4, <1>7, <2>3 DEF OpenAreCurrent
  <2>6. ChosenIsNext(r)'
    BY <1>3, <1>4, <1>7, <1>9, <2>3, <2>4 DEF ChosenIsNext, At
  <2>7. CoveredIsPast(r)'
    BY <1>4, <1>7, <1>8, <1>9, <2>3 DEF CoveredIsPast, Live, There
  <2>8. SentIsNew(r)'
    BY <1>5, <1>7, <1>9, <2>3 DEF SentIsNew
  <2>9. SentOnce(r)'
    BY <1>7, <1>9, <2>3 DEF SentOnce
  <2> QED BY <2>5, <2>6, <2>7, <2>8, <2>9
<1>14. LineChosenLate'
  <2> SUFFICES ASSUME NEW n \in Message, NEW p \in {"marking", "stamp", "delay"}, At(n, p)' PROVE msg'[n].line = None
    BY DEF LineChosenLate
  <2>1. n # m
    BY <1>3 DEF At
  <2> QED BY <1>3, <2>1 DEF At, AnswerInv, LineChosenLate
<1>15. \A s \in Room : s # r => AnswersAt(s)'
  BY <1>6, QuietKeeps DEF AnswerInv
<1> QED BY <1>11, <1>12, <1>13, <1>14, <1>15 DEF AnswerInv, AnswersAt

\* A message reads the row as it is.
LEMMA MessageReceived ==
  ASSUME TypeOK, AnswerInv, NEW m \in Message, NEW i \in Instance, NEW r \in Room, Receive(m, i, r)
  PROVE  AnswerInv'
<1>1. /\ There(r) /\ msg[m] = New /\ UNCHANGED <<room, line, history>>
  BY DEF Receive, There, Status
<1>2. /\ msg'[m].pc = "marking" /\ msg'[m].room = r /\ msg'[m].seq = room[r].seq /\ msg'[m].line = None
      /\ \A n \in Message : n # m => msg'[n] = msg[n]
  BY DEF Receive, TypeOK
<1>3. ASSUME NEW s \in Room PROVE ~Reading(m, s) /\ (s # r => ~Reading(m, s)')
  BY <1>1, <1>2 DEF Reading
<1>4. \A s \in Room : s # r => Quiet(s)
  BY <1>1, <1>2, <1>3, OtherRoomQuiet
<1>5. \A n \in Message : /\ n # m => /\ msg'[n] = msg[n] /\ (Reading(n, r)' <=> Reading(n, r))
                                     /\ (Open(n, r)' <=> Open(n, r))
                         /\ (Sending(n, r)' <=> Sending(n, r)) /\ (Sending(n, r) => n # m)
  BY <1>2, <1>3 DEF Reading, At, Sending, Open
<1>6. \A l \in LineId : Covered(r, l)' <=> Covered(r, l)
  BY <1>1, <1>5 DEF Covered
<1>7. Scripted(r)' = Scripted(r) /\ Scripted(r) \subseteq LineId
  BY <1>1 DEF Scripted
<1>8. Unused(r)'
  BY <1>1 DEF Unused, There, Status
<1>9. LostAt(r)'
  <2> SUFFICES ASSUME ~history[r].overtaken
               PROVE  /\ \A l \in Scripted(r) : line[l] \in 1..room[r].seq => Covered(r, l)'
                      /\ \A n \in Message : Reading(n, r)' => \A l \in Scripted(r) :
                           /\ line[l] \in 1..msg'[n].seq => Covered(r, l)'
                           /\ At(n, "progress")' /\ line[l] = msg'[n].seq + 1 => msg'[n].line = l
    BY <1>1, <1>7 DEF LostAt
  <2>1. /\ \A l \in Scripted(r) : line[l] \in 1..room[r].seq => Covered(r, l)
        /\ \A n \in Message : Reading(n, r) => \A l \in Scripted(r) :
             /\ line[l] \in 1..msg[n].seq => Covered(r, l)
             /\ At(n, "progress") /\ line[l] = msg[n].seq + 1 => msg[n].line = l
    BY <1>1 DEF AnswerInv, AnswersAt, LostAt
  <2>2. ASSUME NEW n \in Message, Reading(n, r)', NEW l \in Scripted(r)
        PROVE  /\ line[l] \in 1..msg'[n].seq => Covered(r, l)'
               /\ At(n, "progress")' /\ line[l] = msg'[n].seq + 1 => msg'[n].line = l
    <3>1. CASE n # m
      BY <1>5, <1>6, <1>7, <2>1, <2>2, <3>1 DEF At
    <3>2. CASE n = m
      BY <1>2, <1>6, <1>7, <2>1, <3>2 DEF At
    <3> QED BY <3>1, <3>2
  <2> QED BY <1>6, <1>7, <2>1, <2>2
<1>10. RepeatAt(r)'
  <2>1. ~history'[r].repeated
    BY <1>1 DEF AnswerInv, AnswersAt, RepeatAt
  <2> SUFFICES ASSUME Plain(r)
               PROVE  (OpenAreCurrent(r) /\ ChosenIsNext(r) /\ CoveredIsPast(r) /\ SentIsNew(r) /\ SentOnce(r))'
    BY <1>1, <2>1 DEF RepeatAt, Plain
  <2>2. OpenAreCurrent(r) /\ ChosenIsNext(r) /\ CoveredIsPast(r) /\ SentIsNew(r) /\ SentOnce(r)
    BY DEF AnswerInv, AnswersAt, RepeatAt
  <2>3. OpenAreCurrent(r)'
    BY <1>1, <1>2, <1>5, <2>2 DEF OpenAreCurrent
  <2>4. ChosenIsNext(r)'
    BY <1>1, <1>2, <1>5, <1>7, <2>2 DEF ChosenIsNext, At
  <2>5. CoveredIsPast(r)'
    BY <1>1, <1>6, <1>7, <2>2 DEF CoveredIsPast, Live
  <2>6. SentIsNew(r)' /\ SentOnce(r)'
    BY <1>1, <1>5, <1>7, <2>2 DEF SentIsNew, SentOnce
  <2> QED BY <2>3, <2>4, <2>5, <2>6
<1>11. LineChosenLate'
  BY <1>2 DEF At, AnswerInv, LineChosenLate
<1>12. \A s \in Room : s # r => AnswersAt(s)'
  BY <1>4, QuietKeeps DEF AnswerInv
<1> QED BY <1>8, <1>9, <1>10, <1>11, <1>12 DEF AnswerInv, AnswersAt

LEMMA MessageAnswers ==
  ASSUME TypeOK, AnswerInv, NEW m \in Message, MessageStep(m) PROVE AnswerInv'
<1>1. ASSUME LineChosenLate', \A r \in Room : Quiet(r) PROVE AnswerInv'
  BY <1>1, QuietKeeps DEF AnswerInv
<1>2. CASE LoadStamp(m)
  <2>1. msg[m] \in Reply
    BY <1>2, Replies DEF LoadStamp, ReplyPc
  <2> QED BY <1>1, <1>2, <2>1, EarlyStep DEF LoadStamp, AnswerInv, At
<1>3. CASE StoreStamp(m)
  <2>1. msg[m] \in Reply
    BY <1>3, Replies DEF StoreStamp, ReplyPc
  <2> QED BY <1>1, <1>3, <2>1, EarlyStep DEF StoreStamp, AnswerInv, At
<1>4. CASE AIReply(m)
  <2>1. msg[m] \in Reply
    BY <1>4, Replies DEF AIReply, ReplyPc
  <2> QED BY <1>1, <1>4, <2>1, EarlyStep DEF AIReply, AnswerInv, At
<1>5. CASE NoLineLeft(m)
  <2>1. msg[m] \in Reply
    BY <1>5, Replies DEF NoLineLeft, ReplyPc
  <2> QED BY <1>1, <1>5, <2>1, EarlyStep DEF NoLineLeft, AnswerInv, At
<1> QED BY <1>2, <1>3, <1>4, <1>5, ProgressWritten, ProgressNotWritten, LineSent, LineChosen, MessageReceived
    DEF MessageStep

\* What a request for rooms does to a room: nothing to its answers, or it
\* restarts or creates the room.
LEMMA RequestAnswers ==
  ASSUME TypeOK, AnswerInv, NEW q \in Request, RoomRequest(q) PROVE AnswerInv'
<1>1. UNCHANGED <<line, msg>>
  BY RoomRequestTypes
<1>2. LineChosenLate'
  BY <1>1 DEF AnswerInv, LineChosenLate, At
<1>3. ASSUME NEW r \in Room, There(r)' => There(r),
             room'[r].status = "absent" => room[r].status = "absent",
             room'[r].seq = room[r].seq, history'[r] = history[r]
      PROVE  AnswersAt(r)'
  <2>1. Quiet(r)
    BY <1>1, <1>3 DEF Quiet, Reading, At, Sending
  <2> QED BY <2>1, QuietKeeps DEF AnswerInv
<1>4. ASSUME UNCHANGED <<room, history>> PROVE \A r \in Room : AnswersAt(r)'
  BY <1>3, <1>4 DEF There
<1>5. ASSUME NEW r \in Room, There(r), NEW row \in RoomRow, row.seq = room[r].seq, row.status # "absent",
             room' = room \/ room' = [room EXCEPT ![r] = row], UNCHANGED history
      PROVE  \A s \in Room : AnswersAt(s)'
  <2> SUFFICES ASSUME NEW s \in Room PROVE AnswersAt(s)'
    OBVIOUS
  <2>1. CASE s = r
    BY <1>3, <1>5, <2>1 DEF TypeOK, There
  <2>2. CASE s # r
    BY <1>3, <1>5, <2>2 DEF TypeOK, There
  <2> QED BY <2>1, <2>2
<1>6. CASE UpdateRoomStatus(q)
  <2>1. req[q].room \in Room /\ req[q].status \in Status
    BY <1>6, Requests DEF UpdateRoomStatus
  <2>2. room[req[q].room] \in RoomRow
    BY <2>1 DEF TypeOK
  <2>3. Written(q) \in RoomRow /\ Written(q).seq = room[req[q].room].seq /\ Written(q).status # "absent"
    BY <2>1, <2>2 DEF Written, RoomRow, Status
  <2>4. room' = room \/ (There(req[q].room) /\ room' = [room EXCEPT ![req[q].room] = Written(q)])
    BY <1>6 DEF UpdateRoomStatus, UpdateRow
  <2>5. UNCHANGED history
    BY <1>6 DEF UpdateRoomStatus
  <2>6. CASE room' = room
    BY <1>2, <1>4, <2>5, <2>6 DEF AnswerInv
  <2>7. CASE There(req[q].room) /\ room' = [room EXCEPT ![req[q].room] = Written(q)]
    BY <1>2, <1>5, <2>1, <2>3, <2>5, <2>7 DEF AnswerInv
  <2> QED BY <2>4, <2>6, <2>7
<1>7. CASE UpdateWarmingRoom(q)
  <2>1. req[q].room \in Room /\ req[q].number \in Number
    BY <1>7, Requests DEF UpdateWarmingRoom
  <2> DEFINE row == [room[req[q].room] EXCEPT !.number = req[q].number]
  <2>2. room[req[q].room] \in RoomRow
    BY <2>1 DEF TypeOK
  <2>3. row \in RoomRow /\ row.seq = room[req[q].room].seq /\ row.status = room[req[q].room].status
    BY <2>1, <2>2 DEF RoomRow
  <2>4. UpdateRow(q, row, Done)
    BY <1>7 DEF UpdateWarmingRoom
  <2> HIDE DEF row
  <2>5. room' = room \/ (There(req[q].room) /\ room' = [room EXCEPT ![req[q].room] = row])
    BY <2>4 DEF UpdateRow
  <2>6. UNCHANGED history
    BY <1>7 DEF UpdateWarmingRoom
  <2>7. CASE room' = room
    BY <1>2, <1>4, <2>6, <2>7 DEF AnswerInv
  <2>8. CASE There(req[q].room) /\ room' = [room EXCEPT ![req[q].room] = row]
    <3>1. row.status # "absent"
      BY <2>3, <2>8 DEF There, Status
    <3> QED BY <1>2, <1>5, <2>1, <2>3, <2>6, <2>8, <3>1 DEF AnswerInv
  <2> QED BY <2>5, <2>7, <2>8
<1>8. ASSUME NEW r \in Room, RestartRoom(q, r) PROVE AnswerInv'
  <2> DEFINE row == [room[r] EXCEPT !.status = "ACTIVE", !.seq = 0]
             o == \E m \in Message : Reading(m, r)
             h == [NewHistory EXCEPT !.overtaken = o]
  <2>1. row.status = "ACTIVE" /\ row.seq = 0
    BY DEF TypeOK, RoomRow
  <2>2. h.tried = {} /\ h.repeated = FALSE /\ (h.overtaken <=> o)
    <3> HIDE DEF o
    <3> QED BY DEF NewHistory
  <2>3. \/ UNCHANGED <<room, history>>
        \/ room' = [room EXCEPT ![r] = row] /\ history' = [history EXCEPT ![r] = h]
    BY <1>8 DEF RestartRoom
  <2> HIDE DEF row, h
  <2>4. CASE UNCHANGED <<room, history>>
    BY <1>2, <1>4, <2>4 DEF AnswerInv
  <2>5. CASE room' = [room EXCEPT ![r] = row] /\ history' = [history EXCEPT ![r] = h]
    <3>1. /\ room'[r] = row /\ history'[r] = h
          /\ \A s \in Room : s # r => room'[s] = room[s] /\ history'[s] = history[s]
      BY <2>5 DEF TypeOK
    <3>2. AnswersAt(r)'
      <4>1. h.overtaken \/ \A m \in Message : ~Reading(m, r)'
        BY <1>1, <2>2 DEF Reading
      <4> QED BY <2>1, <2>2, <3>1, <4>1, FreshRoom
    <3>3. \A s \in Room : s # r => AnswersAt(s)'
      BY <1>3, <3>1 DEF There
    <3> QED BY <1>2, <3>2, <3>3 DEF AnswerInv
  <2> QED BY <2>3, <2>4, <2>5
<1>9. ASSUME NEW r \in Room, DeleteWarmingRoom(q, r) PROVE AnswerInv'
  <2> DEFINE row == [room[r] EXCEPT !.status = "DELETED"]
  <2>1. room[r] \in RoomRow /\ There(r)
    BY <1>9 DEF TypeOK, DeleteWarmingRoom, Take
  <2>2. row \in RoomRow /\ row.seq = room[r].seq /\ row.status # "absent"
    BY <2>1 DEF RoomRow
  <2>3. room' = [room EXCEPT ![r] = row] /\ UNCHANGED history
    BY <1>9 DEF DeleteWarmingRoom
  <2> HIDE DEF row
  <2> QED BY <1>2, <1>5, <2>1, <2>2, <2>3 DEF AnswerInv
<1>10. ASSUME NEW r \in Room, CreateWarmingRoom(q, r) PROVE AnswerInv'
  <2>1. /\ room'[r].status = "STOPPED" /\ room'[r].seq = 0 /\ UNCHANGED history
        /\ \A s \in Room : s # r => room'[s] = room[s]
    BY <1>10 DEF CreateWarmingRoom, NewRoom, TypeOK
  <2>2. history[r] = NewHistory /\ \A m \in Message : ~Reading(m, r)
    BY <1>10 DEF CreateWarmingRoom, Absent, AnswerInv, AnswersAt, Unused
  <2>3. NewHistory.tried = {} /\ ~NewHistory.repeated
    BY DEF NewHistory
  <2>4. \A m \in Message : ~Reading(m, r)'
    BY <1>1, <2>2 DEF Reading
  <2>5. AnswersAt(r)'
    BY <2>1, <2>2, <2>3, <2>4, FreshRoom
  <2>6. \A s \in Room : s # r => AnswersAt(s)'
    BY <1>3, <2>1 DEF There
  <2> QED BY <1>2, <2>5, <2>6 DEF AnswerInv
<1>11. CASE CheckActivationWhitelist(q) \/ CleanupReplyTime(q)
            \/ (\E r \in Room : \E s \in Status : AskStatus(q, r, s))
            \/ (\E r \in Room : \E n \in Number : AskUpdate(q, r, n))
            \/ \E n \in Number : AskCreate(q, n)
  <2>1. UNCHANGED <<room, history>>
    BY <1>11 DEF CheckActivationWhitelist, CleanupReplyTime, AskStatus, AskUpdate, AskCreate
  <2> QED BY <1>2, <1>4, <2>1 DEF AnswerInv
<1> QED BY <1>6, <1>7, <1>8, <1>9, <1>10, <1>11 DEF RoomRequest

\* Lines that are moved are no longer the script's own.
LEMMA LinesMoved ==
  ASSUME TypeOK, AnswerInv, NEW L \in SUBSET LineId, Moved(L), UNCHANGED <<room, msg>> PROVE AnswerInv'
<1>1. LineChosenLate'
  BY DEF AnswerInv, LineChosenLate, At
<1>2. ASSUME NEW r \in Room PROVE AnswersAt(r)'
  <2>1. \A m \in Message : /\ (Reading(m, r)' <=> Reading(m, r)) /\ (Open(m, r)' <=> Open(m, r))
                           /\ (Sending(m, r)' <=> Sending(m, r))
                           /\ (At(m, "progress")' <=> At(m, "progress"))
    BY DEF Reading, Open, Sending, At
  <2>2. CASE history[r].overtaken
    <3>1. history'[r] = history[r]
      BY <2>2 DEF Moved
    <3> QED BY <2>1, <2>2, <3>1 DEF AnswerInv, AnswersAt, Unused, LostAt, RepeatAt, Plain
  <2>3. CASE ~Watched(r)
    <3>1. history'[r] = history[r] /\ ~There(r) /\ \A m \in Message : ~Reading(m, r)
      BY <2>3 DEF Moved, Watched
    <3>2. Unused(r)' /\ LostAt(r)'
      BY <2>1, <3>1 DEF AnswerInv, AnswersAt, Unused, LostAt, There
    <3>3. RepeatAt(r)'
      BY <2>1, <3>1 DEF AnswerInv, AnswersAt, RepeatAt, OpenAreCurrent, ChosenIsNext, CoveredIsPast, SentIsNew, SentOnce,
         Live, There, Open, Sending
    <3> QED BY <3>2, <3>3 DEF AnswersAt
  <2>4. CASE Watched(r) /\ ~history[r].overtaken
    <3>1. /\ history'[r].moved = history[r].moved \union L /\ history'[r].tried = history[r].tried
          /\ history'[r].excused = history[r].excused /\ history'[r].repeated = history[r].repeated
          /\ history'[r].overtaken = FALSE
      BY <2>4 DEF Moved
    <3>2. Scripted(r)' \subseteq Scripted(r) /\ \A l \in Scripted(r)' : l \in LineId /\ line'[l] = line[l]
      BY <3>1 DEF Scripted, Moved
    <3>3. \A l \in LineId : Covered(r, l)' <=> Covered(r, l)
      BY <2>1, <3>1 DEF Covered
    <3>4. Unused(r)'
      <4>1. room[r].status # "absent"
        <5>1. There(r) => room[r].status # "absent"
          BY DEF There, Status
        <5> QED BY <2>4, <5>1 DEF Watched, AnswerInv, AnswersAt, Unused
      <4> QED BY <4>1 DEF Unused
    <3>5. LostAt(r)'
      <4> SUFFICES ASSUME There(r)
                   PROVE  /\ \A l \in Scripted(r)' : line'[l] \in 1..room[r].seq => Covered(r, l)'
                          /\ \A m \in Message : Reading(m, r)' => \A l \in Scripted(r)' :
                               /\ line'[l] \in 1..msg[m].seq => Covered(r, l)'
                               /\ At(m, "progress")' /\ line'[l] = msg[m].seq + 1 => msg[m].line = l
        BY DEF LostAt, There
      <4>1. /\ \A l \in Scripted(r) : line[l] \in 1..room[r].seq => Covered(r, l)
            /\ \A m \in Message : Reading(m, r) => \A l \in Scripted(r) :
                 /\ line[l] \in 1..msg[m].seq => Covered(r, l)
                 /\ At(m, "progress") /\ line[l] = msg[m].seq + 1 => msg[m].line = l
        BY <2>4 DEF AnswerInv, AnswersAt, LostAt
      <4> QED BY <2>1, <3>2, <3>3, <4>1
    <3>6. RepeatAt(r)'
      <4>1. ~history'[r].repeated
        BY <3>1 DEF AnswerInv, AnswersAt, RepeatAt
      <4> SUFFICES ASSUME Plain(r)
                   PROVE  (OpenAreCurrent(r) /\ ChosenIsNext(r) /\ CoveredIsPast(r) /\ SentIsNew(r) /\ SentOnce(r))'
        BY <2>4, <3>1, <4>1 DEF RepeatAt, Plain
      <4>2. OpenAreCurrent(r) /\ ChosenIsNext(r) /\ CoveredIsPast(r) /\ SentIsNew(r) /\ SentOnce(r)
        BY DEF AnswerInv, AnswersAt, RepeatAt
      <4>3. OpenAreCurrent(r)'
        BY <2>1, <4>2 DEF OpenAreCurrent
      <4>4. ChosenIsNext(r)'
        BY <2>1, <3>2, <4>2 DEF ChosenIsNext
      <4>5. CoveredIsPast(r)'
        BY <2>1, <3>2, <3>3, <4>2 DEF CoveredIsPast, Live, There
      <4>6. SentIsNew(r)' /\ SentOnce(r)'
        BY <2>1, <3>1, <3>2, <4>2 DEF SentIsNew, SentOnce
      <4> QED BY <4>3, <4>4, <4>5, <4>6
    <3> QED BY <3>4, <3>5, <3>6 DEF AnswersAt
  <2> QED BY <2>2, <2>3, <2>4
<1> QED BY <1>1, <1>2 DEF AnswerInv

\* A restart counts the lines that were about to be sent as tried.
LEMMA RestartAnswers == ASSUME TypeOK, AnswerInv, Restart PROVE AnswerInv'
<1>1. UNCHANGED <<room, line>> /\ \A m \in Message : msg'[m] \in {New, Done}
  BY RestartTypes DEF Restart
<1>2. LineChosenLate'
  BY <1>1 DEF LineChosenLate, At, New, Done
<1>3. \A m \in Message, r \in Room : ~Reading(m, r)'
  BY <1>1 DEF Reading
<1>4. ASSUME NEW r \in Room PROVE AnswersAt(r)'
  <2>1. /\ history'[r].moved = history[r].moved /\ history'[r].excused = history[r].excused
        /\ history'[r].repeated = history[r].repeated /\ history'[r].overtaken = history[r].overtaken
        /\ ~history[r].overtaken => \A l \in LineId : l \in history'[r].tried <=> Covered(r, l)
    BY RestartTypes DEF Covered, Sending
  <2>2. Unused(r)'
    <3> SUFFICES ASSUME room[r].status = "absent" PROVE history'[r] = NewHistory
      BY <1>1, <1>3 DEF Unused
    <3>1. history[r] = NewHistory /\ \A m \in Message : ~Reading(m, r)
      BY DEF AnswerInv, AnswersAt, Unused
    <3>2. ~history[r].overtaken /\ history[r].tried = {}
      BY <3>1 DEF NewHistory
    <3>3. \A l \in LineId : ~Covered(r, l)
      BY <3>1, <3>2 DEF Covered, Sending
    <3>4. history'[r] \in History
      BY RestartTypes DEF TypeOK
    <3>5. history'[r].tried = {}
      BY <2>1, <3>2, <3>3, <3>4 DEF History
    <3>6. history'[r].moved = {} /\ history'[r].excused = FALSE /\ history'[r].repeated = FALSE /\ history'[r].overtaken = FALSE
      BY <2>1, <3>1 DEF NewHistory
    <3> QED BY <3>4, <3>5, <3>6 DEF History, NewHistory
  <2>3. \A l \in LineId : ~history[r].overtaken => (Covered(r, l)' <=> Covered(r, l))
    BY <1>3, <2>1 DEF Covered, Sending
  <2>4. LostAt(r)'
    BY <1>1, <1>3, <2>1, <2>3 DEF LostAt, There, Scripted, AnswerInv, AnswersAt
  <2>5. RepeatAt(r)'
    <3>1. ~history'[r].repeated
      BY <2>1 DEF AnswerInv, AnswersAt, RepeatAt
    <3>2. CoveredIsPast(r) /\ Plain(r) => CoveredIsPast(r)'
      BY <1>1, <1>3, <2>1, <2>3 DEF CoveredIsPast, Plain, Scripted, Live, There, Open
    <3> QED BY <1>3, <2>1, <3>1, <3>2
        DEF AnswerInv, AnswersAt, RepeatAt, Plain, OpenAreCurrent, ChosenIsNext, SentIsNew, SentOnce, Open, Sending
  <2> QED BY <2>2, <2>4, <2>5 DEF AnswersAt
<1> QED BY <1>2, <1>4 DEF AnswerInv

LEMMA NextAnswers == ASSUME TypeOK, AnswerInv, [Next]_vars PROVE AnswerInv'
<1>1. ASSUME UNCHANGED <<room, line, msg, history>> PROVE AnswerInv'
  <2>1. LineChosenLate'
    BY <1>1 DEF AnswerInv, LineChosenLate, At
  <2>2. \A r \in Room : Quiet(r)
    BY <1>1 DEF Quiet, There, Reading, At, Sending
  <2> QED BY <2>1, <2>2, QuietKeeps DEF AnswerInv
<1>2. CASE UNCHANGED vars
  BY <1>1, <1>2 DEF vars
<1>3. ASSUME NEW q \in Request, LineRequest(q) PROVE AnswerInv'
  BY <1>1, <1>3, LineRequestMoves, LinesMoved
<1>4. ASSUME NEW r \in Room, Elapse(r) PROVE AnswerInv'
  BY <1>1, <1>4 DEF Elapse
<1> QED BY <1>2, <1>3, <1>4, MessageAnswers, RequestAnswers, RestartAnswers DEF Next

\* The progress of a room between a human and a bot never passes a line of its
\* script that was not tried, or is about to be, however old the row was that
\* a reply was prepared from.
THEOREM NoLineLostHolds == Spec => []NoLineLost
<1>1. Init => TypeOK /\ AnswerInv
  BY InitTypes, InitAnswers
<1>2. TypeOK /\ AnswerInv /\ [Next]_vars => (TypeOK /\ AnswerInv)'
  BY NextTypes, NextAnswers
<1>3. AnswerInv => NoLineLost
  BY AnswersImply
<1> QED BY <1>1, <1>2, <1>3, PTL DEF Spec

\* Such a room answers with a line a second time only if the script had a gap
\* or was edited, a write failed, or the readings of two replies overlapped.
THEOREM RepeatsExplainedHolds == Spec => []RepeatsExplained
<1>1. Init => TypeOK /\ AnswerInv
  BY InitTypes, InitAnswers
<1>2. TypeOK /\ AnswerInv /\ [Next]_vars => (TypeOK /\ AnswerInv)'
  BY NextTypes, NextAnswers
<1>3. AnswerInv => RepeatsExplained
  BY AnswersImply
<1> QED BY <1>1, <1>2, <1>3, PTL DEF Spec
=============================================================================
