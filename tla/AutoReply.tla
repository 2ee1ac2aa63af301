------------------------------- MODULE AutoReply -------------------------------
(***************************************************************************)
(* Rooms between a human and a bot (internal/service/warming_auto_reply.go)*)
(* and what their replies depend on: the room's row, its whitelisted       *)
(* number, and the lines of its script, which users edit meanwhile         *)
(* (internal/service/warming, internal/model/warming).                     *)
(*                                                                         *)
(* A client hands its messages over one at a time; two instances that      *)
(* hear the same human do so at the same time.  The reply is prepared by a *)
(* goroutine, after a delay, from the row as it was when the message came. *)
(* idx_unique_active_human_room is taken to have been created.             *)
(***************************************************************************)
EXTENDS Naturals, FiniteSets

CONSTANTS
  Room, Instance, LineId,
  Number, Human,  \* numbers a room may be for; the one that sends messages
  None,
  Message,        \* bound: messages of the human
  Request,        \* bound: requests of the users
  MaxInputs,      \* bound: messages and requests together
  MaxSeq,         \* bound: sequence_order of a line
  MaxFaults       \* bound: failed writes and restarts

ASSUME AutoReplyAssumption ==
  /\ Human \in Number /\ None \notin LineId
  /\ IsFiniteSet(LineId) /\ IsFiniteSet(Message) /\ IsFiniteSet(Request) /\ MaxInputs \in Nat
  /\ MaxSeq \in Nat /\ MaxFaults \in Nat

VARIABLES
  room,     \* warming_rooms: status, whitelisted_number, current_sequence
  line,     \* warming_script_lines: the sequence_order of each line, or 0
  stamp,    \* lastReplyTime, by age
  msg,      \* the messages, and the replies they led to
  req,      \* the requests
  faults,
  passed,   \* history: messages of each instance let through in a cooldown
  late,     \* history: rooms that were stamped when they had left ACTIVE
  history   \* what each room has done since it was last restarted

vars == <<room, line, stamp, msg, req, faults, passed, late, history>>
cooldown == <<stamp, passed, late>>

Status == {"STOPPED", "ACTIVE", "PAUSED", "FINISHED"}
There(r) == room[r].status \in Status

Absent    == [status |-> "absent", number |-> Human, seq |-> 0]
NewRoom(n) == [status |-> "STOPPED", number |-> n, seq |-> 0]
NewHistory == [tried |-> {}, moved |-> {}, excused |-> FALSE, repeated |-> FALSE, overtaken |-> FALSE]

\* A reply of a time before the restart may have confused the room for good.
Note(r, new) == history' = IF history[r].overtaken THEN history ELSE [history EXCEPT ![r] = new]

New  == [pc |-> "new"]
Done == [pc |-> "done"]

\* The message's handler, or its goroutine, has read the room and is not done.
Reading(m, r) == msg[m] \notin {New, Done} /\ msg[m].room = r
Handled(m, i) == msg[m] \notin {New, Done} /\ msg[m].pc \in {"marking", "stamp"} /\ msg[m].at = i

At(m, pc)   == msg[m].pc = pc
GoTo(m, pc) == msg' = [msg EXCEPT ![m].pc = pc]
Finish(m)   == msg' = [msg EXCEPT ![m] = Done]
Input       == Cardinality({m \in Message : msg[m] # New} \union {q \in Request : req[q] # New}) < MaxInputs
Fault       == faults < MaxFaults /\ faults' = faults + 1

\* Rooms that were created one after the other, and at most one activated.
Init ==
  /\ room \in [Room -> {Absent, NewRoom(Human), [NewRoom(Human) EXCEPT !.status = "ACTIVE"]}]
  /\ \A r, s \in Room : room[r].status = "ACTIVE" /\ room[s].status = "ACTIVE" => r = s
  /\ line \in [LineId -> 0..MaxSeq]
  /\ \A k, l \in LineId : line[k] = line[l] => k = l \/ line[k] = 0
  /\ stamp = [r \in Room |-> "none"]
  /\ msg = [m \in Message |-> New]
  /\ req = [q \in Request |-> New]
  /\ faults = 0
  /\ passed = [r \in Room |-> [i \in Instance |-> 0]]
  /\ late = {}
  /\ history = [r \in Room |-> NewHistory]

-----------------------------------------------------------------------------
(* HandleIncomingMessage.                                                  *)

\* GetActiveHumanRoomBySender: any active room for the number will do,
\* whichever instance the message came to.
Receive(m, i, r) ==
  /\ msg[m] = New /\ Input
  /\ \A n \in Message : ~Handled(n, i)
  /\ room[r].status = "ACTIVE" /\ room[r].number = Human
  /\ msg' = [msg EXCEPT ![m] = [pc |-> "marking", at |-> i, room |-> r,
                                seq |-> room[r].seq, line |-> None]]
  /\ UNCHANGED <<room, line, req, faults, cooldown, history>>

\* markIncomingRead has slept.  inReplyCooldown loads the time of the last reply...
LoadStamp(m) ==
  /\ At(m, "marking")
  /\ IF stamp[msg[m].room] = "fresh" THEN Finish(m) ELSE GoTo(m, "stamp")
  /\ UNCHANGED <<room, line, req, faults, cooldown, history>>

Pass(m) == passed' = [passed EXCEPT ![msg[m].room][msg[m].at] = @ + 1]

\* Deviation: the room is stamped once the reply has been sent.
StoreNothing(m) ==
  /\ At(m, "stamp")
  /\ Pass(m)
  /\ GoTo(m, "delay")
  /\ UNCHANGED <<room, line, stamp, late, req, faults, history>>

\* ... and stores the new one.
StoreStamp(m) ==
  /\ At(m, "stamp")
  /\ stamp' = [stamp EXCEPT ![msg[m].room] = "fresh"]
  /\ late' = IF room[msg[m].room].status = "ACTIVE" THEN late ELSE late \union {msg[m].room}
  /\ Pass(m)
  /\ GoTo(m, "delay")
  /\ UNCHANGED <<room, line, req, faults, history>>

\* The cooldown is over.
Elapse(r) ==
  /\ stamp[r] = "fresh"
  /\ stamp' = [stamp EXCEPT ![r] = "old"]
  /\ passed' = [passed EXCEPT ![r] = [i \in Instance |-> 0]]
  /\ UNCHANGED <<room, line, msg, late, req, faults, history>>

-----------------------------------------------------------------------------
(* processAutoReply.                                                       *)

\* getAIReply: the reply comes from no line.  It may be empty, or fail.
AIReply(m) ==
  /\ At(m, "delay")
  /\ GoTo(m, "send") \/ Finish(m)
  /\ UNCHANGED <<room, line, req, faults, cooldown, history>>

\* Deviation: sequence_order >= the current one.
FollowsOrSame(l, s) ==
  /\ line[l] # 0 /\ line[l] >= s
  /\ \A k \in LineId : line[k] # 0 /\ line[k] >= s => line[l] <= line[k]

\* GetNextAvailableScriptLine.
Follows(l, s) == line[l] > s /\ \A k \in LineId : line[k] > s => line[l] <= line[k]

\* getScriptReply, in script mode or when the AI has failed.
SelectLine(m, l) ==
  /\ At(m, "delay") /\ Follows(l, msg[m].seq)
  /\ msg' = [msg EXCEPT ![m].pc = "progress", ![m].line = l]
  /\ LET r == msg[m].room IN Note(r, [history[r] EXCEPT !.excused = @ \/ line[l] > msg[m].seq + 1])
  /\ UNCHANGED <<room, line, req, faults, cooldown>>

\* The end of the script is an error, so FinishRoom is not reached.
NoLineLeft(m) ==
  /\ At(m, "delay") /\ \A l \in LineId : line[l] <= msg[m].seq
  /\ Finish(m)
  /\ UNCHANGED <<room, line, req, faults, cooldown, history>>

\* Writing to a room that was deleted affects no row.
Write(r, new) == room' = IF There(r) THEN [room EXCEPT ![r] = new] ELSE room

\* Deviation: the progress passes over a line.
NextSeqTwo(m) == msg[m].seq + 2

\* One more than the sequence that was read, whichever line is sent.
NextSeq(m) == msg[m].seq + 1

UpdateRoomProgress(m) ==
  /\ At(m, "progress")
  /\ LET r == msg[m].room IN
     /\ Write(r, [room[r] EXCEPT !.seq = NextSeq(m)])
     /\ Note(r, [history[r] EXCEPT !.excused =
                    @ \/ \E n \in Message \ {m} : Reading(n, r) /\ ~At(n, "send")])
  /\ GoTo(m, "send")
  /\ UNCHANGED <<line, req, faults, cooldown>>

\* The error is logged, and the reply sent all the same.
ProgressFails(m) ==
  /\ Fault
  /\ At(m, "progress")
  /\ LET r == msg[m].room IN Note(r, [history[r] EXCEPT !.excused = TRUE])
  /\ GoTo(m, "send")
  /\ UNCHANGED <<room, line, req, cooldown>>

\* sendReply: sent, failed, or not to be sent at all, the line is logged.
SendReply(m) ==
  /\ At(m, "send")
  /\ LET r == msg[m].room
         h == history[r]
         l == msg[m].line
     IN IF l = None THEN UNCHANGED history
        ELSE Note(r, [h EXCEPT !.tried = @ \union {l},
                               !.repeated = @ \/ (l \in h.tried \ h.moved /\ ~h.excused)])
  /\ Finish(m)
  /\ UNCHANGED <<room, line, req, faults, cooldown>>

-----------------------------------------------------------------------------
(* The requests for rooms.                                                 *)

Ask(q)         == req[q] = New /\ Input
Take(q, r)     == Ask(q) /\ There(r)
Req(q, pc)     == req[q].pc = pc
Step(q, r)     == req' = [req EXCEPT ![q] = r]

\* CheckDuplicateWhitelistedNumber.
Free(n, R) == \A r \in Room \ R : ~(room[r].status \in {"ACTIVE", "PAUSED"} /\ room[r].number = n)

\* idx_unique_active_human_room.
Unique(row, r) ==
  row.status = "ACTIVE" =>
    \A s \in Room \ {r} : ~(room[s].status = "ACTIVE" /\ room[s].number = row.number)

\* UpdateRoomStatusService.
AskStatus(q, r, status) ==
  /\ Take(q, r) /\ room[r].status # status
  /\ Step(q, [pc |-> IF status = "ACTIVE" THEN "check" ELSE "write", room |-> r, status |-> status])
  /\ UNCHANGED <<room, line, msg, faults, cooldown, history>>

CheckActivationWhitelist(q) ==
  /\ Req(q, "check")
  /\ LET r == req[q].room IN
     IF There(r) /\ Free(room[r].number, {r})
     THEN Step(q, [req[q] EXCEPT !.pc = "write"]) ELSE Step(q, Done)
  /\ UNCHANGED <<room, line, msg, faults, cooldown, history>>

UpdateRow(q, row, next) ==
  LET r == req[q].room IN
  IF There(r) /\ Unique(row, r)
  THEN room' = [room EXCEPT ![r] = row] /\ Step(q, next)
  ELSE UNCHANGED room /\ Step(q, Done)

Written(q) == [room[req[q].room] EXCEPT !.status = req[q].status]

\* Deviation: the time of the last reply stays.
UpdateStatusOnly(q) ==
  /\ Req(q, "write")
  /\ UpdateRow(q, Written(q), Done)
  /\ UNCHANGED <<line, msg, faults, cooldown, history>>

\* Leaving ACTIVE is followed by CleanupReplyTime.
UpdateRoomStatus(q) ==
  /\ Req(q, "write")
  /\ UpdateRow(q, Written(q), IF req[q].status = "ACTIVE" THEN Done ELSE [req[q] EXCEPT !.pc = "cleanup"])
  /\ UNCHANGED <<line, msg, faults, cooldown, history>>

\* A restart asks for nothing but the index.
RestartRoom(q, r) ==
  /\ Take(q, r)
  /\ LET row == [room[r] EXCEPT !.status = "ACTIVE", !.seq = 0] IN
     IF Unique(row, r)
     THEN /\ room' = [room EXCEPT ![r] = row]
          /\ history' = [history EXCEPT
               ![r] = [NewHistory EXCEPT !.overtaken = \E m \in Message : Reading(m, r)]]
          /\ Step(q, [pc |-> "cleanup", room |-> r, status |-> "ACTIVE"])
     ELSE Step(q, Done) /\ UNCHANGED <<room, history>>
  /\ UNCHANGED <<line, msg, faults, cooldown>>

DeleteWarmingRoom(q, r) ==
  /\ Take(q, r)
  /\ room' = [room EXCEPT ![r].status = "DELETED"]
  /\ Step(q, [pc |-> "cleanup", room |-> r, status |-> "STOPPED"])
  /\ UNCHANGED <<line, msg, faults, cooldown, history>>

CleanupReplyTime(q) ==
  /\ Req(q, "cleanup")
  /\ LET r == req[q].room IN
     /\ stamp' = [stamp EXCEPT ![r] = "none"]
     /\ passed' = [passed EXCEPT ![r] = [i \in Instance |-> 0]]
     /\ late' = late \ {r}
  /\ Step(q, Done)
  /\ UNCHANGED <<room, line, msg, faults, history>>

\* validateCreateRoomRequest; the number is checked, and then inserted.
AskCreate(q, n) ==
  /\ Ask(q) /\ Free(n, {})
  /\ Step(q, [pc |-> "insert", number |-> n])
  /\ UNCHANGED <<room, line, msg, faults, cooldown, history>>

CreateWarmingRoom(q, r) ==
  /\ Req(q, "insert") /\ room[r] = Absent
  /\ room' = [room EXCEPT ![r] = NewRoom(req[q].number)]
  /\ Step(q, Done)
  /\ UNCHANGED <<line, msg, faults, cooldown, history>>

\* validateUpdateRoomRequest; likewise.
AskUpdate(q, r, n) ==
  /\ Take(q, r) /\ Free(n, {r})
  /\ Step(q, [pc |-> "number", room |-> r, number |-> n])
  /\ UNCHANGED <<room, line, msg, faults, cooldown, history>>

UpdateWarmingRoom(q) ==
  /\ Req(q, "number")
  /\ UpdateRow(q, [room[req[q].room] EXCEPT !.number = req[q].number], Done)
  /\ UNCHANGED <<line, msg, faults, cooldown, history>>

-----------------------------------------------------------------------------
(* The requests for lines.  unique_script_sequence refuses a sequence that *)
(* is taken.                                                               *)

Taken(s) == \E l \in LineId : line[l] = s

\* A deleted room counts until its last reply has been given.
Watched(r) == There(r) \/ \E m \in Message : Reading(m, r)

Move(L, new) ==
  /\ line' = new
  /\ history' = [r \in Room |-> IF Watched(r) /\ ~history[r].overtaken
                               THEN [history[r] EXCEPT !.moved = @ \union L] ELSE history[r]]
  /\ UNCHANGED <<room, msg, faults, cooldown>>

CreateWarmingScriptLine(q, l, s) ==
  /\ Ask(q) /\ line[l] = 0 /\ ~Taken(s)
  /\ Step(q, Done)
  /\ Move({l}, [line EXCEPT ![l] = s])

UpdateWarmingScriptLine(q, l, s) ==
  /\ Ask(q) /\ line[l] # 0 /\ ~Taken(s)
  /\ Step(q, Done)
  /\ Move({l}, [line EXCEPT ![l] = s])

DeleteWarmingScriptLine(q, l) ==
  /\ Ask(q) /\ line[l] # 0
  /\ Step(q, Done)
  /\ Move({l}, [line EXCEPT ![l] = 0])

\* One transaction: the lines named leave their places before any takes its new
\* one, and a place taken by a line that is not named rolls all back.
ReorderScriptLines(q) ==
  /\ Ask(q)
  /\ \E L \in SUBSET {l \in LineId : line[l] # 0} : \E order \in [L -> 1..MaxSeq] :
       /\ L # {}
       /\ \A k, l \in L : order[k] = order[l] => k = l
       /\ \A l \in L, k \in LineId \ L : order[l] # line[k]
       /\ Move(L, [l \in LineId |-> IF l \in L THEN order[l] ELSE line[l]])
  /\ Step(q, Done)

\* GenerateWarmingScriptLinesService: nextSequenceStart...
NextSequenceStart(q, n) ==
  /\ Ask(q)
  /\ \E s \in 0..MaxSeq :
       /\ s = 0 \/ Taken(s)
       /\ \A t \in (s + 1)..MaxSeq : ~Taken(t)
       /\ Step(q, [pc |-> "generate", left |-> n, seq |-> s + 1])
  /\ UNCHANGED <<room, line, msg, faults, cooldown, history>>

Generated(q, l) ==
  /\ Step(q, IF req[q].left = 1 THEN Done
             ELSE [req[q] EXCEPT !.left = @ - 1, !.seq = @ + 1])
  /\ Move({l}, [line EXCEPT ![l] = req[q].seq])

\* ... and then line by line, from there on.
PersistGeneratedLine(q, l) ==
  /\ Req(q, "generate") /\ line[l] = 0 /\ req[q].seq <= MaxSeq
  /\ ~Taken(req[q].seq)
  /\ Generated(q, l)

\* A sequence that has been taken meanwhile ends it; the lines before remain.
GenerationFails(q) ==
  /\ Req(q, "generate") /\ Taken(req[q].seq)
  /\ Step(q, Done)
  /\ UNCHANGED <<room, line, msg, faults, cooldown, history>>

-----------------------------------------------------------------------------

\* The server starts again: replies, requests and stamps are gone, and with
\* them the lines that were about to be sent.
Restart ==
  /\ Fault
  /\ msg' = [m \in Message |-> IF msg[m] = New THEN New ELSE Done]
  /\ req' = [q \in Request |-> IF req[q] = New THEN New ELSE Done]
  /\ stamp' = [r \in Room |-> "none"]
  /\ passed' = [r \in Room |-> [i \in Instance |-> 0]]
  /\ history' = [r \in Room |-> IF history[r].overtaken THEN history[r] ELSE
       [history[r] EXCEPT
          !.tried = @ \union {l \in LineId : \E m \in Message :
                                 Reading(m, r) /\ At(m, "send") /\ msg[m].line = l}]]
  /\ late' = {}
  /\ UNCHANGED <<room, line>>

MessageStep(m) ==
  \/ LoadStamp(m) \/ StoreStamp(m) \/ AIReply(m) \/ NoLineLeft(m)
  \/ UpdateRoomProgress(m) \/ ProgressFails(m) \/ SendReply(m)
  \/ \E i \in Instance, r \in Room : Receive(m, i, r)
  \/ \E l \in LineId : SelectLine(m, l)

RoomRequest(q) ==
  \/ CheckActivationWhitelist(q) \/ UpdateRoomStatus(q) \/ CleanupReplyTime(q) \/ UpdateWarmingRoom(q)
  \/ \E r \in Room :
       \/ RestartRoom(q, r) \/ DeleteWarmingRoom(q, r) \/ CreateWarmingRoom(q, r)
       \/ \E s \in Status : AskStatus(q, r, s)
       \/ \E n \in Number : AskUpdate(q, r, n)
  \/ \E n \in Number : AskCreate(q, n)

LineRequest(q) ==
  \/ ReorderScriptLines(q) \/ GenerationFails(q)
  \/ \E n \in 1..Cardinality(LineId) : NextSequenceStart(q, n)
  \/ \E l \in LineId :
       \/ DeleteWarmingScriptLine(q, l) \/ PersistGeneratedLine(q, l)
       \/ \E s \in 1..MaxSeq : CreateWarmingScriptLine(q, l, s) \/ UpdateWarmingScriptLine(q, l, s)

Next ==
  \/ \E m \in Message : MessageStep(m)
  \/ \E q \in Request : RoomRequest(q) \/ LineRequest(q)
  \/ \E r \in Room : Elapse(r)
  \/ Restart

Spec == Init /\ [][Next]_vars

-----------------------------------------------------------------------------
(* Properties.                                                             *)

RoomRow == [status : Status \union {"absent", "DELETED"}, number : Number, seq : Nat]
Reply   == [pc : {"marking", "stamp", "delay", "progress", "send"}, at : Instance,
            room : Room, seq : Nat, line : LineId \union {None}]
Asked   == [pc : {"check", "write", "cleanup"}, room : Room, status : Status]
           \union [pc : {"insert"}, number : Number]
           \union [pc : {"number"}, room : Room, number : Number]
           \union [pc : {"generate"}, left : Nat \ {0}, seq : Nat]
History == [tried : SUBSET LineId, moved : SUBSET LineId, excused : BOOLEAN, repeated : BOOLEAN,
            overtaken : BOOLEAN]

\* Types; the lines of a script have different sequences.
TypeOK ==
  /\ room \in [Room -> RoomRow]
  /\ line \in [LineId -> 0..MaxSeq]
  /\ \A k, l \in LineId : line[k] = line[l] => k = l \/ line[k] = 0
  /\ stamp \in [Room -> {"none", "fresh", "old"}]
  /\ msg \in [Message -> {New, Done} \union Reply]
  /\ req \in [Request -> {New, Done} \union Asked]
  /\ faults \in 0..MaxFaults
  /\ passed \in [Room -> [Instance -> Nat]]
  /\ late \subseteq Room
  /\ history \in [Room -> History]

\* inReplyCooldown: within a cooldown each instance gets at most one message
\* through to a reply.
OncePerCooldown == \A r \in Room, i \in Instance : passed[r][i] <= 1

\* getScriptReply: a room's progress never passes a line that was not tried,
\* or is about to be, however old the readings were that it was written from,
\* but for lines that were edited and for replies that a restart overtook.
NoLineLost ==
  \A r \in Room : There(r) /\ ~history[r].overtaken =>
    \A l \in LineId \ history[r].moved : line[l] \in 1..room[r].seq =>
      \/ l \in history[r].tried
      \/ \E m \in Message : Reading(m, r) /\ At(m, "send") /\ msg[m].line = l

\* A line is answered with twice only if the script had a gap before it, was
\* edited, the progress was not written, or the readings of two replies overlapped.
RepeatsExplained == \A r \in Room : ~history[r].repeated

\* A room that has left ACTIVE keeps no time of a last reply, so that it is not
\* throttled when it is activated again (UpdateRoomStatus, DeleteWarmingRoom),
\* but while the request is on its way, or when a message was being handled.
CooldownForgotten ==
  \A r \in Room : room[r].status # "ACTIVE" /\ stamp[r] # "none" =>
    r \in late \/ \E q \in Request : Req(q, "cleanup") /\ req[q].room = r

=============================================================================
