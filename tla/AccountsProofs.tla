----------------------------- MODULE AccountsProofs -----------------------------
(***************************************************************************)
(* Proofs about Accounts for every number of users, sessions and requests, *)
(* every threshold and every bound.                                        *)
(***************************************************************************)
EXTENDS Accounts, FiniteSetTheorems, TLAPS

Logins  == [pc : {"password", "increment", "reset", "session"}, u : Users, pw : Nat,
            late : BOOLEAN, blind : BOOLEAN]
Plain   == [pc : {"change", "delete", "destroy"}, u : Users]
Updates == [pc : {"write", "destroy"}, u : Users, role : Role, active : BOOLEAN, revoke : BOOLEAN]

\* What a request is, by where it stands.
LEMMA RequestKinds ==
  ASSUME TypeOK, NEW p \in Procs
  PROVE  /\ proc[p].pc \in {"password", "increment", "reset", "session"} => proc[p] \in Logins
         /\ proc[p].pc \in {"change", "delete"} => proc[p] \in Plain
         /\ proc[p].pc = "write" => proc[p] \in Updates
         /\ proc[p].pc = "destroy" => proc[p] \in Plain \union Updates
         /\ proc[p] # Idle <=> proc[p].pc # "idle"
         /\ proc[p].pc # "idle" => proc[p].u \in Users
<1>1. proc[p] \in {Idle} \union Logins \union Plain \union Updates
  BY DEF TypeOK, Request, Logins, Plain, Updates
<1>2. CASE proc[p] = Idle
  BY <1>2 DEF Idle
<1>3. CASE proc[p] \in Logins
  BY <1>3 DEF Idle, Logins
<1>4. CASE proc[p] \in Plain
  BY <1>4 DEF Idle, Plain
<1>5. CASE proc[p] \in Updates
  BY <1>5 DEF Idle, Updates
<1> QED BY <1>1, <1>2, <1>3, <1>4, <1>5

LEMMA SessionKinds ==
  ASSUME TypeOK, NEW s \in Sessions, session[s] # NoSession
  PROVE  session[s] \in Session /\ There(session[s].of)
BY DEF TypeOK

LEMMA TypeInit == ASSUME Init PROVE TypeOK
<1>1. \A r \in Role : NewUser(r) \in User
  BY DEF NewUser, User, Role
<1>2. Absent \in User
  BY DEF Absent, NewUser, User, Role
<1>3. user \in [Users -> User]
  BY <1>1, <1>2 DEF Init, Role
<1>4. session \in [Sessions -> {NoSession} \union Session] /\ \A s \in Sessions : session[s] = NoSession
  BY DEF Init
<1>5. proc \in [Procs -> Request] /\ extra \in [Users -> Nat]
  BY DEF Init, Request
<1>6. requests \in 0..MaxRequests /\ restarts \in 0..MaxRestarts
  BY AccountAssumption DEF Init
<1> QED
  BY <1>3, <1>4, <1>5, <1>6 DEF Init, TypeOK

\* Sessions and logins that are told they are late.
LEMMA SpareTypes ==
  ASSUME TypeOK, NEW u \in Users, Spare(u)
  PROVE  /\ session' \in [Sessions -> {NoSession} \union Session]
         /\ \A s \in Sessions : session'[s] # NoSession =>
              /\ session[s] # NoSession /\ session'[s].of = session[s].of
              /\ session[s].of = u => session'[s].late
              /\ session[s].of # u => session'[s] = session[s]
         /\ \A s \in Sessions : session'[s] \in {session[s], [session[s] EXCEPT !.late = TRUE]}
<1>1. ASSUME NEW s \in Sessions, session[s].of = u
      PROVE  /\ session[s] # NoSession
             /\ [session[s] EXCEPT !.late = TRUE] \in Session
             /\ [session[s] EXCEPT !.late = TRUE].of = session[s].of
             /\ [session[s] EXCEPT !.late = TRUE].late
  <2>1. session[s] # NoSession
    BY <1>1, AccountAssumption DEF NoSession
  <2> QED BY <2>1, SessionKinds DEF Session
<1> QED BY <1>1 DEF Spare, TypeOK

LEMMA OvertakeTypes ==
  ASSUME TypeOK, NEW p \in Procs, Overtake(p)
  PROVE  /\ proc' \in [Procs -> Request] /\ proc'[p] = Idle
         /\ \A q \in Procs \ {p} :
              \/ proc'[q] = proc[q] /\ ~(proc[q].pc \in {"reset", "session"} /\ proc[q].u = proc[p].u)
              \/ /\ proc[q].pc \in {"reset", "session"} /\ proc'[q].pc = proc[q].pc /\ proc'[q].late
<1>1. ASSUME NEW q \in Procs, proc[q].pc \in {"reset", "session"}
      PROVE  /\ [proc[q] EXCEPT !.late = TRUE] \in Request
             /\ [proc[q] EXCEPT !.late = TRUE].pc = proc[q].pc
             /\ [proc[q] EXCEPT !.late = TRUE].late
  <2>1. proc[q] \in Logins
    BY <1>1, RequestKinds
  <2>2. [proc[q] EXCEPT !.late = TRUE] \in Logins
    BY <2>1 DEF Logins
  <2> QED BY <2>1, <2>2 DEF Logins, Request
<1>2. Idle \in Request
  BY DEF Request
<1> QED BY <1>1, <1>2 DEF Overtake, TypeOK

\* A request that begins, goes on or is answered.
LEMMA BeginTypes ==
  ASSUME TypeOK, NEW p \in Procs, NEW r \in Request, Begin(p, r)
  PROVE  proc' \in [Procs -> Request] /\ requests' \in 0..MaxRequests
BY AccountAssumption DEF Begin, TypeOK

LEMMA AnswerTypes ==
  ASSUME TypeOK, NEW p \in Procs, Answer(p) PROVE proc' \in [Procs -> Request]
BY DEF Answer, TypeOK, Request

LEMMA DeleteTypes ==
  ASSUME TypeOK, NEW S, Delete(S)
  PROVE  /\ session' \in [Sessions -> {NoSession} \union Session]
         /\ \A s \in Sessions : session'[s] # NoSession => session'[s] = session[s] /\ s \notin S
BY DEF Delete, TypeOK

\* The rows of the users, with some of their columns written.
LEMMA UserTypes ==
  ASSUME TypeOK, NEW u \in Users, NEW r \in User, There(u) => r.is = "there",
         user' = [user EXCEPT ![u] = r]
  PROVE  /\ user' \in [Users -> User]
         /\ \A v \in Users : There(v) => There(v)'
BY DEF TypeOK, There

LEMMA IncrementTypes ==
  ASSUME TypeOK, NEW p \in Procs, IncrementFailedLogin(p) PROVE TypeOK'
<1> DEFINE u == proc[p].u
           r == [user[u] EXCEPT !.failed = user[u].failed + 1,
                                !.locked = user[u].locked \/ user[u].failed + 1 >= Threshold]
<1>1. u \in Users
  BY RequestKinds DEF IncrementFailedLogin, At
<1>2. user[u] \in User
  BY <1>1 DEF TypeOK
<1>3. r \in User
  <2>1. (user[u].locked \/ user[u].failed + 1 >= Threshold) \in BOOLEAN
    BY <1>2 DEF User
  <2>2. ASSUME NEW b \in BOOLEAN, NEW n \in Nat
        PROVE  [user[u] EXCEPT !.failed = n, !.locked = b] \in User
    BY <1>2 DEF User
  <2>3. user[u].failed + 1 \in Nat
    BY <1>2 DEF User
  <2> QED BY <2>1, <2>2, <2>3
<1>4. There(u) => r.is = "there"
  BY <1>2 DEF There, User
<1>5. extra' \in [Users -> Nat]
  <2>1. extra' = [extra EXCEPT ![u] = IF user[u].locked /\ ~proc[p].blind THEN @ + 1 ELSE @]
    BY DEF IncrementFailedLogin
  <2> HIDE DEF u
  <2> QED BY <1>1, <2>1 DEF TypeOK
<1>6. user' = [user EXCEPT ![u] = r] \/ user' = user
  BY DEF IncrementFailedLogin
<1> HIDE DEF r, u
<1>7. user' \in [Users -> User] /\ \A v \in Users : There(v) => There(v)'
  BY <1>1, <1>3, <1>4, <1>6, UserTypes DEF TypeOK, There
<1> QED
  BY <1>5, <1>7, AnswerTypes, SessionKinds DEF IncrementFailedLogin, TypeOK, bounds, lost, Session

LEMMA LoginTypes ==
  ASSUME TypeOK, NEW p \in Procs, LoginStep(p) PROVE TypeOK'
<1>1. ASSUME NEW u \in Users, BeginLogin(p, u) PROVE TypeOK'
  <2>1. PICK blind \in BOOLEAN : Begin(p, Login(u, blind))
    BY <1>1 DEF BeginLogin
  <2>2. Login(u, blind) \in Request
    BY DEF Login, Request
  <2> QED BY <1>1, <2>1, <2>2, BeginTypes DEF BeginLogin, TypeOK, history, lost, There
<1>2. CASE Authenticate(p)
  <2>1. proc[p] \in Logins /\ user[proc[p].u] \in User
    BY <1>2, RequestKinds DEF Authenticate, At, TypeOK, Logins
  <2>2. /\ [proc[p] EXCEPT !.pc = "increment"] \in Request
        /\ [proc[p] EXCEPT !.pc = "reset", !.pw = user[proc[p].u].pw] \in Request
    BY <2>1 DEF Logins, Request, User
  <2>3. proc' \in [Procs -> Request]
    BY <1>2, <2>2, AnswerTypes DEF Authenticate, GoTo, TypeOK
  <2> QED BY <1>2, <2>3 DEF Authenticate, TypeOK, bounds, history, lost, There
<1>3. CASE IncrementFailedLogin(p)
  BY <1>3, IncrementTypes
<1>4. CASE ResetFailedLogin(p)
  <2> DEFINE u == proc[p].u
             r == [user[u] EXCEPT !.failed = 0, !.locked = FALSE]
  <2>1. proc[p] \in Logins /\ u \in Users /\ user[u] \in User
    BY <1>4, RequestKinds DEF ResetFailedLogin, At, TypeOK
  <2>2. r \in User /\ (There(u) => r.is = "there")
    BY <2>1 DEF User, There
  <2>3. /\ user' = [user EXCEPT ![u] = r] \/ user' = user
        /\ extra' = [extra EXCEPT ![u] = 0] \/ extra' = extra
        /\ proc' = [proc EXCEPT ![p] = [proc[p] EXCEPT !.pc = "session"]]
    BY <1>4 DEF ResetFailedLogin, GoTo
  <2>4. [proc[p] EXCEPT !.pc = "session"] \in Request
    BY <2>1 DEF Logins, Request
  <2> HIDE DEF r, u
  <2>5. proc' \in [Procs -> Request] /\ extra' \in [Users -> Nat]
    BY <2>1, <2>3, <2>4 DEF TypeOK
  <2>6. user' \in [Users -> User] /\ \A v \in Users : There(v) => There(v)'
    BY <2>1, <2>2, <2>3, UserTypes DEF TypeOK, There
  <2> QED BY <1>4, <2>5, <2>6, SessionKinds DEF ResetFailedLogin, TypeOK, bounds, lost, Session
<1>5. ASSUME NEW s \in Sessions, CreateAuthSession(p, s) PROVE TypeOK'
  <2>1. proc[p] \in Logins /\ proc[p].u \in Users
    BY <1>5, RequestKinds DEF CreateAuthSession, At
  <2> DEFINE new == [of |-> proc[p].u, pw |-> proc[p].pw, late |-> proc[p].late, time |-> "valid"]
  <2>2. new \in Session /\ new.of = proc[p].u
    BY <2>1 DEF Logins, Session, Time
  <2>3. session' = IF There(proc[p].u) THEN [session EXCEPT ![s] = new] ELSE session
    BY <1>5 DEF CreateAuthSession
  <2> HIDE DEF new
  <2>4. session' \in [Sessions -> {NoSession} \union Session]
    BY <2>2, <2>3 DEF TypeOK
  <2>5. \A t \in Sessions : session'[t] # NoSession => There(session'[t].of)
    BY <2>2, <2>3 DEF TypeOK
  <2> QED BY <1>5, <2>4, <2>5, AnswerTypes DEF CreateAuthSession, TypeOK, bounds, history, lost, There
<1> QED BY <1>1, <1>2, <1>3, <1>4, <1>5 DEF LoginStep

LEMMA SessionTypes ==
  ASSUME TypeOK, NEW s \in Sessions, SessionStep(s) PROVE TypeOK'
<1>1. CASE DeleteAuthSession(s) \/ GetAuthSessionByToken(s)
  <2>1. touching' \subseteq Sessions
    BY <1>1 DEF DeleteAuthSession, GetAuthSessionByToken, TypeOK
  <2>2. UNCHANGED session \/ \E S : Delete(S)
    BY <1>1 DEF DeleteAuthSession, GetAuthSessionByToken
  <2>3. /\ session' \in [Sessions -> {NoSession} \union Session]
        /\ \A t \in Sessions : session'[t] # NoSession => session'[t] = session[t]
    BY <2>2, DeleteTypes DEF TypeOK
  <2> QED BY <1>1, <2>1, <2>3 DEF DeleteAuthSession, GetAuthSessionByToken, TypeOK, bounds, history, lost, There
<1>2. ASSUME NEW time \in Time, session[s] # NoSession, session' = [session EXCEPT ![s].time = time]
      PROVE  /\ session' \in [Sessions -> {NoSession} \union Session]
             /\ \A t \in Sessions : session'[t] # NoSession => There(session'[t].of)
  <2>1. session[s] \in Session /\ There(session[s].of)
    BY <1>2, SessionKinds
  <2>2. [session[s] EXCEPT !.time = time] \in Session
    BY <2>1 DEF Session
  <2>3. [session[s] EXCEPT !.time = time].of = session[s].of
    BY <2>1 DEF Session
  <2> QED BY <1>2, <2>1, <2>2, <2>3 DEF TypeOK
<1>3. CASE TouchAuthSession(s) /\ session[s] # NoSession
  <2>1. \E time \in Time : session' = [session EXCEPT ![s].time = time]
    BY <1>3 DEF TouchAuthSession, Touch, Time
  <2> QED BY <1>2, <1>3, <2>1 DEF TouchAuthSession, Touch, TypeOK, bounds, history, lost, There
<1>4. CASE TouchAuthSession(s) /\ session[s] = NoSession
  BY <1>4 DEF TouchAuthSession, Touch, TypeOK, bounds, history, lost, There
<1>5. CASE Age(s)
  BY <1>2, <1>5 DEF Age, TypeOK, bounds, history, lost, There
<1> QED BY <1>1, <1>3, <1>4, <1>5 DEF SessionStep

LEMMA ChangeTypes ==
  ASSUME TypeOK, NEW p \in Procs, ChangeStep(p) PROVE TypeOK'
<1>1. ASSUME NEW u \in Users, BeginChange(p, u) PROVE TypeOK'
  <2>1. [pc |-> "change", u |-> u] \in Request
    BY DEF Request
  <2> QED BY <1>1, <2>1, BeginTypes DEF BeginChange, TypeOK, history, lost, There
<1>2. CASE UpdateUserPassword(p)
  <2> DEFINE u == proc[p].u
             r == [user[u] EXCEPT !.pw = user[u].pw + 1]
  <2>1. proc[p] \in Plain /\ u \in Users /\ user[u] \in User
    BY <1>2, RequestKinds DEF UpdateUserPassword, At, TypeOK
  <2>2. r \in User /\ (There(u) => r.is = "there")
    BY <2>1 DEF User, There
  <2>3. /\ user' = [user EXCEPT ![u] = r] \/ user' = user
        /\ \/ proc' = [proc EXCEPT ![p] = [proc[p] EXCEPT !.pc = "destroy"]]
           \/ Answer(p) \/ Overtake(p)
        /\ UNCHANGED session \/ Spare(u)
    BY <1>2 DEF UpdateUserPassword, GoTo
  <2>4. [proc[p] EXCEPT !.pc = "destroy"] \in Request
    BY <2>1 DEF Plain, Request
  <2> HIDE DEF r, u
  <2>6. proc' \in [Procs -> Request]
    BY <2>3, <2>4, AnswerTypes, OvertakeTypes DEF TypeOK
  <2>7. user' \in [Users -> User] /\ \A v \in Users : There(v) => There(v)'
    BY <2>1, <2>2, <2>3, UserTypes DEF TypeOK, There
  <2>8. /\ session' \in [Sessions -> {NoSession} \union Session]
        /\ \A s \in Sessions : session'[s] # NoSession => session[s] # NoSession /\ session'[s].of = session[s].of
    BY <2>1, <2>3, SpareTypes DEF TypeOK
  <2>9. \A s \in Sessions : session'[s] # NoSession => session[s].of \in Users /\ There(session[s].of)
    BY <2>8, SessionKinds DEF Session
  <2> QED BY <1>2, <2>6, <2>7, <2>8, <2>9 DEF UpdateUserPassword, TypeOK, bounds, history, lost, There
<1>3. CASE DestroyAllUserSessions(p)
  <2>0. PICK u \in Users : u = proc[p].u
    BY <1>3, RequestKinds DEF DestroyAllUserSessions, At
  <2>1. /\ session' \in [Sessions -> {NoSession} \union Session]
        /\ \A t \in Sessions : session'[t] # NoSession => session[t] # NoSession /\ session'[t].of = session[t].of
    BY <1>3, <2>0, DeleteTypes, SpareTypes DEF DestroyAllUserSessions
  <2>4. proc' \in [Procs -> Request]
    BY <1>3, OvertakeTypes DEF DestroyAllUserSessions
  <2> QED BY <1>3, <2>1, <2>4 DEF DestroyAllUserSessions, TypeOK, bounds, history, lost, There
<1> QED BY <1>1, <1>2, <1>3 DEF ChangeStep

LEMMA AdminTypes ==
  ASSUME TypeOK, NEW p \in Procs, AdminStep(p) PROVE TypeOK'
<1>1. ASSUME NEW u \in Users, BeginDelete(p, u) PROVE TypeOK'
  <2>1. [pc |-> "delete", u |-> u] \in Request
    BY DEF Request
  <2> QED BY <1>1, <2>1, BeginTypes DEF BeginDelete, TypeOK, history, lost, There
<1>2. ASSUME NEW u \in Users, NEW role \in Role \union {None}, NEW active \in BOOLEAN \union {None},
             BeginUpdate(p, u, role, active)
      PROVE  TypeOK'
  <2> DEFINE r == [pc |-> "write", u |-> u,
                   role |-> IF role = None THEN user[u].role ELSE role,
                   active |-> IF active = None THEN user[u].active ELSE active,
                   revoke |-> role # None \/ active = FALSE]
  <2>1. user[u].role \in Role /\ user[u].active \in BOOLEAN
    BY DEF TypeOK, User
  <2>2. (IF role = None THEN user[u].role ELSE role) \in Role
    BY <2>1
  <2>3. (IF active = None THEN user[u].active ELSE active) \in BOOLEAN
    BY <2>1
  <2>4. r \in Request
    BY <2>2, <2>3, Zenon DEF Request
  <2>5. Begin(p, r)
    BY <1>2 DEF BeginUpdate
  <2> HIDE DEF r
  <2> QED BY <1>2, <2>4, <2>5, BeginTypes DEF BeginUpdate, TypeOK, history, lost, There
<1>3. CASE AdminUpdateUser(p)
  <2> DEFINE u == proc[p].u
             r == [user[u] EXCEPT !.role = proc[p].role, !.active = proc[p].active]
  <2>1. proc[p] \in Updates /\ u \in Users /\ user[u] \in User
    BY <1>3, RequestKinds DEF AdminUpdateUser, At, TypeOK
  <2>2. r \in User /\ (There(u) => r.is = "there")
    BY <2>1 DEF User, There, Updates
  <2>3. user' = [user EXCEPT ![u] = r] \/ user' = user
    BY <1>3 DEF AdminUpdateUser
  <2>4. [proc[p] EXCEPT !.pc = "destroy"] \in Request
    BY <2>1 DEF Updates, Request
  <2>5. Answer(p) \/ proc' = [proc EXCEPT ![p] = [proc[p] EXCEPT !.pc = "destroy"]]
    BY <1>3 DEF AdminUpdateUser, GoTo
  <2>6. demoted' \in BOOLEAN
    BY <1>3 DEF AdminUpdateUser, TypeOK
  <2> HIDE DEF r, u
  <2>7. proc' \in [Procs -> Request]
    BY <2>4, <2>5, AnswerTypes DEF TypeOK
  <2>8. user' \in [Users -> User] /\ \A v \in Users : There(v) => There(v)'
    BY <2>1, <2>2, <2>3, UserTypes DEF TypeOK, There
  <2> QED BY <1>3, <2>6, <2>7, <2>8, SessionKinds DEF AdminUpdateUser, TypeOK, bounds, Session
<1>4. CASE AdminDeleteUserAtomic(p)
  <2> DEFINE u == proc[p].u
             r == [user[u] EXCEPT !.is = "deleted"]
  <2>1. u \in Users /\ user[u] \in User
    BY <1>4, RequestKinds DEF AdminDeleteUserAtomic, At, TypeOK
  <2>2. r \in User /\ user' = [user EXCEPT ![u] = r]
    BY <1>4, <2>1 DEF User, AdminDeleteUserAtomic
  <2>3. Delete(Of(u)) /\ Answer(p)
    BY <1>4 DEF AdminDeleteUserAtomic
  <2>4. raced' \in BOOLEAN
    BY <1>4 DEF AdminDeleteUserAtomic, TypeOK
  <2> HIDE DEF r, u
  <2>5. user' \in [Users -> User] /\ \A v \in Users \ {u} : user'[v] = user[v]
    BY <2>1, <2>2 DEF TypeOK
  <2>6. session' \in [Sessions -> {NoSession} \union Session]
    BY <2>3, DeleteTypes
  <2>7. ASSUME NEW t \in Sessions, session'[t] # NoSession PROVE user'[session'[t].of].is = "there"
    <3>1. session'[t] = session[t] /\ t \notin Of(u)
      BY <2>3, <2>7, DeleteTypes
    <3>2. session[t].of \in Users \ {u} /\ There(session[t].of)
      BY <2>7, <3>1, SessionKinds DEF Of, Session
    <3> QED BY <2>5, <3>1, <3>2 DEF There
  <2> QED BY <1>4, <2>3, <2>4, <2>5, <2>6, <2>7, AnswerTypes DEF AdminDeleteUserAtomic, TypeOK, bounds, There
<1>5. CASE RequestFails(p)
  BY <1>5, AnswerTypes DEF RequestFails, TypeOK, bounds, history, lost, There
<1> QED BY <1>1, <1>2, <1>3, <1>4, <1>5 DEF AdminStep

LEMMA RestartTypes == ASSUME TypeOK, Restart PROVE TypeOK'
<1>1. restarts' \in 0..MaxRestarts
  BY AccountAssumption DEF Restart, TypeOK
<1>2. proc' \in [Procs -> Request]
  BY DEF Restart, Request
<1>3. ASSUME NEW u \in Users PROVE SeedAdminUser(u) \in User /\ (There(u) => SeedAdminUser(u).is = "there")
  <2>1. NewUser("admin") \in User /\ NewUser("admin").is = "there"
    BY DEF NewUser, User, Role
  <2>2. user[u] \in User
    BY DEF TypeOK
  <2>3. [user[u] EXCEPT !.role = "admin", !.active = TRUE] \in User
        /\ [user[u] EXCEPT !.role = "admin", !.active = TRUE].is = user[u].is
    BY <2>2 DEF User, Role
  <2> QED BY <2>1, <2>2, <2>3 DEF SeedAdminUser, There
<1>4. user' \in [Users -> User] /\ \A u \in Users : There(u) => There(u)'
  <2>1. user' = user \/ user' = [u \in Users |-> SeedAdminUser(u)]
    BY DEF Restart
  <2> QED BY <1>3, <2>1 DEF TypeOK, There
<1>5. extra' \in [Users -> Nat]
  BY DEF Restart, TypeOK
<1>6. ASSUME NEW s \in Sessions, session[s] # NoSession
      PROVE  [session[s] EXCEPT !.late = TRUE] \in Session
             /\ [session[s] EXCEPT !.late = TRUE].of = session[s].of
  BY <1>6, SessionKinds DEF Session
<1>7. ASSUME NEW s \in Sessions, NEW p \in Procs, At(p, "destroy"), session[s].of = proc[p].u
      PROVE  session[s] # NoSession
  BY <1>7, RequestKinds, AccountAssumption DEF At, NoSession
<1>8. session' = [s \in Sessions |->
        IF \E p \in Procs : At(p, "destroy") /\ session[s].of = proc[p].u
        THEN [session[s] EXCEPT !.late = TRUE] ELSE session[s]]
  BY DEF Restart
<1>9. /\ session' \in [Sessions -> {NoSession} \union Session]
      /\ \A s \in Sessions : session'[s] # NoSession => session[s] # NoSession /\ session'[s].of = session[s].of
  BY <1>6, <1>7, <1>8 DEF TypeOK
<1>10. ASSUME NEW s \in Sessions, session'[s] # NoSession PROVE user'[session'[s].of].is = "there"
  BY <1>4, <1>9, <1>10, SessionKinds DEF Session, There
<1>11. demoted' \in BOOLEAN /\ raced' \in BOOLEAN /\ unseeded' \in BOOLEAN /\ touching' \subseteq Sessions /\ requests' \in 0..MaxRequests
  BY DEF Restart, TypeOK
<1> QED
  BY <1>1, <1>2, <1>4, <1>5, <1>9, <1>10, <1>11 DEF TypeOK, There

LEMMA TypeStep == ASSUME TypeOK, [Next]_vars PROVE TypeOK'
<1>1. ASSUME NEW u \in Users, LockExpires(u) PROVE TypeOK'
  <2> DEFINE r == [user[u] EXCEPT !.locked = FALSE]
  <2>0. user[u] \in User
    BY DEF TypeOK
  <2>1. r \in User /\ (There(u) => r.is = "there")
    BY <2>0 DEF User, There
  <2>2. user' = [user EXCEPT ![u] = r] /\ extra' \in [Users -> Nat]
    BY <1>1 DEF LockExpires, TypeOK
  <2> HIDE DEF r
  <2>3. user' \in [Users -> User] /\ \A v \in Users : There(v) => There(v)'
    BY <2>1, <2>2, UserTypes
  <2> QED BY <1>1, <2>2, <2>3, SessionKinds DEF LockExpires, TypeOK, bounds, lost, Session
<1>2. ASSUME NEW u \in Users, NEW role \in Role, AdminCreateUser(u, role) PROVE TypeOK'
  <2>1. NewUser(role) \in User /\ NewUser(role).is = "there"
    BY DEF NewUser, User
  <2>2. user' \in [Users -> User] /\ \A v \in Users : There(v) => There(v)'
    BY <1>2, <2>1, UserTypes DEF AdminCreateUser
  <2>3. requests' \in 0..MaxRequests
    BY <1>2, AccountAssumption DEF AdminCreateUser, TypeOK
  <2> QED BY <1>2, <2>2, <2>3, SessionKinds DEF AdminCreateUser, TypeOK, history, lost, Session
<1>3. CASE UNCHANGED vars
  BY <1>3 DEF vars, TypeOK, There
<1> QED
  BY <1>1, <1>2, <1>3, LoginTypes, SessionTypes, ChangeTypes, AdminTypes, RestartTypes DEF Next

\* Every table and request keeps its type, and no session outlives its user.
THEOREM AccountsTypeCorrect == Spec => []TypeOK
BY TypeInit, TypeStep, PTL DEF Spec

-----------------------------------------------------------------------------
(***************************************************************************)
(* The administrators.  Whoever is about to be deleted leaves another one  *)
(* behind: nobody stops being one meanwhile but by an update that demotes  *)
(* him, or by a deletion that this one overlaps.                           *)
(***************************************************************************)

AdminInv ==
  ~demoted /\ ~raced /\ ~unseeded =>
    /\ Admins # {}
    /\ \A p \in Procs : At(p, "delete") => Admins \ {proc[p].u} # {}

LEMMA AdminInit == ASSUME Init PROVE AdminInv
<1>1. user[Root] = NewUser("admin") /\ Root \in Users
  BY AccountAssumption DEF Init
<1>2. Root \in Admins
  BY <1>1 DEF Admins, IsAdmin, There, NewUser
<1>3. \A p \in Procs : proc[p].pc = "idle"
  BY DEF Init, Idle
<1> QED BY <1>2, <1>3 DEF AdminInv, At

\* A step that takes no administrator away and begins no deletion.
LEMMA AdminKept ==
  ASSUME AdminInv, UNCHANGED lost,
         \A u \in Users : IsAdmin(u) => IsAdmin(u)',
         \A p \in Procs : proc'[p].pc = "delete" => proc[p].pc = "delete" /\ proc'[p].u = proc[p].u
  PROVE  AdminInv'
<1>1. Admins \subseteq Admins'
  BY DEF Admins
<1> QED BY <1>1 DEF AdminInv, At, lost

\* A request that goes on is still about the same user.
LEMMA Moved ==
  ASSUME TypeOK, NEW p \in Procs, NEW r, proc' = [proc EXCEPT ![p] = r]
  PROVE  proc'[p] = r /\ \A q \in Procs \ {p} : proc'[q] = proc[q]
BY DEF TypeOK

\* A step that writes no column an administrator has.
LEMMA ColumnKept ==
  ASSUME TypeOK, NEW u \in Users, NEW r, user' = [user EXCEPT ![u] = r],
         r.is = user[u].is, r.role = user[u].role, r.active = user[u].active
  PROVE  \A v \in Users : IsAdmin(v) => IsAdmin(v)'
BY DEF TypeOK, IsAdmin, There

LEMMA AdminStepKeeps == ASSUME TypeOK, AdminInv, [Next]_vars PROVE AdminInv'
<1>1. ASSUME NEW p \in Procs, LoginStep(p) \/ ChangeStep(p)
      PROVE  \A q \in Procs : proc'[q].pc = "delete" => proc[q].pc = "delete" /\ proc'[q].u = proc[q].u
  <2>1. ASSUME NEW u \in Users, BeginLogin(p, u) \/ BeginChange(p, u)
        PROVE  \E r : proc' = [proc EXCEPT ![p] = r] /\ r.pc # "delete"
    <3>1. \/ \E blind \in BOOLEAN : proc' = [proc EXCEPT ![p] = Login(u, blind)]
          \/ proc' = [proc EXCEPT ![p] = [pc |-> "change", u |-> u]]
      BY <2>1 DEF BeginLogin, BeginChange, Begin
    <3>2. (\A blind : Login(u, blind).pc = "password") /\ [pc |-> "change", u |-> u].pc = "change"
      BY DEF Login
    <3> QED BY <3>1, <3>2
  <2>2. ASSUME \/ Authenticate(p) \/ IncrementFailedLogin(p) \/ ResetFailedLogin(p)
               \/ UpdateUserPassword(p) /\ ~Overtake(p)
               \/ \E s \in Sessions : CreateAuthSession(p, s)
        PROVE  \E r : proc' = [proc EXCEPT ![p] = r] /\ r.pc # "delete"
    <3>1. proc[p] \in Logins \union Plain
      BY <2>2, RequestKinds DEF Authenticate, IncrementFailedLogin, ResetFailedLogin, UpdateUserPassword,
                                CreateAuthSession, At
    <3>2. /\ [proc[p] EXCEPT !.pc = "increment"].pc = "increment"
          /\ [proc[p] EXCEPT !.pc = "reset", !.pw = user[proc[p].u].pw].pc = "reset"
          /\ [proc[p] EXCEPT !.pc = "session"].pc = "session"
          /\ [proc[p] EXCEPT !.pc = "destroy"].pc = "destroy"
          /\ Idle.pc = "idle"
      BY <3>1 DEF Logins, Plain, Idle
    <3> QED
      BY <2>2, <3>2 DEF Authenticate, IncrementFailedLogin, ResetFailedLogin, UpdateUserPassword,
                        CreateAuthSession, GoTo, Answer
  <2>3. CASE \E r : proc' = [proc EXCEPT ![p] = r] /\ r.pc # "delete"
    BY <2>3, Moved
  <2>4. CASE Overtake(p)
    BY <2>4, OvertakeTypes DEF Idle
  <2> QED BY <1>1, <2>1, <2>2, <2>3, <2>4 DEF LoginStep, ChangeStep, DestroyAllUserSessions
<1>2. ASSUME NEW p \in Procs, LoginStep(p) \/ ChangeStep(p) PROVE \A u \in Users : IsAdmin(u) => IsAdmin(u)'
  <2>1. CASE user' = user
    BY <2>1 DEF IsAdmin, There
  <2>2. CASE IncrementFailedLogin(p) \/ ResetFailedLogin(p) \/ UpdateUserPassword(p)
    <3>1. proc[p].u \in Users /\ user[proc[p].u] \in User
      BY <2>2, RequestKinds DEF IncrementFailedLogin, ResetFailedLogin, UpdateUserPassword, At, TypeOK
    <3>2. \E r : /\ user' = [user EXCEPT ![proc[p].u] = r] \/ user' = user
                 /\ r.is = user[proc[p].u].is /\ r.role = user[proc[p].u].role
                 /\ r.active = user[proc[p].u].active
      <4> DEFINE x == user[proc[p].u]
      <4>1. CASE IncrementFailedLogin(p)
        <5> DEFINE r == [x EXCEPT !.failed = @ + 1, !.locked = @ \/ x.failed + 1 >= Threshold]
        <5>1. r.is = x.is /\ r.role = x.role /\ r.active = x.active
          BY <3>1 DEF User
        <5>2. user' = [user EXCEPT ![proc[p].u] = r] \/ user' = user
          BY <4>1 DEF IncrementFailedLogin
        <5> QED BY <5>1, <5>2
      <4>2. CASE ResetFailedLogin(p)
        <5> DEFINE r == [x EXCEPT !.failed = 0, !.locked = FALSE]
        <5>1. r.is = x.is /\ r.role = x.role /\ r.active = x.active
          BY <3>1 DEF User
        <5>2. user' = [user EXCEPT ![proc[p].u] = r] \/ user' = user
          BY <4>2 DEF ResetFailedLogin
        <5> QED BY <5>1, <5>2
      <4>3. CASE UpdateUserPassword(p)
        <5> DEFINE r == [x EXCEPT !.pw = @ + 1]
        <5>1. r.is = x.is /\ r.role = x.role /\ r.active = x.active
          BY <3>1 DEF User
        <5>2. user' = [user EXCEPT ![proc[p].u] = r] \/ user' = user
          BY <4>3 DEF UpdateUserPassword
        <5> QED BY <5>1, <5>2
      <4> QED BY <2>2, <4>1, <4>2, <4>3
    <3> QED BY <2>1, <3>1, <3>2, ColumnKept
  <2> QED
    BY <1>2, <2>1, <2>2 DEF LoginStep, ChangeStep, BeginLogin, Authenticate, CreateAuthSession, BeginChange,
                            DestroyAllUserSessions
<1>3. ASSUME NEW p \in Procs, LoginStep(p) \/ ChangeStep(p) PROVE AdminInv'
  <2>1. UNCHANGED lost
    BY <1>3 DEF LoginStep, ChangeStep, BeginLogin, Authenticate, IncrementFailedLogin, ResetFailedLogin,
                CreateAuthSession, BeginChange, UpdateUserPassword, DestroyAllUserSessions, history, lost
  <2> QED BY <1>1, <1>2, <1>3, <2>1, AdminKept
<1>4. ASSUME NEW s \in Sessions, SessionStep(s) PROVE AdminInv'
  BY <1>4, AdminKept DEF SessionStep, DeleteAuthSession, GetAuthSessionByToken, TouchAuthSession, Touch, Age,
                         history, lost, IsAdmin, There
<1>5. ASSUME NEW u \in Users, LockExpires(u) PROVE AdminInv'
  <2>1. user[u] \in User
    BY DEF TypeOK
  <2>2. \A v \in Users : IsAdmin(v) => IsAdmin(v)'
    BY <1>5, <2>1, ColumnKept DEF LockExpires, User
  <2> QED BY <1>5, <2>2, AdminKept DEF LockExpires
<1>6. ASSUME NEW u \in Users, NEW role \in Role, AdminCreateUser(u, role) PROVE AdminInv'
  <2>1. \A v \in Users : IsAdmin(v) => IsAdmin(v)'
    BY <1>6 DEF AdminCreateUser, TypeOK, IsAdmin, There, Absent, NewUser
  <2> QED BY <1>6, <2>1, AdminKept DEF AdminCreateUser, history, lost
<1>7. ASSUME NEW p \in Procs, NEW u \in Users, BeginDelete(p, u) PROVE AdminInv'
  <2> DEFINE r == [pc |-> "delete", u |-> u]
  <2>1. proc'[p] = r /\ \A q \in Procs \ {p} : proc'[q] = proc[q]
    BY <1>7, Moved DEF BeginDelete, Begin
  <2>2. Admins' = Admins /\ Admins \ {u} # {}
    BY <1>7 DEF BeginDelete, Admins, IsAdmin, There
  <2> QED BY <1>7, <2>1, <2>2 DEF AdminInv, At, BeginDelete, history, lost
<1>8. ASSUME NEW p \in Procs, NEW u \in Users, NEW role, NEW active, BeginUpdate(p, u, role, active)
      PROVE  AdminInv'
  <2> DEFINE r == [pc |-> "write", u |-> u,
                   role |-> IF role = None THEN user[u].role ELSE role,
                   active |-> IF active = None THEN user[u].active ELSE active,
                   revoke |-> role # None \/ active = FALSE]
  <2>1. proc' = [proc EXCEPT ![p] = r] /\ r.pc = "write"
    BY <1>8 DEF BeginUpdate, Begin
  <2> HIDE DEF r
  <2>2. \A q \in Procs : proc'[q].pc = "delete" => proc[q].pc = "delete" /\ proc'[q].u = proc[q].u
    BY <2>1, Moved
  <2> QED BY <1>8, <2>2, AdminKept DEF BeginUpdate, history, lost, IsAdmin, There
<1>9. ASSUME NEW p \in Procs, AdminUpdateUser(p) PROVE AdminInv'
  <2> DEFINE u == proc[p].u
  <2>1. proc[p] \in Updates /\ u \in Users /\ user[u] \in User
    BY <1>9, RequestKinds DEF AdminUpdateUser, At, TypeOK
  <2>2. CASE ~demoted' /\ ~raced' /\ ~unseeded'
    <3>1. ~demoted /\ ~raced /\ ~unseeded
          /\ (user' # user /\ IsAdmin(u) => proc[p].role = "admin" /\ proc[p].active)
      <4> DEFINE takes == IsAdmin(u) /\ ~(proc[p].role = "admin" /\ proc[p].active)
      <4>1. ~raced /\ ~unseeded
        BY <1>9, <2>2 DEF AdminUpdateUser
      <4>2. \/ user' = user /\ demoted' = demoted
            \/ demoted' = (demoted \/ takes)
        BY <1>9 DEF AdminUpdateUser
      <4>3. CASE user' = user /\ demoted' = demoted
        BY <2>2, <4>1, <4>3
      <4>4. CASE demoted' = (demoted \/ takes)
        <5>1. ~demoted /\ ~takes
          <6> HIDE DEF takes
          <6> QED BY <2>2, <4>4, Zenon
        <5> QED BY <4>1, <5>1
      <4> QED BY <4>2, <4>3, <4>4
    <3> DEFINE r == [user[u] EXCEPT !.role = proc[p].role, !.active = proc[p].active]
    <3>2. r.is = user[u].is /\ r.role = proc[p].role /\ r.active = proc[p].active
      BY <2>1 DEF User
    <3>3. user' = [user EXCEPT ![u] = r] \/ user' = user
      BY <1>9 DEF AdminUpdateUser
    <3> HIDE DEF r
    <3>4. ASSUME NEW v \in Users, IsAdmin(v) PROVE IsAdmin(v)'
      <4>1. CASE user'[v] = user[v]
        BY <3>4, <4>1 DEF IsAdmin, There
      <4>2. CASE user'[v] # user[v]
        <5>1. v = u /\ user'[u] = r
          BY <2>1, <3>3, <4>2 DEF TypeOK
        <5>2. proc[p].role = "admin" /\ proc[p].active /\ There(u)
          BY <3>1, <3>4, <4>2, <5>1 DEF IsAdmin
        <5> QED BY <3>2, <5>1, <5>2 DEF IsAdmin, There
      <4> QED BY <4>1, <4>2
    <3>5. /\ [proc[p] EXCEPT !.pc = "destroy"].pc = "destroy"
          /\ Idle.pc # "delete"
      BY <2>1 DEF Updates, Idle
    <3>6. \A q \in Procs : proc'[q].pc = "delete" => proc[q].pc = "delete" /\ proc'[q].u = proc[q].u
      <4> DEFINE d == [proc[p] EXCEPT !.pc = "destroy"]
      <4>1. proc' = [proc EXCEPT ![p] = d] \/ proc' = [proc EXCEPT ![p] = Idle]
        BY <1>9 DEF AdminUpdateUser, GoTo, Answer
      <4>2. d.pc # "delete" /\ Idle.pc # "delete"
        BY <3>5
      <4> HIDE DEF d
      <4>3. proc'[p] \in {d, Idle} /\ \A q \in Procs \ {p} : proc'[q] = proc[q]
        BY <4>1, Moved
      <4> QED BY <4>2, <4>3
    <3>7. Admins \subseteq Admins'
      BY <3>4 DEF Admins
    <3> QED BY <3>1, <3>6, <3>7 DEF AdminInv, At
  <2>3. CASE demoted' \/ raced' \/ unseeded'
    BY <2>3 DEF AdminInv
  <2> QED BY <2>2, <2>3
<1>10. ASSUME NEW p \in Procs, AdminDeleteUserAtomic(p) PROVE AdminInv'
  <2> DEFINE u == proc[p].u
  <2>1. u \in Users /\ user[u] \in User /\ At(p, "delete")
    BY <1>10, RequestKinds DEF AdminDeleteUserAtomic, At, TypeOK
  <2>2. CASE ~demoted' /\ ~raced' /\ ~unseeded'
    <3>1. ~demoted /\ ~raced /\ ~unseeded /\ \A q \in Procs \ {p} : ~At(q, "delete")
      BY <1>10, <2>2 DEF AdminDeleteUserAtomic
    <3>2. \A v \in Users \ {u} : user'[v] = user[v]
      BY <1>10, <2>1 DEF AdminDeleteUserAtomic, TypeOK
    <3>3. Admins \ {u} # {}
      BY <2>1, <3>1 DEF AdminInv
    <3>0. Admins \ {u} \subseteq Admins'
      BY <3>2 DEF Admins, IsAdmin, There
    <3>4. \A q \in Procs : proc'[q].pc # "delete"
      <4>1. proc' = [proc EXCEPT ![p] = Idle] /\ Idle.pc # "delete"
        BY <1>10 DEF AdminDeleteUserAtomic, Answer, Idle
      <4> QED BY <3>1, <4>1, Moved DEF At
    <3> QED BY <3>0, <3>3, <3>4 DEF AdminInv, At
  <2>3. CASE demoted' \/ raced' \/ unseeded'
    BY <2>3 DEF AdminInv
  <2> QED BY <2>2, <2>3
<1>13. ASSUME NEW p \in Procs, RequestFails(p) PROVE AdminInv'
  <2>1. proc' = [proc EXCEPT ![p] = Idle] /\ Idle.pc = "idle"
    BY <1>13 DEF RequestFails, Answer, Idle
  <2>2. \A q \in Procs : proc'[q].pc = "delete" => proc[q].pc = "delete" /\ proc'[q].u = proc[q].u
    BY <2>1, Moved
  <2> QED BY <1>13, <2>2, AdminKept DEF RequestFails, history, IsAdmin, There
<1>11. CASE Restart
  <2>1. \A p \in Procs : proc'[p].pc = "idle"
    BY <1>11 DEF Restart, Idle
  <2>0. CASE unseeded'
    BY <2>0 DEF AdminInv
  <2>2. CASE Admins # {}
    <3>1. Admins' = Admins
      BY <1>11, <2>2 DEF Restart, Admins, IsAdmin, There
    <3> QED BY <2>1, <2>2, <3>1 DEF AdminInv, At
  <2>3. CASE Admins = {} /\ ~unseeded'
    <3>1. Root \in Users /\ user[Root] \in User
      BY AccountAssumption DEF TypeOK
    <3>2. user'[Root] = SeedAdminUser(Root)
      BY <1>11, <2>3, <3>1 DEF Restart
    <3>3. SeedAdminUser(Root).is = "there" /\ SeedAdminUser(Root).role = "admin" /\ SeedAdminUser(Root).active
      <4>1. CASE There(Root)
        BY <3>1, <4>1 DEF SeedAdminUser, There, User
      <4>2. CASE ~There(Root)
        BY <4>2 DEF SeedAdminUser, NewUser
      <4> QED BY <4>1, <4>2
    <3>4. Root \in Admins'
      BY <3>1, <3>2, <3>3 DEF Admins, IsAdmin, There
    <3> QED BY <2>1, <3>4 DEF AdminInv, At
  <2> QED BY <2>0, <2>2, <2>3
<1>12. CASE UNCHANGED vars
  BY <1>12 DEF vars, AdminInv, Admins, IsAdmin, There, At
<1> QED
  BY <1>3, <1>4, <1>5, <1>6, <1>7, <1>8, <1>9, <1>10, <1>11, <1>12, <1>13 DEF Next, AdminStep

\* There is an administrator from every start on (SeedAdminUser,
\* AdminDeleteUserAtomic), until an update demotes or disables one, or two
\* deletions overlap; or there is none because the start found none and failed
\* to make one.
THEOREM AdminLostOnlyHolds == Spec => []AdminLostOnly
<1>1. AdminInv => AdminLostOnly
  BY DEF AdminInv, AdminLostOnly
<1>2. TypeOK /\ AdminInv /\ [Next]_vars => AdminInv'
  BY AdminStepKeeps
<1> QED BY <1>1, <1>2, AdminInit, AccountsTypeCorrect, PTL DEF Spec

-----------------------------------------------------------------------------
(***************************************************************************)
(* Expired sessions.                                                       *)
(***************************************************************************)

\* A step that extends no session.
LEMMA NotExtended ==
  ASSUME TypeOK, NEW s \in Sessions, [Next]_vars,
         session[s] # NoSession, session'[s] # NoSession, session'[s].time # session[s].time
  PROVE  Age(s) \/ TouchAuthSession(s)
<1>1. session[s] \in Session
  BY SessionKinds
<1>2. ASSUME NEW S, Delete(S) PROVE FALSE
  BY <1>2, DeleteTypes
<1>3. ASSUME session' = session PROVE FALSE
  BY <1>3
<1>4. ASSUME NEW p \in Procs, NEW t \in Sessions, CreateAuthSession(p, t) PROVE FALSE
  BY <1>4 DEF CreateAuthSession, TypeOK
<1>5. ASSUME NEW t \in Sessions, Age(t) \/ TouchAuthSession(t) PROVE t = s
  BY <1>5 DEF Age, TouchAuthSession, Touch, TypeOK
<1>6. ASSUME Restart PROVE FALSE
  <2>1. session'[s] \in {session[s], [session[s] EXCEPT !.late = TRUE]}
    BY <1>6 DEF Restart
  <2> QED BY <1>1, <2>1 DEF Session
<1>7. ASSUME NEW u, Spare(u) PROVE FALSE
  <2>1. session'[s] \in {session[s], [session[s] EXCEPT !.late = TRUE]}
    BY <1>7 DEF Spare
  <2> QED BY <1>1, <2>1 DEF Session
<1> QED
  BY <1>2, <1>3, <1>4, <1>5, <1>6, <1>7
     DEF Next, LoginStep, AdminStep, ChangeStep, SessionStep, BeginLogin, Authenticate, IncrementFailedLogin,
         ResetFailedLogin, BeginChange, UpdateUserPassword, DestroyAllUserSessions, BeginUpdate, AdminUpdateUser,
         BeginDelete, AdminDeleteUserAtomic, RequestFails, DeleteAuthSession, GetAuthSessionByToken, LockExpires,
         AdminCreateUser, vars

\* A session that has expired is valid again only through a request it
\* authenticated before, and never after its absolute lifetime
\* (TouchAuthSession).
THEOREM ExpiredIsOutHolds == Spec => ExpiredIsOut
<1>1. TypeOK /\ [Next]_vars =>
        [ \A s \in Sessions :
            /\ session[s] # NoSession /\ session[s].time # "valid"
            /\ session'[s] # NoSession /\ session'[s].time = "valid"
            => s \in touching /\ session[s].time = "expired" ]_vars
  <2> SUFFICES ASSUME TypeOK, [Next]_vars, NEW s \in Sessions,
                      session[s] # NoSession, session[s].time # "valid",
                      session'[s] # NoSession, session'[s].time = "valid"
               PROVE  s \in touching /\ session[s].time = "expired"
    OBVIOUS
  <2>1. session[s] \in Session /\ session[s].time \in Time
    BY SessionKinds DEF Session
  <2>2. CASE Age(s)
    <3>1. \E time \in Time \ {"valid"} : session' = [session EXCEPT ![s] = [session[s] EXCEPT !.time = time]]
      BY <2>2 DEF Age
    <3>2. \A time : [session[s] EXCEPT !.time = time].time = time
      BY <2>1 DEF Session
    <3> QED BY <3>1, <3>2 DEF TypeOK
  <2>3. CASE TouchAuthSession(s)
    <3>1. CASE session[s].time = "over"
      <4>1. session' = [session EXCEPT ![s] = [session[s] EXCEPT !.time = "over"]]
        BY <2>3, <3>1 DEF TouchAuthSession, Touch
      <4>2. [session[s] EXCEPT !.time = "over"].time = "over"
        BY <2>1 DEF Session
      <4> QED BY <4>1, <4>2 DEF TypeOK
    <3>2. CASE session[s].time # "over"
      BY <2>1, <2>3, <3>2 DEF TouchAuthSession, Touch, Time
    <3> QED BY <3>1, <3>2
  <2> QED BY <2>2, <2>3, NotExtended
<1> QED BY <1>1, AccountsTypeCorrect, PTL DEF Spec, ExpiredIsOut

-----------------------------------------------------------------------------
(***************************************************************************)
(* Guesses.  Each failure that is still counted while the account is       *)
(* locked is a request that asked for the lock before it was set, or did   *)
(* not come to know of it; the one that set it is not among them.          *)
(***************************************************************************)

Pending(u) == {p \in Procs : proc[p].pc \in {"password", "increment"} /\ proc[p].u = u /\ ~proc[p].blind}

GuessInv ==
  \A u \in Users :
    IF user[u].locked THEN extra[u] + Cardinality(Pending(u)) < Cardinality(Procs) ELSE extra[u] = 0

LEMMA PendingFinite ==
  /\ Cardinality(Procs) \in Nat \ {0}
  /\ \A S \in SUBSET Procs : Cardinality(S) \in Nat /\ Cardinality(S) <= Cardinality(Procs)
  /\ \A S \in SUBSET Procs : \A T \in SUBSET S : Cardinality(T) <= Cardinality(S)
  /\ \A S \in SUBSET Procs : \A p \in S : Cardinality(S \ {p}) = Cardinality(S) - 1
<1>1. IsFiniteSet(Procs) /\ Procs # {}
  BY AccountAssumption
<1>2. \A S \in SUBSET Procs : IsFiniteSet(S)
  BY <1>1, FS_Subset
<1>3. Cardinality(Procs) \in Nat \ {0}
  BY <1>1, FS_CardinalityType, FS_EmptySet
<1> QED
  BY <1>1, <1>2, <1>3, FS_CardinalityType, FS_Subset, FS_RemoveElement

\* An account whose columns and logins a step leaves alone.
LEMMA GuessKept ==
  ASSUME TypeOK, GuessInv, NEW u \in Users,
         user'[u].locked = user[u].locked, extra'[u] = extra[u],
         user[u].locked => \A p \in Procs :
           proc'[p].pc \in {"password", "increment"} /\ proc'[p].u = u /\ ~proc'[p].blind =>
             proc[p].pc \in {"password", "increment"} /\ proc[p].u = u /\ ~proc[p].blind
  PROVE  IF user'[u].locked THEN extra'[u] + Cardinality(Pending(u)') < Cardinality(Procs) ELSE extra'[u] = 0
<1>1. CASE user[u].locked
  <2>1. Pending(u)' \subseteq Pending(u) /\ Pending(u) \subseteq Procs /\ extra[u] \in Nat
    BY <1>1 DEF Pending, TypeOK
  <2>2. Cardinality(Pending(u)') <= Cardinality(Pending(u)) /\ Cardinality(Pending(u)') \in Nat
        /\ Cardinality(Pending(u)) \in Nat /\ Cardinality(Procs) \in Nat
    BY <2>1, PendingFinite
  <2>3. extra[u] + Cardinality(Pending(u)) < Cardinality(Procs)
    BY <1>1 DEF GuessInv
  <2> QED BY <1>1, <2>1, <2>2, <2>3
<1>2. CASE ~user[u].locked
  BY <1>2 DEF GuessInv
<1> QED BY <1>1, <1>2

LEMMA GuessIncrement ==
  ASSUME TypeOK, GuessInv, NEW p \in Procs, IncrementFailedLogin(p) PROVE GuessInv'
<1>0. PICK v \in Users : v = proc[p].u
  BY RequestKinds DEF IncrementFailedLogin, At
<1> DEFINE b == user[v].locked \/ user[v].failed + 1 >= Threshold
           r == [user[v] EXCEPT !.failed = user[v].failed + 1, !.locked = b]
<1>1. user[v] \in User /\ (~proc[p].blind => p \in Pending(v))
  BY <1>0 DEF IncrementFailedLogin, At, TypeOK, Pending
<1>2. proc'[p].pc = "idle" /\ \A q \in Procs \ {p} : proc'[q] = proc[q]
  <2>1. proc' = [proc EXCEPT ![p] = Idle] /\ Idle.pc = "idle"
    BY DEF IncrementFailedLogin, Answer, Idle
  <2> QED BY <2>1, Moved
<1>3. user' = [user EXCEPT ![v] = r] \/ user' = user
  BY <1>0 DEF IncrementFailedLogin
<1>4. extra' = [extra EXCEPT ![v] = IF user[v].locked /\ ~proc[p].blind THEN @ + 1 ELSE @]
  BY <1>0 DEF IncrementFailedLogin
<1>5. r.locked = b
  BY <1>1 DEF User
<1> HIDE DEF r
<1>6. /\ user[v].locked => user'[v].locked
      /\ extra'[v] = (IF user[v].locked /\ ~proc[p].blind THEN extra[v] + 1 ELSE extra[v])
      /\ \A u \in Users \ {v} : user'[u] = user[u] /\ extra'[u] = extra[u]
  BY <1>1, <1>3, <1>4, <1>5 DEF TypeOK
<1>7. Pending(v)' = Pending(v) \ {p} /\ Pending(v) \subseteq Procs
  BY <1>1, <1>2 DEF Pending
<1>8. /\ Cardinality(Procs) \in Nat \ {0} /\ extra[v] \in Nat
      /\ Cardinality(Pending(v)) \in Nat /\ Cardinality(Pending(v)') \in Nat
      /\ Cardinality(Pending(v)') <= Cardinality(Pending(v))
      /\ p \in Pending(v) => Cardinality(Pending(v)') = Cardinality(Pending(v)) - 1
      /\ Cardinality(Pending(v)') < Cardinality(Procs)
  <2>1. Pending(v)' \subseteq Procs \ {p} /\ Procs \ {p} \in SUBSET Procs
    BY <1>7
  <2>2. Cardinality(Procs \ {p}) = Cardinality(Procs) - 1 /\ Cardinality(Pending(v)') <= Cardinality(Procs \ {p})
    BY <2>1, PendingFinite
  <2> QED BY <1>7, <2>1, <2>2, PendingFinite DEF TypeOK
<1>9. IF user'[v].locked THEN extra'[v] + Cardinality(Pending(v)') < Cardinality(Procs) ELSE extra'[v] = 0
  <2>1. IF user[v].locked THEN extra[v] + Cardinality(Pending(v)) < Cardinality(Procs) ELSE extra[v] = 0
    BY DEF GuessInv
  <2>2. CASE user[v].locked /\ ~proc[p].blind
    <3>1. extra'[v] = extra[v] + 1 /\ user'[v].locked /\ extra[v] + Cardinality(Pending(v)) < Cardinality(Procs)
      BY <1>6, <2>1, <2>2
    <3>2. Cardinality(Pending(v)') = Cardinality(Pending(v)) - 1
      BY <1>1, <1>8, <2>2
    <3>3. extra'[v] + Cardinality(Pending(v)') < Cardinality(Procs)
      BY <1>8, <3>1, <3>2
    <3> QED BY <3>1, <3>3
  <2>3. CASE user[v].locked /\ proc[p].blind
    <3>1. extra'[v] = extra[v] /\ user'[v].locked /\ extra[v] + Cardinality(Pending(v)) < Cardinality(Procs)
      BY <1>6, <2>1, <2>3
    <3>2. extra'[v] + Cardinality(Pending(v)') < Cardinality(Procs)
      BY <1>8, <3>1
    <3> QED BY <3>1, <3>2
  <2>4. CASE ~user[v].locked
    <3>1. extra'[v] = 0
      BY <1>6, <2>1, <2>4
    <3> QED BY <1>8, <3>1
  <2> QED BY <2>2, <2>3, <2>4
<1>10. ASSUME NEW u \in Users \ {v}
      PROVE  IF user'[u].locked THEN extra'[u] + Cardinality(Pending(u)') < Cardinality(Procs) ELSE extra'[u] = 0
  <2>1. user'[u] = user[u] /\ extra'[u] = extra[u]
    BY <1>6
  <2> QED BY <1>2, <2>1, GuessKept
<1> QED BY <1>9, <1>10 DEF GuessInv

\* A lock that is taken off takes the count with it.
LEMMA GuessUnlock ==
  ASSUME TypeOK, GuessInv, NEW v \in Users, NEW r, ~r.locked,
         user' = [user EXCEPT ![v] = r], extra' = [extra EXCEPT ![v] = 0],
         \A p \in Procs : proc'[p].pc \in {"password", "increment"} => proc'[p] = proc[p]
  PROVE  GuessInv'
<1>1. ~user'[v].locked /\ extra'[v] = 0
  BY DEF TypeOK
<1>2. ASSUME NEW u \in Users \ {v}
      PROVE  IF user'[u].locked THEN extra'[u] + Cardinality(Pending(u)') < Cardinality(Procs) ELSE extra'[u] = 0
  <2>1. user'[u] = user[u] /\ extra'[u] = extra[u]
    BY DEF TypeOK
  <2> QED BY <2>1, GuessKept
<1> QED BY <1>1, <1>2 DEF GuessInv

\* A step that writes neither column: it takes up a login only of an account
\* that is not locked, or one that does not ask.
LEMMA GuessQuiet ==
  ASSUME TypeOK, GuessInv, UNCHANGED extra,
         \A u \in Users : user'[u].locked = user[u].locked,
         \A p \in Procs : proc'[p].pc \in {"password", "increment"} =>
            \/ /\ proc[p].pc \in {"password", "increment"} /\ proc[p].u = proc'[p].u
               /\ proc[p].blind = proc'[p].blind
            \/ ~user[proc'[p].u].locked \/ proc'[p].blind
  PROVE  GuessInv'
<1> SUFFICES ASSUME NEW u \in Users
             PROVE  IF user'[u].locked THEN extra'[u] + Cardinality(Pending(u)') < Cardinality(Procs)
                    ELSE extra'[u] = 0
  BY DEF GuessInv
<1> QED BY GuessKept

\* A request that goes on to something that is no guess.
LEMMA NoGuess ==
  ASSUME TypeOK, NEW p \in Procs, NEW r, proc' = [proc EXCEPT ![p] = r],
         r.pc \notin {"password", "increment"}
  PROVE  \A q \in Procs : proc'[q].pc \in {"password", "increment"} => proc'[q] = proc[q]
BY DEF TypeOK

LEMMA GuessStep == ASSUME TypeOK, GuessInv, [Next]_vars PROVE GuessInv'
<1>1. ASSUME NEW p \in Procs, NEW u \in Users, BeginLogin(p, u) PROVE GuessInv'
  <2>1. PICK blind \in BOOLEAN : proc' = [proc EXCEPT ![p] = Login(u, blind)] /\ (~blind => ~user[u].locked)
    BY <1>1 DEF BeginLogin, Begin
  <2> DEFINE r == Login(u, blind)
  <2>3. r.u = u /\ r.blind = blind
    BY DEF Login
  <2>4. proc' = [proc EXCEPT ![p] = r]
    BY <2>1
  <2> HIDE DEF r
  <2>2. proc'[p].u = u /\ proc'[p].blind = blind /\ \A q \in Procs \ {p} : proc'[q] = proc[q]
    BY <2>3, <2>4, Moved
  <2> QED BY <1>1, <2>1, <2>2, GuessQuiet DEF BeginLogin, history, lost
<1>2. ASSUME NEW p \in Procs, Authenticate(p) PROVE GuessInv'
  <2> DEFINE x == proc[p]
             i == [x EXCEPT !.pc = "increment"]
             r == [x EXCEPT !.pc = "reset", !.pw = user[x.u].pw]
  <2>1. x \in Logins /\ x.pc = "password"
    BY <1>2, RequestKinds DEF Authenticate, At
  <2>2. i.u = x.u /\ i.blind = x.blind /\ r.pc = "reset" /\ Idle.pc = "idle"
    BY <2>1 DEF Logins, Idle
  <2>3. proc' = [proc EXCEPT ![p] = i] \/ proc' = [proc EXCEPT ![p] = r] \/ proc' = [proc EXCEPT ![p] = Idle]
    BY <1>2 DEF Authenticate, GoTo, Answer
  <2> HIDE DEF i, r
  <2>4. proc'[p] \in {i, r, Idle} /\ \A q \in Procs \ {p} : proc'[q] = proc[q]
    BY <2>3, Moved
  <2>5. \A q \in Procs : proc'[q].pc \in {"password", "increment"} =>
           proc[q].pc \in {"password", "increment"} /\ proc[q].u = proc'[q].u /\ proc[q].blind = proc'[q].blind
    BY <2>1, <2>2, <2>4
  <2> QED BY <1>2, <2>5, GuessQuiet DEF Authenticate, history, lost
<1>3. ASSUME NEW p \in Procs, ResetFailedLogin(p) PROVE GuessInv'
  <2> DEFINE u == proc[p].u
             r == [user[u] EXCEPT !.failed = 0, !.locked = FALSE]
             x == [proc[p] EXCEPT !.pc = "session"]
  <2>0. PICK v \in Users : v = u
    BY <1>3, RequestKinds DEF ResetFailedLogin, At
  <2>1. proc[p] \in Logins /\ user[u] \in User
    BY <1>3, <2>0, RequestKinds DEF ResetFailedLogin, At, TypeOK
  <2>2. ~r.locked /\ x.pc = "session"
    BY <2>1 DEF User, Logins
  <2>3. /\ \/ user' = [user EXCEPT ![v] = r] /\ extra' = [extra EXCEPT ![v] = 0]
           \/ user' = user /\ extra' = extra
        /\ proc' = [proc EXCEPT ![p] = x]
    BY <1>3, <2>0 DEF ResetFailedLogin, GoTo
  <2> HIDE DEF r, x
  <2>4. \A q \in Procs : proc'[q].pc \in {"password", "increment"} => proc'[q] = proc[q]
    BY <2>2, <2>3, NoGuess
  <2> QED BY <2>2, <2>3, <2>4, GuessUnlock, GuessQuiet
<1>4. ASSUME NEW u \in Users, LockExpires(u) PROVE GuessInv'
  <2> DEFINE r == [user[u] EXCEPT !.locked = FALSE]
  <2>1. user[u] \in User
    BY DEF TypeOK
  <2>2. ~r.locked
    BY <2>1 DEF User
  <2>3. user' = [user EXCEPT ![u] = r] /\ extra' = [extra EXCEPT ![u] = 0] /\ proc' = proc
    BY <1>4 DEF LockExpires
  <2> HIDE DEF r
  <2> QED BY <2>2, <2>3, GuessUnlock
<1>5. ASSUME NEW p \in Procs, NEW s \in Sessions, CreateAuthSession(p, s) PROVE GuessInv'
  <2>1. proc' = [proc EXCEPT ![p] = Idle] /\ Idle.pc = "idle"
    BY <1>5 DEF CreateAuthSession, Answer, Idle
  <2>2. \A q \in Procs : proc'[q].pc \in {"password", "increment"} => proc'[q] = proc[q]
    BY <2>1, NoGuess
  <2> QED BY <1>5, <2>2, GuessQuiet DEF CreateAuthSession, history, lost
<1>6. ASSUME NEW p \in Procs, ChangeStep(p) PROVE GuessInv'
  <2>1. UNCHANGED extra
    BY <1>6 DEF ChangeStep, UpdateUserPassword, DestroyAllUserSessions, BeginChange, history, lost
  <2>2. \A u \in Users : user'[u].locked = user[u].locked
    <3>1. CASE user' = user
      BY <3>1
    <3>2. CASE UpdateUserPassword(p)
      <4> DEFINE r == [user[proc[p].u] EXCEPT !.pw = @ + 1]
      <4>1. proc[p].u \in Users /\ user[proc[p].u] \in User
        BY <3>2, RequestKinds DEF UpdateUserPassword, At, TypeOK
      <4>2. r.locked = user[proc[p].u].locked
        BY <4>1 DEF User
      <4>3. user' = [user EXCEPT ![proc[p].u] = r] \/ user' = user
        BY <3>2 DEF UpdateUserPassword
      <4> HIDE DEF r
      <4> QED BY <4>1, <4>2, <4>3 DEF TypeOK
    <3> QED BY <1>6, <3>1, <3>2 DEF ChangeStep, DestroyAllUserSessions, BeginChange
  <2>3. ASSUME NEW u \in Users, BeginChange(p, u)
        PROVE  \A q \in Procs : proc'[q].pc \in {"password", "increment"} => proc'[q] = proc[q]
    <3>1. proc' = [proc EXCEPT ![p] = [pc |-> "change", u |-> u]]
      BY <2>3 DEF BeginChange, Begin
    <3> QED BY <3>1, NoGuess
  <2>4. ASSUME UpdateUserPassword(p), ~Overtake(p)
        PROVE  \A q \in Procs : proc'[q].pc \in {"password", "increment"} => proc'[q] = proc[q]
    <3> DEFINE d == [proc[p] EXCEPT !.pc = "destroy"]
    <3>1. proc[p] \in Plain
      BY <2>4, RequestKinds DEF UpdateUserPassword, At
    <3>2. d.pc = "destroy" /\ Idle.pc = "idle"
      BY <3>1 DEF Plain, Idle
    <3>3. proc' = [proc EXCEPT ![p] = d] \/ proc' = [proc EXCEPT ![p] = Idle]
      BY <2>4 DEF UpdateUserPassword, GoTo, Answer
    <3> HIDE DEF d
    <3> QED BY <3>2, <3>3, NoGuess
  <2>5. ASSUME Overtake(p), NEW q \in Procs, proc'[q].pc \in {"password", "increment"}
        PROVE  proc'[q] = proc[q]
    <3>1. Idle.pc = "idle"
      BY DEF Idle
    <3> QED BY <2>5, <3>1, OvertakeTypes
  <2> QED BY <1>6, <2>1, <2>2, <2>3, <2>4, <2>5, GuessQuiet DEF ChangeStep, DestroyAllUserSessions
<1>7. ASSUME NEW p \in Procs, AdminStep(p) PROVE GuessInv'
  <2>1. UNCHANGED extra
    BY <1>7 DEF AdminStep, AdminUpdateUser, AdminDeleteUserAtomic, RequestFails, BeginDelete, BeginUpdate, history, lost
  <2>2. \A u \in Users : user'[u].locked = user[u].locked
    <3>1. CASE user' = user
      BY <3>1
    <3>2. CASE AdminUpdateUser(p) \/ AdminDeleteUserAtomic(p)
      <4> DEFINE x == user[proc[p].u]
                 r == [x EXCEPT !.role = proc[p].role, !.active = proc[p].active]
                 d == [x EXCEPT !.is = "deleted"]
      <4>1. proc[p].u \in Users /\ x \in User
        BY <3>2, RequestKinds DEF AdminUpdateUser, AdminDeleteUserAtomic, At, TypeOK
      <4>2. r.locked = x.locked /\ d.locked = x.locked
        BY <4>1 DEF User
      <4>3. user' = [user EXCEPT ![proc[p].u] = r] \/ user' = [user EXCEPT ![proc[p].u] = d] \/ user' = user
        BY <3>2 DEF AdminUpdateUser, AdminDeleteUserAtomic
      <4> HIDE DEF r, d
      <4> QED BY <4>1, <4>2, <4>3 DEF TypeOK
    <3> QED BY <1>7, <3>1, <3>2 DEF AdminStep, RequestFails, BeginDelete, BeginUpdate
  <2> DEFINE Quiet == \A q \in Procs : proc'[q].pc \in {"password", "increment"} => proc'[q] = proc[q]
  <2>3. ASSUME NEW u \in Users, BeginDelete(p, u) PROVE Quiet
    <3>1. proc' = [proc EXCEPT ![p] = [pc |-> "delete", u |-> u]]
      BY <2>3 DEF BeginDelete, Begin
    <3> QED BY <3>1, NoGuess
  <2>4. ASSUME NEW u \in Users, NEW role, NEW active, BeginUpdate(p, u, role, active) PROVE Quiet
    <3> DEFINE r == [pc |-> "write", u |-> u,
                     role |-> IF role = None THEN user[u].role ELSE role,
                     active |-> IF active = None THEN user[u].active ELSE active,
                     revoke |-> role # None \/ active = FALSE]
    <3>1. proc' = [proc EXCEPT ![p] = r] /\ r.pc = "write"
      BY <2>4 DEF BeginUpdate, Begin
    <3> HIDE DEF r
    <3> QED BY <3>1, NoGuess
  <2>5. ASSUME AdminUpdateUser(p) PROVE Quiet
    <3> DEFINE d == [proc[p] EXCEPT !.pc = "destroy"]
    <3>1. proc[p] \in Updates
      BY <2>5, RequestKinds DEF AdminUpdateUser, At
    <3>2. d.pc = "destroy" /\ Idle.pc = "idle"
      BY <3>1 DEF Updates, Idle
    <3>3. proc' = [proc EXCEPT ![p] = d] \/ proc' = [proc EXCEPT ![p] = Idle]
      BY <2>5 DEF AdminUpdateUser, GoTo, Answer
    <3> HIDE DEF d
    <3> QED BY <3>2, <3>3, NoGuess
  <2>6. ASSUME AdminDeleteUserAtomic(p) \/ RequestFails(p) PROVE Quiet
    <3>1. proc' = [proc EXCEPT ![p] = Idle] /\ Idle.pc = "idle"
      BY <2>6 DEF AdminDeleteUserAtomic, RequestFails, Answer, Idle
    <3> QED BY <3>1, NoGuess
  <2>7. Quiet
    BY <1>7, <2>3, <2>4, <2>5, <2>6 DEF AdminStep
  <2> QED BY <2>1, <2>2, <2>7, GuessQuiet
<1>8. ASSUME NEW u \in Users, NEW role \in Role, AdminCreateUser(u, role) PROVE GuessInv'
  <2>1. \A v \in Users : user'[v].locked = user[v].locked
    BY <1>8 DEF AdminCreateUser, Absent, NewUser, TypeOK
  <2> QED BY <1>8, <2>1, GuessQuiet DEF AdminCreateUser, history, lost
<1>9. CASE Restart
  <2> SUFFICES ASSUME NEW u \in Users
               PROVE  IF user'[u].locked THEN extra'[u] + Cardinality(Pending(u)') < Cardinality(Procs)
                      ELSE extra'[u] = 0
    BY DEF GuessInv
  <2>1. extra'[u] = IF user'[u].locked THEN extra[u] ELSE 0
    BY <1>9 DEF Restart
  <2>2. Pending(u)' = {}
    BY <1>9 DEF Restart, Pending, Idle
  <2>3. CASE user'[u].locked
    <3>1. user[u].locked
      <4>1. user[u] \in User
        BY DEF TypeOK
      <4>2. [user[u] EXCEPT !.role = "admin", !.active = TRUE].locked = user[u].locked
        BY <4>1 DEF User
      <4>3. CASE user' = user
        BY <2>3, <4>3
      <4>4. CASE user' = [v \in Users |-> SeedAdminUser(v)]
        <5>1. user'[u] = SeedAdminUser(u)
          BY <4>4
        <5> QED BY <2>3, <4>2, <5>1 DEF SeedAdminUser, NewUser
      <4> QED BY <1>9, <4>3, <4>4 DEF Restart
    <3>2. extra[u] + Cardinality(Pending(u)) < Cardinality(Procs)
      BY <3>1 DEF GuessInv
    <3>3. Cardinality(Pending(u)) \in Nat /\ Cardinality(Procs) \in Nat /\ extra[u] \in Nat
      BY PendingFinite DEF Pending, TypeOK
    <3>4. Cardinality(Pending(u)') = 0
      BY <2>2, FS_EmptySet
    <3> QED BY <2>1, <2>3, <3>2, <3>3, <3>4
  <2> QED BY <2>1, <2>3
<1>10. ASSUME NEW s \in Sessions, SessionStep(s) PROVE GuessInv'
  BY <1>10, GuessQuiet DEF SessionStep, DeleteAuthSession, GetAuthSessionByToken, TouchAuthSession, Touch, Age, history, lost
<1>11. CASE UNCHANGED vars
  BY <1>11, GuessQuiet DEF vars
<1> QED
  BY <1>1, <1>2, <1>3, <1>4, <1>5, <1>6, <1>7, <1>8, <1>9, <1>10, <1>11, GuessIncrement DEF Next, LoginStep

\* While an account is locked (IncrementFailedLogin), each further failure
\* belongs to a login that had asked for the lock before: there are fewer of
\* them than requests in progress, but for the logins whose question failed.
THEOREM GuessesBoundedHolds == Spec => []GuessesBounded
<1>1. ASSUME Init PROVE GuessInv
  <2>1. \A u \in Users : ~user[u].locked /\ extra[u] = 0
    BY <1>1 DEF Init, Absent, NewUser
  <2> QED BY <2>1 DEF GuessInv
<1>2. ASSUME TypeOK, GuessInv PROVE GuessesBounded
  <2> SUFFICES ASSUME NEW u \in Users PROVE extra[u] < Cardinality(Procs)
    BY DEF GuessesBounded
  <2>1. Pending(u) \in SUBSET Procs /\ extra[u] \in Nat
    BY <1>2 DEF Pending, TypeOK
  <2>2. Cardinality(Pending(u)) \in Nat /\ Cardinality(Procs) \in Nat \ {0}
    BY <2>1, PendingFinite
  <2> QED BY <1>2, <2>1, <2>2 DEF GuessInv
<1> QED BY <1>1, <1>2, GuessStep, AccountsTypeCorrect, PTL DEF Spec

-----------------------------------------------------------------------------
(***************************************************************************)
(* Revoked sessions.  What a session and a login that is about to store    *)
(* one carry is the user's password, or a request is about to destroy all  *)
(* of the user's sessions, which tells these logins that they are late.    *)
(***************************************************************************)

Destroying(u) == \E q \in Procs : At(q, "destroy") /\ proc[q].u = u
Backed(u, pw) == pw = user[u].pw \/ Destroying(u)

SessionsBacked ==
  \A s \in Sessions : session[s] # NoSession /\ ~session[s].late => Backed(session[s].of, session[s].pw)
LoginsBacked ==
  \A p \in Procs : proc[p].pc \in {"reset", "session"} /\ ~proc[p].late => Backed(proc[p].u, proc[p].pw)
RevokeInv == SessionsBacked /\ LoginsBacked

\* A step that changes no password and ends no destruction.
LEMMA BackedKept ==
  ASSUME NEW u, NEW pw, Backed(u, pw), user'[u].pw = user[u].pw,
         \A q \in Procs : At(q, "destroy") => proc'[q] = proc[q]
  PROVE  Backed(u, pw)'
BY DEF Backed, Destroying, At

LEMMA SessionsKept ==
  ASSUME TypeOK, SessionsBacked, \A u \in Users : user'[u].pw = user[u].pw,
         \A q \in Procs : At(q, "destroy") => proc'[q] = proc[q],
         \A s \in Sessions : session'[s] # NoSession =>
           /\ session[s] # NoSession /\ session'[s].of = session[s].of
           /\ session'[s].pw = session[s].pw /\ session'[s].late = session[s].late
  PROVE  SessionsBacked'
<1> SUFFICES ASSUME NEW s \in Sessions, session'[s] # NoSession, ~session'[s].late
             PROVE  session'[s].pw = user'[session'[s].of].pw \/ \E q \in Procs : proc'[q].pc = "destroy" /\ proc'[q].u = session'[s].of
  BY DEF SessionsBacked, Backed, Destroying, At
<1>1. session[s].of \in Users /\ Backed(session[s].of, session[s].pw)
  BY SessionKinds DEF SessionsBacked, Session
<1> QED BY <1>1 DEF Backed, Destroying, At

LEMMA LoginsKept ==
  ASSUME TypeOK, LoginsBacked, \A u \in Users : user'[u].pw = user[u].pw,
         NEW p \in Procs, NEW r, ~At(p, "destroy"), proc' = [proc EXCEPT ![p] = r],
         r.pc \in {"reset", "session"} /\ ~r.late => r.u \in Users /\ Backed(r.u, r.pw)
  PROVE  LoginsBacked' /\ \A q \in Procs : At(q, "destroy") => proc'[q] = proc[q]
<1>1. proc'[p] = r /\ \A q \in Procs \ {p} : proc'[q] = proc[q]
  BY Moved
<1>2. \A q \in Procs : At(q, "destroy") => proc'[q] = proc[q]
  BY <1>1
<1>3. ASSUME NEW q \in Procs, proc'[q].pc \in {"reset", "session"}, ~proc'[q].late
      PROVE  proc'[q].pw = user'[proc'[q].u].pw
             \/ \E x \in Procs : proc'[x].pc = "destroy" /\ proc'[x].u = proc'[q].u
  <2>1. CASE q = p
    <3>1. r.u \in Users /\ Backed(r.u, r.pw)
      BY <1>1, <1>3, <2>1
    <3> QED BY <1>1, <1>2, <2>1, <3>1 DEF Backed, Destroying, At
  <2>2. CASE q # p
    <3>1. proc'[q] = proc[q] /\ proc[q].u \in Users /\ Backed(proc[q].u, proc[q].pw)
      BY <1>1, <1>3, <2>2, RequestKinds DEF LoginsBacked
    <3> QED BY <1>2, <3>1 DEF Backed, Destroying, At
  <2> QED BY <2>1, <2>2
<1> QED BY <1>2, <1>3 DEF LoginsBacked, Backed, Destroying, At

\* A request of which only the place changes, or that is answered.
LEMMA RevokeQuiet ==
  ASSUME TypeOK, RevokeInv, \A u \in Users : user'[u].pw = user[u].pw,
         NEW p \in Procs, NEW r, ~At(p, "destroy"), proc' = [proc EXCEPT ![p] = r],
         r.pc \in {"reset", "session"} /\ ~r.late => r.u \in Users /\ Backed(r.u, r.pw),
         UNCHANGED session \/ \E S : Delete(S)
  PROVE  RevokeInv'
<1>1. \A s \in Sessions : session'[s] # NoSession => session'[s] = session[s]
  BY DeleteTypes
<1> QED BY <1>1, LoginsKept, SessionsKept DEF RevokeInv

LEMMA PasswordsKept ==
  ASSUME TypeOK, NEW u \in Users, NEW r, r.pw = user[u].pw, user' = [user EXCEPT ![u] = r]
  PROVE  \A v \in Users : user'[v].pw = user[v].pw
BY DEF TypeOK

LEMMA RevokeBegin ==
  ASSUME TypeOK, RevokeInv, NEW p \in Procs, NEW r, Begin(p, r), r.pc \notin {"reset", "session"},
         UNCHANGED <<user, session>>
  PROVE  RevokeInv'
<1>1. ~At(p, "destroy") /\ proc' = [proc EXCEPT ![p] = r]
  BY DEF Begin, At, Idle
<1> QED BY <1>1, RevokeQuiet

LEMMA RevokeLogin == ASSUME TypeOK, RevokeInv, NEW p \in Procs, LoginStep(p) PROVE RevokeInv'
<1>1. ASSUME NEW u \in Users, BeginLogin(p, u) PROVE RevokeInv'
  <2>1. \E blind \in BOOLEAN : Begin(p, Login(u, blind)) /\ Login(u, blind).pc = "password"
    BY <1>1 DEF BeginLogin, Login
  <2> QED BY <1>1, <2>1, RevokeBegin DEF BeginLogin
<1>2. CASE Authenticate(p)
  <2> DEFINE x == proc[p]
             i == [x EXCEPT !.pc = "increment"]
             r == [x EXCEPT !.pc = "reset", !.pw = user[x.u].pw]
  <2>1. x \in Logins /\ ~At(p, "destroy")
    BY <1>2, RequestKinds DEF Authenticate, At
  <2>2. i.pc = "increment" /\ r.u \in Users /\ r.pw = user[r.u].pw /\ Idle.pc = "idle"
    BY <2>1 DEF Logins, Idle
  <2>3. proc' = [proc EXCEPT ![p] = i] \/ proc' = [proc EXCEPT ![p] = r] \/ proc' = [proc EXCEPT ![p] = Idle]
    BY <1>2 DEF Authenticate, GoTo, Answer
  <2>4. Backed(r.u, r.pw)
    BY <2>2 DEF Backed
  <2>5. UNCHANGED <<user, session>>
    BY <1>2 DEF Authenticate
  <2> HIDE DEF i, r
  <2> QED BY <2>1, <2>2, <2>3, <2>4, <2>5, RevokeQuiet
<1>3. CASE IncrementFailedLogin(p)
  <2> DEFINE u == proc[p].u
             b == user[u].locked \/ user[u].failed + 1 >= Threshold
             r == [user[u] EXCEPT !.failed = @ + 1, !.locked = b]
  <2>1. u \in Users /\ user[u] \in User
    BY <1>3, RequestKinds DEF IncrementFailedLogin, At, TypeOK
  <2>2. r.pw = user[u].pw /\ Idle.pc = "idle"
    BY <2>1 DEF User, Idle
  <2>3. user' = [user EXCEPT ![u] = r] \/ user' = user
    BY <1>3 DEF IncrementFailedLogin
  <2>4. ~At(p, "destroy") /\ proc' = [proc EXCEPT ![p] = Idle] /\ UNCHANGED session
    BY <1>3 DEF IncrementFailedLogin, At, Answer
  <2> HIDE DEF r, u
  <2>5. \A v \in Users : user'[v].pw = user[v].pw
    BY <2>1, <2>2, <2>3, PasswordsKept
  <2> QED BY <2>2, <2>4, <2>5, RevokeQuiet
<1>4. CASE ResetFailedLogin(p)
  <2> DEFINE u == proc[p].u
             r == [user[u] EXCEPT !.failed = 0, !.locked = FALSE]
             x == [proc[p] EXCEPT !.pc = "session"]
  <2>1. proc[p] \in Logins /\ u \in Users /\ user[u] \in User /\ At(p, "reset")
    BY <1>4, RequestKinds DEF ResetFailedLogin, At, TypeOK
  <2>2. r.pw = user[u].pw /\ x.u = proc[p].u /\ x.pw = proc[p].pw /\ x.late = proc[p].late
    BY <2>1 DEF User, Logins
  <2>3. /\ user' = [user EXCEPT ![u] = r] \/ user' = user
        /\ proc' = [proc EXCEPT ![p] = x] /\ UNCHANGED session
    BY <1>4 DEF ResetFailedLogin, GoTo
  <2>4. ~x.late => x.u \in Users /\ Backed(x.u, x.pw)
    BY <2>1, <2>2 DEF RevokeInv, LoginsBacked, At
  <2> HIDE DEF r, u, x
  <2>5. \A v \in Users : user'[v].pw = user[v].pw
    BY <2>1, <2>2, <2>3, PasswordsKept
  <2> QED BY <2>1, <2>3, <2>4, <2>5, RevokeQuiet DEF At
<1>5. ASSUME NEW s \in Sessions, CreateAuthSession(p, s) PROVE RevokeInv'
  <2> DEFINE new == [of |-> proc[p].u, pw |-> proc[p].pw, late |-> proc[p].late, time |-> "valid"]
  <2>1. proc[p].u \in Users /\ At(p, "session") /\ Idle.pc = "idle"
    BY <1>5, RequestKinds DEF CreateAuthSession, At, Idle
  <2>2. UNCHANGED user /\ proc' = [proc EXCEPT ![p] = Idle]
    BY <1>5 DEF CreateAuthSession, Answer
  <2>3. session' = [session EXCEPT ![s] = new] \/ session' = session
    BY <1>5 DEF CreateAuthSession
  <2>4. new.of = proc[p].u /\ new.pw = proc[p].pw /\ new.late = proc[p].late
    OBVIOUS
  <2> HIDE DEF new
  <2>5. LoginsBacked' /\ \A q \in Procs : At(q, "destroy") => proc'[q] = proc[q]
    BY <2>1, <2>2, LoginsKept DEF RevokeInv, At
  <2>6. ASSUME NEW t \in Sessions, session'[t] # NoSession, ~session'[t].late
        PROVE  session'[t].pw = user'[session'[t].of].pw
               \/ \E q \in Procs : proc'[q].pc = "destroy" /\ proc'[q].u = session'[t].of
    <3>1. CASE session'[t] = session[t]
      <4>1. Backed(session[t].of, session[t].pw)
        BY <2>6, <3>1 DEF RevokeInv, SessionsBacked
      <4> QED BY <2>2, <2>5, <3>1, <4>1 DEF Backed, Destroying, At
    <3>2. CASE session'[t] # session[t]
      <4>1. session'[t] = new
        BY <2>3, <3>2 DEF TypeOK
      <4>2. Backed(new.of, new.pw)
        BY <2>1, <2>4, <2>6, <4>1 DEF RevokeInv, LoginsBacked, At
      <4> QED BY <2>2, <2>5, <4>1, <4>2 DEF Backed, Destroying, At
    <3> QED BY <3>1, <3>2
  <2> QED BY <2>5, <2>6 DEF RevokeInv, SessionsBacked, Backed, Destroying, At
<1> QED BY <1>1, <1>2, <1>3, <1>4, <1>5 DEF LoginStep

LEMMA RevokeChange == ASSUME TypeOK, RevokeInv, NEW p \in Procs, ChangeStep(p) PROVE RevokeInv'
<1>1. ASSUME NEW u \in Users, BeginChange(p, u) PROVE RevokeInv'
  BY <1>1, RevokeBegin DEF BeginChange
<1>2. CASE UpdateUserPassword(p) /\ ~Overtake(p)
  <2>0. PICK u \in Users : u = proc[p].u
    BY <1>2, RequestKinds DEF UpdateUserPassword, At
  <2> DEFINE r == [user[u] EXCEPT !.pw = @ + 1]
             d == [proc[p] EXCEPT !.pc = "destroy"]
  <2>1. proc[p] \in Plain /\ user[u] \in User /\ At(p, "change")
    BY <1>2, RequestKinds DEF UpdateUserPassword, At, TypeOK
  <2>2. d.pc = "destroy" /\ d.u = u /\ Idle.pc = "idle"
    BY <2>0, <2>1 DEF Plain, Idle
  <2>3. UNCHANGED session /\ (GoTo(p, "destroy") \/ (UNCHANGED user /\ Answer(p)))
    <3>1. \/ GoTo(p, "destroy") /\ UNCHANGED session
          \/ Overtake(p)
          \/ Answer(p) /\ UNCHANGED <<user, session>>
      BY <1>2 DEF UpdateUserPassword
    <3> HIDE DEF r, d
    <3> QED BY <1>2, <3>1
  <2>4. CASE GoTo(p, "destroy")
    <3>1. user' = [user EXCEPT ![u] = r] /\ proc' = [proc EXCEPT ![p] = d]
      <4>1. (UNCHANGED user /\ Answer(p)) \/ user' = [user EXCEPT ![u] = r]
        BY <1>2, <2>0 DEF UpdateUserPassword
      <4>2. ~Answer(p)
        BY <2>2, <2>4 DEF GoTo, Answer, TypeOK
      <4> QED BY <2>4, <4>1, <4>2 DEF GoTo
    <3> HIDE DEF r, d
    <3>2. proc'[p] = d /\ \A q \in Procs \ {p} : proc'[q] = proc[q]
      BY <3>1, Moved
    <3>3. \A v \in Users \ {u} : user'[v] = user[v]
      BY <3>1 DEF TypeOK
    <3>4. ASSUME NEW v \in Users, NEW pw, Backed(v, pw) PROVE Backed(v, pw)'
      <4>1. CASE v = u
        BY <2>2, <3>2, <4>1 DEF Backed, Destroying, At
      <4>2. CASE v # u
        <5>1. \A q \in Procs : At(q, "destroy") => proc'[q] = proc[q]
          BY <2>1, <3>2 DEF At
        <5> QED BY <3>3, <3>4, <4>2, <5>1, BackedKept
      <4> QED BY <4>1, <4>2
    <3>5. ASSUME NEW s \in Sessions, session[s] # NoSession, ~session[s].late
          PROVE  Backed(session[s].of, session[s].pw)'
      <4>1. session[s].of \in Users /\ Backed(session[s].of, session[s].pw)
        BY <3>5, SessionKinds DEF RevokeInv, SessionsBacked, Session
      <4>2. PICK v, pw : v \in Users /\ v = session[s].of /\ pw = session[s].pw
        BY <4>1
      <4>3. Backed(v, pw)'
        BY <3>4, <4>1, <4>2
      <4> QED BY <2>3, <4>2, <4>3 DEF Backed, Destroying, At
    <3>6. ASSUME NEW q \in Procs, proc'[q].pc \in {"reset", "session"}, ~proc'[q].late
          PROVE  Backed(proc[q].u, proc[q].pw)'
      <4>1. q # p /\ proc'[q] = proc[q]
        BY <2>2, <3>2, <3>6
      <4>2. proc[q].u \in Users /\ Backed(proc[q].u, proc[q].pw)
        BY <3>6, <4>1, RequestKinds DEF RevokeInv, LoginsBacked
      <4>3. PICK v, pw : v \in Users /\ v = proc[q].u /\ pw = proc[q].pw
        BY <4>2
      <4>4. Backed(v, pw)'
        BY <3>4, <4>2, <4>3
      <4> QED BY <4>1, <4>3, <4>4 DEF Backed, Destroying, At
    <3> QED BY <2>3, <3>5, <3>6 DEF RevokeInv, SessionsBacked, LoginsBacked, Backed, Destroying, At
  <2>5. CASE UNCHANGED user /\ Answer(p)
    BY <2>1, <2>2, <2>3, <2>5, RevokeQuiet DEF At, Answer
  <2> QED BY <2>3, <2>4, <2>5
<1>3. CASE Overtake(p) /\ (DestroyAllUserSessions(p) \/ UpdateUserPassword(p))
  <2>0. PICK u \in Users : u = proc[p].u
    BY <1>3, RequestKinds DEF DestroyAllUserSessions, UpdateUserPassword, At
  <2>9. Answer(p) => p \in Procs /\ proc' = [proc EXCEPT ![p] = Idle]
    BY DEF Answer
  <2>1. CASE UpdateUserPassword(p) /\ UNCHANGED <<user, session>> /\ Answer(p)
    <3>1. ~At(p, "destroy") /\ Idle.pc = "idle"
      BY <2>1 DEF UpdateUserPassword, At, Idle
    <3> QED BY <2>1, <2>9, <3>1, RevokeQuiet
  <2>2. CASE ~(UpdateUserPassword(p) /\ UNCHANGED <<user, session>> /\ Answer(p))
    <3>1. Delete(Of(u)) \/ Spare(u)
      <4>1. CASE DestroyAllUserSessions(p)
        BY <2>0, <4>1 DEF DestroyAllUserSessions
      <4>2. CASE UpdateUserPassword(p) /\ GoTo(p, "destroy")
        <5>1. proc[p] \in Plain
          BY <4>2, RequestKinds DEF UpdateUserPassword, At
        <5>2. [proc[p] EXCEPT !.pc = "destroy"].pc = "destroy" /\ Idle.pc = "idle"
          BY <5>1 DEF Plain, Idle
        <5>3. proc'[p] = [proc[p] EXCEPT !.pc = "destroy"]
          BY <4>2 DEF GoTo, TypeOK
        <5>4. proc'[p] = Idle
          BY <1>3, OvertakeTypes
        <5> QED BY <5>2, <5>3, <5>4
      <4>3. CASE UpdateUserPassword(p) /\ ~GoTo(p, "destroy")
        BY <2>0, <2>2, <4>3 DEF UpdateUserPassword
      <4> QED BY <1>3, <4>1, <4>2, <4>3
    <3>2. \A v \in Users \ {u} : user'[v] = user[v]
      BY <1>3, <2>0 DEF DestroyAllUserSessions, UpdateUserPassword, TypeOK
    <3>3. ASSUME NEW q \in Procs, proc[q].pc = "destroy", proc[q].u # u PROVE proc'[q] = proc[q]
      BY <1>3, <2>0, <3>3, OvertakeTypes
    <3>4. ASSUME NEW v \in Users \ {u}, NEW pw, Backed(v, pw)
          PROVE  pw = user'[v].pw \/ \E q \in Procs : proc'[q].pc = "destroy" /\ proc'[q].u = v
      BY <3>2, <3>3, <3>4 DEF Backed, Destroying, At
    <3>5. ASSUME NEW s \in Sessions, session'[s] # NoSession, ~session'[s].late
          PROVE  session'[s].pw = user'[session'[s].of].pw
                 \/ \E q \in Procs : proc'[q].pc = "destroy" /\ proc'[q].u = session'[s].of
      <4>1. session'[s] = session[s] /\ session[s].of # u
        <5>1. CASE Delete(Of(u))
          BY <3>5, <5>1, DeleteTypes DEF Of
        <5>2. CASE Spare(u)
          BY <3>5, <5>2, SpareTypes
        <5> QED BY <3>1, <5>1, <5>2
      <4>2. session[s].of \in Users \ {u}
        BY <3>5, <4>1, SessionKinds DEF Session
      <4>3. Backed(session[s].of, session[s].pw)
        BY <3>5, <4>1 DEF RevokeInv, SessionsBacked
      <4> QED BY <3>4, <4>1, <4>2, <4>3
    <3>6. ASSUME NEW q \in Procs, proc'[q].pc \in {"reset", "session"}, ~proc'[q].late
          PROVE  proc'[q].pw = user'[proc'[q].u].pw
                 \/ \E x \in Procs : proc'[x].pc = "destroy" /\ proc'[x].u = proc'[q].u
      <4>1. Idle.pc = "idle"
        BY DEF Idle
      <4>2. q # p /\ proc'[q] = proc[q] /\ proc[q].u # u
        BY <1>3, <2>0, <3>6, <4>1, OvertakeTypes
      <4>3. proc[q].u \in Users \ {u} /\ Backed(proc[q].u, proc[q].pw)
        BY <3>6, <4>2, RequestKinds DEF RevokeInv, LoginsBacked
      <4> QED BY <3>4, <4>2, <4>3
    <3> QED BY <3>5, <3>6 DEF RevokeInv, SessionsBacked, LoginsBacked, Backed, Destroying, At
  <2> QED BY <2>1, <2>2
<1> QED BY <1>1, <1>2, <1>3 DEF ChangeStep, DestroyAllUserSessions

LEMMA RevokeAdmin == ASSUME TypeOK, RevokeInv, NEW p \in Procs, AdminStep(p) PROVE RevokeInv'
<1>1. ASSUME NEW u \in Users, BeginDelete(p, u) PROVE RevokeInv'
  BY <1>1, RevokeBegin DEF BeginDelete
<1>2. ASSUME NEW u \in Users, NEW role, NEW active, BeginUpdate(p, u, role, active) PROVE RevokeInv'
  <2> DEFINE r == [pc |-> "write", u |-> u,
                   role |-> IF role = None THEN user[u].role ELSE role,
                   active |-> IF active = None THEN user[u].active ELSE active,
                   revoke |-> role # None \/ active = FALSE]
  <2>1. Begin(p, r) /\ r.pc = "write" /\ UNCHANGED <<user, session>>
    BY <1>2 DEF BeginUpdate
  <2> HIDE DEF r
  <2> QED BY <2>1, RevokeBegin
<1>3. CASE AdminUpdateUser(p)
  <2> DEFINE u == proc[p].u
             r == [user[u] EXCEPT !.role = proc[p].role, !.active = proc[p].active]
             d == [proc[p] EXCEPT !.pc = "destroy"]
  <2>1. proc[p] \in Updates /\ u \in Users /\ user[u] \in User /\ ~At(p, "destroy")
    BY <1>3, RequestKinds DEF AdminUpdateUser, At, TypeOK
  <2>2. r.pw = user[u].pw /\ d.pc = "destroy" /\ Idle.pc = "idle"
    BY <2>1 DEF User, Updates, Idle
  <2>3. /\ user' = [user EXCEPT ![u] = r] \/ user' = user
        /\ proc' = [proc EXCEPT ![p] = d] \/ proc' = [proc EXCEPT ![p] = Idle]
        /\ UNCHANGED session
    BY <1>3 DEF AdminUpdateUser, GoTo, Answer
  <2> HIDE DEF r, u, d
  <2>4. \A v \in Users : user'[v].pw = user[v].pw
    BY <2>1, <2>2, <2>3, PasswordsKept
  <2> QED BY <2>1, <2>2, <2>3, <2>4, RevokeQuiet
<1>4. CASE AdminDeleteUserAtomic(p)
  <2> DEFINE u == proc[p].u
             r == [user[u] EXCEPT !.is = "deleted"]
  <2>1. u \in Users /\ user[u] \in User /\ ~At(p, "destroy")
    BY <1>4, RequestKinds DEF AdminDeleteUserAtomic, At, TypeOK
  <2>2. r.pw = user[u].pw /\ Idle.pc = "idle"
    BY <2>1 DEF User, Idle
  <2>3. user' = [user EXCEPT ![u] = r] /\ proc' = [proc EXCEPT ![p] = Idle] /\ Delete(Of(u))
    BY <1>4 DEF AdminDeleteUserAtomic, Answer
  <2> HIDE DEF r, u
  <2>4. \A v \in Users : user'[v].pw = user[v].pw
    BY <2>1, <2>2, <2>3, PasswordsKept
  <2> QED BY <2>1, <2>2, <2>3, <2>4, RevokeQuiet
<1>5. CASE RequestFails(p)
  <2>1. ~At(p, "destroy") /\ proc' = [proc EXCEPT ![p] = Idle] /\ Idle.pc = "idle" /\ UNCHANGED <<user, session>>
    BY <1>5 DEF RequestFails, At, Answer, Idle
  <2> QED BY <2>1, RevokeQuiet
<1> QED BY <1>1, <1>2, <1>3, <1>4, <1>5 DEF AdminStep

\* The requests stay where they are.
LEMMA RevokeElsewhere ==
  ASSUME TypeOK, RevokeInv, UNCHANGED proc, \A u \in Users : user'[u].pw = user[u].pw,
         \A s \in Sessions : session'[s] # NoSession =>
           /\ session[s] # NoSession /\ session'[s].of = session[s].of
           /\ session'[s].pw = session[s].pw /\ session'[s].late = session[s].late
  PROVE  RevokeInv'
<1>1. SessionsBacked'
  BY SessionsKept DEF RevokeInv
<1>2. LoginsBacked'
  BY RequestKinds DEF RevokeInv, LoginsBacked, Backed, Destroying, At
<1> QED BY <1>1, <1>2 DEF RevokeInv

LEMMA RevokeStep == ASSUME TypeOK, RevokeInv, [Next]_vars PROVE RevokeInv'
<1>1. ASSUME NEW s \in Sessions, SessionStep(s) PROVE RevokeInv'
  <2>1. UNCHANGED <<user, proc>>
    BY <1>1 DEF SessionStep, DeleteAuthSession, GetAuthSessionByToken, TouchAuthSession, Touch, Age
  <2>2. ASSUME NEW time, session[s] # NoSession, session' = [session EXCEPT ![s] = [session[s] EXCEPT !.time = time]]
        PROVE  RevokeInv'
    <3> DEFINE r == [session[s] EXCEPT !.time = time]
    <3>1. r.of = session[s].of /\ r.pw = session[s].pw /\ r.late = session[s].late
      BY <2>2, SessionKinds DEF Session
    <3>2. session'[s] = r /\ \A t \in Sessions \ {s} : session'[t] = session[t]
      BY <2>2 DEF TypeOK
    <3> HIDE DEF r
    <3> QED BY <2>1, <2>2, <3>1, <3>2, RevokeElsewhere
  <2>3. CASE UNCHANGED session \/ \E S : Delete(S)
    <3>1. \A t \in Sessions : session'[t] # NoSession => session'[t] = session[t]
      BY <2>3, DeleteTypes
    <3> QED BY <2>1, <3>1, RevokeElsewhere
  <2>4. CASE DeleteAuthSession(s) \/ GetAuthSessionByToken(s)
    BY <2>3, <2>4 DEF DeleteAuthSession, GetAuthSessionByToken
  <2>5. CASE TouchAuthSession(s)
    BY <2>2, <2>3, <2>5 DEF TouchAuthSession, Touch
  <2>6. CASE Age(s)
    <3>1. PICK time \in Time : session' = [session EXCEPT ![s].time = time]
      BY <2>6 DEF Age
    <3> QED BY <2>2, <2>6, <3>1 DEF Age
  <2> QED BY <1>1, <2>4, <2>5, <2>6 DEF SessionStep
<1>2. ASSUME NEW u \in Users, LockExpires(u) PROVE RevokeInv'
  <2>1. user[u] \in User
    BY DEF TypeOK
  <2> DEFINE r == [user[u] EXCEPT !.locked = FALSE]
  <2>2. r.pw = user[u].pw /\ user' = [user EXCEPT ![u] = r] /\ UNCHANGED <<session, proc>>
    BY <1>2, <2>1 DEF LockExpires, User
  <2> HIDE DEF r
  <2> QED BY <2>2, PasswordsKept, RevokeElsewhere
<1>3. ASSUME NEW u \in Users, NEW role \in Role, AdminCreateUser(u, role) PROVE RevokeInv'
  BY <1>3, PasswordsKept, RevokeElsewhere DEF AdminCreateUser, Absent, NewUser
<1>4. CASE Restart
  <2>1. \A p \in Procs : proc'[p].pc = "idle"
    BY <1>4 DEF Restart, Idle
  <2>2. ASSUME NEW u \in Users, There(u) PROVE user'[u].pw = user[u].pw
    <3>1. user[u] \in User
      BY DEF TypeOK
    <3>2. [user[u] EXCEPT !.role = "admin", !.active = TRUE].pw = user[u].pw
      BY <3>1 DEF User
    <3> QED BY <1>4, <2>2, <3>2 DEF Restart, SeedAdminUser
  <2>3. ASSUME NEW s \in Sessions, session'[s] # NoSession, ~session'[s].late
        PROVE  session'[s].pw = user'[session'[s].of].pw
    <3> DEFINE l == [session[s] EXCEPT !.late = TRUE]
    <3>1. session'[s] = IF Destroying(session[s].of) THEN l ELSE session[s]
      <4>1. Destroying(session[s].of) <=> \E p \in Procs : At(p, "destroy") /\ session[s].of = proc[p].u
        BY DEF Destroying
      <4> QED BY <1>4, <4>1 DEF Restart
    <3>2. CASE Destroying(session[s].of)
      <4>1. session[s] # NoSession
        BY <3>2, RequestKinds, AccountAssumption DEF Destroying, At, NoSession
      <4>2. l.late
        BY <4>1, SessionKinds DEF Session
      <4> QED BY <2>3, <3>1, <3>2, <4>2
    <3>3. CASE ~Destroying(session[s].of)
      <4>1. session'[s] = session[s]
        BY <3>1, <3>3
      <4>2. session[s].pw = user[session[s].of].pw
        BY <2>3, <3>3, <4>1 DEF RevokeInv, SessionsBacked, Backed
      <4>3. session[s].of \in Users /\ There(session[s].of)
        BY <2>3, <4>1, SessionKinds DEF Session
      <4> QED BY <2>2, <4>1, <4>2, <4>3
    <3> QED BY <3>2, <3>3
  <2> QED BY <2>1, <2>3 DEF RevokeInv, SessionsBacked, LoginsBacked, Backed, Destroying, At
<1>5. CASE UNCHANGED vars
  BY <1>5, RevokeElsewhere DEF vars
<1> QED BY <1>1, <1>2, <1>3, <1>4, <1>5, RevokeLogin, RevokeChange, RevokeAdmin DEF Next

\* Once a password has been changed, no session of the old one is left
\* (ChangePassword), but for a login that had passed the password check before
\* the sessions were destroyed, for a restart that came before they were, for
\* their deletion failing, and for a change that is answered with an error
\* although it was made.
THEOREM RevokedIsOutHolds == Spec => []RevokedIsOut
<1>1. ASSUME Init PROVE RevokeInv
  <2>1. (\A s \in Sessions : session[s] = NoSession) /\ \A p \in Procs : proc[p].pc = "idle"
    BY <1>1 DEF Init, Idle
  <2> QED BY <2>1 DEF RevokeInv, SessionsBacked, LoginsBacked
<1>2. RevokeInv => RevokedIsOut
  BY DEF RevokeInv, SessionsBacked, Backed, Destroying, RevokedIsOut
<1> QED BY <1>1, <1>2, RevokeStep, AccountsTypeCorrect, PTL DEF Spec
=============================================================================
