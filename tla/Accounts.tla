-------------------------------- MODULE Accounts --------------------------------
(***************************************************************************)
(* User accounts, their login sessions and the administrators: the users   *)
(* and sessions tables (internal/model/user.go, admin.go, auth_session.go) *)
(* and the requests that read and write them (internal/handler/user_auth.go*)
(* and admin.go, internal/middleware/auth_middleware.go), statement by     *)
(* statement.  Only the deletion of a user is a transaction.  A statement  *)
(* may fail: most failures end the request, some are only logged, and one  *)
(* may have written the row all the same.                                  *)
(*                                                                         *)
(* Every request is authenticated by a session or by an API key; both look *)
(* the user's role and activity up as they are.  Administrators are taken  *)
(* to hold a key.                                                          *)
(***************************************************************************)
EXTENDS Naturals, FiniteSets

CONSTANTS
  Users,        \* accounts, by their id
  Root,         \* the one with the user name "admin"
  Sessions,     \* bound: sessions that exist at a time
  Procs,        \* requests in progress
  None,
  Threshold,    \* failed logins that lock an account (5)
  MaxRequests,  \* bound: requests
  MaxRestarts   \* bound: restarts of the server

ASSUME AccountAssumption ==
  /\ Root \in Users /\ None \notin Users \union Sessions
  /\ IsFiniteSet(Procs) /\ Procs # {}
  /\ Threshold \in Nat \ {0} /\ MaxRequests \in Nat /\ MaxRestarts \in Nat

VARIABLES
  user,       \* the users table
  session,    \* the sessions table
  touching,   \* sessions that a request in progress will extend
  proc,       \* the requests
  requests, restarts,
  extra,      \* history: failed logins counted while the account was locked
  demoted,    \* history: has an update taken an administrator away since the start?
  raced,      \* history: has a deletion overtaken another one's count?
  unseeded    \* history: did the start find no administrator and fail to make one?

vars == <<user, session, touching, proc, requests, restarts, extra, demoted, raced, unseeded>>
lost == <<demoted, raced, unseeded>>
history == <<extra, lost>>
bounds == <<requests, restarts>>

\* "viewer" differs from "user" in the routes that refuse it.
Role == {"admin", "user"}
\* A session's expires_at has passed; so has its absolute_expires_at.
Time == {"valid", "expired", "over"}

NewUser(role) ==
  [is |-> "there", role |-> role, active |-> TRUE, pw |-> 0, failed |-> 0, locked |-> FALSE]
Absent == [NewUser("user") EXCEPT !.is = "absent"]

NoSession == [of |-> None]
Idle == [pc |-> "idle"]

There(u)    == user[u].is = "there"
IsAdmin(u)  == There(u) /\ user[u].role = "admin" /\ user[u].active
Admins      == {u \in Users : IsAdmin(u)}
Of(u)       == {s \in Sessions : session[s].of = u}
\* SELECT ... FOR UPDATE, until the deletion commits.
RowLocked(u) == \E p \in Procs : proc[p].pc = "delete" /\ proc[p].u = u

Init ==
  /\ user \in [Users -> {Absent, NewUser("user"), NewUser("admin")}]
  /\ user[Root] = NewUser("admin")
  /\ session = [s \in Sessions |-> NoSession]
  /\ touching = {}
  /\ proc = [p \in Procs |-> Idle]
  /\ requests = 0 /\ restarts = 0
  /\ extra = [u \in Users |-> 0]
  /\ demoted = FALSE /\ raced = FALSE /\ unseeded = FALSE

Begin(p, r) ==
  /\ proc[p] = Idle /\ requests < MaxRequests
  /\ requests' = requests + 1
  /\ proc' = [proc EXCEPT ![p] = r]

At(p, pc)    == proc[p].pc = pc
GoTo(p, pc)  == proc' = [proc EXCEPT ![p].pc = pc]
Answer(p)    == proc' = [proc EXCEPT ![p] = Idle]

-----------------------------------------------------------------------------
(* LoginUser.                                                              *)

\* A login, and whether it goes on without having asked for the lock.
Login(u, blind) == [pc |-> "password", u |-> u, pw |-> 0, late |-> FALSE, blind |-> blind]

\* Deviation: the lock is not asked for.
BeginUnlocked(p, u) ==
  /\ There(u)
  /\ Begin(p, Login(u, FALSE))
  /\ UNCHANGED <<user, session, touching, restarts, history>>

\* GetUserIDByUsername and IsAccountLocked: should either fail, the login goes
\* on as if the account were not locked.
BeginLogin(p, u) ==
  /\ There(u)
  /\ \E blind \in BOOLEAN :
       /\ user[u].locked => blind
       /\ Begin(p, Login(u, blind))
  /\ UNCHANGED <<user, session, touching, restarts, history>>

\* AuthenticateUser: the password is wrong, which is not counted when the name
\* could not be looked up, or it is that of the row; or the account is disabled
\* or gone, or the database fails.
Authenticate(p) ==
  /\ At(p, "password")
  /\ LET u == proc[p].u IN
     \/ There(u) /\ user[u].active /\ GoTo(p, "increment")
     \/ /\ There(u) /\ user[u].active
        /\ proc' = [proc EXCEPT ![p].pc = "reset", ![p].pw = user[u].pw]
     \/ Answer(p)
  /\ UNCHANGED <<user, session, touching, bounds, history>>

\* The counter is not reset when a lock runs out.  A failure of the statement,
\* here and in ResetFailedLogin, is only logged.
IncrementFailedLogin(p) ==
  /\ At(p, "increment") /\ ~RowLocked(proc[p].u)
  /\ LET u == proc[p].u IN
     /\ \/ /\ There(u)
           /\ user' = [user EXCEPT ![u].failed = @ + 1,
                                   ![u].locked = @ \/ user[u].failed + 1 >= Threshold]
        \/ UNCHANGED user
     /\ extra' = [extra EXCEPT ![u] = IF user[u].locked /\ ~proc[p].blind THEN @ + 1 ELSE @]
  /\ Answer(p)
  /\ UNCHANGED <<session, touching, bounds, lost>>

ResetFailedLogin(p) ==
  /\ At(p, "reset") /\ ~RowLocked(proc[p].u)
  /\ LET u == proc[p].u IN
     \/ /\ user' = [user EXCEPT ![u].failed = 0, ![u].locked = FALSE]
        /\ extra' = [extra EXCEPT ![u] = 0]
     \/ UNCHANGED <<user, extra>>
  /\ GoTo(p, "session")
  /\ UNCHANGED <<session, touching, bounds, lost>>

\* Fifteen minutes pass.
LockExpires(u) ==
  /\ user[u].locked
  /\ user' = [user EXCEPT ![u].locked = FALSE]
  /\ extra' = [extra EXCEPT ![u] = 0]
  /\ UNCHANGED <<session, touching, proc, bounds, lost>>

\* The row refers to the user: it waits for a deletion, and fails after it.
CreateAuthSession(p, s) ==
  /\ At(p, "session") /\ ~RowLocked(proc[p].u)
  /\ session[s] = NoSession
  /\ session' = IF There(proc[p].u)
                THEN [session EXCEPT ![s] = [of |-> proc[p].u, pw |-> proc[p].pw,
                                             late |-> proc[p].late, time |-> "valid"]]
                ELSE session
  /\ Answer(p)
  /\ UNCHANGED <<user, touching, bounds, history>>

-----------------------------------------------------------------------------
(* Sessions.                                                               *)

Delete(S) == session' = [s \in Sessions |-> IF s \in S THEN NoSession ELSE session[s]]

\* LogoutUser.
DeleteAuthSession(s) ==
  /\ session[s] # NoSession
  /\ Delete({s})
  /\ UNCHANGED <<user, touching, proc, bounds, history>>

\* GetAuthSessionByToken, as a request arrives: a disabled user's sessions go,
\* a valid session will be extended by a goroutine.
GetAuthSessionByToken(s) ==
  /\ session[s] # NoSession /\ session[s].time = "valid"
  /\ IF user[session[s].of].active
     THEN touching' = touching \union {s} /\ UNCHANGED session
     ELSE Delete(Of(session[s].of)) /\ UNCHANGED touching
  /\ UNCHANGED <<user, proc, bounds, history>>

Touch(s, time) ==
  /\ s \in touching
  /\ touching' = touching \ {s}
  /\ session' = IF session[s] = NoSession THEN session
                ELSE [session EXCEPT ![s].time = time]
  /\ UNCHANGED <<user, proc, bounds, history>>

\* Deviation: no LEAST with absolute_expires_at.
TouchUncapped(s) == Touch(s, "valid")

TouchAuthSession(s) ==
  Touch(s, IF session[s] # NoSession /\ session[s].time = "over" THEN "over" ELSE "valid")

\* Time passes: that of expires_at, which is at most that of absolute_expires_at.
Age(s) ==
  /\ session[s] # NoSession /\ session[s].time # "over"
  /\ \E time \in Time \ {"valid", session[s].time} : session' = [session EXCEPT ![s].time = time]
  /\ UNCHANGED <<user, touching, proc, bounds, history>>

-----------------------------------------------------------------------------
(* ChangePassword.                                                         *)

\* verifyOldPassword answers a wrong password with an error, and as
\* ErrorResponse returns nil the request goes on.
BeginChange(p, u) ==
  /\ There(u) /\ user[u].active
  /\ Begin(p, [pc |-> "change", u |-> u])
  /\ UNCHANGED <<user, session, touching, restarts, history>>

\* The sessions of u outlive the request that is to destroy them.
Spare(u) ==
  session' = [s \in Sessions |->
    IF session[s].of = u THEN [session[s] EXCEPT !.late = TRUE] ELSE session[s]]

\* p is answered; the logins that have passed the password check, and have yet
\* to store their session, go on.
Overtake(p) ==
  proc' = [q \in Procs |->
    IF q = p THEN Idle
    ELSE IF proc[q].pc \in {"reset", "session"} /\ proc[q].u = proc[p].u
         THEN [proc[q] EXCEPT !.late = TRUE] ELSE proc[q]]

\* A statement that fails ends the request; the password may be changed even so.
UpdateUserPassword(p) ==
  /\ At(p, "change") /\ ~RowLocked(proc[p].u)
  /\ LET u == proc[p].u IN
     \/ /\ There(u)
        /\ user' = [user EXCEPT ![u].pw = @ + 1]
        /\ \/ GoTo(p, "destroy") /\ UNCHANGED session
           \/ Overtake(p) /\ Spare(u)
     \/ Answer(p) /\ UNCHANGED <<user, session>>
  /\ UNCHANGED <<touching, bounds, history>>

\* Deviation: sessions whose expires_at has passed are not deleted.
DestroyValid(p) ==
  /\ At(p, "destroy")
  /\ Delete({s \in Of(proc[p].u) : session[s].time = "valid"})
  /\ Overtake(p)
  /\ UNCHANGED <<user, touching, bounds, history>>

\* DestroyAllUserSessions; its failure is only logged.
DestroyAllUserSessions(p) ==
  /\ At(p, "destroy")
  /\ Delete(Of(proc[p].u)) \/ Spare(proc[p].u)
  /\ Overtake(p)
  /\ UNCHANGED <<user, touching, bounds, history>>

-----------------------------------------------------------------------------
(* The administrators' requests.                                           *)

\* validateNewUser and CreateUser; the names are unique.
AdminCreateUser(u, role) ==
  /\ Admins # {} /\ user[u] = Absent /\ requests < MaxRequests
  /\ requests' = requests + 1
  /\ user' = [user EXCEPT ![u] = NewUser(role)]
  /\ UNCHANGED <<session, touching, proc, restarts, history>>

\* UpdateUser: validateRoleChange answers the demotion of oneself and of the
\* last administrator with an error, and the request goes on.  The row is read;
\* what the request does not name is written back.
BeginUpdate(p, u, role, active) ==
  /\ Admins # {} /\ There(u)
  /\ Begin(p, [pc |-> "write", u |-> u,
               role |-> IF role = None THEN user[u].role ELSE role,
               active |-> IF active = None THEN user[u].active ELSE active,
               revoke |-> role # None \/ active = FALSE])
  /\ UNCHANGED <<user, session, touching, restarts, history>>

\* A statement that fails ends the request: the one that writes the row, which
\* may be written even so, or the one that reads it again.
AdminUpdateUser(p) ==
  /\ At(p, "write") /\ ~RowLocked(proc[p].u)
  /\ LET u == proc[p].u IN
     \/ /\ There(u)
        /\ user' = [user EXCEPT ![u].role = proc[p].role, ![u].active = proc[p].active]
        /\ demoted' = (demoted \/ (IsAdmin(u) /\ ~(proc[p].role = "admin" /\ proc[p].active)))
        /\ (proc[p].revoke /\ GoTo(p, "destroy")) \/ Answer(p)
     \/ UNCHANGED <<user, demoted>> /\ Answer(p)
  /\ UNCHANGED <<session, touching, bounds, extra, raced, unseeded>>

\* DeleteUser, by somebody else; AdminDeleteUserAtomic locks the row and counts.
BeginDelete(p, u) ==
  /\ Admins \ {u} # {}
  /\ There(u) /\ ~RowLocked(u)
  /\ user[u].role = "admin" => Cardinality(Admins) > 1
  /\ Begin(p, [pc |-> "delete", u |-> u])
  /\ UNCHANGED <<user, session, touching, restarts, history>>

AdminDeleteUserAtomic(p) ==
  /\ At(p, "delete")
  /\ user' = [user EXCEPT ![proc[p].u].is = "deleted"]
  /\ Delete(Of(proc[p].u))
  /\ raced' = (raced \/ \E q \in Procs \ {p} : At(q, "delete"))
  /\ Answer(p)
  /\ UNCHANGED <<touching, bounds, extra, demoted, unseeded>>

\* A statement of the login's end, or of the deletion, fails.
RequestFails(p) ==
  /\ At(p, "session") \/ At(p, "delete")
  /\ Answer(p)
  /\ UNCHANGED <<user, session, touching, bounds, history>>

-----------------------------------------------------------------------------

\* Deviation: an account with the name is left as it is.
SeedOnlyNew(u) == IF u = Root /\ ~There(u) THEN NewUser("admin") ELSE user[u]

\* SeedAdminUser, when there is no administrator: it creates the account, or
\* promotes the one that has its name.
SeedAdminUser(u) ==
  IF u # Root THEN user[u]
  ELSE IF There(u) THEN [user[u] EXCEPT !.role = "admin", !.active = TRUE]
  ELSE NewUser("admin")

\* The server dies and starts again.  Sessions that were about to be destroyed
\* stay; a failure of SeedAdminUser (a statement of it, an address that is
\* taken) is only logged.
Restart ==
  /\ restarts < MaxRestarts
  /\ restarts' = restarts + 1
  /\ proc' = [p \in Procs |-> Idle]
  /\ touching' = {}
  /\ session' = [s \in Sessions |->
       IF \E p \in Procs : At(p, "destroy") /\ session[s].of = proc[p].u
       THEN [session[s] EXCEPT !.late = TRUE] ELSE session[s]]
  /\ \/ Admins # {} /\ UNCHANGED user /\ unseeded' = FALSE
     \/ Admins = {} /\ user' = [u \in Users |-> SeedAdminUser(u)] /\ unseeded' = FALSE
     \/ Admins = {} /\ UNCHANGED user /\ unseeded' = TRUE
  /\ extra' = [u \in Users |-> IF user'[u].locked THEN extra[u] ELSE 0]
  /\ demoted' = FALSE /\ raced' = FALSE
  /\ UNCHANGED requests

LoginStep(p) ==
  \/ Authenticate(p) \/ IncrementFailedLogin(p) \/ ResetFailedLogin(p)
  \/ \E u \in Users : BeginLogin(p, u)
  \/ \E s \in Sessions : CreateAuthSession(p, s)

AdminStep(p) ==
  \/ AdminUpdateUser(p) \/ AdminDeleteUserAtomic(p) \/ RequestFails(p)
  \/ \E u \in Users :
       \/ BeginDelete(p, u)
       \/ \E role \in Role \union {None}, active \in BOOLEAN \union {None} :
            BeginUpdate(p, u, role, active)

ChangeStep(p) ==
  \/ UpdateUserPassword(p) \/ DestroyAllUserSessions(p)
  \/ \E u \in Users : BeginChange(p, u)

SessionStep(s) ==
  \/ DeleteAuthSession(s) \/ GetAuthSessionByToken(s) \/ TouchAuthSession(s) \/ Age(s)

Next ==
  \/ \E p \in Procs : LoginStep(p) \/ AdminStep(p) \/ ChangeStep(p)
  \/ \E s \in Sessions : SessionStep(s)
  \/ \E u \in Users : LockExpires(u) \/ \E role \in Role : AdminCreateUser(u, role)
  \/ Restart

Spec == Init /\ [][Next]_vars

-----------------------------------------------------------------------------
(* Properties.                                                             *)

User == [is : {"absent", "there", "deleted"}, role : Role, active : BOOLEAN, pw : Nat,
         failed : Nat, locked : BOOLEAN]
Session == [of : Users, pw : Nat, late : BOOLEAN, time : Time]
Request ==
  {Idle}
  \union [pc : {"password", "increment", "reset", "session"}, u : Users, pw : Nat,
           late : BOOLEAN, blind : BOOLEAN]
  \union [pc : {"change", "delete", "destroy"}, u : Users]
  \union [pc : {"write", "destroy"}, u : Users, role : Role, active : BOOLEAN, revoke : BOOLEAN]

\* Types; a session belongs to a user that is there.
TypeOK ==
  /\ user \in [Users -> User]
  /\ session \in [Sessions -> {NoSession} \union Session]
  /\ \A s \in Sessions : session[s] # NoSession => There(session[s].of)
  /\ touching \subseteq Sessions
  /\ proc \in [Procs -> Request]
  /\ requests \in 0..MaxRequests /\ restarts \in 0..MaxRestarts
  /\ extra \in [Users -> Nat] /\ demoted \in BOOLEAN /\ raced \in BOOLEAN
  /\ unseeded \in BOOLEAN

\* Once a password has been changed, no session of the old one is left
\* (ChangePassword), but for a login that had passed the password check before
\* the sessions were destroyed, for a restart that came before they were, for
\* their deletion failing, which is only logged, and for a change that is
\* answered with an error although it was made.
RevokedIsOut ==
  \A s \in Sessions : session[s] # NoSession /\ ~session[s].late =>
    \/ session[s].pw = user[session[s].of].pw
    \/ \E p \in Procs : At(p, "destroy") /\ proc[p].u = session[s].of

\* While an account is locked (IncrementFailedLogin), each further failure
\* belongs to a login that had asked for the lock before: there are fewer of
\* them than requests in progress, but for the logins whose question failed,
\* which authenticateLogin takes for an account that is not locked.  (What
\* ChangePassword is given as the old password is no login's.)
GuessesBounded == \A u \in Users : extra[u] < Cardinality(Procs)

\* A session that has expired is valid again only through a request it
\* authenticated before, and never after its absolute lifetime
\* (TouchAuthSession).
ExpiredIsOut ==
  [][ \A s \in Sessions :
        /\ session[s] # NoSession /\ session[s].time # "valid"
        /\ session'[s] # NoSession /\ session'[s].time = "valid"
        => s \in touching /\ session[s].time = "expired" ]_vars

\* There is an administrator from every start on (SeedAdminUser), until an
\* update demotes or disables one, or two deletions overlap; or there is none
\* because the start found none and failed to make one.
AdminLostOnly == Admins = {} => demoted \/ raced \/ unseeded

=============================================================================
