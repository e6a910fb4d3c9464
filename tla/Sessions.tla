------------------------------- MODULE Sessions -------------------------------
(***************************************************************************)
(* Sessions, passwords and who may do what: Login, Lookup, Logout,         *)
(* ChangePassword and PurgeExpired of internal/auth/auth.go, behind        *)
(* requireAuth and requireAdmin of internal/httpapi/middleware.go.  As in  *)
(* RepairRequests an action is one SQL statement with the Go code up to    *)
(* the next, and handlers interleave between statements.  Login's password *)
(* comparison is an action of its own: it takes a quarter of a second.     *)
(*                                                                         *)
(* Seconds are read BEFORE the statement that stores or compares them is   *)
(* granted the connection: a handler carries the one it read in            *)
(* call[p].now, the purge carries its own in purge.                        *)
(***************************************************************************)
EXTENDS Naturals

CONSTANTS Procs,       \* handler goroutines that may run at the same time
          Users,       \* account ids
          Passwords,   \* passwords that are long enough
          First,       \* the password every account starts with
          Tokens,      \* what newSessionToken may return; never twice the same
          TTL,         \* SessionTTL
          MaxTime,     \* bound on the clock
          NoUser,      \* "no account"
          NoPassword,  \* "no password"
          NoToken,     \* a token that was never issued
          NoTime       \* "no second"

ASSUME SessionsAssumption ==
  /\ TTL \in Nat \ {0}
  /\ MaxTime \in Nat
  /\ First \in Passwords
  /\ NoUser \notin Users
  /\ NoPassword \notin Passwords
  /\ NoToken \notin Tokens
  /\ NoTime \notin Nat

VARIABLES accounts,  \* table users: password and role
          sessions,  \* table sessions, by token
          handed,    \* the tokens that somebody outside the daemon has
          clock,     \* time.Now().Unix()
          purge,     \* the second PurgeExpired has read, NoTime between runs
          call       \* the handler each goroutine is executing

vars == <<accounts, sessions, handed, clock, purge, call>>

-----------------------------------------------------------------------------
(* Data.                                                                   *)

Roles == {"admin", "user"}

NoAccount == [password |-> NoPassword, role |-> "none"]

Account == [password : Passwords, role : Roles] \cup {NoAccount}

\* A row is open while it is in the table.  "unissued" and "ended" tell a
\* token to come from one whose row is gone.
Session == [state   : {"unissued", "open", "ended"},
            user    : Users \cup {NoUser},
            created : Nat,
            expires : Nat]

Unissued == [state |-> "unissued", user |-> NoUser, created |-> 0, expires |-> 0]
Ended    == [state |-> "ended",    user |-> NoUser, created |-> 0, expires |-> 0]

\* "use" is every handler that only needs an account, "password" and
\* "set_password" are handleChangeMyPassword and handleChangeUserPassword.
Ops == {"login", "use", "logout", "password", "set_password"}

Pcs == {"idle", "read", "compare", "open", "stamp",  \* Login
        "slide", "user",                             \* requireAuth
        "end",                                       \* Logout
        "find", "write",                             \* ChangePassword
        "answered"}

Answers == {"ok", "refused", "unauthorized", "forbidden", "error"}

\* during is history, not in the code: the passwords the account, or the
\* roles the caller, has had since the request arrived.
Call == [pc     : Pcs,
         op     : Ops \cup {"none"},
         user   : Users \cup {NoUser},
         token  : Tokens \cup {NoToken},
         given  : Passwords \cup {NoPassword},
         hash   : Passwords \cup {NoPassword},
         now    : Nat,
         during : SUBSET (Passwords \cup {NoPassword} \cup Roles),
         answer : Answers \cup {"none"}]

Idle == [pc |-> "idle", op |-> "none", user |-> NoUser, token |-> NoToken,
         given |-> NoPassword, hash |-> NoPassword, now |-> 0, during |-> {},
         answer |-> "none"]

Present(u) == accounts[u] # NoAccount

IsOpen(t) == t \in Tokens /\ sessions[t].state = "open"

\* A session whose next request would be accepted.
Live(t) == IsOpen(t) /\ clock < sessions[t].expires

Reply(p, a) ==
  call' = [call EXCEPT ![p] = [Idle EXCEPT !.pc = "answered", !.answer = a]]

At(p, pc) == call[p].pc = pc

\* The sessions in S end; the rest of the table is as it was.
End(S) == sessions' = [t \in Tokens |-> IF t \in S THEN Ended ELSE sessions[t]]

-----------------------------------------------------------------------------
(* Login.                                                                  *)

LoginBegin(p) ==
  /\ At(p, "idle")
  /\ \E u \in Users :
       call' = [call EXCEPT ![p] =
                  [Idle EXCEPT !.pc = "read", !.op = "login", !.user = u,
                               !.during = {accounts[u].password}]]
  /\ UNCHANGED <<accounts, sessions, handed, clock, purge>>

\* SELECT id, password_hash ... WHERE username = ?
LoginRead(p) ==
  /\ At(p, "read")
  /\ \/ /\ ~Present(call[p].user)
        /\ Reply(p, "unauthorized")
     \/ /\ Present(call[p].user)
        /\ call' = [call EXCEPT ![p] =
                      [@ EXCEPT !.pc = "compare",
                                !.hash = accounts[call[p].user].password]]
  /\ UNCHANGED <<accounts, sessions, handed, clock, purge>>

Admit(p, w) ==
  call' = [call EXCEPT ![p] = [@ EXCEPT !.pc = "open", !.given = w,
                                        !.hash = NoPassword, !.now = clock]]

\* Variant: the result of the comparison is not looked at.
LoginCompareIgnored(p) ==
  /\ At(p, "compare")
  /\ \E w \in Passwords : Admit(p, w)
  /\ UNCHANGED <<accounts, sessions, handed, clock, purge>>

\* CompareHashAndPassword, newSessionToken, time.Now().  What was typed is
\* not looked at before.
LoginCompare(p) ==
  /\ At(p, "compare")
  /\ \E w \in Passwords :
       IF w = call[p].hash THEN Admit(p, w) ELSE Reply(p, "unauthorized")
  /\ UNCHANGED <<accounts, sessions, handed, clock, purge>>

NewSession(u, now) ==
  [state |-> "open", user |-> u, created |-> now, expires |-> now + TTL]

\* INSERT INTO sessions; its foreign key needs the account.
\* Bound: only while there is a token left.
LoginOpen(p) ==
  /\ At(p, "open")
  /\ \/ /\ ~Present(call[p].user)
        /\ Reply(p, "error")
        /\ UNCHANGED sessions
     \/ /\ Present(call[p].user)
        /\ \E t \in Tokens :
             /\ sessions[t] = Unissued
             /\ sessions' = [sessions EXCEPT ![t] =
                               NewSession(call[p].user, call[p].now)]
             /\ call' = [call EXCEPT ![p] = [Idle EXCEPT !.pc = "stamp",
                                               !.op = "login", !.token = t]]
  /\ UNCHANGED <<accounts, handed, clock, purge>>

\* UPDATE users SET last_login_at, whose failure is ignored; then the answer
\* with the token.
LoginStamp(p) ==
  /\ At(p, "stamp")
  /\ handed' = handed \cup {call[p].token}
  /\ Reply(p, "ok")
  /\ UNCHANGED <<accounts, sessions, clock, purge>>

-----------------------------------------------------------------------------
(* requireAuth and requireAdmin.                                           *)

\* Somebody presents a token he was given.  ("set_password" has an id in its
\* path; the others are about their caller.)
RequestBegin(p) ==
  /\ At(p, "idle")
  /\ \E op \in Ops \ {"login"}, t \in handed, u \in Users \cup {NoUser} :
       /\ op = "set_password" <=> u # NoUser
       /\ call' = [call EXCEPT ![p] =
                     [Idle EXCEPT !.pc = "slide", !.op = op, !.token = t,
                                  !.user = u, !.now = clock,
                                  !.during = IF op = "set_password" /\ IsOpen(t)
                                    THEN {accounts[sessions[t].user].role}
                                    ELSE {}]]
  /\ UNCHANGED <<accounts, sessions, handed, clock, purge>>

\* The body does not decode; there is no token, or one that was never issued.
Refuse(p) ==
  /\ At(p, "idle")
  /\ Reply(p, "refused") \/ Reply(p, "unauthorized")
  /\ UNCHANGED <<accounts, sessions, handed, clock, purge>>

\* Variant: the UPDATE only looks for the token.
SlideMatchesAny(t, now) == IsOpen(t)

\* WHERE token = ? AND expires_at > ?
SlideMatches(t, now) == IsOpen(t) /\ sessions[t].expires > now

\* Variant: the session is good until the second of its last request.
SlideToNow(now) == now

\* Variant: the expiry is one window too early.
SlideBack(now) == now - TTL

SlidTo(now) == now + TTL

\* The UPDATE of Lookup.
LookupSlide(p) ==
  LET t == call[p].token
  IN /\ At(p, "slide")
     /\ \/ /\ SlideMatches(t, call[p].now)
           /\ sessions' = [sessions EXCEPT ![t] =
                             [@ EXCEPT !.expires = SlidTo(call[p].now)]]
           /\ call' = [call EXCEPT ![p] = [@ EXCEPT !.pc = "user", !.now = 0]]
        \/ /\ ~SlideMatches(t, call[p].now)
           /\ Reply(p, "unauthorized")
           /\ UNCHANGED sessions
     /\ UNCHANGED <<accounts, handed, clock, purge>>

\* Variant: requireAdmin does not look at the role.
AnyoneMay(op, role) == op \in Ops

May(op, role) == op = "set_password" => role = "admin"

Proceed(p, u) ==
  \/ /\ call[p].op = "use"
     /\ Reply(p, "ok")
  \/ /\ call[p].op = "logout"
     /\ call' = [call EXCEPT ![p] = [@ EXCEPT !.pc = "end"]]
  \/ /\ call[p].op = "password"
     /\ call' = [call EXCEPT ![p] = [@ EXCEPT !.pc = "find", !.token = NoToken,
                                              !.user = u]]
  \/ /\ call[p].op = "set_password"
     /\ call' = [call EXCEPT ![p] = [@ EXCEPT !.pc = "find",
                                              !.token = NoToken]]

\* The SELECT of Lookup, the role check, and into the handler.
LookupUser(p) ==
  LET u == sessions[call[p].token].user
  IN /\ At(p, "user")
     /\ \/ /\ ~IsOpen(call[p].token)
           /\ Reply(p, "unauthorized")
        \/ /\ IsOpen(call[p].token)
           /\ IF May(call[p].op, accounts[u].role)
                THEN Proceed(p, u)
                ELSE Reply(p, "forbidden")
     /\ UNCHANGED <<accounts, sessions, handed, clock, purge>>

-----------------------------------------------------------------------------
(* Logout and ChangePassword.                                              *)

\* DELETE FROM sessions WHERE token = ?, whose failure is ignored.
LogoutEnd(p) ==
  /\ At(p, "end")
  /\ End({call[p].token}) \/ UNCHANGED sessions
  /\ Reply(p, "ok")
  /\ UNCHANGED <<accounts, handed, clock, purge>>

\* The password is too short, or there is no such account.
PasswordFind(p) ==
  /\ At(p, "find")
  /\ \/ Reply(p, "refused")
     \/ /\ Present(call[p].user)
        /\ call' = [call EXCEPT ![p] = [@ EXCEPT !.pc = "write"]]
  /\ UNCHANGED <<accounts, sessions, handed, clock, purge>>

\* The logins of u that are under way see w too.
Witness(u, w) ==
  [q \in Procs |->
     IF call[q].op = "login" /\ call[q].user = u
       THEN [call[q] EXCEPT !.during = @ \cup {w}]
       ELSE call[q]]

\* UPDATE users SET password_hash; that it matched nothing is not noticed.
\* The new password is not looked at before.
PasswordWrite(p) ==
  LET u == call[p].user
  IN /\ At(p, "write")
     /\ IF Present(u)
          THEN \E w \in Passwords :
                 /\ accounts' = [accounts EXCEPT ![u] = [@ EXCEPT !.password = w]]
                 /\ call' = [Witness(u, w) EXCEPT ![p] =
                               [Idle EXCEPT !.pc = "answered", !.answer = "ok"]]
          ELSE Reply(p, "ok") /\ UNCHANGED accounts
     /\ UNCHANGED <<sessions, handed, clock, purge>>

-----------------------------------------------------------------------------
(* The end of every handler.                                               *)

Finish(p) ==
  /\ At(p, "answered")
  /\ call' = [call EXCEPT ![p] = Idle]
  /\ UNCHANGED <<accounts, sessions, handed, clock, purge>>

\* The client went away or a statement failed.  Login's SELECT and
\* requireAuth answer 401 whatever the error was.
Abort(p) ==
  /\ call[p].pc \notin {"idle", "answered"}
  /\ Reply(p, IF call[p].pc \in {"read", "slide", "user"} THEN "unauthorized"
                                                          ELSE "error")
  /\ UNCHANGED <<accounts, sessions, handed, clock, purge>>

-----------------------------------------------------------------------------
(* Around the handlers.                                                    *)

\* Variant: foreign_keys is OFF, and nothing cascades.
CascadeOff(u) == {t \in Tokens : u \notin Users}

\* ON DELETE CASCADE.
Cascade(u) == {t \in Tokens : sessions[t].user = u}

\* DELETE FROM users; which account may go is the concern of Accounts.
DeleteAccount(u) ==
  /\ Present(u)
  /\ accounts' = [accounts EXCEPT ![u] = NoAccount]
  /\ End(Cascade(u))
  /\ UNCHANGED <<handed, clock, purge, call>>

\* UPDATE users SET role.  The requests of u that are under way see r too.
ChangeRole(u, r) ==
  /\ Present(u)
  /\ accounts[u].role # r
  /\ accounts' = [accounts EXCEPT ![u] = [@ EXCEPT !.role = r]]
  /\ call' = [q \in Procs |->
                IF call[q].op = "set_password" /\ IsOpen(call[q].token)
                     /\ sessions[call[q].token].user = u
                  THEN [call[q] EXCEPT !.during = @ \cup {r}]
                  ELSE call[q]]
  /\ UNCHANGED <<sessions, handed, clock, purge>>

\* Variant: the second is the one the daemon was first started at.
PurgeBeginAtStart ==
  /\ purge = NoTime
  /\ purge' = 0
  /\ UNCHANGED <<accounts, sessions, handed, clock, call>>

\* PurgeExpired reads the time ...
PurgeBegin ==
  /\ purge = NoTime
  /\ purge' = clock
  /\ UNCHANGED <<accounts, sessions, handed, clock, call>>

\* Variant: the purge also takes what expires in the next second.
StaleNextSecond(t) == IsOpen(t) /\ sessions[t].expires <= purge + 1

\* WHERE expires_at <= ?
Stale(t) == IsOpen(t) /\ sessions[t].expires <= purge

\* ... and deletes.
PurgeDelete ==
  /\ purge # NoTime
  /\ End({t \in Tokens : Stale(t)})
  /\ purge' = NoTime
  /\ UNCHANGED <<accounts, handed, clock, call>>

\* The DELETE fails; that is logged.
PurgeFail ==
  /\ purge # NoTime
  /\ purge' = NoTime
  /\ UNCHANGED <<accounts, sessions, handed, clock, call>>

\* The process is gone, and its goroutines.
Crash ==
  /\ call' = [p \in Procs |-> Idle]
  /\ purge' = NoTime
  /\ UNCHANGED <<accounts, sessions, handed, clock>>

\* WipeAllSessions, before any handler runs.
Wipe ==
  /\ \A p \in Procs : call[p] = Idle
  /\ purge = NoTime
  /\ End({t \in Tokens : IsOpen(t)})
  /\ UNCHANGED <<accounts, handed, clock, purge, call>>

Tick ==
  /\ clock < MaxTime
  /\ clock' = clock + 1
  /\ UNCHANGED <<accounts, sessions, handed, purge, call>>

-----------------------------------------------------------------------------
(* The specification.                                                      *)

\* The accounts are made before the first login, with either role, and only
\* deleted afterwards: creating them is the concern of Accounts.
Init ==
  /\ accounts \in [Users -> [password : {First}, role : Roles]]
  /\ sessions = [t \in Tokens |-> Unissued]
  /\ handed = {}
  /\ clock = 0
  /\ purge = NoTime
  /\ call = [p \in Procs |-> Idle]

Arrive(p) == LoginBegin(p) \/ RequestBegin(p) \/ Refuse(p)

Serve(p) ==
  \/ LoginRead(p) \/ LoginCompare(p) \/ LoginOpen(p) \/ LoginStamp(p)
  \/ LookupSlide(p) \/ LookupUser(p)
  \/ LogoutEnd(p) \/ PasswordFind(p) \/ PasswordWrite(p)
  \/ Finish(p)

Purger == PurgeBegin \/ PurgeDelete \/ PurgeFail

\* What happens while the daemon serves, and what happens to it.
Serving ==
  \/ \E p \in Procs : Arrive(p) \/ Serve(p) \/ Abort(p)
  \/ \E u \in Users : DeleteAccount(u)
  \/ \E u \in Users, r \in Roles : ChangeRole(u, r)
  \/ Purger

Next == Serving \/ Crash \/ Wipe \/ Tick

Spec == Init /\ [][Next]_vars

-----------------------------------------------------------------------------
(* The register the service keeps (module SessionRegister).                *)

Register == INSTANCE SessionRegister
              WITH register <- sessions,
                   staff <- {u \in Users : Present(u)},
                   now <- clock

-----------------------------------------------------------------------------
(* Properties that hold.                                                   *)

\* The type of every variable.
TypeOK ==
  /\ accounts \in [Users -> Account]
  /\ sessions \in [Tokens -> Session]
  /\ handed \subseteq Tokens
  /\ clock \in Nat
  /\ purge \in Nat \cup {NoTime}
  /\ call \in [Procs -> Call]

\* A login succeeds only with a password that the account has had since the
\* login arrived: one that was replaced before then opens nothing, although
\* the hash is read, compared and acted on in three steps (auth.go:237-266).
LoginPasswordWasCurrent ==
  \A p \in Procs : At(p, "open") => call[p].given \in call[p].during

\* Only somebody who was an admin at some moment since his request arrived
\* sets another's password.  He may have been demoted by the time it is
\* written: requireAdmin reads the role once (middleware.go:47).
SettersWereAdmins ==
  \A p \in Procs :
    (call[p].op = "set_password" /\ call[p].pc \in {"find", "write"})
      => "admin" \in call[p].during

\* A session lasts at least SessionTTL from its login and at most SessionTTL
\* from now, in whatever order the requests that carry it store the expiry
\* they computed (auth.go:286-290).
SessionLastsItsTerm ==
  \A t \in Tokens :
    IsOpen(t) => /\ sessions[t].created + TTL <= sessions[t].expires
                 /\ sessions[t].expires <= clock + TTL

\* A session that is still good is taken away only by a logout that carries
\* its token, with its account, or before the daemon serves anybody; never
\* by the purge, whose second may be an old one (auth.go:330).
LiveSessionsEndForAReason ==
  [][\A t \in Tokens :
       (Live(t) /\ ~IsOpen(t)') =>
         \/ \E p \in Procs : /\ At(p, "end")
                             /\ call[p].token = t
                             /\ call'[p].answer = "ok"
         \/ accounts'[sessions[t].user] = NoAccount
         \/ purge = NoTime /\ \A p \in Procs : call[p] = Idle]_vars

\* An expired session comes back only through a request that arrived before
\* it expired and was kept waiting (auth.go:288).
LateRequestsDoNotRevive ==
  [][\A t \in Tokens :
       (IsOpen(t) /\ ~Live(t) /\ Live(t)') =>
         \E p \in Procs : /\ call[p].token = t
                           /\ call'[p].pc = "user"
                           /\ call[p].now < sessions[t].expires]_vars

\* Seen from outside, sessions are opened for accounts that exist, extended,
\* closed, and end with their account; a token is good for one session, and
\* one whose session ended is never good again.
ImplementsRegister == Register!RegisterSpec

=============================================================================
