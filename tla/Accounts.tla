------------------------------ MODULE Accounts ------------------------------
(***************************************************************************)
(* The accounts: first-boot setup and the admin's user management, in      *)
(* internal/auth/auth.go behind the handlers of internal/httpapi.  As in   *)
(* RepairRequests the handlers are goroutines that interleave between SQL  *)
(* statements; an action is one statement with the code up to the next.    *)
(* What a handler checks in one statement (the table is empty, another     *)
(* admin is left) need not hold when it writes.                            *)
(*                                                                         *)
(* A management handler starts here when requireAdmin has let it through:  *)
(* the role was read then, and is not read again.  Sessions, passwords and *)
(* logins after the first are not state of this module.                    *)
(***************************************************************************)
EXTENDS Naturals

CONSTANTS Procs,   \* handler goroutines that may run at the same time
          Names,   \* usernames, equal up to case
          MaxId,   \* bound on the ids the AUTOINCREMENT key hands out
          NoName,  \* "no name"
          NoId     \* "no id"

ASSUME AccountsAssumption ==
  /\ MaxId \in Nat
  /\ NoName \notin Names
  /\ NoId \notin 1..MaxId

VARIABLES accounts,  \* table users, by id
          seq,       \* the key the next INSERT takes (sqlite_sequence + 1)
          call       \* the handler each goroutine is executing

vars == <<accounts, seq, call>>

-----------------------------------------------------------------------------
(* Data.                                                                   *)

Ids == 1..MaxId

Roles == {"admin", "user"}

NoAccount == [name |-> NoName, role |-> "none"]

Account == [name : Names, role : Roles] \cup {NoAccount}

Ops == {"setup", "create", "delete", "role"}

Pcs == {"idle", "count", "insert", "login", "session", "find", "admins",
        "write", "answered"}

Answers == {"ok", "conflict", "bad_request", "forbidden", "not_found",
            "last_admin", "error"}

\* name is the name to insert or, once the target is found, its name.
Call == [pc     : Pcs,
         op     : Ops \cup {"none"},
         target : Ids \cup {NoId},
         name   : Names \cup {NoName},
         role   : Roles \cup {"none"},
         answer : Answers \cup {"none"}]

Idle == [pc |-> "idle", op |-> "none", target |-> NoId, name |-> NoName,
         role |-> "none", answer |-> "none"]

Present(i) == accounts[i] # NoAccount

Admins == {i \in Ids : accounts[i].role = "admin"}

\* Variant: the username column has no UNIQUE constraint.
TakenNever(n) == n \notin Names

Taken(n) == \E i \in Ids : accounts[i].name = n

-----------------------------------------------------------------------------
(* How a handler starts and how it ends.                                   *)

Enter(p, op, pc, target, name, role) ==
  /\ call[p].pc = "idle"
  /\ call' = [call EXCEPT ![p] = [Idle EXCEPT !.pc = pc, !.op = op,
                                    !.target = target, !.name = name,
                                    !.role = role]]
  /\ UNCHANGED <<accounts, seq>>

\* requireAdmin: somebody who is an admin at this moment is calling.
EnterAsAdmin(p, op, pc, target, name, role) ==
  /\ Admins # {}
  /\ Enter(p, op, pc, target, name, role)

Reply(p, a) ==
  call' = [call EXCEPT ![p] = [@ EXCEPT !.pc = "answered", !.name = NoName,
                                        !.role = "none", !.answer = a]]

Goto(p, pc) == call' = [call EXCEPT ![p].pc = pc]

At(p, pc, op) == call[p].pc = pc /\ call[p].op = op

\* requireAdmin turns a plain user away.
Forbidden(p) ==
  /\ call[p].pc = "idle"
  /\ \E i \in Ids : accounts[i].role = "user"
  /\ \E op \in Ops \ {"setup"} :
       call' = [call EXCEPT ![p] = [Idle EXCEPT !.pc = "answered", !.op = op,
                                                !.answer = "forbidden"]]
  /\ UNCHANGED <<accounts, seq>>

-----------------------------------------------------------------------------
(* Setup, and CreateUser for setup and for the admin.                      *)

SetupBegin(p) ==
  \E n \in Names : Enter(p, "setup", "count", NoId, n, "admin")

\* Variant: setup does not ask whether there are accounts.
SetupCountUnchecked(p) ==
  /\ At(p, "count", "setup")
  /\ Reply(p, "bad_request") \/ Goto(p, "insert")
  /\ UNCHANGED <<accounts, seq>>

\* CountUsers, then the body is decoded and its fields checked.
SetupCount(p) ==
  /\ At(p, "count", "setup")
  /\ \/ /\ \E i \in Ids : Present(i)
        /\ Reply(p, "conflict")
     \/ /\ \A i \in Ids : ~Present(i)
        /\ Reply(p, "bad_request") \/ Goto(p, "insert")
  /\ UNCHANGED <<accounts, seq>>

CreateBegin(p) ==
  \E n \in Names, r \in Roles :
    EnterAsAdmin(p, "create", "insert", NoId, n, r)

\* The body does not decode, or a field is refused before the INSERT.
CreateRefuse(p) ==
  /\ call[p].pc = "idle"
  /\ Admins # {}
  /\ call' = [call EXCEPT ![p] = [Idle EXCEPT !.pc = "answered",
                                    !.op = "create", !.answer = "bad_request"]]
  /\ UNCHANGED <<accounts, seq>>

\* Variant: a key without AUTOINCREMENT, one more than the greatest present.
InsertUserReusingKey(p) ==
  LET k == CHOOSE i \in 1..(MaxId + 1) :
             /\ \A j \in Ids : Present(j) => j < i
             /\ i > 1 => Present(i - 1)
  IN /\ call[p].pc = "insert"
     /\ k \in Ids
     /\ ~Taken(call[p].name)
     /\ accounts' = [accounts EXCEPT ![k] =
                       [name |-> call[p].name, role |-> call[p].role]]
     /\ seq' = seq
     /\ IF call[p].op = "setup" THEN Goto(p, "login") ELSE Reply(p, "ok")

\* Bound: the INSERT is only modelled while there is an id to hand out.
InsertUser(p) ==
  /\ call[p].pc = "insert"
  /\ seq \in Ids
  /\ ~Taken(call[p].name)
  /\ accounts' = [accounts EXCEPT ![seq] =
                    [name |-> call[p].name, role |-> call[p].role]]
  /\ seq' = seq + 1
  /\ IF call[p].op = "setup" THEN Goto(p, "login") ELSE Reply(p, "ok")

\* The UNIQUE constraint on username: handleSetup reports it as 400,
\* handleCreateUser as 409.
InsertClash(p) ==
  /\ call[p].pc = "insert"
  /\ Taken(call[p].name)
  /\ Reply(p, IF call[p].op = "setup" THEN "bad_request" ELSE "conflict")
  /\ UNCHANGED <<accounts, seq>>

\* Login reads the account by name and checks the password.  It fails when
\* the account is gone or its password is no longer the one just set.
SetupLogin(p) ==
  /\ At(p, "login", "setup")
  /\ \/ Reply(p, "error")
     \/ \E i \in Ids :
          /\ accounts[i].name = call[p].name
          /\ call' = [call EXCEPT ![p] = [@ EXCEPT !.pc = "session",
                                                   !.target = i]]
  /\ UNCHANGED <<accounts, seq>>

\* INSERT INTO sessions; its foreign key needs the account.
SetupSession(p) ==
  /\ At(p, "session", "setup")
  /\ Reply(p, IF Present(call[p].target) THEN "ok" ELSE "error")
  /\ UNCHANGED <<accounts, seq>>

-----------------------------------------------------------------------------
(* Delete and ChangeRole: find, count the admins, write.                   *)

DeleteBegin(p) ==
  \E i \in Ids : EnterAsAdmin(p, "delete", "find", i, NoName, "none")

\* Variant: ChangeRole does not validate the role.
RoleBeginUnchecked(p) ==
  \E i \in Ids, r \in Roles \cup {"owner"} :
    EnterAsAdmin(p, "role", "find", i, NoName, r)

RoleBegin(p) ==
  \E i \in Ids, r \in Roles : EnterAsAdmin(p, "role", "find", i, NoName, r)

\* ErrBadRole.
RoleRefuse(p) ==
  /\ call[p].pc = "idle"
  /\ Admins # {}
  /\ call' = [call EXCEPT ![p] = [Idle EXCEPT !.pc = "answered",
                                    !.op = "role", !.answer = "bad_request"]]
  /\ UNCHANGED <<accounts, seq>>

\* Variant: the guard is on Delete only.
TakesAdminAwayByDelete(p) ==
  accounts[call[p].target].role = "admin" /\ call[p].op = "delete"

\* Only taking an admin away needs the count.
TakesAdminAway(p) ==
  /\ accounts[call[p].target].role = "admin"
  /\ call[p].role # "admin"

FindTarget(p) ==
  /\ call[p].pc = "find"
  /\ \/ /\ ~Present(call[p].target)
        /\ Reply(p, "not_found")
     \/ /\ Present(call[p].target)
        /\ call' = [call EXCEPT ![p] =
                      [@ EXCEPT !.pc = IF TakesAdminAway(p) THEN "admins"
                                                            ELSE "write",
                                !.name = accounts[call[p].target].name]]
  /\ UNCHANGED <<accounts, seq>>

\* countAdmins.
AnotherAdmin == \E i, j \in Admins : i # j

CountAdmins(p) ==
  /\ call[p].pc = "admins"
  /\ IF AnotherAdmin THEN Goto(p, "write") ELSE Reply(p, "last_admin")
  /\ UNCHANGED <<accounts, seq>>

\* Variant: RowsAffected is not looked at.
DeleteWriteUnchecked(p) ==
  /\ At(p, "write", "delete")
  /\ accounts' = [accounts EXCEPT ![call[p].target] = NoAccount]
  /\ Reply(p, "ok")
  /\ UNCHANGED seq

\* DELETE ... WHERE id = ?, and RowsAffected.
DeleteWrite(p) ==
  /\ At(p, "write", "delete")
  /\ accounts' = [accounts EXCEPT ![call[p].target] = NoAccount]
  /\ Reply(p, IF Present(call[p].target) THEN "ok" ELSE "not_found")
  /\ UNCHANGED seq

\* UPDATE ... WHERE id = ?; that it matched nothing is not noticed.
RoleWrite(p) ==
  LET i == call[p].target
  IN /\ At(p, "write", "role")
     /\ accounts' = IF Present(i)
                      THEN [accounts EXCEPT ![i].role = call[p].role]
                      ELSE accounts
     /\ Reply(p, "ok")
     /\ UNCHANGED seq

-----------------------------------------------------------------------------
(* The end of every handler.                                               *)

Finish(p) ==
  /\ call[p].pc = "answered"
  /\ call' = [call EXCEPT ![p] = Idle]
  /\ UNCHANGED <<accounts, seq>>

\* The request is cancelled, a statement fails, or the daemon stops.
Abort(p) ==
  /\ call[p].pc \notin {"idle", "answered"}
  /\ Reply(p, "error")
  /\ UNCHANGED <<accounts, seq>>

-----------------------------------------------------------------------------
(* The specification.                                                      *)

Init ==
  /\ accounts = [i \in Ids |-> NoAccount]
  /\ seq = 1
  /\ call = [p \in Procs |-> Idle]

Arrive(p) ==
  \/ SetupBegin(p) \/ CreateBegin(p) \/ CreateRefuse(p)
  \/ DeleteBegin(p) \/ RoleBegin(p) \/ RoleRefuse(p) \/ Forbidden(p)

Serve(p) ==
  \/ SetupCount(p) \/ InsertUser(p) \/ InsertClash(p)
  \/ SetupLogin(p) \/ SetupSession(p)
  \/ FindTarget(p) \/ CountAdmins(p) \/ DeleteWrite(p) \/ RoleWrite(p)
  \/ Finish(p)

Next == \E p \in Procs : Arrive(p) \/ Serve(p) \/ Abort(p)

Spec == Init /\ [][Next]_vars

-----------------------------------------------------------------------------
(* The directory the service keeps (module Directory).                     *)

Strict == INSTANCE Directory
            WITH entries <- accounts, next <- seq, Vacant <- NoAccount,
                 Guarded <- TRUE

Loose == INSTANCE Directory
           WITH entries <- accounts, next <- seq, Vacant <- NoAccount,
                Guarded <- FALSE

-----------------------------------------------------------------------------
(* Properties that hold.                                                   *)

\* The type of every variable.
TypeOK ==
  /\ accounts \in [Ids -> Account]
  /\ seq \in 1..(MaxId + 1)
  /\ call \in [Procs -> Call]

\* A handler deletes or changes the account it found, or none: its id does
\* not come to name somebody else while it counts the admins, although
\* accounts are deleted and created meanwhile.
TargetIsWhoWasFound ==
  \A p \in Procs :
    (call[p].pc \in {"admins", "write"} /\ Present(call[p].target))
      => accounts[call[p].target].name = call[p].name

\* A Delete that is answered with success removed the account for good, and
\* of two that race for the same account only one is told so.
DeleteAnswerIsTrue ==
  \A p \in Procs :
    (At(p, "answered", "delete") /\ call[p].answer = "ok") =>
      /\ ~Present(call[p].target)
      /\ \A q \in Procs \ {p} :
           ~(At(q, "answered", "delete") /\ call[q].answer = "ok"
               /\ call[q].target = call[p].target)

\* With any number of handlers: no two accounts share a name, and an id is
\* handed out once.
ImplementsLooseDirectory == Loose!DirectorySpec

-----------------------------------------------------------------------------
(* What the code's comments say and the code does not do.                  *)

\* "Refuses to delete the last admin" and "Refuses to demote the last admin"
\* (auth.go:151, 192).  Where there are accounts one is an admin, or nobody
\* can manage users or set up again.  Two admins removed at once break it.
NotLockedOut == (\E i \in Ids : Present(i)) => Admins # {}

\* "handleSetup creates the very first admin user.  Only callable while the
\* users table is empty" (auth_handlers.go:27).  Two setups at once break it.
SetupMakesTheFirst ==
  [][\A p \in Procs :
       (At(p, "insert", "setup") /\ call'[p].pc = "login")
         => \A i \in Ids : ~Present(i)]_vars

=============================================================================
