---------------------------- MODULE AccountsProofs ----------------------------
(***************************************************************************)
(* Theorems about Accounts, for any number of handlers, names and ids.     *)
(*                                                                         *)
(* TargetIsWhoWasFound rests on the AUTOINCREMENT key: an id that names an *)
(* account, or that a handler has found, lies below the next one to be     *)
(* handed out, so no INSERT gives it to somebody else.                     *)
(***************************************************************************)
EXTENDS Accounts, TLAPS

\* The handler has found its target and is on its way to write.
Holding(p) == call[p].pc \in {"admins", "write"}

HandlerInv(p) ==
  /\ call[p].pc \in {"count", "insert"} =>
       call[p].name \in Names /\ call[p].role \in Roles
  /\ call[p].pc = "find" => call[p].target \in Ids
  /\ (call[p].op = "role" /\ (call[p].pc = "find" \/ Holding(p)))
       => call[p].role \in Roles
  /\ Holding(p) =>
       /\ call[p].target \in Ids
       /\ call[p].target < seq
       /\ Present(call[p].target) =>
            accounts[call[p].target].name = call[p].name

IInv ==
  /\ TypeOK
  /\ \A i \in Ids : Present(i) => i < seq
  /\ \A p \in Procs : HandlerInv(p)

\* What no step takes back: an id that was handed out names the account it
\* named, or none.
KeepsIds ==
  /\ seq <= seq'
  /\ \A i \in Ids : (i < seq /\ accounts'[i] # NoAccount) =>
       /\ accounts[i] # NoAccount
       /\ accounts'[i].name = accounts[i].name
  /\ \A i \in Ids : accounts'[i] # NoAccount => i < seq'

LEMMA IdleType == Idle \in Call
  BY DEF Idle, Call, Pcs

LEMMA InvInit == Init => IInv
<1> SUFFICES ASSUME Init PROVE IInv
  OBVIOUS
<1>1. TypeOK
  BY AccountsAssumption, IdleType DEF Init, TypeOK, Account, Ids
<1> QED
  BY <1>1 DEF Init, IInv, Present, Holding, HandlerInv, Idle

\* Handing over: if p's record becomes c, which is in order, and ids are
\* kept, the invariant is kept.
LEMMA Handover ==
  ASSUME IInv, KeepsIds, accounts' \in [Ids -> Account],
         seq' \in 1..(MaxId + 1),
         NEW p \in Procs, NEW c \in Call, call' = [call EXCEPT ![p] = c],
         HandlerInv(p)'
  PROVE  IInv'
<1> /\ call \in [Procs -> Call]
    /\ seq \in Nat /\ seq' \in Nat
  BY AccountsAssumption DEF IInv, TypeOK
<1>1. TypeOK'
  BY DEF TypeOK
<1>2. ASSUME NEW q \in Procs, q # p PROVE HandlerInv(q)'
  <2>1. call'[q] = call[q] /\ HandlerInv(q)
    BY <1>2 DEF IInv
  <2>2. Holding(q) => call[q].target \in Ids /\ call[q].target < seq
    BY <2>1 DEF HandlerInv
  <2>3. call[q].target \in Ids => call[q].target \in Nat
    BY DEF Ids
  <2> QED
    BY <2>1, <2>2, <2>3 DEF HandlerInv, Holding, Present, KeepsIds
<1> QED
  BY <1>1, <1>2 DEF IInv, KeepsIds, Present

LEMMA NothingWritten ==
  ASSUME IInv, UNCHANGED <<accounts, seq>>
  PROVE  /\ KeepsIds
         /\ accounts' \in [Ids -> Account]
         /\ seq' \in 1..(MaxId + 1)
<1> seq \in Nat
  BY AccountsAssumption DEF IInv, TypeOK
<1> QED
  BY DEF IInv, TypeOK, KeepsIds, Present

\* A handler that has nothing left to write cannot spoil anything.
LEMMA DoneStep ==
  ASSUME IInv, KeepsIds, accounts' \in [Ids -> Account],
         seq' \in 1..(MaxId + 1), NEW p \in Procs, NEW c \in Call,
         c.pc \in {"idle", "answered", "login", "session"},
         call' = [call EXCEPT ![p] = c]
  PROVE  IInv'
<1>1. call'[p] = c
  BY DEF IInv, TypeOK
<1>2. HandlerInv(p)'
  BY <1>1 DEF HandlerInv, Holding
<1> QED
  BY <1>2, Handover

LEMMA ReplyStep ==
  ASSUME IInv, KeepsIds, accounts' \in [Ids -> Account],
         seq' \in 1..(MaxId + 1), NEW p \in Procs, NEW a \in Answers,
         Reply(p, a)
  PROVE  IInv'
<1> DEFINE c == [call[p] EXCEPT !.pc = "answered", !.name = NoName,
                                !.role = "none", !.answer = a]
<1>1. call[p] \in Call /\ call' = [call EXCEPT ![p] = c]
  BY DEF IInv, TypeOK, Reply
<1>2. c \in Call /\ c.pc = "answered"
  BY <1>1 DEF Call, Pcs
<1> HIDE DEF c
<1> QED
  BY <1>1, <1>2, DoneStep

LEMMA RefusedStep ==
  ASSUME IInv, NEW p \in Procs, NEW op \in Ops, NEW a \in Answers,
         call' = [call EXCEPT ![p] = [Idle EXCEPT !.pc = "answered", !.op = op,
                                                  !.answer = a]],
         UNCHANGED <<accounts, seq>>
  PROVE  IInv'
<1> DEFINE c == [Idle EXCEPT !.pc = "answered", !.op = op, !.answer = a]
<1>1. c \in Call /\ c.pc = "answered"
  BY DEF Call, Pcs, Idle
<1>2. call' = [call EXCEPT ![p] = c]
  OBVIOUS
<1> HIDE DEF c
<1> QED
  BY <1>1, <1>2, DoneStep, NothingWritten

\* What an arriving handler starts with.
LEMMA EnterStep ==
  ASSUME IInv, NEW p \in Procs, NEW op \in Ops,
         NEW pc \in {"count", "insert", "find"}, NEW i \in Ids \cup {NoId},
         NEW n \in Names \cup {NoName}, NEW r \in Roles \cup {"none"},
         Enter(p, op, pc, i, n, r),
         pc \in {"count", "insert"} => n \in Names /\ r \in Roles,
         pc = "find" => i \in Ids /\ (op = "role" => r \in Roles)
  PROVE  IInv'
<1> DEFINE c == [Idle EXCEPT !.pc = pc, !.op = op, !.target = i, !.name = n,
                             !.role = r]
<1>1. /\ call' = [call EXCEPT ![p] = c]
      /\ UNCHANGED <<accounts, seq>>
  BY DEF Enter
<1>2. /\ c \in Call
      /\ c.pc = pc /\ c.op = op /\ c.target = i /\ c.name = n /\ c.role = r
  BY DEF Call, Pcs, Idle
<1> HIDE DEF c
<1>3. call'[p] = c
  BY <1>1 DEF IInv, TypeOK
<1>4. HandlerInv(p)'
  BY <1>2, <1>3 DEF HandlerInv, Holding
<1> QED
  BY <1>1, <1>2, <1>4, Handover, NothingWritten

-----------------------------------------------------------------------------
(* The steps.                                                              *)

LEMMA ArriveStep == ASSUME IInv, NEW p \in Procs, Arrive(p) PROVE IInv'
<1>1. CASE SetupBegin(p)
  BY <1>1, EnterStep DEF SetupBegin, Ops, Roles
<1>2. CASE CreateBegin(p)
  BY <1>2, EnterStep DEF CreateBegin, EnterAsAdmin, Ops
<1>3. CASE CreateRefuse(p)
  BY <1>3, RefusedStep DEF CreateRefuse, Ops, Answers
<1>4. CASE DeleteBegin(p)
  BY <1>4, EnterStep DEF DeleteBegin, EnterAsAdmin, Ops
<1>5. CASE RoleBegin(p)
  BY <1>5, EnterStep DEF RoleBegin, EnterAsAdmin, Ops
<1>6. CASE RoleRefuse(p)
  BY <1>6, RefusedStep DEF RoleRefuse, Ops, Answers
<1>7. CASE Forbidden(p)
  BY <1>7, RefusedStep DEF Forbidden, Answers
<1> QED
  BY <1>1, <1>2, <1>3, <1>4, <1>5, <1>6, <1>7 DEF Arrive

LEMMA ServeStep == ASSUME IInv, NEW p \in Procs, Serve(p) PROVE IInv'
<1> /\ call \in [Procs -> Call]
    /\ call[p] \in Call
    /\ accounts \in [Ids -> Account]
    /\ seq \in 1..(MaxId + 1)
    /\ MaxId \in Nat
    /\ HandlerInv(p)
    /\ \A i \in Ids : accounts[i] # NoAccount => i < seq
  BY AccountsAssumption DEF IInv, TypeOK, Present
<1>1. ASSUME NEW pc \in {"insert", "login", "session"}, Goto(p, pc),
             call[p].pc \in {"count", "insert"}, KeepsIds,
             accounts' \in [Ids -> Account], seq' \in 1..(MaxId + 1),
             pc = "insert" => call[p].name \in Names /\ call[p].role \in Roles
      PROVE  IInv'
  <2> DEFINE c == [call[p] EXCEPT !.pc = pc]
  <2>1. /\ c \in Call
        /\ c.pc = pc /\ c.name = call[p].name /\ c.role = call[p].role
    BY DEF Call, Pcs
  <2>2. call' = [call EXCEPT ![p] = c]
    BY <1>1 DEF Goto
  <2> HIDE DEF c
  <2>3. HandlerInv(p)'
    BY <1>1, <2>1, <2>2 DEF HandlerInv, Holding
  <2> QED
    BY <1>1, <2>1, <2>2, <2>3, Handover
<1>2. CASE SetupCount(p)
  <2>1. CASE Goto(p, "insert")
    <3>1. call[p].name \in Names /\ call[p].role \in Roles
      BY <1>2 DEF SetupCount, At, HandlerInv
    <3> QED
      BY <1>1, <1>2, <2>1, <3>1, NothingWritten DEF SetupCount, At
  <2>2. CASE Reply(p, "conflict")
    BY <1>2, <2>2, ReplyStep, NothingWritten DEF SetupCount, Answers
  <2>3. CASE Reply(p, "bad_request")
    BY <1>2, <2>3, ReplyStep, NothingWritten DEF SetupCount, Answers
  <2> QED
    BY <1>2, <2>1, <2>2, <2>3 DEF SetupCount
<1>3. CASE InsertUser(p)
  <2>1. /\ seq \in Ids
        /\ accounts' = [accounts EXCEPT ![seq] =
                          [name |-> call[p].name, role |-> call[p].role]]
        /\ seq' = seq + 1
        /\ call[p].name \in Names /\ call[p].role \in Roles
    BY <1>3 DEF InsertUser, HandlerInv
  <2>2. accounts' \in [Ids -> Account] /\ seq' \in 1..(MaxId + 1)
    BY <2>1 DEF Account, Ids
  <2>3. KeepsIds
    BY <2>1 DEF KeepsIds, Ids
  <2>4. CASE Goto(p, "login")
    BY <1>1, <1>3, <2>2, <2>3, <2>4 DEF InsertUser
  <2>5. CASE Reply(p, "ok")
    BY <2>2, <2>3, <2>5, ReplyStep DEF Answers
  <2> QED
    BY <1>3, <2>4, <2>5 DEF InsertUser
<1>4. CASE InsertClash(p)
  BY <1>4, ReplyStep, NothingWritten DEF InsertClash, Answers
<1>5. CASE SetupLogin(p)
  <2>1. CASE Reply(p, "error")
    BY <1>5, <2>1, ReplyStep, NothingWritten DEF SetupLogin, Answers
  <2>2. ASSUME NEW i \in Ids,
               call' = [call EXCEPT ![p] = [@ EXCEPT !.pc = "session",
                                                     !.target = i]]
        PROVE  IInv'
    <3> DEFINE c == [call[p] EXCEPT !.pc = "session", !.target = i]
    <3>1. c \in Call /\ c.pc = "session"
      BY DEF Call, Pcs
    <3>2. call' = [call EXCEPT ![p] = c]
      BY <2>2
    <3> HIDE DEF c
    <3> QED
      BY <1>5, <3>1, <3>2, DoneStep, NothingWritten DEF SetupLogin
  <2> QED
    BY <1>5, <2>1, <2>2 DEF SetupLogin
<1>6. CASE SetupSession(p)
  BY <1>6, ReplyStep, NothingWritten DEF SetupSession, Answers
<1>7. CASE FindTarget(p)
  <2> DEFINE t  == call[p].target
             pc == IF TakesAdminAway(p) THEN "admins" ELSE "write"
             c  == [call[p] EXCEPT !.pc = pc, !.name = accounts[t].name]
  <2>1. CASE Reply(p, "not_found")
    BY <1>7, <2>1, ReplyStep, NothingWritten DEF FindTarget, Answers
  <2>2. CASE Present(t) /\ call' = [call EXCEPT ![p] = c]
    <3>1. /\ t \in Ids
          /\ accounts[t].name \in Names
          /\ t < seq
      BY <1>7, <2>2 DEF FindTarget, HandlerInv, Present, Account
    <3>2. pc \in {"admins", "write"}
      OBVIOUS
    <3>3. /\ c \in Call
          /\ c.pc = pc /\ c.op = call[p].op /\ c.target = t
          /\ c.role = call[p].role /\ c.name = accounts[t].name
      BY <3>1, <3>2 DEF Call, Pcs
    <3>4. call'[p] = c
      BY <2>2
    <3>5. UNCHANGED <<accounts, seq>> /\ call[p].pc = "find"
      BY <1>7 DEF FindTarget
    <3> HIDE DEF c, pc
    <3>6. HandlerInv(p)'
      BY <3>1, <3>2, <3>3, <3>4, <3>5 DEF HandlerInv, Holding, Present
    <3> QED
      BY <2>2, <3>3, <3>5, <3>6, Handover, NothingWritten
  <2> QED
    BY <1>7, <2>1, <2>2 DEF FindTarget
<1>8. CASE CountAdmins(p)
  <2>1. CASE Reply(p, "last_admin")
    BY <1>8, <2>1, ReplyStep, NothingWritten DEF CountAdmins, Answers
  <2>2. CASE Goto(p, "write")
    <3> DEFINE c == [call[p] EXCEPT !.pc = "write"]
    <3>1. /\ c \in Call
          /\ c.pc = "write" /\ c.op = call[p].op /\ c.target = call[p].target
          /\ c.role = call[p].role /\ c.name = call[p].name
      BY DEF Call, Pcs
    <3>2. call' = [call EXCEPT ![p] = c] /\ call'[p] = c
      BY <2>2 DEF Goto
    <3>3. UNCHANGED <<accounts, seq>> /\ call[p].pc = "admins"
      BY <1>8 DEF CountAdmins
    <3> HIDE DEF c
    <3>4. HandlerInv(p)'
      BY <3>1, <3>2, <3>3 DEF HandlerInv, Holding, Present
    <3> QED
      BY <3>1, <3>2, <3>3, <3>4, Handover, NothingWritten
  <2> QED
    BY <1>8, <2>1, <2>2 DEF CountAdmins
<1>9. CASE DeleteWrite(p)
  <2>1. /\ accounts' = [accounts EXCEPT ![call[p].target] = NoAccount]
        /\ UNCHANGED seq
    BY <1>9 DEF DeleteWrite
  <2>2. seq \in Nat /\ NoAccount \in Account
    BY AccountsAssumption DEF Account
  <2>3. accounts' \in [Ids -> Account]
    BY <2>1, <2>2
  <2>4. ASSUME NEW i \in Ids, accounts'[i] # NoAccount
        PROVE  accounts'[i] = accounts[i]
    BY <2>1, <2>4
  <2>5. KeepsIds
    BY <2>1, <2>2, <2>4 DEF KeepsIds
  <2> QED
    BY <1>9, <2>1, <2>3, <2>5, ReplyStep DEF DeleteWrite, Answers
<1>10. CASE RoleWrite(p)
  <2> DEFINE i == call[p].target
  <2>1. /\ i \in Ids
        /\ call[p].role \in Roles
        /\ UNCHANGED seq
    BY <1>10 DEF RoleWrite, At, HandlerInv, Holding
  <2>2. CASE Present(i)
    <3>1. accounts' = [accounts EXCEPT ![i].role = call[p].role]
      BY <1>10, <2>2 DEF RoleWrite
    <3>2. accounts[i] \in [name : Names, role : Roles]
      BY <2>1, <2>2 DEF Account, Present
    <3>3. /\ [accounts[i] EXCEPT !.role = call[p].role] \in Account
          /\ [accounts[i] EXCEPT !.role = call[p].role].name = accounts[i].name
      BY <2>1, <3>2 DEF Account
    <3>4. accounts' = [accounts EXCEPT ![i] =
                        [accounts[i] EXCEPT !.role = call[p].role]]
      BY <3>1
    <3>5. KeepsIds /\ accounts' \in [Ids -> Account]
      BY <2>1, <2>2, <3>3, <3>4 DEF KeepsIds, Present, Ids
    <3> QED
      BY <1>10, <2>1, <3>5, ReplyStep DEF RoleWrite, Answers
  <2>3. CASE ~Present(i)
    BY <1>10, <2>3, ReplyStep, NothingWritten DEF RoleWrite, Answers
  <2> QED
    BY <2>2, <2>3
<1>11. CASE Finish(p)
  BY <1>11, IdleType, DoneStep, NothingWritten DEF Finish, Idle
<1> QED
  BY <1>2, <1>3, <1>4, <1>5, <1>6, <1>7, <1>8, <1>9, <1>10, <1>11 DEF Serve

LEMMA InvStep == IInv /\ [Next]_vars => IInv'
<1> SUFFICES ASSUME IInv, [Next]_vars PROVE IInv'
  OBVIOUS
<1>1. ASSUME NEW p \in Procs, Abort(p) PROVE IInv'
  BY <1>1, ReplyStep, NothingWritten DEF Abort, Answers
<1>2. CASE UNCHANGED vars
  BY <1>2 DEF vars, IInv, TypeOK, HandlerInv, Holding, Present
<1> QED
  BY <1>1, <1>2, ArriveStep, ServeStep DEF Next

LEMMA InvAlways == Spec => []IInv
  BY InvInit, InvStep, PTL DEF Spec

\* Type correctness of the account service.
THEOREM TypesHold == Spec => []TypeOK
<1>1. IInv => TypeOK
  BY DEF IInv
<1> QED
  BY <1>1, InvAlways, PTL

\* However many handlers create and delete accounts meanwhile, Delete and
\* ChangeRole write to the account they found or to none (auth.go).
THEOREM TargetsAreWhoWasFound == Spec => []TargetIsWhoWasFound
<1>1. IInv => TargetIsWhoWasFound
  BY DEF IInv, HandlerInv, Holding, TargetIsWhoWasFound
<1> QED
  BY <1>1, InvAlways, PTL

-----------------------------------------------------------------------------
(* Refinement of Directory, for handlers that overlap.                     *)

LEMMA DirectoryStart == Init => Loose!DirectoryInit
  BY DEF Init, Loose!DirectoryInit, Ids, Loose!Ids

LEMMA InsertEnrols ==
  ASSUME IInv, NEW p \in Procs, InsertUser(p)
  PROVE  Loose!DirectoryNext
<1>1. call[p].name \in Names /\ call[p].role \in Roles
  BY DEF IInv, HandlerInv, InsertUser
<1>2. Loose!Enrol(call[p].name, call[p].role)
  BY <1>1 DEF InsertUser, Taken, Loose!Enrol, Ids, Loose!Ids
<1> QED
  BY <1>1, <1>2 DEF Loose!DirectoryNext, Roles

LEMMA DeleteRemoves ==
  ASSUME IInv, NEW p \in Procs, DeleteWrite(p)
  PROVE  Loose!DirectoryNext \/ UNCHANGED <<accounts, seq>>
<1> DEFINE i == call[p].target
<1>1. /\ i \in Ids
      /\ accounts' = [accounts EXCEPT ![i] = NoAccount]
      /\ UNCHANGED seq
  BY DEF IInv, HandlerInv, Holding, DeleteWrite, At
<1>2. CASE Present(i)
  <2>1. Loose!Remove(i)
    BY <1>1, <1>2 DEF Loose!Remove, Present
  <2> QED
    BY <1>1, <2>1 DEF Loose!DirectoryNext, Ids, Loose!Ids
<1>3. CASE ~Present(i)
  BY <1>1, <1>3 DEF IInv, TypeOK, Present
<1> QED
  BY <1>2, <1>3

LEMMA RoleAssigns ==
  ASSUME IInv, NEW p \in Procs, RoleWrite(p)
  PROVE  Loose!DirectoryNext \/ UNCHANGED <<accounts, seq>>
<1> DEFINE i == call[p].target
<1>1. i \in Ids /\ call[p].role \in Roles /\ UNCHANGED seq
  BY DEF IInv, HandlerInv, Holding, RoleWrite, At
<1>2. CASE Present(i)
  <2>1. Loose!Assign(i, call[p].role)
    BY <1>1, <1>2 DEF Loose!Assign, Present, RoleWrite
  <2> QED
    BY <1>1, <2>1 DEF Loose!DirectoryNext, Ids, Loose!Ids, Roles
<1>3. CASE ~Present(i)
  BY <1>1, <1>3 DEF RoleWrite
<1> QED
  BY <1>2, <1>3

LEMMA DirectoryStep ==
  IInv /\ [Next]_vars => [Loose!DirectoryNext]_(Loose!directoryVars)
<1> SUFFICES ASSUME IInv, [Next]_vars
             PROVE  Loose!DirectoryNext \/ UNCHANGED <<accounts, seq>>
  BY DEF Loose!directoryVars
<1>1. ASSUME NEW p \in Procs, Arrive(p)
      PROVE  UNCHANGED <<accounts, seq>>
  BY <1>1 DEF Arrive, SetupBegin, CreateBegin, CreateRefuse, DeleteBegin,
              RoleBegin, RoleRefuse, Forbidden, EnterAsAdmin, Enter
<1>2. ASSUME NEW p \in Procs, Serve(p)
      PROVE  Loose!DirectoryNext \/ UNCHANGED <<accounts, seq>>
  <2>1. CASE InsertUser(p) \/ DeleteWrite(p) \/ RoleWrite(p)
    BY <2>1, InsertEnrols, DeleteRemoves, RoleAssigns
  <2>2. CASE \/ SetupCount(p) \/ InsertClash(p)
             \/ SetupLogin(p) \/ SetupSession(p)
             \/ FindTarget(p) \/ CountAdmins(p) \/ Finish(p)
    BY <2>2 DEF SetupCount, InsertClash, SetupLogin, SetupSession,
                FindTarget, CountAdmins, Finish
  <2> QED
    BY <1>2, <2>1, <2>2 DEF Serve
<1>3. ASSUME NEW p \in Procs, Abort(p)
      PROVE  UNCHANGED <<accounts, seq>>
  BY <1>3 DEF Abort
<1>4. CASE UNCHANGED vars
  BY <1>4 DEF vars
<1> QED
  BY <1>1, <1>2, <1>3, <1>4 DEF Next

\* However the handlers overlap, every change to the users table is an
\* enrolment under a free name and a fresh id, a removal, or a new role for
\* an account that is there (auth.go).
THEOREM ServiceImplementsDirectory == Spec => ImplementsLooseDirectory
  BY DirectoryStart, DirectoryStep, InvAlways, PTL
  DEF Spec, ImplementsLooseDirectory, Loose!DirectorySpec

-----------------------------------------------------------------------------
(* What the callers of Delete are told.                                    *)

Told(p) == At(p, "answered", "delete") /\ call[p].answer = "ok"

\* The account is gone, its id was handed out, so it stays gone; and only a
\* DELETE that matched a row is told so.
ToldInv ==
  /\ \A p \in Procs : call[p].pc = "insert" => call[p].op # "delete"
  /\ \A p \in Procs : Told(p) =>
       /\ call[p].target \in Ids /\ call[p].target < seq
       /\ ~Present(call[p].target)
  /\ \A p, q \in Procs :
       (Told(p) /\ Told(q) /\ p # q) => call[p].target # call[q].target

LEMMA ToldInit == Init => ToldInv
  BY DEF Init, ToldInv, Told, At, Idle

LEMMA GoneStaysGone ==
  ASSUME IInv, [Next]_vars, NEW i \in Ids, i < seq, ~Present(i)
  PROVE  i < seq' /\ ~Present(i)'
<1> /\ i \in Nat /\ seq \in Nat
    /\ accounts \in [Ids -> Account]
  BY AccountsAssumption DEF Ids, IInv, TypeOK
<1>1. Loose!DirectoryNext \/ UNCHANGED <<accounts, seq>>
  BY DirectoryStep DEF Loose!directoryVars
<1>2. ASSUME NEW n, NEW r, Loose!Enrol(n, r) PROVE i < seq' /\ ~Present(i)'
  BY <1>2 DEF Loose!Enrol, Present
<1>3. ASSUME NEW j, Loose!Remove(j) PROVE i < seq' /\ ~Present(i)'
  BY <1>3 DEF Loose!Remove, Present
<1>4. ASSUME NEW j, NEW r, Loose!Assign(j, r) PROVE i < seq' /\ ~Present(i)'
  BY <1>4 DEF Loose!Assign, Present
<1>5. CASE UNCHANGED <<accounts, seq>>
  BY <1>5 DEF Present
<1> QED
  BY <1>1, <1>2, <1>3, <1>4, <1>5 DEF Loose!DirectoryNext

\* p's record may change, and if p is told of a deletion now, it has made it.
News(p) ==
  /\ \A q \in Procs \ {p} : call'[q] = call[q]
  /\ call'[p].pc = "insert" => call'[p].op # "delete"
  /\ Told(p)' => /\ call[p].target \in Ids /\ Present(call[p].target)
                 /\ call[p].target < seq
                 /\ accounts'[call[p].target] = NoAccount
                 /\ call'[p].target = call[p].target
                 /\ seq' = seq

LEMMA ArriveNews == ASSUME IInv, NEW p \in Procs, Arrive(p) PROVE News(p)
  BY DEF IInv, TypeOK, Arrive, SetupBegin, CreateBegin, CreateRefuse,
         DeleteBegin, RoleBegin, RoleRefuse, Forbidden, EnterAsAdmin, Enter,
         Idle, News, Told, At

LEMMA ReplyNews ==
  ASSUME IInv, NEW p \in Procs, NEW a, Reply(p, a),
         a # "ok" \/ call[p].op # "delete"
  PROVE  News(p)
  BY DEF IInv, TypeOK, Call, Reply, News, Told, At

LEMMA GotoNews ==
  ASSUME IInv, NEW p \in Procs, NEW c,
         call' = [call EXCEPT ![p] = c], c.pc # "answered",
         c.pc = "insert" => c.op # "delete"
  PROVE  News(p)
  BY DEF IInv, TypeOK, News, Told, At

LEMMA ServeNews ==
  ASSUME IInv, ToldInv, NEW p \in Procs, Serve(p) PROVE News(p)
<1> /\ call \in [Procs -> Call] /\ call[p] \in Call
    /\ call[p].pc = "insert" => call[p].op # "delete"
  BY DEF IInv, TypeOK, ToldInv
<1>0. ASSUME NEW pc \in Pcs, Goto(p, pc), pc # "answered",
             call[p].op # "delete" \/ pc # "insert"
      PROVE  News(p)
  <2> DEFINE c == [call[p] EXCEPT !.pc = pc]
  <2>1. call' = [call EXCEPT ![p] = c]
    BY <1>0 DEF Goto
  <2>2. c.pc = pc /\ c.op = call[p].op
    BY DEF Call
  <2> HIDE DEF c
  <2> QED
    BY <1>0, <2>1, <2>2, GotoNews
<1>1. CASE SetupCount(p)
  BY <1>0, <1>1, ReplyNews DEF SetupCount, At, Pcs
<1>2. CASE InsertUser(p) \/ InsertClash(p)
  BY <1>0, <1>2, ReplyNews DEF InsertUser, InsertClash, Pcs
<1>3. CASE SetupLogin(p) \/ SetupSession(p)
  <2>1. ASSUME NEW i \in Ids,
               call' = [call EXCEPT ![p] = [@ EXCEPT !.pc = "session",
                                                     !.target = i]]
        PROVE  News(p)
    <3> DEFINE c == [call[p] EXCEPT !.pc = "session", !.target = i]
    <3>1. call' = [call EXCEPT ![p] = c] /\ c.pc = "session"
      BY <2>1 DEF Call
    <3> HIDE DEF c
    <3> QED
      BY <3>1, GotoNews
  <2> QED
    BY <1>3, <2>1, ReplyNews DEF SetupLogin, SetupSession, At
<1>4. CASE FindTarget(p) \/ CountAdmins(p)
  <2>1. ASSUME NEW pc \in {"admins", "write"}, NEW n,
               call' = [call EXCEPT ![p] = [@ EXCEPT !.pc = pc, !.name = n]]
        PROVE  News(p)
    <3> DEFINE c == [call[p] EXCEPT !.pc = pc, !.name = n]
    <3>1. call' = [call EXCEPT ![p] = c] /\ c.pc = pc
      BY <2>1 DEF Call
    <3> HIDE DEF c
    <3> QED
      BY <3>1, GotoNews
  <2> QED
    BY <1>0, <1>4, <2>1, ReplyNews DEF FindTarget, CountAdmins, Pcs
<1>5. CASE DeleteWrite(p)
  <2>1. /\ call[p].target \in Ids /\ call[p].target < seq
        /\ accounts' = [accounts EXCEPT ![call[p].target] = NoAccount]
        /\ seq' = seq /\ accounts \in [Ids -> Account]
    BY <1>5 DEF DeleteWrite, At, IInv, TypeOK, HandlerInv, Holding
  <2> QED
    BY <1>5, <2>1 DEF DeleteWrite, At, Reply, News, Told, Call, Present
<1>6. CASE RoleWrite(p)
  BY <1>6, ReplyNews DEF RoleWrite, At
<1>7. CASE Finish(p)
  BY <1>7 DEF Finish, News, Told, At, Idle
<1> QED
  BY <1>1, <1>2, <1>3, <1>4, <1>5, <1>6, <1>7 DEF Serve

LEMMA ToldStep == IInv /\ ToldInv /\ [Next]_vars => ToldInv'
<1> SUFFICES ASSUME IInv, ToldInv, [Next]_vars PROVE ToldInv'
  OBVIOUS
<1>1. ASSUME NEW p \in Procs, News(p) PROVE ToldInv'
  <2>1. ASSUME NEW q \in Procs, Told(q)'
        PROVE  /\ call'[q].target \in Ids /\ call'[q].target < seq'
               /\ accounts'[call'[q].target] = NoAccount
    <3>1. CASE q = p
      BY <1>1, <2>1, <3>1 DEF News
    <3>2. CASE q # p
      <4>1. call'[q] = call[q] /\ Told(q)
        BY <1>1, <2>1, <3>2 DEF News, Told, At
      <4>2. /\ call[q].target \in Ids /\ call[q].target < seq
            /\ ~Present(call[q].target)
        BY <4>1 DEF ToldInv
      <4>3. \A i \in Ids : (i < seq /\ ~Present(i))
                            => i < seq' /\ accounts'[i] = NoAccount
        BY GoneStaysGone DEF Present
      <4> QED
        BY <4>1, <4>2, <4>3
    <3> QED
      BY <3>1, <3>2
  <2>2. ASSUME NEW q \in Procs, NEW r \in Procs, Told(q)', Told(r)', q # r
        PROVE  call'[q].target # call'[r].target
    <3>1. ASSUME NEW s \in Procs, s # p, Told(s)'
          PROVE  call'[s] = call[s] /\ Told(s) /\ ~Present(call[s].target)
      BY <1>1, <3>1 DEF News, Told, At, ToldInv
    <3>2. CASE q = p \/ r = p
      BY <1>1, <2>2, <3>1, <3>2 DEF News
    <3>3. CASE q # p /\ r # p
      BY <2>2, <3>1, <3>3 DEF ToldInv
    <3> QED
      BY <3>2, <3>3
  <2>3. \A q \in Procs : call'[q].pc = "insert" => call'[q].op # "delete"
    BY <1>1 DEF News, ToldInv
  <2> QED
    BY <2>1, <2>2, <2>3 DEF ToldInv, Present
<1>2. ASSUME NEW p \in Procs, Abort(p) PROVE News(p)
  BY <1>2, ReplyNews DEF Abort
<1>3. CASE UNCHANGED vars
  BY <1>3 DEF vars, ToldInv, Told, At, Present
<1> QED
  BY <1>1, <1>2, <1>3, ArriveNews, ServeNews DEF Next

\* A deletion that is confirmed has happened, for good, and of the callers
\* that race for one account a single one is told so (auth.go:166-173).
THEOREM DeleteAnswersAreTrue == Spec => []DeleteAnswerIsTrue
<1>1. Spec => []ToldInv
  BY ToldInit, ToldStep, InvAlways, PTL DEF Spec
<1>2. ToldInv => DeleteAnswerIsTrue
  BY DEF ToldInv, Told, DeleteAnswerIsTrue
<1> QED
  BY <1>1, <1>2, PTL

=============================================================================
