-------------------------- MODULE AccountsApartProofs --------------------------
(***************************************************************************)
(* Theorems about AccountsApart: what setup and the last-admin guard are   *)
(* worth while checked writes of one kind keep apart, for any number of    *)
(* goroutines, names and ids.                                              *)
(*                                                                         *)
(* What a handler found is then still so when it writes (StillSo): another *)
(* setup cannot insert in between, an admin's CreateUser is not running    *)
(* while there are no accounts, another deletion or demotion cannot come   *)
(* in between either, and an INSERT takes neither an account nor an admin  *)
(* away.                                                                   *)
(***************************************************************************)
EXTENDS AccountsApart, AccountsProofs

\* What the handler of p has found, and what holds at its write.
StillSo(p) ==
  /\ call[p].pc = "count" => call[p].op = "setup"
  /\ call[p].pc = "insert" => call[p].op \in {"setup", "create"}
  /\ (call[p].pc \in {"count", "insert"} /\ call[p].op = "setup")
       => call[p].role = "admin"
  /\ (call[p].pc = "insert" /\ call[p].op = "setup")
       => \A i \in Ids : ~Present(i)
  /\ (call[p].pc = "insert" /\ call[p].op = "create") => Admins # {}
  /\ (call[p].pc \in {"find", "admins", "write"} /\ call[p].op = "delete")
       => call[p].role = "none"
  /\ call[p].pc = "admins" => Present(call[p].target)
  /\ call[p].pc = "write" =>
       /\ Present(call[p].target)
       /\ TakesAdminAway(p) => AnotherAdmin

Held == Apart /\ NotLockedOut /\ \A p \in Procs : StillSo(p)

ApartInv == apart => Held

\* An admin is never the last that a step takes away.
AdminsStay == Admins # {} => Admins' # {}

LEMMA ApartInvInit == ApartInit => ApartInv
  BY DEF ApartInit, Init, ApartInv, Held, Apart, SettingUp, Managing, At,
         NotLockedOut, Present, StillSo, Idle

LEMMA EnterStillSo ==
  ASSUME IInv, NEW p \in Procs, NEW op, NEW pc \in {"count", "insert", "find"},
         NEW i, NEW n, NEW r, Enter(p, op, pc, i, n, r),
         pc = "count" => op = "setup" /\ r = "admin",
         pc = "insert" => op = "create" /\ Admins # {},
         pc = "find" => (op = "delete" => r = "none")
  PROVE  StillSo(p)'
<1> DEFINE c == [Idle EXCEPT !.pc = pc, !.op = op, !.target = i, !.name = n,
                             !.role = r]
<1>1. call' = [call EXCEPT ![p] = c] /\ accounts' = accounts
  BY DEF Enter
<1>2. c.pc = pc /\ c.op = op /\ c.target = i /\ c.role = r
  BY DEF Idle
<1> HIDE DEF c
<1>3. call'[p] = c /\ (Admins # {} => Admins' # {})
  BY <1>1 DEF IInv, TypeOK, Admins
<1> QED
  BY <1>2, <1>3 DEF StillSo

LEMMA ArriveStillSo ==
  ASSUME IInv, NEW p \in Procs, Arrive(p)
  PROVE  /\ StillSo(p)'
         /\ UNCHANGED <<accounts, seq>>
         /\ \A q \in Procs \ {p} : call'[q] = call[q]
<1>1. StillSo(p)'
  <2>1. CASE SetupBegin(p) \/ CreateBegin(p)
    BY <2>1, EnterStillSo DEF SetupBegin, CreateBegin, EnterAsAdmin
  <2>2. CASE DeleteBegin(p) \/ RoleBegin(p)
    BY <2>2, EnterStillSo DEF DeleteBegin, RoleBegin, EnterAsAdmin
  <2>3. CASE CreateRefuse(p) \/ RoleRefuse(p) \/ Forbidden(p)
    BY <2>3 DEF CreateRefuse, RoleRefuse, Forbidden, IInv, TypeOK, StillSo,
                Idle
  <2> QED
    BY <2>1, <2>2, <2>3 DEF Arrive
<1>2. /\ UNCHANGED <<accounts, seq>>
      /\ \A q \in Procs \ {p} : call'[q] = call[q]
  BY DEF IInv, TypeOK, Arrive, SetupBegin, CreateBegin, CreateRefuse,
         DeleteBegin, RoleBegin, RoleRefuse, Forbidden, EnterAsAdmin, Enter,
         Idle
<1> QED
  BY <1>1, <1>2

\* A handler that answers, or goes on with nothing left to write.
LEMMA NothingLeft ==
  ASSUME IInv, NEW p \in Procs, NEW c, call' = [call EXCEPT ![p] = c],
         c.pc \in {"idle", "answered", "login", "session"}
  PROVE  StillSo(p)' /\ \A q \in Procs \ {p} : call'[q] = call[q]
  BY DEF IInv, TypeOK, StillSo

LEMMA ReplyStillSo ==
  ASSUME IInv, NEW p \in Procs, NEW a, Reply(p, a)
  PROVE  StillSo(p)' /\ \A q \in Procs \ {p} : call'[q] = call[q]
<1> DEFINE c == [call[p] EXCEPT !.pc = "answered", !.name = NoName,
                                !.role = "none", !.answer = a]
<1>1. call' = [call EXCEPT ![p] = c] /\ c.pc = "answered"
  BY DEF Reply, IInv, TypeOK, Call
<1> HIDE DEF c
<1> QED
  BY <1>1, NothingLeft

LEMMA GotoStillSo ==
  ASSUME IInv, NEW p \in Procs, NEW pc, Goto(p, pc)
  PROVE  /\ call'[p].pc = pc /\ call'[p].op = call[p].op
         /\ call'[p].role = call[p].role /\ call'[p].target = call[p].target
         /\ \A q \in Procs \ {p} : call'[q] = call[q]
  BY DEF Goto, IInv, TypeOK, Call

\* What a handler does that writes nothing.
LEMMA QuietStillSo ==
  ASSUME IInv, NEW p \in Procs, StillSo(p),
         \/ SetupCount(p) \/ InsertClash(p) \/ SetupLogin(p)
         \/ SetupSession(p) \/ FindTarget(p) \/ CountAdmins(p)
         \/ Finish(p) \/ Abort(p)
  PROVE  /\ StillSo(p)'
         /\ UNCHANGED <<accounts, seq>>
         /\ \A q \in Procs \ {p} : call'[q] = call[q]
<1> call \in [Procs -> Call] /\ call[p] \in Call
  BY DEF IInv, TypeOK
<1>1. CASE SetupCount(p)
  <2>1. CASE Goto(p, "insert") /\ \A i \in Ids : ~Present(i)
    BY <1>1, <2>1, GotoStillSo DEF SetupCount, At, StillSo, Present
  <2> QED
    BY <1>1, <2>1, ReplyStillSo DEF SetupCount
<1>2. CASE InsertClash(p) \/ SetupSession(p) \/ Abort(p)
  BY <1>2, ReplyStillSo DEF InsertClash, SetupSession, Abort
<1>3. CASE SetupLogin(p)
  <2>1. ASSUME NEW i \in Ids,
               call' = [call EXCEPT ![p] = [@ EXCEPT !.pc = "session",
                                                     !.target = i]]
        PROVE  StillSo(p)' /\ \A q \in Procs \ {p} : call'[q] = call[q]
    <3> DEFINE c == [call[p] EXCEPT !.pc = "session", !.target = i]
    <3>1. call' = [call EXCEPT ![p] = c] /\ c.pc = "session"
      BY <2>1 DEF Call
    <3> HIDE DEF c
    <3> QED
      BY <3>1, NothingLeft
  <2> QED
    BY <1>3, <2>1, ReplyStillSo DEF SetupLogin
<1>4. CASE FindTarget(p)
  <2> DEFINE t  == call[p].target
             pc == IF TakesAdminAway(p) THEN "admins" ELSE "write"
             c  == [call[p] EXCEPT !.pc = pc, !.name = accounts[t].name]
  <2>1. CASE Present(t) /\ call' = [call EXCEPT ![p] = c]
    <3>1. /\ call'[p].pc = pc /\ call'[p].op = call[p].op
          /\ call'[p].target = t /\ call'[p].role = call[p].role
          /\ \A q \in Procs \ {p} : call'[q] = call[q]
          /\ call[p].pc = "find" /\ UNCHANGED <<accounts, seq>>
      BY <1>4, <2>1 DEF FindTarget, Call
    <3>2. TakesAdminAway(p)' <=> TakesAdminAway(p)
      BY <3>1 DEF TakesAdminAway
    <3>3. CASE TakesAdminAway(p)
      BY <2>1, <3>1, <3>3 DEF StillSo, Present
    <3>4. CASE ~TakesAdminAway(p)
      BY <2>1, <3>1, <3>2, <3>4 DEF StillSo, Present
    <3> QED
      BY <3>1, <3>3, <3>4
  <2> QED
    BY <1>4, <2>1, ReplyStillSo DEF FindTarget
<1>5. CASE CountAdmins(p)
  <2>1. CASE AnotherAdmin /\ Goto(p, "write")
    <3>1. /\ call'[p].pc = "write" /\ call'[p].op = call[p].op
          /\ call'[p].target = call[p].target /\ call'[p].role = call[p].role
          /\ \A q \in Procs \ {p} : call'[q] = call[q]
          /\ call[p].pc = "admins" /\ UNCHANGED <<accounts, seq>>
      BY <1>5, <2>1, GotoStillSo DEF CountAdmins
    <3>2. AnotherAdmin'
      BY <2>1, <3>1 DEF AnotherAdmin, Admins
    <3> QED
      BY <3>1, <3>2 DEF StillSo, Present
  <2> QED
    BY <1>5, <2>1, ReplyStillSo DEF CountAdmins
<1>6. CASE Finish(p)
  BY <1>6, NothingLeft DEF Finish, Idle
<1> QED
  BY <1>1, <1>2, <1>3, <1>4, <1>5, <1>6
  DEF SetupCount, InsertClash, SetupLogin, SetupSession, FindTarget,
      CountAdmins, Finish, Abort

-----------------------------------------------------------------------------
(* The writes.                                                             *)

\* The first account is an admin, and one admin stays when another is made.
LEMMA InsertKeepsAdmin ==
  ASSUME IInv, NEW p \in Procs, StillSo(p), InsertUser(p)
  PROVE  NotLockedOut' /\ AdminsStay /\ Strict!DirectoryNext
<1> DEFINE n == call[p].name  r == call[p].role
<1>1. /\ seq \in Ids /\ ~Present(seq) /\ ~Taken(n)
      /\ accounts \in [Ids -> Account]
      /\ accounts' = [accounts EXCEPT ![seq] = [name |-> n, role |-> r]]
      /\ seq' = seq + 1
      /\ n \in Names /\ r \in Roles
  BY DEF IInv, TypeOK, HandlerInv, InsertUser, Ids
<1>2. (\A i \in Ids : ~Present(i)) => r = "admin"
  BY DEF StillSo, InsertUser, Admins, Present, NoAccount
<1>3. r = "admin" \/ Admins # {}
  BY DEF StillSo, InsertUser
<1>4. ASSUME NEW i \in Admins PROVE i \in Admins'
  BY <1>1, <1>4 DEF Admins, Present, NoAccount
<1>5. NotLockedOut'
  BY <1>1, <1>3, <1>4 DEF NotLockedOut, Admins
<1>6. Strict!Enrol(n, r)
  BY <1>1, <1>2 DEF Strict!Enrol, Strict!Ids, Ids, Taken, Present
<1>7. AdminsStay
  BY <1>4 DEF AdminsStay
<1> QED
  BY <1>1, <1>5, <1>6, <1>7 DEF Strict!DirectoryNext, Roles

\* What was counted before an admin is removed or demoted is still so.
LEMMA DeleteKeepsAdmin ==
  ASSUME IInv, NotLockedOut, NEW p \in Procs, StillSo(p), DeleteWrite(p)
  PROVE  NotLockedOut' /\ AdminsStay /\ Strict!DirectoryNext
<1> DEFINE i == call[p].target
<1>1. /\ i \in Ids /\ Present(i)
      /\ accounts \in [Ids -> Account]
      /\ accounts' = [accounts EXCEPT ![i] = NoAccount]
      /\ seq' = seq
      /\ i \in Admins => AnotherAdmin
  BY DEF IInv, TypeOK, HandlerInv, Holding, DeleteWrite, At, StillSo,
         TakesAdminAway, Admins
<1>2. PICK a \in Admins : a # i
  BY <1>1 DEF NotLockedOut, AnotherAdmin, Admins
<1>3. NotLockedOut'
  BY <1>1, <1>2 DEF NotLockedOut, Admins
<1>4. Strict!Remove(i)
  BY <1>1, <1>2 DEF Strict!Remove, Strict!Admins, Strict!Ids, Admins, Ids,
                    Present, NoAccount
<1>5. AdminsStay
  BY <1>1, <1>2 DEF AdminsStay, Admins
<1> QED
  BY <1>1, <1>3, <1>4, <1>5 DEF Strict!DirectoryNext, Strict!Ids, Ids

LEMMA RoleKeepsAdmin ==
  ASSUME IInv, NotLockedOut, NEW p \in Procs, StillSo(p), RoleWrite(p)
  PROVE  NotLockedOut' /\ AdminsStay /\ Strict!DirectoryNext
<1> DEFINE i == call[p].target  r == call[p].role
<1>1. /\ i \in Ids /\ Present(i) /\ r \in Roles
      /\ accounts \in [Ids -> Account]
      /\ accounts' = [accounts EXCEPT ![i].role = r]
      /\ seq' = seq
      /\ (i \in Admins /\ r # "admin") => AnotherAdmin
  BY DEF IInv, TypeOK, HandlerInv, Holding, RoleWrite, At, StillSo,
         TakesAdminAway, Admins
<1>2. accounts[i] \in [name : Names, role : Roles]
  BY <1>1 DEF Account, Present
<1>3. accounts'[i].role = r
  BY <1>1, <1>2
<1>4. r = "admin" \/ \E a \in Admins : a # i
  BY <1>1 DEF NotLockedOut, AnotherAdmin, Admins
<1>5. NotLockedOut'
  <2>1. \A a \in Admins : a # i => a \in Admins'
    BY <1>1 DEF Admins
  <2> QED
    BY <1>1, <1>3, <1>4, <2>1 DEF NotLockedOut, Admins
<1>6. Strict!Assign(i, r)
  BY <1>1, <1>4 DEF Strict!Assign, Strict!Admins, Strict!Ids, Admins, Ids,
                    Present, NoAccount
<1>7. AdminsStay
  <2>1. \A a \in Admins : a # i => a \in Admins'
    BY <1>1 DEF Admins
  <2> QED
    BY <1>1, <1>3, <1>4, <2>1 DEF AdminsStay, Admins
<1> QED
  BY <1>1, <1>5, <1>6, <1>7 DEF Strict!DirectoryNext, Strict!Ids, Ids, Roles

LEMMA WriteStillSo ==
  ASSUME IInv, NEW p \in Procs,
         InsertUser(p) \/ DeleteWrite(p) \/ RoleWrite(p)
  PROVE  StillSo(p)' /\ \A q \in Procs \ {p} : call'[q] = call[q]
<1>1. CASE \E a : Reply(p, a)
  BY <1>1, ReplyStillSo
<1>2. CASE Goto(p, "login")
  BY <1>2, GotoStillSo DEF StillSo
<1> QED
  BY <1>1, <1>2 DEF InsertUser, DeleteWrite, RoleWrite

\* A write of p leaves what another handler found as it is.
LEMMA BystanderStillSo ==
  ASSUME IInv, Held, AdminsStay, NEW p \in Procs,
         InsertUser(p) \/ DeleteWrite(p) \/ RoleWrite(p),
         NEW q \in Procs, q # p, call'[q] = call[q]
  PROVE  StillSo(q)'
<1>1. /\ accounts \in [Ids -> Account]
      /\ StillSo(q)
  BY DEF IInv, TypeOK, Held
<1>2. CASE InsertUser(p)
  <2> DEFINE n == call[p].name  r == call[p].role
  <2>1. /\ seq \in Ids /\ ~Present(seq)
        /\ accounts' = [accounts EXCEPT ![seq] = [name |-> n, role |-> r]]
        /\ call[p].pc = "insert"
    BY <1>2 DEF InsertUser, IInv, Ids
  <2>2. \A i \in Ids : i # seq => accounts'[i] = accounts[i]
    BY <1>1, <2>1
  <2>3. Admins \subseteq Admins'
    BY <2>1, <2>2 DEF Admins, Present, NoAccount
  <2>4. ~SettingUp(q)
    <3> SUFFICES ASSUME SettingUp(q) PROVE FALSE
      OBVIOUS
    <3>1. \A i \in Ids : ~Present(i)
      BY <1>1 DEF SettingUp, At, StillSo
    <3>2. Admins = {}
      BY <3>1 DEF Admins, Present, NoAccount
    <3>3. call[p].op = "setup"
      BY <2>1, <3>2 DEF Held, StillSo
    <3> QED
      BY <2>1, <3>3 DEF Held, Apart, SettingUp, At
  <2>5. CASE Managing(q)
    <3> DEFINE t == call[q].target
    <3>1. Present(t) /\ t \in Ids
      BY <1>1, <2>5 DEF StillSo, Managing, IInv, HandlerInv, Holding
    <3>2. accounts'[t] = accounts[t]
      BY <2>1, <2>2, <3>1
    <3>3. Present(t)' /\ (TakesAdminAway(q)' => TakesAdminAway(q))
      BY <3>1, <3>2 DEF Present, TakesAdminAway
    <3>4. AnotherAdmin => AnotherAdmin'
      BY <2>3 DEF AnotherAdmin
    <3> QED
      BY <1>1, <2>5, <3>3, <3>4 DEF StillSo, Managing
  <2>6. CASE ~Managing(q)
    BY <1>1, <2>4, <2>6 DEF StillSo, Managing, SettingUp, At, AdminsStay
  <2> QED
    BY <2>5, <2>6
<1>3. CASE DeleteWrite(p) \/ RoleWrite(p)
  <2>1. ~Managing(q)
    BY <1>3 DEF Held, Apart, Managing, DeleteWrite, RoleWrite, At
  <2>2. \A i \in Ids : ~Present(i) => ~Present(i)'
    <3>1. CASE DeleteWrite(p)
      BY <1>1, <3>1 DEF DeleteWrite, Present
    <3>2. CASE RoleWrite(p)
      BY <1>1, <3>2 DEF RoleWrite, Present
    <3> QED
      BY <1>3, <3>1, <3>2
  <2> QED
    BY <1>1, <2>1, <2>2 DEF StillSo, Managing, AdminsStay
<1> QED
  BY <1>2, <1>3

\* A handler that does not move keeps what it found while nothing is written.
LEMMA QuietBystander ==
  ASSUME NEW q \in Procs, StillSo(q), UNCHANGED accounts, call'[q] = call[q]
  PROVE  StillSo(q)'
BY DEF StillSo, Present, Admins, AnotherAdmin, TakesAdminAway

-----------------------------------------------------------------------------
(* The steps.                                                              *)

LEMMA HeldStep ==
  ASSUME IInv, Held, Apart', [Next]_vars
  PROVE  Held' /\ [Strict!DirectoryNext]_(Strict!directoryVars)
<1>1. ASSUME UNCHANGED <<accounts, seq>>
      PROVE  NotLockedOut' /\ [Strict!DirectoryNext]_(Strict!directoryVars)
  BY <1>1 DEF Held, NotLockedOut, Present, Admins, Strict!directoryVars
<1>2. ASSUME NEW p \in Procs, StillSo(p)', UNCHANGED accounts,
             \A q \in Procs \ {p} : call'[q] = call[q]
      PROVE  \A q \in Procs : StillSo(q)'
  BY <1>2, QuietBystander DEF Held
<1>3. ASSUME NEW p \in Procs, Arrive(p)
      PROVE  Held' /\ [Strict!DirectoryNext]_(Strict!directoryVars)
  BY <1>1, <1>2, <1>3, ArriveStillSo DEF Held
<1>4. ASSUME NEW p \in Procs, Serve(p) \/ Abort(p)
      PROVE  Held' /\ [Strict!DirectoryNext]_(Strict!directoryVars)
  <2>1. StillSo(p) /\ NotLockedOut
    BY DEF Held
  <2>2. CASE InsertUser(p) \/ DeleteWrite(p) \/ RoleWrite(p)
    <3>1. NotLockedOut' /\ AdminsStay /\ Strict!DirectoryNext
      BY <2>1, <2>2, InsertKeepsAdmin, DeleteKeepsAdmin, RoleKeepsAdmin
    <3>2. \A q \in Procs : StillSo(q)'
      BY <2>2, <3>1, WriteStillSo, BystanderStillSo
    <3> QED
      BY <3>1, <3>2 DEF Held
  <2>3. CASE \/ SetupCount(p) \/ InsertClash(p) \/ SetupLogin(p)
             \/ SetupSession(p) \/ FindTarget(p) \/ CountAdmins(p)
             \/ Finish(p) \/ Abort(p)
    <3>1. /\ StillSo(p)' /\ UNCHANGED <<accounts, seq>>
          /\ \A q \in Procs \ {p} : call'[q] = call[q]
      BY <2>1, <2>3, QuietStillSo
    <3> QED
      BY <1>1, <1>2, <3>1 DEF Held
  <2> QED
    BY <1>4, <2>2, <2>3 DEF Serve
<1>5. CASE UNCHANGED vars
  <2>1. \A p \in Procs : StillSo(p)'
    BY <1>5, QuietBystander DEF vars, Held
  <2> QED
    BY <1>1, <1>5, <2>1 DEF vars, Held
<1> QED
  BY <1>3, <1>4, <1>5 DEF Next

LEMMA ApartIsASpec == ApartSpec => Spec
<1>1. ApartInit => Init
  BY DEF ApartInit
<1>2. [ApartNext]_apartVars => [Next]_vars
  BY DEF ApartNext, apartVars
<1> QED
  BY <1>1, <1>2, PTL DEF ApartSpec, Spec

LEMMA ApartInvStep == IInv /\ ApartInv /\ [ApartNext]_apartVars => ApartInv'
<1> SUFFICES ASSUME IInv, ApartInv, [ApartNext]_apartVars, apart'
             PROVE  Held'
  BY DEF ApartInv
<1>1. apart /\ [Next]_vars /\ Held
  BY DEF ApartNext, apartVars, ApartInv
<1>2. Apart'
  BY <1>1 DEF ApartNext, apartVars, vars, Held, Apart, SettingUp,
               Managing, At
<1> QED
  BY <1>1, <1>2, HeldStep

LEMMA ApartInvAlways == ApartSpec => [](IInv /\ ApartInv)
<1>1. ApartSpec => []IInv
  BY ApartIsASpec, InvAlways, PTL
<1> QED
  BY <1>1, ApartInvInit, ApartInvStep, PTL DEF ApartSpec

-----------------------------------------------------------------------------
(* The theorems.                                                           *)

\* While checked writes of one kind keep apart nobody is locked out: where
\* there are accounts there is an admin (auth.go:151, 192).
THEOREM NeverLockedOutApart == ApartSpec => []ApartNeverLockedOut
<1>1. ApartInv => ApartNeverLockedOut
  BY DEF ApartInv, Held, ApartNeverLockedOut
<1> QED
  BY <1>1, ApartInvAlways, PTL

\* While checked writes of one kind keep apart setup makes the first account
\* (auth_handlers.go:27).
THEOREM SetupMakesTheFirstApart == ApartSpec => ApartSetupMakesTheFirst
<1>1. ASSUME IInv, ApartInv, [ApartNext]_apartVars, apart, NEW p \in Procs,
             SettingUp(p)
      PROVE  \A i \in Ids : ~Present(i)
  BY <1>1 DEF ApartInv, Held, StillSo, SettingUp, At
<1>2. IInv /\ ApartInv /\ [ApartNext]_apartVars =>
        [apart => \A p \in Procs :
           (SettingUp(p) /\ call'[p].pc = "login")
             => \A i \in Ids : ~Present(i)]_apartVars
  BY <1>1
<1> QED
  BY <1>2, ApartInvAlways, PTL DEF ApartSpec, ApartSetupMakesTheFirst

\* While checked writes of one kind keep apart every change to the users table
\* is one the guarded directory allows: the first account is an admin, the last admin is
\* neither removed nor demoted (auth.go:152-219).
THEOREM ServiceImplementsStrictDirectory ==
  ApartSpec => ApartImplementsStrictDirectory
<1>1. ApartInit => Strict!DirectoryInit
  BY DEF ApartInit, Init, Strict!DirectoryInit, Ids, Strict!Ids
<1>2. IInv /\ ApartInv /\ [ApartNext]_apartVars =>
        [apart => Strict!DirectoryNext]_(Strict!directoryVars)
  <2> SUFFICES ASSUME IInv, ApartInv, [ApartNext]_apartVars, apart
               PROVE  [Strict!DirectoryNext]_(Strict!directoryVars)
    OBVIOUS
  <2>1. Held /\ [Next]_vars
    BY DEF ApartInv, ApartNext, apartVars
  <2>2. Apart'
    BY <2>1 DEF ApartNext, apartVars, vars, Held, Apart, SettingUp,
               Managing, At
  <2> QED
    BY <2>1, <2>2, HeldStep
<1> QED
  BY <1>1, <1>2, ApartInvAlways, PTL
  DEF ApartSpec, ApartImplementsStrictDirectory

=============================================================================
