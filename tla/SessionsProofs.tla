---------------------------- MODULE SessionsProofs ----------------------------
(***************************************************************************)
(* Theorems about Sessions, for any number of handlers, accounts,          *)
(* passwords and tokens and any SessionTTL.                                *)
(*                                                                         *)
(* A handler carries what it decided on across statements; Ready says what *)
(* of it is still worth something.  The hash Login compares with was the   *)
(* account's during the login; the second a request carries is not before  *)
(* the session was created; the role requireAdmin saw was the caller's     *)
(* during the request.  What the others do meanwhile (Mild) takes none of  *)
(* that back: a token is never issued twice and an account that is gone    *)
(* does not come back.                                                     *)
(***************************************************************************)
EXTENDS Sessions, TLAPS

LoginPcs == {"read", "compare", "open", "stamp"}

Issued(t) == t \in Tokens /\ sessions[t].state # "unissued"

\* What a handler's record guarantees.
Ready(c) ==
  /\ c.op = "login" <=> c.pc \in LoginPcs
  /\ c.pc \in {"read", "compare", "open"} => c.user \in Users
  /\ (c.pc = "read" /\ Present(c.user))
       => accounts[c.user].password \in c.during
  /\ c.pc = "compare" => c.hash \in c.during
  /\ c.pc = "open" => c.given \in c.during /\ c.now <= clock
  /\ c.pc \in {"stamp", "slide", "user", "end"} => Issued(c.token)
  /\ (c.pc \in {"slide", "user"} /\ c.op = "set_password") =>
       /\ c.user \in Users
       /\ IsOpen(c.token) => accounts[sessions[c.token].user].role \in c.during
  /\ c.pc = "slide" =>
       /\ c.now <= clock
       /\ IsOpen(c.token) => sessions[c.token].created <= c.now
  /\ c.pc \in {"find", "write"} =>
       /\ c.user \in Users
       /\ c.op = "set_password" => "admin" \in c.during

\* What the tables guarantee.
OpenRowInv(t) ==
  /\ sessions[t].user \in Users
  /\ Present(sessions[t].user)
  /\ sessions[t].created <= clock
  /\ sessions[t].created + TTL <= sessions[t].expires
  /\ sessions[t].expires <= clock + TTL

RowsInv ==
  /\ \A t \in Tokens : IsOpen(t) => OpenRowInv(t)
  /\ \A t \in Tokens : ~IsOpen(t) => sessions[t] \in {Unissued, Ended}
  /\ \A t \in handed : Issued(t)
  /\ purge # NoTime => purge <= clock

TablesType ==
  /\ accounts \in [Users -> Account]
  /\ sessions \in [Tokens -> Session]
  /\ handed \subseteq Tokens
  /\ clock \in Nat
  /\ purge \in Nat \cup {NoTime}

IInv == TypeOK /\ RowsInv /\ \A p \in Procs : Ready(call[p])

-----------------------------------------------------------------------------
(* Types.                                                                  *)

LEMMA IdleType == Idle \in Call
  BY DEF Idle, Call, Pcs

LEMMA RowTypes == Unissued \in Session /\ Ended \in Session
  BY DEF Unissued, Ended, Session

LEMMA AccountType ==
  ASSUME NEW a \in Account
  PROVE  /\ a # NoAccount <=> a.password \in Passwords /\ a.role \in Roles
         /\ a = NoAccount <=> a.role = "none"
  BY SessionsAssumption DEF Account, NoAccount, Roles

LEMMA AnsweredType ==
  ASSUME NEW a \in Answers
  PROVE  LET c == [Idle EXCEPT !.pc = "answered", !.answer = a]
         IN  /\ c \in Call
             /\ c.pc = "answered" /\ c.op = "none" /\ c.answer = a
  BY DEF Idle, Call, Pcs

LEMMA InvInit == Init => IInv
<1> SUFFICES ASSUME Init PROVE IInv
  OBVIOUS
<1>1. TypeOK
  BY SessionsAssumption, IdleType, RowTypes
  DEF Init, TypeOK, Account, Roles, NoAccount
<1>2. RowsInv
  BY DEF Init, RowsInv, IsOpen, Unissued
<1>3. \A p \in Procs : Ready(call[p])
  BY DEF Init, Ready, Idle, LoginPcs
<1> QED
  BY <1>1, <1>2, <1>3 DEF IInv

-----------------------------------------------------------------------------
(* Handing over.                                                           *)

\* What others may do to the tables while a handler is under way.
Mild ==
  /\ clock <= clock'
  /\ \A t \in Tokens : sessions[t].state # "unissued" =>
       /\ sessions'[t].state # "unissued"
       /\ sessions'[t].state = "open" =>
            /\ sessions[t].state = "open"
            /\ sessions'[t].user = sessions[t].user
            /\ sessions'[t].created = sessions[t].created
  /\ \A u \in Users : accounts'[u] \in {accounts[u], NoAccount}

LEMMA Bystander ==
  ASSUME TypeOK, RowsInv, TablesType', RowsInv', Mild,
         NEW c \in Call, Ready(c)
  PROVE  Ready(c)'
<1> /\ clock \in Nat /\ clock' \in Nat
    /\ c.now \in Nat
  BY DEF TypeOK, TablesType, Call
<1>1. Issued(c.token) => Issued(c.token)'
  BY DEF Issued, Mild
<1>2. (IsOpen(c.token)' /\ Issued(c.token)) =>
        /\ IsOpen(c.token)
        /\ sessions'[c.token].user = sessions[c.token].user
        /\ sessions'[c.token].created = sessions[c.token].created
  BY DEF Issued, IsOpen, Mild
<1>3. IsOpen(c.token)' => /\ sessions'[c.token].user \in Users
                          /\ accounts'[sessions'[c.token].user] # NoAccount
  BY DEF RowsInv, OpenRowInv, IsOpen, Present
<1>4. \A u \in Users : accounts'[u] # NoAccount => accounts'[u] = accounts[u]
  BY DEF Mild
<1>5. c.now <= clock => c.now <= clock'
  BY DEF Mild
<1>6. (c.pc = "read" /\ c.user \in Users /\ Present(c.user)')
         => Present(c.user) /\ accounts'[c.user] = accounts[c.user]
  BY <1>4 DEF Present
<1> QED
  BY <1>1, <1>2, <1>3, <1>4, <1>5, <1>6 DEF Ready, Present

\* p's record becomes c, which is in order, and so are the tables.
LEMMA Handover ==
  ASSUME IInv, TablesType', RowsInv', Mild, NEW p \in Procs,
         NEW c \in Call, call' = [call EXCEPT ![p] = c], Ready(c)'
  PROVE  IInv'
<1>1. TypeOK'
  BY DEF TypeOK, TablesType, IInv
<1>2. ASSUME NEW q \in Procs PROVE Ready(call[q])'
  <2>1. PICK d \in Call : call'[q] = d /\ Ready(d)'
    <3>1. CASE q = p
      BY <3>1 DEF IInv, TypeOK
    <3>2. CASE q # p
      <4>1. call'[q] = call[q] /\ call[q] \in Call /\ Ready(call[q])
        BY <3>2 DEF IInv, TypeOK
      <4>2. PICK d \in Call : d = call[q] /\ call'[q] = d /\ Ready(d)
        BY <4>1
      <4>3. Ready(d)'
        BY <4>2, Bystander DEF IInv
      <4> QED
        BY <4>2, <4>3
    <3> QED
      BY <3>1, <3>2
  <2> QED
    BY <2>1 DEF Ready
<1> QED
  BY <1>1, <1>2 DEF IInv

\* A step that writes no table.
LEMMA TablesKept ==
  ASSUME IInv, UNCHANGED <<accounts, sessions, handed, clock, purge>>,
         NEW p \in Procs, NEW c \in Call, call' = [call EXCEPT ![p] = c],
         Ready(c)
  PROVE  IInv'
<1>1. TablesType' /\ RowsInv'
  BY DEF IInv, TypeOK, TablesType, RowsInv, OpenRowInv, IsOpen, Issued, Present
<1>2. Mild
  BY DEF Mild, IInv, TypeOK
<1>3. Ready(c)'
  BY DEF Ready, Present, IsOpen, Issued
<1> QED
  BY <1>1, <1>2, <1>3, Handover

\* A handler that has answered, or has not been entered, is always in order.
LEMMA DoneReady ==
  ASSUME NEW c \in Call, c.pc \in {"idle", "answered"}, c.op = "none"
  PROVE  Ready(c) /\ Ready(c)'
  BY DEF Ready, LoginPcs

LEMMA ReplyStep ==
  ASSUME IInv, TablesType', RowsInv', Mild, NEW p \in Procs,
         NEW a \in Answers, Reply(p, a)
  PROVE  IInv'
<1> DEFINE c == [Idle EXCEPT !.pc = "answered", !.answer = a]
<1>1. c \in Call /\ c.pc = "answered" /\ c.op = "none"
  BY AnsweredType
<1>2. call' = [call EXCEPT ![p] = c]
  BY DEF Reply
<1> HIDE DEF c
<1> QED
  BY <1>1, <1>2, DoneReady, Handover

LEMMA QuietReply ==
  ASSUME IInv, UNCHANGED <<accounts, sessions, handed, clock, purge>>,
         NEW p \in Procs, NEW a \in Answers, Reply(p, a)
  PROVE  IInv'
<1> DEFINE c == [Idle EXCEPT !.pc = "answered", !.answer = a]
<1>1. c \in Call /\ c.pc = "answered" /\ c.op = "none"
  BY AnsweredType
<1>2. call' = [call EXCEPT ![p] = c]
  BY DEF Reply
<1> HIDE DEF c
<1> QED
  BY <1>1, <1>2, DoneReady, TablesKept

-----------------------------------------------------------------------------
(* Steps that write no table.                                              *)

LEMMA LoginBeginStep ==
  ASSUME IInv, NEW p \in Procs, LoginBegin(p) PROVE IInv'
<1>1. PICK u \in Users :
        call' = [call EXCEPT ![p] =
                   [Idle EXCEPT !.pc = "read", !.op = "login", !.user = u,
                                !.during = {accounts[u].password}]]
  BY DEF LoginBegin
<1> DEFINE c == [Idle EXCEPT !.pc = "read", !.op = "login", !.user = u,
                             !.during = {accounts[u].password}]
<1>2. accounts[u].password \in Passwords \cup {NoPassword}
  BY DEF IInv, TypeOK, Account, NoAccount
<1>3. /\ c \in Call /\ c.pc = "read" /\ c.op = "login" /\ c.user = u
      /\ c.during = {accounts[u].password}
  BY <1>2 DEF Call, Idle, Pcs, Ops
<1>4. call' = [call EXCEPT ![p] = c]
  BY <1>1
<1> HIDE DEF c
<1>5. Ready(c)
  BY <1>3 DEF Ready, LoginPcs
<1> QED
  BY <1>3, <1>4, <1>5, TablesKept DEF LoginBegin

LEMMA LoginReadStep ==
  ASSUME IInv, NEW p \in Procs, LoginRead(p) PROVE IInv'
<1>1. CASE Reply(p, "unauthorized")
  BY <1>1, QuietReply DEF LoginRead, Answers
<1>2. CASE /\ Present(call[p].user)
           /\ call' = [call EXCEPT ![p] =
                         [@ EXCEPT !.pc = "compare",
                                   !.hash = accounts[call[p].user].password]]
  <2> DEFINE w == accounts[call[p].user].password
             c == [call[p] EXCEPT !.pc = "compare", !.hash = w]
  <2>1. /\ call[p] \in Call /\ Ready(call[p]) /\ call[p].pc = "read"
        /\ call[p].user \in Users /\ call[p].op = "login"
        /\ w \in call[p].during
    BY <1>2 DEF IInv, TypeOK, LoginRead, At, Ready, LoginPcs
  <2>2. w \in Passwords
    BY <1>2, <2>1, AccountType DEF IInv, TypeOK, Present
  <2>3. /\ c \in Call /\ c.pc = "compare" /\ c.op = "login"
        /\ c.user \in Users /\ c.hash \in c.during
    BY <2>1, <2>2 DEF Call, Pcs
  <2>4. call' = [call EXCEPT ![p] = c]
    BY <1>2
  <2> HIDE DEF c, w
  <2>5. Ready(c)
    BY <2>3 DEF Ready, LoginPcs
  <2> QED
    BY <2>3, <2>4, <2>5, TablesKept DEF LoginRead
<1> QED
  BY <1>1, <1>2 DEF LoginRead

LEMMA LoginCompareStep ==
  ASSUME IInv, NEW p \in Procs, LoginCompare(p) PROVE IInv'
<1>1. CASE Reply(p, "unauthorized")
  BY <1>1, QuietReply DEF LoginCompare, Answers
<1>2. ASSUME NEW w \in Passwords, w = call[p].hash, Admit(p, w) PROVE IInv'
  <2> DEFINE c == [call[p] EXCEPT !.pc = "open", !.given = w,
                                  !.hash = NoPassword, !.now = clock]
  <2>1. /\ call[p] \in Call /\ Ready(call[p]) /\ call[p].pc = "compare"
        /\ clock \in Nat
    BY DEF IInv, TypeOK, LoginCompare, At
  <2>2. /\ call[p].user \in Users /\ call[p].op = "login"
        /\ w \in call[p].during
    BY <1>2, <2>1 DEF Ready, LoginPcs
  <2>3. /\ c \in Call /\ c.pc = "open" /\ c.op = "login"
        /\ c.user \in Users /\ c.given \in c.during /\ c.now = clock
    BY <2>1, <2>2 DEF Call, Pcs
  <2>4. call' = [call EXCEPT ![p] = c]
    BY <1>2 DEF Admit
  <2> HIDE DEF c
  <2>5. Ready(c)
    BY <2>1, <2>3 DEF Ready, LoginPcs
  <2> QED
    BY <2>3, <2>4, <2>5, TablesKept DEF LoginCompare
<1> QED
  BY <1>1, <1>2 DEF LoginCompare

LEMMA RequestBeginStep ==
  ASSUME IInv, NEW p \in Procs, RequestBegin(p) PROVE IInv'
<1>1. PICK op \in Ops \ {"login"}, t \in handed, u \in Users \cup {NoUser} :
        /\ op = "set_password" <=> u # NoUser
        /\ call' = [call EXCEPT ![p] =
                      [Idle EXCEPT !.pc = "slide", !.op = op, !.token = t,
                                   !.user = u, !.now = clock,
                                   !.during = IF op = "set_password" /\ IsOpen(t)
                                     THEN {accounts[sessions[t].user].role}
                                     ELSE {}]]
  BY DEF RequestBegin
<1> DEFINE r == IF op = "set_password" /\ IsOpen(t)
                  THEN {accounts[sessions[t].user].role} ELSE {}
           c == [Idle EXCEPT !.pc = "slide", !.op = op, !.token = t,
                             !.user = u, !.now = clock, !.during = r]
<1>2. t \in Tokens /\ Issued(t) /\ clock \in Nat
  BY DEF IInv, TypeOK, RowsInv
<1>3. IsOpen(t) => /\ accounts[sessions[t].user].role \in Roles
                   /\ sessions[t].created <= clock
  BY <1>2, AccountType DEF IInv, TypeOK, RowsInv, OpenRowInv, Present
<1>4. r \in SUBSET Roles
  BY <1>3
<1>5. (op = "set_password" /\ IsOpen(t))
        => accounts[sessions[t].user].role \in r
  OBVIOUS
<1>6. op = "set_password" => u \in Users
  BY <1>1
<1> HIDE DEF r
<1>7. /\ c \in Call /\ c.pc = "slide" /\ c.op = op /\ c.token = t
      /\ c.user = u /\ c.now = clock /\ c.during = r
  BY <1>2, <1>4 DEF Call, Idle, Pcs
<1>8. call' = [call EXCEPT ![p] = c]
  BY <1>1 DEF r
<1> HIDE DEF c
<1>9. Ready(c)
  BY <1>2, <1>3, <1>5, <1>6, <1>7 DEF Ready, LoginPcs
<1> QED
  BY <1>7, <1>8, <1>9, TablesKept DEF RequestBegin

LEMMA LookupUserStep ==
  ASSUME IInv, NEW p \in Procs, LookupUser(p) PROVE IInv'
<1> DEFINE t == call[p].token
           u == sessions[t].user
<1>1. /\ call[p] \in Call /\ Ready(call[p]) /\ call[p].pc = "user"
      /\ UNCHANGED <<accounts, sessions, handed, clock, purge>>
  BY DEF IInv, TypeOK, LookupUser, At
<1>2. CASE \E a \in {"unauthorized", "forbidden", "ok"} : Reply(p, a)
  BY <1>1, <1>2, QuietReply DEF Answers
<1>3. ASSUME IsOpen(t), May(call[p].op, accounts[u].role), Proceed(p, u)
      PROVE  IInv'
  <2>1. /\ Issued(t) /\ t \in Tokens /\ u \in Users
        /\ (call[p].op = "set_password") =>
             call[p].user \in Users /\ "admin" \in call[p].during
    BY <1>1, <1>3 DEF Ready, Issued, May, IInv, RowsInv, OpenRowInv
  <2>2. ASSUME call[p].op = "logout",
               call' = [call EXCEPT ![p] = [@ EXCEPT !.pc = "end"]]
        PROVE  IInv'
    <3> DEFINE c == [call[p] EXCEPT !.pc = "end"]
    <3>1. /\ c \in Call /\ c.pc = "end" /\ c.op = "logout" /\ c.token = t
          /\ call' = [call EXCEPT ![p] = c]
      BY <1>1, <2>2 DEF Call, Pcs
    <3> HIDE DEF c
    <3>2. Ready(c)
      BY <2>1, <3>1 DEF Ready, LoginPcs
    <3> QED
      BY <1>1, <3>1, <3>2, TablesKept
  <2>3. ASSUME call[p].op = "password",
               call' = [call EXCEPT ![p] =
                          [@ EXCEPT !.pc = "find", !.token = NoToken,
                                    !.user = u]]
        PROVE  IInv'
    <3> DEFINE c == [call[p] EXCEPT !.pc = "find", !.token = NoToken,
                                    !.user = u]
    <3>1. /\ c \in Call /\ c.pc = "find" /\ c.op = "password" /\ c.user = u
          /\ call' = [call EXCEPT ![p] = c]
      BY <1>1, <2>1, <2>3 DEF Call, Pcs
    <3> HIDE DEF c
    <3>2. Ready(c)
      BY <2>1, <3>1 DEF Ready, LoginPcs
    <3> QED
      BY <1>1, <3>1, <3>2, TablesKept
  <2>4. ASSUME call[p].op = "set_password",
               call' = [call EXCEPT ![p] = [@ EXCEPT !.pc = "find",
                                                     !.token = NoToken]]
        PROVE  IInv'
    <3> DEFINE c == [call[p] EXCEPT !.pc = "find", !.token = NoToken]
    <3>1. /\ c \in Call /\ c.pc = "find" /\ c.op = "set_password"
          /\ c.user = call[p].user /\ c.during = call[p].during
          /\ call' = [call EXCEPT ![p] = c]
      BY <1>1, <2>4 DEF Call, Pcs
    <3> HIDE DEF c
    <3>2. Ready(c)
      BY <2>1, <2>4, <3>1 DEF Ready, LoginPcs
    <3> QED
      BY <1>1, <3>1, <3>2, TablesKept
  <2> QED
    BY <1>2, <1>3, <2>2, <2>3, <2>4 DEF Proceed
<1> QED
  BY <1>2, <1>3 DEF LookupUser

LEMMA PasswordFindStep ==
  ASSUME IInv, NEW p \in Procs, PasswordFind(p) PROVE IInv'
<1>1. CASE Reply(p, "refused")
  BY <1>1, QuietReply DEF PasswordFind, Answers
<1>2. CASE call' = [call EXCEPT ![p] = [@ EXCEPT !.pc = "write"]]
  <2> DEFINE c == [call[p] EXCEPT !.pc = "write"]
  <2>1. call[p] \in Call /\ Ready(call[p]) /\ call[p].pc = "find"
    BY DEF IInv, TypeOK, PasswordFind, At
  <2>2. /\ c \in Call /\ c.pc = "write" /\ c.op = call[p].op
        /\ c.user = call[p].user /\ c.during = call[p].during
        /\ call' = [call EXCEPT ![p] = c]
    BY <1>2, <2>1 DEF Call, Pcs
  <2> HIDE DEF c
  <2>3. Ready(c)
    BY <2>1, <2>2 DEF Ready, LoginPcs
  <2> QED
    BY <2>2, <2>3, TablesKept DEF PasswordFind
<1> QED
  BY <1>1, <1>2 DEF PasswordFind

LEMMA FinishStep == ASSUME IInv, NEW p \in Procs, Finish(p) PROVE IInv'
<1>1. Idle.pc = "idle" /\ Idle.op = "none"
  BY DEF Idle
<1> QED
  BY <1>1, IdleType, DoneReady, TablesKept DEF Finish

LEMMA QuietStep ==
  ASSUME IInv, NEW p \in Procs, Refuse(p) \/ Abort(p)
  PROVE  IInv'
  BY QuietReply DEF Refuse, Abort, Answers

-----------------------------------------------------------------------------
(* Steps of a handler that write a table.                                  *)

LEMMA LoginOpenStep ==
  ASSUME IInv, NEW p \in Procs, LoginOpen(p) PROVE IInv'
<1>1. /\ call[p] \in Call /\ Ready(call[p]) /\ call[p].pc = "open"
      /\ UNCHANGED <<accounts, handed, clock, purge>>
  BY DEF IInv, TypeOK, LoginOpen, At
<1>2. CASE Reply(p, "error") /\ UNCHANGED sessions
  BY <1>1, <1>2, QuietReply DEF Answers
<1>3. ASSUME NEW t \in Tokens, Present(call[p].user), sessions[t] = Unissued,
             sessions' = [sessions EXCEPT ![t] =
                            NewSession(call[p].user, call[p].now)],
             call' = [call EXCEPT ![p] = [Idle EXCEPT !.pc = "stamp",
                                            !.op = "login", !.token = t]]
      PROVE  IInv'
  <2> DEFINE s == NewSession(call[p].user, call[p].now)
             c == [Idle EXCEPT !.pc = "stamp", !.op = "login", !.token = t]
  <2>1. /\ call[p].user \in Users /\ call[p].now \in Nat
        /\ call[p].now <= clock /\ clock \in Nat /\ TTL \in Nat \ {0}
    BY <1>1, SessionsAssumption DEF Ready, Call, IInv, TypeOK
  <2>2. /\ s \in Session /\ s.state = "open" /\ s.user = call[p].user
        /\ s.created = call[p].now /\ s.expires = call[p].now + TTL
    BY <2>1 DEF NewSession, Session
  <2>3. sessions' = [sessions EXCEPT ![t] = s] /\ sessions \in [Tokens -> Session]
    BY <1>3 DEF IInv, TypeOK
  <2> HIDE DEF s
  <2>4. TablesType'
    BY <1>1, <2>2, <2>3 DEF TablesType, IInv, TypeOK
  <2>5. sessions[t].state = "unissued" /\ ~IsOpen(t)
    BY <1>3 DEF Unissued, IsOpen
  <2>6. RowsInv'
    <3>1. \A x \in Tokens : IsOpen(x)' => OpenRowInv(x)'
      BY <1>1, <1>3, <2>1, <2>2, <2>3
      DEF IInv, RowsInv, OpenRowInv, IsOpen, Present
    <3>2. \A x \in Tokens : ~IsOpen(x)' => sessions'[x] \in {Unissued, Ended}
      BY <2>2, <2>3 DEF IInv, RowsInv, IsOpen
    <3>3. \A x \in handed' : Issued(x)'
      BY <1>1, <2>2, <2>3 DEF IInv, RowsInv, Issued
    <3> QED
      BY <1>1, <3>1, <3>2, <3>3 DEF IInv, RowsInv
  <2>7. Mild
    BY <1>1, <2>1, <2>3, <2>5 DEF Mild
  <2>8. /\ c \in Call /\ c.pc = "stamp" /\ c.op = "login" /\ c.token = t
        /\ call' = [call EXCEPT ![p] = c]
    BY <1>3 DEF Call, Idle, Pcs, Ops
  <2> HIDE DEF c
  <2>9. Ready(c)'
    BY <2>2, <2>3, <2>8 DEF Ready, LoginPcs, Issued
  <2> QED
    BY <2>4, <2>6, <2>7, <2>8, <2>9, Handover
<1> QED
  BY <1>1, <1>2, <1>3 DEF LoginOpen

LEMMA LoginStampStep ==
  ASSUME IInv, NEW p \in Procs, LoginStamp(p) PROVE IInv'
<1>1. /\ Issued(call[p].token) /\ handed' = handed \cup {call[p].token}
      /\ UNCHANGED <<accounts, sessions, clock, purge>>
  BY DEF IInv, LoginStamp, At, Ready
<1>2. TablesType' /\ RowsInv'
  BY <1>1
  DEF IInv, TypeOK, TablesType, RowsInv, OpenRowInv, IsOpen, Issued, Present
<1>3. Mild
  BY <1>1 DEF Mild, IInv, TypeOK
<1> QED
  BY <1>2, <1>3, ReplyStep DEF LoginStamp, Answers

LEMMA LookupSlideStep ==
  ASSUME IInv, NEW p \in Procs, LookupSlide(p) PROVE IInv'
<1> DEFINE t == call[p].token
           n == call[p].now
<1>1. /\ call[p] \in Call /\ Ready(call[p]) /\ call[p].pc = "slide"
      /\ UNCHANGED <<accounts, handed, clock, purge>>
  BY DEF IInv, TypeOK, LookupSlide, At
<1>2. CASE Reply(p, "unauthorized") /\ UNCHANGED sessions
  BY <1>1, <1>2, QuietReply DEF Answers
<1>3. ASSUME SlideMatches(t, n),
             sessions' = [sessions EXCEPT ![t] = [@ EXCEPT !.expires = SlidTo(n)]],
             call' = [call EXCEPT ![p] = [@ EXCEPT !.pc = "user", !.now = 0]]
      PROVE  IInv'
  <2> DEFINE s == [sessions[t] EXCEPT !.expires = SlidTo(n)]
  <2>1. /\ n \in Nat /\ n <= clock /\ clock \in Nat /\ TTL \in Nat \ {0}
        /\ t \in Tokens /\ IsOpen(t) /\ sessions[t] \in Session
        /\ sessions[t].created <= n
    BY <1>1, <1>3, SessionsAssumption
    DEF Ready, Call, IInv, TypeOK, SlideMatches, IsOpen
  <2>2. /\ s \in Session /\ s.state = "open" /\ s.user = sessions[t].user
        /\ s.created = sessions[t].created /\ s.expires = n + TTL
    BY <2>1 DEF SlidTo, Session, IsOpen
  <2>3. sessions' = [sessions EXCEPT ![t] = s] /\ sessions \in [Tokens -> Session]
    BY <1>3 DEF IInv, TypeOK
  <2> HIDE DEF s
  <2>4. TablesType'
    BY <1>1, <2>2, <2>3 DEF TablesType, IInv, TypeOK
  <2>5. s.created \in Nat
    BY <2>2 DEF Session
  <2>6. RowsInv'
    <3>1. \A x \in Tokens : IsOpen(x)' => OpenRowInv(x)'
      <4>1. ASSUME NEW x \in Tokens, IsOpen(x)' PROVE OpenRowInv(x)'
        <5>1. CASE x = t
          BY <1>1, <2>1, <2>2, <2>3, <2>5, <5>1
          DEF IInv, RowsInv, OpenRowInv, Present
        <5>2. CASE x # t
          BY <1>1, <2>3, <4>1, <5>2
          DEF IInv, RowsInv, OpenRowInv, IsOpen, Present
        <5> QED
          BY <5>1, <5>2
      <4> QED
        BY <4>1
    <3>2. \A x \in Tokens : ~IsOpen(x)' => sessions'[x] \in {Unissued, Ended}
      BY <2>2, <2>3 DEF IInv, RowsInv, IsOpen
    <3>3. \A x \in handed' : Issued(x)'
      BY <1>1, <2>2, <2>3 DEF IInv, RowsInv, Issued
    <3> QED
      BY <1>1, <3>1, <3>2, <3>3 DEF IInv, RowsInv
  <2>7. Mild
    BY <1>1, <2>1, <2>2, <2>3 DEF Mild, IsOpen
  <2>8. PICK c \in Call :
          /\ c.pc = "user" /\ c.op = call[p].op /\ c.token = t
          /\ c.user = call[p].user /\ c.during = call[p].during
          /\ call' = [call EXCEPT ![p] = c]
    <3> DEFINE d == [call[p] EXCEPT !.pc = "user", !.now = 0]
    <3>1. /\ d \in Call /\ d.pc = "user" /\ d.op = call[p].op /\ d.token = t
          /\ d.user = call[p].user /\ d.during = call[p].during
          /\ call' = [call EXCEPT ![p] = d]
      BY <1>1, <1>3 DEF Call, Pcs
    <3> QED
      BY <3>1
  <2>9. Ready(c)'
    <3>1. /\ c.op = "login" <=> c.pc \in LoginPcs
          /\ c.op = "set_password" =>
               c.user \in Users /\ accounts[sessions[t].user].role \in c.during
      BY <1>1, <2>1, <2>8 DEF Ready, LoginPcs
    <3>2. /\ sessions'[c.token].user = sessions[c.token].user
          /\ Issued(c.token)'
      BY <2>1, <2>2, <2>3, <2>8 DEF Issued
    <3> QED
      BY <1>1, <2>8, <3>1, <3>2 DEF Ready, LoginPcs
  <2> QED
    BY <2>4, <2>6, <2>7, <2>8, <2>9, Handover
<1> QED
  BY <1>1, <1>2, <1>3 DEF LookupSlide

\* Ending sessions leaves the tables in order, whichever they are, as long
\* as no account goes while it has an open one.
LEMMA Ending ==
  ASSUME IInv, NEW S \in SUBSET Tokens, \A t \in S : Issued(t), End(S),
         UNCHANGED <<handed, clock>>,
         purge' \in Nat \cup {NoTime}, purge' # NoTime => purge' <= clock,
         accounts' \in [Users -> Account],
         \A u \in Users : accounts'[u] \in {accounts[u], NoAccount},
         \A t \in Tokens \ S : IsOpen(t) => accounts'[sessions[t].user] # NoAccount
  PROVE  TablesType' /\ RowsInv' /\ Mild
<1>1. \A t \in Tokens : sessions'[t] = IF t \in S THEN Ended ELSE sessions[t]
  BY DEF End
<1>2. sessions' \in [Tokens -> Session]
  BY RowTypes DEF End, IInv, TypeOK
<1>3. Ended.state = "ended"
  BY DEF Ended
<1>4. TablesType'
  BY <1>2 DEF TablesType, IInv, TypeOK
<1>5. RowsInv'
  <2>1. \A t \in Tokens : IsOpen(t)' => t \notin S /\ IsOpen(t)
    BY <1>1, <1>3 DEF IsOpen
  <2>2. ASSUME NEW t \in Tokens, IsOpen(t)' PROVE OpenRowInv(t)'
    <3>1. /\ OpenRowInv(t) /\ sessions'[t] = sessions[t]
          /\ accounts'[sessions[t].user] # NoAccount
      BY <1>1, <2>1, <2>2 DEF IInv, RowsInv
    <3> QED
      BY <3>1 DEF OpenRowInv, Present
  <2>3. \A t \in Tokens : ~IsOpen(t)' => sessions'[t] \in {Unissued, Ended}
    BY <1>1 DEF IInv, RowsInv, IsOpen
  <2>4. \A t \in handed' : Issued(t)'
    BY <1>1, <1>3 DEF IInv, RowsInv, Issued
  <2> QED
    BY <2>2, <2>3, <2>4 DEF RowsInv
<1>6. Mild
  <2>1. clock <= clock'
    BY DEF IInv, TypeOK
  <2> QED
    BY <1>1, <1>3, <2>1 DEF Mild, Issued
<1> QED
  BY <1>4, <1>5, <1>6

LEMMA LogoutEndStep ==
  ASSUME IInv, NEW p \in Procs, LogoutEnd(p) PROVE IInv'
<1>1. /\ Issued(call[p].token) /\ Reply(p, "ok")
      /\ UNCHANGED <<accounts, handed, clock, purge>>
  BY DEF IInv, LogoutEnd, At, Ready
<1>2. CASE End({call[p].token})
  <2>1. /\ accounts' \in [Users -> Account]
        /\ \A t \in Tokens : IsOpen(t) => accounts'[sessions[t].user] # NoAccount
        /\ purge' \in Nat \cup {NoTime}
        /\ purge' # NoTime => purge' <= clock
    BY <1>1 DEF IInv, TypeOK, RowsInv, OpenRowInv, Present
  <2>2. PICK S \in SUBSET Tokens : S = {call[p].token}
    BY <1>1 DEF Issued
  <2>3. TablesType' /\ RowsInv' /\ Mild
    BY <1>1, <1>2, <2>1, <2>2, Ending
  <2> QED
    BY <1>1, <2>3, ReplyStep DEF Answers
<1>3. CASE UNCHANGED sessions
  BY <1>1, <1>3, QuietReply DEF Answers
<1> QED
  BY <1>2, <1>3 DEF LogoutEnd

-----------------------------------------------------------------------------
(* Steps that change an account under the handlers.                        *)

\* A handler of the login of u has seen w too.
LEMMA PasswordSeen ==
  ASSUME IInv, NEW u \in Users, Present(u), NEW w \in Passwords,
         accounts' = [accounts EXCEPT ![u] = [@ EXCEPT !.password = w]],
         UNCHANGED <<sessions, clock>>, NEW c \in Call, Ready(c), NEW d,
         d = IF c.op = "login" /\ c.user = u
               THEN [c EXCEPT !.during = @ \cup {w}] ELSE c
  PROVE  d \in Call /\ Ready(d)'
<1>1. /\ d \in Call /\ d.pc = c.pc /\ d.op = c.op /\ d.user = c.user
      /\ d.token = c.token /\ d.given = c.given /\ d.hash = c.hash
      /\ d.now = c.now /\ c.during \subseteq d.during
      /\ (c.op = "login" /\ c.user = u) => w \in d.during
  BY DEF Call
<1>2. /\ accounts \in [Users -> Account]
      /\ \A v \in Users : /\ accounts'[v].role = accounts[v].role
                          /\ v # u => accounts'[v] = accounts[v]
      /\ accounts'[u].password = w
  BY AccountType DEF IInv, TypeOK, Account, NoAccount
<1>3. \A t \in Tokens : IsOpen(t) => sessions[t].user \in Users
  BY DEF IInv, RowsInv, OpenRowInv
<1>4. (d.pc = "read" /\ accounts'[d.user] # NoAccount)
         => accounts'[d.user].password \in d.during
  BY <1>1, <1>2 DEF Ready, LoginPcs, Present
<1>5. (d.pc \in {"slide", "user"} /\ d.op = "set_password" /\ IsOpen(d.token))
         => accounts'[sessions[d.token].user].role \in d.during
  BY <1>1, <1>2, <1>3 DEF Ready, IsOpen
<1>6. d.pc \in {"find", "write"} =>
        /\ d.user \in Users
        /\ d.op = "set_password" => "admin" \in d.during
  BY <1>1 DEF Ready
<1>7. /\ d.op = "login" <=> d.pc \in LoginPcs
      /\ d.pc \in {"read", "compare", "open"} => d.user \in Users
      /\ d.pc = "compare" => d.hash \in d.during
      /\ d.pc = "open" => d.given \in d.during /\ d.now <= clock
      /\ d.pc \in {"stamp", "slide", "user", "end"} => Issued(d.token)
      /\ (d.pc \in {"slide", "user"} /\ d.op = "set_password") => d.user \in Users
      /\ d.pc = "slide" =>
           /\ d.now <= clock
           /\ IsOpen(d.token) => sessions[d.token].created <= d.now
  BY <1>1 DEF Ready
<1> QED
  BY <1>1, <1>4, <1>5, <1>6, <1>7 DEF Ready, Present, Issued, IsOpen

LEMMA PasswordWriteStep ==
  ASSUME IInv, NEW p \in Procs, PasswordWrite(p) PROVE IInv'
<1> DEFINE u == call[p].user
<1>1. /\ u \in Users /\ UNCHANGED <<sessions, handed, clock, purge>>
  BY DEF IInv, PasswordWrite, At, Ready
<1>2. CASE Reply(p, "ok") /\ UNCHANGED accounts
  BY <1>1, <1>2, QuietReply DEF Answers
<1>3. ASSUME NEW w \in Passwords, Present(u),
             accounts' = [accounts EXCEPT ![u] = [@ EXCEPT !.password = w]],
             call' = [Witness(u, w) EXCEPT ![p] =
                        [Idle EXCEPT !.pc = "answered", !.answer = "ok"]]
      PROVE  IInv'
  <2>1. accounts[u].password \in Passwords /\ accounts[u].role \in Roles
    BY <1>1, <1>3, AccountType DEF IInv, TypeOK, Present
  <2>2. /\ accounts' \in [Users -> Account]
        /\ \A v \in Users : Present(v) => Present(v)'
    BY <1>1, <1>3, <2>1, SessionsAssumption
    DEF IInv, TypeOK, Account, NoAccount, Present, Roles
  <2>3. RowsInv'
    <3>1. \A t \in Tokens : IsOpen(t) => accounts'[sessions[t].user] # NoAccount
      BY <2>2 DEF IInv, RowsInv, OpenRowInv, Present
    <3> QED
      BY <1>1, <3>1 DEF IInv, RowsInv, OpenRowInv, IsOpen, Issued, Present
  <2>4. ASSUME NEW q \in Procs PROVE call'[q] \in Call /\ Ready(call[q])'
    <3>1. CASE q = p
      <4>1. PICK d \in Call : /\ d = call'[q] /\ d.pc = "answered"
                              /\ d.op = "none"
        BY <1>3, <3>1, AnsweredType DEF Witness, Answers
      <4>2. Ready(d)'
        BY <4>1, DoneReady
      <4> QED
        BY <4>1, <4>2
    <3>2. CASE q # p
      <4>1. PICK c \in Call : c = call[q] /\ Ready(c)
        BY DEF IInv, TypeOK
      <4>2. PICK d : /\ d = call'[q]
                     /\ d = IF c.op = "login" /\ c.user = u
                              THEN [c EXCEPT !.during = @ \cup {w}] ELSE c
        BY <1>3, <3>2, <4>1 DEF Witness
      <4>3. PICK v \in Users : v = u
        BY <1>1
      <4>4. d \in Call /\ Ready(d)'
        BY <1>1, <1>3, <4>1, <4>2, <4>3, PasswordSeen
      <4> QED
        BY <4>2, <4>4
    <3> QED
      BY <3>1, <3>2
  <2>5. call' = [q \in Procs |-> call'[q]]
    BY <1>3 DEF Witness
  <2> QED
    BY <1>1, <2>2, <2>3, <2>4, <2>5 DEF IInv, TypeOK
<1> QED
  BY <1>1, <1>2, <1>3 DEF PasswordWrite

\* A request of u's session has seen r too.
LEMMA RoleSeen ==
  ASSUME IInv, NEW u \in Users, Present(u), NEW r \in Roles,
         accounts' = [accounts EXCEPT ![u] = [@ EXCEPT !.role = r]],
         UNCHANGED <<sessions, clock>>, NEW c \in Call, Ready(c), NEW d,
         d = IF c.op = "set_password" /\ IsOpen(c.token)
                  /\ sessions[c.token].user = u
               THEN [c EXCEPT !.during = @ \cup {r}] ELSE c
  PROVE  d \in Call /\ Ready(d)'
<1>1. /\ d \in Call /\ d.pc = c.pc /\ d.op = c.op /\ d.user = c.user
      /\ d.token = c.token /\ d.given = c.given /\ d.hash = c.hash
      /\ d.now = c.now /\ c.during \subseteq d.during
      /\ (c.op = "set_password" /\ IsOpen(c.token)
            /\ sessions[c.token].user = u) => r \in d.during
  BY DEF Call
<1>2. /\ accounts \in [Users -> Account]
      /\ \A v \in Users : /\ accounts'[v].password = accounts[v].password
                          /\ v # u => accounts'[v] = accounts[v]
      /\ accounts'[u].role = r
  BY AccountType DEF IInv, TypeOK, Account, NoAccount
<1>3. \A t \in Tokens : IsOpen(t) => sessions[t].user \in Users
  BY DEF IInv, RowsInv, OpenRowInv
<1>4. (d.pc = "read" /\ accounts'[d.user] # NoAccount)
         => accounts'[d.user].password \in d.during
  <2>1. d.pc = "read" => d.user \in Users
    BY <1>1 DEF Ready
  <2>2. (d.pc = "read" /\ accounts'[d.user] # NoAccount) => Present(d.user)
    BY <1>2, <2>1 DEF Present
  <2> QED
    BY <1>1, <1>2, <2>1, <2>2 DEF Ready
<1>5. (d.pc \in {"slide", "user"} /\ d.op = "set_password" /\ IsOpen(d.token))
         => accounts'[sessions[d.token].user].role \in d.during
  BY <1>1, <1>2, <1>3 DEF Ready, IsOpen
<1>6. d.pc \in {"find", "write"} =>
        /\ d.user \in Users
        /\ d.op = "set_password" => "admin" \in d.during
  BY <1>1 DEF Ready
<1>7. /\ d.op = "login" <=> d.pc \in LoginPcs
      /\ d.pc \in {"read", "compare", "open"} => d.user \in Users
      /\ d.pc = "compare" => d.hash \in d.during
      /\ d.pc = "open" => d.given \in d.during /\ d.now <= clock
      /\ d.pc \in {"stamp", "slide", "user", "end"} => Issued(d.token)
      /\ (d.pc \in {"slide", "user"} /\ d.op = "set_password") => d.user \in Users
      /\ d.pc = "slide" =>
           /\ d.now <= clock
           /\ IsOpen(d.token) => sessions[d.token].created <= d.now
  BY <1>1 DEF Ready
<1> QED
  BY <1>1, <1>4, <1>5, <1>6, <1>7 DEF Ready, Present, Issued, IsOpen

LEMMA ChangeRoleStep ==
  ASSUME IInv, NEW u \in Users, NEW r \in Roles, ChangeRole(u, r) PROVE IInv'
<1>1. /\ Present(u)
      /\ accounts' = [accounts EXCEPT ![u] = [@ EXCEPT !.role = r]]
      /\ UNCHANGED <<sessions, handed, clock, purge>>
  BY DEF ChangeRole
<1>2. accounts[u].password \in Passwords
  BY <1>1, AccountType DEF IInv, TypeOK, Present
<1>3. /\ accounts' \in [Users -> Account]
      /\ \A v \in Users : Present(v) => Present(v)'
  BY <1>1, <1>2, SessionsAssumption
  DEF IInv, TypeOK, Account, NoAccount, Present, Roles
<1>4. RowsInv'
  <2>1. \A t \in Tokens : IsOpen(t) => accounts'[sessions[t].user] # NoAccount
    BY <1>3 DEF IInv, RowsInv, OpenRowInv, Present
  <2> QED
    BY <1>1, <2>1 DEF IInv, RowsInv, OpenRowInv, IsOpen, Issued, Present
<1>5. ASSUME NEW q \in Procs PROVE call'[q] \in Call /\ Ready(call[q])'
  <2>1. PICK c \in Call : c = call[q] /\ Ready(c)
    BY DEF IInv, TypeOK
  <2>2. PICK d : /\ d = call'[q]
                 /\ d = IF c.op = "set_password" /\ IsOpen(c.token)
                             /\ sessions[c.token].user = u
                          THEN [c EXCEPT !.during = @ \cup {r}] ELSE c
    BY <2>1 DEF ChangeRole
  <2>3. d \in Call /\ Ready(d)'
    BY <1>1, <2>1, <2>2, RoleSeen
  <2> QED
    BY <2>2, <2>3
<1>6. call' = [q \in Procs |-> call'[q]]
  BY DEF ChangeRole
<1> QED
  BY <1>1, <1>3, <1>4, <1>5, <1>6 DEF IInv, TypeOK

-----------------------------------------------------------------------------
(* Steps around the handlers.                                              *)

LEMMA EveryoneWaits ==
  ASSUME IInv, TablesType', RowsInv', Mild, UNCHANGED call
  PROVE  IInv'
<1>1. TypeOK'
  BY DEF TypeOK, TablesType, IInv
<1>2. ASSUME NEW q \in Procs PROVE Ready(call[q])'
  <2>1. PICK d \in Call : d = call[q] /\ call'[q] = d /\ Ready(d)
    BY DEF IInv, TypeOK
  <2>2. Ready(d)'
    BY <2>1, Bystander DEF IInv
  <2> QED
    BY <2>1, <2>2
<1> QED
  BY <1>1, <1>2 DEF IInv

LEMMA PresentOwners ==
  ASSUME IInv, UNCHANGED accounts
  PROVE  /\ accounts' \in [Users -> Account]
         /\ \A u \in Users : accounts'[u] \in {accounts[u], NoAccount}
         /\ \A t \in Tokens : IsOpen(t) => accounts'[sessions[t].user] # NoAccount
  BY DEF IInv, TypeOK, RowsInv, OpenRowInv, Present

LEMMA DeleteAccountStep ==
  ASSUME IInv, NEW u \in Users, DeleteAccount(u) PROVE IInv'
<1>1. PICK S \in SUBSET Tokens : S = Cascade(u)
  BY DEF Cascade
<1>2. /\ accounts' = [accounts EXCEPT ![u] = NoAccount] /\ End(S)
      /\ UNCHANGED <<handed, clock, purge, call>>
  BY <1>1 DEF DeleteAccount
<1>3. \A t \in S : Issued(t)
  BY <1>1, SessionsAssumption
  DEF Cascade, Issued, IInv, RowsInv, IsOpen, Unissued, Ended
<1>4. /\ accounts' \in [Users -> Account]
      /\ \A v \in Users : accounts'[v] \in {accounts[v], NoAccount}
  BY <1>2 DEF IInv, TypeOK, Account
<1>5. \A t \in Tokens \ S : IsOpen(t) => accounts'[sessions[t].user] # NoAccount
  BY <1>1, <1>2 DEF Cascade, IInv, TypeOK, RowsInv, OpenRowInv, Present
<1>6. purge' \in Nat \cup {NoTime} /\ (purge' # NoTime => purge' <= clock)
  BY <1>2 DEF IInv, TypeOK, RowsInv
<1>7. TablesType' /\ RowsInv' /\ Mild
  BY <1>2, <1>3, <1>4, <1>5, <1>6, Ending
<1> QED
  BY <1>2, <1>7, EveryoneWaits

LEMMA PurgeStep == ASSUME IInv, Purger PROVE IInv'
<1>1. PICK S \in SUBSET Tokens : S = {t \in Tokens : Stale(t)}
  OBVIOUS
<1>2. \A t \in S : Issued(t)
  BY <1>1 DEF Stale, Issued, IsOpen
<1>3. CASE PurgeDelete
  <2>1. /\ End(S) /\ UNCHANGED <<accounts, handed, clock>>
        /\ purge' \in Nat \cup {NoTime} /\ (purge' # NoTime => purge' <= clock)
    BY <1>1, <1>3 DEF PurgeDelete
  <2>2. /\ accounts' \in [Users -> Account]
        /\ \A u \in Users : accounts'[u] \in {accounts[u], NoAccount}
        /\ \A t \in Tokens \ S : IsOpen(t) => accounts'[sessions[t].user] # NoAccount
    BY <2>1, PresentOwners
  <2>3. TablesType' /\ RowsInv' /\ Mild
    BY <1>2, <2>1, <2>2, Ending
  <2> QED
    BY <1>3, <2>3, EveryoneWaits DEF PurgeDelete
<1>4. CASE PurgeBegin \/ PurgeFail
  <2>1. /\ UNCHANGED <<accounts, sessions, handed, clock, call>>
        /\ purge' \in Nat \cup {NoTime} /\ (purge' # NoTime => purge' <= clock)
    BY <1>4 DEF PurgeBegin, PurgeFail, IInv, TypeOK
  <2>2. TablesType' /\ RowsInv'
    BY <2>1
    DEF IInv, TypeOK, TablesType, RowsInv, OpenRowInv, IsOpen, Issued, Present
  <2>3. Mild
    BY <2>1 DEF Mild, IInv, TypeOK
  <2> QED
    BY <2>1, <2>2, <2>3, EveryoneWaits
<1> QED
  BY <1>3, <1>4 DEF Purger

LEMMA WipeStep == ASSUME IInv, Wipe PROVE IInv'
<1>1. PICK S \in SUBSET Tokens : S = {t \in Tokens : IsOpen(t)}
  OBVIOUS
<1>2. \A t \in S : Issued(t)
  BY <1>1 DEF Issued, IsOpen
<1>3. /\ End(S) /\ UNCHANGED <<accounts, handed, clock, purge, call>>
      /\ purge' \in Nat \cup {NoTime} /\ (purge' # NoTime => purge' <= clock)
  BY <1>1 DEF Wipe, IInv, TypeOK, RowsInv
<1>4. /\ accounts' \in [Users -> Account]
      /\ \A u \in Users : accounts'[u] \in {accounts[u], NoAccount}
      /\ \A t \in Tokens \ S : IsOpen(t) => accounts'[sessions[t].user] # NoAccount
  BY <1>3, PresentOwners
<1>5. TablesType' /\ RowsInv' /\ Mild
  BY <1>2, <1>3, <1>4, Ending
<1> QED
  BY <1>3, <1>5, EveryoneWaits

LEMMA CrashStep == ASSUME IInv, Crash PROVE IInv'
<1>1. TypeOK'
  BY IdleType DEF Crash, TypeOK, IInv
<1>2. RowsInv'
  BY DEF Crash, IInv, RowsInv, OpenRowInv, IsOpen, Issued, Present
<1>3. \A q \in Procs : Ready(call[q])'
  BY DEF Crash, Ready, Idle, LoginPcs
<1> QED
  BY <1>1, <1>2, <1>3 DEF IInv

LEMMA TickStep == ASSUME IInv, Tick PROVE IInv'
<1>1. /\ clock \in Nat /\ clock' = clock + 1 /\ TTL \in Nat
      /\ UNCHANGED <<accounts, sessions, handed, purge, call>>
  BY SessionsAssumption DEF Tick, IInv, TypeOK
<1>2. \A t \in Tokens : sessions[t].created \in Nat /\ sessions[t].expires \in Nat
  BY DEF IInv, TypeOK, Session
<1>3. TablesType'
  BY <1>1 DEF IInv, TypeOK, TablesType
<1>4. \A t \in Tokens : IsOpen(t) => OpenRowInv(t)'
  BY <1>1, <1>2 DEF IInv, RowsInv, OpenRowInv, Present
<1>5. purge # NoTime => purge <= clock'
  BY <1>1 DEF IInv, TypeOK, RowsInv
<1>6. RowsInv'
  BY <1>1, <1>4, <1>5 DEF IInv, RowsInv, IsOpen, Issued
<1>7. Mild
  BY <1>1 DEF Mild, IInv, TypeOK
<1> QED
  BY <1>1, <1>3, <1>6, <1>7, EveryoneWaits

-----------------------------------------------------------------------------
(* The invariant, and what follows from it.                                *)

LEMMA InvStep == IInv /\ [Next]_vars => IInv'
<1> SUFFICES ASSUME IInv, [Next]_vars PROVE IInv'
  OBVIOUS
<1>1. CASE UNCHANGED vars
  BY <1>1
  DEF vars, IInv, TypeOK, RowsInv, OpenRowInv, IsOpen, Issued, Present, Ready
<1>2. ASSUME NEW p \in Procs, Arrive(p) \/ Serve(p) \/ Abort(p) PROVE IInv'
  BY <1>2, LoginBeginStep, RequestBeginStep, QuietStep, LoginReadStep,
     LoginCompareStep, LoginOpenStep, LoginStampStep, LookupSlideStep,
     LookupUserStep, LogoutEndStep, PasswordFindStep, PasswordWriteStep,
     FinishStep
  DEF Arrive, Serve
<1> QED
  BY <1>1, <1>2, DeleteAccountStep, ChangeRoleStep, PurgeStep, CrashStep,
     WipeStep, TickStep
  DEF Next, Serving

THEOREM InvAlways == Spec => []IInv
  BY InvInit, InvStep, PTL DEF Spec

\* Every variable has its type, whatever the interleaving.
THEOREM TypesHold == Spec => []TypeOK
<1>1. IInv => TypeOK
  BY DEF IInv
<1> QED
  BY <1>1, InvAlways, PTL

\* A login is granted only on a password the account has had since the login
\* arrived (auth.go:237-266), however many logins, changes of password and
\* deletions run at once.
THEOREM LoginsUseTheirOwnPassword == Spec => []LoginPasswordWasCurrent
<1>1. IInv => LoginPasswordWasCurrent
  BY DEF IInv, Ready, LoginPasswordWasCurrent, At
<1> QED
  BY <1>1, InvAlways, PTL

\* Whoever sets another's password was an admin at some moment of his
\* request (middleware.go:44-53).
THEOREM OnlyAdminsSetPasswords == Spec => []SettersWereAdmins
<1>1. IInv => SettersWereAdmins
  BY DEF IInv, Ready, SettersWereAdmins
<1> QED
  BY <1>1, InvAlways, PTL

\* A session's expiry stays within its bounds in whatever order overlapping
\* requests store it (auth.go:286-290).
THEOREM SessionsLastTheirTerm == Spec => []SessionLastsItsTerm
<1>1. IInv => SessionLastsItsTerm
  BY DEF IInv, RowsInv, OpenRowInv, SessionLastsItsTerm
<1> QED
  BY <1>1, InvAlways, PTL

-----------------------------------------------------------------------------
(* What a step may do to a session.                                        *)

\* The statements that write the table sessions while the daemon serves.
LEMMA ServingWriters ==
  ASSUME Serving
  PROVE  \/ UNCHANGED sessions
         \/ \E p \in Procs : LoginOpen(p) \/ LookupSlide(p) \/ LogoutEnd(p)
         \/ \E u \in Users : DeleteAccount(u)
         \/ PurgeDelete
  BY DEF Serving, Arrive, Serve, Purger, LoginBegin, RequestBegin, Refuse,
         LoginRead, LoginCompare, LoginStamp, LookupUser, PasswordFind,
         PasswordWrite, Finish, Abort, ChangeRole, PurgeBegin, PurgeFail

\* The statements that write it at all.
LEMMA SessionWriters ==
  ASSUME [Next]_vars
  PROVE  \/ UNCHANGED sessions
         \/ \E p \in Procs : LoginOpen(p) \/ LookupSlide(p) \/ LogoutEnd(p)
         \/ \E u \in Users : DeleteAccount(u)
         \/ PurgeDelete
         \/ Wipe
  BY ServingWriters DEF Next, vars, Crash, Tick

\* The statements that add or remove an account, and what moves the clock.
LEMMA StaffAndTime ==
  ASSUME IInv, [Next]_vars
  PROVE  /\ \/ \A u \in Users : Present(u) <=> Present(u)'
            \/ \E u \in Users : DeleteAccount(u)
         /\ UNCHANGED clock \/ Tick
<1>1. UNCHANGED clock \/ Tick
  BY DEF Next, Serving, Arrive, Serve, Purger, vars, LoginBegin, RequestBegin,
         Refuse, LoginRead, LoginCompare, LoginOpen, LoginStamp, LookupSlide,
         LookupUser, LogoutEnd, PasswordFind, PasswordWrite, Finish, Abort,
         DeleteAccount, ChangeRole, PurgeBegin, PurgeDelete, PurgeFail, Crash,
         Wipe, Tick
<1>2. \/ UNCHANGED accounts
      \/ \E p \in Procs : PasswordWrite(p)
      \/ \E u \in Users, r \in Roles : ChangeRole(u, r)
      \/ \E u \in Users : DeleteAccount(u)
  BY DEF Next, Serving, Arrive, Serve, Purger, vars, LoginBegin, RequestBegin,
         Refuse, LoginRead, LoginCompare, LoginOpen, LoginStamp, LookupSlide,
         LookupUser, LogoutEnd, PasswordFind, Finish, Abort, PurgeBegin,
         PurgeDelete, PurgeFail, Crash, Wipe, Tick
<1>3. ASSUME NEW p \in Procs, PasswordWrite(p)
      PROVE  \A v \in Users : Present(v) <=> Present(v)'
  <2>1. call[p].user \in Users
    BY <1>3 DEF IInv, PasswordWrite, At, Ready
  <2>2. CASE UNCHANGED accounts
    BY <2>2 DEF Present
  <2>3. ASSUME NEW w \in Passwords, Present(call[p].user),
               accounts' = [accounts EXCEPT ![call[p].user] =
                              [@ EXCEPT !.password = w]]
        PROVE  \A v \in Users : Present(v) <=> Present(v)'
    <3>1. accounts[call[p].user].role \in Roles
      BY <2>1, <2>3, AccountType DEF IInv, TypeOK, Present
    <3> QED
      BY <2>1, <2>3, <3>1, SessionsAssumption
      DEF IInv, TypeOK, Present, NoAccount, Roles, Account
  <2> QED
    BY <1>3, <2>2, <2>3 DEF PasswordWrite
<1>4. ASSUME NEW u \in Users, NEW r \in Roles, ChangeRole(u, r)
      PROVE  \A v \in Users : Present(v) <=> Present(v)'
  <2>1. accounts[u].password \in Passwords
    BY <1>4, AccountType DEF ChangeRole, IInv, TypeOK, Present
  <2> QED
    BY <1>4, <2>1, SessionsAssumption
    DEF ChangeRole, IInv, TypeOK, Present, NoAccount, Roles, Account
<1>5. CASE UNCHANGED accounts
  BY <1>1, <1>5 DEF Present
<1> QED
  BY <1>1, <1>2, <1>3, <1>4, <1>5

\* A step that leaves every open session open.
LEMMA OpeningsAndSlides ==
  ASSUME IInv, NEW p \in Procs, LoginOpen(p) \/ LookupSlide(p)
  PROVE  /\ \A t \in Tokens : IsOpen(t) => IsOpen(t)'
         /\ UNCHANGED <<accounts, clock>>
<1>1. CASE LoginOpen(p)
  <2>1. CASE UNCHANGED sessions
    BY <1>1, <2>1 DEF LoginOpen, IsOpen
  <2>2. ASSUME NEW t \in Tokens, sessions[t] = Unissued, NEW s,
               sessions' = [sessions EXCEPT ![t] = s]
        PROVE  \A x \in Tokens : IsOpen(x) => IsOpen(x)'
    BY <2>2 DEF IInv, TypeOK, IsOpen, Unissued
  <2>3. UNCHANGED <<accounts, clock>>
    BY <1>1 DEF LoginOpen
  <2> QED
    BY <1>1, <2>1, <2>2, <2>3 DEF LoginOpen
<1>2. CASE LookupSlide(p)
  <2>1. CASE UNCHANGED sessions
    BY <1>2, <2>1 DEF LookupSlide, IsOpen
  <2>2. ASSUME NEW t, NEW n,
               sessions' = [sessions EXCEPT ![t] = [@ EXCEPT !.expires = n]]
        PROVE  \A x \in Tokens : IsOpen(x) => IsOpen(x)'
    BY <2>2 DEF IInv, TypeOK, IsOpen, Session
  <2>3. UNCHANGED <<accounts, clock>>
    BY <1>2 DEF LookupSlide
  <2> QED
    BY <1>2, <2>1, <2>2, <2>3 DEF LookupSlide
<1> QED
  BY <1>1, <1>2

\* How a session that is still good ends while the daemon serves.
EndedWhileServing(t) ==
  \/ \E p \in Procs : /\ At(p, "end")
                      /\ call[p].token = t
                      /\ call'[p].answer = "ok"
  \/ accounts'[sessions[t].user] = NoAccount

LEMMA ServingEnds ==
  ASSUME IInv, Serving, NEW t \in Tokens, Live(t), ~IsOpen(t)'
  PROVE  EndedWhileServing(t)
<1>1. CASE UNCHANGED sessions
  BY <1>1 DEF Live, IsOpen
<1>2. ASSUME NEW p \in Procs, LoginOpen(p) \/ LookupSlide(p)
      PROVE  FALSE
  BY <1>2, OpeningsAndSlides DEF Live
<1>3. ASSUME NEW p \in Procs, LogoutEnd(p) PROVE EndedWhileServing(t)
  <2>1. call[p].token = t
    BY <1>3 DEF LogoutEnd, End, Live, IsOpen
  <2>2. At(p, "end") /\ call'[p].answer = "ok"
    BY <1>3 DEF LogoutEnd, Reply, IInv, TypeOK, Idle
  <2> QED
    BY <2>1, <2>2 DEF EndedWhileServing
<1>4. ASSUME NEW u \in Users, DeleteAccount(u) PROVE EndedWhileServing(t)
  <2>1. sessions[t].user = u
    BY <1>4 DEF DeleteAccount, End, Cascade, Live, IsOpen
  <2> QED
    BY <1>4, <2>1 DEF DeleteAccount, IInv, TypeOK, EndedWhileServing
<1>5. CASE PurgeDelete
  <2>1. Stale(t)
    BY <1>5 DEF PurgeDelete, End, Live, IsOpen
  <2>2. /\ sessions[t].expires \in Nat /\ clock \in Nat /\ purge \in Nat
        /\ purge <= clock
    BY <1>5 DEF PurgeDelete, IInv, TypeOK, RowsInv, Session
  <2> QED
    BY <2>1, <2>2 DEF Stale, Live
<1> QED
  BY <1>1, <1>2, <1>3, <1>4, <1>5, ServingWriters

\* What may end a session that is open.
EndsForAReason(t) ==
  (Live(t) /\ ~IsOpen(t)') =>
    \/ \E p \in Procs : /\ At(p, "end")
                        /\ call[p].token = t
                        /\ call'[p].answer = "ok"
    \/ accounts'[sessions[t].user] = NoAccount
    \/ purge = NoTime /\ \A p \in Procs : call[p] = Idle

LEMMA EndingStep ==
  IInv /\ [Next]_vars => \A t \in Tokens : EndsForAReason(t)
<1> SUFFICES ASSUME IInv, [Next]_vars, NEW t \in Tokens,
                    Live(t), ~IsOpen(t)'
             PROVE  EndsForAReason(t)
  BY DEF EndsForAReason
<1>1. CASE Serving
  BY <1>1, ServingEnds DEF EndedWhileServing, EndsForAReason
<1>2. CASE Wipe
  BY <1>2 DEF Wipe, EndsForAReason
<1>3. CASE UNCHANGED sessions
  BY <1>3 DEF Live, IsOpen
<1> QED
  BY <1>1, <1>2, <1>3 DEF Next, vars, Crash, Tick

\* No session that is still good is lost but to a logout, to the end of its
\* account or to the wipe before serving; the purge takes none, however old
\* the second it read (auth.go:328-332).
THEOREM LiveSessionsOnlyEndForAReason == Spec => LiveSessionsEndForAReason
<1>1. IInv /\ [Next]_vars => [\A t \in Tokens :
       (Live(t) /\ ~IsOpen(t)') =>
         \/ \E p \in Procs : /\ At(p, "end")
                             /\ call[p].token = t
                             /\ call'[p].answer = "ok"
         \/ accounts'[sessions[t].user] = NoAccount
         \/ purge = NoTime /\ \A p \in Procs : call[p] = Idle]_vars
  BY EndingStep DEF EndsForAReason
<1> QED
  BY <1>1, InvAlways, PTL DEF Spec, LiveSessionsEndForAReason

\* What may bring an expired session back.
RevivedByOneWaiting(t) ==
  (IsOpen(t) /\ ~Live(t) /\ Live(t)') =>
    \E p \in Procs : /\ call[p].token = t
                      /\ call'[p].pc = "user"
                      /\ call[p].now < sessions[t].expires

LEMMA RevivingStep ==
  IInv /\ [Next]_vars => \A t \in Tokens : RevivedByOneWaiting(t)
<1> SUFFICES ASSUME IInv, [Next]_vars, NEW t \in Tokens,
                    IsOpen(t), ~Live(t), Live(t)'
             PROVE  RevivedByOneWaiting(t)
  BY DEF RevivedByOneWaiting
<1>1. /\ clock \in Nat /\ clock' \in Nat /\ clock <= clock'
      /\ sessions[t].expires \in Nat /\ sessions[t].expires <= clock
  BY StaffAndTime DEF IInv, TypeOK, Session, Live, Tick
<1>2. sessions'[t] # sessions[t]
  BY <1>1 DEF Live
<1>3. sessions'[t].state = "open"
  BY DEF Live, IsOpen
<1>4. Ended.state = "ended" /\ Unissued.state = "unissued"
  BY DEF Ended, Unissued
<1>5. ASSUME NEW p \in Procs, LookupSlide(p) PROVE RevivedByOneWaiting(t)
  <2>1. /\ sessions' = [sessions EXCEPT ![call[p].token] =
                          [@ EXCEPT !.expires = SlidTo(call[p].now)]]
        /\ SlideMatches(call[p].token, call[p].now)
        /\ call' = [call EXCEPT ![p] = [@ EXCEPT !.pc = "user", !.now = 0]]
    BY <1>2, <1>5 DEF LookupSlide
  <2>2. call[p].token = t
    BY <1>2, <2>1 DEF IInv, TypeOK
  <2>3. call'[p].pc = "user"
    BY <2>1 DEF IInv, TypeOK, Call
  <2>4. call[p].now < sessions[t].expires
    BY <1>1, <2>1, <2>2 DEF SlideMatches, IInv, TypeOK, Call
  <2> QED
    BY <2>2, <2>3, <2>4 DEF RevivedByOneWaiting
<1>6. ASSUME NEW p \in Procs PROVE ~LoginOpen(p)
  BY <1>2, <1>4 DEF LoginOpen, IsOpen, IInv, TypeOK
<1>7. ASSUME NEW S, End(S) PROVE FALSE
  BY <1>2, <1>3, <1>4, <1>7 DEF End
<1> QED
  BY <1>2, <1>5, <1>6, <1>7, SessionWriters
  DEF LogoutEnd, DeleteAccount, PurgeDelete, Wipe

\* An expired session comes back only through a request that was waiting
\* when it expired (auth.go:287-296).
THEOREM OnlyWaitingRequestsRevive == Spec => LateRequestsDoNotRevive
<1>1. IInv /\ [Next]_vars => [\A t \in Tokens :
       (IsOpen(t) /\ ~Live(t) /\ Live(t)') =>
         \E p \in Procs : /\ call[p].token = t
                           /\ call'[p].pc = "user"
                           /\ call[p].now < sessions[t].expires]_vars
  BY RevivingStep DEF RevivedByOneWaiting
<1> QED
  BY <1>1, InvAlways, PTL DEF Spec, LateRequestsDoNotRevive

-----------------------------------------------------------------------------
(* The service implements the register.                                    *)

Staff == {u \in Users : Present(u)}

LEMMA RegisterStart == Init => Register!RegisterInit
  BY SessionsAssumption
  DEF Init, Register!RegisterInit, Unissued, Present, NoAccount

\* End is the register's Over.
LEMMA EndIsOver ==
  ASSUME NEW S \in SUBSET Tokens, End(S) PROVE Register!Over(S)
  BY DEF End, Register!Over, Ended

LEMMA RegisterStep ==
  IInv /\ [Next]_vars => [Register!RegisterNext]_(Register!registerVars)
<1> SUFFICES ASSUME IInv, [Next]_vars
             PROVE  [Register!RegisterNext]_(Register!registerVars)
  OBVIOUS
<1> DEFINE Goal == [Register!RegisterNext]_(Register!registerVars)
<1>1. \A t \in Tokens : IsOpen(t) <=> t \in Register!OpenTokens
  BY DEF IsOpen, Register!OpenTokens
<1>2. ASSUME UNCHANGED <<accounts, clock>> PROVE Staff' = Staff
  BY <1>2 DEF Staff, Present
<1>3. ASSUME NEW p \in Procs, LoginOpen(p) PROVE Goal
  <2>1. CASE UNCHANGED sessions
    BY <1>2, <1>3, <2>1 DEF LoginOpen, Register!registerVars, Staff
  <2>2. ASSUME NEW t \in Tokens, Present(call[p].user),
               sessions[t] = Unissued,
               sessions' = [sessions EXCEPT ![t] =
                              NewSession(call[p].user, call[p].now)]
        PROVE  Goal
    <3>1. /\ call[p].user \in Staff /\ call[p].now \in 0..clock
          /\ UNCHANGED <<accounts, clock>>
      <4>1. /\ call[p] \in Call /\ Ready(call[p]) /\ call[p].pc = "open"
            /\ UNCHANGED <<accounts, clock>>
        BY <1>3 DEF LoginOpen, At, IInv, TypeOK
      <4>2. call[p].user \in Users /\ call[p].now \in Nat /\ call[p].now <= clock
        BY <4>1 DEF Ready, Call
      <4> QED
        BY <2>2, <4>1, <4>2 DEF Staff, IInv, TypeOK
    <3>2. Register!Admit(t, call[p].user, call[p].now)
      BY <1>2, <2>2, <3>1
      DEF Register!Admit, Unissued, NewSession, Staff
    <3> QED
      BY <3>1, <3>2 DEF Register!RegisterNext, Staff
  <2> QED
    BY <1>3, <2>1, <2>2 DEF LoginOpen
<1>4. ASSUME NEW p \in Procs, LookupSlide(p) PROVE Goal
  <2> DEFINE t == call[p].token
             n == call[p].now
  <2>1. CASE UNCHANGED sessions
    BY <1>2, <1>4, <2>1 DEF LookupSlide, Register!registerVars, Staff
  <2>2. ASSUME SlideMatches(t, n),
               sessions' = [sessions EXCEPT ![t] = [@ EXCEPT !.expires = SlidTo(n)]]
        PROVE  Goal
    <3>1. /\ t \in Tokens /\ IsOpen(t) /\ n \in Nat /\ n <= clock
          /\ clock \in Nat /\ TTL \in Nat /\ sessions[t].created \in Nat
          /\ sessions[t].created <= n /\ UNCHANGED <<accounts, clock>>
      BY <1>4, <2>2, SessionsAssumption
      DEF LookupSlide, At, IInv, TypeOK, Ready, Call, SlideMatches, IsOpen,
          Session
    <3>2. n + TTL \in 0..(clock + TTL) /\ sessions[t].created + TTL <= n + TTL
      BY <3>1
    <3>3. Register!Extend(t, n + TTL)
      BY <1>1, <1>2, <2>2, <3>1, <3>2 DEF Register!Extend, SlidTo, Staff
    <3> QED
      BY <3>1, <3>2, <3>3 DEF Register!RegisterNext
  <2> QED
    BY <1>4, <2>1, <2>2 DEF LookupSlide
<1>5. ASSUME NEW p \in Procs, LogoutEnd(p) PROVE Goal
  <2> DEFINE t == call[p].token
  <2>1. t \in Tokens /\ sessions[t].state # "unissued" /\ UNCHANGED <<accounts, clock>>
    BY <1>5 DEF LogoutEnd, At, IInv, Ready, Issued
  <2>2. CASE UNCHANGED sessions
    BY <1>2, <2>1, <2>2 DEF Register!registerVars, Staff
  <2>3. CASE End({t}) /\ IsOpen(t)
    <3>1. Register!Close(t)
      BY <1>1, <1>2, <2>1, <2>3, EndIsOver DEF Register!Close, Staff
    <3> QED
      BY <2>1, <3>1 DEF Register!RegisterNext
  <2>4. CASE End({t}) /\ ~IsOpen(t)
    <3>1. sessions[t] = Ended
      BY <2>1, <2>4 DEF IInv, RowsInv, Unissued
    <3>2. sessions' = sessions
      BY <2>1, <2>4, <3>1 DEF End, IInv, TypeOK
    <3> QED
      BY <2>2, <3>2
  <2> QED
    BY <1>5, <2>2, <2>3, <2>4 DEF LogoutEnd
<1>6. ASSUME NEW u \in Users, DeleteAccount(u) PROVE Goal
  <2>1. u \in Staff /\ Staff' = Staff \ {u} /\ UNCHANGED clock
    BY <1>6 DEF DeleteAccount, Staff, Present, IInv, TypeOK
  <2>2. Cascade(u) = {t \in Register!OpenTokens : sessions[t].user = u}
    <3>1. \A t \in Cascade(u) : IsOpen(t)
      BY SessionsAssumption DEF Cascade, IInv, RowsInv, Unissued, Ended
    <3> QED
      BY <1>1, <3>1 DEF Cascade, Register!OpenTokens
  <2>3. Register!Over(Cascade(u))
    BY <1>6, EndIsOver DEF DeleteAccount, Cascade
  <2>4. Register!Leave(u)
    BY <2>1, <2>2, <2>3 DEF Register!Leave, Staff
  <2> QED
    BY <2>1, <2>4 DEF Register!RegisterNext, Staff
<1>7. CASE PurgeDelete
  <2>1. PICK S \in SUBSET Tokens : S = {t \in Tokens : Stale(t)} /\ End(S)
    BY <1>7 DEF PurgeDelete
  <2>2. \A t \in S : t \in Register!OpenTokens /\ sessions[t].expires <= clock
    <3>1. /\ clock \in Nat /\ purge \in Nat /\ purge <= clock
          /\ \A t \in Tokens : sessions[t].expires \in Nat
      BY <1>7 DEF PurgeDelete, IInv, TypeOK, RowsInv, Session
    <3> QED
      BY <1>1, <2>1, <3>1 DEF Stale
  <2>3. Register!Lapse
    BY <1>2, <1>7, <2>1, <2>2, EndIsOver DEF Register!Lapse, PurgeDelete, Staff
  <2> QED
    BY <2>3 DEF Register!RegisterNext
<1>8. CASE Wipe
  <2>1. {t \in Tokens : IsOpen(t)} = Register!OpenTokens
    BY <1>1 DEF Register!OpenTokens
  <2>2. Register!Clear
    BY <1>2, <1>8, <2>1, EndIsOver DEF Wipe, Register!Clear, Register!OpenTokens, Staff
  <2> QED
    BY <2>2 DEF Register!RegisterNext
<1>9. CASE UNCHANGED sessions
  <2>1. CASE UNCHANGED clock /\ \A u \in Users : Present(u) <=> Present(u)'
    BY <1>9, <2>1 DEF Register!registerVars
  <2>2. CASE Tick
    <3>1. Register!Pass
      BY <1>2, <1>9, <2>2 DEF Tick, Register!Pass, Present
    <3> QED
      BY <3>1 DEF Register!RegisterNext
  <2> QED
    BY <1>6, <2>1, <2>2, StaffAndTime
<1> QED
  BY <1>3, <1>4, <1>5, <1>6, <1>7, <1>8, <1>9, SessionWriters

\* Handlers, purge, wipe and crashes together implement the register: a
\* token is good for one session of one account, and never again.
THEOREM ServiceImplementsRegister == Spec => ImplementsRegister
  BY RegisterStart, RegisterStep, InvAlways, PTL
  DEF Spec, ImplementsRegister, Register!RegisterSpec

=============================================================================
