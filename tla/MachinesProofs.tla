---------------------------- MODULE MachinesProofs ----------------------------
(***************************************************************************)
(* Theorems about Machines, for any number of handlers, names and ids.     *)
(*                                                                         *)
(* They rest on two facts about the table: ids from next on are free, so   *)
(* an INSERT overwrites no row, and a name that was seen stays, so what a  *)
(* handler found, or was told it lost to, is still there when it goes on.  *)
(*                                                                         *)
(* That the search finds exactly the names that contain what was typed is  *)
(* about any state with well-typed names: it rests on what the tables of   *)
(* Like and of FlattenSeq hold at every index, by induction.               *)
(***************************************************************************)
EXTENDS MachineSearch, Integers, SequenceTheorems, FiniteSetTheorems, TLAPS

\* What p has found out holds as long as rows are only added.
HandlerInv(p) ==
  /\ call[p].pc \in {"find", "insert", "refind", "file"} =>
       call[p].typed \in Names
  /\ call[p].pc = "refind" => Taken(call[p].typed)
  /\ call[p].pc = "file" =>
       /\ call[p].machine \in Ids
       /\ machines[call[p].machine] = call[p].typed
  /\ call[p].answer # "insert_failed"

IInv ==
  /\ TypeOK
  /\ \A i \in Ids : machines[i] # NoName => i < next
  /\ OneMachinePerName
  /\ FiledUnderWhatWasTyped
  /\ \A p \in Procs : HandlerInv(p)

LEMMA IdleType == Idle \in Call
  BY DEF Idle, Call, Pcs

LEMMA InvInit == Init => IInv
<1> SUFFICES ASSUME Init PROVE IInv
  OBVIOUS
<1>1. TypeOK
  BY MachinesAssumption, IdleType DEF Init, TypeOK, Ids
<1> QED
  BY <1>1 DEF Init, IInv, OneMachinePerName, FiledUnderWhatWasTyped,
              HandlerInv, Idle

\* If rows are kept, p's record becomes c, which is in order, and the tables
\* are in order, so is everything.
LEMMA Handover ==
  ASSUME IInv,
         \A i \in Ids : machines[i] # NoName => machines'[i] = machines[i],
         machines' \in [Ids -> Names \cup {NoName}],
         next' \in 1..(MaxId + 1),
         \A i \in Ids : machines'[i] # NoName => i < next',
         OneMachinePerName',
         requests' \subseteq Request,
         FiledUnderWhatWasTyped',
         NEW p \in Procs, NEW c \in Call, call' = [call EXCEPT ![p] = c],
         HandlerInv(p)'
  PROVE  IInv'
<1>1. TypeOK'
  BY DEF IInv, TypeOK
<1>2. ASSUME NEW q \in Procs, q # p PROVE HandlerInv(q)'
  <2>1. call'[q] = call[q] /\ HandlerInv(q)
    BY <1>2 DEF IInv, TypeOK
  <2>2. call[q].typed \in Names => call[q].typed # NoName
    BY MachinesAssumption
  <2>3. call[q].typed \in Names /\ Taken(call[q].typed)
          => Taken(call[q].typed)'
    BY <2>1, <2>2 DEF Taken
  <2> QED
    BY <2>1, <2>2, <2>3 DEF HandlerInv
<1> QED
  BY <1>1, <1>2 DEF IInv

\* A step that writes neither table.
LEMMA TablesKept ==
  ASSUME IInv, UNCHANGED <<machines, next, requests>>,
         NEW p \in Procs, NEW c \in Call, call' = [call EXCEPT ![p] = c],
         c.pc \in {"find", "insert", "refind", "file"} => c.typed \in Names,
         c.pc = "refind" => Taken(c.typed),
         c.pc = "file" => c.machine \in Ids /\ machines[c.machine] = c.typed,
         c.answer # "insert_failed"
  PROVE  IInv'
<1>1. call'[p] = c
  BY DEF IInv, TypeOK
<1>2. HandlerInv(p)'
  BY <1>1 DEF HandlerInv, Taken
<1>3. OneMachinePerName' /\ FiledUnderWhatWasTyped'
  BY DEF IInv, OneMachinePerName, FiledUnderWhatWasTyped
<1> QED
  BY <1>2, <1>3, Handover DEF IInv, TypeOK

-----------------------------------------------------------------------------
(* The steps.                                                              *)

LEMMA ReplyStep ==
  ASSUME IInv, UNCHANGED <<machines, next, requests>>, NEW p \in Procs,
         NEW a \in Answers \ {"insert_failed"}, Reply(p, a)
  PROVE  IInv'
<1> DEFINE c == [Idle EXCEPT !.pc = "answered", !.answer = a]
<1>1. call' = [call EXCEPT ![p] = c]
  BY DEF Reply
<1>2. c \in Call /\ c.pc = "answered" /\ c.answer = a
  BY DEF Call, Pcs, Idle
<1> HIDE DEF c
<1> QED
  BY <1>1, <1>2, TablesKept

LEMMA GotoStep ==
  ASSUME IInv, UNCHANGED <<machines, next, requests>>, NEW p \in Procs,
         NEW pc \in {"insert", "refind"}, Goto(p, pc),
         call[p].pc \in {"find", "insert"},
         pc = "refind" => Taken(call[p].typed)
  PROVE  IInv'
<1> DEFINE c == [call[p] EXCEPT !.pc = pc]
<1>1. call[p] \in Call /\ HandlerInv(p) /\ call' = [call EXCEPT ![p] = c]
  BY DEF IInv, TypeOK, Goto
<1>2. /\ c \in Call
      /\ c.pc = pc /\ c.typed = call[p].typed /\ c.answer = call[p].answer
  BY <1>1 DEF Call, Pcs
<1> HIDE DEF c
<1> QED
  BY <1>1, <1>2, TablesKept DEF HandlerInv

LEMMA ReturnStep ==
  ASSUME IInv, UNCHANGED <<machines, next, requests>>, NEW p \in Procs,
         NEW i \in Ids, Return(p, i), machines[i] = call[p].typed,
         call[p].pc \in {"find", "refind"}
  PROVE  IInv'
<1> DEFINE c == [call[p] EXCEPT !.pc = "file", !.machine = i]
<1>1. call[p] \in Call /\ HandlerInv(p) /\ call' = [call EXCEPT ![p] = c]
  BY DEF IInv, TypeOK, Return
<1>2. /\ c \in Call
      /\ c.pc = "file" /\ c.typed = call[p].typed
      /\ c.machine = i /\ c.answer = call[p].answer
  BY <1>1 DEF Call, Pcs
<1> HIDE DEF c
<1> QED
  BY <1>1, <1>2, TablesKept DEF HandlerInv

LEMMA InsertStep ==
  ASSUME IInv, NEW p \in Procs, InsertMachine(p)
  PROVE  IInv'
<1> DEFINE n == call[p].typed
           c == [call[p] EXCEPT !.pc = "file", !.machine = next]
<1>1. /\ next \in Ids /\ next \in Nat /\ MaxId \in Nat
      /\ machines' = [machines EXCEPT ![next] = n]
      /\ next' = next + 1
      /\ UNCHANGED requests
      /\ call' = [call EXCEPT ![p] = c]
      /\ \A i \in Ids : machines[i] # n
  BY MachinesAssumption DEF InsertMachine, Return, Taken, Ids
<1>2. /\ call[p] \in Call /\ n \in Names
      /\ call[p].answer # "insert_failed"
      /\ machines \in [Ids -> Names \cup {NoName}]
  BY DEF IInv, TypeOK, HandlerInv, InsertMachine
<1>3. machines[next] = NoName
  BY <1>1 DEF IInv
<1>4. /\ c \in Call
      /\ c.pc = "file" /\ c.typed = n
      /\ c.machine = next /\ c.answer = call[p].answer
  BY <1>1, <1>2 DEF Call, Pcs
<1> HIDE DEF n, c
<1>5. \A i \in Ids : machines[i] # NoName => machines'[i] = machines[i]
  BY <1>1, <1>3
<1>6. machines' \in [Ids -> Names \cup {NoName}] /\ machines'[next] = n
  BY <1>1, <1>2
<1>7. next' \in 1..(MaxId + 1) /\ \A i \in Ids : machines'[i] # NoName => i < next'
  BY <1>1 DEF IInv, Ids
<1>8. OneMachinePerName'
  BY <1>1, <1>2 DEF IInv, OneMachinePerName
<1>9. requests' \subseteq Request /\ FiledUnderWhatWasTyped'
  BY <1>1, <1>5, MachinesAssumption
  DEF IInv, TypeOK, FiledUnderWhatWasTyped, Request
<1>10. HandlerInv(p)'
  <2>1. call'[p] = c
    BY <1>1 DEF IInv, TypeOK
  <2> QED
    BY <1>1, <1>2, <1>4, <1>6, <2>1 DEF HandlerInv
<1> QED
  BY <1>1, <1>4, <1>5, <1>6, <1>7, <1>8, <1>9, <1>10, Handover

LEMMA FileStep ==
  ASSUME IInv, NEW p \in Procs, FileRequest(p)
  PROVE  IInv'
<1> DEFINE c == [Idle EXCEPT !.pc = "answered", !.answer = "ok"]
           r == [machine |-> call[p].machine, typed |-> call[p].typed]
<1>1. /\ call' = [call EXCEPT ![p] = c]
      /\ requests' = requests \cup {r}
      /\ UNCHANGED <<machines, next>>
  BY DEF FileRequest, Reply
<1>2. c \in Call /\ c.pc = "answered" /\ c.answer = "ok"
  BY DEF Call, Pcs, Answers, Idle
<1>3. r \in Request /\ machines[r.machine] = r.typed
  BY DEF IInv, HandlerInv, FileRequest, Request
<1> HIDE DEF c, r
<1>4. requests' \subseteq Request /\ FiledUnderWhatWasTyped' /\ OneMachinePerName'
  BY <1>1, <1>3
  DEF IInv, TypeOK, FiledUnderWhatWasTyped, OneMachinePerName
<1>5. HandlerInv(p)'
  <2>1. call'[p] = c
    BY <1>1 DEF IInv, TypeOK
  <2> QED
    BY <1>2, <2>1 DEF HandlerInv
<1> QED
  BY <1>1, <1>2, <1>4, <1>5, Handover DEF IInv, TypeOK

LEMMA InvStep == IInv /\ [Next]_vars => IInv'
<1> SUFFICES ASSUME IInv, [Next]_vars PROVE IInv'
  OBVIOUS
<1>1. ASSUME NEW p \in Procs, ReportBegin(p) PROVE IInv'
  <2>1. PICK n \in Names :
          call' = [call EXCEPT ![p] = [Idle EXCEPT !.pc = "find", !.typed = n]]
    BY <1>1 DEF ReportBegin
  <2> DEFINE c == [Idle EXCEPT !.pc = "find", !.typed = n]
  <2>2. c \in Call /\ c.pc = "find" /\ c.typed = n /\ c.answer = "none"
    BY DEF Call, Pcs, Idle
  <2>3. call' = [call EXCEPT ![p] = c]
    BY <2>1
  <2> HIDE DEF c
  <2> QED
    BY <1>1, <2>2, <2>3, TablesKept DEF ReportBegin
<1>2. ASSUME NEW p \in Procs, ReportRefuse(p) \/ FileRefuse(p) PROVE IInv'
  BY <1>2, ReplyStep DEF ReportRefuse, FileRefuse, Answers
<1>3. ASSUME NEW p \in Procs, FindMachine(p) PROVE IInv'
  <2>1. CASE Goto(p, "insert")
    BY <1>3, <2>1, GotoStep DEF FindMachine
  <2>2. ASSUME NEW i \in Ids, machines[i] = call[p].typed, Return(p, i)
        PROVE  IInv'
    BY <1>3, <2>2, ReturnStep DEF FindMachine
  <2> QED
    BY <1>3, <2>1, <2>2 DEF FindMachine
<1>4. ASSUME NEW p \in Procs, InsertMachine(p) PROVE IInv'
  BY <1>4, InsertStep
<1>5. ASSUME NEW p \in Procs, InsertLost(p) PROVE IInv'
  BY <1>5, GotoStep DEF InsertLost
<1>6. ASSUME NEW p \in Procs, FindAgain(p) PROVE IInv'
  <2>1. Taken(call[p].typed)
    BY <1>6 DEF FindAgain, IInv, HandlerInv
  <2>2. PICK i \in Ids : machines[i] = call[p].typed /\ Return(p, i)
    BY <1>6, <2>1 DEF FindAgain
  <2> QED
    BY <1>6, <2>2, ReturnStep DEF FindAgain
<1>7. ASSUME NEW p \in Procs, FileRequest(p) PROVE IInv'
  BY <1>7, FileStep
<1>8. ASSUME NEW p \in Procs, Finish(p) PROVE IInv'
  BY <1>8, IdleType, TablesKept DEF Finish, Idle
<1>9. ASSUME NEW p \in Procs, Abort(p) PROVE IInv'
  BY <1>9, ReplyStep DEF Abort, Answers
<1>10. CASE UNCHANGED vars
  BY <1>10 DEF vars, IInv, TypeOK, OneMachinePerName, FiledUnderWhatWasTyped,
               HandlerInv, Taken
<1> QED
  BY <1>1, <1>2, <1>3, <1>4, <1>5, <1>6, <1>7, <1>8, <1>9, <1>10
  DEF Next, Step

LEMMA InvAlways == Spec => []IInv
  BY InvInit, InvStep, PTL DEF Spec

\* Type correctness of the registry and of the handlers that fill it.
THEOREM TypesHold == Spec => []TypeOK
<1>1. IInv => TypeOK
  BY DEF IInv
<1> QED
  BY <1>1, InvAlways, PTL

\* A name has one machine, however many reports of it overlap.
THEOREM NamesHaveOneMachine == Spec => []OneMachinePerName
<1>1. IInv => OneMachinePerName
  BY DEF IInv
<1> QED
  BY <1>1, InvAlways, PTL

\* Every request is filed under the machine its reporter typed, for any
\* number of reports of the same name at once (machines.go, FindOrCreate).
THEOREM RequestsAreFiledAsTyped == Spec => []FiledUnderWhatWasTyped
<1>1. IInv => FiledUnderWhatWasTyped
  BY DEF IInv
<1> QED
  BY <1>1, InvAlways, PTL

\* The second read of FindOrCreate always finds the row the INSERT clashed
\* with, so losing the race is never an error (machines.go:63).
THEOREM RacesAreAlwaysAbsorbed == Spec => []RacesAreAbsorbed
<1>1. IInv => RacesAreAbsorbed
  BY DEF IInv, HandlerInv, RacesAreAbsorbed
<1> QED
  BY <1>1, InvAlways, PTL

-----------------------------------------------------------------------------
(* The service implements the registry.                                    *)

LEMMA RegistryStart == Init => Registered!RegistryInit
  BY DEF Init, Ids, Registered!RegistryInit, Registered!Ids

\* Only two statements write a table.
LEMMA TableWriters ==
  ASSUME [Next]_vars
  PROVE  \/ UNCHANGED <<machines, next, requests>>
         \/ \E p \in Procs : InsertMachine(p) \/ FileRequest(p)
  BY DEF Next, Step, vars, ReportBegin, ReportRefuse, FindMachine, InsertLost,
         FindAgain, FileRefuse, Finish, Abort

LEMMA RegistryStep ==
  IInv /\ [Next]_vars => [Registered!RegistryNext]_(Registered!registryVars)
<1> SUFFICES ASSUME IInv, [Next]_vars
             PROVE  [Registered!RegistryNext]_(Registered!registryVars)
  OBVIOUS
<1>1. ASSUME NEW p \in Procs, InsertMachine(p)
      PROVE  Registered!RegistryNext
  <2>1. call[p].typed \in Names
    BY <1>1 DEF InsertMachine, IInv, HandlerInv
  <2>2. Registered!Enter(call[p].typed)
    BY <1>1 DEF InsertMachine, Taken, Ids, Registered!Enter, Registered!Ids
  <2> QED
    BY <2>1, <2>2 DEF Registered!RegistryNext
<1>2. ASSUME NEW p \in Procs, FileRequest(p)
      PROVE  Registered!RegistryNext
  <2> DEFINE i == call[p].machine
  <2>1. i \in Ids /\ machines[i] = call[p].typed /\ call[p].typed \in Names
    BY <1>2 DEF FileRequest, IInv, HandlerInv
  <2>2. Registered!File(i)
    BY <1>2, <2>1, MachinesAssumption DEF FileRequest, Registered!File
  <2> QED
    BY <2>1, <2>2 DEF Ids, Registered!RegistryNext, Registered!Ids
<1>3. CASE UNCHANGED <<machines, next, requests>>
  BY <1>3 DEF Registered!registryVars
<1> QED
  BY <1>1, <1>2, <1>3, TableWriters

\* Any number of overlapping reports keep one list of machines that only
\* grows, and file under it (machines.go:39-76, request_handlers.go:76-103).
THEOREM ServiceImplementsRegistry == Spec => ImplementsRegistry
  BY RegistryStart, RegistryStep, InvAlways, PTL
  DEF Spec, ImplementsRegistry, Registered!RegistrySpec

-----------------------------------------------------------------------------
(* Induction.                                                              *)

\* Induction over Nat, for a set instead of a predicate: a number outside of
\* the set would have a least one, and its predecessor is in the set.
LEMMA SetInduction ==
  ASSUME NEW S, 0 \in S, \A n \in Nat : n \in S => n + 1 \in S
  PROVE  Nat \subseteq S
<1> SUFFICES ASSUME Nat \ S # {} PROVE FALSE
  OBVIOUS
<1> DEFINE R == OpToRel(<, Nat)
<1>1. \A x, y \in Nat : x < y => <<x, y>> \in R
  BY DEF OpToRel
<1>2. IsWellFoundedOn(R, Nat)
  BY NatLessThanWellFounded
<1> HIDE DEF R
<1>3. PICK x \in Nat \ S : \A y \in Nat \ S : ~ (<<y, x>> \in R)
  BY <1>2, WFMin, Zenon
<1>4. x - 1 \in Nat /\ x = (x - 1) + 1
  BY <1>3
<1>5. <<x - 1, x>> \in R
  BY <1>1, <1>4
<1>6. x - 1 \in S
  BY <1>3, <1>4, <1>5
<1>7. (x - 1) + 1 \in S
  BY <1>4, <1>6, Zenon
<1> QED
  BY <1>3, <1>4, <1>7

\* What is true of 0 and passes from n to n + 1 for n below m is true to m.
LEMMA BoundedInduction ==
  ASSUME NEW m \in Nat, NEW S, 0 \in S,
         \A n \in Nat : n < m /\ n \in S => n + 1 \in S
  PROVE  \A n \in 0..m : n \in S
<1> DEFINE T == {n \in Nat : n <= m => n \in S}
<1>1. 0 \in T
  OBVIOUS
<1>2. \A n \in Nat : n \in T => n + 1 \in T
  OBVIOUS
<1> HIDE DEF T
<1>3. Nat \subseteq T
  BY <1>1, <1>2, SetInduction
<1> QED
  BY <1>3 DEF T

-----------------------------------------------------------------------------
(* The table of Like.                                                      *)

\* The entry of Like's table for the pattern from its i-th character on.
LikeEntry(p, t, f, i) ==
  IF i > Len(p)
    THEN {Len(t) + 1}
  ELSE IF p[i] = "%"
    THEN {j \in 1..(Len(t) + 1) : \E k \in f[i + 1] : j <= k}
  ELSE IF p[i] = "\\"
    THEN {j \in 1..Len(t) : /\ i < Len(p)
                            /\ p[i + 1] = t[j]
                            /\ j + 1 \in f[i + 2]}
  ELSE {j \in 1..Len(t) : /\ p[i] \in {"_", t[j]}
                          /\ j + 1 \in f[i + 1]}

\* An entry looks at no entry but the next two.
LEMMA LikeEntryLooksAhead ==
  ASSUME NEW p, NEW t, NEW f, NEW g, Len(p) \in Nat, NEW i \in Nat,
         i < Len(p) + 1 => f[i + 1] = g[i + 1],
         i < Len(p) => f[i + 2] = g[i + 2]
  PROVE  LikeEntry(p, t, f, i) = LikeEntry(p, t, g, i)
<1>1. CASE i > Len(p)
  BY <1>1 DEF LikeEntry
<1>2. CASE ~ (i > Len(p)) /\ p[i] = "%"
  BY <1>2 DEF LikeEntry
<1>3. CASE ~ (i > Len(p)) /\ p[i] # "%" /\ p[i] = "\\"
  <2> DEFINE A == {j \in 1..Len(t) : /\ i < Len(p)
                                     /\ p[i + 1] = t[j]
                                     /\ j + 1 \in f[i + 2]}
             B == {j \in 1..Len(t) : /\ i < Len(p)
                                     /\ p[i + 1] = t[j]
                                     /\ j + 1 \in g[i + 2]}
  <2>1. A = B
    OBVIOUS
  <2>2. LikeEntry(p, t, f, i) = A
    BY <1>3 DEF LikeEntry
  <2>3. LikeEntry(p, t, g, i) = B
    BY <1>3 DEF LikeEntry
  <2> QED
    BY <2>1, <2>2, <2>3
<1>4. CASE ~ (i > Len(p)) /\ p[i] # "%" /\ p[i] # "\\"
  <2> DEFINE A == {j \in 1..Len(t) : /\ p[i] \in {"_", t[j]}
                                     /\ j + 1 \in f[i + 1]}
             B == {j \in 1..Len(t) : /\ p[i] \in {"_", t[j]}
                                     /\ j + 1 \in g[i + 1]}
  <2> f[i + 1] = g[i + 1]
    BY <1>4
  <2>1. A = B
    OBVIOUS
  <2>2. LikeEntry(p, t, f, i) = A
    BY <1>4 DEF LikeEntry
  <2>3. LikeEntry(p, t, g, i) = B
    BY <1>4 DEF LikeEntry
  <2> QED
    BY <2>1, <2>2, <2>3
<1> QED
  BY <1>1, <1>2, <1>3, <1>4

\* There is a table, one entry more at a time from the end of the pattern.
LEMMA LikeHasTable ==
  ASSUME NEW p, NEW t, Len(p) \in Nat
  PROVE  \E f : f = [i \in 1..(Len(p) + 1) |-> LikeEntry(p, t, f, i)]
<1> DEFINE m == Len(p)
           D == 1..(m + 1)
           Good(f, n) == \A i \in D : i > m - n => f[i] = LikeEntry(p, t, f, i)
           S == {n \in Nat : \E f : f = [i \in D |-> f[i]] /\ Good(f, n)}
<1>1. 0 \in S
  <2> DEFINE f == [i \in D |-> {Len(t) + 1}]
  <2>1. f = [i \in D |-> f[i]]
    OBVIOUS
  <2>2. Good(f, 0)
    BY DEF LikeEntry
  <2> QED
    BY <2>1, <2>2
<1>2. ASSUME NEW n \in Nat, n < m, n \in S PROVE n + 1 \in S
  <2>1. PICK f : f = [i \in D |-> f[i]] /\ Good(f, n)
    BY <1>2
  <2> DEFINE h == m - n
             g == [i \in D |-> IF i = h THEN LikeEntry(p, t, f, h) ELSE f[i]]
  <2>2. h \in D /\ h \in Int
    BY <1>2
  <2>3. g = [i \in D |-> g[i]]
    OBVIOUS
  <2>4. ASSUME NEW i \in D, i >= h
        PROVE  LikeEntry(p, t, g, i) = LikeEntry(p, t, f, i)
    <3>1. i < m + 1 => g[i + 1] = f[i + 1]
      BY <2>2, <2>4
    <3>2. i < m => g[i + 2] = f[i + 2]
      BY <2>2, <2>4
    <3> HIDE DEF g
    <3> QED
      BY <3>1, <3>2, LikeEntryLooksAhead
  <2>5. Good(g, n + 1)
    <3> SUFFICES ASSUME NEW i \in D, i > m - (n + 1)
                 PROVE  g[i] = LikeEntry(p, t, g, i)
      OBVIOUS
    <3>1. i >= h
      OBVIOUS
    <3>2. LikeEntry(p, t, g, i) = LikeEntry(p, t, f, i)
      BY <2>4, <3>1
    <3>3. CASE i = h
      BY <2>2, <3>2, <3>3
    <3>4. CASE i # h
      BY <2>1, <3>1, <3>2, <3>4
    <3> QED
      BY <3>3, <3>4
  <2>6. n + 1 \in Nat
    OBVIOUS
  <2> HIDE DEF g, Good
  <2> QED
    BY <2>3, <2>5, <2>6
<1> HIDE DEF S
<1>3. m \in S
  <2>1. \A n \in 0..m : n \in S
    BY <1>1, <1>2, BoundedInduction
  <2> QED
    BY <2>1
<1>4. PICK f : f = [i \in D |-> f[i]] /\ Good(f, m)
  BY <1>3 DEF S
<1>5. f = [i \in D |-> LikeEntry(p, t, f, i)]
  BY <1>4
<1> QED
  BY <1>5

\* Like computes such a table and reads it at 1.
LEMMA LikeMeaning ==
  ASSUME NEW p, NEW t, Len(p) \in Nat
  PROVE  \E f : /\ \A i \in 1..(Len(p) + 1) : f[i] = LikeEntry(p, t, f, i)
                /\ Like(p, t) <=> 1 \in f[1]
<1> DEFINE Table(f) == f = [i \in 1..(Len(p) + 1) |-> LikeEntry(p, t, f, i)]
           from == CHOOSE f : Table(f)
<1>1. Table(from)
  <2>1. \E f : Table(f)
    BY LikeHasTable
  <2> QED
    BY <2>1, Zenon
<1>2. Like(p, t) <=> 1 \in from[1]
  BY Zenon DEF Like, LikeEntry
<1> HIDE DEF from
<1>3. \A i \in 1..(Len(p) + 1) : from[i] = LikeEntry(p, t, from, i)
  BY <1>1
<1> QED
  BY <1>2, <1>3

-----------------------------------------------------------------------------
(* FlattenSeq.                                                             *)

\* The entry of FlattenSeq's table for the first i sequences.
FlattenEntry(s, f, i) == IF i = 1 THEN s[i] ELSE f[i - 1] \o s[i]

\* There is a table, one entry more at a time from the front.
LEMMA FlattenHasTable ==
  ASSUME NEW s, Len(s) \in Nat
  PROVE  \E f : f = [i \in 1..Len(s) |-> FlattenEntry(s, f, i)]
<1> DEFINE m == Len(s)
           D == 1..m
           Good(f, n) == \A i \in D : i <= n => f[i] = FlattenEntry(s, f, i)
           S == {n \in Nat : \E f : f = [i \in D |-> f[i]] /\ Good(f, n)}
<1>1. 0 \in S
  <2> DEFINE f == [i \in D |-> s]
  <2>1. f = [i \in D |-> f[i]] /\ Good(f, 0)
    OBVIOUS
  <2> QED
    BY <2>1
<1>2. ASSUME NEW n \in Nat, n < m, n \in S PROVE n + 1 \in S
  <2>1. PICK f : f = [i \in D |-> f[i]] /\ Good(f, n)
    BY <1>2
  <2> DEFINE g == [i \in D |-> IF i = n + 1 THEN FlattenEntry(s, f, i) ELSE f[i]]
  <2>2. g = [i \in D |-> g[i]]
    OBVIOUS
  <2>3. ASSUME NEW i \in D, i <= n + 1 PROVE FlattenEntry(s, g, i) = FlattenEntry(s, f, i)
    <3>1. i # 1 => i - 1 \in D /\ i - 1 # n + 1
      BY <2>3
    <3>2. i # 1 => g[i - 1] = f[i - 1]
      BY <3>1
    <3> QED
      BY <3>2 DEF FlattenEntry
  <2>4. Good(g, n + 1)
    <3> SUFFICES ASSUME NEW i \in D, i <= n + 1 PROVE g[i] = FlattenEntry(s, g, i)
      OBVIOUS
    <3>1. g[i] = FlattenEntry(s, f, i)
      BY <2>1
    <3> QED
      BY <2>3, <3>1
  <2>5. n + 1 \in Nat
    OBVIOUS
  <2> HIDE DEF g, Good
  <2> QED
    BY <2>2, <2>4, <2>5
<1> HIDE DEF S
<1>3. m \in S
  <2>1. \A n \in 0..m : n \in S
    BY <1>1, <1>2, BoundedInduction
  <2> QED
    BY <2>1
<1>4. PICK f : f = [i \in D |-> f[i]] /\ Good(f, m)
  BY <1>3 DEF S
<1>5. f = [i \in D |-> FlattenEntry(s, f, i)]
  BY <1>4
<1> QED
  BY <1>5

\* What FlattenSeq returns is the last entry of such a table.
LEMMA FlattenMeaning ==
  ASSUME NEW s, Len(s) \in Nat, Len(s) # 0
  PROVE  \E f : /\ FlattenSeq(s) = f[Len(s)]
                /\ \A i \in 1..Len(s) :
                     f[i] = FlattenEntry(s, f, i)
<1> DEFINE Table(f) == f = [i \in 1..Len(s) |-> FlattenEntry(s, f, i)]
           flatten == CHOOSE f : Table(f)
<1>1. Table(flatten)
  <2>1. \E f : Table(f)
    BY FlattenHasTable
  <2> QED
    BY <2>1, Zenon
<1>2. FlattenSeq(s) = flatten[Len(s)]
  BY Zenon DEF FlattenSeq, FlattenEntry
<1> HIDE DEF flatten
<1>3. \A i \in 1..Len(s) : flatten[i] = FlattenEntry(s, flatten, i)
  BY <1>1
<1> QED
  BY <1>2, <1>3

-----------------------------------------------------------------------------
(* EscapeLike.                                                             *)

Special == {"\\", "%", "_"}

\* What one character becomes.
LEMMA EscapedMeaning ==
  ASSUME NEW C, "\\" \in C, NEW c \in C
  PROVE  /\ Escaped(c) \in Seq(C)
         /\ c \in Special => /\ Len(Escaped(c)) = 2
                             /\ Escaped(c)[1] = "\\"
                             /\ Escaped(c)[2] = c
         /\ c \notin Special => Len(Escaped(c)) = 1 /\ Escaped(c)[1] = c
<1>1. CASE c \in Special
  <2>1. Escaped(c) = <<"\\", c>>
    BY <1>1 DEF Escaped, Special
  <2> QED
    BY <1>1, <2>1
<1>2. CASE c \notin Special
  <2>1. Escaped(c) = <<c>>
    BY <1>2 DEF Escaped, Special
  <2> QED
    BY <1>2, <2>1
<1> QED
  BY <1>1, <1>2

\* Escaping leaves the characters in their order: the k-th is found behind
\* the at[k - 1] characters that the ones before it became.
LEMMA EscapeMeaning ==
  ASSUME NEW C, "\\" \in C, NEW q \in Seq(C), q # <<>>
  PROVE  \E at :
           /\ at[0] = 0
           /\ EscapeLike(q) \in Seq(C)
           /\ Len(EscapeLike(q)) = at[Len(q)]
           /\ \A k \in 1..Len(q) :
                /\ at[k - 1] \in Nat
                /\ at[k] <= at[Len(q)]
                /\ q[k] \in Special =>
                     /\ at[k] = at[k - 1] + 2
                     /\ EscapeLike(q)[at[k - 1] + 1] = "\\"
                     /\ EscapeLike(q)[at[k - 1] + 2] = q[k]
                /\ q[k] \notin Special =>
                     /\ at[k] = at[k - 1] + 1
                     /\ EscapeLike(q)[at[k - 1] + 1] = q[k]
<1> DEFINE n == Len(q)
           s == [k \in DOMAIN q |-> Escaped(q[k])]
           E == EscapeLike(q)
<1>1. /\ n \in Nat \ {0}
      /\ DOMAIN q = 1..n
      /\ \A k \in 1..n : q[k] \in C
  BY LenProperties, EmptySeq
<1>2. \A k \in 1..n :
         /\ Escaped(q[k]) \in Seq(C)
         /\ q[k] \in Special =>
              /\ Len(Escaped(q[k])) = 2
              /\ Escaped(q[k])[1] = "\\"
              /\ Escaped(q[k])[2] = q[k]
         /\ q[k] \notin Special =>
              /\ Len(Escaped(q[k])) = 1
              /\ Escaped(q[k])[1] = q[k]
  BY <1>1, EscapedMeaning
<1>3. Len(s) = n /\ \A k \in 1..n : s[k] = Escaped(q[k])
  <2>1. s \in Seq(Seq(C))
    BY <1>1, <1>2
  <2> QED
    BY <1>1, <2>1, LenProperties
<1>4. PICK f : /\ FlattenSeq(s) = f[Len(s)]
               /\ \A i \in 1..Len(s) : f[i] = FlattenEntry(s, f, i)
  BY <1>1, <1>3, FlattenMeaning
<1>5. E = f[n] /\ \A i \in 1..n : f[i] = FlattenEntry(s, f, i)
  BY <1>3, <1>4 DEF EscapeLike
<1> HIDE DEF s
<1>6. /\ f[1] = Escaped(q[1])
      /\ \A i \in 2..n : f[i] = f[i - 1] \o Escaped(q[i])
  <2>1. f[1] = Escaped(q[1])
    BY <1>1, <1>3, <1>5 DEF FlattenEntry
  <2>2. ASSUME NEW i \in 2..n PROVE f[i] = f[i - 1] \o Escaped(q[i])
    <3>1. i \in 1..n /\ i # 1
      BY <1>1
    <3>2. f[i] = f[i - 1] \o s[i]
      BY <1>5, <3>1, Zenon DEF FlattenEntry
    <3> QED
      BY <1>3, <3>1, <3>2, Zenon
  <2> QED
    BY <2>1, <2>2, Zenon
<1> HIDE DEF E
\* The table holds sequences, each one with the next character behind it.
<1>7. \A i \in 1..n : f[i] \in Seq(C)
  <2> DEFINE T == {i \in Nat : i + 1 \in 1..n => f[i + 1] \in Seq(C)}
  <2>1. 0 \in T
    BY <1>1, <1>2, <1>6
  <2>2. ASSUME NEW i \in Nat, i \in T PROVE i + 1 \in T
    <3> SUFFICES ASSUME i + 2 \in 1..n PROVE f[i + 2] \in Seq(C)
      OBVIOUS
    <3>1. f[i + 1] \in Seq(C)
      BY <1>1, <2>2
    <3>2. f[i + 2] = f[i + 1] \o Escaped(q[i + 2])
      <4>1. i + 2 \in 2..n /\ (i + 2) - 1 = i + 1
        BY <1>1
      <4> QED
        BY <1>6, <4>1, Zenon
    <3> QED
      BY <1>2, <3>1, <3>2, ConcatProperties
  <2> HIDE DEF T
  <2>3. Nat \subseteq T
    BY <2>1, <2>2, SetInduction
  <2>4. ASSUME NEW i \in 1..n PROVE f[i] \in Seq(C)
    <3>1. i - 1 \in T /\ (i - 1) + 1 = i
      BY <1>1, <2>3
    <3> QED
      BY <3>1 DEF T
  <2> QED
    BY <2>4
<1> DEFINE at == [k \in 0..n |-> IF k = 0 THEN 0 ELSE Len(f[k])]
<1>8. at[0] = 0 /\ \A k \in 1..n : at[k] = Len(f[k]) /\ at[k] \in Nat
  BY <1>1, <1>7, LenProperties
<1>9. \A k \in 1..n : at[k - 1] \in Nat
  BY <1>1, <1>8
<1> HIDE DEF at
<1>10. ASSUME NEW k \in 1..n
       PROVE  /\ at[k] = at[k - 1] + Len(Escaped(q[k]))
              /\ \A j \in 1..Len(Escaped(q[k])) :
                   f[k][at[k - 1] + j] = Escaped(q[k])[j]
              /\ k # 1 => \A j \in 1..at[k - 1] : f[k][j] = f[k - 1][j]
  <2> DEFINE e == Escaped(q[k])
  <2>1. e \in Seq(C) /\ Len(e) \in Nat
    BY <1>2, LenProperties
  <2> HIDE DEF e
  <2>2. CASE k = 1
    BY <1>6, <1>8, <2>1, <2>2 DEF e
  <2>3. CASE k # 1
    <3>1. k - 1 \in 1..n /\ f[k] = f[k - 1] \o e
      <4>1. k - 1 \in 1..n /\ k \in 2..n
        BY <1>1, <2>3
      <4> QED
        BY <1>6, <4>1, Zenon DEF e
    <3>2. f[k - 1] \in Seq(C) /\ Len(f[k - 1]) = at[k - 1]
      BY <1>7, <1>8, <3>1
    <3>3. /\ Len(f[k - 1] \o e) = at[k - 1] + Len(e)
          /\ \A i \in 1..at[k - 1] + Len(e) :
               (f[k - 1] \o e)[i] =
                 IF i <= at[k - 1] THEN f[k - 1][i] ELSE e[i - at[k - 1]]
      BY <2>1, <3>2, ConcatProperties
    <3>4. ASSUME NEW j \in 1..Len(e) PROVE f[k][at[k - 1] + j] = e[j]
      <4>1. /\ at[k - 1] + j \in 1..at[k - 1] + Len(e)
            /\ ~ (at[k - 1] + j <= at[k - 1])
            /\ (at[k - 1] + j) - at[k - 1] = j
        BY <1>9, <2>1
      <4> QED
        BY <3>1, <3>3, <4>1
    <3>5. ASSUME NEW j \in 1..at[k - 1] PROVE f[k][j] = f[k - 1][j]
      BY <1>9, <2>1, <3>1, <3>3
    <3> QED
      BY <1>8, <3>1, <3>3, <3>4, <3>5 DEF e
  <2> QED
    BY <2>2, <2>3
\* What the first characters became stays as the others are added.
<1>11. \A k \in 1..n : at[k] <= at[n] /\ \A j \in 1..at[k] : E[j] = f[k][j]
  <2> DEFINE Kept(k) == at[k] <= at[n] /\ \A j \in 1..at[k] : E[j] = f[k][j]
             T == {d \in Nat : n - d \in 1..n => Kept(n - d)}
  <2>1. 0 \in T
    BY <1>1, <1>5, <1>8
  <2>2. ASSUME NEW d \in Nat, d \in T PROVE d + 1 \in T
    <3> DEFINE k == n - d
    <3>0. n \in Nat /\ n - (d + 1) = k - 1
      BY <1>1
    <3> SUFFICES ASSUME k - 1 \in 1..n PROVE Kept(k - 1)
      BY <3>0
    <3>1. k \in 1..n /\ k # 1
      <4>1. d \in Nat /\ k - 1 >= 1
        BY <2>2
      <4> HIDE DEF n
      <4> QED
        BY <3>0, <4>1
    <3>2. Kept(k)
      BY <2>2, <3>1
    <3> HIDE DEF k
    <3>3. Len(Escaped(q[k])) \in Nat
      BY <1>2, <3>1, LenProperties
    <3>4. at[k] = at[k - 1] + Len(Escaped(q[k]))
      BY <1>10, <3>1
    <3>5. \A j \in 1..at[k - 1] : f[k][j] = f[k - 1][j]
      BY <1>10, <3>1
    <3>6. at[k - 1] \in Nat /\ at[k] \in Nat /\ at[n] \in Nat
      BY <1>1, <1>8, <1>9, <3>1
    <3> QED
      BY <3>2, <3>3, <3>4, <3>5, <3>6
  <2> HIDE DEF T
  <2>3. Nat \subseteq T
    BY <2>1, <2>2, SetInduction
  <2>4. ASSUME NEW k \in 1..n PROVE Kept(k)
    <3>1. n - k \in T /\ n - (n - k) = k
      BY <1>1, <2>3
    <3> QED
      BY <3>1 DEF T
  <2> QED
    BY <2>4
<1>12. ASSUME NEW k \in 1..n, NEW j \in 1..Len(Escaped(q[k]))
       PROVE  E[at[k - 1] + j] = Escaped(q[k])[j]
  <2>1. at[k - 1] + j \in 1..at[k]
    <3>1. Len(Escaped(q[k])) \in Nat /\ at[k - 1] \in Nat
      BY <1>2, <1>9, LenProperties
    <3>2. at[k] = at[k - 1] + Len(Escaped(q[k]))
      BY <1>10
    <3> QED
      BY <3>1, <3>2
  <2> QED
    BY <1>10, <1>11, <2>1
<1>13. ASSUME NEW k \in 1..n
       PROVE  /\ q[k] \in Special =>
                   /\ at[k] = at[k - 1] + 2
                   /\ E[at[k - 1] + 1] = "\\"
                   /\ E[at[k - 1] + 2] = q[k]
              /\ q[k] \notin Special =>
                   /\ at[k] = at[k - 1] + 1
                   /\ E[at[k - 1] + 1] = q[k]
  <2>1. at[k] = at[k - 1] + Len(Escaped(q[k]))
    BY <1>10
  <2> QED
    BY <1>2, <1>12, <2>1
<1>14. E \in Seq(C) /\ Len(E) = at[n]
  BY <1>1, <1>5, <1>7, <1>8
<1> QED
  BY <1>8, <1>9, <1>11, <1>13, <1>14 DEF E

-----------------------------------------------------------------------------
(* LIKE with what was typed between two percent signs.                     *)

\* A character before a sequence and behind it.
LEMMA BetweenMeaning ==
  ASSUME NEW C, NEW c \in C, NEW E \in Seq(C), NEW l \in Nat, Len(E) = l
  PROVE  LET P == <<c>> \o E \o <<c>>
         IN /\ Len(P) = l + 2
            /\ P[1] = c
            /\ P[l + 2] = c
            /\ \A j \in 1..l : P[j + 1] = E[j]
<1> DEFINE s == <<c>>
           A == s \o E
           P == A \o s
<1>1. s \in Seq(C) /\ Len(s) = 1 /\ s[1] = c
  OBVIOUS
<1> HIDE DEF s
<1>2. /\ A \in Seq(C)
      /\ Len(A) = Len(s) + Len(E)
      /\ \A i \in 1..Len(s) + Len(E) :
           A[i] = IF i <= Len(s) THEN s[i] ELSE E[i - Len(s)]
  BY <1>1, ConcatProperties
<1> HIDE DEF A
<1>3. /\ Len(P) = Len(A) + Len(s)
      /\ \A i \in 1..Len(A) + Len(s) :
           P[i] = IF i <= Len(A) THEN A[i] ELSE s[i - Len(A)]
  <2>1. A \in Seq(C) /\ s \in Seq(C)
    BY <1>1, <1>2
  <2> QED
    BY <2>1, ConcatProperties
<1> HIDE DEF P
<1>4. Len(A) = l + 1 /\ Len(P) = l + 2
  BY <1>1, <1>2, <1>3
<1>5. A[1] = c /\ \A j \in 1..l : A[j + 1] = E[j]
  BY <1>1, <1>2
<1>6. P[l + 2] = c /\ \A i \in 1..l + 1 : P[i] = A[i]
  BY <1>1, <1>3, <1>4
<1>7. P[1] = c /\ \A j \in 1..l : P[j + 1] = E[j]
  BY <1>5, <1>6
<1> QED
  BY <1>4, <1>6, <1>7 DEF P, A, s

\* t holds q from its k-th character on.
HoldsAt(q, t, k) ==
  k + Len(q) <= Len(t) + 1 /\ \A m \in 1..Len(q) : q[m] = t[k + m - 1]

\* Between two percent signs the escaped query matches a text exactly if the
\* text holds the query somewhere.
LEMMA LikeFindsWhatWasTyped ==
  ASSUME NEW C, {"%", "\\"} \subseteq C,
         NEW q \in Seq(C), q # <<>>, NEW t \in Seq(C)
  PROVE  Like(<<"%">> \o EscapeLike(q) \o <<"%">>, t)
           <=> \E k \in 1..Len(t) + 1 : HoldsAt(q, t, k)
<1> DEFINE n == Len(q)
           E == EscapeLike(q)
           P == <<"%">> \o E \o <<"%">>
           end == Len(t) + 1
<1>1. n \in Nat \ {0} /\ Len(t) \in Nat
  BY LenProperties, EmptySeq
<1>2. PICK at :
        /\ at[0] = 0
        /\ EscapeLike(q) \in Seq(C)
        /\ Len(EscapeLike(q)) = at[Len(q)]
        /\ \A k \in 1..Len(q) :
             /\ at[k - 1] \in Nat
             /\ at[k] <= at[Len(q)]
             /\ q[k] \in Special =>
                  /\ at[k] = at[k - 1] + 2
                  /\ EscapeLike(q)[at[k - 1] + 1] = "\\"
                  /\ EscapeLike(q)[at[k - 1] + 2] = q[k]
             /\ q[k] \notin Special =>
                  /\ at[k] = at[k - 1] + 1
                  /\ EscapeLike(q)[at[k - 1] + 1] = q[k]
  BY EscapeMeaning
<1>3. E \in Seq(C) /\ Len(E) = at[n] /\ at[n] \in Nat
  BY <1>2, LenProperties
<1> HIDE DEF E
<1>4. /\ Len(P) = at[n] + 2
      /\ P[1] = "%"
      /\ P[at[n] + 2] = "%"
      /\ \A j \in 1..at[n] : P[j + 1] = E[j]
  <2>1. "%" \in C
    OBVIOUS
  <2> QED
    BY <1>3, <2>1, BetweenMeaning
<1> HIDE DEF P
<1>4a. Len(P) = at[n] + 2
  BY <1>4
<1>5. PICK from : /\ \A i \in 1..Len(P) + 1 : from[i] = LikeEntry(P, t, from, i)
                  /\ Like(P, t) <=> 1 \in from[1]
  <2>1. Len(P) \in Nat
    BY <1>3, <1>4
  <2> QED
    BY <2>1, LikeMeaning
\* Behind what was typed everything matches.
<1>6. from[at[n] + 2] = 1..end
  <2>1. from[at[n] + 3] = {end}
    <3>1. at[n] + 3 \in 1..Len(P) + 1 /\ at[n] + 3 > Len(P)
      BY <1>3, <1>4
    <3> QED
      BY <1>5, <3>1 DEF LikeEntry
  <2>2. from[at[n] + 2] = {j \in 1..end : \E k \in from[(at[n] + 2) + 1] : j <= k}
    <3>1. at[n] + 2 \in 1..Len(P) + 1 /\ ~ (at[n] + 2 > Len(P))
      BY <1>3, <1>4
    <3> QED
      BY <1>4, <1>5, <3>1 DEF LikeEntry
  <2>3. (at[n] + 2) + 1 = at[n] + 3
    BY <1>3
  <2> QED
    BY <1>1, <2>1, <2>2, <2>3
\* An escaped character matches itself and nothing else.
<1>7. ASSUME NEW k \in 1..n
      PROVE  from[at[k - 1] + 2] =
               {j \in 1..Len(t) : q[k] = t[j] /\ j + 1 \in from[at[k] + 2]}
  <2>1. at[k - 1] \in Nat /\ at[k] <= at[n]
    BY <1>2
  <2> DEFINE i == at[k - 1] + 2
  <2>2. CASE q[k] \in Special
    <3>1. /\ at[k] = at[k - 1] + 2
          /\ E[at[k - 1] + 1] = "\\"
          /\ E[at[k - 1] + 2] = q[k]
      BY <1>2, <2>2 DEF E
    <3>2. at[k - 1] + 1 \in 1..at[n] /\ at[k - 1] + 2 \in 1..at[n]
      BY <1>3, <2>1, <3>1
    <3>3. /\ i = (at[k - 1] + 1) + 1
          /\ i + 1 = (at[k - 1] + 2) + 1
          /\ i + 2 = at[k] + 2
          /\ i \in 1..Len(P) + 1 /\ ~ (i > Len(P)) /\ i < Len(P)
      BY <1>3, <1>4a, <2>1, <3>1, <3>2
    <3>4. P[i] = "\\" /\ P[i + 1] = q[k]
      BY <1>4, <3>1, <3>2, <3>3
    <3> HIDE DEF i
    <3>5. from[i] = {j \in 1..Len(t) : /\ i < Len(P)
                                       /\ P[i + 1] = t[j]
                                       /\ j + 1 \in from[i + 2]}
      BY <1>5, <3>3, <3>4 DEF LikeEntry
    <3>6. from[i] = {j \in 1..Len(t) : q[k] = t[j] /\ j + 1 \in from[at[k] + 2]}
      BY <3>3, <3>4, <3>5
    <3> QED
      BY <3>6 DEF i
  <2>3. CASE q[k] \notin Special
    <3>1. at[k] = at[k - 1] + 1 /\ E[at[k - 1] + 1] = q[k]
      BY <1>2, <2>3 DEF E
    <3>2. at[k - 1] + 1 \in 1..at[n]
      BY <1>3, <2>1, <3>1
    <3>3. /\ i = (at[k - 1] + 1) + 1
          /\ i + 1 = at[k] + 2
          /\ i \in 1..Len(P) + 1 /\ ~ (i > Len(P))
      <4>1. at[k] = at[k - 1] + 1
        BY <3>1
      <4>2. i = (at[k - 1] + 1) + 1
        BY <2>1
      <4>3. i + 1 = at[k] + 2
        BY <2>1, <4>1
      <4>4. i <= at[n] + 1 /\ i \in Nat /\ i >= 1
        BY <1>3, <2>1, <3>2
      <4> HIDE DEF i
      <4> QED
        BY <1>3, <1>4a, <4>2, <4>3, <4>4
    <3>4. P[i] = q[k] /\ P[i] \notin Special
      BY <1>4, <2>3, <3>1, <3>2, <3>3
    <3> HIDE DEF i
    <3>5. from[i] = {j \in 1..Len(t) : /\ P[i] \in {"_", t[j]}
                                       /\ j + 1 \in from[i + 1]}
      BY <1>5, <3>3, <3>4 DEF LikeEntry, Special
    <3>6. from[i] = {j \in 1..Len(t) : q[k] = t[j] /\ j + 1 \in from[at[k] + 2]}
      BY <3>3, <3>4, <3>5 DEF Special
    <3> QED
      BY <3>6 DEF i
  <2> QED
    BY <2>2, <2>3
\* The last d characters match where they stand.
<1> DEFINE Rest(d) ==
             {j \in 1..end : /\ j + d <= end
                             /\ \A m \in 1..d : q[n - d + m] = t[j + m - 1]}
<1>8. \A d \in 0..n : from[at[n - d] + 2] = Rest(d)
  <2> DEFINE T == {d \in Nat : from[at[n - d] + 2] = Rest(d)}
  <2>1. 0 \in T
    BY <1>1, <1>6
  <2>2. ASSUME NEW d \in Nat, d < n, d \in T PROVE d + 1 \in T
    <3> DEFINE k == n - d
    <3>1. k \in 1..n /\ n - (d + 1) = k - 1 /\ k \in Int
      BY <1>1, <2>2
    <3>2. from[at[k - 1] + 2] =
            {j \in 1..Len(t) : q[k] = t[j] /\ j + 1 \in from[at[k] + 2]}
      BY <1>7, <3>1
    <3>3. from[at[k] + 2] = Rest(d)
      BY <2>2
    <3>4. ASSUME NEW j \in 1..Len(t)
          PROVE  q[k] = t[j] /\ j + 1 \in Rest(d) <=> j \in Rest(d + 1)
      <4>1. /\ j \in 1..end /\ j + 1 \in 1..end
            /\ (j + 1) + d <= end <=> j + (d + 1) <= end
        BY <1>1, <2>2, <3>4
      <4>2. ASSUME q[k] = t[j],
                   \A m \in 1..d : q[k + m] = t[(j + 1) + m - 1],
                   NEW m \in 1..d + 1
            PROVE  q[n - (d + 1) + m] = t[j + m - 1]
        <5>1. CASE m = 1
          <6>1. n - (d + 1) + m = k /\ j + m - 1 = j
            BY <1>1, <2>2, <3>1, <3>4, <5>1
          <6> QED
            BY <4>2, <6>1
        <5>2. CASE m # 1
          <6>1. /\ m - 1 \in 1..d
                /\ n - (d + 1) + m = k + (m - 1)
                /\ (j + 1) + (m - 1) - 1 = j + m - 1
            BY <1>1, <2>2, <3>1, <3>4, <4>2, <5>2
          <6> QED
            BY <4>2, <6>1
        <5> QED
          BY <5>1, <5>2
      <4>3. ASSUME \A m \in 1..d + 1 : q[n - (d + 1) + m] = t[j + m - 1]
            PROVE  /\ q[k] = t[j]
                   /\ \A m \in 1..d : q[k + m] = t[(j + 1) + m - 1]
        <5>1. q[k] = t[j]
          <6>1. 1 \in 1..d + 1 /\ n - (d + 1) + 1 = k /\ j + 1 - 1 = j
            BY <1>1, <2>2, <3>1, <3>4
          <6> QED
            BY <4>3, <6>1
        <5>2. ASSUME NEW m \in 1..d PROVE q[k + m] = t[(j + 1) + m - 1]
          <6>1. /\ m + 1 \in 1..d + 1
                /\ n - (d + 1) + (m + 1) = k + m
                /\ j + (m + 1) - 1 = (j + 1) + m - 1
            BY <1>1, <2>2, <3>1, <3>4, <5>2
          <6> QED
            BY <4>3, <6>1
        <5> QED
          BY <5>1, <5>2
      <4> QED
        BY <4>1, <4>2, <4>3
    <3>5. \A j \in Rest(d + 1) : j \in 1..Len(t)
      BY <1>1, <2>2
    <3>6. from[at[k - 1] + 2] = Rest(d + 1)
      <4> HIDE DEF Rest, k
      <4> QED
        BY <3>2, <3>3, <3>4, <3>5
    <3>7. d + 1 \in Nat
      BY <2>2
    <3> QED
      BY <3>1, <3>6, <3>7
  <2> HIDE DEF T
  <2>3. \A d \in 0..n : d \in T
    BY <1>1, <2>1, <2>2, BoundedInduction
  <2> QED
    BY <2>3 DEF T
<1>9. from[2] = {k \in 1..end : HoldsAt(q, t, k)}
  <2>1. n \in 0..n /\ n - n = 0
    BY <1>1
  <2>2. from[2] = Rest(n)
    <3>1. from[at[n - n] + 2] = Rest(n)
      BY <1>8, <2>1, Zenon
    <3>2. at[n - n] + 2 = 2
      BY <1>2, <2>1
    <3> HIDE DEF Rest
    <3> QED
      BY <3>1, <3>2
  <2>3. \A m \in 1..n : n - n + m = m
    BY <1>1
  <2> QED
    BY <2>2, <2>3 DEF HoldsAt
<1>10. from[1] = {j \in 1..end : \E k \in from[2] : j <= k}
  <2>1. 1 \in 1..Len(P) + 1 /\ ~ (1 > Len(P)) /\ 1 + 1 = 2
    BY <1>3, <1>4
  <2> QED
    BY <1>4, <1>5, <2>1 DEF LikeEntry
<1>11. 1 \in from[1] <=> \E k \in 1..end : HoldsAt(q, t, k)
  BY <1>1, <1>9, <1>10
<1> QED
  BY <1>5, <1>11 DEF P, E

\* IsPrefix and SubSeq, character by character.
LEMMA PrefixMeaning ==
  ASSUME NEW C, NEW q \in Seq(C), NEW t \in Seq(C), NEW k \in 1..Len(t)
  PROVE  IsPrefix(q, SubSeq(t, k, Len(t))) <=> HoldsAt(q, t, k)
<1> DEFINE n == Len(q)
           r == SubSeq(t, k, Len(t))
           a == SubSeq(q, 1, n)
           b == SubSeq(r, 1, n)
<1>1. n \in Nat /\ Len(t) \in Nat /\ k \in Nat /\ k <= Len(t)
  BY LenProperties
<1>2. /\ Len(r) = Len(t) - k + 1
      /\ \A i \in 1..Len(t) - k + 1 : r[i] = t[k + i - 1] /\ r[i] \in C
  <2>1. \A i \in k..Len(t) : t[i] \in C
    BY <1>1, ElementOfSeq
  <2>2. /\ r \in Seq(C)
        /\ Len(r) = IF k <= Len(t) THEN Len(t) - k + 1 ELSE 0
        /\ \A i \in 1..Len(t) - k + 1 : r[i] = t[k + i - 1]
    BY <1>1, <2>1, SubSeqProperties
  <2> HIDE DEF r
  <2>3. Len(r) = Len(t) - k + 1
    BY <1>1, <2>2
  <2> QED
    BY <2>2, <2>3, ElementOfSeq
<1> HIDE DEF r
<1>3. /\ a \in Seq(C) /\ Len(a) = n
      /\ \A i \in 1..n : a[i] = q[i]
  <2>1. \A i \in 1..n : q[i] \in C
    BY ElementOfSeq
  <2>2. /\ a \in Seq(C)
        /\ Len(a) = IF 1 <= n THEN n - 1 + 1 ELSE 0
        /\ \A i \in 1..n - 1 + 1 : a[i] = q[1 + i - 1]
    BY <1>1, <2>1, SubSeqProperties
  <2> HIDE DEF a
  <2>3. ASSUME NEW i \in 1..n PROVE a[i] = q[i]
    <3>1. i \in 1..n - 1 + 1 /\ 1 + i - 1 = i
      BY <1>1
    <3> QED
      BY <2>2, <3>1
  <2> QED
    BY <1>1, <2>2, <2>3
<1>4. ASSUME n <= Len(r)
      PROVE  /\ b \in Seq(C) /\ Len(b) = n
             /\ \A i \in 1..n : b[i] = t[k + i - 1]
  <2>1. \A i \in 1..n : r[i] \in C /\ r[i] = t[k + i - 1]
    BY <1>1, <1>2, <1>4
  <2>2. /\ b \in Seq(C)
        /\ Len(b) = IF 1 <= n THEN n - 1 + 1 ELSE 0
        /\ \A i \in 1..n - 1 + 1 : b[i] = r[1 + i - 1]
    BY <1>1, <2>1, SubSeqProperties
  <2> HIDE DEF b
  <2>3. ASSUME NEW i \in 1..n PROVE b[i] = r[i]
    <3>1. i \in 1..n - 1 + 1 /\ 1 + i - 1 = i
      BY <1>1
    <3> QED
      BY <2>2, <3>1
  <2> QED
    BY <1>1, <2>1, <2>2, <2>3
<1> HIDE DEF a, b
<1>5. n <= Len(r) <=> k + n <= Len(t) + 1
  BY <1>1, <1>2
<1>6. ASSUME n <= Len(r)
      PROVE  a = b <=> \A m \in 1..n : q[m] = t[k + m - 1]
  <2>1. a = b => \A m \in 1..n : q[m] = t[k + m - 1]
    BY <1>3, <1>4, <1>6
  <2>2. ASSUME \A m \in 1..n : q[m] = t[k + m - 1] PROVE a = b
    <3>1. \A i \in 1..Len(a) : a[i] = b[i]
      BY <1>3, <1>4, <1>6, <2>2
    <3> QED
      BY <1>3, <1>4, <1>6, <3>1, SeqEqual
  <2> QED
    BY <2>1, <2>2
<1>7. IsPrefix(q, r) <=> n <= Len(r) /\ a = b
  BY Zenon DEF IsPrefix, a, b
<1> QED
  BY <1>5, <1>6, <1>7 DEF HoldsAt, r

-----------------------------------------------------------------------------
(* The type-ahead.                                                         *)

\* Whatever was typed, the escaped pattern matches a name exactly if the name
\* contains it.
LEMMA MatchingIsContaining ==
  ASSUME SearchAssumption, TypeOK, NEW q \in Queries
  PROVE  Matching(q) = Containing(q)
<1> DEFINE C == Chars \cup {"%", "\\"}
<1>1. q \in Seq(C)
  BY SeqMonotonic DEF SearchAssumption
<1>2. ASSUME NEW i \in Machine
      PROVE  machines[i] \in Seq(C) /\ Len(machines[i]) \in Nat \ {0}
  <2>1. machines[i] \in Names
    BY DEF TypeOK, Machine
  <2>2. machines[i] \in Seq(Chars) /\ machines[i] # <<>>
    BY <2>1 DEF SearchAssumption
  <2>3. machines[i] \in Seq(C)
    BY <2>2, SeqMonotonic
  <2> QED
    BY <2>2, <2>3, EmptySeq
<1>3. ASSUME NEW i \in Machine
      PROVE  i \in Containing(q)
               <=> \E k \in 1..Len(machines[i]) : HoldsAt(q, machines[i], k)
  <2> DEFINE t == machines[i]
  <2>1. t \in Seq(C) /\ DOMAIN t = 1..Len(t)
    BY <1>2, LenProperties
  <2> HIDE DEF C
  <2>2. \A k \in 1..Len(t) :
           IsPrefix(q, SubSeq(t, k, Len(t))) <=> HoldsAt(q, t, k)
    BY <1>1, <2>1, PrefixMeaning
  <2> QED
    BY <2>1, <2>2, Zenon DEF Containing
<1>4. ASSUME NEW i \in Machine
      PROVE  i \in Matching(q) <=> i \in Containing(q)
  <2> DEFINE t == machines[i]
  <2>1. t \in Seq(C) /\ Len(t) \in Nat \ {0}
    BY <1>2
  <2>2. CASE q = <<>>
    <3>1. i \in Matching(q)
      BY <2>2 DEF Matching
    <3>2. HoldsAt(q, t, 1)
      BY <2>1, <2>2 DEF HoldsAt
    <3>3. 1 \in 1..Len(t)
      BY <2>1
    <3> QED
      BY <1>3, <3>1, <3>2, <3>3
  <2>3. CASE q # <<>>
    <3>1. i \in Matching(q)
            <=> Like(<<"%">> \o EscapeLike(q) \o <<"%">>, t)
      BY <2>3, Zenon DEF Matching
    <3>2. Like(<<"%">> \o EscapeLike(q) \o <<"%">>, t)
            <=> \E k \in 1..Len(t) + 1 : HoldsAt(q, t, k)
      <4>1. {"%", "\\"} \subseteq C
        OBVIOUS
      <4> HIDE DEF C
      <4> QED
        BY <1>1, <2>1, <2>3, <4>1, LikeFindsWhatWasTyped
    <3>3. \A k \in 1..Len(t) + 1 : HoldsAt(q, t, k) => k \in 1..Len(t)
      <4>1. Len(q) \in Nat \ {0}
        BY <1>1, <2>3, EmptySeq
      <4> HIDE DEF t
      <4> QED
        BY <2>1, <4>1 DEF HoldsAt
    <3>4. 1..Len(t) \subseteq 1..Len(t) + 1
      BY <2>1
    <3> QED
      BY <1>3, <3>1, <3>2, <3>3, <3>4
  <2> QED
    BY <2>2, <2>3
<1>5. Matching(q) \subseteq Machine /\ Containing(q) \subseteq Machine
  BY Zenon DEF Matching, Containing
<1> QED
  BY <1>4, <1>5

\* As many of a finite set as there are, or as the limit allows.
LEMMA KSubsetMeaning ==
  ASSUME NEW M, IsFiniteSet(M), NEW l \in Nat,
         NEW S \in kSubset(Min({l, Cardinality(M)}), M)
  PROVE  S \subseteq M /\ (Cardinality(S) < l => S = M)
<1> DEFINE c == Cardinality(M)
           least == Min({l, c})
<1>1. c \in Nat
  BY FS_CardinalityType
<1>2. least \in {l, c} /\ least <= l /\ least <= c
  <2>1. \E x \in {l, c} : \A y \in {l, c} : x <= y
    BY <1>1
  <2>2. least \in {l, c} /\ \A y \in {l, c} : least <= y
    BY <2>1, Zenon DEF Min
  <2> QED
    BY <2>2
<1>3. S \subseteq M /\ Cardinality(S) = least
  BY Zenon DEF kSubset
<1>4. Cardinality(S) < l => Cardinality(S) = Cardinality(M)
  BY <1>1, <1>2, <1>3
<1> QED
  BY <1>3, <1>4, FS_Subset

LEMMA TypesSuffice == TypeOK => SearchFindsWhatWasTyped
<1> SUFFICES ASSUME TypeOK, NEW q \in Queries, NEW n \in Limits,
                    NEW S \in Search(q, n)
             PROVE  /\ S \subseteq Containing(q)
                    /\ Cardinality(S) < Limit(n) => S = Containing(q)
  BY DEF SearchFindsWhatWasTyped
<1>1. Matching(q) = Containing(q)
  BY SearchAssumption, MatchingIsContaining
<1>2. IsFiniteSet(Matching(q))
  <2>1. IsFiniteSet(Ids)
    BY MachinesAssumption, FS_Interval DEF Ids
  <2>2. Matching(q) \in SUBSET Ids
    BY DEF Matching, Machine
  <2> QED
    BY <2>1, <2>2, FS_Subset
<1>3. Limit(n) \in Nat
  BY SearchAssumption DEF Limit, SearchAssumption
<1>4. S \in kSubset(Min({Limit(n), Cardinality(Matching(q))}), Matching(q))
  BY Zenon DEF Search
<1> QED
  BY <1>1, <1>2, <1>3, <1>4, KSubsetMeaning

\* The type-ahead offers only machines whose name contains what was typed, and
\* leaves one out only when the limit is reached: for every alphabet, every
\* name, every query and every limit (machines.go, Search and escapeLike).
THEOREM SearchIsLiteral == Spec => []SearchFindsWhatWasTyped
  BY TypesHold, TypesSuffice, PTL

=============================================================================
