------------------------- MODULE RepairRequestsProofs -------------------------
(***************************************************************************)
(* Theorems about RepairRequests, for every value of its constants.        *)
(*                                                                         *)
(* The invariants of RepairRequests are not inductive by themselves: what  *)
(* a handler is about to write depends on what it read some statements     *)
(* ago.  CallInv says what is still true of that reading when the handler  *)
(* writes; the heart of it is that a handler about to move a request       *)
(* anywhere but to cancelled has seen it claimed, and a claimed request is *)
(* never received again.                                                   *)
(***************************************************************************)
EXTENDS RepairRequests, TLAPS

\* What holds of a row r whose claimant is c, when the accounts are us and
\* the clock shows t.
RowOK(r, c, us, t) ==
  /\ IsTerminal(r.status) <=> r.closedAt # Null
  /\ c = Null => r.owner = Null
  /\ c = Null => r.status \in {"absent", Received, Cancelled}
  /\ r.status \in {"absent", Received} => c = Null
  /\ r.owner \in us \cup {Null}
  /\ r.createdBy \in us \cup {Null}
  /\ c = Null => r.createdAt <= r.updatedAt
  /\ r.closedAt # Null => r.createdAt <= r.closedAt /\ r.closedAt <= t
  /\ r.createdAt <= t
  /\ r.updatedAt <= t

RowInv(i) == RowOK(rows[i], claimant[i], users, clock)

\* p's request exists; it was created at or before the second p read.
OnLogged(p) == Exists(call[p].id)

Current(p) == rows[call[p].id].createdAt <= call[p].now

\* Request i cannot be claimed any more.
PastClaim(i) == Exists(i) /\ rows[i].status # Received

CallInv(p) ==
  /\ call[p].now <= clock
  /\ call[p].pc = "insert" => call[p].op = "create" /\ call[p].arg \in Priorities
  /\ call[p].pc = "update" => call[p].op \in {"claim", "take_over"}
  /\ call[p].found => OnLogged(p)
  /\ call[p].pc = "read" => call[p].op \in {"transition", "priority"}
  /\ At(p, "read", "transition") => call[p].arg \in Statuses
  /\ At(p, "read", "priority") => call[p].arg \in Priorities
  /\ call[p].pc = "write" =>
       /\ call[p].op \in {"transition", "priority"}
       /\ OnLogged(p)
       /\ Current(p)
  /\ At(p, "write", "priority") => call[p].arg \in Priorities
  /\ At(p, "write", "transition") =>
       /\ call[p].arg \in Statuses \ {Received}
       /\ call[p].arg # Cancelled => claimant[call[p].id] # Null
  /\ call[p].pc = "readback" => OnLogged(p)
  /\ At(p, "readback", "claim") => claimant[call[p].id] = call[p].actor
  /\ (At(p, "answered", "claim") /\ call[p].answer = "ok") =>
       /\ OnLogged(p)
       /\ claimant[call[p].id] = call[p].actor
  /\ (At(p, "missed", "claim") /\ call[p].found) => PastClaim(call[p].id)
  /\ call[p].answer = "claim_failed" =>
       /\ call[p].pc = "answered"
       /\ OnLogged(p)
       /\ call[p].found => PastClaim(call[p].id)
  /\ call[p].pc # "idle" => call[p].actor # Null

IInv ==
  /\ TypeOK
  /\ \A i \in Ids : RowInv(i)
  /\ \A p \in Procs : CallInv(p)

\* What no step takes back: a request stays logged, its creation stamp and
\* its claimant stay what they are, it is not received again, and the clock
\* does not run backwards.
LogGrows ==
  /\ \A i \in Ids : Exists(i) => /\ rows'[i].status # "absent"
                                /\ rows'[i].createdAt = rows[i].createdAt
  /\ \A i \in Ids : PastClaim(i) => rows'[i].status # Received
  /\ \A i \in Ids : claimant[i] # Null => claimant'[i] = claimant[i]
  /\ clock <= clock'

-----------------------------------------------------------------------------
(* What the state machine guarantees of a transition nobody objects to.    *)

\* A transition that passes the checks of Transition is a legal edge other
\* than the claim; it never leads back to received, and it leads anywhere but
\* to cancelled only from a status that follows a claim.
LEMMA ObjectionFree ==
  ASSUME NEW from \in Statuses, NEW to \in Statuses,
         Objection(from, to) = "none"
  PROVE  /\ <<from, to>> \in LegalEdges
         /\ to # Received
         /\ to # Cancelled => from \in {InRepair, AwaitingParts}
  BY DEF Objection, LegalEdges, CanTransition, IsClaimEdge, IsTerminal,
         Transitions, TerminalStatuses, Statuses, Received, InRepair,
         AwaitingParts, Completed, Cancelled

-----------------------------------------------------------------------------
(* Types.                                                                  *)

LEMMA IdleType == Idle \in Call
  BY ConstantsAssumption DEF Idle, Call, Pcs, Answers, Ops

LEMMA RepliedType ==
  ASSUME TypeOK, NEW p \in Procs, NEW a \in Answers
  PROVE  Replied(p, a) \in Call
  BY DEF TypeOK, Replied, Call, Pcs

LEMMA ReadingBackType ==
  ASSUME TypeOK, NEW p \in Procs, NEW i \in Ids
  PROVE  ReadingBack(p, i) \in Call
  BY DEF TypeOK, ReadingBack, Call, Pcs

LEMMA EnterType ==
  ASSUME TypeOK, NEW p \in Procs, NEW op \in Ops, NEW pc \in Pcs,
         NEW i \in Ids \cup {NoId}, NEW u \in users,
         NEW arg \in Statuses \cup Priorities \cup {Null}, NEW now \in Nat,
         Enter(p, op, pc, i, u, arg, now)
  PROVE  call' \in [Procs -> Call]
  BY DEF TypeOK, Enter, Idle, Call, Answers

LEMMA RefuseType ==
  ASSUME TypeOK, NEW p \in Procs, NEW op \in Ops,
         NEW i \in Ids \cup {NoId}, NEW u \in users, NEW why \in Answers,
         Refuse(p, op, i, u, why)
  PROVE  call' \in [Procs -> Call]
  BY DEF TypeOK, Refuse, Idle, Call, Pcs

LEMMA MovingOnType ==
  ASSUME NEW c \in Call, NEW pc \in Pcs, NEW now \in Nat
  PROVE  [c EXCEPT !.pc = pc, !.now = now] \in Call
  BY DEF Call

\* Every statement that changes a row leaves a row.
LEMMA ClaimedRowType ==
  ASSUME NEW r \in Row, NEW u \in Users, NEW now \in Nat
  PROVE  ClaimedRow(r, u, now) \in Row
  BY DEF Row, ClaimedRow, InRepair, Statuses

LEMMA TakenRowType ==
  ASSUME NEW r \in Row, NEW u \in Users, NEW now \in Nat
  PROVE  TakenRow(r, u, now) \in Row
  BY DEF Row, TakenRow

LEMMA MovedRowType ==
  ASSUME NEW r \in Row, NEW to \in Statuses, NEW now \in Nat
  PROVE  MovedRow(r, to, now) \in Row
  BY DEF Row, MovedRow

LEMMA ReprioritisedRowType ==
  ASSUME NEW r \in Row, NEW prio \in Priorities, NEW now \in Nat
  PROVE  ReprioritisedRow(r, prio, now) \in Row
  BY DEF Row, ReprioritisedRow

\* No step takes a variable out of its type.
LEMMA TypeStep == IInv /\ [Next]_vars => TypeOK'
<1> SUFFICES ASSUME IInv, [Next]_vars PROVE TypeOK'
  OBVIOUS
<1> USE DEF IInv
<1>1. ASSUME NEW p \in Procs, Arrive(p) PROVE TypeOK'
  <2>1. /\ UNCHANGED <<rows, users, clock, claimant>>
        /\ clock \in Nat
    BY <1>1 DEF Arrive, CreateBegin, CreateRefuse, ClaimBegin, TakeOverBegin,
                TransitionBegin, TransitionRefuse, PriorityBegin,
                PriorityRefuse, Enter, Refuse, TypeOK
  <2>3. call' \in [Procs -> Call]
    <3>1. CASE CreateBegin(p)
      <4>1. PICK u \in users, prio \in Priorities \cup {Unset} :
              Enter(p, "create", "insert", NoId, u, Defaulted(prio), clock)
        BY <3>1 DEF CreateBegin
      <4>2. Defaulted(prio) \in Priorities
        BY ConstantsAssumption DEF Defaulted
      <4> QED
        BY <2>1, <4>1, <4>2, EnterType DEF Ops, Pcs
    <3>2. CASE CreateRefuse(p)
      BY <3>2, RefuseType DEF CreateRefuse, Ops, Answers
    <3>3. CASE ClaimBegin(p)
      BY <3>3, <2>1, EnterType DEF ClaimBegin, Ops, Pcs
    <3>4. CASE TakeOverBegin(p)
      BY <3>4, <2>1, EnterType DEF TakeOverBegin, Ops, Pcs
    <3>5. CASE TransitionBegin(p)
      BY <3>5, EnterType DEF TransitionBegin, Ops, Pcs
    <3>6. CASE TransitionRefuse(p)
      BY <3>6, RefuseType DEF TransitionRefuse, Ops, Answers
    <3>7. CASE PriorityBegin(p)
      BY <3>7, EnterType DEF PriorityBegin, Ops, Pcs
    <3>8. CASE PriorityRefuse(p)
      BY <3>8, RefuseType DEF PriorityRefuse, Ops, Answers
    <3> QED
      BY <1>1, <3>1, <3>2, <3>3, <3>4, <3>5, <3>6, <3>7, <3>8 DEF Arrive
  <2> QED
    BY <2>1, <2>3 DEF TypeOK
<1>2. ASSUME NEW p \in Procs, Serve(p) PROVE TypeOK'
  <2> CallInv(p)
    OBVIOUS
  <2> call[p] \in Call /\ call[p].now \in Nat
    BY DEF TypeOK, Call
  <2>1. CASE CreateInsert(p)
    <3>1. PICK i \in Ids :
            /\ rows' = [rows EXCEPT ![i] =
                          LoggedRow(call[p].actor, call[p].arg, call[p].now)]
            /\ call' = [call EXCEPT ![p] = ReadingBack(p, i)]
      BY <2>1 DEF CreateInsert
    <3>2. LoggedRow(call[p].actor, call[p].arg, call[p].now) \in Row
      BY <2>1 DEF CreateInsert, At, CallInv, LoggedRow, Row, TypeOK, Call,
                  Received, Statuses
    <3> QED
      BY <2>1, <3>1, <3>2, ReadingBackType DEF TypeOK, CreateInsert
  <2>2. CASE CreateForeignKeyError(p)
    BY <2>2, RepliedType DEF CreateForeignKeyError, Reply, TypeOK, Answers
  <2>3. CASE ClaimUpdate(p)
    <3>1. /\ call[p].id \in Ids
          /\ rows[call[p].id] \in Row
          /\ call[p].actor \in Users
      BY <2>3 DEF ClaimUpdate, ClaimMatches, Exists, ForeignKeyHolds, TypeOK
    <3>2. ClaimedRow(rows[call[p].id], call[p].actor, call[p].now) \in Row
      BY <3>1, ClaimedRowType
    <3> QED
      BY <2>3, <3>1, <3>2, ReadingBackType DEF TypeOK, ClaimUpdate
  <2>4. CASE TakeOverUpdate(p)
    <3>1. /\ call[p].id \in Ids
          /\ rows[call[p].id] \in Row
          /\ call[p].actor \in Users
      BY <2>4 DEF TakeOverUpdate, TakeOverMatches, Exists, ForeignKeyHolds, TypeOK
    <3>2. TakenRow(rows[call[p].id], call[p].actor, call[p].now) \in Row
      BY <3>1, TakenRowType
    <3> QED
      BY <2>4, <3>1, <3>2, ReadingBackType DEF TypeOK, TakeOverUpdate
  <2>5. CASE UpdateForeignKeyError(p)
    BY <2>5, RepliedType DEF UpdateForeignKeyError, Reply, TypeOK, Answers
  <2>6. CASE UpdateMissed(p)
    BY <2>6, MovingOnType DEF UpdateMissed, TypeOK, Pcs
  <2>7. CASE MissedRead(p)
    BY <2>7, RepliedType DEF MissedRead, Reply, TypeOK, Answers
  <2>8. CASE TransitionRead(p)
    <3>1. \A from, to : Objection(from, to) \in Answers \cup {"none"}
      BY DEF Objection, Answers
    <3>2. CASE \E a \in Answers : Reply(p, a)
      BY <2>8, <3>2, RepliedType DEF TransitionRead, Reply, TypeOK
    <3>3. CASE /\ Exists(call[p].id)
               /\ Objection(rows[call[p].id].status, call[p].arg) = "none"
               /\ call' = [call EXCEPT ![p] =
                             [@ EXCEPT !.pc = "write", !.now = clock]]
      BY <2>8, <3>3, MovingOnType DEF TransitionRead, TypeOK, Pcs
    <3> QED
      BY <2>8, <3>1, <3>2, <3>3 DEF TransitionRead, Answers
  <2>9. CASE TransitionWrite(p)
    <3>1. /\ call[p].id \in Ids
          /\ rows[call[p].id] \in Row
          /\ call[p].arg \in Statuses
      BY <2>9 DEF TransitionWrite, At, CallInv, OnLogged, Exists, TypeOK
    <3>2. MovedRow(rows[call[p].id], call[p].arg, call[p].now) \in Row
      BY <3>1, MovedRowType
    <3> QED
      BY <2>9, <3>1, <3>2, ReadingBackType DEF TypeOK, TransitionWrite
  <2>10. CASE PriorityRead(p)
    <3>1. CASE Reply(p, "not_found")
      BY <2>10, <3>1, RepliedType DEF PriorityRead, Reply, TypeOK, Answers
    <3>2. CASE call' = [call EXCEPT ![p] =
                          [@ EXCEPT !.pc = "write", !.now = clock]]
      BY <2>10, <3>2, MovingOnType DEF PriorityRead, TypeOK, Pcs
    <3> QED
      BY <2>10, <3>1, <3>2 DEF PriorityRead
  <2>11. CASE PriorityWrite(p)
    <3>1. /\ call[p].id \in Ids
          /\ rows[call[p].id] \in Row
          /\ call[p].arg \in Priorities
      BY <2>11 DEF PriorityWrite, At, CallInv, OnLogged, Exists, TypeOK
    <3>2. ReprioritisedRow(rows[call[p].id], call[p].arg, call[p].now) \in Row
      BY <3>1, ReprioritisedRowType
    <3> QED
      BY <2>11, <3>1, <3>2, ReadingBackType DEF TypeOK, PriorityWrite
  <2>12. CASE ReadBack(p)
    BY <2>12, RepliedType DEF ReadBack, Reply, TypeOK, Answers
  <2>13. CASE Finish(p)
    BY <2>13, IdleType DEF Finish, TypeOK
  <2> QED
    BY <1>2, <2>1, <2>2, <2>3, <2>4, <2>5, <2>6, <2>7, <2>8, <2>9, <2>10,
       <2>11, <2>12, <2>13 DEF Serve
<1>3. ASSUME NEW p \in Procs, Abort(p) PROVE TypeOK'
  BY <1>3, RepliedType DEF Abort, Reply, TypeOK, Answers
<1>4. ASSUME NEW u \in Users, DeleteUser(u) PROVE TypeOK'
  <2>1. ASSUME NEW i \in Ids
        PROVE  [rows[i] EXCEPT !.owner = IF @ = u THEN Null ELSE @,
                               !.createdBy = IF @ = u THEN Null ELSE @] \in Row
    BY DEF TypeOK, Row
  <2> QED
    BY <1>4, <2>1 DEF DeleteUser, TypeOK
<1>5. CASE Tick
  BY <1>5 DEF Tick, TypeOK
<1>6. CASE UNCHANGED vars
  BY <1>6 DEF vars, TypeOK
<1> QED
  BY <1>1, <1>2, <1>3, <1>4, <1>5, <1>6 DEF Next

-----------------------------------------------------------------------------
(* Rows.                                                                   *)

LEMMA LoggedRowOK ==
  ASSUME NEW us, NEW u \in us, NEW prio, NEW now \in Nat, NEW t \in Nat,
         now <= t
  PROVE  RowOK(LoggedRow(u, prio, now), Null, us, t)
  BY ConstantsAssumption
  DEF RowOK, LoggedRow, IsTerminal, TerminalStatuses, Received, Completed,
      Cancelled

LEMMA ClaimedRowOK ==
  ASSUME NEW r \in Row, NEW c, NEW us \in SUBSET Users, NEW t \in Nat,
         RowOK(r, c, us, t), r.status = Received,
         NEW u \in us, NEW now \in Nat, now <= t
  PROVE  RowOK(ClaimedRow(r, u, now), u, us, t)
  BY ConstantsAssumption
  DEF RowOK, ClaimedRow, Row, IsTerminal, TerminalStatuses, Received,
      InRepair, Completed, Cancelled

LEMMA TakenRowOK ==
  ASSUME NEW r \in Row, NEW c, NEW us \in SUBSET Users, NEW t \in Nat,
         RowOK(r, c, us, t), r.status \in {InRepair, AwaitingParts},
         NEW u \in us, NEW now \in Nat, now <= t
  PROVE  RowOK(TakenRow(r, u, now), c, us, t)
  BY ConstantsAssumption
  DEF RowOK, TakenRow, Row, IsTerminal, TerminalStatuses, Received,
      InRepair, AwaitingParts, Completed, Cancelled

\* Whatever status the move overwrites, the row stays right: what matters is
\* that a claim came first unless the move is a cancellation.
LEMMA MovedRowOK ==
  ASSUME NEW r \in Row, NEW c, NEW us, NEW t \in Nat,
         RowOK(r, c, us, t), r.status # "absent",
         NEW to \in Statuses, to # Received, to # Cancelled => c # Null,
         NEW now \in Nat, r.createdAt <= now, now <= t
  PROVE  RowOK(MovedRow(r, to, now), c, us, t)
<1>1. /\ MovedRow(r, to, now).status = to
      /\ MovedRow(r, to, now).owner = r.owner
      /\ MovedRow(r, to, now).createdBy = r.createdBy
      /\ MovedRow(r, to, now).createdAt = r.createdAt
      /\ MovedRow(r, to, now).updatedAt = now
      /\ MovedRow(r, to, now).closedAt = IF IsTerminal(to) THEN now ELSE Null
  BY DEF MovedRow, Row
<1>2. to # "absent"
  BY DEF Statuses, Received, InRepair, AwaitingParts, Completed, Cancelled
<1>3. c = Null => r.status # "absent" /\ to = Cancelled
  OBVIOUS
<1> QED
  BY <1>1, <1>2, <1>3, ConstantsAssumption
  DEF RowOK, Statuses, Received, Cancelled

LEMMA ReprioritisedRowOK ==
  ASSUME NEW r \in Row, NEW c, NEW us, NEW t \in Nat,
         RowOK(r, c, us, t), r.status # "absent", NEW prio,
         NEW now \in Nat, r.createdAt <= now, now <= t
  PROVE  RowOK(ReprioritisedRow(r, prio, now), c, us, t)
  BY DEF RowOK, ReprioritisedRow, Row

LEMMA OrphanedRowOK ==
  ASSUME NEW r \in Row, NEW c, NEW us, NEW t \in Nat,
         RowOK(r, c, us, t), NEW u \in Users
  PROVE  RowOK([r EXCEPT !.owner = IF @ = u THEN Null ELSE @,
                         !.createdBy = IF @ = u THEN Null ELSE @],
               c, us \ {u}, t)
  BY ConstantsAssumption DEF RowOK, Row

\* No step spoils a row.
LEMMA RowStep == IInv /\ [Next]_vars => \A i \in Ids : RowInv(i)'
<1> SUFFICES ASSUME IInv, [Next]_vars, NEW i \in Ids PROVE RowInv(i)'
  OBVIOUS
<1> /\ RowOK(rows[i], claimant[i], users, clock)
    /\ rows[i] \in Row
    /\ users \in SUBSET Users
    /\ clock \in Nat
  BY DEF IInv, RowInv, TypeOK
<1>1. ASSUME UNCHANGED <<rows, users, clock, claimant>> PROVE RowInv(i)'
  BY <1>1 DEF RowInv
<1>2. ASSUME NEW p \in Procs, Arrive(p) PROVE RowInv(i)'
  BY <1>1, <1>2
  DEF Arrive, CreateBegin, CreateRefuse, ClaimBegin, TakeOverBegin,
      TransitionBegin, TransitionRefuse, PriorityBegin, PriorityRefuse,
      Enter, Refuse
<1>3. ASSUME NEW p \in Procs, Serve(p) PROVE RowInv(i)'
  <2> /\ CallInv(p)
      /\ call[p].now \in Nat
      /\ rows \in [Ids -> Row]
      /\ claimant \in [Ids -> Users \cup {Null}]
    BY DEF IInv, TypeOK, Call
  <2>1. CASE CreateInsert(p)
    <3>1. PICK j \in Ids :
            /\ ~Exists(j)
            /\ rows' = [rows EXCEPT ![j] =
                          LoggedRow(call[p].actor, call[p].arg, call[p].now)]
      BY <2>1 DEF CreateInsert
    <3>2. CASE i = j
      <4>1. claimant[i] = Null
        BY <3>1, <3>2 DEF Exists, RowOK
      <4>2. RowOK(LoggedRow(call[p].actor, call[p].arg, call[p].now), Null,
                  users, clock)
        BY <2>1, LoggedRowOK DEF CreateInsert, ForeignKeyHolds, CallInv
      <4> QED
        BY <2>1, <3>1, <3>2, <4>1, <4>2 DEF CreateInsert, RowInv
    <3>3. CASE i # j
      BY <2>1, <3>1, <3>3 DEF CreateInsert, RowInv
    <3> QED
      BY <3>2, <3>3
  <2>2. CASE ClaimUpdate(p)
    <3>1. CASE i = call[p].id
      <4>1. /\ rows[i].status = Received
            /\ call[p].actor \in users
        BY <2>2, <3>1 DEF ClaimUpdate, ClaimMatches, ForeignKeyHolds
      <4>2. call[p].now <= clock
        BY DEF CallInv
      <4>3. RowOK(ClaimedRow(rows[i], call[p].actor, call[p].now),
                  call[p].actor, users, clock)
        BY <4>1, <4>2, ClaimedRowOK
      <4> QED
        BY <2>2, <3>1, <4>3 DEF ClaimUpdate, RowInv
    <3>2. CASE i # call[p].id
      BY <2>2, <3>2 DEF ClaimUpdate, RowInv
    <3> QED
      BY <3>1, <3>2
  <2>3. CASE TakeOverUpdate(p)
    <3>1. CASE i = call[p].id
      <4>1. /\ rows[i].status \in {InRepair, AwaitingParts}
            /\ call[p].actor \in users
        BY <2>3, <3>1 DEF TakeOverUpdate, TakeOverMatches, ForeignKeyHolds
      <4>2. call[p].now <= clock
        BY DEF CallInv
      <4>3. RowOK(TakenRow(rows[i], call[p].actor, call[p].now), claimant[i],
                  users, clock)
        BY <4>1, <4>2, TakenRowOK
      <4> QED
        BY <2>3, <3>1, <4>3 DEF TakeOverUpdate, RowInv
    <3>2. CASE i # call[p].id
      BY <2>3, <3>2 DEF TakeOverUpdate, RowInv
    <3> QED
      BY <3>1, <3>2
  <2>4. CASE TransitionWrite(p)
    <3>1. CASE i = call[p].id
      <4>1. /\ rows[i].status # "absent"
            /\ rows[i].createdAt <= call[p].now
            /\ call[p].now <= clock
            /\ call[p].arg \in Statuses
            /\ call[p].arg # Received
            /\ call[p].arg # Cancelled => claimant[i] # Null
        BY <2>4, <3>1 DEF TransitionWrite, At, CallInv, OnLogged, Exists, Current
      <4>2. RowOK(MovedRow(rows[i], call[p].arg, call[p].now), claimant[i],
                  users, clock)
        BY <4>1, MovedRowOK
      <4> QED
        BY <2>4, <3>1, <4>2 DEF TransitionWrite, RowInv
    <3>2. CASE i # call[p].id
      BY <2>4, <3>2 DEF TransitionWrite, RowInv
    <3> QED
      BY <3>1, <3>2
  <2>5. CASE PriorityWrite(p)
    <3>1. CASE i = call[p].id
      <4>1. /\ rows[i].status # "absent"
            /\ rows[i].createdAt <= call[p].now
            /\ call[p].now <= clock
        BY <2>5, <3>1 DEF PriorityWrite, At, CallInv, OnLogged, Exists, Current
      <4>2. RowOK(ReprioritisedRow(rows[i], call[p].arg, call[p].now),
                  claimant[i], users, clock)
        BY <4>1, ReprioritisedRowOK
      <4> QED
        BY <2>5, <3>1, <4>2 DEF PriorityWrite, RowInv
    <3>2. CASE i # call[p].id
      BY <2>5, <3>2 DEF PriorityWrite, RowInv
    <3> QED
      BY <3>1, <3>2
  <2>6. CASE \/ CreateForeignKeyError(p) \/ UpdateForeignKeyError(p)
             \/ UpdateMissed(p) \/ MissedRead(p) \/ TransitionRead(p)
             \/ PriorityRead(p) \/ ReadBack(p) \/ Finish(p)
    BY <1>1, <2>6
    DEF CreateForeignKeyError, UpdateForeignKeyError, UpdateMissed,
        MissedRead, TransitionRead, PriorityRead, ReadBack, Finish
  <2> QED
    BY <1>3, <2>1, <2>2, <2>3, <2>4, <2>5, <2>6 DEF Serve
<1>4. ASSUME NEW p \in Procs, Abort(p) PROVE RowInv(i)'
  BY <1>1, <1>4 DEF Abort
<1>5. ASSUME NEW u \in Users, DeleteUser(u) PROVE RowInv(i)'
  BY <1>5, OrphanedRowOK DEF DeleteUser, RowInv
<1>6. CASE Tick
  BY <1>6 DEF Tick, RowInv, RowOK, Row
<1>7. CASE UNCHANGED vars
  BY <1>1, <1>7 DEF vars
<1> QED
  BY <1>2, <1>3, <1>4, <1>5, <1>6, <1>7 DEF Next

-----------------------------------------------------------------------------
(* Handlers.                                                               *)

\* Every step lets the log grow.  For Claim this is where the guard of its
\* UPDATE counts: it matches received requests only, and those have no
\* claimant to lose.
LEMMA GrowStep == IInv /\ [Next]_vars => LogGrows
<1> SUFFICES ASSUME IInv, [Next]_vars PROVE LogGrows
  OBVIOUS
<1> /\ rows \in [Ids -> Row]
    /\ claimant \in [Ids -> Users \cup {Null}]
    /\ clock \in Nat
    /\ \A i \in Ids : RowOK(rows[i], claimant[i], users, clock)
  BY DEF IInv, TypeOK, RowInv
<1>1. ASSUME UNCHANGED <<rows, clock, claimant>> PROVE LogGrows
  BY <1>1 DEF LogGrows, PastClaim, Exists
<1>2. ASSUME NEW p \in Procs, Arrive(p) PROVE LogGrows
  BY <1>1, <1>2
  DEF Arrive, CreateBegin, CreateRefuse, ClaimBegin, TakeOverBegin,
      TransitionBegin, TransitionRefuse, PriorityBegin, PriorityRefuse,
      Enter, Refuse
<1>3. ASSUME NEW p \in Procs, Serve(p) PROVE LogGrows
  <2>1. CASE CreateInsert(p)
    BY <2>1 DEF CreateInsert, LogGrows, PastClaim, Exists
  <2>2. CASE ClaimUpdate(p)
    <3>1. claimant[call[p].id] = Null
      BY <2>2 DEF ClaimUpdate, ClaimMatches, Exists, RowOK
    <3>2. \A i \in Ids : claimant[i] # Null => claimant'[i] = claimant[i]
      BY <2>2, <3>1 DEF ClaimUpdate
    <3>3. \A r \in Row : \A u, now :
            /\ ClaimedRow(r, u, now).status \notin {"absent", Received}
            /\ ClaimedRow(r, u, now).createdAt = r.createdAt
      BY DEF ClaimedRow, Row, InRepair, Received
    <3> QED
      BY <2>2, <3>2, <3>3 DEF ClaimUpdate, LogGrows, PastClaim, Exists
  <2>3. CASE TakeOverUpdate(p)
    <3>1. \A r \in Row : \A u, now :
            /\ TakenRow(r, u, now).status = r.status
            /\ TakenRow(r, u, now).createdAt = r.createdAt
      BY DEF TakenRow, Row
    <3> QED
      BY <2>3, <3>1 DEF TakeOverUpdate, LogGrows, PastClaim, Exists
  <2>4. CASE TransitionWrite(p)
    <3>1. call[p].arg \in Statuses \ {Received}
      BY <2>4 DEF TransitionWrite, At, IInv, CallInv
    <3>2. \A r \in Row, to \in Statuses \ {Received} : \A now :
            /\ MovedRow(r, to, now).status \notin {"absent", Received}
            /\ MovedRow(r, to, now).createdAt = r.createdAt
      BY DEF MovedRow, Row, Statuses, Received, InRepair, AwaitingParts,
             Completed, Cancelled
    <3> QED
      BY <2>4, <3>1, <3>2 DEF TransitionWrite, LogGrows, PastClaim, Exists
  <2>5. CASE PriorityWrite(p)
    <3>1. \A r \in Row : \A prio, now :
            /\ ReprioritisedRow(r, prio, now).status = r.status
            /\ ReprioritisedRow(r, prio, now).createdAt = r.createdAt
      BY DEF ReprioritisedRow, Row
    <3> QED
      BY <2>5, <3>1 DEF PriorityWrite, LogGrows, PastClaim, Exists
  <2>6. CASE \/ CreateForeignKeyError(p) \/ UpdateForeignKeyError(p)
             \/ UpdateMissed(p) \/ MissedRead(p) \/ TransitionRead(p)
             \/ PriorityRead(p) \/ ReadBack(p) \/ Finish(p)
    BY <1>1, <2>6
    DEF CreateForeignKeyError, UpdateForeignKeyError, UpdateMissed,
        MissedRead, TransitionRead, PriorityRead, ReadBack, Finish
  <2> QED
    BY <1>3, <2>1, <2>2, <2>3, <2>4, <2>5, <2>6 DEF Serve
<1>4. ASSUME NEW p \in Procs, Abort(p) PROVE LogGrows
  BY <1>1, <1>4 DEF Abort
<1>5. ASSUME NEW u \in Users, DeleteUser(u) PROVE LogGrows
  <2>1. ASSUME NEW i \in Ids
        PROVE  /\ rows'[i].status = rows[i].status
               /\ rows'[i].createdAt = rows[i].createdAt
    <3>1. /\ rows[i] \in Row
          /\ rows'[i] = [rows[i] EXCEPT !.owner = IF @ = u THEN Null ELSE @,
                                        !.createdBy = IF @ = u THEN Null ELSE @]
      BY <1>5 DEF DeleteUser
    <3> QED
      BY <3>1 DEF Row
  <2>2. UNCHANGED <<clock, claimant>>
    BY <1>5 DEF DeleteUser
  <2> QED
    BY <2>1, <2>2 DEF LogGrows, PastClaim, Exists
<1>6. CASE Tick
  BY <1>6 DEF Tick, LogGrows, PastClaim, Exists
<1>7. CASE UNCHANGED vars
  BY <1>1, <1>7 DEF vars
<1> QED
  BY <1>2, <1>3, <1>4, <1>5, <1>6, <1>7 DEF Next

\* While the log grows, what a handler knows stays true.
LEMMA Bystander ==
  ASSUME IInv, LogGrows, TypeOK', NEW q \in Procs, call'[q] = call[q]
  PROVE  CallInv(q)'
<1> /\ CallInv(q)
    /\ call[q] \in Call
    /\ clock \in Nat
    /\ clock' \in Nat
  BY DEF IInv, TypeOK
<1>1. OnLogged(q) => OnLogged(q)'
  BY DEF LogGrows, OnLogged, Exists
<1>2. OnLogged(q) /\ Current(q) => Current(q)'
  BY DEF LogGrows, OnLogged, Exists, Current
<1>3. OnLogged(q) /\ claimant[call[q].id] # Null
        => claimant'[call[q].id] = claimant[call[q].id]
  BY DEF LogGrows, OnLogged, Exists
<1>4. call'[q].now <= clock'
  BY DEF LogGrows, CallInv, Call
<1>5. PastClaim(call[q].id) => PastClaim(call[q].id)'
  BY DEF LogGrows, PastClaim, Exists
<1> QED
  BY <1>1, <1>2, <1>3, <1>4, <1>5 DEF CallInv, At

\* No step leaves a handler with knowledge that is not true.
LEMMA CallStep == IInv /\ [Next]_vars => \A q \in Procs : CallInv(q)'
<1> SUFFICES ASSUME IInv, [Next]_vars, NEW q \in Procs PROVE CallInv(q)'
  OBVIOUS
<1> /\ LogGrows
    /\ TypeOK'
  BY GrowStep, TypeStep
<1> /\ call \in [Procs -> Call]
    /\ rows \in [Ids -> Row]
    /\ claimant \in [Ids -> Users \cup {Null}]
    /\ users \in SUBSET Users
    /\ clock \in Nat
    /\ \A i \in Ids : RowOK(rows[i], claimant[i], users, clock)
    /\ \A p \in Procs : CallInv(p)
  BY DEF IInv, TypeOK, RowInv
<1>1. ASSUME call'[q] = call[q] PROVE CallInv(q)'
  BY <1>1, Bystander
<1>2. ASSUME NEW p \in Procs, Arrive(p) PROVE CallInv(q)'
  <2>1. UNCHANGED <<rows, users, clock, claimant>>
    BY <1>2
    DEF Arrive, CreateBegin, CreateRefuse, ClaimBegin, TakeOverBegin,
        TransitionBegin, TransitionRefuse, PriorityBegin, PriorityRefuse,
        Enter, Refuse
  <2>2. ASSUME q # p PROVE CallInv(q)'
    <3>1. call'[q] = call[q]
      BY <1>2, <2>2
      DEF Arrive, CreateBegin, CreateRefuse, ClaimBegin, TakeOverBegin,
          TransitionBegin, TransitionRefuse, PriorityBegin, PriorityRefuse,
          Enter, Refuse
    <3> QED
      BY <1>1, <3>1
  <2>3. ASSUME NEW op, NEW pc, NEW i, NEW u \in users, NEW arg, NEW now,
               Enter(q, op, pc, i, u, arg, now)
        PROVE  /\ call'[q].pc = pc
               /\ call'[q].op = op
               /\ call'[q].id = i
               /\ call'[q].arg = arg
               /\ call'[q].now = now
               /\ call'[q].found => op = "claim" /\ Exists(i)
               /\ call'[q].answer = "none"
               /\ call'[q].actor # Null
    BY <2>3, ConstantsAssumption DEF Enter, Idle
  <2>4. ASSUME NEW op, NEW i, NEW u \in users,
               NEW why, why \notin {"ok", "claim_failed"},
               Refuse(q, op, i, u, why)
        PROVE  CallInv(q)'
    <3>1. /\ call'[q] = [pc |-> "answered", op |-> op, id |-> i, actor |-> u,
                        arg |-> Null, now |-> 0,
                        found |-> FALSE, answer |-> why]
          /\ u # Null
      BY <2>4, ConstantsAssumption DEF Refuse, Idle
    <3> QED
      BY <2>1, <2>4, <3>1 DEF CallInv, At
  <2>5. ASSUME NEW op \in {"claim", "take_over"}, NEW i \in Ids,
               NEW u \in users, Enter(q, op, "update", i, u, Null, clock)
        PROVE  CallInv(q)'
    <3>1. /\ call'[q].pc = "update"
          /\ call'[q].op = op
          /\ call'[q].id = i
          /\ call'[q].arg = Null
          /\ call'[q].now = clock
          /\ call'[q].found => Exists(i)
          /\ call'[q].answer = "none"
          /\ call'[q].actor # Null
      BY <2>3, <2>5
    <3> QED
      BY <2>1, <3>1 DEF CallInv, At, OnLogged, Exists
  <2>6. CASE CreateBegin(q)
    <3>1. PICK u \in users, prio \in Priorities \cup {Unset} :
            Enter(q, "create", "insert", NoId, u, Defaulted(prio), clock)
      BY <2>6 DEF CreateBegin
    <3>2. Defaulted(prio) \in Priorities
      BY ConstantsAssumption DEF Defaulted
    <3>3. /\ call'[q].pc = "insert"
          /\ call'[q].op = "create"
          /\ call'[q].id = NoId
          /\ call'[q].arg = Defaulted(prio)
          /\ call'[q].now = clock
          /\ ~call'[q].found
          /\ call'[q].answer = "none"
          /\ call'[q].actor # Null
      BY <2>3, <3>1
    <3> QED
      BY <2>1, <3>2, <3>3 DEF CallInv, At
  <2>7. CASE CreateRefuse(q)
    BY <2>4, <2>7 DEF CreateRefuse
  <2>8. CASE ClaimBegin(q)
    BY <2>5, <2>8 DEF ClaimBegin
  <2>9. CASE TakeOverBegin(q)
    BY <2>5, <2>9 DEF TakeOverBegin
  <2>10. CASE TransitionBegin(q)
    <3>1. PICK u \in users, i \in Ids, to \in Statuses :
            Enter(q, "transition", "read", i, u, to, 0)
      BY <2>10 DEF TransitionBegin
    <3>2. /\ call'[q].pc = "read"
          /\ call'[q].op = "transition"
          /\ call'[q].id = i
          /\ call'[q].arg = to
          /\ call'[q].now = 0
          /\ ~call'[q].found
          /\ call'[q].answer = "none"
          /\ call'[q].actor # Null
      BY <2>3, <3>1
    <3> QED
      BY <2>1, <3>2 DEF CallInv, At
  <2>11. CASE TransitionRefuse(q)
    BY <2>4, <2>11 DEF TransitionRefuse
  <2>12. CASE PriorityBegin(q)
    <3>1. PICK u \in users, i \in Ids, prio \in Priorities :
            Enter(q, "priority", "read", i, u, prio, 0)
      BY <2>12 DEF PriorityBegin
    <3>2. /\ call'[q].pc = "read"
          /\ call'[q].op = "priority"
          /\ call'[q].id = i
          /\ call'[q].arg = prio
          /\ call'[q].now = 0
          /\ ~call'[q].found
          /\ call'[q].answer = "none"
          /\ call'[q].actor # Null
      BY <2>3, <3>1
    <3> QED
      BY <2>1, <3>2 DEF CallInv, At
  <2>13. CASE PriorityRefuse(q)
    BY <2>4, <2>13 DEF PriorityRefuse
  <2> QED
    BY <1>2, <2>2, <2>6, <2>7, <2>8, <2>9, <2>10, <2>11, <2>12, <2>13
    DEF Arrive
<1>3. ASSUME NEW a, a \notin {"ok", "claim_failed"}, call[q].actor # Null,
             call'[q] = Replied(q, a)
      PROVE  CallInv(q)'
  <2>1. /\ call'[q].pc = "answered"
        /\ call'[q].answer = a
        /\ call'[q].actor = call[q].actor
        /\ call'[q].now = 0
        /\ ~call'[q].found
    BY <1>3 DEF Replied, Call
  <2> QED
    BY <1>3, <2>1 DEF CallInv, At, TypeOK
<1>4. ASSUME NEW i \in Ids, call[q].actor # Null, rows'[i].status # "absent",
             call[q].answer # "claim_failed",
             call'[q] = ReadingBack(q, i),
             call[q].op = "claim" => claimant'[i] = call[q].actor
      PROVE  CallInv(q)'
  <2>1. /\ call'[q].pc = "readback"
        /\ call'[q].op = call[q].op
        /\ call'[q].id = i
        /\ call'[q].actor = call[q].actor
        /\ call'[q].answer = call[q].answer
        /\ call'[q].now = 0
        /\ ~call'[q].found
    BY <1>4 DEF ReadingBack, Call
  <2> QED
    BY <1>4, <2>1 DEF CallInv, At, TypeOK, OnLogged, Exists
<1>5. ASSUME NEW p \in Procs, Serve(p) PROVE CallInv(q)'
  <2>1. CASE q # p
    <3>1. call'[q] = call[q]
      BY <1>5, <2>1
      DEF Serve, CreateInsert, CreateForeignKeyError, ClaimUpdate,
          TakeOverUpdate, UpdateForeignKeyError, UpdateMissed, MissedRead,
          TransitionRead, TransitionWrite, PriorityRead, PriorityWrite,
          ReadBack, Finish, Reply
    <3> QED
      BY <1>1, <3>1
  <2>2. CASE CreateInsert(q)
    BY <1>4, <2>2 DEF CreateInsert, At, CallInv, LoggedRow, Received
  <2>3. CASE CreateForeignKeyError(q)
    BY <1>3, <2>3 DEF CreateForeignKeyError, At, Reply, CallInv
  <2>4. CASE ClaimUpdate(q)
    <3>1. Exists(call[q].id)
      BY <2>4 DEF ClaimUpdate, ClaimMatches
    <3> QED
      BY <1>4, <2>4, <3>1 DEF ClaimUpdate, At, CallInv, LogGrows, Exists
  <2>5. CASE TakeOverUpdate(q)
    <3>1. Exists(call[q].id)
      BY <2>5 DEF TakeOverUpdate, TakeOverMatches
    <3> QED
      BY <1>4, <2>5, <3>1 DEF TakeOverUpdate, At, CallInv, LogGrows, Exists
  <2>6. CASE UpdateForeignKeyError(q)
    BY <1>3, <2>6 DEF UpdateForeignKeyError, Reply, CallInv
  <2>7. CASE UpdateMissed(q)
    <3>1. /\ call'[q].pc = "missed"
          /\ call'[q].op = call[q].op
          /\ call'[q].id = call[q].id
          /\ call'[q].now = 0
          /\ call'[q].actor = call[q].actor
          /\ call'[q].answer = call[q].answer
          /\ call[q].answer # "claim_failed"
          /\ call'[q].found <=> call[q].found
          /\ call[q].actor # Null
          /\ UNCHANGED rows
      BY <2>7 DEF UpdateMissed, CallInv, Call
    <3>2. (call[q].op = "claim" /\ call[q].found) => PastClaim(call[q].id)
      BY <2>7
      DEF UpdateMissed, CallInv, OnLogged, Matches, ClaimMatches, PastClaim
    <3>3. call[q].found => Exists(call[q].id)
      BY DEF CallInv, OnLogged
    <3> QED
      BY <2>7, <3>1, <3>2, <3>3
      DEF UpdateMissed, CallInv, At, OnLogged, PastClaim, Exists
  <2>8. CASE MissedRead(q)
    <3> DEFINE i == call[q].id
               a == IF ~Exists(i) THEN "not_found"
                    ELSE IF call[q].op = "claim" THEN "claim_failed"
                    ELSE "not_ownable"
    <3>1. CASE a # "claim_failed"
      BY <1>3, <2>8, <3>1 DEF MissedRead, Reply, CallInv
    <3>2. CASE a = "claim_failed"
      <4>1. Exists(i) /\ call[q].op = "claim"
        BY <3>2
      <4>2. /\ call[q].found => PastClaim(i)
            /\ call[q].actor # Null
        BY <2>8, <4>1 DEF MissedRead, CallInv, At
      <4>3. /\ call'[q].pc = "answered"
            /\ call'[q].id = i
            /\ call'[q].answer = "claim_failed"
            /\ call'[q].actor = call[q].actor
            /\ call'[q].now = 0
            /\ call'[q].found => call[q].found
            /\ UNCHANGED rows
        BY <2>8, <3>2 DEF MissedRead, Reply, Replied, Call
      <4> HIDE DEF i
      <4> QED
        BY <4>1, <4>2, <4>3 DEF CallInv, At, OnLogged, TypeOK, PastClaim, Exists
    <3> QED
      BY <3>1, <3>2
  <2>9. CASE TransitionRead(q)
    <3> DEFINE i  == call[q].id
               to == call[q].arg
    <3>1. /\ to \in Statuses
          /\ call[q].actor # Null
          /\ UNCHANGED <<rows, users, clock, claimant>>
      BY <2>9 DEF TransitionRead, At, CallInv
    <3>2. CASE Reply(q, "not_found")
      BY <1>3, <3>1, <3>2 DEF Reply
    <3>3. CASE Reply(q, Objection(rows[i].status, to))
      <4>1. Objection(rows[i].status, to) \notin {"ok", "claim_failed"}
        BY DEF Objection
      <4> QED
        BY <1>3, <3>1, <3>3, <4>1 DEF Reply
    <3>4. CASE /\ Exists(i)
               /\ Objection(rows[i].status, to) = "none"
               /\ call' = [call EXCEPT ![q] =
                             [@ EXCEPT !.pc = "write", !.now = clock]]
      <4>1. /\ call'[q].pc = "write"
            /\ call'[q].now = clock
            /\ call'[q].op = "transition"
            /\ call'[q].answer = call[q].answer
            /\ call[q].answer # "claim_failed"
            /\ call'[q].id = i
            /\ call'[q].arg = to
            /\ call'[q].actor = call[q].actor
        BY <2>9, <3>4 DEF TransitionRead, At, CallInv, Call
      <4>2. rows[i].status \in Statuses
        BY <3>4 DEF Exists, Row
      <4>3. /\ to # Received
            /\ to # Cancelled => rows[i].status \in {InRepair, AwaitingParts}
        BY <3>1, <3>4, <4>2, ObjectionFree
      <4>4. to # Cancelled => claimant[i] # Null
        BY <3>4, <4>3
        DEF Exists, RowOK, Received, InRepair, AwaitingParts, Cancelled
      <4>5. rows[i].createdAt <= clock
        BY <3>4 DEF Exists, RowOK
      <4> HIDE DEF i, to
      <4> QED
        BY <3>1, <3>4, <4>1, <4>3, <4>4, <4>5
        DEF CallInv, At, OnLogged, Exists, Current
    <3> QED
      BY <2>9, <3>2, <3>3, <3>4 DEF TransitionRead
  <2>10. CASE TransitionWrite(q)
    <3>1. Exists(call[q].id)
      BY <2>10 DEF TransitionWrite, At, CallInv, OnLogged
    <3> QED
      BY <1>4, <2>10, <3>1 DEF TransitionWrite, At, CallInv, LogGrows, Exists
  <2>11. CASE PriorityRead(q)
    <3>1. /\ call[q].arg \in Priorities
          /\ call[q].actor # Null
          /\ UNCHANGED <<rows, users, clock, claimant>>
      BY <2>11 DEF PriorityRead, At, CallInv
    <3>2. CASE Reply(q, "not_found")
      BY <1>3, <3>1, <3>2 DEF Reply
    <3>3. CASE /\ Exists(call[q].id)
               /\ call' = [call EXCEPT ![q] =
                             [@ EXCEPT !.pc = "write", !.now = clock]]
      <4>1. /\ call'[q].pc = "write"
            /\ call'[q].now = clock
            /\ call'[q].op = "priority"
            /\ call'[q].answer = call[q].answer
            /\ call[q].answer # "claim_failed"
            /\ call'[q].id = call[q].id
            /\ call'[q].arg = call[q].arg
            /\ call'[q].actor = call[q].actor
        BY <2>11, <3>3 DEF PriorityRead, At, CallInv, Call
      <4>2. rows[call[q].id].createdAt <= clock
        BY <3>3 DEF Exists, RowOK
      <4> QED
        BY <3>1, <3>3, <4>1, <4>2 DEF CallInv, At, OnLogged, Exists, Current
    <3> QED
      BY <2>11, <3>2, <3>3 DEF PriorityRead
  <2>12. CASE PriorityWrite(q)
    <3>1. Exists(call[q].id)
      BY <2>12 DEF PriorityWrite, At, CallInv, OnLogged
    <3> QED
      BY <1>4, <2>12, <3>1 DEF PriorityWrite, At, CallInv, LogGrows, Exists
  <2>13. CASE ReadBack(q)
    <3>1. /\ call'[q].pc = "answered"
          /\ call'[q].answer = "ok"
          /\ call'[q].op = call[q].op
          /\ call'[q].id = call[q].id
          /\ call'[q].actor = call[q].actor
          /\ call'[q].now = 0
      BY <2>13 DEF ReadBack, Reply, Replied, Call
    <3> QED
      BY <2>13, <3>1 DEF ReadBack, CallInv, At, OnLogged, Exists
  <2>14. CASE Finish(q)
    BY <2>14 DEF Finish, Idle, CallInv, At
  <2> QED
    BY <1>5, <2>1, <2>2, <2>3, <2>4, <2>5, <2>6, <2>7, <2>8, <2>9, <2>10,
       <2>11, <2>12, <2>13, <2>14 DEF Serve
<1>6. ASSUME NEW p \in Procs, Abort(p) PROVE CallInv(q)'
  <2>1. CASE q = p
    BY <1>3, <1>6, <2>1 DEF Abort, Reply, CallInv
  <2>2. CASE q # p
    BY <1>1, <1>6, <2>2 DEF Abort, Reply
  <2> QED
    BY <2>1, <2>2
<1>7. ASSUME NEW u \in Users, DeleteUser(u) PROVE CallInv(q)'
  BY <1>1, <1>7 DEF DeleteUser
<1>8. CASE Tick
  BY <1>1, <1>8 DEF Tick
<1>9. CASE UNCHANGED vars
  BY <1>1, <1>9 DEF vars
<1> QED
  BY <1>2, <1>5, <1>6, <1>7, <1>8, <1>9 DEF Next

-----------------------------------------------------------------------------
(* The invariant.                                                          *)

LEMMA InvInit == Init => IInv
<1> SUFFICES ASSUME Init PROVE IInv
  OBVIOUS
<1>1. TypeOK
  <2>1. NoRow \in Row
    BY ConstantsAssumption DEF NoRow, Row
  <2> QED
    BY <2>1, IdleType DEF Init, TypeOK
<1>2. ASSUME NEW i \in Ids PROVE RowInv(i)
  BY <1>2, ConstantsAssumption
  DEF Init, RowInv, RowOK, NoRow, IsTerminal, TerminalStatuses, Completed,
      Cancelled
<1>3. ASSUME NEW p \in Procs PROVE CallInv(p)
  BY <1>3 DEF Init, CallInv, At, Idle
<1> QED
  BY <1>1, <1>2, <1>3 DEF IInv

LEMMA InvStep == IInv /\ [Next]_vars => IInv'
  BY TypeStep, RowStep, CallStep DEF IInv

LEMMA InvAlways == Spec => []IInv
  BY InvInit, InvStep, PTL DEF Spec

\* Type correctness of the repair service.
THEOREM TypesHold == Spec => []TypeOK
<1>1. IInv => TypeOK
  BY DEF IInv
<1> QED
  BY <1>1, InvAlways, PTL

\* However transitions interleave, closed_at is set exactly on the requests
\* whose status is terminal (Transition, repair.go).
THEOREM ClosedStampAlwaysMatches == Spec => []ClosedStampMatchesStatus
<1>1. IInv => ClosedStampMatchesStatus
  BY DEF IInv, RowInv, RowOK, ClosedStampMatchesStatus
<1> QED
  BY <1>1, InvAlways, PTL

\* No interleaving of Claim, TakeOver and Transition puts a request to work
\* or in anybody's hands without a Claim (repair.go, states.go).
THEOREM OwnershipAlwaysStartsWithClaim == Spec => []OwnershipStartsWithClaim
<1>1. IInv => OwnershipStartsWithClaim
  BY DEF IInv, RowInv, RowOK, OwnershipStartsWithClaim
<1> QED
  BY <1>1, InvAlways, PTL

\* Deleting accounts under running handlers leaves no request referring to
\* an account that is gone (0001_init.sql).
THEOREM AccountsNeverDangle == Spec => []NoDanglingAccounts
<1>1. IInv => NoDanglingAccounts
  BY DEF IInv, RowInv, RowOK, NoDanglingAccounts
<1> QED
  BY <1>1, InvAlways, PTL

\* A Claim answered with success names the one claimant there will ever be
\* (Claim, repair.go).
THEOREM ClaimAnswersAreTrue == Spec => []ClaimAnswerIsTrue
<1>1. IInv => ClaimAnswerIsTrue
  BY DEF IInv, CallInv, ClaimAnswerIsTrue
<1> QED
  BY <1>1, InvAlways, PTL

\* A Claim that fails fails for good: no later transition, of however many
\* that overlap, puts the request back to where it could be claimed (Claim
\* and Transition, repair.go).
THEOREM ClaimFailuresAreFinal == Spec => []ClaimFailureIsFinal
<1>1. IInv => ClaimFailureIsFinal
  BY DEF IInv, CallInv, OnLogged, PastClaim, ClaimFailureIsFinal
<1> QED
  BY <1>1, InvAlways, PTL

\* The stamps of a request are in order although handlers store seconds they
\* read before they waited for the database.
THEOREM StampsAlwaysInOrder == Spec => []StampsInOrder
<1>1. ASSUME IInv, NEW i \in Ids
      PROVE  {rows[i].createdAt, rows[i].updatedAt, rows[i].closedAt}
               \subseteq (0..clock) \cup {Null}
  <2>1. rows[i] \in Row /\ clock \in Nat /\ RowOK(rows[i], claimant[i], users, clock)
    BY <1>1 DEF IInv, TypeOK, RowInv
  <2> QED
    BY <2>1 DEF Row, RowOK
<1>2. IInv => StampsInOrder
  BY <1>1 DEF IInv, RowInv, RowOK, StampsInOrder
<1> QED
  BY <1>2, InvAlways, PTL

-----------------------------------------------------------------------------
(* The service implements the concurrent ledger.                           *)

\* What the ledger shows of a row r whose claimant is c.
Shown(r, c) == [status |-> r.status, owner |-> r.owner, claimant |-> c,
                filed |-> Filed(r)]

\* A statement that writes one row changes one entry of the ledger.
LEMMA OneEntry ==
  ASSUME rows \in [Ids -> Row], NEW i \in Ids, NEW r, NEW c,
         rows' = [rows EXCEPT ![i] = r],
         claimant \in [Ids -> Users \cup {Null}],
         claimant' = [claimant EXCEPT ![i] = c]
  PROVE  LedgerView' = [LedgerView EXCEPT ![i] = Shown(r, c)]
<1>1. LedgerView = [j \in Ids |-> Shown(rows[j], claimant[j])]
  BY DEF LedgerView, Shown
<1>2. LedgerView' = [j \in Ids |-> Shown(rows'[j], claimant'[j])]
  BY DEF LedgerView, Shown
<1> QED
  BY <1>1, <1>2

LEMMA LedgerStart == Init => Concurrent!LedgerInit
<1> SUFFICES ASSUME Init PROVE Concurrent!LedgerInit
  OBVIOUS
<1>1. LedgerView = [i \in Ids |-> Concurrent!Blank]
  BY DEF Init, NoRow, LedgerView, Filed, Concurrent!Blank
<1> QED
  BY <1>1 DEF Init, Concurrent!LedgerInit

\* Every step of the service is a step of the ledger or leaves it alone.
LEMMA LedgerStep ==
  IInv /\ [Next]_vars => [Concurrent!LedgerNext]_(Concurrent!ledgerVars)
<1> SUFFICES ASSUME IInv, [Next]_vars
             PROVE  [Concurrent!LedgerNext]_(Concurrent!ledgerVars)
  OBVIOUS
<1> /\ rows \in [Ids -> Row]
    /\ claimant \in [Ids -> Users \cup {Null}]
    /\ users \in SUBSET Users
    /\ call \in [Procs -> Call]
    /\ \A i \in Ids : RowOK(rows[i], claimant[i], users, clock)
    /\ \A p \in Procs : CallInv(p)
  BY DEF IInv, TypeOK, RowInv
<1> DEFINE Goal == [Concurrent!LedgerNext]_(Concurrent!ledgerVars)
<1>1. ASSUME UNCHANGED <<rows, users, claimant>> PROVE Goal
  BY <1>1 DEF Concurrent!ledgerVars, LedgerView
<1>2. ASSUME NEW p \in Procs, Arrive(p) PROVE Goal
  BY <1>1, <1>2
  DEF Arrive, CreateBegin, CreateRefuse, ClaimBegin, TakeOverBegin,
      TransitionBegin, TransitionRefuse, PriorityBegin, PriorityRefuse,
      Enter, Refuse
<1>3. ASSUME NEW p \in Procs, Serve(p) PROVE Goal
  <2>1. CASE CreateInsert(p)
    <3>1. PICK i \in Ids :
            /\ ~Exists(i)
            /\ rows' = [rows EXCEPT ![i] =
                          LoggedRow(call[p].actor, call[p].arg, call[p].now)]
      BY <2>1 DEF CreateInsert
    <3>2. rows[i].status = "absent" /\ claimant[i] = Null
      BY <3>1 DEF Exists, RowOK
    <3>3. rows[i].owner = Null /\ rows[i].closedAt = Null
      BY <3>2 DEF RowOK, IsTerminal, TerminalStatuses, Completed, Cancelled
    <3>4. claimant' = [claimant EXCEPT ![i] = Null]
      BY <2>1, <3>2 DEF CreateInsert
    <3>5. LedgerView' = [LedgerView EXCEPT ![i] =
            Shown(LoggedRow(call[p].actor, call[p].arg, call[p].now), Null)]
      BY <3>1, <3>4, OneEntry
    <3>6. LedgerView[i] = Concurrent!Blank
      BY <3>2, <3>3 DEF LedgerView, Filed, Concurrent!Blank
    <3>7. Shown(LoggedRow(call[p].actor, call[p].arg, call[p].now), Null)
            = [Concurrent!Blank EXCEPT !.status = Concurrent!Received]
      BY DEF Shown, LoggedRow, Filed, Received, Concurrent!Blank,
             Concurrent!Received
    <3>8. Concurrent!Log(i)
      BY <2>1, <3>5, <3>6, <3>7 DEF CreateInsert, Concurrent!Log
    <3> QED
      BY <3>8 DEF Concurrent!LedgerNext
  <2>2. CASE ClaimUpdate(p)
    <3> DEFINE i == call[p].id
               u == call[p].actor
    <3>1. /\ i \in Ids
          /\ u \in users
          /\ rows[i] \in Row
          /\ rows[i].status = Received
          /\ claimant[i] = Null
          /\ rows[i].closedAt = Null
      BY <2>2
      DEF ClaimUpdate, ClaimMatches, Exists, ForeignKeyHolds, RowOK,
          IsTerminal, TerminalStatuses, Received, Completed, Cancelled
    <3>2. LedgerView' = [LedgerView EXCEPT ![i] =
                          Shown(ClaimedRow(rows[i], u, call[p].now), u)]
      BY <2>2, <3>1, OneEntry DEF ClaimUpdate
    <3>3. Shown(ClaimedRow(rows[i], u, call[p].now), u)
            = [status |-> Concurrent!InRepair, owner |-> u, claimant |-> u,
               filed |-> "open"]
      BY <3>1 DEF Shown, ClaimedRow, Filed, Row, InRepair, Concurrent!InRepair
    <3>4. /\ LedgerView[i].status = Concurrent!Received
          /\ LedgerView[i].claimant = Null
      BY <3>1 DEF LedgerView, Received, Concurrent!Received
    <3>5. Concurrent!Claim(i, u)
      BY <2>2, <3>1, <3>2, <3>3, <3>4 DEF ClaimUpdate, Concurrent!Claim
    <3> QED
      BY <3>1, <3>5 DEF Concurrent!LedgerNext
  <2>3. CASE TakeOverUpdate(p)
    <3> DEFINE i == call[p].id
               u == call[p].actor
    <3>1. /\ i \in Ids
          /\ u \in users
          /\ rows[i] \in Row
          /\ rows[i].status \in {InRepair, AwaitingParts}
      BY <2>3 DEF TakeOverUpdate, TakeOverMatches, Exists, ForeignKeyHolds
    <3>2. claimant' = [claimant EXCEPT ![i] = claimant[i]]
      BY <2>3 DEF TakeOverUpdate
    <3>3. LedgerView' = [LedgerView EXCEPT ![i] =
                          Shown(TakenRow(rows[i], u, call[p].now), claimant[i])]
      BY <2>3, <3>1, <3>2, OneEntry DEF TakeOverUpdate
    <3>4. Shown(TakenRow(rows[i], u, call[p].now), claimant[i])
            = [LedgerView[i] EXCEPT !.owner = u]
      BY <3>1 DEF Shown, TakenRow, Filed, Row, LedgerView
    <3>5. LedgerView[i].status
            \in {Concurrent!InRepair, Concurrent!AwaitingParts}
      BY <3>1
      DEF LedgerView, InRepair, AwaitingParts, Concurrent!InRepair,
          Concurrent!AwaitingParts
    <3>6. Concurrent!TakeOver(i, u)
      BY <2>3, <3>1, <3>3, <3>4, <3>5 DEF TakeOverUpdate, Concurrent!TakeOver
    <3> QED
      BY <3>1, <3>6 DEF Concurrent!LedgerNext
  <2>4. CASE TransitionWrite(p)
    <3> DEFINE i  == call[p].id
               to == call[p].arg
    <3>1. /\ i \in Ids
          /\ rows[i] \in Row
          /\ rows[i].status \in Statuses
          /\ to \in Statuses \ {Received}
          /\ to # Cancelled => claimant[i] # Null
          /\ call[p].now \in Nat
      BY <2>4 DEF TransitionWrite, At, CallInv, OnLogged, Exists, Row, Call
    <3>2. claimant' = [claimant EXCEPT ![i] = claimant[i]]
      BY <2>4 DEF TransitionWrite
    <3>3. LedgerView' = [LedgerView EXCEPT ![i] =
                          Shown(MovedRow(rows[i], to, call[p].now), claimant[i])]
      BY <2>4, <3>1, <3>2, OneEntry DEF TransitionWrite
    <3>4. Shown(MovedRow(rows[i], to, call[p].now), claimant[i])
            = [status |-> to, owner |-> LedgerView[i].owner,
               claimant |-> LedgerView[i].claimant,
               filed |-> Concurrent!File(to)]
      <4>1. Filed(MovedRow(rows[i], to, call[p].now)) = Concurrent!File(to)
        BY <3>1, ConstantsAssumption
        DEF Filed, MovedRow, Row, IsTerminal, TerminalStatuses, Completed,
            Cancelled, Concurrent!File, Concurrent!IsTerminal,
            Concurrent!TerminalStatuses, Concurrent!Completed,
            Concurrent!Cancelled
      <4>2. /\ MovedRow(rows[i], to, call[p].now).status = to
            /\ MovedRow(rows[i], to, call[p].now).owner = rows[i].owner
        BY <3>1 DEF MovedRow, Row
      <4> QED
        BY <3>1, <4>1, <4>2 DEF Shown, LedgerView
    <3>5. <<LedgerView[i].status, to>> \in ConcurrentEdges
      <4>1. LedgerView[i].status = rows[i].status
        BY <3>1 DEF LedgerView
      <4>2. rows[i].status = Received => to = Cancelled
        BY <3>1 DEF RowOK
      <4> QED
        BY <3>1, <4>1, <4>2 DEF ConcurrentEdges
    <3>6. to \in Concurrent!Statuses
      BY <3>1
      DEF Statuses, Received, InRepair, AwaitingParts, Completed, Cancelled,
          Concurrent!Statuses, Concurrent!Received, Concurrent!InRepair,
          Concurrent!AwaitingParts, Concurrent!Completed,
          Concurrent!Cancelled
    <3>7. Concurrent!Move(i, to)
      BY <2>4, <3>3, <3>4, <3>5 DEF TransitionWrite, Concurrent!Move
    <3> QED
      BY <3>1, <3>6, <3>7 DEF Concurrent!LedgerNext
  <2>5. CASE PriorityWrite(p)
    <3> DEFINE i == call[p].id
    <3>1. /\ i \in Ids
          /\ rows[i] \in Row
      BY <2>5 DEF PriorityWrite, At, CallInv, OnLogged, Exists
    <3>2. claimant' = [claimant EXCEPT ![i] = claimant[i]]
      BY <2>5 DEF PriorityWrite
    <3>3. LedgerView' = [LedgerView EXCEPT ![i] =
            Shown(ReprioritisedRow(rows[i], call[p].arg, call[p].now),
                  claimant[i])]
      BY <2>5, <3>1, <3>2, OneEntry DEF PriorityWrite
    <3>4. Shown(ReprioritisedRow(rows[i], call[p].arg, call[p].now),
                claimant[i]) = LedgerView[i]
      BY <3>1 DEF Shown, ReprioritisedRow, Filed, Row, LedgerView
    <3>5. LedgerView' = LedgerView
      BY <3>1, <3>3, <3>4 DEF LedgerView
    <3> QED
      BY <2>5, <3>5 DEF PriorityWrite, Concurrent!ledgerVars
  <2>6. CASE \/ CreateForeignKeyError(p) \/ UpdateForeignKeyError(p)
             \/ UpdateMissed(p) \/ MissedRead(p) \/ TransitionRead(p)
             \/ PriorityRead(p) \/ ReadBack(p) \/ Finish(p)
    BY <1>1, <2>6
    DEF CreateForeignKeyError, UpdateForeignKeyError, UpdateMissed,
        MissedRead, TransitionRead, PriorityRead, ReadBack, Finish
  <2> QED
    BY <1>3, <2>1, <2>2, <2>3, <2>4, <2>5, <2>6 DEF Serve
<1>4. ASSUME NEW p \in Procs, Abort(p) PROVE Goal
  BY <1>1, <1>4 DEF Abort
<1>5. ASSUME NEW u \in Users, DeleteUser(u) PROVE Goal
  <2>1. ASSUME NEW i \in Ids
        PROVE  LedgerView'[i] = IF LedgerView[i].owner = u
                                  THEN [LedgerView[i] EXCEPT !.owner = Null]
                                  ELSE LedgerView[i]
    <3>1. /\ rows[i] \in Row
          /\ rows'[i] = [rows[i] EXCEPT !.owner = IF @ = u THEN Null ELSE @,
                                        !.createdBy = IF @ = u THEN Null ELSE @]
          /\ claimant'[i] = claimant[i]
      BY <1>5 DEF DeleteUser
    <3>2. /\ rows'[i].status = rows[i].status
          /\ rows'[i].owner = IF rows[i].owner = u THEN Null ELSE rows[i].owner
          /\ rows'[i].closedAt = rows[i].closedAt
      BY <3>1 DEF Row
    <3>3. /\ LedgerView'[i] = Shown(rows'[i], claimant'[i])
          /\ LedgerView[i] = Shown(rows[i], claimant[i])
      BY DEF LedgerView, Shown
    <3> QED
      BY <3>1, <3>2, <3>3 DEF Shown, Filed
  <2>2. LedgerView' = [i \in Ids |->
                         IF LedgerView[i].owner = u
                           THEN [LedgerView[i] EXCEPT !.owner = Null]
                           ELSE LedgerView[i]]
    BY <2>1 DEF LedgerView
  <2>3. Concurrent!Leave(u)
    BY <1>5, <2>2 DEF DeleteUser, Concurrent!Leave
  <2> QED
    BY <2>3 DEF Concurrent!LedgerNext
<1>6. CASE Tick
  BY <1>1, <1>6 DEF Tick
<1>7. CASE UNCHANGED vars
  BY <1>1, <1>7 DEF vars
<1> QED
  BY <1>2, <1>3, <1>4, <1>5, <1>6, <1>7 DEF Next

\* The repair service, with any number of handlers interleaving, implements
\* the ledger: first claim wins, ownership is pulled or lost with the
\* account, and no request is ever received again.
THEOREM ServiceImplementsLedger == Spec => ImplementsConcurrentLedger
  BY LedgerStart, LedgerStep, InvAlways, PTL
  DEF Spec, ImplementsConcurrentLedger, Concurrent!LedgerSpec

=============================================================================
