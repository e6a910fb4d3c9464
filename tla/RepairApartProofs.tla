--------------------------- MODULE RepairApartProofs ---------------------------
(***************************************************************************)
(* Theorems about RepairApart: what Transition's check is worth while the  *)
(* transitions of a request keep apart, for any number of goroutines,      *)
(* accounts and requests.                                                  *)
(*                                                                         *)
(* The ledger that overlapping handlers implement differs from the strict  *)
(* one in its moves only, so it is enough to know that a move is made by   *)
(* TransitionWrite and is legal from where the request stands (Decided).   *)
(* The one statement that still moves a request which another handler is   *)
(* about to write is a Claim, and that handler is then about to cancel it, *)
(* which a claim does not make illegal.                                    *)
(***************************************************************************)
EXTENDS RepairApart, RepairRequestsProofs

\* A transition about to be written is one that Transition would allow now.
Decided(p) ==
  At(p, "write", "transition") =>
    Objection(rows[call[p].id].status, call[p].arg) = "none"

Held == Apart /\ \A p \in Procs : Decided(p)

ApartInv == apart => Held

LEMMA ApartInvInit == ApartInit => ApartInv
  BY DEF ApartInit, Init, ApartInv, Held, Apart, Decided, At, Idle

-----------------------------------------------------------------------------
(* Who changes the status of a request.                                    *)

SameStatuses == \A i \in Ids : rows'[i].status = rows[i].status

\* The statements that leave every status as it is.
LEMMA StatusKept ==
  ASSUME IInv,
         \/ \E p \in Procs :
              \/ Arrive(p) \/ Abort(p) \/ TakeOverUpdate(p) \/ PriorityWrite(p)
              \/ CreateForeignKeyError(p) \/ UpdateForeignKeyError(p)
              \/ UpdateMissed(p) \/ MissedRead(p) \/ TransitionRead(p)
              \/ PriorityRead(p) \/ ReadBack(p) \/ Finish(p)
         \/ \E u \in Users : DeleteUser(u)
         \/ Tick
  PROVE  SameStatuses
<1> rows \in [Ids -> Row]
  BY DEF IInv, TypeOK
<1>1. CASE UNCHANGED rows
  BY <1>1 DEF SameStatuses
<1>2. ASSUME NEW p \in Procs, TakeOverUpdate(p) PROVE SameStatuses
  BY <1>2 DEF TakeOverUpdate, TakenRow, Row, SameStatuses
<1>3. ASSUME NEW p \in Procs, PriorityWrite(p) PROVE SameStatuses
  BY <1>3 DEF PriorityWrite, ReprioritisedRow, Row, SameStatuses
<1>4. ASSUME NEW u \in Users, DeleteUser(u) PROVE SameStatuses
  BY <1>4 DEF DeleteUser, Row, SameStatuses
<1>5. ASSUME NEW p \in Procs, Arrive(p) PROVE UNCHANGED rows
  BY <1>5 DEF Arrive, CreateBegin, CreateRefuse, ClaimBegin, TakeOverBegin,
              TransitionBegin, TransitionRefuse, PriorityBegin, PriorityRefuse,
              Enter, Refuse
<1>6. ASSUME NEW p \in Procs,
             \/ Abort(p) \/ CreateForeignKeyError(p) \/ UpdateForeignKeyError(p)
             \/ UpdateMissed(p) \/ MissedRead(p) \/ TransitionRead(p)
             \/ PriorityRead(p) \/ ReadBack(p) \/ Finish(p)
      PROVE  UNCHANGED rows
  BY <1>6 DEF Abort, CreateForeignKeyError, UpdateForeignKeyError,
              UpdateMissed, MissedRead, TransitionRead, PriorityRead, ReadBack,
              Finish
<1>7. Tick => UNCHANGED rows
  BY DEF Tick
<1> QED
  BY <1>1, <1>2, <1>3, <1>4, <1>5, <1>6, <1>7

\* A request that is logged changes status by a claim or by a transition.
LEMMA StatusMoves ==
  ASSUME IInv, [Next]_vars, NEW i \in Ids, rows[i].status # "absent",
         rows'[i].status # rows[i].status
  PROVE  \/ rows[i].status = Received /\ rows'[i].status = InRepair
         \/ \E p \in Procs : /\ At(p, "write", "transition")
                             /\ call[p].id = i
                             /\ call[p].arg = rows'[i].status
                             /\ call'[p].pc = "readback"
<1> rows \in [Ids -> Row] /\ call \in [Procs -> Call]
  BY DEF IInv, TypeOK
<1> DEFINE Goal == \/ rows[i].status = Received /\ rows'[i].status = InRepair
                   \/ \E p \in Procs : /\ At(p, "write", "transition")
                                       /\ call[p].id = i
                                       /\ call[p].arg = rows'[i].status
                                       /\ call'[p].pc = "readback"
<1>1. ~SameStatuses
  BY DEF SameStatuses
<1>2. ASSUME NEW p \in Procs, Serve(p) PROVE Goal
  <2>1. CASE CreateInsert(p)
    BY <2>1 DEF CreateInsert, Exists
  <2>2. CASE ClaimUpdate(p)
    <3>1. /\ rows' = [rows EXCEPT ![call[p].id] =
                        ClaimedRow(@, call[p].actor, call[p].now)]
          /\ ClaimMatches(call[p].id)
      BY <2>2 DEF ClaimUpdate
    <3>2. call[p].id = i
      BY <3>1
    <3> QED
      BY <3>1, <3>2 DEF ClaimMatches, ClaimedRow, Row
  <2>3. CASE TransitionWrite(p)
    <3>1. /\ At(p, "write", "transition")
          /\ rows' = [rows EXCEPT ![call[p].id] =
                        MovedRow(@, call[p].arg, call[p].now)]
          /\ call' = [call EXCEPT ![p] = ReadingBack(p, call[p].id)]
      BY <2>3 DEF TransitionWrite
    <3>2. call[p].id = i
      BY <3>1
    <3>3. rows'[i].status = call[p].arg
      BY <3>1, <3>2 DEF MovedRow, Row
    <3>4. call'[p].pc = "readback"
      BY <3>1 DEF ReadingBack, Call
    <3> QED
      BY <3>1, <3>2, <3>3, <3>4
  <2> QED
    BY <1>1, <1>2, <2>1, <2>2, <2>3, StatusKept DEF Serve
<1>3. CASE UNCHANGED vars
  BY <1>1, <1>3 DEF vars, SameStatuses
<1> QED
  BY <1>1, <1>2, <1>3, StatusKept DEF Next

-----------------------------------------------------------------------------
(* The invariant.                                                          *)

\* TransitionRead decides on the status it saw.
LEMMA ReadDecides ==
  ASSUME IInv, NEW p \in Procs, TransitionRead(p) PROVE Decided(p)'
<1> call \in [Procs -> Call] /\ call[p] \in Call
  BY DEF IInv, TypeOK
<1>1. UNCHANGED rows
  BY DEF TransitionRead
<1>2. ASSUME NEW a, Reply(p, a) PROVE Decided(p)'
  BY <1>2 DEF Reply, Replied, Call, Decided, At
<1>3. ASSUME call' = [call EXCEPT ![p] =
                        [@ EXCEPT !.pc = "write", !.now = clock]],
             Objection(rows[call[p].id].status, call[p].arg) = "none"
      PROVE  Decided(p)'
  <2>1. call'[p].id = call[p].id /\ call'[p].arg = call[p].arg
    BY <1>3 DEF Call
  <2> QED
    BY <1>1, <1>3, <2>1 DEF Decided
<1> QED
  BY <1>2, <1>3 DEF TransitionRead

\* No other step of p leaves it about to write a transition.
LEMMA OthersDoNotWrite ==
  ASSUME IInv, NEW p \in Procs, Arrive(p) \/ Serve(p) \/ Abort(p)
  PROVE  /\ Decided(p)'
         /\ \A q \in Procs \ {p} : call'[q] = call[q]
<1> call \in [Procs -> Call] /\ call[p] \in Call
  BY DEF IInv, TypeOK
<1>1. ASSUME NEW a, Reply(p, a) PROVE Decided(p)'
  BY <1>1 DEF Reply, Replied, Call, Decided, At
<1>2. ASSUME NEW i, call' = [call EXCEPT ![p] = ReadingBack(p, i)]
      PROVE  Decided(p)'
  BY <1>2 DEF ReadingBack, Call, Decided, At
<1>3. Arrive(p) => Decided(p)'
  <2>1. ASSUME NEW op, NEW pc \in Pcs \ {"write"}, NEW i, NEW u, NEW arg,
               NEW now, Enter(p, op, pc, i, u, arg, now)
        PROVE  Decided(p)'
    <3>1. call'[p].pc = pc
      BY <2>1 DEF Enter, Idle
    <3> QED
      BY <3>1 DEF Decided, At
  <2>2. ASSUME NEW op, NEW i, NEW u, NEW why, Refuse(p, op, i, u, why)
        PROVE  Decided(p)'
    <3>1. call'[p].pc = "answered"
      BY <2>2 DEF Refuse, Idle
    <3> QED
      BY <3>1 DEF Decided, At
  <2> QED
    BY <2>1, <2>2
    DEF Arrive, CreateBegin, CreateRefuse, ClaimBegin, TakeOverBegin,
        TransitionBegin, TransitionRefuse, PriorityBegin, PriorityRefuse, Pcs
<1>4. ASSUME UpdateMissed(p) \/ PriorityRead(p) \/ Finish(p)
      PROVE  Decided(p)'
  <2>1. CASE UpdateMissed(p)
    BY <2>1 DEF UpdateMissed, Call, Decided, At
  <2>2. CASE PriorityRead(p)
    <3>1. CASE Reply(p, "not_found")
      BY <1>1, <3>1
    <3>2. CASE call' = [call EXCEPT ![p] = [@ EXCEPT !.pc = "write",
                                                     !.now = clock]]
      BY <2>2, <3>2 DEF PriorityRead, Call, Decided, At
    <3> QED
      BY <2>2, <3>1, <3>2 DEF PriorityRead
  <2>3. CASE Finish(p)
    BY <2>3 DEF Finish, Idle, Decided, At
  <2> QED
    BY <1>4, <2>1, <2>2, <2>3
<1>5. ASSUME \/ CreateInsert(p) \/ ClaimUpdate(p) \/ TakeOverUpdate(p)
             \/ TransitionWrite(p) \/ PriorityWrite(p)
      PROVE  Decided(p)'
  BY <1>2, <1>5 DEF CreateInsert, ClaimUpdate, TakeOverUpdate, TransitionWrite,
              PriorityWrite
<1>6. ASSUME \/ CreateForeignKeyError(p) \/ UpdateForeignKeyError(p)
             \/ MissedRead(p) \/ ReadBack(p) \/ Abort(p)
      PROVE  Decided(p)'
  BY <1>1, <1>6 DEF CreateForeignKeyError, UpdateForeignKeyError, MissedRead,
              ReadBack, Abort
<1>7. Decided(p)'
  BY <1>3, <1>4, <1>5, <1>6, ReadDecides DEF Serve
<1>8. \A q \in Procs \ {p} : call'[q] = call[q]
  BY DEF Arrive, CreateBegin, CreateRefuse, ClaimBegin, TakeOverBegin,
         TransitionBegin, TransitionRefuse, PriorityBegin, PriorityRefuse,
         Enter, Refuse, Serve, CreateInsert, CreateForeignKeyError,
         ClaimUpdate, TakeOverUpdate, UpdateForeignKeyError, UpdateMissed,
         MissedRead, TransitionRead, TransitionWrite, PriorityRead,
         PriorityWrite, ReadBack, Finish, Abort, Reply
<1> QED
  BY <1>7, <1>8

\* What was unobjectionable before a claim is so after it: only a
\* cancellation was.
LEMMA ClaimDoesNotObject ==
  ASSUME NEW to, Objection(Received, to) = "none"
  PROVE  Objection(InRepair, to) = "none"
BY DEF Objection, IsClaimEdge, CanTransition, Transitions, Statuses,
       IsTerminal, TerminalStatuses, Received, InRepair, AwaitingParts,
       Completed, Cancelled

\* A handler that does not move keeps what it decided, whoever moves.
LEMMA BystanderDecided ==
  ASSUME IInv, Held, [Next]_vars, NEW q \in Procs, call'[q] = call[q]
  PROVE  Decided(q)'
<1> SUFFICES ASSUME At(q, "write", "transition")
             PROVE  Objection(rows'[call[q].id].status, call[q].arg) = "none"
  BY DEF Decided, At
<1> DEFINE i == call[q].id
<1>1. i \in Ids /\ rows[i].status # "absent"
  BY DEF IInv, CallInv, OnLogged, Exists, At
<1>2. Objection(rows[i].status, call[q].arg) = "none"
  BY DEF Held, Decided
<1>3. CASE rows'[i].status = rows[i].status
  BY <1>2, <1>3
<1>4. CASE rows[i].status = Received /\ rows'[i].status = InRepair
  BY <1>2, <1>4, ClaimDoesNotObject
<1>5. ASSUME NEW p \in Procs, At(p, "write", "transition"),
             call[p].id = i, call'[p].pc = "readback"
      PROVE  FALSE
  <2>1. p = q
    BY <1>5 DEF Held, Apart
  <2> QED
    BY <1>5, <2>1 DEF At
<1> QED
  BY <1>1, <1>3, <1>4, <1>5, StatusMoves

LEMMA HeldStep ==
  ASSUME IInv, Held, Apart', [Next]_vars
  PROVE  Held'
<1>1. ASSUME NEW p \in Procs, Arrive(p) \/ Serve(p) \/ Abort(p)
      PROVE  \A q \in Procs : Decided(q)'
  BY <1>1, OthersDoNotWrite, BystanderDecided
<1>2. ASSUME UNCHANGED call PROVE \A q \in Procs : Decided(q)'
  BY <1>2, BystanderDecided
<1> QED
  BY <1>1, <1>2 DEF Next, vars, DeleteUser, Tick, Held

LEMMA ApartIsASpec == ApartSpec => Spec
<1>1. ApartInit => Init
  BY DEF ApartInit
<1>2. [ApartNext]_apartVars => [Next]_vars
  BY DEF ApartNext, apartVars
<1> QED
  BY <1>1, <1>2, PTL DEF ApartSpec, Spec

LEMMA ApartInvStep == IInv /\ ApartInv /\ [ApartNext]_apartVars => ApartInv'
<1> SUFFICES ASSUME IInv, ApartInv, [ApartNext]_apartVars, apart'
             PROVE  Held'
  BY DEF ApartInv
<1>1. apart /\ [Next]_vars /\ Held
  BY DEF ApartNext, apartVars, ApartInv
<1>2. Apart'
  BY <1>1 DEF ApartNext, apartVars, vars, Held, Apart, At
<1> QED
  BY <1>1, <1>2, HeldStep

LEMMA ApartInvAlways == ApartSpec => [](IInv /\ ApartInv)
<1>1. ApartSpec => []IInv
  BY ApartIsASpec, InvAlways, PTL
<1> QED
  BY <1>1, ApartInvInit, ApartInvStep, PTL DEF ApartSpec

-----------------------------------------------------------------------------
(* The theorems.                                                           *)

\* A status that changes under Held changes by the claim or along states.go.
LEMMA LegalMoves ==
  ASSUME IInv, Held, [Next]_vars, NEW i \in Ids,
         rows[i].status # "absent", rows'[i].status # rows[i].status
  PROVE  \/ rows[i].status = Received /\ rows'[i].status = InRepair
         \/ <<rows[i].status, rows'[i].status>> \in LegalEdges
<1>1. CASE rows[i].status = Received /\ rows'[i].status = InRepair
  BY <1>1
<1>2. ASSUME NEW p \in Procs, At(p, "write", "transition"),
             call[p].id = i, call[p].arg = rows'[i].status
      PROVE  <<rows[i].status, rows'[i].status>> \in LegalEdges
  <2>1. Objection(rows[i].status, rows'[i].status) = "none"
    BY <1>2 DEF Held, Decided
  <2>2. rows[i].status \in Statuses /\ rows'[i].status \in Statuses
    BY <1>2 DEF IInv, TypeOK, Row, CallInv
  <2> QED
    BY <2>1, <2>2, ObjectionFree
<1> QED
  BY <1>1, <1>2, StatusMoves

\* While the transitions of a request keep apart, a closed request keeps the
\* status it was closed with, whatever else comes in between (states.go:77).
THEOREM TerminalIsFinalApart == ApartSpec => ApartTerminalIsFinal
<1>1. ASSUME IInv, ApartInv, [ApartNext]_apartVars, apart, NEW i \in Ids,
             IsTerminal(rows[i].status)
      PROVE  rows'[i].status = rows[i].status
  <2>1. Held /\ [Next]_vars
    BY <1>1 DEF ApartInv, ApartNext, apartVars
  <2>2. rows[i].status # "absent" /\ rows[i].status # Received
    BY <1>1 DEF IsTerminal, TerminalStatuses, Completed, Cancelled, Received
  <2>3. \A to \in Statuses : <<rows[i].status, to>> \notin LegalEdges
    BY <1>1 DEF LegalEdges, CanTransition, IsTerminal, Transitions,
                TerminalStatuses, Statuses, Received, InRepair, AwaitingParts,
                Completed, Cancelled
  <2> QED
    BY <1>1, <2>1, <2>2, <2>3, LegalMoves DEF LegalEdges
<1>2. IInv /\ ApartInv /\ [ApartNext]_apartVars =>
        [apart => \A i \in Ids : IsTerminal(rows[i].status)
                    => rows'[i].status = rows[i].status]_apartVars
  BY <1>1
<1> QED
  BY <1>2, ApartInvAlways, PTL DEF ApartSpec, ApartTerminalIsFinal

LEMMA StrictStep ==
  ASSUME IInv, Held, [Next]_vars
  PROVE  [Strict!LedgerNext]_(Strict!ledgerVars)
<1> DEFINE Goal == [Strict!LedgerNext]_(Strict!ledgerVars)
<1>1. CASE UNCHANGED Concurrent!ledgerVars
  BY <1>1 DEF Concurrent!ledgerVars, Strict!ledgerVars
<1>2. ASSUME NEW i \in Ids, Concurrent!Log(i) PROVE Goal
  BY <1>2 DEF Concurrent!Log, Strict!Log, Concurrent!Blank, Strict!Blank,
              Concurrent!Received, Strict!Received, Strict!LedgerNext
<1>3. ASSUME NEW i \in Ids, NEW u \in Users, Concurrent!Claim(i, u)
      PROVE  Goal
  <2>1. Strict!Claim(i, u)
    BY <1>3 DEF Concurrent!Claim, Strict!Claim, Concurrent!Received,
                Strict!Received, Concurrent!InRepair, Strict!InRepair
  <2> QED
    BY <2>1 DEF Strict!LedgerNext
<1>4. ASSUME NEW i \in Ids, NEW u \in Users, Concurrent!TakeOver(i, u)
      PROVE  Goal
  <2>1. Strict!TakeOver(i, u)
    BY <1>4 DEF Concurrent!TakeOver, Strict!TakeOver, Concurrent!InRepair,
                Strict!InRepair, Concurrent!AwaitingParts, Strict!AwaitingParts
  <2> QED
    BY <2>1 DEF Strict!LedgerNext
<1>5. ASSUME NEW u \in Users, Concurrent!Leave(u) PROVE Goal
  BY <1>5 DEF Concurrent!Leave, Strict!Leave, Strict!LedgerNext
<1>6. ASSUME NEW i \in Ids, NEW to \in Concurrent!Statuses,
             Concurrent!Move(i, to)
      PROVE  Goal
  <2>1. /\ rows \in [Ids -> Row]
        /\ RowOK(rows[i], claimant[i], users, clock)
    BY DEF IInv, TypeOK, RowInv
  <2>2. /\ LedgerView[i].status = rows[i].status
        /\ LedgerView'[i].status = rows'[i].status
        /\ LedgerView[i] = Shown(rows[i], claimant[i])
    BY DEF LedgerView, Shown
  <2>3. /\ <<rows[i].status, to>> \in ConcurrentEdges
        /\ LedgerView' = [LedgerView EXCEPT ![i] =
             [status |-> to, owner |-> LedgerView[i].owner,
              claimant |-> LedgerView[i].claimant,
              filed |-> Concurrent!File(to)]]
        /\ UNCHANGED users
    BY <1>6, <2>2 DEF Concurrent!Move
  <2>4. rows'[i].status = to
    BY <2>2, <2>3 DEF LedgerView
  <2>5. CASE to = rows[i].status
    <3>1. Concurrent!File(to) = Filed(rows[i])
      BY <2>1, <2>5
      DEF RowOK, Filed, Concurrent!File, IsTerminal, TerminalStatuses,
          Completed, Cancelled, Concurrent!IsTerminal,
          Concurrent!TerminalStatuses, Concurrent!Completed,
          Concurrent!Cancelled
    <3>2. LedgerView' = LedgerView
      BY <2>2, <2>3, <2>5, <3>1 DEF LedgerView, Shown
    <3> QED
      BY <2>3, <3>2 DEF Strict!ledgerVars
  <2>6. CASE to # rows[i].status
    <3>1. rows[i].status \in Statuses /\ to \in Statuses
      BY <2>3 DEF ConcurrentEdges, Statuses
    <3>2. <<rows[i].status, to>> \in LegalEdges
      <4>1. rows[i].status # "absent"
        BY <3>1 DEF Statuses, Received, InRepair, AwaitingParts, Completed,
                    Cancelled
      <4>2. ~(rows[i].status = Received /\ to = InRepair)
        BY <2>3 DEF ConcurrentEdges, Received, InRepair, Cancelled
      <4> QED
        BY <2>4, <2>6, <4>1, <4>2, LegalMoves
    <3>3. Strict!Move(i, to)
      BY <2>2, <2>3, <3>2
      DEF Strict!Move, Strict!File, Concurrent!File, Strict!IsTerminal,
          Strict!TerminalStatuses, Strict!Completed, Strict!Cancelled,
          Concurrent!IsTerminal, Concurrent!TerminalStatuses,
          Concurrent!Completed, Concurrent!Cancelled
    <3>4. to \in Strict!Statuses
      BY <3>1 DEF Statuses, Received, InRepair, AwaitingParts, Completed,
                  Cancelled, Strict!Statuses, Strict!Received, Strict!InRepair,
                  Strict!AwaitingParts, Strict!Completed, Strict!Cancelled
    <3> QED
      BY <3>3, <3>4 DEF Strict!LedgerNext
  <2> QED
    BY <2>5, <2>6
<1> QED
  BY <1>1, <1>2, <1>3, <1>4, <1>5, <1>6, LedgerStep DEF Concurrent!LedgerNext

\* While the transitions of a request keep apart the service is the ledger with
\* exactly the moves of states.go: what Transition decided on is still legal
\* when it writes, with claims, take-overs, priorities and deleted accounts in
\* between (repair.go:224-243).
THEOREM ServiceImplementsStrictLedger ==
  ApartSpec => ApartImplementsStrictLedger
<1>1. ApartInit => Strict!LedgerInit
  <2>1. Init => LedgerView = [i \in Ids |-> Strict!Blank]
    BY DEF Init, NoRow, LedgerView, Filed, Strict!Blank
  <2> QED
    BY <2>1 DEF ApartInit, Init, Strict!LedgerInit
<1>2. IInv /\ ApartInv /\ [ApartNext]_apartVars =>
        [apart => Strict!LedgerNext]_(Strict!ledgerVars)
  <2> SUFFICES ASSUME IInv, ApartInv, [ApartNext]_apartVars, apart
               PROVE  [Strict!LedgerNext]_(Strict!ledgerVars)
    OBVIOUS
  <2>1. Held /\ [Next]_vars
    BY DEF ApartInv, ApartNext, apartVars
  <2> QED
    BY <2>1, StrictStep
<1> QED
  BY <1>1, <1>2, ApartInvAlways, PTL DEF ApartSpec, ApartImplementsStrictLedger

=============================================================================
