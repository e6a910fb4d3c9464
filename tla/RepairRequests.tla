--------------------------- MODULE RepairRequests ---------------------------
(***************************************************************************)
(* The repair.Service of internal/repair/repair.go, as its HTTP handlers   *)
(* run it: every handler is a goroutine of its own, and the only thing     *)
(* that serialises them is the database, which executes one SQL statement  *)
(* at a time (db.go opens the pool with a single connection).  No handler  *)
(* opens a transaction, so the handlers interleave between statements:     *)
(* an action here is one statement together with the Go code up to the     *)
(* next one.                                                               *)
(*                                                                         *)
(* A handler may also stop between two statements, because its client went *)
(* away (the request context is cancelled), the statement failed or the    *)
(* daemon died: Abort.  What it had written stays written.                 *)
(*                                                                         *)
(* Timestamps are Unix seconds read BEFORE the statement that stores them  *)
(* is granted the connection, so a handler carries the second it read in   *)
(* call[p].now and may store it later.                                     *)
(***************************************************************************)
EXTENDS Lifecycle, Naturals, FiniteSets

CONSTANTS Procs,       \* handler goroutines that may run at the same time
          Users,       \* account ids
          Ids,         \* ids a path can carry: of a request that is logged,
                       \* that is logged only while a call naming it is under
                       \* way, or never
          Priorities,  \* the accepted priorities
          MaxTime,     \* bound on the clock
          Null,        \* SQL NULL, and "no value" in a handler's locals
          NoId,        \* the id of a call that has none yet
          Unset        \* a priority the caller left empty

ASSUME ConstantsAssumption ==
  /\ MaxTime \in Nat
  /\ "normal" \in Priorities
  /\ Null \notin Users \cup Nat \cup Statuses
  /\ NoId \notin Ids
  /\ Unset \notin Priorities

VARIABLES rows,      \* table repair_requests, by id
          users,     \* ids in table users
          clock,     \* time.Now().Unix()
          call,      \* the handler each goroutine is executing
          claimant   \* history: whose Claim matched the row (not in the code)

vars == <<rows, users, clock, call, claimant>>

-----------------------------------------------------------------------------
(* Data.                                                                   *)

Row == [status    : Statuses \cup {"absent"},
        owner     : Users \cup {Null},      \* assigned_to
        createdBy : Users \cup {Null},
        priority  : Priorities,
        createdAt : Nat,
        updatedAt : Nat,
        closedAt  : Nat \cup {Null}]

NoRow == [status |-> "absent", owner |-> Null, createdBy |-> Null,
          priority |-> "normal", createdAt |-> 0, updatedAt |-> 0,
          closedAt |-> Null]

Ops == {"create", "claim", "take_over", "transition", "priority"}

Answers == {"ok", "not_found", "claim_failed", "not_ownable", "use_claim",
            "bad_transition", "validation", "invalid_status",
            "invalid_priority", "error"}

\* Where a handler stands: about to INSERT, to UPDATE at once, to re-read
\* after an UPDATE that matched nothing, to read first, to write what it
\* decided on that read, to read the row back, or answered.
Pcs == {"idle", "insert", "update", "missed", "read", "write", "readback",
        "answered"}

Call == [pc     : Pcs,
         op     : Ops \cup {"none"},
         id     : Ids \cup {NoId},
         actor  : Users \cup {Null},
         arg    : Statuses \cup Priorities \cup {Null},
         now    : Nat,
         found  : BOOLEAN,  \* history: a claim's request was logged before it
         answer : Answers \cup {"none"}]

Idle == [pc |-> "idle", op |-> "none", id |-> NoId, actor |-> Null,
         arg |-> Null, now |-> 0, found |-> FALSE,
         answer |-> "none"]

\* `SELECT ... WHERE r.id = ?` finds a row.
Exists(i) == i \in Ids /\ rows[i].status # "absent"

\* Variant: foreign_keys is OFF, as SQLite has it unless the DSN says so.
ForeignKeysOff(u) == u \in Users

\* The foreign keys of assigned_to and created_by accept this account.
ForeignKeyHolds(u) == u \in users

-----------------------------------------------------------------------------
(* How a handler starts and how it ends.                                   *)

\* The handler is entered by an authenticated account, with its inputs
\* checked, and goes to its first statement.
Enter(p, op, pc, i, u, arg, now) ==
  /\ call[p].pc = "idle"
  /\ u \in users
  /\ call' = [call EXCEPT ![p] =
                 [Idle EXCEPT !.pc = pc, !.op = op, !.id = i, !.actor = u,
                              !.arg = arg, !.now = now,
                              !.found = (op = "claim" /\ Exists(i))]]
  /\ UNCHANGED <<rows, users, clock, claimant>>

\* The handler refuses its inputs before it touches the database.
Refuse(p, op, i, u, why) ==
  /\ call[p].pc = "idle"
  /\ u \in users
  /\ call' = [call EXCEPT ![p] = [Idle EXCEPT !.pc = "answered", !.op = op,
                                    !.id = i, !.actor = u, !.answer = why]]
  /\ UNCHANGED <<rows, users, clock, claimant>>

\* p's call record once it has answered; the locals are gone.
Replied(p, a) ==
  [call[p] EXCEPT !.pc = "answered", !.arg = Null, !.now = 0,
                  !.found = IF a = "claim_failed" THEN @ ELSE FALSE,
                  !.answer = a]

Reply(p, a) == call' = [call EXCEPT ![p] = Replied(p, a)]

\* p's call record when its write is done and the row is to be read back.
ReadingBack(p, i) ==
  [call[p] EXCEPT !.pc = "readback", !.id = i, !.arg = Null, !.now = 0,
                  !.found = FALSE]

At(p, pc, op) == call[p].pc = pc /\ call[p].op = op

-----------------------------------------------------------------------------
(* Create.                                                                 *)

\* The bound on requests: an insert in flight has an id left to take.
RoomForOne ==
  Cardinality({p \in Procs : call[p].pc = "insert"})
    < Cardinality({i \in Ids : ~Exists(i)})

\* Variant: an empty priority is stored as it is.
NotDefaulted(prio) == prio

Defaulted(prio) == IF prio = Unset THEN "normal" ELSE prio

CreateBegin(p) ==
  /\ RoomForOne
  /\ \E u \in users, prio \in Priorities \cup {Unset} :
       Enter(p, "create", "insert", NoId, u, Defaulted(prio), clock)

\* An empty summary is refused first, then a priority outside the list.
CreateRefuse(p) ==
  \E u \in users, filled \in BOOLEAN :
    Refuse(p, "create", NoId, u,
           IF filled THEN "invalid_priority" ELSE "validation")

LoggedRow(u, prio, now) ==
  [status |-> Received, owner |-> Null, createdBy |-> u, priority |-> prio,
   createdAt |-> now, updatedAt |-> now, closedAt |-> Null]

CreateInsert(p) ==
  /\ At(p, "insert", "create")
  /\ ForeignKeyHolds(call[p].actor)
  /\ \E i \in Ids :
       /\ ~Exists(i)
       /\ rows' = [rows EXCEPT ![i] =
                     LoggedRow(call[p].actor, call[p].arg, call[p].now)]
       /\ call' = [call EXCEPT ![p] = ReadingBack(p, i)]
  /\ UNCHANGED <<users, clock, claimant>>

CreateForeignKeyError(p) ==
  /\ At(p, "insert", "create")
  /\ ~ForeignKeyHolds(call[p].actor)
  /\ Reply(p, "error")
  /\ UNCHANGED <<rows, users, clock, claimant>>

-----------------------------------------------------------------------------
(* Claim and TakeOver: one guarded UPDATE each.                            *)

ClaimBegin(p) ==
  \E u \in users, i \in Ids : Enter(p, "claim", "update", i, u, Null, clock)

TakeOverBegin(p) ==
  \E u \in users, i \in Ids :
    Enter(p, "take_over", "update", i, u, Null, clock)

\* Variant: the claim only asks for an open request.
ClaimMatchesOpen(i) == Exists(i) /\ ~IsTerminal(rows[i].status)

\* Variant: taking over asks for an open request, claimed or not.
TakeOverMatchesOpen(i) == Exists(i) /\ ~IsTerminal(rows[i].status)

\* The WHERE clauses.
ClaimMatches(i) == Exists(i) /\ rows[i].status = Received
TakeOverMatches(i) == Exists(i) /\ rows[i].status \in {InRepair, AwaitingParts}

Matches(op, i) == IF op = "claim" THEN ClaimMatches(i) ELSE TakeOverMatches(i)

ClaimedRow(r, u, now) ==
  [r EXCEPT !.status = InRepair, !.owner = u, !.updatedAt = now]

TakenRow(r, u, now) == [r EXCEPT !.owner = u, !.updatedAt = now]

ClaimUpdate(p) ==
  LET i == call[p].id
      u == call[p].actor
  IN /\ At(p, "update", "claim")
     /\ ClaimMatches(i)
     /\ ForeignKeyHolds(u)
     /\ rows' = [rows EXCEPT ![i] = ClaimedRow(@, u, call[p].now)]
     /\ claimant' = [claimant EXCEPT ![i] = u]
     /\ call' = [call EXCEPT ![p] = ReadingBack(p, i)]
     /\ UNCHANGED <<users, clock>>

TakeOverUpdate(p) ==
  LET i == call[p].id
      u == call[p].actor
  IN /\ At(p, "update", "take_over")
     /\ TakeOverMatches(i)
     /\ ForeignKeyHolds(u)
     /\ rows' = [rows EXCEPT ![i] = TakenRow(@, u, call[p].now)]
     /\ call' = [call EXCEPT ![p] = ReadingBack(p, i)]
     /\ UNCHANGED <<users, clock, claimant>>

\* The row matched, but the account was deleted after it authenticated.
UpdateForeignKeyError(p) ==
  /\ call[p].pc = "update"
  /\ Matches(call[p].op, call[p].id)
  /\ ~ForeignKeyHolds(call[p].actor)
  /\ Reply(p, "error")
  /\ UNCHANGED <<rows, users, clock, claimant>>

UpdateMissed(p) ==
  /\ call[p].pc = "update"
  /\ ~Matches(call[p].op, call[p].id)
  /\ call' = [call EXCEPT ![p] = [@ EXCEPT !.pc = "missed", !.now = 0]]
  /\ UNCHANGED <<rows, users, clock, claimant>>

\* Get tells "no such request" from "not in the right state".
MissedRead(p) ==
  /\ call[p].pc = "missed"
  /\ Reply(p, IF ~Exists(call[p].id) THEN "not_found"
              ELSE IF call[p].op = "claim" THEN "claim_failed"
              ELSE "not_ownable")
  /\ UNCHANGED <<rows, users, clock, claimant>>

-----------------------------------------------------------------------------
(* Transition: a read, the decision, then an UPDATE by id alone.           *)

TransitionBegin(p) ==
  \E u \in users, i \in Ids, to \in Statuses :
    Enter(p, "transition", "read", i, u, to, 0)

TransitionRefuse(p) ==
  \E u \in users, i \in Ids :
    Refuse(p, "transition", i, u, "invalid_status")

\* Variant: the claim edge is a transition like any other.
ObjectionWithoutClaim(from, to) ==
  IF CanTransition(from, to) THEN "none" ELSE "bad_transition"

\* Variant: cancelling is allowed from every status.
ObjectionNotToCancel(from, to) ==
  CASE IsClaimEdge(from, to)                      -> "use_claim"
    [] to # Cancelled /\ ~CanTransition(from, to) -> "bad_transition"
    [] OTHER                                      -> "none"

\* The checks in their order; "none" means the transition may proceed.
Objection(from, to) ==
  CASE IsClaimEdge(from, to)    -> "use_claim"
    [] ~CanTransition(from, to) -> "bad_transition"
    [] OTHER                    -> "none"

TransitionRead(p) ==
  LET i  == call[p].id
      to == call[p].arg
  IN /\ At(p, "read", "transition")
     /\ \/ /\ ~Exists(i)
           /\ Reply(p, "not_found")
        \/ /\ Exists(i)
           /\ Objection(rows[i].status, to) # "none"
           /\ Reply(p, Objection(rows[i].status, to))
        \/ /\ Exists(i)
           /\ Objection(rows[i].status, to) = "none"
           /\ call' = [call EXCEPT ![p] =
                         [@ EXCEPT !.pc = "write", !.now = clock]]
     /\ UNCHANGED <<rows, users, clock, claimant>>

\* Variant: the UPDATE for an open status leaves closed_at alone.
MovedRowKeepingStamp(r, to, now) ==
  [r EXCEPT !.status = to, !.updatedAt = now,
            !.closedAt = IF IsTerminal(to) THEN now ELSE @]

\* The SET clauses of the two UPDATEs; both write closed_at.
MovedRow(r, to, now) ==
  [r EXCEPT !.status = to, !.updatedAt = now,
            !.closedAt = IF IsTerminal(to) THEN now ELSE Null]

TransitionWrite(p) ==
  LET i == call[p].id
  IN /\ At(p, "write", "transition")
     /\ rows' = [rows EXCEPT ![i] = MovedRow(@, call[p].arg, call[p].now)]
     /\ call' = [call EXCEPT ![p] = ReadingBack(p, i)]
     /\ UNCHANGED <<users, clock, claimant>>

-----------------------------------------------------------------------------
(* SetPriority: a read for existence, then an UPDATE by id.                *)

PriorityBegin(p) ==
  \E u \in users, i \in Ids, prio \in Priorities :
    Enter(p, "priority", "read", i, u, prio, 0)

PriorityRefuse(p) ==
  \E u \in users, i \in Ids :
    Refuse(p, "priority", i, u, "invalid_priority")

\* Variant: the second is not read before the UPDATE.
PriorityReadUnstamped(p) ==
  /\ At(p, "read", "priority")
  /\ \/ /\ ~Exists(call[p].id)
        /\ Reply(p, "not_found")
     \/ /\ Exists(call[p].id)
        /\ call' = [call EXCEPT ![p] = [@ EXCEPT !.pc = "write"]]
  /\ UNCHANGED <<rows, users, clock, claimant>>

PriorityRead(p) ==
  /\ At(p, "read", "priority")
  /\ \/ /\ ~Exists(call[p].id)
        /\ Reply(p, "not_found")
     \/ /\ Exists(call[p].id)
        /\ call' = [call EXCEPT ![p] = [@ EXCEPT !.pc = "write", !.now = clock]]
  /\ UNCHANGED <<rows, users, clock, claimant>>

ReprioritisedRow(r, prio, now) ==
  [r EXCEPT !.priority = prio, !.updatedAt = now]

PriorityWrite(p) ==
  LET i == call[p].id
  IN /\ At(p, "write", "priority")
     /\ rows' = [rows EXCEPT ![i] = ReprioritisedRow(@, call[p].arg, call[p].now)]
     /\ call' = [call EXCEPT ![p] = ReadingBack(p, i)]
     /\ UNCHANGED <<users, clock, claimant>>

-----------------------------------------------------------------------------
(* The end of every handler, and what happens around the handlers.         *)

\* The closing Get.  Rows are never deleted, so it finds the row.
ReadBack(p) ==
  /\ call[p].pc = "readback"
  /\ Reply(p, "ok")
  /\ UNCHANGED <<rows, users, clock, claimant>>

\* The response has been sent; the goroutine is free for another request.
Finish(p) ==
  /\ call[p].pc = "answered"
  /\ call' = [call EXCEPT ![p] = Idle]
  /\ UNCHANGED <<rows, users, clock, claimant>>

\* The handler stops between two statements; the caller sees an error or
\* nothing.  A crash of the daemon aborts every handler.
Abort(p) ==
  /\ call[p].pc \notin {"idle", "answered"}
  /\ Reply(p, "error")
  /\ UNCHANGED <<rows, users, clock, claimant>>

\* DELETE FROM users: ON DELETE SET NULL on both references.
DeleteUser(u) ==
  /\ u \in users
  /\ users' = users \ {u}
  /\ rows' = [i \in Ids |->
                [rows[i] EXCEPT !.owner = IF @ = u THEN Null ELSE @,
                                !.createdBy = IF @ = u THEN Null ELSE @]]
  /\ UNCHANGED <<clock, call, claimant>>

Tick ==
  /\ clock < MaxTime
  /\ clock' = clock + 1
  /\ UNCHANGED <<rows, users, call, claimant>>

-----------------------------------------------------------------------------
(* The specification.                                                      *)

Init ==
  /\ rows = [i \in Ids |-> NoRow]
  /\ users = Users
  /\ clock = 0
  /\ call = [p \in Procs |-> Idle]
  /\ claimant = [i \in Ids |-> Null]

\* A caller's request arrives.
Arrive(p) ==
  \/ CreateBegin(p) \/ CreateRefuse(p)
  \/ ClaimBegin(p) \/ TakeOverBegin(p)
  \/ TransitionBegin(p) \/ TransitionRefuse(p)
  \/ PriorityBegin(p) \/ PriorityRefuse(p)

\* The handler takes its next step.
Serve(p) ==
  \/ CreateInsert(p) \/ CreateForeignKeyError(p)
  \/ ClaimUpdate(p) \/ TakeOverUpdate(p)
  \/ UpdateForeignKeyError(p) \/ UpdateMissed(p) \/ MissedRead(p)
  \/ TransitionRead(p) \/ TransitionWrite(p)
  \/ PriorityRead(p) \/ PriorityWrite(p)
  \/ ReadBack(p) \/ Finish(p)

Next ==
  \/ \E p \in Procs : Arrive(p) \/ Serve(p) \/ Abort(p)
  \/ \E u \in Users : DeleteUser(u)
  \/ Tick

Spec == Init /\ [][Next]_vars

-----------------------------------------------------------------------------
(* The ledger the service keeps (module RequestLedger).                    *)

Filed(r) == IF r.closedAt = Null THEN "open" ELSE "closed"

\* The part of a row the ledger speaks of.
LedgerView ==
  [i \in Ids |-> [status   |-> rows[i].status,
                  owner    |-> rows[i].owner,
                  claimant |-> claimant[i],
                  filed    |-> Filed(rows[i])]]

\* With handlers side by side a TransitionWrite may land on a status its
\* read did not see.  These are the moves that result: out of Received only
\* the cancellation, but any move between the other statuses.
ConcurrentEdges ==
  {<<Received, Cancelled>>}
    \cup ((Statuses \ {Received}) \X (Statuses \ {Received}))

Concurrent == INSTANCE RequestLedger
                WITH ledger <- LedgerView, staff <- users,
                     Edges <- ConcurrentEdges

\* While transitions keep apart they are those of states.go (RepairApart).
Strict == INSTANCE RequestLedger
            WITH ledger <- LedgerView, staff <- users, Edges <- LegalEdges

-----------------------------------------------------------------------------
(* Properties that hold.                                                   *)

\* The type of every variable.
TypeOK ==
  /\ rows \in [Ids -> Row]
  /\ users \in SUBSET Users
  /\ clock \in Nat
  /\ call \in [Procs -> Call]
  /\ claimant \in [Ids -> Users \cup {Null}]

\* closed_at is set exactly on the requests that are closed, even when a
\* transition overwrites a status its read did not see (0001_init.sql:92).
ClosedStampMatchesStatus ==
  \A i \in Ids : IsTerminal(rows[i].status) <=> rows[i].closedAt # Null

\* No request is owned, worked on or completed unless some Claim matched it
\* first, and one that is still received has no owner: a transition never
\* slips past the claim, whatever it overwrites.
OwnershipStartsWithClaim ==
  \A i \in Ids :
    /\ claimant[i] = Null => rows[i].owner = Null
    /\ claimant[i] = Null =>
         rows[i].status \in {"absent", Received, Cancelled}
    /\ rows[i].status \in {"absent", Received} => claimant[i] = Null

\* Owners and creators are accounts that exist, although an account may be
\* deleted while a handler it authenticated is still running.
NoDanglingAccounts ==
  \A i \in Ids : {rows[i].owner, rows[i].createdBy} \subseteq users \cup {Null}

\* A caller whose Claim was answered with success is the one claimant the
\* request has ever had: no two callers are told they won (repair.go:170).
ClaimAnswerIsTrue ==
  \A p \in Procs :
    (At(p, "answered", "claim") /\ call[p].answer = "ok")
      => claimant[call[p].id] = call[p].actor

\* A caller who claimed a request that was logged, and was told that the Claim
\* failed, need not send it again: the request is never again received, although
\* its status is read and written in different statements and the answer was
\* made from a third (repair.go:184).  Of a request logged only after the
\* UPDATE had missed it the answer says no more than that it exists.
ClaimFailureIsFinal ==
  \A p \in Procs :
    call[p].answer = "claim_failed" =>
      /\ Exists(call[p].id)
      /\ call[p].found => rows[call[p].id].status # Received

\* A request carries stamps in order although handlers store seconds they read
\* before they waited: it is not closed before it was created, and not updated
\* before that either unless it was claimed (a claim or a take-over that named
\* the id ahead of its INSERT may store an earlier second, repair.go:175); and
\* no stamp is ahead of the clock.
StampsInOrder ==
  \A i \in Ids :
    /\ rows[i].closedAt # Null => rows[i].createdAt <= rows[i].closedAt
    /\ claimant[i] = Null => rows[i].createdAt <= rows[i].updatedAt
    /\ {rows[i].createdAt, rows[i].updatedAt, rows[i].closedAt}
         \subseteq (0..clock) \cup {Null}

\* Seen through LedgerView the service is the ledger with ConcurrentEdges:
\* first claim wins, ownership is pulled, an owner is lost only with the
\* account, and no request returns to received.
ImplementsConcurrentLedger == Concurrent!LedgerSpec

-----------------------------------------------------------------------------
(* What the code's comments say and the code does not do.                  *)

\* "IsTerminal reports whether s is an end state (no further transitions)"
\* (states.go:77).  Two overlapping transitions break it.
TerminalIsFinal ==
  [][\A i \in Ids :
       IsTerminal(rows[i].status) => rows'[i].status = rows[i].status]_vars

\* ErrClaimFailed: "another user won the race" (repair.go:28).  It is broken
\* by a request cancelled before anybody claimed it, by a caller who lost the
\* answer to a Claim and sends it again, and by a request that is logged, still
\* to be claimed, between the UPDATE of a Claim that guessed its id and its Get.
ClaimFailedMeansAnotherUser ==
  \A p \in Procs :
    call[p].answer = "claim_failed"
      => claimant[call[p].id] \notin {Null, call[p].actor}

=============================================================================
