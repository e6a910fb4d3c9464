------------------------------ MODULE Lifecycle ------------------------------
(***************************************************************************)
(* The workflow state machine of internal/repair/states.go: the statuses   *)
(* of a repair request and the moves between them.  There is no state      *)
(* here, only the tables and predicates that the request handlers and the  *)
(* dashboard consult.                                                      *)
(***************************************************************************)

Received      == "received"
InRepair      == "in_repair"
AwaitingParts == "awaiting_parts"
Completed     == "completed"
Cancelled     == "cancelled"

Statuses == {Received, InRepair, AwaitingParts, Completed, Cancelled}

TerminalStatuses == {Completed, Cancelled}

IsTerminal(s) == s \in TerminalStatuses

\* Variant: a request that waits for parts may be put back for all.
TransitionsPuttingBack ==
  [s \in Statuses |->
     CASE s = Received      -> {InRepair}
       [] s = InRepair      -> {AwaitingParts, Completed}
       [] s = AwaitingParts -> {Received, InRepair, Completed}
       [] OTHER             -> {}]

\* The moves listed per status; cancelling is added by CanTransition.
Transitions ==
  [s \in Statuses |->
     CASE s = Received      -> {InRepair}
       [] s = InRepair      -> {AwaitingParts, Completed}
       [] s = AwaitingParts -> {InRepair, Completed}
       [] OTHER             -> {}]

CanTransition(from, to) ==
  /\ from \in Statuses
  /\ to \in Statuses
  /\ from # to
  /\ IF to = Cancelled THEN ~IsTerminal(from) ELSE to \in Transitions[from]

\* The statuses the user interface offers as buttons.
AllowedNext(from) == {to \in Statuses : CanTransition(from, to)}

\* The move that makes the caller the owner; it has a handler of its own.
IsClaimEdge(from, to) == from = Received /\ to = InRepair

\* What a plain Transition may do to a request no other one is moving.
LegalEdges ==
  {e \in Statuses \X Statuses :
     CanTransition(e[1], e[2]) /\ ~IsClaimEdge(e[1], e[2])}

=============================================================================
