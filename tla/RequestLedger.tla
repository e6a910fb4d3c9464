---------------------------- MODULE RequestLedger ----------------------------
(***************************************************************************)
(* What the repair service promises about its requests, with every         *)
(* operation atomic: a ledger of requests and the accounts that may own    *)
(* them.                                                                   *)
(*                                                                         *)
(*  - A request is claimed once, by the account that becomes its owner,    *)
(*    and its claimant is remembered for ever.                             *)
(*  - Ownership is pulled: an account makes itself the owner of a request  *)
(*    being worked on.  An owner is otherwise only lost with its account.  *)
(*  - Any other change of status is one of Edges, and a request is closed  *)
(*    exactly when its last move was into a terminal status.               *)
(*                                                                         *)
(* Edges is a parameter because it is where the service's promise depends  *)
(* on its callers: transitions of a request that keep apart follow the     *)
(* published state machine, overlapping ones do not (see RepairApart).     *)
(***************************************************************************)
EXTENDS Lifecycle

CONSTANTS Ids,      \* request ids
          Users,    \* account ids
          Null,     \* SQL NULL
          Edges     \* the status moves a plain transition may make

VARIABLES ledger,   \* ledger[i]: its status, owner, claimant and file
          staff     \* the accounts that exist

ledgerVars == <<ledger, staff>>

Blank == [status |-> "absent", owner |-> Null, claimant |-> Null,
          filed |-> "open"]

\* Where a request of status s is filed.
File(s) == IF IsTerminal(s) THEN "closed" ELSE "open"

LedgerInit ==
  /\ ledger = [i \in Ids |-> Blank]
  /\ staff = Users

Log(i) ==
  /\ ledger[i] = Blank
  /\ ledger' = [ledger EXCEPT ![i] = [Blank EXCEPT !.status = Received]]
  /\ UNCHANGED staff

Claim(i, u) ==
  /\ u \in staff
  /\ ledger[i].status = Received
  /\ ledger[i].claimant = Null
  /\ ledger' = [ledger EXCEPT ![i] = [status |-> InRepair, owner |-> u,
                                      claimant |-> u, filed |-> "open"]]
  /\ UNCHANGED staff

TakeOver(i, u) ==
  /\ u \in staff
  /\ ledger[i].status \in {InRepair, AwaitingParts}
  /\ ledger' = [ledger EXCEPT ![i].owner = u]
  /\ UNCHANGED staff

Move(i, to) ==
  /\ <<ledger[i].status, to>> \in Edges
  /\ ledger' = [ledger EXCEPT ![i] = [status |-> to, owner |-> @.owner,
                                      claimant |-> @.claimant,
                                      filed |-> File(to)]]
  /\ UNCHANGED staff

Leave(u) ==
  /\ staff' = staff \ {u}
  /\ ledger' = [i \in Ids |->
                  IF ledger[i].owner = u
                    THEN [ledger[i] EXCEPT !.owner = Null]
                    ELSE ledger[i]]

LedgerNext ==
  \/ \E i \in Ids : Log(i)
  \/ \E i \in Ids, u \in Users : Claim(i, u) \/ TakeOver(i, u)
  \/ \E i \in Ids, to \in Statuses : Move(i, to)
  \/ \E u \in Users : Leave(u)

LedgerSpec == LedgerInit /\ [][LedgerNext]_ledgerVars

=============================================================================
