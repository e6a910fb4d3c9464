------------------------------ MODULE RepairApart ------------------------------
(***************************************************************************)
(* RepairRequests with the question what the overlapping of Transition     *)
(* with itself costs.  In a behaviour that starts with apart = TRUE no two *)
(* handlers are between Transition's read and its write of the same        *)
(* request, as if the two statements were one transaction for that         *)
(* request; claims, take-overs, priorities, deleted accounts and aborted   *)
(* handlers come in between as they like.  With apart = FALSE nothing is   *)
(* restricted.                                                             *)
(***************************************************************************)
EXTENDS RepairRequests

VARIABLE apart  \* whether transitions of one request keep apart

apartVars == <<vars, apart>>

\* No request is about to be written by two transitions.
Apart ==
  \A p, q \in Procs :
    (At(p, "write", "transition") /\ At(q, "write", "transition")
       /\ call[p].id = call[q].id) => p = q

ApartInit == Init /\ apart \in BOOLEAN

ApartNext == Next /\ UNCHANGED apart /\ (apart => Apart')

ApartSpec == ApartInit /\ [][ApartNext]_apartVars

-----------------------------------------------------------------------------
(* Properties.                                                             *)

\* While the transitions of a request keep apart the service is the ledger
\* with exactly the moves of states.go: what Transition decided on is still
\* right when it writes (repair.go:224-243), whatever else comes in between.
ApartImplementsStrictLedger ==
  /\ Strict!LedgerInit
  /\ [][apart => Strict!LedgerNext]_(Strict!ledgerVars)

\* While the transitions of a request keep apart "no further transitions"
\* (states.go:77) is true: closed requests stay as they were closed.
ApartTerminalIsFinal ==
  [][apart => \A i \in Ids :
       IsTerminal(rows[i].status) => rows'[i].status = rows[i].status]_apartVars

=============================================================================
