--------------------------- MODULE RepairConnection ---------------------------
(***************************************************************************)
(* RepairRequests with the one connection of the pool (db.go:52) as what   *)
(* it is: something to wait for.  A statement of a handler takes the       *)
(* connection and gives it back before the next Go line runs, so it can    *)
(* be made whenever nobody else holds the connection.  A listing holds it  *)
(* for longer: from its query until its rows are closed, while it scans    *)
(* them one by one and everybody else waits.                               *)
(*                                                                         *)
(* repair.List, machines.Search and auth.List are the same code but for    *)
(* the query; a listing here stands for any of the three, and for as many  *)
(* rows as there are requests.                                             *)
(***************************************************************************)
EXTENDS RepairRequests

CONSTANTS Listers,  \* goroutines that list
          Free      \* nobody holds the connection

ASSUME ConnectionAssumption ==
  /\ Listers \cap Procs = {}
  /\ Free \notin Listers \cup Procs

VARIABLES conn,  \* who holds the connection
          list   \* each lister's place, and the rows it has still to scan

connVars == <<vars, conn, list>>

Unlisted == [pc |-> "idle", left |-> 0]

ConnInit ==
  /\ Init
  /\ conn = Free
  /\ list = [l \in Listers |-> Unlisted]

-----------------------------------------------------------------------------
(* The handlers of RepairRequests.                                         *)

\* What needs no database: a request arrives, a response is sent, time passes.
Outside ==
  /\ Tick \/ \E p \in Procs : Arrive(p) \/ Finish(p)
  /\ UNCHANGED <<conn, list>>

\* Variant: Claim runs in a transaction, but still looks the request up with
\* s.Get, which asks the pool and not the transaction.
StatementInTransaction(p) ==
  /\ conn = Free
  /\ call[p].pc # "answered"
  /\ Serve(p)
  /\ conn' = IF At(p, "update", "claim") /\ call'[p].pc # "answered"
               THEN p ELSE Free
  /\ UNCHANGED list

\* One SQL statement, from taking the connection to giving it back.
Statement(p) ==
  /\ conn = Free
  /\ call[p].pc # "answered"
  /\ Serve(p)
  /\ UNCHANGED <<conn, list>>

\* The handler is cut short.  It holds nothing between two statements, and if it
\* did, its request context would give it back to the pool.
Hangup(p) ==
  /\ Abort(p)
  /\ conn' = IF conn = p THEN Free ELSE conn
  /\ UNCHANGED list

\* The account service deletes an account: one statement too.
DeleteStatement(u) ==
  /\ conn = Free
  /\ DeleteUser(u)
  /\ UNCHANGED <<conn, list>>

-----------------------------------------------------------------------------
(* A listing.                                                              *)

ListBegin(l) ==
  /\ list[l].pc = "idle"
  /\ list' = [list EXCEPT ![l].pc = "query"]
  /\ UNCHANGED <<vars, conn>>

\* QueryContext: the connection stays with the open rows.
ListQuery(l) ==
  /\ list[l].pc = "query"
  /\ conn = Free
  /\ conn' = l
  /\ list' = [list EXCEPT ![l] =
                [pc |-> "rows", left |-> Cardinality({i \in Ids : Exists(i)})]]
  /\ UNCHANGED vars

\* Variant: what belongs to a row is looked up by a statement of its own, while
\* the rows are still open.
ListScanLookingUp(l) ==
  /\ list[l].pc = "rows"
  /\ list[l].left > 0
  /\ conn = Free
  /\ list' = [list EXCEPT ![l].left = @ - 1]
  /\ UNCHANGED <<vars, conn>>

\* rows.Next and a scan.
ListScan(l) ==
  /\ list[l].pc = "rows"
  /\ list[l].left > 0
  /\ list' = [list EXCEPT ![l].left = @ - 1]
  /\ UNCHANGED <<vars, conn>>

\* The rows are read to their end, and closed.
ListEnd(l) ==
  /\ list[l].pc = "rows"
  /\ list[l].left = 0
  /\ conn' = Free
  /\ list' = [list EXCEPT ![l] = [Unlisted EXCEPT !.pc = "answered"]]
  /\ UNCHANGED vars

\* The query or a scan fails, or the client goes away: the deferred Close, or
\* database/sql itself, closes what was open.
ListFail(l) ==
  /\ list[l].pc \in {"query", "rows"}
  /\ conn' = IF conn = l THEN Free ELSE conn
  /\ list' = [list EXCEPT ![l] = [Unlisted EXCEPT !.pc = "answered"]]
  /\ UNCHANGED vars

ListFinish(l) ==
  /\ list[l].pc = "answered"
  /\ list' = [list EXCEPT ![l] = Unlisted]
  /\ UNCHANGED <<vars, conn>>

-----------------------------------------------------------------------------
(* The specification.                                                      *)

ConnNext ==
  \/ Outside
  \/ \E p \in Procs : Statement(p) \/ Hangup(p)
  \/ \E u \in Users : DeleteStatement(u)
  \/ \E l \in Listers :
       \/ ListBegin(l) \/ ListQuery(l) \/ ListScan(l)
       \/ ListEnd(l) \/ ListFail(l) \/ ListFinish(l)

\* The Go scheduler runs every goroutine that can run: weak fairness of what
\* needs no connection or has it.  Whoever waits for the connection is passed
\* over while others hold it; database/sql hands it to a waiter it picks at
\* random, so one that waits again and again is picked at last: strong
\* fairness.  No client is asked to come or to go away.
ConnFairness ==
  /\ \A p \in Procs :
       /\ SF_connVars(Statement(p))
       /\ WF_connVars(Finish(p) /\ UNCHANGED <<conn, list>>)
  /\ \A l \in Listers :
       /\ SF_connVars(ListQuery(l))
       /\ WF_connVars(ListScan(l) \/ ListEnd(l))
       /\ WF_connVars(ListFinish(l))

ConnSpec == ConnInit /\ [][ConnNext]_connVars /\ ConnFairness

-----------------------------------------------------------------------------
(* Properties.                                                             *)

\* A handler that was entered is answered, and its goroutine set free: no wait
\* for the connection is for ever, whoever lists and however often
\* (db.go:52, repair.go:174-190).
EveryCallIsAnswered ==
  \A p \in Procs : (call[p].pc # "idle") ~> (call[p].pc = "idle")

\* A listing that was asked for is answered: it needs nobody else to finish
\* while it holds the connection everybody else waits for (repair.go:145-158).
EveryListingIsAnswered ==
  \A l \in Listers : (list[l].pc # "idle") ~> (list[l].pc = "idle")

=============================================================================
