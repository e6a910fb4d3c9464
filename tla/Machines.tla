------------------------------ MODULE Machines ------------------------------
(***************************************************************************)
(* Logging a fault, from the side of the machines it is about:             *)
(* handleCreateRequest of internal/httpapi/request_handlers.go calls       *)
(* FindOrCreate of internal/machines/machines.go to turn the typed name    *)
(* into a machine, then repair.Create to file the request under it.        *)
(*                                                                         *)
(* FindOrCreate is a read, an INSERT and, when the INSERT lost a race for  *)
(* the name, another read; as in RepairRequests every statement is an      *)
(* action and the handlers interleave between them.  Of a request only its *)
(* machine is state here; RepairRequests has the rest of it.               *)
(***************************************************************************)
EXTENDS Naturals

CONSTANTS Procs,   \* handler goroutines that may run at the same time
          Names,   \* machine names, trimmed and equal up to case
          MaxId,   \* bound on the ids the AUTOINCREMENT key hands out
          NoName,  \* "no name"
          NoId     \* "no id"

ASSUME MachinesAssumption ==
  /\ MaxId \in Nat
  /\ NoName \notin Names
  /\ NoId \notin 1..MaxId

VARIABLES machines,  \* table machines: the name of every id
          next,      \* the id the next INSERT takes
          requests,  \* table repair_requests: the machine of each, and what
                     \* its reporter typed (history, not in the code)
          call       \* the handler each goroutine is executing

vars == <<machines, next, requests, call>>

-----------------------------------------------------------------------------
(* Data.                                                                   *)

Ids == 1..MaxId

Pcs == {"idle", "find", "insert", "refind", "file", "answered"}

Answers == {"ok", "validation", "insert_failed", "aborted"}

Call == [pc      : Pcs,
         typed   : Names \cup {NoName},
         machine : Ids \cup {NoId},
         answer  : Answers \cup {"none"}]

Idle == [pc |-> "idle", typed |-> NoName, machine |-> NoId, answer |-> "none"]

Request == [machine : Ids, typed : Names]

\* Variant: machines.name has no UNIQUE constraint.
TakenNever(n) == n \notin Names

Taken(n) == \E i \in Ids : machines[i] = n

Reply(p, a) ==
  call' = [call EXCEPT ![p] = [Idle EXCEPT !.pc = "answered", !.answer = a]]

Goto(p, pc) == call' = [call EXCEPT ![p] = [@ EXCEPT !.pc = pc]]

\* FindOrCreate returns machine i.
Return(p, i) ==
  call' = [call EXCEPT ![p] = [@ EXCEPT !.pc = "file", !.machine = i]]

-----------------------------------------------------------------------------
(* FindOrCreate.                                                           *)

\* Variant: a blank name is a name.
ReportBeginBlank(p) ==
  /\ call[p].pc = "idle"
  /\ \E n \in Names \cup {NoName} :
       call' = [call EXCEPT ![p] = [Idle EXCEPT !.pc = "find", !.typed = n]]
  /\ UNCHANGED <<machines, next, requests>>

ReportBegin(p) ==
  /\ call[p].pc = "idle"
  /\ \E n \in Names :
       call' = [call EXCEPT ![p] = [Idle EXCEPT !.pc = "find", !.typed = n]]
  /\ UNCHANGED <<machines, next, requests>>

\* The body does not decode, or the name is blank.
ReportRefuse(p) ==
  /\ call[p].pc = "idle"
  /\ Reply(p, "validation")
  /\ UNCHANGED <<machines, next, requests>>

FindMachine(p) ==
  /\ call[p].pc = "find"
  /\ \/ /\ ~Taken(call[p].typed)
        /\ Goto(p, "insert")
     \/ \E i \in Ids : machines[i] = call[p].typed /\ Return(p, i)
  /\ UNCHANGED <<machines, next, requests>>

\* Variant: INSERT OR REPLACE, which gives the name a new row.
InsertMachineReplacing(p) ==
  /\ call[p].pc = "insert"
  /\ next \in Ids
  /\ machines' = [i \in Ids |->
                    IF i = next THEN call[p].typed
                    ELSE IF machines[i] = call[p].typed THEN NoName
                    ELSE machines[i]]
  /\ next' = next + 1
  /\ Return(p, next)
  /\ UNCHANGED requests

\* Bound: the INSERT is only modelled while there is an id to hand out.
InsertMachine(p) ==
  /\ call[p].pc = "insert"
  /\ ~Taken(call[p].typed)
  /\ next \in Ids
  /\ machines' = [machines EXCEPT ![next] = call[p].typed]
  /\ next' = next + 1
  /\ Return(p, next)
  /\ UNCHANGED requests

\* Variant: an INSERT that fails is an error.
InsertLostIsError(p) ==
  /\ call[p].pc = "insert"
  /\ Taken(call[p].typed)
  /\ Reply(p, "insert_failed")
  /\ UNCHANGED <<machines, next, requests>>

\* The UNIQUE constraint on name: somebody else has just inserted it.
InsertLost(p) ==
  /\ call[p].pc = "insert"
  /\ Taken(call[p].typed)
  /\ Goto(p, "refind")
  /\ UNCHANGED <<machines, next, requests>>

\* Variant: the row is taken to be the one inserted last.
FindNewest(p) ==
  /\ call[p].pc = "refind"
  /\ IF next > 1 THEN Return(p, next - 1) ELSE Reply(p, "insert_failed")
  /\ UNCHANGED <<machines, next, requests>>

FindAgain(p) ==
  /\ call[p].pc = "refind"
  /\ IF Taken(call[p].typed)
       THEN \E i \in Ids : machines[i] = call[p].typed /\ Return(p, i)
       ELSE Reply(p, "insert_failed")
  /\ UNCHANGED <<machines, next, requests>>

-----------------------------------------------------------------------------
(* repair.Create, and the end of the handler.                              *)

\* The summary is blank or the priority is not in the list.
FileRefuse(p) ==
  /\ call[p].pc = "file"
  /\ Reply(p, "validation")
  /\ UNCHANGED <<machines, next, requests>>

FileRequest(p) ==
  /\ call[p].pc = "file"
  /\ requests' = requests \cup {[machine |-> call[p].machine,
                                 typed   |-> call[p].typed]}
  /\ Reply(p, "ok")
  /\ UNCHANGED <<machines, next>>

Finish(p) ==
  /\ call[p].pc = "answered"
  /\ call' = [call EXCEPT ![p] = Idle]
  /\ UNCHANGED <<machines, next, requests>>

\* The request is cancelled, a statement fails (the reporter's account may
\* be gone), or the daemon stops.
Abort(p) ==
  /\ call[p].pc \notin {"idle", "answered"}
  /\ Reply(p, "aborted")
  /\ UNCHANGED <<machines, next, requests>>

-----------------------------------------------------------------------------
(* The specification.                                                      *)

Init ==
  /\ machines = [i \in Ids |-> NoName]
  /\ next = 1
  /\ requests = {}
  /\ call = [p \in Procs |-> Idle]

Step(p) ==
  \/ ReportBegin(p) \/ ReportRefuse(p)
  \/ FindMachine(p) \/ InsertMachine(p) \/ InsertLost(p) \/ FindAgain(p)
  \/ FileRefuse(p) \/ FileRequest(p)
  \/ Finish(p) \/ Abort(p)

Next == \E p \in Procs : Step(p)

Spec == Init /\ [][Next]_vars

-----------------------------------------------------------------------------
(* The registry the service keeps (module Registry).                       *)

Registered == INSTANCE Registry WITH names <- machines, filed <- requests

-----------------------------------------------------------------------------
(* Properties that hold.                                                   *)

\* The type of every variable.
TypeOK ==
  /\ machines \in [Ids -> Names \cup {NoName}]
  /\ next \in 1..(MaxId + 1)
  /\ requests \subseteq Request
  /\ call \in [Procs -> Call]

\* However many people report the same new machine at once, a name has one
\* machine, so that its requests are found together.
OneMachinePerName ==
  \A i, j \in Ids : (machines[i] = machines[j] /\ i # j) => machines[i] = NoName

\* Every request is filed under the machine its reporter typed, also when
\* FindOrCreate lost the race and read again.
FiledUnderWhatWasTyped == \A r \in requests : machines[r.machine] = r.typed

\* Losing the race for a new name is never an error: the second read of
\* FindOrCreate always finds the winner's row (machines.go:63).
RacesAreAbsorbed == \A p \in Procs : call[p].answer # "insert_failed"

\* The handlers together implement the registry (module Registry): also when
\* reports of one new name overlap, ids are handed out in order and once, the
\* list of machines only grows, and no row of it is renamed under the requests
\* that point to it.
ImplementsRegistry == Registered!RegistrySpec

-----------------------------------------------------------------------------
(* What the code's comments say and the code does not do.                  *)

\* "New machines are created implicitly via find-or-create when a request is
\* logged" (server.go:82).  A request that Create refuses, after the machine
\* was inserted for it, breaks it: the name stays in the type-ahead.
MachinesHaveRequests ==
  (\A p \in Procs : call[p].pc \in {"idle", "answered"}) =>
    \A i \in Ids :
      machines[i] # NoName => \E r \in requests : r.machine = i

=============================================================================
