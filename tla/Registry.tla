-------------------------------- MODULE Registry --------------------------------
(***************************************************************************)
(* What the machine registry promises, with every operation atomic: a list *)
(* of machines that only grows, and the requests filed under them.         *)
(*                                                                         *)
(*  - A machine is entered once, under the next id, and keeps its name.    *)
(*  - A request is filed under a machine that is there, by its name.       *)
(***************************************************************************)
EXTENDS Naturals

CONSTANTS Names,  \* machine names, equal up to case
          MaxId,  \* bound on the ids handed out
          NoName  \* the name of an id that is not in use

VARIABLES names,  \* the name of every id
          next,   \* the next id
          filed   \* the requests: under which machine, and the name typed

registryVars == <<names, next, filed>>

Ids == 1..MaxId

RegistryInit ==
  /\ names = [i \in Ids |-> NoName]
  /\ next = 1
  /\ filed = {}

Enter(n) ==
  /\ next \in Ids
  /\ \A i \in Ids : names[i] # n
  /\ names' = [names EXCEPT ![next] = n]
  /\ next' = next + 1
  /\ UNCHANGED filed

File(i) ==
  /\ names[i] # NoName
  /\ filed' = filed \cup {[machine |-> i, typed |-> names[i]]}
  /\ UNCHANGED <<names, next>>

RegistryNext ==
  \/ \E n \in Names : Enter(n)
  \/ \E i \in Ids : File(i)

RegistrySpec == RegistryInit /\ [][RegistryNext]_registryVars

=============================================================================
