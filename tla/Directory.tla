------------------------------ MODULE Directory ------------------------------
(***************************************************************************)
(* What the account service promises, with every operation atomic: a       *)
(* directory of accounts, each an admin or a plain user.                   *)
(*                                                                         *)
(*  - The first account is an admin, made while the directory is empty.    *)
(*  - Names are never shared, and ids are handed out in order, once.       *)
(*  - The last admin is neither removed nor demoted.                       *)
(*                                                                         *)
(* Guarded says whether the first and the last admin are promised too: the *)
(* service keeps that only while its checked writes keep apart (see        *)
(* AccountsApart).                                                         *)
(***************************************************************************)
EXTENDS Naturals

CONSTANTS Names,   \* usernames, equal up to case
          MaxId,   \* bound on the ids handed out
          Vacant,  \* the entry of an id that names no account
          Guarded  \* whether the directory is never without an admin

VARIABLES entries,  \* entries[i]: the name and role of account i, or Vacant
          next      \* the next id

directoryVars == <<entries, next>>

Ids == 1..MaxId

Admins == {i \in Ids : entries[i] # Vacant /\ entries[i].role = "admin"}

DirectoryInit ==
  /\ entries = [i \in Ids |-> Vacant]
  /\ next = 1

Enrol(n, r) ==
  /\ next \in Ids
  /\ \A i \in Ids : entries[i] # Vacant => entries[i].name # n
  /\ Guarded /\ (\A i \in Ids : entries[i] = Vacant) => r = "admin"
  /\ entries' = [entries EXCEPT ![next] = [name |-> n, role |-> r]]
  /\ next' = next + 1

Remove(i) ==
  /\ entries[i] # Vacant
  /\ Guarded => Admins # {i}
  /\ entries' = [entries EXCEPT ![i] = Vacant]
  /\ UNCHANGED next

Assign(i, r) ==
  /\ entries[i] # Vacant
  /\ Guarded /\ Admins = {i} => r = "admin"
  /\ entries' = [entries EXCEPT ![i].role = r]
  /\ UNCHANGED next

DirectoryNext ==
  \/ \E n \in Names, r \in {"admin", "user"} : Enrol(n, r)
  \/ \E i \in Ids : Remove(i)
  \/ \E i \in Ids, r \in {"admin", "user"} : Assign(i, r)

DirectorySpec == DirectoryInit /\ [][DirectoryNext]_directoryVars

=============================================================================
