--------------------------- MODULE MCAccountsApart ---------------------------
(***************************************************************************)
(* AccountsApart for TLC.  Goroutines and usernames are interchanged       *)
(* freely; ids are not, they are handed out in order.                      *)
(***************************************************************************)
EXTENDS AccountsApart, TLC

Symmetry == Permutations(Procs) \cup Permutations(Names)

=============================================================================
