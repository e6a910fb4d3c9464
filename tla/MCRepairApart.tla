---------------------------- MODULE MCRepairApart ----------------------------
(***************************************************************************)
(* RepairApart for TLC.  Goroutines and accounts are interchanged freely   *)
(* by every action, every invariant and every abstract action, so states   *)
(* that differ by a permutation of them are identified.                    *)
(***************************************************************************)
EXTENDS RepairApart, TLC

Symmetry == Permutations(Procs) \cup Permutations(Users)

=============================================================================
