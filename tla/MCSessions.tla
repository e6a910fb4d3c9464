------------------------------ MODULE MCSessions ------------------------------
(***************************************************************************)
(* Sessions for TLC.  Goroutines and tokens are interchanged freely.       *)
(***************************************************************************)
EXTENDS Sessions, TLC

Symmetry == Permutations(Procs) \cup Permutations(Tokens)

=============================================================================
