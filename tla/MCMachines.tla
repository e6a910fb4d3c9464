----------------------------- MODULE MCMachines -----------------------------
(***************************************************************************)
(* Machines and their search for TLC.  Goroutines are interchanged freely; *)
(* names are made of different characters and are not.                     *)
(***************************************************************************)
EXTENDS MachineSearch, TLC

Symmetry == Permutations(Procs)

MCChars == {"a", "%", "_", "\\"}

MCNames == {<<"a", "%">>, <<"a", "a">>, <<"\\", "_">>}

MCQueries ==
  {<<>>, <<"a">>, <<"%">>, <<"_">>, <<"\\">>, <<"a", "%">>, <<"%", "a">>,
   <<"\\", "_">>, <<"_", "_">>}

=============================================================================
