------------------------------- MODULE MCCalls -------------------------------
(* Instances of Calls for TLC.  Functions, tables and identifiers are model
   values that the specification never tells apart. *)
EXTENDS Calls, TLC

Symmetry == Permutations(Funs) \cup Permutations(Tables) \cup Permutations(Ids)
=============================================================================
