------------------------------- MODULE MCValues -------------------------------
(* Instances of Values for TLC. *)
EXTENDS Values, TLC

Symmetry == Permutations(Blocks) \cup Permutations(Data) \cup Permutations(Ids)
=============================================================================
