----------------------------- MODULE MCHashTable -----------------------------
(* Instances of HashTable for TLC: a table that starts with two slots and grows
   to three, five and no further, and keys whose hashes collide in different
   ways for the different sizes. *)
EXTENDS HashTable, TLC

CONSTANTS key1, key2, key3, key4, key5

MCPrimes == <<3, 5>>

(* In two slots keys 1, 2, 3 collide, and 4, 5; in three 1, 2, 5 and 3, 4; in
   five only 2 and 4, so that the table is rebuilt with five slots again. *)
MCHash ==
  LET h == (key1 :> 0) @@ (key2 :> 6) @@ (key3 :> 4) @@ (key4 :> 1)
             @@ (key5 :> 3)
  IN [k \in Keys |-> h[k]]
=============================================================================
