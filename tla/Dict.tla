-------------------------------- MODULE Dict --------------------------------
(* What hash.h promises: a finite map from keys to data with unique keys, and an
   iterator that returns every entry of the map once, in some order.

   broken stands for the end of every promise: HashTable shows when the code
   can get there. *)
EXTENDS Naturals

CONSTANTS Keys, Data, NULL

VARIABLES
  map,      \* map[k]: the data of key k, or NULL
  rest,     \* the keys an iterator has still to return, NULL without iterator
  res,      \* the last result: an outcome, and the key and data it carries
  broken

vars == <<map, rest, res, broken>>

Result(outcome, k, d) == [outcome |-> outcome, key |-> k, data |-> d]

Init ==
  /\ map = [k \in Keys |-> NULL]
  /\ rest = NULL
  /\ res = Result("none", NULL, NULL)
  /\ broken = FALSE

Ready == ~broken /\ rest = NULL

Return(outcome, k, d) == res' = Result(outcome, k, d)

Insert(k, d) ==
  /\ Ready
  /\ IF map[k] # NULL
     THEN Return("exists", k, NULL) /\ map' = map
     ELSE \/ Return("ok", k, NULL) /\ map' = [map EXCEPT ![k] = d]
          \/ Return("no memory", k, NULL) /\ map' = map
  /\ UNCHANGED <<rest, broken>>

Lookup(k) ==
  /\ Ready
  /\ Return(IF map[k] = NULL THEN "absent" ELSE "ok", k, map[k])
  /\ UNCHANGED <<map, rest, broken>>

Remove(k) ==
  /\ Ready
  /\ Return(IF map[k] = NULL THEN "absent" ELSE "ok", k, NULL)
  /\ map' = [map EXCEPT ![k] = NULL]
  /\ UNCHANGED <<rest, broken>>

Replace(k, d) ==
  /\ Ready
  /\ Return(IF map[k] = NULL THEN "absent" ELSE "ok", k, NULL)
  /\ map' = IF map[k] = NULL THEN map ELSE [map EXCEPT ![k] = d]
  /\ UNCHANGED <<rest, broken>>

Clean ==
  /\ Ready
  /\ Return("ok", NULL, NULL)
  /\ map' = [k \in Keys |-> NULL]
  /\ UNCHANGED <<rest, broken>>

IterateInit ==
  /\ Ready
  /\ \/ rest' = {k \in Keys : map[k] # NULL} /\ UNCHANGED res
     \/ Return("no memory", NULL, NULL) /\ UNCHANGED rest
  /\ UNCHANGED <<map, broken>>

Iterate ==
  /\ ~broken /\ rest # NULL
  /\ \/ \E k \in rest : /\ Return("ok", k, map[k])
                        /\ rest' = rest \ {k}
     \/ /\ rest = {}
        /\ Return("end", NULL, NULL)
        /\ rest' = NULL
  /\ UNCHANGED <<map, broken>>

Break == broken' = TRUE /\ UNCHANGED <<map, rest, res>>

Next ==
  \/ \E k \in Keys, d \in Data : Insert(k, d) \/ Replace(k, d)
  \/ \E k \in Keys : Lookup(k) \/ Remove(k)
  \/ Clean \/ IterateInit \/ Iterate \/ Break

Spec == Init /\ [][Next]_vars
=============================================================================
