------------------------------ MODULE HashTable ------------------------------
(* hash.c: an array of buckets, each the head of a chain of further buckets.
   The head is stored in the array itself, the others are allocated one by one.
   primes.c gives the sizes of the array.

   A chain is a sequence of buckets whose first element is the one in the array.
   When the table grows, _hash_table_insert moves every bucket to a new array;
   that loop is modelled bucket by bucket.  A bucket of the old array that is
   linked into a chain of the new one is lost when the old array is freed:
   reading it later is undefined, and the model ends there. *)
EXTENDS Naturals, Sequences, FiniteSets

CONSTANTS
  Keys,      \* keys; equal keys compare equal, no others do
  Data,      \* data
  NULL,      \* the null pointer
  Hash,      \* Hash[k]: the value of the hash callback for key k
  Size0,     \* HASH_SIZE, the size of a new table
  Primes     \* prime_numbers of primes.c, a sequence

MaxOf(a, b) == IF a > b THEN a ELSE b

(* struct hash_bucket; lost: its memory was part of a freed array. *)
Bucket == [key: Keys, data: Data, lost: BOOLEAN]

MaxSize == MaxOf(Size0, Primes[Len(Primes)])
Slots == 0..(MaxSize - 1)
NoChains == [s \in Slots |-> <<>>]

(* The variables of an insertion that is rebuilding the table: the old array and
   its size, and where the two loops over it are (idx and bp). *)
Jobs == [key: Keys, data: Data, old: [Slots -> Seq(Bucket)], slots: Nat,
         slot: Nat, pos: Nat]

(* struct hash_table_iter.  pos = 0: bucket is a null pointer. *)
Iters == [slot: Nat, pos: Nat]

(* Keys are addresses, of which there are finitely many. *)
ASSUME HashAssumption ==
  /\ IsFiniteSet(Keys)
  /\ NULL \notin Keys \cup Data \cup Jobs \cup Iters
  /\ \A some \in SUBSET Keys : some # NULL
  /\ Hash \in [Keys -> Nat]
  /\ Size0 \in Nat \ {0}
  /\ Primes \in Seq(Nat \ {0}) /\ Primes # <<>>
  /\ \A i, j \in DOMAIN Primes : i < j => Primes[i] < Primes[j]

VARIABLES
  size,        \* table->size
  arr,         \* the chains of the slots
  count,       \* table->count
  collision,   \* table->collision
  job,         \* the insertion that is rebuilding the table, or NULL
  iter,        \* an iterator, or NULL
  res,         \* the result of the last call that returned
  status       \* "ok", "destroyed" or "undefined"

table == <<size, arr, count, collision>>
vars == <<table, job, iter, res, status>>

TypeOK ==
  /\ size \in 1..MaxSize
  /\ arr \in [Slots -> Seq(Bucket)]
  /\ count \in 0..Cardinality(Keys)
  /\ collision \in 0..Cardinality(Keys)
  /\ job \in Jobs \cup {NULL}
  /\ iter \in Iters \cup {NULL}
  /\ status \in {"ok", "destroyed", "undefined"}

Result(code, k, d) == [code |-> code, key |-> k, data |-> d]

(* hash_table_new with no hint *)
Init ==
  /\ size = Size0
  /\ arr = NoChains
  /\ count = 0
  /\ collision = 0
  /\ job = NULL
  /\ iter = NULL
  /\ res = Result("none", NULL, NULL)
  /\ status = "ok"

-----------------------------------------------------------------------------
Slot(k) == Hash[k] % size

(* prime_nearest *)
PrimeNearest(n) ==
  LET fits == {p \in {Primes[i] : i \in DOMAIN Primes} : n <= p}
  IN IF fits = {} THEN Primes[Len(Primes)]
     ELSE CHOOSE p \in fits : \A q \in fits : p <= q

(* COLLISION_RATE(table) <= 2.0; with collision = 0 the float division gives an
   infinity or not a number, which is never below the limit. *)
TooManyCollisions == collision > 0 /\ count <= 2 * collision

(* The positions at which a walk along a chain stops: the key was found, the
   memory is lost, or - position Len + 1 - the chain has ended. *)
Stop(chain, k) ==
  CHOOSE i \in 1..(Len(chain) + 1) :
    /\ i = Len(chain) + 1 \/ chain[i].key = k \/ chain[i].lost
    /\ \A j \in 1..(i - 1) : chain[j].key # k /\ ~chain[j].lost

HitsLost(chain, k) ==
  LET i == Stop(chain, k) IN i <= Len(chain) /\ chain[i].lost

Position(chain, k) ==
  LET i == Stop(chain, k) IN IF i <= Len(chain) THEN i ELSE 0

LostSlots == {s \in Slots : \E i \in DOMAIN arr[s] : arr[s][i].lost}

(* A new bucket comes right after the head. *)
Link(chain, b) == IF chain = <<>> THEN <<b>> ELSE <<chain[1], b>> \o Tail(chain)

Unlink(chain, i) == SubSeq(chain, 1, i - 1) \o SubSeq(chain, i + 1, Len(chain))

-----------------------------------------------------------------------------
Ready == status = "ok" /\ job = NULL /\ iter = NULL

Return(code, k, d) == res' = Result(code, k, d)

Undefined ==
  /\ status' = "undefined"
  /\ UNCHANGED <<table, job, iter, res>>

(* The end of _hash_table_insert: the bucket is stored; unless the slot is
   empty it has to be allocated, which may fail. *)
StoreUncounted(k, d) ==
  LET s == Slot(k)
  IN \/ /\ arr' = [arr EXCEPT ![s] = Link(@, [key |-> k, data |-> d, lost |-> FALSE])]
        /\ count' = count + 1
        /\ UNCHANGED collision
        /\ Return("ret_ok", k, NULL)
     \/ /\ arr[s] # <<>>
        /\ Return("ret_out_of_memory", k, NULL)
        /\ UNCHANGED <<arr, count, collision>>

Store(k, d) ==
  LET s == Slot(k)
  IN \/ /\ arr' = [arr EXCEPT ![s] = Link(@, [key |-> k, data |-> d, lost |-> FALSE])]
        /\ count' = count + 1
        /\ collision' = collision + (IF arr[s] = <<>> THEN 0 ELSE 1)
        /\ Return("ret_ok", k, NULL)
     \/ /\ arr[s] # <<>>
        /\ Return("ret_out_of_memory", k, NULL)
        /\ UNCHANGED <<arr, count, collision>>

(* _hash_table_insert up to the loop: without too many collisions the bucket is
   stored at once; otherwise an array of the next prime size is allocated, and
   the loop is going to read every bucket of the old one. *)
BeginInsert(k, d) ==
  \/ /\ ~TooManyCollisions
     /\ Store(k, d)
     /\ UNCHANGED <<size, job, iter, status>>
  \/ /\ TooManyCollisions
     /\ Return("ret_out_of_memory", k, NULL)
     /\ UNCHANGED <<table, job, iter, status>>
  \/ /\ TooManyCollisions /\ LostSlots # {}
     /\ Undefined
  \/ /\ TooManyCollisions /\ LostSlots = {}
     /\ job' = [key |-> k, data |-> d, old |-> arr, slots |-> size,
                slot |-> 0, pos |-> 1]
     /\ size' = PrimeNearest(size + 1)
     /\ arr' = NoChains
     /\ collision' = 0
     /\ UNCHANGED <<count, iter, res, status>>

Repopulating == status = "ok" /\ job # NULL /\ job.slot < job.slots

(* The chain of the old array that the outer loop is at. *)
OldChain == job.old[job.slot]

(* A loop that only goes on after copying a bucket. *)
MoveStalls ==
  /\ Repopulating /\ job.pos <= Len(OldChain)
  /\ LET b == OldChain[job.pos]
         s == Slot(b.key)
     IN /\ arr[s] = <<>>
        /\ arr' = [arr EXCEPT ![s] = Link(@, [b EXCEPT !.lost = FALSE])]
  /\ job' = [job EXCEPT !.pos = @ + 1]
  /\ UNCHANGED <<size, count, collision, iter, res, status>>

(* One turn of the inner loop.  A bucket whose new slot is empty is copied into
   the new array; any other is linked, also the first of its chain, which lies
   in the old array. *)
Move ==
  /\ Repopulating /\ job.pos <= Len(OldChain)
  /\ LET b == OldChain[job.pos]
         s == Slot(b.key)
         linked == arr[s] # <<>>
     IN /\ arr' = [arr EXCEPT ![s] =
                     Link(@, [b EXCEPT !.lost = linked /\ job.pos = 1])]
        /\ collision' = collision + (IF linked THEN 1 ELSE 0)
  /\ job' = [job EXCEPT !.pos = @ + 1]
  /\ UNCHANGED <<size, count, iter, res, status>>

(* The outer loop goes on after the last bucket of a chain or an empty slot. *)
NextSlot ==
  /\ Repopulating /\ job.pos > Len(OldChain)
  /\ job' = [job EXCEPT !.slot = @ + 1, !.pos = 1]
  /\ UNCHANGED <<table, iter, res, status>>

(* The old array is freed and the new bucket is stored. *)
EndInsert ==
  /\ status = "ok" /\ job # NULL /\ job.slot = job.slots
  /\ Store(job.key, job.data)
  /\ job' = NULL
  /\ UNCHANGED <<size, iter, status>>

(* Inserting without looking for the key first. *)
InsertUniqueUnchecked(k, d) == Ready /\ BeginInsert(k, d)

(* hash_table_insert_unique *)
InsertUnique(k, d) ==
  /\ Ready
  /\ IF HitsLost(arr[Slot(k)], k) THEN Undefined
     ELSE IF Position(arr[Slot(k)], k) > 0
     THEN Return("ret_entry_exists", k, NULL) /\ UNCHANGED <<table, job, iter, status>>
     ELSE BeginInsert(k, d)

(* hash_table_lookup: an empty slot and a chain without the key have different
   return values. *)
Lookup(k) ==
  /\ Ready
  /\ LET chain == arr[Slot(k)]
         i == Position(chain, k)
     IN IF HitsLost(chain, k) THEN Undefined
        ELSE /\ IF chain = <<>> THEN Return("ret_not_found", k, NULL)
                ELSE IF i > 0 THEN Return("ret_ok", k, chain[i].data)
                ELSE Return("ret_err", k, NULL)
             /\ UNCHANGED <<table, job, iter, status>>

(* A removal that always takes one collision off. *)
RemoveUncounted(k) ==
  /\ Ready
  /\ LET s == Slot(k)
         i == Position(arr[s], k)
     IN /\ ~HitsLost(arr[s], k)
        /\ i > 0
        /\ arr' = [arr EXCEPT ![s] = Unlink(@, i)]
        /\ Return("TRUE", k, NULL)
  /\ count' = count - 1
  /\ collision' = collision - 1
  /\ UNCHANGED <<size, job, iter, status>>

(* hash_table_remove.  Removing the head moves the second bucket into the array
   and frees it, which is undefined if its memory is lost. *)
Remove(k) ==
  /\ Ready
  /\ LET s == Slot(k)
         i == Position(arr[s], k)
     IN IF HitsLost(arr[s], k) \/ (i = 1 /\ Len(arr[s]) > 1 /\ arr[s][2].lost)
        THEN Undefined
        ELSE /\ IF i = 0
                THEN Return("FALSE", k, NULL) /\ UNCHANGED table
                ELSE /\ arr' = [arr EXCEPT ![s] = Unlink(@, i)]
                     /\ count' = count - 1
                     /\ collision' = collision - (IF Len(arr[s]) > 1 THEN 1 ELSE 0)
                     /\ Return("TRUE", k, NULL)
                     /\ UNCHANGED size
             /\ UNCHANGED <<job, iter, status>>

(* A replacement that writes to the head of the chain. *)
ReplaceHead(k, d) ==
  /\ Ready
  /\ LET s == Slot(k)
     IN /\ Position(arr[s], k) > 0 /\ ~HitsLost(arr[s], k)
        /\ arr' = [arr EXCEPT ![s][1].data = d]
  /\ Return("TRUE", k, NULL)
  /\ UNCHANGED <<size, count, collision, job, iter, status>>

(* hash_table_replace *)
Replace(k, d) ==
  /\ Ready
  /\ LET s == Slot(k)
         i == Position(arr[s], k)
     IN IF HitsLost(arr[s], k) THEN Undefined
        ELSE /\ IF i = 0
                THEN Return("FALSE", k, NULL) /\ arr' = arr
                ELSE /\ Return("TRUE", k, NULL)
                     /\ arr' = [arr EXCEPT ![s][i].data = d]
             /\ UNCHANGED <<size, count, collision, job, iter, status>>

(* hash_table_clean *)
Clean ==
  /\ Ready
  /\ IF LostSlots # {} THEN Undefined
     ELSE /\ arr' = NoChains
          /\ count' = 0
          /\ collision' = 0
          /\ Return("void", NULL, NULL)
          /\ UNCHANGED <<size, job, iter, status>>

(* hash_table_destroy *)
Destroy ==
  /\ Ready
  /\ IF LostSlots # {} THEN Undefined
     ELSE status' = "destroyed" /\ UNCHANGED <<table, job, iter, res>>

-----------------------------------------------------------------------------
(* hash_table_iterate_init; the allocation of the iterator may fail.  pos = 0:
   iter->bucket is a null pointer. *)
IterateInit ==
  /\ Ready
  /\ \/ iter' = [slot |-> 0, pos |-> 0] /\ UNCHANGED res
     \/ Return("NULL", NULL, NULL) /\ UNCHANGED iter
  /\ UNCHANGED <<table, job, status>>

(* The first non-empty slot from s on; size if there is none. *)
SkipTo(s) ==
  CHOOSE n \in s..size :
    /\ n = size \/ arr[n] # <<>>
    /\ \A m \in s..(n - 1) : arr[m] = <<>>

Here == IF iter.pos = 0 THEN [slot |-> SkipTo(iter.slot), pos |-> 1] ELSE iter

(* An iterator that forgets to go to the next slot after a chain. *)
AdvanceSkipping(at) == [slot |-> at.slot + 1, pos |-> 0]

(* The iterator moves along the chain, and at its end to the next slot. *)
Advance(at) ==
  IF at.pos < Len(arr[at.slot]) THEN [at EXCEPT !.pos = @ + 1]
  ELSE [slot |-> at.slot + 1, pos |-> 0]

(* hash_table_iterate; a caller that gets FALSE releases the iterator. *)
Iterate ==
  /\ status = "ok" /\ iter # NULL
  /\ IF Here.slot = size
     THEN iter' = NULL /\ Return("FALSE", NULL, NULL) /\ UNCHANGED status
     ELSE LET b == arr[Here.slot][Here.pos]
          IN IF b.lost
             THEN status' = "undefined" /\ UNCHANGED <<iter, res>>
             ELSE /\ iter' = Advance(Here)
                  /\ Return("TRUE", b.key, b.data)
                  /\ UNCHANGED status
  /\ UNCHANGED <<table, job>>

Next ==
  \/ \E k \in Keys, d \in Data : InsertUnique(k, d) \/ Replace(k, d)
  \/ \E k \in Keys : Lookup(k) \/ Remove(k)
  \/ Clean \/ Destroy
  \/ Move \/ NextSlot \/ EndInsert
  \/ IterateInit \/ Iterate

(* The loops of _hash_table_insert run to their end: nothing can stop them. *)
Spec == Init /\ [][Next]_vars /\ WF_vars(Move \/ NextSlot \/ EndInsert)

-----------------------------------------------------------------------------
(* Properties. *)

(* The buckets of an array, each as its slot and its position. *)
CellsOf(a) == UNION {{s} \X DOMAIN a[s] : s \in Slots}

Cells == CellsOf(arr)

(* Those that a walk along the chains meets from a given place on. *)
CellsFrom(a, slot, pos) ==
  {c \in CellsOf(a) : c[1] > slot \/ (c[1] = slot /\ c[2] >= pos)}

(* The buckets of the old array that the loops have still to reach. *)
Waiting == IF job = NULL THEN {} ELSE CellsFrom(job.old, job.slot, job.pos)

(* The counters that decide when the table grows are right in every state:
   count is the number of buckets and collision the number of those that are
   not in the array itself, after any mixture of insertions, removals, failed
   allocations and rebuildings. *)
Accounting ==
  /\ count = Cardinality(Cells) + Cardinality(Waiting)
  /\ collision = Cardinality({c \in Cells : c[2] > 1})

(* Every bucket is in the slot its key hashes to for the current size, and no
   key is in two buckets, so a walk along one chain decides whether a key is
   present; this must survive the change of the size (hash_table_lookup,
   hash_table_remove and hash_table_insert_unique rely on it). *)
KeysPlaced ==
  /\ \A c \in Cells : Slot(arr[c[1]][c[2]].key) = c[1]
  /\ \A c, d \in Cells : arr[c[1]][c[2]].key = arr[d[1]][d[2]].key => c = d
  /\ \A w \in Waiting, c \in Cells : arr[c[1]][c[2]].key # job.old[w[1]][w[2]].key

(* Repopulating the new table leaves no bucket of it in the array that is freed
   (the end of the loop in _hash_table_insert). *)
NothingLost == job = NULL => LostSlots = {}

(* An insertion that has begun to rebuild the table comes to its end. *)
InsertEnds == job # NULL ~> job = NULL

(* The map of hash.h.  Buckets that wait to be moved still belong to it; so do
   lost ones as long as nobody reads them. *)
EntriesAt(a, cells) ==
  {[key |-> a[c[1]][c[2]].key, data |-> a[c[1]][c[2]].data] : c \in cells}

Entries == EntriesAt(arr, Cells) \cup EntriesAt(job.old, Waiting)

MapOf(entries) ==
  [k \in Keys |-> IF \E e \in entries : e.key = k
                  THEN (CHOOSE e \in entries : e.key = k).data
                  ELSE NULL]

Contents == MapOf(Entries)

(* The keys that an iterator has still to return. *)
Unvisited ==
  IF iter = NULL THEN NULL
  ELSE {arr[c[1]][c[2]].key : c \in CellsFrom(arr, iter.slot, iter.pos)}

Outcome ==
  CASE res.code \in {"ret_ok", "TRUE", "void"}              -> "ok"
    [] res.code \in {"ret_not_found", "ret_err"}            -> "absent"
    [] res.code = "FALSE"            -> IF res.key = NULL THEN "end" ELSE "absent"
    [] res.code = "ret_entry_exists"                        -> "exists"
    [] res.code \in {"ret_out_of_memory", "NULL"}           -> "no memory"
    [] res.code = "none"                                    -> "none"

D == INSTANCE Dict WITH
       map <- Contents, rest <- Unvisited, broken <- status = "undefined",
       res <- [outcome |-> Outcome, key |-> res.key, data |-> res.data]

(* The hash table is the map of hash.h, through growth, failed allocations and
   complete iterations, up to the first use of a lost bucket. *)
IsDict == D!Spec
=============================================================================
