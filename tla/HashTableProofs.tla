--------------------------- MODULE HashTableProofs ---------------------------
(* Proofs about module HashTable, for every finite set of keys, every hash
   function and every list of sizes. *)
EXTENDS HashTable, SequenceTheorems, FunctionTheorems, FiniteSetTheorems,
        WellFoundedInduction, TLAPS

-----------------------------------------------------------------------------
(* Chains. *)

(* A chain has a length, and its elements are buckets. *)
LEMMA ChainFacts ==
  ASSUME NEW S, NEW chain \in Seq(S)
  PROVE  /\ Len(chain) \in Nat
         /\ DOMAIN chain = 1..Len(chain)
         /\ \A i \in 1..Len(chain) : chain[i] \in S
         /\ chain = <<>> <=> Len(chain) = 0
BY EmptySeq, LenProperties, ElementOfSeq

BehindHead(new, chain, b) ==
  /\ chain = <<>> => new[1] = b
  /\ chain # <<>> => /\ new[1] = chain[1]
                     /\ new[2] = b
                     /\ \A i \in 2..Len(chain) : new[i + 1] = chain[i]

(* Where the buckets are after a bucket has been linked behind the head. *)
LEMMA LinkProperties ==
  ASSUME NEW S, NEW chain \in Seq(S), NEW b \in S
  PROVE  /\ Link(chain, b) \in Seq(S)
         /\ Len(Link(chain, b)) = Len(chain) + 1
         /\ BehindHead(Link(chain, b), chain, b)
<1>1. CASE chain = <<>>
  BY <1>1 DEF Link, BehindHead
<1>2. CASE chain # <<>>
  <2> DEFINE front == <<chain[1], b>>
  <2>1. /\ Tail(chain) \in Seq(S)
        /\ Len(Tail(chain)) = Len(chain) - 1
        /\ \A i \in 1..(Len(chain) - 1) : Tail(chain)[i] = chain[i + 1]
    BY <1>2, HeadTailProperties
  <2>2. Len(chain) \in Nat \ {0} /\ chain[1] \in S
    BY <1>2, ChainFacts
  <2>3. front \in Seq(S) /\ Len(front) = 2 /\ front[1] = chain[1] /\ front[2] = b
    BY <2>2
  <2> HIDE DEF front
  <2>4. /\ front \o Tail(chain) \in Seq(S)
        /\ Len(front \o Tail(chain)) = Len(chain) + 1
        /\ \A i \in 1..(Len(chain) + 1) : (front \o Tail(chain))[i] =
              IF i <= 2 THEN front[i] ELSE Tail(chain)[i - 2]
    <3>1. /\ front \o Tail(chain) \in Seq(S)
          /\ Len(front \o Tail(chain)) = Len(front) + Len(Tail(chain))
          /\ \A i \in 1..(Len(front) + Len(Tail(chain))) :
                (front \o Tail(chain))[i] =
                  IF i <= Len(front) THEN front[i] ELSE Tail(chain)[i - Len(front)]
      BY <2>1, <2>3, ConcatProperties
    <3>2. Len(front) + Len(Tail(chain)) = Len(chain) + 1
      BY <2>1, <2>2, <2>3
    <3> QED BY <3>1, <3>2, <2>3
  <2>5. Link(chain, b) = front \o Tail(chain)
    BY <1>2 DEF Link, front
  <2>6. \A i \in 2..Len(chain) : (front \o Tail(chain))[i + 1] = chain[i]
    <3> TAKE i \in 2..Len(chain)
    <3>1. /\ i + 1 \in 1..(Len(chain) + 1) /\ ~(i + 1 <= 2)
          /\ (i + 1) - 2 = i - 1 /\ i - 1 \in 1..(Len(chain) - 1) /\ (i - 1) + 1 = i
      BY <2>2
    <3> QED BY <3>1, <2>1, <2>4
  <2>7. BehindHead(front \o Tail(chain), chain, b)
    BY <1>2, <2>2, <2>3, <2>4, <2>6 DEF BehindHead
  <2> QED BY <2>4, <2>5, <2>7
<1> QED BY <1>1, <1>2

(* Where they are after one has been taken out. *)
LEMMA UnlinkProperties ==
  ASSUME NEW S, NEW chain \in Seq(S), NEW i \in 1..Len(chain)
  PROVE  /\ Unlink(chain, i) \in Seq(S)
         /\ Len(Unlink(chain, i)) = Len(chain) - 1
         /\ \A j \in 1..(Len(chain) - 1) :
              Unlink(chain, i)[j] = chain[IF j < i THEN j ELSE j + 1]
<1> DEFINE n == Len(chain)
           front == SubSeq(chain, 1, i - 1)
           back == SubSeq(chain, i + 1, n)
<1>1. n \in Nat /\ i \in 1..n /\ \A j \in 1..n : chain[j] \in S
  BY ChainFacts
<1>2. /\ front \in Seq(S) /\ Len(front) = i - 1
      /\ \A j \in 1..(i - 1) : front[j] = chain[j]
  BY <1>1, SubSeqProperties
<1>3. /\ back \in Seq(S) /\ Len(back) = n - i
      /\ \A j \in 1..(n - i) : back[j] = chain[i + j]
  BY <1>1, SubSeqProperties
<1> HIDE DEF front, back
<1>4. /\ front \o back \in Seq(S)
      /\ Len(front \o back) = n - 1
      /\ \A j \in 1..(n - 1) : (front \o back)[j] =
            IF j <= i - 1 THEN front[j] ELSE back[j - (i - 1)]
  <2>1. /\ front \o back \in Seq(S)
        /\ Len(front \o back) = Len(front) + Len(back)
        /\ \A j \in 1..(Len(front) + Len(back)) : (front \o back)[j] =
              IF j <= Len(front) THEN front[j] ELSE back[j - Len(front)]
    BY <1>2, <1>3, ConcatProperties
  <2>2. Len(front) + Len(back) = n - 1
    BY <1>1, <1>2, <1>3
  <2> QED BY <2>1, <2>2, <1>2
<1>5. \A j \in 1..(n - 1) : (front \o back)[j] = chain[IF j < i THEN j ELSE j + 1]
  <2> TAKE j \in 1..(n - 1)
  <2>1. CASE j < i
    BY <1>1, <1>2, <1>4, <2>1
  <2>2. CASE ~(j < i)
    <3>1. j - (i - 1) \in 1..(n - i) /\ i + (j - (i - 1)) = j + 1 /\ ~(j <= i - 1)
      BY <1>1, <2>2
    <3> QED BY <3>1, <2>2, <1>3, <1>4
  <2> QED BY <2>1, <2>2
<1>6. Unlink(chain, i) = front \o back
  BY DEF Unlink, front, back
<1> QED BY <1>4, <1>5, <1>6

-----------------------------------------------------------------------------
(* Arrays of chains. *)

Arrays == [Slots -> Seq(Bucket)]

Pairs == [key: Keys, data: Data]

(* The slot of a key in an array of n slots. *)
Home(k, n) == Hash[k] % n

(* In an array of n slots every key is in its slot, and in one bucket only. *)
PlacedIn(a, n) ==
  \A s \in Slots : \A i \in DOMAIN a[s] :
    /\ Home(a[s][i].key, n) = s
    /\ \A j \in DOMAIN a[s] : a[s][i].key = a[s][j].key => i = j

PairOf(b) == [key |-> b.key, data |-> b.data]

AllEntries(a) == EntriesAt(a, CellsOf(a))

HasKey(entries, k) == \E e \in entries : e.key = k

Others(entries, k) == {e \in entries : e.key # k}

UniqueKeys(entries) == \A e, f \in entries : e.key = f.key => e = f

(* The buckets behind a head; they are the collisions. *)
Chained(a) == {c \in CellsOf(a) : c[2] > 1}

(* The cells of an array are the positions of its chains. *)
LEMMA CellsIff ==
  ASSUME NEW a \in Arrays
  PROVE  /\ \A s \in Slots : \A i : <<s, i>> \in CellsOf(a) <=> i \in 1..Len(a[s])
         /\ \A c \in CellsOf(a) : /\ c = <<c[1], c[2]>>
                                  /\ c[1] \in Slots
                                  /\ c[2] \in 1..Len(a[c[1]])
<1>1. \A s \in Slots : DOMAIN a[s] = 1..Len(a[s])
  BY ChainFacts DEF Arrays
<1>2. \A c : c \in CellsOf(a) <=> \E s \in Slots : c \in {s} \X DOMAIN a[s]
  BY DEF CellsOf
<1> QED BY <1>1, <1>2

(* The entries of an array are the contents of its chains. *)
LEMMA EntriesIff ==
  ASSUME NEW a \in Arrays
  PROVE  /\ AllEntries(a) \in SUBSET Pairs
         /\ \A s \in Slots : \A i \in 1..Len(a[s]) : PairOf(a[s][i]) \in AllEntries(a)
         /\ \A e \in AllEntries(a) :
              \E s \in Slots : \E i \in 1..Len(a[s]) : e = PairOf(a[s][i])
<1>1. \A s \in Slots : a[s] \in Seq(Bucket) /\ \A i \in 1..Len(a[s]) : a[s][i] \in Bucket
  BY ChainFacts DEF Arrays
<1>2. \A b \in Bucket : PairOf(b) \in Pairs
  BY DEF Bucket, PairOf, Pairs
<1>3. \A e : e \in AllEntries(a) <=> \E c \in CellsOf(a) : e = PairOf(a[c[1]][c[2]])
  BY DEF AllEntries, EntriesAt, PairOf
<1>4. \A s \in Slots : \A i \in 1..Len(a[s]) : PairOf(a[s][i]) \in AllEntries(a)
  <2> TAKE s \in Slots
  <2> TAKE i \in 1..Len(a[s])
  <2>1. <<s, i>> \in CellsOf(a) /\ <<s, i>>[1] = s /\ <<s, i>>[2] = i
    BY CellsIff
  <2> QED BY <2>1, <1>3
<1>5. \A e \in AllEntries(a) :
        \E s \in Slots : \E i \in 1..Len(a[s]) : e = PairOf(a[s][i])
  BY <1>3, CellsIff
<1>6. \A e \in AllEntries(a) : e \in Pairs
  BY <1>1, <1>2, <1>5
<1> QED BY <1>4, <1>5, <1>6

(* In a placed array no two entries have the same key. *)
LEMMA PlacedUnique ==
  ASSUME NEW a \in Arrays, NEW n, PlacedIn(a, n)
  PROVE  UniqueKeys(AllEntries(a))
<1> SUFFICES ASSUME NEW e \in AllEntries(a), NEW f \in AllEntries(a), e.key = f.key
             PROVE  e = f
  BY DEF UniqueKeys
<1>1. PICK s \in Slots : \E i \in 1..Len(a[s]) : e = PairOf(a[s][i])
  BY EntriesIff
<1>2. PICK i \in 1..Len(a[s]) : e = PairOf(a[s][i])
  BY <1>1
<1>3. PICK t \in Slots : \E j \in 1..Len(a[t]) : f = PairOf(a[t][j])
  BY EntriesIff
<1>4. PICK j \in 1..Len(a[t]) : f = PairOf(a[t][j])
  BY <1>3
<1>5. e.key = a[s][i].key /\ f.key = a[t][j].key
  BY <1>2, <1>4 DEF PairOf
<1>6. DOMAIN a[s] = 1..Len(a[s]) /\ DOMAIN a[t] = 1..Len(a[t])
  BY ChainFacts DEF Arrays
<1>7. Home(a[s][i].key, n) = s /\ Home(a[t][j].key, n) = t
  BY <1>6 DEF PlacedIn
<1>8. s = t
  BY <1>5, <1>7
<1>9. i = j
  BY <1>5, <1>6, <1>8 DEF PlacedIn
<1> QED BY <1>2, <1>4, <1>8, <1>9

(* In a placed array no two cells hold the same key. *)
LEMMA CellKeys ==
  ASSUME NEW a \in Arrays, NEW n, PlacedIn(a, n),
         NEW c \in CellsOf(a), NEW d \in CellsOf(a),
         a[c[1]][c[2]].key = a[d[1]][d[2]].key
  PROVE  c = d
<1>1. /\ c = <<c[1], c[2]>> /\ c[1] \in Slots /\ c[2] \in 1..Len(a[c[1]])
      /\ d = <<d[1], d[2]>> /\ d[1] \in Slots /\ d[2] \in 1..Len(a[d[1]])
  BY CellsIff
<1>2. \A s \in Slots : DOMAIN a[s] = 1..Len(a[s])
  BY ChainFacts DEF Arrays
<1>3. c[1] = d[1]
  BY <1>1, <1>2 DEF PlacedIn
<1>4. c[2] = d[2]
  BY <1>1, <1>2, <1>3 DEF PlacedIn
<1> QED BY <1>1, <1>3, <1>4

(* A placed array has at most as many buckets as there are keys. *)
LEMMA CellsFinite ==
  ASSUME NEW a \in Arrays, NEW n, PlacedIn(a, n)
  PROVE  /\ IsFiniteSet(CellsOf(a))
         /\ Cardinality(CellsOf(a)) \in Nat
         /\ IsFiniteSet(Chained(a))
         /\ Cardinality(Chained(a)) \in Nat
         /\ Cardinality(Chained(a)) <= Cardinality(CellsOf(a))
         /\ Cardinality(CellsOf(a)) <= Cardinality(Keys)
<1> DEFINE f == [c \in CellsOf(a) |-> a[c[1]][c[2]].key]
<1>1. f \in [CellsOf(a) -> Keys]
  <2> SUFFICES ASSUME NEW c \in CellsOf(a)
               PROVE  a[c[1]][c[2]].key \in Keys
    OBVIOUS
  <2>1. c[1] \in Slots /\ c[2] \in 1..Len(a[c[1]])
    BY CellsIff
  <2>2. a[c[1]][c[2]] \in Bucket
    BY <2>1, ChainFacts DEF Arrays
  <2> QED BY <2>2 DEF Bucket
<1>2. \A c, d \in CellsOf(a) : f[c] = f[d] => c = d
  BY CellKeys
<1> HIDE DEF f
<1>3. f \in Injection(CellsOf(a), Keys)
  BY <1>1, <1>2, Fun_IsInj
<1>4. IsFiniteSet(CellsOf(a)) /\ Cardinality(CellsOf(a)) <= Cardinality(Keys)
  BY <1>3, FS_Injection, HashAssumption
<1>5. Chained(a) \in SUBSET CellsOf(a)
  BY DEF Chained
<1> QED BY <1>4, <1>5, FS_Subset, FS_CardinalityType

Distinct(chain) ==
  \A i, j \in 1..Len(chain) : chain[i].key = chain[j].key => i = j

With(new, chain, b) ==
  /\ \A i \in 1..Len(new) : new[i] = b \/ \E j \in 1..Len(chain) : new[i] = chain[j]
  /\ \E i \in 1..Len(new) : new[i] = b
  /\ \A j \in 1..Len(chain) : \E i \in 1..Len(new) : new[i] = chain[j]

(* Linking a bucket with a new key leaves the keys of a chain unique, and adds
   that bucket and no other. *)
LEMMA LinkKeys ==
  ASSUME NEW chain \in Seq(Bucket), NEW b \in Bucket,
         Distinct(chain), \A i \in 1..Len(chain) : chain[i].key # b.key,
         NEW new, new = Link(chain, b)
  PROVE  Distinct(new) /\ With(new, chain, b)
<1> DEFINE n == Len(chain)
<1>1. n \in Nat /\ (chain = <<>> <=> n = 0)
  BY ChainFacts
<1>2. /\ n = 0 => new[1] = b
      /\ n # 0 => /\ new[1] = chain[1]
                  /\ new[2] = b
                  /\ \A i \in 2..n : new[i + 1] = chain[i]
  <2>1. BehindHead(new, chain, b)
    BY LinkProperties
  <2> QED BY <1>1, <2>1 DEF BehindHead
<1>len. Len(new) = n + 1
  BY LinkProperties
<1> HIDE DEF n
<1>3. \A i \in 3..(n + 1) : n # 0 /\ i - 1 \in 2..n /\ new[i] = chain[i - 1]
  <2> TAKE i \in 3..(n + 1)
  <2>1. n # 0 /\ i - 1 \in 2..n /\ (i - 1) + 1 = i
    BY <1>1
  <2> QED BY <2>1, <1>2
<1>4. \A i, j \in 1..n : chain[i].key = chain[j].key => i = j
  BY DEF n, Distinct
<1>5. \A i \in 1..n : chain[i].key # b.key
  BY DEF n
<1>6. CASE n = 0
  <2>1. Distinct(new)
    BY <1>len, <1>6 DEF Distinct
  <2>2. With(new, chain, b)
    BY <1>len, <1>2, <1>6 DEF With, n
  <2> QED BY <2>1, <2>2
<1>7. CASE n # 0
  <2>1. \A i \in 1..(n + 1) : i = 1 \/ i = 2 \/ i \in 3..(n + 1)
    BY <1>1
  <2>2. \A i, j \in 1..(n + 1) : new[i].key = new[j].key => i = j
    <3> SUFFICES ASSUME NEW i \in 1..(n + 1), NEW j \in 1..(n + 1), new[i].key = new[j].key
                 PROVE  i = j
      OBVIOUS
    <3>1. 1 \in 1..n
      BY <1>1, <1>7
    <3>2. i = 2 <=> j = 2
      BY <1>2, <1>3, <1>5, <1>7, <2>1, <3>1
    <3>3. CASE i # 2 /\ j # 2
      <4> DEFINE at(m) == IF m = 1 THEN 1 ELSE m - 1
      <4>1. \A m \in 1..(n + 1) : m # 2 => at(m) \in 1..n /\ new[m] = chain[at(m)]
        BY <1>2, <1>3, <1>7, <2>1, <3>1, <1>1
      <4>2. at(i) = at(j)
        BY <4>1, <3>3, <1>4
      <4> QED BY <4>2, <3>3, <1>1
    <3> QED BY <3>2, <3>3
  <2>3. \A i \in 1..(n + 1) : new[i] = b \/ \E j \in 1..n : new[i] = chain[j]
    <3> TAKE i \in 1..(n + 1)
    <3>1. CASE i = 1
      BY <1>1, <1>2, <1>7, <3>1
    <3>2. CASE i = 2
      BY <1>2, <1>7, <3>2
    <3>3. CASE i \in 3..(n + 1)
      BY <1>1, <1>3, <3>3
    <3> QED BY <2>1, <3>1, <3>2, <3>3
  <2>4. 2 \in 1..(n + 1) /\ new[2] = b
    BY <1>1, <1>2, <1>7
  <2>5. \A j \in 1..n : \E i \in 1..(n + 1) : new[i] = chain[j]
    <3> TAKE j \in 1..n
    <3>1. CASE j = 1
      BY <1>1, <1>2, <1>7, <3>1
    <3>2. CASE j # 1
      <4>1. j \in 2..n /\ j + 1 \in 1..(n + 1)
        BY <1>1, <3>2
      <4> QED BY <4>1, <1>2, <1>7
    <3> QED BY <3>1, <3>2
  <2>6. Distinct(new)
    BY <2>2, <1>len DEF Distinct
  <2>7. With(new, chain, b)
    BY <2>3, <2>4, <2>5, <1>len DEF With, n
  <2> QED BY <2>6, <2>7
<1> QED BY <1>6, <1>7

Without(new, chain, i) ==
  /\ \A j \in 1..Len(new) : \E m \in 1..Len(chain) : m # i /\ new[j] = chain[m]
  /\ \A m \in 1..Len(chain) : m # i => \E j \in 1..Len(new) : new[j] = chain[m]

(* Taking a bucket out of a chain with unique keys leaves the others. *)
LEMMA UnlinkKeys ==
  ASSUME NEW chain \in Seq(Bucket), NEW i \in 1..Len(chain),
         Distinct(chain),
         NEW new, new = Unlink(chain, i)
  PROVE  Distinct(new) /\ Without(new, chain, i)
<1> DEFINE n == Len(chain)
           at(j) == IF j < i THEN j ELSE j + 1
<1>1. n \in Nat /\ i \in 1..n
  BY ChainFacts
<1>2. \A j \in 1..(n - 1) : new[j] = chain[at(j)]
  BY UnlinkProperties
<1>3. \A j \in 1..(n - 1) : at(j) \in 1..n /\ at(j) # i
  BY <1>1
<1>4. \A j, m \in 1..(n - 1) : at(j) = at(m) => j = m
  BY <1>1
<1>5. \A m \in 1..n : m # i => \E j \in 1..(n - 1) : at(j) = m
  <2> SUFFICES ASSUME NEW m \in 1..n, m # i
               PROVE  \E j \in 1..(n - 1) : at(j) = m
    OBVIOUS
  <2>1. CASE m < i
    <3>1. m \in 1..(n - 1) /\ at(m) = m
      BY <1>1, <2>1
    <3> QED BY <3>1
  <2>2. CASE ~(m < i)
    <3>1. m - 1 \in 1..(n - 1) /\ at(m - 1) = m
      BY <1>1, <2>2
    <3> QED BY <3>1
  <2> QED BY <2>1, <2>2
<1> HIDE DEF at
<1>6. Distinct(new)
  <2>1. \A m, j \in 1..n : chain[m].key = chain[j].key => m = j
    BY DEF Distinct
  <2>2. Len(new) = n - 1
    BY UnlinkProperties
  <2>3. \A m, j \in 1..(n - 1) : new[m].key = new[j].key => m = j
    BY <2>1, <1>2, <1>3, <1>4
  <2> HIDE DEF n
  <2> QED BY <2>2, <2>3 DEF Distinct
<1>7. \A j \in 1..(n - 1) : \E m \in 1..n : m # i /\ new[j] = chain[m]
  BY <1>2, <1>3
<1>8. \A m \in 1..n : m # i => \E j \in 1..(n - 1) : new[j] = chain[m]
  BY <1>2, <1>5
<1>9. Len(new) = n - 1
  BY UnlinkProperties
<1> HIDE DEF n
<1>10. Without(new, chain, i)
  BY <1>7, <1>8, <1>9 DEF Without, n
<1> QED BY <1>6, <1>10

-----------------------------------------------------------------------------
(* What the three ways of writing to an array do to its cells and entries. *)

(* The length of a chain is what its cells depend on. *)
LEMMA ChainKeys ==
  ASSUME NEW a \in Arrays, NEW n, PlacedIn(a, n), NEW s \in Slots
  PROVE  /\ a[s] \in Seq(Bucket)
         /\ Len(a[s]) \in Nat
         /\ DOMAIN a[s] = 1..Len(a[s])
         /\ a[s] = <<>> <=> Len(a[s]) = 0
         /\ \A i \in 1..Len(a[s]) : a[s][i] \in Bucket /\ Home(a[s][i].key, n) = s
         /\ Distinct(a[s])
<1>1. a[s] \in Seq(Bucket)
  BY DEF Arrays
<1>2. /\ Len(a[s]) \in Nat
      /\ DOMAIN a[s] = 1..Len(a[s])
      /\ a[s] = <<>> <=> Len(a[s]) = 0
      /\ \A i \in 1..Len(a[s]) : a[s][i] \in Bucket
  BY <1>1, ChainFacts
<1> QED BY <1>1, <1>2 DEF PlacedIn, Distinct

(* What each of them changes, chain being the one written to. *)
Added(new, a, b, chain) ==
  /\ AllEntries(new) = AllEntries(a) \cup {PairOf(b)}
  /\ Cardinality(CellsOf(new)) = Cardinality(CellsOf(a)) + 1
  /\ Cardinality(Chained(new)) =
       Cardinality(Chained(a)) + (IF chain = <<>> THEN 0 ELSE 1)

Removed(new, a, k, chain) ==
  /\ AllEntries(new) = {e \in AllEntries(a) : e.key # k}
  /\ Cardinality(CellsOf(new)) = Cardinality(CellsOf(a)) - 1
  /\ Cardinality(Chained(new)) =
       Cardinality(Chained(a)) - (IF Len(chain) > 1 THEN 1 ELSE 0)

Rewritten(new, a, k, d) ==
  /\ AllEntries(new) = {e \in AllEntries(a) : e.key # k} \cup {[key |-> k, data |-> d]}
  /\ CellsOf(new) = CellsOf(a)

(* Storing a bucket with a new key (_hash_table_insert). *)
LEMMA LinkArray ==
  ASSUME NEW a \in Arrays, NEW n, PlacedIn(a, n),
         NEW s \in Slots, NEW chain, chain = a[s],
         NEW b \in Bucket, Home(b.key, n) = s, ~HasKey(AllEntries(a), b.key),
         NEW new, new = [a EXCEPT ![s] = Link(chain, b)]
  PROVE  new \in Arrays /\ PlacedIn(new, n) /\ Added(new, a, b, chain)
<1> DEFINE link == Link(chain, b)
           cell == <<s, Len(chain) + 1>>
<1>1. /\ chain \in Seq(Bucket)
      /\ Len(chain) \in Nat
      /\ chain = <<>> <=> Len(chain) = 0
      /\ \A i \in 1..Len(chain) : chain[i] \in Bucket /\ Home(chain[i].key, n) = s
      /\ Distinct(chain)
  BY ChainKeys
<1>2. \A i \in 1..Len(chain) : chain[i].key # b.key
  <2> SUFFICES ASSUME NEW i \in 1..Len(chain), chain[i].key = b.key
               PROVE  FALSE
    OBVIOUS
  <2>1. PairOf(chain[i]) \in AllEntries(a)
    BY EntriesIff
  <2>2. PairOf(chain[i]).key = b.key
    BY DEF PairOf
  <2> QED BY <2>1, <2>2 DEF HasKey
<1>3. link \in Seq(Bucket) /\ Len(link) = Len(chain) + 1
  <2>1. chain \in Seq(Bucket)
    BY <1>1
  <2> QED BY <2>1, LinkProperties
<1>4. Distinct(link) /\ With(link, chain, b)
  <2>1. chain \in Seq(Bucket) /\ Distinct(chain) /\ \A i \in 1..Len(chain) : chain[i].key # b.key
    BY <1>1, <1>2
  <2>2. link = Link(chain, b)
    OBVIOUS
  <2> HIDE DEF link
  <2> QED BY <2>1, <2>2, LinkKeys
<1> HIDE DEF link
<1>5. new \in Arrays /\ new[s] = link /\ \A t \in Slots : t # s => new[t] = a[t]
  BY <1>3 DEF Arrays, link
<1>6. PlacedIn(new, n)
  <2> SUFFICES ASSUME NEW t \in Slots, NEW i \in DOMAIN new[t]
               PROVE  /\ Home(new[t][i].key, n) = t
                      /\ \A j \in DOMAIN new[t] : new[t][i].key = new[t][j].key => i = j
    BY DEF PlacedIn
  <2>1. CASE t # s
    BY <2>1, <1>5 DEF PlacedIn
  <2>2. CASE t = s
    <3>1. DOMAIN new[t] = 1..Len(link)
      BY <2>2, <1>3, <1>5, ChainFacts
    <3>2. Home(link[i].key, n) = s
      BY <3>1, <1>1, <1>4 DEF With
    <3>3. \A j \in DOMAIN new[t] : link[i].key = link[j].key => i = j
      BY <3>1, <1>4 DEF Distinct
    <3> QED BY <3>2, <3>3, <2>2, <1>5
  <2> QED BY <2>1, <2>2
<1>7. \A t \in Slots : \A i \in 1..Len(new[t]) :
        PairOf(new[t][i]) \in AllEntries(a) \cup {PairOf(b)}
  <2> TAKE t \in Slots
  <2> TAKE i \in 1..Len(new[t])
  <2>1. CASE t # s
    BY <2>1, <1>5, EntriesIff
  <2>2. CASE t = s
    <3>1. i \in 1..Len(link) /\ new[t][i] = link[i]
      BY <2>2, <1>5
    <3>2. CASE link[i] = b
      BY <3>1, <3>2
    <3>3. ASSUME NEW j \in 1..Len(chain), link[i] = chain[j]
          PROVE  PairOf(new[t][i]) \in AllEntries(a)
      BY <3>1, <3>3, EntriesIff
    <3> QED BY <3>1, <3>2, <3>3, <1>4 DEF With
  <2> QED BY <2>1, <2>2
<1>8. AllEntries(new) \subseteq AllEntries(a) \cup {PairOf(b)}
  <2> SUFFICES ASSUME NEW e \in AllEntries(new)
               PROVE  e \in AllEntries(a) \cup {PairOf(b)}
    OBVIOUS
  <2>1. \E t \in Slots : \E i \in 1..Len(new[t]) : e = PairOf(new[t][i])
    BY <1>5, EntriesIff
  <2> QED BY <2>1, <1>7
<1>9. \A t \in Slots : \A i \in 1..Len(a[t]) : PairOf(a[t][i]) \in AllEntries(new)
  <2> TAKE t \in Slots
  <2> TAKE i \in 1..Len(a[t])
  <2>1. CASE t # s
    BY <2>1, <1>5, EntriesIff
  <2>2. CASE t = s
    <3>1. PICK j \in 1..Len(link) : link[j] = chain[i]
      BY <2>2, <1>4 DEF With
    <3>2. PairOf(new[t][j]) \in AllEntries(new)
      BY <3>1, <2>2, <1>5, EntriesIff
    <3>3. PairOf(new[t][j]) = PairOf(a[t][i])
      BY <3>1, <2>2, <1>5
    <3> QED BY <3>2, <3>3
  <2> QED BY <2>1, <2>2
<1>10. PairOf(b) \in AllEntries(new)
  <2>1. PICK j \in 1..Len(link) : link[j] = b
    BY <1>4 DEF With
  <2>2. PairOf(new[s][j]) \in AllEntries(new)
    BY <2>1, <1>5, EntriesIff
  <2> QED BY <2>1, <2>2, <1>5
<1>11. AllEntries(a) \cup {PairOf(b)} \subseteq AllEntries(new)
  <2> SUFFICES ASSUME NEW e \in AllEntries(a)
               PROVE  e \in AllEntries(new)
    BY <1>10
  <2>1. \E t \in Slots : \E i \in 1..Len(a[t]) : e = PairOf(a[t][i])
    BY EntriesIff
  <2> QED BY <2>1, <1>9
<1>12. cell \notin CellsOf(a)
  BY <1>1, CellsIff
<1>13. \A t \in Slots : \A i : <<t, i>> \in CellsOf(new)
                           <=> <<t, i>> \in CellsOf(a) \cup {cell}
  <2> TAKE t \in Slots
  <2> TAKE i
  <2>1. /\ <<t, i>> \in CellsOf(new) <=> i \in 1..Len(new[t])
        /\ <<t, i>> \in CellsOf(a) <=> i \in 1..Len(a[t])
    BY <1>5, CellsIff
  <2>2. CASE t # s
    BY <2>1, <2>2, <1>5
  <2>3. CASE t = s
    BY <2>1, <2>3, <1>1, <1>3, <1>5
  <2> QED BY <2>2, <2>3
<1>14. CellsOf(new) = CellsOf(a) \cup {cell}
  <2>1. /\ \A c \in CellsOf(new) : c = <<c[1], c[2]>> /\ c[1] \in Slots
        /\ \A c \in CellsOf(a) : c = <<c[1], c[2]>> /\ c[1] \in Slots
        /\ cell = <<cell[1], cell[2]>> /\ cell[1] \in Slots
    BY <1>5, CellsIff
  <2> HIDE DEF cell
  <2>2. \A c \in CellsOf(new) \cup CellsOf(a) \cup {cell} :
          c \in CellsOf(new) <=> c \in CellsOf(a) \cup {cell}
    <3> TAKE c \in CellsOf(new) \cup CellsOf(a) \cup {cell}
    <3>1. PICK t \in Slots : \E j : c = <<t, j>>
      BY <2>1
    <3>2. PICK j : c = <<t, j>>
      BY <3>1
    <3> QED BY <3>2, <1>13
  <2> QED BY <2>2
<1>15. /\ IsFiniteSet(CellsOf(a)) /\ Cardinality(CellsOf(a)) \in Nat
       /\ IsFiniteSet(Chained(a)) /\ Cardinality(Chained(a)) \in Nat
  BY CellsFinite
<1>16. Cardinality(CellsOf(new)) = Cardinality(CellsOf(a)) + 1
  BY <1>12, <1>14, <1>15, FS_AddElement
<1>17. Cardinality(Chained(new)) =
         Cardinality(Chained(a)) + (IF chain = <<>> THEN 0 ELSE 1)
  <2>1. CASE chain = <<>>
    <3>1. ~(cell[2] > 1)
      BY <2>1, <1>1
    <3> HIDE DEF cell
    <3>2. Chained(new) = Chained(a)
      BY <3>1, <1>14 DEF Chained
    <3> QED BY <2>1, <3>2, <1>15
  <2>2. CASE chain # <<>>
    <3>1. cell[2] > 1
      BY <2>2, <1>1
    <3> HIDE DEF cell
    <3>2. Chained(new) = Chained(a) \cup {cell} /\ cell \notin Chained(a)
      BY <3>1, <1>12, <1>14 DEF Chained
    <3> QED BY <2>2, <3>2, <1>15, FS_AddElement
  <2> QED BY <2>1, <2>2
<1>18. Added(new, a, b, chain)
  BY <1>8, <1>11, <1>16, <1>17 DEF Added
<1> QED BY <1>5, <1>6, <1>18

(* Taking out a bucket (hash_table_remove). *)
LEMMA UnlinkArray ==
  ASSUME NEW a \in Arrays, NEW n, PlacedIn(a, n),
         NEW s \in Slots, NEW chain, chain = a[s], NEW i \in 1..Len(chain),
         NEW new, new = [a EXCEPT ![s] = Unlink(chain, i)]
  PROVE  new \in Arrays /\ PlacedIn(new, n) /\ Removed(new, a, chain[i].key, chain)
<1> DEFINE less == Unlink(chain, i)
           cell == <<s, Len(chain)>>
<1>1. /\ chain \in Seq(Bucket)
      /\ Len(chain) \in Nat
      /\ \A j \in 1..Len(chain) : chain[j] \in Bucket /\ Home(chain[j].key, n) = s
      /\ Distinct(chain)
  BY ChainKeys
<1>2. chain \in Seq(Bucket) /\ Distinct(chain)
  BY <1>1
<1>3. less \in Seq(Bucket) /\ Len(less) = Len(chain) - 1
  BY <1>2, UnlinkProperties
<1>4. /\ Distinct(less)
      /\ \A j \in 1..Len(less) : \E m \in 1..Len(chain) : m # i /\ less[j] = chain[m]
      /\ \A m \in 1..Len(chain) : m # i => \E j \in 1..Len(less) : less[j] = chain[m]
  <2>1. Distinct(less) /\ Without(less, chain, i)
    <3>1. less = Unlink(chain, i)
      OBVIOUS
    <3> HIDE DEF less
    <3> QED BY <3>1, <1>2, UnlinkKeys
  <2> QED BY <2>1 DEF Without
<1> HIDE DEF less
<1>5. new \in Arrays /\ new[s] = less /\ \A t \in Slots : t # s => new[t] = a[t]
  BY <1>3 DEF Arrays, less
<1>6. PlacedIn(new, n)
  <2> SUFFICES ASSUME NEW t \in Slots, NEW j \in DOMAIN new[t]
               PROVE  /\ Home(new[t][j].key, n) = t
                      /\ \A m \in DOMAIN new[t] : new[t][j].key = new[t][m].key => j = m
    BY DEF PlacedIn
  <2>1. CASE t # s
    BY <2>1, <1>5 DEF PlacedIn
  <2>2. CASE t = s
    <3>1. DOMAIN new[t] = 1..Len(less)
      BY <2>2, <1>3, <1>5, ChainFacts
    <3>2. PICK m \in 1..Len(chain) : less[j] = chain[m]
      BY <3>1, <1>4
    <3>3. Home(less[j].key, n) = s
      BY <3>2, <1>1
    <3>4. \A l \in DOMAIN new[t] : less[j].key = less[l].key => j = l
      BY <3>1, <1>4 DEF Distinct
    <3> QED BY <3>3, <3>4, <2>2, <1>5
  <2> QED BY <2>1, <2>2
<1>7. UniqueKeys(AllEntries(a))
  BY PlacedUnique
<1>8. PairOf(chain[i]) \in AllEntries(a) /\ PairOf(chain[i]).key = chain[i].key
  BY EntriesIff DEF PairOf
<1>9. \A e \in AllEntries(a) : e.key # chain[i].key <=> e # PairOf(chain[i])
  BY <1>7, <1>8 DEF UniqueKeys
<1>10. AllEntries(new) \subseteq {e \in AllEntries(a) : e.key # chain[i].key}
  <2> SUFFICES ASSUME NEW e \in AllEntries(new)
               PROVE  e \in AllEntries(a) /\ e.key # chain[i].key
    OBVIOUS
  <2>1. PICK t \in Slots : \E j \in 1..Len(new[t]) : e = PairOf(new[t][j])
    BY <1>5, EntriesIff
  <2>2. PICK j \in 1..Len(new[t]) : e = PairOf(new[t][j])
    BY <2>1
  <2>3. CASE t # s
    <3>1. j \in 1..Len(a[t]) /\ e = PairOf(a[t][j])
      BY <2>2, <2>3, <1>5
    <3>2. e.key = a[t][j].key
      BY <3>1 DEF PairOf
    <3>3. Home(a[t][j].key, n) = t
      BY <3>1, ChainKeys
    <3>4. Home(chain[i].key, n) = s
      BY <1>1
    <3>5. e \in AllEntries(a)
      BY <3>1, EntriesIff
    <3> QED BY <3>2, <3>3, <3>4, <3>5, <2>3
  <2>4. CASE t = s
    <3>1. PICK m \in 1..Len(chain) : m # i /\ less[j] = chain[m]
      BY <2>4, <1>4, <1>5
    <3>2. e = PairOf(chain[m])
      BY <3>1, <2>2, <2>4, <1>5
    <3>3. e.key = chain[m].key
      BY <3>2 DEF PairOf
    <3>4. e.key # chain[i].key
      BY <3>1, <3>3, <1>1 DEF Distinct
    <3>5. e \in AllEntries(a)
      BY <3>2, EntriesIff
    <3> QED BY <3>4, <3>5
  <2> QED BY <2>3, <2>4
<1>11. {e \in AllEntries(a) : e.key # chain[i].key} \subseteq AllEntries(new)
  <2> SUFFICES ASSUME NEW e \in AllEntries(a), e.key # chain[i].key
               PROVE  e \in AllEntries(new)
    OBVIOUS
  <2>1. PICK t \in Slots : \E j \in 1..Len(a[t]) : e = PairOf(a[t][j])
    BY EntriesIff
  <2>2. PICK j \in 1..Len(a[t]) : e = PairOf(a[t][j])
    BY <2>1
  <2>3. CASE t # s
    <3>1. j \in 1..Len(new[t]) /\ e = PairOf(new[t][j])
      BY <2>2, <2>3, <1>5
    <3> QED BY <3>1, <1>5, EntriesIff
  <2>4. CASE t = s
    <3>1. j \in 1..Len(chain) /\ e.key = chain[j].key
      BY <2>2, <2>4 DEF PairOf
    <3>2. PICK m \in 1..Len(less) : less[m] = chain[j]
      BY <3>1, <1>4
    <3>3. m \in 1..Len(new[t]) /\ e = PairOf(new[t][m])
      BY <3>2, <2>2, <2>4, <1>5
    <3> QED BY <3>3, <1>5, EntriesIff
  <2> QED BY <2>3, <2>4
<1>12. cell \in CellsOf(a)
  BY <1>1, CellsIff
<1>13. \A t \in Slots : \A j : <<t, j>> \in CellsOf(new)
                           <=> <<t, j>> \in CellsOf(a) \ {cell}
  <2> TAKE t \in Slots
  <2> TAKE j
  <2>1. /\ <<t, j>> \in CellsOf(new) <=> j \in 1..Len(new[t])
        /\ <<t, j>> \in CellsOf(a) <=> j \in 1..Len(a[t])
    BY <1>5, CellsIff
  <2>2. CASE t # s
    BY <2>1, <2>2, <1>5
  <2>3. CASE t = s
    BY <2>1, <2>3, <1>1, <1>3, <1>5
  <2> QED BY <2>2, <2>3
<1>14. CellsOf(new) = CellsOf(a) \ {cell}
  <2>1. /\ \A c \in CellsOf(new) : c = <<c[1], c[2]>> /\ c[1] \in Slots
        /\ \A c \in CellsOf(a) : c = <<c[1], c[2]>> /\ c[1] \in Slots
    BY <1>5, CellsIff
  <2> HIDE DEF cell
  <2>2. \A c \in CellsOf(new) \cup CellsOf(a) :
          c \in CellsOf(new) <=> c \in CellsOf(a) \ {cell}
    <3> TAKE c \in CellsOf(new) \cup CellsOf(a)
    <3>1. PICK t \in Slots : \E j : c = <<t, j>>
      BY <2>1
    <3>2. PICK j : c = <<t, j>>
      BY <3>1
    <3> QED BY <3>2, <1>13
  <2> QED BY <2>1, <2>2
<1>15. /\ IsFiniteSet(CellsOf(a)) /\ Cardinality(CellsOf(a)) \in Nat
       /\ IsFiniteSet(Chained(a)) /\ Cardinality(Chained(a)) \in Nat
  BY CellsFinite
<1>16. Cardinality(CellsOf(new)) = Cardinality(CellsOf(a)) - 1
  BY <1>12, <1>14, <1>15, FS_RemoveElement
<1>17. Cardinality(Chained(new)) =
         Cardinality(Chained(a)) - (IF Len(chain) > 1 THEN 1 ELSE 0)
  <2>1. CASE ~(Len(chain) > 1)
    <3>1. ~(cell[2] > 1)
      BY <2>1
    <3> HIDE DEF cell
    <3>2. Chained(new) = Chained(a)
      BY <3>1, <1>14 DEF Chained
    <3> QED BY <2>1, <3>2, <1>15
  <2>2. CASE Len(chain) > 1
    <3>1. Chained(new) = Chained(a) \ {cell} /\ cell \in Chained(a)
      BY <2>2, <1>1, <1>12, <1>14 DEF Chained
    <3> QED BY <2>2, <3>1, <1>15, FS_RemoveElement
  <2> QED BY <2>1, <2>2
<1>18. Removed(new, a, chain[i].key, chain)
  BY <1>10, <1>11, <1>16, <1>17 DEF Removed
<1> QED BY <1>5, <1>6, <1>18

(* Writing new data into a bucket (hash_table_replace). *)
LEMMA DataArray ==
  ASSUME NEW a \in Arrays, NEW n, PlacedIn(a, n),
         NEW s \in Slots, NEW chain, chain = a[s], NEW i \in 1..Len(chain),
         NEW d \in Data,
         NEW new, new = [a EXCEPT ![s][i].data = d]
  PROVE  new \in Arrays /\ PlacedIn(new, n) /\ Rewritten(new, a, chain[i].key, d)
<1> DEFINE b == [chain[i] EXCEPT !.data = d]
           other == [chain EXCEPT ![i] = b]
           entry == [key |-> chain[i].key, data |-> d]
<1>1. /\ chain \in Seq(Bucket)
      /\ DOMAIN chain = 1..Len(chain)
      /\ \A j \in 1..Len(chain) : chain[j] \in Bucket /\ Home(chain[j].key, n) = s
      /\ Distinct(chain)
  BY ChainKeys
<1>2. b \in Bucket /\ b.key = chain[i].key /\ PairOf(b) = entry
  BY <1>1 DEF Bucket, PairOf
<1>3. new = [a EXCEPT ![s] = other]
  OBVIOUS
<1> HIDE DEF b
<1>4. /\ other \in Seq(Bucket)
      /\ Len(other) = Len(chain)
      /\ \A j \in 1..Len(chain) : other[j] = IF j = i THEN b ELSE chain[j]
  BY <1>1, <1>2, ExceptSeq
<1> HIDE DEF other
<1>5. \A j \in 1..Len(other) : other[j].key = chain[j].key
  BY <1>2, <1>4
<1>6. /\ new \in Arrays
      /\ new[s] = other
      /\ \A t \in Slots : t # s => new[t] = a[t]
      /\ \A t \in Slots : Len(new[t]) = Len(a[t])
      /\ \A t \in Slots : \A j \in 1..Len(a[t]) : new[t][j].key = a[t][j].key
  BY <1>3, <1>4, <1>5 DEF Arrays
<1>7. \A t \in Slots : DOMAIN new[t] = 1..Len(a[t]) /\ DOMAIN a[t] = 1..Len(a[t])
  BY <1>6, ChainFacts DEF Arrays
<1>8. PlacedIn(new, n)
  BY <1>6, <1>7 DEF PlacedIn
<1>9. CellsOf(new) = CellsOf(a)
  BY <1>7 DEF CellsOf
<1>10. UniqueKeys(AllEntries(a))
  BY PlacedUnique
<1>11. AllEntries(new) \subseteq {e \in AllEntries(a) : e.key # chain[i].key} \cup {entry}
  <2> SUFFICES ASSUME NEW e \in AllEntries(new), e # entry
               PROVE  e \in AllEntries(a) /\ e.key # chain[i].key
    OBVIOUS
  <2>1. PICK t \in Slots : \E j \in 1..Len(new[t]) : e = PairOf(new[t][j])
    BY <1>6, EntriesIff
  <2>2. PICK j \in 1..Len(new[t]) : e = PairOf(new[t][j])
    BY <2>1
  <2>3. ~(t = s /\ j = i)
    BY <2>2, <1>2, <1>4, <1>6
  <2>4. new[t][j] = a[t][j] /\ j \in 1..Len(a[t])
    BY <2>2, <2>3, <1>4, <1>6
  <2>5. e \in AllEntries(a) /\ e = PairOf(a[t][j])
    BY <2>2, <2>4, EntriesIff
  <2>6. e.key # chain[i].key
    <3> SUFFICES ASSUME e.key = chain[i].key
                 PROVE  FALSE
      OBVIOUS
    <3>1. a[t][j].key = a[s][i].key
      BY <2>5 DEF PairOf
    <3>2. Home(a[t][j].key, n) = t /\ Home(a[s][i].key, n) = s
      BY <2>4, <1>7 DEF PlacedIn
    <3>3. t = s
      BY <3>1, <3>2
    <3>4. j = i
      BY <3>1, <3>3, <2>4, <1>1 DEF Distinct
    <3> QED BY <3>3, <3>4, <2>3
  <2> QED BY <2>5, <2>6
<1>12. entry \in AllEntries(new)
  <2>1. i \in 1..Len(new[s]) /\ PairOf(new[s][i]) = entry
    BY <1>2, <1>4, <1>6
  <2>2. PairOf(new[s][i]) \in AllEntries(new)
    BY <2>1, <1>6, EntriesIff
  <2> QED BY <2>1, <2>2
<1>13. {e \in AllEntries(a) : e.key # chain[i].key} \subseteq AllEntries(new)
  <2> SUFFICES ASSUME NEW e \in AllEntries(a), e.key # chain[i].key
               PROVE  e \in AllEntries(new)
    OBVIOUS
  <2>1. PICK t \in Slots : \E j \in 1..Len(a[t]) : e = PairOf(a[t][j])
    BY EntriesIff
  <2>2. PICK j \in 1..Len(a[t]) : e = PairOf(a[t][j])
    BY <2>1
  <2>3. e.key = a[t][j].key
    BY <2>2 DEF PairOf
  <2>4. new[t][j] = a[t][j] /\ j \in 1..Len(new[t])
    BY <2>2, <2>3, <1>4, <1>6
  <2>5. PairOf(new[t][j]) \in AllEntries(new)
    BY <2>4, <1>6, EntriesIff
  <2> QED BY <2>2, <2>4, <2>5
<1>14. Rewritten(new, a, chain[i].key, d)
  BY <1>9, <1>11, <1>12, <1>13 DEF Rewritten
<1> QED BY <1>6, <1>8, <1>14

(* The array of a new or cleaned table. *)
LEMMA NoChainsArray ==
  /\ NoChains \in Arrays
  /\ \A n : PlacedIn(NoChains, n)
  /\ AllEntries(NoChains) = {}
  /\ CellsOf(NoChains) = {}
  /\ Cardinality(CellsOf(NoChains)) = 0
  /\ Cardinality(Chained(NoChains)) = 0
<1>1. NoChains \in Arrays
  BY DEF NoChains, Arrays
<1>2. \A s \in Slots : NoChains[s] = <<>> /\ DOMAIN NoChains[s] = {}
  BY DEF NoChains
<1>3. CellsOf(NoChains) = {}
  BY <1>2 DEF CellsOf
<1>4. AllEntries(NoChains) = {} /\ Chained(NoChains) = {}
  BY <1>3 DEF AllEntries, EntriesAt, Chained
<1>5. \A n : PlacedIn(NoChains, n)
  BY <1>2 DEF PlacedIn
<1> QED BY <1>1, <1>3, <1>4, <1>5, FS_EmptySet

-----------------------------------------------------------------------------
(* The map of a set of entries. *)

LEMMA MapFacts ==
  ASSUME NEW E \in SUBSET Pairs, UniqueKeys(E)
  PROVE  /\ \A e \in E : MapOf(E)[e.key] = e.data
         /\ \A k \in Keys : ~HasKey(E, k) => MapOf(E)[k] = NULL
         /\ \A k \in Keys : MapOf(E)[k] = NULL => ~HasKey(E, k)
         /\ MapOf(E) = [k \in Keys |-> MapOf(E)[k]]
<1>1. \A k \in Keys : MapOf(E)[k] =
        IF HasKey(E, k) THEN (CHOOSE e \in E : e.key = k).data ELSE NULL
  BY DEF MapOf, HasKey
<1>2. \A e \in E : e.key \in Keys /\ e.data \in Data /\ HasKey(E, e.key)
  BY DEF Pairs, HasKey
<1>3. \A e \in E : (CHOOSE f \in E : f.key = e.key) = e
  BY DEF UniqueKeys
<1>4. \A e \in E : MapOf(E)[e.key] = e.data
  BY <1>1, <1>2, <1>3
<1>5. \A k \in Keys : MapOf(E)[k] = NULL => ~HasKey(E, k)
  BY <1>2, <1>4, HashAssumption DEF HasKey
<1>6. MapOf(E) = [k \in Keys |-> MapOf(E)[k]]
  BY DEF MapOf
<1> QED BY <1>1, <1>4, <1>5, <1>6

(* Two sets of entries that agree on a key have the same data for it. *)
LEMMA MapAgrees ==
  ASSUME NEW E \in SUBSET Pairs, UniqueKeys(E), NEW F \in SUBSET Pairs, UniqueKeys(F),
         NEW k \in Keys, \A e \in Pairs : e.key = k => (e \in E <=> e \in F)
  PROVE  MapOf(E)[k] = MapOf(F)[k]
<1>1. CASE HasKey(E, k)
  <2>1. PICK e \in E : e.key = k
    BY <1>1 DEF HasKey
  <2>2. e \in F
    BY <2>1
  <2> QED BY <2>1, <2>2, MapFacts
<1>2. CASE ~HasKey(E, k)
  <2>1. ~HasKey(F, k)
    BY <1>2 DEF HasKey
  <2> QED BY <2>1, <1>2, MapFacts
<1> QED BY <1>1, <1>2

LEMMA MapAdd ==
  ASSUME NEW E \in SUBSET Pairs, UniqueKeys(E),
         NEW k \in Keys, NEW d \in Data, ~HasKey(E, k)
  PROVE  LET F == E \cup {[key |-> k, data |-> d]}
         IN F \in SUBSET Pairs /\ UniqueKeys(F) /\ MapOf(F) = [MapOf(E) EXCEPT ![k] = d]
<1> DEFINE entry == [key |-> k, data |-> d]
           F == E \cup {entry}
<1>1. entry \in Pairs /\ entry.key = k /\ entry.data = d
  BY DEF Pairs
<1> HIDE DEF entry
<1>2. F \in SUBSET Pairs /\ UniqueKeys(F)
  BY <1>1 DEF UniqueKeys, HasKey
<1>3. MapOf(F)[k] = d
  <2>1. entry \in F
    OBVIOUS
  <2> HIDE DEF F
  <2> QED BY <2>1, <1>1, <1>2, MapFacts
<1>4. \A j \in Keys : j # k => MapOf(F)[j] = MapOf(E)[j]
  <2> SUFFICES ASSUME NEW j \in Keys, j # k
               PROVE  MapOf(F)[j] = MapOf(E)[j]
    OBVIOUS
  <2>1. \A e \in Pairs : e.key = j => (e \in F <=> e \in E)
    BY <1>1
  <2> HIDE DEF F
  <2> QED BY <2>1, <1>2, MapAgrees
<1> HIDE DEF F
<1>5. MapOf(F) = [MapOf(E) EXCEPT ![k] = d]
  BY <1>2, <1>3, <1>4, MapFacts
<1> QED BY <1>2, <1>5 DEF F, entry

LEMMA MapRemove ==
  ASSUME NEW E \in SUBSET Pairs, UniqueKeys(E), NEW k \in Keys
  PROVE  LET F == {e \in E : e.key # k}
         IN F \in SUBSET Pairs /\ UniqueKeys(F) /\ ~HasKey(F, k)
              /\ MapOf(F) = [MapOf(E) EXCEPT ![k] = NULL]
<1> DEFINE F == {e \in E : e.key # k}
<1>1. F \in SUBSET Pairs /\ UniqueKeys(F) /\ ~HasKey(F, k)
  BY DEF UniqueKeys, HasKey
<1>2. \A j \in Keys : j # k => MapOf(F)[j] = MapOf(E)[j]
  <2> SUFFICES ASSUME NEW j \in Keys, j # k
               PROVE  MapOf(F)[j] = MapOf(E)[j]
    OBVIOUS
  <2>1. \A e \in Pairs : e.key = j => (e \in F <=> e \in E)
    OBVIOUS
  <2> HIDE DEF F
  <2> QED BY <2>1, <1>1, MapAgrees
<1> HIDE DEF F
<1>3. MapOf(F) = [MapOf(E) EXCEPT ![k] = NULL]
  BY <1>1, <1>2, MapFacts
<1> QED BY <1>1, <1>3 DEF F

LEMMA MapReplace ==
  ASSUME NEW E \in SUBSET Pairs, UniqueKeys(E), NEW k \in Keys, NEW d \in Data
  PROVE  LET F == {e \in E : e.key # k} \cup {[key |-> k, data |-> d]}
         IN F \in SUBSET Pairs /\ UniqueKeys(F) /\ MapOf(F) = [MapOf(E) EXCEPT ![k] = d]
<1> DEFINE G == {e \in E : e.key # k}
           F == G \cup {[key |-> k, data |-> d]}
<1>1. G \in SUBSET Pairs /\ UniqueKeys(G) /\ ~HasKey(G, k)
        /\ MapOf(G) = [MapOf(E) EXCEPT ![k] = NULL]
  BY MapRemove
<1> HIDE DEF G
<1>2. F \in SUBSET Pairs /\ UniqueKeys(F) /\ MapOf(F) = [MapOf(G) EXCEPT ![k] = d]
  BY <1>1, MapAdd
<1>3. [MapOf(G) EXCEPT ![k] = d] = [MapOf(E) EXCEPT ![k] = d]
  BY <1>1, MapFacts
<1> QED BY <1>2, <1>3 DEF G

-----------------------------------------------------------------------------
(* Walks along the chains, of the rebuilding loop and of an iterator. *)

LEMMA FromStart ==
  ASSUME NEW a \in Arrays, NEW pos \in {0, 1}
  PROVE  CellsFrom(a, 0, pos) = CellsOf(a)
<1>1. \A s \in Slots : s \in Nat
  BY DEF Slots
<1>2. \A c \in CellsOf(a) : c[1] \in Slots /\ c[2] \in 1..Len(a[c[1]])
  BY CellsIff
<1>3. \A s \in Slots : Len(a[s]) \in Nat
  BY ChainFacts DEF Arrays
<1>4. \A c \in CellsOf(a) : c[1] \in Nat /\ c[2] \in Nat \ {0}
  BY <1>1, <1>2, <1>3
<1> QED BY <1>4 DEF CellsFrom

LEMMA FromHere ==
  ASSUME NEW a \in Arrays, NEW s \in Slots, NEW pos \in 1..Len(a[s])
  PROVE  /\ CellsFrom(a, s, pos) = CellsFrom(a, s, pos + 1) \cup {<<s, pos>>}
         /\ <<s, pos>> \notin CellsFrom(a, s, pos + 1)
<1> DEFINE cell == <<s, pos>>
<1>1. /\ cell \in CellsOf(a) /\ cell[1] = s /\ cell[2] = pos
      /\ \A c \in CellsOf(a) : c[1] = s /\ c[2] = pos => c = cell
  BY CellsIff
<1>2. \A c \in CellsOf(a) : c[1] \in Slots /\ c[2] \in 1..Len(a[c[1]])
  BY CellsIff
<1>3. \A c \in CellsOf(a) : c[1] = s => c[2] \in Nat
  BY <1>2, ChainFacts DEF Arrays
<1>4. pos \in Nat /\ s \in Nat
  BY ChainFacts DEF Arrays, Slots
<1> HIDE DEF cell
<1>5. \A c \in CellsOf(a) : c[1] = s => (c[2] >= pos <=> c[2] >= pos + 1 \/ c = cell)
  BY <1>1, <1>3, <1>4
<1>6. ~(s > s) /\ ~(pos >= pos + 1)
  BY <1>4
<1>7. \A c : c \in CellsFrom(a, s, pos)
               <=> c \in CellsFrom(a, s, pos + 1) \/ c = cell
  BY <1>1, <1>4, <1>5, <1>6 DEF CellsFrom
<1>8. cell \notin CellsFrom(a, s, pos + 1)
  BY <1>1, <1>6 DEF CellsFrom
<1> QED BY <1>7, <1>8 DEF cell

LEMMA FromNext ==
  ASSUME NEW a \in Arrays, NEW s \in Slots, NEW pos \in Nat, pos > Len(a[s]),
         NEW first \in {0, 1}
  PROVE  CellsFrom(a, s, pos) = CellsFrom(a, s + 1, first)
<1>1. \A c \in CellsOf(a) : c[1] \in Slots /\ c[2] \in 1..Len(a[c[1]])
  BY CellsIff
<1>2. s \in Nat /\ \A t \in Slots : t \in Nat
  BY DEF Slots
<1>3. \A t \in Slots : Len(a[t]) \in Nat
  BY ChainFacts DEF Arrays
<1>4. \A c \in CellsOf(a) : c[1] \in Nat /\ c[2] \in Nat \ {0} /\ (c[1] = s => ~(c[2] >= pos))
  <2> TAKE c \in CellsOf(a)
  <2>1. c[1] \in Nat /\ Len(a[c[1]]) \in Nat /\ c[2] \in 1..Len(a[c[1]])
    BY <1>1, <1>2, <1>3
  <2> QED BY <2>1
<1>5. \A c \in CellsOf(a) : c[1] > s <=> (c[1] > s + 1 \/ (c[1] = s + 1 /\ c[2] >= first))
  BY <1>2, <1>4
<1> QED BY <1>4, <1>5 DEF CellsFrom

LEMMA FromEnd ==
  ASSUME NEW a \in Arrays, NEW n \in Nat \ {0}, PlacedIn(a, n), NEW pos
  PROVE  CellsFrom(a, n, pos) = {}
<1>1. \A c \in CellsOf(a) : c[1] \in Slots /\ c[2] \in 1..Len(a[c[1]])
  BY CellsIff
<1>2. \A s \in Slots : DOMAIN a[s] = 1..Len(a[s])
  BY ChainFacts DEF Arrays
<1>3. \A s \in Slots : \A i \in 1..Len(a[s]) : a[s][i].key \in Keys
  <2>1. \A s \in Slots : \A i \in 1..Len(a[s]) : a[s][i] \in Bucket
    BY ChainFacts DEF Arrays
  <2> QED BY <2>1 DEF Bucket
<1>4. \A k \in Keys : Home(k, n) \in 0..(n - 1)
  BY HashAssumption DEF Home
<1>5. \A c \in CellsOf(a) : c[1] \in 0..(n - 1)
  BY <1>1, <1>2, <1>3, <1>4 DEF PlacedIn
<1>6. \A c \in CellsOf(a) : ~(c[1] > n) /\ c[1] # n
  BY <1>5
<1> QED BY <1>6 DEF CellsFrom

LEMMA FromSkip ==
  ASSUME NEW a \in Arrays, NEW s \in Nat, NEW n \in Nat, s <= n,
         \A m \in s..(n - 1) : m \in Slots /\ a[m] = <<>>
  PROVE  CellsFrom(a, s, 0) = CellsFrom(a, n, 1)
<1>1. \A c \in CellsOf(a) : c[1] \in Slots /\ c[2] \in 1..Len(a[c[1]])
  BY CellsIff
<1>2. \A t \in Slots : t \in Nat /\ Len(a[t]) \in Nat /\ (a[t] = <<>> => Len(a[t]) = 0)
  BY ChainFacts DEF Arrays, Slots
<1>3. \A c \in CellsOf(a) : c[1] \in Nat /\ c[2] \in Nat \ {0} /\ c[1] \notin s..(n - 1)
  BY <1>1, <1>2
<1>4. \A c \in CellsOf(a) : (c[1] > s \/ (c[1] = s /\ c[2] >= 0))
                            <=> (c[1] > n \/ (c[1] = n /\ c[2] >= 1))
  BY <1>3
<1> QED BY <1>4 DEF CellsFrom

-----------------------------------------------------------------------------
(* Sizes and slots. *)

LEMMA Least ==
  ASSUME NEW T \in SUBSET Nat, T # {}
  PROVE  \E m \in T : \A j \in T : m <= j
<1> DEFINE less == OpToRel(<, Nat)
<1>1. \A a, b \in Nat : <<a, b>> \in less <=> a < b
  BY DEF OpToRel
<1>2. IsWellFoundedOn(less, Nat)
  BY NatLessThanWellFounded
<1> HIDE DEF less
<1>3. PICK m \in T : \A j \in T : <<j, m>> \notin less
  BY <1>2, WFMin
<1>4. \A j \in T : m <= j
  <2> TAKE j \in T
  <2>1. m \in Nat /\ j \in Nat
    OBVIOUS
  <2>2. ~(j < m)
    BY <2>1, <1>1, <1>3
  <2> QED BY <2>1, <2>2
<1> QED BY <1>4

LEMMA Sizes ==
  /\ MaxSize \in Nat \ {0}
  /\ Size0 \in 1..MaxSize
  /\ \A i \in DOMAIN Primes : Primes[i] \in 1..MaxSize
<1>1. Primes \in Seq(Nat \ {0}) /\ Primes # <<>>
  BY HashAssumption
<1>2. /\ Len(Primes) \in Nat \ {0}
      /\ DOMAIN Primes = 1..Len(Primes)
      /\ \A i \in 1..Len(Primes) : Primes[i] \in Nat \ {0}
  BY <1>1, ChainFacts
<1>3. Size0 \in Nat \ {0} /\ \A i, j \in DOMAIN Primes : i < j => Primes[i] < Primes[j]
  BY HashAssumption
<1>4. \A i \in 1..Len(Primes) : Primes[i] <= Primes[Len(Primes)]
  <2> TAKE i \in 1..Len(Primes)
  <2>1. CASE i = Len(Primes)
    BY <2>1, <1>2
  <2>2. CASE i # Len(Primes)
    <3> DEFINE n == Len(Primes)
    <3>1. i \in 1..n /\ n \in Nat \ {0} /\ i # n
      BY <2>2, <1>2
    <3> HIDE DEF n
    <3>2. i < n /\ n \in 1..n
      BY <3>1
    <3>3. i < Len(Primes) /\ Len(Primes) \in 1..Len(Primes)
      BY <3>2 DEF n
    <3> QED BY <3>3, <1>2, <1>3
  <2> QED BY <2>1, <2>2
<1>5. Len(Primes) \in 1..Len(Primes)
  BY <1>2
<1> QED BY <1>2, <1>3, <1>4, <1>5 DEF MaxSize, MaxOf

(* prime_nearest returns the size of an array that can hold every slot. *)
LEMMA PrimeNearestType ==
  ASSUME NEW n \in Nat
  PROVE  PrimeNearest(n) \in 1..MaxSize
<1> DEFINE fits == {p \in {Primes[i] : i \in DOMAIN Primes} : n <= p}
<1>1. fits \in SUBSET Nat /\ \A p \in fits : p \in 1..MaxSize
  BY Sizes
<1>2. CASE fits = {}
  <2>1. Primes \in Seq(Nat \ {0}) /\ Primes # <<>>
    BY HashAssumption
  <2>2. Len(Primes) \in DOMAIN Primes
    BY <2>1, ChainFacts
  <2> QED BY <1>2, <2>2, Sizes DEF PrimeNearest
<1>3. CASE fits # {}
  <2>1. \E p \in fits : \A q \in fits : p <= q
    BY <1>1, <1>3, Least
  <2>2. PrimeNearest(n) = CHOOSE p \in fits : \A q \in fits : p <= q
    BY <1>3 DEF PrimeNearest
  <2> HIDE DEF fits
  <2> QED BY <1>1, <2>1, <2>2
<1> QED BY <1>2, <1>3

LEMMA SlotType ==
  ASSUME size \in 1..MaxSize, NEW k \in Keys
  PROVE  Slot(k) \in Slots /\ Slot(k) \in 0..(size - 1) /\ Home(k, size) = Slot(k)
BY Sizes, HashAssumption DEF Slot, Slots, Home

(* A walk along a chain stops somewhere, and has passed no key it looks for. *)
LEMMA StopFacts ==
  ASSUME NEW chain \in Seq(Bucket), NEW k
  PROVE  LET i == Stop(chain, k)
         IN /\ i \in 1..(Len(chain) + 1)
            /\ i = Len(chain) + 1 \/ chain[i].key = k \/ chain[i].lost
            /\ \A j \in 1..(i - 1) : chain[j].key # k /\ ~chain[j].lost
<1> DEFINE here(i) == i = Len(chain) + 1 \/ chain[i].key = k \/ chain[i].lost
           stops == {i \in 1..(Len(chain) + 1) : here(i)}
<1>1. Len(chain) \in Nat
  BY ChainFacts
<1>2. stops \in SUBSET Nat /\ Len(chain) + 1 \in stops
  BY <1>1
<1>3. PICK i \in stops : \A j \in stops : i <= j
  BY <1>2, Least
<1>4. \A j \in 1..(i - 1) : chain[j].key # k /\ ~chain[j].lost
  <2> SUFFICES ASSUME NEW j \in 1..(i - 1), here(j)
               PROVE  FALSE
    OBVIOUS
  <2>1. j \in stops
    BY <1>1, <1>3
  <2> QED BY <2>1, <1>1, <1>3
<1>5. \E m \in 1..(Len(chain) + 1) :
        /\ m = Len(chain) + 1 \/ chain[m].key = k \/ chain[m].lost
        /\ \A j \in 1..(m - 1) : chain[j].key # k /\ ~chain[j].lost
  BY <1>3, <1>4
<1> QED BY <1>5 DEF Stop

(* What the position of a key says, unless the walk reads lost memory. *)
LEMMA PositionFacts ==
  ASSUME NEW chain \in Seq(Bucket), NEW k, ~HitsLost(chain, k)
  PROVE  LET i == Position(chain, k)
         IN /\ i \in 0..Len(chain)
            /\ i > 0 => chain[i].key = k
            /\ i = 0 => \A j \in 1..Len(chain) : chain[j].key # k
<1>1. Len(chain) \in Nat
  BY ChainFacts
<1> QED BY <1>1, StopFacts DEF HitsLost, Position

(* Looking a key up in its chain decides whether it is in the table. *)
LEMMA Found ==
  ASSUME arr \in Arrays, size \in 1..MaxSize, PlacedIn(arr, size),
         NEW k \in Keys, NEW s, s = Slot(k), ~HitsLost(arr[s], k),
         NEW i, i = Position(arr[s], k)
  PROVE  /\ s \in Slots /\ i \in 0..Len(arr[s])
         /\ i > 0 => /\ i \in 1..Len(arr[s])
                     /\ arr[s][i].key = k
                     /\ PairOf(arr[s][i]) \in AllEntries(arr)
                     /\ HasKey(AllEntries(arr), k)
         /\ i = 0 => ~HasKey(AllEntries(arr), k)
<1>1. /\ s \in Slots /\ Home(k, size) = s
      /\ arr[s] \in Seq(Bucket) /\ Len(arr[s]) \in Nat
  BY SlotType, ChainFacts DEF Arrays
<1>2. /\ i \in 0..Len(arr[s])
      /\ i > 0 => arr[s][i].key = k
      /\ i = 0 => \A j \in 1..Len(arr[s]) : arr[s][j].key # k
  BY <1>1, PositionFacts
<1>3. ASSUME i > 0
      PROVE  /\ i \in 1..Len(arr[s])
             /\ PairOf(arr[s][i]) \in AllEntries(arr)
             /\ HasKey(AllEntries(arr), k)
  <2>1. i \in 1..Len(arr[s]) /\ arr[s][i].key = k
    BY <1>1, <1>2, <1>3
  <2>2. PairOf(arr[s][i]) \in AllEntries(arr)
    BY <2>1, <1>1, EntriesIff
  <2>3. PairOf(arr[s][i]).key = k
    BY <2>1 DEF PairOf
  <2> QED BY <2>1, <2>2, <2>3 DEF HasKey
<1>4. ASSUME i = 0, HasKey(AllEntries(arr), k)
      PROVE  FALSE
  <2>1. PICK e \in AllEntries(arr) : e.key = k
    BY <1>4 DEF HasKey
  <2>2. PICK t \in Slots : \E j \in 1..Len(arr[t]) : e = PairOf(arr[t][j])
    BY EntriesIff
  <2>3. PICK j \in 1..Len(arr[t]) : e = PairOf(arr[t][j])
    BY <2>2
  <2>4. arr[t][j].key = k
    BY <2>1, <2>3 DEF PairOf
  <2>5. Home(arr[t][j].key, size) = t
    BY ChainKeys
  <2>6. t = s
    BY <2>4, <2>5, <1>1
  <2> QED BY <2>4, <2>6, <1>2, <1>4
<1> QED BY <1>1, <1>2, <1>3, <1>4

-----------------------------------------------------------------------------
(* The inductive invariant.  Accounting and KeysPlaced are not inductive: that
   a moved bucket fits into the new array, and that the new key is still new
   when its bucket is stored, depends on what the loops have left behind and
   have still ahead of them. *)

Types ==
  /\ size \in 1..MaxSize
  /\ arr \in Arrays
  /\ job \in Jobs \cup {NULL}
  /\ iter \in Iters \cup {NULL}
  /\ status \in {"ok", "destroyed", "undefined"}

(* While the table is being rebuilt, the loops are at a place of an old array
   that was in order; the keys ahead of them are not yet in the new array, and
   the key to insert is in neither. *)
JobOK ==
  job # NULL =>
    /\ status = "ok" /\ iter = NULL
    /\ job.slots \in 1..MaxSize
    /\ job.slot \in 0..job.slots
    /\ job.pos \in Nat \ {0}
    /\ PlacedIn(job.old, job.slots)
    /\ \A e \in AllEntries(arr), f \in EntriesAt(job.old, Waiting) : e.key # f.key
    /\ ~HasKey(Entries, job.key)

(* An iterator is before a slot or at a bucket, and the table stands still. *)
IterOK ==
  iter # NULL =>
    /\ job = NULL
    /\ iter.slot \in 0..size
    /\ iter.pos > 0 => iter.slot < size /\ iter.pos <= Len(arr[iter.slot])

IInv ==
  /\ Types
  /\ PlacedIn(arr, size)
  /\ JobOK
  /\ IterOK
  /\ Accounting

(* Without a rebuilding the entries are those of the array. *)
LEMMA Idle ==
  /\ job = NULL => Waiting = {} /\ Entries = AllEntries(arr)
  /\ job' = NULL => Waiting' = {} /\ Entries' = AllEntries(arr')
<1>1. \A a : EntriesAt(a, {}) = {}
  BY DEF EntriesAt
<1>2. ASSUME job = NULL PROVE Waiting = {} /\ Entries = AllEntries(arr)
  <2>1. Waiting = {}
    BY <1>2 DEF Waiting
  <2> QED BY <2>1, <1>1 DEF Entries, Cells, AllEntries
<1>3. ASSUME job' = NULL PROVE Waiting' = {} /\ Entries' = AllEntries(arr')
  <2>1. Waiting' = {}
    BY <1>3 DEF Waiting
  <2> QED BY <2>1, <1>1 DEF Entries, Cells, AllEntries
<1> QED BY <1>2, <1>3

(* With one, they are those of the new array and those still waiting. *)
LEMMA Busy ==
  ASSUME Types, JobOK, job # NULL
  PROVE  /\ job \in Jobs
         /\ job.key \in Keys /\ job.data \in Data
         /\ job.old \in Arrays
         /\ Waiting = CellsFrom(job.old, job.slot, job.pos)
         /\ EntriesAt(job.old, Waiting) \in SUBSET AllEntries(job.old)
         /\ Entries = AllEntries(arr) \cup EntriesAt(job.old, Waiting)
         /\ IsFiniteSet(Waiting)
<1>1. job \in Jobs
  BY DEF Types
<1>2. job.key \in Keys /\ job.data \in Data /\ job.old \in Arrays
  BY <1>1 DEF Jobs, Arrays
<1>3. Waiting = CellsFrom(job.old, job.slot, job.pos)
  BY DEF Waiting
<1>4. Waiting \in SUBSET CellsOf(job.old)
  BY <1>3 DEF CellsFrom
<1>5. EntriesAt(job.old, Waiting) \in SUBSET AllEntries(job.old)
  BY <1>4 DEF EntriesAt, AllEntries
<1>6. Entries = AllEntries(arr) \cup EntriesAt(job.old, Waiting)
  BY DEF Entries, Cells, AllEntries
<1>7. IsFiniteSet(CellsOf(job.old))
  BY <1>2, CellsFinite DEF JobOK
<1> QED BY <1>1, <1>2, <1>3, <1>4, <1>5, <1>6, <1>7, FS_Subset

(* The table holds a map: no two entries have the same key. *)
LEMMA EntriesUnique ==
  ASSUME IInv
  PROVE  Entries \in SUBSET Pairs /\ UniqueKeys(Entries)
<1>1. /\ arr \in Arrays
      /\ AllEntries(arr) \in SUBSET Pairs
      /\ UniqueKeys(AllEntries(arr))
  BY EntriesIff, PlacedUnique DEF IInv, Types
<1>2. CASE job = NULL
  BY <1>1, <1>2, Idle
<1>3. CASE job # NULL
  <2> DEFINE W == EntriesAt(job.old, Waiting)
  <2>1. /\ job.old \in Arrays
        /\ W \in SUBSET AllEntries(job.old)
        /\ Entries = AllEntries(arr) \cup W
    BY <1>3, Busy DEF IInv
  <2>2. AllEntries(job.old) \in SUBSET Pairs /\ UniqueKeys(AllEntries(job.old))
    BY <2>1, <1>3, EntriesIff, PlacedUnique DEF IInv, JobOK
  <2>3. \A e \in AllEntries(arr), f \in W : e.key # f.key
    BY <1>3 DEF IInv, JobOK
  <2> HIDE DEF W
  <2>4. UniqueKeys(AllEntries(arr) \cup W)
    BY <1>1, <2>1, <2>2, <2>3 DEF UniqueKeys
  <2> QED BY <1>1, <2>1, <2>2, <2>4
<1> QED BY <1>2, <1>3

-----------------------------------------------------------------------------
(* One lemma per way in which a step changes the table: the invariant holds
   afterwards, and this is what has happened to the entries. *)

Counted == count = Cardinality(CellsOf(arr)) /\ collision = Cardinality(Chained(arr))

(* What the invariant says while nothing is rebuilding the table ... *)
LEMMA IdleTable ==
  ASSUME IInv, job = NULL
  PROVE  arr \in Arrays /\ size \in 1..MaxSize /\ PlacedIn(arr, size) /\ Counted
<1>1. arr \in Arrays /\ size \in 1..MaxSize /\ PlacedIn(arr, size)
  BY DEF IInv, Types
<1>2. Cardinality(CellsOf(arr)) \in Nat
  BY <1>1, CellsFinite
<1>3. Waiting = {}
  BY Idle
<1>4. /\ count = Cardinality(CellsOf(arr)) + Cardinality({})
      /\ collision = Cardinality(Chained(arr))
  BY <1>3 DEF IInv, Accounting, Cells, Chained
<1>5. count = Cardinality(CellsOf(arr))
  BY <1>2, <1>4, FS_EmptySet
<1> QED BY <1>1, <1>4, <1>5 DEF Counted

(* ... and what is to be shown of a step after which nothing does. *)
LEMMA IdleAfter ==
  ASSUME job' = NULL, iter' = NULL, status' \in {"ok", "destroyed", "undefined"},
         arr' \in Arrays, size' \in 1..MaxSize, PlacedIn(arr', size'), Counted'
  PROVE  IInv' /\ Entries' = AllEntries(arr')
<1>1. Types' /\ JobOK' /\ IterOK'
  BY DEF Types, JobOK, IterOK
<1>2. Cardinality(CellsOf(arr')) \in Nat
  BY CellsFinite
<1>3. Waiting' = {} /\ Entries' = AllEntries(arr')
  BY Idle
<1>4. count' = Cardinality(CellsOf(arr')) /\ collision' = Cardinality(Chained(arr'))
  BY DEF Counted
<1>5. count' = Cardinality(CellsOf(arr')) + Cardinality({})
  BY <1>2, <1>4, FS_EmptySet
<1>6. Accounting'
  BY <1>3, <1>4, <1>5 DEF Accounting, Cells, Chained
<1>7. PlacedIn(arr, size)'
  OBVIOUS
<1> QED BY <1>1, <1>3, <1>6, <1>7 DEF IInv

(* A step that leaves the table, the rebuilding and the iterator alone. *)
LEMMA Untouched ==
  ASSUME IInv, UNCHANGED <<table, job, iter>>,
         status' \in {"ok", "destroyed", "undefined"}, job = NULL \/ status' = status
  PROVE  IInv' /\ Entries' = Entries /\ Unvisited' = Unvisited
<1>1. size' = size /\ arr' = arr /\ count' = count /\ collision' = collision
        /\ job' = job /\ iter' = iter
  BY DEF table
<1>2. Cells' = Cells /\ Waiting' = Waiting
  BY <1>1 DEF Cells, Waiting
<1>3. Entries' = Entries /\ Unvisited' = Unvisited
  BY <1>1, <1>2 DEF Entries, Unvisited
<1>4. Types'
  BY <1>1 DEF IInv, Types
<1>5. PlacedIn(arr, size)'
  BY <1>1 DEF IInv
<1>6. JobOK'
  BY <1>1, <1>2, <1>3 DEF IInv, JobOK
<1>7. IterOK'
  BY <1>1 DEF IInv, IterOK
<1>8. Accounting'
  BY <1>1, <1>2 DEF IInv, Accounting
<1> QED BY <1>3, <1>4, <1>5, <1>6, <1>7, <1>8 DEF IInv

(* Storing the bucket of a new key, or finding no memory for it. *)
LEMMA Stored ==
  ASSUME arr \in Arrays, size \in 1..MaxSize, PlacedIn(arr, size), Counted,
         NEW k \in Keys, NEW d \in Data, ~HasKey(AllEntries(arr), k),
         Store(k, d), size' = size
  PROVE  /\ arr' \in Arrays /\ size' \in 1..MaxSize /\ PlacedIn(arr', size') /\ Counted'
         /\ \/ /\ res' = Result("ret_ok", k, NULL)
               /\ AllEntries(arr') = AllEntries(arr) \cup {[key |-> k, data |-> d]}
            \/ /\ res' = Result("ret_out_of_memory", k, NULL)
               /\ AllEntries(arr') = AllEntries(arr)
<1> DEFINE s == Slot(k)
           b == [key |-> k, data |-> d, lost |-> FALSE]
           chain == arr[s]
           new == [arr EXCEPT ![s] = Link(chain, b)]
<1>1. s \in Slots /\ Home(k, size) = s
  BY SlotType
<1>2. b \in Bucket /\ b.key = k /\ PairOf(b) = [key |-> k, data |-> d]
  BY DEF Bucket, PairOf
<1>3. \/ /\ arr' = new
         /\ count' = count + 1
         /\ collision' = collision + (IF chain = <<>> THEN 0 ELSE 1)
         /\ res' = Result("ret_ok", k, NULL)
      \/ /\ arr' = arr /\ count' = count /\ collision' = collision
         /\ res' = Result("ret_out_of_memory", k, NULL)
  BY DEF Store, Return
<1> HIDE DEF s, b
<1>named. chain = arr[s] /\ new = [arr EXCEPT ![s] = Link(chain, b)]
  OBVIOUS
<1> HIDE DEF chain, new
<1>4. new \in Arrays /\ PlacedIn(new, size) /\ Added(new, arr, b, chain)
  BY <1>1, <1>2, <1>named, LinkArray
<1>5. CASE /\ arr' = new
           /\ count' = count + 1
           /\ collision' = collision + (IF chain = <<>> THEN 0 ELSE 1)
           /\ res' = Result("ret_ok", k, NULL)
  BY <1>2, <1>4, <1>5 DEF Counted, Added
<1>6. CASE /\ arr' = arr /\ count' = count /\ collision' = collision
           /\ res' = Result("ret_out_of_memory", k, NULL)
  BY <1>6 DEF Counted
<1> QED BY <1>3, <1>5, <1>6

(* The beginning of a rebuilding: all entries wait in the old array. *)
LEMMA Begun ==
  ASSUME IInv, Ready, NEW k \in Keys, NEW d \in Data, ~HasKey(AllEntries(arr), k),
         job' = [key |-> k, data |-> d, old |-> arr, slots |-> size,
                 slot |-> 0, pos |-> 1],
         size' = PrimeNearest(size + 1), arr' = NoChains, collision' = 0,
         UNCHANGED <<count, iter, status>>
  PROVE  IInv' /\ Entries' = Entries
<1>1. /\ arr \in Arrays /\ size \in 1..MaxSize /\ PlacedIn(arr, size) /\ Counted
      /\ job = NULL /\ iter = NULL /\ status = "ok" /\ MaxSize \in Nat
  BY IdleTable, Sizes DEF Ready
<1>2. /\ job'.key = k /\ job'.old = arr /\ job'.slots = size
      /\ job'.slot = 0 /\ job'.pos = 1
  OBVIOUS
<1>3. job' \in Jobs /\ job' # NULL
  <2>1. job' \in Jobs
    BY <1>1 DEF Jobs, Arrays
  <2> QED BY <2>1, HashAssumption
<1>4. Waiting' = CellsOf(arr)
  BY <1>1, <1>2, <1>3, FromStart DEF Waiting
<1>5. AllEntries(arr') = {} /\ CellsOf(arr') = {} /\ arr' \in Arrays /\ PlacedIn(arr', size')
  BY NoChainsArray
<1>6. EntriesAt(job'.old, Waiting') = AllEntries(arr)
  BY <1>2, <1>4 DEF AllEntries
<1>7. Entries' = AllEntries(arr)
  BY <1>5, <1>6 DEF Entries, AllEntries, Cells
<1>8. Entries = AllEntries(arr)
  BY <1>1, Idle
<1>9. Types'
  <2>1. PrimeNearest(size + 1) \in 1..MaxSize
    BY <1>1, PrimeNearestType
  <2> QED BY <2>1, <1>1, <1>3, <1>5 DEF Types
<1>10. PlacedIn(arr, size)'
  BY <1>5
<1>11. JobOK'
  BY <1>1, <1>2, <1>5, <1>7 DEF JobOK
<1>12. IterOK'
  BY <1>1 DEF IterOK
<1>13. Accounting'
  <2>1. Cardinality(CellsOf(arr)) \in Nat
    BY <1>1, CellsFinite
  <2>2. /\ count' = Cardinality(CellsOf(arr)) /\ Cells' = {}
        /\ {c \in Cells' : c[2] > 1} = {} /\ Cardinality({}) = 0
    BY <1>1, <1>5, FS_EmptySet DEF Counted, Cells
  <2>3. count' = Cardinality(Cells') + Cardinality(Waiting')
    BY <2>1, <2>2, <1>4
  <2>4. collision' = Cardinality({c \in Cells' : c[2] > 1})
    BY <2>2
  <2> QED BY <2>3, <2>4 DEF Accounting
<1> QED BY <1>7, <1>8, <1>9, <1>10, <1>11, <1>12, <1>13 DEF IInv

(* What is true of the bucket that the inner loop is at. *)
LEMMA NextBucket ==
  ASSUME IInv, Repopulating, job.pos <= Len(OldChain),
         NEW b, b = OldChain[job.pos],
         NEW ahead, ahead = CellsFrom(job.old, job.slot, job.pos + 1)
  PROVE  /\ b \in Bucket
         /\ ~HasKey(AllEntries(arr), b.key)
         /\ EntriesAt(job.old, Waiting) = EntriesAt(job.old, ahead) \cup {PairOf(b)}
         /\ ~HasKey(EntriesAt(job.old, ahead), b.key)
         /\ Cardinality(ahead) \in Nat
         /\ Cardinality(Waiting) = Cardinality(ahead) + 1
<1> DEFINE old == job.old
           cell == <<job.slot, job.pos>>
<1>1. /\ job # NULL /\ job.slots \in 1..MaxSize /\ job.slot \in 0..job.slots
      /\ job.slot < job.slots /\ job.pos \in Nat \ {0} /\ PlacedIn(old, job.slots)
      /\ \A e \in AllEntries(arr), f \in EntriesAt(job.old, Waiting) : e.key # f.key
  BY DEF IInv, JobOK, Repopulating
<1>2. /\ old \in Arrays /\ Waiting = CellsFrom(old, job.slot, job.pos)
      /\ IsFiniteSet(Waiting)
  BY <1>1, Busy DEF IInv
<1>3. job.slot \in Slots
  BY <1>1, Sizes DEF Slots
<1>4. Len(OldChain) \in Nat /\ OldChain \in Seq(Bucket)
  BY <1>2, <1>3, ChainFacts DEF OldChain, Arrays
<1>5. job.pos \in 1..Len(old[job.slot])
  BY <1>1, <1>4 DEF OldChain
<1>6. b \in Bucket /\ b = old[cell[1]][cell[2]]
  BY <1>4, <1>5 DEF OldChain
<1>7. Waiting = ahead \cup {cell} /\ cell \notin ahead
  BY <1>2, <1>3, <1>5, FromHere
<1>8. cell \in CellsOf(old) /\ ahead \in SUBSET CellsOf(old)
  BY <1>3, <1>5, <1>2, CellsIff DEF CellsFrom
<1>9. IsFiniteSet(ahead) /\ Cardinality(ahead) \in Nat
  BY <1>2, <1>7, FS_Subset, FS_CardinalityType
<1> HIDE DEF cell
<1>10. EntriesAt(old, Waiting) = EntriesAt(old, ahead) \cup {PairOf(b)}
  BY <1>6, <1>7 DEF EntriesAt, PairOf
<1>11. ~HasKey(AllEntries(arr), b.key)
  <2>1. PairOf(b) \in EntriesAt(old, Waiting) /\ PairOf(b).key = b.key
    BY <1>10 DEF PairOf
  <2> QED BY <2>1, <1>1 DEF HasKey
<1>12. ~HasKey(EntriesAt(old, ahead), b.key)
  <2> SUFFICES ASSUME NEW c \in ahead, old[c[1]][c[2]].key = b.key
               PROVE  FALSE
    BY DEF HasKey, EntriesAt
  <2>1. c = cell
    BY <1>1, <1>2, <1>6, <1>8, CellKeys
  <2> QED BY <2>1, <1>7
<1>13. Cardinality(Waiting) = Cardinality(ahead) + 1
  BY <1>7, <1>9, FS_AddElement
<1> QED BY <1>6, <1>9, <1>10, <1>11, <1>12, <1>13

(* One turn of the inner loop: a bucket goes from the old array to the new. *)
LEMMA Moved ==
  ASSUME IInv, Move
  PROVE  IInv' /\ Entries' = Entries
<1> DEFINE b == OldChain[job.pos]
           s == Slot(b.key)
           chain == arr[s]
           moved == [b EXCEPT !.lost = (chain # <<>> /\ job.pos = 1)]
           ahead == CellsFrom(job.old, job.slot, job.pos + 1)
<1>1. /\ Repopulating /\ job.pos <= Len(OldChain)
      /\ arr' = [arr EXCEPT ![s] = Link(chain, moved)]
      /\ collision' = collision + (IF chain = <<>> THEN 0 ELSE 1)
      /\ job' = [job EXCEPT !.pos = @ + 1]
      /\ size' = size /\ count' = count /\ iter' = iter /\ status' = status
  BY DEF Move
<1>2. /\ b = OldChain[job.pos] /\ s = Slot(b.key) /\ chain = arr[s]
      /\ ahead = CellsFrom(job.old, job.slot, job.pos + 1)
  OBVIOUS
<1>3. moved = [b EXCEPT !.lost = (chain # <<>> /\ job.pos = 1)]
  OBVIOUS
<1> HIDE DEF b, s, chain, moved, ahead
<1>4. /\ b \in Bucket
      /\ ~HasKey(AllEntries(arr), b.key)
      /\ EntriesAt(job.old, Waiting) = EntriesAt(job.old, ahead) \cup {PairOf(b)}
      /\ ~HasKey(EntriesAt(job.old, ahead), b.key)
      /\ Cardinality(ahead) \in Nat
      /\ Cardinality(Waiting) = Cardinality(ahead) + 1
  BY <1>1, <1>2, NextBucket
<1>5. moved \in Bucket /\ moved.key = b.key /\ PairOf(moved) = PairOf(b)
  BY <1>3, <1>4 DEF Bucket, PairOf
<1>6. arr \in Arrays /\ size \in 1..MaxSize /\ PlacedIn(arr, size)
  BY DEF IInv, Types
<1>7. s \in Slots /\ Home(moved.key, size) = s
  <2>1. b.key \in Keys
    BY <1>4 DEF Bucket
  <2> QED BY <2>1, <1>2, <1>5, <1>6, SlotType
<1>8. arr' \in Arrays /\ PlacedIn(arr', size) /\ Added(arr', arr, moved, chain)
  BY <1>1, <1>2, <1>4, <1>5, <1>6, <1>7, LinkArray
<1>9. /\ job # NULL /\ job.slots \in 1..MaxSize /\ job.slot \in 0..job.slots
      /\ job.pos \in Nat \ {0} /\ PlacedIn(job.old, job.slots)
      /\ \A e \in AllEntries(arr), f \in EntriesAt(job.old, Waiting) : e.key # f.key
      /\ ~HasKey(Entries, job.key)
      /\ status = "ok" /\ iter = NULL
  BY <1>1 DEF IInv, JobOK, Repopulating
<1>10. /\ job \in Jobs
       /\ Entries = AllEntries(arr) \cup EntriesAt(job.old, Waiting)
  BY <1>9, Busy DEF IInv
<1>11. /\ job'.key = job.key /\ job'.old = job.old /\ job'.slots = job.slots
       /\ job'.slot = job.slot /\ job'.pos = job.pos + 1 /\ job' \in Jobs
  BY <1>1, <1>9, <1>10 DEF Jobs
<1>12. job' # NULL
  BY <1>11, HashAssumption
<1>13. Waiting' = ahead
  BY <1>2, <1>11, <1>12 DEF Waiting
<1>14. AllEntries(arr') = AllEntries(arr) \cup {PairOf(b)}
  BY <1>5, <1>8 DEF Added
<1>15. Entries' = AllEntries(arr') \cup EntriesAt(job.old, ahead)
  BY <1>11, <1>13 DEF Entries, AllEntries, Cells
<1>16. Entries' = Entries
  BY <1>4, <1>10, <1>14, <1>15
<1>17. Types'
  BY <1>1, <1>6, <1>8, <1>11 DEF IInv, Types
<1>18. PlacedIn(arr, size)'
  BY <1>1, <1>8
<1>19. JobOK'
  <2>1. \A e \in AllEntries(arr'), f \in EntriesAt(job.old, ahead) : e.key # f.key
    <3> TAKE e \in AllEntries(arr'), f \in EntriesAt(job.old, ahead)
    <3>1. CASE e \in AllEntries(arr)
      BY <3>1, <1>4, <1>9
    <3>2. CASE e = PairOf(b)
      BY <3>2, <1>4 DEF PairOf, HasKey
    <3> QED BY <3>1, <3>2, <1>14
  <2>2. ~HasKey(Entries', job'.key)
    BY <1>9, <1>11, <1>16
  <2>3. \A e \in AllEntries(arr'), f \in EntriesAt(job'.old, Waiting') : e.key # f.key
    BY <2>1, <1>11, <1>13
  <2>4. PlacedIn(job'.old, job'.slots)
    BY <1>9, <1>11
  <2>5. status' = "ok" /\ iter' = NULL /\ job'.slots \in 1..MaxSize
          /\ job'.slot \in 0..job'.slots /\ job'.pos \in Nat \ {0}
    BY <1>1, <1>9, <1>11
  <2> QED BY <2>2, <2>3, <2>4, <2>5 DEF JobOK
<1>20. IterOK'
  BY <1>1, <1>9 DEF IterOK
<1>21. Accounting'
  <2>1. /\ count = Cardinality(CellsOf(arr)) + Cardinality(Waiting)
        /\ collision = Cardinality(Chained(arr))
    BY DEF IInv, Accounting, Cells, Chained
  <2>2. /\ Cardinality(CellsOf(arr')) = Cardinality(CellsOf(arr)) + 1
        /\ Cardinality(Chained(arr')) =
             Cardinality(Chained(arr)) + (IF chain = <<>> THEN 0 ELSE 1)
    BY <1>8 DEF Added
  <2>3. Cardinality(CellsOf(arr)) \in Nat
    BY <1>6, CellsFinite
  <2>4. count' = Cardinality(CellsOf(arr')) + Cardinality(Waiting')
    BY <2>1, <2>2, <2>3, <1>1, <1>4, <1>13
  <2>5. collision' = Cardinality(Chained(arr'))
    BY <2>1, <2>2, <1>1
  <2> QED BY <2>4, <2>5 DEF Accounting, Cells, Chained
<1> QED BY <1>16, <1>17, <1>18, <1>19, <1>20, <1>21 DEF IInv

(* The outer loop goes on: no bucket is passed over. *)
LEMMA WentOn ==
  ASSUME IInv, NextSlot
  PROVE  IInv' /\ Entries' = Entries
<1>1. /\ Repopulating /\ job.pos > Len(OldChain)
      /\ job' = [job EXCEPT !.slot = @ + 1, !.pos = 1]
      /\ size' = size /\ arr' = arr /\ count' = count /\ collision' = collision
      /\ iter' = iter /\ status' = status
  BY DEF NextSlot, table
<1>2. /\ job # NULL /\ job.slots \in 1..MaxSize /\ job.slot \in 0..job.slots
      /\ job.slot < job.slots
      /\ job.pos \in Nat \ {0} /\ PlacedIn(job.old, job.slots)
      /\ \A e \in AllEntries(arr), f \in EntriesAt(job.old, Waiting) : e.key # f.key
      /\ ~HasKey(Entries, job.key)
      /\ status = "ok" /\ iter = NULL
  BY <1>1 DEF IInv, JobOK, Repopulating
<1>3. job \in Jobs /\ job.old \in Arrays /\ Waiting = CellsFrom(job.old, job.slot, job.pos)
  BY <1>2, Busy DEF IInv
<1>4. /\ job'.key = job.key /\ job'.old = job.old /\ job'.slots = job.slots
      /\ job'.slot = job.slot + 1 /\ job'.pos = 1 /\ job' \in Jobs
  <2>1. job = [key |-> job.key, data |-> job.data, old |-> job.old,
               slots |-> job.slots, slot |-> job.slot, pos |-> job.pos]
    BY <1>3 DEF Jobs
  <2>2. job' = [key |-> job.key, data |-> job.data, old |-> job.old,
                slots |-> job.slots, slot |-> job.slot + 1, pos |-> 1]
    BY <1>1, <2>1
  <2>3. /\ job.key \in Keys /\ job.data \in Data /\ job.old \in [Slots -> Seq(Bucket)]
        /\ job.slots \in Nat /\ job.slot \in Nat
    BY <1>3 DEF Jobs
  <2> QED BY <2>2, <2>3 DEF Jobs
<1>5. job' # NULL
  BY <1>4, HashAssumption
<1>6. CellsFrom(job.old, job.slot, job.pos) = CellsFrom(job.old, job.slot + 1, 1)
  <2>1. job.slot \in Slots
    BY <1>2, Sizes DEF Slots
  <2> QED BY <2>1, <1>1, <1>2, <1>3, FromNext DEF OldChain
<1>7. Waiting' = Waiting
  BY <1>3, <1>4, <1>5, <1>6 DEF Waiting
<1>8. Entries' = Entries
  BY <1>1, <1>4, <1>7 DEF Entries, Cells
<1>9. Types'
  BY <1>1, <1>4 DEF IInv, Types
<1>10. PlacedIn(arr, size)'
  BY <1>1 DEF IInv
<1>11. JobOK'
  <2>1. /\ ~HasKey(Entries', job'.key)
        /\ \A e \in AllEntries(arr'), f \in EntriesAt(job'.old, Waiting') : e.key # f.key
        /\ PlacedIn(job'.old, job'.slots)
    BY <1>1, <1>2, <1>4, <1>7, <1>8
  <2>2. status' = "ok" /\ iter' = NULL /\ job'.slots \in 1..MaxSize
          /\ job'.slot \in 0..job'.slots /\ job'.pos \in Nat \ {0}
    BY <1>1, <1>2, <1>4
  <2> QED BY <2>1, <2>2 DEF JobOK
<1>12. IterOK'
  BY <1>1, <1>2 DEF IterOK
<1>13. Accounting'
  BY <1>1, <1>7 DEF IInv, Accounting, Cells
<1> QED BY <1>8, <1>9, <1>10, <1>11, <1>12, <1>13 DEF IInv

(* After the last slot nothing is left in the old array, and the new key is not
   in the new one. *)
LEMMA AllMoved ==
  ASSUME IInv, status = "ok", job # NULL, job.slot = job.slots
  PROVE  /\ arr \in Arrays /\ size \in 1..MaxSize /\ PlacedIn(arr, size) /\ Counted
         /\ job.key \in Keys /\ job.data \in Data /\ iter = NULL
         /\ Entries = AllEntries(arr) /\ ~HasKey(AllEntries(arr), job.key)
<1>1. /\ job.slots \in 1..MaxSize /\ PlacedIn(job.old, job.slots) /\ iter = NULL
      /\ ~HasKey(Entries, job.key)
  BY DEF IInv, JobOK
<1>2. /\ job.key \in Keys /\ job.data \in Data /\ job.old \in Arrays
      /\ Waiting = CellsFrom(job.old, job.slot, job.pos)
      /\ Entries = AllEntries(arr) \cup EntriesAt(job.old, Waiting)
  BY Busy DEF IInv
<1>3. Waiting = {}
  BY <1>1, <1>2, FromEnd, Sizes
<1>4. Entries = AllEntries(arr)
  BY <1>2, <1>3 DEF EntriesAt
<1>5. arr \in Arrays /\ size \in 1..MaxSize /\ PlacedIn(arr, size)
  BY DEF IInv, Types
<1>6. Cardinality(CellsOf(arr)) \in Nat
  BY <1>5, CellsFinite
<1>7. /\ count = Cardinality(CellsOf(arr)) + Cardinality({})
      /\ collision = Cardinality(Chained(arr))
  BY <1>3 DEF IInv, Accounting, Cells, Chained
<1>8. count = Cardinality(CellsOf(arr))
  BY <1>6, <1>7, FS_EmptySet
<1> QED BY <1>1, <1>2, <1>4, <1>5, <1>7, <1>8 DEF Counted

(* What a call sees before it changes anything. *)
LEMMA ReadyTable ==
  ASSUME IInv, Ready
  PROVE  /\ arr \in Arrays /\ size \in 1..MaxSize /\ PlacedIn(arr, size) /\ Counted
         /\ job = NULL /\ iter = NULL /\ status = "ok"
         /\ Entries = AllEntries(arr)
BY IdleTable, Idle DEF Ready

(* The end of an insertion, with or without a rebuilding before it. *)
InsertResult(k, d, before, after) ==
  \/ /\ res' = Result("ret_ok", k, NULL)
     /\ after = before \cup {[key |-> k, data |-> d]}
  \/ /\ res' = Result("ret_out_of_memory", k, NULL)
     /\ after = before

LEMMA Inserted ==
  ASSUME arr \in Arrays, size \in 1..MaxSize, PlacedIn(arr, size), Counted,
         NEW k \in Keys, NEW d \in Data, ~HasKey(AllEntries(arr), k),
         Store(k, d), size' = size, iter = NULL, job' = NULL,
         UNCHANGED <<iter, status>>, status = "ok"
  PROVE  IInv' /\ InsertResult(k, d, AllEntries(arr), Entries')
<1>1. /\ arr' \in Arrays /\ size' \in 1..MaxSize /\ PlacedIn(arr', size') /\ Counted'
      /\ \/ /\ res' = Result("ret_ok", k, NULL)
            /\ AllEntries(arr') = AllEntries(arr) \cup {[key |-> k, data |-> d]}
         \/ /\ res' = Result("ret_out_of_memory", k, NULL)
            /\ AllEntries(arr') = AllEntries(arr)
  BY Stored
<1>2. iter' = NULL /\ status' = "ok"
  OBVIOUS
<1>3. IInv' /\ Entries' = AllEntries(arr')
  BY <1>1, <1>2, IdleAfter
<1>4. InsertResult(k, d, AllEntries(arr), AllEntries(arr'))
  BY <1>1 DEF InsertResult
<1> QED BY <1>3, <1>4

LEMMA Ended ==
  ASSUME IInv, EndInsert
  PROVE  /\ IInv' /\ iter = NULL /\ iter' = NULL /\ status = "ok" /\ status' = "ok"
         /\ job.key \in Keys /\ job.data \in Data /\ ~HasKey(Entries, job.key)
         /\ InsertResult(job.key, job.data, Entries, Entries')
<1>1. /\ status = "ok" /\ job # NULL /\ job.slot = job.slots
      /\ Store(job.key, job.data) /\ job' = NULL
      /\ size' = size /\ iter' = iter /\ status' = status
  BY DEF EndInsert
<1>2. /\ arr \in Arrays /\ size \in 1..MaxSize /\ PlacedIn(arr, size) /\ Counted
      /\ job.key \in Keys /\ job.data \in Data /\ iter = NULL
      /\ Entries = AllEntries(arr) /\ ~HasKey(AllEntries(arr), job.key)
  BY <1>1, AllMoved
<1>3. IInv' /\ InsertResult(job.key, job.data, AllEntries(arr), Entries')
  BY <1>1, <1>2, Inserted
<1> QED BY <1>1, <1>2, <1>3

(* Emptying the table. *)
LEMMA Emptied ==
  ASSUME IInv, Ready, arr' = NoChains, count' = 0, collision' = 0,
         UNCHANGED <<size, job, iter, status>>
  PROVE  IInv' /\ Entries' = {}
<1>1. /\ size' \in 1..MaxSize /\ job' = NULL /\ iter' = NULL /\ status' = "ok"
  BY ReadyTable
<1>2. arr' \in Arrays /\ PlacedIn(arr', size') /\ AllEntries(arr') = {}
  BY NoChainsArray
<1>3. Counted'
  BY NoChainsArray DEF Counted
<1> QED BY <1>1, <1>2, <1>3, IdleAfter

(* Taking a bucket out. *)
LEMMA TakenOut ==
  ASSUME IInv, Ready, NEW s \in Slots, NEW chain, chain = arr[s],
         NEW i \in 1..Len(chain),
         arr' = [arr EXCEPT ![s] = Unlink(chain, i)], count' = count - 1,
         collision' = collision - (IF Len(chain) > 1 THEN 1 ELSE 0),
         UNCHANGED <<size, job, iter, status>>
  PROVE  IInv' /\ Entries' = Others(Entries, chain[i].key)
<1>1. /\ arr \in Arrays /\ size \in 1..MaxSize /\ PlacedIn(arr, size) /\ Counted
      /\ job = NULL /\ iter = NULL /\ status = "ok"
      /\ Entries = AllEntries(arr)
  BY ReadyTable
<1>3. arr' \in Arrays /\ PlacedIn(arr', size) /\ Removed(arr', arr, chain[i].key, chain)
  BY <1>1, UnlinkArray
<1>4. Counted'
  BY <1>1, <1>3 DEF Counted, Removed
<1>5. AllEntries(arr') = Others(AllEntries(arr), chain[i].key)
  BY <1>3 DEF Removed, Others
<1>6. size' = size /\ job' = NULL /\ iter' = NULL /\ status' = "ok"
  BY <1>1
<1>7. IInv' /\ Entries' = AllEntries(arr')
  BY <1>1, <1>3, <1>4, <1>6, IdleAfter
<1> QED BY <1>1, <1>5, <1>7

(* Writing new data into a bucket. *)
LEMMA Overwritten ==
  ASSUME IInv, Ready, NEW d \in Data, NEW s \in Slots, NEW chain, chain = arr[s],
         NEW i \in 1..Len(chain),
         arr' = [arr EXCEPT ![s][i].data = d],
         UNCHANGED <<size, count, collision, job, iter, status>>
  PROVE  /\ IInv'
         /\ Entries' = {e \in Entries : e.key # chain[i].key}
                         \cup {[key |-> chain[i].key, data |-> d]}
<1>1. /\ arr \in Arrays /\ size \in 1..MaxSize /\ PlacedIn(arr, size) /\ Counted
      /\ job = NULL /\ iter = NULL /\ status = "ok"
      /\ Entries = AllEntries(arr)
  BY ReadyTable
<1>3. arr' \in Arrays /\ PlacedIn(arr', size) /\ Rewritten(arr', arr, chain[i].key, d)
  BY <1>1, DataArray
<1>4. Counted'
  BY <1>1, <1>3 DEF Counted, Rewritten, Chained
<1>5. AllEntries(arr') = {e \in AllEntries(arr) : e.key # chain[i].key}
                           \cup {[key |-> chain[i].key, data |-> d]}
  BY <1>3 DEF Rewritten
<1>6. size' = size /\ job' = NULL /\ iter' = NULL /\ status' = "ok"
  BY <1>1
<1>7. IInv' /\ Entries' = AllEntries(arr')
  BY <1>1, <1>3, <1>4, <1>6, IdleAfter
<1> QED BY <1>1, <1>5, <1>7

-----------------------------------------------------------------------------
(* Iterators. *)

KeysFrom(a, slot, pos) == {a[c[1]][c[2]].key : c \in CellsFrom(a, slot, pos)}

(* The next slot with a chain exists, and only empty ones are passed over. *)
LEMMA SkipFacts ==
  ASSUME size \in 1..MaxSize, NEW s \in 0..size
  PROVE  LET n == SkipTo(s)
         IN /\ n \in s..size
            /\ n = size \/ arr[n] # <<>>
            /\ \A m \in s..(n - 1) : arr[m] = <<>>
<1> DEFINE stop(n) == n = size \/ arr[n] # <<>>
           stops == {n \in s..size : stop(n)}
<1>1. size \in Nat /\ s \in Nat /\ s <= size
  BY Sizes
<1>2. stops \in SUBSET Nat /\ size \in stops
  BY <1>1
<1>3. PICK n \in stops : \A j \in stops : n <= j
  BY <1>2, Least
<1>4. \A m \in s..(n - 1) : arr[m] = <<>>
  <2> SUFFICES ASSUME NEW m \in s..(n - 1), stop(m)
               PROVE  FALSE
    OBVIOUS
  <2>1. m \in stops
    BY <1>1, <1>3
  <2> QED BY <2>1, <1>1, <1>3
<1>5. \E m \in s..size : /\ m = size \/ arr[m] # <<>>
                         /\ \A j \in s..(m - 1) : arr[j] = <<>>
  BY <1>3, <1>4
<1> QED BY <1>5 DEF SkipTo

(* Where the iterator goes on is at a bucket or past the last slot, and what it
   has still to return has not changed. *)
LEMMA HereFacts ==
  ASSUME IInv, iter # NULL, NEW at, at = Here
  PROVE  /\ at = [slot |-> at.slot, pos |-> at.pos]
         /\ at.slot \in 0..size /\ at.pos \in Nat \ {0}
         /\ at.slot # size => at.slot \in Slots /\ at.pos \in 1..Len(arr[at.slot])
         /\ Unvisited = KeysFrom(arr, at.slot, at.pos)
         /\ at.slot = size => Unvisited = {}
<1>1. /\ arr \in Arrays /\ size \in 1..MaxSize /\ PlacedIn(arr, size)
      /\ iter \in Iters
      /\ iter.slot \in 0..size
      /\ iter.pos > 0 => iter.slot < size /\ iter.pos <= Len(arr[iter.slot])
  BY DEF IInv, Types, IterOK
<1>2. iter = [slot |-> iter.slot, pos |-> iter.pos] /\ iter.pos \in Nat
  BY <1>1 DEF Iters
<1>3. size \in Nat \ {0} /\ \A s \in 0..size : s < size => s \in Slots
  BY <1>1, Sizes DEF Slots
<1>4. \A s \in Slots : Len(arr[s]) \in Nat /\ (arr[s] # <<>> => Len(arr[s]) # 0)
  BY <1>1, ChainFacts DEF Arrays
<1>5. Unvisited = KeysFrom(arr, iter.slot, iter.pos)
  BY DEF Unvisited, KeysFrom
<1>6. /\ at = [slot |-> at.slot, pos |-> at.pos]
      /\ at.slot \in 0..size /\ at.pos \in Nat \ {0}
      /\ at.slot # size => at.slot \in Slots /\ at.pos \in 1..Len(arr[at.slot])
      /\ CellsFrom(arr, iter.slot, iter.pos) = CellsFrom(arr, at.slot, at.pos)
  <2>1. CASE iter.pos # 0
    <3>1. at = iter
      BY <2>1 DEF Here
    <3>2. iter.pos > 0 /\ iter.slot \in Slots /\ iter.slot # size
      BY <2>1, <1>1, <1>2, <1>3
    <3>3. iter.pos \in 1..Len(arr[iter.slot])
      BY <3>2, <1>1, <1>2, <1>4
    <3> QED BY <3>1, <3>2, <3>3, <1>1, <1>2
  <2>2. CASE iter.pos = 0
    <3> DEFINE n == SkipTo(iter.slot)
    <3>1. at = [slot |-> n, pos |-> 1]
      BY <2>2 DEF Here
    <3>2. /\ n \in iter.slot..size
          /\ n = size \/ arr[n] # <<>>
          /\ \A m \in iter.slot..(n - 1) : arr[m] = <<>>
      BY <1>1, SkipFacts
    <3> HIDE DEF n
    <3>3. iter.slot \in Nat /\ n \in Nat /\ iter.slot <= n /\ n \in 0..size
      BY <3>2, <1>1, <1>3
    <3>4. \A m \in iter.slot..(n - 1) : m \in Slots
      BY <3>2, <3>3, <1>3
    <3>5. CellsFrom(arr, iter.slot, 0) = CellsFrom(arr, n, 1)
      BY <3>2, <3>3, <3>4, <1>1, FromSkip
    <3>6. n # size => n \in Slots /\ 1 \in 1..Len(arr[n])
      <4> SUFFICES ASSUME n # size
                   PROVE  n \in Slots /\ 1 \in 1..Len(arr[n])
        OBVIOUS
      <4>1. n \in Slots /\ arr[n] # <<>>
        BY <3>2, <3>3, <1>3
      <4>2. Len(arr[n]) \in Nat /\ Len(arr[n]) # 0
        BY <4>1, <1>4
      <4> QED BY <4>1, <4>2
    <3> QED BY <2>2, <3>1, <3>3, <3>5, <3>6
  <2> QED BY <2>1, <2>2
<1>7. Unvisited = KeysFrom(arr, at.slot, at.pos)
  BY <1>5, <1>6 DEF KeysFrom
<1>8. ASSUME at.slot = size PROVE Unvisited = {}
  <2>1. CellsFrom(arr, size, at.pos) = {}
    BY <1>1, <1>3, FromEnd
  <2> QED BY <2>1, <1>7, <1>8 DEF KeysFrom
<1> QED BY <1>6, <1>7, <1>8

(* An iterator that moves on passes over one key, the one it returns. *)
LEMMA AdvanceFacts ==
  ASSUME IInv, iter # NULL, NEW at, at = Here, at.slot # size,
         NEW b, b = arr[at.slot][at.pos],
         NEW next, next = Advance(at)
  PROVE  /\ next \in Iters
         /\ next.slot \in 0..size
         /\ next.pos > 0 => next.slot < size /\ next.pos <= Len(arr[next.slot])
         /\ b.key \in Unvisited
         /\ KeysFrom(arr, next.slot, next.pos) = Unvisited \ {b.key}
         /\ PairOf(b) \in AllEntries(arr)
<1> DEFINE cell == <<at.slot, at.pos>>
           ahead == CellsFrom(arr, at.slot, at.pos + 1)
<1>1. arr \in Arrays /\ size \in 1..MaxSize /\ PlacedIn(arr, size)
  BY DEF IInv, Types
<1>2. /\ at = [slot |-> at.slot, pos |-> at.pos]
      /\ at.slot \in 0..size /\ at.pos \in Nat \ {0}
      /\ at.slot \in Slots /\ at.pos \in 1..Len(arr[at.slot])
      /\ Unvisited = KeysFrom(arr, at.slot, at.pos)
  BY HereFacts
<1>3. size \in Nat \ {0} /\ at.slot \in Nat /\ at.slot < size /\ Len(arr[at.slot]) \in Nat
  BY <1>1, <1>2, Sizes, ChainFacts DEF Arrays
<1>4. CellsFrom(arr, at.slot, at.pos) = ahead \cup {cell} /\ cell \notin ahead
  BY <1>1, <1>2, FromHere
<1>5. cell \in CellsOf(arr) /\ ahead \in SUBSET CellsOf(arr)
  BY <1>1, <1>2, CellsIff DEF CellsFrom
<1>6. b = arr[cell[1]][cell[2]]
  OBVIOUS
<1> HIDE DEF cell, ahead
<1>7. \A c \in ahead : arr[c[1]][c[2]].key # b.key
  <2> SUFFICES ASSUME NEW c \in ahead, arr[c[1]][c[2]].key = b.key
               PROVE  FALSE
    OBVIOUS
  <2>1. c = cell
    BY <1>1, <1>5, <1>6, CellKeys
  <2> QED BY <2>1, <1>4
<1>8. b.key \in Unvisited
        /\ Unvisited \ {b.key} = {arr[c[1]][c[2]].key : c \in ahead}
  BY <1>2, <1>4, <1>6, <1>7 DEF KeysFrom
<1>9. PairOf(b) \in AllEntries(arr)
  BY <1>1, <1>2, EntriesIff
<1>10. CASE at.pos < Len(arr[at.slot])
  <2>1. next = [slot |-> at.slot, pos |-> at.pos + 1]
    BY <1>10, <1>2 DEF Advance
  <2>2. next \in Iters /\ next.slot = at.slot /\ next.pos = at.pos + 1
    BY <2>1, <1>2, <1>3 DEF Iters
  <2>3. next.slot \in 0..size /\ next.slot < size /\ next.pos <= Len(arr[next.slot])
    BY <2>2, <1>2, <1>3, <1>10
  <2>4. KeysFrom(arr, next.slot, next.pos) = {arr[c[1]][c[2]].key : c \in ahead}
    BY <2>2 DEF KeysFrom, ahead
  <2> QED BY <2>2, <2>3, <2>4, <1>8, <1>9
<1>11. CASE ~(at.pos < Len(arr[at.slot]))
  <2>1. next = [slot |-> at.slot + 1, pos |-> 0]
    BY <1>11 DEF Advance
  <2>2. next \in Iters /\ next.slot = at.slot + 1 /\ next.pos = 0
    BY <2>1, <1>3 DEF Iters
  <2>3. next.slot \in 0..size /\ ~(next.pos > 0)
    BY <2>2, <1>3
  <2>4. ahead = CellsFrom(arr, at.slot + 1, 0)
    <3>1. at.pos + 1 \in Nat /\ at.pos + 1 > Len(arr[at.slot])
      BY <1>2, <1>3, <1>11
    <3> QED BY <3>1, <1>1, <1>2, FromNext DEF ahead
  <2>5. KeysFrom(arr, next.slot, next.pos) = {arr[c[1]][c[2]].key : c \in ahead}
    BY <2>2, <2>4 DEF KeysFrom
  <2> QED BY <2>2, <2>3, <2>5, <1>8, <1>9
<1> QED BY <1>10, <1>11

(* A step that only moves the iterator. *)
LEMMA IteratorMoved ==
  ASSUME IInv, UNCHANGED <<table, job>>, job = NULL, status' = "ok",
         iter' # NULL => /\ iter' \in Iters
                         /\ iter'.slot \in 0..size
                         /\ iter'.pos > 0 => /\ iter'.slot < size
                                             /\ iter'.pos <= Len(arr[iter'.slot])
  PROVE  /\ IInv' /\ Entries' = Entries
         /\ iter' # NULL => Unvisited' = KeysFrom(arr, iter'.slot, iter'.pos)
<1>1. size' = size /\ arr' = arr /\ count' = count /\ collision' = collision /\ job' = NULL
  BY DEF table
<1>2. Cells' = Cells /\ Waiting' = Waiting
  BY <1>1 DEF Cells, Waiting
<1>3. Entries' = Entries
  BY <1>1, <1>2 DEF Entries
<1>4. Types'
  BY <1>1 DEF IInv, Types
<1>5. PlacedIn(arr, size)'
  BY <1>1 DEF IInv
<1>6. JobOK'
  BY <1>1 DEF JobOK
<1>7. IterOK'
  BY <1>1 DEF IterOK
<1>8. Accounting'
  BY <1>1, <1>2 DEF IInv, Accounting
<1>9. iter' # NULL => Unvisited' = KeysFrom(arr, iter'.slot, iter'.pos)
  BY <1>1 DEF Unvisited, KeysFrom
<1> QED BY <1>3, <1>4, <1>5, <1>6, <1>7, <1>8, <1>9 DEF IInv

-----------------------------------------------------------------------------
(* The map of hash.h: what each kind of step is for its reader. *)

(* The outcome of a call, from its return value. *)
LEMMA Outcomes ==
  ASSUME NEW code, NEW k, NEW d, res' = Result(code, k, d)
  PROVE  /\ res'.key = k /\ res'.data = d
         /\ code \in {"ret_ok", "TRUE", "void"} => Outcome' = "ok"
         /\ code \in {"ret_not_found", "ret_err"} => Outcome' = "absent"
         /\ code = "FALSE" => Outcome' = IF k = NULL THEN "end" ELSE "absent"
         /\ code = "ret_entry_exists" => Outcome' = "exists"
         /\ code \in {"ret_out_of_memory", "NULL"} => Outcome' = "no memory"
<1>1. res'.code = code /\ res'.key = k /\ res'.data = d
  BY DEF Result
<1> QED BY <1>1 DEF Outcome

(* Rebuilding the table and releasing it are invisible. *)
LEMMA Hidden ==
  ASSUME Entries' = Entries, Unvisited' = Unvisited, res' = res,
         (status' = "undefined") = (status = "undefined")
  PROVE  UNCHANGED D!vars
<1>1. Contents' = Contents
  BY DEF Contents
<1>2. Outcome' = Outcome
  BY DEF Outcome
<1> QED BY <1>1, <1>2 DEF D!vars

(* Reading a lost bucket is the end of the promise. *)
LEMMA Broken ==
  ASSUME IInv, Ready, Undefined
  PROVE  IInv' /\ D!Break
<1>1. /\ status' = "undefined" /\ res' = res
      /\ UNCHANGED <<table, job, iter>> /\ job = NULL
  BY DEF Undefined, Ready
<1>2. IInv' /\ Entries' = Entries /\ Unvisited' = Unvisited
  BY <1>1, Untouched
<1>3. Contents' = Contents /\ Outcome' = Outcome
  BY <1>1, <1>2 DEF Contents, Outcome
<1> QED BY <1>1, <1>2, <1>3 DEF D!Break

(* What the reader sees when a call begins, and of a call that returns. *)
LEMMA ReadyDict ==
  ASSUME IInv, status = "ok", iter = NULL
  PROVE  /\ D!Ready
         /\ \A k \in Keys : Contents[k] = NULL <=> ~HasKey(Entries, k)
         /\ \A e \in Entries : Contents[e.key] = e.data
         /\ Unvisited = NULL
<1>1. Unvisited = NULL
  BY DEF Unvisited
<1>2. Entries \in SUBSET Pairs /\ UniqueKeys(Entries)
  BY EntriesUnique
<1>3. \A k \in Keys : Contents[k] = NULL <=> ~HasKey(Entries, k)
  BY <1>2, MapFacts DEF Contents
<1>4. \A e \in Entries : Contents[e.key] = e.data
  BY <1>2, MapFacts DEF Contents
<1> QED BY <1>1, <1>3, <1>4 DEF D!Ready

LEMMA InsertDict ==
  ASSUME IInv, NEW k \in Keys, NEW d \in Data,
         status = "ok", iter = NULL, status' = "ok", iter' = NULL,
         ~HasKey(Entries, k), InsertResult(k, d, Entries, Entries')
  PROVE  D!Insert(k, d)
<1>1. D!Ready /\ Contents[k] = NULL /\ Unvisited = NULL
  BY ReadyDict
<1>2. Entries \in SUBSET Pairs /\ UniqueKeys(Entries)
  BY EntriesUnique
<1>3. Unvisited' = NULL
  BY DEF Unvisited
<1>4. CASE /\ res' = Result("ret_ok", k, NULL)
           /\ Entries' = Entries \cup {[key |-> k, data |-> d]}
  <2>1. res'.key = k /\ res'.data = NULL /\ Outcome' = "ok"
    BY <1>4, Outcomes
  <2>2. MapOf(Entries \cup {[key |-> k, data |-> d]}) = [MapOf(Entries) EXCEPT ![k] = d]
    BY <1>2, MapAdd
  <2>3. Contents' = [Contents EXCEPT ![k] = d]
    BY <1>4, <2>2 DEF Contents
  <2> QED BY <1>1, <1>3, <2>1, <2>3 DEF D!Insert, D!Return, D!Result
<1>5. CASE res' = Result("ret_out_of_memory", k, NULL) /\ Entries' = Entries
  <2>1. res'.key = k /\ res'.data = NULL /\ Outcome' = "no memory"
    BY <1>5, Outcomes
  <2>2. Contents' = Contents
    BY <1>5 DEF Contents
  <2> QED BY <1>1, <1>3, <2>1, <2>2 DEF D!Insert, D!Return, D!Result
<1> QED BY <1>4, <1>5 DEF InsertResult

-----------------------------------------------------------------------------
(* One lemma per action: the invariant holds after it, and for the reader of
   hash.h it is a step of the map or none. *)

DictStep == D!Next \/ UNCHANGED D!vars

(* A call that returns without changing anything. *)
LEMMA Answered ==
  ASSUME IInv, Ready, UNCHANGED <<table, job, iter, status>>
  PROVE  /\ IInv' /\ Entries' = Entries /\ Contents' = Contents
         /\ Unvisited' = NULL /\ status' = "ok" /\ iter' = NULL
<1>1. status = "ok" /\ job = NULL /\ iter = NULL
  BY DEF Ready
<1>2. IInv' /\ Entries' = Entries
  BY <1>1, Untouched
<1> QED BY <1>1, <1>2 DEF Contents, Unvisited

LEMMA InsertUniqueStep ==
  ASSUME IInv, NEW k \in Keys, NEW d \in Data, InsertUnique(k, d)
  PROVE  IInv' /\ DictStep
<1>1. /\ arr \in Arrays /\ size \in 1..MaxSize /\ PlacedIn(arr, size) /\ Counted
      /\ job = NULL /\ iter = NULL /\ status = "ok" /\ Entries = AllEntries(arr)
      /\ Ready
  BY ReadyTable DEF InsertUnique
<1>2. CASE HitsLost(arr[Slot(k)], k)
  <2>1. Undefined
    BY <1>2 DEF InsertUnique
  <2> QED BY <2>1, <1>1, Broken DEF DictStep, D!Next
<1>3. ASSUME ~HitsLost(arr[Slot(k)], k), Position(arr[Slot(k)], k) > 0
      PROVE  IInv' /\ DictStep
  <2>1. res' = Result("ret_entry_exists", k, NULL) /\ UNCHANGED <<table, job, iter, status>>
    BY <1>3 DEF InsertUnique, Return
  <2>2. HasKey(Entries, k)
    BY <1>1, <1>3, Found
  <2>3. /\ IInv' /\ Contents' = Contents /\ Unvisited' = NULL /\ status' = "ok"
    BY <1>1, <2>1, Answered
  <2>4. res'.key = k /\ res'.data = NULL /\ Outcome' = "exists"
    BY <2>1, Outcomes
  <2>5. D!Ready /\ Contents[k] # NULL /\ Unvisited = NULL
    BY <1>1, <2>2, ReadyDict
  <2>6. D!Insert(k, d)
    BY <1>1, <2>3, <2>4, <2>5 DEF D!Insert, D!Return, D!Result
  <2> QED BY <2>3, <2>6 DEF DictStep, D!Next
<1>4. ASSUME ~HitsLost(arr[Slot(k)], k), ~(Position(arr[Slot(k)], k) > 0)
      PROVE  IInv' /\ DictStep
  <2>1. BeginInsert(k, d)
    BY <1>3, <1>4 DEF InsertUnique
  <2>2. ~HasKey(AllEntries(arr), k)
    <3>1. Position(arr[Slot(k)], k) = 0
      <4>1. arr[Slot(k)] \in Seq(Bucket)
        BY <1>1, SlotType DEF Arrays
      <4>2. Position(arr[Slot(k)], k) \in 0..Len(arr[Slot(k)])
              /\ Len(arr[Slot(k)]) \in Nat
        BY <4>1, <1>4, PositionFacts, ChainFacts
      <4> QED BY <4>2, <1>4
    <3> QED BY <3>1, <1>1, <1>4, Found
  <2>3. ASSUME Store(k, d), UNCHANGED <<size, job, iter, status>>
        PROVE  IInv' /\ DictStep
    <3>1. /\ IInv' /\ InsertResult(k, d, AllEntries(arr), Entries')
      BY <1>1, <2>2, <2>3, Inserted
    <3>2. status' = "ok" /\ iter' = NULL
      BY <1>1, <2>3
    <3>3. D!Insert(k, d)
      BY <1>1, <2>2, <3>1, <3>2, InsertDict
    <3> QED BY <3>1, <3>3 DEF DictStep, D!Next
  <2>4. ASSUME Return("ret_out_of_memory", k, NULL), UNCHANGED <<table, job, iter, status>>
        PROVE  IInv' /\ DictStep
    <3>1. IInv' /\ Entries' = Entries /\ status' = "ok" /\ iter' = NULL
      BY <1>1, <2>4, Answered
    <3>2. InsertResult(k, d, Entries, Entries')
      BY <2>4, <3>1 DEF InsertResult, Return
    <3>3. D!Insert(k, d)
      BY <1>1, <2>2, <3>1, <3>2, InsertDict
    <3> QED BY <3>1, <3>3 DEF DictStep, D!Next
  <2>5. ASSUME Undefined
        PROVE  IInv' /\ DictStep
    BY <2>5, <1>1, Broken DEF DictStep, D!Next
  <2>6. ASSUME job' = [key |-> k, data |-> d, old |-> arr, slots |-> size,
                       slot |-> 0, pos |-> 1],
               size' = PrimeNearest(size + 1), arr' = NoChains, collision' = 0,
               UNCHANGED <<count, iter, res, status>>
        PROVE  IInv' /\ DictStep
    <3>1. IInv' /\ Entries' = Entries
      BY <1>1, <2>2, <2>6, Begun
    <3>2. Unvisited' = Unvisited
      BY <1>1, <2>6 DEF Unvisited
    <3> QED BY <3>1, <3>2, <2>6, Hidden DEF DictStep
  <2> QED BY <2>1, <2>3, <2>4, <2>5, <2>6 DEF BeginInsert
<1> QED BY <1>2, <1>3, <1>4

LEMMA MoveStep ==
  ASSUME IInv, Move
  PROVE  IInv' /\ DictStep
<1>1. IInv' /\ Entries' = Entries
  BY Moved
<1>2. job # NULL /\ iter' = iter /\ res' = res /\ status' = status
  BY DEF Move, Repopulating
<1>3. iter = NULL
  BY <1>2 DEF IInv, JobOK
<1>4. Unvisited' = Unvisited
  BY <1>2, <1>3 DEF Unvisited
<1> QED BY <1>1, <1>2, <1>4, Hidden DEF DictStep

LEMMA NextSlotStep ==
  ASSUME IInv, NextSlot
  PROVE  IInv' /\ DictStep
<1>1. IInv' /\ Entries' = Entries
  BY WentOn
<1>2. job # NULL /\ iter' = iter /\ res' = res /\ status' = status
  BY DEF NextSlot, Repopulating
<1>3. iter = NULL
  BY <1>2 DEF IInv, JobOK
<1>4. Unvisited' = Unvisited
  BY <1>2, <1>3 DEF Unvisited
<1> QED BY <1>1, <1>2, <1>4, Hidden DEF DictStep

LEMMA EndInsertStep ==
  ASSUME IInv, EndInsert
  PROVE  IInv' /\ DictStep
<1>1. /\ IInv' /\ iter = NULL /\ iter' = NULL /\ status = "ok" /\ status' = "ok"
      /\ job.key \in Keys /\ job.data \in Data /\ ~HasKey(Entries, job.key)
      /\ InsertResult(job.key, job.data, Entries, Entries')
  BY Ended
<1>2. D!Insert(job.key, job.data)
  BY <1>1, InsertDict
<1> QED BY <1>1, <1>2 DEF DictStep, D!Next

LEMMA LookupStep ==
  ASSUME IInv, NEW k \in Keys, Lookup(k)
  PROVE  IInv' /\ DictStep
<1> DEFINE chain == arr[Slot(k)]
           i == Position(chain, k)
<1>1. /\ arr \in Arrays /\ size \in 1..MaxSize /\ PlacedIn(arr, size)
      /\ job = NULL /\ iter = NULL /\ status = "ok" /\ Entries = AllEntries(arr)
      /\ Ready
  BY ReadyTable DEF Lookup
<1>2. CASE HitsLost(chain, k)
  <2>1. Undefined
    BY <1>2 DEF Lookup
  <2> QED BY <2>1, <1>1, Broken DEF DictStep, D!Next
<1>3. CASE ~HitsLost(chain, k)
  <2>1. /\ res' = IF chain = <<>> THEN Result("ret_not_found", k, NULL)
                  ELSE IF i > 0 THEN Result("ret_ok", k, chain[i].data)
                  ELSE Result("ret_err", k, NULL)
        /\ UNCHANGED <<table, job, iter, status>>
    BY <1>3 DEF Lookup, Return
  <2>2. /\ Slot(k) \in Slots /\ i \in 0..Len(chain)
        /\ i > 0 => /\ i \in 1..Len(chain) /\ chain[i].key = k
                    /\ PairOf(chain[i]) \in AllEntries(arr)
                    /\ HasKey(AllEntries(arr), k)
        /\ i = 0 => ~HasKey(AllEntries(arr), k)
    BY <1>1, <1>3, Found
  <2>3. Len(chain) \in Nat /\ (chain = <<>> => Len(chain) = 0)
    BY <1>1, <2>2, ChainFacts DEF Arrays
  <2> HIDE DEF chain, i
  <2>4. /\ IInv' /\ Contents' = Contents /\ Unvisited' = NULL /\ status' = "ok"
    BY <1>1, <2>1, Answered
  <2>5. D!Ready /\ Unvisited = NULL
        /\ (Contents[k] = NULL <=> ~HasKey(Entries, k))
        /\ \A e \in Entries : Contents[e.key] = e.data
    BY <1>1, ReadyDict
  <2>6. CASE i > 0
    <3>1. res' = Result("ret_ok", k, chain[i].data)
      BY <2>1, <2>2, <2>3, <2>6
    <3>2. res'.key = k /\ res'.data = chain[i].data /\ Outcome' = "ok"
      BY <3>1, Outcomes
    <3>3. Contents[k] # NULL /\ Contents[k] = chain[i].data
      BY <1>1, <2>2, <2>5, <2>6 DEF PairOf
    <3>4. D!Lookup(k)
      BY <1>1, <2>4, <2>5, <3>2, <3>3 DEF D!Lookup, D!Return, D!Result
    <3> QED BY <2>4, <3>4 DEF DictStep, D!Next
  <2>7. CASE i = 0
    <3>1. \/ res' = Result("ret_not_found", k, NULL)
          \/ res' = Result("ret_err", k, NULL)
      BY <2>1, <2>7
    <3>2. res'.key = k /\ res'.data = NULL /\ Outcome' = "absent"
      BY <3>1, Outcomes
    <3>3. Contents[k] = NULL
      BY <1>1, <2>2, <2>5, <2>7
    <3>4. D!Lookup(k)
      BY <1>1, <2>4, <2>5, <3>2, <3>3 DEF D!Lookup, D!Return, D!Result
    <3> QED BY <2>4, <3>4 DEF DictStep, D!Next
  <2> QED BY <2>2, <2>3, <2>6, <2>7
<1> QED BY <1>2, <1>3

LEMMA RemoveStep ==
  ASSUME IInv, NEW k \in Keys, Remove(k)
  PROVE  IInv' /\ DictStep
<1> DEFINE s == Slot(k)
           chain == arr[s]
           i == Position(chain, k)
<1>1. /\ arr \in Arrays /\ size \in 1..MaxSize /\ PlacedIn(arr, size)
      /\ job = NULL /\ iter = NULL /\ status = "ok" /\ Entries = AllEntries(arr)
      /\ Ready
  BY ReadyTable DEF Remove
<1>2. CASE HitsLost(chain, k) \/ (i = 1 /\ Len(chain) > 1 /\ chain[2].lost)
  <2>1. Undefined
    BY <1>2 DEF Remove
  <2> QED BY <2>1, <1>1, Broken DEF DictStep, D!Next
<1>3. CASE ~(HitsLost(chain, k) \/ (i = 1 /\ Len(chain) > 1 /\ chain[2].lost))
  <2>1. /\ \/ /\ i = 0
              /\ res' = Result("FALSE", k, NULL) /\ UNCHANGED table
           \/ /\ i # 0
              /\ arr' = [arr EXCEPT ![s] = Unlink(chain, i)]
              /\ count' = count - 1
              /\ collision' = collision - (IF Len(chain) > 1 THEN 1 ELSE 0)
              /\ res' = Result("TRUE", k, NULL)
              /\ UNCHANGED size
        /\ UNCHANGED <<job, iter, status>>
    BY <1>3 DEF Remove, Return
  <2>2. /\ s \in Slots /\ i \in 0..Len(chain)
        /\ i > 0 => /\ i \in 1..Len(chain) /\ chain[i].key = k
                    /\ HasKey(AllEntries(arr), k)
        /\ i = 0 => ~HasKey(AllEntries(arr), k)
    BY <1>1, <1>3, Found
  <2>3. chain = arr[s] /\ Len(chain) \in Nat
    BY <1>1, <2>2, ChainFacts DEF Arrays
  <2> HIDE DEF s, chain, i
  <2>4. D!Ready /\ Unvisited = NULL /\ (Contents[k] = NULL <=> ~HasKey(Entries, k))
    BY <1>1, ReadyDict
  <2>5. CASE i = 0
    <3>1. res' = Result("FALSE", k, NULL) /\ UNCHANGED <<table, job, iter, status>>
      BY <2>1, <2>5
    <3>2. IInv' /\ Contents' = Contents /\ Unvisited' = NULL /\ status' = "ok"
      BY <1>1, <3>1, Answered
    <3>3. res'.key = k /\ res'.data = NULL /\ Outcome' = "absent"
      BY <3>1, Outcomes, HashAssumption
    <3>4. Contents[k] = NULL /\ Contents = [Contents EXCEPT ![k] = NULL]
      BY <1>1, <2>2, <2>4, <2>5 DEF Contents, MapOf
    <3>5. D!Remove(k)
      BY <1>1, <2>4, <3>2, <3>3, <3>4 DEF D!Remove, D!Return, D!Result
    <3> QED BY <3>2, <3>5 DEF DictStep, D!Next
  <2>6. CASE i # 0
    <3>1. i > 0 /\ i \in 1..Len(chain) /\ chain[i].key = k /\ HasKey(Entries, k)
      BY <1>1, <2>2, <2>3, <2>6
    <3>2. /\ arr' = [arr EXCEPT ![s] = Unlink(chain, i)] /\ count' = count - 1
          /\ collision' = collision - (IF Len(chain) > 1 THEN 1 ELSE 0)
          /\ res' = Result("TRUE", k, NULL)
          /\ UNCHANGED <<size, job, iter, status>>
      BY <2>1, <2>6
    <3>3. IInv' /\ Entries' = Others(Entries, chain[i].key)
      BY <1>1, <2>2, <2>3, <3>1, <3>2, TakenOut
    <3>4. res'.key = k /\ res'.data = NULL /\ Outcome' = "ok"
      BY <3>2, Outcomes
    <3>5. Entries \in SUBSET Pairs /\ UniqueKeys(Entries)
      BY EntriesUnique
    <3>6. MapOf(Others(Entries, k)) = [MapOf(Entries) EXCEPT ![k] = NULL]
      BY <3>5, MapRemove DEF Others
    <3>7. Contents' = [Contents EXCEPT ![k] = NULL]
      BY <3>1, <3>3, <3>6 DEF Contents
    <3>8. Unvisited' = NULL /\ status' = "ok"
      BY <1>1, <3>2 DEF Unvisited
    <3>9. Contents[k] # NULL
      BY <2>4, <3>1
    <3>10. D!Remove(k)
      BY <1>1, <2>4, <3>4, <3>7, <3>8, <3>9 DEF D!Remove, D!Return, D!Result
    <3> QED BY <3>3, <3>10 DEF DictStep, D!Next
  <2> QED BY <2>5, <2>6
<1> QED BY <1>2, <1>3

LEMMA ReplaceStep ==
  ASSUME IInv, NEW k \in Keys, NEW d \in Data, Replace(k, d)
  PROVE  IInv' /\ DictStep
<1> DEFINE s == Slot(k)
           chain == arr[s]
           i == Position(chain, k)
<1>1. /\ arr \in Arrays /\ size \in 1..MaxSize /\ PlacedIn(arr, size)
      /\ job = NULL /\ iter = NULL /\ status = "ok" /\ Entries = AllEntries(arr)
      /\ Ready
  BY ReadyTable DEF Replace
<1>2. CASE HitsLost(chain, k)
  <2>1. Undefined
    BY <1>2 DEF Replace
  <2> QED BY <2>1, <1>1, Broken DEF DictStep, D!Next
<1>3. CASE ~HitsLost(chain, k)
  <2>1. /\ \/ i = 0 /\ res' = Result("FALSE", k, NULL) /\ arr' = arr
           \/ i # 0 /\ res' = Result("TRUE", k, NULL) /\ arr' = [arr EXCEPT ![s][i].data = d]
        /\ UNCHANGED <<size, count, collision, job, iter, status>>
    BY <1>3 DEF Replace, Return
  <2>2. /\ s \in Slots /\ i \in 0..Len(chain)
        /\ i > 0 => /\ i \in 1..Len(chain) /\ chain[i].key = k
                    /\ HasKey(AllEntries(arr), k)
        /\ i = 0 => ~HasKey(AllEntries(arr), k)
    BY <1>1, <1>3, Found
  <2>3. chain = arr[s] /\ Len(chain) \in Nat
    BY <1>1, <2>2, ChainFacts DEF Arrays
  <2> HIDE DEF s, chain, i
  <2>4. D!Ready /\ Unvisited = NULL /\ (Contents[k] = NULL <=> ~HasKey(Entries, k))
    BY <1>1, ReadyDict
  <2>5. CASE i = 0
    <3>1. res' = Result("FALSE", k, NULL) /\ UNCHANGED <<table, job, iter, status>>
      BY <2>1, <2>5 DEF table
    <3>2. IInv' /\ Contents' = Contents /\ Unvisited' = NULL /\ status' = "ok"
      BY <1>1, <3>1, Answered
    <3>3. res'.key = k /\ res'.data = NULL /\ Outcome' = "absent"
      BY <3>1, Outcomes, HashAssumption
    <3>4. Contents[k] = NULL
      BY <1>1, <2>2, <2>4, <2>5
    <3>5. D!Replace(k, d)
      BY <1>1, <2>4, <3>2, <3>3, <3>4 DEF D!Replace, D!Return, D!Result
    <3> QED BY <3>2, <3>5 DEF DictStep, D!Next
  <2>6. CASE i # 0
    <3>1. i > 0 /\ i \in 1..Len(chain) /\ chain[i].key = k /\ HasKey(Entries, k)
      BY <1>1, <2>2, <2>3, <2>6
    <3>2. /\ arr' = [arr EXCEPT ![s][i].data = d]
          /\ res' = Result("TRUE", k, NULL)
          /\ UNCHANGED <<size, count, collision, job, iter, status>>
      BY <2>1, <2>6
    <3>3. /\ IInv'
          /\ Entries' = {e \in Entries : e.key # chain[i].key}
                          \cup {[key |-> chain[i].key, data |-> d]}
      BY <1>1, <2>2, <2>3, <3>1, <3>2, Overwritten
    <3>4. res'.key = k /\ res'.data = NULL /\ Outcome' = "ok"
      BY <3>2, Outcomes
    <3>5. Entries \in SUBSET Pairs /\ UniqueKeys(Entries)
      BY EntriesUnique
    <3>6. MapOf({e \in Entries : e.key # k} \cup {[key |-> k, data |-> d]})
            = [MapOf(Entries) EXCEPT ![k] = d]
      BY <3>5, MapReplace
    <3>7. Contents' = [Contents EXCEPT ![k] = d]
      BY <3>1, <3>3, <3>6 DEF Contents
    <3>8. Unvisited' = NULL /\ status' = "ok"
      BY <1>1, <3>2 DEF Unvisited
    <3>9. Contents[k] # NULL
      BY <2>4, <3>1
    <3>10. D!Replace(k, d)
      BY <1>1, <2>4, <3>4, <3>7, <3>8, <3>9 DEF D!Replace, D!Return, D!Result
    <3> QED BY <3>3, <3>10 DEF DictStep, D!Next
  <2> QED BY <2>5, <2>6
<1> QED BY <1>2, <1>3

LEMMA CleanStep ==
  ASSUME IInv, Clean
  PROVE  IInv' /\ DictStep
<1>1. job = NULL /\ iter = NULL /\ status = "ok" /\ Ready
  BY DEF Clean, Ready
<1>2. CASE LostSlots # {}
  BY <1>1, <1>2, Broken DEF Clean, DictStep, D!Next
<1>3. CASE LostSlots = {}
  <2>1. /\ arr' = NoChains /\ count' = 0 /\ collision' = 0
        /\ res' = Result("void", NULL, NULL)
        /\ UNCHANGED <<size, job, iter, status>>
    BY <1>3 DEF Clean, Return
  <2>2. IInv' /\ Entries' = {}
    BY <1>1, <2>1, Emptied
  <2>3. Contents' = [k \in Keys |-> NULL]
    BY <2>2 DEF Contents, MapOf
  <2>4. res'.key = NULL /\ res'.data = NULL /\ Outcome' = "ok"
    BY <2>1, Outcomes
  <2>5. Unvisited' = NULL /\ status' = "ok"
    BY <1>1, <2>1 DEF Unvisited
  <2>6. D!Ready /\ Unvisited = NULL
    BY <1>1, ReadyDict
  <2>7. D!Clean
    BY <1>1, <2>3, <2>4, <2>5, <2>6 DEF D!Clean, D!Return, D!Result
  <2> QED BY <2>2, <2>7 DEF DictStep, D!Next
<1> QED BY <1>2, <1>3

LEMMA DestroyStep ==
  ASSUME IInv, Destroy
  PROVE  IInv' /\ DictStep
<1>1. job = NULL /\ iter = NULL /\ status = "ok" /\ Ready
  BY DEF Destroy, Ready
<1>2. CASE LostSlots # {}
  BY <1>1, <1>2, Broken DEF Destroy, DictStep, D!Next
<1>3. CASE LostSlots = {}
  <2>1. status' = "destroyed" /\ UNCHANGED <<table, job, iter, res>>
    BY <1>3 DEF Destroy
  <2>2. IInv' /\ Entries' = Entries /\ Unvisited' = Unvisited
    BY <1>1, <2>1, Untouched
  <2> QED BY <1>1, <2>1, <2>2, Hidden DEF DictStep
<1> QED BY <1>2, <1>3

LEMMA IteratorBegins ==
  ASSUME IInv, IterateInit, iter' = [slot |-> 0, pos |-> 0], UNCHANGED res
  PROVE  IInv' /\ DictStep
<1>1. /\ arr \in Arrays /\ size \in 1..MaxSize
      /\ job = NULL /\ iter = NULL /\ status = "ok" /\ Entries = AllEntries(arr)
      /\ Ready
  BY ReadyTable DEF IterateInit
<1>2. /\ iter' = [slot |-> 0, pos |-> 0] /\ res' = res
      /\ UNCHANGED <<table, job, status>>
  BY DEF IterateInit
<1>3. iter' \in Iters /\ iter'.slot = 0 /\ iter'.pos = 0 /\ iter' # NULL
  <2>1. iter' \in Iters
    BY <1>2 DEF Iters
  <2> QED BY <2>1, <1>2, HashAssumption
<1>4. iter'.slot \in 0..size /\ ~(iter'.pos > 0)
  BY <1>1, <1>3, Sizes
<1>5. IInv' /\ Entries' = Entries /\ Unvisited' = KeysFrom(arr, 0, 0)
  BY <1>1, <1>2, <1>3, <1>4, IteratorMoved
<1>6. CellsFrom(arr, 0, 0) = CellsOf(arr)
  BY <1>1, FromStart
<1>7. KeysFrom(arr, 0, 0) = {k \in Keys : HasKey(AllEntries(arr), k)}
  <2>1. KeysFrom(arr, 0, 0) = {e.key : e \in AllEntries(arr)}
    <3>1. KeysFrom(arr, 0, 0) = {arr[c[1]][c[2]].key : c \in CellsOf(arr)}
      BY <1>6 DEF KeysFrom
    <3>2. \A e : e \in AllEntries(arr) <=>
                 \E c \in CellsOf(arr) : e = PairOf(arr[c[1]][c[2]])
      BY DEF AllEntries, EntriesAt, PairOf
    <3>3. \A b : PairOf(b).key = b.key
      BY DEF PairOf
    <3>4. ASSUME NEW c \in CellsOf(arr)
          PROVE  arr[c[1]][c[2]].key \in {e.key : e \in AllEntries(arr)}
      <4>1. PairOf(arr[c[1]][c[2]]) \in AllEntries(arr)
        BY <3>2
      <4> QED BY <4>1, <3>3
    <3>5. ASSUME NEW e \in AllEntries(arr)
          PROVE  \E c \in CellsOf(arr) : e.key = arr[c[1]][c[2]].key
      BY <3>2, <3>3
    <3> QED BY <3>1, <3>4, <3>5
  <2>2. \A e \in AllEntries(arr) : e.key \in Keys
    BY <1>1, EntriesIff DEF Pairs
  <2> QED BY <2>1, <2>2 DEF HasKey
<1>8. Unvisited' = {k \in Keys : Contents[k] # NULL}
  <2>1. \A k \in Keys : Contents[k] = NULL <=> ~HasKey(Entries, k)
    BY <1>1, ReadyDict
  <2> QED BY <2>1, <1>1, <1>5, <1>7
<1>9. Contents' = Contents /\ Outcome' = Outcome
  BY <1>2, <1>5 DEF Contents, Outcome
<1>10. D!Ready
  BY <1>1, ReadyDict
<1>11. D!IterateInit
  BY <1>2, <1>8, <1>9, <1>10 DEF D!IterateInit
<1> QED BY <1>5, <1>11 DEF DictStep, D!Next

LEMMA IterateInitStep ==
  ASSUME IInv, IterateInit
  PROVE  IInv' /\ DictStep
<1>1. CASE iter' = [slot |-> 0, pos |-> 0] /\ UNCHANGED res
  BY <1>1, IteratorBegins
<1>2. CASE res' = Result("NULL", NULL, NULL) /\ UNCHANGED iter
  <2>1. /\ iter = NULL /\ status = "ok" /\ Entries = AllEntries(arr) /\ Ready
        /\ arr \in Arrays /\ size \in 1..MaxSize /\ job = NULL
    BY ReadyTable DEF IterateInit
  <2>2. IInv' /\ Contents' = Contents /\ Unvisited' = NULL /\ status' = "ok"
    BY <1>2, <2>1, Answered DEF IterateInit
  <2>3. res'.key = NULL /\ res'.data = NULL /\ Outcome' = "no memory"
    BY <1>2, Outcomes
  <2>4. D!Ready /\ Unvisited = NULL
    BY <2>1, ReadyDict
  <2>5. D!IterateInit
    BY <2>1, <2>2, <2>3, <2>4 DEF D!IterateInit, D!Return, D!Result
  <2> QED BY <2>2, <2>5 DEF DictStep, D!Next
<1> QED BY <1>1, <1>2 DEF IterateInit, Return

LEMMA IterateStep ==
  ASSUME IInv, Iterate
  PROVE  IInv' /\ DictStep
<1> DEFINE at == Here
           b == arr[at.slot][at.pos]
<1>1. /\ status = "ok" /\ iter # NULL /\ UNCHANGED <<table, job>>
      /\ \/ /\ at.slot = size
            /\ iter' = NULL /\ res' = Result("FALSE", NULL, NULL) /\ status' = status
         \/ /\ at.slot # size /\ b.lost
            /\ status' = "undefined" /\ iter' = iter /\ res' = res
         \/ /\ at.slot # size
            /\ iter' = Advance(at)
            /\ res' = Result("TRUE", b.key, b.data) /\ status' = status
  BY DEF Iterate, Return
<1>2. at = Here /\ b = arr[at.slot][at.pos]
  OBVIOUS
<1> HIDE DEF at, b
<1>3. job = NULL /\ arr' = arr
  BY <1>1 DEF IInv, IterOK, table
<1>4. Unvisited # NULL
  <2>1. Unvisited \in SUBSET Keys
    <3>1. arr \in Arrays
      BY DEF IInv, Types
    <3>2. \A c \in CellsOf(arr) : arr[c[1]][c[2]].key \in Keys
      <4> TAKE c \in CellsOf(arr)
      <4>1. c[1] \in Slots /\ c[2] \in 1..Len(arr[c[1]])
        BY <3>1, CellsIff
      <4>2. arr[c[1]][c[2]] \in Bucket
        BY <3>1, <4>1, ChainFacts DEF Arrays
      <4> QED BY <4>2 DEF Bucket
    <3> QED BY <3>2, <1>1 DEF Unvisited, CellsFrom
  <2> QED BY <2>1, HashAssumption
<1>5. CASE /\ at.slot = size
           /\ iter' = NULL /\ res' = Result("FALSE", NULL, NULL) /\ status' = status
  <2>1. IInv' /\ Entries' = Entries
    BY <1>1, <1>3, <1>5, IteratorMoved
  <2>2. Unvisited = {}
    BY <1>1, <1>2, <1>5, HereFacts
  <2>3. Contents' = Contents /\ Unvisited' = NULL
    BY <2>1, <1>5 DEF Contents, Unvisited
  <2>4. res'.key = NULL /\ res'.data = NULL /\ Outcome' = "end"
    BY <1>5, Outcomes
  <2>5. D!Iterate
    BY <1>1, <1>4, <1>5, <2>2, <2>3, <2>4 DEF D!Iterate, D!Return, D!Result
  <2> QED BY <2>1, <2>5 DEF DictStep, D!Next
<1>6. CASE /\ at.slot # size /\ b.lost
           /\ status' = "undefined" /\ iter' = iter /\ res' = res
  <2>1. IInv' /\ Entries' = Entries /\ Unvisited' = Unvisited
    BY <1>1, <1>3, <1>6, Untouched
  <2>2. Contents' = Contents /\ Outcome' = Outcome
    BY <2>1, <1>6 DEF Contents, Outcome
  <2>3. D!Break
    BY <2>1, <2>2, <1>6 DEF D!Break
  <2> QED BY <2>1, <2>3 DEF DictStep, D!Next
<1>7. CASE /\ at.slot # size
           /\ iter' = Advance(at)
           /\ res' = Result("TRUE", b.key, b.data) /\ status' = status
  <2>1. /\ iter' \in Iters
        /\ iter'.slot \in 0..size
        /\ iter'.pos > 0 => iter'.slot < size /\ iter'.pos <= Len(arr[iter'.slot])
        /\ b.key \in Unvisited
        /\ KeysFrom(arr, iter'.slot, iter'.pos) = Unvisited \ {b.key}
        /\ PairOf(b) \in AllEntries(arr)
    BY <1>1, <1>2, <1>7, AdvanceFacts
  <2>2. iter' # NULL
    BY <2>1, HashAssumption
  <2>3. /\ IInv' /\ Entries' = Entries
        /\ Unvisited' = KeysFrom(arr, iter'.slot, iter'.pos)
    BY <1>1, <1>3, <1>7, <2>1, <2>2, IteratorMoved
  <2>4. Unvisited' = Unvisited \ {b.key}
    BY <2>1, <2>3
  <2>5. Contents' = Contents
    BY <2>3 DEF Contents
  <2>6. Contents[b.key] = b.data
    <3>1. Entries = AllEntries(arr)
      BY <1>3, Idle
    <3>2. Entries \in SUBSET Pairs /\ UniqueKeys(Entries)
      BY EntriesUnique
    <3>3. Contents[PairOf(b).key] = PairOf(b).data
      BY <3>1, <3>2, <2>1, MapFacts DEF Contents
    <3> QED BY <3>3 DEF PairOf
  <2>7. res'.key = b.key /\ res'.data = b.data /\ Outcome' = "ok"
    BY <1>7, Outcomes
  <2>8. D!Iterate
    <3>1. /\ D!Return("ok", b.key, Contents[b.key])
          /\ Unvisited' = Unvisited \ {b.key}
      BY <2>4, <2>6, <2>7 DEF D!Return, D!Result
    <3> QED BY <1>1, <1>4, <1>7, <2>1, <2>5, <3>1 DEF D!Iterate
  <2> QED BY <2>3, <2>8 DEF DictStep, D!Next
<1> QED BY <1>1, <1>5, <1>6, <1>7

-----------------------------------------------------------------------------
(* The invariant holds in every state, and so does what follows from it. *)

LEMMA InitOK ==
  ASSUME Init
  PROVE  IInv /\ D!Init
<1>1. /\ size = Size0 /\ arr = NoChains /\ count = 0 /\ collision = 0
      /\ job = NULL /\ iter = NULL /\ status = "ok"
      /\ res = Result("none", NULL, NULL)
  BY DEF Init
<1>2. /\ arr \in Arrays /\ PlacedIn(arr, size) /\ AllEntries(arr) = {}
      /\ CellsOf(arr) = {} /\ Chained(arr) = {}
  <2>1. CellsOf(arr) = {}
    BY <1>1, NoChainsArray
  <2> QED BY <2>1, <1>1, NoChainsArray DEF Chained
<1>3. Waiting = {} /\ Entries = {}
  BY <1>1, <1>2, Idle
<1>4. Types
  BY <1>1, <1>2, Sizes DEF Types
<1>5. JobOK /\ IterOK
  BY <1>1 DEF JobOK, IterOK
<1>6. Accounting
  <2>1. Cardinality({}) = 0
    BY FS_EmptySet
  <2>2. {c \in Cells : c[2] > 1} = {} /\ Cells = {}
    BY <1>2 DEF Cells
  <2> QED BY <2>1, <2>2, <1>1, <1>3 DEF Accounting
<1>7. IInv
  BY <1>2, <1>4, <1>5, <1>6 DEF IInv
<1>8. Contents = [k \in Keys |-> NULL]
  BY <1>3 DEF Contents, MapOf
<1>9. Unvisited = NULL
  BY <1>1 DEF Unvisited
<1>10. res.key = NULL /\ res.data = NULL /\ Outcome = "none"
  BY <1>1 DEF Result, Outcome
<1>11. D!Init
  BY <1>1, <1>8, <1>9, <1>10 DEF D!Init, D!Result
<1> QED BY <1>7, <1>11

LEMMA NextOK ==
  ASSUME IInv, [Next]_vars
  PROVE  IInv' /\ DictStep
<1>1. CASE Next
  BY <1>1, InsertUniqueStep, ReplaceStep, LookupStep, RemoveStep, CleanStep, DestroyStep,
     MoveStep, NextSlotStep, EndInsertStep, IterateInitStep, IterateStep DEF Next
<1>2. CASE UNCHANGED vars
  <2>1. UNCHANGED <<table, job, iter>> /\ res' = res /\ status' = status
    BY <1>2 DEF vars
  <2>2. status \in {"ok", "destroyed", "undefined"}
    BY DEF IInv, Types
  <2>3. IInv' /\ Entries' = Entries /\ Unvisited' = Unvisited
    BY <2>1, <2>2, Untouched
  <2> QED BY <2>1, <2>3, Hidden DEF DictStep
<1> QED BY <1>1, <1>2

(* The inductive invariant of the hash table, for every hash function and every
   order of calls, rebuildings and iterations (hash.c). *)
THEOREM Invariance == Spec => []IInv
<1>1. Init => IInv
  BY InitOK
<1>2. IInv /\ [Next]_vars => IInv'
  BY NextOK
<1> QED BY <1>1, <1>2, PTL DEF Spec

(* Both counters are right in every state, also in the middle of a rebuilding
   (table->count and table->collision). *)
THEOREM CountersRight == Spec => []Accounting
<1>1. IInv => Accounting
  BY DEF IInv
<1> QED BY <1>1, Invariance, PTL

(* The invariant says where every key is. *)
LEMMA PlacedKeys == ASSUME IInv PROVE KeysPlaced
<1>1. arr \in Arrays /\ size \in 1..MaxSize /\ PlacedIn(arr, size)
  BY DEF IInv, Types
<1>2. \A c \in Cells : Slot(arr[c[1]][c[2]].key) = c[1]
  <2> TAKE c \in Cells
  <2>1. c[1] \in Slots /\ c[2] \in 1..Len(arr[c[1]])
    BY <1>1, CellsIff DEF Cells
  <2>2. arr[c[1]][c[2]] \in Bucket /\ c[2] \in DOMAIN arr[c[1]]
    BY <1>1, <2>1, ChainFacts DEF Arrays
  <2>3. arr[c[1]][c[2]].key \in Keys
    BY <2>2 DEF Bucket
  <2>4. Home(arr[c[1]][c[2]].key, size) = c[1]
    BY <1>1, <2>1, <2>2 DEF PlacedIn
  <2> QED BY <1>1, <2>3, <2>4, SlotType
<1>3. \A c, d \in Cells : arr[c[1]][c[2]].key = arr[d[1]][d[2]].key => c = d
  BY <1>1, CellKeys DEF Cells
<1>4. \A w \in Waiting, c \in Cells : arr[c[1]][c[2]].key # job.old[w[1]][w[2]].key
  <2> TAKE w \in Waiting, c \in Cells
  <2>1. job # NULL
    BY DEF Waiting
  <2>2. \A e \in AllEntries(arr), f \in EntriesAt(job.old, Waiting) : e.key # f.key
    BY <2>1 DEF IInv, JobOK
  <2>3. PairOf(arr[c[1]][c[2]]) \in AllEntries(arr)
    BY DEF AllEntries, EntriesAt, PairOf, Cells
  <2>4. PairOf(job.old[w[1]][w[2]]) \in EntriesAt(job.old, Waiting)
    BY DEF EntriesAt, PairOf
  <2>5. \A b : PairOf(b).key = b.key
    BY DEF PairOf
  <2>6. PairOf(arr[c[1]][c[2]]).key # PairOf(job.old[w[1]][w[2]]).key
    BY <2>2, <2>3, <2>4
  <2> QED BY <2>5, <2>6
<1> QED BY <1>2, <1>3, <1>4 DEF KeysPlaced

(* Every key is in the slot it hashes to and in one bucket only, so that walking
   along one chain decides whether it is present (hash_table_lookup). *)
THEOREM OneChain == Spec => []KeysPlaced
<1>1. IInv => KeysPlaced
  BY PlacedKeys
<1> QED BY <1>1, Invariance, PTL

(* There are at most as many buckets, in both arrays, as there are keys. *)
LEMMA EnoughKeys ==
  ASSUME IInv
  PROVE  /\ count \in 0..Cardinality(Keys)
         /\ collision \in 0..Cardinality(Keys)
<1> DEFINE keys == {arr[c[1]][c[2]].key : c \in Cells}
           waiting == {job.old[w[1]][w[2]].key : w \in Waiting}
<1>1. arr \in Arrays /\ PlacedIn(arr, size)
  BY DEF IInv, Types
<1>2. /\ Cardinality(Cells) \in Nat
      /\ Cardinality(Chained(arr)) \in Nat
      /\ Cardinality(Chained(arr)) <= Cardinality(Cells)
      /\ IsFiniteSet(Cells)
  BY <1>1, CellsFinite DEF Cells
<1>3. IsFiniteSet(Waiting) /\ Cardinality(Waiting) \in Nat
  <2>1. CASE job = NULL
    BY <2>1, Idle, FS_EmptySet
  <2>2. CASE job # NULL
    BY <2>2, Busy, FS_CardinalityType DEF IInv
  <2> QED BY <2>1, <2>2
<1>4. KeysPlaced
  BY PlacedKeys
<1>5. keys \in SUBSET Keys /\ waiting \in SUBSET Keys
  <2>1. \A a \in Arrays : \A c \in CellsOf(a) : a[c[1]][c[2]].key \in Keys
    <3> TAKE a \in Arrays
    <3> TAKE c \in CellsOf(a)
    <3>1. c[1] \in Slots /\ c[2] \in 1..Len(a[c[1]])
      BY CellsIff
    <3>2. a[c[1]][c[2]] \in Bucket
      BY <3>1, ChainFacts DEF Arrays
    <3> QED BY <3>2 DEF Bucket
  <2>2. \A w \in Waiting : job.old \in Arrays /\ w \in CellsOf(job.old)
    <3> TAKE w \in Waiting
    <3>1. job # NULL
      BY DEF Waiting
    <3> QED BY <3>1, Busy DEF IInv, CellsFrom
  <2> QED BY <2>1, <2>2, <1>1 DEF Cells
<1>6. keys \cap waiting = {}
  BY <1>4 DEF KeysPlaced
<1>7. IsFiniteSet(Keys)
  BY HashAssumption
<1>8. IsFiniteSet(keys) /\ IsFiniteSet(waiting)
  BY <1>5, <1>7, FS_Subset
<1>9. Cardinality(Cells) <= Cardinality(keys)
  <2> DEFINE f == [c \in Cells |-> arr[c[1]][c[2]].key]
  <2>1. f \in [Cells -> keys] /\ \A c, d \in Cells : f[c] = f[d] => c = d
    BY <1>4 DEF KeysPlaced
  <2> HIDE DEF f, keys
  <2>2. f \in Injection(Cells, keys)
    BY <2>1, Fun_IsInj
  <2> QED BY <2>2, <1>8, FS_Injection
<1>10. Cardinality(Waiting) <= Cardinality(waiting)
  <2> DEFINE f == [w \in Waiting |-> job.old[w[1]][w[2]].key]
  <2>1. f \in [Waiting -> waiting] /\ \A v, w \in Waiting : f[v] = f[w] => v = w
    <3>1. \A v, w \in Waiting : f[v] = f[w] => v = w
      <4> SUFFICES ASSUME NEW v \in Waiting, NEW w \in Waiting,
                          job.old[v[1]][v[2]].key = job.old[w[1]][w[2]].key
                   PROVE  v = w
        OBVIOUS
      <4>1. job # NULL
        BY DEF Waiting
      <4>2. /\ job.old \in Arrays /\ PlacedIn(job.old, job.slots)
            /\ v \in CellsOf(job.old) /\ w \in CellsOf(job.old)
        BY <4>1, Busy DEF IInv, JobOK, CellsFrom
      <4> QED BY <4>2, CellKeys
    <3> QED BY <3>1
  <2> HIDE DEF f, waiting
  <2>2. f \in Injection(Waiting, waiting)
    BY <2>1, Fun_IsInj
  <2> QED BY <2>2, <1>8, FS_Injection
<1> HIDE DEF keys, waiting
<1>11. Cardinality(keys) + Cardinality(waiting) <= Cardinality(Keys)
  <2>1. Cardinality(keys \cup waiting)
          = Cardinality(keys) + Cardinality(waiting) - Cardinality(keys \cap waiting)
    BY <1>8, FS_Union
  <2>2. Cardinality(keys \cap waiting) = 0
    BY <1>6, FS_EmptySet
  <2>3. Cardinality(keys \cup waiting) <= Cardinality(Keys)
    BY <1>5, <1>7, FS_Subset
  <2>4. Cardinality(keys) \in Nat /\ Cardinality(waiting) \in Nat
    BY <1>8, FS_CardinalityType
  <2> QED BY <2>1, <2>2, <2>3, <2>4
<1>12. /\ Cardinality(keys) \in Nat /\ Cardinality(waiting) \in Nat
       /\ Cardinality(Keys) \in Nat
  BY <1>7, <1>8, FS_CardinalityType
<1>13. /\ count = Cardinality(Cells) + Cardinality(Waiting)
       /\ collision = Cardinality(Chained(arr))
  BY DEF IInv, Accounting, Chained, Cells
<1> QED BY <1>2, <1>3, <1>9, <1>10, <1>11, <1>12, <1>13

(* The types of the variables; count and collision never exceed the number of
   keys and never fall below zero, whatever is inserted and removed. *)
THEOREM TypeCorrect == Spec => []TypeOK
<1>1. ASSUME IInv PROVE TypeOK
  BY <1>1, EnoughKeys DEF TypeOK, IInv, Types, Arrays
<1> QED BY <1>1, Invariance, PTL

(* The hash table is the map of hash.h: every call, rebuilding and iteration is
   a step of Dict, up to the first use of a lost bucket. *)
THEOREM Refinement == Spec => IsDict
<1>1. Init => D!Init
  BY InitOK
<1>2. IInv /\ [Next]_vars => [D!Next]_(D!vars)
  BY NextOK DEF DictStep
<1> QED BY <1>1, <1>2, Invariance, PTL DEF Spec, IsDict, D!Spec

==============================================================================
