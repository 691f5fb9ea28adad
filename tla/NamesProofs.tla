----------------------------- MODULE NamesProofs -----------------------------
(* Proofs about the names in module Calls: in programs that define no function
   twice or inside another one, do not recurse and declare local variables
   before they use their names, every variable and every function that the
   parser accepted is found when it is used, and is the one the parser found -
   for every set of functions, tables and identifiers. *)
EXTENDS CallsProofs, FiniteSetTheorems, WellFoundedInduction

(* The programs of CallsPlain.cfg. *)
Plain == Uses = {}

-----------------------------------------------------------------------------
(* The inductive invariant that is added to IInv. *)

Fits(s) == Defined(s[1]) /\ Len(funs[s[1]].params) = s[2]

(* One definition at a time, which no redefinition has touched. *)
OneDefinition ==
  /\ Len(defs) <= 1 /\ (hdr # NULL => defs = <<>>)
  /\ \A i \in DOMAIN defs : ~defs[i].lost

(* The calls in complete functions and in the definition in progress fit, and no
   complete function calls the one that is being defined: it may still fail. *)
SitesKept ==
  /\ \A f \in Funs : Defined(f) => \A s \in funs[f].sites : Fits(s)
  /\ \A i \in DOMAIN defs : \A s \in defs[i].sites : Fits(s)
  /\ \A i \in DOMAIN defs : \A f \in Funs : Defined(f) =>
       \A s \in funs[f].sites : s[1] # defs[i].fn

(* The parser found every name of a text in the table own of the text, or in the
   global one and not in own; it still does, with the tables sy. *)
Meant(refs, own, sy) ==
  \A r \in refs : /\ r[2] \in {own, Global} /\ r[1] \in sy[r[2]]
                  /\ r[2] = Global => r[1] \notin sy[own]

RefsKept ==
  /\ \A f \in Funs : Defined(f) /\ funs[f].scope # NULL =>
       Meant(funs[f].refs, funs[f].scope, syms)
  /\ \A i \in DOMAIN defs : Meant(defs[i].refs, defs[i].table, syms)

(* A call stands in the line or in the body of a call further out. *)
OwnersActive ==
  \A i \in DOMAIN frames : frames[i].owner # Line =>
    \E j \in 1..(i - 1) : frames[j].fn = frames[i].owner

NInv == OneDefinition /\ SitesKept /\ RefsKept /\ OwnersActive

-----------------------------------------------------------------------------
(* The walk of a lookup. *)

(* Every non-empty set of numbers has a least element. *)
LEMMA Least ==
  ASSUME NEW T \in SUBSET Nat, T # {}
  PROVE  \E m \in T : \A j \in T : m <= j
<1> DEFINE less == OpToRel(<, Nat)
<1>1. \A a, b \in Nat : <<a, b>> \in less <=> a < b
  BY DEF OpToRel
<1>2. IsWellFoundedOn(less, Nat)
  BY NatLessThanWellFounded
<1> HIDE DEF less
<1>3. PICK m \in T : \A j \in T : <<j, m>> \notin less
  BY <1>2, WFMin
<1>4. \A j \in T : m <= j
  <2> TAKE j \in T
  <2>1. m \in Nat /\ j \in Nat
    OBVIOUS
  <2>2. ~(j < m)
    BY <2>1, <1>1, <1>3
  <2> QED BY <2>1, <2>2
<1> QED BY <1>4

(* One step of the walk of symbol_table_lookup_all. *)
Follow(t) == IF t = NULL THEN NULL ELSE prev[t]

Follows(w) == w = [k \in Steps |-> IF k = 0 THEN top ELSE Follow(w[k - 1])]

(* If there is a walk at all, Walk is one. *)
LEMMA WalkFollows == ASSUME NEW w, Follows(w) PROVE Follows(Walk)
<1> DEFINE P(f) == f = [k \in Steps |->
                          IF k = 0 THEN top
                          ELSE IF f[k - 1] = NULL THEN NULL ELSE prev[f[k - 1]]]
<1>1. P(w)
  BY DEF Follows, Follow
<1>2. Walk = CHOOSE f : P(f)
  BY DEF Walk
<1> HIDE DEF P
<1>3. P(Walk)
  BY <1>1, <1>2
<1> QED BY <1>3 DEF P, Follows, Follow

LEMMA StepsFacts ==
  /\ Cardinality(AllTables) \in Nat /\ Steps = 0..Cardinality(AllTables)
  /\ IsFiniteSet(Tables) /\ Cardinality(AllTables) = Cardinality(Tables) + 1
  /\ Cardinality(Tables) \in Nat
<1>1. Cardinality(Tables) \in Nat
  BY FS_CardinalityType, ScopesAssumption
<1>2. AllTables = Tables \cup {Global} /\ Global \notin Tables /\ IsFiniteSet(Tables)
  BY ScopesAssumption DEF AllTables
<1>3. Cardinality(AllTables) = Cardinality(Tables) + 1
  BY <1>1, <1>2, FS_AddElement
<1> QED BY <1>1, <1>2, <1>3 DEF Steps

(* There is one walk only. *)
LEMMA OneWalk == ASSUME NEW v, NEW w, Follows(v), Follows(w)
                 PROVE  \A k \in Steps : v[k] = w[k]
<1> DEFINE T == {k \in Steps : v[k] # w[k]}
<1> SUFFICES ASSUME T # {} PROVE FALSE
  OBVIOUS
<1>1. T \in SUBSET Nat
  BY StepsFacts
<1>2. PICK m \in T : \A j \in T : m <= j
  BY <1>1, Least
<1>3. m \in Steps /\ m \in Nat /\ v[m] # w[m]
  BY <1>1
<1>4. /\ v[m] = IF m = 0 THEN top ELSE Follow(v[m - 1])
      /\ w[m] = IF m = 0 THEN top ELSE Follow(w[m - 1])
  BY <1>3 DEF Follows
<1>5. m # 0 => m - 1 \in Steps /\ ~(m <= m - 1)
  BY <1>3, StepsFacts
<1>6. m # 0 => v[m - 1] = w[m - 1]
  BY <1>2, <1>5
<1> QED BY <1>3, <1>4, <1>6

(* The tables of a stack lie on the chain: it is no longer than there are tables. *)
LEMMA ChainFits ==
  ASSUME NEW S, NEW stack \in Seq(S), \A i \in 1..Len(stack) : stack[i].table \in Tables,
         IsChain(top, prev, stack)
  PROVE  Len(stack) \in Nat /\ Len(stack) < Cardinality(AllTables) /\ Len(stack) \in Steps
<1> DEFINE n == Len(stack)
           f == [i \in 1..n |-> stack[i].table]
<1>1. n \in Nat /\ DOMAIN stack = 1..n
  BY LenProperties
<1>2. \A i, j \in 1..n : stack[i].table = stack[j].table => i = j
  BY <1>1 DEF IsChain
<1> HIDE DEF n
<1>3. f \in [1..n -> Tables] /\ \A i, j \in 1..n : f[i] = f[j] => i = j
  BY <1>2 DEF n
<1>4. f \in Injection(1..n, Tables)
  BY <1>3 DEF Injection, IsInjective
<1>5. Cardinality(1..n) <= Cardinality(Tables)
  BY <1>4, FS_Injection, StepsFacts
<1>6. Cardinality(1..n) = n
  BY <1>1, FS_Interval
<1>7. n < Cardinality(AllTables) /\ n \in Steps
  BY <1>1, <1>5, <1>6, StepsFacts
<1> QED BY <1>1, <1>7 DEF n

(* A lookup meets the tables of the stack, the newest first, and the global table
   at the end. *)
LEMMA WalkIsChain ==
  ASSUME NEW S, NEW stack \in Seq(S), \A i \in 1..Len(stack) : stack[i].table \in Tables,
         IsChain(top, prev, stack), prev[Global] = NULL
  PROVE  \A k \in Steps :
           Walk[k] = IF k < Len(stack) THEN stack[Len(stack) - k].table
                     ELSE IF k = Len(stack) THEN Global ELSE NULL
<1> DEFINE n == Len(stack)
           w == [k \in Steps |-> IF k < n THEN stack[n - k].table
                                 ELSE IF k = n THEN Global ELSE NULL]
<1>1. n \in Nat /\ DOMAIN stack = 1..n /\ (stack = <<>> <=> n = 0)
  BY LenProperties, EmptySeq
<1>2. /\ top = IF n = 0 THEN Global ELSE stack[n].table
      /\ \A i \in 1..n : prev[stack[i].table] = IF i = 1 THEN Global ELSE stack[i - 1].table
  BY <1>1 DEF IsChain, Last
<1>3. \A i \in 1..n : stack[i].table # NULL
  BY ScopesAssumption
<1>4. Global # NULL
  BY ScopesAssumption
<1> HIDE DEF n
<1>5. \A k \in Steps : w[k] = IF k = 0 THEN top ELSE Follow(w[k - 1])
  <2> SUFFICES ASSUME NEW k \in Steps
               PROVE  w[k] = IF k = 0 THEN top ELSE Follow(w[k - 1])
    OBVIOUS
  <2>1. k \in Nat
    BY StepsFacts
  <2>2. CASE k = 0
    <3>1. n = 0 \/ (0 < n /\ n - 0 = n)
      BY <1>1
    <3> QED BY <1>1, <1>2, <2>2, <3>1
  <2>3. CASE k # 0
    <3>1. k - 1 \in Steps /\ k - 1 \in Nat
      BY <2>1, <2>3, StepsFacts
    <3>2. CASE k <= n
      <4>1. /\ k - 1 < n /\ n - (k - 1) \in 1..n /\ (n - (k - 1) = 1 <=> k = n)
            /\ (n - (k - 1)) - 1 = n - k /\ (k < n \/ k = n)
        BY <1>1, <2>1, <2>3, <3>2
      <4>2. w[k - 1] = stack[n - (k - 1)].table
        BY <3>1, <4>1
      <4>3. Follow(w[k - 1]) = IF k = n THEN Global ELSE stack[n - k].table
        BY <1>2, <1>3, <4>1, <4>2 DEF Follow
      <4> QED BY <2>3, <4>1, <4>3, <1>1, <2>1
    <3>3. CASE k = n + 1
      <4>1. ~(k - 1 < n) /\ k - 1 = n /\ ~(k < n) /\ k # n
        BY <1>1, <2>1, <3>3
      <4>2. w[k - 1] = Global /\ w[k] = NULL
        BY <3>1, <4>1
      <4> QED BY <2>3, <4>2, <1>4 DEF Follow
    <3>4. CASE k > n + 1
      <4>1. ~(k - 1 < n) /\ k - 1 # n /\ ~(k < n) /\ k # n
        BY <1>1, <2>1, <3>4
      <4>2. w[k - 1] = NULL /\ w[k] = NULL
        BY <3>1, <4>1
      <4> QED BY <2>3, <4>2 DEF Follow
    <3> QED BY <1>1, <2>1, <3>2, <3>3, <3>4
  <2> QED BY <2>2, <2>3
<1>6. Follows(w)
  BY <1>5 DEF Follows
<1>7. Follows(Walk)
  BY <1>6, WalkFollows
<1>8. \A k \in Steps : Walk[k] = w[k]
  BY <1>6, <1>7, OneWalk
<1> QED BY <1>8 DEF n

(* The chain has no other tables than those. *)
LEMMA OnChainIs ==
  ASSUME NEW S, NEW stack \in Seq(S), \A i \in 1..Len(stack) : stack[i].table \in Tables,
         IsChain(top, prev, stack), prev[Global] = NULL
  PROVE  /\ Global \in OnChain /\ \A i \in 1..Len(stack) : stack[i].table \in OnChain
         /\ \A t \in OnChain : t = Global \/ \E i \in 1..Len(stack) : t = stack[i].table
<1> DEFINE n == Len(stack)
<1>1. n \in Nat /\ n < Cardinality(AllTables) /\ n \in Steps
  BY ChainFits
<1>2. \A k \in Steps : Walk[k] = IF k < n THEN stack[n - k].table
                                 ELSE IF k = n THEN Global ELSE NULL
  BY WalkIsChain
<1>3. Global # NULL /\ \A i \in 1..n : stack[i].table # NULL
  BY ScopesAssumption
<1> HIDE DEF n
<1>4. Global \in OnChain
  <2>1. Walk[n] = Global
    BY <1>1, <1>2
  <2> QED BY <1>1, <1>3, <2>1 DEF OnChain
<1>5. ASSUME NEW i \in 1..n PROVE stack[i].table \in OnChain
  <2>1. n - i \in Steps /\ n - i < n /\ n - (n - i) = i
    BY <1>1, StepsFacts
  <2>2. Walk[n - i] = stack[i].table
    BY <1>2, <2>1
  <2> QED BY <1>3, <2>1, <2>2 DEF OnChain
<1>6. ASSUME NEW t \in OnChain PROVE t = Global \/ \E i \in 1..n : t = stack[i].table
  <2>1. PICK k \in Steps : t = Walk[k]
    BY DEF OnChain
  <2>2. t # NULL
    BY DEF OnChain
  <2>3. k < n => n - k \in 1..n
    BY <1>1, StepsFacts
  <2> QED BY <1>2, <2>1, <2>2, <2>3
<1> QED BY <1>4, <1>5, <1>6 DEF n

(* A name is resolved in the table own, if it is there, and globally otherwise,
   when no other table of the stack holds it. *)
LEMMA ResolveIs ==
  ASSUME NEW S, NEW stack \in Seq(S), \A i \in 1..Len(stack) : stack[i].table \in Tables,
         IsChain(top, prev, stack), prev[Global] = NULL,
         NEW x, NEW own, own = Global \/ \E i \in 1..Len(stack) : own = stack[i].table,
         \A i \in 1..Len(stack) : stack[i].table # own => x \notin syms[stack[i].table],
         x \in syms[own] \cup syms[Global]
  PROVE  Resolve(x) = IF x \in syms[own] THEN own ELSE Global
<1> DEFINE n == Len(stack)
           a == IF x \in syms[own] THEN own ELSE Global
<1>1. n \in Nat /\ n < Cardinality(AllTables) /\ n \in Steps /\ DOMAIN stack = 1..n
  BY ChainFits, LenProperties
<1>2. \A k \in Steps : Walk[k] = IF k < n THEN stack[n - k].table
                                 ELSE IF k = n THEN Global ELSE NULL
  BY WalkIsChain
<1>3. /\ \A t \in OnChain : t # NULL
      /\ a \in OnChain /\ x \in syms[a]
  BY OnChainIs DEF OnChain
<1>4. a \in Holds(x)
  BY <1>3 DEF Holds
<1>5. \A i \in 1..n : stack[i].table \in Holds(x) => stack[i].table = own
  BY DEF Holds
<1> HIDE DEF n
<1>6. \A k \in Steps : Walk[k] \in Holds(x) => k <= n
  <2> TAKE k \in Steps
  <2>1. k \in Nat
    BY StepsFacts
  <2>2. ~(k <= n) => ~(k < n) /\ k # n
    BY <1>1, <2>1
  <2> QED BY <1>2, <1>3, <2>2 DEF Holds
<1>7. \A k \in Steps : k < n => n - k \in 1..n /\ k \in Nat
  BY <1>1, StepsFacts
<1>8. \A i, j \in 1..n : stack[i].table = stack[j].table => i = j
  BY <1>1 DEF IsChain
<1>9. \A i \in 1..n : stack[i].table # Global
  BY ScopesAssumption DEF n
<1>10. \E m \in Steps : /\ Walk[m] = a
                        /\ \A k \in Steps : k < m => Walk[k] \notin Holds(x)
                        /\ \A k \in Steps : Walk[k] \in Holds(x) => Walk[k] = a \/ m < k
  <2>1. CASE a = Global
    <3>1. \A i \in 1..n : x \notin syms[stack[i].table]
      BY <1>9, <2>1 DEF n
    <3>2. \A k \in Steps : k < n => Walk[k] \notin Holds(x)
      BY <1>2, <1>7, <3>1 DEF Holds
    <3>3. Walk[n] = a
      BY <1>1, <1>2, <2>1
    <3>4. \A k \in Steps : Walk[k] \in Holds(x) => k = n
      <4> SUFFICES ASSUME NEW k \in Steps, Walk[k] \in Holds(x) PROVE k = n
        OBVIOUS
      <4>1. k <= n /\ ~(k < n) /\ k \in Nat
        BY <1>6, <3>2, StepsFacts
      <4> QED BY <1>1, <4>1
    <3> QED BY <1>1, <3>2, <3>3, <3>4
  <2>2. CASE a # Global
    <3>1. x \in syms[own] /\ a = own
      BY <2>2
    <3>2. PICK i \in 1..n : own = stack[i].table
      BY <2>2, <3>1 DEF n
    <3>3. n - i \in Steps /\ n - i < n /\ n - (n - i) = i /\ n - i \in Nat
      BY <1>1, StepsFacts
    <3>4. Walk[n - i] = a
      BY <1>2, <3>1, <3>2, <3>3
    <3>5. ASSUME NEW k \in Steps, k < n - i PROVE Walk[k] \notin Holds(x)
      <4>1. k < n /\ n - k \in 1..n /\ n - k # i /\ k \in Nat
        BY <1>1, <3>3, <3>5, StepsFacts
      <4>2. Walk[k] = stack[n - k].table
        BY <1>2, <4>1
      <4> QED BY <1>5, <1>8, <3>2, <4>1, <4>2
    <3>6. ASSUME NEW k \in Steps, Walk[k] \in Holds(x) PROVE Walk[k] = a \/ n - i < k
      <4>1. CASE k < n
        BY <1>2, <1>5, <1>7, <3>1, <3>6, <4>1
      <4>2. CASE ~(k < n)
        <5>1. n - i < k
          BY <1>1, <3>3, <4>2, StepsFacts
        <5> QED BY <5>1
      <4> QED BY <4>1, <4>2
    <3> QED BY <3>3, <3>4, <3>5, <3>6
  <2> QED BY <2>1, <2>2
<1> HIDE DEF a
<1> DEFINE Q(k) == Walk[k] \in Holds(x) /\ \A j \in 0..(k - 1) : Walk[j] \notin Holds(x)
<1>11. PICK m \in Steps : /\ Walk[m] = a
                          /\ \A k \in Steps : k < m => Walk[k] \notin Holds(x)
                          /\ \A k \in Steps : Walk[k] \in Holds(x) => Walk[k] = a \/ m < k
  BY <1>10
<1>12. Q(m)
  <2>1. \A j \in 0..(m - 1) : j \in Steps /\ j < m
    BY StepsFacts
  <2> QED BY <1>4, <1>11, <2>1
<1>13. ASSUME NEW k \in Steps, Q(k) PROVE Walk[k] = a
  <2>1. m < k => m \in 0..(k - 1)
    BY StepsFacts
  <2> QED BY <1>4, <1>11, <1>13, <2>1
<1>14. Resolve(x) = Walk[CHOOSE k \in Steps : Q(k)]
  BY DEF Resolve
<1> HIDE DEF Q
<1>15. (CHOOSE k \in Steps : Q(k)) \in Steps /\ Q(CHOOSE k \in Steps : Q(k))
  BY <1>12
<1> QED BY <1>13, <1>14, <1>15 DEF a

-----------------------------------------------------------------------------
(* The steps. *)

(* Most steps change neither the functions nor their texts. *)
LEMMA SameNames ==
  ASSUME NInv, UNCHANGED <<syms, funs, defs, frames>>, hdr' = NULL \/ hdr # NULL
  PROVE  NInv'
<1>1. OneDefinition' /\ OwnersActive'
  BY DEF NInv, OneDefinition, OwnersActive
<1>2. SitesKept'
  BY DEF NInv, SitesKept, Fits, Defined
<1>3. RefsKept'
  BY DEF NInv, RefsKept, Defined
<1> QED BY <1>1, <1>2, <1>3 DEF NInv

LEMMA EndsNames == ASSUME NInv, NEW how, Ends(how) PROVE NInv'
<1>1. UNCHANGED <<syms, funs, defs, frames, hdr>>
  BY DEF Ends, scopeVars
<1> QED BY <1>1, SameNames

(* More global names. *)
LEMMA MoreNames ==
  ASSUME RefsKept, UNCHANGED <<funs, defs>>, TypeOK,
         \A t \in Tables : syms'[t] = syms[t], syms[Global] \subseteq syms'[Global]
  PROVE  RefsKept'
<1>1. \A f \in Funs : Defined(f) /\ funs[f].scope # NULL => funs[f].scope \in Tables
  BY DEF TypeOK, Function, Defined
<1>2. \A i \in DOMAIN defs : defs[i].table \in Tables
  BY StackTypes
<1> QED BY <1>1, <1>2 DEF RefsKept, Meant, Defined

(* A header is read for a name that has no function. *)
LEMMA StartHeaderNames ==
  ASSUME Plain, IInv, IInv', NInv, NEW f \in Funs, StartHeader(f)
  PROVE  NInv'
<1>1. TypeOK /\ defs = <<>> /\ ~Defined(f) /\ frames' = frames
  BY DEF IInv, StartHeader, Plain
<1>2. /\ funs' = [funs EXCEPT ![f] = NULL]
      /\ syms' = [t \in AllTables |-> IF t \in FreedTables(f) THEN {} ELSE syms[t]]
  BY DEF StartHeader, Destroy
<1>3. \A g \in Funs : funs'[g] = funs[g]
  BY <1>1, <1>2 DEF TypeOK, Defined
<1>4. FreedTables(f) = {} /\ \A t \in AllTables : syms'[t] = syms[t]
  BY <1>1, <1>2 DEF FreedTables
<1>5. DOMAIN defs = {} /\ DOMAIN defs' = DOMAIN defs
  BY <1>1 DEF StartHeader
<1>6. defs' = <<>> /\ Len(defs') <= 1
  <2>1. defs' \in Seq(Definition) /\ DOMAIN defs' = {}
    BY <1>5 DEF IInv, TypeOK, Definition, Sites
  <2>2. Len(defs') = 0
    BY <2>1, LenProperties
  <2> QED BY <2>1, <2>2, EmptySeq
<1>7. OneDefinition' /\ OwnersActive'
  BY <1>1, <1>5, <1>6 DEF NInv, OneDefinition, OwnersActive
<1>8. SitesKept'
  <2>1. \A s \in Sites : Fits(s) => Fits(s)'
    BY <1>3 DEF Fits, Defined, Sites
  <2>2. \A g \in Funs : Defined(g) => funs[g].sites \subseteq Sites
    BY <1>1 DEF TypeOK, Function, Defined
  <2> QED BY <1>3, <1>5, <2>1, <2>2 DEF NInv, SitesKept, Defined
<1>9. RefsKept'
  <2>1. \A g \in Funs : Defined(g) /\ funs[g].scope # NULL => funs[g].scope \in AllTables
    BY <1>1 DEF TypeOK, Function, Defined, AllTables
  <2> QED BY <1>3, <1>4, <1>5, <2>1 DEF NInv, RefsKept, Meant, Defined, AllTables
<1> QED BY <1>7, <1>8, <1>9 DEF NInv

(* The definition in progress. *)
LEMMA TheDefinition ==
  ASSUME IInv, OneDefinition, defs # <<>>
  PROVE  /\ Len(defs) = 1 /\ DOMAIN defs = {1} /\ Last(defs) = defs[1]
         /\ defs[1] \in Definition /\ defs[1].table \in Tables /\ defs[1].fn \in Funs
         /\ ~defs[1].lost /\ frames = <<>>
         /\ IsChain(top, prev, defs) /\ prev[Global] = NULL
         /\ top = defs[1].table /\ prev[top] = Global
<1>1. /\ TypeOK /\ ChainIsContexts
      /\ defs \in Seq(Definition)
  BY DEF IInv, TypeOK
<1>2. Len(defs) \in Nat \ {0} /\ DOMAIN defs = 1..Len(defs)
  BY <1>1, FrontProperties
<1>3. Len(defs) = 1
  BY <1>2 DEF OneDefinition
<1>4. DOMAIN defs = {1} /\ Last(defs) = defs[1]
  BY <1>2, <1>3 DEF Last
<1>5. defs[1] \in Definition /\ defs[1].table \in Tables /\ defs[1].fn \in Funs
  BY <1>1, <1>4, StackTypes
<1>6. frames = <<>> /\ IsChain(top, prev, defs) /\ prev[Global] = NULL
  BY <1>1 DEF ChainIsContexts
<1>7. top = defs[1].table /\ prev[top] = Global
  BY <1>4, <1>6 DEF IsChain
<1> QED BY <1>3, <1>4, <1>5, <1>6, <1>7 DEF OneDefinition

(* A local variable whose name the body has not used for a global one. *)
LEMMA DeclareLocalNames ==
  ASSUME Plain, IInv, NInv, NEW x \in Ids, DeclareLocal(x)
  PROVE  NInv'
<1>1. CASE PutFails(x)
  BY <1>1, EndsNames DEF DeclareLocal
<1>2. CASE ~PutFails(x)
  <2>1. /\ syms' = [syms EXCEPT ![top] = @ \cup {x}] /\ UNCHANGED <<funs, hdr, defs, frames>>
        /\ defs # <<>> /\ ~UsedBefore(x)
    BY <1>2 DEF DeclareLocal, PutTop, callVars, InBody, Plain
  <2>2. /\ DOMAIN defs = {1} /\ Last(defs) = defs[1] /\ top = defs[1].table
        /\ defs[1].table \in Tables
    BY <2>1, TheDefinition DEF NInv
  <2>3. TypeOK /\ TablesLive /\ RefsKept
    BY DEF IInv, NInv
  <2>4. Global \in AllTables /\ top \in AllTables /\ Global # top
    BY <2>2, ScopesAssumption DEF AllTables
  <2>5. /\ syms'[top] = syms[top] \cup {x}
        /\ \A t \in AllTables : t # top => syms'[t] = syms[t]
    BY <2>1, <2>3, <2>4 DEF TypeOK, ScopesTypeOK
  <2>6. \A f \in Funs : Defined(f) /\ funs[f].scope # NULL =>
          funs[f].scope \in AllTables /\ funs[f].scope # top
    BY <2>2, <2>3 DEF TablesLive, TypeOK, Function, Defined, AllTables
  <2>7. \A f \in Funs : Defined(f) /\ funs[f].scope # NULL =>
          Meant(funs[f].refs, funs[f].scope, syms')
    BY <2>3, <2>4, <2>5, <2>6 DEF RefsKept, Meant
  <2>8. Meant(defs[1].refs, defs[1].table, syms')
    <3>1. Meant(defs[1].refs, top, syms)
      BY <2>2, <2>3 DEF RefsKept
    <3>2. \A r \in defs[1].refs : r[2] = Global => r[1] # x
      BY <2>1, <2>2, <2>4 DEF UsedBefore
    <3> QED BY <2>2, <2>4, <2>5, <3>1, <3>2 DEF Meant
  <2>9. RefsKept'
    BY <2>1, <2>2, <2>7, <2>8 DEF RefsKept, Defined
  <2>10. OneDefinition' /\ OwnersActive'
    BY <2>1 DEF NInv, OneDefinition, OwnersActive
  <2>11. SitesKept'
    BY <2>1 DEF NInv, SitesKept, Fits, Defined
  <2> QED BY <2>9, <2>10, <2>11 DEF NInv
<1> QED BY <1>1, <1>2

(* Where the parser finds a name in a body: in the table of the body, or else in
   the global one. *)
LEMMA FoundWhere ==
  ASSUME IInv, OneDefinition, defs # <<>>, NEW x
  PROVE  LET own == defs[1].table
         IN /\ Found(x) => /\ x \in syms[own] \cup syms[Global]
                           /\ Resolve(x) = IF x \in syms[own] THEN own ELSE Global
            /\ ~Found(x) => x \notin syms[own]
<1> DEFINE own == defs[1].table
<1>1. /\ Len(defs) = 1 /\ own \in Tables /\ IsChain(top, prev, defs)
      /\ prev[Global] = NULL /\ defs \in Seq(Definition)
  BY TheDefinition DEF IInv, TypeOK
<1>2. \A i \in 1..Len(defs) : i = 1 /\ defs[i].table \in Tables
  BY <1>1
<1>3. 1 \in 1..Len(defs)
  BY <1>1
<1>4. /\ own \in OnChain
      /\ \A t \in OnChain : t = Global \/ \E i \in 1..Len(defs) : t = defs[i].table
  BY <1>1, <1>2, <1>3, OnChainIs
<1>5. \A t \in OnChain : t = Global \/ t = own
  BY <1>2, <1>4
<1>6. Found(x) => x \in syms[own] \cup syms[Global]
  BY <1>5 DEF Found, Holds
<1>7. ~Found(x) => x \notin syms[own]
  BY <1>4 DEF Found, Holds
<1>8. own = Global \/ \E i \in 1..Len(defs) : own = defs[i].table
  BY <1>3
<1>9. \A i \in 1..Len(defs) : defs[i].table # own => x \notin syms[defs[i].table]
  BY <1>2
<1> HIDE DEF own
<1>10. Found(x) => Resolve(x) = IF x \in syms[own] THEN own ELSE Global
  BY <1>1, <1>2, <1>6, <1>8, <1>9, ResolveIs
<1> QED BY <1>6, <1>7, <1>10 DEF own

(* A name in a text is added to the texts of the definition in progress. *)
LEMMA RefIdNames ==
  ASSUME IInv, NInv, NEW x \in Ids, RefId(x)
  PROVE  NInv'
<1>1. CASE Hangs(x)
  BY <1>1, EndsNames DEF RefId
<1>2. CASE ~Hangs(x)
  <2>1. /\ syms' = IF Found(x) THEN syms ELSE [syms EXCEPT ![Global] = @ \cup {x}]
        /\ UNCHANGED <<funs, hdr, frames>>
    BY <1>2 DEF RefId, PutGlobal
  <2>2. /\ TypeOK /\ Global \in AllTables /\ syms[Global] \subseteq syms'[Global]
        /\ \A t \in Tables : syms'[t] = syms[t] /\ t # Global
    BY <2>1, ScopesAssumption DEF IInv, TypeOK, ScopesTypeOK, AllTables
  <2>3. CASE defs = <<>>
    <3>1. defs' = defs
      BY <1>2, <2>3 DEF RefId
    <3>2. RefsKept'
      BY <2>1, <2>2, <3>1, MoreNames DEF NInv
    <3>3. OneDefinition' /\ OwnersActive'
      BY <2>1, <3>1 DEF NInv, OneDefinition, OwnersActive
    <3>4. SitesKept'
      BY <2>1, <3>1 DEF NInv, SitesKept, Fits, Defined
    <3> QED BY <3>2, <3>3, <3>4 DEF NInv
  <2>4. CASE defs # <<>>
    <3>1. /\ Len(defs) = 1 /\ DOMAIN defs = {1} /\ defs[1] \in Definition
          /\ defs[1].table \in Tables /\ ~defs[1].lost
      BY <2>4, TheDefinition DEF NInv
    <3>2. PICK t \in AllTables :
            /\ t = IF Found(x) THEN Resolve(x) ELSE Global
            /\ defs' = [defs EXCEPT ![1] = [defs[1] EXCEPT !.refs = @ \cup {<<x, t>>}]]
      BY <1>2, <2>4, <3>1 DEF RefId
    <3>3. /\ DOMAIN defs' = {1}
          /\ defs'[1].refs = defs[1].refs \cup {<<x, t>>}
          /\ defs'[1].fn = defs[1].fn /\ defs'[1].table = defs[1].table
          /\ defs'[1].sites = defs[1].sites /\ ~defs'[1].lost
      BY <3>1, <3>2 DEF Definition
    <3>4. Len(defs') = 1 /\ hdr = NULL
      <4>1. DOMAIN defs' = 1..1
        BY <3>3
      <4>2. defs \in Seq(Definition)
        BY <2>2 DEF TypeOK
      <4>3. Len(defs') = Len(defs)
        BY <3>2, <4>2
      <4> QED BY <3>1, <4>3 DEF RefId, Parsing
    <3>5. /\ t \in {defs[1].table, Global} /\ x \in syms'[t]
          /\ t = Global => x \notin syms'[defs[1].table]
      <4>1. CASE Found(x)
        <5>1. /\ x \in syms[defs[1].table] \cup syms[Global]
              /\ t = IF x \in syms[defs[1].table] THEN defs[1].table ELSE Global
          BY <2>4, <3>2, <4>1, FoundWhere DEF NInv
        <5> QED BY <2>2, <3>1, <5>1
      <4>2. CASE ~Found(x)
        <5>1. t = Global /\ x \notin syms[defs[1].table]
          BY <2>4, <3>2, <4>2, FoundWhere DEF NInv
        <5>2. x \in syms'[Global]
          BY <2>1, <2>2, <4>2 DEF TypeOK, ScopesTypeOK
        <5> QED BY <2>2, <3>1, <5>1, <5>2
      <4> QED BY <4>1, <4>2
    <3>6. Meant(defs[1].refs, defs[1].table, syms)
      BY <3>1 DEF NInv, RefsKept
    <3>7. Meant(defs'[1].refs, defs'[1].table, syms')
      <4>1. Meant(defs[1].refs, defs[1].table, syms')
        BY <2>2, <3>1, <3>6 DEF Meant
      <4>2. Meant({<<x, t>>}, defs[1].table, syms')
        BY <3>5 DEF Meant
      <4> QED BY <3>3, <4>1, <4>2 DEF Meant
    <3>8. \A f \in Funs : Defined(f) /\ funs[f].scope # NULL =>
             Meant(funs[f].refs, funs[f].scope, syms')
      <4>1. \A f \in Funs : Defined(f) /\ funs[f].scope # NULL => funs[f].scope \in Tables
        BY <2>2 DEF TypeOK, Function, Defined
      <4> QED BY <2>2, <4>1 DEF NInv, RefsKept, Meant
    <3>9. RefsKept'
      BY <2>1, <3>3, <3>7, <3>8 DEF RefsKept, Defined
    <3>10. OneDefinition' /\ OwnersActive'
      BY <2>1, <3>3, <3>4 DEF NInv, OneDefinition, OwnersActive
    <3>11. SitesKept'
      BY <2>1, <3>1, <3>3 DEF NInv, SitesKept, Fits, Defined
    <3> QED BY <3>9, <3>10, <3>11 DEF NInv
  <2> QED BY <2>3, <2>4
<1> QED BY <1>1, <1>2

(* A call is added to the definition in progress, if it fits. *)
LEMMA ParseCallNames ==
  ASSUME IInv, NInv, NEW g \in Funs, NEW n \in 0..MaxArgs, ParseCall(g, n)
  PROVE  NInv'
<1>1. UNCHANGED <<syms, funs, hdr, frames>> /\ defs # <<>> /\ hdr = NULL
  BY DEF ParseCall, scopeVars, InBody, Parsing
<1>2. CASE ~Accepts(g, n)
  <2>1. defs' = defs
    BY <1>2 DEF ParseCall
  <2> QED BY <1>1, <2>1, SameNames
<1>3. CASE Accepts(g, n)
  <2>1. /\ Len(defs) = 1 /\ DOMAIN defs = {1} /\ defs[1] \in Definition /\ ~defs[1].lost
    BY <1>1, TheDefinition DEF NInv
  <2>2. defs' = [defs EXCEPT ![1] = [defs[1] EXCEPT !.sites = @ \cup {<<g, n>>}]]
    BY <1>3, <2>1 DEF ParseCall
  <2>3. /\ DOMAIN defs' = {1}
        /\ defs'[1].sites = defs[1].sites \cup {<<g, n>>}
        /\ defs'[1].fn = defs[1].fn /\ defs'[1].table = defs[1].table
        /\ defs'[1].refs = defs[1].refs /\ ~defs'[1].lost
    BY <2>1, <2>2 DEF Definition
  <2>4. Len(defs') = 1
    <3>1. defs \in Seq(Definition)
      BY DEF IInv, TypeOK
    <3>2. Len(defs') = Len(defs)
      BY <2>2, <3>1
    <3> QED BY <2>1, <3>2
  <2>5. OneDefinition' /\ OwnersActive'
    BY <1>1, <2>3, <2>4 DEF NInv, OneDefinition, OwnersActive
  <2>6. RefsKept'
    BY <1>1, <2>1, <2>3 DEF NInv, RefsKept, Defined
  <2>7. Fits(<<g, n>>)
    BY <1>3 DEF Accepts, Fits
  <2>8. SitesKept'
    <3>1. \A i \in DOMAIN defs' : \A s \in defs'[i].sites : Fits(s)
      BY <2>1, <2>3, <2>7 DEF NInv, SitesKept
    <3>2. \A i \in DOMAIN defs' : \A f \in Funs : Defined(f) =>
            \A s \in funs[f].sites : s[1] # defs'[i].fn
      BY <2>1, <2>3 DEF NInv, SitesKept
    <3>3. \A f \in Funs : Defined(f) => \A s \in funs[f].sites : Fits(s)
      BY DEF NInv, SitesKept
    <3> QED BY <1>1, <3>1, <3>2, <3>3 DEF SitesKept, Fits, Defined
  <2> QED BY <2>5, <2>6, <2>8 DEF NInv
<1> QED BY <1>2, <1>3

(* A function enters the table under a name that no text calls, with a table that
   no text uses. *)
LEMMA OpenBodyNames ==
  ASSUME IInv, IInv', NInv, NEW t \in Tables, OpenBody(t)
  PROVE  NInv'
<1>1. CASE ~Injective(hdr.params)
  BY <1>1, EndsNames DEF OpenBody
<1>2. CASE Injective(hdr.params)
  <2> DEFINE f == hdr.fn
             fun == [params |-> hdr.params, scope |-> NULL, refs |-> {}, sites |-> {}]
             d == [fn |-> f, table |-> t, refs |-> {}, sites |-> {}, lost |-> FALSE]
  <2>1. /\ hdr # NULL /\ hdr' = NULL /\ frames' = frames /\ t \notin live
        /\ syms' = [syms EXCEPT ![t] = {hdr.params[i] : i \in DOMAIN hdr.params}]
        /\ funs' = [funs EXCEPT ![f] = fun]
        /\ defs' = Append(defs, d)
    BY <1>2 DEF OpenBody, Push
  <2>2. defs = <<>> /\ TypeOK /\ TablesLive /\ hdr \in Header
    BY <2>1 DEF NInv, OneDefinition, IInv, TypeOK
  <2>3. f \in Funs /\ ~Defined(f)
    BY <2>1, <2>2 DEF IInv, HeaderOK, Header
  <2>4. /\ d \in Definition /\ d.fn = f /\ d.table = t /\ d.refs = {} /\ d.sites = {}
        /\ d.lost = FALSE /\ fun.refs = {} /\ fun.sites = {} /\ fun.scope = NULL
    BY <2>3 DEF Definition
  <2> HIDE DEF f, fun, d
  <2>5. DOMAIN defs' = {1} /\ defs'[1] = d /\ Len(defs') = 1
    <3>1. <<>> \in Seq(Definition) /\ Len(<<>>) = 0
      BY EmptySeq
    <3>2. Len(defs') = 1 /\ DOMAIN defs' = 1..1 /\ defs'[1] = d
      BY <2>1, <2>2, <2>4, <3>1, AppendDomain
    <3> QED BY <3>2
  <2>6. \A g \in Funs : funs'[g] = IF g = f THEN fun ELSE funs[g]
    BY <2>1, <2>2, <2>3 DEF TypeOK
  <2>7. \A u \in AllTables : u # t => syms'[u] = syms[u]
    BY <2>1, <2>2 DEF TypeOK, ScopesTypeOK
  <2>8. OneDefinition' /\ OwnersActive'
    BY <2>1, <2>4, <2>5 DEF NInv, OneDefinition, OwnersActive
  <2>9. \A g \in Funs : Defined(g) => \A s \in funs[g].sites :
          Fits(s) /\ s[1] \in Funs /\ s[1] # f
    <3>1. \A g \in Funs : Defined(g) => funs[g].sites \subseteq Sites
      BY <2>2 DEF TypeOK, Function, Defined
    <3>2. \A g \in Funs : Defined(g) => \A s \in funs[g].sites : Fits(s)
      BY DEF NInv, SitesKept
    <3> QED BY <2>3, <3>1, <3>2 DEF Sites, Fits
  <2>10. SitesKept'
    <3>1. \A g \in Funs : Defined(g)' => g = f \/ Defined(g)
      BY <2>6 DEF Defined
    <3>2. \A g \in Funs : Defined(g)' => \A s \in funs'[g].sites :
            g # f /\ Defined(g) /\ s \in funs[g].sites
      BY <2>4, <2>6, <3>1
    <3>3. \A g \in Funs : Defined(g)' => \A s \in funs'[g].sites : Fits(s)' /\ s[1] # f
      BY <2>6, <2>9, <3>2 DEF Fits, Defined
    <3> QED BY <2>4, <2>5, <3>3 DEF SitesKept
  <2>11. RefsKept'
    <3>1. \A g \in Funs : Defined(g)' /\ funs'[g].scope # NULL =>
            /\ Defined(g) /\ funs[g].scope # NULL /\ funs'[g] = funs[g]
            /\ funs[g].scope \in AllTables /\ funs[g].scope # t
      <4>1. \A g \in Funs : Defined(g)' /\ funs'[g].scope # NULL =>
              Defined(g) /\ funs[g].scope # NULL /\ funs'[g] = funs[g]
        BY <2>4, <2>6 DEF Defined
      <4> QED BY <2>1, <2>2, <4>1 DEF TablesLive, TypeOK, Function, Defined, AllTables
    <3>2. Global \in AllTables /\ Global # t
      BY ScopesAssumption DEF AllTables
    <3>3. \A g \in Funs : Defined(g)' /\ funs'[g].scope # NULL =>
            Meant(funs'[g].refs, funs'[g].scope, syms')
      BY <2>7, <3>1, <3>2 DEF NInv, RefsKept, Meant
    <3>4. Meant(defs'[1].refs, defs'[1].table, syms')
      BY <2>4, <2>5 DEF Meant
    <3> QED BY <2>5, <3>3, <3>4 DEF RefsKept
  <2> QED BY <2>8, <2>10, <2>11 DEF NInv
<1> QED BY <1>1, <1>2

(* A function's text is complete, or the function is deleted, which no text
   calls. *)
LEMMA EndDefinitionNames ==
  ASSUME IInv, IInv', NInv, EndDefinition
  PROVE  NInv'
<1>1. /\ defs # <<>> /\ hdr = NULL /\ TypeOK /\ TablesLive /\ DefsOK
      /\ NInv /\ OneDefinition
  BY DEF EndDefinition, IInv, NInv
<1>2. /\ Len(defs) = 1 /\ DOMAIN defs = {1} /\ Last(defs) = defs[1]
      /\ defs[1].table \in Tables /\ defs[1].fn \in Funs /\ ~defs[1].lost
      /\ frames = <<>> /\ top = defs[1].table /\ prev[top] = Global
  BY <1>1, TheDefinition
<1> DEFINE d == defs[1]
<1>3. Global # NULL /\ ~PopFails
  BY <1>2, ScopesAssumption DEF PopFails
<1>4. /\ defs' = Front(defs) /\ hdr' = hdr /\ frames' = frames
      /\ syms' = [t \in AllTables |->
                    IF t \in (IF errors THEN {top} ELSE {}) THEN {} ELSE syms[t]]
      /\ funs' = [funs EXCEPT ![d.fn] =
                    IF errors THEN NULL
                    ELSE [@ EXCEPT !.scope = top, !.refs = d.refs, !.sites = d.sites]]
  BY <1>2, <1>3 DEF EndDefinition, Destroy
<1>5. DOMAIN defs' = {} /\ Len(defs') = 0
  <2>1. defs \in Seq(Definition)
    BY <1>1 DEF TypeOK
  <2>2. Len(defs') = 0 /\ DOMAIN defs' = 1..0
    BY <1>1, <1>2, <1>4, <2>1, FrontProperties
  <2> QED BY <2>2
<1>6. /\ \A i \in DOMAIN frames : frames'[i] = frames[i]
      /\ OneDefinition' /\ OwnersActive'
  <2>1. OwnersActive'
    BY <1>1, <1>4 DEF NInv, OwnersActive
  <2>2. OneDefinition'
    BY <1>1, <1>4, <1>5 DEF OneDefinition
  <2> QED BY <1>4, <2>1, <2>2
<1>7. Defined(d.fn) /\ funs[d.fn] \in Function /\ funs[d.fn].scope = NULL
  BY <1>1, <1>2 DEF DefsOK, Defined, TypeOK
<1>8. \A g \in Funs : g # d.fn => funs'[g] = funs[g]
  BY <1>1, <1>4 DEF TypeOK
<1>9. errors => funs'[d.fn] = NULL
  BY <1>1, <1>2, <1>4 DEF TypeOK
<1>10. ~errors => /\ funs'[d.fn] # NULL
                  /\ funs'[d.fn].params = funs[d.fn].params
                  /\ funs'[d.fn].scope = top
                  /\ funs'[d.fn].refs = d.refs
                  /\ funs'[d.fn].sites = d.sites
  <2>1. SUFFICES ASSUME ~errors
                 PROVE  /\ funs'[d.fn] # NULL
                        /\ funs'[d.fn].params = funs[d.fn].params
                        /\ funs'[d.fn].scope = top
                        /\ funs'[d.fn].refs = d.refs
                        /\ funs'[d.fn].sites = d.sites
    OBVIOUS
  <2>2. funs'[d.fn] = [funs[d.fn] EXCEPT !.scope = top, !.refs = d.refs, !.sites = d.sites]
    BY <1>1, <1>2, <1>4, <2>1 DEF TypeOK
  <2>3. funs'[d.fn] \in Function \cup {NULL} /\ top # NULL
    BY <1>2, ScopesAssumption DEF IInv, TypeOK
  <2>4. funs'[d.fn].scope = top /\ funs'[d.fn].refs = d.refs
        /\ funs'[d.fn].sites = d.sites /\ funs'[d.fn].params = funs[d.fn].params
    BY <1>7, <2>2 DEF Function
  <2>5. DefsOK' /\ TypeOK'
    BY DEF IInv
  <2>6. funs'[d.fn] \in Function
    <3>1. d.refs \in SUBSET Names /\ d.sites \in SUBSET Sites
      <4>1. d \in Definition
        BY <1>1, TheDefinition
      <4> QED BY <4>1 DEF Definition
    <3> QED BY <1>2, <1>7, <2>2, <3>1 DEF Function
  <2> QED BY <2>4, <2>6, NullAssumption
<1> HIDE DEF d
<1>11. SitesKept'
  <2>1. \A g \in Funs : Defined(g)' => \A s \in funs'[g].sites :
          Fits(s) /\ s[1] \in Funs /\ (errors => s[1] # d.fn)
    <3>1. \A g \in Funs : Defined(g) => \A s \in funs[g].sites :
            Fits(s) /\ s[1] \in Funs /\ s[1] # d.fn
      <4>1. \A g \in Funs : Defined(g) => funs[g].sites \subseteq Sites
        BY <1>1 DEF TypeOK, Function, Defined
      <4>2. \A g \in Funs : Defined(g) => \A s \in funs[g].sites : Fits(s) /\ s[1] # d.fn
        BY <1>1, <1>2 DEF NInv, SitesKept, d
      <4> QED BY <4>1, <4>2 DEF Sites, Fits
    <3>2. \A s \in d.sites : Fits(s) /\ s[1] \in Funs
      <4>1. d.sites \subseteq Sites
        BY <1>1, TheDefinition DEF Definition, d
      <4>2. \A s \in d.sites : Fits(s)
        BY <1>1, <1>2 DEF NInv, SitesKept, d
      <4> QED BY <4>1, <4>2 DEF Sites
    <3> QED BY <1>8, <1>9, <1>10, <3>1, <3>2 DEF Defined
  <2>2. \A s : Fits(s) /\ s[1] \in Funs /\ (errors => s[1] # d.fn) => Fits(s)'
    BY <1>8, <1>10 DEF Fits, Defined
  <2> QED BY <1>5, <2>1, <2>2 DEF SitesKept
<1>12. RefsKept'
  <2>1. \A t \in AllTables : ~(errors /\ t = top) => syms'[t] = syms[t]
    BY <1>4
  <2>2. Global \in AllTables /\ Global # top /\ top \in AllTables
    BY <1>2, ScopesAssumption DEF AllTables
  <2>3. \A g \in Funs : g # d.fn /\ Defined(g) /\ funs[g].scope # NULL =>
          /\ funs[g].scope \in AllTables /\ funs[g].scope # top
          /\ Meant(funs[g].refs, funs[g].scope, syms)
    BY <1>1, <1>2 DEF TablesLive, NInv, RefsKept, TypeOK, Function, Defined, AllTables
  <2>4. Meant(d.refs, top, syms)
    BY <1>1, <1>2 DEF NInv, RefsKept, d
  <2>5. \A g \in Funs : Defined(g)' /\ funs'[g].scope # NULL =>
          Meant(funs'[g].refs, funs'[g].scope, syms')
    <3> SUFFICES ASSUME NEW g \in Funs, Defined(g)', funs'[g].scope # NULL
                 PROVE  Meant(funs'[g].refs, funs'[g].scope, syms')
      OBVIOUS
    <3>1. CASE g = d.fn
      <4>1. ~errors /\ funs'[g].scope = top /\ funs'[g].refs = d.refs
        BY <1>9, <1>10, <3>1 DEF Defined
      <4>2. syms'[top] = syms[top] /\ syms'[Global] = syms[Global]
        BY <2>1, <2>2, <4>1
      <4> QED BY <2>4, <4>1, <4>2 DEF Meant
    <3>2. CASE g # d.fn
      <4>1. funs'[g] = funs[g] /\ Defined(g)
        BY <1>8, <3>2 DEF Defined
      <4>2. syms'[funs[g].scope] = syms[funs[g].scope] /\ syms'[Global] = syms[Global]
        BY <2>1, <2>2, <2>3, <3>2, <4>1
      <4> QED BY <2>3, <3>2, <4>1, <4>2 DEF Meant
    <3> QED BY <3>1, <3>2
  <2> QED BY <1>5, <2>5 DEF RefsKept
<1> QED BY <1>6, <1>11, <1>12 DEF NInv

(* The text being executed is the line or that of a call in progress. *)
LEMMA OwnerActive ==
  ASSUME IInv, OwnersActive
  PROVE  /\ Owner \in Funs \cup {Line}
         /\ Owner # Line => \E j \in 1..Len(frames) : frames[j].fn = Owner
<1>1. frames \in Seq(Frame)
  BY DEF IInv, TypeOK
<1>2. CASE frames = <<>>
  BY <1>2 DEF Owner
<1>3. CASE frames # <<>>
  <2>1. Len(frames) \in Nat \ {0} /\ Last(frames) \in Frame /\ DOMAIN frames = 1..Len(frames)
    BY <1>1, <1>3, FrontProperties
  <2>2. Len(frames) \in 1..Len(frames)
    BY <2>1
  <2>3. \A j \in 1..(Len(frames) - 1) : j \in 1..Len(frames)
    BY <2>1
  <2>4. CASE Last(frames).left > 0
    <3>1. Owner = Last(frames).owner
      BY <1>3, <2>4 DEF Owner
    <3> QED BY <2>1, <2>2, <2>3, <3>1 DEF OwnersActive, Last, Frame
  <2>5. CASE ~(Last(frames).left > 0)
    <3>1. Owner = Last(frames).fn
      BY <1>3, <2>5 DEF Owner
    <3> QED BY <2>1, <2>2, <3>1 DEF Last, Frame
  <2> QED BY <2>4, <2>5
<1> QED BY <1>2, <1>3

(* A call, its arguments and its return leave all texts alone. *)
LEMMA FramesNames ==
  ASSUME NInv, UNCHANGED <<syms, funs, hdr, defs>>, OwnersActive'
  PROVE  NInv'
<1>1. OneDefinition'
  BY DEF NInv, OneDefinition
<1>2. SitesKept'
  BY DEF NInv, SitesKept, Fits, Defined
<1>3. RefsKept'
  BY DEF NInv, RefsKept, Defined
<1> QED BY <1>1, <1>2, <1>3 DEF NInv

LEMMA CallNames ==
  ASSUME IInv, IInv', NInv, NEW g \in Funs, NEW n \in 0..MaxArgs, Call(g, n)
  PROVE  NInv'
<1>1. CASE ~Defined(g) \/ (n > 0 /\ Len(funs[g].params) > n)
  BY <1>1, EndsNames DEF Call
<1>2. CASE ~(~Defined(g) \/ (n > 0 /\ Len(funs[g].params) > n))
  <2>1. PICK fr : frames' = Append(frames, fr) /\ fr.owner = Owner
    <3> DEFINE fr == [fn |-> g, table |-> funs[g].scope, owner |-> Owner,
                      left |-> IF n = 0 THEN 0 ELSE Len(funs[g].params),
                      runs |-> n > 0, from |-> top]
    <3>1. frames' = Append(frames, fr)
      BY <1>2 DEF Call
    <3>2. fr.owner = Owner
      OBVIOUS
    <3> HIDE DEF fr
    <3> QED BY <3>1, <3>2
  <2>2. UNCHANGED <<syms, funs, hdr, defs>>
    BY <1>2 DEF Call
  <2>3. frames \in Seq(Frame) /\ frames' \in Seq(Frame)
    BY DEF IInv, TypeOK
  <2>4. /\ Len(frames) \in Nat /\ DOMAIN frames = 1..Len(frames)
        /\ DOMAIN frames' = 1..(Len(frames) + 1)
        /\ \A i \in 1..Len(frames) : frames'[i] = frames[i]
        /\ frames'[Len(frames) + 1] = fr
    BY <2>1, <2>3, LenProperties
  <2>5. OwnersActive'
    <3> SUFFICES ASSUME NEW i \in 1..(Len(frames) + 1), frames'[i].owner # Line
                 PROVE  \E j \in 1..(i - 1) : frames'[j].fn = frames'[i].owner
      BY <2>4 DEF OwnersActive
    <3>1. CASE i = Len(frames) + 1
      <4>1. frames'[i].owner = Owner /\ Owner # Line
        BY <2>1, <2>4, <3>1
      <4>2. PICK j \in 1..Len(frames) : frames[j].fn = Owner
        BY <4>1, OwnerActive DEF NInv
      <4>3. j \in 1..(i - 1)
        BY <2>4, <3>1
      <4> QED BY <2>4, <4>1, <4>2, <4>3
    <3>2. CASE i \in 1..Len(frames)
      <4>1. frames[i].owner # Line /\ frames'[i] = frames[i]
        BY <2>4, <3>2
      <4>2. PICK j \in 1..(i - 1) : frames[j].fn = frames[i].owner
        BY <2>4, <3>2, <4>1 DEF NInv, OwnersActive
      <4>3. j \in 1..Len(frames)
        BY <2>4, <3>2
      <4> QED BY <2>4, <4>1, <4>2, <4>3
    <3> QED BY <2>4, <3>1, <3>2
  <2> QED BY <2>2, <2>5, FramesNames
<1> QED BY <1>1, <1>2

LEMMA NextArgNames == ASSUME IInv, NInv, NextArg PROVE NInv'
<1> DEFINE fr == [frames[Len(frames)] EXCEPT !.left = @ - 1]
<1>1. /\ frames # <<>> /\ UNCHANGED <<syms, funs, hdr, defs>>
      /\ frames' = [frames EXCEPT ![Len(frames)] = fr]
  BY DEF NextArg, scopeVars
<1>2. /\ DOMAIN frames = 1..Len(frames) /\ Len(frames) \in 1..Len(frames)
      /\ frames[Len(frames)] \in Frame
  BY <1>1, FrontProperties DEF IInv, TypeOK, Last
<1>3. fr.fn = frames[Len(frames)].fn /\ fr.owner = frames[Len(frames)].owner
  BY <1>2 DEF Frame
<1> HIDE DEF fr
<1>4. DOMAIN frames' = DOMAIN frames
  BY <1>1
<1>5. \A i \in DOMAIN frames : frames'[i].fn = frames[i].fn /\ frames'[i].owner = frames[i].owner
  BY <1>1, <1>2, <1>3
<1>6. \A i \in DOMAIN frames : \A j \in 1..(i - 1) : j \in DOMAIN frames
  BY <1>2, StackTypes DEF IInv
<1>7. OwnersActive'
  BY <1>4, <1>5, <1>6 DEF NInv, OwnersActive
<1> QED BY <1>1, <1>7, FramesNames

LEMMA ReturnNames == ASSUME IInv, NInv, Return PROVE NInv'
<1>1. CASE PopFails
  BY <1>1, EndsNames DEF Return
<1>2. CASE ~PopFails
  <2>1. frames # <<>> /\ frames' = Front(frames) /\ UNCHANGED <<syms, funs, hdr, defs>>
    BY <1>2 DEF Return
  <2>2. /\ Len(frames) \in Nat \ {0} /\ DOMAIN frames = 1..Len(frames)
        /\ DOMAIN frames' = 1..(Len(frames) - 1)
        /\ \A i \in 1..(Len(frames) - 1) : frames'[i] = frames[i]
    BY <2>1, FrontProperties DEF IInv, TypeOK
  <2>3. \A i \in 1..(Len(frames) - 1) : i \in DOMAIN frames
          /\ \A j \in 1..(i - 1) : j \in 1..(Len(frames) - 1)
    BY <2>2
  <2>4. OwnersActive'
    BY <2>2, <2>3 DEF NInv, OwnersActive
  <2> QED BY <2>1, <2>4, FramesNames
<1> QED BY <1>1, <1>2

-----------------------------------------------------------------------------
(* The invariant holds throughout. *)

LEMMA InitNames == Init => NInv
<1> SUFFICES ASSUME Init PROVE NInv
  OBVIOUS
<1>1. defs = <<>> /\ frames = <<>> /\ hdr = NULL /\ \A f \in Funs : ~Defined(f)
  BY DEF Init, Defined
<1>2. DOMAIN defs = {} /\ DOMAIN frames = {} /\ Len(defs) = 0
  BY <1>1
<1> QED BY <1>1, <1>2 DEF NInv, OneDefinition, SitesKept, RefsKept, OwnersActive

LEMMA NextNames ==
  ASSUME Plain, IInv, IInv', NInv, [Next]_vars
  PROVE  NInv'
<1>1. ASSUME NEW f \in Funs, StartHeader(f) PROVE NInv'
  BY <1>1, StartHeaderNames
<1>2. ASSUME NEW x \in Ids, AddArg(x) PROVE NInv'
  <2>1. UNCHANGED <<syms, funs, defs, frames>> /\ hdr # NULL
    BY <1>2 DEF AddArg, scopeVars
  <2> QED BY <2>1, SameNames
<1>3. ASSUME NEW x \in Ids, DeclareLocal(x) \/ RefId(x) PROVE NInv'
  BY <1>3, DeclareLocalNames, RefIdNames
<1>4. CASE HeaderError \/ ParseError
  <2>1. UNCHANGED <<syms, funs, defs, frames>> /\ (hdr' = NULL \/ hdr # NULL)
    BY <1>4 DEF HeaderError, ParseError, InBody, Parsing, scopeVars
  <2> QED BY <2>1, SameNames
<1>5. ASSUME NEW t \in Tables, OpenBody(t) PROVE NInv'
  BY <1>5, OpenBodyNames
<1>6. ASSUME NEW g \in Funs, NEW n \in 0..MaxArgs, ParseCall(g, n) \/ Call(g, n)
      PROVE  NInv'
  BY <1>6, ParseCallNames, CallNames
<1>7. CASE EndDefinition
  BY <1>7, EndDefinitionNames
<1>8. CASE NextArg \/ Return
  BY <1>8, NextArgNames, ReturnNames
<1>9. ASSUME NEW x \in Ids, UseId(x) PROVE NInv'
  BY <1>9, EndsNames DEF UseId
<1>10. CASE UNCHANGED vars
  <2>1. Ends(status)
    BY <1>10 DEF Ends, vars, callVars
  <2> QED BY <2>1, EndsNames
<1>11. CASE Next
  BY <1>1, <1>2, <1>3, <1>4, <1>5, <1>6, <1>7, <1>8, <1>9, <1>11 DEF Next, Parse, Execute
<1> QED BY <1>10, <1>11

(* In plain programs the texts of complete functions keep meaning what they meant
   when they were parsed, and every call stands in a text in progress. *)
THEOREM TextsKept == ASSUME Plain PROVE Spec => [](IInv /\ NInv)
<1>1. Init => NInv
  BY InitNames
<1>2. IInv /\ IInv' /\ NInv /\ [Next]_vars => NInv'
  BY NextNames
<1>3. Spec => []IInv
  <2>1. NoRecursion
    BY DEF Plain, NoRecursion
  <2> QED BY <2>1, Invariance
<1> QED BY <1>1, <1>2, <1>3, PTL DEF Spec

(* The text being executed, its table and the chain. *)
LEMMA OwnTable ==
  ASSUME IInv, NInv, Running
  PROVE  /\ frames \in Seq(Frame) /\ IsChain(top, prev, frames) /\ prev[Global] = NULL
         /\ \A i \in 1..Len(frames) : frames[i].table \in Tables
         /\ Owner # Line => /\ Owner \in Funs /\ Defined(Owner)
                            /\ funs[Owner].scope # NULL
                            /\ \E j \in 1..Len(frames) : funs[Owner].scope = frames[j].table
<1>1. TypeOK /\ ChainIsContexts /\ CallsOK /\ OwnersActive /\ defs = <<>>
  BY DEF IInv, NInv, Running
<1>2. frames \in Seq(Frame) /\ IsChain(top, prev, frames) /\ prev[Global] = NULL
  BY <1>1 DEF TypeOK, ChainIsContexts
<1>3. DOMAIN frames = 1..Len(frames) /\ \A i \in 1..Len(frames) : frames[i].table \in Tables
  BY <1>1, StackTypes
<1>4. ASSUME Owner # Line
      PROVE  /\ Owner \in Funs /\ Defined(Owner) /\ funs[Owner].scope # NULL
             /\ \E j \in 1..Len(frames) : funs[Owner].scope = frames[j].table
  <2>1. PICK j \in 1..Len(frames) : frames[j].fn = Owner
    BY <1>1, <1>4, OwnerActive
  <2>2. Defined(frames[j].fn) /\ funs[frames[j].fn].scope = frames[j].table
    BY <1>1, <1>3 DEF CallsOK
  <2>3. frames[j].table # NULL
    BY <1>3, ScopesAssumption
  <2> QED BY <1>1, <1>4, <2>1, <2>2, <2>3, OwnerActive
<1> QED BY <1>2, <1>3, <1>4

(* A name of the text being executed is where the parser found it. *)
LEMMA RefsWhere ==
  ASSUME IInv, NInv, Running, NEW r \in Refs
  PROVE  LET own == IF Owner = Line THEN Global ELSE funs[Owner].scope
         IN /\ r[2] \in {own, Global} /\ r[1] \in syms[r[2]]
            /\ r[2] = Global /\ own # Global => r[1] \notin syms[own]
<1>1. ~Idle
  BY DEF Refs
<1>2. CASE Owner = Line
  <2>1. r \in syms[Global] \X {Global}
    BY <1>1, <1>2 DEF Refs
  <2> QED BY <1>2, <2>1
<1>3. CASE Owner # Line
  <2>1. r \in funs[Owner].refs
    BY <1>1, <1>3 DEF Refs
  <2>2. Owner \in Funs /\ Defined(Owner) /\ funs[Owner].scope # NULL
    BY <1>3, OwnTable
  <2> QED BY <1>3, <2>1, <2>2 DEF NInv, RefsKept, Meant
<1> QED BY <1>2, <1>3

(* In plain programs a call node still fits the function of its name when it is
   executed: traverse_func_call gets no null function and stays within the
   argument array. *)
THEOREM CallsFit == ASSUME Plain PROVE Spec => []SitesFit
<1>1. ASSUME IInv, NInv PROVE SitesFit
  <2> SUFFICES ASSUME Running, NEW s \in CallNodes PROVE Fits(s)
    BY DEF SitesFit, Fits
  <2>1. ~Idle
    BY DEF CallNodes
  <2>2. CASE Owner = Line
    BY <2>1, <2>2 DEF CallNodes, Accepts, Fits
  <2>3. CASE Owner # Line
    <3>1. s \in funs[Owner].sites
      BY <2>1, <2>3 DEF CallNodes
    <3>2. Owner \in Funs /\ Defined(Owner)
      BY <1>1, <2>3, OwnTable
    <3> QED BY <1>1, <3>1, <3>2 DEF NInv, SitesKept
  <2> QED BY <2>2, <2>3
<1> QED BY <1>1, TextsKept, PTL

(* In plain programs a variable the parser accepted is found when it is used:
   traverse_id gets no null symbol. *)
THEOREM NamesFound == ASSUME Plain PROVE Spec => []IdsResolve
<1>1. ASSUME IInv, NInv PROVE IdsResolve
  <2> SUFFICES ASSUME Running, NEW r \in Refs PROVE Found(r[1])
    BY DEF IdsResolve
  <2>1. /\ Global \in OnChain /\ \A i \in 1..Len(frames) : frames[i].table \in OnChain
    BY <1>1, OwnTable, OnChainIs
  <2>2. r[2] \in OnChain
    <3>1. CASE r[2] = Global
      BY <2>1, <3>1
    <3>2. CASE r[2] # Global
      <4>1. Owner # Line /\ r[2] = funs[Owner].scope
        BY <1>1, <3>2, RefsWhere
      <4>2. PICK j \in 1..Len(frames) : funs[Owner].scope = frames[j].table
        BY <1>1, <4>1, OwnTable
      <4> QED BY <2>1, <4>1, <4>2
    <3> QED BY <3>1, <3>2
  <2>3. r[1] \in syms[r[2]]
    BY <1>1, RefsWhere
  <2> QED BY <2>2, <2>3 DEF Found, Holds
<1> QED BY <1>1, TextsKept, PTL

(* In plain programs a name means the variable the parser found for it: both
   lookups end in the same table, unless another function in progress has the
   name in its table. *)
THEOREM NamesMeant == ASSUME Plain PROVE Spec => []NamesAsParsed
<1>1. ASSUME IInv, NInv PROVE NamesAsParsed
  <2> DEFINE own == IF Owner = Line THEN Global ELSE funs[Owner].scope
             others == {frames[i].table : i \in DOMAIN frames} \ {own}
  <2> SUFFICES ASSUME Running, NEW r \in Refs, \A t \in others : r[1] \notin syms[t]
               PROVE  Resolve(r[1]) = r[2]
    BY DEF NamesAsParsed
  <2>1. /\ frames \in Seq(Frame) /\ IsChain(top, prev, frames) /\ prev[Global] = NULL
        /\ \A i \in 1..Len(frames) : frames[i].table \in Tables
        /\ own = Global \/ \E i \in 1..Len(frames) : own = frames[i].table
    BY <1>1, OwnTable
  <2>2. DOMAIN frames = 1..Len(frames)
    BY <2>1, LenProperties
  <2>3. \A i \in 1..Len(frames) : frames[i].table # own => r[1] \notin syms[frames[i].table]
    BY <2>2
  <2>4. /\ r[2] \in {own, Global} /\ r[1] \in syms[r[2]]
        /\ r[2] = Global /\ own # Global => r[1] \notin syms[own]
    BY <1>1, RefsWhere
  <2> HIDE DEF own, others
  <2>5. Resolve(r[1]) = IF r[1] \in syms[own] THEN own ELSE Global
    BY <2>1, <2>3, <2>4, ResolveIs
  <2> QED BY <2>4, <2>5
<1> QED BY <1>1, TextsKept, PTL

==============================================================================
