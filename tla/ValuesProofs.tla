----------------------------- MODULE ValuesProofs -----------------------------
(* Proofs about module Values, for all sets of variables, blocks and contents
   and any depth of the stack: every block has one owner, and variables change
   only when they are assigned to or destroyed with their function.  As long as
   neither happens to a variable while a value on the stack points into it, no
   value dangles and an assignment stores what it is given. *)
EXTENDS Values, SequenceTheorems, TLAPS

(* No program assigns to a variable that a value on the stack points into, and none
   defines a function again while a value points into a variable of it;
   ValuesAlias.cfg shows what happens in programs that do. *)
NoAlias == "alias" \notin Uses

-----------------------------------------------------------------------------
(* The inductive invariant, for any memory h, variables v and stack s.  A handler
   takes values off the stack before it frees their blocks and fills new blocks
   before it gives them away: P is the set of the blocks it holds in between. *)

Heaps == [Blocks -> Data \cup {Factors, Free}]

Owner(e) == e.block # NULL /\ (e.tag = "const" \/ e.type = "string")
Alias(e) == e.tag = "symbol" /\ e.type \in Arrays

Typed(h, v, s, P) ==
  /\ h \in Heaps
  /\ v \in [Vars -> Symbol]
  /\ s \in Seq(Eval)
  /\ P \in SUBSET Blocks

(* Exactly the values that are no numbers have a block. *)
Shaped(v, s) ==
  /\ \A x \in Vars : v[x].block = NULL <=> v[x].type \in {"digit", "unknown"}
  /\ \A i \in 1..Len(s) : s[i].block = NULL <=> s[i].type = "digit"

VarsOwn(h, v, P) ==
  /\ \A x \in Vars : v[x].block # NULL => h[v[x].block] # Free /\ v[x].block \notin P
  /\ \A x, y \in Vars : v[x].block # NULL /\ v[x].block = v[y].block => x = y

StackOwns(h, v, s, P) ==
  /\ \A i \in 1..Len(s) : Owner(s[i]) =>
       /\ h[s[i].block] # Free
       /\ s[i].block \notin P
       /\ \A x \in Vars : v[x].block # s[i].block
  /\ \A i, j \in 1..Len(s) :
       Owner(s[i]) /\ Owner(s[j]) /\ s[i].block = s[j].block => i = j

Pointing(v, s) ==
  \A i \in 1..Len(s) : Alias(s[i]) =>
    \E x \in Vars : v[x].type = s[i].type /\ v[x].block = s[i].block

Held(h, P) == \A b \in P : h[b] # Free

Sound(h, v, s, P) ==
  /\ Typed(h, v, s, P)
  /\ Shaped(v, s)
  /\ VarsOwn(h, v, P)
  /\ StackOwns(h, v, s, P)
  /\ NoAlias => Pointing(v, s)
  /\ Held(h, P)

(* u is f with w at x. *)
Update(f, x, w, u) == u = [f EXCEPT ![x] = w]

(* A variable that has a number or nothing has no block. *)
Fits(w) == w.block = NULL <=> w.type \in {"digit", "unknown"}

IInv == TypeOK /\ (status = "ok" => Sound(heap, var, stack, {}))

(* What the variables hold in h they hold in g. *)
Kept(h, v, g) == \A x \in Vars : v[x].block # NULL => g[v[x].block] = h[v[x].block]

-----------------------------------------------------------------------------
(* Sequences. *)

LEMMA TopFacts ==
  ASSUME NEW S, NEW s \in Seq(S), s # <<>>
  PROVE  /\ Len(s) \in Nat \ {0}
         /\ Last(s) \in S
         /\ Front(s) \in Seq(S)
         /\ Len(Front(s)) = Len(s) - 1
         /\ \A i \in 1..(Len(s) - 1) : Front(s)[i] = s[i]
<1>1. Len(s) \in Nat \ {0} /\ \A i \in 1..Len(s) : s[i] \in S
  BY EmptySeq, LenProperties, ElementOfSeq
<1>2. /\ Front(s) \in Seq(S)
      /\ Len(Front(s)) = Len(s) - 1
      /\ \A i \in 1..(Len(s) - 1) : Front(s)[i] = s[i]
  <2> DEFINE n == Len(s) - 1
  <2>1. n \in Nat /\ n <= Len(s) /\ 1 \in 1..(Len(s) + 1) /\ n \in (1 - 1)..Len(s)
    BY <1>1
  <2>2. Front(s) = SubSeq(s, 1, n)
    BY DEF Front
  <2> HIDE DEF n
  <2>3. /\ SubSeq(s, 1, n) \in Seq(S) /\ Len(SubSeq(s, 1, n)) = n
        /\ \A i \in 1..n : SubSeq(s, 1, n)[i] = s[i]
    BY <2>1, SubSeqProperties
  <2> QED BY <2>2, <2>3 DEF n
<1> QED BY <1>1, <1>2 DEF Last

LEMMA PushFacts ==
  ASSUME NEW s \in Seq(Eval), NEW e \in Eval
  PROVE  /\ Append(s, e) \in Seq(Eval)
         /\ Len(s) \in Nat
         /\ Len(Append(s, e)) = Len(s) + 1
         /\ \A i \in 1..Len(s) : Append(s, e)[i] = s[i]
         /\ Append(s, e)[Len(s) + 1] = e
BY AppendProperties, LenProperties

-----------------------------------------------------------------------------
(* The elementary steps that every handler is made of. *)

(* A value is taken off the stack; a constant leaves its block to the handler. *)
LEMMA TakeTop ==
  ASSUME NEW h, NEW v, NEW s, NEW P, Sound(h, v, s, P), s # <<>>
  PROVE  Sound(h, v, Front(s), P \cup Frees(Last(s)))
<1> DEFINE e == Last(s)
           f == Front(s)
           n == Len(s)
<1>1. /\ n \in Nat \ {0} /\ e \in Eval /\ f \in Seq(Eval)
      /\ Len(f) = n - 1 /\ \A i \in 1..(n - 1) : f[i] = s[i]
  BY TopFacts DEF Sound, Typed
<1>2. n \in 1..n /\ e = s[n] /\ \A i \in 1..(n - 1) : i \in 1..n /\ i # n
  BY <1>1 DEF Last
<1>3. \A b \in Frees(e) : Owner(e) /\ b = e.block /\ b \in Blocks
  BY <1>1 DEF Frees, Owns, Owner, Eval
<1> HIDE DEF e, f, n
<1>4. Typed(h, v, f, P \cup Frees(e))
  BY <1>1, <1>3 DEF Sound, Typed
<1>5. Shaped(v, f)
  BY <1>1, <1>2 DEF Sound, Shaped, n
<1>6. VarsOwn(h, v, P \cup Frees(e))
  BY <1>2, <1>3 DEF Sound, VarsOwn, StackOwns, n
<1>7. StackOwns(h, v, f, P \cup Frees(e))
  <2>1. \A i \in 1..Len(f) : Owner(f[i]) =>
           /\ h[f[i].block] # Free
           /\ f[i].block \notin P
           /\ \A x \in Vars : v[x].block # f[i].block
    BY <1>1, <1>2 DEF Sound, StackOwns, n
  <2>2. \A i \in 1..Len(f) : Owner(f[i]) => f[i].block \notin Frees(e)
    BY <1>1, <1>2, <1>3 DEF Sound, StackOwns, n
  <2>3. \A i, j \in 1..Len(f) :
          Owner(f[i]) /\ Owner(f[j]) /\ f[i].block = f[j].block => i = j
    BY <1>1, <1>2 DEF Sound, StackOwns, n
  <2> QED BY <2>1, <2>2, <2>3 DEF StackOwns
<1>8. NoAlias => Pointing(v, f)
  BY <1>1, <1>2 DEF Sound, Pointing, n
<1>9. Held(h, P \cup Frees(e))
  BY <1>2, <1>3 DEF Sound, Held, StackOwns, n
<1> QED BY <1>4, <1>5, <1>6, <1>7, <1>8, <1>9 DEF Sound, e, f

(* The handler forgets a block: nobody will free it. *)
LEMMA Leak ==
  ASSUME NEW h, NEW v, NEW s, NEW P, Sound(h, v, s, P), NEW Q \in SUBSET P
  PROVE  Sound(h, v, s, Q)
BY DEF Sound, Typed, VarsOwn, StackOwns, Held

(* The handler frees blocks that it holds. *)
LEMMA Release ==
  ASSUME NEW h, NEW v, NEW s, NEW P, Sound(h, v, s, P), NEW Q \in SUBSET P,
         NEW g, g = Freed(h, Q)
  PROVE  Sound(g, v, s, P \ Q) /\ Kept(h, v, g)
<1>1. g \in Heaps /\ \A b \in Blocks : g[b] = IF b \in Q THEN Free ELSE h[b]
  BY DEF Freed, Sound, Typed, Heaps
<1>2. \A x \in Vars : v[x].block # NULL => v[x].block \in Blocks \ Q
  BY DEF Sound, Typed, Symbol, VarsOwn
<1>3. \A i \in 1..Len(s) : Owner(s[i]) => s[i].block \in Blocks \ Q
  <2>1. \A i \in 1..Len(s) : s[i] \in Eval
    BY ElementOfSeq DEF Sound, Typed
  <2> QED BY <2>1 DEF Sound, StackOwns, Owner, Eval
<1>4. Typed(g, v, s, P \ Q)
  BY <1>1 DEF Sound, Typed
<1>5. VarsOwn(g, v, P \ Q)
  BY <1>1, <1>2 DEF Sound, VarsOwn
<1>6. StackOwns(g, v, s, P \ Q)
  BY <1>1, <1>3 DEF Sound, StackOwns
<1>7. Held(g, P \ Q)
  BY <1>1 DEF Sound, Held, Typed
<1>8. Kept(h, v, g)
  BY <1>1, <1>2 DEF Kept
<1> QED BY <1>4, <1>5, <1>6, <1>7, <1>8 DEF Sound

(* The handler allocates a block. *)
LEMMA Allocate ==
  ASSUME NEW h, NEW v, NEW s, NEW P, Sound(h, v, s, P),
         NEW b \in Unused(h), NEW d \in Data \cup {Factors},
         NEW g, Update(h, b, d, g)
  PROVE  Sound(g, v, s, P \cup {b}) /\ Kept(h, v, g) /\ b \notin P /\ g[b] = d
<1>1. /\ b \in Blocks /\ h[b] = Free /\ d # Free
      /\ g \in Heaps /\ g[b] = d /\ \A c \in Blocks : c # b => g[c] = h[c]
  BY ValuesAssumption DEF Update, Unused, Sound, Typed, Heaps
<1>2. \A x \in Vars : v[x].block # NULL => v[x].block \in Blocks /\ v[x].block # b
  BY <1>1 DEF Sound, Typed, Symbol, VarsOwn
<1>3. \A i \in 1..Len(s) : Owner(s[i]) => s[i].block \in Blocks /\ s[i].block # b
  <2>1. \A i \in 1..Len(s) : s[i] \in Eval
    BY ElementOfSeq DEF Sound, Typed
  <2> QED BY <1>1, <2>1 DEF Sound, StackOwns, Owner, Eval
<1>4. Typed(g, v, s, P \cup {b})
  BY <1>1 DEF Sound, Typed
<1>5. VarsOwn(g, v, P \cup {b})
  BY <1>1, <1>2 DEF Sound, VarsOwn
<1>6. StackOwns(g, v, s, P \cup {b})
  BY <1>1, <1>3 DEF Sound, StackOwns
<1>7. b \notin P /\ Held(g, P \cup {b})
  BY <1>1 DEF Sound, Held, Typed
<1>8. Kept(h, v, g)
  BY <1>1, <1>2 DEF Kept
<1> QED BY <1>1, <1>4, <1>5, <1>6, <1>7, <1>8 DEF Sound

(* The handler writes to an allocated block. *)
LEMMA Overwrite ==
  ASSUME NEW h, NEW v, NEW s, NEW P, Sound(h, v, s, P),
         NEW b \in Blocks, NEW d \in Data \cup {Factors},
         NEW g, Update(h, b, d, g)
  PROVE  Sound(g, v, s, P)
<1>1. g \in Heaps /\ d # Free /\ \A c \in Blocks : g[c] # Free \/ g[c] = h[c]
  BY ValuesAssumption DEF Update, Sound, Typed, Heaps
<1>2. \A i \in 1..Len(s) : Owner(s[i]) => s[i].block \in Blocks
  <2>1. \A i \in 1..Len(s) : s[i] \in Eval
    BY ElementOfSeq DEF Sound, Typed
  <2> QED BY <2>1 DEF Owner, Eval
<1>3. Typed(g, v, s, P)
  BY <1>1 DEF Sound, Typed
<1>4. VarsOwn(g, v, P)
  BY <1>1 DEF Sound, VarsOwn, Typed, Symbol
<1>5. StackOwns(g, v, s, P)
  BY <1>1, <1>2 DEF Sound, StackOwns
<1>6. Held(g, P)
  BY <1>1 DEF Sound, Held, Typed
<1> QED BY <1>3, <1>4, <1>5, <1>6 DEF Sound

(* A new value that owns a block of the handler is pushed. *)
LEMMA PushOwned ==
  ASSUME NEW h, NEW v, NEW s, NEW P, Sound(h, v, s, P),
         NEW e \in Eval, Owner(e), e.type # "digit", e.block \in P
  PROVE  Sound(h, v, Append(s, e), P \ {e.block})
<1> DEFINE t == Append(s, e)
           n == Len(s)
<1>1. /\ t \in Seq(Eval) /\ n \in Nat /\ Len(t) = n + 1
      /\ (\A i \in 1..n : t[i] = s[i]) /\ t[n + 1] = e
  BY PushFacts DEF Sound, Typed
<1>2. \A i \in 1..(n + 1) : i \in 1..n \/ i = n + 1
  BY <1>1
<1>3. ~Alias(e)
  BY DEF Alias, Owner, Arrays
<1> HIDE DEF t, n
<1>4. Typed(h, v, t, P \ {e.block})
  BY <1>1 DEF Sound, Typed
<1>5. Shaped(v, t)
  <2>1. e.block # NULL
    BY DEF Owner
  <2>2. \A i \in 1..n : s[i].block = NULL <=> s[i].type = "digit"
    BY DEF Sound, Shaped, n
  <2>3. \A i \in 1..(n + 1) : t[i].block = NULL <=> t[i].type = "digit"
    BY <1>1, <1>2, <2>1, <2>2
  <2>4. \A i \in 1..Len(t) : t[i].block = NULL <=> t[i].type = "digit"
    BY <2>3, <1>1
  <2> QED BY <2>4 DEF Sound, Shaped
<1>6. VarsOwn(h, v, P \ {e.block})
  BY DEF Sound, VarsOwn
<1>7. StackOwns(h, v, t, P \ {e.block})
  <2>1. /\ h[e.block] # Free /\ \A x \in Vars : v[x].block # e.block
    BY DEF Sound, Held, VarsOwn, Owner
  <2>2. \A i \in 1..n : Owner(s[i]) => s[i].block # e.block
    BY DEF Sound, StackOwns, n
  <2>3. \A i \in 1..n : Owner(s[i]) =>
           /\ h[s[i].block] # Free
           /\ s[i].block \notin P
           /\ \A x \in Vars : v[x].block # s[i].block
    BY DEF Sound, StackOwns, n
  <2>4. \A i, j \in 1..n :
          Owner(s[i]) /\ Owner(s[j]) /\ s[i].block = s[j].block => i = j
    BY DEF Sound, StackOwns, n
  <2>5. \A i \in 1..(n + 1) : Owner(t[i]) =>
           /\ h[t[i].block] # Free
           /\ t[i].block \notin P \ {e.block}
           /\ \A x \in Vars : v[x].block # t[i].block
    BY <1>1, <1>2, <2>1, <2>3
  <2>6. \A i, j \in 1..(n + 1) :
          Owner(t[i]) /\ Owner(t[j]) /\ t[i].block = t[j].block => i = j
    BY <1>1, <1>2, <2>2, <2>4
  <2> QED BY <1>1, <2>5, <2>6 DEF StackOwns
<1>8. ASSUME NoAlias PROVE Pointing(v, t)
  <2>1. \A i \in 1..n : Alias(s[i]) =>
          \E x \in Vars : v[x].type = s[i].type /\ v[x].block = s[i].block
    BY <1>8 DEF Sound, Pointing, n
  <2>2. \A i \in 1..(n + 1) : Alias(t[i]) =>
          \E x \in Vars : v[x].type = t[i].type /\ v[x].block = t[i].block
    BY <1>1, <1>2, <1>3, <2>1
  <2> QED BY <1>1, <2>2 DEF Pointing
<1>9. Held(h, P \ {e.block})
  BY DEF Sound, Held
<1> QED BY <1>4, <1>5, <1>6, <1>7, <1>8, <1>9 DEF Sound, t

(* A number, or a pointer to the block of a variable, is pushed. *)
LEMMA PushPlain ==
  ASSUME NEW h, NEW v, NEW s, NEW P, Sound(h, v, s, P),
         NEW e \in Eval, e.block = NULL <=> e.type = "digit", ~Owner(e),
         Alias(e) => \E x \in Vars : v[x].type = e.type /\ v[x].block = e.block
  PROVE  Sound(h, v, Append(s, e), P)
<1> DEFINE t == Append(s, e)
           n == Len(s)
<1>1. /\ t \in Seq(Eval) /\ n \in Nat /\ Len(t) = n + 1
      /\ (\A i \in 1..n : t[i] = s[i]) /\ t[n + 1] = e
  BY PushFacts DEF Sound, Typed
<1>2. \A i \in 1..(n + 1) : i \in 1..n \/ i = n + 1
  BY <1>1
<1> HIDE DEF t, n
<1>3. Typed(h, v, t, P)
  BY <1>1 DEF Sound, Typed
<1>4. Shaped(v, t)
  <2>1. \A i \in 1..n : s[i].block = NULL <=> s[i].type = "digit"
    BY DEF Sound, Shaped, n
  <2>2. \A i \in 1..(n + 1) : t[i].block = NULL <=> t[i].type = "digit"
    BY <1>1, <1>2, <2>1
  <2>3. \A i \in 1..Len(t) : t[i].block = NULL <=> t[i].type = "digit"
    BY <2>2, <1>1
  <2> QED BY <2>3 DEF Sound, Shaped
<1>5. StackOwns(h, v, t, P)
  <2>1. \A i \in 1..n : Owner(s[i]) =>
           /\ h[s[i].block] # Free
           /\ s[i].block \notin P
           /\ \A x \in Vars : v[x].block # s[i].block
    BY DEF Sound, StackOwns, n
  <2>2. \A i, j \in 1..n :
          Owner(s[i]) /\ Owner(s[j]) /\ s[i].block = s[j].block => i = j
    BY DEF Sound, StackOwns, n
  <2>3. \A i \in 1..(n + 1) : Owner(t[i]) =>
           /\ h[t[i].block] # Free
           /\ t[i].block \notin P
           /\ \A x \in Vars : v[x].block # t[i].block
    BY <1>1, <1>2, <2>1
  <2>4. \A i, j \in 1..(n + 1) :
          Owner(t[i]) /\ Owner(t[j]) /\ t[i].block = t[j].block => i = j
    BY <1>1, <1>2, <2>2
  <2> QED BY <1>1, <2>3, <2>4 DEF StackOwns
<1>6. ASSUME NoAlias PROVE Pointing(v, t)
  <2>1. \A i \in 1..n : Alias(s[i]) =>
          \E x \in Vars : v[x].type = s[i].type /\ v[x].block = s[i].block
    BY <1>6 DEF Sound, Pointing, n
  <2>2. \A i \in 1..(n + 1) : Alias(t[i]) =>
          \E x \in Vars : v[x].type = t[i].type /\ v[x].block = t[i].block
    BY <1>1, <1>2, <2>1
  <2> QED BY <1>1, <2>2 DEF Pointing
<1> QED BY <1>3, <1>4, <1>5, <1>6 DEF Sound, t

(* Nothing on the stack points to the vector or matrix of x, unless programs may
   assign to variables that are pointed at. *)
Unpointed(v, x, s) ==
  NoAlias /\ v[x].type \in Arrays =>
    \A i \in 1..Len(s) : ~(s[i].tag = "symbol" /\ s[i].block = v[x].block)

(* A variable that nothing points to gets a block of the handler, or none, and
   leaves its own to the handler. *)
LEMMA Give ==
  ASSUME NEW h, NEW v, NEW s, NEW P, Sound(h, v, s, P),
         NEW x \in Vars, Unpointed(v, x, s),
         NEW w \in Symbol, Fits(w),
         w.block \in P \cup {NULL},
         NEW u, Update(v, x, w, u),
         NEW Q, Q = (P \ {w.block}) \cup Owns(v[x])
  PROVE  Sound(h, u, s, Q)
<1>1. /\ u \in [Vars -> Symbol] /\ u[x] = w /\ \A y \in Vars : y # x => u[y] = v[y]
  BY DEF Update, Sound, Typed
<1>2. \A b \in Owns(v[x]) : b = v[x].block /\ b # NULL /\ b \in Blocks
  BY DEF Owns, Sound, Typed, Symbol
<1>3. Typed(h, u, s, Q)
  BY <1>1, <1>2 DEF Sound, Typed
<1>4. Shaped(u, s)
  BY <1>1 DEF Sound, Shaped, Fits
<1>5. VarsOwn(h, u, Q)
  <2>1. \A y \in Vars : v[y].block # NULL =>
           h[v[y].block] # Free /\ v[y].block \notin P
    BY DEF Sound, VarsOwn
  <2>2. \A y, z \in Vars : v[y].block # NULL /\ v[y].block = v[z].block => y = z
    BY DEF Sound, VarsOwn
  <2>3. \A y \in Vars : y # x /\ v[y].block # NULL => v[y].block \notin Q
    BY <1>2, <2>1, <2>2
  <2>4. w.block # NULL => h[w.block] # Free /\ w.block \notin Q
    BY <1>2, <2>1 DEF Sound, Held
  <2>5. \A y \in Vars : u[y].block # NULL => h[u[y].block] # Free /\ u[y].block \notin Q
    BY <1>1, <2>1, <2>3, <2>4
  <2>6. \A y \in Vars : y # x /\ w.block # NULL => v[y].block # w.block
    BY <2>1
  <2>7. \A y, z \in Vars : u[y].block # NULL /\ u[y].block = u[z].block => y = z
    BY <1>1, <2>2, <2>6
  <2> QED BY <2>5, <2>7 DEF VarsOwn
<1>6. StackOwns(h, u, s, Q)
  <2>1. \A i \in 1..Len(s) : Owner(s[i]) =>
           /\ h[s[i].block] # Free
           /\ s[i].block \notin P
           /\ \A y \in Vars : v[y].block # s[i].block
    BY DEF Sound, StackOwns
  <2>2. \A i \in 1..Len(s) : Owner(s[i]) => s[i].block # w.block
    BY <2>1 DEF Owner
  <2>3. \A i \in 1..Len(s) : Owner(s[i]) =>
           /\ h[s[i].block] # Free
           /\ s[i].block \notin Q
           /\ \A y \in Vars : u[y].block # s[i].block
    BY <1>1, <1>2, <2>1, <2>2
  <2>4. \A i, j \in 1..Len(s) :
          Owner(s[i]) /\ Owner(s[j]) /\ s[i].block = s[j].block => i = j
    BY DEF Sound, StackOwns
  <2> QED BY <2>3, <2>4 DEF StackOwns
<1>7. NoAlias => Pointing(u, s)
  <2> SUFFICES ASSUME NoAlias, NEW i \in 1..Len(s), Alias(s[i])
               PROVE  \E y \in Vars : u[y].type = s[i].type /\ u[y].block = s[i].block
    BY DEF Pointing
  <2>1. PICK y \in Vars : v[y].type = s[i].type /\ v[y].block = s[i].block
    BY DEF Sound, Pointing
  <2>2. y # x
    BY <2>1 DEF Alias, Unpointed
  <2> QED BY <2>1, <2>2, <1>1
<1>8. Held(h, Q)
  BY <1>2 DEF Sound, Held, VarsOwn
<1> QED BY <1>3, <1>4, <1>5, <1>6, <1>7, <1>8 DEF Sound

(* The variables other than x hold in g and u what they hold in h and v. *)
OthersKept(h, v, x, g, u) ==
  \A y \in Vars : y # x =>
    u[y] = v[y] /\ (v[y].block # NULL => g[v[y].block] = h[v[y].block])

(* The variable x holds in g and u what the value e holds in h. *)
Stored(h, e, x, g, u) ==
  /\ u[x].type = e.type
  /\ e.block = NULL => u[x].block = NULL
  /\ e.block # NULL => u[x].block # NULL /\ g[u[x].block] = h[e.block]

(* What the value e holds survives the cleaning of x. *)
Readable(h, v, x, e) == e.block # NULL => Freed(h, Owns(v[x]))[e.block] # Free

(* symbol_clean_val: x has no value and its block is free. *)
Nothing == [type |-> "unknown", block |-> NULL]

LEMMA Cleaned ==
  ASSUME NEW h, NEW v, NEW s, NEW P, Sound(h, v, s, P),
         NEW x \in Vars, Unpointed(v, x, s),
         NEW u, Update(v, x, Nothing, u),
         NEW g, g = Freed(h, Owns(v[x]))
  PROVE  Sound(g, u, s, P) /\ Kept(h, u, g)
<1> DEFINE Q == P \cup Owns(v[x])
<1>1. Nothing \in Symbol /\ Nothing.block = NULL /\ Fits(Nothing)
  BY DEF Nothing, Symbol, Fits
<1>2. Q = (P \ {Nothing.block}) \cup Owns(v[x])
  BY <1>1, ValuesAssumption DEF Sound, Typed
<1> HIDE DEF Q
<1>3. Sound(h, u, s, Q)
  BY <1>1, <1>2, Give
<1>4. Owns(v[x]) \in SUBSET Q /\ Q \ Owns(v[x]) = P
  BY DEF Q, Owns, Sound, VarsOwn
<1>5. Sound(g, u, s, Q \ Owns(v[x])) /\ Kept(h, u, g)
  BY <1>3, <1>4, Release
<1> QED BY <1>4, <1>5

(* The block of a variable without a value is replaced by one of the handler. *)
LEMMA Given ==
  ASSUME NEW h, NEW v, NEW s, NEW P,
         NEW x \in Vars, v[x] = Nothing,
         NEW w \in Symbol, Fits(w),
         Sound(h, v, s, P \cup Owns(w)), w.block \notin P,
         NEW u, Update(v, x, w, u)
  PROVE  Sound(h, u, s, P)
<1> DEFINE Q == P \cup Owns(w)
<1>1. v[x].type = "unknown" /\ v[x].block = NULL
  BY DEF Nothing
<1>2. Unpointed(v, x, s) /\ Owns(v[x]) = {}
  BY <1>1 DEF Unpointed, Arrays, Owns
<1>3. w.block \in Q \cup {NULL} /\ P = (Q \ {w.block}) \cup Owns(v[x])
  BY <1>2 DEF Owns
<1> HIDE DEF Q
<1>4. Sound(h, v, s, Q)
  BY DEF Q
<1> QED BY <1>2, <1>3, <1>4, Give

(* symbol_set_val of a number. *)
LEMMA SetNumber ==
  ASSUME NEW h, NEW v, NEW s, NEW P, Sound(h, v, s, P),
         NEW x \in Vars, Unpointed(v, x, s),
         NEW e \in Eval, e.block = NULL, e.type = "digit",
         NEW S \in SUBSET P,
         NEW g, g = Freed(Freed(h, Owns(v[x])), S),
         NEW u, Update(v, x, [type |-> e.type, block |-> NULL], u)
  PROVE  /\ Sound(g, u, s, P \ S)
         /\ OthersKept(h, v, x, g, u)
         /\ Stored(h, e, x, g, u)
<1> DEFINE cleaned == Freed(h, Owns(v[x]))
           none == [v EXCEPT ![x] = Nothing]
           w == [type |-> e.type, block |-> NULL]
<1>1. v \in [Vars -> Symbol]
  BY DEF Sound, Typed
<1>2. none[x] = Nothing /\ \A y \in Vars : y # x => none[y] = v[y]
  BY <1>1
<1>3. Update(none, x, w, u) /\ Update(v, x, Nothing, none)
  BY <1>1 DEF Update
<1>4. w \in Symbol /\ Fits(w) /\ w.block = NULL /\ w.type = "digit" /\ Owns(w) = {}
  BY DEF Symbol, Types, Owns, Fits
<1>5. NULL \notin P /\ P = P \cup {}
  BY ValuesAssumption DEF Sound, Typed
<1>6. u[x] = w /\ \A y \in Vars : y # x => u[y] = v[y]
  BY <1>1 DEF Update
<1>7. g = Freed(cleaned, S)
  OBVIOUS
<1> HIDE DEF cleaned, none, w
<1>8. Sound(cleaned, none, s, P) /\ Kept(h, none, cleaned)
  BY <1>3, Cleaned DEF cleaned
<1>9. Sound(cleaned, none, s, P \cup Owns(w)) /\ w.block \notin P
  BY <1>4, <1>5, <1>8
<1>10. Sound(cleaned, u, s, P)
  BY <1>2, <1>3, <1>4, <1>9, Given
<1>11. Sound(g, u, s, P \ S) /\ Kept(cleaned, u, g)
  BY <1>7, <1>10, Release
<1>12. OthersKept(h, v, x, g, u)
  <2> SUFFICES ASSUME NEW y \in Vars, y # x
               PROVE  u[y] = v[y] /\ (v[y].block # NULL => g[v[y].block] = h[v[y].block])
    BY DEF OthersKept
  <2>1. none[y] = v[y] /\ u[y] = v[y]
    BY <1>2, <1>6
  <2>2. v[y].block # NULL => cleaned[v[y].block] = h[v[y].block]
    BY <1>8, <2>1 DEF Kept
  <2>3. v[y].block # NULL => g[v[y].block] = cleaned[v[y].block]
    BY <1>11, <2>1 DEF Kept
  <2> QED BY <2>1, <2>2, <2>3
<1>13. Stored(h, e, x, g, u)
  BY <1>4, <1>6 DEF Stored
<1> QED BY <1>11, <1>12, <1>13

(* symbol_set_val of a string, a vector or a matrix. *)
LEMMA SetCopy ==
  ASSUME NEW h, NEW v, NEW s, NEW P, Sound(h, v, s, P),
         NEW x \in Vars, Unpointed(v, x, s),
         NEW e \in Eval, e.block # NULL, e.type # "digit", Readable(h, v, x, e),
         NEW S \in SUBSET P,
         NEW cleaned, cleaned = Freed(h, Owns(v[x])),
         NEW b \in Unused(cleaned),
         NEW d, d = cleaned[e.block],
         NEW f, Update(cleaned, b, d, f),
         NEW g, g = Freed(f, S),
         NEW u, Update(v, x, [type |-> e.type, block |-> b], u)
  PROVE  /\ Sound(g, u, s, P \ S)
         /\ OthersKept(h, v, x, g, u)
         /\ Stored(h, e, x, g, u)
<1> DEFINE none == [v EXCEPT ![x] = Nothing]
           w == [type |-> e.type, block |-> b]
<1>1. v \in [Vars -> Symbol] /\ h \in Heaps
  BY DEF Sound, Typed
<1>2. none[x] = Nothing /\ \A y \in Vars : y # x => none[y] = v[y]
  BY <1>1
<1>3. Update(none, x, w, u) /\ Update(v, x, Nothing, none)
  BY <1>1 DEF Update
<1>4. b \in Blocks /\ b # NULL
  BY ValuesAssumption DEF Unused
<1>5. /\ w \in Symbol /\ w.block = b /\ w.type = e.type
      /\ w.type \notin {"digit", "unknown"}
  BY <1>4 DEF Symbol, Types, Arrays, Eval
<1>6. Owns(w) = {b}
  BY <1>4, <1>5 DEF Owns
<1>7. u[x] = w /\ \A y \in Vars : y # x => u[y] = v[y]
  BY <1>1 DEF Update
<1>8. e.block \in Blocks /\ d # Free
  BY DEF Readable, Eval
<1>9. d = h[e.block]
  BY <1>8 DEF Freed
<1> HIDE DEF none, w
<1>10. Sound(cleaned, none, s, P) /\ Kept(h, none, cleaned)
  BY <1>3, Cleaned
<1>11. d \in Data \cup {Factors}
  BY <1>1, <1>8, <1>9 DEF Heaps
<1>12. /\ Sound(f, none, s, P \cup {b})
       /\ Kept(cleaned, none, f)
       /\ b \notin P
       /\ f[b] = d
  BY <1>10, <1>11, Allocate
<1>13. Sound(f, none, s, P \cup Owns(w)) /\ w.block \notin P
  BY <1>5, <1>6, <1>12
<1>14. Fits(w)
  BY <1>4, <1>5 DEF Fits
<1>15. Sound(f, u, s, P)
  BY <1>2, <1>3, <1>5, <1>13, <1>14, Given
<1>16. Sound(g, u, s, P \ S) /\ Kept(f, u, g)
  BY <1>15, Release
<1>17. OthersKept(h, v, x, g, u)
  <2> SUFFICES ASSUME NEW y \in Vars, y # x
               PROVE  u[y] = v[y] /\ (v[y].block # NULL => g[v[y].block] = h[v[y].block])
    BY DEF OthersKept
  <2>1. none[y] = v[y] /\ u[y] = v[y]
    BY <1>2, <1>7
  <2>2. v[y].block # NULL => cleaned[v[y].block] = h[v[y].block]
    BY <1>10, <2>1 DEF Kept
  <2>3. v[y].block # NULL => f[v[y].block] = cleaned[v[y].block]
    BY <1>12, <2>1 DEF Kept
  <2>4. v[y].block # NULL => g[v[y].block] = f[v[y].block]
    BY <1>16, <2>1 DEF Kept
  <2> QED BY <2>1, <2>2, <2>3, <2>4
<1>18. Stored(h, e, x, g, u)
  BY <1>4, <1>5, <1>7, <1>9, <1>12, <1>16 DEF Stored, Kept
<1> QED BY <1>16, <1>17, <1>18

(* symbol_set_val gives x the value e and leaves the other variables alone. *)
LEMMA SetValSound ==
  ASSUME NEW h, NEW s, NEW P, Sound(h, var, s, P),
         NEW x \in Vars, Unpointed(var, x, s),
         NEW e \in Eval, e.block = NULL <=> e.type = "digit", Readable(h, var, x, e),
         NEW S \in SUBSET P,
         SetVal(h, x, e, S)
  PROVE  /\ Sound(heap', var', s, P \ S)
         /\ OthersKept(h, var, x, heap', var')
         /\ Stored(h, e, x, heap', var')
<1>1. CASE e.block = NULL
  <2>1. /\ heap' = Freed(Freed(h, Owns(var[x])), S)
        /\ Update(var, x, [type |-> e.type, block |-> NULL], var')
    BY <1>1 DEF SetVal, Update
  <2> QED BY <1>1, <2>1, SetNumber
<1>2. CASE e.block # NULL
  <2> DEFINE cleaned == Freed(h, Owns(var[x]))
  <2>1. PICK b \in Unused(cleaned) :
          /\ heap' = Freed([cleaned EXCEPT ![b] = cleaned[e.block]], S)
          /\ Update(var, x, [type |-> e.type, block |-> b], var')
    BY <1>2 DEF SetVal, Update
  <2> DEFINE f == [cleaned EXCEPT ![b] = cleaned[e.block]]
  <2>2. heap' = Freed(f, S) /\ Update(cleaned, b, cleaned[e.block], f)
    BY <2>1 DEF Update
  <2> HIDE DEF cleaned, f
  <2> QED BY <1>2, <2>1, <2>2, SetCopy DEF cleaned, f
<1> QED BY <1>1, <1>2

(* A value that points nowhere is pushed: no variable is pointed at that was not. *)
LEMMA StillUnpointed ==
  ASSUME NEW v, NEW x, NEW s \in Seq(Eval), Unpointed(v, x, s),
         NEW e \in Eval, e.tag = "const"
  PROVE  Unpointed(v, x, Append(s, e))
<1>1. /\ Len(s) \in Nat
      /\ Len(Append(s, e)) = Len(s) + 1
      /\ \A i \in 1..Len(s) : Append(s, e)[i] = s[i]
      /\ Append(s, e)[Len(s) + 1] = e
  BY PushFacts
<1>2. \A i \in 1..(Len(s) + 1) : i \in 1..Len(s) \/ i = Len(s) + 1
  BY <1>1
<1>3. NoAlias /\ v[x].type \in Arrays =>
        \A i \in 1..(Len(s) + 1) :
          ~(Append(s, e)[i].tag = "symbol" /\ Append(s, e)[i].block = v[x].block)
  BY <1>1, <1>2 DEF Unpointed
<1> QED BY <1>1, <1>3 DEF Unpointed

(* A result is pushed and ans gets a copy of it. *)
LEMMA PushNewSound ==
  ASSUME NEW h, NEW s, NEW P, Sound(h, var, s, P), Unpointed(var, Ans, s),
         NEW type \in Types, NEW S \in SUBSET P,
         PushNew(h, s, type, S)
  PROVE  /\ Sound(heap', var', stack', P \ S)
         /\ OthersKept(h, var, Ans, heap', var')
<1> USE DEF Vars
<1>1. CASE type = "digit"
  <2> DEFINE e == Const(type, NULL)
  <2>1. stack' = Append(s, e) /\ SetVal(h, Ans, e, S)
    BY <1>1 DEF PushNew
  <2>2. /\ e \in Eval /\ e.tag = "const" /\ e.block = NULL /\ e.type = "digit"
        /\ ~Owner(e) /\ ~Alias(e)
    BY <1>1 DEF Const, Eval, Owner, Alias
  <2> HIDE DEF e
  <2>3. Sound(h, var, stack', P)
    BY <2>1, <2>2, PushPlain
  <2>4. Unpointed(var, Ans, stack')
    BY <2>1, <2>2, StillUnpointed DEF Sound, Typed
  <2>5. Readable(h, var, Ans, e)
    BY <2>2 DEF Readable
  <2> QED BY <2>1, <2>2, <2>3, <2>4, <2>5, SetValSound
<1>2. CASE type # "digit"
  <2>1. PICK b \in Unused(h), d \in Data :
          /\ stack' = Append(s, Const(type, b))
          /\ SetVal([h EXCEPT ![b] = d], Ans, Const(type, b), S)
    BY <1>2 DEF PushNew
  <2> DEFINE e == Const(type, b)
             f == [h EXCEPT ![b] = d]
  <2>2. b \in Blocks /\ b # NULL
    BY ValuesAssumption DEF Unused
  <2>3. /\ e \in Eval /\ e.tag = "const" /\ e.block = b /\ e.block # NULL
        /\ e.type # "digit" /\ Owner(e)
    BY <1>2, <2>2 DEF Const, Eval, Owner
  <2>4. Update(h, b, d, f) /\ SetVal(f, Ans, e, S) /\ stack' = Append(s, e)
    BY <2>1 DEF Update
  <2> HIDE DEF e, f
  <2>5. Sound(f, var, s, P \cup {b}) /\ Kept(h, var, f) /\ b \notin P /\ f[b] = d
    BY <2>4, Allocate
  <2>6. Sound(f, var, Append(s, e), (P \cup {b}) \ {e.block})
    BY <2>3, <2>5, PushOwned
  <2>7. (P \cup {b}) \ {e.block} = P
    BY <2>3, <2>5
  <2>8. Sound(f, var, stack', P)
    BY <2>4, <2>6, <2>7
  <2>9. Unpointed(var, Ans, stack')
    BY <2>3, <2>4, StillUnpointed DEF Sound, Typed
  <2>10. b \notin Owns(var[Ans]) /\ d # Free
    BY <2>5, ValuesAssumption DEF Sound, VarsOwn, Owns
  <2>11. Readable(f, var, Ans, e)
    BY <2>2, <2>3, <2>5, <2>10 DEF Readable, Freed
  <2>12. /\ Sound(heap', var', stack', P \ S)
         /\ OthersKept(f, var, Ans, heap', var')
    BY <2>3, <2>4, <2>8, <2>9, <2>11, SetValSound
  <2>13. OthersKept(h, var, Ans, heap', var')
    BY <2>5, <2>12 DEF OthersKept, Kept
  <2> QED BY <2>12, <2>13
<1> QED BY <1>1, <1>2

-----------------------------------------------------------------------------
(* The handlers. *)

LEMMA MaySetFree ==
  ASSUME NEW x, NEW s \in Seq(Eval), MaySet(x, s)
  PROVE  Unpointed(var, x, s)
<1>1. DOMAIN s = 1..Len(s)
  BY LenProperties
<1> QED BY <1>1 DEF NoAlias, MaySet, Aliased, Unpointed

(* A step to a state that is sound and has the right size keeps the invariant. *)
LEMMA SoundEnough ==
  ASSUME Sound(heap', var', stack', {}), Len(stack') <= MaxStack,
         errors' \in BOOLEAN, status' = "ok"
  PROVE  IInv'
<1>1. \A i \in DOMAIN stack' : stack'[i].block = NULL <=> stack'[i].type = "digit"
  BY LenProperties DEF Sound, Typed, Shaped
<1> QED BY <1>1 DEF IInv, TypeOK, Sound, Typed, Heaps

(* No variable of the program changes. *)
Quiet == \A x \in Ids : ValueOf(x)' = ValueOf(x)

LEMMA KeptQuiet == ASSUME Kept(heap, var, heap'), var' = var PROVE Quiet
BY DEF Kept, Quiet, ValueOf, Contents, Vars

LEMMA SameQuiet == ASSUME heap' = heap, var' = var PROVE Quiet
BY DEF Quiet, ValueOf, Contents

LEMMA OnlyAns == ASSUME OthersKept(heap, var, Ans, heap', var') PROVE Quiet
BY ValuesAssumption DEF OthersKept, Quiet, ValueOf, Contents, Vars

LEMMA EndKeeps == ASSUME IInv, NEW how \in {"exited", "undefined"}, Ends(how)
                  PROVE  IInv'
BY DEF IInv, TypeOK, Ends

LEMMA UndefinedStep == ASSUME IInv, Undefined PROVE IInv' /\ Quiet
<1>1. Ends("undefined") /\ heap' = heap /\ var' = var
  BY DEF Undefined, Ends
<1> QED BY <1>1, EndKeeps, SameQuiet

(* What a ready state has. *)
LEMMA ReadyFacts ==
  ASSUME IInv, Ready
  PROVE  /\ Sound(heap, var, stack, {})
         /\ stack \in Seq(Eval)
         /\ Len(stack) \in Nat /\ Len(stack) <= MaxStack /\ MaxStack \in Nat
         /\ errors \in BOOLEAN
         /\ DOMAIN stack = 1..Len(stack)
         /\ \A i \in 1..Len(stack) : stack[i] \in Eval
BY ElementOfSeq, LenProperties, ValuesAssumption DEF IInv, Ready, TypeOK

(* The values under the first n stay as they are; what was above is forgotten. *)
LEMMA Prefix ==
  ASSUME NEW h, NEW v, NEW s, NEW P, Sound(h, v, s, P), NEW n \in 0..Len(s)
  PROVE  Sound(h, v, SubSeq(s, 1, n), P)
<1> DEFINE t == SubSeq(s, 1, n)
<1>1. s \in Seq(Eval) /\ Len(s) \in Nat
  BY LenProperties DEF Sound, Typed
<1>2. n \in Nat /\ 1 \in 1..(Len(s) + 1) /\ n \in (1 - 1)..Len(s)
  BY <1>1
<1>3. t \in Seq(Eval) /\ Len(t) = n /\ \A i \in 1..n : t[i] = s[i]
  BY <1>1, <1>2, SubSeqProperties
<1>4. \A i \in 1..n : i \in 1..Len(s)
  BY <1>1, <1>2
<1> HIDE DEF t
<1>5. Typed(h, v, t, P)
  BY <1>3 DEF Sound, Typed
<1>6. Shaped(v, t)
  BY <1>3, <1>4 DEF Sound, Shaped
<1>7. StackOwns(h, v, t, P)
  BY <1>3, <1>4 DEF Sound, StackOwns
<1>8. NoAlias => Pointing(v, t)
  BY <1>3, <1>4 DEF Sound, Pointing
<1> QED BY <1>5, <1>6, <1>7, <1>8 DEF Sound, t

(* All values are taken off the stack. *)
LEMMA TakeAll ==
  ASSUME NEW h, NEW v, NEW s, Sound(h, v, s, {})
  PROVE  Sound(h, v, <<>>, FreesEach(s))
<1> DEFINE Q == FreesEach(s)
<1>1. s \in Seq(Eval) /\ DOMAIN s = 1..Len(s) /\ \A i \in 1..Len(s) : s[i] \in Eval
  BY ElementOfSeq, LenProperties DEF Sound, Typed
<1>2. \A i \in 1..Len(s) : \A b \in Frees(s[i]) :
        Owner(s[i]) /\ b = s[i].block /\ b \in Blocks
  BY <1>1 DEF Frees, Owns, Owner, Eval
<1>3. \A b \in Q : \E i \in 1..Len(s) : Owner(s[i]) /\ b = s[i].block /\ b \in Blocks
  BY <1>1, <1>2 DEF FreesEach
<1>4. <<>> \in Seq(Eval) /\ Len(<<>>) = 0 /\ 1..Len(<<>>) = {}
  BY EmptySeq
<1> HIDE DEF Q
<1>5. Typed(h, v, <<>>, Q)
  BY <1>3, <1>4 DEF Sound, Typed
<1>6. Shaped(v, <<>>) /\ StackOwns(h, v, <<>>, Q) /\ Pointing(v, <<>>)
  BY <1>4 DEF Sound, Shaped, StackOwns, Pointing
<1>7. VarsOwn(h, v, Q) /\ Held(h, Q)
  BY <1>3 DEF Sound, VarsOwn, StackOwns, Held
<1> QED BY <1>5, <1>6, <1>7 DEF Sound, Q

(* Without such programs a value on the stack can be read, and still after the
   cleaning of a variable that nothing points to. *)
LEMMA CanRead ==
  ASSUME NoAlias, NEW h, NEW v, NEW s, NEW P, Sound(h, v, s, P),
         NEW i \in 1..Len(s), s[i].block # NULL
  PROVE  /\ s[i].block \in Blocks /\ h[s[i].block] # Free
         /\ \A x \in Vars : Unpointed(v, x, s) => s[i].block # v[x].block
<1>1. s[i] \in Eval /\ s[i].block \in Blocks
  <2>1. s[i] \in Eval
    BY ElementOfSeq DEF Sound, Typed
  <2> QED BY <2>1 DEF Eval
<1>2. Owner(s[i]) \/ Alias(s[i])
  BY <1>1 DEF Sound, Shaped, Owner, Alias, Eval, Types
<1>3. CASE Owner(s[i])
  BY <1>1, <1>3 DEF Sound, StackOwns
<1>4. CASE Alias(s[i])
  <2>1. PICK y \in Vars : v[y].type = s[i].type /\ v[y].block = s[i].block
    BY <1>4 DEF Sound, Pointing
  <2>2. h[s[i].block] # Free
    BY <2>1 DEF Sound, VarsOwn
  <2>3. \A x \in Vars : s[i].block = v[x].block => x = y
    BY <2>1 DEF Sound, VarsOwn
  <2>4. ~Unpointed(v, y, s)
    BY <1>4, <2>1 DEF Unpointed, Alias
  <2> QED BY <1>1, <2>2, <2>3, <2>4
<1> QED BY <1>2, <1>3, <1>4

(* A result on the stack is one value more. *)
LEMMA PushNewLonger ==
  ASSUME NEW h, NEW s \in Seq(Eval), NEW type \in Types, NEW S,
         PushNew(h, s, type, S)
  PROVE  Len(stack') = Len(s) + 1 /\ Len(s) \in Nat
<1>1. PICK b \in Blocks \cup {NULL} : stack' = Append(s, Const(type, b))
  BY DEF PushNew, Unused
<1>2. Const(type, b) \in Eval
  BY DEF Const, Eval
<1> QED BY <1>1, <1>2, PushFacts

(* A handler that ends with a result, and frees the blocks it holds. *)
LEMMA ResultPushed ==
  ASSUME NEW h, NEW s, NEW P, Sound(h, var, s, P), MaySet(Ans, s),
         NEW type \in Types, PushNew(h, s, type, P), Len(s) < MaxStack,
         errors \in BOOLEAN, status = "ok", UNCHANGED <<errors, status>>
  PROVE  IInv' /\ OthersKept(h, var, Ans, heap', var')
<1>1. s \in Seq(Eval)
  BY DEF Sound, Typed
<1>2. Unpointed(var, Ans, s)
  BY <1>1, MaySetFree
<1>3. Sound(heap', var', stack', P \ P) /\ OthersKept(h, var, Ans, heap', var')
  BY <1>2, PushNewSound
<1>4. Sound(heap', var', stack', {})
  BY <1>3
<1>5. Len(stack') = Len(s) + 1 /\ Len(s) \in Nat
  BY <1>1, PushNewLonger
<1>6. Len(stack') <= MaxStack
  BY <1>5, ValuesAssumption
<1> QED BY <1>3, <1>4, <1>6, SoundEnough

LEMMA PushConstStep ==
  ASSUME IInv, NEW type \in {"digit", "string"}, PushConst(type)
  PROVE  IInv' /\ Quiet
<1>1. Ready /\ Len(stack) < MaxStack /\ MaySet(Ans, stack)
  BY DEF PushConst, Room
<1>2. PushNew(heap, stack, type, {}) /\ UNCHANGED <<errors, status>> /\ type \in Types
  BY DEF PushConst, Types
<1> QED BY <1>1, <1>2, ReadyFacts, ResultPushed, OnlyAns DEF Ready

LEMMA PushIdStep ==
  ASSUME IInv, NEW x \in Vars, PushId(x)
  PROVE  IInv' /\ Quiet
<1> DEFINE v == var[x]
           e == [tag |-> "symbol", type |-> v.type, block |-> v.block]
<1>1. /\ Ready /\ Len(stack) < MaxStack
      /\ var' = var /\ status' = status
  BY DEF PushId, Room
<1>2. /\ Sound(heap, var, stack, {}) /\ stack \in Seq(Eval)
      /\ Len(stack) \in Nat /\ MaxStack \in Nat /\ errors \in BOOLEAN
  BY <1>1, ReadyFacts
<1>3. status' = "ok"
  BY <1>1 DEF Ready
<1>4. v \in Symbol /\ v.type \in Types \cup {"unknown"} /\ v.block \in Blocks \cup {NULL}
  BY <1>2 DEF Sound, Typed, Symbol
<1>5. v.block = NULL <=> v.type \in {"digit", "unknown"}
  BY <1>2 DEF Sound, Shaped
<1>6. CASE /\ errors' = TRUE
           /\ UNCHANGED <<heap, stack>>
  <2>1. Sound(heap', var', stack', {})
    BY <1>1, <1>2, <1>6
  <2> QED BY <1>1, <1>2, <1>3, <1>6, <2>1, SoundEnough, SameQuiet
<1>7. CASE /\ v.type \in Arrays \cup {"digit"}
           /\ stack' = Append(stack, e)
           /\ UNCHANGED <<heap, errors>>
  <2>1. e \in Eval /\ e.type = v.type /\ e.block = v.block /\ e.tag = "symbol"
    BY <1>4, <1>7 DEF Eval, Types
  <2>2. e.block = NULL <=> e.type = "digit"
    BY <1>5, <1>7, <2>1 DEF Arrays
  <2>3. ~Owner(e) /\ \E y \in Vars : var[y].type = e.type /\ var[y].block = e.block
    BY <1>7, <2>1 DEF Owner, Arrays
  <2> HIDE DEF e
  <2>4. Sound(heap, var, Append(stack, e), {})
    BY <1>2, <2>1, <2>2, <2>3, PushPlain
  <2>5. Sound(heap', var', stack', {})
    BY <1>1, <1>7, <2>4
  <2>6. Len(stack') <= MaxStack
    BY <1>1, <1>2, <1>7, <2>1, PushFacts
  <2> QED BY <1>1, <1>2, <1>3, <1>7, <2>5, <2>6, SoundEnough, SameQuiet
<1>8. CASE /\ v.type = "string"
           /\ \E b \in Unused(heap) :
                /\ heap' = [heap EXCEPT ![b] = heap[v.block]]
                /\ stack' = Append(stack, [tag |-> "symbol", type |-> "string", block |-> b])
           /\ UNCHANGED errors
  <2>1. PICK b \in Unused(heap) :
          /\ heap' = [heap EXCEPT ![b] = heap[v.block]]
          /\ stack' = Append(stack, [tag |-> "symbol", type |-> "string", block |-> b])
    BY <1>8
  <2> DEFINE c == [tag |-> "symbol", type |-> "string", block |-> b]
             d == heap[v.block]
  <2>2. b \in Blocks /\ b # NULL
    BY ValuesAssumption DEF Unused
  <2>3. /\ c \in Eval /\ c.type # "digit" /\ c.block = b /\ Owner(c)
    BY <2>2 DEF Eval, Types, Owner
  <2>4. v.block # NULL
    BY <1>5, <1>8
  <2>5. d \in Data \cup {Factors}
    BY <1>2, <1>4, <2>4 DEF Sound, VarsOwn, Typed, Heaps
  <2>6. Update(heap, b, d, heap') /\ stack' = Append(stack, c)
    BY <2>1 DEF Update
  <2> HIDE DEF c, d
  <2>7. Sound(heap', var, stack, {} \cup {b}) /\ Kept(heap, var, heap')
    BY <1>2, <2>5, <2>6, Allocate
  <2>8. Sound(heap', var, Append(stack, c), ({} \cup {b}) \ {c.block})
    BY <2>3, <2>7, PushOwned
  <2>9. ({} \cup {b}) \ {c.block} = {}
    BY <2>3
  <2>10. Sound(heap', var', stack', {})
    BY <1>1, <2>6, <2>8, <2>9
  <2>11. Len(stack') <= MaxStack
    BY <1>1, <1>2, <2>3, <2>6, PushFacts
  <2> QED BY <1>1, <1>2, <1>3, <1>8, <2>7, <2>10, <2>11, SoundEnough, KeptQuiet
<1> QED BY <1>6, <1>7, <1>8 DEF PushId

(* What a handler has that takes the top value off the stack. *)
LEMMA TopTaken ==
  ASSUME IInv, Ready, stack # <<>>
  PROVE  /\ Sound(heap, var, Front(stack), Frees(Last(stack)))
         /\ Last(stack) \in Eval /\ Last(stack) = stack[Len(stack)]
         /\ Last(stack).block = NULL <=> Last(stack).type = "digit"
         /\ Last(stack).type = "digit" => Frees(Last(stack)) = {}
         /\ Front(stack) \in Seq(Eval)
         /\ Len(Front(stack)) = Len(stack) - 1 /\ Len(stack) \in 1..MaxStack
         /\ Len(Front(stack)) < MaxStack /\ Len(Front(stack)) <= MaxStack
<1>1. /\ Sound(heap, var, stack, {}) /\ stack \in Seq(Eval)
      /\ Len(stack) <= MaxStack /\ MaxStack \in Nat
  BY ReadyFacts
<1>2. /\ Len(stack) \in Nat \ {0} /\ Last(stack) \in Eval
      /\ Front(stack) \in Seq(Eval) /\ Len(Front(stack)) = Len(stack) - 1
  BY <1>1, TopFacts
<1>3. Len(stack) \in 1..Len(stack) /\ Last(stack) = stack[Len(stack)]
  BY <1>2 DEF Last
<1>4. Last(stack).block = NULL <=> Last(stack).type = "digit"
  BY <1>1, <1>3 DEF Sound, Shaped
<1>5. Last(stack).type = "digit" => Frees(Last(stack)) = {}
  BY <1>4 DEF Frees, Owns
<1>6. Sound(heap, var, Front(stack), {} \cup Frees(Last(stack)))
  BY <1>1, TakeTop
<1>7. {} \cup Frees(Last(stack)) = Frees(Last(stack))
  OBVIOUS
<1> QED BY <1>1, <1>2, <1>3, <1>4, <1>5, <1>6, <1>7

LEMMA LiteralStep ==
  ASSUME IInv, NEW type \in Arrays, Literal(type)
  PROVE  IInv' /\ Quiet
<1> DEFINE e == Last(stack)
           f == Front(stack)
<1>1. Ready
  BY DEF Literal
<1>2. status = "ok" /\ errors \in BOOLEAN /\ type \in Types
  BY <1>1, ReadyFacts DEF Ready, Types
<1>3. CASE stack = <<>>
  BY <1>3, UndefinedStep DEF Literal
<1>4. ASSUME stack # <<>>
      PROVE  /\ Sound(heap, var, f, Frees(e))
             /\ Len(f) < MaxStack /\ Len(f) <= MaxStack
             /\ e.type = "digit" => Frees(e) = {}
  BY <1>1, <1>4, TopTaken
<1>5. CASE stack # <<>> /\ e.type # "digit"
  <2>1. errors' = TRUE /\ stack' = f /\ heap' = heap /\ var' = var /\ status' = status
    BY <1>5 DEF Literal
  <2>2. Sound(heap, var, f, {})
    BY <1>4, <1>5, Leak
  <2>3. Sound(heap', var', stack', {})
    BY <2>1, <2>2
  <2> QED BY <1>2, <1>4, <1>5, <2>1, <2>3, SoundEnough, SameQuiet
<1>6. CASE stack # <<>> /\ e.type = "digit"
  <2>1. /\ MaySet(Ans, f) /\ PushNew(heap, f, type, {})
        /\ UNCHANGED <<errors, status>>
    BY <1>6 DEF Literal
  <2>2. Sound(heap, var, f, {})
    BY <1>4, <1>6
  <2> QED BY <1>2, <1>4, <1>6, <2>1, <2>2, ResultPushed, OnlyAns
<1> QED BY <1>3, <1>5, <1>6

LEMMA LibCallStep ==
  ASSUME IInv, NEW x \in Ids, NEW type \in Arrays \cup {"digit"}, LibCall(x, type)
  PROVE  IInv' /\ Quiet
<1>1. Ready /\ Len(stack) < MaxStack
  BY DEF LibCall
<1>2. /\ Sound(heap, var, stack, {}) /\ stack \in Seq(Eval) /\ type \in Types
      /\ Len(stack) <= MaxStack /\ errors \in BOOLEAN /\ status = "ok"
  BY <1>1, ReadyFacts DEF Ready, Types
<1>3. CASE ~HandlerOk(x)
  <2>1. errors' = TRUE /\ UNCHANGED <<heap, var, stack, status>>
    BY <1>3 DEF LibCall
  <2>2. Sound(heap', var', stack', {})
    BY <1>2, <2>1
  <2> QED BY <1>2, <2>1, <2>2, SoundEnough, SameQuiet
<1>4. CASE HandlerOk(x)
  <2>1. /\ MaySet(Ans, stack) /\ PushNew(heap, stack, type, {})
        /\ UNCHANGED <<errors, status>>
    BY <1>4 DEF LibCall
  <2> QED BY <1>1, <1>2, <2>1, ResultPushed, OnlyAns
<1> QED BY <1>3, <1>4

(* A division leaves its factors in a variable only if the divisor points to it. *)
DivisorChanged(x) ==
  /\ var'[x] = var[x] /\ heap'[var[x].block] = Factors
  /\ Last(stack).tag = "symbol" /\ Last(stack).block = var[x].block

(* The memory an operation leaves, before its result is stored. *)
DivisorWritten(h, op, b) ==
  /\ op = "div" /\ b.block \in Blocks /\ h[b.block] = Factors
  /\ \A c \in Blocks : c # b.block => h[c] = heap[c]
  /\ \A x \in Vars : var[x].block = b.block => b.tag = "symbol"

LEMMA AfterOpSound ==
  ASSUME IInv, Ready, NEW s, NEW P, Sound(heap, var, s, P),
         NEW i \in 1..Len(stack), NEW b, b = stack[i],
         NEW op, NEW a, NEW t, NEW h \in AfterOp(op, a, b, t)
  PROVE  /\ Sound(h, var, s, P)
         /\ h = heap \/ DivisorWritten(h, op, b)
<1>1. CASE h = heap
  BY <1>1
<1>2. CASE h # heap
  <2>1. op = "div" /\ b.type = "matrix" /\ h = [heap EXCEPT ![b.block] = Factors]
    BY <1>2 DEF AfterOp
  <2>2. b \in Eval /\ Sound(heap, var, stack, {})
    BY ReadyFacts
  <2>3. b.block # NULL
    BY <2>1, <2>2 DEF Sound, Shaped
  <2>4. b.block \in Blocks
    BY <2>2, <2>3 DEF Eval
  <2>5. heap \in Heaps
    BY <2>2 DEF Sound, Typed
  <2>6. h[b.block] = Factors /\ \A c \in Blocks : c # b.block => h[c] = heap[c]
    BY <2>1, <2>4, <2>5 DEF Heaps
  <2>7. Update(heap, b.block, Factors, h)
    BY <2>1 DEF Update
  <2>8. Sound(h, var, s, P)
    BY <2>4, <2>7, Overwrite
  <2>9. Owner(b) => \A x \in Vars : var[x].block # b.block
    BY <2>2 DEF Sound, StackOwns
  <2>10. b.tag # "symbol" => Owner(b)
    BY <2>2, <2>3 DEF Owner, Eval
  <2> QED BY <2>1, <2>4, <2>6, <2>8, <2>9, <2>10 DEF DivisorWritten
<1> QED BY <1>1, <1>2

LEMMA ApplyStep ==
  ASSUME IInv, NEW op \in Ops, Apply(op)
  PROVE  IInv' /\ \A x \in Ids : ValueOf(x)' # ValueOf(x) => op = "div" /\ DivisorChanged(x)
<1> DEFINE n == Len(stack)
           b == Last(stack)
           f == Front(stack)
           a == Last(f)
           rest == Front(f)
           operands == Frees(a) \cup Frees(b)
<1>1. Ready /\ n >= 2 /\ status = "ok"
  BY DEF Apply, Ready
<1>2. stack \in Seq(Eval) /\ n \in Nat /\ errors \in BOOLEAN
  BY <1>1, ReadyFacts
<1>3. stack # <<>>
  BY <1>1, <1>2, EmptySeq
<1>4. /\ Sound(heap, var, f, Frees(b)) /\ b = stack[n] /\ n \in 1..n
      /\ f \in Seq(Eval) /\ Len(f) = n - 1 /\ n \in 1..MaxStack
  BY <1>1, <1>3, TopTaken
<1>5. f # <<>>
  BY <1>1, <1>4, EmptySeq
<1>6. /\ Len(rest) = n - 2 /\ rest \in Seq(Eval)
      /\ Len(rest) < MaxStack /\ Len(rest) <= MaxStack
  <2>1. Len(rest) = Len(f) - 1 /\ rest \in Seq(Eval)
    BY <1>4, <1>5, TopFacts
  <2> QED BY <2>1, <1>1, <1>4, ValuesAssumption
<1>7. Sound(heap, var, rest, operands)
  <2>1. Sound(heap, var, rest, Frees(b) \cup Frees(a))
    BY <1>4, <1>5, TakeTop
  <2>2. operands = Frees(b) \cup Frees(a)
    OBVIOUS
  <2> QED BY <2>1, <2>2
<1>8. CASE Ends("undefined") \/ Ends("exited")
  <2>1. heap' = heap /\ var' = var
    BY <1>8 DEF Ends
  <2> QED BY <1>8, <2>1, EndKeeps, SameQuiet DEF Quiet
<1>9. CASE \E t \in Outcomes(op, a.type, b.type) : \E h \in AfterOp(op, a, b, t) :
             \/ /\ t = "none"
                /\ stack' = rest
                /\ heap' = Freed(h, operands)
                /\ UNCHANGED <<var, errors, status>>
             \/ /\ t \in Types /\ MaySet(Ans, rest)
                /\ PushNew(h, rest, t, operands)
                /\ UNCHANGED <<errors, status>>
  <2>1. PICK t \in Outcomes(op, a.type, b.type) : \E h \in AfterOp(op, a, b, t) :
             \/ /\ t = "none"
                /\ stack' = rest
                /\ heap' = Freed(h, operands)
                /\ UNCHANGED <<var, errors, status>>
             \/ /\ t \in Types /\ MaySet(Ans, rest)
                /\ PushNew(h, rest, t, operands)
                /\ UNCHANGED <<errors, status>>
    BY <1>9
  <2>2. PICK h \in AfterOp(op, a, b, t) :
             \/ /\ t = "none"
                /\ stack' = rest
                /\ heap' = Freed(h, operands)
                /\ UNCHANGED <<var, errors, status>>
             \/ /\ t \in Types /\ MaySet(Ans, rest)
                /\ PushNew(h, rest, t, operands)
                /\ UNCHANGED <<errors, status>>
    BY <2>1
  <2> HIDE DEF n, b, f, a, rest, operands
  <2>3. n \in 1..Len(stack)
    BY <1>4 DEF n
  <2>4. Sound(h, var, rest, operands) /\ (h = heap \/ DivisorWritten(h, op, b))
    BY <1>1, <1>4, <1>7, <2>3, AfterOpSound
  <2>5. IInv' /\ OthersKept(h, var, Ans, heap', var')
    <3>1. CASE /\ t = "none"
               /\ stack' = rest
               /\ heap' = Freed(h, operands)
               /\ UNCHANGED <<var, errors, status>>
      <4>1. operands \in SUBSET operands /\ operands \ operands = {}
        OBVIOUS
      <4>2. Sound(heap', var, rest, operands \ operands) /\ Kept(h, var, heap')
        BY <2>4, <3>1, <4>1, Release
      <4>3. Sound(heap', var', stack', {})
        BY <3>1, <4>1, <4>2
      <4>4. IInv'
        BY <1>1, <1>2, <1>6, <3>1, <4>3, SoundEnough
      <4>5. OthersKept(h, var, Ans, heap', var')
        BY <3>1, <4>2 DEF OthersKept, Kept
      <4> QED BY <4>4, <4>5
    <3>2. CASE /\ t \in Types /\ MaySet(Ans, rest)
               /\ PushNew(h, rest, t, operands)
               /\ UNCHANGED <<errors, status>>
      BY <1>1, <1>2, <1>6, <2>4, <3>2, ResultPushed
    <3> QED BY <2>2, <3>1, <3>2
  <2>6. CASE h = heap
    BY <2>5, <2>6, OnlyAns DEF Quiet
  <2>7. CASE DivisorWritten(h, op, b)
    <3> SUFFICES ASSUME NEW x \in Ids, ValueOf(x)' # ValueOf(x)
                 PROVE  op = "div" /\ DivisorChanged(x)
      BY <2>5
    <3>1. x \in Vars /\ x # Ans
      BY ValuesAssumption DEF Vars
    <3>2. var'[x] = var[x] /\ (var[x].block # NULL => heap'[var[x].block] = h[var[x].block])
      BY <2>5, <3>1 DEF OthersKept
    <3>3. var[x].block \in Blocks \cup {NULL}
      BY <2>4, <3>1 DEF Sound, Typed, Symbol
    <3>4. var[x].block = b.block
      BY <2>7, <3>2, <3>3 DEF ValueOf, Contents, DivisorWritten
    <3>5. b.block # NULL
      BY <2>7, ValuesAssumption DEF DivisorWritten
    <3> QED BY <2>7, <3>1, <3>2, <3>4, <3>5 DEF DivisorChanged, DivisorWritten, b
  <2> QED BY <2>4, <2>6, <2>7
<1> HIDE DEF n
<1>10. QED
  <2> DEFINE good(t, h) ==
               \/ /\ t = "none"
                  /\ stack' = rest
                  /\ heap' = Freed(h, operands)
                  /\ UNCHANGED <<var, errors, status>>
               \/ /\ t \in Types /\ MaySet(Ans, rest)
                  /\ PushNew(h, rest, t, operands)
                  /\ UNCHANGED <<errors, status>>
  <2>1. \/ Undefined
        \/ \E t \in Outcomes(op, a.type, b.type) : \E h \in AfterOp(op, a, b, t) :
             Undefined \/ Ends("exited") \/ good(t, h)
    BY DEF Apply
  <2> HIDE DEF good, b, f, a, rest, operands
  <2>2. \/ Undefined \/ Ends("exited")
        \/ \E t \in Outcomes(op, a.type, b.type) : \E h \in AfterOp(op, a, b, t) : good(t, h)
    BY <2>1
  <2> QED BY <2>2, <1>8, <1>9 DEF Undefined, good, b, f, a, rest, operands

LEMMA ApplyNothingStep ==
  ASSUME IInv, ApplyNothing
  PROVE  IInv' /\ Quiet
<1> DEFINE e == Last(stack)
           f == Front(stack)
<1>1. /\ Ready /\ Len(stack) = 1 /\ heap' = Freed(heap, Frees(e))
      /\ stack' = <<>> /\ var' = var /\ errors' = errors /\ status' = status
  BY DEF ApplyNothing
<1>2. stack # <<>> /\ stack \in Seq(Eval) /\ errors \in BOOLEAN
  BY <1>1, ReadyFacts, EmptySeq
<1>3. /\ Sound(heap, var, f, Frees(e)) /\ f \in Seq(Eval)
      /\ Len(f) = 0 /\ Len(f) <= MaxStack
  BY <1>1, <1>2, TopTaken
<1>4. f = <<>>
  BY <1>3, EmptySeq
<1>5. Sound(heap', var, f, Frees(e) \ Frees(e)) /\ Kept(heap, var, heap')
  BY <1>1, <1>3, Release
<1>6. Sound(heap', var', stack', {})
  BY <1>1, <1>4, <1>5
<1> QED BY <1>1, <1>2, <1>3, <1>4, <1>5, <1>6, SoundEnough, KeptQuiet DEF Ready

(* What an assignment does besides keeping the invariant. *)
Assigned(x) ==
  /\ status' = "ok"
  /\ ValueOf(x)' = <<Last(stack).type, Contents(Last(stack).block)>>

LEMMA AssignStep ==
  ASSUME IInv, NEW x \in Vars, Assign(x)
  PROVE  /\ IInv' /\ (NoAlias => Assigned(x))
         /\ \A y \in Ids : y # x => ValueOf(y)' = ValueOf(y)
<1> DEFINE e == Last(stack)
           f == Front(stack)
<1>1. Ready /\ stack # <<>> /\ MaySet(x, stack)
  BY DEF Assign
<1>2. /\ Sound(heap, var, stack, {}) /\ stack \in Seq(Eval)
      /\ errors \in BOOLEAN /\ status = "ok"
  BY <1>1, ReadyFacts DEF Ready
<1>3. Unpointed(var, x, stack)
  BY <1>1, <1>2, MaySetFree
<1>4. /\ Sound(heap, var, f, Frees(e)) /\ e \in Eval /\ e = stack[Len(stack)]
      /\ e.block = NULL <=> e.type = "digit"
      /\ Len(f) = Len(stack) - 1 /\ Len(stack) \in 1..MaxStack /\ Len(f) <= MaxStack
      /\ \A i \in 1..(Len(stack) - 1) : f[i] = stack[i]
  BY <1>1, <1>2, TopTaken, TopFacts
<1>5. Len(stack) \in 1..Len(stack) /\ \A i \in 1..Len(f) : i \in 1..Len(stack)
  BY <1>4
<1>6. Unpointed(var, x, f)
  BY <1>3, <1>4, <1>5 DEF Unpointed
<1>7. NoAlias /\ e.block # NULL =>
        e.block \in Blocks /\ heap[e.block] # Free /\ e.block # var[x].block
  BY <1>2, <1>3, <1>4, <1>5, CanRead
<1>8. NoAlias => ~ReadsFreed(x, e)
  BY <1>7 DEF ReadsFreed, Freed, Owns
<1>9. CASE ReadsFreed(x, e)
  <2>1. Ends("undefined")
    BY <1>9 DEF Assign, Undefined
  <2>2. heap' = heap /\ var' = var
    BY <2>1 DEF Ends
  <2> QED BY <1>8, <1>9, <2>1, <2>2, EndKeeps, SameQuiet DEF Quiet
<1>10. CASE ~ReadsFreed(x, e)
  <2>1. /\ SetVal(heap, x, e, Frees(e)) /\ stack' = f
        /\ errors' = errors /\ status' = status
    BY <1>10 DEF Assign
  <2>2. Readable(heap, var, x, e)
    BY <1>10 DEF Readable, ReadsFreed
  <2> HIDE DEF e, f
  <2>3. /\ Sound(heap', var', f, Frees(e) \ Frees(e))
        /\ OthersKept(heap, var, x, heap', var')
        /\ Stored(heap, e, x, heap', var')
    BY <1>4, <1>6, <2>1, <2>2, SetValSound
  <2>4. Frees(e) \ Frees(e) = {}
    OBVIOUS
  <2>5. Sound(heap', var', stack', {})
    BY <2>1, <2>3, <2>4
  <2>6. IInv'
    BY <1>2, <1>4, <2>1, <2>5, SoundEnough
  <2>7. Assigned(x)
    BY <1>2, <2>1, <2>3 DEF Assigned, Stored, ValueOf, Contents, e
  <2>8. \A y \in Ids : y # x => ValueOf(y)' = ValueOf(y)
    BY <2>3 DEF OthersKept, ValueOf, Contents, Vars
  <2> QED BY <2>6, <2>7, <2>8
<1> QED BY <1>9, <1>10

(* What is left when k values have been taken off the stack and are forgotten. *)
LEMMA Forgotten ==
  ASSUME IInv, Ready, NEW k \in Nat, k <= Len(stack)
  PROVE  LET rest == SubSeq(stack, 1, Len(stack) - k)
         IN /\ Sound(heap, var, rest, {})
            /\ rest \in Seq(Eval)
            /\ Len(rest) = Len(stack) - k
            /\ Len(rest) <= MaxStack
<1> DEFINE n == Len(stack) - k
           rest == SubSeq(stack, 1, n)
<1>1. /\ Sound(heap, var, stack, {}) /\ stack \in Seq(Eval)
      /\ Len(stack) \in Nat /\ MaxStack \in Nat /\ Len(stack) <= MaxStack
  BY ReadyFacts
<1>2. n \in 0..Len(stack) /\ 1 \in 1..(Len(stack) + 1) /\ n \in (1 - 1)..Len(stack)
  BY <1>1
<1>3. n \in Nat /\ n <= MaxStack
  BY <1>1
<1> HIDE DEF n
<1>4. Sound(heap, var, rest, {})
  BY <1>1, <1>2, Prefix
<1>5. Len(rest) = n
  BY <1>1, <1>2, <1>3, SubSeqProperties
<1> QED BY <1>3, <1>4, <1>5 DEF Sound, Typed, n

LEMMA SetElemStep ==
  ASSUME IInv, NEW x \in Ids, NEW n \in 1..2, SetElem(x, n)
  PROVE  IInv' /\ \A y \in Ids : y # x => ValueOf(y)' = ValueOf(y)
<1> DEFINE e == Last(stack)
           f == Front(stack)
<1>1. Ready /\ var[x].type \in Arrays
  BY DEF SetElem
<1>2. /\ Sound(heap, var, stack, {}) /\ Len(stack) \in Nat
      /\ errors \in BOOLEAN /\ status = "ok"
  BY <1>1, ReadyFacts DEF Ready
<1>3. CASE Undefined
  BY <1>3, UndefinedStep DEF Quiet
<1>4. CASE /\ stack # <<>>
           /\ heap' = Freed(heap, Frees(e))
           /\ stack' = f
           /\ errors' = TRUE
           /\ UNCHANGED <<var, status>>
  <2>1. Sound(heap, var, f, Frees(e)) /\ Len(f) <= MaxStack
    BY <1>1, <1>4, TopTaken
  <2>2. Sound(heap', var, f, Frees(e) \ Frees(e)) /\ Kept(heap, var, heap')
    BY <1>4, <2>1, Release
  <2>3. Sound(heap', var', stack', {})
    BY <1>4, <2>2
  <2>4. Quiet
    BY <1>4, <2>2, KeptQuiet
  <2> QED BY <1>2, <1>4, <2>1, <2>3, <2>4, SoundEnough DEF Quiet
<1>5. ASSUME NEW k \in 2..n+1,
             Len(stack) >= k,
             stack' = SubSeq(stack, 1, Len(stack) - k),
             errors' \in {errors, TRUE},
             heap' = heap \/ \E d \in Data \cup {heap[var[x].block]} :
                               heap' = [heap EXCEPT ![var[x].block] = d],
             UNCHANGED <<var, status>>
      PROVE  IInv' /\ \A y \in Ids : y # x => ValueOf(y)' = ValueOf(y)
  <2>1. k \in Nat /\ k <= Len(stack)
    BY <1>2, <1>5
  <2>2. Sound(heap, var, stack', {}) /\ Len(stack') <= MaxStack
    BY <1>1, <1>5, <2>1, Forgotten
  <2>3. x \in Vars /\ var[x] \in Symbol
    BY <1>2 DEF Vars, Sound, Typed
  <2>4. var[x].block # NULL
    BY <1>1, <1>2, <2>3 DEF Sound, Shaped, Arrays
  <2>5. var[x].block \in Blocks /\ heap[var[x].block] \in Data \cup {Factors} /\ heap \in Heaps
    BY <1>2, <2>3, <2>4 DEF Symbol, Sound, VarsOwn, Typed, Heaps
  <2>6. errors' \in BOOLEAN /\ (heap' = heap \/ \E d \in Data \cup {Factors} :
           heap' = [heap EXCEPT ![var[x].block] = d])
    BY <1>2, <1>5, <2>5
  <2>7. CASE heap' = heap
    <3>1. Sound(heap', var', stack', {})
      BY <1>5, <2>2, <2>7
    <3>2. Quiet
      BY <1>5, <2>7, SameQuiet
    <3> QED BY <1>2, <1>5, <2>2, <2>6, <3>1, <3>2, SoundEnough DEF Quiet
  <2>8. CASE \E d \in Data \cup {Factors} : heap' = [heap EXCEPT ![var[x].block] = d]
    <3>1. PICK d \in Data \cup {Factors} : Update(heap, var[x].block, d, heap')
      BY <2>8 DEF Update
    <3>2. Sound(heap', var, stack', {})
      BY <2>2, <2>5, <3>1, Overwrite
    <3>3. Sound(heap', var', stack', {})
      BY <1>5, <3>2
    <3>4. \A c \in Blocks : c # var[x].block => heap'[c] = heap[c]
      BY <2>5, <3>1 DEF Update, Heaps
    <3>5. \A y \in Vars : y # x /\ var[y].block # NULL => 
             var[y].block # var[x].block /\ var[y].block \in Blocks
      BY <1>2, <2>3 DEF Sound, VarsOwn, Typed, Symbol
    <3>6. \A y \in Ids : y # x => ValueOf(y)' = ValueOf(y)
      BY <1>5, <3>4, <3>5 DEF ValueOf, Contents, Vars
    <3> QED BY <1>2, <1>5, <2>2, <2>6, <3>3, <3>6, SoundEnough
  <2> QED BY <2>6, <2>7, <2>8
<1>6. CASE \E k \in 2..n+1 :
          /\ Len(stack) >= k
          /\ stack' = SubSeq(stack, 1, Len(stack) - k)
          /\ \/ /\ Cardinality(Bad(k)) = 1
                /\ errors' = TRUE
                /\ UNCHANGED heap
             \/ /\ k = n + 1 /\ Bad(k) = {}
                /\ errors' \in {errors, TRUE}
                /\ \E d \in Data \cup {heap[var[x].block]} :
                     heap' = [heap EXCEPT ![var[x].block] = d]
          /\ UNCHANGED <<var, status>>
  BY <1>5, <1>6
<1> QED BY <1>3, <1>4, <1>6 DEF SetElem

(* Access to an element: the indices are forgotten, an element may be pushed. *)
LEMMA IndexStep ==
  ASSUME IInv, NEW x \in Vars, NEW n \in 1..2, Index(x, n)
  PROVE  IInv' /\ Quiet
<1> DEFINE e == Const("digit", NULL)
<1>1. Ready
  BY DEF Index
<1>2. CASE Undefined
  BY <1>2, UndefinedStep
<1>3. ASSUME NEW k \in 1..n, NEW rest, rest = SubSeq(stack, 1, Len(stack) - k),
             Len(stack) >= k, errors' \in BOOLEAN,
             stack' = Append(rest, e) \/ stack' = rest,
             UNCHANGED <<heap, var, status>>
      PROVE  IInv' /\ Quiet
  <2>1. k \in Nat /\ k >= 1 /\ Len(stack) \in Nat /\ k <= Len(stack)
    BY <1>1, <1>3, ReadyFacts
  <2>2. /\ Sound(heap, var, rest, {}) /\ rest \in Seq(Eval)
        /\ Len(rest) = Len(stack) - k /\ Len(rest) <= MaxStack
    BY <1>1, <1>3, <2>1, Forgotten
  <2>3. Len(rest) + 1 <= MaxStack
    BY <1>1, <2>1, <2>2, ReadyFacts
  <2>4. /\ e \in Eval /\ e.block = NULL /\ e.type = "digit"
        /\ ~Owner(e) /\ ~Alias(e)
    BY DEF Const, Eval, Types, Owner, Alias
  <2> HIDE DEF e
  <2>5. Sound(heap, var, Append(rest, e), {})
    BY <2>2, <2>4, PushPlain
  <2>6. Len(Append(rest, e)) = Len(rest) + 1
    BY <2>2, <2>4, PushFacts
  <2>7. Sound(heap', var', stack', {})
    BY <1>3, <2>2, <2>5
  <2>8. Len(stack') <= MaxStack
    BY <1>3, <2>2, <2>3, <2>6
  <2>9. status' = "ok" /\ heap' = heap /\ var' = var
    BY <1>1, <1>3 DEF Ready
  <2> QED BY <1>3, <2>7, <2>8, <2>9, SoundEnough, SameQuiet
<1>4. errors \in BOOLEAN
  BY <1>1, ReadyFacts
<1>5. CASE \E k \in 1..n :
          LET rest == SubSeq(stack, 1, Len(stack) - k)
              fits == var[x].type \in Arrays /\ Dimensions[var[x].type] = n
          IN /\ Len(stack) >= k
             /\ k < n => Bad(k) # {}
             /\ errors' = (errors \/ Bad(k) # {} \/ ~fits)
             /\ stack' = IF fits THEN Append(rest, Const("digit", NULL)) ELSE rest
             /\ UNCHANGED <<heap, var, status>>
  <2>1. PICK k \in 1..n :
          /\ Len(stack) >= k
          /\ errors' \in BOOLEAN
          /\ \/ stack' = Append(SubSeq(stack, 1, Len(stack) - k), e)
             \/ stack' = SubSeq(stack, 1, Len(stack) - k)
          /\ UNCHANGED <<heap, var, status>>
    BY <1>4, <1>5
  <2> HIDE DEF e
  <2> QED BY <1>3, <2>1
<1> QED BY <1>2, <1>5 DEF Index

LEMMA PrintResultStep ==
  ASSUME IInv, PrintResult
  PROVE  IInv' /\ Quiet
<1> DEFINE e == Last(stack)
           f == Front(stack)
<1> DEFINE freed == ~errors /\ e.block # NULL /\ heap[e.block] = Free
<1>0. CASE freed
  BY <1>0, UndefinedStep DEF PrintResult
<1> SUFFICES ASSUME ~freed PROVE IInv' /\ Quiet
  BY <1>0
<1>1. /\ Ready /\ errors' = FALSE /\ (errors \/ stack # <<>>)
      /\ var' = var /\ status' = status
  BY DEF PrintResult
<1>2. /\ Sound(heap, var, stack, {}) /\ MaxStack \in Nat
      /\ errors \in BOOLEAN /\ status = "ok"
  BY <1>1, ReadyFacts DEF Ready
<1>3. CASE errors
  <2>1. heap' = Freed(heap, FreesEach(stack)) /\ stack' = <<>>
    BY <1>3 DEF PrintResult
  <2> DEFINE Q == FreesEach(stack)
  <2>2. Sound(heap, var, <<>>, Q)
    BY <1>2, TakeAll
  <2>3. heap' = Freed(heap, Q)
    BY <2>1
  <2> HIDE DEF Q
  <2>4. Sound(heap', var, <<>>, Q \ Q) /\ Kept(heap, var, heap')
    BY <2>2, <2>3, Release
  <2>5. Sound(heap', var', stack', {})
    BY <1>1, <2>1, <2>4
  <2>6. Len(stack') <= MaxStack
    BY <1>2, <2>1, EmptySeq
  <2> QED BY <1>1, <1>2, <2>4, <2>5, <2>6, SoundEnough, KeptQuiet
<1>4. CASE ~errors
  <2>1. heap' = Freed(heap, Frees(e)) /\ stack' = f /\ stack # <<>>
    BY <1>1, <1>4 DEF PrintResult
  <2>2. Sound(heap, var, f, Frees(e)) /\ Len(f) <= MaxStack
    BY <1>1, <2>1, TopTaken
  <2>3. Sound(heap', var, f, Frees(e) \ Frees(e)) /\ Kept(heap, var, heap')
    BY <2>1, <2>2, Release
  <2>4. Sound(heap', var', stack', {})
    BY <1>1, <2>1, <2>3
  <2> QED BY <1>1, <1>2, <2>1, <2>2, <2>3, <2>4, SoundEnough, KeptQuiet
<1> QED BY <1>2, <1>3, <1>4

(* The variables of a function are destroyed, the others keep what they have. *)
LEMMA DestroyTableStep ==
  ASSUME IInv, NEW S \in SUBSET Locals, DestroyTable(S)
  PROVE  IInv' /\ \A y \in Ids : y \notin S => ValueOf(y)' = ValueOf(y)
<1> DEFINE U == UNION {Owns(var[x]) : x \in S}
<1>1. /\ Ready /\ \A x \in S : MaySet(x, stack)
      /\ heap' = Freed(heap, U)
      /\ var' = [x \in Vars |-> IF x \in S THEN [type |-> "unknown", block |-> NULL]
                                ELSE var[x]]
      /\ stack' = stack /\ errors' = errors /\ status' = status
  BY DEF DestroyTable
<1>2. /\ Sound(heap, var, stack, {}) /\ stack \in Seq(Eval) /\ Len(stack) <= MaxStack
      /\ errors \in BOOLEAN /\ status = "ok"
      /\ \A i \in 1..Len(stack) : stack[i] \in Eval
  BY <1>1, ReadyFacts DEF Ready
<1>3. S \subseteq Vars
  BY ValuesAssumption DEF Vars
<1>4. \A b \in U : \E x \in S : b = var[x].block /\ b # NULL
  BY DEF Owns
<1> HIDE DEF U
<1>5. heap' \in Heaps /\ \A b \in Blocks : heap'[b] = IF b \in U THEN Free ELSE heap[b]
  BY <1>1, <1>2 DEF Freed, Sound, Typed, Heaps
<1>6. /\ var' \in [Vars -> Symbol]
      /\ \A x \in S : var'[x].type = "unknown" /\ var'[x].block = NULL
      /\ \A y \in Vars : y \notin S => var'[y] = var[y]
  BY <1>1, <1>2, <1>3 DEF Sound, Typed, Symbol
<1>7. \A y \in Vars : y \notin S /\ var[y].block # NULL =>
        heap'[var[y].block] = heap[var[y].block]
  <2> SUFFICES ASSUME NEW y \in Vars, y \notin S, var[y].block # NULL
               PROVE  heap'[var[y].block] = heap[var[y].block]
    OBVIOUS
  <2>1. var[y].block \in Blocks
    BY <1>2 DEF Sound, Typed, Symbol
  <2>2. \A x \in Vars : var[x].block = var[y].block => x = y
    BY <1>2 DEF Sound, VarsOwn
  <2>3. var[y].block \notin U
    BY <1>3, <1>4, <2>2
  <2> QED BY <1>5, <2>1, <2>3
<1>8. Typed(heap', var', stack, {})
  BY <1>2, <1>5, <1>6 DEF Sound, Typed
<1>9. Shaped(var', stack)
  BY <1>2, <1>6 DEF Sound, Shaped
<1>10. VarsOwn(heap', var', {})
  <2>1. \A x \in Vars : var'[x].block # NULL => x \notin S /\ var'[x] = var[x]
    BY <1>6
  <2>2. \A x \in Vars : var'[x].block # NULL =>
          heap'[var'[x].block] # Free /\ var'[x].block \notin {}
    BY <1>2, <1>7, <2>1 DEF Sound, VarsOwn
  <2>3. \A x, y \in Vars : var'[x].block # NULL /\ var'[x].block = var'[y].block => x = y
    <3> SUFFICES ASSUME NEW x \in Vars, NEW y \in Vars, var'[x].block # NULL,
                        var'[x].block = var'[y].block
                 PROVE  x = y
      OBVIOUS
    <3>1. var'[x] = var[x] /\ var'[y] = var[y]
      BY <2>1
    <3> QED BY <1>2, <3>1 DEF Sound, VarsOwn
  <2> QED BY <2>2, <2>3 DEF VarsOwn
<1>11. StackOwns(heap', var', stack, {})
  <2>1. \A i \in 1..Len(stack) : Owner(stack[i]) =>
          /\ heap[stack[i].block] # Free
          /\ stack[i].block \in Blocks
          /\ \A x \in Vars : var[x].block # stack[i].block
    BY <1>2 DEF Sound, StackOwns, Owner, Eval
  <2>2. \A i \in 1..Len(stack) : Owner(stack[i]) => stack[i].block \notin U
    BY <1>3, <1>4, <2>1
  <2>3. \A i \in 1..Len(stack) : Owner(stack[i]) =>
          /\ heap'[stack[i].block] # Free
          /\ stack[i].block \notin {}
    BY <1>5, <2>1, <2>2
  <2>4. \A i \in 1..Len(stack) : Owner(stack[i]) =>
          \A x \in Vars : var'[x].block # stack[i].block
    BY <1>6, <2>1 DEF Owner
  <2>5. \A i, j \in 1..Len(stack) :
          Owner(stack[i]) /\ Owner(stack[j]) /\ stack[i].block = stack[j].block => i = j
    BY <1>2 DEF Sound, StackOwns
  <2> QED BY <2>3, <2>4, <2>5 DEF StackOwns
<1>12. NoAlias => Pointing(var', stack)
  <2> SUFFICES ASSUME NoAlias, NEW i \in 1..Len(stack), Alias(stack[i])
               PROVE  \E y \in Vars : /\ var'[y].type = stack[i].type
                                      /\ var'[y].block = stack[i].block
    BY DEF Pointing
  <2>1. PICK y \in Vars : var[y].type = stack[i].type /\ var[y].block = stack[i].block
    BY <1>2 DEF Sound, Pointing
  <2>2. \A x \in S : Unpointed(var, x, stack)
    BY <1>1, <1>2, MaySetFree
  <2>3. y \notin S
    BY <2>1, <2>2 DEF Alias, Unpointed
  <2> QED BY <1>6, <2>1, <2>3
<1>13. Held(heap', {})
  BY DEF Held
<1>14. Sound(heap', var', stack, {})
  BY <1>8, <1>9, <1>10, <1>11, <1>12, <1>13 DEF Sound
<1>15. IInv'
  <2>1. Sound(heap', var', stack', {}) /\ Len(stack') <= MaxStack
    BY <1>1, <1>2, <1>14
  <2>2. errors' \in BOOLEAN /\ status' = "ok"
    BY <1>1, <1>2
  <2> QED BY <2>1, <2>2, SoundEnough
<1>16. \A y \in Ids : y \notin S => ValueOf(y)' = ValueOf(y)
  BY <1>6, <1>7 DEF ValueOf, Contents, Vars
<1> QED BY <1>15, <1>16

-----------------------------------------------------------------------------
LEMMA InitOK == ASSUME Init PROVE IInv
<1>1. PICK b \in Blocks, d \in Data :
        /\ heap = [c \in Blocks |-> IF c = b THEN d ELSE Free]
        /\ var = [x \in Vars |-> IF x = Ans THEN [type |-> "string", block |-> b]
                                 ELSE [type |-> "unknown", block |-> NULL]]
  BY DEF Init
<1>2. stack = <<>> /\ errors = FALSE /\ status = "ok"
  BY DEF Init
<1>3. /\ stack \in Seq(Eval) /\ Len(stack) = 0 /\ 1..Len(stack) = {}
      /\ DOMAIN stack = {} /\ Len(stack) <= MaxStack
  BY <1>2, EmptySeq, LenProperties, ValuesAssumption
<1>4. heap \in Heaps /\ heap[b] = d /\ d # Free /\ b # NULL
  BY <1>1, ValuesAssumption DEF Heaps
<1>5. /\ var \in [Vars -> Symbol]
      /\ var[Ans].type = "string" /\ var[Ans].block = b
      /\ \A x \in Vars : x # Ans => var[x].type = "unknown" /\ var[x].block = NULL
  BY <1>1 DEF Vars, Symbol, Types
<1>6. Typed(heap, var, stack, {})
  BY <1>3, <1>4, <1>5 DEF Typed
<1>7. Shaped(var, stack)
  <2>1. \A x \in Vars : var[x].block = NULL <=> var[x].type \in {"digit", "unknown"}
    BY <1>4, <1>5
  <2> QED BY <1>3, <2>1 DEF Shaped
<1>8. VarsOwn(heap, var, {})
  BY <1>4, <1>5 DEF VarsOwn
<1>9. StackOwns(heap, var, stack, {}) /\ Pointing(var, stack) /\ Held(heap, {})
  BY <1>3 DEF StackOwns, Pointing, Held
<1>10. Sound(heap, var, stack, {})
  BY <1>6, <1>7, <1>8, <1>9 DEF Sound
<1> QED BY <1>2, <1>3, <1>4, <1>5, <1>10 DEF IInv, TypeOK, Heaps

(* What a step does to the variables of the program. *)
Changes ==
  /\ NoAlias => \A x \in Vars : Assign(x) => Assigned(x)
  /\ \A x \in Ids : ValueOf(x)' # ValueOf(x) =>
       \/ Assign(x) \/ \E n \in 1..2 : SetElem(x, n)
       \/ \E S \in SUBSET Locals : x \in S /\ DestroyTable(S)
       \/ Apply("div") /\ DivisorChanged(x)

LEMMA NextOK == ASSUME IInv, [Next]_vars
                PROVE  IInv' /\ Changes
<1>1. NoAlias => \A x \in Vars : Assign(x) => Assigned(x)
  BY AssignStep
<1> DEFINE Right == IInv' /\ \A x \in Ids : ValueOf(x)' # ValueOf(x) =>
                      \/ Assign(x) \/ \E n \in 1..2 : SetElem(x, n)
                      \/ \E S \in SUBSET Locals : x \in S /\ DestroyTable(S)
                      \/ Apply("div") /\ DivisorChanged(x)
<1>2. Quiet /\ IInv' => Right
  BY DEF Quiet
<1>3. ASSUME UNCHANGED vars PROVE Right
  <2>1. /\ heap' = heap /\ var' = var /\ stack' = stack
        /\ errors' = errors /\ status' = status
    BY <1>3 DEF vars
  <2>2. Sound(heap, var, stack, {}) => Sound(heap', var', stack', {})
    BY <2>1
  <2>3. IInv'
    BY <2>1, <2>2 DEF IInv, TypeOK
  <2> QED BY <1>2, <2>1, <2>3, SameQuiet
<1>4. ASSUME NEW type \in {"digit", "string"}, PushConst(type) PROVE Right
  BY <1>2, <1>4, PushConstStep
<1>5. ASSUME NEW type \in Arrays, Literal(type) PROVE Right
  BY <1>2, <1>5, LiteralStep
<1>6. ASSUME NEW op \in Ops, Apply(op) PROVE Right
  BY <1>6, ApplyStep
<1>7. ASSUME ApplyNothing PROVE Right
  BY <1>2, <1>7, ApplyNothingStep
<1>8. ASSUME PrintResult PROVE Right
  BY <1>2, <1>8, PrintResultStep
<1>9. ASSUME NEW x \in Ids, NEW type \in Arrays \cup {"digit"}, LibCall(x, type) PROVE Right
  BY <1>2, <1>9, LibCallStep
<1>10. ASSUME NEW x \in Ids, NEW n \in 1..2, SetElem(x, n) PROVE Right
  BY <1>10, SetElemStep
<1>11. ASSUME NEW x \in Vars, PushId(x) PROVE Right
  BY <1>2, <1>11, PushIdStep
<1>12. ASSUME NEW x \in Vars, Assign(x) PROVE Right
  BY <1>12, AssignStep
<1>13. ASSUME NEW x \in Vars, NEW n \in 1..2, Index(x, n) PROVE Right
  BY <1>2, <1>13, IndexStep
<1>14. ASSUME NEW S \in SUBSET Locals, DestroyTable(S) PROVE Right
  BY <1>14, DestroyTableStep
<1>15. Right
  <2> HIDE DEF Right
  <2> QED BY <1>3, <1>4, <1>5, <1>6, <1>7, <1>8, <1>9, <1>10, <1>11, <1>12, <1>13,
             <1>14 DEF Next
<1> QED BY <1>1, <1>15 DEF Changes

(* Soundness is an invariant: IInv holds in every reachable state
   (symbol_set_val, eval_free, traverse_id). *)
THEOREM Invariance == Spec => []IInv
<1>1. Init => IInv
  BY InitOK
<1>2. IInv /\ [Next]_vars => IInv'
  BY NextOK
<1> QED BY <1>1, <1>2, PTL DEF Spec

(* Values and variables have the types of struct eval and struct symbol. *)
THEOREM TypeCorrect == Spec => []TypeOK
<1>1. IInv => TypeOK
  BY DEF IInv
<1> QED BY <1>1, Invariance, PTL

LEMMA SoundUnique == ASSUME IInv PROVE UniqueOwner
<1> SUFFICES ASSUME status = "ok"
             PROVE  /\ \A o \in Holders : heap[BlockOf(o)] # Free
                    /\ \A o, p \in Holders : BlockOf(o) = BlockOf(p) => o = p
  BY DEF UniqueOwner
<1>1. Sound(heap, var, stack, {}) /\ DOMAIN stack = 1..Len(stack)
  BY LenProperties DEF IInv, Sound, Typed
<1>2. \A o \in Holders :
        \/ /\ o = <<"variable", o[2]>> /\ o[2] \in Vars
           /\ var[o[2]].block # NULL /\ BlockOf(o) = var[o[2]].block
        \/ /\ o = <<"eval", o[2]>> /\ o[2] \in 1..Len(stack)
           /\ Owner(stack[o[2]]) /\ BlockOf(o) = stack[o[2]].block
  BY <1>1 DEF Holders, BlockOf, Owner
<1>3. \A o \in Holders : heap[BlockOf(o)] # Free
  BY <1>1, <1>2 DEF Sound, VarsOwn, StackOwns
<1>4. ASSUME NEW o \in Holders, NEW p \in Holders, BlockOf(o) = BlockOf(p)
      PROVE  o = p
  <2>1. \A x, y \in Vars : var[x].block # NULL /\ var[x].block = var[y].block => x = y
    BY <1>1 DEF Sound, VarsOwn
  <2>2. \A i \in 1..Len(stack) : Owner(stack[i]) =>
          \A x \in Vars : var[x].block # stack[i].block
    BY <1>1 DEF Sound, StackOwns
  <2>3. \A i, j \in 1..Len(stack) :
          Owner(stack[i]) /\ Owner(stack[j]) /\ stack[i].block = stack[j].block => i = j
    BY <1>1 DEF Sound, StackOwns
  <2> QED BY <1>2, <1>4, <2>1, <2>2, <2>3
<1> QED BY <1>3, <1>4

(* Every block that somebody will free is allocated and has one owner: nothing is
   freed twice (symbol_clean_val, eval_free). *)
THEOREM OneOwner == Spec => []UniqueOwner
<1>1. IInv => UniqueOwner
  BY SoundUnique
<1> QED BY <1>1, Invariance, PTL

LEMMA SoundPointers == ASSUME NoAlias, IInv PROVE AliasesValid
<1> SUFFICES ASSUME status = "ok", NEW i \in DOMAIN stack,
                    stack[i].tag = "symbol", stack[i].type \in Arrays
             PROVE  /\ heap[stack[i].block] # Free
                    /\ \E x \in Vars : var[x] = [type |-> stack[i].type,
                                                 block |-> stack[i].block]
  BY DEF AliasesValid
<1>1. Sound(heap, var, stack, {}) /\ i \in 1..Len(stack)
  BY LenProperties DEF IInv, Sound, Typed
<1>2. PICK x \in Vars : var[x].type = stack[i].type /\ var[x].block = stack[i].block
  BY <1>1 DEF Sound, Pointing, Alias
<1>3. var[x] \in Symbol
  BY <1>1 DEF Sound, Typed
<1>4. var[x] = [type |-> stack[i].type, block |-> stack[i].block]
  BY <1>2, <1>3 DEF Symbol
<1>5. var[x].block # NULL
  BY <1>1, <1>2 DEF Sound, Shaped, Arrays
<1>6. heap[stack[i].block] # Free
  BY <1>1, <1>2, <1>5 DEF Sound, VarsOwn
<1> QED BY <1>4, <1>6

(* No value that waits on the stack points to memory that has been freed, or to a
   value its variable no longer has (traverse_id, traverse_op). *)
THEOREM NoDangling == ASSUME NoAlias PROVE Spec => []AliasesValid
<1>1. IInv => AliasesValid
  BY SoundPointers
<1> QED BY <1>1, Invariance, PTL

(* An assignment stores the value, which has not been freed before it is copied
   (traverse_assign, symbol_set_val). *)
THEOREM AssignmentStores == ASSUME NoAlias PROVE Spec => AssignStores
<1>1. IInv /\ [Next]_vars => [\A x \in Vars : Assign(x) =>
        /\ status' = "ok"
        /\ ValueOf(x)' = <<Last(stack).type, Contents(Last(stack).block)>>]_vars
  BY NextOK DEF Changes, Assigned
<1> QED BY <1>1, Invariance, PTL DEF Spec, AssignStores

(* A variable keeps its value in every step that is not an assignment to it, to an
   element of it, a new definition of its function, or a division by it (traverse_op, eval_mult_op). *)
THEOREM OthersUntouched == Spec => OnlyAssignedChange
<1>1. IInv /\ [Next]_vars => [\A x \in Ids : ValueOf(x)' # ValueOf(x) =>
        \/ Assign(x) \/ \E n \in 1..2 : SetElem(x, n)
        \/ \E S \in SUBSET Locals : x \in S /\ DestroyTable(S)
        \/ /\ Apply("div") /\ var'[x] = var[x] /\ heap'[var[x].block] = Factors
           /\ Last(stack).tag = "symbol" /\ Last(stack).block = var[x].block]_vars
  BY NextOK DEF Changes, DivisorChanged
<1> QED BY <1>1, Invariance, PTL DEF Spec, OnlyAssignedChange

==============================================================================
