----------------------------- MODULE CallsProofs -----------------------------
(* Proofs about module Calls, for every set of functions, tables and
   identifiers and without the bounds of the model-checked instances: as long as
   no function is called while it is active, the scope chain is the stack of
   the definitions or calls in progress, and no table on it has been freed. *)
EXTENDS Calls, SequenceTheorems, TLAPS

(* What the bodies of programs must not do; CallsRecursive.cfg shows why. *)
NoRecursion == "recursion" \notin Uses

-----------------------------------------------------------------------------
(* The inductive invariant.  ChainIsContexts and TablesLive are not inductive:
   whether a table that is set or freed may lie on the chain depends on which
   functions are complete, being defined and being called. *)

(* While a header is read nothing is executed, and its name has no function. *)
HeaderOK == hdr # NULL => frames = <<>> /\ ~errors /\ ~Defined(hdr.fn)

(* An error that is still pending has occurred in the body of a function. *)
ErrorInBody == errors => defs # <<>>

(* A call in progress uses the scope of its function, which no other call in
   progress does, and its table leads to the table of its caller. *)
CallsOK ==
  /\ \A i \in DOMAIN frames :
       /\ Defined(frames[i].fn)
       /\ funs[frames[i].fn].scope = frames[i].table
       /\ frames[i].from = prev[frames[i].table]
  /\ \A i, j \in DOMAIN frames : frames[i].fn = frames[j].fn => i = j

(* The functions without a scope are those being defined, one definition each;
   a definition that has lost its function does not count. *)
DefsOK ==
  /\ \A i \in DOMAIN defs : ~defs[i].lost =>
       Defined(defs[i].fn) /\ funs[defs[i].fn].scope = NULL
  /\ \A i, j \in DOMAIN defs :
       ~defs[i].lost /\ ~defs[j].lost /\ defs[i].fn = defs[j].fn => i = j
  /\ \A f \in Funs : Defined(f) /\ funs[f].scope = NULL =>
       \E i \in DOMAIN defs : ~defs[i].lost /\ defs[i].fn = f

IInv ==
  /\ TypeOK
  /\ ChainIsContexts
  /\ TablesLive
  /\ HeaderOK
  /\ ErrorInBody
  /\ CallsOK
  /\ DefsOK

-----------------------------------------------------------------------------
(* Sequences.  What Front leaves of a non-empty sequence. *)
LEMMA FrontProperties ==
  ASSUME NEW S, NEW s \in Seq(S), s # <<>>
  PROVE  /\ Front(s) \in Seq(S)
         /\ Len(s) \in Nat \ {0}
         /\ Last(s) \in S
         /\ Len(Front(s)) = Len(s) - 1
         /\ DOMAIN s = 1..Len(s)
         /\ DOMAIN Front(s) = 1..(Len(s) - 1)
         /\ \A i \in 1..(Len(s) - 1) : Front(s)[i] = s[i]
<1>1. Len(s) \in Nat \ {0} /\ DOMAIN s = 1..Len(s) /\ \A i \in 1..Len(s) : s[i] \in S
  BY EmptySeq, LenProperties, ElementOfSeq
<1>2. /\ Front(s) \in Seq(S)
      /\ Len(Front(s)) = Len(s) - 1
      /\ \A i \in 1..(Len(s) - 1) : Front(s)[i] = s[i]
  BY <1>1, SubSeqProperties DEF Front
<1>3. DOMAIN Front(s) = 1..(Len(s) - 1)
  BY <1>2, LenProperties
<1> QED BY <1>1, <1>2, <1>3 DEF Last

(* What Append adds to a sequence. *)
LEMMA AppendDomain ==
  ASSUME NEW S, NEW s \in Seq(S), NEW d \in S
  PROVE  /\ Append(s, d) \in Seq(S)
         /\ Append(s, d) # <<>>
         /\ Len(s) \in Nat
         /\ (s = <<>>) <=> (Len(s) = 0)
         /\ Len(Append(s, d)) = Len(s) + 1
         /\ DOMAIN s = 1..Len(s)
         /\ DOMAIN Append(s, d) = 1..(Len(s) + 1)
         /\ \A i \in 1..Len(s) : Append(s, d)[i] = s[i]
         /\ Append(s, d)[Len(s) + 1] = d
<1>1. Append(s, d) \in Seq(S) /\ Len(Append(s, d)) = Len(s) + 1
  BY AppendProperties
<1>2. DOMAIN Append(s, d) = 1..(Len(s) + 1)
  BY <1>1, LenProperties
<1>3. (s = <<>>) <=> (Len(s) = 0)
  BY EmptySeq
<1> QED BY <1>1, <1>2, <1>3, AppendProperties, LenProperties

-----------------------------------------------------------------------------
(* The two ways in which a chain changes. *)

(* Linking a table that is not on the chain in front of it gives the chain of
   the stack with one more context (symbol_table_push, symbol_table_set_scope). *)
LEMMA ChainPush ==
  ASSUME NEW S, NEW stack \in Seq(S), NEW d \in S, NEW newest, NEW A, NEW B,
         NEW link \in [A -> B],
         \A i \in DOMAIN stack : stack[i].table \in A,
         d.table \in A,
         \A i \in DOMAIN stack : stack[i].table # d.table,
         IsChain(newest, link, stack)
  PROVE  IsChain(d.table, [link EXCEPT ![d.table] = newest], Append(stack, d))
<1> DEFINE new == Append(stack, d)
           lk == [link EXCEPT ![d.table] = newest]
<1>1. /\ new # <<>>
      /\ Len(stack) \in Nat
      /\ (stack = <<>>) <=> (Len(stack) = 0)
      /\ Len(new) = Len(stack) + 1
      /\ DOMAIN stack = 1..Len(stack)
      /\ DOMAIN new = 1..(Len(stack) + 1)
      /\ \A i \in 1..Len(stack) : new[i] = stack[i]
      /\ new[Len(stack) + 1] = d
  BY AppendDomain
<1>2. newest = IF Len(stack) = 0 THEN Global ELSE stack[Len(stack)].table
  BY <1>1 DEF IsChain, Last
<1>3. /\ lk[d.table] = newest
      /\ \A i \in 1..Len(stack) :
           lk[stack[i].table] = IF i = 1 THEN Global ELSE stack[i - 1].table
  BY <1>1 DEF IsChain
<1> HIDE DEF new, lk
<1>4. \A i \in DOMAIN new :
        lk[new[i].table] = IF i = 1 THEN Global ELSE new[i - 1].table
  <2> SUFFICES ASSUME NEW i \in DOMAIN new
               PROVE  lk[new[i].table] = IF i = 1 THEN Global ELSE new[i - 1].table
    OBVIOUS
  <2>1. CASE i \in 1..Len(stack)
    <3>1. i = 1 \/ (i - 1) \in 1..Len(stack)
      BY <2>1, <1>1
    <3> QED BY <2>1, <3>1, <1>1, <1>3
  <2>2. CASE i = Len(stack) + 1
    <3>1. Len(stack) = 0 \/ Len(stack) \in 1..Len(stack)
      BY <1>1
    <3> QED BY <2>2, <3>1, <1>1, <1>2, <1>3
  <2> QED BY <2>1, <2>2, <1>1
<1>5. \A i, j \in DOMAIN new : new[i].table = new[j].table => i = j
  BY <1>1 DEF IsChain
<1>6. d.table = IF new = <<>> THEN Global ELSE Last(new).table
  BY <1>1 DEF Last
<1>7. IsChain(d.table, lk, new)
  BY <1>4, <1>5, <1>6 DEF IsChain
<1> QED BY <1>7 DEF new, lk

(* Following the link of the newest table gives the chain of the stack without
   its last context (symbol_table_pop). *)
LEMMA ChainPop ==
  ASSUME NEW S, NEW stack \in Seq(S), stack # <<>>, NEW newest, NEW link, NEW other,
         \A i \in DOMAIN Front(stack) : other[stack[i].table] = link[stack[i].table],
         IsChain(newest, link, stack)
  PROVE  IsChain(link[newest], other, Front(stack))
<1> DEFINE rest == Front(stack)
<1>1. /\ rest \in Seq(S)
      /\ Len(stack) \in Nat \ {0}
      /\ DOMAIN stack = 1..Len(stack)
      /\ Len(rest) = Len(stack) - 1
      /\ DOMAIN rest = 1..(Len(stack) - 1)
      /\ \A i \in 1..(Len(stack) - 1) : rest[i] = stack[i]
  BY FrontProperties
<1>2. rest = <<>> <=> Len(stack) = 1
  <2>1. rest = <<>> => Len(rest) = 0
    BY EmptySeq
  <2>2. rest # <<>> => Len(rest) # 0
    BY <1>1, EmptySeq
  <2> QED BY <1>1, <2>1, <2>2
<1>3. \A i \in 1..(Len(stack) - 1) : other[rest[i].table] = link[rest[i].table]
  BY <1>1
<1> HIDE DEF rest
<1>4. link[newest] = IF rest = <<>> THEN Global ELSE Last(rest).table
  <2>1. newest = stack[Len(stack)].table
    BY DEF IsChain, Last
  <2>2. link[newest] = IF Len(stack) = 1 THEN Global ELSE stack[Len(stack) - 1].table
    BY <1>1, <2>1 DEF IsChain
  <2>3. Len(stack) = 1 \/ (Len(stack) - 1) \in 1..(Len(stack) - 1)
    BY <1>1
  <2> QED BY <1>1, <1>2, <2>2, <2>3 DEF Last
<1>5. \A i \in DOMAIN rest :
        other[rest[i].table] = IF i = 1 THEN Global ELSE rest[i - 1].table
  <2> SUFFICES ASSUME NEW i \in 1..(Len(stack) - 1)
               PROVE  other[rest[i].table] = IF i = 1 THEN Global ELSE rest[i - 1].table
    BY <1>1
  <2>1. i = 1 \/ (i - 1) \in 1..(Len(stack) - 1)
    BY <1>1
  <2>2. other[rest[i].table] = IF i = 1 THEN Global ELSE stack[i - 1].table
    BY <1>1, <1>3 DEF IsChain
  <2> QED BY <1>1, <2>1, <2>2
<1>6. \A i, j \in DOMAIN rest : rest[i].table = rest[j].table => i = j
  BY <1>1 DEF IsChain
<1>7. IsChain(link[newest], other, rest)
  BY <1>4, <1>5, <1>6 DEF IsChain
<1> QED BY <1>7 DEF rest

-----------------------------------------------------------------------------
(* The initial state: no function, nothing in progress, the global table. *)
LEMMA InitInv == Init => IInv
<1> SUFFICES ASSUME Init PROVE IInv
  OBVIOUS
<1> USE DEF Init, CreateGlobal
<1>1. TypeOK
  <2>1. <<>> \in Seq(Definition) /\ <<>> \in Seq(Frame)
    BY EmptySeq
  <2> QED BY <2>1 DEF TypeOK, ScopesTypeOK, AllTables
<1>2. ChainIsContexts
  BY DEF ChainIsContexts, IsChain, AllTables
<1>3. TablesLive
  BY DEF TablesLive, Defined
<1>4. HeaderOK /\ ErrorInBody /\ CallsOK /\ DefsOK
  BY DEF HeaderOK, ErrorInBody, CallsOK, DefsOK, Defined
<1> QED BY <1>1, <1>2, <1>3, <1>4 DEF IInv

(* What the types say about the elements of the stacks. *)
LEMMA StackTypes ==
  ASSUME TypeOK
  PROVE  /\ DOMAIN defs = 1..Len(defs) /\ Len(defs) \in Nat
         /\ DOMAIN frames = 1..Len(frames) /\ Len(frames) \in Nat
         /\ \A i \in DOMAIN defs : /\ defs[i] \in Definition
                                   /\ defs[i].table \in Tables
                                   /\ defs[i].fn \in Funs
         /\ \A i \in DOMAIN frames : /\ frames[i] \in Frame
                                     /\ frames[i].table \in Tables
                                     /\ frames[i].fn \in Funs
<1>1. defs \in Seq(Definition) /\ frames \in Seq(Frame)
  BY DEF TypeOK
<1>2. /\ \A i \in DOMAIN defs : defs[i] \in Definition
      /\ \A i \in DOMAIN frames : frames[i] \in Frame
  BY <1>1, LenProperties, ElementOfSeq
<1>3. /\ DOMAIN defs = 1..Len(defs) /\ Len(defs) \in Nat
      /\ DOMAIN frames = 1..Len(frames) /\ Len(frames) \in Nat
  BY <1>1, LenProperties
<1> QED BY <1>2, <1>3 DEF Definition, Frame

(* A step that only ends the interpreter. *)
LEMMA EndsInv ==
  ASSUME IInv, NEW how \in {"ok", "exited", "undefined", "hung"}, Ends(how)
  PROVE  IInv'
<1> USE DEF Ends, scopeVars
<1>1. TypeOK'
  BY DEF IInv, TypeOK, ScopesTypeOK
<1>2. ChainIsContexts'
  BY DEF IInv, ChainIsContexts
<1>3. TablesLive'
  BY DEF IInv, TablesLive, Defined
<1>4. HeaderOK' /\ ErrorInBody' /\ CallsOK' /\ DefsOK'
  BY DEF IInv, HeaderOK, ErrorInBody, CallsOK, DefsOK, Defined
<1> QED BY <1>1, <1>2, <1>3, <1>4 DEF IInv

(* Deleting the old function of a name frees a table that is not on the chain:
   it is the scope of a complete function, and nothing is being executed. *)
LEMMA StartHeaderInv ==
  ASSUME IInv, NEW f \in Funs, StartHeader(f)
  PROVE  IInv'
<1> DEFINE freed == FreedTables(f)
<1>1. /\ frames = <<>> /\ ~errors /\ hdr = NULL
      /\ UNCHANGED <<top, frames, errors, status>>
      /\ live' = live \ freed
      /\ prev' = [t \in AllTables |-> IF t \in freed THEN NULL ELSE prev[t]]
      /\ syms' = [t \in AllTables |-> IF t \in freed THEN {} ELSE syms[t]]
      /\ funs' = [funs EXCEPT ![f] = NULL]
      /\ hdr' = [fn |-> f, params |-> <<>>]
  BY DEF StartHeader, Parsing, Destroy
<1>2. defs' = [i \in DOMAIN defs |->
                 [defs[i] EXCEPT !.lost = @ \/ (defs[i].fn = f /\ Defined(f))]]
  BY DEF StartHeader
<1>3. TypeOK /\ ChainIsContexts /\ TablesLive /\ DefsOK
  BY DEF IInv
<1>4. /\ DOMAIN defs' = DOMAIN defs
      /\ \A i \in DOMAIN defs :
           /\ defs'[i] \in Definition
           /\ defs'[i].fn = defs[i].fn
           /\ defs'[i].table = defs[i].table
           /\ ~defs'[i].lost <=> ~defs[i].lost /\ ~(defs[i].fn = f /\ Defined(f))
  BY <1>2, <1>3, StackTypes DEF Definition, Defined
<1>5. defs' \in Seq(Definition) /\ (defs' = <<>> <=> defs = <<>>)
  <2>1. DOMAIN defs = 1..Len(defs) /\ Len(defs) \in Nat
    BY <1>3, StackTypes
  <2>2. defs' \in [1..Len(defs) -> Definition]
    BY <1>2, <1>4, <2>1
  <2>3. defs' \in Seq(Definition)
    BY <2>1, <2>2, SeqDef
  <2>4. Len(defs') = Len(defs)
    BY <2>1, <2>2
  <2> QED BY <1>3, <2>3, <2>4, EmptySeq DEF TypeOK
<1>6. /\ Global \notin freed /\ top \notin freed
      /\ \A i \in DOMAIN defs : defs[i].table \notin freed
      /\ freed \subseteq AllTables
      /\ \A g \in Funs : g # f /\ Defined(g) => funs[g].scope \notin freed
  <2>1. freed # {} => /\ Defined(f) /\ funs[f].scope # NULL
                      /\ freed = {funs[f].scope}
                      /\ funs[f].scope \in Tables
    BY <1>3 DEF FreedTables, Defined, TypeOK, Function
  <2>2. \A i \in DOMAIN defs : defs[i].table \notin freed
    BY <1>3, <2>1 DEF TablesLive
  <2>3. top = Global \/ \E i \in DOMAIN defs : top = defs[i].table
    <3>1. defs # <<>> => Len(defs) \in DOMAIN defs
      BY <1>3, FrontProperties DEF TypeOK
    <3> QED BY <1>1, <1>3, <3>1 DEF ChainIsContexts, IsChain, Last
  <2> QED BY <1>3, <2>1, <2>2, <2>3, ScopesAssumption DEF TablesLive, AllTables
<1> HIDE DEF freed
<1>7. TypeOK'
  <2>1. ScopesTypeOK'
    BY <1>1, <1>3 DEF TypeOK, ScopesTypeOK
  <2>2. hdr' \in Header
    <3>1. <<>> \in [1..0 -> Ids] /\ 0 \in 0..MaxArgs
      BY CallsAssumption
    <3> QED BY <1>1, <3>1 DEF Header, Args
  <2> QED BY <1>1, <1>3, <1>5, <2>1, <2>2 DEF TypeOK
<1>8. ChainIsContexts'
  <2>1. IsChain(top, prev, defs)
    BY <1>1, <1>3 DEF ChainIsContexts
  <2>2. \A t \in AllTables : t \notin freed => prev'[t] = prev[t]
    BY <1>1
  <2>3. \A i \in DOMAIN defs : defs[i].table \in AllTables
    BY <1>3, StackTypes DEF AllTables
  <2>4. top' = IF defs' = <<>> THEN Global ELSE Last(defs').table
    <3>1. defs # <<>> => Len(defs') = Len(defs) /\ Len(defs) \in DOMAIN defs
      BY <1>3, <1>4, <1>5, FrontProperties, LenProperties DEF TypeOK
    <3> QED BY <1>1, <1>4, <1>5, <2>1, <3>1 DEF IsChain, Last
  <2>5. \A i \in DOMAIN defs' :
          prev'[defs'[i].table] = IF i = 1 THEN Global ELSE defs'[i - 1].table
    <3>1. \A i \in DOMAIN defs : i = 1 \/ (i - 1) \in DOMAIN defs
      BY <1>3, StackTypes
    <3> QED BY <1>4, <1>6, <2>1, <2>2, <2>3, <3>1 DEF IsChain
  <2>6. \A i, j \in DOMAIN defs' : defs'[i].table = defs'[j].table => i = j
    BY <1>4, <2>1 DEF IsChain
  <2>7. IsChain(top', prev', defs')
    BY <2>4, <2>5, <2>6 DEF IsChain
  <2>8. IsChain(top', prev', frames') \/ defs' # <<>>
    BY <1>1, <1>4, <2>7 DEF IsChain
  <2>9. prev'[Global] = NULL
    BY <1>1, <1>3, <1>6 DEF ChainIsContexts, AllTables
  <2> QED BY <1>1, <2>7, <2>8, <2>9 DEF ChainIsContexts
<1>9. TablesLive'
  <2>1. \A g \in Funs : Defined(g)' => g # f /\ Defined(g) /\ funs'[g] = funs[g]
    BY <1>1, <1>3 DEF TypeOK, Defined
  <2> QED BY <1>1, <1>3, <1>4, <1>6, <2>1 DEF TablesLive
<1>10. HeaderOK' /\ ErrorInBody' /\ CallsOK'
  BY <1>1, <1>3 DEF HeaderOK, ErrorInBody, CallsOK, Defined, TypeOK
<1>11. DefsOK'
  <2>1. \A g \in Funs : g # f => funs'[g] = funs[g]
    BY <1>1, <1>3 DEF TypeOK
  <2>2. funs'[f] = NULL
    BY <1>1, <1>3 DEF TypeOK
  <2>3. \A i \in DOMAIN defs : ~defs'[i].lost => ~defs[i].lost /\ defs[i].fn # f
    BY <1>3, <1>4 DEF DefsOK
  <2> QED BY <1>3, <1>4, <2>1, <2>2, <2>3, StackTypes DEF DefsOK, Defined
<1> QED BY <1>7, <1>8, <1>9, <1>10, <1>11 DEF IInv

-----------------------------------------------------------------------------
(* Most steps change neither the chain nor the functions, nor which definitions
   and calls are in progress; for them only the types, the header and the error
   counter are left to look at. *)
LEMMA SameContexts ==
  ASSUME IInv, TypeOK', HeaderOK', ErrorInBody',
         UNCHANGED <<top, prev, live, funs>>,
         DOMAIN defs' = DOMAIN defs,
         \A i \in DOMAIN defs : /\ defs'[i].fn = defs[i].fn
                               /\ defs'[i].table = defs[i].table
                               /\ defs'[i].lost = defs[i].lost,
         DOMAIN frames' = DOMAIN frames,
         \A i \in DOMAIN frames : /\ frames'[i].fn = frames[i].fn
                                 /\ frames'[i].table = frames[i].table
                                 /\ frames'[i].from = frames[i].from
  PROVE  IInv'
<1>1. TypeOK /\ ChainIsContexts /\ TablesLive /\ CallsOK /\ DefsOK
  BY DEF IInv
<1>2. /\ defs' = <<>> <=> defs = <<>>
      /\ frames' = <<>> <=> frames = <<>>
      /\ Len(defs') = Len(defs) /\ Len(frames') = Len(frames)
      /\ defs # <<>> => Len(defs) \in DOMAIN defs
      /\ frames # <<>> => Len(frames) \in DOMAIN frames
  <2>1. /\ defs \in Seq(Definition) /\ defs' \in Seq(Definition)
        /\ frames \in Seq(Frame) /\ frames' \in Seq(Frame)
    BY <1>1 DEF TypeOK, Definition, Frame, Sites, AllTables
  <2>2. Len(defs') = Len(defs) /\ Len(frames') = Len(frames)
    <3>1. /\ DOMAIN defs = 1..Len(defs) /\ DOMAIN defs' = 1..Len(defs')
          /\ DOMAIN frames = 1..Len(frames) /\ DOMAIN frames' = 1..Len(frames')
          /\ Len(defs) \in Nat /\ Len(defs') \in Nat
          /\ Len(frames) \in Nat /\ Len(frames') \in Nat
      BY <2>1, LenProperties
    <3> QED BY <3>1
  <2> QED BY <2>1, <2>2, EmptySeq, FrontProperties
<1>3. IsChain(top, prev, defs) => IsChain(top', prev', defs')
  <2>1. \A i \in DOMAIN defs : i = 1 \/ (i - 1) \in DOMAIN defs
    BY <1>1, StackTypes
  <2> QED BY <1>2, <2>1 DEF IsChain, Last
<1>4. IsChain(top, prev, frames) => IsChain(top', prev', frames')
  <2>1. \A i \in DOMAIN frames : i = 1 \/ (i - 1) \in DOMAIN frames
    BY <1>1, StackTypes
  <2> QED BY <1>2, <2>1 DEF IsChain, Last
<1>5. ChainIsContexts'
  BY <1>1, <1>2, <1>3, <1>4 DEF ChainIsContexts
<1>6. TablesLive'
  BY <1>1 DEF TablesLive, Defined
<1>7. CallsOK'
  BY <1>1 DEF CallsOK, Defined
<1>8. DefsOK'
  BY <1>1 DEF DefsOK, Defined
<1> QED BY <1>5, <1>6, <1>7, <1>8 DEF IInv

(* One more parameter of the header. *)
LEMMA AddArgInv ==
  ASSUME IInv, NEW x \in Ids, AddArg(x)
  PROVE  IInv'
<1>1. TypeOK /\ HeaderOK /\ ErrorInBody
  BY DEF IInv
<1>2. /\ hdr \in Header /\ hdr # NULL
      /\ Len(hdr.params) < MaxArgs
      /\ hdr' = [hdr EXCEPT !.params = Append(@, x)]
      /\ UNCHANGED <<top, prev, syms, live, funs, defs, frames, errors, status>>
  BY <1>1 DEF AddArg, TypeOK, scopeVars
<1>3. hdr' \in Header
  <2>1. PICK n \in 0..MaxArgs : hdr.params \in [1..n -> Ids]
    BY <1>2 DEF Header, Args
  <2>2. hdr.params \in Seq(Ids) /\ Len(hdr.params) = n /\ n \in Nat
    BY <2>1, SeqDef, CallsAssumption
  <2>3. Append(hdr.params, x) \in Seq(Ids) /\ Len(Append(hdr.params, x)) = n + 1
    BY <2>2, AppendProperties
  <2>4. Append(hdr.params, x) \in [1..(n + 1) -> Ids]
    BY <2>3, LenProperties
  <2>5. n + 1 \in 0..MaxArgs
    BY <1>2, <2>2, CallsAssumption
  <2>6. Append(hdr.params, x) \in Args
    BY <2>4, <2>5 DEF Args
  <2> QED BY <1>2, <2>6 DEF Header
<1>4. TypeOK'
  BY <1>1, <1>2, <1>3 DEF TypeOK, ScopesTypeOK
<1>5. HeaderOK' /\ ErrorInBody'
  BY <1>1, <1>2 DEF HeaderOK, ErrorInBody, Defined, Header
<1> QED BY <1>2, <1>4, <1>5, SameContexts

(* The header is rejected. *)
LEMMA HeaderErrorInv ==
  ASSUME IInv, HeaderError
  PROVE  IInv'
<1>1. TypeOK /\ HeaderOK
  BY DEF IInv
<1>2. /\ hdr' = NULL
      /\ errors' = (defs # <<>>)
      /\ UNCHANGED <<top, prev, syms, live, funs, defs, frames, status>>
  BY DEF HeaderError, SyntaxError, scopeVars
<1>3. TypeOK' /\ HeaderOK' /\ ErrorInBody'
  BY <1>1, <1>2 DEF TypeOK, ScopesTypeOK, HeaderOK, ErrorInBody
<1> QED BY <1>2, <1>3, SameContexts

(* A local variable, in the current table. *)
LEMMA DeclareLocalInv ==
  ASSUME IInv, NEW x \in Ids, DeclareLocal(x)
  PROVE  IInv'
<1>1. CASE PutFails(x)
  BY <1>1, EndsInv DEF DeclareLocal
<1>2. CASE ~PutFails(x)
  <2>1. TypeOK /\ HeaderOK /\ ErrorInBody
    BY DEF IInv
  <2>2. /\ syms' = [syms EXCEPT ![top] = @ \cup {x}]
        /\ UNCHANGED <<top, prev, live, funs, hdr, defs, frames, errors, status>>
    BY <1>2 DEF DeclareLocal, PutTop, callVars
  <2>3. TypeOK'
    BY <2>1, <2>2 DEF TypeOK, ScopesTypeOK
  <2>4. HeaderOK' /\ ErrorInBody'
    BY <2>1, <2>2 DEF HeaderOK, ErrorInBody, Defined
  <2> QED BY <2>2, <2>3, <2>4, SameContexts
<1> QED BY <1>1, <1>2

(* Adding something to the last definition in progress. *)
LEMMA LastDefinition ==
  ASSUME TypeOK, defs # <<>>, NEW d \in Definition,
         LET old == defs[Len(defs)]
         IN d.fn = old.fn /\ d.table = old.table /\ d.lost = old.lost,
         defs' = [defs EXCEPT ![Len(defs)] = d]
  PROVE  /\ defs' \in Seq(Definition) /\ defs' # <<>>
         /\ DOMAIN defs' = DOMAIN defs
         /\ \A i \in DOMAIN defs : /\ defs'[i].fn = defs[i].fn
                                   /\ defs'[i].table = defs[i].table
                                   /\ defs'[i].lost = defs[i].lost
<1>1. defs \in Seq(Definition) /\ Len(defs) \in 1..Len(defs) /\ DOMAIN defs = 1..Len(defs)
  BY FrontProperties DEF TypeOK
<1>2. /\ defs' \in Seq(Definition)
      /\ Len(defs') = Len(defs)
      /\ \A i \in 1..Len(defs) : defs'[i] = IF i = Len(defs) THEN d ELSE defs[i]
  BY <1>1, ExceptSeq
<1>3. DOMAIN defs' = 1..Len(defs) /\ defs' # <<>>
  BY <1>1, <1>2, LenProperties, EmptySeq
<1> QED BY <1>1, <1>2, <1>3

(* A variable; a new name goes into the global table. *)
LEMMA RefIdInv ==
  ASSUME IInv, NEW x \in Ids, RefId(x)
  PROVE  IInv'
<1>1. CASE Hangs(x)
  BY <1>1, EndsInv DEF RefId
<1>2. CASE ~Hangs(x)
  <2>1. TypeOK /\ HeaderOK /\ ErrorInBody
    BY DEF IInv
  <2>2. /\ syms' = syms \/ syms' = [syms EXCEPT ![Global] = @ \cup {x}]
        /\ UNCHANGED <<top, prev, live, funs, hdr, frames, errors, status>>
    BY <1>2 DEF RefId, PutGlobal
  <2>3. syms' \in [AllTables -> SUBSET Ids]
    BY <2>1, <2>2 DEF TypeOK, ScopesTypeOK
  <2>4. CASE defs = <<>>
    <3>1. defs' = defs
      BY <1>2, <2>4 DEF RefId
    <3>2. TypeOK'
      BY <2>1, <2>2, <2>3, <3>1 DEF TypeOK, ScopesTypeOK
    <3>3. HeaderOK' /\ ErrorInBody'
      BY <2>1, <2>2, <3>1 DEF HeaderOK, ErrorInBody, Defined
    <3> QED BY <2>2, <3>1, <3>2, <3>3, SameContexts
  <2>5. CASE defs # <<>>
    <3>0. PICK t \in AllTables :
            defs' = [defs EXCEPT ![Len(defs)].refs = @ \cup {<<x, t>>}]
      BY <1>2, <2>5 DEF RefId
    <3> DEFINE d == [defs[Len(defs)] EXCEPT !.refs = @ \cup {<<x, t>>}]
    <3>1. defs' = [defs EXCEPT ![Len(defs)] = d]
      BY <3>0
    <3>2. defs[Len(defs)] \in Definition
      BY <2>1, <2>5, FrontProperties DEF TypeOK, Last
    <3>3. d \in Definition
      BY <3>2 DEF Definition, Names
    <3>4. LET old == defs[Len(defs)]
          IN d.fn = old.fn /\ d.table = old.table /\ d.lost = old.lost
      BY <3>2 DEF Definition
    <3> HIDE DEF d
    <3>5. /\ defs' \in Seq(Definition) /\ defs' # <<>>
          /\ DOMAIN defs' = DOMAIN defs
          /\ \A i \in DOMAIN defs : /\ defs'[i].fn = defs[i].fn
                                    /\ defs'[i].table = defs[i].table
                                    /\ defs'[i].lost = defs[i].lost
      BY <2>1, <2>5, <3>1, <3>3, <3>4, LastDefinition
    <3>6. TypeOK'
      BY <2>1, <2>2, <2>3, <3>5 DEF TypeOK, ScopesTypeOK
    <3>7. HeaderOK' /\ ErrorInBody'
      BY <2>1, <2>2, <3>5 DEF HeaderOK, ErrorInBody, Defined
    <3> QED BY <2>2, <3>5, <3>6, <3>7, SameContexts
  <2> QED BY <2>4, <2>5
<1> QED BY <1>1, <1>2

(* A call in a body, accepted or not. *)
LEMMA ParseCallInv ==
  ASSUME IInv, NEW g \in Funs, NEW n \in 0..MaxArgs, ParseCall(g, n)
  PROVE  IInv'
<1>1. TypeOK /\ HeaderOK /\ ErrorInBody
  BY DEF IInv
<1>2. /\ defs # <<>> /\ hdr = NULL
      /\ UNCHANGED <<top, prev, syms, live, funs, hdr, frames, status>>
  BY DEF ParseCall, InBody, Parsing, scopeVars
<1>3. CASE Accepts(g, n)
  <2> DEFINE d == [defs[Len(defs)] EXCEPT !.sites = @ \cup {<<g, n>>}]
  <2>1. defs' = [defs EXCEPT ![Len(defs)] = d] /\ errors' = errors
    BY <1>3 DEF ParseCall
  <2>2. defs[Len(defs)] \in Definition /\ <<g, n>> \in Sites
    BY <1>1, <1>2, FrontProperties DEF TypeOK, Last, Sites
  <2>3. d \in Definition
    BY <2>2 DEF Definition
  <2>4. LET old == defs[Len(defs)]
        IN d.fn = old.fn /\ d.table = old.table /\ d.lost = old.lost
    BY <2>2 DEF Definition
  <2> HIDE DEF d
  <2>5. /\ defs' \in Seq(Definition) /\ defs' # <<>>
        /\ DOMAIN defs' = DOMAIN defs
        /\ \A i \in DOMAIN defs : /\ defs'[i].fn = defs[i].fn
                                  /\ defs'[i].table = defs[i].table
                                  /\ defs'[i].lost = defs[i].lost
    BY <1>1, <1>2, <2>1, <2>3, <2>4, LastDefinition
  <2>6. TypeOK' /\ HeaderOK' /\ ErrorInBody'
    BY <1>1, <1>2, <2>1, <2>5 DEF TypeOK, ScopesTypeOK, HeaderOK, ErrorInBody
  <2> QED BY <1>2, <2>5, <2>6, SameContexts
<1>4. CASE ~Accepts(g, n)
  <2>1. defs' = defs /\ errors' = (defs # <<>>)
    BY <1>4 DEF ParseCall, SyntaxError
  <2>2. TypeOK' /\ HeaderOK' /\ ErrorInBody'
    BY <1>1, <1>2, <2>1 DEF TypeOK, ScopesTypeOK, HeaderOK, ErrorInBody
  <2> QED BY <1>2, <2>1, <2>2, SameContexts
<1> QED BY <1>3, <1>4

(* Any other error in a body. *)
LEMMA ParseErrorInv ==
  ASSUME IInv, ParseError
  PROVE  IInv'
<1>1. TypeOK
  BY DEF IInv
<1>2. /\ defs # <<>> /\ hdr = NULL /\ errors' = (defs # <<>>)
      /\ UNCHANGED <<top, prev, syms, live, funs, hdr, defs, frames, status>>
  BY DEF ParseError, InBody, Parsing, SyntaxError, scopeVars
<1>3. TypeOK' /\ HeaderOK' /\ ErrorInBody'
  BY <1>1, <1>2 DEF TypeOK, ScopesTypeOK, HeaderOK, ErrorInBody
<1> QED BY <1>2, <1>3, SameContexts

(* The header is complete: a new table comes on the chain, and the function,
   which has no table yet, belongs to the new definition. *)
LEMMA OpenBodyInv ==
  ASSUME IInv, NEW t \in Tables, OpenBody(t)
  PROVE  IInv'
<1>1. CASE ~Injective(hdr.params)
  BY <1>1, EndsInv DEF OpenBody
<1>2. CASE Injective(hdr.params)
  <2> DEFINE d == [fn |-> hdr.fn, table |-> t, refs |-> {}, sites |-> {}, lost |-> FALSE]
             fun == [params |-> hdr.params, scope |-> NULL, refs |-> {}, sites |-> {}]
  <2>1. TypeOK /\ ChainIsContexts /\ TablesLive /\ HeaderOK /\ CallsOK /\ DefsOK
    BY DEF IInv
  <2>2. /\ hdr # NULL /\ frames = <<>> /\ ~errors
        /\ hdr \in Header /\ hdr.fn \in Funs /\ funs[hdr.fn] = NULL
    BY <2>1 DEF OpenBody, HeaderOK, TypeOK, Header, Defined
  <2>3. /\ t \notin live
        /\ live' = live \cup {t}
        /\ prev' = [prev EXCEPT ![t] = top]
        /\ syms' = [syms EXCEPT ![t] = {hdr.params[i] : i \in DOMAIN hdr.params}]
        /\ top' = t
    BY <1>2 DEF OpenBody, Push
  <2>4. /\ funs' = [funs EXCEPT ![hdr.fn] = fun]
        /\ defs' = Append(defs, d)
        /\ hdr' = NULL
        /\ UNCHANGED <<frames, errors, status>>
    BY <1>2 DEF OpenBody
  <2>5. d \in Definition /\ d.table = t /\ d.fn = hdr.fn /\ ~d.lost
    BY <2>2 DEF Definition
  <2>6. fun \in Function /\ fun.scope = NULL
    BY <2>2 DEF Function, Header
  <2>7. \A i \in DOMAIN hdr.params : hdr.params[i] \in Ids
    BY <2>2 DEF Header, Args
  <2> HIDE DEF d, fun
  <2>8. /\ defs' \in Seq(Definition) /\ defs' # <<>>
        /\ Len(defs) \in Nat /\ DOMAIN defs = 1..Len(defs)
        /\ DOMAIN defs' = 1..(Len(defs) + 1)
        /\ \A i \in 1..Len(defs) : defs'[i] = defs[i]
        /\ defs'[Len(defs) + 1] = d
    BY <2>1, <2>4, <2>5, AppendDomain DEF TypeOK
  <2>9. \A g \in Funs : funs'[g] = IF g = hdr.fn THEN fun ELSE funs[g]
    BY <2>1, <2>2, <2>4 DEF TypeOK
  <2>10. \A i \in DOMAIN defs : defs[i].table \in AllTables /\ defs[i].table # t
    BY <2>1, <2>3, StackTypes DEF TablesLive, AllTables
  <2>11. TypeOK'
    <3>1. top' \in AllTables /\ live' \subseteq AllTables
      BY <2>1, <2>3 DEF TypeOK, ScopesTypeOK, AllTables
    <3>2. prev' \in [AllTables -> AllTables \cup {NULL}]
      BY <2>1, <2>3 DEF TypeOK, ScopesTypeOK
    <3>3. syms' \in [AllTables -> SUBSET Ids]
      BY <2>1, <2>3, <2>7 DEF TypeOK, ScopesTypeOK
    <3>4. funs' \in [Funs -> Function \cup {NULL}]
      BY <2>1, <2>4, <2>6 DEF TypeOK
    <3> QED BY <2>1, <2>4, <2>8, <3>1, <3>2, <3>3, <3>4 DEF TypeOK, ScopesTypeOK
  <2>12. ChainIsContexts'
    <3>1. prev \in [AllTables -> AllTables \cup {NULL}] /\ defs \in Seq(Definition)
      BY <2>1 DEF TypeOK, ScopesTypeOK
    <3>2. IsChain(top, prev, defs)
      BY <2>1, <2>2 DEF ChainIsContexts
    <3>3. IsChain(d.table, [prev EXCEPT ![d.table] = top], Append(defs, d))
      BY <2>5, <2>10, <3>1, <3>2, ChainPush DEF AllTables
    <3>4. IsChain(top', prev', defs')
      BY <2>3, <2>4, <2>5, <3>3
    <3>5. prev'[Global] = NULL
      BY <2>1, <2>3, <3>1, ScopesAssumption DEF ChainIsContexts, AllTables
    <3> QED BY <2>2, <2>4, <2>8, <3>4, <3>5 DEF ChainIsContexts
  <2>13. TablesLive'
    <3>1. \A i \in DOMAIN defs' : defs'[i].table \in live'
      BY <2>1, <2>3, <2>5, <2>8 DEF TablesLive
    <3>2. \A f \in Funs : (Defined(f) /\ funs[f].scope # NULL)' =>
            /\ f # hdr.fn /\ Defined(f) /\ funs'[f] = funs[f]
            /\ funs[f].scope # NULL /\ funs[f].scope \in live
      BY <2>1, <2>6, <2>9 DEF Defined, TablesLive
    <3>3. \A f \in Funs : (Defined(f) /\ funs[f].scope # NULL)' =>
            \A i \in DOMAIN defs' : defs'[i].table # funs'[f].scope
      BY <2>1, <2>3, <2>5, <2>8, <3>2 DEF TablesLive
    <3>4. \A f, g \in Funs : (Defined(f) /\ funs[f].scope # NULL)' /\ Defined(g)'
            /\ funs'[g].scope = funs'[f].scope => g = f
      BY <2>1, <2>6, <2>9, <3>2 DEF TablesLive, Defined
    <3> QED BY <2>1, <2>3, <3>1, <3>2, <3>3, <3>4 DEF TablesLive
  <2>14. HeaderOK' /\ ErrorInBody'
    BY <2>2, <2>4, <2>8 DEF HeaderOK, ErrorInBody
  <2>15. CallsOK'
    <3>1. DOMAIN frames' = {}
      BY <2>2, <2>4
    <3> QED BY <3>1 DEF CallsOK
  <2>16. DefsOK'
    <3>1. funs'[hdr.fn] # NULL /\ funs'[hdr.fn].scope = NULL
      BY <2>2, <2>6, <2>9, NullAssumption
    <3>2. \A i \in DOMAIN defs : ~defs[i].lost =>
            /\ defs[i].fn # hdr.fn /\ funs'[defs[i].fn] = funs[defs[i].fn]
            /\ Defined(defs[i].fn) /\ funs[defs[i].fn].scope = NULL
      BY <2>1, <2>2, <2>9, StackTypes DEF DefsOK, Defined
    <3>3. \A i \in DOMAIN defs' : ~defs'[i].lost =>
            funs'[defs'[i].fn] # NULL /\ funs'[defs'[i].fn].scope = NULL
      BY <2>5, <2>8, <3>1, <3>2 DEF Defined
    <3>4. \A i, j \in DOMAIN defs' :
            ~defs'[i].lost /\ ~defs'[j].lost /\ defs'[i].fn = defs'[j].fn => i = j
      BY <2>1, <2>5, <2>8, <3>2 DEF DefsOK
    <3>5. \A f \in Funs : Defined(f)' /\ funs'[f].scope = NULL =>
            \E i \in DOMAIN defs' : ~defs'[i].lost /\ defs'[i].fn = f
      BY <2>1, <2>5, <2>8, <2>9 DEF DefsOK, Defined
    <3> QED BY <3>3, <3>4, <3>5 DEF DefsOK, Defined
  <2> QED BY <2>11, <2>12, <2>13, <2>14, <2>15, <2>16 DEF IInv
<1> QED BY <1>1, <1>2

(* The body is complete: its table comes off the chain and becomes the scope of
   the function, or is freed together with it. *)
LEMMA EndDefinitionInv ==
  ASSUME IInv, EndDefinition
  PROVE  IInv'
<1>1. TypeOK /\ ChainIsContexts /\ TablesLive /\ HeaderOK /\ CallsOK /\ DefsOK
  BY DEF IInv
<1> DEFINE d == Last(defs)
<1>2. defs # <<>> /\ hdr = NULL
  BY DEF EndDefinition
<1>3. CASE d.lost
  BY <1>3, EndsInv DEF EndDefinition
<1>4. CASE ~d.lost
  <2>1. /\ Front(defs) \in Seq(Definition)
        /\ d \in Definition /\ d = defs[Len(defs)]
        /\ Len(defs) \in Nat \ {0}
        /\ DOMAIN defs = 1..Len(defs)
        /\ DOMAIN Front(defs) = 1..(Len(defs) - 1)
        /\ \A i \in 1..(Len(defs) - 1) : Front(defs)[i] = defs[i]
    BY <1>1, <1>2, FrontProperties DEF TypeOK, Last
  <2>2. /\ IsChain(top, prev, defs) /\ top = d.table
        /\ frames = <<>>
        /\ d.table \in Tables /\ d.fn \in Funs
        /\ Defined(d.fn) /\ funs[d.fn] \in Function /\ funs[d.fn].scope = NULL
        /\ \A i \in 1..(Len(defs) - 1) :
             defs[i].table # top /\ (~defs[i].lost => defs[i].fn # d.fn)
    <3>1. frames = <<>> /\ IsChain(top, prev, defs)
      BY <1>1, <1>2 DEF ChainIsContexts
    <3>2. top = d.table
      BY <1>2, <3>1 DEF IsChain
    <3>3. d.table \in Tables /\ d.fn \in Funs
      BY <2>1 DEF Definition
    <3>4. Defined(d.fn) /\ funs[d.fn].scope = NULL
      BY <1>1, <1>4, <2>1 DEF DefsOK
    <3>5. \A i \in 1..(Len(defs) - 1) :
            defs[i].table # top /\ (~defs[i].lost => defs[i].fn # d.fn)
      BY <1>1, <1>4, <2>1, <3>1, <3>2 DEF IsChain, DefsOK
    <3> QED BY <1>1, <3>1, <3>2, <3>3, <3>4, <3>5 DEF TypeOK, Defined
  <2>3. prev[top] \in AllTables /\ prev[top] # NULL /\ prev[top] # top
        /\ (prev[top] = Global \/ \E i \in 1..(Len(defs) - 1) : prev[top] = defs[i].table)
    <3>1. prev[top] = IF Len(defs) = 1 THEN Global ELSE defs[Len(defs) - 1].table
      BY <2>1, <2>2 DEF IsChain
    <3>2. Len(defs) = 1 \/ (Len(defs) - 1) \in 1..(Len(defs) - 1)
      BY <2>1
    <3>3. \A i \in 1..(Len(defs) - 1) : defs[i].table \in Tables
      BY <1>1, <2>1, StackTypes
    <3> QED BY <2>2, <3>1, <3>2, <3>3, ScopesAssumption DEF AllTables
  <2> DEFINE T == IF errors THEN {top} ELSE {}
             fun == IF errors THEN NULL
                    ELSE [funs[d.fn] EXCEPT !.scope = top, !.refs = d.refs, !.sites = d.sites]
  <2>4. /\ top' = prev[top]
        /\ live' = live \ T
        /\ prev' = [t \in AllTables |-> IF t \in T THEN NULL ELSE prev[t]]
        /\ syms' = [t \in AllTables |-> IF t \in T THEN {} ELSE syms[t]]
        /\ errors' = (errors /\ Len(defs) > 1)
        /\ status' = status
    BY <1>4, <2>3 DEF EndDefinition, PopFails, Pop, Destroy
  <2>5. /\ defs' = Front(defs)
        /\ funs' = [funs EXCEPT ![d.fn] = fun]
        /\ hdr' = hdr /\ frames' = frames
    BY <1>4, <2>3 DEF EndDefinition, PopFails
  <2>6. fun \in Function \cup {NULL} /\ (fun # NULL => ~errors /\ fun.scope = top)
    BY <2>1, <2>2 DEF Function, Definition
  <2>7. T \subseteq {top} /\ (fun # NULL => T = {})
    BY <2>6
  <2> HIDE DEF d, T, fun
  <2>8. \A g \in Funs : funs'[g] = IF g = d.fn THEN fun ELSE funs[g]
    BY <1>1, <2>2, <2>5 DEF TypeOK
  <2>9. TypeOK'
    <3>1. ScopesTypeOK'
      BY <1>1, <2>3, <2>4 DEF TypeOK, ScopesTypeOK
    <3>2. funs' \in [Funs -> Function \cup {NULL}]
      BY <1>1, <2>5, <2>6 DEF TypeOK
    <3>3. errors' \in BOOLEAN
      BY <2>4
    <3> QED BY <1>1, <2>1, <2>4, <2>5, <3>1, <3>2, <3>3 DEF TypeOK
  <2>10. ChainIsContexts'
    <3>1. \A i \in DOMAIN Front(defs) : prev'[defs[i].table] = prev[defs[i].table]
      BY <1>1, <2>1, <2>2, <2>4, <2>7, StackTypes DEF AllTables
    <3>2. IsChain(prev[top], prev', Front(defs))
      BY <1>1, <1>2, <2>2, <3>1, ChainPop DEF TypeOK
    <3>3. IsChain(top', prev', defs')
      BY <2>4, <2>5, <3>2
    <3>4. prev'[Global] = NULL
      BY <1>1, <2>2, <2>4, <2>7, ScopesAssumption DEF ChainIsContexts, AllTables
    <3>5. defs' = <<>> => IsChain(top', prev', frames')
      BY <2>2, <2>5, <3>3
    <3> QED BY <2>2, <2>5, <3>3, <3>4, <3>5 DEF ChainIsContexts
  <2>11. TablesLive'
    <3>1. top' \in live' /\ Global \in live'
      BY <1>1, <2>1, <2>2, <2>3, <2>4, <2>7, ScopesAssumption DEF TablesLive
    <3>2. \A i \in DOMAIN defs' : defs'[i].table \in live' /\ defs'[i].table # top
      BY <1>1, <2>1, <2>2, <2>4, <2>5, <2>7 DEF TablesLive
    <3>3. \A f \in Funs : (Defined(f) /\ funs[f].scope # NULL)' =>
            \/ f = d.fn /\ fun # NULL /\ funs'[f].scope = top
            \/ /\ f # d.fn /\ Defined(f) /\ funs'[f] = funs[f]
               /\ funs[f].scope # NULL /\ funs[f].scope # top
      BY <1>1, <2>1, <2>2, <2>6, <2>8 DEF Defined, TablesLive
    <3>4. \A f \in Funs : (Defined(f) /\ funs[f].scope # NULL)' =>
            /\ funs'[f].scope \in live'
            /\ \A i \in DOMAIN defs' : defs'[i].table # funs'[f].scope
      BY <1>1, <2>1, <2>2, <2>4, <2>5, <2>7, <3>2, <3>3 DEF TablesLive
    <3>5. \A f, g \in Funs : (Defined(f) /\ funs[f].scope # NULL)' /\ Defined(g)'
            /\ funs'[g].scope = funs'[f].scope => g = f
      <4> SUFFICES ASSUME NEW f \in Funs, NEW g \in Funs,
                          (Defined(f) /\ funs[f].scope # NULL)', Defined(g)',
                          funs'[g].scope = funs'[f].scope
                   PROVE  g = f
        OBVIOUS
      <4>1. (Defined(g) /\ funs[g].scope # NULL)'
        OBVIOUS
      <4> QED BY <1>1, <3>3, <4>1 DEF TablesLive
    <3> QED BY <3>1, <3>2, <3>4, <3>5 DEF TablesLive
  <2>12. HeaderOK'
    BY <1>2, <2>5 DEF HeaderOK
  <2>13. ErrorInBody'
    <3>1. Len(defs) > 1 => defs' # <<>>
      BY <2>1, <2>5
    <3> QED BY <2>4, <3>1 DEF ErrorInBody
  <2>14. CallsOK'
    <3>1. DOMAIN frames' = {}
      BY <2>2, <2>5
    <3> QED BY <3>1 DEF CallsOK
  <2>15. DefsOK'
    <3>1. \A i \in DOMAIN defs' : ~defs'[i].lost =>
            /\ i \in DOMAIN defs /\ defs'[i] = defs[i]
            /\ defs[i].fn # d.fn /\ funs'[defs[i].fn] = funs[defs[i].fn]
      BY <1>1, <2>1, <2>2, <2>5, <2>8, StackTypes
    <3>2. \A f \in Funs : Defined(f)' /\ funs'[f].scope = NULL =>
            f # d.fn /\ Defined(f) /\ funs[f].scope = NULL
      BY <2>2, <2>6, <2>8, ScopesAssumption DEF Defined
    <3>3. \A f \in Funs : Defined(f)' /\ funs'[f].scope = NULL =>
            \E i \in DOMAIN defs' : ~defs'[i].lost /\ defs'[i].fn = f
      <4> SUFFICES ASSUME NEW f \in Funs, Defined(f)', funs'[f].scope = NULL
                   PROVE  \E i \in DOMAIN defs' : ~defs'[i].lost /\ defs'[i].fn = f
        OBVIOUS
      <4>1. PICK i \in DOMAIN defs : ~defs[i].lost /\ defs[i].fn = f
        BY <1>1, <3>2 DEF DefsOK
      <4>2. i # Len(defs)
        BY <2>1, <3>2, <4>1
      <4> QED BY <2>1, <2>5, <4>1, <4>2
    <3> QED BY <1>1, <3>1, <3>3 DEF DefsOK, Defined
  <2> QED BY <2>9, <2>10, <2>11, <2>12, <2>13, <2>14, <2>15 DEF IInv
<1> QED BY <1>3, <1>4

-----------------------------------------------------------------------------
(* A call puts the scope of a function that is not active on the chain.  This
   is the step that needs NoRecursion: an active function's table is on the
   chain already, and overwriting its link makes the chain a cycle. *)
LEMMA CallInv ==
  ASSUME NoRecursion, IInv, NEW g \in Funs, NEW n \in 0..MaxArgs, Call(g, n)
  PROVE  IInv'
<1>1. CASE ~Defined(g)
  BY <1>1, EndsInv DEF Call
<1>2. CASE Defined(g) /\ n > 0 /\ Len(funs[g].params) > n
  BY <1>2, EndsInv DEF Call
<1>3. CASE Defined(g) /\ ~(n > 0 /\ Len(funs[g].params) > n)
  <2> DEFINE t == funs[g].scope
             fr == [fn |-> g, table |-> t, owner |-> Owner,
                    left |-> IF n = 0 THEN 0 ELSE Len(funs[g].params),
                    runs |-> n > 0, from |-> top]
  <2>1. TypeOK /\ ChainIsContexts /\ TablesLive /\ HeaderOK /\ CallsOK /\ DefsOK
    BY DEF IInv
  <2>2. defs = <<>> /\ hdr = NULL /\ ~errors
    BY DEF Call, Running
  <2>3. \A i \in DOMAIN frames : frames[i].fn # g
    BY DEF Call, Active, NoRecursion
  <2>4. /\ top' = t
        /\ prev' = [prev EXCEPT ![t] = top]
        /\ frames' = Append(frames, fr)
        /\ UNCHANGED <<syms, live, funs, hdr, defs, errors, status>>
    BY <1>3 DEF Call, SetScope
  <2>5. funs[g] \in Function /\ t \in Tables /\ t # NULL
    <3>1. DOMAIN defs = {}
      BY <2>2
    <3>2. funs[g] \in Function /\ t # NULL
      BY <1>3, <2>1, <3>1 DEF TypeOK, Defined, DefsOK
    <3> QED BY <3>2 DEF Function
  <2>6. fr \in Frame
    <3>1. Owner \in Funs \cup {Line}
      <4>1. CASE frames = <<>>
        BY <4>1 DEF Owner
      <4>2. CASE frames # <<>>
        <5>1. Last(frames) \in Frame
          BY <2>1, <4>2, FrontProperties DEF TypeOK
        <5> QED BY <4>2, <5>1 DEF Owner, Frame
      <4> QED BY <4>1, <4>2
    <3>2. Len(funs[g].params) \in 0..MaxArgs
      <4>1. PICK k \in 0..MaxArgs : funs[g].params \in [1..k -> Ids]
        BY <2>5 DEF Function, Args
      <4>2. funs[g].params \in Seq(Ids) /\ Len(funs[g].params) = k
        BY <4>1, SeqDef, CallsAssumption
      <4> QED BY <4>2
    <3>3. top \in AllTables
      BY <2>1 DEF TypeOK, ScopesTypeOK
    <3>4. (IF n = 0 THEN 0 ELSE Len(funs[g].params)) \in 0..MaxArgs
      BY <3>2, CallsAssumption
    <3> QED BY <2>5, <3>1, <3>3, <3>4 DEF Frame
  <2>7. fr.fn = g /\ fr.table = t /\ fr.from = top
    OBVIOUS
  <2> HIDE DEF t, fr
  <2>8. \A i \in DOMAIN frames : frames[i].table \in AllTables /\ frames[i].table # t
    <3> SUFFICES ASSUME NEW i \in DOMAIN frames
                 PROVE  frames[i].table \in AllTables /\ frames[i].table # t
      OBVIOUS
    <3>1. frames[i].table \in Tables /\ frames[i].fn \in Funs
      BY <2>1, StackTypes
    <3>2. funs[frames[i].fn].scope = frames[i].table /\ Defined(frames[i].fn)
      BY <2>1 DEF CallsOK
    <3> QED BY <1>3, <2>1, <2>3, <2>5, <3>1, <3>2 DEF TablesLive, AllTables, t
  <2>9. /\ frames' \in Seq(Frame) /\ frames' # <<>>
        /\ Len(frames) \in Nat /\ DOMAIN frames = 1..Len(frames)
        /\ DOMAIN frames' = 1..(Len(frames) + 1)
        /\ \A i \in 1..Len(frames) : frames'[i] = frames[i]
        /\ frames'[Len(frames) + 1] = fr
    BY <2>1, <2>4, <2>6, AppendDomain DEF TypeOK
  <2>10. prev \in [AllTables -> AllTables \cup {NULL}] /\ top \in AllTables /\ t \in AllTables
    BY <2>1, <2>5 DEF TypeOK, ScopesTypeOK, AllTables
  <2>11. TypeOK'
    <3>1. ScopesTypeOK'
      BY <2>1, <2>4, <2>10 DEF TypeOK, ScopesTypeOK
    <3> QED BY <2>1, <2>4, <2>9, <3>1 DEF TypeOK
  <2>12. ChainIsContexts'
    <3>1. IsChain(top, prev, frames)
      BY <2>1, <2>2 DEF ChainIsContexts
    <3>2. IsChain(fr.table, [prev EXCEPT ![fr.table] = top], Append(frames, fr))
      BY <2>1, <2>6, <2>7, <2>8, <2>10, <3>1, ChainPush DEF TypeOK
    <3>3. IsChain(top', prev', frames')
      BY <2>4, <2>7, <3>2
    <3>4. prev'[Global] = NULL
      BY <2>1, <2>4, <2>5, <2>10, ScopesAssumption DEF ChainIsContexts, AllTables
    <3> QED BY <2>2, <2>4, <2>9, <3>3, <3>4 DEF ChainIsContexts
  <2>13. TablesLive'
    BY <1>3, <2>1, <2>4, <2>5 DEF TablesLive, Defined, t
  <2>14. HeaderOK' /\ ErrorInBody'
    BY <2>2, <2>4 DEF HeaderOK, ErrorInBody
  <2>15. CallsOK'
    <3>1. \A i \in DOMAIN frames' :
            /\ funs'[frames'[i].fn] # NULL
            /\ funs'[frames'[i].fn].scope = frames'[i].table
            /\ frames'[i].from = prev'[frames'[i].table]
      <4> SUFFICES ASSUME NEW i \in DOMAIN frames'
                   PROVE  /\ funs'[frames'[i].fn] # NULL
                          /\ funs'[frames'[i].fn].scope = frames'[i].table
                          /\ frames'[i].from = prev'[frames'[i].table]
        OBVIOUS
      <4>1. CASE i = Len(frames) + 1
        BY <1>3, <2>4, <2>7, <2>9, <2>10, <4>1 DEF Defined, t
      <4>2. CASE i \in DOMAIN frames
        BY <2>1, <2>4, <2>8, <2>9, <2>10, <4>2 DEF CallsOK, Defined
      <4> QED BY <2>9, <4>1, <4>2
    <3>2. \A i, j \in DOMAIN frames' : frames'[i].fn = frames'[j].fn => i = j
      BY <2>1, <2>3, <2>7, <2>9 DEF CallsOK
    <3> QED BY <3>1, <3>2 DEF CallsOK, Defined
  <2>16. DefsOK'
    BY <2>1, <2>4 DEF DefsOK, Defined
  <2> QED BY <2>11, <2>12, <2>13, <2>14, <2>15, <2>16 DEF IInv
<1> QED BY <1>1, <1>2, <1>3

(* One argument of the innermost call. *)
LEMMA NextArgInv ==
  ASSUME IInv, NextArg
  PROVE  IInv'
<1>1. TypeOK /\ HeaderOK /\ ErrorInBody
  BY DEF IInv
<1> DEFINE fr == [frames[Len(frames)] EXCEPT !.left = @ - 1]
<1>2. /\ frames # <<>> /\ Last(frames).left > 0 /\ hdr = NULL
      /\ frames' = [frames EXCEPT ![Len(frames)] = fr]
      /\ UNCHANGED <<top, prev, syms, live, funs, hdr, defs, errors, status>>
  BY DEF NextArg, Running, scopeVars
<1>3. /\ frames \in Seq(Frame) /\ frames[Len(frames)] \in Frame
      /\ Len(frames) \in 1..Len(frames) /\ DOMAIN frames = 1..Len(frames)
  BY <1>1, <1>2, FrontProperties DEF TypeOK, Last
<1>4. fr \in Frame
  <2>1. frames[Len(frames)].left - 1 \in 0..MaxArgs
    BY <1>2, <1>3, CallsAssumption DEF Frame, Last
  <2> QED BY <1>3, <2>1 DEF Frame
<1>5. LET old == frames[Len(frames)]
      IN fr.fn = old.fn /\ fr.table = old.table /\ fr.from = old.from
  BY <1>3 DEF Frame
<1> HIDE DEF fr
<1>6. /\ frames' \in Seq(Frame)
      /\ Len(frames') = Len(frames)
      /\ \A i \in 1..Len(frames) : frames'[i] = IF i = Len(frames) THEN fr ELSE frames[i]
  BY <1>2, <1>3, <1>4, ExceptSeq
<1>7. /\ DOMAIN frames' = DOMAIN frames
      /\ \A i \in DOMAIN frames : /\ frames'[i].fn = frames[i].fn
                                  /\ frames'[i].table = frames[i].table
                                  /\ frames'[i].from = frames[i].from
  BY <1>3, <1>5, <1>6, LenProperties
<1>8. TypeOK' /\ HeaderOK' /\ ErrorInBody'
  BY <1>1, <1>2, <1>6 DEF TypeOK, ScopesTypeOK, HeaderOK, ErrorInBody
<1> QED BY <1>2, <1>7, <1>8, SameContexts

(* A return takes the table of its call off the chain. *)
LEMMA ReturnInv ==
  ASSUME IInv, Return
  PROVE  IInv'
<1>1. CASE PopFails
  BY <1>1, EndsInv DEF Return
<1>2. CASE ~PopFails
  <2>1. TypeOK /\ ChainIsContexts /\ TablesLive /\ HeaderOK /\ CallsOK /\ DefsOK
    BY DEF IInv
  <2>2. /\ frames # <<>> /\ defs = <<>> /\ hdr = NULL /\ ~errors
        /\ top' = prev[top] /\ prev[top] # NULL
        /\ frames' = Front(frames)
        /\ UNCHANGED <<prev, syms, live, funs, hdr, defs, errors, status>>
    BY <1>2 DEF Return, Running, PopFails, Pop
  <2>3. /\ frames' \in Seq(Frame)
        /\ Len(frames) \in Nat \ {0} /\ DOMAIN frames = 1..Len(frames)
        /\ DOMAIN frames' = 1..(Len(frames) - 1)
        /\ \A i \in 1..(Len(frames) - 1) : frames'[i] = frames[i]
    BY <2>1, <2>2, FrontProperties DEF TypeOK
  <2>4. IsChain(top, prev, frames)
    BY <2>1, <2>2 DEF ChainIsContexts
  <2>5. IsChain(top', prev', frames')
    BY <2>1, <2>2, <2>4, ChainPop DEF TypeOK
  <2>6. TypeOK'
    <3>1. ScopesTypeOK'
      BY <2>1, <2>2 DEF TypeOK, ScopesTypeOK
    <3> QED BY <2>1, <2>2, <2>3, <3>1 DEF TypeOK
  <2>7. ChainIsContexts'
    <3>1. prev'[Global] = NULL /\ defs' = <<>>
      BY <2>1, <2>2 DEF ChainIsContexts
    <3>2. frames' = <<>> => IsChain(top', prev', defs')
      BY <2>5, <3>1
    <3> QED BY <2>5, <3>1, <3>2 DEF ChainIsContexts
  <2>8. CallsOK'
    BY <2>1, <2>2, <2>3 DEF CallsOK, Defined
  <2>9. TablesLive'
    <3>1. top' \in live
      <4>1. top' = Global \/ \E i \in DOMAIN frames : top' = frames[i].table
        <5>1. frames' # <<>> => Len(frames') \in DOMAIN frames'
          BY <2>3, FrontProperties
        <5>2. \A i \in DOMAIN frames' : i \in DOMAIN frames /\ frames'[i] = frames[i]
          BY <2>3
        <5> QED BY <2>5, <5>1, <5>2 DEF IsChain, Last
      <4>2. \A i \in DOMAIN frames : frames[i].table \in live
        <5>1. \A i \in DOMAIN frames :
                frames[i].fn \in Funs /\ frames[i].table # NULL
          BY <2>1, StackTypes, ScopesAssumption
        <5> QED BY <2>1, <5>1 DEF CallsOK, TablesLive
      <4> QED BY <2>1, <4>1, <4>2 DEF TablesLive
    <3> QED BY <2>1, <2>2, <3>1 DEF TablesLive, Defined
  <2>10. HeaderOK' /\ ErrorInBody'
    BY <2>2 DEF HeaderOK, ErrorInBody
  <2>11. DefsOK'
    BY <2>1, <2>2 DEF DefsOK, Defined
  <2> QED BY <2>6, <2>7, <2>8, <2>9, <2>10, <2>11 DEF IInv
<1> QED BY <1>1, <1>2

-----------------------------------------------------------------------------
(* Every step of the specification preserves the invariant. *)
LEMMA NextInv ==
  ASSUME NoRecursion, IInv, [Next]_vars
  PROVE  IInv'
<1>1. ASSUME NEW f \in Funs, StartHeader(f) PROVE IInv'
  BY <1>1, StartHeaderInv
<1>2. ASSUME NEW x \in Ids, AddArg(x) \/ DeclareLocal(x) \/ RefId(x) PROVE IInv'
  BY <1>2, AddArgInv, DeclareLocalInv, RefIdInv
<1>3. CASE HeaderError \/ ParseError \/ EndDefinition
  BY <1>3, HeaderErrorInv, ParseErrorInv, EndDefinitionInv
<1>4. ASSUME NEW t \in Tables, OpenBody(t) PROVE IInv'
  BY <1>4, OpenBodyInv
<1>5. ASSUME NEW g \in Funs, NEW n \in 0..MaxArgs, ParseCall(g, n) \/ Call(g, n)
      PROVE  IInv'
  BY <1>5, ParseCallInv, CallInv
<1>6. CASE NextArg \/ Return
  BY <1>6, NextArgInv, ReturnInv
<1>7. ASSUME NEW x \in Ids, UseId(x) PROVE IInv'
  BY <1>7, EndsInv DEF UseId
<1>8. CASE UNCHANGED vars
  <2>1. Ends(status) /\ status \in {"ok", "exited", "undefined", "hung"}
    BY <1>8 DEF Ends, vars, callVars, IInv, TypeOK
  <2> QED BY <2>1, EndsInv
<1>9. CASE Next
  BY <1>1, <1>2, <1>3, <1>4, <1>5, <1>6, <1>7, <1>9 DEF Next, Parse, Execute
<1> QED BY <1>8, <1>9

(* The inductive invariant holds throughout. *)
THEOREM Invariance == ASSUME NoRecursion PROVE Spec => []IInv
<1>1. Init => IInv
  BY InitInv
<1>2. IInv /\ [Next]_vars => IInv'
  BY NextInv
<1> QED BY <1>1, <1>2, PTL DEF Spec

(* The interpreter's tables stay well-typed; in particular a complete function
   always has a scope when it is called (function.c, traverse_func_call). *)
THEOREM TypeCorrect == ASSUME NoRecursion PROVE Spec => []TypeOK
<1>1. IInv => TypeOK
  BY DEF IInv
<1> QED BY <1>1, Invariance, PTL

(* Without recursion the scope chain is the stack of the definitions or calls
   in progress (symbol_table_push, symbol_table_set_scope, symbol_table_pop). *)
THEOREM ScopeChain == ASSUME NoRecursion PROVE Spec => []ChainIsContexts
<1>1. IInv => ChainIsContexts
  BY DEF IInv
<1> QED BY <1>1, Invariance, PTL

(* Without recursion no freed symbol table is reachable and none is freed twice
   (symbol_table_destroy in function_destroy). *)
THEOREM NoFreedTable == ASSUME NoRecursion PROVE Spec => []TablesLive
<1>1. IInv => TablesLive
  BY DEF IInv
<1> QED BY <1>1, Invariance, PTL

(* Without recursion the prompt always finds the global table, which is what
   CallsRecursive.cfg refutes when a function may call itself. *)
THEOREM PromptIsGlobal == ASSUME NoRecursion PROVE Spec => []GlobalAtPrompt
<1>1. IInv => GlobalAtPrompt
  BY DEF IInv, ChainIsContexts, IsChain, GlobalAtPrompt
<1> QED BY <1>1, Invariance, PTL

(* Without recursion a return makes current the table that was current before
   the call (symbol_table_pop in traverse_func_call). *)
THEOREM ReturnsRestore == ASSUME NoRecursion PROVE Spec => ScopeRestored
<1>1. ASSUME IInv, [Next]_vars, Len(frames') < Len(frames)
      PROVE  top' = Last(frames).from
  <2>1. frames \in Seq(Frame) /\ Len(frames) \in Nat
    BY <1>1, LenProperties DEF IInv, TypeOK
  <2>2. frames' # frames
    BY <1>1, <2>1
  <2>3. Return \/ NextArg \/ \E g \in Funs, n \in 0..MaxArgs : Call(g, n)
    BY <1>1, <2>2 DEF Next, Parse, Execute, StartHeader, AddArg, HeaderError, OpenBody,
       DeclareLocal, RefId, ParseCall, ParseError, EndDefinition, UseId, Ends, vars, callVars
  <2>4. CASE Return
    <3>1. frames # <<>> /\ defs = <<>> /\ top' = prev[top]
      BY <2>2, <2>4 DEF Return, Running, Pop, Ends
    <3>2. Len(frames) \in DOMAIN frames
      BY <2>1, <3>1, FrontProperties
    <3>3. Last(frames).table = top /\ Last(frames).from = prev[Last(frames).table]
      BY <1>1, <3>1, <3>2 DEF IInv, ChainIsContexts, IsChain, CallsOK, Last
    <3> QED BY <3>1, <3>3
  <2>5. ASSUME NextArg PROVE FALSE
    <3>1. PICK fr : frames' = [frames EXCEPT ![Len(frames)] = fr]
      BY <2>5 DEF NextArg
    <3>2. Len(frames') = Len(frames)
      BY <2>1, <3>1
    <3> QED BY <1>1, <2>1, <3>2
  <2>6. ASSUME NEW g \in Funs, NEW n \in 0..MaxArgs, Call(g, n) PROVE FALSE
    <3>1. PICK fr : frames' = Append(frames, fr)
      BY <2>2, <2>6 DEF Call, Ends
    <3>2. Len(frames') = Len(frames) + 1
      BY <2>1, <3>1
    <3> QED BY <1>1, <2>1, <3>2
  <2> QED BY <2>3, <2>4, <2>5, <2>6
<1>2. IInv /\ [Next]_vars => [Len(frames') < Len(frames) => top' = Last(frames).from]_vars
  BY <1>1
<1>3. Spec => [][Next]_vars
  BY PTL DEF Spec
<1> QED BY <1>2, <1>3, Invariance, PTL DEF ScopeRestored
=============================================================================
