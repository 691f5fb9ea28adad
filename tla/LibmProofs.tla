------------------------------ MODULE LibmProofs ------------------------------
(* Proofs about module Libm, for all operands: how operations end; that the
   exponent of every numeral is computed exactly, whatever the number of digits
   of its fraction and the exponent it is written with; and what the product of
   the reference is: a sum at every position, with which the square matrices of
   one size are a monoid. *)
EXTENDS Libm, FiniteSetTheorems, SequenceTheorems, WellFoundedInduction, TLAPS

(* What the loop of get_next_token has and what it has still to do. *)
ToDo(b, n) == IF Power10 < 0 THEN -(b * n) ELSE b * n

LiteralInv ==
  /\ task \in Tasks
  /\ task.op = "literal" =>
       /\ pc # "power"
       /\ pc = "literal" => /\ base \in Nat /\ acc \in Int /\ pow \in Nat
                            /\ acc + ToDo(base, pow) = Power10
       /\ pc = "done" => res.val.elem = Power10

(* The power of a numeral is a number. *)
LEMMA PowerIsInt ==
  ASSUME task \in Tasks, task.op = "literal"
  PROVE  Power10 \in Int
  BY LibmAssumption DEF LibmAssumption, Literals, Ops, Relations, Power10

(* A turn of the loop moves the lowest bit of the exponent to the other side. *)
LEMMA Halved ==
  ASSUME NEW b \in Nat, NEW n \in Nat
  PROVE  /\ Shift(n) \in Nat
         /\ Odd(n)  => b * n = b + (b + b) * Shift(n)
         /\ ~Odd(n) => b * n = (b + b) * Shift(n)
<1> DEFINE k == n \div 2
<1>1. k \in Nat /\ n % 2 \in {0, 1} /\ n = 2 * k + (n % 2)
  OBVIOUS
<1>2. ASSUME NEW m \in Nat PROVE b * (2 * m) = (b + b) * m /\ b * (2 * m + 1) = b + (b + b) * m
  OBVIOUS
<1>3. CASE Odd(n)
  <2>1. n = 2 * k + 1
    BY <1>1, <1>3 DEF Odd
  <2> QED
    BY <1>1, <1>2, <1>3, <2>1 DEF Shift
<1>4. CASE ~Odd(n)
  <2>1. n = 2 * k
    BY <1>1, <1>4 DEF Odd
  <2> QED
    BY <1>1, <1>2, <1>4, <2>1 DEF Shift
<1> QED
  BY <1>3, <1>4

LEMMA InitLiteral == Init => LiteralInv
  BY DEF Init, LiteralInv

(* Scale is the only step that changes what has been scaled. *)
LEMMA ScaleLiteral == LiteralInv /\ Scale => LiteralInv'
<1> SUFFICES ASSUME LiteralInv, Scale PROVE LiteralInv'
  OBVIOUS
<1>1. task' = task /\ pc' = "literal" /\ pc = "literal"
  BY DEF Scale
<1> SUFFICES ASSUME task.op = "literal" PROVE LiteralInv'
  BY <1>1 DEF LiteralInv
<1>2. task.op = "literal" /\ base \in Nat /\ acc \in Int /\ pow \in Nat
      /\ acc + ToDo(base, pow) = Power10
  BY <1>1 DEF LiteralInv
<1>3. Power10 \in Int /\ Power10' = Power10
  BY <1>1, <1>2, PowerIsInt DEF LiteralInv, Power10
<1>4. base' = base + base /\ pow' = Shift(pow) /\ base' \in Nat /\ pow' \in Nat
  BY <1>2, Halved DEF Scale
<1> DEFINE rest == base' * pow'
<1>5. rest \in Int /\ base * pow \in Int
  BY <1>2, <1>4
<1>6. acc' \in Int /\ acc' + (IF Power10 < 0 THEN -rest ELSE rest) = Power10
  <2>1. CASE Odd(pow)
    <3>1. base * pow = base + rest
      BY <1>2, <1>4, <2>1, Halved
    <3>2. acc' = IF Power10 < 0 THEN acc - base ELSE acc + base
      BY <2>1 DEF Scale
    <3>3. acc + (IF Power10 < 0 THEN -(base * pow) ELSE base * pow) = Power10
      BY <1>2 DEF ToDo
    <3> HIDE DEF rest
    <3> QED
      BY <1>2, <1>3, <1>5, <3>1, <3>2, <3>3
  <2>2. CASE ~Odd(pow)
    <3>1. base * pow = rest
      BY <1>2, <1>4, <2>2, Halved
    <3>2. acc' = acc
      BY <2>2 DEF Scale
    <3> QED
      BY <1>2, <3>1, <3>2 DEF ToDo
  <2> QED
    BY <2>1, <2>2
<1>7. (acc + ToDo(base, pow) = Power10)'
  BY <1>3, <1>6 DEF ToDo
<1> QED
  BY <1>1, <1>2, <1>4, <1>6, <1>7 DEF LiteralInv

LEMMA NextLiteral == LiteralInv /\ [Next]_vars => LiteralInv'
<1> SUFFICES ASSUME LiteralInv, [Next]_vars PROVE LiteralInv'
  OBVIOUS
<1>1. CASE Operate
  BY <1>1 DEF Operate, LiteralInv
<1>2. CASE StartPower
  BY <1>2 DEF StartPower, IsPower, LiteralInv
<1>3. CASE SquareBase
  BY <1>3 DEF SquareBase, LiteralInv
<1>4. CASE EndPower
  BY <1>4 DEF EndPower, LiteralInv
<1>5. CASE StartLiteral
  <2>1. Power10 \in Int /\ task.op = "literal" /\ task' = task
    BY <1>5, PowerIsInt DEF StartLiteral, LiteralInv
  <2>2. Power10' = Power10
    BY <2>1 DEF Power10
  <2>3. base' = 1 /\ acc' = 0 /\ pow' = (IF Power10 < 0 THEN -Power10 ELSE Power10)
        /\ pc' = "literal"
    BY <1>5 DEF StartLiteral
  <2>4. pow' \in Nat /\ acc' + (IF Power10 < 0 THEN -(base' * pow') ELSE base' * pow') = Power10
    BY <2>1, <2>3
  <2>5. (acc + ToDo(base, pow) = Power10)'
    BY <2>2, <2>4 DEF ToDo
  <2> QED
    BY <2>1, <2>3, <2>4, <2>5 DEF LiteralInv
<1>6. CASE Scale
  BY <1>6, ScaleLiteral
<1>7. CASE EndLiteral
  <2>1. pc = "literal" /\ pow = 0 /\ task' = task /\ pc' = "done" /\ res'.val.elem = acc
    BY <1>7 DEF EndLiteral
  <2> SUFFICES ASSUME task.op = "literal" PROVE LiteralInv'
    BY <2>1 DEF LiteralInv
  <2>2. Power10 \in Int /\ Power10' = Power10 /\ base \in Nat /\ acc \in Int
        /\ acc + ToDo(base, 0) = Power10
    BY <2>1, PowerIsInt DEF LiteralInv, Power10
  <2>3. acc = Power10
    BY <2>2 DEF ToDo
  <2> QED
    BY <2>1, <2>2, <2>3 DEF LiteralInv
<1>8. CASE UNCHANGED vars
  BY <1>8 DEF vars, LiteralInv, ToDo, Power10
<1> QED
  BY <1>1, <1>2, <1>3, <1>4, <1>5, <1>6, <1>7, <1>8 DEF Next

(* get_next_token scales every numeral by exactly its exponent less the number
   of digits of its fraction. *)
THEOREM NumeralsExact == Spec => []LiteralExact
<1>1. LiteralInv => LiteralExact
  BY DEF LiteralInv, LiteralExact, ToDo
<1> QED
  BY <1>1, InitLiteral, NextLiteral, PTL DEF Spec

-----------------------------------------------------------------------------
(* Types.  Every operation ends in a way of its own: with a value or without one
   if it returns, without one if it does not. *)
Endings == {"done", "exited", "undefined"}

Ending(o) ==
  /\ o.end \in Endings
  /\ o.told \in BOOLEAN
  /\ o.end # "done" => o.val = Null

AllEnd(S) == \A o \in S : Ending(o)

LEMMA Answers ==
  /\ \A v : AllEnd(Gives(v)) /\ AllEnd(Told(v))
  /\ AllEnd(Refused) /\ AllEnd(NoAnswer)
  /\ AllEnd(Ends("exited")) /\ AllEnd(Ends("undefined"))
  /\ \A S, T : AllEnd(S) /\ AllEnd(T) => AllEnd(S \cup T)
<1>1. \A v : AllEnd(Gives(v)) /\ AllEnd(Told(v))
  BY DEF Gives, Told, AllEnd, Ending, Endings
<1>2. AllEnd(Ends("exited")) /\ AllEnd(Ends("undefined"))
  BY DEF Ends, AllEnd, Ending, Endings
<1> QED
  BY <1>1, <1>2 DEF Refused, NoAnswer, AllEnd

LEMMA AddOpEnds == ASSUME NEW a, NEW b, NEW op PROVE AllEnd(AddOp(a, b, op))
<1>1. AllEnd(DigitArrayAdd(a.elem, b, op)) /\ AllEnd(DigitArrayAdd(b.elem, a, op))
  BY Answers DEF DigitArrayAdd
<1>2. AllEnd(VectorAdd(a, b, op))
  BY Answers DEF VectorAdd
<1>3. AllEnd(MatrixAdd(a, b, op))
  BY Answers DEF MatrixAdd
<1> QED
  BY <1>1, <1>2, <1>3, Answers DEF AddOp

LEMMA MultOpEnds ==
  ASSUME NEW a, NEW b, NEW op \in {"*", "/"} PROVE AllEnd(MultOp(a, b, op))
<1>1. \A v, x : AllEnd(ArrayDigitMult(v, x, op))
  BY Answers DEF ArrayDigitMult
<1>2. AllEnd(VectorMult(a, b, op))
  BY Answers DEF VectorMult
<1>3. AllEnd(VectorMatrixMult(a, b, op))
  <2>1. CASE op = "*"
    BY <2>1, Answers DEF VectorMatrixMult
  <2>2. CASE op = "/"
    <3>1. AllEnd({})
      BY DEF AllEnd
    <3>2. AllEnd(IF Len(a.elem) = Rows(b) THEN Gives(AllReal(a)) ELSE {})
      BY <3>1, Answers
    <3>3. AllEnd(Told(AllGarbage(Rows(b)))
                 \cup (IF Len(a.elem) = Rows(b) THEN Gives(AllReal(a)) ELSE {}))
      BY <3>2, Answers
    <3> QED
      BY <2>2, <3>3, Answers DEF VectorMatrixMult
  <2> QED
    BY <2>1, <2>2
<1>4. AllEnd(MatrixVectorMult(a, b, op))
  BY Answers DEF MatrixVectorMult
<1>5. AllEnd(MatrixMult(a, b, op))
  BY Answers DEF MatrixMult
<1> QED
  BY <1>1, <1>2, <1>3, <1>4, <1>5, Answers DEF MultOp

LEMMA LogicOpEnds == ASSUME NEW a, NEW b, NEW op PROVE AllEnd(LogicOp(a, b, op))
<1>1. \A x, v : AllEnd(DigitArrayLogic(x, v, op))
  BY Answers DEF DigitArrayLogic
<1>2. AllEnd(VectorLogic(a, b, op))
  BY Answers DEF VectorLogic
<1>3. AllEnd(MatrixLogic(a, b, op))
  BY Answers DEF MatrixLogic
<1> QED
  BY <1>1, <1>2, <1>3, Answers DEF LogicOp

LEMMA RelOpEnds == ASSUME NEW a, NEW b, NEW op PROVE AllEnd(RelOp(a, b, op))
<1>1. AllEnd(DigitVectorRel(b))
  BY Answers DEF DigitVectorRel, AllEnd
<1>2. AllEnd(VectorRel(a, b, op))
  BY Answers DEF VectorRel
<1>3. AllEnd(MatrixRel(a, b, op))
  BY Answers DEF MatrixRel
<1> QED
  BY <1>1, <1>2, <1>3, Answers DEF RelOp

LEMMA OutcomesEnd ==
  ASSUME NEW a, NEW b, NEW op \in Ops PROVE AllEnd(Outcomes(a, b, op))
<1>1. op \in {"*", "/"} => AllEnd(MultOp(a, b, op))
  BY MultOpEnds
<1> QED
  BY <1>1, AddOpEnds, LogicOpEnds, RelOpEnds, Answers DEF Outcomes, Ops

(* The powers keep the type of the operand that is squared. *)
LEMMA PowerTypes ==
  ASSUME NEW a, NEW x, NEW y, a.type \in {"digit", "matrix"}
  PROVE  /\ One(a).type = a.type
         /\ x.type = a.type => Times(x, y).type = a.type
  BY DEF One, Times, Identity, Product, Digit, Matrix

LEMMA ShiftIsInt == ASSUME NEW n \in Int PROVE Shift(n) \in Int
  BY DEF Shift

LEMMA NextTyped == TypeOK /\ [Next]_vars => TypeOK'
<1> SUFFICES ASSUME TypeOK, [Next]_vars PROVE TypeOK'
  OBVIOUS
<1>0. task \in Tasks /\ (task.op # "literal" => task.op \in Ops)
      /\ (IsPower(task) => task.b.elem \in Int /\ task.a.type \in {"digit", "matrix"})
  BY LibmAssumption DEF LibmAssumption, Literals, TypeOK, IsPower, HasPower, Ops, Relations
<1>1. CASE Operate
  <2>1. PICK o \in Outcomes(task.a, task.b, task.op) :
          pc' = o.end /\ res' = [val |-> o.val, told |-> o.told]
    BY <1>1 DEF Operate
  <2>2. Ending(o)
    BY <1>0, <1>1, <2>1, OutcomesEnd DEF Operate, AllEnd
  <2> QED
    BY <1>1, <2>1, <2>2 DEF Operate, TypeOK, Ending, Endings
<1>2. CASE StartPower
  <2>1. IsPower(task) /\ task' = task /\ pc' = "power" /\ res' = res
        /\ base' = task.a /\ acc' \in {task.a, One(task.a)} /\ pow' = Shift(task.b.elem)
    BY <1>2 DEF StartPower
  <2>2. acc'.type = task.a.type /\ pow' \in Int
    BY <1>0, <2>1, PowerTypes, ShiftIsInt
  <2>3. IsPower(task)' /\ res.val = Null
    BY <1>2, <2>1 DEF StartPower, TypeOK
  <2> QED
    BY <2>1, <2>2, <2>3 DEF TypeOK
<1>3. CASE SquareBase
  <2>1. task' = task /\ pc = "power" /\ pc' = pc /\ res' = res
        /\ base' = Times(base, base) /\ acc' \in {Times(base', acc), acc}
        /\ pow' = Shift(pow)
    BY <1>3 DEF SquareBase
  <2>2. IsPower(task) /\ acc.type = task.a.type /\ base.type = task.a.type /\ pow \in Int
        /\ res.val = Null
    BY <2>1 DEF TypeOK
  <2>3. base'.type = task.a.type
    BY <1>0, <2>1, <2>2, PowerTypes
  <2>4. acc'.type = task.a.type /\ pow' \in Int
    BY <1>0, <2>1, <2>2, <2>3, PowerTypes, ShiftIsInt
  <2>5. IsPower(task)'
    BY <2>1, <2>2
  <2> QED
    BY <2>1, <2>2, <2>3, <2>4, <2>5 DEF TypeOK
<1>4. CASE EndPower
  BY <1>4 DEF EndPower, TypeOK
<1>5. CASE StartLiteral
  <2>1. Power10 \in Int
    BY <1>0, <1>5, PowerIsInt DEF StartLiteral
  <2>2. pow' \in Nat
    BY <1>5, <2>1 DEF StartLiteral
  <2> QED
    BY <1>5, <2>2 DEF StartLiteral, TypeOK
<1>6. CASE Scale
  <2>1. task.op = "literal" /\ base \in Nat /\ acc \in Int /\ pow \in Nat /\ pc = "literal"
    BY <1>6 DEF Scale, TypeOK
  <2>2. pow' \in Nat
    BY <1>6, <2>1, Halved DEF Scale
  <2>3. acc' \in {acc, acc - base, acc + base} /\ base' = base + base
    BY <1>6 DEF Scale
  <2>4. acc' \in Int /\ base' \in Nat
    BY <2>1, <2>3
  <2> QED
    BY <1>6, <2>1, <2>2, <2>4 DEF Scale, TypeOK
<1>7. CASE EndLiteral
  BY <1>7 DEF EndLiteral, TypeOK
<1>8. CASE UNCHANGED vars
  BY <1>8 DEF vars, TypeOK, IsPower
<1> QED
  BY <1>1, <1>2, <1>3, <1>4, <1>5, <1>6, <1>7, <1>8 DEF Next

(* Every operation on every pair of operands ends in one of the ways there are,
   without a value if it does not return; a power keeps the type of its base. *)
THEOREM TypeCorrect == Spec => []TypeOK
<1>1. Init => TypeOK
  BY DEF Init, TypeOK
<1> QED
  BY <1>1, NextTyped, PTL DEF Spec

-----------------------------------------------------------------------------
(* Induction over a set of numbers. *)
LEMMA Inductive ==
  ASSUME NEW S, 0 \in S, \A n \in Nat : n \in S => n + 1 \in S
  PROVE  Nat \subseteq S
<1> DEFINE less == OpToRel(<, Nat)
<1>1. \A a, b \in Nat : <<a, b>> \in less <=> a < b
  BY DEF OpToRel
<1>2. IsWellFoundedOn(less, Nat)
  BY NatLessThanWellFounded
<1> HIDE DEF less
<1> DEFINE T == Nat \ S
<1> SUFFICES ASSUME T # {} PROVE FALSE
  OBVIOUS
<1>3. PICK m \in T : \A j \in T : <<j, m>> \notin less
  BY <1>2, WFMin
<1>4. m \in Nat /\ m \notin S /\ m # 0
  OBVIOUS
<1>5. m - 1 \in Nat /\ m - 1 < m /\ (m - 1) + 1 = m
  BY <1>4
<1>6. m - 1 \notin T
  BY <1>1, <1>3, <1>4, <1>5
<1> QED
  BY <1>4, <1>5, <1>6

-----------------------------------------------------------------------------
(* Sums: the numbers g[1], ..., g[n] added from the first to the last. *)
Numbers(g, n) == \A k \in 1 .. n : g[k] \in Int

IsSums(f, g, n) ==
  /\ f \in [0 .. n -> Int] /\ f[0] = 0
  /\ \A k \in 1 .. n : f[k] = f[k - 1] + g[k]

SumTo(g, n) == (CHOOSE f : IsSums(f, g, n))[n]

LEMMA SumsExist ==
  ASSUME NEW n \in Nat, NEW g, Numbers(g, n) PROVE \E f : IsSums(f, g, n)
<1> DEFINE S == {k \in Nat : k > n \/ \E f : IsSums(f, g, k)}
<1>1. 0 \in S
  <2>1. IsSums([k \in 0 .. 0 |-> 0], g, 0)
    BY DEF IsSums
  <2> QED
    BY <2>1
<1>2. ASSUME NEW k \in Nat, k \in S PROVE k + 1 \in S
  <2>1. SUFFICES ASSUME k + 1 <= n PROVE \E f : IsSums(f, g, k + 1)
    OBVIOUS
  <2>2. PICK f : IsSums(f, g, k)
    BY <1>2, <2>1
  <2>3. k + 1 \in 1 .. n /\ g[k + 1] \in Int
    BY <2>1 DEF Numbers
  <2>4. f[k] + g[k + 1] \in Int /\ \A i \in 0 .. k : f[i] \in Int
    BY <2>2, <2>3 DEF IsSums
  <2> DEFINE h == [i \in 0 .. (k + 1) |-> IF i = k + 1 THEN f[k] + g[k + 1] ELSE f[i]]
  <2>5. h \in [0 .. (k + 1) -> Int]
    BY <2>4
  <2>6. \A i \in 0 .. (k + 1) : h[i] = IF i = k + 1 THEN f[k] + g[k + 1] ELSE f[i]
    OBVIOUS
  <2> HIDE DEF h
  <2>7. h[0] = 0
    BY <2>2, <2>6 DEF IsSums
  <2>8. ASSUME NEW i \in 1 .. (k + 1) PROVE h[i] = h[i - 1] + g[i]
    <3>1. i - 1 \in 0 .. (k + 1) /\ i - 1 # k + 1 /\ i \in 0 .. (k + 1)
      OBVIOUS
    <3>2. h[i - 1] = f[i - 1]
      BY <2>6, <3>1
    <3>3. CASE i = k + 1
      <4>1. i - 1 = k
        BY <3>3
      <4> QED
        BY <2>6, <3>1, <3>2, <3>3, <4>1
    <3>4. CASE i # k + 1
      <4>1. i \in 1 .. k
        BY <3>4
      <4> QED
        BY <2>2, <2>6, <3>1, <3>2, <3>4, <4>1 DEF IsSums
    <3> QED
      BY <3>3, <3>4
  <2>9. IsSums(h, g, k + 1)
    BY <2>5, <2>7, <2>8 DEF IsSums
  <2> QED
    BY <2>9
<1> HIDE DEF S
<1>3. n \in S
  BY <1>1, <1>2, Inductive
<1> QED
  BY <1>3 DEF S

LEMMA SumsAgree ==
  ASSUME NEW n \in Nat, NEW g, NEW h, \A k \in 1 .. n : g[k] = h[k],
         NEW e, IsSums(e, g, n), NEW f, IsSums(f, h, n)
  PROVE  e[n] = f[n]
<1> DEFINE S == {k \in Nat : k > n \/ e[k] = f[k]}
<1>1. 0 \in S
  BY DEF IsSums
<1>2. ASSUME NEW k \in Nat, k \in S PROVE k + 1 \in S
  <2>1. SUFFICES ASSUME k + 1 <= n PROVE e[k + 1] = f[k + 1]
    OBVIOUS
  <2>2. k + 1 \in 1 .. n /\ (k + 1) - 1 = k /\ e[k] = f[k]
    BY <1>2, <2>1
  <2> QED
    BY <2>2 DEF IsSums
<1> HIDE DEF S
<1>3. n \in S
  BY <1>1, <1>2, Inductive
<1> QED
  BY <1>3 DEF S

LEMMA SumIs ==
  ASSUME NEW n \in Nat, NEW g, Numbers(g, n)
  PROVE  /\ SumTo(g, n) \in Int
         /\ \A f : IsSums(f, g, n) => f[n] = SumTo(g, n)
<1> DEFINE e == CHOOSE f : IsSums(f, g, n)
<1>1. IsSums(e, g, n)
  BY SumsExist
<1>2. SumTo(g, n) = e[n]
  BY DEF SumTo
<1> HIDE DEF e
<1>3. e[n] \in Int
  BY <1>1 DEF IsSums
<1> QED
  BY <1>1, <1>2, <1>3, SumsAgree

(* Sums of the same numbers are the same. *)
LEMMA SumSame ==
  ASSUME NEW n \in Nat, NEW g, NEW h, Numbers(g, n), \A k \in 1 .. n : g[k] = h[k]
  PROVE  SumTo(g, n) = SumTo(h, n)
<1>1. Numbers(h, n)
  BY DEF Numbers
<1>2. PICK e : IsSums(e, g, n)
  BY SumsExist
<1>3. PICK f : IsSums(f, h, n)
  BY <1>1, SumsExist
<1> QED
  BY <1>1, <1>2, <1>3, SumIs, SumsAgree

LEMMA SumSteps ==
  ASSUME NEW g
  PROVE  /\ SumTo(g, 0) = 0
         /\ \A n \in Nat : Numbers(g, n + 1) =>
              Numbers(g, n) /\ SumTo(g, n + 1) = SumTo(g, n) + g[n + 1]
<1>1. SumTo(g, 0) = 0
  <2>1. Numbers(g, 0)
    BY DEF Numbers
  <2>2. PICK f : IsSums(f, g, 0)
    BY <2>1, SumsExist
  <2> QED
    BY <2>1, <2>2, SumIs DEF IsSums
<1>2. ASSUME NEW n \in Nat, Numbers(g, n + 1)
      PROVE  Numbers(g, n) /\ SumTo(g, n + 1) = SumTo(g, n) + g[n + 1]
  <2>1. Numbers(g, n)
    BY <1>2 DEF Numbers
  <2>2. PICK f : IsSums(f, g, n + 1)
    BY <1>2, SumsExist
  <2> DEFINE h == [k \in 0 .. n |-> f[k]]
  <2>3. IsSums(h, g, n)
    <3>1. \A k \in 0 .. n : k \in 0 .. (n + 1) /\ h[k] = f[k]
      OBVIOUS
    <3>2. \A k \in 1 .. n : k \in 1 .. (n + 1) /\ k \in 0 .. n /\ k - 1 \in 0 .. n
      OBVIOUS
    <3> QED
      BY <2>2, <3>1, <3>2 DEF IsSums
  <2>4. f[n + 1] = f[n] + g[n + 1]
    <3>1. n + 1 \in 1 .. (n + 1) /\ (n + 1) - 1 = n
      OBVIOUS
    <3> QED
      BY <2>2, <3>1 DEF IsSums
  <2>5. h[n] = f[n]
    OBVIOUS
  <2> HIDE DEF h
  <2>6. f[n + 1] = SumTo(g, n + 1)
    BY <1>2, <2>2, SumIs
  <2>7. h[n] = SumTo(g, n)
    BY <2>1, <2>3, SumIs
  <2> QED
    BY <2>1, <2>4, <2>5, <2>6, <2>7
<1> QED
  BY <1>1, <1>2

(* Sums are linear. *)
LEMMA SumOfSums ==
  ASSUME NEW n \in Nat, NEW a, NEW b, NEW c, Numbers(a, n), Numbers(b, n),
         \A k \in 1 .. n : c[k] = a[k] + b[k]
  PROVE  SumTo(c, n) = SumTo(a, n) + SumTo(b, n)
<1> DEFINE S == {k \in Nat : k > n \/ (SumTo(c, k) = SumTo(a, k) + SumTo(b, k))}
<1>0. Numbers(c, n)
  BY DEF Numbers
<1>1. 0 \in S
  BY SumSteps
<1>2. ASSUME NEW k \in Nat, k \in S PROVE k + 1 \in S
  <2>1. SUFFICES ASSUME k + 1 <= n
                 PROVE  SumTo(c, k + 1) = SumTo(a, k + 1) + SumTo(b, k + 1)
    OBVIOUS
  <2>2. Numbers(a, k + 1) /\ Numbers(b, k + 1) /\ Numbers(c, k + 1)
    BY <1>0, <2>1 DEF Numbers
  <2>3. /\ SumTo(a, k + 1) = SumTo(a, k) + a[k + 1]
        /\ SumTo(b, k + 1) = SumTo(b, k) + b[k + 1]
        /\ SumTo(c, k + 1) = SumTo(c, k) + c[k + 1]
        /\ Numbers(a, k) /\ Numbers(b, k)
    BY <2>2, SumSteps
  <2>4. k + 1 \in 1 .. n /\ k + 1 \in 1 .. k + 1
    BY <2>1
  <2>5. c[k + 1] = a[k + 1] + b[k + 1] /\ a[k + 1] \in Int /\ b[k + 1] \in Int
    BY <2>2, <2>4 DEF Numbers
  <2>6. SumTo(a, k) \in Int /\ SumTo(b, k) \in Int
    BY <2>3, SumIs
  <2>7. SumTo(c, k) = SumTo(a, k) + SumTo(b, k)
    BY <1>2, <2>1
  <2>8. \A p, q, r, s \in Int : (p + q) + (r + s) = (p + r) + (q + s)
    OBVIOUS
  <2> QED
    BY <2>3, <2>5, <2>6, <2>7, <2>8
<1> HIDE DEF S
<1>3. n \in S
  BY <1>1, <1>2, Inductive
<1> QED
  BY <1>3 DEF S

LEMMA SumOfMultiples ==
  ASSUME NEW n \in Nat, NEW a, NEW c, NEW x \in Int, Numbers(a, n),
         \/ \A k \in 1 .. n : c[k] = x * a[k]
         \/ \A k \in 1 .. n : c[k] = a[k] * x
  PROVE  SumTo(c, n) = x * SumTo(a, n) /\ SumTo(c, n) = SumTo(a, n) * x
<1> DEFINE S == {k \in Nat : k > n \/ SumTo(c, k) = x * SumTo(a, k)}
<1>a. \A p, q \in Int : p * q = q * p /\ p * q \in Int
  OBVIOUS
<1>b. \A k \in 1 .. n : c[k] = x * a[k] /\ c[k] \in Int
  BY <1>a DEF Numbers
<1>0. Numbers(c, n)
  BY <1>b DEF Numbers
<1>1. 0 \in S
  BY SumSteps
<1>2. ASSUME NEW k \in Nat, k \in S PROVE k + 1 \in S
  <2>1. SUFFICES ASSUME k + 1 <= n PROVE SumTo(c, k + 1) = x * SumTo(a, k + 1)
    OBVIOUS
  <2>2. Numbers(a, k + 1) /\ Numbers(c, k + 1)
    BY <1>0, <2>1 DEF Numbers
  <2>3. /\ SumTo(a, k + 1) = SumTo(a, k) + a[k + 1]
        /\ SumTo(c, k + 1) = SumTo(c, k) + c[k + 1]
        /\ Numbers(a, k)
    BY <2>2, SumSteps
  <2>4. k + 1 \in 1 .. n /\ k + 1 \in 1 .. k + 1
    BY <2>1
  <2>5. c[k + 1] = x * a[k + 1] /\ a[k + 1] \in Int
    BY <1>b, <2>2, <2>4 DEF Numbers
  <2>6. SumTo(a, k) \in Int
    BY <2>3, SumIs
  <2>7. SumTo(c, k) = x * SumTo(a, k)
    BY <1>2, <2>1
  <2>8. \A p, q \in Int : x * p + x * q = x * (p + q)
    OBVIOUS
  <2> QED
    BY <2>3, <2>5, <2>6, <2>7, <2>8
<1> HIDE DEF S
<1>3. n \in S
  BY <1>1, <1>2, Inductive
<1>4. SumTo(a, n) \in Int
  BY SumIs
<1> QED
  BY <1>3, <1>4, <1>a DEF S

LEMMA SumOfZeros ==
  ASSUME NEW n \in Nat, NEW a, \A k \in 1 .. n : a[k] = 0
  PROVE  SumTo(a, n) = 0
<1>1. Numbers(a, n)
  BY DEF Numbers
<1>2. SumTo(a, n) = 0 * SumTo(a, n)
  <2>1. \A k \in 1 .. n : a[k] = 0 * a[k]
    OBVIOUS
  <2> QED
    BY <1>1, <2>1, SumOfMultiples
<1>3. SumTo(a, n) \in Int
  BY <1>1, SumIs
<1> QED
  BY <1>2, <1>3

(* One number that is changed. *)
Changed(a, b, n, i, d) ==
  \A k \in 1 .. n : b[k] = IF k = i THEN a[k] + d ELSE a[k]

LEMMA SumChanged ==
  ASSUME NEW n \in Nat, NEW a, NEW b, NEW i \in 1 .. n, NEW d \in Int, Numbers(a, n),
         Changed(a, b, n, i, d)
  PROVE  SumTo(b, n) = SumTo(a, n) + d
<1>a. \A k \in 1 .. n : b[k] = IF k = i THEN a[k] + d ELSE a[k]
  BY DEF Changed
<1> DEFINE S == {k \in Nat : k > n \/ SumTo(b, k) = (IF k < i THEN SumTo(a, k) ELSE SumTo(a, k) + d)}
<1>0. Numbers(b, n)
  BY <1>a DEF Numbers
<1>1. 0 \in S
  BY SumSteps
<1>2. ASSUME NEW k \in Nat, k \in S PROVE k + 1 \in S
  <2>1. SUFFICES ASSUME k + 1 <= n
                 PROVE  SumTo(b, k + 1) =
                          (IF k + 1 < i THEN SumTo(a, k + 1) ELSE SumTo(a, k + 1) + d)
    OBVIOUS
  <2>2. Numbers(a, k + 1) /\ Numbers(b, k + 1)
    BY <1>0, <2>1 DEF Numbers
  <2>3. /\ SumTo(a, k + 1) = SumTo(a, k) + a[k + 1]
        /\ SumTo(b, k + 1) = SumTo(b, k) + b[k + 1]
        /\ Numbers(a, k)
    BY <2>2, SumSteps
  <2>4. k + 1 \in 1 .. n /\ k + 1 \in 1 .. k + 1
    BY <2>1
  <2>5. b[k + 1] = (IF k + 1 = i THEN a[k + 1] + d ELSE a[k + 1]) /\ a[k + 1] \in Int
    BY <1>a, <2>2, <2>4 DEF Numbers
  <2>6. SumTo(a, k) \in Int
    BY <2>3, SumIs
  <2>7. SumTo(b, k) = (IF k < i THEN SumTo(a, k) ELSE SumTo(a, k) + d)
    BY <1>2, <2>1
  <2>8. CASE k + 1 < i
    <3>1. k < i /\ k + 1 # i
      BY <2>8
    <3> QED
      BY <2>3, <2>5, <2>7, <2>8, <3>1
  <2>9. CASE k + 1 = i
    <3>1. k < i /\ ~(k + 1 < i)
      BY <2>9
    <3>2. \A p, q \in Int : p + (q + d) = (p + q) + d
      OBVIOUS
    <3> QED
      BY <2>3, <2>5, <2>6, <2>7, <2>9, <3>1, <3>2
  <2>10. CASE k + 1 > i
    <3>1. ~(k < i) /\ k + 1 # i /\ ~(k + 1 < i)
      BY <2>10
    <3>2. \A p, q \in Int : (p + d) + q = (p + q) + d
      OBVIOUS
    <3> QED
      BY <2>3, <2>5, <2>6, <2>7, <3>1, <3>2
  <2> QED
    BY <2>8, <2>9, <2>10
<1> HIDE DEF S
<1>3. n \in S
  BY <1>1, <1>2, Inductive
<1> QED
  BY <1>0, <1>3 DEF S

(* A sum of which only one number is not zero. *)
LEMMA SumOfOne ==
  ASSUME NEW n \in Nat, NEW a, NEW i \in 1 .. n, a[i] \in Int,
         \A k \in 1 .. n : k # i => a[k] = 0
  PROVE  SumTo(a, n) = a[i]
<1> DEFINE z == [k \in 1 .. n |-> 0]
<1>1. \A k \in 1 .. n : z[k] = 0
  OBVIOUS
<1> HIDE DEF z
<1>2. Numbers(z, n) /\ SumTo(z, n) = 0
  BY <1>1, SumOfZeros DEF Numbers
<1>3. PICK d \in Int : d = a[i]
  OBVIOUS
<1>4. Changed(z, a, n, i, d)
  BY <1>1, <1>3 DEF Changed
<1>5. SumTo(a, n) = SumTo(z, n) + d
  BY <1>2, <1>4, SumChanged
<1> QED
  BY <1>2, <1>3, <1>5

(* The order of two sums does not matter: r are the sums of the rows f[k], c those
   of the columns g[l]. *)
Transposed(f, g, r, c, m, n) ==
  /\ \A k \in 1 .. m, l \in 1 .. n : f[k][l] \in Int /\ g[l][k] = f[k][l]
  /\ \A k \in 1 .. m : r[k] = SumTo(f[k], n)
  /\ \A l \in 1 .. n : c[l] = SumTo(g[l], m)

LEMMA SumsExchanged ==
  ASSUME NEW m \in Nat, NEW n \in Nat, NEW f, NEW g, NEW r, NEW c,
         Transposed(f, g, r, c, m, n)
  PROVE  SumTo(r, m) = SumTo(c, n)
<1>a. /\ \A k \in 1 .. m, l \in 1 .. n : f[k][l] \in Int /\ g[l][k] = f[k][l]
      /\ \A k \in 1 .. m : r[k] = SumTo(f[k], n)
      /\ \A l \in 1 .. n : c[l] = SumTo(g[l], m)
  BY DEF Transposed
<1> DEFINE part(j) == [l \in 1 .. n |-> SumTo(g[l], j)]
           S == {j \in Nat : j > m \/ SumTo(r, j) = SumTo(part(j), n)}
<1>0. Numbers(r, m)
  <2>1. ASSUME NEW k \in 1 .. m PROVE r[k] \in Int
    <3>1. Numbers(f[k], n)
      BY <1>a DEF Numbers
    <3> QED
      BY <1>a, <3>1, SumIs
  <2> QED
    BY <2>1 DEF Numbers
<1>1. 0 \in S
  <2>1. \A l \in 1 .. n : part(0)[l] = 0
    BY SumSteps
  <2>2. SumTo(part(0), n) = 0
    <3> HIDE DEF part
    <3> QED
      BY <2>1, SumOfZeros
  <2> HIDE DEF part
  <2> QED
    BY <2>2, SumSteps
<1>2. ASSUME NEW k \in Nat, k \in S PROVE k + 1 \in S
  <2>1. SUFFICES ASSUME k + 1 <= m PROVE SumTo(r, k + 1) = SumTo(part(k + 1), n)
    OBVIOUS
  <2>2. k + 1 \in 1 .. m /\ SumTo(r, k) = SumTo(part(k), n)
    BY <1>2, <2>1
  <2>3. SumTo(r, k + 1) = SumTo(r, k) + r[k + 1]
    <3>1. Numbers(r, k + 1)
      BY <1>0, <2>1 DEF Numbers
    <3> QED
      BY <3>1, SumSteps
  <2>4. ASSUME NEW l \in 1 .. n
        PROVE  part(k + 1)[l] = part(k)[l] + f[k + 1][l] /\ part(k)[l] \in Int
    <3>1. Numbers(g[l], k + 1)
      <4>1. \A j \in 1 .. k + 1 : j \in 1 .. m
        BY <2>1
      <4> QED
        BY <1>a, <4>1 DEF Numbers
    <3>2. SumTo(g[l], k + 1) = SumTo(g[l], k) + g[l][k + 1] /\ Numbers(g[l], k)
      BY <3>1, SumSteps
    <3>3. SumTo(g[l], k) \in Int
      BY <3>2, SumIs
    <3>4. g[l][k + 1] = f[k + 1][l]
      BY <1>a, <2>2
    <3> QED
      BY <3>2, <3>3, <3>4
  <2> HIDE DEF part
  <2>5. Numbers(part(k), n) /\ Numbers(f[k + 1], n)
    BY <1>a, <2>2, <2>4 DEF Numbers
  <2>6. SumTo(part(k + 1), n) = SumTo(part(k), n) + SumTo(f[k + 1], n)
    <3> DEFINE u == part(k + 1)
               v == part(k)
               w == f[k + 1]
    <3>1. \A l \in 1 .. n : u[l] = v[l] + w[l]
      BY <2>4
    <3> HIDE DEF u, v, w
    <3>2. Numbers(v, n) /\ Numbers(w, n)
      BY <2>5 DEF v, w
    <3>3. SumTo(u, n) = SumTo(v, n) + SumTo(w, n)
      BY <3>1, <3>2, SumOfSums
    <3> QED
      BY <3>3 DEF u, v, w
  <2> QED
    BY <1>a, <2>2, <2>3, <2>6
<1> HIDE DEF S
<1>3. m \in S
  BY <1>1, <1>2, Inductive
<1>4. SumTo(r, m) = SumTo(part(m), n)
  BY <1>3 DEF S
<1>5. SumTo(part(m), n) = SumTo(c, n)
  <2>1. ASSUME NEW l \in 1 .. n PROVE part(m)[l] = c[l] /\ part(m)[l] \in Int
    <3>1. Numbers(g[l], m)
      BY <1>a DEF Numbers
    <3> QED
      BY <1>a, <3>1, SumIs
  <2> HIDE DEF part
  <2> QED
    BY <2>1, SumSame DEF Numbers
<1> QED
  BY <1>4, <1>5

-----------------------------------------------------------------------------
(* The folds of the library. *)
LEMMA MaxIn ==
  ASSUME NEW n \in Nat, NEW s \in SUBSET (1 .. n), s # {}
  PROVE  Max(s) \in s /\ \A k \in s : k <= Max(s)
<1> DEFINE Largest(t) == \E m \in t : \A k \in t : m >= k
           S == {j \in Nat : \A t \in SUBSET (1 .. j) : t # {} => Largest(t)}
<1>1. 0 \in S
  <2>1. 1 .. 0 = {}
    OBVIOUS
  <2> QED
    BY <2>1
<1>2. ASSUME NEW j \in Nat, j \in S PROVE j + 1 \in S
  <2> SUFFICES ASSUME NEW t \in SUBSET (1 .. j + 1), t # {} PROVE Largest(t)
    OBVIOUS
  <2>1. CASE j + 1 \in t
    BY <2>1
  <2>2. CASE j + 1 \notin t
    <3>1. t \in SUBSET (1 .. j)
      BY <2>2
    <3> QED
      BY <1>2, <3>1
  <2> QED
    BY <2>1, <2>2
<1> HIDE DEF S
<1>3. n \in S
  BY <1>1, <1>2, Inductive
<1>4. \E m \in s : \A k \in s : m >= k
  BY <1>3 DEF S
<1>5. /\ (CHOOSE m \in s : \A k \in s : m >= k) \in s
      /\ \A k \in s : (CHOOSE m \in s : \A k_1 \in s : m >= k_1) >= k
  BY <1>4
<1>6. Max(s) \in s /\ \A k \in s : Max(s) >= k
  BY <1>5 DEF Max
<1>7. Max(s) \in Int /\ \A k \in s : k \in Int
  <2> HIDE DEF Largest
  <2>1. \A k \in s : k \in Int
    OBVIOUS
  <2> QED
    BY <1>6, <2>1
<1> QED
  BY <1>6, <1>7

Folds(f, g, n) ==
  \A s \in SUBSET (1 .. n) :
    f[s] = IF s = {} THEN 0 ELSE f[s \ {Max(s)}] + g[Max(s)]

(* The numbers of g at the positions in s, and zeros. *)
Masked(g, n, s) == [k \in 1 .. n |-> IF k \in s THEN g[k] ELSE 0]

LEMMA FoldExists ==
  ASSUME NEW n \in Nat, NEW g, Numbers(g, n)
  PROVE  Folds([s \in SUBSET (1 .. n) |-> SumTo(Masked(g, n, s), n)], g, n)
<1> DEFINE f == [s \in SUBSET (1 .. n) |-> SumTo(Masked(g, n, s), n)]
<1>1. \A s \in SUBSET (1 .. n) : f[s] = SumTo(Masked(g, n, s), n)
  OBVIOUS
<1> HIDE DEF f
<1>2. f[{}] = 0
  <2>1. \A k \in 1 .. n : Masked(g, n, {})[k] = 0
    BY DEF Masked
  <2>2. SumTo(Masked(g, n, {}), n) = 0
    BY <2>1, SumOfZeros
  <2>3. {} \in SUBSET (1 .. n)
    OBVIOUS
  <2> QED
    BY <1>1, <2>2, <2>3
<1>3. ASSUME NEW s \in SUBSET (1 .. n), s # {}
      PROVE  f[s] = f[s \ {Max(s)}] + g[Max(s)]
  <2> DEFINE m == Max(s)
             a == Masked(g, n, s \ {m})
             b == Masked(g, n, s)
  <2>1. m \in s /\ m \in 1 .. n
    BY <1>3, MaxIn
  <2>2. PICK d \in Int : d = g[m]
    BY <2>1 DEF Numbers
  <2> HIDE DEF m
  <2>3. Changed(a, b, n, m, d)
    BY <2>1, <2>2 DEF Masked, Changed
  <2>4. Numbers(a, n)
    BY DEF Numbers, Masked
  <2> HIDE DEF a, b
  <2>5. SumTo(b, n) = SumTo(a, n) + d
    BY <2>1, <2>3, <2>4, SumChanged
  <2>6. s \ {m} \in SUBSET (1 .. n)
    OBVIOUS
  <2> QED
    BY <1>1, <2>2, <2>5, <2>6 DEF a, b, m
<1>4. Folds(f, g, n)
  BY <1>2, <1>3 DEF Folds
<1> QED
  BY <1>4 DEF f

LEMMA FoldIsSum ==
  ASSUME NEW n \in Nat, NEW g, Numbers(g, n), NEW f, Folds(f, g, n)
  PROVE  f[1 .. n] = SumTo(g, n)
<1> DEFINE S == {k \in Nat : k > n \/ f[1 .. k] = SumTo(g, k)}
<1>1. 0 \in S
  <2>1. 1 .. 0 = {} /\ {} \in SUBSET (1 .. n)
    OBVIOUS
  <2>2. f[1 .. 0] = 0
    BY <2>1 DEF Folds
  <2> QED
    BY <2>2, SumSteps
<1>2. ASSUME NEW k \in Nat, k \in S PROVE k + 1 \in S
  <2>1. SUFFICES ASSUME k + 1 <= n PROVE f[1 .. k + 1] = SumTo(g, k + 1)
    OBVIOUS
  <2> DEFINE s == 1 .. k + 1
  <2>2. s \in SUBSET (1 .. n) /\ s # {} /\ k + 1 \in s
    BY <2>1
  <2>3. Max(s) = k + 1
    <3>1. Max(s) \in s /\ k + 1 <= Max(s)
      BY <2>2, MaxIn
    <3> QED
      BY <3>1
  <2>4. s \ {k + 1} = 1 .. k
    OBVIOUS
  <2>5. f[s] = f[1 .. k] + g[k + 1]
    <3> HIDE DEF s
    <3> QED
      BY <2>2, <2>3, <2>4 DEF Folds
  <2>6. f[1 .. k] = SumTo(g, k)
    BY <1>2, <2>1
  <2>7. SumTo(g, k + 1) = SumTo(g, k) + g[k + 1]
    <3>1. Numbers(g, k + 1)
      BY <2>1 DEF Numbers
    <3> QED
      BY <3>1, SumSteps
  <2> QED
    BY <2>5, <2>6, <2>7
<1> HIDE DEF S
<1>3. n \in S
  BY <1>1, <1>2, Inductive
<1> QED
  BY <1>3 DEF S

(* Numbers may be added in any order. *)
LEMMA SumInAnyOrder ==
  ASSUME NEW n \in Nat, NEW g, Numbers(g, n), NEW p \in [1 .. n -> 1 .. n],
         IsInjective(p)
  PROVE  SumTo([k \in 1 .. n |-> g[p[k]]], n) = SumTo(g, n)
<1> DEFINE h == [k \in 1 .. n |-> g[p[k]]]
           Image(j) == {p[k] : k \in 1 .. j}
           S == {j \in Nat : j > n \/ SumTo(h, j) = SumTo(Masked(g, n, Image(j)), n)}
<1>1. 0 \in S
  <2>1. Image(0) = {}
    OBVIOUS
  <2>2. \A k \in 1 .. n : Masked(g, n, Image(0))[k] = 0
    BY <2>1 DEF Masked
  <2>3. SumTo(Masked(g, n, Image(0)), n) = 0
    <3> HIDE DEF Image
    <3> QED
      BY <2>2, SumOfZeros
  <2> HIDE DEF h, Image
  <2> QED
    BY <2>3, SumSteps
<1>2. ASSUME NEW j \in Nat, j \in S PROVE j + 1 \in S
  <2>1. SUFFICES ASSUME j + 1 <= n
                 PROVE  SumTo(h, j + 1) = SumTo(Masked(g, n, Image(j + 1)), n)
    <3> HIDE DEF h, Image
    <3> QED OBVIOUS
  <2>2. j + 1 \in 1 .. n /\ SumTo(h, j) = SumTo(Masked(g, n, Image(j)), n)
    BY <1>2, <2>1
  <2> DEFINE i == p[j + 1]
             a == Masked(g, n, Image(j))
             b == Masked(g, n, Image(j + 1))
  <2>3. i \in 1 .. n
    BY <2>2
  <2>4. i \notin Image(j)
    <3> SUFFICES ASSUME NEW k \in 1 .. j, p[k] = p[j + 1] PROVE FALSE
      OBVIOUS
    <3>1. k \in DOMAIN p /\ j + 1 \in DOMAIN p
      BY <2>1
    <3>2. k = j + 1
      BY <3>1 DEF IsInjective
    <3> QED
      BY <3>2
  <2>5. Image(j + 1) = Image(j) \cup {i}
    <3>1. 1 .. j + 1 = (1 .. j) \cup {j + 1}
      OBVIOUS
    <3> QED
      BY <3>1
  <2>6. PICK d \in Int : d = g[i]
    BY <2>3 DEF Numbers
  <2>7. Changed(a, b, n, i, d)
    <3> HIDE DEF Image, i
    <3> QED
      BY <2>4, <2>5, <2>6 DEF Masked, Changed
  <2>8. Numbers(a, n)
    BY DEF Numbers, Masked
  <2>9. Numbers(h, n)
    <3> SUFFICES ASSUME NEW k \in 1 .. n PROVE h[k] \in Int
      BY DEF Numbers
    <3>1. p[k] \in 1 .. n /\ h[k] = g[p[k]]
      OBVIOUS
    <3> QED
      BY <3>1 DEF Numbers
  <2>10. Numbers(h, j + 1) /\ h[j + 1] = d
    <3>1. \A k \in 1 .. j + 1 : k \in 1 .. n
      BY <2>1
    <3>2. h[j + 1] = d
      BY <2>2, <2>6
    <3> HIDE DEF h
    <3> QED
      BY <2>9, <3>1, <3>2 DEF Numbers
  <2> HIDE DEF a, b, h, i
  <2>11. SumTo(b, n) = SumTo(a, n) + d
    BY <2>3, <2>7, <2>8, SumChanged
  <2>12. SumTo(h, j + 1) = SumTo(h, j) + d
    BY <2>10, SumSteps
  <2> QED
    BY <2>2, <2>11, <2>12 DEF a, b
<1> HIDE DEF S
<1>3. n \in S
  BY <1>1, <1>2, Inductive
<1>4. SumTo(h, n) = SumTo(Masked(g, n, Image(n)), n)
  BY <1>3 DEF S
<1>5. \A k \in 1 .. n : k \in Image(n)
  <2>1. IsFiniteSet(1 .. n)
    BY FS_Interval
  <2>2. p \in Injection(1 .. n, 1 .. n)
    BY DEF Injection
  <2>3. p \in Surjection(1 .. n, 1 .. n)
    BY <2>1, <2>2, FS_Injection
  <2> QED
    BY <2>3 DEF Surjection
<1>6. \A k \in 1 .. n : g[k] = Masked(g, n, Image(n))[k]
  <2> HIDE DEF Image
  <2> QED
    BY <1>5 DEF Masked
<1>7. SumTo(g, n) = SumTo(Masked(g, n, Image(n)), n)
  <2> HIDE DEF Image
  <2> QED
    BY <1>6, SumSame
<1> QED
  BY <1>4, <1>7

-----------------------------------------------------------------------------
(* The scalar product is a sum. *)
LEMMA DotIsSum ==
  ASSUME NEW n \in Nat, NEW u, NEW v, Len(u) = n, DOMAIN u = 1 .. n,
         NEW g, Numbers(g, n), \A k \in 1 .. n : g[k] = u[k] * v[k]
  PROVE  Dot(u, v) = SumTo(g, n)
<1> DEFINE w == [i \in DOMAIN u |-> i]
           Solves(f) == f = [s \in SUBSET DOMAIN w |->
                               IF s = {} THEN 0
                               ELSE f[s \ {Max(s)}] + u[w[Max(s)]] * v[w[Max(s)]]]
           f0 == CHOOSE f : Solves(f)
<1>1. Dot(u, v) = f0[DOMAIN w]
  BY DEF Dot, FoldLeftDomain, FoldLeft, MapThenFoldSet
<1>2. DOMAIN w = 1 .. n /\ \A k \in 1 .. n : w[k] = k
  OBVIOUS
<1> HIDE DEF w
<1>3. \A s \in SUBSET (1 .. n) : s # {} => u[w[Max(s)]] * v[w[Max(s)]] = g[Max(s)]
  <2> SUFFICES ASSUME NEW s \in SUBSET (1 .. n), s # {}
               PROVE  u[w[Max(s)]] * v[w[Max(s)]] = g[Max(s)]
    OBVIOUS
  <2>1. Max(s) \in 1 .. n
    BY MaxIn
  <2> QED
    BY <1>2, <2>1
<1>4. ASSUME NEW f, Folds(f, g, n), f = [s \in SUBSET (1 .. n) |-> f[s]]
      PROVE  Solves(f)
  <2>1. \A s \in SUBSET (1 .. n) :
          f[s] = IF s = {} THEN 0 ELSE f[s \ {Max(s)}] + u[w[Max(s)]] * v[w[Max(s)]]
    BY <1>3, <1>4 DEF Folds
  <2> QED
    BY <1>2, <1>4, <2>1
<1>5. ASSUME NEW f, Solves(f) PROVE Folds(f, g, n)
  <2>1. \A s \in SUBSET (1 .. n) :
          f[s] = IF s = {} THEN 0 ELSE f[s \ {Max(s)}] + u[w[Max(s)]] * v[w[Max(s)]]
    BY <1>2, <1>5
  <2> QED
    BY <1>3, <2>1 DEF Folds
<1> HIDE DEF Solves
<1>6. Solves([s \in SUBSET (1 .. n) |-> SumTo(Masked(g, n, s), n)])
  <2> DEFINE h == [s \in SUBSET (1 .. n) |-> SumTo(Masked(g, n, s), n)]
  <2>1. h = [s \in SUBSET (1 .. n) |-> h[s]]
    OBVIOUS
  <2>2. Folds(h, g, n)
    BY FoldExists
  <2> HIDE DEF h
  <2>3. Solves(h)
    BY <1>4, <2>1, <2>2
  <2> QED
    BY <2>3 DEF h
<1>7. Solves(f0)
  BY <1>6
<1> HIDE DEF f0
<1>8. Folds(f0, g, n)
  BY <1>5, <1>7
<1>9. f0[1 .. n] = SumTo(g, n)
  BY <1>8, FoldIsSum
<1> QED
  BY <1>1, <1>2, <1>9

LEMMA SequenceOfInterval ==
  ASSUME NEW n \in Nat
  PROVE  /\ SetToSeq(1 .. n) \in [1 .. n -> 1 .. n] /\ IsInjective(SetToSeq(1 .. n))
<1>1. Cardinality(1 .. n) = n
  BY FS_Interval
<1> DEFINE f0 == [k \in 1 .. n |-> k]
<1>2. f0 \in [1 .. n -> 1 .. n] /\ IsInjective(f0)
  BY DEF IsInjective
<1> HIDE DEF f0
<1>3. \E f \in [1 .. n -> 1 .. n] : IsInjective(f)
  BY <1>2
<1> QED
  BY <1>1, <1>3 DEF SetToSeq

(* The parts of positions. *)
Ext(u, k)  == Append(u, k)
Lead(k, w) == <<k>> \o w
Cat(u, w)  == u \o w
LastOf(c)  == c[Len(c)]
HeadOf(d)  == d[1]
RestOf(d)  == Tail(d)

(* The terms of Contraction, with names. *)
Left(x, y, p, k) ==
  CHOOSE c \in DOMAIN x : \E d \in DOMAIN y :
    LastOf(c) = k /\ HeadOf(d) = k /\ Cat(Front(c), RestOf(d)) = p

Right(x, y, p, k) ==
  CHOOSE d \in DOMAIN y : HeadOf(d) = k /\ Cat(Front(Left(x, y, p, k)), RestOf(d)) = p

Positions(x, y) == {Cat(Front(c), RestOf(d)) : c \in DOMAIN x, d \in DOMAIN y}

LEMMA ContractionIsFunction ==
  ASSUME NEW x, NEW y
  PROVE  /\ Lasts(x) # Heads(y) => Contraction(x, y) = NoValue
         /\ Lasts(x) = Heads(y) =>
              /\ DOMAIN Contraction(x, y) = Positions(x, y)
              /\ Contraction(x, y) =
                   [p \in DOMAIN Contraction(x, y) |-> Contraction(x, y)[p]]
<1> DEFINE left(p, k) == CHOOSE c \in DOMAIN x : \E d \in DOMAIN y :
                           c[Len(c)] = k /\ d[1] = k /\ Front(c) \o Tail(d) = p
           right(p, k) == CHOOSE d \in DOMAIN y :
                            d[1] = k /\ Front(left(p, k)) \o Tail(d) = p
           Sum(p) == (CHOOSE f : f =
                        [s \in SUBSET DOMAIN SetToSeq(Heads(y)) |->
                           IF s = {} THEN 0
                           ELSE f[s \ {Max(s)}]
                                + x[left(p, SetToSeq(Heads(y))[Max(s)])]
                                  * y[right(p, SetToSeq(Heads(y))[Max(s)])]])
                      [DOMAIN SetToSeq(Heads(y))]
<1>1. Contraction(x, y) = IF Lasts(x) # Heads(y) THEN NoValue
                          ELSE [p \in Positions(x, y) |-> Sum(p)]
  BY DEF Contraction, Positions, Cat, RestOf, FoldLeft, MapThenFoldSet
<1> HIDE DEF Sum
<1> QED
  BY <1>1

LEMMA ContractionIsSum ==
  ASSUME NEW n \in Nat, NEW x, NEW y, Lasts(x) = 1 .. n, Heads(y) = 1 .. n,
         NEW p \in Positions(x, y), NEW g, Numbers(g, n),
         \A k \in 1 .. n : g[k] = x[Left(x, y, p, k)] * y[Right(x, y, p, k)]
  PROVE  Contraction(x, y)[p] = SumTo(g, n)
<1> DEFINE q == SetToSeq(1 .. n)
           term(k) == x[Left(x, y, p, k)] * y[Right(x, y, p, k)]
           Solves(f) == f = [s \in SUBSET DOMAIN q |->
                               IF s = {} THEN 0 ELSE f[s \ {Max(s)}] + term(q[Max(s)])]
           f0 == CHOOSE f : Solves(f)
           h == [k \in 1 .. n |-> g[q[k]]]
<1>1. Contraction(x, y)[p] = f0[DOMAIN q]
  <2> DEFINE left(pp, k) == CHOOSE c \in DOMAIN x : \E d \in DOMAIN y :
                              c[Len(c)] = k /\ d[1] = k /\ Front(c) \o Tail(d) = pp
             right(pp, k) == CHOOSE d \in DOMAIN y :
                              d[1] = k /\ Front(left(pp, k)) \o Tail(d) = pp
             Sum(pp) == (CHOOSE f : f =
                          [s \in SUBSET DOMAIN SetToSeq(Heads(y)) |->
                             IF s = {} THEN 0
                             ELSE f[s \ {Max(s)}]
                                  + x[left(pp, SetToSeq(Heads(y))[Max(s)])]
                                    * y[right(pp, SetToSeq(Heads(y))[Max(s)])]])
                        [DOMAIN SetToSeq(Heads(y))]
  <2>1. Contraction(x, y) = IF Lasts(x) # Heads(y) THEN NoValue ELSE [pp \in Positions(x, y) |-> Sum(pp)]
    BY DEF Contraction, Positions, Cat, RestOf, FoldLeft, MapThenFoldSet
  <2>2. Sum(p) = f0[DOMAIN q]
    BY DEF Left, Right, LastOf, HeadOf, Cat, RestOf
  <2> HIDE DEF Sum, q, f0
  <2> QED
    BY <2>1, <2>2
<1>2. q \in [1 .. n -> 1 .. n] /\ DOMAIN q = 1 .. n /\ IsInjective(q)
  BY SequenceOfInterval
<1> HIDE DEF q
<1>3. SumTo(h, n) = SumTo(g, n)
  BY <1>2, SumInAnyOrder
<1>4. \A k \in 1 .. n : h[k] = term(q[k]) /\ h[k] \in Int
  BY <1>2 DEF Numbers
<1> HIDE DEF h, term
<1>5. Numbers(h, n)
  BY <1>4 DEF Numbers
<1>6. \A s \in SUBSET (1 .. n) : s # {} => term(q[Max(s)]) = h[Max(s)]
  <2> SUFFICES ASSUME NEW s \in SUBSET (1 .. n), s # {}
               PROVE  term(q[Max(s)]) = h[Max(s)]
    OBVIOUS
  <2>1. Max(s) \in 1 .. n
    BY MaxIn
  <2> QED
    BY <1>4, <2>1
<1>7. ASSUME NEW f, Folds(f, h, n), f = [s \in SUBSET (1 .. n) |-> f[s]]
      PROVE  Solves(f)
  <2>1. \A s \in SUBSET (1 .. n) :
          f[s] = IF s = {} THEN 0 ELSE f[s \ {Max(s)}] + term(q[Max(s)])
    BY <1>6, <1>7 DEF Folds
  <2> QED
    BY <1>2, <1>7, <2>1
<1>8. ASSUME NEW f, Solves(f) PROVE Folds(f, h, n)
  <2>1. \A s \in SUBSET (1 .. n) :
          f[s] = IF s = {} THEN 0 ELSE f[s \ {Max(s)}] + term(q[Max(s)])
    BY <1>2, <1>8
  <2> QED
    BY <1>6, <2>1 DEF Folds
<1> HIDE DEF Solves
<1>9. Solves([s \in SUBSET (1 .. n) |-> SumTo(Masked(h, n, s), n)])
  <2> DEFINE e == [s \in SUBSET (1 .. n) |-> SumTo(Masked(h, n, s), n)]
  <2>1. e = [s \in SUBSET (1 .. n) |-> e[s]]
    OBVIOUS
  <2>2. Folds(e, h, n)
    BY <1>5, FoldExists
  <2> HIDE DEF e
  <2>3. Solves(e)
    BY <1>7, <2>1, <2>2
  <2> QED
    BY <2>3 DEF e
<1>10. Solves(f0)
  BY <1>9
<1> HIDE DEF f0
<1>11. Folds(f0, h, n)
  BY <1>8, <1>10
<1>12. f0[1 .. n] = SumTo(h, n)
  BY <1>5, <1>11, FoldIsSum
<1> QED
  BY <1>1, <1>2, <1>3, <1>12

-----------------------------------------------------------------------------
(* The positions of x are those of I followed by 1 .. n, those of y are 1 .. n
   followed by those of J. *)
Before(I, n) == {Ext(u, k) : u \in I, k \in 1 .. n}
After(n, J)  == {Lead(k, w) : k \in 1 .. n, w \in J}
Joins(I, J)  == {Cat(u, w) : u \in I, w \in J}

LEMMA PositionForms ==
  ASSUME NEW u \in Seq(Nat), NEW w \in Seq(Nat), NEW k \in Nat
  PROVE  /\ LastOf(Ext(u, k)) = k /\ Front(Ext(u, k)) = u
         /\ HeadOf(Lead(k, w)) = k /\ RestOf(Lead(k, w)) = w
<1>1. Ext(u, k) \in Seq(Nat) /\ Len(Ext(u, k)) = Len(u) + 1
      /\ Ext(u, k)[Len(u) + 1] = k
      /\ \A i \in 1 .. Len(u) : Ext(u, k)[i] = u[i]
  BY AppendProperties DEF Ext
<1>2. Front(Ext(u, k)) = u
  <2>1. (Len(u) + 1) - 1 = Len(u) /\ Len(u) \in Nat
    OBVIOUS
  <2>2. Front(Ext(u, k)) = SubSeq(Ext(u, k), 1, Len(u))
    BY <1>1, <2>1 DEF Front
  <2> DEFINE z == SubSeq(Ext(u, k), 1, Len(u))
  <2>3. z \in Seq(Nat) /\ Len(z) = Len(u) /\ \A i \in 1 .. Len(u) : z[i] = Ext(u, k)[i]
    BY <1>1, <2>1
  <2> HIDE DEF z
  <2>4. Len(z) = Len(u) /\ \A i \in 1 .. Len(z) : z[i] = u[i]
    BY <1>1, <2>3
  <2>5. z = u
    BY <2>3, <2>4, SeqEqual
  <2> QED
    BY <2>2, <2>5 DEF z
<1>3. HeadOf(Lead(k, w)) = k
  BY DEF Lead, HeadOf
<1>4. RestOf(Lead(k, w)) = w
  BY DEF Lead, RestOf
<1>5. LastOf(Ext(u, k)) = k
  BY <1>1 DEF LastOf
<1> QED
  BY <1>2, <1>3, <1>4, <1>5

(* A sequence is cut in one way into a first part of a given length and the rest. *)
LEMMA CutInOneWay ==
  ASSUME NEW u \in Seq(Nat), NEW u2 \in Seq(Nat), Len(u) = Len(u2),
         NEW w \in Seq(Nat), NEW w2 \in Seq(Nat), Cat(u, w) = Cat(u2, w2)
  PROVE  u = u2 /\ w = w2
<1>1. /\ Len(Cat(u, w)) = Len(u) + Len(w)
      /\ \A i \in 1 .. Len(u) + Len(w) :
           Cat(u, w)[i] = IF i <= Len(u) THEN u[i] ELSE w[i - Len(u)]
  BY ConcatProperties DEF Cat
<1>2. /\ Len(Cat(u2, w2)) = Len(u2) + Len(w2)
      /\ \A i \in 1 .. Len(u2) + Len(w2) :
           Cat(u2, w2)[i] = IF i <= Len(u2) THEN u2[i] ELSE w2[i - Len(u2)]
  BY ConcatProperties DEF Cat
<1>3. /\ Len(u) \in Nat /\ Len(w) \in Nat /\ Len(u2) \in Nat /\ Len(w2) \in Nat
  OBVIOUS
<1>4. Len(w) = Len(w2)
  BY <1>1, <1>2, <1>3
<1>5. \A i \in 1 .. Len(u) : u[i] = u2[i]
  <2> SUFFICES ASSUME NEW i \in 1 .. Len(u) PROVE u[i] = u2[i]
    OBVIOUS
  <2>1. i \in 1 .. Len(u) + Len(w) /\ i \in 1 .. Len(u2) + Len(w2) /\ i <= Len(u) /\ i <= Len(u2)
    BY <1>3
  <2> QED
    BY <1>1, <1>2, <2>1
<1>6. \A i \in 1 .. Len(w) : w[i] = w2[i]
  <2> SUFFICES ASSUME NEW i \in 1 .. Len(w) PROVE w[i] = w2[i]
    OBVIOUS
  <2> DEFINE j == i + Len(u)
  <2>1. j \in 1 .. Len(u) + Len(w) /\ j \in 1 .. Len(u2) + Len(w2)
        /\ ~(j <= Len(u)) /\ ~(j <= Len(u2)) /\ j - Len(u) = i /\ j - Len(u2) = i
    BY <1>3, <1>4
  <2> HIDE DEF j
  <2> QED
    BY <1>1, <1>2, <2>1
<1>7. u = u2
  BY <1>5, SeqEqual
<1>8. w = w2
  BY <1>4, <1>6, SeqEqual
<1> QED
  BY <1>7, <1>8

ContractionOf(x, y, n, I, J) ==
  /\ DOMAIN Contraction(x, y) = Joins(I, J)
  /\ Contraction(x, y) = [p \in DOMAIN Contraction(x, y) |-> Contraction(x, y)[p]]
  /\ \A u \in I, w \in J :
       Contraction(x, y)[Cat(u, w)] =
         SumTo([k \in 1 .. n |-> x[Ext(u, k)] * y[Lead(k, w)]], n)

LEMMA ContractionForm ==
  ASSUME NEW n \in Nat \ {0}, NEW I \in SUBSET Seq(Nat), NEW J \in SUBSET Seq(Nat),
         I # {}, J # {}, NEW l, \A u \in I : Len(u) = l,
         NEW x, DOMAIN x = Before(I, n), NEW y, DOMAIN y = After(n, J),
         \A u \in I, k \in 1 .. n : x[Ext(u, k)] \in Int,
         \A w \in J, k \in 1 .. n : y[Lead(k, w)] \in Int
  PROVE  ContractionOf(x, y, n, I, J)
<1>1. \A u \in I, k \in 1 .. n :
        /\ Ext(u, k) \in DOMAIN x
        /\ LastOf(Ext(u, k)) = k /\ Front(Ext(u, k)) = u
  BY PositionForms DEF Before
<1>2. \A w \in J, k \in 1 .. n :
        Lead(k, w) \in DOMAIN y /\ HeadOf(Lead(k, w)) = k /\ RestOf(Lead(k, w)) = w
  BY PositionForms DEF After
<1>3. \A c \in DOMAIN x : \E u \in I, k \in 1 .. n : c = Ext(u, k)
  BY DEF Before
<1>4. \A d \in DOMAIN y : \E w \in J, k \in 1 .. n : d = Lead(k, w)
  BY DEF After
<1>5. Lasts(x) = 1 .. n
  <2>1. \A c \in DOMAIN x : LastOf(c) \in 1 .. n
    BY <1>1, <1>3
  <2>2. \A k \in 1 .. n : \E c \in DOMAIN x : LastOf(c) = k
    BY <1>1
  <2> QED
    BY <2>1, <2>2 DEF Lasts, LastOf
<1>6. Heads(y) = 1 .. n
  <2>1. \A d \in DOMAIN y : HeadOf(d) \in 1 .. n
    BY <1>2, <1>4
  <2>2. \A k \in 1 .. n : \E d \in DOMAIN y : HeadOf(d) = k
    BY <1>2
  <2> QED
    BY <2>1, <2>2 DEF Heads, HeadOf
<1>7. Positions(x, y) = Joins(I, J)
  <2>1. ASSUME NEW c \in DOMAIN x, NEW d \in DOMAIN y
        PROVE  Cat(Front(c), RestOf(d)) \in Joins(I, J)
    BY <1>1, <1>2, <1>3, <1>4 DEF Joins
  <2>2. ASSUME NEW u \in I, NEW w \in J PROVE Cat(u, w) \in Positions(x, y)
    <3>1. 1 \in 1 .. n
      OBVIOUS
    <3>2. Ext(u, 1) \in DOMAIN x /\ Front(Ext(u, 1)) = u
          /\ Lead(1, w) \in DOMAIN y /\ RestOf(Lead(1, w)) = w
      BY <1>1, <1>2, <3>1
    <3> QED
      BY <3>2 DEF Positions
  <2>3. Positions(x, y) \subseteq Joins(I, J)
    BY <2>1 DEF Positions
  <2>4. Joins(I, J) \subseteq Positions(x, y)
    BY <2>2 DEF Joins
  <2> QED
    BY <2>3, <2>4
<1>8. /\ DOMAIN Contraction(x, y) = Joins(I, J)
      /\ Contraction(x, y) = [p \in DOMAIN Contraction(x, y) |-> Contraction(x, y)[p]]
  BY <1>5, <1>6, <1>7, ContractionIsFunction
<1>9. ASSUME NEW u \in I, NEW w \in J
      PROVE  Contraction(x, y)[Cat(u, w)] =
               SumTo([k \in 1 .. n |-> x[Ext(u, k)] * y[Lead(k, w)]], n)
  <2> DEFINE p == Cat(u, w)
             g == [k \in 1 .. n |-> x[Ext(u, k)] * y[Lead(k, w)]]
  <2>1. ASSUME NEW k \in 1 .. n
        PROVE  Left(x, y, p, k) = Ext(u, k) /\ Right(x, y, p, k) = Lead(k, w)
    <3> DEFINE Fits(c) == \E d \in DOMAIN y :
                            LastOf(c) = k /\ HeadOf(d) = k /\ Cat(Front(c), RestOf(d)) = p
               Suits(d) == HeadOf(d) = k /\ Cat(Front(Left(x, y, p, k)), RestOf(d)) = p
    <3>1. Ext(u, k) \in DOMAIN x /\ Fits(Ext(u, k))
      <4>1. Lead(k, w) \in DOMAIN y /\ HeadOf(Lead(k, w)) = k /\ RestOf(Lead(k, w)) = w
        BY <1>2
      <4>2. Ext(u, k) \in DOMAIN x
            /\ LastOf(Ext(u, k)) = k /\ Front(Ext(u, k)) = u
        BY <1>1
      <4>3. Cat(Front(Ext(u, k)), RestOf(Lead(k, w))) = p
        BY <4>1, <4>2
      <4> QED
        BY <4>1, <4>2, <4>3
    <3>2. ASSUME NEW c \in DOMAIN x, Fits(c) PROVE c = Ext(u, k)
      <4>1. PICK d \in DOMAIN y : LastOf(c) = k /\ HeadOf(d) = k /\ Cat(Front(c), RestOf(d)) = p
        BY <3>2
      <4>2. PICK u2 \in I, k2 \in 1 .. n : c = Ext(u2, k2)
        BY <1>3
      <4>3. PICK w2 \in J, k3 \in 1 .. n : d = Lead(k3, w2)
        BY <1>4
      <4>4. k2 = k /\ Front(c) = u2 /\ RestOf(d) = w2
        BY <1>1, <1>2, <4>1, <4>2, <4>3
      <4>5. Cat(u2, w2) = Cat(u, w)
        BY <4>1, <4>4
      <4>6. u2 \in Seq(Nat) /\ u \in Seq(Nat) /\ Len(u2) = Len(u)
            /\ w2 \in Seq(Nat) /\ w \in Seq(Nat)
        OBVIOUS
      <4>7. u2 = u
        BY <4>5, <4>6, CutInOneWay
      <4> QED
        BY <4>2, <4>4, <4>7
    <3>3. Left(x, y, p, k) = CHOOSE c \in DOMAIN x : Fits(c)
      BY DEF Left
    <3> HIDE DEF Fits
    <3>4. Left(x, y, p, k) = Ext(u, k)
      BY <3>1, <3>2, <3>3
    <3>5. Lead(k, w) \in DOMAIN y /\ Suits(Lead(k, w))
      BY <1>1, <1>2, <3>4
    <3>6. ASSUME NEW d \in DOMAIN y, Suits(d) PROVE d = Lead(k, w)
      <4>1. PICK w2 \in J, k3 \in 1 .. n : d = Lead(k3, w2)
        BY <1>4
      <4>2. k3 = k /\ RestOf(d) = w2
        BY <1>2, <3>6, <4>1
      <4>3. Front(Left(x, y, p, k)) = u
        BY <1>1, <3>4
      <4>4. Cat(u, w2) = Cat(u, w)
        BY <3>6, <4>2, <4>3
      <4>5. u \in Seq(Nat) /\ w2 \in Seq(Nat) /\ w \in Seq(Nat)
        OBVIOUS
      <4>6. w2 = w
        BY <4>4, <4>5, CutInOneWay
      <4> QED
        BY <4>1, <4>2, <4>6
    <3>7. Right(x, y, p, k) = CHOOSE d \in DOMAIN y : Suits(d)
      BY DEF Right
    <3> HIDE DEF Suits, p
    <3>8. Right(x, y, p, k) = Lead(k, w)
      BY <3>5, <3>6, <3>7
    <3> QED
      BY <3>4, <3>8
  <2>2. p \in Positions(x, y)
    BY <1>7 DEF Joins
  <2>3. \A k \in 1 .. n : g[k] = x[Ext(u, k)] * y[Lead(k, w)] /\ g[k] \in Int
    <3>1. \A a, b \in Int : a * b \in Int
      OBVIOUS
    <3> QED
      BY <3>1
  <2> HIDE DEF g, p
  <2>4. Numbers(g, n)
    BY <2>3 DEF Numbers
  <2>5. \A k \in 1 .. n : g[k] = x[Left(x, y, p, k)] * y[Right(x, y, p, k)]
    BY <2>1, <2>3
  <2>6. Contraction(x, y)[p] = SumTo(g, n)
    BY <1>5, <1>6, <2>2, <2>4, <2>5, ContractionIsSum
  <2> QED
    BY <2>6 DEF g, p
<1> QED
  BY <1>8, <1>9 DEF ContractionOf

-----------------------------------------------------------------------------
(* Products of rows and grids of numbers. *)
Ones(n) == {<<i>> : i \in 1 .. n}

Num(x) == [c \in {<<>>} |-> x]

IsRow(x, n)     == DOMAIN x = Ones(n) /\ \A i \in 1 .. n : x[<<i>>] \in Int
IsGrid(x, r, c) == /\ DOMAIN x = (1 .. r) \X (1 .. c)
                   /\ \A i \in 1 .. r, j \in 1 .. c : x[<<i, j>>] \in Int

LEMMA Pairs ==
  ASSUME NEW i \in Nat, NEW k \in Nat
  PROVE  /\ Append(<<i>>, k) = <<i, k>> /\ <<i>> \o <<k>> = <<i, k>>
<1>1. <<i, k>> \in Seq(Nat) /\ Len(<<i, k>>) = 2 /\ <<i, k>>[1] = i /\ <<i, k>>[2] = k
  OBVIOUS
<1>2. <<i>> \in Seq(Nat) /\ Len(<<i>>) = 1 /\ <<i>>[1] = i
      /\ <<k>> \in Seq(Nat) /\ Len(<<k>>) = 1 /\ <<k>>[1] = k
  OBVIOUS
<1> DEFINE p == <<i, k>>
           q == <<i>>
           t == <<k>>
           a == Append(q, k)
           b == q \o t
<1>3. p \in Seq(Nat) /\ Len(p) = 2 /\ p[1] = i /\ p[2] = k
  BY <1>1
<1>4. q \in Seq(Nat) /\ Len(q) = 1 /\ q[1] = i /\ t \in Seq(Nat) /\ Len(t) = 1 /\ t[1] = k
  BY <1>2
<1> HIDE DEF p, q, t
<1>5. a \in Seq(Nat) /\ Len(a) = 2 /\ a[1] = i /\ a[2] = k
  <2>1. a \in Seq(Nat) /\ Len(a) = Len(q) + 1 /\ a[Len(q) + 1] = k
        /\ \A j \in 1 .. Len(q) : a[j] = q[j]
    <3>1. PICK u \in Seq(Nat) : u = q
      BY <1>4
    <3>2. Append(u, k) \in Seq(Nat) /\ Len(Append(u, k)) = Len(u) + 1
          /\ Append(u, k)[Len(u) + 1] = k /\ \A j \in 1 .. Len(u) : Append(u, k)[j] = u[j]
      BY AppendProperties
    <3> QED
      BY <3>1, <3>2
  <2>2. Len(q) + 1 = 2 /\ 1 \in 1 .. Len(q)
    BY <1>4
  <2> HIDE DEF a
  <2> QED
    BY <1>4, <2>1, <2>2
<1>6. b \in Seq(Nat) /\ Len(b) = 2 /\ b[1] = i /\ b[2] = k
  <2>1. b \in Seq(Nat) /\ Len(b) = Len(q) + Len(t)
        /\ \A j \in 1 .. Len(q) + Len(t) :
             b[j] = IF j <= Len(q) THEN q[j] ELSE t[j - Len(q)]
    BY <1>4, ConcatProperties
  <2>2. Len(q) + Len(t) = 2 /\ 1 \in 1 .. Len(q) + Len(t) /\ 2 \in 1 .. Len(q) + Len(t)
        /\ 1 <= Len(q) /\ ~(2 <= Len(q)) /\ 2 - Len(q) = 1
    BY <1>4
  <2> HIDE DEF b
  <2>3. b[1] = q[1] /\ b[2] = t[1]
    BY <2>1, <2>2
  <2> QED
    BY <1>4, <2>1, <2>2, <2>3
<1> HIDE DEF a, b
<1>7. \A j \in 1 .. 2 : j = 1 \/ j = 2
  OBVIOUS
<1>8. a = p
  BY <1>3, <1>5, <1>7, SeqEqual
<1>9. b = p
  BY <1>3, <1>6, <1>7, SeqEqual
<1> QED
  BY <1>8, <1>9 DEF a, b, p, q, t

LEMMA SmallPositions ==
  /\ \A k \in Nat : Ext(<<>>, k) = <<k>> /\ Lead(k, <<>>) = <<k>>
  /\ \A i, k \in Nat : Ext(<<i>>, k) = <<i, k>> /\ Lead(i, <<k>>) = <<i, k>>
  /\ Cat(<<>>, <<>>) = <<>>
  /\ \A i \in Nat : Cat(<<>>, <<i>>) = <<i>> /\ Cat(<<i>>, <<>>) = <<i>>
  /\ \A i, k \in Nat : Cat(<<i>>, <<k>>) = <<i, k>>
<1>1. \A k \in Nat : Ext(<<>>, k) = <<k>> /\ Lead(k, <<>>) = <<k>>
  BY DEF Ext, Lead
<1>2. \A i, k \in Nat : Ext(<<i>>, k) = <<i, k>> /\ Lead(i, <<k>>) = <<i, k>>
  BY Pairs DEF Ext, Lead
<1>3. Cat(<<>>, <<>>) = <<>>
  BY DEF Cat
<1>4. \A i \in Nat : Cat(<<>>, <<i>>) = <<i>> /\ Cat(<<i>>, <<>>) = <<i>>
  BY DEF Cat
<1>5. \A i, k \in Nat : Cat(<<i>>, <<k>>) = <<i, k>>
  BY Pairs DEF Cat
<1> QED
  BY <1>1, <1>2, <1>3, <1>4, <1>5

LEMMA ArrayPositions ==
  ASSUME NEW r \in Nat \ {0}, NEW c \in Nat \ {0}
  PROVE  /\ Ones(r) \in SUBSET Seq(Nat) /\ Ones(r) # {} /\ \A u \in Ones(r) : Len(u) = 1
         /\ {<<>>} \in SUBSET Seq(Nat) /\ {<<>>} # {} /\ \A u \in {<<>>} : Len(u) = 0
         /\ Before({<<>>}, r) = Ones(r) /\ After(r, {<<>>}) = Ones(r)
         /\ Before(Ones(r), c) = (1 .. r) \X (1 .. c)
         /\ After(r, Ones(c)) = (1 .. r) \X (1 .. c)
         /\ Joins({<<>>}, {<<>>}) = {<<>>}
         /\ Joins({<<>>}, Ones(r)) = Ones(r) /\ Joins(Ones(r), {<<>>}) = Ones(r)
         /\ Joins(Ones(r), Ones(c)) = (1 .. r) \X (1 .. c)
<1>0. /\ 1 \in 1 .. r /\ <<1>> \in Ones(r)
      /\ \A i \in 1 .. r : i \in Nat /\ <<i>> \in Ones(r)
      /\ \A j \in 1 .. c : j \in Nat /\ <<j>> \in Ones(c)
      /\ \A u \in Ones(r) : \E i \in 1 .. r : u = <<i>>
      /\ \A u \in Ones(c) : \E j \in 1 .. c : u = <<j>>
      /\ \A i \in 1 .. r, j \in 1 .. c : <<i, j>> \in (1 .. r) \X (1 .. c)
      /\ \A q \in (1 .. r) \X (1 .. c) : \E i \in 1 .. r, j \in 1 .. c : q = <<i, j>>
  BY DEF Ones
<1>1. Ones(r) \in SUBSET Seq(Nat) /\ Ones(r) # {} /\ \A u \in Ones(r) : Len(u) = 1
  <2>1. \A i \in Nat : <<i>> \in Seq(Nat) /\ Len(<<i>>) = 1
    OBVIOUS
  <2>2. \A u \in Ones(r) : u \in Seq(Nat) /\ Len(u) = 1
    BY <1>0, <2>1
  <2> QED
    BY <1>0, <2>2
<1>2. {<<>>} \in SUBSET Seq(Nat) /\ {<<>>} # {} /\ \A u \in {<<>>} : Len(u) = 0
  OBVIOUS
<1>3. Before({<<>>}, r) = Ones(r)
  <2>1. \A k \in 1 .. r : Ext(<<>>, k) = <<k>>
    BY <1>0, SmallPositions
  <2> QED
    BY <2>1 DEF Before, Ones
<1>4. After(r, {<<>>}) = Ones(r)
  <2>1. \A k \in 1 .. r : Lead(k, <<>>) = <<k>>
    BY <1>0, SmallPositions
  <2> QED
    BY <2>1 DEF After, Ones
<1>5. Before(Ones(r), c) = (1 .. r) \X (1 .. c)
  <2>1. \A i \in 1 .. r, j \in 1 .. c : Ext(<<i>>, j) = <<i, j>>
    BY <1>0, SmallPositions
  <2>2. Before(Ones(r), c) \subseteq (1 .. r) \X (1 .. c)
    BY <1>0, <2>1 DEF Before
  <2>3. (1 .. r) \X (1 .. c) \subseteq Before(Ones(r), c)
    <3> SUFFICES ASSUME NEW q \in (1 .. r) \X (1 .. c) PROVE q \in Before(Ones(r), c)
      OBVIOUS
    <3>1. PICK i \in 1 .. r, j \in 1 .. c : q = <<i, j>>
      BY <1>0
    <3>2. q = Ext(<<i>>, j) /\ <<i>> \in Ones(r) /\ <<j>> \in Ones(c)
      BY <1>0, <2>1, <3>1
    <3> QED
      BY <3>2 DEF Before
  <2> QED
    BY <2>2, <2>3
<1>6. After(r, Ones(c)) = (1 .. r) \X (1 .. c)
  <2>1. \A i \in 1 .. r, j \in 1 .. c : Lead(i, <<j>>) = <<i, j>>
    BY <1>0, SmallPositions
  <2>2. After(r, Ones(c)) \subseteq (1 .. r) \X (1 .. c)
    BY <1>0, <2>1 DEF After
  <2>3. (1 .. r) \X (1 .. c) \subseteq After(r, Ones(c))
    <3> SUFFICES ASSUME NEW q \in (1 .. r) \X (1 .. c) PROVE q \in After(r, Ones(c))
      OBVIOUS
    <3>1. PICK i \in 1 .. r, j \in 1 .. c : q = <<i, j>>
      BY <1>0
    <3>2. q = Lead(i, <<j>>) /\ <<i>> \in Ones(r) /\ <<j>> \in Ones(c)
      BY <1>0, <2>1, <3>1
    <3> QED
      BY <3>2 DEF After
  <2> QED
    BY <2>2, <2>3
<1>7. Joins({<<>>}, {<<>>}) = {<<>>}
  BY SmallPositions DEF Joins
<1>8. Joins({<<>>}, Ones(r)) = Ones(r)
  <2>1. \A u \in Ones(r) : Cat(<<>>, u) = u
    <3> SUFFICES ASSUME NEW u \in Ones(r) PROVE Cat(<<>>, u) = u
      OBVIOUS
    <3>1. PICK i \in 1 .. r : u = <<i>>
      BY <1>0
    <3> QED
      BY <1>0, <3>1, SmallPositions
  <2> QED
    BY <2>1 DEF Joins
<1>9. Joins(Ones(r), {<<>>}) = Ones(r)
  <2>1. \A u \in Ones(r) : Cat(u, <<>>) = u
    <3> SUFFICES ASSUME NEW u \in Ones(r) PROVE Cat(u, <<>>) = u
      OBVIOUS
    <3>1. PICK i \in 1 .. r : u = <<i>>
      BY <1>0
    <3> QED
      BY <1>0, <3>1, SmallPositions
  <2> QED
    BY <2>1 DEF Joins
<1>10. Joins(Ones(r), Ones(c)) = (1 .. r) \X (1 .. c)
  <2>1. \A i \in 1 .. r, j \in 1 .. c : Cat(<<i>>, <<j>>) = <<i, j>>
    BY <1>0, SmallPositions
  <2>2. Joins(Ones(r), Ones(c)) \subseteq (1 .. r) \X (1 .. c)
    BY <1>0, <2>1 DEF Joins
  <2>3. (1 .. r) \X (1 .. c) \subseteq Joins(Ones(r), Ones(c))
    <3> SUFFICES ASSUME NEW q \in (1 .. r) \X (1 .. c) PROVE q \in Joins(Ones(r), Ones(c))
      OBVIOUS
    <3>1. PICK i \in 1 .. r, j \in 1 .. c : q = <<i, j>>
      BY <1>0
    <3>2. q = Cat(<<i>>, <<j>>) /\ <<i>> \in Ones(r) /\ <<j>> \in Ones(c)
      BY <1>0, <2>1, <3>1
    <3> QED
      BY <3>2 DEF Joins
  <2> QED
    BY <2>2, <2>3
<1> QED
  BY <1>1, <1>2, <1>3, <1>4, <1>5, <1>6, <1>7, <1>8, <1>9, <1>10

(* The four products, position by position. *)
LEMMA RowTimesRow ==
  ASSUME NEW n \in Nat \ {0}, NEW x, IsRow(x, n), NEW y, IsRow(y, n)
  PROVE  Contraction(x, y) = Num(SumTo([k \in 1 .. n |-> x[<<k>>] * y[<<k>>]], n))
<1>1. \A k \in 1 .. n : Ext(<<>>, k) = <<k>> /\ Lead(k, <<>>) = <<k>>
  BY SmallPositions
<1>2. ContractionOf(x, y, n, {<<>>}, {<<>>})
  <2>1. /\ \A u \in {<<>>}, k \in 1 .. n : x[Ext(u, k)] \in Int
        /\ \A w \in {<<>>}, k \in 1 .. n : y[Lead(k, w)] \in Int
    BY <1>1 DEF IsRow
  <2>2. DOMAIN x = Before({<<>>}, n) /\ DOMAIN y = After(n, {<<>>})
    BY ArrayPositions DEF IsRow
  <2> QED
    BY <2>1, <2>2, ArrayPositions, ContractionForm
<1>3. Joins({<<>>}, {<<>>}) = {<<>>} /\ Cat(<<>>, <<>>) = <<>>
  BY ArrayPositions, SmallPositions
<1> DEFINE g == [k \in 1 .. n |-> x[<<k>>] * y[<<k>>]]
           h == [k \in 1 .. n |-> x[Ext(<<>>, k)] * y[Lead(k, <<>>)]]
<1>4. g = h
  BY <1>1
<1> HIDE DEF g, h
<1>5. DOMAIN Contraction(x, y) = {<<>>}
  BY <1>2, <1>3 DEF ContractionOf
<1>6. Contraction(x, y)[<<>>] = SumTo(g, n)
  BY <1>2, <1>3, <1>4 DEF ContractionOf, h
<1>7. Contraction(x, y) = [p \in DOMAIN Contraction(x, y) |-> Contraction(x, y)[p]]
  BY <1>2 DEF ContractionOf
<1>8. Contraction(x, y) = Num(SumTo(g, n))
  BY <1>5, <1>6, <1>7 DEF Num
<1> QED
  BY <1>8 DEF g

RowGrid(x, y, n, c) ==
  /\ DOMAIN Contraction(x, y) = Ones(c)
  /\ Contraction(x, y) = [p \in Ones(c) |-> Contraction(x, y)[p]]
  /\ \A j \in 1 .. c :
       Contraction(x, y)[<<j>>] = SumTo([k \in 1 .. n |-> x[<<k>>] * y[<<k, j>>]], n)

LEMMA RowTimesGrid ==
  ASSUME NEW n \in Nat \ {0}, NEW c \in Nat \ {0},
         NEW x, IsRow(x, n), NEW y, IsGrid(y, n, c)
  PROVE  RowGrid(x, y, n, c)
<1>1. ContractionOf(x, y, n, {<<>>}, Ones(c))
  <2>1. \A u \in {<<>>}, k \in 1 .. n : x[Ext(u, k)] \in Int
    <3> SUFFICES ASSUME NEW u \in {<<>>}, NEW k \in 1 .. n PROVE x[Ext(u, k)] \in Int
      OBVIOUS
    <3> QED
      BY SmallPositions DEF IsRow
  <2>2. \A w \in Ones(c), k \in 1 .. n : y[Lead(k, w)] \in Int
    <3> SUFFICES ASSUME NEW w \in Ones(c), NEW k \in 1 .. n PROVE y[Lead(k, w)] \in Int
      OBVIOUS
    <3>1. PICK i \in 1 .. c : w = <<i>>
      BY DEF Ones
    <3>2. i \in Nat /\ k \in Nat
      OBVIOUS
    <3>3. Lead(k, <<i>>) = <<k, i>>
      BY <3>2, SmallPositions
    <3> QED
      BY <3>1, <3>3 DEF IsGrid
  <2>3. DOMAIN x = Before({<<>>}, n) /\ DOMAIN y = After(n, Ones(c))
    BY ArrayPositions DEF IsRow, IsGrid
  <2> QED
    BY <2>1, <2>2, <2>3, ArrayPositions, ContractionForm
<1>2. Joins({<<>>}, Ones(c)) = Ones(c)
  BY ArrayPositions
<1>3. ASSUME NEW j \in 1 .. c
      PROVE  Contraction(x, y)[<<j>>] = SumTo([k \in 1 .. n |-> x[<<k>>] * y[<<k, j>>]], n)
  <2>0. \A k \in 1 .. n : k \in Nat
    OBVIOUS
  <2>1. <<>> \in {<<>>} /\ <<j>> \in Ones(c) /\ Cat(<<>>, <<j>>) = <<j>>
    <3>1. j \in Nat
      OBVIOUS
    <3>2. <<>> \in {<<>>} /\ <<j>> \in Ones(c)
      BY DEF Ones
    <3> QED
      BY <3>1, <3>2, SmallPositions
  <2>2. ASSUME NEW k \in 1 .. n
        PROVE  x[Ext(<<>>, k)] = x[<<k>>] /\ y[Lead(k, <<j>>)] = y[<<k, j>>]
    <3>1. j \in Nat /\ k \in Nat
      OBVIOUS
    <3>2. Ext(<<>>, k) = <<k>> /\ Lead(k, <<j>>) = <<k, j>>
      BY <3>1, SmallPositions
    <3> QED
      BY <3>2
  <2> DEFINE g == [k \in 1 .. n |-> x[<<k>>] * y[<<k, j>>]]
             h == [k \in 1 .. n |-> x[Ext(<<>>, k)] * y[Lead(k, <<j>>)]]
  <2>3. g = h
    BY <2>2
  <2> HIDE DEF g
  <2>4. Contraction(x, y)[<<j>>] = SumTo(h, n)
    BY <1>1, <2>1 DEF ContractionOf
  <2> HIDE DEF h
  <2> QED
    BY <2>3, <2>4 DEF g
<1> QED
  BY <1>1, <1>2, <1>3 DEF ContractionOf, RowGrid

GridRow(x, y, n, r) ==
  /\ DOMAIN Contraction(x, y) = Ones(r)
  /\ Contraction(x, y) = [p \in Ones(r) |-> Contraction(x, y)[p]]
  /\ \A i \in 1 .. r :
       Contraction(x, y)[<<i>>] = SumTo([k \in 1 .. n |-> x[<<i, k>>] * y[<<k>>]], n)

LEMMA GridTimesRow ==
  ASSUME NEW n \in Nat \ {0}, NEW r \in Nat \ {0},
         NEW x, IsGrid(x, r, n), NEW y, IsRow(y, n)
  PROVE  GridRow(x, y, n, r)
<1>1. ContractionOf(x, y, n, Ones(r), {<<>>})
  <2>1. \A u \in Ones(r), k \in 1 .. n : x[Ext(u, k)] \in Int
    <3> SUFFICES ASSUME NEW u \in Ones(r), NEW k \in 1 .. n PROVE x[Ext(u, k)] \in Int
      OBVIOUS
    <3>1. PICK i \in 1 .. r : u = <<i>>
      BY DEF Ones
    <3>2. i \in Nat /\ k \in Nat
      OBVIOUS
    <3>3. Ext(<<i>>, k) = <<i, k>>
      BY <3>2, SmallPositions
    <3> QED
      BY <3>1, <3>3 DEF IsGrid
  <2>2. \A w \in {<<>>}, k \in 1 .. n : y[Lead(k, w)] \in Int
    <3> SUFFICES ASSUME NEW w \in {<<>>}, NEW k \in 1 .. n PROVE y[Lead(k, w)] \in Int
      OBVIOUS
    <3> QED
      BY SmallPositions DEF IsRow
  <2>3. DOMAIN x = Before(Ones(r), n) /\ DOMAIN y = After(n, {<<>>})
    BY ArrayPositions DEF IsGrid, IsRow
  <2> QED
    BY <2>1, <2>2, <2>3, ArrayPositions, ContractionForm
<1>2. Joins(Ones(r), {<<>>}) = Ones(r)
  BY ArrayPositions
<1>3. ASSUME NEW i \in 1 .. r
      PROVE  Contraction(x, y)[<<i>>] = SumTo([k \in 1 .. n |-> x[<<i, k>>] * y[<<k>>]], n)
  <2>0. \A k \in 1 .. n : k \in Nat
    OBVIOUS
  <2>1. <<i>> \in Ones(r) /\ <<>> \in {<<>>} /\ Cat(<<i>>, <<>>) = <<i>>
    <3>1. i \in Nat
      OBVIOUS
    <3>2. <<i>> \in Ones(r) /\ <<>> \in {<<>>}
      BY DEF Ones
    <3> QED
      BY <3>1, <3>2, SmallPositions
  <2>2. ASSUME NEW k \in 1 .. n
        PROVE  x[Ext(<<i>>, k)] = x[<<i, k>>] /\ y[Lead(k, <<>>)] = y[<<k>>]
    <3>1. i \in Nat /\ k \in Nat
      OBVIOUS
    <3>2. Ext(<<i>>, k) = <<i, k>> /\ Lead(k, <<>>) = <<k>>
      BY <3>1, SmallPositions
    <3> QED
      BY <3>2
  <2> DEFINE g == [k \in 1 .. n |-> x[<<i, k>>] * y[<<k>>]]
             h == [k \in 1 .. n |-> x[Ext(<<i>>, k)] * y[Lead(k, <<>>)]]
  <2>3. g = h
    BY <2>2
  <2> HIDE DEF g
  <2>4. Contraction(x, y)[<<i>>] = SumTo(h, n)
    BY <1>1, <2>1 DEF ContractionOf
  <2> HIDE DEF h
  <2> QED
    BY <2>3, <2>4 DEF g
<1> QED
  BY <1>1, <1>2, <1>3 DEF ContractionOf, GridRow

GridGrid(x, y, n, r, c) ==
  /\ DOMAIN Contraction(x, y) = (1 .. r) \X (1 .. c)
  /\ Contraction(x, y) = [p \in (1 .. r) \X (1 .. c) |-> Contraction(x, y)[p]]
  /\ \A i \in 1 .. r, j \in 1 .. c :
       Contraction(x, y)[<<i, j>>] = SumTo([k \in 1 .. n |-> x[<<i, k>>] * y[<<k, j>>]], n)

LEMMA GridTimesGrid ==
  ASSUME NEW n \in Nat \ {0}, NEW r \in Nat \ {0}, NEW c \in Nat \ {0},
         NEW x, IsGrid(x, r, n), NEW y, IsGrid(y, n, c)
  PROVE  GridGrid(x, y, n, r, c)
<1>1. ContractionOf(x, y, n, Ones(r), Ones(c))
  <2>1. \A u \in Ones(r), k \in 1 .. n : x[Ext(u, k)] \in Int
    <3> SUFFICES ASSUME NEW u \in Ones(r), NEW k \in 1 .. n PROVE x[Ext(u, k)] \in Int
      OBVIOUS
    <3>1. PICK i \in 1 .. r : u = <<i>>
      BY DEF Ones
    <3>2. i \in Nat /\ k \in Nat
      OBVIOUS
    <3>3. Ext(<<i>>, k) = <<i, k>>
      BY <3>2, SmallPositions
    <3> QED
      BY <3>1, <3>3 DEF IsGrid
  <2>2. \A w \in Ones(c), k \in 1 .. n : y[Lead(k, w)] \in Int
    <3> SUFFICES ASSUME NEW w \in Ones(c), NEW k \in 1 .. n PROVE y[Lead(k, w)] \in Int
      OBVIOUS
    <3>1. PICK i \in 1 .. c : w = <<i>>
      BY DEF Ones
    <3>2. i \in Nat /\ k \in Nat
      OBVIOUS
    <3>3. Lead(k, <<i>>) = <<k, i>>
      BY <3>2, SmallPositions
    <3> QED
      BY <3>1, <3>3 DEF IsGrid
  <2>3. DOMAIN x = Before(Ones(r), n) /\ DOMAIN y = After(n, Ones(c))
    BY ArrayPositions DEF IsGrid, IsGrid
  <2> QED
    BY <2>1, <2>2, <2>3, ArrayPositions, ContractionForm
<1>2. Joins(Ones(r), Ones(c)) = (1 .. r) \X (1 .. c)
  BY ArrayPositions
<1>3. ASSUME NEW i \in 1 .. r, NEW j \in 1 .. c
      PROVE  Contraction(x, y)[<<i, j>>] = SumTo([k \in 1 .. n |-> x[<<i, k>>] * y[<<k, j>>]], n)
  <2>0. \A k \in 1 .. n : k \in Nat
    OBVIOUS
  <2>1. <<i>> \in Ones(r) /\ <<j>> \in Ones(c) /\ Cat(<<i>>, <<j>>) = <<i, j>>
    <3>1. i \in Nat /\ j \in Nat
      OBVIOUS
    <3>2. <<i>> \in Ones(r) /\ <<j>> \in Ones(c)
      BY DEF Ones
    <3> QED
      BY <3>1, <3>2, SmallPositions
  <2>2. ASSUME NEW k \in 1 .. n
        PROVE  x[Ext(<<i>>, k)] = x[<<i, k>>] /\ y[Lead(k, <<j>>)] = y[<<k, j>>]
    <3>1. i \in Nat /\ j \in Nat /\ k \in Nat
      OBVIOUS
    <3>2. Ext(<<i>>, k) = <<i, k>> /\ Lead(k, <<j>>) = <<k, j>>
      BY <3>1, SmallPositions
    <3> QED
      BY <3>2
  <2> DEFINE g == [k \in 1 .. n |-> x[<<i, k>>] * y[<<k, j>>]]
             h == [k \in 1 .. n |-> x[Ext(<<i>>, k)] * y[Lead(k, <<j>>)]]
  <2>3. g = h
    BY <2>2
  <2> HIDE DEF g
  <2>4. Contraction(x, y)[<<i, j>>] = SumTo(h, n)
    BY <1>1, <2>1 DEF ContractionOf
  <2> HIDE DEF h
  <2> QED
    BY <2>3, <2>4 DEF g
<1> QED
  BY <1>1, <1>2, <1>3 DEF ContractionOf, GridGrid

-----------------------------------------------------------------------------
(* Numbers, and square grids of one size, with the product of the reference are
   monoids. *)
Monoid(M, e) ==
  /\ e \in M
  /\ \A x, y \in M : RefTimes(x, y) \in M
  /\ \A x, y, z \in M : RefTimes(RefTimes(x, y), z) = RefTimes(x, RefTimes(y, z))
  /\ \A x \in M : RefTimes(e, x) = x /\ RefTimes(x, e) = x /\ RefOne(x) = e

Nums     == {Num(x) : x \in Int}
Grids(n) == [(1 .. n) \X (1 .. n) -> Int]
Units(n) == [c \in (1 .. n) \X (1 .. n) |-> Bool(c[1] = c[2])]

LEMMA NumIsScalar ==
  ASSUME NEW x, NEW y
  PROVE  /\ Scalar(Num(x)) /\ Num(x)[<<>>] = x
         /\ RefTimes(Num(x), Num(y)) = Num(x * y)
         /\ RefOne(Num(x)) = Num(1)
         /\ Cells(Digit(x)) = Num(x)
<1>1. Scalar(Num(x)) /\ Num(x)[<<>>] = x /\ Scalar(Num(y)) /\ Num(y)[<<>>] = y
  BY DEF Num, Scalar
<1>2. RefTimes(Num(x), Num(y)) = Num(x * y)
  BY <1>1 DEF RefTimes, Num
<1>3. RefOne(Num(x)) = Num(1)
  BY <1>1 DEF RefOne, Num, Bool
<1>4. Cells(Digit(x)) = Num(x)
  BY DEF Cells, Digit, Num
<1> QED
  BY <1>1, <1>2, <1>3, <1>4

LEMMA NumsMonoid == Monoid(Nums, Num(1))
<1>1. \A x \in Nums : \E a \in Int : x = Num(a)
  BY DEF Nums
<1>2. \A a \in Int : Num(a) \in Nums
  BY DEF Nums
<1>3. \A a, b \in Int : RefTimes(Num(a), Num(b)) = Num(a * b) /\ a * b \in Int
  BY NumIsScalar
<1>4. ASSUME NEW x \in Nums, NEW y \in Nums PROVE RefTimes(x, y) \in Nums
  BY <1>1, <1>2, <1>3
<1>5. ASSUME NEW x \in Nums, NEW y \in Nums, NEW z \in Nums
      PROVE  RefTimes(RefTimes(x, y), z) = RefTimes(x, RefTimes(y, z))
  <2>1. PICK a \in Int, b \in Int, c \in Int : x = Num(a) /\ y = Num(b) /\ z = Num(c)
    BY <1>1
  <2>2. (a * b) * c = a * (b * c) /\ a * b \in Int /\ b * c \in Int
    OBVIOUS
  <2> QED
    BY <1>3, <2>1, <2>2
<1>6. ASSUME NEW x \in Nums
      PROVE  RefTimes(Num(1), x) = x /\ RefTimes(x, Num(1)) = x /\ RefOne(x) = Num(1)
  <2>1. PICK a \in Int : x = Num(a)
    BY <1>1
  <2>2. 1 * a = a /\ a * 1 = a
    OBVIOUS
  <2> QED
    BY <1>3, <2>1, <2>2, NumIsScalar
<1> QED
  BY <1>2, <1>4, <1>5, <1>6 DEF Monoid

(* Two grids that agree everywhere are the same. *)
LEMMA GridEqual ==
  ASSUME NEW n \in Nat \ {0}, NEW x \in Grids(n), NEW y \in Grids(n),
         \A i \in 1 .. n, j \in 1 .. n : x[<<i, j>>] = y[<<i, j>>]
  PROVE  x = y
<1>1. ASSUME NEW c \in (1 .. n) \X (1 .. n) PROVE x[c] = y[c]
  <2>1. c[1] \in 1 .. n /\ c[2] \in 1 .. n /\ c = <<c[1], c[2]>>
    OBVIOUS
  <2> QED
    BY <2>1
<1> QED
  BY <1>1 DEF Grids

LEMMA GridElements ==
  ASSUME NEW n \in Nat \ {0}, NEW x \in Grids(n)
  PROVE  /\ IsGrid(x, n, n) /\ ~Scalar(x)
         /\ \A i \in 1 .. n, j \in 1 .. n : x[<<i, j>>] \in Int
<1>1. \A i \in 1 .. n, j \in 1 .. n : <<i, j>> \in (1 .. n) \X (1 .. n)
  OBVIOUS
<1>2. DOMAIN x = (1 .. n) \X (1 .. n)
  BY DEF Grids
<1>3. \A i \in 1 .. n, j \in 1 .. n : x[<<i, j>>] \in Int
  BY <1>1 DEF Grids
<1>4. <<1, 1>> \in DOMAIN x /\ <<1, 1>> # <<>>
  BY <1>1, <1>2
<1>5. IsGrid(x, n, n)
  BY <1>2, <1>3 DEF IsGrid
<1>6. ~Scalar(x)
  BY <1>4 DEF Scalar
<1> QED
  BY <1>3, <1>5, <1>6

Term(x, y, n, i, j) == [k \in 1 .. n |-> x[<<i, k>>] * y[<<k, j>>]]

LEMMA GridTimes ==
  ASSUME NEW n \in Nat \ {0}, NEW x \in Grids(n), NEW y \in Grids(n)
  PROVE  /\ RefTimes(x, y) \in Grids(n)
         /\ \A i \in 1 .. n, j \in 1 .. n :
              /\ Numbers(Term(x, y, n, i, j), n)
              /\ RefTimes(x, y)[<<i, j>>] = SumTo(Term(x, y, n, i, j), n)
<1>1. RefTimes(x, y) = Contraction(x, y)
  BY GridElements DEF RefTimes
<1>2. IsGrid(x, n, n) /\ IsGrid(y, n, n)
  BY GridElements
<1>3. /\ Contraction(x, y) = [p \in (1 .. n) \X (1 .. n) |-> Contraction(x, y)[p]]
      /\ \A i \in 1 .. n, j \in 1 .. n :
           Contraction(x, y)[<<i, j>>] = SumTo(Term(x, y, n, i, j), n)
  <2>1. GridGrid(x, y, n, n, n)
    BY <1>2, GridTimesGrid
  <2> QED
    BY <2>1 DEF GridGrid, Term
<1>4. ASSUME NEW i \in 1 .. n, NEW j \in 1 .. n
      PROVE  Numbers(Term(x, y, n, i, j), n) /\ SumTo(Term(x, y, n, i, j), n) \in Int
  <2>1. \A a, b \in Int : a * b \in Int
    OBVIOUS
  <2>2. Numbers(Term(x, y, n, i, j), n)
    BY <1>2, <2>1 DEF Numbers, Term, IsGrid
  <2> QED
    BY <2>2, SumIs
<1>5. ASSUME NEW p \in (1 .. n) \X (1 .. n) PROVE Contraction(x, y)[p] \in Int
  <2>1. PICK i \in 1 .. n, j \in 1 .. n : p = <<i, j>>
    OBVIOUS
  <2> QED
    BY <1>3, <1>4, <2>1
<1>6. Contraction(x, y) \in Grids(n)
  BY <1>3, <1>5 DEF Grids
<1> QED
  BY <1>1, <1>3, <1>4, <1>6

LEMMA GridTimesAssociative ==
  ASSUME NEW n \in Nat \ {0}, NEW x \in Grids(n), NEW y \in Grids(n), NEW z \in Grids(n)
  PROVE  RefTimes(RefTimes(x, y), z) = RefTimes(x, RefTimes(y, z))
<1> DEFINE p == RefTimes(x, y)
           q == RefTimes(y, z)
<1>1. p \in Grids(n) /\ q \in Grids(n)
  BY GridTimes
<1>2. /\ \A i \in 1 .. n, j \in 1 .. n : p[<<i, j>>] = SumTo(Term(x, y, n, i, j), n)
                                         /\ Numbers(Term(x, y, n, i, j), n)
      /\ \A i \in 1 .. n, j \in 1 .. n : q[<<i, j>>] = SumTo(Term(y, z, n, i, j), n)
                                         /\ Numbers(Term(y, z, n, i, j), n)
  BY GridTimes
<1> HIDE DEF p, q
<1>3. RefTimes(p, z) \in Grids(n) /\ RefTimes(x, q) \in Grids(n)
  BY <1>1, GridTimes
<1>4. ASSUME NEW i \in 1 .. n, NEW j \in 1 .. n
      PROVE  RefTimes(p, z)[<<i, j>>] = RefTimes(x, q)[<<i, j>>]
  <2> DEFINE t(k, l) == (x[<<i, l>>] * y[<<l, k>>]) * z[<<k, j>>]
             f == [k \in 1 .. n |-> [l \in 1 .. n |-> t(k, l)]]
             g == [l \in 1 .. n |-> [k \in 1 .. n |-> t(k, l)]]
             r == Term(p, z, n, i, j)
             c == Term(x, q, n, i, j)
  <2>1. RefTimes(p, z)[<<i, j>>] = SumTo(r, n) /\ RefTimes(x, q)[<<i, j>>] = SumTo(c, n)
    BY <1>1, GridTimes
  <2>2. ASSUME NEW k \in 1 .. n, NEW l \in 1 .. n
        PROVE  /\ x[<<i, l>>] \in Int /\ y[<<l, k>>] \in Int /\ z[<<k, j>>] \in Int
               /\ x[<<i, l>>] * y[<<l, k>>] \in Int /\ y[<<l, k>>] * z[<<k, j>>] \in Int
               /\ t(k, l) \in Int
               /\ t(k, l) = x[<<i, l>>] * (y[<<l, k>>] * z[<<k, j>>])
    <3>1. x[<<i, l>>] \in Int /\ y[<<l, k>>] \in Int /\ z[<<k, j>>] \in Int
      BY GridElements
    <3>2. \A a, b, d \in Int : (a * b) * d \in Int /\ a * b \in Int /\ (a * b) * d = a * (b * d)
      OBVIOUS
    <3> QED
      BY <3>1, <3>2
  <2>3. ASSUME NEW k \in 1 .. n PROVE r[k] = SumTo(f[k], n)
    <3> DEFINE a == Term(x, y, n, i, k)
               m == z[<<k, j>>]
               h == f[k]
    <3>1. r[k] = SumTo(a, n) * m /\ m \in Int /\ Numbers(a, n)
      BY <1>2, <2>2 DEF Term
    <3>2. \A l \in 1 .. n : h[l] = a[l] * m
      BY DEF Term
    <3> HIDE DEF a, m, h
    <3>3. SumTo(h, n) = SumTo(a, n) * m
      BY <3>1, <3>2, SumOfMultiples
    <3> QED
      BY <3>1, <3>3 DEF h
  <2>4. ASSUME NEW l \in 1 .. n PROVE c[l] = SumTo(g[l], n)
    <3> DEFINE a == Term(y, z, n, l, j)
               m == x[<<i, l>>]
               h == g[l]
    <3>1. c[l] = m * SumTo(a, n) /\ m \in Int /\ Numbers(a, n)
      BY <1>2, <2>2 DEF Term
    <3>2. \A k \in 1 .. n : h[k] = m * a[k]
      <4>1. \A k \in 1 .. n : h[k] = t(k, l) /\ a[k] = y[<<l, k>>] * z[<<k, j>>]
        BY DEF Term
      <4> HIDE DEF t, a, h
      <4> QED
        BY <2>2, <4>1
    <3> HIDE DEF a, m, h
    <3>3. SumTo(h, n) = m * SumTo(a, n)
      BY <3>1, <3>2, SumOfMultiples
    <3> QED
      BY <3>1, <3>3 DEF h
  <2>5. \A k \in 1 .. n, l \in 1 .. n : f[k][l] \in Int /\ g[l][k] = f[k][l]
    <3> HIDE DEF t
    <3> QED
      BY <2>2
  <2> HIDE DEF f, g, r, c
  <2>6. Transposed(f, g, r, c, n, n)
    BY <2>3, <2>4, <2>5 DEF Transposed
  <2>7. SumTo(r, n) = SumTo(c, n)
    BY <2>6, SumsExchanged
  <2> QED
    BY <2>1, <2>7
<1>5. RefTimes(p, z) = RefTimes(x, q)
  BY <1>3, <1>4, GridEqual
<1> QED
  BY <1>5 DEF p, q

LEMMA GridUnit ==
  ASSUME NEW n \in Nat \ {0}, NEW x \in Grids(n)
  PROVE  /\ Units(n) \in Grids(n)
         /\ RefTimes(Units(n), x) = x /\ RefTimes(x, Units(n)) = x
         /\ RefOne(x) = Units(n)
<1> DEFINE e == Units(n)
<1>1. e \in Grids(n)
  BY DEF Units, Grids, Bool
<1>2. \A i \in 1 .. n, j \in 1 .. n : e[<<i, j>>] = IF i = j THEN 1 ELSE 0
  BY DEF Units, Bool
<1>3. RefOne(x) = e
  BY GridElements DEF RefOne, Units, IsGrid
<1> HIDE DEF e
<1>4. RefTimes(e, x) \in Grids(n) /\ RefTimes(x, e) \in Grids(n)
  BY <1>1, GridTimes
<1>5. ASSUME NEW i \in 1 .. n, NEW j \in 1 .. n
      PROVE  /\ RefTimes(e, x)[<<i, j>>] = x[<<i, j>>]
             /\ RefTimes(x, e)[<<i, j>>] = x[<<i, j>>]
  <2> DEFINE a == Term(e, x, n, i, j)
             b == Term(x, e, n, i, j)
  <2>1. RefTimes(e, x)[<<i, j>>] = SumTo(a, n) /\ RefTimes(x, e)[<<i, j>>] = SumTo(b, n)
    BY <1>1, GridTimes
  <2>2. \A k \in 1 .. n : x[<<k, j>>] \in Int /\ x[<<i, k>>] \in Int
    BY GridElements
  <2>3. \A k \in 1 .. n : /\ a[k] = IF k = i THEN x[<<i, j>>] ELSE 0
                          /\ b[k] = IF k = j THEN x[<<i, j>>] ELSE 0
    <3>1. \A m \in Int : 1 * m = m /\ m * 1 = m /\ 0 * m = 0 /\ m * 0 = 0
      OBVIOUS
    <3>2. \A k \in 1 .. n : a[k] = e[<<i, k>>] * x[<<k, j>>] /\ b[k] = x[<<i, k>>] * e[<<k, j>>]
      BY DEF Term
    <3> HIDE DEF a, b
    <3> SUFFICES ASSUME NEW k \in 1 .. n
                 PROVE  /\ a[k] = IF k = i THEN x[<<i, j>>] ELSE 0
                        /\ b[k] = IF k = j THEN x[<<i, j>>] ELSE 0
      OBVIOUS
    <3>3. a[k] = IF k = i THEN x[<<i, j>>] ELSE 0
      <4>1. e[<<i, k>>] = IF k = i THEN 1 ELSE 0
        BY <1>2
      <4>2. PICK m \in Int : m = x[<<k, j>>]
        BY <2>2
      <4>3. 1 * m = m /\ 0 * m = 0
        BY <3>1
      <4>4. a[k] = IF k = i THEN m ELSE 0
        BY <3>2, <4>1, <4>2, <4>3
      <4> QED
        BY <4>2, <4>4
    <3>4. b[k] = IF k = j THEN x[<<i, j>>] ELSE 0
      <4>1. e[<<k, j>>] = IF k = j THEN 1 ELSE 0
        BY <1>2
      <4>2. PICK m \in Int : m = x[<<i, k>>]
        BY <2>2
      <4>3. m * 1 = m /\ m * 0 = 0
        BY <3>1
      <4>4. b[k] = IF k = j THEN m ELSE 0
        BY <3>2, <4>1, <4>2, <4>3
      <4> QED
        BY <4>2, <4>4
    <3> QED
      BY <3>3, <3>4
  <2> HIDE DEF a, b
  <2>4. SumTo(a, n) = a[i] /\ SumTo(b, n) = b[j]
    BY <2>2, <2>3, SumOfOne
  <2> QED
    BY <2>1, <2>3, <2>4
<1>6. RefTimes(e, x) = x /\ RefTimes(x, e) = x
  BY <1>4, <1>5, GridEqual
<1> QED
  BY <1>1, <1>3, <1>6 DEF e

LEMMA GridsMonoid == ASSUME NEW n \in Nat \ {0} PROVE Monoid(Grids(n), Units(n))
<1>1. Units(n) \in Grids(n)
  BY DEF Units, Grids, Bool
<1>2. \A x, y \in Grids(n) : RefTimes(x, y) \in Grids(n)
  BY GridTimes
<1>3. \A x, y, z \in Grids(n) :
        RefTimes(RefTimes(x, y), z) = RefTimes(x, RefTimes(y, z))
  BY GridTimesAssociative
<1>4. \A x \in Grids(n) : RefTimes(Units(n), x) = x /\ RefTimes(x, Units(n)) = x
                          /\ RefOne(x) = Units(n)
  BY GridUnit
<1> QED
  BY <1>1, <1>2, <1>3, <1>4 DEF Monoid

-----------------------------------------------------------------------------
(* Powers in a monoid. *)
IsPowers(f, M, x, n) ==
  /\ f \in [0 .. n -> M] /\ f[0] = RefOne(x)
  /\ \A k \in 1 .. n : f[k] = RefTimes(f[k - 1], x)

LEMMA PowersExist ==
  ASSUME NEW M, NEW e, Monoid(M, e), NEW x \in M, NEW n \in Nat
  PROVE  \E f : IsPowers(f, M, x, n)
<1> DEFINE S == {k \in Nat : \E f : IsPowers(f, M, x, k)}
<1>1. 0 \in S
  <2>1. RefOne(x) \in M
    BY DEF Monoid
  <2>2. IsPowers([k \in 0 .. 0 |-> RefOne(x)], M, x, 0)
    BY <2>1 DEF IsPowers
  <2> QED
    BY <2>2
<1>2. ASSUME NEW k \in Nat, k \in S PROVE k + 1 \in S
  <2>1. PICK f : IsPowers(f, M, x, k)
    BY <1>2
  <2> DEFINE g == [i \in 0 .. (k + 1) |-> IF i = k + 1 THEN RefTimes(f[k], x) ELSE f[i]]
  <2>2. RefTimes(f[k], x) \in M /\ \A i \in 0 .. k : f[i] \in M
    <3>1. \A i \in 0 .. k : f[i] \in M
      BY <2>1 DEF IsPowers
    <3>2. f[k] \in M
      BY <3>1
    <3> QED
      BY <3>1, <3>2 DEF Monoid
  <2>3. \A i \in 0 .. (k + 1) : g[i] = IF i = k + 1 THEN RefTimes(f[k], x) ELSE f[i]
    OBVIOUS
  <2>4. g \in [0 .. (k + 1) -> M]
    BY <2>2
  <2> HIDE DEF g
  <2>5. g[0] = RefOne(x)
    BY <2>1, <2>3 DEF IsPowers
  <2>6. ASSUME NEW i \in 1 .. (k + 1) PROVE g[i] = RefTimes(g[i - 1], x)
    <3>1. i - 1 \in 0 .. (k + 1) /\ i - 1 # k + 1 /\ i \in 0 .. (k + 1)
      OBVIOUS
    <3>2. g[i - 1] = f[i - 1]
      BY <2>3, <3>1
    <3>3. CASE i = k + 1
      <4>1. i - 1 = k
        BY <3>3
      <4> QED
        BY <2>3, <3>1, <3>2, <3>3, <4>1
    <3>4. CASE i # k + 1
      <4>1. i \in 1 .. k
        BY <3>4
      <4> QED
        BY <2>1, <2>3, <3>1, <3>2, <3>4, <4>1 DEF IsPowers
    <3> QED
      BY <3>3, <3>4
  <2>7. IsPowers(g, M, x, k + 1)
    BY <2>4, <2>5, <2>6 DEF IsPowers
  <2> QED
    BY <2>7
<1> HIDE DEF S
<1>3. n \in S
  BY <1>1, <1>2, Inductive
<1> QED
  BY <1>3 DEF S

(* RefPower is a recursive function; it gives the powers. *)
LEMMA PowerIs ==
  ASSUME NEW M, NEW x, NEW n \in Nat, NEW f, IsPowers(f, M, x, n)
  PROVE  RefPower(x, n) = f[n]
<1> DEFINE Step(p, k) == IF k = 0 THEN RefOne(x) ELSE RefTimes(p[k - 1], x)
           Solves(p) == p = [k \in 0 .. n |-> Step(p, k)]
           power == CHOOSE p : Solves(p)
<1>1. RefPower(x, n) = power[n]
  BY DEF RefPower
<1>2. ASSUME NEW k \in 0 .. n PROVE f[k] = Step(f, k)
  <2>1. CASE k = 0
    BY <2>1 DEF IsPowers
  <2>2. CASE k # 0
    <3>1. k \in 1 .. n
      BY <2>2
    <3> QED
      BY <2>2, <3>1 DEF IsPowers
  <2> QED
    BY <2>1, <2>2
<1>3. f = [k \in 0 .. n |-> f[k]]
  BY DEF IsPowers
<1>4. Solves(f)
  BY <1>2, <1>3
<1>5. Solves(power)
  <2> HIDE DEF Solves
  <2> QED
    BY <1>4
<1> HIDE DEF power
<1>6. /\ power[0] = RefOne(x)
      /\ \A k \in 0 .. n : k # 0 => power[k] = RefTimes(power[k - 1], x)
  BY <1>5
<1> HIDE DEF Step, Solves
<1> DEFINE S == {k \in Nat : k > n \/ power[k] = f[k]}
<1>7. 0 \in S
  BY <1>6 DEF IsPowers
<1>8. ASSUME NEW k \in Nat, k \in S PROVE k + 1 \in S
  <2>1. SUFFICES ASSUME k + 1 <= n PROVE power[k + 1] = f[k + 1]
    OBVIOUS
  <2>2. k + 1 \in 0 .. n /\ k + 1 \in 1 .. n /\ k + 1 # 0 /\ (k + 1) - 1 = k /\ ~(k > n)
    BY <2>1
  <2>3. power[k] = f[k]
    BY <1>8, <2>2
  <2>4. power[k + 1] = RefTimes(power[k], x)
    BY <1>6, <2>2
  <2>5. f[k + 1] = RefTimes(f[k], x)
    BY <2>2 DEF IsPowers
  <2> QED
    BY <2>3, <2>4, <2>5
<1> HIDE DEF S
<1>9. n \in S
  BY <1>7, <1>8, Inductive
<1> QED
  BY <1>1, <1>9 DEF S

LEMMA PowerSteps ==
  ASSUME NEW M, NEW e, Monoid(M, e), NEW x \in M
  PROVE  /\ RefPower(x, 0) = e
         /\ \A n \in Nat : RefPower(x, n) \in M
         /\ \A n \in Nat : RefPower(x, n + 1) = RefTimes(RefPower(x, n), x)
<1>1. RefPower(x, 0) = e
  <2>1. PICK f : IsPowers(f, M, x, 0)
    BY PowersExist
  <2>2. RefPower(x, 0) = f[0]
    BY <2>1, PowerIs
  <2> QED
    BY <2>1, <2>2 DEF IsPowers, Monoid
<1>2. ASSUME NEW n \in Nat PROVE RefPower(x, n) \in M
  <2>1. PICK f : IsPowers(f, M, x, n)
    BY PowersExist
  <2>2. RefPower(x, n) = f[n]
    BY <2>1, PowerIs
  <2> QED
    BY <2>1, <2>2 DEF IsPowers
<1>3. ASSUME NEW n \in Nat PROVE RefPower(x, n + 1) = RefTimes(RefPower(x, n), x)
  <2>1. PICK f : IsPowers(f, M, x, n + 1)
    BY PowersExist
  <2> DEFINE g == [k \in 0 .. n |-> f[k]]
  <2>2. IsPowers(g, M, x, n)
    <3>1. \A k \in 0 .. n : k \in 0 .. (n + 1) /\ g[k] = f[k]
      OBVIOUS
    <3>2. \A k \in 1 .. n : k \in 1 .. (n + 1) /\ k \in 0 .. n /\ k - 1 \in 0 .. n
      OBVIOUS
    <3>3. g \in [0 .. n -> M]
      BY <2>1, <3>1 DEF IsPowers
    <3>4. g[0] = RefOne(x)
      BY <2>1, <3>1 DEF IsPowers
    <3> HIDE DEF g
    <3> QED
      BY <2>1, <3>1, <3>2, <3>3, <3>4 DEF IsPowers
  <2>3. f[n + 1] = RefTimes(f[n], x)
    <3>1. n + 1 \in 1 .. (n + 1) /\ (n + 1) - 1 = n
      OBVIOUS
    <3> QED
      BY <2>1, <3>1 DEF IsPowers
  <2>4. g[n] = f[n]
    OBVIOUS
  <2> HIDE DEF g
  <2>5. RefPower(x, n + 1) = f[n + 1]
    BY <2>1, PowerIs
  <2>6. RefPower(x, n) = g[n]
    BY <2>2, PowerIs
  <2> QED
    BY <2>3, <2>4, <2>5, <2>6
<1> QED
  BY <1>1, <1>2, <1>3

(* Squaring the base halves the exponent. *)
LEMMA PowerOfSquare ==
  ASSUME NEW M, NEW e, Monoid(M, e), NEW x \in M, NEW n \in Nat
  PROVE  RefPower(RefTimes(x, x), n) = RefPower(x, 2 * n)
<1> DEFINE q == RefTimes(x, x)
           S == {k \in Nat : RefPower(q, k) = RefPower(x, 2 * k)}
<1>0. q \in M
  BY DEF Monoid
<1> HIDE DEF q
<1>1. 0 \in S
  <2>1. RefPower(q, 0) = e /\ RefPower(x, 0) = e /\ 2 * 0 = 0
    BY <1>0, PowerSteps
  <2> QED
    BY <2>1
<1>2. ASSUME NEW k \in Nat, k \in S PROVE k + 1 \in S
  <2>1. RefPower(q, k + 1) = RefTimes(RefPower(q, k), q)
    BY <1>0, PowerSteps
  <2>2. 2 * k \in Nat /\ 2 * k + 1 \in Nat /\ 2 * (k + 1) = (2 * k + 1) + 1
    OBVIOUS
  <2>3. RefPower(x, 2 * (k + 1)) = RefTimes(RefTimes(RefPower(x, 2 * k), x), x)
    BY <2>2, PowerSteps
  <2>4. RefPower(x, 2 * k) \in M
    BY <2>2, PowerSteps
  <2>5. RefTimes(RefTimes(RefPower(x, 2 * k), x), x) = RefTimes(RefPower(x, 2 * k), q)
    BY <2>4 DEF Monoid, q
  <2> QED
    BY <1>2, <2>1, <2>3, <2>5
<1> HIDE DEF S
<1>3. n \in S
  BY <1>1, <1>2, Inductive
<1> QED
  BY <1>3 DEF S, q

==============================================================================
