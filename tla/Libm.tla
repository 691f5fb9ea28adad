--------------------------------- MODULE Libm ---------------------------------
(* The arithmetic of the interpreter: the operations of libm.c on digits,
   vectors and matrices, the choice among them by the types of the operands in
   eval.c, and the exponent of a numeral in lex.c.

   Numbers are small integers.  Quotients are not followed: a number that is the
   result of a division is Real, one that nobody has computed is Garbage.

   One task is carried out.  Its result is the value, or Null, and whether a
   message was printed.  The three loops that square and multiply are steps;
   everything else is one step. *)
EXTENDS Integers, Sequences, SequencesExt, FiniteSets

CONSTANTS
  Tasks,     \* bound: the tasks, [op, a, b]
  Real,      \* the result of a division
  Garbage    \* an uninitialized number

Arrays    == {"vector", "matrix"}
Relations == {"<", "<=", ">", ">=", "==", "!="}

Ops       == {"+", "-", "*", "/", "&&", "||", "^"} \cup Relations

(* The fraction digits and the exponent of a numeral. *)
Literals == [op: {"literal"}, a: Nat, b: Int]

(* An exponent is converted to int before it is used. *)
LibmAssumption ==
  \A t \in Tasks :
    \/ t \in Literals
    \/ t.op \in Ops /\ (t.b.type = "digit" => t.b.elem \in Int)
ASSUME LibmAssumption

VARIABLES
  task,
  pc,     \* "start", "power", "literal", or how the task ended
  base,   \* what is squared: a, amx; the number of zeros of mult
  acc,    \* what is multiplied: dg, mx; the power of ten of number
  pow,    \* pow; power_temp
  res

vars == <<task, pc, base, acc, pow, res>>

Digit(n)  == [type |-> "digit", elem |-> n]
Vector(s) == [type |-> "vector", elem |-> s]
Matrix(s) == [type |-> "matrix", elem |-> s]     \* s: the rows
Null      == [type |-> "null"]

Rows(m) == Len(m.elem)
Cols(m) == Len(m.elem[1])

Init ==
  /\ task \in Tasks
  /\ pc = "start"
  /\ base = 0 /\ acc = 0 /\ pow = 0
  /\ res = [val |-> Null, told |-> FALSE]

-----------------------------------------------------------------------------
(* What an operation may end with. *)
Gives(v) == {[end |-> "done", val |-> v, told |-> FALSE]}
Told(v)  == {[end |-> "done", val |-> v, told |-> TRUE]}
Refused  == Told(Null)
Ends(how) == {[end |-> how, val |-> Null, told |-> FALSE]}

(* Functions that return a number have no NULL to refuse with. *)
NoAnswer == Told(Digit(-1))

Bool(p) == IF p THEN 1 ELSE 0

(* libm_digit_op; a division by zero prints a message and returns dg as it is. *)
DigitOp(x, y, op) ==
  CASE op = "+"  -> x + y
    [] op = "-"  -> x - y
    [] op = "*"  -> x * y
    [] op = "/"  -> IF y = 0 THEN Garbage ELSE Real
    [] op = "&&" -> Bool(x # 0 /\ y # 0)
    [] op = "||" -> Bool(x # 0 \/ y # 0)
    [] op = "<"  -> Bool(x < y)
    [] op = "<=" -> Bool(x <= y)
    [] op = ">"  -> Bool(x > y)
    [] op = ">=" -> Bool(x >= y)
    [] op = "==" -> Bool(x = y)
    [] op = "!=" -> Bool(x # y)

(* A new vector or matrix, element by element. *)
Mapped(v, F(_)) ==
  IF v.type = "vector" THEN Vector([i \in DOMAIN v.elem |-> F(v.elem[i])])
  ELSE Matrix([i \in 1 .. Rows(v) |-> [j \in 1 .. Cols(v) |-> F(v.elem[i][j])]])

VectorsZipped(a, b, op) ==
  Vector([i \in DOMAIN a.elem |-> DigitOp(a.elem[i], b.elem[i], op)])

(* gsl_matrix_get gives 0, with a message, outside the matrix. *)
Cell(m, i, j) == IF i <= Rows(m) THEN m.elem[i][j] ELSE 0

MatricesZipped(a, b, op) ==
  Matrix([i \in 1 .. Rows(a) |->
            [j \in 1 .. Cols(a) |-> DigitOp(a.elem[i][j], Cell(b, i, j), op)]])

(* vector_compare_size, and a form of it that forgets to compare. *)
VectorCompareSizeShorter(a, b) == Len(a.elem) <= Len(b.elem)

VectorCompareSize(a, b) == Len(a.elem) = Len(b.elem)

(* matrix_compare_size compares the columns of the second matrix twice. *)
MatrixCompareSize(a, b) == Rows(a) = Cols(b) /\ Cols(a) = Cols(b)

-----------------------------------------------------------------------------
(* Addition and subtraction. *)

(* libm_digit_vector_add_op, libm_digit_matrix_add_op: always x - element. *)
DigitArrayAdd(x, v, op) ==
  Gives(Mapped(v, LAMBDA y : IF op = "+" THEN y + x ELSE -1 * y + x))

VectorAdd(a, b, op) ==
  IF VectorCompareSize(a, b) THEN Gives(VectorsZipped(a, b, op)) ELSE Refused

(* libm_matrix_add_op: "-" is not among its cases; gsl_matrix_add leaves the
   copy of a as it is when the sizes differ. *)
MatrixAdd(a, b, op) ==
  CASE ~MatrixCompareSize(a, b) -> Refused
    [] MatrixCompareSize(a, b) /\ op = "-" -> Ends("exited")
    [] OTHER -> IF Rows(a) = Rows(b) THEN Gives(MatricesZipped(a, b, op)) ELSE Told(a)

AddOp(a, b, op) ==
  CASE a.type = "digit" /\ b.type = "digit" -> Gives(Digit(DigitOp(a.elem, b.elem, op)))
    [] a.type = "digit" /\ b.type \in Arrays -> DigitArrayAdd(a.elem, b, op)
    [] a.type \in Arrays /\ b.type = "digit" -> DigitArrayAdd(b.elem, a, op)
    [] a.type = "vector" /\ b.type = "vector" -> VectorAdd(a, b, op)
    [] a.type = "matrix" /\ b.type = "matrix" -> MatrixAdd(a, b, op)
    [] OTHER -> Refused

-----------------------------------------------------------------------------
(* Multiplication and division. *)
Dot(u, v) == FoldLeftDomain(LAMBDA s, i : s + u[i] * v[i], 0, u)

Col(m, j) == [i \in 1 .. Rows(m) |-> m.elem[i][j]]

(* gsl_blas_dgemm; the operands fit. *)
Product(a, b) ==
  Matrix([i \in 1 .. Rows(a) |-> [j \in 1 .. Cols(b) |-> Dot(a.elem[i], Col(b, j))]])

AllReal(v) == Mapped(v, LAMBDA y : Real)
AllGarbage(n) == Vector([i \in 1 .. n |-> Garbage])

(* Scaling; the first form refuses a zero as if it were a divisor. *)
ArrayDigitMultNoZero(v, x, op) ==
  IF x = 0 THEN Refused
  ELSE Gives(IF op = "*" THEN Mapped(v, LAMBDA y : y * x) ELSE AllReal(v))

ArrayDigitMult(v, x, op) ==
  CASE op = "*" -> Gives(Mapped(v, LAMBDA y : y * x))
    [] op = "/" -> IF x = 0 THEN Refused ELSE Gives(AllReal(v))

(* libm_vector_mult_op; the test for a null vector is the wrong way round. *)
VectorMult(a, b, op) ==
  CASE ~VectorCompareSize(a, b) -> NoAnswer
    [] VectorCompareSize(a, b) /\ op = "*" -> Gives(Digit(Dot(a.elem, b.elem)))
    [] OTHER -> IF ToSet(b.elem) = {0} THEN Gives(Digit(Real)) ELSE NoAnswer

Square(m) == Rows(m) = Cols(m)

(* libm_vector_matrix_mult_op: the result has as many elements as b has rows, and
   gsl_blas_dgemv refuses it if that is not the number of columns.  A system that
   gsl cannot solve leaves the result as it was allocated. *)
VectorMatrixMult(a, b, op) ==
  CASE op = "*" -> IF Len(a.elem) = Rows(b) /\ Square(b)
                   THEN Gives(Vector([j \in 1 .. Rows(b) |-> Dot(a.elem, Col(b, j))]))
                   ELSE Refused
    [] op = "/" ->
         IF ~Square(b) THEN Refused
         ELSE Told(AllGarbage(Rows(b)))
              \cup (IF Len(a.elem) = Rows(b) THEN Gives(AllReal(a)) ELSE {})

(* libm_matrix_vector_mult_op: the result has as many elements as b. *)
MatrixVectorMult(a, b, op) ==
  IF op = "*" /\ Len(b.elem) = Cols(a) /\ Len(b.elem) = Rows(a)
  THEN Gives(Vector([i \in 1 .. Len(b.elem) |-> Dot(a.elem[i], b.elem)]))
  ELSE Refused

(* libm_matrix_mult_op; a quotient is the inverse of b times a.  gsl prints a
   message for a b that has no inverse. *)
MatrixMult(a, b, op) ==
  CASE op = "*" -> IF Cols(a) = Rows(b) THEN Gives(Product(a, b)) ELSE Refused
    [] op = "/" -> IF Square(b) /\ Rows(a) = Rows(b)
                   THEN Gives(AllReal(a)) \cup Told(Mapped(a, LAMBDA y : Garbage))
                   ELSE Refused

MultOp(a, b, op) ==
  CASE a.type = "digit" /\ b.type = "digit" ->
         IF op = "/" /\ b.elem = 0 THEN Told(Digit(Garbage))
         ELSE Gives(Digit(DigitOp(a.elem, b.elem, op)))
    [] a.type = "digit" /\ b.type \in Arrays ->
         IF op = "*" THEN ArrayDigitMult(b, a.elem, op) ELSE Refused
    [] a.type \in Arrays /\ b.type = "digit"  -> ArrayDigitMult(a, b.elem, op)
    [] a.type = "vector" /\ b.type = "vector" -> VectorMult(a, b, op)
    [] a.type = "vector" /\ b.type = "matrix" -> VectorMatrixMult(a, b, op)
    [] a.type = "matrix" /\ b.type = "vector" -> MatrixVectorMult(a, b, op)
    [] a.type = "matrix" /\ b.type = "matrix" -> MatrixMult(a, b, op)
    [] OTHER -> Refused

-----------------------------------------------------------------------------
(* Logic and relations. *)

(* A loop over one row that stops as soon as the result is known. *)
LogicRow(xs, ys, op) ==
  LET known == Bool(op = "||")
  IN IF \E i \in DOMAIN xs : DigitOp(xs[i], ys[i], op) = known THEN known ELSE 1 - known

Constant(n, x) == [i \in 1 .. n |-> x]

(* In a matrix only the loop over the columns stops: the last row decides. *)
DigitArrayLogic(x, v, op) ==
  LET last == IF v.type = "vector" THEN v.elem ELSE v.elem[Rows(v)]
  IN Gives(Digit(LogicRow(Constant(Len(last), x), last, op)))

VectorLogic(a, b, op) ==
  IF VectorCompareSize(a, b) THEN Gives(Digit(LogicRow(a.elem, b.elem, op))) ELSE NoAnswer

(* matrix_and, matrix_or: over the rows of a. *)
MatrixLogic(a, b, op) ==
  LET n == Rows(a)
      dg == Digit(LogicRow(a.elem[n], [j \in 1 .. Cols(a) |-> Cell(b, n, j)], op))
  IN CASE ~MatrixCompareSize(a, b) -> NoAnswer
       [] MatrixCompareSize(a, b) /\ Rows(b) < n -> Told(dg)
       [] OTHER -> Gives(dg)

LogicOp(a, b, op) ==
  CASE a.type = "digit" /\ b.type = "digit"  -> Gives(Digit(DigitOp(a.elem, b.elem, op)))
    [] a.type = "digit" /\ b.type \in Arrays -> DigitArrayLogic(a.elem, b, op)
    [] a.type \in Arrays /\ b.type = "digit" -> DigitArrayLogic(b.elem, a, op)
    [] a.type = "vector" /\ b.type = "vector" -> VectorLogic(a, b, op)
    [] a.type = "matrix" /\ b.type = "matrix" -> MatrixLogic(a, b, op)
    [] OTHER -> Refused

(* libm_digit_vector_rel_op compares with its own new vector, not with b. *)
DigitVectorRel(b) == UNION {Gives(Vector(f)) : f \in [DOMAIN b.elem -> {0, 1}]}

VectorRel(a, b, op) ==
  IF VectorCompareSize(a, b) THEN Gives(VectorsZipped(a, b, op)) ELSE Refused

(* libm_matrix_rel_op refuses without a message. *)
MatrixRel(a, b, op) ==
  CASE ~MatrixCompareSize(a, b) -> Gives(Null)
    [] MatrixCompareSize(a, b) /\ Rows(b) < Rows(a) -> Told(MatricesZipped(a, b, op))
    [] OTHER -> Gives(MatricesZipped(a, b, op))

(* eval_rel_op: a vector and a digit are taken for a digit and a vector, a matrix
   and a digit are swapped. *)
RelOp(a, b, op) ==
  CASE a.type = "digit" /\ b.type = "digit"  -> Gives(Digit(DigitOp(a.elem, b.elem, op)))
    [] a.type = "digit" /\ b.type = "vector" -> DigitVectorRel(b)
    [] a.type = "digit" /\ b.type = "matrix" ->
         Gives(Mapped(b, LAMBDA y : DigitOp(a.elem, y, op)))
    [] a.type = "vector" /\ b.type = "digit" -> Ends("undefined")
    [] a.type = "matrix" /\ b.type = "digit" ->
         Gives(Mapped(a, LAMBDA y : DigitOp(b.elem, y, op)))
    [] a.type = "vector" /\ b.type = "vector" -> VectorRel(a, b, op)
    [] a.type = "matrix" /\ b.type = "matrix" -> MatrixRel(a, b, op)
    [] OTHER -> Refused

-----------------------------------------------------------------------------
(* Powers.  An int is shifted to the right with its sign: -1 stays -1. *)
Odd(n)   == n % 2 = 1
Shift(n) == n \div 2

Identity(n) == Matrix([i \in 1 .. n |-> [j \in 1 .. n |-> Bool(i = j)]])
One(a)      == IF a.type = "digit" THEN Digit(1) ELSE Identity(Rows(a))
Times(a, b) == IF a.type = "digit" THEN Digit(a.elem * b.elem) ELSE Product(a, b)

Outcomes(a, b, op) ==
  CASE op \in {"+", "-"}   -> AddOp(a, b, op)
    [] op \in {"*", "/"}   -> MultOp(a, b, op)
    [] op \in {"&&", "||"} -> LogicOp(a, b, op)
    [] op \in Relations    -> RelOp(a, b, op)
    [] op = "^"            -> Refused

(* eval_exp_op accepts the operands. *)
HasPower(a, b) == b.type = "digit" /\ (a.type = "digit" \/ (a.type = "matrix" /\ Square(a)))

IsPower(t) == t.op = "^" /\ HasPower(t.a, t.b)

Operate ==
  /\ pc = "start" /\ task.op # "literal" /\ ~IsPower(task)
  /\ \E o \in Outcomes(task.a, task.b, task.op) :
       pc' = o.end /\ res' = [val |-> o.val, told |-> o.told]
  /\ UNCHANGED <<task, base, acc, pow>>

(* libm_digit_op and libm_matrix_exp up to their loops; the first form forgets
   the lowest bit. *)
StartPowerNoOdd ==
  /\ pc = "start" /\ IsPower(task)
  /\ base' = task.a
  /\ acc' = One(task.a)
  /\ pow' = Shift(task.b.elem)
  /\ pc' = "power"
  /\ UNCHANGED <<task, res>>

StartPower ==
  /\ pc = "start" /\ IsPower(task)
  /\ base' = task.a
  /\ acc' = (IF Odd(task.b.elem) THEN task.a ELSE One(task.a))
  /\ pow' = Shift(task.b.elem)
  /\ pc' = "power"
  /\ UNCHANGED <<task, res>>

(* One turn of the loop; from -1 on it never ends.  The first form leaves out the
   last turn. *)
SquareBaseStops ==
  /\ pc = "power" /\ pow \notin {0, 1, -1}
  /\ base' = Times(base, base)
  /\ acc' = (IF Odd(pow) THEN Times(base', acc) ELSE acc)
  /\ pow' = Shift(pow)
  /\ UNCHANGED <<task, pc, res>>

SquareBase ==
  /\ pc = "power" /\ pow \notin {0, -1}
  /\ base' = Times(base, base)
  /\ acc' = (IF Odd(pow) THEN Times(base', acc) ELSE acc)
  /\ pow' = Shift(pow)
  /\ UNCHANGED <<task, pc, res>>

EndPower ==
  /\ pc = "power" /\ pow \in {0, -1}
  /\ pc' = (IF pow = 0 THEN "done" ELSE "hung")
  /\ res' = [val |-> acc, told |-> FALSE]
  /\ UNCHANGED <<task, base, acc, pow>>

(* get_next_token: the exponent, less the digits of the fraction, as a product
   of powers 10 ^ (2 ^ k).  base and acc are powers of ten. *)
Power10 == task.b - task.a

(* The first form forgets that the loop shifts the amount of the power. *)
StartLiteralSigned ==
  /\ pc = "start" /\ task.op = "literal"
  /\ base' = 1 /\ acc' = 0 /\ pow' = Power10
  /\ pc' = "literal"
  /\ UNCHANGED <<task, res>>

StartLiteral ==
  /\ pc = "start" /\ task.op = "literal"
  /\ base' = 1 /\ acc' = 0
  /\ pow' = (IF Power10 < 0 THEN -Power10 ELSE Power10)
  /\ pc' = "literal"
  /\ UNCHANGED <<task, res>>

(* The first form forgets the sign. *)
ScaleUp ==
  /\ pc = "literal" /\ pow # 0
  /\ acc' = (IF Odd(pow) THEN acc + base ELSE acc)
  /\ base' = base + base
  /\ pow' = Shift(pow)
  /\ UNCHANGED <<task, pc, res>>

Scale ==
  /\ pc = "literal" /\ pow # 0
  /\ acc' = (IF ~Odd(pow) THEN acc ELSE IF Power10 < 0 THEN acc - base ELSE acc + base)
  /\ base' = base + base
  /\ pow' = Shift(pow)
  /\ UNCHANGED <<task, pc, res>>

EndLiteral ==
  /\ pc = "literal" /\ pow = 0
  /\ pc' = "done"
  /\ res' = [val |-> [type |-> "literal", elem |-> acc], told |-> FALSE]
  /\ UNCHANGED <<task, base, acc, pow>>

Next == Operate \/ StartPower \/ SquareBase \/ EndPower
        \/ StartLiteral \/ Scale \/ EndLiteral

(* The loops are never interrupted. *)
Spec == Init /\ [][Next]_vars /\ WF_vars(Next)

TypeOK ==
  /\ task \in Tasks
  /\ pc \in {"start", "power", "literal", "done", "hung", "exited", "undefined"}
  /\ pow \in Int
  /\ pc = "literal" => task.op = "literal" /\ base \in Nat /\ acc \in Int /\ pow \in Nat
  /\ pc = "power" => IsPower(task) /\ acc.type = task.a.type /\ base.type = task.a.type
  /\ res.told \in BOOLEAN
  /\ pc # "done" => res.val = Null \/ pc = "hung"

-----------------------------------------------------------------------------
(* What the operations mean.  A value is a function from positions to numbers:
   <<>> is the position in a digit, <<i>> in a vector, <<i, j>> in a matrix.  The
   function without positions stands for no value. *)
NoValue == <<>>

Cells(v) ==
  CASE v.type = "digit"  -> [c \in {<<>>} |-> v.elem]
    [] v.type = "vector" -> [c \in {<<i>> : i \in 1 .. Len(v.elem)} |-> v.elem[c[1]]]
    [] v.type = "matrix" -> [c \in (1 .. Rows(v)) \X (1 .. Cols(v)) |-> v.elem[c[1]][c[2]]]
    [] OTHER             -> NoValue

Scalar(x) == DOMAIN x = {<<>>}
At(x, c)  == IF Scalar(x) THEN x[<<>>] ELSE x[c]
Heads(x)  == {c[1] : c \in DOMAIN x}
Lasts(x)  == {c[Len(c)] : c \in DOMAIN x}

(* The product over the last position of x and the first one of y. *)
Contraction(x, y) ==
  IF Lasts(x) # Heads(y) THEN NoValue
  ELSE [p \in {Front(c) \o Tail(d) : c \in DOMAIN x, d \in DOMAIN y} |->
          LET left(k)  == CHOOSE c \in DOMAIN x : \E d \in DOMAIN y :
                            c[Len(c)] = k /\ d[1] = k /\ Front(c) \o Tail(d) = p
              right(k) == CHOOSE d \in DOMAIN y :
                            d[1] = k /\ Front(left(k)) \o Tail(d) = p
          IN FoldLeft(LAMBDA s, k : s + x[left(k)] * y[right(k)], 0,
                      SetToSeq(Heads(y)))]

RefTimes(x, y) ==
  IF Scalar(x) /\ Scalar(y) THEN [c \in {<<>>} |-> x[<<>>] * y[<<>>]] ELSE Contraction(x, y)

RefOne(x) == [c \in DOMAIN x |-> Bool(Scalar(x) \/ c[1] = c[2])]

RefPower(x, n) ==
  LET power[k \in 0 .. n] == IF k = 0 THEN RefOne(x) ELSE RefTimes(power[k - 1], x)
  IN power[n]

Meaning(t) ==
  LET x == Cells(t.a)
      y == Cells(t.b)
      all == DOMAIN (IF Scalar(x) THEN y ELSE x)
      conform == x # NoValue /\ y # NoValue
                 /\ (Scalar(x) \/ Scalar(y) \/ DOMAIN x = DOMAIN y)
      each == IF conform THEN [c \in all |-> DigitOp(At(x, c), At(y, c), t.op)]
              ELSE NoValue
      divisible == CASE t.b.type = "digit"  -> y[<<>>] # 0
                     [] t.b.type = "vector" -> DOMAIN x = DOMAIN y /\ \E c \in DOMAIN y : y[c] # 0
                     [] t.b.type = "matrix" -> Square(t.b) /\ Heads(x) = Heads(y)
                     [] OTHER               -> FALSE
  IN CASE t.op \in {"+", "-"} \cup Relations -> each
       [] t.op = "*" /\ (Scalar(x) \/ Scalar(y)) -> each
       [] t.op = "*" /\ ~(Scalar(x) \/ Scalar(y)) ->
            IF x = NoValue \/ y = NoValue THEN NoValue ELSE Contraction(x, y)
       [] t.op = "/" ->
            IF x = NoValue \/ (t.a.type = "digit" /\ t.b.type # "digit") \/ ~divisible
            THEN NoValue
            ELSE [c \in (IF t.b.type = "vector" THEN {<<>>} ELSE DOMAIN x) |-> Real]
       [] t.op \in {"&&", "||"} ->
            IF ~conform THEN NoValue
            ELSE [p \in {<<>>} |->
                    Bool(IF t.op = "&&" THEN \A c \in all : each[c] = 1
                         ELSE \E c \in all : each[c] = 1)]
       [] t.op = "^" -> IF HasPower(t.a, t.b) /\ t.b.elem >= 0
                        THEN RefPower(x, t.b.elem) ELSE NoValue

HasMatrix(t) == "matrix" \in {t.a.type, t.b.type}

(* The operations that give something else without a message: array - digit is
   digit - array; a null vector divides; the last row of a matrix decides alone;
   a digit is compared with garbage; matrix < digit is digit < matrix; matrices that
   are not square are not compared, and a square one with a longer one is. *)
KnownDefect(t) ==
  \/ t.op = "-" /\ t.a.type \in Arrays /\ t.b.type = "digit"
  \/ t.op = "/" /\ t.a.type = "vector" /\ t.b.type = "vector"
       /\ ToSet(t.b.elem) = {0}
  \/ t.op \in {"&&", "||"} /\ HasMatrix(t)
  \/ t.op \in Relations /\ t.a.type = "digit" /\ t.b.type = "vector"
  \/ t.op \in Relations \ {"==", "!="} /\ t.a.type = "matrix" /\ t.b.type = "digit"
  \/ t.op \in Relations /\ t.a.type = "matrix" /\ t.b.type = "matrix"
       /\ (~Square(t.a) \/ Rows(t.a) < Rows(t.b))

-----------------------------------------------------------------------------
Finished == pc \in {"done", "hung", "exited", "undefined"}

(* A result that comes without a message is the one the operation means, for
   all types and sizes of the operands; no result means that there is none -
   except for the operations above. *)
RightOrTold ==
  (pc = "done" /\ task.op # "literal" /\ ~res.told /\ ~KnownDefect(task)) =>
    Cells(res.val) = Meaning(task)

(* Digits, vectors of one size and square matrices of one size are never refused
   where the operation means something - except by quotients, whose operands may
   have none, and the difference of matrices and the relation of a vector and a
   digit, which do not return. *)
SquareMatrix(v) == v.type = "matrix" => Square(v)

ConformantAnswered ==
  (/\ Finished /\ task.op \notin {"literal", "/"}
   /\ SquareMatrix(task.a) /\ SquareMatrix(task.b)
   /\ Meaning(task) # NoValue
   /\ ~(task.op = "-" /\ task.a.type = "matrix" /\ task.b.type = "matrix")
   /\ ~(task.op \in Relations /\ task.a.type = "vector" /\ task.b.type = "digit")) =>
    pc = "done" /\ ~res.told /\ DOMAIN Cells(res.val) = DOMAIN Meaning(task)

(* What the loops of the powers have still to multiply with what they have is
   the power, at every turn. *)
PowerKept ==
  (pc = "power" /\ pow >= 0) =>
    RefTimes(RefPower(Cells(base), 2 * pow), Cells(acc)) = Meaning(task)

(* The number of a numeral is scaled by its exponent less the digits of its
   fraction, at every turn of the loop of get_next_token and at its end. *)
LiteralExact ==
  task.op = "literal" =>
    /\ pc = "literal" => acc + (IF Power10 < 0 THEN -(base * pow) ELSE base * pow) = Power10
    /\ pc = "done" => res.val.elem = Power10

(* Powers that are not negative, and numerals, are computed in the end. *)
LoopsEnd == (pc \in {"power", "literal"} /\ pow >= 0) ~> (pc = "done")
=============================================================================
