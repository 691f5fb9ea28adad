--------------------------- MODULE ArithmeticProofs ---------------------------
(* What the operations of module Libm compute, for all operands: sums, products
   and relations of digits, vectors and matrices of any size, and powers of
   digits and square matrices. *)
EXTENDS LibmProofs

-----------------------------------------------------------------------------
(* Values of every type and size. *)

IsNum(v) == v.type = "digit" /\ v.elem \in Int

IsVector(v) == v.type = "vector" /\ v.elem \in Seq(Int) /\ v.elem # <<>>

IsMatrix(v) ==
  v.type = "matrix" /\ \E r, c \in Nat \ {0} : v.elem \in [1 .. r -> [1 .. c -> Int]]

IsValue(v) == IsNum(v) \/ IsVector(v) \/ IsMatrix(v) \/ v.type = "string"

(* The numbers a value has for a position. *)
InVector(v, i)    == IF v.type = "digit" THEN v.elem ELSE v.elem[i]
InMatrix(v, i, j) == IF v.type = "digit" THEN v.elem ELSE v.elem[i][j]

LEMMA CellsOfNum ==
  ASSUME NEW v, v.type = "digit"
  PROVE  Cells(v) = Num(v.elem) /\ Scalar(Cells(v)) /\ Cells(v) # NoValue
         /\ \A c : At(Cells(v), c) = v.elem
<1>1. Cells(v) = Num(v.elem)
  BY DEF Cells, Num
<1>2. Num(v.elem) # NoValue
  BY DEF Num, NoValue
<1> QED
  BY <1>1, <1>2, NumIsScalar DEF At

LEMMA NoValueIsEmpty ==
  /\ DOMAIN NoValue = {} /\ ~Scalar(NoValue) /\ Cells(Null) = NoValue
  /\ \A v : v.type = "string" => Cells(v) = NoValue
<1>1. DOMAIN NoValue = {}
  BY DEF NoValue
<1> QED
  BY <1>1 DEF Scalar, Cells, Null

LEMMA CellsOfVector ==
  ASSUME NEW v, v.type = "vector", NEW n \in Nat \ {0}, DOMAIN v.elem = 1 .. n
  PROVE  /\ Len(v.elem) = n
         /\ DOMAIN Cells(v) = {<<i>> : i \in 1 .. n}
         /\ ~Scalar(Cells(v)) /\ Cells(v) # NoValue
         /\ Heads(Cells(v)) = 1 .. n
         /\ \A i \in 1 .. n : Cells(v)[<<i>>] = v.elem[i] /\ At(Cells(v), <<i>>) = v.elem[i]
<1>1. Len(v.elem) = n
  OBVIOUS
<1>2. Cells(v) = [c \in {<<i>> : i \in 1 .. n} |-> v.elem[c[1]]]
  BY <1>1 DEF Cells
<1> DEFINE D == {<<i>> : i \in 1 .. n}
<1>3. DOMAIN Cells(v) = D /\ \A c \in D : Cells(v)[c] = v.elem[c[1]]
  BY <1>2
<1>4. \A i \in 1 .. n : <<i>> \in D /\ <<i>>[1] = i
  OBVIOUS
<1>5. 1 \in 1 .. n /\ <<1>> \in D /\ <<1>> # <<>>
  BY <1>4
<1>6. ~Scalar(Cells(v)) /\ Cells(v) # NoValue
  BY <1>3, <1>5, NoValueIsEmpty DEF Scalar
<1>7. Heads(Cells(v)) = 1 .. n
  <2>1. \A c \in D : c[1] \in 1 .. n
    OBVIOUS
  <2>2. \A i \in 1 .. n : \E c \in D : c[1] = i
    BY <1>4
  <2> HIDE DEF D
  <2>3. Heads(Cells(v)) = {c[1] : c \in D}
    BY <1>3 DEF Heads
  <2>4. {c[1] : c \in D} \subseteq 1 .. n
    BY <2>1
  <2>5. 1 .. n \subseteq {c[1] : c \in D}
    BY <2>2
  <2> QED
    BY <2>3, <2>4, <2>5
<1> QED
  BY <1>1, <1>3, <1>4, <1>6, <1>7 DEF At

MatrixCells(v, r, k) ==
  /\ Rows(v) = r /\ Cols(v) = k
  /\ DOMAIN Cells(v) = (1 .. r) \X (1 .. k)
  /\ ~Scalar(Cells(v)) /\ Cells(v) # NoValue
  /\ Heads(Cells(v)) = 1 .. r
  /\ \A i \in 1 .. r, j \in 1 .. k :
       Cells(v)[<<i, j>>] = v.elem[i][j] /\ At(Cells(v), <<i, j>>) = v.elem[i][j]

LEMMA CellsOfMatrix ==
  ASSUME NEW v, v.type = "matrix", NEW r \in Nat \ {0}, NEW k \in Nat \ {0},
         DOMAIN v.elem = 1 .. r, \A i \in 1 .. r : DOMAIN v.elem[i] = 1 .. k
  PROVE  MatrixCells(v, r, k)
<1>1. Rows(v) = r
  BY DEF Rows
<1>2. Cols(v) = k
  <2>1. 1 \in 1 .. r
    OBVIOUS
  <2>2. DOMAIN v.elem[1] = 1 .. k
    BY <2>1
  <2> QED
    BY <2>2 DEF Cols
<1> DEFINE D == (1 .. r) \X (1 .. k)
<1>3. Cells(v) = [c \in D |-> v.elem[c[1]][c[2]]]
  BY <1>1, <1>2 DEF Cells
<1>4. DOMAIN Cells(v) = D /\ \A c \in D : Cells(v)[c] = v.elem[c[1]][c[2]]
  BY <1>3
<1>5. \A i \in 1 .. r, j \in 1 .. k : <<i, j>> \in D /\ <<i, j>>[1] = i /\ <<i, j>>[2] = j
  OBVIOUS
<1>6. 1 \in 1 .. r /\ 1 \in 1 .. k /\ <<1, 1>> \in D /\ <<1, 1>> # <<>>
  BY <1>5
<1>7. ~Scalar(Cells(v)) /\ Cells(v) # NoValue
  <2> HIDE DEF D
  <2>1. DOMAIN Cells(v) # {} /\ DOMAIN Cells(v) # {<<>>}
    BY <1>4, <1>6
  <2> QED
    BY <2>1, NoValueIsEmpty DEF Scalar
<1>8. Heads(Cells(v)) = 1 .. r
  <2>1. \A c \in D : c[1] \in 1 .. r
    OBVIOUS
  <2>2. \A i \in 1 .. r : \E c \in D : c[1] = i
    BY <1>5, <1>6
  <2> HIDE DEF D
  <2>3. Heads(Cells(v)) = {c[1] : c \in D}
    BY <1>4 DEF Heads
  <2>4. {c[1] : c \in D} \subseteq 1 .. r
    BY <2>1
  <2>5. 1 .. r \subseteq {c[1] : c \in D}
    BY <2>2
  <2> QED
    BY <2>3, <2>4, <2>5
<1> QED
  BY <1>1, <1>2, <1>4, <1>5, <1>7, <1>8 DEF At, MatrixCells

(* The forms of typed values. *)
LEMMA VectorForm ==
  ASSUME NEW v, IsVector(v)
  PROVE  v.type = "vector" /\ Len(v.elem) \in Nat \ {0} /\ DOMAIN v.elem = 1 .. Len(v.elem)
         /\ \A i \in 1 .. Len(v.elem) : v.elem[i] \in Int
  BY DEF IsVector

LEMMA MatrixForm ==
  ASSUME NEW v, IsMatrix(v)
  PROVE  /\ v.type = "matrix" /\ Rows(v) \in Nat \ {0} /\ Cols(v) \in Nat \ {0}
         /\ DOMAIN v.elem = 1 .. Rows(v)
         /\ \A i \in 1 .. Rows(v) : DOMAIN v.elem[i] = 1 .. Cols(v)
         /\ \A i \in 1 .. Rows(v), j \in 1 .. Cols(v) : v.elem[i][j] \in Int
<1>1. PICK r \in Nat \ {0}, c \in Nat \ {0} : v.elem \in [1 .. r -> [1 .. c -> Int]]
  BY DEF IsMatrix
<1>2. v.type = "matrix" /\ DOMAIN v.elem = 1 .. r
      /\ \A i \in 1 .. r : DOMAIN v.elem[i] = 1 .. c /\ v.elem[i] \in [1 .. c -> Int]
  BY <1>1 DEF IsMatrix
<1>3. Rows(v) = r /\ Cols(v) = c
  BY <1>2, CellsOfMatrix DEF MatrixCells
<1> QED
  BY <1>2, <1>3

(* A function on the positions of a vector or a matrix is the cells of one. *)
LEMMA VectorIs ==
  ASSUME NEW n \in Nat \ {0}, NEW s, DOMAIN s = 1 .. n,
         NEW h, h = [c \in DOMAIN h |-> h[c]], DOMAIN h = {<<i>> : i \in 1 .. n},
         \A i \in 1 .. n : h[<<i>>] = s[i]
  PROVE  Cells(Vector(s)) = h
<1> DEFINE v == Vector(s)
<1>1. v.type = "vector" /\ v.elem = s
  BY DEF Vector
<1> HIDE DEF v
<1>2. DOMAIN Cells(v) = DOMAIN h /\ \A i \in 1 .. n : Cells(v)[<<i>>] = h[<<i>>]
  BY <1>1, CellsOfVector
<1>3. \A c \in DOMAIN h : Cells(v)[c] = h[c]
  BY <1>2
<1>4. Cells(v) = [c \in DOMAIN Cells(v) |-> Cells(v)[c]]
  BY <1>1 DEF Cells
<1> QED
  BY <1>2, <1>3, <1>4 DEF v

(* The rows s hold what the function h has at the positions. *)
Table(h, s, r, k) ==
  /\ DOMAIN s = 1 .. r /\ \A i \in 1 .. r : DOMAIN s[i] = 1 .. k
  /\ h = [c \in DOMAIN h |-> h[c]] /\ DOMAIN h = (1 .. r) \X (1 .. k)
  /\ \A i \in 1 .. r, j \in 1 .. k : h[<<i, j>>] = s[i][j]

LEMMA MatrixIs ==
  ASSUME NEW r \in Nat \ {0}, NEW k \in Nat \ {0}, NEW s, NEW h, Table(h, s, r, k)
  PROVE  Cells(Matrix(s)) = h
<1>0. /\ DOMAIN s = 1 .. r /\ \A i \in 1 .. r : DOMAIN s[i] = 1 .. k
      /\ h = [c \in DOMAIN h |-> h[c]] /\ DOMAIN h = (1 .. r) \X (1 .. k)
      /\ \A i \in 1 .. r, j \in 1 .. k : h[<<i, j>>] = s[i][j]
  BY DEF Table
<1> DEFINE v == Matrix(s)
<1>1. v.type = "matrix" /\ v.elem = s
  BY DEF Matrix
<1> HIDE DEF v
<1>2. DOMAIN Cells(v) = DOMAIN h
      /\ \A i \in 1 .. r, j \in 1 .. k : Cells(v)[<<i, j>>] = h[<<i, j>>]
  <2>1. DOMAIN v.elem = 1 .. r /\ \A i \in 1 .. r : DOMAIN v.elem[i] = 1 .. k
    BY <1>0, <1>1
  <2>2. MatrixCells(v, r, k)
    BY <1>1, <2>1, CellsOfMatrix
  <2> QED
    BY <1>0, <1>1, <2>2 DEF MatrixCells
<1>3. \A c \in DOMAIN h : Cells(v)[c] = h[c]
  <2> TAKE c \in DOMAIN h
  <2>1. c[1] \in 1 .. r /\ c[2] \in 1 .. k /\ c = <<c[1], c[2]>>
    BY <1>0
  <2> QED
    BY <1>0, <1>2, <2>1
<1>4. Cells(v) = [c \in DOMAIN Cells(v) |-> Cells(v)[c]]
  BY <1>1 DEF Cells
<1> QED
  BY <1>0, <1>2, <1>3, <1>4 DEF v

-----------------------------------------------------------------------------
(* Vectors are rows of numbers, matrices are grids. *)
RowOf(v, n) ==
  /\ v.type = "vector" /\ Len(v.elem) = n /\ DOMAIN v.elem = 1 .. n
  /\ IsRow(Cells(v), n) /\ ~Scalar(Cells(v)) /\ Cells(v) # NoValue
  /\ Heads(Cells(v)) = 1 .. n /\ Lasts(Cells(v)) = 1 .. n
  /\ \A i \in 1 .. n : Cells(v)[<<i>>] = v.elem[i] /\ v.elem[i] \in Int

GridOf(v, r, c) ==
  /\ v.type = "matrix" /\ Rows(v) = r /\ Cols(v) = c /\ DOMAIN v.elem = 1 .. r
  /\ \A i \in 1 .. r : DOMAIN v.elem[i] = 1 .. c /\ Len(v.elem[i]) = c
  /\ IsGrid(Cells(v), r, c) /\ ~Scalar(Cells(v)) /\ Cells(v) # NoValue
  /\ Heads(Cells(v)) = 1 .. r /\ Lasts(Cells(v)) = 1 .. c
  /\ \A i \in 1 .. r, j \in 1 .. c :
       Cells(v)[<<i, j>>] = v.elem[i][j] /\ v.elem[i][j] \in Int

LEMMA VectorRow ==
  ASSUME NEW v, IsVector(v)
  PROVE  Len(v.elem) \in Nat \ {0} /\ RowOf(v, Len(v.elem))
<1>1. PICK n \in Nat \ {0} : n = Len(v.elem)
  BY VectorForm
<1>2. v.type = "vector" /\ DOMAIN v.elem = 1 .. n /\ \A i \in 1 .. n : v.elem[i] \in Int
  BY <1>1, VectorForm
<1>3. /\ DOMAIN Cells(v) = Ones(n) /\ Heads(Cells(v)) = 1 .. n
      /\ ~Scalar(Cells(v)) /\ Cells(v) # NoValue
      /\ \A i \in 1 .. n : Cells(v)[<<i>>] = v.elem[i]
  BY <1>2, CellsOfVector DEF Ones
<1>4. Lasts(Cells(v)) = 1 .. n
  <2>1. Lasts(Cells(v)) = {c[Len(c)] : c \in Ones(n)}
    BY <1>3 DEF Lasts
  <2>2. \A i \in 1 .. n : <<i>> \in Ones(n) /\ <<i>>[Len(<<i>>)] = i
    BY DEF Ones
  <2>3. {c[Len(c)] : c \in Ones(n)} \subseteq 1 .. n
    <3> SUFFICES ASSUME NEW c \in Ones(n) PROVE c[Len(c)] \in 1 .. n
      OBVIOUS
    <3>1. PICK i \in 1 .. n : c = <<i>>
      BY DEF Ones
    <3> QED
      BY <2>2, <3>1
  <2>4. 1 .. n \subseteq {c[Len(c)] : c \in Ones(n)}
    <3> SUFFICES ASSUME NEW i \in 1 .. n PROVE \E c \in Ones(n) : i = c[Len(c)]
      OBVIOUS
    <3> QED
      BY <2>2
  <2> QED
    BY <2>1, <2>3, <2>4
<1> QED
  BY <1>1, <1>2, <1>3, <1>4 DEF RowOf, IsRow

LEMMA MatrixGrid ==
  ASSUME NEW v, IsMatrix(v)
  PROVE  Rows(v) \in Nat \ {0} /\ Cols(v) \in Nat \ {0} /\ GridOf(v, Rows(v), Cols(v))
<1>1. PICK r \in Nat \ {0}, c \in Nat \ {0} : r = Rows(v) /\ c = Cols(v)
  BY MatrixForm
<1>2. /\ v.type = "matrix" /\ DOMAIN v.elem = 1 .. r
      /\ \A i \in 1 .. r : DOMAIN v.elem[i] = 1 .. c
      /\ \A i \in 1 .. r, j \in 1 .. c : v.elem[i][j] \in Int
  BY <1>1, MatrixForm
<1>3. MatrixCells(v, r, c)
  BY <1>2, CellsOfMatrix
<1> DEFINE D == (1 .. r) \X (1 .. c)
<1>4. Lasts(Cells(v)) = 1 .. c
  <2>1. Lasts(Cells(v)) = {q[Len(q)] : q \in D}
    BY <1>3 DEF Lasts, MatrixCells
  <2>2. \A i \in 1 .. r, j \in 1 .. c : <<i, j>> \in D /\ <<i, j>>[Len(<<i, j>>)] = j
    OBVIOUS
  <2>3. {q[Len(q)] : q \in D} \subseteq 1 .. c
    <3> SUFFICES ASSUME NEW q \in D PROVE q[Len(q)] \in 1 .. c
      OBVIOUS
    <3>1. PICK i \in 1 .. r, j \in 1 .. c : q = <<i, j>>
      OBVIOUS
    <3> HIDE DEF D
    <3> QED
      BY <2>2, <3>1
  <2>4. 1 .. c \subseteq {q[Len(q)] : q \in D}
    <3> SUFFICES ASSUME NEW j \in 1 .. c PROVE \E q \in D : j = q[Len(q)]
      OBVIOUS
    <3>1. 1 \in 1 .. r
      OBVIOUS
    <3> HIDE DEF D
    <3> QED
      BY <2>2, <3>1
  <2> QED
    BY <2>1, <2>3, <2>4
<1>5. \A i \in 1 .. r : Len(v.elem[i]) = c
  BY <1>2
<1> QED
  BY <1>1, <1>2, <1>3, <1>4, <1>5 DEF GridOf, IsGrid, MatrixCells

(* The factors of a scalar product, and its terms. *)
Factors(u, w, n) ==
  /\ Len(u) = n /\ DOMAIN u = 1 .. n
  /\ \A k \in 1 .. n : u[k] \in Int /\ w[k] \in Int

Terms(u, w, n) == [k \in 1 .. n |-> u[k] * w[k]]

LEMMA DotIs ==
  ASSUME NEW n \in Nat, NEW u, NEW w, Factors(u, w, n)
  PROVE  Dot(u, w) = SumTo(Terms(u, w, n), n) /\ Dot(u, w) \in Int
<1> DEFINE g == [k \in 1 .. n |-> u[k] * w[k]]
<1>1. \A k \in 1 .. n : g[k] = u[k] * w[k]
  OBVIOUS
<1>2. ASSUME NEW k \in 1 .. n PROVE g[k] \in Int
  <2>1. PICK p \in Int, q \in Int : p = u[k] /\ q = w[k]
    BY DEF Factors
  <2>2. p * q \in Int
    OBVIOUS
  <2> HIDE DEF g
  <2> QED
    BY <1>1, <2>1, <2>2
<1> HIDE DEF g
<1>3. Numbers(g, n)
  BY <1>2 DEF Numbers
<1>4. Dot(u, w) = SumTo(g, n) /\ SumTo(g, n) \in Int
  BY <1>1, <1>3, DotIsSum, SumIs DEF Factors
<1> QED
  BY <1>4 DEF g, Terms

(* The four products are the contractions of the reference. *)
LEMMA ProductOfVectors ==
  ASSUME NEW a, NEW b, IsVector(a), IsVector(b), Len(a.elem) = Len(b.elem)
  PROVE  Cells(Digit(Dot(a.elem, b.elem))) = Contraction(Cells(a), Cells(b))
<1>1. PICK n \in Nat \ {0} : n = Len(a.elem) /\ RowOf(a, n) /\ RowOf(b, n)
  BY VectorRow
<1> DEFINE x == Cells(a)
           y == Cells(b)
           g == [k \in 1 .. n |-> a.elem[k] * b.elem[k]]
           h == [k \in 1 .. n |-> x[<<k>>] * y[<<k>>]]
<1>2. g = h
  BY <1>1 DEF RowOf
<1>3. Dot(a.elem, b.elem) = SumTo(g, n)
  <2>1. Factors(a.elem, b.elem, n)
    BY <1>1 DEF RowOf, Factors
  <2>2. Dot(a.elem, b.elem) = SumTo(Terms(a.elem, b.elem, n), n)
    BY <2>1, DotIs
  <2> QED
    BY <2>2 DEF Terms
<1>4. Contraction(x, y) = Num(SumTo(h, n))
  BY <1>1, RowTimesRow DEF RowOf
<1> QED
  BY <1>2, <1>3, <1>4, NumIsScalar

LEMMA ProductOfVectorAndMatrix ==
  ASSUME NEW a, NEW b, IsVector(a), IsMatrix(b), Len(a.elem) = Rows(b), Square(b)
  PROVE  Cells(Vector([j \in 1 .. Rows(b) |-> Dot(a.elem, Col(b, j))])) =
           Contraction(Cells(a), Cells(b))
<1>1. PICK n \in Nat \ {0} : n = Len(a.elem) /\ RowOf(a, n) /\ GridOf(b, n, n)
  BY VectorRow, MatrixGrid DEF Square
<1> DEFINE x == Cells(a)
           y == Cells(b)
           h == Contraction(x, y)
           s == [j \in 1 .. n |-> Dot(a.elem, Col(b, j))]
<1>2. RowGrid(x, y, n, n)
  BY <1>1, RowTimesGrid DEF RowOf, GridOf
<1>3. ASSUME NEW j \in 1 .. n PROVE h[<<j>>] = s[j]
  <2> DEFINE w == Col(b, j)
             e == [k \in 1 .. n |-> a.elem[k] * w[k]]
             f == [k \in 1 .. n |-> x[<<k>>] * y[<<k, j>>]]
  <2>1. \A k \in 1 .. n : w[k] = b.elem[k][j]
    BY <1>1 DEF Col, GridOf
  <2> HIDE DEF w
  <2>2. \A k \in 1 .. n : /\ w[k] = y[<<k, j>>] /\ w[k] \in Int
                          /\ a.elem[k] = x[<<k>>] /\ a.elem[k] \in Int
    BY <1>1, <2>1 DEF RowOf, GridOf
  <2>3. e = f
    BY <2>2
  <2>4. Len(a.elem) = n /\ DOMAIN a.elem = 1 .. n
    BY <1>1 DEF RowOf
  <2>7. Factors(a.elem, w, n)
    BY <2>2, <2>4 DEF Factors
  <2>8. Dot(a.elem, w) = SumTo(Terms(a.elem, w, n), n)
    BY <2>7, DotIs
  <2>5. Dot(a.elem, w) = SumTo(e, n)
    BY <2>8 DEF Terms
  <2>6. h[<<j>>] = SumTo(f, n)
    BY <1>2 DEF RowGrid
  <2> QED
    BY <2>3, <2>5, <2>6 DEF w
<1>4. /\ DOMAIN s = 1 .. n /\ h = [c \in DOMAIN h |-> h[c]] /\ DOMAIN h = {<<i>> : i \in 1 .. n}
  BY <1>2 DEF RowGrid, Ones
<1>5. Rows(b) = n
  BY <1>1 DEF GridOf
<1>6. Vector([j \in 1 .. Rows(b) |-> Dot(a.elem, Col(b, j))]) = Vector(s)
  BY <1>5
<1> HIDE DEF s, h
<1>7. Cells(Vector(s)) = h
  BY <1>3, <1>4, VectorIs
<1> QED
  BY <1>6, <1>7 DEF h

LEMMA ProductOfMatrixAndVector ==
  ASSUME NEW a, NEW b, IsMatrix(a), IsVector(b), Len(b.elem) = Cols(a), Len(b.elem) = Rows(a)
  PROVE  Cells(Vector([i \in 1 .. Len(b.elem) |-> Dot(a.elem[i], b.elem)])) =
           Contraction(Cells(a), Cells(b))
<1>1. PICK n \in Nat \ {0} : n = Len(b.elem) /\ GridOf(a, n, n) /\ RowOf(b, n)
  BY VectorRow, MatrixGrid
<1> DEFINE x == Cells(a)
           y == Cells(b)
           h == Contraction(x, y)
           s == [i \in 1 .. n |-> Dot(a.elem[i], b.elem)]
<1>2. GridRow(x, y, n, n)
  BY <1>1, GridTimesRow DEF RowOf, GridOf
<1>3. ASSUME NEW i \in 1 .. n PROVE h[<<i>>] = s[i]
  <2> DEFINE u == a.elem[i]
             e == [k \in 1 .. n |-> u[k] * b.elem[k]]
             f == [k \in 1 .. n |-> x[<<i, k>>] * y[<<k>>]]
  <2>2. \A k \in 1 .. n : /\ u[k] = x[<<i, k>>] /\ u[k] \in Int
                          /\ b.elem[k] = y[<<k>>] /\ b.elem[k] \in Int
    BY <1>1 DEF RowOf, GridOf
  <2>3. e = f
    BY <2>2
  <2>4. Len(u) = n /\ DOMAIN u = 1 .. n
    BY <1>1 DEF GridOf
  <2> HIDE DEF u
  <2>7. Factors(u, b.elem, n)
    BY <2>2, <2>4 DEF Factors
  <2>8. Dot(u, b.elem) = SumTo(Terms(u, b.elem, n), n)
    BY <2>7, DotIs
  <2>5. Dot(u, b.elem) = SumTo(e, n)
    BY <2>8 DEF Terms
  <2>6. h[<<i>>] = SumTo(f, n)
    BY <1>2 DEF GridRow
  <2> QED
    BY <2>3, <2>5, <2>6 DEF u
<1>4. /\ DOMAIN s = 1 .. n /\ h = [c \in DOMAIN h |-> h[c]] /\ DOMAIN h = {<<i>> : i \in 1 .. n}
  BY <1>2 DEF GridRow, Ones
<1>6. Vector([i \in 1 .. Len(b.elem) |-> Dot(a.elem[i], b.elem)]) = Vector(s)
  BY <1>1
<1> HIDE DEF s, h
<1>7. Cells(Vector(s)) = h
  BY <1>3, <1>4, VectorIs
<1> QED
  BY <1>6, <1>7 DEF h

LEMMA ProductOfMatrices ==
  ASSUME NEW a, NEW b, IsMatrix(a), IsMatrix(b), Cols(a) = Rows(b)
  PROVE  /\ Cells(Product(a, b)) = Contraction(Cells(a), Cells(b))
         /\ IsMatrix(Product(a, b))
         /\ Rows(Product(a, b)) = Rows(a) /\ Cols(Product(a, b)) = Cols(b)
<1>1. PICK n \in Nat \ {0}, r \in Nat \ {0}, c \in Nat \ {0} :
         n = Cols(a) /\ r = Rows(a) /\ c = Cols(b) /\ GridOf(a, r, n) /\ GridOf(b, n, c)
  BY MatrixGrid
<1> DEFINE x == Cells(a)
           y == Cells(b)
           h == Contraction(x, y)
           s == [i \in 1 .. r |-> [j \in 1 .. c |-> Dot(a.elem[i], Col(b, j))]]
<1>2. GridGrid(x, y, n, r, c)
  BY <1>1, GridTimesGrid DEF GridOf
<1>3. ASSUME NEW i \in 1 .. r, NEW j \in 1 .. c PROVE h[<<i, j>>] = s[i][j] /\ s[i][j] \in Int
  <2> DEFINE u == a.elem[i]
             w == Col(b, j)
             e == [k \in 1 .. n |-> u[k] * w[k]]
             f == [k \in 1 .. n |-> x[<<i, k>>] * y[<<k, j>>]]
  <2>1. \A k \in 1 .. n : w[k] = b.elem[k][j]
    BY <1>1 DEF Col, GridOf
  <2> HIDE DEF w
  <2>2. \A k \in 1 .. n : /\ w[k] = y[<<k, j>>] /\ w[k] \in Int
                          /\ u[k] = x[<<i, k>>] /\ u[k] \in Int
    BY <1>1, <2>1 DEF GridOf
  <2>3. e = f
    BY <2>2
  <2>4. Len(u) = n /\ DOMAIN u = 1 .. n
    BY <1>1 DEF GridOf
  <2>0. s[i][j] = Dot(u, w)
    BY DEF w
  <2> HIDE DEF u
  <2>7. Factors(u, w, n)
    BY <2>2, <2>4 DEF Factors
  <2>8. Dot(u, w) = SumTo(Terms(u, w, n), n) /\ Dot(u, w) \in Int
    BY <2>7, DotIs
  <2>5. Dot(u, w) = SumTo(e, n) /\ Dot(u, w) \in Int
    BY <2>8 DEF Terms
  <2>6. h[<<i, j>>] = SumTo(f, n)
    BY <1>2 DEF GridGrid
  <2> HIDE DEF s, e, f, h
  <2> QED
    BY <2>0, <2>3, <2>5, <2>6
<1>4. /\ DOMAIN s = 1 .. r /\ \A i \in 1 .. r : DOMAIN s[i] = 1 .. c
  OBVIOUS
<1>5. h = [q \in DOMAIN h |-> h[q]] /\ DOMAIN h = (1 .. r) \X (1 .. c)
  BY <1>2 DEF GridGrid
<1>6. Product(a, b) = Matrix(s)
  BY <1>1 DEF Product, GridOf
<1>7. s \in [1 .. r -> [1 .. c -> Int]]
  <2> DEFINE t == [i \in 1 .. r |-> [j \in 1 .. c |-> s[i][j]]]
  <2>1. s = t
    OBVIOUS
  <2> HIDE DEF s
  <2>2. t \in [1 .. r -> [1 .. c -> Int]]
    BY <1>3
  <2> QED
    BY <2>1, <2>2
<1> HIDE DEF s, h
<1>8. Cells(Matrix(s)) = h
  <2>1. Table(h, s, r, c)
    BY <1>3, <1>4, <1>5 DEF Table
  <2> QED
    BY <2>1, MatrixIs
<1>9. Matrix(s).type = "matrix" /\ Matrix(s).elem = s
  BY DEF Matrix
<1>10. IsMatrix(Matrix(s))
  <2> DEFINE v == Matrix(s)
  <2> HIDE DEF v
  <2>1. v.type = "matrix" /\ v.elem = s
    BY <1>9 DEF v
  <2>2. v.elem \in [1 .. r -> [1 .. c -> Int]]
    BY <1>7, <2>1
  <2>3. IsMatrix(v)
    BY <2>1, <2>2 DEF IsMatrix
  <2> QED
    BY <2>3 DEF v
<1>11. MatrixCells(Matrix(s), r, c)
  BY <1>4, <1>9, CellsOfMatrix
<1> QED
  BY <1>1, <1>6, <1>8, <1>10, <1>11 DEF h, MatrixCells

-----------------------------------------------------------------------------
(* What is raised to a power: digits, and square matrices of one size. *)
ValueOperands == \A t \in Tasks : t \in Literals \/ (IsValue(t.a) /\ IsValue(t.b))

Like(v, a) ==
  \/ a.type = "digit" /\ IsNum(v)
  \/ a.type = "matrix" /\ IsMatrix(v) /\ Rows(v) = Rows(a) /\ Cols(v) = Rows(a)

Carrier(a) == IF a.type = "digit" THEN Nums ELSE Grids(Rows(a))
Unit(a)    == IF a.type = "digit" THEN Num(1) ELSE Units(Rows(a))

LEMMA LikeForms ==
  ASSUME NEW a, NEW v, Like(v, a)
  PROVE  /\ v.type = a.type /\ Cells(v) \in Carrier(a)
         /\ a.type = "digit" => IsNum(v)
         /\ a.type # "digit" => IsMatrix(v) /\ a.type = "matrix" /\ Rows(a) \in Nat \ {0}
                                /\ Rows(v) = Rows(a) /\ Cols(v) = Rows(a)
                                /\ GridOf(v, Rows(a), Rows(a))
<1>1. CASE a.type = "digit"
  <2>1. IsNum(v)
    BY <1>1 DEF Like
  <2>2. Cells(v) = Num(v.elem)
    BY <2>1, CellsOfNum DEF IsNum
  <2> QED
    BY <1>1, <2>1, <2>2 DEF Carrier, Nums, IsNum
<1>2. CASE a.type # "digit"
  <2>1. a.type = "matrix" /\ IsMatrix(v) /\ Rows(v) = Rows(a) /\ Cols(v) = Rows(a)
    BY <1>2 DEF Like
  <2>2. PICK n \in Nat \ {0} : n = Rows(a) /\ GridOf(v, n, n)
    BY <2>1, MatrixGrid
  <2> DEFINE x == Cells(v)
  <2>3. x = [c \in DOMAIN x |-> x[c]]
    BY <2>2 DEF Cells, GridOf
  <2>4. DOMAIN x = (1 .. n) \X (1 .. n) /\ \A c \in (1 .. n) \X (1 .. n) : x[c] \in Int
    <3>1. DOMAIN x = (1 .. n) \X (1 .. n) /\ \A i, j \in 1 .. n : x[<<i, j>>] \in Int
      BY <2>2 DEF GridOf, IsGrid
    <3> HIDE DEF x
    <3>2. SUFFICES ASSUME NEW c \in (1 .. n) \X (1 .. n) PROVE x[c] \in Int
      BY <3>1
    <3>3. PICK i \in 1 .. n, j \in 1 .. n : c = <<i, j>>
      OBVIOUS
    <3> QED
      BY <3>1, <3>3
  <2> HIDE DEF x
  <2>5. x \in Grids(n)
    BY <2>3, <2>4 DEF Grids
  <2> QED
    BY <1>2, <2>1, <2>2, <2>5 DEF Carrier, x, IsMatrix
<1> QED
  BY <1>1, <1>2

LEMMA CarrierMonoid ==
  ASSUME NEW a, Like(a, a)
  PROVE  Monoid(Carrier(a), Unit(a))
<1>1. a.type # "digit" => Rows(a) \in Nat \ {0}
  BY LikeForms
<1> QED
  BY <1>1, NumsMonoid, GridsMonoid DEF Carrier, Unit

LEMMA OneLike ==
  ASSUME NEW a, Like(a, a)
  PROVE  Like(One(a), a) /\ Cells(One(a)) = Unit(a)
<1>1. CASE a.type = "digit"
  <2>1. One(a) = Digit(1) /\ IsNum(Digit(1))
    BY <1>1 DEF One, IsNum, Digit
  <2> QED
    BY <1>1, <2>1, NumIsScalar DEF Like, Unit
<1>2. CASE a.type # "digit"
  <2>1. PICK n \in Nat \ {0} : n = Rows(a) /\ a.type = "matrix"
    BY <1>2, LikeForms
  <2> DEFINE s == [i \in 1 .. n |-> [j \in 1 .. n |-> Bool(i = j)]]
             h == Units(n)
  <2>2. One(a) = Matrix(s)
    BY <1>2, <2>1 DEF One, Identity
  <2>3. DOMAIN s = 1 .. n /\ \A i \in 1 .. n : DOMAIN s[i] = 1 .. n
    OBVIOUS
  <2>4. s \in [1 .. n -> [1 .. n -> Int]]
    BY DEF Bool
  <2>5. \A i \in 1 .. n, j \in 1 .. n : h[<<i, j>>] = s[i][j]
    BY DEF Units
  <2>6. h = [c \in DOMAIN h |-> h[c]] /\ DOMAIN h = (1 .. n) \X (1 .. n)
    BY DEF Units
  <2> HIDE DEF s, h
  <2>7. Cells(Matrix(s)) = h
    <3>1. Table(h, s, n, n)
      BY <2>3, <2>5, <2>6 DEF Table
    <3> QED
      BY <3>1, MatrixIs
  <2> DEFINE v == Matrix(s)
  <2>8. v.type = "matrix" /\ v.elem = s
    BY DEF Matrix
  <2>9. MatrixCells(Matrix(s), n, n)
    BY <2>3, <2>8, CellsOfMatrix
  <2>10. Rows(v) = n /\ Cols(v) = n /\ Cells(v) = h
    BY <2>7, <2>9 DEF MatrixCells
  <2> HIDE DEF v
  <2>11. IsMatrix(v)
    <3>1. v.elem \in [1 .. n -> [1 .. n -> Int]]
      BY <2>4, <2>8
    <3> QED
      BY <2>8, <3>1 DEF IsMatrix
  <2>12. Like(v, a)
    BY <2>1, <2>10, <2>11 DEF Like
  <2>13. Cells(v) = Unit(a)
    BY <1>2, <2>1, <2>10 DEF Unit, h
  <2>14. One(a) = v
    BY <2>2 DEF v
  <2> QED
    BY <2>12, <2>13, <2>14
<1> QED
  BY <1>1, <1>2

LEMMA TimesLike ==
  ASSUME NEW a, NEW u, NEW v, Like(u, a), Like(v, a)
  PROVE  Like(Times(u, v), a) /\ Cells(Times(u, v)) = RefTimes(Cells(u), Cells(v))
<1>1. CASE a.type = "digit"
  <2>1. IsNum(u) /\ IsNum(v) /\ u.type = "digit" /\ v.type = "digit"
    BY <1>1, LikeForms DEF IsNum
  <2>2. PICK x \in Int, y \in Int : x = u.elem /\ y = v.elem
    BY <2>1 DEF IsNum
  <2>3. Times(u, v) = Digit(x * y)
    BY <2>1, <2>2 DEF Times
  <2>4. x * y \in Int
    OBVIOUS
  <2>5. IsNum(Digit(x * y))
    BY <2>4 DEF IsNum, Digit
  <2>6. Cells(u) = Num(x) /\ Cells(v) = Num(y) /\ Cells(Digit(x * y)) = Num(x * y)
    BY <2>1, <2>2, CellsOfNum, NumIsScalar
  <2>7. RefTimes(Num(x), Num(y)) = Num(x * y)
    BY NumIsScalar
  <2> QED
    BY <1>1, <2>3, <2>5, <2>6, <2>7 DEF Like
<1>2. CASE a.type # "digit"
  <2>1. PICK n \in Nat \ {0} :
          /\ n = Rows(a) /\ a.type = "matrix" /\ u.type # "digit"
          /\ IsMatrix(u) /\ Rows(u) = n /\ Cols(u) = n /\ ~Scalar(Cells(u))
          /\ IsMatrix(v) /\ Rows(v) = n /\ Cols(v) = n
    BY <1>2, LikeForms DEF GridOf
  <2>2. Times(u, v) = Product(u, v)
    BY <2>1 DEF Times
  <2>3. /\ Cells(Product(u, v)) = Contraction(Cells(u), Cells(v))
        /\ IsMatrix(Product(u, v)) /\ Rows(Product(u, v)) = n /\ Cols(Product(u, v)) = n
    BY <2>1, ProductOfMatrices
  <2>4. RefTimes(Cells(u), Cells(v)) = Contraction(Cells(u), Cells(v))
    BY <2>1 DEF RefTimes
  <2> QED
    BY <2>1, <2>2, <2>3, <2>4 DEF Like
<1> QED
  BY <1>1, <1>2

-----------------------------------------------------------------------------
(* The loops of libm_digit_op and libm_matrix_exp. *)
PowerDone == RefPower(Cells(task.a), task.b.elem)

PowInv ==
  /\ TypeOK
  /\ pc = "power" =>
       /\ Like(base, task.a) /\ Like(acc, task.a)
       /\ pow >= 0 <=> task.b.elem >= 0
       /\ pow >= 0 => RefTimes(RefPower(Cells(base), 2 * pow), Cells(acc)) = PowerDone
  /\ pc = "done" /\ IsPower(task) =>
       /\ task.b.elem >= 0 /\ ~res.told
       /\ Like(res.val, task.a) /\ Cells(res.val) = PowerDone
  /\ pc = "hung" => IsPower(task) /\ task.b.elem < 0

LEMMA ShiftSigned ==
  ASSUME NEW n \in Int
  PROVE  /\ Shift(n) \in Int /\ (Shift(n) >= 0 <=> n >= 0)
         /\ Odd(n) => n = 2 * Shift(n) + 1
         /\ ~Odd(n) => n = 2 * Shift(n)
<1> DEFINE k == n \div 2
<1>1. k \in Int /\ n % 2 \in {0, 1} /\ n = 2 * k + (n % 2)
  OBVIOUS
<1>2. k >= 0 <=> n >= 0
  OBVIOUS
<1> HIDE DEF k
<1>3. Odd(n) => n = 2 * k + 1
  BY <1>1 DEF Odd
<1>4. ~Odd(n) => n = 2 * k
  BY <1>1 DEF Odd
<1> QED
  BY <1>1, <1>2, <1>3, <1>4 DEF Shift, k

(* The task that is a power has numbers for operands. *)
(* The task that is a power has operands of which there are powers. *)
LEMMA PowerOperands ==
  ASSUME ValueOperands, TypeOK, IsPower(task)
  PROVE  /\ Like(task.a, task.a) /\ task.b.elem \in Int
         /\ task.op = "^" /\ task.op # "literal"
         /\ Monoid(Carrier(task.a), Unit(task.a))
<1>1. task \in Tasks /\ task.op = "^" /\ HasPower(task.a, task.b)
  BY DEF TypeOK, IsPower
<1>2. task \notin Literals
  BY <1>1 DEF Literals
<1>3. IsValue(task.a)
  BY <1>1, <1>2 DEF ValueOperands
<1>4. task.b.elem \in Int
  BY <1>1, <1>2, LibmAssumption DEF LibmAssumption, HasPower
<1>5. Like(task.a, task.a)
  <2>1. CASE task.a.type = "digit"
    BY <1>3, <2>1 DEF IsValue, IsVector, IsMatrix, Like
  <2>2. CASE task.a.type = "matrix"
    BY <1>1, <1>3, <2>2 DEF IsValue, IsVector, IsNum, Like, HasPower, Square
  <2> QED
    BY <1>1, <2>1, <2>2 DEF HasPower
<1> QED
  BY <1>1, <1>4, <1>5, CarrierMonoid

LEMMA StartPowerKept ==
  ASSUME ValueOperands, PowInv, StartPower PROVE PowInv'
<1>1. TypeOK' /\ TypeOK
  BY NextTyped DEF PowInv, Next
<1>2. /\ IsPower(task) /\ task' = task /\ base' = task.a /\ pow' = Shift(task.b.elem)
      /\ pc' = "power" /\ acc' = (IF Odd(task.b.elem) THEN task.a ELSE One(task.a))
  BY DEF StartPower
<1> DEFINE a == task.a
           x == Cells(a)
           n == task.b.elem
           k == Shift(n)
<1>3. Like(a, a) /\ n \in Int /\ Monoid(Carrier(a), Unit(a)) /\ x \in Carrier(a)
  BY <1>1, <1>2, PowerOperands, LikeForms
<1>4. Like(One(a), a) /\ Cells(One(a)) = Unit(a)
  BY <1>3, OneLike
<1>5. Like(acc', a) /\ Cells(acc') = (IF Odd(n) THEN x ELSE Unit(a))
  BY <1>2, <1>3, <1>4
<1>6. k \in Int /\ (k >= 0 <=> n >= 0)
  BY <1>3, ShiftSigned
<1> HIDE DEF a, x
<1>7. ASSUME k >= 0 PROVE RefTimes(RefPower(x, 2 * k), Cells(acc')) = RefPower(x, n)
  <2>1. k \in Nat /\ 2 * k \in Nat
    BY <1>6, <1>7
  <2>2. RefPower(x, 2 * k) \in Carrier(a)
    BY <1>3, <2>1, PowerSteps
  <2>3. CASE Odd(n)
    <3>1. n = 2 * k + 1
      BY <1>3, <2>3, ShiftSigned
    <3>2. RefPower(x, 2 * k + 1) = RefTimes(RefPower(x, 2 * k), x)
      BY <1>3, <2>1, PowerSteps
    <3> QED
      BY <1>5, <2>3, <3>1, <3>2
  <2>4. CASE ~Odd(n)
    <3>1. n = 2 * k
      BY <1>3, <2>4, ShiftSigned
    <3>2. RefTimes(RefPower(x, 2 * k), Unit(a)) = RefPower(x, 2 * k)
      BY <1>3, <2>2 DEF Monoid
    <3> QED
      BY <1>5, <2>4, <3>1, <3>2
  <2> QED
    BY <2>3, <2>4
<1>8. PowerDone' = RefPower(x, n)
  BY <1>2 DEF PowerDone, x, a
<1>9. /\ Like(base, task.a)' /\ Like(acc, task.a)'
      /\ (pow >= 0 <=> task.b.elem >= 0)'
  BY <1>2, <1>3, <1>5, <1>6 DEF a
<1>10. (pow >= 0 => RefTimes(RefPower(Cells(base), 2 * pow), Cells(acc)) = PowerDone)'
  <2>1. Cells(base)' = x /\ Cells(acc)' = Cells(acc') /\ pow' = k
    BY <1>2 DEF x, a
  <2> QED
    BY <1>7, <1>8, <2>1
<1> QED
  BY <1>1, <1>2, <1>9, <1>10 DEF PowInv

LEMMA SquareBaseKept ==
  ASSUME ValueOperands, PowInv, SquareBase PROVE PowInv'
<1>1. TypeOK' /\ TypeOK /\ pow \in Int
  BY NextTyped DEF PowInv, Next, TypeOK
<1>2. /\ pc = "power" /\ pc' = "power" /\ task' = task
      /\ base' = Times(base, base) /\ pow' = Shift(pow)
      /\ acc' = (IF Odd(pow) THEN Times(base', acc) ELSE acc)
  BY DEF SquareBase
<1> DEFINE a == task.a
           x == Cells(base)
           y == Cells(acc)
           q == RefTimes(x, x)
           k == Shift(pow)
<1>3. /\ Like(base, a) /\ Like(acc, a)
      /\ pow >= 0 <=> task.b.elem >= 0
      /\ pow >= 0 => RefTimes(RefPower(x, 2 * pow), y) = PowerDone
  BY <1>2 DEF PowInv
<1>4. Monoid(Carrier(a), Unit(a)) /\ x \in Carrier(a) /\ y \in Carrier(a)
  BY <1>1, <1>2, <1>3, PowerOperands, LikeForms DEF TypeOK
<1>5. Like(base', a) /\ Cells(base') = q
  BY <1>2, <1>3, TimesLike
<1>6. Like(acc', a) /\ Cells(acc') = (IF Odd(pow) THEN RefTimes(q, y) ELSE y)
  <2>1. Like(Times(base', acc), a) /\ Cells(Times(base', acc)) = RefTimes(Cells(base'), y)
    BY <1>3, <1>5, TimesLike
  <2> QED
    BY <1>2, <1>3, <1>5, <2>1
<1>7. k \in Int /\ (k >= 0 <=> pow >= 0)
  BY <1>1, ShiftSigned
<1>8. q \in Carrier(a)
  BY <1>4 DEF Monoid
<1> HIDE DEF a, x, y
<1>9. ASSUME k >= 0
      PROVE  RefTimes(RefPower(q, 2 * k), Cells(acc')) = RefTimes(RefPower(x, 2 * pow), y)
  <2>1. k \in Nat /\ 2 * k \in Nat /\ 2 * k + 1 \in Nat
    BY <1>7, <1>9
  <2>2. RefPower(q, 2 * k) \in Carrier(a)
    BY <1>4, <1>8, <2>1, PowerSteps
  <2>3. \A n \in Nat : RefPower(q, n) = RefPower(x, 2 * n)
    BY <1>4, PowerOfSquare
  <2> HIDE DEF q
  <2>4. CASE Odd(pow)
    <3>1. pow = 2 * k + 1
      BY <1>1, <2>4, ShiftSigned
    <3>2. RefPower(q, 2 * k + 1) = RefTimes(RefPower(q, 2 * k), q)
      BY <1>4, <1>8, <2>1, PowerSteps
    <3>3. RefPower(q, 2 * k + 1) = RefPower(x, 2 * pow)
      BY <2>1, <2>3, <3>1
    <3>4. RefTimes(RefPower(q, 2 * k), RefTimes(q, y)) =
            RefTimes(RefTimes(RefPower(q, 2 * k), q), y)
      BY <1>4, <1>8, <2>2 DEF Monoid
    <3> QED
      BY <1>6, <2>4, <3>2, <3>3, <3>4
  <2>5. CASE ~Odd(pow)
    <3>1. pow = 2 * k
      BY <1>1, <2>5, ShiftSigned
    <3>2. RefPower(q, 2 * k) = RefPower(x, 2 * pow)
      BY <2>1, <2>3, <3>1
    <3> QED
      BY <1>6, <2>5, <3>2
  <2> QED
    BY <2>4, <2>5
<1>10. PowerDone' = PowerDone
  BY <1>2 DEF PowerDone
<1>11. /\ Like(base, task.a)' /\ Like(acc, task.a)'
       /\ (pow >= 0 <=> task.b.elem >= 0)'
  BY <1>2, <1>3, <1>5, <1>6, <1>7 DEF a
<1>12. (pow >= 0 => RefTimes(RefPower(Cells(base), 2 * pow), Cells(acc)) = PowerDone)'
  <2>1. Cells(base)' = q /\ Cells(acc)' = Cells(acc') /\ pow' = k
    BY <1>2, <1>5
  <2> HIDE DEF q, k
  <2> QED
    BY <1>3, <1>7, <1>9, <1>10, <2>1
<1> QED
  BY <1>1, <1>2, <1>11, <1>12 DEF PowInv

LEMMA EndPowerKept ==
  ASSUME ValueOperands, PowInv, EndPower PROVE PowInv'
<1>1. TypeOK' /\ TypeOK
  BY NextTyped DEF PowInv, Next
<1>2. /\ pc = "power" /\ task' = task /\ pow \in {0, -1}
      /\ pc' = (IF pow = 0 THEN "done" ELSE "hung")
      /\ res' = [val |-> acc, told |-> FALSE]
  BY DEF EndPower
<1>3. /\ Like(base, task.a) /\ Like(acc, task.a) /\ IsPower(task)
      /\ pow >= 0 <=> task.b.elem >= 0
      /\ pow >= 0 => RefTimes(RefPower(Cells(base), 2 * pow), Cells(acc)) = PowerDone
  BY <1>2 DEF PowInv, TypeOK
<1>4. /\ task.b.elem \in Int /\ IsPower(task)' /\ Monoid(Carrier(task.a), Unit(task.a))
      /\ Cells(base) \in Carrier(task.a) /\ Cells(acc) \in Carrier(task.a)
  BY <1>1, <1>2, <1>3, PowerOperands, LikeForms
<1>5. CASE pow = 0
  <2>1. RefPower(Cells(base), 2 * pow) = Unit(task.a)
    BY <1>4, <1>5, PowerSteps
  <2>2. Cells(acc) = PowerDone
    BY <1>3, <1>4, <1>5, <2>1 DEF Monoid
  <2>3. PowerDone' = PowerDone
    BY <1>2 DEF PowerDone
  <2>4. task.b.elem >= 0 /\ res'.val = acc /\ ~res'.told
    BY <1>2, <1>3, <1>5
  <2>5. Cells(res.val)' = PowerDone' /\ Like(res.val, task.a)'
    BY <1>2, <1>3, <2>2, <2>3, <2>4
  <2> QED
    BY <1>1, <1>2, <1>5, <2>4, <2>5 DEF PowInv
<1>6. CASE pow = -1
  <2>1. task.b.elem < 0
    BY <1>3, <1>4, <1>6
  <2> QED
    BY <1>1, <1>2, <1>4, <1>6, <2>1 DEF PowInv
<1> QED
  BY <1>2, <1>5, <1>6

LEMMA NextPower ==
  ASSUME ValueOperands, PowInv, [Next]_vars PROVE PowInv'
<1>1. TypeOK' /\ TypeOK
  BY NextTyped DEF PowInv
<1>2. CASE Operate
  <2>1. PICK o \in Outcomes(task.a, task.b, task.op) : pc' = o.end
    BY <1>2 DEF Operate
  <2>2. task.op \in Ops
    BY <1>1, <1>2, LibmAssumption DEF LibmAssumption, Literals, TypeOK, Operate
  <2>3. pc' \in Endings
    BY <2>1, <2>2, OutcomesEnd DEF AllEnd, Ending
  <2> QED
    BY <1>1, <1>2, <2>3 DEF Operate, PowInv, Endings, IsPower
<1>3. CASE StartPower
  BY <1>3, StartPowerKept
<1>4. CASE SquareBase
  BY <1>4, SquareBaseKept
<1>5. CASE EndPower
  BY <1>5, EndPowerKept
<1>6. CASE StartLiteral
  BY <1>1, <1>6 DEF StartLiteral, PowInv
<1>7. CASE Scale
  BY <1>1, <1>7 DEF Scale, PowInv
<1>8. CASE EndLiteral
  BY <1>1, <1>8 DEF EndLiteral, PowInv, TypeOK, IsPower
<1>9. CASE UNCHANGED vars
  BY <1>1, <1>9 DEF vars, PowInv, PowerDone, IsPower
<1> QED
  BY <1>2, <1>3, <1>4, <1>5, <1>6, <1>7, <1>8, <1>9 DEF Next

LEMMA PowerInvariant == ASSUME ValueOperands PROVE Spec => []PowInv
<1>1. Init => PowInv
  BY DEF Init, PowInv, TypeOK
<1>2. PowInv /\ [Next]_vars => PowInv'
  BY NextPower
<1> QED
  BY <1>1, <1>2, PTL DEF Spec

(* The value of a power that is not negative. *)
LEMMA MeaningOfPower ==
  ASSUME IsPower(task), task.b.elem >= 0
  PROVE  Meaning(task) = PowerDone
<1>1. task.op = "^" /\ HasPower(task.a, task.b)
  BY DEF IsPower
<1> QED
  BY <1>1 DEF Meaning, Relations, PowerDone

(* Squaring and shifting keeps the power of a digit or of a square matrix, for
   all digits, all sizes of matrices and all exponents. *)
THEOREM PowersKept == ASSUME ValueOperands PROVE Spec => []PowerKept
<1>1. PowInv => PowerKept
  <2> SUFFICES ASSUME PowInv, pc = "power", pow >= 0
      PROVE  RefTimes(RefPower(Cells(base), 2 * pow), Cells(acc)) = Meaning(task)
    BY DEF PowerKept
  <2>1. /\ IsPower(task) /\ task.b.elem >= 0
        /\ RefTimes(RefPower(Cells(base), 2 * pow), Cells(acc)) = PowerDone
    BY DEF PowInv, TypeOK
  <2> QED
    BY <2>1, MeaningOfPower
<1> QED
  BY <1>1, PowerInvariant, PTL

-----------------------------------------------------------------------------
(* The parts of Meaning. *)

All(x, y) == DOMAIN (IF Scalar(x) THEN y ELSE x)

Conform(x, y) ==
  x # NoValue /\ y # NoValue /\ (Scalar(x) \/ Scalar(y) \/ DOMAIN x = DOMAIN y)

Each(x, y, op) ==
  IF Conform(x, y) THEN [c \in All(x, y) |-> DigitOp(At(x, c), At(y, c), op)] ELSE NoValue

LEMMA MeaningOfEach ==
  ASSUME NEW t, \/ t.op \in {"+", "-"} \cup Relations
                \/ t.op = "*" /\ (Scalar(Cells(t.a)) \/ Scalar(Cells(t.b)))
  PROVE  Meaning(t) = Each(Cells(t.a), Cells(t.b), t.op)
  BY DEF Meaning, Each, Conform, All, Relations

LEMMA MeaningOfArrays ==
  ASSUME NEW t, t.op = "*", ~Scalar(Cells(t.a)), ~Scalar(Cells(t.b)),
         Cells(t.a) # NoValue, Cells(t.b) # NoValue
  PROVE  Meaning(t) = Contraction(Cells(t.a), Cells(t.b))
  BY DEF Meaning, Relations

EachTrue(x, y, op, D) ==
  IF op = "&&" THEN \A c \in D : DigitOp(At(x, c), At(y, c), op) = 1
  ELSE \E c \in D : DigitOp(At(x, c), At(y, c), op) = 1

LogicMeaning(t) ==
  Num(Bool(EachTrue(Cells(t.a), Cells(t.b), t.op, All(Cells(t.a), Cells(t.b)))))

LEMMA MeaningOfLogic ==
  ASSUME NEW t, t.op \in {"&&", "||"}, Conform(Cells(t.a), Cells(t.b))
  PROVE  Meaning(t) = LogicMeaning(t)
  BY DEF Meaning, Conform, All, Relations, Num, EachTrue, LogicMeaning

LEMMA MeaningOfQuotient ==
  ASSUME NEW t, t.op = "/", Cells(t.a) # NoValue,
         t.a.type = "digit" => t.b.type = "digit",
         \/ t.b.type = "digit" /\ Cells(t.b)[<<>>] # 0
         \/ t.b.type = "matrix" /\ Square(t.b) /\ Heads(Cells(t.a)) = Heads(Cells(t.b))
  PROVE  Meaning(t) = [c \in DOMAIN Cells(t.a) |-> Real]
  BY DEF Meaning, Relations

(* Operands of one size: digits have every size. *)
FitsVector(v, n) == IsNum(v) \/ (IsVector(v) /\ Len(v.elem) = n)

FitsMatrix(v, r, k) == IsNum(v) \/ (IsMatrix(v) /\ Rows(v) = r /\ Cols(v) = k)

LEMMA AtVector ==
  ASSUME NEW n \in Nat \ {0}, NEW v, FitsVector(v, n)
  PROVE  /\ Cells(v) # NoValue
         /\ IsNum(v) => Scalar(Cells(v))
         /\ ~IsNum(v) => ~Scalar(Cells(v)) /\ DOMAIN Cells(v) = {<<i>> : i \in 1 .. n}
         /\ \A i \in 1 .. n : At(Cells(v), <<i>>) = InVector(v, i)
<1>1. CASE IsNum(v)
  BY <1>1, CellsOfNum DEF IsNum, InVector
<1>2. CASE ~IsNum(v)
  <2>1. IsVector(v) /\ Len(v.elem) = n /\ v.type = "vector"
    BY <1>2 DEF FitsVector, IsVector
  <2>2. DOMAIN v.elem = 1 .. n
    BY <2>1, VectorForm
  <2>3. /\ DOMAIN Cells(v) = {<<i>> : i \in 1 .. n}
        /\ ~Scalar(Cells(v)) /\ Cells(v) # NoValue
        /\ \A i \in 1 .. n : At(Cells(v), <<i>>) = v.elem[i]
    BY <2>1, <2>2, CellsOfVector
  <2> QED
    BY <1>2, <2>1, <2>3 DEF InVector
<1> QED
  BY <1>1, <1>2

OfMatrix(v, r, k) ==
  /\ Cells(v) # NoValue
  /\ IsNum(v) => Scalar(Cells(v))
  /\ ~IsNum(v) => ~Scalar(Cells(v)) /\ DOMAIN Cells(v) = (1 .. r) \X (1 .. k)
  /\ \A i \in 1 .. r, j \in 1 .. k : At(Cells(v), <<i, j>>) = InMatrix(v, i, j)

LEMMA AtMatrix ==
  ASSUME NEW r \in Nat \ {0}, NEW k \in Nat \ {0}, NEW v, FitsMatrix(v, r, k)
  PROVE  OfMatrix(v, r, k)
<1>1. CASE IsNum(v)
  BY <1>1, CellsOfNum DEF IsNum, InMatrix, OfMatrix
<1>2. CASE ~IsNum(v)
  <2>1. IsMatrix(v) /\ Rows(v) = r /\ Cols(v) = k /\ v.type = "matrix"
    BY <1>2 DEF FitsMatrix, IsMatrix
  <2>2. DOMAIN v.elem = 1 .. r /\ \A i \in 1 .. r : DOMAIN v.elem[i] = 1 .. k
    BY <2>1, MatrixForm
  <2>3. MatrixCells(v, r, k)
    BY <2>1, <2>2, CellsOfMatrix
  <2> QED
    BY <1>2, <2>1, <2>3 DEF InMatrix, MatrixCells, OfMatrix
<1> QED
  BY <1>1, <1>2

(* What the operations do element by element is what they mean. *)
LEMMA EachOfVectors ==
  ASSUME NEW n \in Nat \ {0}, NEW a, NEW b, NEW op,
         FitsVector(a, n), FitsVector(b, n), ~(IsNum(a) /\ IsNum(b)),
         NEW s, DOMAIN s = 1 .. n,
         \A i \in 1 .. n : s[i] = DigitOp(InVector(a, i), InVector(b, i), op)
  PROVE  Cells(Vector(s)) = Each(Cells(a), Cells(b), op)
<1> DEFINE D == {<<i>> : i \in 1 .. n}
           x == Cells(a)
           y == Cells(b)
           h == [c \in D |-> DigitOp(At(x, c), At(y, c), op)]
<1>1. Conform(x, y) /\ All(x, y) = D
  BY AtVector DEF Conform, All
<1>2. Each(x, y, op) = h
  BY <1>1 DEF Each
<1>3. \A i \in 1 .. n : <<i>> \in D /\ h[<<i>>] = DigitOp(At(x, <<i>>), At(y, <<i>>), op)
  OBVIOUS
<1>4. \A i \in 1 .. n : h[<<i>>] = s[i]
  <2> TAKE i \in 1 .. n
  <2>1. At(x, <<i>>) = InVector(a, i) /\ At(y, <<i>>) = InVector(b, i)
    BY AtVector
  <2> HIDE DEF h, x, y, D
  <2> QED
    BY <1>3, <2>1
<1>5. h = [c \in DOMAIN h |-> h[c]] /\ DOMAIN h = D
  OBVIOUS
<1> HIDE DEF h
<1>6. Cells(Vector(s)) = h
  BY <1>4, <1>5, VectorIs
<1> QED
  BY <1>2, <1>6

LEMMA EachOfMatrices ==
  ASSUME NEW r \in Nat \ {0}, NEW k \in Nat \ {0}, NEW a, NEW b, NEW op,
         FitsMatrix(a, r, k), FitsMatrix(b, r, k), ~(IsNum(a) /\ IsNum(b)),
         NEW s, DOMAIN s = 1 .. r, \A i \in 1 .. r : DOMAIN s[i] = 1 .. k,
         \A i \in 1 .. r, j \in 1 .. k :
           s[i][j] = DigitOp(InMatrix(a, i, j), InMatrix(b, i, j), op)
  PROVE  Cells(Matrix(s)) = Each(Cells(a), Cells(b), op)
<1> DEFINE D == (1 .. r) \X (1 .. k)
           x == Cells(a)
           y == Cells(b)
           h == [c \in D |-> DigitOp(At(x, c), At(y, c), op)]
<1>0. OfMatrix(a, r, k) /\ OfMatrix(b, r, k)
  BY AtMatrix
<1>1. Conform(x, y) /\ All(x, y) = D
  BY <1>0 DEF Conform, All, OfMatrix
<1>2. Each(x, y, op) = h
  BY <1>1 DEF Each
<1>3. \A i \in 1 .. r, j \in 1 .. k :
        h[<<i, j>>] = DigitOp(At(x, <<i, j>>), At(y, <<i, j>>), op)
  OBVIOUS
<1>4. \A i \in 1 .. r, j \in 1 .. k : h[<<i, j>>] = s[i][j]
  <2> TAKE i \in 1 .. r, j \in 1 .. k
  <2>1. At(x, <<i, j>>) = InMatrix(a, i, j) /\ At(y, <<i, j>>) = InMatrix(b, i, j)
    BY <1>0 DEF OfMatrix
  <2> HIDE DEF h, x, y, D
  <2> QED
    BY <1>3, <2>1
<1>5. h = [c \in DOMAIN h |-> h[c]] /\ DOMAIN h = (1 .. r) \X (1 .. k)
  OBVIOUS
<1> HIDE DEF h, D, x, y
<1>6. Cells(Matrix(s)) = h
  <2> DEFINE g == h
  <2> HIDE DEF g
  <2>1. Table(g, s, r, k)
    BY <1>4, <1>5 DEF g, Table
  <2>2. Cells(Matrix(s)) = g
    BY <2>1, MatrixIs
  <2> QED
    BY <2>2 DEF g
<1> QED
  BY <1>2, <1>6 DEF x, y

LEMMA EachOfNums ==
  ASSUME NEW a, NEW b, NEW op, IsNum(a), IsNum(b)
  PROVE  Cells(Digit(DigitOp(a.elem, b.elem, op))) = Each(Cells(a), Cells(b), op)
<1> DEFINE x == Cells(a)
           y == Cells(b)
<1>1. Scalar(x) /\ Scalar(y) /\ x # NoValue /\ y # NoValue
      /\ \A c : At(x, c) = a.elem /\ At(y, c) = b.elem
  BY CellsOfNum DEF IsNum
<1>2. Conform(x, y) /\ All(x, y) = {<<>>}
  BY <1>1 DEF Conform, All, Scalar
<1>3. Each(x, y, op) = [c \in {<<>>} |-> DigitOp(At(x, c), At(y, c), op)]
  BY <1>2 DEF Each
<1>4. Each(x, y, op) = Num(DigitOp(a.elem, b.elem, op))
  BY <1>1, <1>3 DEF Num
<1> QED
  BY <1>4, NumIsScalar

-----------------------------------------------------------------------------
(* Results without a message are right. *)
AllRight(S, m) == \A o \in S : o.end = "done" /\ ~o.told => Cells(o.val) = m

LEMMA RightAnswers ==
  /\ \A v, m : AllRight(Told(v), m)
  /\ \A v, m : Cells(v) = m => AllRight(Gives(v), m)
  /\ \A m : AllRight(Refused, m) /\ AllRight(NoAnswer, m) /\ AllRight({}, m)
            /\ AllRight(Ends("exited"), m) /\ AllRight(Ends("undefined"), m)
  /\ \A S, T, m : AllRight(S, m) /\ AllRight(T, m) => AllRight(S \cup T, m)
<1>1. \A v, m : AllRight(Told(v), m)
  BY DEF AllRight, Told
<1>2. \A v, m : Cells(v) = m => AllRight(Gives(v), m)
  BY DEF AllRight, Gives
<1>3. \A m : AllRight(Ends("exited"), m) /\ AllRight(Ends("undefined"), m) /\ AllRight({}, m)
  BY DEF AllRight, Ends
<1>4. \A m : AllRight(Refused, m) /\ AllRight(NoAnswer, m)
  BY <1>1 DEF Refused, NoAnswer
<1>5. \A S, T, m : AllRight(S, m) /\ AllRight(T, m) => AllRight(S \cup T, m)
  BY DEF AllRight
<1> QED
  BY <1>1, <1>2, <1>3, <1>4, <1>5

LEMMA ValueForms ==
  ASSUME NEW v, IsValue(v)
  PROVE  /\ v.type = "digit"  => IsNum(v) /\ v.elem \in Int
         /\ v.type = "vector" => IsVector(v) /\ ~IsNum(v) /\ DOMAIN v.elem = 1 .. Len(v.elem)
                                 /\ Len(v.elem) \in Nat \ {0} /\ FitsVector(v, Len(v.elem))
         /\ v.type = "matrix" => IsMatrix(v) /\ ~IsNum(v)
                                 /\ Rows(v) \in Nat \ {0} /\ Cols(v) \in Nat \ {0}
                                 /\ FitsMatrix(v, Rows(v), Cols(v))
<1>1. v.type = "digit" => IsNum(v) /\ v.elem \in Int
  BY DEF IsValue, IsNum, IsVector, IsMatrix
<1>2. v.type = "vector" => IsVector(v) /\ ~IsNum(v)
  BY DEF IsValue, IsNum, IsVector, IsMatrix
<1>3. v.type = "matrix" => IsMatrix(v) /\ ~IsNum(v)
  BY DEF IsValue, IsNum, IsVector, IsMatrix
<1>4. v.type = "vector" => DOMAIN v.elem = 1 .. Len(v.elem) /\ Len(v.elem) \in Nat \ {0}
  BY <1>2, VectorForm
<1>5. v.type = "matrix" => Rows(v) \in Nat \ {0} /\ Cols(v) \in Nat \ {0}
  BY <1>3, MatrixForm
<1> QED
  BY <1>1, <1>2, <1>3, <1>4, <1>5 DEF FitsVector, FitsMatrix

(* A vector computed from two operands of which one at least is a vector. *)
LEMMA VectorRight ==
  ASSUME NEW a, NEW b, NEW op, NEW n \in Nat \ {0},
         FitsVector(a, n), FitsVector(b, n), ~(IsNum(a) /\ IsNum(b)),
         NEW s, DOMAIN s = 1 .. n,
         \A i \in 1 .. n : s[i] = DigitOp(InVector(a, i), InVector(b, i), op)
  PROVE  AllRight(Gives(Vector(s)), Each(Cells(a), Cells(b), op))
<1>1. Cells(Vector(s)) = Each(Cells(a), Cells(b), op)
  BY EachOfVectors
<1> QED
  BY <1>1, RightAnswers

LEMMA MatrixRight ==
  ASSUME NEW a, NEW b, NEW op, NEW r \in Nat \ {0}, NEW k \in Nat \ {0},
         FitsMatrix(a, r, k), FitsMatrix(b, r, k), ~(IsNum(a) /\ IsNum(b)),
         NEW s, DOMAIN s = 1 .. r, \A i \in 1 .. r : DOMAIN s[i] = 1 .. k,
         \A i \in 1 .. r, j \in 1 .. k :
           s[i][j] = DigitOp(InMatrix(a, i, j), InMatrix(b, i, j), op)
  PROVE  AllRight(Gives(Matrix(s)), Each(Cells(a), Cells(b), op))
<1>1. Cells(Matrix(s)) = Each(Cells(a), Cells(b), op)
  BY EachOfMatrices
<1> QED
  BY <1>1, RightAnswers

LEMMA NumRight ==
  ASSUME NEW a, NEW b, NEW op, IsNum(a), IsNum(b)
  PROVE  AllRight(Gives(Digit(DigitOp(a.elem, b.elem, op))), Each(Cells(a), Cells(b), op))
  BY EachOfNums, RightAnswers

(* A digit and a vector or a matrix, in either order: the digit is combined with
   each element. *)
LEMMA DigitVectorRight ==
  ASSUME NEW a, NEW b, NEW op, IsNum(a), IsVector(b), IsValue(b),
         NEW s, DOMAIN s = DOMAIN b.elem
  PROVE  /\ (\A i \in DOMAIN b.elem : s[i] = DigitOp(a.elem, b.elem[i], op)) =>
              AllRight(Gives(Vector(s)), Each(Cells(a), Cells(b), op))
         /\ (\A i \in DOMAIN b.elem : s[i] = DigitOp(b.elem[i], a.elem, op)) =>
              AllRight(Gives(Vector(s)), Each(Cells(b), Cells(a), op))
<1> DEFINE n == Len(b.elem)
<1>1. /\ FitsVector(b, n) /\ FitsVector(a, n) /\ ~IsNum(b) /\ n \in Nat \ {0}
      /\ DOMAIN b.elem = 1 .. n /\ a.type = "digit" /\ b.type = "vector"
  BY ValueForms DEF IsVector, FitsVector, IsNum
<1>2. \A i \in 1 .. n : InVector(a, i) = a.elem /\ InVector(b, i) = b.elem[i]
  BY <1>1 DEF InVector
<1> HIDE DEF n
<1>3. ASSUME \A i \in DOMAIN b.elem : s[i] = DigitOp(a.elem, b.elem[i], op)
      PROVE  AllRight(Gives(Vector(s)), Each(Cells(a), Cells(b), op))
  <2>1. \A i \in 1 .. n : s[i] = DigitOp(InVector(a, i), InVector(b, i), op)
    BY <1>1, <1>2, <1>3
  <2> QED
    BY <1>1, <2>1, VectorRight
<1>4. ASSUME \A i \in DOMAIN b.elem : s[i] = DigitOp(b.elem[i], a.elem, op)
      PROVE  AllRight(Gives(Vector(s)), Each(Cells(b), Cells(a), op))
  <2>1. \A i \in 1 .. n : s[i] = DigitOp(InVector(b, i), InVector(a, i), op)
    BY <1>1, <1>2, <1>4
  <2> QED
    BY <1>1, <2>1, VectorRight
<1> QED
  BY <1>3, <1>4

LEMMA DigitMatrixRight ==
  ASSUME NEW a, NEW b, NEW op, IsNum(a), IsMatrix(b), IsValue(b), NEW s,
         DOMAIN s = 1 .. Rows(b), \A i \in 1 .. Rows(b) : DOMAIN s[i] = 1 .. Cols(b)
  PROVE  /\ (\A i \in 1 .. Rows(b), j \in 1 .. Cols(b) :
               s[i][j] = DigitOp(a.elem, b.elem[i][j], op)) =>
              AllRight(Gives(Matrix(s)), Each(Cells(a), Cells(b), op))
         /\ (\A i \in 1 .. Rows(b), j \in 1 .. Cols(b) :
               s[i][j] = DigitOp(b.elem[i][j], a.elem, op)) =>
              AllRight(Gives(Matrix(s)), Each(Cells(b), Cells(a), op))
<1> DEFINE r == Rows(b)
           k == Cols(b)
<1>1. /\ FitsMatrix(b, r, k) /\ FitsMatrix(a, r, k) /\ ~IsNum(b)
      /\ r \in Nat \ {0} /\ k \in Nat \ {0} /\ a.type = "digit" /\ b.type = "matrix"
  BY ValueForms DEF IsMatrix, FitsMatrix, IsNum
<1>2. \A i, j : InMatrix(a, i, j) = a.elem /\ InMatrix(b, i, j) = b.elem[i][j]
  BY <1>1 DEF InMatrix
<1>3. DOMAIN s = 1 .. r /\ \A i \in 1 .. r : DOMAIN s[i] = 1 .. k
  OBVIOUS
<1>4. ASSUME \A i \in 1 .. r, j \in 1 .. k : s[i][j] = DigitOp(a.elem, b.elem[i][j], op)
      PROVE  AllRight(Gives(Matrix(s)), Each(Cells(a), Cells(b), op))
  <2> HIDE DEF r, k
  <2>1. \A i \in 1 .. r, j \in 1 .. k : s[i][j] = DigitOp(InMatrix(a, i, j), InMatrix(b, i, j), op)
    BY <1>2, <1>4
  <2> QED
    BY <1>1, <1>3, <2>1, MatrixRight
<1>5. ASSUME \A i \in 1 .. r, j \in 1 .. k : s[i][j] = DigitOp(b.elem[i][j], a.elem, op)
      PROVE  AllRight(Gives(Matrix(s)), Each(Cells(b), Cells(a), op))
  <2> HIDE DEF r, k
  <2>1. \A i \in 1 .. r, j \in 1 .. k : s[i][j] = DigitOp(InMatrix(b, i, j), InMatrix(a, i, j), op)
    BY <1>2, <1>5
  <2> QED
    BY <1>1, <1>3, <2>1, MatrixRight
<1> QED
  BY <1>4, <1>5

LEMMA VectorsRight ==
  ASSUME NEW a, NEW b, NEW op, IsValue(a), IsValue(b),
         a.type = "vector", b.type = "vector", VectorCompareSize(a, b)
  PROVE  AllRight(Gives(VectorsZipped(a, b, op)), Each(Cells(a), Cells(b), op))
<1> DEFINE n == Len(a.elem)
           s == [i \in DOMAIN a.elem |-> DigitOp(a.elem[i], b.elem[i], op)]
<1>1. /\ FitsVector(a, n) /\ FitsVector(b, n) /\ ~IsNum(a) /\ n \in Nat \ {0}
      /\ DOMAIN a.elem = 1 .. n
  BY ValueForms DEF VectorCompareSize
<1>2. DOMAIN s = 1 .. n
      /\ \A i \in 1 .. n : s[i] = DigitOp(InVector(a, i), InVector(b, i), op)
  BY <1>1 DEF InVector
<1>3. VectorsZipped(a, b, op) = Vector(s)
  BY DEF VectorsZipped
<1> HIDE DEF n, s
<1> QED
  BY <1>1, <1>2, <1>3, VectorRight

LEMMA MatricesRight ==
  ASSUME NEW a, NEW b, NEW op, IsValue(a), IsValue(b),
         a.type = "matrix", b.type = "matrix", MatrixCompareSize(a, b), Rows(a) = Rows(b)
  PROVE  AllRight(Gives(MatricesZipped(a, b, op)), Each(Cells(a), Cells(b), op))
<1> DEFINE r == Rows(a)
           k == Cols(a)
           s == [i \in 1 .. r |-> [j \in 1 .. k |-> DigitOp(a.elem[i][j], Cell(b, i, j), op)]]
<1>1. /\ FitsMatrix(a, r, k) /\ FitsMatrix(b, r, k) /\ ~IsNum(a)
      /\ r \in Nat \ {0} /\ k \in Nat \ {0}
  BY ValueForms DEF MatrixCompareSize
<1>2. MatricesZipped(a, b, op) = Matrix(s)
  BY DEF MatricesZipped
<1>3. \A i \in 1 .. r, j \in 1 .. k : Cell(b, i, j) = InMatrix(b, i, j) /\ a.elem[i][j] = InMatrix(a, i, j)
  BY <1>1 DEF Cell, InMatrix
<1>4. DOMAIN s = 1 .. r /\ \A i \in 1 .. r : DOMAIN s[i] = 1 .. k
  OBVIOUS
<1>5. \A i \in 1 .. r, j \in 1 .. k : s[i][j] = DigitOp(a.elem[i][j], Cell(b, i, j), op)
  OBVIOUS
<1> HIDE DEF r, k, s
<1>6. \A i \in 1 .. r, j \in 1 .. k : s[i][j] = DigitOp(InMatrix(a, i, j), InMatrix(b, i, j), op)
  BY <1>3, <1>5
<1> QED
  BY <1>1, <1>2, <1>4, <1>6, MatrixRight

-----------------------------------------------------------------------------
(* The operations, one by one. *)

(* libm_digit_vector_add_op and libm_digit_matrix_add_op: right for a sum, and
   for a difference whose first operand is the digit. *)
LEMMA DigitArrayAddRight ==
  ASSUME NEW a, NEW b, NEW op \in {"+", "-"}, IsValue(a), IsValue(b),
         a.type = "digit", b.type \in Arrays
  PROVE  /\ AllRight(DigitArrayAdd(a.elem, b, op), Each(Cells(a), Cells(b), op))
         /\ op = "+" => AllRight(DigitArrayAdd(a.elem, b, op), Each(Cells(b), Cells(a), op))
<1>0. IsNum(a) /\ a.elem \in Int
  BY ValueForms
<1> DEFINE F(y) == IF op = "+" THEN y + a.elem ELSE -1 * y + a.elem
<1>1. ASSUME NEW y \in Int
      PROVE  F(y) = DigitOp(a.elem, y, op) /\ (op = "+" => F(y) = DigitOp(y, a.elem, op))
  BY <1>0, <1>1 DEF DigitOp
<1>2. CASE b.type = "vector"
  <2> DEFINE s == [i \in DOMAIN b.elem |-> F(b.elem[i])]
  <2>1. IsVector(b) /\ \A i \in DOMAIN b.elem : b.elem[i] \in Int
    BY <1>2, ValueForms, VectorForm
  <2>2. DigitArrayAdd(a.elem, b, op) = Gives(Vector(s))
    BY <1>2 DEF DigitArrayAdd, Mapped
  <2>3. DOMAIN s = DOMAIN b.elem /\ \A i \in DOMAIN b.elem : s[i] = F(b.elem[i])
    OBVIOUS
  <2>4. \A i \in DOMAIN b.elem :
           s[i] = DigitOp(a.elem, b.elem[i], op) /\ (op = "+" => s[i] = DigitOp(b.elem[i], a.elem, op))
    <3> HIDE DEF s, F
    <3> QED
      BY <1>1, <2>1, <2>3
  <2> HIDE DEF s
  <2> QED
    BY <1>0, <2>1, <2>2, <2>3, <2>4, DigitVectorRight
<1>3. CASE b.type = "matrix"
  <2> DEFINE s == [i \in 1 .. Rows(b) |-> [j \in 1 .. Cols(b) |-> F(b.elem[i][j])]]
  <2>1. IsMatrix(b) /\ \A i \in 1 .. Rows(b), j \in 1 .. Cols(b) : b.elem[i][j] \in Int
    BY <1>3, ValueForms, MatrixForm
  <2>2. DigitArrayAdd(a.elem, b, op) = Gives(Matrix(s))
    BY <1>3 DEF DigitArrayAdd, Mapped
  <2>3. /\ DOMAIN s = 1 .. Rows(b) /\ \A i \in 1 .. Rows(b) : DOMAIN s[i] = 1 .. Cols(b)
        /\ \A i \in 1 .. Rows(b), j \in 1 .. Cols(b) : s[i][j] = F(b.elem[i][j])
    OBVIOUS
  <2>4. \A i \in 1 .. Rows(b), j \in 1 .. Cols(b) :
           /\ s[i][j] = DigitOp(a.elem, b.elem[i][j], op)
           /\ op = "+" => s[i][j] = DigitOp(b.elem[i][j], a.elem, op)
    <3> HIDE DEF s, F
    <3> QED
      BY <1>1, <2>1, <2>3
  <2> HIDE DEF s
  <2> QED
    BY <1>0, <2>1, <2>2, <2>3, <2>4, DigitMatrixRight
<1> QED
  BY <1>2, <1>3 DEF Arrays

LEMMA AddRight ==
  ASSUME NEW a, NEW b, NEW op \in {"+", "-"}, IsValue(a), IsValue(b),
         ~(op = "-" /\ a.type \in Arrays /\ b.type = "digit")
  PROVE  AllRight(AddOp(a, b, op), Each(Cells(a), Cells(b), op))
<1> DEFINE m == Each(Cells(a), Cells(b), op)
<1>1. CASE a.type = "digit" /\ b.type = "digit"
  <2>1. IsNum(a) /\ IsNum(b)
    BY <1>1, ValueForms
  <2>2. AddOp(a, b, op) = Gives(Digit(DigitOp(a.elem, b.elem, op)))
    BY <1>1 DEF AddOp, Arrays
  <2> QED
    BY <2>1, <2>2, NumRight
<1>2. CASE a.type = "digit" /\ b.type \in Arrays
  <2>1. AddOp(a, b, op) = DigitArrayAdd(a.elem, b, op)
    BY <1>2 DEF AddOp, Arrays
  <2> QED
    BY <1>2, <2>1, DigitArrayAddRight
<1>3. CASE a.type \in Arrays /\ b.type = "digit"
  <2>1. AddOp(a, b, op) = DigitArrayAdd(b.elem, a, op) /\ op = "+"
    BY <1>3 DEF AddOp, Arrays
  <2> QED
    BY <1>3, <2>1, DigitArrayAddRight
<1>4. CASE a.type = "vector" /\ b.type = "vector"
  <2>1. AddOp(a, b, op) = VectorAdd(a, b, op)
    BY <1>4 DEF AddOp, Arrays
  <2> QED
    BY <1>4, <2>1, VectorsRight, RightAnswers DEF VectorAdd
<1>5. CASE a.type = "matrix" /\ b.type = "matrix"
  <2>1. AddOp(a, b, op) = MatrixAdd(a, b, op)
    BY <1>5 DEF AddOp, Arrays
  <2>2. AllRight(MatrixAdd(a, b, op), m)
    <3> HIDE DEF m
    <3>1. CASE ~MatrixCompareSize(a, b)
      BY <3>1, RightAnswers DEF MatrixAdd
    <3>2. CASE MatrixCompareSize(a, b) /\ op = "-"
      BY <3>2, RightAnswers DEF MatrixAdd
    <3>3. CASE MatrixCompareSize(a, b) /\ op # "-" /\ Rows(a) = Rows(b)
      BY <1>5, <3>3, MatricesRight DEF MatrixAdd, m
    <3>4. CASE MatrixCompareSize(a, b) /\ op # "-" /\ Rows(a) # Rows(b)
      BY <3>4, RightAnswers DEF MatrixAdd
    <3> QED
      BY <3>1, <3>2, <3>3, <3>4
  <2> QED
    BY <2>1, <2>2
<1>6. CASE /\ ~(a.type = "digit" /\ b.type = "digit")
           /\ ~(a.type = "digit" /\ b.type \in Arrays)
           /\ ~(a.type \in Arrays /\ b.type = "digit")
           /\ ~(a.type = "vector" /\ b.type = "vector")
           /\ ~(a.type = "matrix" /\ b.type = "matrix")
  <2>1. AddOp(a, b, op) = Refused
    BY <1>6 DEF AddOp
  <2> QED
    BY <2>1, RightAnswers
<1> QED
  BY <1>1, <1>2, <1>3, <1>4, <1>5, <1>6

(* Relations.  That of a digit and a vector is not among the correct ones, and
   a matrix and a digit are compared the other way round. *)
LEMMA RelRight ==
  ASSUME NEW a, NEW b, NEW op \in Relations, IsValue(a), IsValue(b),
         ~(a.type = "digit" /\ b.type = "vector"),
         ~(op \notin {"==", "!="} /\ a.type = "matrix" /\ b.type = "digit"),
         ~(a.type = "matrix" /\ b.type = "matrix" /\ (~Square(a) \/ Rows(a) < Rows(b)))
  PROVE  AllRight(RelOp(a, b, op), Each(Cells(a), Cells(b), op))
<1> DEFINE m == Each(Cells(a), Cells(b), op)
<1>1. CASE a.type = "digit" /\ b.type = "digit"
  <2>1. IsNum(a) /\ IsNum(b)
    BY <1>1, ValueForms
  <2>2. RelOp(a, b, op) = Gives(Digit(DigitOp(a.elem, b.elem, op)))
    BY <1>1 DEF RelOp
  <2> QED
    BY <2>1, <2>2, NumRight
<1>2. CASE a.type = "digit" /\ b.type = "matrix"
  <2> DEFINE s == [i \in 1 .. Rows(b) |-> [j \in 1 .. Cols(b) |-> DigitOp(a.elem, b.elem[i][j], op)]]
  <2>1. RelOp(a, b, op) = Gives(Matrix(s))
    BY <1>2 DEF RelOp, Mapped
  <2>2. /\ DOMAIN s = 1 .. Rows(b) /\ \A i \in 1 .. Rows(b) : DOMAIN s[i] = 1 .. Cols(b)
        /\ \A i \in 1 .. Rows(b), j \in 1 .. Cols(b) : s[i][j] = DigitOp(a.elem, b.elem[i][j], op)
    OBVIOUS
  <2> HIDE DEF s
  <2> QED
    BY <1>2, <2>1, <2>2, ValueForms, DigitMatrixRight
<1>3. CASE a.type = "vector" /\ b.type = "digit"
  BY <1>3, RightAnswers DEF RelOp
<1>4. CASE a.type = "matrix" /\ b.type = "digit"
  <2> DEFINE s == [i \in 1 .. Rows(a) |-> [j \in 1 .. Cols(a) |-> DigitOp(b.elem, a.elem[i][j], op)]]
  <2>1. RelOp(a, b, op) = Gives(Matrix(s))
    BY <1>4 DEF RelOp, Mapped
  <2>2. /\ DOMAIN s = 1 .. Rows(a) /\ \A i \in 1 .. Rows(a) : DOMAIN s[i] = 1 .. Cols(a)
        /\ \A i \in 1 .. Rows(a), j \in 1 .. Cols(a) : s[i][j] = DigitOp(b.elem, a.elem[i][j], op)
    OBVIOUS
  <2>3. \A x, y : DigitOp(y, x, op) = DigitOp(x, y, op)
    BY <1>4 DEF DigitOp
  <2>4. \A i \in 1 .. Rows(a), j \in 1 .. Cols(a) : s[i][j] = DigitOp(a.elem[i][j], b.elem, op)
    <3> HIDE DEF s
    <3> QED
      BY <2>2, <2>3
  <2> HIDE DEF s
  <2> QED
    BY <1>4, <2>1, <2>2, <2>4, ValueForms, DigitMatrixRight
<1>5. CASE a.type = "vector" /\ b.type = "vector"
  <2>1. RelOp(a, b, op) = VectorRel(a, b, op)
    BY <1>5 DEF RelOp
  <2> QED
    BY <1>5, <2>1, VectorsRight, RightAnswers DEF VectorRel
<1>6. CASE a.type = "matrix" /\ b.type = "matrix"
  <2>1. RelOp(a, b, op) = MatrixRel(a, b, op)
    BY <1>6 DEF RelOp
  <2>2. /\ Rows(a) \in Nat \ {0} /\ Cols(a) \in Nat \ {0}
        /\ Rows(b) \in Nat \ {0} /\ Cols(b) \in Nat \ {0}
        /\ Square(a) /\ ~(Rows(a) < Rows(b))
    BY <1>6, ValueForms
  <2>3. CASE ~MatrixCompareSize(a, b)
    <3>1. OfMatrix(a, Rows(a), Cols(a)) /\ OfMatrix(b, Rows(b), Cols(b)) /\ ~IsNum(a) /\ ~IsNum(b)
      BY <1>6, <2>2, AtMatrix, ValueForms
    <3>2. Cols(a) # Cols(b)
      BY <2>2, <2>3 DEF MatrixCompareSize, Square
    <3>3. (1 .. Rows(a)) \X (1 .. Cols(a)) # (1 .. Rows(b)) \X (1 .. Cols(b))
      <4>1. ASSUME NEW r \in Nat \ {0}, NEW c \in Nat \ {0}, NEW r2 \in Nat \ {0}, NEW c2 \in Nat \ {0},
                   (1 .. r) \X (1 .. c) = (1 .. r2) \X (1 .. c2)
            PROVE  c <= c2
        <5>1. <<1, c>> \in (1 .. r) \X (1 .. c)
          OBVIOUS
        <5>2. <<1, c>> \in (1 .. r2) \X (1 .. c2)
          BY <4>1, <5>1
        <5> QED
          BY <5>2
      <4>2. SUFFICES ASSUME (1 .. Rows(a)) \X (1 .. Cols(a)) = (1 .. Rows(b)) \X (1 .. Cols(b))
                     PROVE  FALSE
        OBVIOUS
      <4>3. Cols(a) <= Cols(b)
        BY <2>2, <4>1, <4>2
      <4>4. (1 .. Rows(b)) \X (1 .. Cols(b)) = (1 .. Rows(a)) \X (1 .. Cols(a))
        BY <4>2
      <4>5. Cols(b) <= Cols(a)
        BY <2>2, <4>1, <4>4
      <4> QED
        BY <2>2, <3>2, <4>3, <4>5
    <3>4. ~Conform(Cells(a), Cells(b))
      BY <3>1, <3>3 DEF OfMatrix, Conform
    <3>5. m = NoValue /\ RelOp(a, b, op) = Gives(Null)
      BY <2>1, <2>3, <3>4 DEF Each, MatrixRel
    <3> HIDE DEF m
    <3> QED
      BY <3>5, NoValueIsEmpty, RightAnswers DEF m
  <2>4. CASE MatrixCompareSize(a, b) /\ Rows(b) < Rows(a)
    BY <2>1, <2>4, RightAnswers DEF MatrixRel
  <2>5. CASE MatrixCompareSize(a, b) /\ ~(Rows(b) < Rows(a))
    <3>1. Rows(a) = Rows(b)
      BY <2>2, <2>5
    <3>2. RelOp(a, b, op) = Gives(MatricesZipped(a, b, op))
      BY <2>1, <2>5 DEF MatrixRel
    <3> QED
      BY <1>6, <2>5, <3>1, <3>2, MatricesRight
  <2> QED
    BY <2>3, <2>4, <2>5
<1>7. CASE /\ ~(a.type = "digit" /\ b.type \in {"digit", "matrix", "vector"})
           /\ ~(a.type \in {"vector", "matrix"} /\ b.type = "digit")
           /\ ~(a.type = "vector" /\ b.type = "vector")
           /\ ~(a.type = "matrix" /\ b.type = "matrix")
  <2>1. RelOp(a, b, op) = Refused
    BY <1>7 DEF RelOp
  <2> QED
    BY <2>1, RightAnswers
<1> QED
  BY <1>1, <1>2, <1>3, <1>4, <1>5, <1>6, <1>7

(* Products of which one operand at least is a digit. *)
LEMMA ScaleRight ==
  ASSUME NEW a, NEW b, IsValue(a), IsValue(b), a.type = "digit", b.type \in Arrays
  PROVE  LET m == Mapped(b, LAMBDA y : y * a.elem)
         IN /\ AllRight(Gives(m), Each(Cells(a), Cells(b), "*"))
            /\ AllRight(Gives(m), Each(Cells(b), Cells(a), "*"))
<1>0. IsNum(a) /\ a.elem \in Int
  BY ValueForms
<1> DEFINE F(y) == y * a.elem
           m == Mapped(b, F)
<1>1. ASSUME NEW y \in Int
      PROVE  F(y) = DigitOp(a.elem, y, "*") /\ F(y) = DigitOp(y, a.elem, "*")
  BY <1>0, <1>1 DEF DigitOp
<1>2. CASE b.type = "vector"
  <2> DEFINE s == [i \in DOMAIN b.elem |-> F(b.elem[i])]
  <2>1. IsVector(b) /\ \A i \in DOMAIN b.elem : b.elem[i] \in Int
    BY <1>2, ValueForms, VectorForm
  <2>2. m = Vector(s)
    BY <1>2 DEF Mapped
  <2>3. DOMAIN s = DOMAIN b.elem /\ \A i \in DOMAIN b.elem : s[i] = F(b.elem[i])
    OBVIOUS
  <2>4. \A i \in DOMAIN b.elem :
           s[i] = DigitOp(a.elem, b.elem[i], "*") /\ s[i] = DigitOp(b.elem[i], a.elem, "*")
    <3> HIDE DEF s, F, m
    <3> QED
      BY <1>1, <2>1, <2>3
  <2> HIDE DEF s
  <2>5. /\ AllRight(Gives(Vector(s)), Each(Cells(a), Cells(b), "*"))
        /\ AllRight(Gives(Vector(s)), Each(Cells(b), Cells(a), "*"))
    <3> HIDE DEF m
    <3> QED
      BY <1>0, <2>1, <2>3, <2>4, DigitVectorRight
  <2> QED
    BY <2>2, <2>5
<1>3. CASE b.type = "matrix"
  <2> DEFINE s == [i \in 1 .. Rows(b) |-> [j \in 1 .. Cols(b) |-> F(b.elem[i][j])]]
  <2>1. IsMatrix(b) /\ \A i \in 1 .. Rows(b), j \in 1 .. Cols(b) : b.elem[i][j] \in Int
    BY <1>3, ValueForms, MatrixForm
  <2>2. m = Matrix(s)
    BY <1>3 DEF Mapped
  <2>3. /\ DOMAIN s = 1 .. Rows(b) /\ \A i \in 1 .. Rows(b) : DOMAIN s[i] = 1 .. Cols(b)
        /\ \A i \in 1 .. Rows(b), j \in 1 .. Cols(b) : s[i][j] = F(b.elem[i][j])
    OBVIOUS
  <2>4. \A i \in 1 .. Rows(b), j \in 1 .. Cols(b) :
           s[i][j] = DigitOp(a.elem, b.elem[i][j], "*") /\ s[i][j] = DigitOp(b.elem[i][j], a.elem, "*")
    <3> HIDE DEF s, F, m
    <3> QED
      BY <1>1, <2>1, <2>3
  <2> HIDE DEF s
  <2>5. /\ AllRight(Gives(Matrix(s)), Each(Cells(a), Cells(b), "*"))
        /\ AllRight(Gives(Matrix(s)), Each(Cells(b), Cells(a), "*"))
    <3> HIDE DEF m
    <3> QED
      BY <1>0, <2>1, <2>3, <2>4, DigitMatrixRight
  <2> QED
    BY <2>2, <2>5
<1> QED
  BY <1>2, <1>3 DEF Arrays

LEMMA ProductRight ==
  ASSUME NEW a, NEW b, IsValue(a), IsValue(b), ~(a.type \in Arrays /\ b.type \in Arrays)
  PROVE  AllRight(MultOp(a, b, "*"), Each(Cells(a), Cells(b), "*"))
<1>1. CASE a.type = "digit" /\ b.type = "digit"
  <2>1. IsNum(a) /\ IsNum(b)
    BY <1>1, ValueForms
  <2>2. MultOp(a, b, "*") = Gives(Digit(DigitOp(a.elem, b.elem, "*")))
    BY <1>1 DEF MultOp, Arrays
  <2> QED
    BY <2>1, <2>2, NumRight
<1>2. CASE a.type = "digit" /\ b.type \in Arrays
  <2>1. MultOp(a, b, "*") = Gives(Mapped(b, LAMBDA y : y * a.elem))
    BY <1>2 DEF MultOp, Arrays, ArrayDigitMult
  <2> QED
    BY <1>2, <2>1, ScaleRight
<1>3. CASE a.type \in Arrays /\ b.type = "digit"
  <2>1. MultOp(a, b, "*") = Gives(Mapped(a, LAMBDA y : y * b.elem))
    BY <1>3 DEF MultOp, Arrays, ArrayDigitMult
  <2> QED
    BY <1>3, <2>1, ScaleRight
<1>4. CASE /\ ~(a.type = "digit" /\ b.type = "digit")
           /\ ~(a.type = "digit" /\ b.type \in Arrays)
           /\ ~(a.type \in Arrays /\ b.type = "digit")
  <2>1. MultOp(a, b, "*") = Refused
    BY <1>4 DEF MultOp, Arrays
  <2> QED
    BY <2>1, RightAnswers
<1> QED
  BY <1>1, <1>2, <1>3, <1>4

(* Products of two vectors or matrices. *)
LEMMA ArraysForm ==
  ASSUME NEW v, IsValue(v), v.type \in Arrays
  PROVE  /\ v.type = "vector" => IsVector(v)
         /\ v.type = "matrix" => IsMatrix(v)
         /\ v.type = "vector" \/ v.type = "matrix"
         /\ ~Scalar(Cells(v)) /\ Cells(v) # NoValue
<1>1. CASE v.type = "vector"
  BY <1>1, ValueForms, VectorRow DEF RowOf
<1>2. CASE v.type = "matrix"
  BY <1>2, ValueForms, MatrixGrid DEF GridOf
<1> QED
  BY <1>1, <1>2 DEF Arrays

LEMMA ArraysProductRight ==
  ASSUME NEW a, NEW b, IsValue(a), IsValue(b), a.type \in Arrays, b.type \in Arrays
  PROVE  AllRight(MultOp(a, b, "*"), Contraction(Cells(a), Cells(b)))
<1>1. CASE a.type = "vector" /\ b.type = "vector"
  <2>1. MultOp(a, b, "*") = VectorMult(a, b, "*") /\ IsVector(a) /\ IsVector(b)
    BY <1>1, ArraysForm DEF MultOp, Arrays
  <2>2. CASE ~VectorCompareSize(a, b)
    BY <2>1, <2>2, RightAnswers DEF VectorMult
  <2>3. CASE VectorCompareSize(a, b)
    <3>1. MultOp(a, b, "*") = Gives(Digit(Dot(a.elem, b.elem)))
      BY <2>1, <2>3 DEF VectorMult
    <3>2. Cells(Digit(Dot(a.elem, b.elem))) = Contraction(Cells(a), Cells(b))
      BY <2>1, <2>3, ProductOfVectors DEF VectorCompareSize
    <3> QED
      BY <3>1, <3>2, RightAnswers
  <2> QED
    BY <2>2, <2>3
<1>2. CASE a.type = "vector" /\ b.type = "matrix"
  <2>1. MultOp(a, b, "*") = VectorMatrixMult(a, b, "*") /\ IsVector(a) /\ IsMatrix(b)
    BY <1>2, ArraysForm DEF MultOp, Arrays
  <2> DEFINE v == Vector([j \in 1 .. Rows(b) |-> Dot(a.elem, Col(b, j))])
  <2>2. CASE ~(Len(a.elem) = Rows(b) /\ Square(b))
    BY <2>1, <2>2, RightAnswers DEF VectorMatrixMult
  <2>3. CASE Len(a.elem) = Rows(b) /\ Square(b)
    <3>1. MultOp(a, b, "*") = Gives(v)
      BY <2>1, <2>3 DEF VectorMatrixMult
    <3>2. Cells(v) = Contraction(Cells(a), Cells(b))
      BY <2>1, <2>3, ProductOfVectorAndMatrix
    <3> HIDE DEF v
    <3> QED
      BY <3>1, <3>2, RightAnswers
  <2> QED
    BY <2>2, <2>3
<1>3. CASE a.type = "matrix" /\ b.type = "vector"
  <2>1. MultOp(a, b, "*") = MatrixVectorMult(a, b, "*") /\ IsMatrix(a) /\ IsVector(b)
    BY <1>3, ArraysForm DEF MultOp, Arrays
  <2> DEFINE v == Vector([i \in 1 .. Len(b.elem) |-> Dot(a.elem[i], b.elem)])
  <2>2. CASE ~(Len(b.elem) = Cols(a) /\ Len(b.elem) = Rows(a))
    BY <2>1, <2>2, RightAnswers DEF MatrixVectorMult
  <2>3. CASE Len(b.elem) = Cols(a) /\ Len(b.elem) = Rows(a)
    <3>1. MultOp(a, b, "*") = Gives(v)
      BY <2>1, <2>3 DEF MatrixVectorMult
    <3>2. Cells(v) = Contraction(Cells(a), Cells(b))
      BY <2>1, <2>3, ProductOfMatrixAndVector
    <3> HIDE DEF v
    <3> QED
      BY <3>1, <3>2, RightAnswers
  <2> QED
    BY <2>2, <2>3
<1>4. CASE a.type = "matrix" /\ b.type = "matrix"
  <2>1. MultOp(a, b, "*") = MatrixMult(a, b, "*") /\ IsMatrix(a) /\ IsMatrix(b)
    BY <1>4, ArraysForm DEF MultOp, Arrays
  <2>2. CASE Cols(a) # Rows(b)
    BY <2>1, <2>2, RightAnswers DEF MatrixMult
  <2>3. CASE Cols(a) = Rows(b)
    <3>1. MultOp(a, b, "*") = Gives(Product(a, b))
      BY <2>1, <2>3 DEF MatrixMult
    <3>2. Cells(Product(a, b)) = Contraction(Cells(a), Cells(b))
      BY <2>1, <2>3, ProductOfMatrices
    <3> QED
      BY <3>1, <3>2, RightAnswers
  <2> QED
    BY <2>2, <2>3
<1> QED
  BY <1>1, <1>2, <1>3, <1>4 DEF Arrays

(* Quotients, as far as they are followed. *)
LEMMA AllRealCells ==
  ASSUME NEW v, IsValue(v), v.type \in Arrays
  PROVE  Cells(AllReal(v)) = [c \in DOMAIN Cells(v) |-> Real]
<1> DEFINE h == [c \in DOMAIN Cells(v) |-> Real]
<1>0. h = [c \in DOMAIN h |-> h[c]] /\ DOMAIN h = DOMAIN Cells(v)
  OBVIOUS
<1>1. CASE v.type = "vector"
  <2> DEFINE n == Len(v.elem)
             s == [i \in DOMAIN v.elem |-> Real]
  <2>1. n \in Nat \ {0} /\ DOMAIN v.elem = 1 .. n
    BY <1>1, ValueForms
  <2>2. DOMAIN Cells(v) = {<<i>> : i \in 1 .. n}
    BY <1>1, <2>1, CellsOfVector
  <2>3. AllReal(v) = Vector(s)
    BY <1>1 DEF AllReal, Mapped
  <2>4. DOMAIN s = 1 .. n /\ \A i \in 1 .. n : h[<<i>>] = s[i]
    BY <2>1, <2>2
  <2>5. h = [c \in DOMAIN h |-> h[c]] /\ DOMAIN h = {<<i>> : i \in 1 .. n}
    BY <1>0, <2>2
  <2> HIDE DEF h, s, n
  <2>6. Cells(Vector(s)) = h
    BY <2>1, <2>4, <2>5, VectorIs
  <2> QED
    BY <2>3, <2>6 DEF h
<1>2. CASE v.type = "matrix"
  <2> DEFINE r == Rows(v)
             k == Cols(v)
             s == [i \in 1 .. r |-> [j \in 1 .. k |-> Real]]
  <2>1. r \in Nat \ {0} /\ k \in Nat \ {0} /\ IsMatrix(v) /\ ~IsNum(v)
    BY <1>2, ValueForms
  <2>2. OfMatrix(v, r, k)
    BY <2>1, AtMatrix DEF FitsMatrix
  <2>3. DOMAIN Cells(v) = (1 .. r) \X (1 .. k)
    BY <2>1, <2>2 DEF OfMatrix
  <2>4. AllReal(v) = Matrix(s)
    BY <1>2 DEF AllReal, Mapped
  <2>5. \A i \in 1 .. r, j \in 1 .. k : h[<<i, j>>] = s[i][j]
    BY <2>3
  <2>6. DOMAIN s = 1 .. r /\ \A i \in 1 .. r : DOMAIN s[i] = 1 .. k
    OBVIOUS
  <2>7. h = [c \in DOMAIN h |-> h[c]] /\ DOMAIN h = (1 .. r) \X (1 .. k)
    BY <1>0, <2>3
  <2> HIDE DEF h, s, r, k
  <2>8. Cells(Matrix(s)) = h
    <3>1. Table(h, s, r, k)
      BY <2>5, <2>6, <2>7 DEF Table
    <3> QED
      BY <2>1, <3>1, MatrixIs
  <2> QED
    BY <2>4, <2>8 DEF h
<1> QED
  BY <1>1, <1>2 DEF Arrays

LEMMA ArrayCells ==
  ASSUME NEW v, IsValue(v), v.type \in Arrays
  PROVE  /\ Cells(v) # NoValue
         /\ Heads(Cells(v)) = 1 .. (IF v.type = "vector" THEN Len(v.elem) ELSE Rows(v))
<1>1. CASE v.type = "vector"
  BY <1>1, ValueForms, CellsOfVector
<1>2. CASE v.type = "matrix"
  <2>1. /\ Rows(v) \in Nat \ {0} /\ Cols(v) \in Nat \ {0} /\ IsMatrix(v)
    BY <1>2, ValueForms
  <2>2. DOMAIN v.elem = 1 .. Rows(v) /\ \A i \in 1 .. Rows(v) : DOMAIN v.elem[i] = 1 .. Cols(v)
    BY <2>1, MatrixForm
  <2>3. MatrixCells(v, Rows(v), Cols(v))
    BY <1>2, <2>1, <2>2, CellsOfMatrix
  <2> QED
    BY <1>2, <2>3 DEF MatrixCells
<1> QED
  BY <1>1, <1>2 DEF Arrays

LEMMA QuotientRight ==
  ASSUME NEW t, t.op = "/", IsValue(t.a), IsValue(t.b),
         ~(t.a.type = "vector" /\ t.b.type = "vector" /\ ToSet(t.b.elem) = {0})
  PROVE  AllRight(MultOp(t.a, t.b, "/"), Meaning(t))
<1> DEFINE a == t.a
           b == t.b
           m == Meaning(t)
           reals == [c \in DOMAIN Cells(a) |-> Real]
<1>1. CASE a.type = "digit" /\ b.type = "digit"
  <2>1. IsNum(a) /\ IsNum(b) /\ Cells(a) = Num(a.elem) /\ Cells(a) # NoValue
        /\ Cells(b)[<<>>] = b.elem
    BY <1>1, ValueForms, CellsOfNum, NumIsScalar
  <2>2. CASE b.elem = 0
    <3>1. MultOp(a, b, "/") = Told(Digit(Garbage))
      BY <1>1, <2>2 DEF MultOp, Arrays
    <3> QED
      BY <3>1, RightAnswers
  <2>3. CASE b.elem # 0
    <3>1. MultOp(a, b, "/") = Gives(Digit(DigitOp(a.elem, b.elem, "/")))
      BY <1>1, <2>3 DEF MultOp, Arrays
    <3>2. DigitOp(a.elem, b.elem, "/") = Real
      BY <2>3 DEF DigitOp
    <3>3. m = reals
      BY <1>1, <2>1, <2>3, MeaningOfQuotient
    <3>4. reals = Num(Real)
      BY <2>1 DEF Num
    <3>5. Cells(Digit(Real)) = m
      BY <3>3, <3>4, NumIsScalar
    <3> QED
      BY <3>1, <3>2, <3>5, RightAnswers
  <2> QED
    BY <2>2, <2>3
<1>2. CASE a.type = "digit" /\ b.type \in Arrays
  <2>1. MultOp(a, b, "/") = Refused
    BY <1>2 DEF MultOp, Arrays
  <2> QED
    BY <2>1, RightAnswers
<1>3. CASE a.type \in Arrays /\ b.type = "digit"
  <2>1. MultOp(a, b, "/") = (IF b.elem = 0 THEN Refused ELSE Gives(AllReal(a)))
    BY <1>3 DEF MultOp, Arrays, ArrayDigitMult
  <2>2. Cells(b)[<<>>] = b.elem /\ Cells(a) # NoValue
    BY <1>3, CellsOfNum, NumIsScalar, ArrayCells
  <2>3. b.elem # 0 => m = reals
    BY <1>3, <2>2, MeaningOfQuotient DEF Arrays
  <2>4. Cells(AllReal(a)) = reals
    BY <1>3, AllRealCells
  <2> QED
    BY <2>1, <2>3, <2>4, RightAnswers
<1>4. CASE a.type = "vector" /\ b.type = "vector"
  <2>1. MultOp(a, b, "/") = VectorMult(a, b, "/") /\ ToSet(b.elem) # {0}
    BY <1>4 DEF MultOp, Arrays
  <2>2. VectorMult(a, b, "/") = NoAnswer
    BY <2>1 DEF VectorMult
  <2> QED
    BY <2>1, <2>2, RightAnswers
<1>5. CASE a.type \in Arrays /\ b.type = "matrix"
  <2> DEFINE n == IF a.type = "vector" THEN Len(a.elem) ELSE Rows(a)
  <2>1. /\ Cells(a) # NoValue /\ Heads(Cells(a)) = 1 .. n /\ Heads(Cells(b)) = 1 .. Rows(b)
    BY <1>5, ArrayCells DEF Arrays
  <2>2. Cells(AllReal(a)) = reals
    BY <1>5, AllRealCells
  <2>3. Square(b) /\ n = Rows(b) => m = reals
    BY <1>5, <2>1, MeaningOfQuotient DEF Arrays
  <2>4. Square(b) /\ n = Rows(b) => AllRight(Gives(AllReal(a)), m)
    BY <2>2, <2>3, RightAnswers
  <2> HIDE DEF reals, m
  <2>5. CASE a.type = "vector"
    <3>1. MultOp(a, b, "/") = VectorMatrixMult(a, b, "/")
      BY <1>5, <2>5 DEF MultOp, Arrays
    <3>2. CASE ~Square(b)
      BY <3>1, <3>2, RightAnswers DEF VectorMatrixMult, m
    <3>3. CASE Square(b)
      <4>1. VectorMatrixMult(a, b, "/") = Told(AllGarbage(Rows(b)))
                 \cup (IF Len(a.elem) = Rows(b) THEN Gives(AllReal(a)) ELSE {})
        BY <3>3 DEF VectorMatrixMult
      <4>2. AllRight(IF Len(a.elem) = Rows(b) THEN Gives(AllReal(a)) ELSE {}, m)
        BY <2>4, <2>5, <3>3, RightAnswers
      <4>3. AllRight(VectorMatrixMult(a, b, "/"), m)
        BY <4>1, <4>2, RightAnswers
      <4> QED
        BY <3>1, <4>3 DEF m
    <3> QED
      BY <3>2, <3>3
  <2>6. CASE a.type = "matrix"
    <3>1. MultOp(a, b, "/") = MatrixMult(a, b, "/")
      BY <1>5, <2>6 DEF MultOp, Arrays
    <3>2. CASE ~(Square(b) /\ Rows(a) = Rows(b))
      BY <3>1, <3>2, RightAnswers DEF MatrixMult, m
    <3>3. CASE Square(b) /\ Rows(a) = Rows(b)
      <4>1. MatrixMult(a, b, "/") = Gives(AllReal(a)) \cup Told(Mapped(a, LAMBDA y : Garbage))
        BY <3>3 DEF MatrixMult
      <4>2. AllRight(Gives(AllReal(a)), m)
        BY <2>4, <2>6, <3>3
      <4>3. AllRight(MatrixMult(a, b, "/"), m)
        BY <4>1, <4>2, RightAnswers
      <4> QED
        BY <3>1, <4>3 DEF m
    <3> QED
      BY <3>2, <3>3
  <2> QED
    BY <1>5, <2>5, <2>6 DEF Arrays
<1>6. CASE a.type = "matrix" /\ b.type = "vector"
  <2>1. MultOp(a, b, "/") = Refused
    BY <1>6 DEF MultOp, Arrays, MatrixVectorMult
  <2> QED
    BY <2>1, RightAnswers
<1>7. CASE /\ ~(a.type = "digit" /\ (b.type = "digit" \/ b.type \in Arrays))
           /\ ~(a.type \in Arrays /\ b.type = "digit")
           /\ ~(a.type \in Arrays /\ b.type \in Arrays)
  <2>1. MultOp(a, b, "/") = Refused
    BY <1>7 DEF MultOp, Arrays
  <2> QED
    BY <2>1, RightAnswers
<1> QED
  BY <1>1, <1>2, <1>3, <1>4, <1>5, <1>6, <1>7 DEF Arrays

(* Logic on digits and vectors. *)
LEMMA LogicRowMeans ==
  ASSUME NEW n \in Nat \ {0}, NEW t, t.op \in {"&&", "||"},
         FitsVector(t.a, n), FitsVector(t.b, n), ~(IsNum(t.a) /\ IsNum(t.b)),
         NEW xs, NEW ys, DOMAIN xs = 1 .. n,
         \A i \in 1 .. n : DigitOp(xs[i], ys[i], t.op) =
                            DigitOp(InVector(t.a, i), InVector(t.b, i), t.op)
  PROVE  AllRight(Gives(Digit(LogicRow(xs, ys, t.op))), Meaning(t))
<1> DEFINE a == t.a
           b == t.b
           op == t.op
           D == {<<i>> : i \in 1 .. n}
           x == Cells(a)
           y == Cells(b)
           d(i) == DigitOp(InVector(a, i), InVector(b, i), op)
           z == Bool(IF op = "&&" THEN \A i \in 1 .. n : d(i) = 1 ELSE \E i \in 1 .. n : d(i) = 1)
<1>1. Conform(x, y) /\ All(x, y) = D
  BY AtVector DEF Conform, All
<1>2. \A i \in 1 .. n : DigitOp(At(x, <<i>>), At(y, <<i>>), op) = d(i)
  <2> TAKE i \in 1 .. n
  <2>1. At(x, <<i>>) = InVector(a, i) /\ At(y, <<i>>) = InVector(b, i)
    BY AtVector
  <2> HIDE DEF x, y
  <2> QED
    BY <2>1
<1>3. Meaning(t) = Num(Bool(EachTrue(x, y, op, D)))
  <2>1. Meaning(t) = LogicMeaning(t)
    BY <1>1, MeaningOfLogic
  <2>2. LogicMeaning(t) = Num(Bool(EachTrue(x, y, op, All(x, y))))
    BY Zenon DEF LogicMeaning
  <2> HIDE DEF x, y, D, op
  <2> QED
    BY <1>1, <2>1, <2>2
<1>4. /\ (\A c \in D : DigitOp(At(x, c), At(y, c), op) = 1) <=> (\A i \in 1 .. n : d(i) = 1)
      /\ (\E c \in D : DigitOp(At(x, c), At(y, c), op) = 1) <=> (\E i \in 1 .. n : d(i) = 1)
  <2> HIDE DEF x, y, d
  <2> QED
    BY <1>2
<1>5. Meaning(t) = Num(z)
  <2> HIDE DEF x, y, d, D
  <2> QED
    BY <1>3, <1>4 DEF EachTrue
<1>6. \A i \in 1 .. n : d(i) \in {0, 1} /\ DigitOp(xs[i], ys[i], op) = d(i)
  BY DEF DigitOp, Bool
<1> HIDE DEF d, D, x, y
<1>7. LogicRow(xs, ys, op) = z
  <2>1. CASE op = "&&"
    <3>1. LogicRow(xs, ys, op) = (IF \E i \in 1 .. n : d(i) = 0 THEN 0 ELSE 1)
      BY <1>6, <2>1 DEF LogicRow, Bool
    <3>2. z = (IF \A i \in 1 .. n : d(i) = 1 THEN 1 ELSE 0)
      BY <2>1 DEF Bool
    <3> QED
      BY <1>6, <3>1, <3>2
  <2>2. CASE op = "||"
    <3>1. LogicRow(xs, ys, op) = (IF \E i \in 1 .. n : d(i) = 1 THEN 1 ELSE 0)
      BY <1>6, <2>2 DEF LogicRow, Bool
    <3>2. z = (IF \E i \in 1 .. n : d(i) = 1 THEN 1 ELSE 0)
      BY <2>2 DEF Bool
    <3> QED
      BY <3>1, <3>2
  <2> QED
    BY <2>1, <2>2
<1>8. Cells(Digit(LogicRow(xs, ys, op))) = Meaning(t)
  BY <1>5, <1>7, NumIsScalar
<1> QED
  BY <1>8, RightAnswers

LEMMA LogicRight ==
  ASSUME NEW t, t.op \in {"&&", "||"}, IsValue(t.a), IsValue(t.b),
         t.a.type # "matrix", t.b.type # "matrix"
  PROVE  AllRight(LogicOp(t.a, t.b, t.op), Meaning(t))
<1> DEFINE a == t.a
           b == t.b
           op == t.op
<1>0. \A u, v : DigitOp(u, v, op) = DigitOp(v, u, op)
  BY DEF DigitOp
<1>1. CASE a.type = "digit" /\ b.type = "digit"
  <2>1. IsNum(a) /\ IsNum(b)
    BY <1>1, ValueForms
  <2>2. LogicOp(a, b, op) = Gives(Digit(DigitOp(a.elem, b.elem, op)))
    BY <1>1 DEF LogicOp, Arrays
  <2> DEFINE x == Cells(a)
             y == Cells(b)
             d == DigitOp(a.elem, b.elem, op)
  <2>3. Scalar(x) /\ Scalar(y) /\ x # NoValue /\ y # NoValue
        /\ \A c : At(x, c) = a.elem /\ At(y, c) = b.elem
    BY <2>1, CellsOfNum DEF IsNum
  <2>4. Conform(x, y) /\ All(x, y) = {<<>>}
    BY <2>3 DEF Conform, All, Scalar
  <2>5. Meaning(t) = Num(Bool(EachTrue(x, y, op, {<<>>})))
    <3>1. Meaning(t) = LogicMeaning(t)
      BY <2>4, MeaningOfLogic
    <3>2. LogicMeaning(t) = Num(Bool(EachTrue(x, y, op, All(x, y))))
      BY Zenon DEF LogicMeaning
    <3> HIDE DEF x, y, op
    <3> QED
      BY <2>4, <3>1, <3>2
  <2>6. \A c : DigitOp(At(x, c), At(y, c), op) = d
    BY <2>3
  <2>7. d \in {0, 1}
    BY DEF DigitOp, Bool
  <2> HIDE DEF x, y, d
  <2>8. Meaning(t) = Num(Bool(d = 1))
    BY <2>5, <2>6 DEF EachTrue
  <2>9. Bool(d = 1) = d
    BY <2>7 DEF Bool
  <2>10. Cells(Digit(d)) = Meaning(t)
    BY <2>8, <2>9, NumIsScalar
  <2> QED
    BY <2>2, <2>10, RightAnswers DEF d
<1>2. CASE a.type = "digit" /\ b.type = "vector"
  <2> DEFINE n == Len(b.elem)
             xs == Constant(n, a.elem)
  <2>1. LogicOp(a, b, op) = Gives(Digit(LogicRow(xs, b.elem, op)))
    BY <1>2 DEF LogicOp, Arrays, DigitArrayLogic
  <2>2. n \in Nat \ {0} /\ FitsVector(a, n) /\ FitsVector(b, n) /\ ~IsNum(b)
    BY <1>2, ValueForms DEF FitsVector
  <2>3. DOMAIN xs = 1 .. n /\ \A i \in 1 .. n : xs[i] = InVector(a, i) /\ b.elem[i] = InVector(b, i)
    BY <1>2 DEF Constant, InVector
  <2> HIDE DEF n, xs
  <2> QED
    BY <2>1, <2>2, <2>3, LogicRowMeans
<1>3. CASE a.type = "vector" /\ b.type = "digit"
  <2> DEFINE n == Len(a.elem)
             xs == Constant(n, b.elem)
  <2>1. LogicOp(a, b, op) = Gives(Digit(LogicRow(xs, a.elem, op)))
    BY <1>3 DEF LogicOp, Arrays, DigitArrayLogic
  <2>2. n \in Nat \ {0} /\ FitsVector(a, n) /\ FitsVector(b, n) /\ ~IsNum(a)
    BY <1>3, ValueForms DEF FitsVector
  <2>3. DOMAIN xs = 1 .. n /\ \A i \in 1 .. n : xs[i] = InVector(b, i) /\ a.elem[i] = InVector(a, i)
    BY <1>3 DEF Constant, InVector
  <2> HIDE DEF n, xs
  <2>4. \A i \in 1 .. n : DigitOp(xs[i], a.elem[i], op) = DigitOp(InVector(a, i), InVector(b, i), op)
    BY <1>0, <2>3
  <2> QED
    BY <2>1, <2>2, <2>3, <2>4, LogicRowMeans
<1>4. CASE a.type = "vector" /\ b.type = "vector"
  <2> DEFINE n == Len(a.elem)
  <2>1. LogicOp(a, b, op) = VectorLogic(a, b, op)
    BY <1>4 DEF LogicOp, Arrays
  <2>2. CASE ~VectorCompareSize(a, b)
    BY <2>1, <2>2, RightAnswers DEF VectorLogic
  <2>3. CASE VectorCompareSize(a, b)
    <3>1. /\ n \in Nat \ {0} /\ FitsVector(a, n) /\ FitsVector(b, n) /\ ~IsNum(a)
          /\ DOMAIN a.elem = 1 .. n
      BY <1>4, <2>3, ValueForms DEF VectorCompareSize
    <3>2. LogicOp(a, b, op) = Gives(Digit(LogicRow(a.elem, b.elem, op)))
      BY <2>1, <2>3 DEF VectorLogic
    <3>3. \A i \in 1 .. n : a.elem[i] = InVector(a, i) /\ b.elem[i] = InVector(b, i)
      BY <1>4 DEF InVector
    <3> HIDE DEF n
    <3> QED
      BY <3>1, <3>2, <3>3, LogicRowMeans
  <2> QED
    BY <2>2, <2>3
<1>5. CASE /\ ~(a.type = "digit" /\ b.type \in {"digit", "vector"})
           /\ ~(a.type = "vector" /\ b.type \in {"digit", "vector"})
  <2>1. LogicOp(a, b, op) = Refused
    BY <1>5 DEF LogicOp, Arrays
  <2> QED
    BY <2>1, RightAnswers
<1> QED
  BY <1>1, <1>2, <1>3, <1>4, <1>5

-----------------------------------------------------------------------------
(* The operands of programs are numbers, vectors and matrices of numbers that have
   elements, and strings. *)
LEMMA OperandsTask ==
  ASSUME ValueOperands, task \in Tasks, task.op # "literal"
  PROVE  task.op \in Ops /\ IsValue(task.a) /\ IsValue(task.b)
<1>1. task \notin Literals
  BY DEF Literals
<1> QED
  BY <1>1, LibmAssumption DEF LibmAssumption, ValueOperands

LEMMA OutcomesRight ==
  ASSUME NEW t, t.op \in Ops, IsValue(t.a), IsValue(t.b), ~IsPower(t), ~KnownDefect(t)
  PROVE  AllRight(Outcomes(t.a, t.b, t.op), Meaning(t))
<1> DEFINE m == Each(Cells(t.a), Cells(t.b), t.op)
<1>1. CASE t.op \in {"+", "-"}
  <2>1. Outcomes(t.a, t.b, t.op) = AddOp(t.a, t.b, t.op)
    BY <1>1 DEF Outcomes, Relations
  <2>2. Meaning(t) = m
    BY <1>1, MeaningOfEach
  <2>3. ~(t.op = "-" /\ t.a.type \in Arrays /\ t.b.type = "digit")
    BY DEF KnownDefect
  <2> QED
    BY <1>1, <2>1, <2>2, <2>3, AddRight
<1>2. CASE t.op = "*"
  <2>1. Outcomes(t.a, t.b, t.op) = MultOp(t.a, t.b, "*")
    BY <1>2 DEF Outcomes, Relations
  <2>2. CASE t.a.type = "digit" \/ t.b.type = "digit"
    <3>1. Meaning(t) = m
      BY <1>2, <2>2, CellsOfNum, MeaningOfEach
    <3> QED
      BY <1>2, <2>1, <2>2, <3>1, ProductRight DEF Arrays
  <2>3. CASE t.a.type \in Arrays /\ t.b.type \in Arrays
    <3>1. Meaning(t) = Contraction(Cells(t.a), Cells(t.b))
      BY <1>2, <2>3, ArraysForm, MeaningOfArrays
    <3> QED
      BY <2>1, <2>3, <3>1, ArraysProductRight
  <2>4. CASE /\ t.a.type # "digit" /\ t.b.type # "digit"
             /\ ~(t.a.type \in Arrays /\ t.b.type \in Arrays)
    <3>1. MultOp(t.a, t.b, "*") = Refused
      BY <1>2, <2>4 DEF MultOp, Arrays
    <3> QED
      BY <2>1, <3>1, RightAnswers
  <2> QED
    BY <2>2, <2>3, <2>4
<1>3. CASE t.op = "/"
  <2>1. Outcomes(t.a, t.b, t.op) = MultOp(t.a, t.b, "/")
    BY <1>3 DEF Outcomes, Relations
  <2>2. ~(t.a.type = "vector" /\ t.b.type = "vector" /\ ToSet(t.b.elem) = {0})
    BY <1>3 DEF KnownDefect
  <2> QED
    BY <1>3, <2>1, <2>2, QuotientRight
<1>4. CASE t.op \in {"&&", "||"}
  <2>1. Outcomes(t.a, t.b, t.op) = LogicOp(t.a, t.b, t.op)
    BY <1>4 DEF Outcomes, Relations
  <2>2. t.a.type # "matrix" /\ t.b.type # "matrix"
    BY <1>4 DEF KnownDefect, HasMatrix
  <2> QED
    BY <1>4, <2>1, <2>2, LogicRight
<1>5. CASE t.op \in Relations
  <2>1. Outcomes(t.a, t.b, t.op) = RelOp(t.a, t.b, t.op)
    BY <1>5 DEF Outcomes, Relations
  <2>2. Meaning(t) = m
    BY <1>5, MeaningOfEach
  <2>3. /\ ~(t.a.type = "digit" /\ t.b.type = "vector")
        /\ ~(t.op \notin {"==", "!="} /\ t.a.type = "matrix" /\ t.b.type = "digit")
        /\ ~(t.a.type = "matrix" /\ t.b.type = "matrix"
             /\ (~Square(t.a) \/ Rows(t.a) < Rows(t.b)))
    BY <1>5 DEF KnownDefect
  <2> QED
    BY <1>5, <2>1, <2>2, <2>3, RelRight
<1>6. CASE t.op = "^"
  <2>1. Outcomes(t.a, t.b, t.op) = Refused
    BY <1>6 DEF Outcomes, Relations
  <2> QED
    BY <2>1, RightAnswers
<1> QED
  BY <1>1, <1>2, <1>3, <1>4, <1>5, <1>6 DEF Ops

OneStepRight ==
  (pc = "done" /\ task.op # "literal" /\ ~IsPower(task) /\ ~res.told /\ ~KnownDefect(task)) =>
    Cells(res.val) = Meaning(task)

LEMMA NextRight ==
  ASSUME ValueOperands, TypeOK, OneStepRight, [Next]_vars PROVE OneStepRight'
<1>1. CASE Operate
  <2>1. PICK o \in Outcomes(task.a, task.b, task.op) :
          pc' = o.end /\ res' = [val |-> o.val, told |-> o.told]
    BY <1>1 DEF Operate
  <2>2. task' = task /\ task.op # "literal" /\ ~IsPower(task) /\ task \in Tasks
    BY <1>1 DEF Operate, TypeOK
  <2>3. ~KnownDefect(task) => AllRight(Outcomes(task.a, task.b, task.op), Meaning(task))
    BY <2>2, OperandsTask, OutcomesRight
  <2>4. (~KnownDefect(task) /\ o.end = "done" /\ ~o.told) => Cells(o.val) = Meaning(task)
    BY <2>1, <2>3 DEF AllRight
  <2>5. res'.val = o.val /\ res'.told = o.told
    BY <2>1
  <2> QED
    BY <2>1, <2>2, <2>4, <2>5 DEF OneStepRight
<1>2. CASE StartPower \/ SquareBase \/ StartLiteral \/ Scale
  BY <1>2 DEF StartPower, SquareBase, StartLiteral, Scale, OneStepRight
<1>3. CASE EndPower
  BY <1>3 DEF EndPower, OneStepRight, TypeOK
<1>4. CASE EndLiteral
  BY <1>4 DEF EndLiteral, OneStepRight, TypeOK
<1>5. CASE UNCHANGED vars
  BY <1>5 DEF vars, OneStepRight
<1> QED
  BY <1>1, <1>2, <1>3, <1>4, <1>5 DEF Next

(* A result without a message is what the operation means, for operands of all
   types and sizes, except for the operations of KnownDefect. *)
THEOREM ResultsRight == ASSUME ValueOperands PROVE Spec => []RightOrTold
<1>1. Init => TypeOK /\ OneStepRight
  BY DEF Init, TypeOK, OneStepRight
<1>2. TypeOK /\ OneStepRight /\ [Next]_vars => (TypeOK /\ OneStepRight)'
  BY NextTyped, NextRight
<1>3. PowInv /\ OneStepRight => RightOrTold
  <2> SUFFICES ASSUME PowInv, OneStepRight, pc = "done", task.op # "literal", ~res.told,
                      ~KnownDefect(task)
               PROVE  Cells(res.val) = Meaning(task)
    BY DEF RightOrTold
  <2>1. CASE ~IsPower(task)
    BY <2>1 DEF OneStepRight
  <2>2. CASE IsPower(task)
    <3>1. task.b.elem >= 0 /\ Cells(res.val) = PowerDone
      BY <2>2 DEF PowInv
    <3> QED
      BY <2>2, <3>1, MeaningOfPower
  <2> QED
    BY <2>1, <2>2
<1>4. Spec => []PowInv
  BY PowerInvariant
<1> QED
  BY <1>1, <1>2, <1>3, <1>4, PTL DEF Spec

-----------------------------------------------------------------------------
(* Operands that fit are answered. *)
AllAnswered(S, D) == \A o \in S : o.end = "done" /\ ~o.told /\ DOMAIN Cells(o.val) = D

LEMMA GivesAnswer ==
  /\ \A v : AllAnswered(Gives(v), DOMAIN Cells(v))
  /\ \A v, m : AllRight(Gives(v), m) => AllAnswered(Gives(v), DOMAIN m)
  BY DEF Gives, AllAnswered, AllRight

(* What fits: a digit with everything, vectors of one size, matrices of one size. *)
LEMMA ConformForms ==
  ASSUME NEW a, NEW b, IsValue(a), IsValue(b), Conform(Cells(a), Cells(b))
  PROVE  \/ a.type = "digit" /\ b.type = "digit"
         \/ a.type = "digit" /\ b.type \in Arrays
         \/ a.type \in Arrays /\ b.type = "digit"
         \/ a.type = "vector" /\ b.type = "vector" /\ VectorCompareSize(a, b)
         \/ a.type = "matrix" /\ b.type = "matrix" /\ Rows(a) = Rows(b) /\ Cols(a) = Cols(b)
<1>1. Cells(a) # NoValue /\ Cells(b) # NoValue
  BY DEF Conform
<1>2. \A v : IsValue(v) /\ Cells(v) # NoValue => v.type \in {"digit", "vector", "matrix"}
  BY NoValueIsEmpty DEF IsValue, IsNum, IsVector, IsMatrix
<1>3. a.type \in {"digit", "vector", "matrix"} /\ b.type \in {"digit", "vector", "matrix"}
  BY <1>1, <1>2
<1>4. ASSUME NEW v, IsValue(v), v.type = "vector"
      PROVE  ~Scalar(Cells(v)) /\ DOMAIN Cells(v) = {<<i>> : i \in 1 .. Len(v.elem)}
  BY <1>4, ValueForms, CellsOfVector
<1>5. ASSUME NEW v, IsValue(v), v.type = "matrix"
      PROVE  ~Scalar(Cells(v)) /\ DOMAIN Cells(v) = (1 .. Rows(v)) \X (1 .. Cols(v))
  BY <1>5, ValueForms, AtMatrix DEF OfMatrix
<1>6. ASSUME a.type = "vector", b.type = "vector" PROVE VectorCompareSize(a, b)
  <2>1. {<<i>> : i \in 1 .. Len(a.elem)} = {<<i>> : i \in 1 .. Len(b.elem)}
    BY <1>4, <1>6 DEF Conform
  <2>2. Len(a.elem) \in Nat \ {0} /\ Len(b.elem) \in Nat \ {0}
    BY <1>6, ValueForms
  <2>3. ASSUME NEW m \in Nat \ {0}, NEW n \in Nat \ {0},
               {<<i>> : i \in 1 .. m} = {<<i>> : i \in 1 .. n}
        PROVE  m <= n
    <3>1. <<m>> \in {<<i>> : i \in 1 .. m}
      OBVIOUS
    <3>2. <<m>> \in {<<i>> : i \in 1 .. n}
      BY <2>3, <3>1
    <3>3. PICK i \in 1 .. n : <<m>> = <<i>>
      BY <3>2
    <3> QED
      BY <3>3
  <2>4. Len(a.elem) <= Len(b.elem) /\ Len(b.elem) <= Len(a.elem)
    BY <2>1, <2>2, <2>3
  <2> QED
    BY <2>2, <2>4 DEF VectorCompareSize
<1>7. ASSUME a.type = "matrix", b.type = "matrix" PROVE Rows(a) = Rows(b) /\ Cols(a) = Cols(b)
  <2>1. (1 .. Rows(a)) \X (1 .. Cols(a)) = (1 .. Rows(b)) \X (1 .. Cols(b))
    BY <1>5, <1>7 DEF Conform
  <2>2. /\ Rows(a) \in Nat \ {0} /\ Cols(a) \in Nat \ {0}
        /\ Rows(b) \in Nat \ {0} /\ Cols(b) \in Nat \ {0}
    BY <1>7, ValueForms
  <2>3. ASSUME NEW r \in Nat \ {0}, NEW c \in Nat \ {0}, NEW r2 \in Nat \ {0}, NEW c2 \in Nat \ {0},
               (1 .. r) \X (1 .. c) = (1 .. r2) \X (1 .. c2)
        PROVE  r <= r2 /\ c <= c2
    <3>1. <<r, c>> \in (1 .. r) \X (1 .. c)
      OBVIOUS
    <3>2. <<r, c>> \in (1 .. r2) \X (1 .. c2)
      BY <2>3, <3>1
    <3> QED
      BY <3>2
  <2>4. Rows(a) <= Rows(b) /\ Cols(a) <= Cols(b)
    BY <2>1, <2>2, <2>3
  <2>5. Rows(b) <= Rows(a) /\ Cols(b) <= Cols(a)
    <3>1. (1 .. Rows(b)) \X (1 .. Cols(b)) = (1 .. Rows(a)) \X (1 .. Cols(a))
      BY <2>1
    <3> QED
      BY <2>2, <2>3, <3>1
  <2> QED
    BY <2>2, <2>4, <2>5
<1>8. ASSUME NEW u, NEW v, IsValue(u), IsValue(v), u.type = "vector", v.type = "matrix"
      PROVE  DOMAIN Cells(u) # DOMAIN Cells(v) /\ ~Scalar(Cells(u)) /\ ~Scalar(Cells(v))
  <2>1. Len(u.elem) \in Nat \ {0}
    BY <1>8, ValueForms
  <2>2. DOMAIN Cells(u) = {<<i>> : i \in 1 .. Len(u.elem)} /\ ~Scalar(Cells(u))
    BY <1>4, <1>8
  <2>3. DOMAIN Cells(v) = (1 .. Rows(v)) \X (1 .. Cols(v)) /\ ~Scalar(Cells(v))
    BY <1>5, <1>8
  <2>4. <<1>> \in DOMAIN Cells(u)
    BY <2>1, <2>2
  <2>5. <<1>> \notin DOMAIN Cells(v)
    <3>1. \A c \in (1 .. Rows(v)) \X (1 .. Cols(v)) : Len(c) = 2
      OBVIOUS
    <3>2. Len(<<1>>) = 1
      OBVIOUS
    <3> QED
      BY <2>3, <3>1, <3>2
  <2> QED
    BY <2>2, <2>3, <2>4, <2>5
<1>9. ~(a.type = "vector" /\ b.type = "matrix") /\ ~(a.type = "matrix" /\ b.type = "vector")
  BY <1>8 DEF Conform
<1> QED
  BY <1>3, <1>6, <1>7, <1>9 DEF Arrays

(* The positions of a result do not depend on which operand is the digit. *)
LEMMA EachSwapped ==
  ASSUME NEW a, NEW b, NEW op, IsValue(a), IsValue(b), a.type = "digit", b.type \in Arrays
  PROVE  DOMAIN Each(Cells(a), Cells(b), op) = DOMAIN Each(Cells(b), Cells(a), op)
<1>1. Scalar(Cells(a)) /\ Cells(a) # NoValue /\ Cells(b) # NoValue
  BY CellsOfNum, ArrayCells
<1>2. ~Scalar(Cells(b))
  BY ValueForms, AtVector, AtMatrix DEF Arrays, OfMatrix
<1> QED
  BY <1>1, <1>2 DEF Each, Conform, All

LEMMA AddAnswered ==
  ASSUME NEW a, NEW b, NEW op \in {"+", "-"}, IsValue(a), IsValue(b),
         Conform(Cells(a), Cells(b)), ~(op = "-" /\ a.type = "matrix" /\ b.type = "matrix"),
         a.type = "matrix" => Square(a)
  PROVE  AllAnswered(AddOp(a, b, op), DOMAIN Each(Cells(a), Cells(b), op))
<1> DEFINE m == Each(Cells(a), Cells(b), op)
<1>1. CASE a.type \in Arrays /\ b.type = "digit"
  <2>1. \E v : DigitArrayAdd(b.elem, a, op) = Gives(v)
    BY DEF DigitArrayAdd
  <2>2. AddOp(a, b, op) = DigitArrayAdd(b.elem, a, op)
    BY <1>1 DEF AddOp, Arrays
  <2>3. AllRight(AddOp(a, b, op), Each(Cells(b), Cells(a), op))
    BY <1>1, <2>2, DigitArrayAddRight
  <2>4. AllAnswered(AddOp(a, b, op), DOMAIN Each(Cells(b), Cells(a), op))
    BY <2>1, <2>2, <2>3, GivesAnswer
  <2> QED
    BY <1>1, <2>4, EachSwapped
<1>2. CASE ~(a.type \in Arrays /\ b.type = "digit")
  <2>1. AllRight(AddOp(a, b, op), m)
    BY <1>2, AddRight
  <2>2. \E v : AddOp(a, b, op) = Gives(v)
    <3>1. CASE a.type = "digit" /\ b.type = "digit"
      BY <3>1 DEF AddOp, Arrays
    <3>2. CASE a.type = "digit" /\ b.type \in Arrays
      BY <3>2 DEF AddOp, Arrays, DigitArrayAdd
    <3>3. CASE a.type = "vector" /\ b.type = "vector" /\ VectorCompareSize(a, b)
      BY <3>3 DEF AddOp, Arrays, VectorAdd
    <3>4. CASE a.type = "matrix" /\ b.type = "matrix" /\ Rows(a) = Rows(b) /\ Cols(a) = Cols(b)
      <4>1. MatrixCompareSize(a, b) /\ op = "+"
        BY <3>4 DEF MatrixCompareSize, Square
      <4> QED
        BY <3>4, <4>1 DEF AddOp, Arrays, MatrixAdd
    <3> QED
      BY <1>2, <3>1, <3>2, <3>3, <3>4, ConformForms
  <2> HIDE DEF m
  <2> QED
    BY <2>1, <2>2, GivesAnswer DEF m
<1> QED
  BY <1>1, <1>2

LEMMA ProductAnswered ==
  ASSUME NEW a, NEW b, IsValue(a), IsValue(b),
         Conform(Cells(a), Cells(b)), ~(a.type \in Arrays /\ b.type \in Arrays)
  PROVE  AllAnswered(MultOp(a, b, "*"), DOMAIN Each(Cells(a), Cells(b), "*"))
<1>1. AllRight(MultOp(a, b, "*"), Each(Cells(a), Cells(b), "*"))
  BY ProductRight
<1>2. \E v : MultOp(a, b, "*") = Gives(v)
  <2>1. CASE a.type = "digit" /\ b.type = "digit"
    BY <2>1 DEF MultOp, Arrays
  <2>2. CASE a.type = "digit" /\ b.type \in Arrays
    BY <2>2 DEF MultOp, Arrays, ArrayDigitMult
  <2>3. CASE a.type \in Arrays /\ b.type = "digit"
    BY <2>3 DEF MultOp, Arrays, ArrayDigitMult
  <2> QED
    BY <2>1, <2>2, <2>3, ConformForms DEF Arrays
<1> QED
  BY <1>1, <1>2, GivesAnswer

(* The product of arrays means something: their sizes fit. *)
LEMMA ContractionFits ==
  ASSUME NEW x, NEW y, Contraction(x, y) # NoValue,
         NEW m \in Nat, NEW n \in Nat, Lasts(x) = 1 .. m, Heads(y) = 1 .. n
  PROVE  m = n
<1>1. 1 .. m = 1 .. n
  BY ContractionIsFunction
<1>2. ASSUME NEW p \in Nat, NEW q \in Nat, 1 .. p = 1 .. q PROVE p <= q
  <2>1. CASE p = 0
    BY <2>1
  <2>2. CASE p # 0
    <3>1. p \in 1 .. p
      BY <2>2
    <3>2. p \in 1 .. q
      BY <1>2, <3>1
    <3> QED
      BY <3>2
  <2> QED
    BY <2>1, <2>2
<1>3. m <= n /\ n <= m
  BY <1>1, <1>2
<1> QED
  BY <1>3

LEMMA ArraysAnswered ==
  ASSUME NEW a, NEW b, IsValue(a), IsValue(b), a.type \in Arrays, b.type \in Arrays,
         SquareMatrix(a), SquareMatrix(b), Contraction(Cells(a), Cells(b)) # NoValue
  PROVE  AllAnswered(MultOp(a, b, "*"), DOMAIN Contraction(Cells(a), Cells(b)))
<1>1. AllRight(MultOp(a, b, "*"), Contraction(Cells(a), Cells(b)))
  BY ArraysProductRight
<1>2. ASSUME NEW v, IsValue(v), v.type \in Arrays
      PROVE  /\ v.type = "vector" => RowOf(v, Len(v.elem)) /\ Len(v.elem) \in Nat
             /\ v.type = "matrix" => /\ GridOf(v, Rows(v), Cols(v))
                                     /\ Rows(v) \in Nat /\ Cols(v) \in Nat
  BY <1>2, ArraysForm, VectorRow, MatrixGrid
<1>3. \E v : MultOp(a, b, "*") = Gives(v)
  <2>1. CASE a.type = "vector" /\ b.type = "vector"
    <3>1. Len(a.elem) = Len(b.elem)
      BY <1>2, <2>1, ContractionFits DEF RowOf
    <3>2. MultOp(a, b, "*") = VectorMult(a, b, "*")
      BY <2>1 DEF MultOp, Arrays
    <3> QED
      BY <3>1, <3>2 DEF VectorMult, VectorCompareSize
  <2>2. CASE a.type = "vector" /\ b.type = "matrix"
    <3>1. Len(a.elem) = Rows(b) /\ Square(b)
      BY <1>2, <2>2, ContractionFits DEF RowOf, GridOf, SquareMatrix
    <3>2. MultOp(a, b, "*") = VectorMatrixMult(a, b, "*")
      BY <2>2 DEF MultOp, Arrays
    <3> QED
      BY <3>1, <3>2 DEF VectorMatrixMult
  <2>3. CASE a.type = "matrix" /\ b.type = "vector"
    <3>1. Cols(a) = Len(b.elem) /\ Rows(a) = Cols(a)
      BY <1>2, <2>3, ContractionFits DEF RowOf, GridOf, SquareMatrix, Square
    <3>2. MultOp(a, b, "*") = MatrixVectorMult(a, b, "*")
      BY <2>3 DEF MultOp, Arrays
    <3> QED
      BY <3>1, <3>2 DEF MatrixVectorMult
  <2>4. CASE a.type = "matrix" /\ b.type = "matrix"
    <3>1. Cols(a) = Rows(b)
      BY <1>2, <2>4, ContractionFits DEF GridOf
    <3>2. MultOp(a, b, "*") = MatrixMult(a, b, "*")
      BY <2>4 DEF MultOp, Arrays
    <3> QED
      BY <3>1, <3>2 DEF MatrixMult
  <2> QED
    BY <2>1, <2>2, <2>3, <2>4 DEF Arrays
<1> QED
  BY <1>1, <1>3, GivesAnswer

LEMMA LogicAnswered ==
  ASSUME NEW a, NEW b, NEW op \in {"&&", "||"}, IsValue(a), IsValue(b),
         Conform(Cells(a), Cells(b)), a.type = "matrix" => Square(a)
  PROVE  AllAnswered(LogicOp(a, b, op), {<<>>})
<1>1. \A x : AllAnswered(Gives(Digit(x)), {<<>>})
  <2> TAKE x
  <2>1. DOMAIN Cells(Digit(x)) = {<<>>}
    BY NumIsScalar DEF Num
  <2> QED
    BY <2>1, GivesAnswer
<1>2. CASE a.type = "digit" /\ b.type = "digit"
  BY <1>1, <1>2 DEF LogicOp, Arrays
<1>3. CASE a.type = "digit" /\ b.type \in Arrays
  <2>1. \E x : LogicOp(a, b, op) = Gives(Digit(x))
    BY <1>3 DEF LogicOp, Arrays, DigitArrayLogic
  <2> QED
    BY <1>1, <2>1
<1>4. CASE a.type \in Arrays /\ b.type = "digit"
  <2>1. \E x : LogicOp(a, b, op) = Gives(Digit(x))
    BY <1>4 DEF LogicOp, Arrays, DigitArrayLogic
  <2> QED
    BY <1>1, <2>1
<1>5. CASE a.type = "vector" /\ b.type = "vector" /\ VectorCompareSize(a, b)
  BY <1>1, <1>5 DEF LogicOp, Arrays, VectorLogic
<1>6. CASE a.type = "matrix" /\ b.type = "matrix" /\ Rows(a) = Rows(b) /\ Cols(a) = Cols(b)
  <2>1. MatrixCompareSize(a, b)
    BY <1>6 DEF MatrixCompareSize, Square
  <2>2. ~(Rows(b) < Rows(a))
    BY <1>6, ValueForms
  <2>3. LogicOp(a, b, op) = MatrixLogic(a, b, op)
    BY <1>6 DEF LogicOp, Arrays
  <2>4. \E x : MatrixLogic(a, b, op) = Gives(Digit(x))
    BY <2>1, <2>2 DEF MatrixLogic
  <2> QED
    BY <1>1, <2>3, <2>4
<1> QED
  BY <1>2, <1>3, <1>4, <1>5, <1>6, ConformForms

LEMMA RelAnswered ==
  ASSUME NEW a, NEW b, NEW op \in Relations, IsValue(a), IsValue(b),
         Conform(Cells(a), Cells(b)), ~(a.type = "vector" /\ b.type = "digit"),
         a.type = "matrix" => Square(a)
  PROVE  AllAnswered(RelOp(a, b, op), DOMAIN Each(Cells(a), Cells(b), op))
<1> DEFINE m == Each(Cells(a), Cells(b), op)
<1>1. CASE a.type = "digit" /\ b.type = "vector"
  <2> DEFINE n == Len(b.elem)
  <2>1. n \in Nat \ {0} /\ DOMAIN b.elem = 1 .. n
    BY <1>1, ValueForms
  <2>2. DOMAIN m = {<<i>> : i \in 1 .. n}
    <3>1. Scalar(Cells(a)) /\ DOMAIN Cells(b) = {<<i>> : i \in 1 .. n}
      BY <1>1, <2>1, CellsOfNum, CellsOfVector
    <3> QED
      BY <3>1 DEF Each, All
  <2>3. ASSUME NEW f \in [DOMAIN b.elem -> {0, 1}]
        PROVE  AllAnswered(Gives(Vector(f)), DOMAIN m)
    <3>1. Vector(f).type = "vector" /\ Vector(f).elem = f
      BY DEF Vector
    <3>2. DOMAIN Cells(Vector(f)) = {<<i>> : i \in 1 .. n}
      BY <2>1, <3>1, CellsOfVector
    <3> HIDE DEF m, n
    <3> QED
      BY <2>2, <3>2, GivesAnswer
  <2>4. AllAnswered(DigitVectorRel(b), DOMAIN m)
    <3> HIDE DEF m
    <3> QED
      BY <2>3 DEF DigitVectorRel, AllAnswered
  <2> QED
    BY <1>1, <2>4 DEF RelOp
<1>2. CASE a.type = "matrix" /\ b.type = "digit"
  <2> DEFINE s == [i \in 1 .. Rows(a) |-> [j \in 1 .. Cols(a) |-> DigitOp(b.elem, a.elem[i][j], op)]]
  <2>1. RelOp(a, b, op) = Gives(Matrix(s))
    BY <1>2 DEF RelOp, Mapped
  <2>2. /\ DOMAIN s = 1 .. Rows(a) /\ \A i \in 1 .. Rows(a) : DOMAIN s[i] = 1 .. Cols(a)
        /\ \A i \in 1 .. Rows(a), j \in 1 .. Cols(a) : s[i][j] = DigitOp(b.elem, a.elem[i][j], op)
    OBVIOUS
  <2> HIDE DEF s
  <2>3. IsNum(b) /\ IsMatrix(a)
    BY <1>2, ValueForms
  <2>4. AllRight(Gives(Matrix(s)), Each(Cells(b), Cells(a), op))
    BY <2>2, <2>3, DigitMatrixRight
  <2>5. AllAnswered(RelOp(a, b, op), DOMAIN Each(Cells(b), Cells(a), op))
    BY <2>1, <2>4, GivesAnswer
  <2> QED
    BY <1>2, <2>5, EachSwapped DEF Arrays
<1>3. CASE ~(a.type = "digit" /\ b.type = "vector") /\ ~(a.type = "matrix" /\ b.type = "digit")
  <2>1. ~(a.type = "matrix" /\ b.type = "matrix" /\ (~Square(a) \/ Rows(a) < Rows(b)))
    BY ConformForms, ValueForms DEF Arrays
  <2>2. AllRight(RelOp(a, b, op), m)
    BY <1>3, <2>1, RelRight
  <2>3. \E v : RelOp(a, b, op) = Gives(v)
    <3>1. CASE a.type = "digit" /\ b.type = "digit"
      BY <3>1 DEF RelOp
    <3>2. CASE a.type = "digit" /\ b.type = "matrix"
      BY <3>2 DEF RelOp
    <3>3. CASE a.type = "vector" /\ b.type = "vector" /\ VectorCompareSize(a, b)
      BY <3>3 DEF RelOp, VectorRel
    <3>4. CASE a.type = "matrix" /\ b.type = "matrix" /\ Rows(a) = Rows(b) /\ Cols(a) = Cols(b)
      <4>1. MatrixCompareSize(a, b)
        BY <3>4 DEF MatrixCompareSize, Square
      <4>2. ~(Rows(b) < Rows(a))
        BY <3>4, ValueForms
      <4>3. RelOp(a, b, op) = MatrixRel(a, b, op)
        BY <3>4 DEF RelOp
      <4> QED
        BY <4>1, <4>2, <4>3 DEF MatrixRel
    <3> QED
      BY <1>3, <3>1, <3>2, <3>3, <3>4, ConformForms DEF Arrays
  <2> HIDE DEF m
  <2> QED
    BY <2>2, <2>3, GivesAnswer DEF m
<1> QED
  BY <1>1, <1>2, <1>3

(* An operation that means something has operands that fit. *)
LEMMA MeantFits ==
  ASSUME NEW t, t.op \in Ops \ {"/", "^"}, IsValue(t.a), IsValue(t.b),
         ~(t.op = "*" /\ t.a.type \in Arrays /\ t.b.type \in Arrays),
         Meaning(t) # NoValue
  PROVE  /\ Conform(Cells(t.a), Cells(t.b))
         /\ t.op \in {"&&", "||"} => DOMAIN Meaning(t) = {<<>>}
         /\ t.op \notin {"&&", "||"} => Meaning(t) = Each(Cells(t.a), Cells(t.b), t.op)
<1>1. CASE t.op \in {"+", "-"} \cup Relations
  BY <1>1, MeaningOfEach DEF Each, Relations
<1>2. CASE t.op = "*"
  <2>1. CASE t.a.type = "digit" \/ t.b.type = "digit"
    <3>1. Meaning(t) = Each(Cells(t.a), Cells(t.b), t.op)
      BY <1>2, <2>1, CellsOfNum, MeaningOfEach
    <3> QED
      BY <1>2, <3>1 DEF Each
  <2>2. CASE t.a.type # "digit" /\ t.b.type # "digit"
    <3>1. Cells(t.a) = NoValue \/ Cells(t.b) = NoValue
      BY <1>2, <2>2, NoValueIsEmpty DEF IsValue, IsNum, IsVector, IsMatrix, Arrays
    <3>2. ~Scalar(Cells(t.a)) /\ ~Scalar(Cells(t.b))
      <4>1. \A v : IsValue(v) /\ v.type # "digit" => ~Scalar(Cells(v))
        BY ValueForms, AtVector, AtMatrix, NoValueIsEmpty
           DEF OfMatrix, IsValue, IsNum, IsVector, IsMatrix
      <4> QED
        BY <2>2, <4>1
    <3>3. Meaning(t) = NoValue
      BY <1>2, <3>1, <3>2 DEF Meaning, Relations
    <3> QED
      BY <3>3
  <2> QED
    BY <2>1, <2>2
<1>3. CASE t.op \in {"&&", "||"}
  <2>1. Conform(Cells(t.a), Cells(t.b))
    BY <1>3 DEF Meaning, Conform, Relations
  <2>2. Meaning(t) = LogicMeaning(t)
    BY <1>3, <2>1, MeaningOfLogic
  <2>3. \A x : DOMAIN Num(x) = {<<>>}
    BY DEF Num
  <2>4. DOMAIN LogicMeaning(t) = {<<>>}
    BY <2>3, Zenon DEF LogicMeaning
  <2> QED
    BY <1>3, <2>1, <2>2, <2>4
<1> QED
  BY <1>1, <1>2, <1>3 DEF Ops

(* The tasks ConformantAnswered is about. *)
Answerable(t) ==
  /\ t.op \notin {"literal", "/"}
  /\ SquareMatrix(t.a) /\ SquareMatrix(t.b)
  /\ Meaning(t) # NoValue
  /\ ~(t.op = "-" /\ t.a.type = "matrix" /\ t.b.type = "matrix")
  /\ ~(t.op \in Relations /\ t.a.type = "vector" /\ t.b.type = "digit")

LEMMA OutcomesAnswered ==
  ASSUME NEW t, t.op \in Ops, IsValue(t.a), IsValue(t.b), t.op # "^", Answerable(t)
  PROVE  AllAnswered(Outcomes(t.a, t.b, t.op), DOMAIN Meaning(t))
<1>0. CASE t.op = "*" /\ t.a.type \in Arrays /\ t.b.type \in Arrays
  <2>1. Outcomes(t.a, t.b, t.op) = MultOp(t.a, t.b, "*")
    BY <1>0 DEF Outcomes, Relations
  <2>2. Meaning(t) = Contraction(Cells(t.a), Cells(t.b))
    BY <1>0, ArraysForm, MeaningOfArrays
  <2> QED
    BY <1>0, <2>1, <2>2, ArraysAnswered DEF Answerable
<1> SUFFICES ASSUME ~(t.op = "*" /\ t.a.type \in Arrays /\ t.b.type \in Arrays)
             PROVE  AllAnswered(Outcomes(t.a, t.b, t.op), DOMAIN Meaning(t))
  BY <1>0
<1>1. /\ Conform(Cells(t.a), Cells(t.b))
      /\ t.op \in {"&&", "||"} => DOMAIN Meaning(t) = {<<>>}
      /\ t.op \notin {"&&", "||"} => Meaning(t) = Each(Cells(t.a), Cells(t.b), t.op)
  BY MeantFits DEF Answerable
<1>2. t.a.type = "matrix" => Square(t.a)
  BY DEF Answerable, SquareMatrix
<1>3. CASE t.op \in {"+", "-"}
  <2>1. Outcomes(t.a, t.b, t.op) = AddOp(t.a, t.b, t.op)
    BY <1>3 DEF Outcomes, Relations
  <2>2. ~(t.op = "-" /\ t.a.type = "matrix" /\ t.b.type = "matrix")
    BY DEF Answerable
  <2> QED
    BY <1>1, <1>2, <1>3, <2>1, <2>2, AddAnswered
<1>4. CASE t.op = "*"
  <2>1. Outcomes(t.a, t.b, t.op) = MultOp(t.a, t.b, "*")
    BY <1>4 DEF Outcomes, Relations
  <2> QED
    BY <1>1, <1>4, <2>1, ProductAnswered
<1>5. CASE t.op \in {"&&", "||"}
  <2>1. Outcomes(t.a, t.b, t.op) = LogicOp(t.a, t.b, t.op)
    BY <1>5 DEF Outcomes, Relations
  <2> QED
    BY <1>1, <1>2, <1>5, <2>1, LogicAnswered
<1>6. CASE t.op \in Relations
  <2>1. Outcomes(t.a, t.b, t.op) = RelOp(t.a, t.b, t.op)
    BY <1>6 DEF Outcomes, Relations
  <2>2. t.op \notin {"&&", "||"} /\ ~(t.a.type = "vector" /\ t.b.type = "digit")
    BY <1>6 DEF Relations, Answerable
  <2> QED
    BY <1>1, <1>2, <1>6, <2>1, <2>2, RelAnswered
<1>7. t.op # "/"
  BY DEF Answerable
<1> QED
  BY <1>3, <1>4, <1>5, <1>6, <1>7 DEF Ops

AnswerInv ==
  /\ (Finished /\ Answerable(task) /\ ~IsPower(task)) =>
       pc = "done" /\ ~res.told /\ DOMAIN Cells(res.val) = DOMAIN Meaning(task)
  /\ IsPower(task) => pc \notin {"exited", "undefined"}

(* Nothing but an accepted power has a meaning. *)
LEMMA OnlyPowersMean ==
  ASSUME NEW t, t.op = "^", ~IsPower(t) PROVE ~Answerable(t)
  BY DEF IsPower, Answerable, Meaning, Relations

LEMMA NextAnswered ==
  ASSUME ValueOperands, TypeOK, AnswerInv, [Next]_vars PROVE AnswerInv'
<1>1. CASE Operate
  <2>1. PICK o \in Outcomes(task.a, task.b, task.op) :
          pc' = o.end /\ res' = [val |-> o.val, told |-> o.told]
    BY <1>1 DEF Operate
  <2>2. task' = task /\ task.op # "literal" /\ ~IsPower(task) /\ task \in Tasks
    BY <1>1 DEF Operate, TypeOK
  <2>3. Answerable(task) => AllAnswered(Outcomes(task.a, task.b, task.op), DOMAIN Meaning(task))
    BY <2>2, OperandsTask, OutcomesAnswered, OnlyPowersMean
  <2>4. Answerable(task) => o.end = "done" /\ ~o.told /\ DOMAIN Cells(o.val) = DOMAIN Meaning(task)
    BY <2>1, <2>3 DEF AllAnswered
  <2>5. res'.val = o.val /\ res'.told = o.told
    BY <2>1
  <2> QED
    BY <2>1, <2>2, <2>4, <2>5 DEF AnswerInv
<1>2. CASE StartPower \/ SquareBase
  BY <1>2 DEF StartPower, SquareBase, AnswerInv, Finished
<1>3. CASE EndPower
  BY <1>3 DEF EndPower, AnswerInv, TypeOK
<1>4. CASE StartLiteral \/ Scale \/ EndLiteral
  BY <1>4 DEF StartLiteral, Scale, EndLiteral, AnswerInv, TypeOK, Answerable, IsPower
<1>5. CASE UNCHANGED vars
  BY <1>5 DEF vars, AnswerInv, Finished
<1> QED
  BY <1>1, <1>2, <1>3, <1>4, <1>5 DEF Next

(* Operands that fit are answered, with a value of the form that is meant. *)
THEOREM ConformantsAnswered == ASSUME ValueOperands PROVE Spec => []ConformantAnswered
<1>1. Init => TypeOK /\ AnswerInv
  BY DEF Init, TypeOK, AnswerInv, Finished
<1>2. TypeOK /\ AnswerInv /\ [Next]_vars => (TypeOK /\ AnswerInv)'
  BY NextTyped, NextAnswered
<1>3. PowInv /\ AnswerInv => ConformantAnswered
  <2> SUFFICES ASSUME PowInv, AnswerInv, Finished, Answerable(task)
               PROVE  pc = "done" /\ ~res.told /\ DOMAIN Cells(res.val) = DOMAIN Meaning(task)
    BY DEF ConformantAnswered, Answerable
  <2>1. CASE ~IsPower(task)
    BY <2>1 DEF AnswerInv
  <2>2. CASE IsPower(task)
    <3>1. TypeOK /\ task.op = "^" /\ HasPower(task.a, task.b)
      BY <2>2 DEF PowInv, IsPower
    <3>2. task.b.elem >= 0
      BY <3>1 DEF Answerable, Meaning, Relations
    <3>3. pc = "done"
      BY <2>2, <3>1, <3>2, PowerOperands DEF PowInv, AnswerInv, Finished
    <3>4. Cells(res.val) = PowerDone /\ ~res.told
      BY <2>2, <3>3 DEF PowInv
    <3> QED
      BY <2>2, <3>2, <3>3, <3>4, MeaningOfPower
  <2> QED
    BY <2>1, <2>2
<1>4. Spec => []PowInv
  BY PowerInvariant
<1> QED
  BY <1>1, <1>2, <1>3, <1>4, PTL DEF Spec

==============================================================================
