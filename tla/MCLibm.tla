------------------------------- MODULE MCLibm -------------------------------
(* Operands of all types, of sizes that fit and sizes that do not. *)
EXTENDS Libm

CONSTANTS
  MaxPower   \* bound: exponents, and fraction digits of numerals

Digits  == {Digit(n) : n \in -1 .. 2}
Vectors == {Vector(s) : s \in UNION {[1 .. n -> {0, 1}] : n \in 1 .. 2}}
           \cup {Vector(<<1, 0, 2>>), Vector(<<0, 0, 0>>)}

Row == [1 .. 2 -> {0, 1}]
Matrices ==
  {Matrix(<<r, s>>) : r \in Row, s \in Row}
  \cup {Matrix(<<r, <<1, 1>>, <<0, 1>>>>) : r \in Row}
  \cup {Matrix(<<<<1, 0, 2>>, <<0, x, 1>>>>) : x \in {0, 1}}
  \cup {Matrix(<<<<1, x, 0>>, <<0, 1, 2>>, <<1, 1, 0>>>>) : x \in {0, 1}}

Operands == Digits \cup Vectors \cup Matrices \cup {[type |-> "string"]}

MCTasks ==
  [op: Ops, a: Operands, b: Operands]
  \cup [op: {"^"}, a: Digits \cup Matrices, b: {Digit(n) : n \in -MaxPower .. MaxPower}]
  \cup [op: {"literal"}, a: 0 .. MaxPower, b: -MaxPower .. MaxPower]
=============================================================================
