-------------------------------- MODULE Values --------------------------------
(* Who owns the memory of a value: symbol_set_val and the symbols of symbol.c,
   struct eval of eval.c, and the handlers of traverse.c that move values
   between the evaluation stack and the variables.

   Strings, vectors and matrices lie in blocks of memory.  An eval made for a
   constant or a result owns its block; one made for a variable (TAG_SYMBOL) only
   points to the vector or matrix of the symbol; symbol_set_val copies.

   Each action is one handler's work on the stack.  They come in any order: the
   operands of an expression may call functions whose bodies assign to variables
   while values of the expression are waiting.  Between the lines the definition
   of a function may destroy the variables of its predecessor.  Module Traverse
   has the order of the handlers and the values of conditions. *)
EXTENDS Naturals, Sequences, FiniteSets

CONSTANTS
  Ids,       \* variables and parameters
  Locals,    \* those of functions that programs define
  Ans,       \* the variable ans
  Blocks,    \* addresses of blocks
  Data,      \* what a block may hold
  Factors,   \* what a matrix holds after gsl_linalg_LU_decomp
  Free,      \* marks a block that is not allocated
  NULL,      \* the null pointer
  Uses,      \* what programs do: see Features
  MaxStack   \* bound: length of the evaluation stack

(* alias: a vector or matrix variable (ans included) gets a new value, or is
   destroyed with its function, while a value on the stack still points to the
   old one. *)
Features == {"alias"}

ASSUME ValuesAssumption ==
  /\ Ans \notin Ids
  /\ Locals \subseteq Ids
  /\ NULL \notin Blocks
  /\ Free \notin Data \cup {Factors}
  /\ Uses \subseteq Features
  /\ MaxStack \in Nat

VARIABLES
  heap,     \* heap[b]: the contents of block b, or Free
  var,      \* var[x]: type and block of the value of x
  stack,    \* the evaluation stack of list.c, its top last
  errors,   \* the error counter of traverse.c is not zero
  status    \* "ok", or how the interpreter ended

vars == <<heap, var, stack, errors, status>>

Vars   == Ids \cup {Ans}
Arrays == {"vector", "matrix"}
Types  == {"digit", "string"} \cup Arrays

(* block is NULL when the value is a digit. *)
Symbol == [type: Types \cup {"unknown"}, block: Blocks \cup {NULL}]
Eval   == [tag: {"const", "symbol"}, type: Types, block: Blocks \cup {NULL}]

TypeOK ==
  /\ heap \in [Blocks -> Data \cup {Factors, Free}]
  /\ var \in [Vars -> Symbol]
  /\ stack \in Seq(Eval) /\ Len(stack) <= MaxStack
  /\ \A i \in DOMAIN stack : stack[i].block = NULL <=> stack[i].type = "digit"
  /\ errors \in BOOLEAN
  /\ status \in {"ok", "exited", "undefined"}

(* symbol_init_ans gives ans a string, the working directory. *)
Init ==
  /\ \E b \in Blocks, d \in Data :
       /\ heap = [c \in Blocks |-> IF c = b THEN d ELSE Free]
       /\ var = [x \in Vars |-> IF x = Ans THEN [type |-> "string", block |-> b]
                                ELSE [type |-> "unknown", block |-> NULL]]
  /\ stack = <<>>
  /\ errors = FALSE
  /\ status = "ok"

-----------------------------------------------------------------------------
Last(s) == s[Len(s)]
Front(s) == SubSeq(s, 1, Len(s) - 1)

Owns(v) == {v.block} \ {NULL}
Freed(h, S) == [b \in Blocks |-> IF b \in S THEN Free ELSE h[b]]
Unused(h) == {b \in Blocks : h[b] = Free}

Ends(how) == status' = how /\ UNCHANGED <<heap, var, stack, errors>>
Undefined == Ends("undefined")

(* eval_free of every value. *)
FreesAll(e) == Owns(e)

(* The blocks eval_free frees. *)
Frees(e) == IF e.tag = "const" THEN Owns(e) ELSE {}

FreesEach(s) == UNION {Frees(s[i]) : i \in DOMAIN s}

(* A value in s points to the vector or matrix of x. *)
Aliased(x, s) ==
  /\ var[x].type \in Arrays
  /\ \E i \in DOMAIN s : s[i].tag = "symbol" /\ s[i].block = var[x].block

MaySet(x, s) == Aliased(x, s) => "alias" \in Uses

(* A symbol whose new block does not get the contents of the value. *)
SetValNoCopy(h, x, e, S) ==
  IF e.block = NULL
  THEN /\ heap' = Freed(Freed(h, Owns(var[x])), S)
       /\ var' = [var EXCEPT ![x] = [type |-> e.type, block |-> NULL]]
  ELSE \E b \in Unused(Freed(h, Owns(var[x]))), d \in Data :
         /\ heap' = Freed([Freed(h, Owns(var[x])) EXCEPT ![b] = d], S)
         /\ var' = [var EXCEPT ![x] = [type |-> e.type, block |-> b]]

(* A symbol that takes over the pointer instead of copying what it points to. *)
SetValShares(h, x, e, S) ==
  /\ heap' = Freed(Freed(h, Owns(var[x])), S)
  /\ var' = [var EXCEPT ![x] = [type |-> e.type, block |-> e.block]]

(* symbol_set_val of x from the value e, with the memory h, after which the
   blocks S are freed: the old value is freed before the new one is copied. *)
SetVal(h, x, e, S) ==
  LET cleaned == Freed(h, Owns(var[x]))
  IN IF e.block = NULL
     THEN /\ heap' = Freed(cleaned, S)
          /\ var' = [var EXCEPT ![x] = [type |-> e.type, block |-> NULL]]
     ELSE \E b \in Unused(cleaned) :
            /\ heap' = Freed([cleaned EXCEPT ![b] = cleaned[e.block]], S)
            /\ var' = [var EXCEPT ![x] = [type |-> e.type, block |-> b]]

(* set_value reads a block that symbol_clean_val or somebody before has freed. *)
ReadsFreed(x, e) == e.block # NULL /\ Freed(heap, Owns(var[x]))[e.block] = Free

-----------------------------------------------------------------------------
(* The outcomes of an operation on values of types s and t.  "none": the operation
   prints a message and returns NULL; "exit": it ends the program; "wild": it
   follows a pointer that is not one. *)
Ops == {"add", "sub", "mult", "div", "logic", "rel", "exp"}

Incompatible(s, t) == "string" \in {s, t} \/ (s # t /\ {s, t} = Arrays)

(* A result that takes its shape from the operands. *)
Shape(s, t) == {IF s \in Arrays THEN s ELSE t}

(* The sizes of the operands may not agree. *)
Nonconformant(s, t) == IF {s, t} \subseteq Arrays THEN {"none"} ELSE {}

(* eval_add_op; libm_matrix_add_op knows no subtraction. *)
AddTypes(s, t) ==
  IF Incompatible(s, t) THEN {"none"} ELSE Shape(s, t) \cup Nonconformant(s, t)

SubTypes(s, t) ==
  IF s = "matrix" /\ t = "matrix" THEN {"exit", "none"} ELSE AddTypes(s, t)

(* eval_mult_op; the product of two vectors is a number. *)
MultTypes(s, t) ==
  IF "string" \in {s, t} THEN {"none"}
  ELSE IF s = "vector" /\ t = "vector" THEN {"digit"}
  ELSE IF Incompatible(s, t) THEN {"vector", "none"}
  ELSE AddTypes(s, t)

DivTypes(s, t) ==
  IF "string" \in {s, t} \/ (s # "vector" /\ t = "vector") \/ (s = "digit" /\ t = "matrix")
  THEN {"none"}
  ELSE IF s = t /\ s # "matrix" THEN {"digit"}
  ELSE {s, "none"}

LogicTypes(s, t) == IF Incompatible(s, t) THEN {"none"} ELSE {"digit"}

(* eval_rel_op takes the number as the vector when it compares a vector with a
   number; only the number zero is a null pointer. *)
RelTypes(s, t) ==
  IF s = "vector" /\ t = "digit" THEN {"wild", "none"} ELSE AddTypes(s, t)

(* eval_exp_op; a matrix must be square. *)
ExpTypes(s, t) ==
  IF t # "digit" \/ s \notin {"digit", "matrix"} THEN {"none"}
  ELSE IF s = "digit" THEN {"digit"} ELSE {"matrix", "none"}

Outcomes(op, s, t) ==
  CASE op = "add"   -> AddTypes(s, t)
    [] op = "sub"   -> SubTypes(s, t)
    [] op = "mult"  -> MultTypes(s, t)
    [] op = "div"   -> DivTypes(s, t)
    [] op = "logic" -> LogicTypes(s, t)
    [] op = "rel"   -> RelTypes(s, t)
    [] op = "exp"   -> ExpTypes(s, t)

Const(type, b) == [tag |-> "const", type |-> type, block |-> b]

(* A new constant eval of a type, pushed on rest, which also becomes the value of
   ans; afterwards the blocks S are freed. *)
PushNew(h, rest, type, S) ==
  IF type = "digit"
  THEN /\ stack' = Append(rest, Const(type, NULL))
       /\ SetVal(h, Ans, Const(type, NULL), S)
  ELSE \E b \in Unused(h), d \in Data :
         /\ stack' = Append(rest, Const(type, b))
         /\ SetVal([h EXCEPT ![b] = d], Ans, Const(type, b), S)

-----------------------------------------------------------------------------
Ready == status = "ok"
Room  == Ready /\ ~errors /\ Len(stack) < MaxStack

(* traverse_const *)
PushConst(type) ==
  /\ Room /\ MaySet(Ans, stack)
  /\ PushNew(heap, stack, type, {})
  /\ UNCHANGED <<errors, status>>

(* A symbol's type is not looked at. *)
PushIdUnchecked(x) ==
  /\ Room
  /\ stack' = Append(stack, [tag |-> "symbol", type |-> var[x].type, block |-> var[x].block])
  /\ UNCHANGED <<heap, var, errors, status>>

(* traverse_id: the string of a symbol is duplicated, and nobody frees that. *)
PushId(x) ==
  /\ Room
  /\ \/ /\ var[x].type = "unknown"
        /\ errors' = TRUE
        /\ UNCHANGED <<heap, stack>>
     \/ /\ var[x].type \in Arrays \cup {"digit"}
        /\ stack' = Append(stack, [tag |-> "symbol", type |-> var[x].type,
                                   block |-> var[x].block])
        /\ UNCHANGED <<heap, errors>>
     \/ /\ var[x].type = "string"
        /\ \E b \in Unused(heap) :
             /\ heap' = [heap EXCEPT ![b] = heap[var[x].block]]
             /\ stack' = Append(stack, [tag |-> "symbol", type |-> "string", block |-> b])
        /\ UNCHANGED errors
  /\ UNCHANGED <<var, status>>

(* traverse_vector and traverse_matrix: the last element that has been evaluated
   is on the stack, the earlier ones have been stored in the new block.  Neither
   block is freed when the element is refused, for err_msg returns. *)
Literal(type) ==
  /\ Ready
  /\ IF stack = <<>> THEN Undefined
     ELSE IF Last(stack).type # "digit"
     THEN /\ errors' = TRUE
          /\ stack' = Front(stack)
          /\ UNCHANGED <<heap, var, status>>
     ELSE /\ MaySet(Ans, Front(stack))
          /\ PushNew(heap, Front(stack), type, {})
          /\ UNCHANGED <<errors, status>>

(* libcall_sin and the others compute a number, a vector or a matrix of zeros
   from numbers, and refuse everything else. *)
HandlerOk(x) == var[x].type = "digit"

(* perform_lib_function after its argument has been stored in the parameter x,
   or not: the function is computed even if the argument had an error. *)
LibCall(x, type) ==
  /\ Ready /\ Len(stack) < MaxStack
  /\ IF ~HandlerOk(x)
     THEN errors' = TRUE /\ UNCHANGED <<heap, var, stack, status>>
     ELSE /\ MaySet(Ans, stack)
          /\ PushNew(heap, stack, type, {})
          /\ UNCHANGED <<errors, status>>

(* An operation that computes in the memory of its left operand. *)
ApplyInPlace(op) ==
  /\ Ready /\ Len(stack) >= 2
  /\ LET e == Last(Front(stack))
     IN /\ e.type \in Arrays
        /\ \E d \in Data : heap' = [heap EXCEPT ![e.block] = d]
        /\ stack' = Append(Front(Front(stack)), e)
  /\ UNCHANGED <<var, errors, status>>

(* eval_mult_op of two matrices leaves the factors of the divisor in the
   divisor's own memory, whoever owns it; without a result only if the product
   with the inverse has failed. *)
AfterOp(op, a, b, t) ==
  LET divided == [heap EXCEPT ![b.block] = Factors]
  IN IF op = "div" /\ a.type = "matrix" /\ b.type = "matrix"
     THEN IF t = "none" THEN {heap, divided} ELSE {divided}
     ELSE {heap}

(* traverse_op: the result is pushed, the operands are freed, and ans gets a copy
   of the result. *)
Apply(op) ==
  /\ Ready /\ Len(stack) >= 2
  /\ LET b == Last(stack)
         a == Last(Front(stack))
         rest == Front(Front(stack))
         operands == Frees(a) \cup Frees(b)
     IN IF \E e \in {a, b} : e.block # NULL /\ heap[e.block] = Free
        THEN Undefined
        ELSE \E t \in Outcomes(op, a.type, b.type) : \E h \in AfterOp(op, a, b, t) :
               \/ t = "wild" /\ Undefined
               \/ t = "exit" /\ Ends("exited")
               \/ /\ t = "none"
                  /\ stack' = rest
                  /\ heap' = Freed(h, operands)
                  /\ UNCHANGED <<var, errors, status>>
               \/ /\ t \in Types /\ MaySet(Ans, rest)
                  /\ PushNew(h, rest, t, operands)
                  /\ UNCHANGED <<errors, status>>

(* traverse_op when there are not two values; the operation has no result. *)
ApplyNothing ==
  /\ Ready /\ Len(stack) = 1
  /\ heap' = Freed(heap, Frees(Last(stack)))
  /\ stack' = <<>>
  /\ UNCHANGED <<var, errors, status>>

(* traverse_assign to a variable, and perform_init_args to a parameter.  Without
   a value nothing happens. *)
Assign(x) ==
  /\ Ready /\ stack # <<>> /\ MaySet(x, stack)
  /\ LET e == Last(stack)
     IN IF ReadsFreed(x, e) THEN Undefined
        ELSE /\ SetVal(heap, x, e, Frees(e))
             /\ stack' = Front(stack)
             /\ UNCHANGED <<errors, status>>

(* The n values a handler takes, one after the other until one is no number. *)
Popped(n) == Len(stack)-n+1..Len(stack)
Bad(n) == {i \in Popped(n) : stack[i].type # "digit"}

(* A null pointer is followed where a handler needs n numbers. *)
Missing(n) == Len(stack) < n /\ \A i \in DOMAIN stack : stack[i].type = "digit"

(* set_access_value with n indices: a value that is not a number is refused before
   the indices are evaluated; an index that is not a number is never freed.  The
   node has the type x had when it was parsed: if that was unknown nothing is
   stored, and if the number of indices does not fit it that is an error. *)
SetElem(x, n) ==
  /\ Ready /\ var[x].type \in Arrays
  /\ \/ Missing(n + 1) /\ Undefined
     \/ /\ stack # <<>> /\ Last(stack).type # "digit"
        /\ heap' = Freed(heap, Frees(Last(stack)))
        /\ stack' = Front(stack)
        /\ errors' = TRUE
        /\ UNCHANGED <<var, status>>
     \/ \E k \in 2..n+1 :
          /\ Len(stack) >= k
          /\ stack' = SubSeq(stack, 1, Len(stack) - k)
          /\ \/ /\ Cardinality(Bad(k)) = 1
                /\ errors' = TRUE
                /\ UNCHANGED heap
             \/ /\ k = n + 1 /\ Bad(k) = {}
                /\ errors' \in {errors, TRUE}
                /\ \E d \in Data \cup {heap[var[x].block]} :
                     heap' = [heap EXCEPT ![var[x].block] = d]
          /\ UNCHANGED <<var, status>>

(* traverse_access with n indices; the second is not evaluated when the first is
   bad.  After a bad one, which is never freed, the element that an uninitialized
   index names is pushed all the same. *)
Dimensions == [vector |-> 1, matrix |-> 2]

Index(x, n) ==
  /\ Ready
  /\ \/ Missing(n) /\ Undefined
     \/ \E k \in 1..n :
          LET rest == SubSeq(stack, 1, Len(stack) - k)
              fits == var[x].type \in Arrays /\ Dimensions[var[x].type] = n
          IN /\ Len(stack) >= k
             /\ k < n => Bad(k) # {}
             /\ errors' = (errors \/ Bad(k) # {} \/ ~fits)
             /\ stack' = IF fits THEN Append(rest, Const("digit", NULL)) ELSE rest
             /\ UNCHANGED <<heap, var, status>>

(* traversal_print_result at the end of the line. *)
PrintResult ==
  /\ Ready /\ (errors \/ stack # <<>>)
  /\ IF ~errors /\ Last(stack).block # NULL /\ heap[Last(stack).block] = Free
     THEN Undefined
     ELSE /\ errors' = FALSE
          /\ IF errors
             THEN heap' = Freed(heap, FreesEach(stack)) /\ stack' = <<>>
             ELSE heap' = Freed(heap, Frees(Last(stack))) /\ stack' = Front(stack)
          /\ UNCHANGED <<var, status>>

(* symbol_table_destroy when a function is defined again: S are the variables of
   its table, those of the new one have no value.  It is read between two lines,
   when values of statements of the old one may still be on the stack. *)
DestroyTable(S) ==
  /\ Ready /\ ~errors
  /\ \A x \in S : MaySet(x, stack)
  /\ heap' = Freed(heap, UNION {Owns(var[x]) : x \in S})
  /\ var' = [x \in Vars |-> IF x \in S THEN [type |-> "unknown", block |-> NULL]
                            ELSE var[x]]
  /\ UNCHANGED <<stack, errors, status>>

Next ==
  \/ \E t \in {"digit", "string"} : PushConst(t)
  \/ \E t \in Arrays : Literal(t)
  \/ \E op \in Ops : Apply(op)
  \/ ApplyNothing \/ PrintResult
  \/ \E x \in Ids, t \in Arrays \cup {"digit"} : LibCall(x, t)
  \/ \E x \in Ids, n \in 1..2 : SetElem(x, n)
  \/ \E x \in Vars, n \in 1..2 : Index(x, n)
  \/ \E x \in Vars : PushId(x) \/ Assign(x)
  \/ \E S \in SUBSET Locals : DestroyTable(S)

Spec == Init /\ [][Next]_vars

-----------------------------------------------------------------------------
(* Properties. *)

(* The values that have to free a block of their own: those of variables, the
   constants on the stack, and the strings there. *)
Holders ==
  {<<"variable", x>> : x \in {y \in Vars : var[y].block # NULL}} \cup
  {<<"eval", i>> : i \in {j \in DOMAIN stack : /\ stack[j].block # NULL
                                               /\ \/ stack[j].tag = "const"
                                                  \/ stack[j].type = "string"}}

BlockOf(o) == IF o[1] = "variable" THEN var[o[2]].block ELSE stack[o[2]].block

(* A block that a variable or a value on the evaluation stack will free is
   allocated and nobody else will free it: memory is never freed twice, nor
   used by a second value (symbol_set_val, eval_free). *)
UniqueOwner ==
  status = "ok" =>
    /\ \A o \in Holders : heap[BlockOf(o)] # Free
    /\ \A o, p \in Holders : BlockOf(o) = BlockOf(p) => o = p

(* A value that points to the vector or matrix of a variable points to what that
   variable has now, for as long as it waits on the evaluation stack: it is
   neither freed nor replaced while an operation is going to read it
   (traverse_id, traverse_op). *)
AliasesValid ==
  status = "ok" =>
    \A i \in DOMAIN stack :
      stack[i].tag = "symbol" /\ stack[i].type \in Arrays =>
        /\ heap[stack[i].block] # Free
        /\ \E x \in Vars : var[x] = [type |-> stack[i].type, block |-> stack[i].block]

Contents(b) == IF b = NULL THEN NULL ELSE heap[b]
ValueOf(x) == <<var[x].type, Contents(var[x].block)>>

(* An assignment gives the variable the type and the contents that the value
   had before (traverse_assign, symbol_set_val). *)
AssignStores ==
  [][\A x \in Vars : Assign(x) =>
       /\ status' = "ok"
       /\ ValueOf(x)' = <<Last(stack).type, Contents(Last(stack).block)>>]_vars

(* A variable of the program keeps its value unless it, or an element of it, is
   assigned to, or it is destroyed with its function - or a matrix is divided by
   it (traverse_op, eval_mult_op). *)
OnlyAssignedChange ==
  [][\A x \in Ids : ValueOf(x)' # ValueOf(x) =>
       \/ Assign(x) \/ \E n \in 1..2 : SetElem(x, n)
       \/ \E S \in SUBSET Locals : x \in S /\ DestroyTable(S)
       \/ /\ Apply("div") /\ var'[x] = var[x] /\ heap'[var[x].block] = Factors
          /\ Last(stack).tag = "symbol" /\ Last(stack).block = var[x].block]_vars
=============================================================================
