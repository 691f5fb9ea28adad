------------------------------- MODULE Traverse -------------------------------
(* traverse.c: the traversal of the syntax tree of one line after another, the
   evaluation stack of list.c, the counters by which break, continue and return
   reach the loop or the function they end, and the error counter.

   The tree is a constant.  The recursion of traversal() is a stack of frames,
   one per handler in progress; a step goes from one call of traversal() to the
   next.  A value is reduced to what is_true tells apart; which value an
   expression has is left open. *)
EXTENDS Naturals, Sequences

CONSTANTS
  NULL,      \* the null pointer
  Node,      \* nodes of the syntax trees
  Kind,      \* Kind[n]: the type of node n
  Kids,      \* Kids[n]: its expressions, in the order they are evaluated
  Body,      \* Body[n]: the statements up to END_SCOPE of a block or a function
  Else,      \* Else[n]: the same for the else branch
  Lines,     \* the nodes that are read at the prompt
  Faults,    \* what may go wrong in an expression: see FaultKinds
  MaxList,   \* bound: length of the evaluation stack
  MaxFlag    \* bound: value of a counter of struct loop_ctx

(* error:  a variable or an element is not there, or a library function has no
           result, which the traversal reports (err_msg);
   type:   a value is not a number;
   silent: an operation of eval.c has no result and only prints a message. *)
FaultKinds == {"error", "type", "silent"}

Leaves == {"stub", "const", "id", "break", "continue"}
(* array is a literal of a vector or a matrix, access the value of an element,
   setelem an assignment to one, whose first expression is the new value; lib is
   a call of a library function. *)
Computing == {"op", "lib", "array", "access"}
Kinds == Leaves \cup Computing
         \cup {"assign", "setelem", "if", "while", "for", "return", "call"}

(* The structures of as_tree.h that hold a fixed number of expressions, each of
   which may be a null pointer. *)
Fixed == [k \in {"op", "assign", "if", "while", "for", "return"} |->
            CASE k = "op" -> 2 [] k = "for" -> 3 [] OTHER -> 1]

ASSUME TraverseAssumption ==
  /\ NULL \notin Node
  /\ Kind \in [Node -> Kinds]
  /\ Kids \in [Node -> Seq(Node \cup {NULL})]
  /\ \A n \in Node : Kind[n] \in DOMAIN Fixed => Len(Kids[n]) = Fixed[Kind[n]]
  /\ Body \in [Node -> Seq(Node)]
  /\ Else \in [Node -> Seq(Node)]
  /\ Lines \subseteq Node
  /\ Faults \subseteq FaultKinds
  /\ MaxList \in Nat
  /\ MaxFlag \in Nat \ {0}

VARIABLES
  frames,    \* the handlers in progress, outermost first
  list,      \* the evaluation stack, its top last
  helper,    \* struct loop_ctx
  errors,    \* the error counter of traverse.c is not zero
  crashed    \* a null pointer was followed

vars == <<frames, list, helper, errors, crashed>>

(* Numbers, and values of other types where their use is one of the faults. *)
Numbers == {"true", "false"}
Values == Numbers \cup (IF "type" \in Faults THEN {"other"} ELSE {})
Results == [k \in {"lib", "array", "access"} |->
              CASE k = "lib"    -> Values
                [] k = "array"  -> IF "type" \in Faults THEN {"other"} ELSE Values
                [] k = "access" -> Numbers]
Flags == {"is_break", "is_continue", "is_return"}

Phases == {"line", "print", "cond", "branch", "then", "else", "init", "test",
           "check", "body", "flags", "step", "left", "right", "apply", "store",
           "raise", "value", "leave", "args", "bind", "elems", "elem", "finish"}

(* phase: what the handler does next; i: the statement or argument it is at;
   base: the length of list when the expression was begun whose value the
   handler is going to pop; cause: the jump that was executed to end this loop
   or function.  The last two are kept for the properties. *)
Frame == [node: Node, phase: Phases, i: Nat, base: 0..MaxList,
          cause: {"none", "break", "return"}]

TypeOK ==
  /\ frames \in Seq(Frame)
  /\ list \in Seq(Values) /\ Len(list) <= MaxList
  /\ helper \in [Flags -> 0..MaxFlag]
  /\ errors \in BOOLEAN
  /\ crashed \in BOOLEAN

Init ==
  /\ frames = <<>>
  /\ list = <<>>
  /\ helper = [f \in Flags |-> 0]
  /\ errors = FALSE
  /\ crashed = FALSE

-----------------------------------------------------------------------------
Last(s) == s[Len(s)]
Front(s) == SubSeq(s, 1, Len(s) - 1)

Fr == Last(frames)
Busy == ~crashed /\ frames # <<>>
In(kind, phase) == Busy /\ Kind[Fr.node] \in kind /\ Fr.phase = phase

To(phase) == [Fr EXCEPT !.phase = phase]
Begin(phase) == [Fr EXCEPT !.phase = phase, !.base = Len(list)]

Continue(fr) == frames' = [frames EXCEPT ![Len(frames)] = fr]
Done == frames' = Front(frames)

Crash == crashed' = TRUE /\ UNCHANGED <<frames, list, helper, errors>>

Loops == {"while", "for"}

(* The frames a jump is meant to end: the innermost loop for break; for return
   the innermost function and the loops in it.  The node of the line itself is
   none of them. *)
Inside(fs, kinds) ==
  {i \in DOMAIN fs : /\ Kind[fs[i].node] \in kinds
                     /\ fs[i].phase \notin {"line", "print"}}

Innermost(fs, kinds) ==
  {i \in Inside(fs, kinds) : \A j \in Inside(fs, kinds) : j <= i}

Ended(fs, cause) ==
  IF cause = "break" THEN Innermost(fs, Loops \cup {"call"})
  ELSE {i \in DOMAIN fs : \E j \in Innermost(fs, {"call"}) :
          i = j \/ (i > j /\ i \in Inside(fs, Loops))}

Mark(fs, cause) ==
  [i \in DOMAIN fs |-> IF i \in Ended(fs, cause)
                       THEN [fs[i] EXCEPT !.cause = cause] ELSE fs[i]]

(* A break that does not leave a trace. *)
RaiseLost(f) == helper' = helper

Raise(f) == helper[f] < MaxFlag /\ helper' = [helper EXCEPT ![f] = @ + 1]

Push(v) == Len(list) < MaxList /\ list' = Append(list, v)

(* traverse_empty, traverse_const, traverse_id, traverse_break and
   traverse_continue; fr is how the caller of traversal() goes on. *)
Leaf(n, fr) ==
  \/ /\ Kind[n] = "stub"
     /\ Continue(fr)
     /\ UNCHANGED <<list, helper, errors>>
  \/ /\ Kind[n] \in {"const", "id"}
     /\ \E v \in Values : Push(v)
     /\ Continue(fr)
     /\ UNCHANGED <<helper, errors>>
  \/ /\ Kind[n] = "id" /\ "error" \in Faults
     /\ errors' = TRUE
     /\ Continue(fr)
     /\ UNCHANGED <<list, helper>>
  \/ /\ Kind[n] = "break"
     /\ Raise("is_break")
     /\ frames' = Mark([frames EXCEPT ![Len(frames)] = fr], "break")
     /\ UNCHANGED <<list, errors>>
  \/ /\ Kind[n] = "continue"
     /\ Raise("is_continue")
     /\ Continue(fr)
     /\ UNCHANGED <<list, errors>>

First == [k \in Kinds \ Leaves |->
  CASE k = "op"             -> "left"
    [] k = "assign"         -> "right"
    [] k = "if"             -> "cond"
    [] k = "while"          -> "test"
    [] k = "for"            -> "init"
    [] k = "return"         -> "raise"
    [] k \in {"call", "lib"} -> "args"
    [] k \in {"array", "access", "setelem"} -> "elems"]

NewFrame(n) == [node |-> n, phase |-> First[Kind[n]], i |-> 1,
                base |-> Len(list), cause |-> "none"]

(* A traversal that does not look at the error counter. *)
VisitAnyway(n, fr) ==
  /\ n # NULL
  /\ IF Kind[n] \in Leaves THEN Leaf(n, fr) /\ UNCHANGED crashed
     ELSE /\ frames' = Append([frames EXCEPT ![Len(frames)] = fr], NewFrame(n))
          /\ UNCHANGED <<list, helper, errors, crashed>>

(* traversal(n), after which the handler goes on as fr: nothing happens once an
   error has been reported. *)
Visit(n, fr) ==
  IF errors THEN Continue(fr) /\ UNCHANGED <<list, helper, errors, crashed>>
  ELSE IF n = NULL THEN Crash
  ELSE IF Kind[n] \in Leaves THEN Leaf(n, fr) /\ UNCHANGED crashed
  ELSE /\ frames' = Append([frames EXCEPT ![Len(frames)] = fr], NewFrame(n))
       /\ UNCHANGED <<list, helper, errors, crashed>>

-----------------------------------------------------------------------------
(* The line: get_result of main.c calls traversal, whose first node is the root
   that leads to the line (traverse_root), and traversal_print_result, which
   drops everything after an error and else shows one value. *)
StartLine(n) ==
  /\ ~crashed /\ frames = <<>>
  /\ frames' = <<[node |-> n, phase |-> "line", i |-> 1, base |-> 0,
                  cause |-> "none"]>>
  /\ UNCHANGED <<list, helper, errors, crashed>>

RunLine == Busy /\ Fr.phase = "line" /\ Visit(Fr.node, To("print"))

PrintResult ==
  /\ Busy /\ Fr.phase = "print"
  /\ errors' = FALSE
  /\ list' = IF errors \/ list = <<>> THEN <<>> ELSE Front(list)
  /\ Done
  /\ UNCHANGED <<helper, crashed>>

(* traverse_op that takes both operands from one value. *)
ApplyOnce ==
  /\ In({"op"}, "apply")
  /\ IF list = <<>> THEN list' = list
     ELSE \E v \in Values : list' = Append(Front(list), v)
  /\ Done
  /\ UNCHANGED <<helper, errors, crashed>>

(* traverse_op: both operands are popped, whoever pushed them; without two
   operands, or when the operation fails, nothing is pushed. *)
Apply ==
  /\ In({"op"}, "apply")
  /\ \/ /\ Len(list) >= 2
        /\ \E v \in Values : list' = Append(Front(Front(list)), v)
     \/ /\ Len(list) >= 2 /\ "silent" \in Faults
        /\ list' = Front(Front(list))
     \/ /\ Len(list) < 2
        /\ list' = <<>>
  /\ Done
  /\ UNCHANGED <<helper, errors, crashed>>

Op ==
  \/ In({"op"}, "left") /\ Visit(Kids[Fr.node][1], To("right"))
  \/ In({"op"}, "right") /\ Visit(Kids[Fr.node][2], To("apply"))
  \/ Apply

(* traverse_assign to a variable; without a value nothing is stored. *)
Store ==
  /\ In({"assign"}, "store")
  /\ list' = IF list = <<>> THEN list ELSE Front(list)
  /\ Done
  /\ UNCHANGED <<helper, errors, crashed>>

Assign ==
  \/ In({"assign"}, "right") /\ Visit(Kids[Fr.node][1], To("store"))
  \/ Store

(* traverse_if *)
Branch ==
  /\ In({"if"}, "branch")
  /\ IF list = <<>> THEN Crash
     ELSE /\ list' = Front(list)
          /\ IF Last(list) = "other" THEN errors' = TRUE /\ Done
             ELSE /\ Continue(To(IF Last(list) = "true" THEN "then" ELSE "else"))
                  /\ errors' = errors
          /\ UNCHANGED <<helper, crashed>>

(* The loop over the block leaves out a statement, and its successors, once an
   error has been reported. *)
BlockStuck(phase, stmts) ==
  /\ In({"if"}, phase)
  /\ IF Fr.i > Len(stmts)
     THEN Done /\ UNCHANGED <<list, helper, errors, crashed>>
     ELSE ~errors /\ Visit(stmts[Fr.i], [Fr EXCEPT !.i = @ + 1])

Block(phase, stmts) ==
  /\ In({"if"}, phase)
  /\ IF Fr.i > Len(stmts)
     THEN Done /\ UNCHANGED <<list, helper, errors, crashed>>
     ELSE Visit(stmts[Fr.i], [Fr EXCEPT !.i = @ + 1])

If ==
  \/ In({"if"}, "cond") /\ Visit(Kids[Fr.node][1], To("branch"))
  \/ Branch
  \/ Block("then", Body[Fr.node])
  \/ Block("else", Else[Fr.node])

-----------------------------------------------------------------------------
(* traverse_body after traversal(): the result, and the counters it leaves. *)
Consumed ==
  IF errors THEN "RES_ERROR"
  ELSE IF helper["is_continue"] > 0 THEN "RES_CONTINUE"
  ELSE IF helper["is_break"] > 0 THEN "RES_BREAK"
  ELSE IF helper["is_return"] > 0 THEN "RES_RETURN"
  ELSE "RES_OK"

FlagOf(r) == CASE r = "RES_CONTINUE" -> "is_continue"
               [] r = "RES_BREAK"    -> "is_break"
               [] r = "RES_RETURN"   -> "is_return"

(* The result is computed but the counter is not taken back. *)
KeepFlag(r) == helper' = helper

(* Every jump is taken back from the counter of continue. *)
TakeWrongFlag(r) ==
  helper' = IF r \in {"RES_OK", "RES_ERROR"} THEN helper
            ELSE [helper EXCEPT !["is_continue"] = @ - 1]

TakeFlag(r) ==
  helper' = IF r \in {"RES_OK", "RES_ERROR"} THEN helper
            ELSE [helper EXCEPT ![FlagOf(r)] = @ - 1]

(* The condition of a loop, evaluated before every single statement. *)
Test == In(Loops, "test") /\
        Visit(Kids[Fr.node][IF Kind[Fr.node] = "for" THEN 2 ELSE 1], Begin("check"))

Check ==
  /\ In(Loops, "check")
  /\ IF list = <<>> THEN Crash
     ELSE /\ list' = Front(list)
          /\ errors' = (errors \/ Last(list) = "other")
          /\ IF Last(list) = "true" THEN Continue(To("body")) ELSE Done
          /\ UNCHANGED <<helper, crashed>>

(* The next statement of the body, or the end of the iteration. *)
LoopBody ==
  /\ In(Loops, "body")
  /\ IF Fr.i > Len(Body[Fr.node])
     THEN /\ Continue([Fr EXCEPT !.i = 1,
                       !.phase = IF Kind[Fr.node] = "for" THEN "step" ELSE "test"])
          /\ UNCHANGED <<list, helper, errors, crashed>>
     ELSE Visit(Body[Fr.node][Fr.i], [Fr EXCEPT !.phase = "flags", !.i = @ + 1])

LoopFlags ==
  /\ In(Loops, "flags")
  /\ TakeFlag(Consumed)
  /\ IF Consumed \in {"RES_ERROR", "RES_BREAK", "RES_RETURN"} THEN Done
     ELSE Continue(To("test"))
  /\ UNCHANGED <<list, errors, crashed>>

(* traverse_while and traverse_for *)
Loop ==
  \/ In({"for"}, "init") /\ Visit(Kids[Fr.node][1], To("test"))
  \/ Test
  \/ Check
  \/ LoopBody
  \/ LoopFlags
  \/ In({"for"}, "step") /\ Visit(Kids[Fr.node][3], To("test"))

-----------------------------------------------------------------------------
(* traverse_return: the counter is raised before the value is evaluated. *)
RaiseReturn ==
  /\ In({"return"}, "raise")
  /\ Raise("is_return")
  /\ Continue(To("value"))
  /\ UNCHANGED <<list, errors, crashed>>

LeaveReturn ==
  /\ In({"return"}, "leave")
  /\ frames' = Mark(Front(frames), "return")
  /\ UNCHANGED <<list, helper, errors, crashed>>

(* The function is left without its value. *)
ReturnNodeNoValue ==
  \/ RaiseReturn
  \/ /\ In({"return"}, "value")
     /\ Continue(To("leave"))
     /\ UNCHANGED <<list, helper, errors, crashed>>
  \/ LeaveReturn

ReturnNode ==
  \/ RaiseReturn
  \/ In({"return"}, "value") /\ Visit(Kids[Fr.node][1], To("leave"))
  \/ LeaveReturn

(* perform_init_args, and perform_custom_function: a call of it without arguments
   has no array of arguments, and its body is not executed. *)
Arguments ==
  /\ In({"call", "lib"}, "args")
  /\ IF Kind[Fr.node] = "call" /\ Kids[Fr.node] = <<>>
     THEN Done /\ UNCHANGED <<list, helper, errors, crashed>>
     ELSE IF Fr.i > Len(Kids[Fr.node])
     THEN /\ Continue([Fr EXCEPT !.i = 1,
                       !.phase = IF Kind[Fr.node] = "lib" THEN "finish" ELSE "body"])
          /\ UNCHANGED <<list, helper, errors, crashed>>
     ELSE Visit(Kids[Fr.node][Fr.i], Begin("bind"))

Bind ==
  /\ In({"call", "lib"}, "bind")
  /\ list' = IF list = <<>> THEN list ELSE Front(list)
  /\ Continue([Fr EXCEPT !.phase = "args", !.i = @ + 1])
  /\ UNCHANGED <<helper, errors, crashed>>

CallBody ==
  /\ In({"call"}, "body")
  /\ IF Fr.i > Len(Body[Fr.node])
     THEN Done /\ UNCHANGED <<list, helper, errors, crashed>>
     ELSE Visit(Body[Fr.node][Fr.i], [Fr EXCEPT !.phase = "flags", !.i = @ + 1])

CallFlags ==
  /\ In({"call"}, "flags")
  /\ TakeFlag(Consumed)
  /\ IF Consumed \in {"RES_ERROR", "RES_RETURN"} THEN Done ELSE Continue(To("body"))
  /\ UNCHANGED <<list, errors, crashed>>

Call == Arguments \/ Bind \/ CallBody \/ CallFlags

-----------------------------------------------------------------------------
(* traverse_vector, traverse_matrix, traverse_access and set_access_value: the
   elements, or the indices (init_dims), one after the other. *)
Elements ==
  /\ In({"array", "access", "setelem"}, "elems")
  /\ IF Fr.i > Len(Kids[Fr.node])
     THEN Continue(To("finish")) /\ UNCHANGED <<list, helper, errors, crashed>>
     ELSE Visit(Kids[Fr.node][Fr.i], Begin("elem"))

(* Only traverse_access goes on after an index that is no number. *)
Element ==
  /\ In({"array", "access", "setelem"}, "elem")
  /\ IF list = <<>> THEN Crash
     ELSE /\ list' = Front(list)
          /\ errors' = (errors \/ Last(list) = "other")
          /\ IF Last(list) # "other"
             THEN Continue([Fr EXCEPT !.phase = "elems", !.i = @ + 1])
             ELSE IF Kind[Fr.node] = "access" THEN Continue(To("finish")) ELSE Done
          /\ UNCHANGED <<helper, crashed>>

(* The end of these handlers and of perform_lib_function, which an error before
   does not keep from pushing a value. *)
Finish ==
  /\ In({"lib", "array", "access", "setelem"}, "finish")
  /\ \/ /\ Kind[Fr.node] \in DOMAIN Results
        /\ \E v \in Results[Kind[Fr.node]] : Push(v)
        /\ errors' = errors
     \/ /\ Kind[Fr.node] = "setelem"
        /\ UNCHANGED <<list, errors>>
     \/ /\ Kind[Fr.node] # "array" /\ (errors \/ "error" \in Faults)
        /\ errors' = TRUE /\ list' = list
  /\ Done
  /\ UNCHANGED <<helper, crashed>>

Indexed == Elements \/ Element \/ Finish

Handle ==
  \/ RunLine \/ PrintResult \/ Op \/ Assign \/ If \/ Loop \/ ReturnNode \/ Call
  \/ Indexed

Next == (\E n \in Lines : StartLine(n)) \/ Handle

(* A handler that has been entered goes on: nothing outside can stop it. *)
Spec == Init /\ [][Next]_vars /\ WF_vars(Handle)

-----------------------------------------------------------------------------
(* Programs whose values and jumps arrive where they are meant to.  In others the
   interpreter goes wrong: after a jump that is not the last statement of its
   block, a return in a loop, a call in the value of a return, a function that
   ends without return, or an expression as a statement of a body.  The fields of
   g are sets of nodes: expressions that leave one value, those of them without
   calls of functions of the program, statements that leave nothing, statements
   that may end a loop, or a function, and those that always end the function. *)
AllIn(s, S) == \A i \in DOMAIN s : s[i] \in S
EndsIn(s, S) == s # <<>> /\ Last(s) \in S

(* A block in which only the last statement may be a jump. *)
JumpLast(s, S, J) ==
  \A i \in DOMAIN s : s[i] \in S \/ (i = Len(s) /\ s[i] \in J)

IfOf(n, g, J) ==
  /\ Kind[n] = "if" /\ AllIn(Kids[n], g.values)
  /\ JumpLast(Body[n], g.plain, J) /\ JumpLast(Else[n], g.plain, J)

IsValue(n, g) ==
  \/ Kind[n] \in {"const", "id"}
  \/ Kind[n] \in Computing /\ AllIn(Kids[n], g.values)
  \/ /\ Kind[n] = "call" /\ Kids[n] # <<>> /\ AllIn(Kids[n], g.values)
     /\ AllIn(Body[n], g.plain \cup g.inFunction) /\ EndsIn(Body[n], g.returning)

IsSimple(n, g) ==
  Kind[n] \in {"const", "id"} \/ (Kind[n] \in Computing /\ AllIn(Kids[n], g.simple))

IsPlain(n, g) ==
  \/ Kind[n] = "stub"
  \/ Kind[n] \in {"assign", "setelem"} /\ AllIn(Kids[n], g.values)
  \/ Kind[n] = "call" /\ Kids[n] = <<>>
  \/ IfOf(n, g, {})
  \/ /\ Kind[n] = "while" /\ AllIn(Kids[n], g.values)
     /\ AllIn(Body[n], g.plain \cup g.inLoop)
  \/ /\ Kind[n] = "for" /\ Kids[n][2] \in g.values /\ {Kids[n][1], Kids[n][3]} \subseteq g.plain
     /\ AllIn(Body[n], g.plain \cup g.inLoop)

IsInLoop(n, g) == Kind[n] \in {"break", "continue"} \/ IfOf(n, g, g.inLoop)

IsInFunction(n, g) ==
  (Kind[n] = "return" /\ AllIn(Kids[n], g.simple)) \/ IfOf(n, g, g.inFunction)

IsReturning(n, g) ==
  /\ n \in g.inFunction
  /\ Kind[n] = "if" => EndsIn(Body[n], g.returning) /\ EndsIn(Else[n], g.returning)

Grammar(g) ==
  /\ g.values \cup g.plain \cup g.inLoop \cup g.inFunction \subseteq Node
  /\ g.simple \subseteq g.values
  /\ \A n \in g.values : IsValue(n, g)
  /\ \A n \in g.simple : IsSimple(n, g)
  /\ \A n \in g.plain : IsPlain(n, g)
  /\ \A n \in g.inLoop : IsInLoop(n, g)
  /\ \A n \in g.inFunction : IsInFunction(n, g)
  /\ \A n \in g.returning : IsReturning(n, g)
  /\ Lines \subseteq g.values \cup g.plain

-----------------------------------------------------------------------------
(* Properties. *)

(* The handlers that are about to pop, with the number of values their own
   expressions have to have left. *)
Pops == [p \in {"branch", "check", "store", "apply", "bind", "elem"} |->
           IF p = "apply" THEN 2 ELSE 1]

(* A handler pops the values its own expressions have pushed, never one that an
   earlier statement, an argument or the body of a called function left on the
   evaluation stack (the pop() of every handler). *)
PopsOwn ==
  frames # <<>> /\ ~errors /\ Fr.phase \in DOMAIN Pops =>
    Len(list) = Fr.base + Pops[Fr.phase]

(* No handler follows a null pointer: pop() finds a value for every condition
   (traverse_if, traverse_while, traverse_for), every element of a literal
   (traverse_vector, traverse_matrix), every index (init_dims) and every value
   that is assigned to an element (set_access_value), and no node is missing
   that is traversed.  The handlers of operations, assignments to variables and
   arguments bear a missing value; PopsOwn says that they have it. *)
NoCrash == ~crashed

(* break ends the innermost loop and return the innermost function: until that
   handler has returned, no statement is begun, no value is pushed or popped
   and no counter is raised (traverse_body, traverse_if). *)
JumpsObeyed ==
  [][(\E i \in DOMAIN frames : frames[i].cause # "none") =>
       /\ Len(frames') <= Len(frames)
       /\ list' = list
       /\ \A f \in Flags : helper'[f] <= helper[f]]_vars

(* Every jump is consumed by the loop or the function it was meant for, and so
   before the line ends: no counter is left for the statements of later lines
   (traverse_body). *)
FlagsClearAtPrompt == frames = <<>> => \A f \in Flags : helper[f] = 0

(* After an error nothing more is begun in the line and no counter changes; the
   handlers in progress only end, and none pushes more than one value, as its
   last act (traversal, traverse_body, perform_lib_function, traverse_access). *)
ErrorStopsLine ==
  [][errors /\ frames # <<>> =>
       /\ helper' = helper
       /\ Len(frames') <= Len(frames)
       /\ Len(list') + Len(frames') <= Len(list) + Len(frames)]_vars

(* After an error every loop and every function in progress is left, whatever
   its condition was, and the prompt comes back - or the interpreter dies. *)
ErrorEnds == errors ~> (frames = <<>> \/ crashed)

(* return leaves the function: no other statement of it is begun. *)
ReturnLeavesFunction ==
  [][\A i \in DOMAIN frames :
       frames[i].cause = "return" /\ Kind[frames[i].node] = "call" =>
         Len(frames') <= Len(frames) /\ list' = list]_vars
=============================================================================
