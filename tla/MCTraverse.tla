----------------------------- MODULE MCTraverse -----------------------------
(* Instances of Traverse for TLC.  A node is a record of what it consists of,
   so that sets of programs can be written down as grammars. *)
EXTENDS Traverse

N(kind, kids, body, else) ==
  [kind |-> kind, kids |-> kids, body |-> body, else |-> else]

X    == N("id", <<>>, <<>>, <<>>)
One  == N("const", <<>>, <<>>, <<>>)
Stub == N("stub", <<>>, <<>>, <<>>)
Brk  == N("break", <<>>, <<>>, <<>>)
Cont == N("continue", <<>>, <<>>, <<>>)
Ret  == N("return", <<X>>, <<>>, <<>>)
Sum  == N("op", <<X, One>>, <<>>, <<>>)
Set  == N("assign", <<One>>, <<>>, <<>>)

IfX(then, else)  == N("if", <<X>>, then, else)
While(cond, body) == N("while", <<cond>>, body, <<>>)
For(body)        == N("for", <<Set, X, Set>>, body, <<>>)
Fun(args, body)  == N("call", args, body, <<>>)
Plus(left, right) == N("op", <<left, right>>, <<>>, <<>>)
Assigned(right)  == N("assign", <<right>>, <<>>, <<>>)
Lib(args)        == N("lib", args, <<>>, <<>>)
Array(elems)     == N("array", elems, <<>>, <<>>)
Access(dims)     == N("access", dims, <<>>, <<>>)
SetElem(right, dims) == N("setelem", <<right>> \o dims, <<>>, <<>>)

(* Blocks in which a jump, if there is one, comes last. *)
Blocks(stmts, jumps) ==
  {<<>>} \cup {<<s>> : s \in stmts \cup jumps}
         \cup {<<s, t>> : s \in stmts, t \in stmts \cup jumps}

IfsInLoop == {IfX(a, b) : a \in Blocks({Set}, {Brk, Cont}), b \in {<<>>, <<Brk>>}}

Bodies == Blocks({Set} \cup IfsInLoop, {Brk, Cont})

Loops1 == {While(X, b) : b \in Bodies} \cup {For(b) : b \in Bodies}

(* Loops in loops, and loops in a function that is called in an operand; the
   function may return before or after its loop. *)
Nested == {While(X, <<l, IfX(<<Brk>>, <<>>)>>) : l \in Loops1}

InFunction == {Assigned(Plus(One, Fun(<<Sum>>, <<Stub, IfX(<<Ret>>, <<Set>>), l, Ret>>))) :
                 l \in Loops1}

F == Fun(<<Sum>>, <<Stub, IfX(<<Ret>>, <<>>), While(X, <<Set, IfX(<<Brk>>, <<>>)>>), Ret>>)

(* g(f(x + 1)) whose body calls f again, a function in a condition, and a call
   without arguments. *)
Calling == {Fun(<<F>>, <<Assigned(Plus(One, F)), Ret>>), While(F, <<Set>>),
            Fun(<<>>, <<Set, Ret>>)}

(* Elements, indices and arguments of library functions that call functions, in a
   condition, in the value of a return and as operands. *)
Element1 == Fun(<<Access(<<X, One>>)>>, <<Stub, N("return", <<Lib(<<Access(<<X>>)>>)>>, <<>>, <<>>)>>)

Computed == {Assigned(Plus(Array(<<One, F, X>>), Lib(<<F, One>>))),
             SetElem(F, <<X, Element1>>),
             While(Access(<<Element1>>), <<SetElem(Lib(<<>>), <<X>>), IfX(<<Brk>>, <<>>)>>)}

PlainLines == {Sum} \cup Loops1 \cup Nested \cup InFunction \cup Calling \cup Computed

(* for (; x; ), and a return inside the loop of a function. *)
ForX  == N("for", <<NULL, X, NULL>>, <<Set>>, <<>>)
LoopR == Fun(<<One>>, <<While(X, <<Ret>>), Set, Ret>>)

Small == {While(X, <<Set, IfX(<<Brk>>, <<>>)>>), For(<<IfX(<<Set>>, <<Brk>>), Stub>>)}

(* Errors in elements, indices and arguments, while an operand waits. *)
Failing == {Plus(One, Array(<<X>>)), Plus(Plus(One, One), Access(<<X, Sum>>)),
            Plus(One, Lib(<<X, F>>)), SetElem(Sum, <<X, X>>), Plus(One, Plus(One, Array(<<X, X>>))),
            Fun(<<One>>, <<While(Access(<<X>>), <<SetElem(X, <<One>>)>>), Ret>>)}

ErrorLines == {Sum, ForX, LoopR} \cup Small \cup Calling \cup Failing

ReturnLines == {LoopR}

-----------------------------------------------------------------------------
(* All nodes of these lines. *)
Parts(ns) ==
  ns \cup UNION {{k \in {n.kids[i] : i \in DOMAIN n.kids} : k # NULL}
                 \cup {n.body[i] : i \in DOMAIN n.body}
                 \cup {n.else[i] : i \in DOMAIN n.else} : n \in ns}

MCNode == Parts(Parts(Parts(Parts(Parts(Lines)))))
MCKind == [n \in MCNode |-> n.kind]
MCKids == [n \in MCNode |-> n.kids]
MCBody == [n \in MCNode |-> n.body]
MCElse == [n \in MCNode |-> n.else]

-----------------------------------------------------------------------------
(* The lines of TraversePlain.cfg are those of the grammar of Traverse. *)
Jumps(n) == {k \in {"break", "continue", "return"} :
               \E m \in Parts(Parts({n})) : m.kind = k}

OfKind(kinds) == {n \in MCNode : n.kind \in kinds}

MCGrammar ==
  [values     |-> OfKind({"const", "id"} \cup Computing) \cup {n \in OfKind({"call"}) : n.kids # <<>>},
   simple     |-> OfKind({"const", "id"})
                  \cup {n \in OfKind(Computing) :
                          \A m \in Parts(Parts(Parts({n}))) : m.kind # "call"},
   plain      |-> OfKind({"stub", "assign", "setelem", "while", "for"})
                  \cup {n \in OfKind({"if"}) : Jumps(n) = {}}
                  \cup {n \in OfKind({"call"}) : n.kids = <<>>},
   inLoop     |-> OfKind({"break", "continue"})
                  \cup {n \in OfKind({"if"}) : "return" \notin Jumps(n)},
   inFunction |-> OfKind({"return"})
                  \cup {n \in OfKind({"if"}) : Jumps(n) \subseteq {"return"}},
   returning  |-> OfKind({"return"})]

ASSUME PlainLinesFit == Lines = PlainLines => \E g \in {MCGrammar} : Grammar(g)
=============================================================================
