------------------------------- MODULE Reader -------------------------------
(* The main loop of main.c over the parser and the lexer: a line is parsed,
   executed unless the parser reported an error, and so on up to the end of the
   file.  Executing a line changes nothing the parser asks for; what it does is
   the subject of Traverse. *)
EXTENDS Parser, Tokens

CONSTANTS
  Texts,      \* bound: the files that are read
  Globals,    \* global variables at the start: ans
  Library     \* library functions: from the name to the number of arguments

ReaderAssumption ==
  /\ \A t \in Texts : t \in Seq(STRING)
  /\ \A f \in DOMAIN Library : Library[f] \in Nat
ASSUME ReaderAssumption

VARIABLES      \* besides the text, the file as it was at the start
  p,        \* what lexer and parser keep: see Parser
  tree,     \* the child of the root node programme returned
  pc        \* "parse", "execute", "done", or how the interpreter ended

vars == <<text, p, tree, pc>>

LibraryFunctions ==
  [f \in DOMAIN Library |-> [params |-> [i \in 1 .. Library[f] |-> f],
                             body |-> Null, text |-> <<>>]]

Init ==
  /\ text \in Texts
  /\ p = ParserStart(text, Globals, LibraryFunctions)
  /\ tree = Null
  /\ pc = "parse"

(* main: programme builds the tree of the next line. *)
ReadLine ==
  /\ pc = "parse"
  /\ p' = Programme(p)
  /\ tree' = p'.val
  /\ pc' = IF p'.end = "ok" THEN "execute" ELSE p'.end
  /\ UNCHANGED text

(* get_result, and the test of the loop of main. *)
GetResult ==
  /\ pc = "execute"
  /\ tree' = Null
  /\ pc' = IF Is(p, "EOF") THEN "done" ELSE "parse"
  /\ UNCHANGED <<text, p>>

Next == ReadLine \/ GetResult

(* main calls programme again as long as it returns, and programme is only
   left when it is done. *)
Spec == Init /\ [][Next]_vars /\ WF_vars(Next)

TypeOK ==
  /\ text \in Texts
  /\ pc \in {"parse", "execute", "done", "hung", "exited", "undefined"}
  /\ p.errors \in BOOLEAN
  /\ p.rest \in Seq(STRING)
  /\ pc \in {"parse", "execute", "done"} => p.end = "ok" /\ p.scopes = <<>>
  /\ \A f \in DOMAIN p.funs : f \in Seq(STRING) /\ f # <<>>
  /\ \A x \in p.globals : x \in Seq(STRING) /\ x # <<>>

-----------------------------------------------------------------------------
(* References the parser is compared with.  They work on whole sequences of
   tokens and share nothing with the parser but the form of its trees. *)

RECURSIVE LineOf(_), Reference(_), Statement(_), GoodText(_),
          Yield(_), JumpsBelowLoops(_, _)

(* The tokens of a line, and the text after it. *)
LineOf(s) ==
  LET t == NextToken(s)
      more == LineOf(t.rest)
  IN IF t.kind \in {"EOL", "EOF", "ENDLESS"}
     THEN [tokens |-> <<>>, rest |-> t.rest, end |-> t.kind]
     ELSE [more EXCEPT !.tokens = <<t>> \o @]

Count(t, i, j, kind) == Cardinality({k \in i .. j : t[k].kind = kind})
Depth(t, i) == Count(t, 1, i, "(") - Count(t, 1, i, ")")

Enclosed(t) ==
  /\ t[1].kind = "(" /\ t[Len(t)].kind = ")"
  /\ \A i \in DOMAIN t : Depth(t, i) = 0 <=> i = Len(t)

(* Weakest first. *)
Priorities == << {"||"}, {"&&"}, {"==", "!=", "<", "<=", ">", ">="},
                 {"+", "-"}, {"*", "/"}, {"^"} >>

(* The tree of a sequence of names, numbers, operators and parentheses, NULL if
   it is no expression: the operator that is evaluated last is the weakest one
   outside parentheses; among several of its level the last one.  Relations may
   not follow each other. *)
Reference(t) ==
  LET ops(n) == {i \in DOMAIN t : t[i].kind \in Priorities[n] /\ Depth(t, i) = 0}
      levels == {n \in DOMAIN Priorities : ops(n) # {}}
      n == Min(levels)
      i == Max(ops(n))
      l == Reference(SubSeq(t, 1, i - 1))
      r == Reference(Drop(t, i))
  IN CASE t = <<>> -> Null
       [] Len(t) = 1 ->
            CASE t[1].kind = "ID"  -> <<Node("id", t[1].text, <<>>)>>
              [] t[1].kind = "NUM" -> <<Node("digit", t[1].text, <<>>)>>
              [] OTHER             -> Null
       [] Len(t) > 1 /\ levels = {} ->
            IF Enclosed(t) THEN Reference(SubSeq(t, 2, Len(t) - 1)) ELSE Null
       [] OTHER ->
            IF l = Null \/ r = Null \/ (n = 3 /\ Cardinality(ops(3)) > 1) THEN Null
            ELSE <<Node(t[i].kind, <<>>, <<l, r>>)>>

(* Where the parentheses that open at i close. *)
Closing(t, i) ==
  Min({k \in i .. Len(t) : Count(t, i, k, "(") = Count(t, i, k, ")")}
        \cup {Len(t) + 1})

(* The tree of an expression, an assignment to a variable, and of these behind
   conditions of if and while. *)
Statement(t) ==
  LET m == Closing(t, 2)
      c == Reference(SubSeq(t, 3, m - 1))
      s == Statement(Drop(t, m))
      e == Reference(Drop(t, 2))
  IN CASE Len(t) > 2 /\ t[1].kind \in {"if", "while"} /\ t[2].kind = "(" ->
            IF c = Null \/ s = Null THEN Null
            ELSE <<Node(t[1].kind, <<>>,
                        IF t[1].kind = "if" THEN <<c, s, Null>> ELSE <<c, s>>)>>
       [] Len(t) > 2 /\ t[1].kind = "ID" /\ t[2].kind = "=" ->
            IF e = Null THEN Null
            ELSE <<Node("=", <<>>, <<Reference(SubSeq(t, 1, 1)), e>>)>>
       [] OTHER -> Reference(t)

(* Lines for which the document wants another tree than the one above: of several
   powers it evaluates the last one first, and an assignment before relations, &&
   and ||. *)
PowerChain(t) ==
  \E i \in DOMAIN t : \E j \in i + 1 .. Len(t) :
    /\ t[i].kind = "^" /\ t[j].kind = "^" /\ Depth(t, j) = Depth(t, i)
    /\ \A k \in i .. j : \/ Depth(t, k) > Depth(t, i)
                         \/ Depth(t, k) = Depth(t, i)
                            /\ \A n \in 1 .. 5 : t[k].kind \notin Priorities[n]

AssignedRelation(t) ==
  \E i \in DOMAIN t : \E k \in i + 1 .. Len(t) :
    /\ t[i].kind = "=" /\ Depth(t, k) = Depth(t, i)
    /\ \E n \in 1 .. 3 : t[k].kind \in Priorities[n]

Disputed(t) == PowerChain(t) \/ AssignedRelation(t)

GoodText(s) ==
  LET l == LineOf(s)
  IN /\ l.end # "ENDLESS"
     /\ l.tokens = <<>> \/ Statement(l.tokens) # Null
     /\ l.end = "EOF" \/ GoodText(l.rest)

(* The names, constants, operators and words of a tree in the order of the
   text, and those of a sequence of tokens. *)
Skeleton(tokens) ==
  LET kept == SelectSeq(tokens, LAMBDA t : t.kind \notin
                {"(", ")", "[", "]", "{", ",", ";", "else", "EOL", "EOF"})
  IN [i \in DOMAIN kept |-> IF kept[i].kind \in {"ID", "NUM", "STR"}
                            THEN kept[i].text ELSE <<kept[i].kind>>]

Yield(list) ==
  LET n == Head(list)
      kids == FlattenSeq([i \in DOMAIN n.kids |-> Yield(n.kids[i])])
      own == CASE n.kind \in {"id", "digit", "string"} -> <<n.text>>
               [] n.kind \in {"call", "access"}   -> <<n.text>> \o kids
               [] n.kind \in {"vector", "matrix"} -> kids
               [] n.kind = "stub"                 -> Skeleton(n.text)
               [] n.kind \in {"if", "while", "for", "return", "break",
                              "continue", "}"}    -> <<<<n.kind>>>> \o kids
               [] OTHER -> Yield(n.kids[1]) \o <<<<n.kind>>>> \o Yield(n.kids[2])
  IN IF list = Null THEN <<>> ELSE own \o Yield(Tail(list))

(* A block that is not the body of an if, a loop or a function. *)
PlainBlock(t) ==
  \E i \in DOMAIN t :
    LET open == {k \in 1 .. i - 2 : t[k].kind = "(" /\ Closing(t, k) = i - 1}
        heads == {k \in open : k > 1 /\ \/ t[k - 1].kind \in {"if", "while", "for"}
                                        \/ k > 2 /\ t[k - 2].kind = "function"}
    IN t[i].kind = "{" /\ heads = {} /\ (i = 1 \/ t[i - 1].kind # "else")

JumpsBelowLoops(list, inLoop) ==
  \A i \in DOMAIN list :
    LET n == list[i]
    IN /\ n.kind \in {"break", "continue"} => inLoop
       /\ \A k \in DOMAIN n.kids :
            JumpsBelowLoops(n.kids[k], inLoop \/ n.kind \in {"while", "for"})

-----------------------------------------------------------------------------
(* Properties. *)
Accepted == pc = "execute" /\ ~p.errors

(* A line that is an expression, an assignment or one of these behind if and
   while is accepted, wherever it stands in the file, and read up to its end.  Its
   tree is the one that the priorities of the operators and their associativity to
   the left determine (the level functions of syntax.c), where the document does not
   contradict that: see Disputed. *)
GoodLinesParsed ==
  [][pc = "parse" =>
       LET l == LineOf(p.rest)
       IN Statement(l.tokens) # Null /\ l.end # "ENDLESS" =>
            /\ p'.end = "ok" /\ ~p'.errors
            /\ ~Disputed(l.tokens) => tree' = Statement(l.tokens)
            /\ p'.cur.kind = l.end /\ p'.rest = l.rest]_vars

(* What is executed is what was read: the tree of a line without errors, and the
   body of every function, hold every name, constant, operator and statement
   of the text in its order - unless a block is a statement of its own. *)
TreesHoldText ==
  /\ (Accepted /\ ~PlainBlock(p.log)) => Yield(tree) = Skeleton(p.log)
  /\ p.end = "ok" => \A f \in DOMAIN p.funs \ DOMAIN Library :
       ~PlainBlock(p.funs[f].text) =>
         Yield(p.funs[f].body) = Skeleton(p.funs[f].text)

(* break and continue are only executed inside a loop of the same function or
   line, however ifs, blocks and definitions are nested (break_expr and
   continue_expr see that from the copies of the context). *)
JumpsInLoops ==
  /\ Accepted => JumpsBelowLoops(tree, FALSE)
  /\ \A f \in DOMAIN p.funs : JumpsBelowLoops(p.funs[f].body, FALSE)

(* A file of good lines is read to its end, also when the last line has no end
   of line: the interpreter never stops in the middle of it or goes on reading
   behind it (sync_stream). *)
GoodTextsEnd == GoodText(text) => pc \in {"parse", "execute", "done"}

(* Every call of programme that returns has read on, so the loop of main gets
   to the end of the file: no error exit leaves the parser where it was. *)
LinesAdvance ==
  [][pc = "parse" => Len(p'.rest) < Len(p.rest) \/ Is(p', "EOF")]_vars
=============================================================================
