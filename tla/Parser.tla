------------------------------- MODULE Parser -------------------------------
(* The recursive descent parser of syntax.c and the nodes of as_tree.c.

   A function of the parser is an operator from the state p of the parser to
   its state afterwards; p.val is what the function returned.  A pointer to a
   node is a sequence: <<>> is NULL, and a node is followed by the nodes that
   can be reached from it through `next`, so a block of statements is the
   pointer to its first statement.  A node has a kind, a text and the pointers
   to its children.

   The context that the functions pass on as `opaque` is the set of those of
   its members is_func, is_cycle and is_cond that are not zero; NULL is {}. *)
EXTENDS Lexer, TLC

Null == <<>>

Node(kind, text, kids) == [kind |-> kind, text |-> text, kids |-> kids]

Stub == Node("stub", <<>>, <<>>)

(* The constructors.  Only an if and a for may lack children: these are NULL. *)
OpNode(op, left, right) == <<Node(op, <<>>, <<left, right>>)>>
AssignNode(left, right) == <<Node("=", <<>>, <<left, right>>)>>
CallNode(name, args)    == <<Node("call", name, args)>>
ReturnsNode(value)      == <<Node("return", <<>>, <<value>>)>>
IfNode(cond, then, else) == <<Node("if", <<>>, <<cond, then, else>>)>>
ForNode(first, cond, step, body) ==
  <<Node("for", <<>>, <<first, cond, step, body>>)>>
WhileNode(cond, body)   == <<Node("while", <<>>, <<cond, body>>)>>
JumpNode(kind)          == <<Node(kind, <<>>, <<>>)>>
VectorNode(elem)        == <<Node("vector", <<Len(elem)>>, elem)>>
MatrixNode(elem, size1, size2) == <<Node("matrix", <<size1, size2>>, elem)>>
ElementNode(name, dims) == <<Node("access", name, dims)>>
ConstNode(kind, value)  == <<Node(kind, value, <<>>)>>
IdNode(name)            == <<Node("id", name, <<>>)>>

NoToken == [kind |-> "none", text |-> <<>>]

(* Everything lex.c and syntax.c keep between two calls, and the names of the
   symbol tables and functions the parser asks for:
   rest     the text the lexer has not used,
   cur      current_token, with its text,
   errors   the error counter is not zero,
   end      "ok", or how the interpreter ended in the middle of a line: it
            hangs, exits, or does what the C standard leaves undefined,
   globals, scopes
            the names in the global symbol table, and in the tables of the
            definitions in progress, outermost first; lost: the function a
            definition is for has been destroyed meanwhile,
   funs     the function table: parameters, body, and the text of the body,
   log      the tokens read for the current line,
   val      the result. *)
ParserStart(text, globals, funs) ==
  [rest |-> text, cur |-> NoToken, errors |-> FALSE, end |-> "ok",
   globals |-> globals, scopes |-> <<>>, funs |-> funs,
   log |-> <<>>, val |-> Null]

-----------------------------------------------------------------------------
(* Tokens. *)
Is(p, kind) == p.cur.kind = kind

Returns(p, v) == [p EXCEPT !.val = v]

(* Nothing is parsed after the end; what the end was is kept. *)
Ends(p, how) ==
  [p EXCEPT !.end = IF @ = "ok" THEN how ELSE @,
            !.cur = [kind |-> "EOF", text |-> <<>>], !.rest = <<>>]

Reads(p, t) ==
  LET c == [kind |-> t.kind, text |-> t.text]
  IN IF t.kind = "ENDLESS" THEN Ends(p, "hung")
     ELSE [p EXCEPT !.cur = c, !.rest = t.rest, !.log = Append(@, c)]

(* consume_token; also match, when it succeeds. *)
Consume(p) == Reads(p, NextToken(p.rest))

(* error_msg *)
Error(p) == [p EXCEPT !.errors = TRUE]

(* sync_stream skips the rest of the line; at the end of the file it goes on
   reading. *)
RECURSIVE SyncStream(_)
SyncStream(p) ==
  CASE Is(p, "EOL") -> p
    [] Is(p, "EOF") -> Ends(p, "hung")
    [] OTHER        -> SyncStream(Consume(p))

(* The usual error exit: a message, the rest of the line, a stub. *)
Fails(p) == Returns(SyncStream(Error(p)), <<Stub>>)

-----------------------------------------------------------------------------
(* Names. *)
Scope(p) == p.scopes[Len(p.scopes)]

Known(p, x) ==
  x \in p.globals \/ \E i \in DOMAIN p.scopes : x \in p.scopes[i].names

(* symbol_table_put_symbol ends the program for a name the table has. *)
PutSymbol(p, x) ==
  IF x \in Scope(p).names THEN Ends(p, "exited")
  ELSE [p EXCEPT !.scopes[Len(p.scopes)].names = @ \cup {x}]

Without(funs, x) == [f \in DOMAIN funs \ {x} |-> funs[f]]

-----------------------------------------------------------------------------
(* The functions that call each other recursively do so through Parse, which is
   defined at the end. *)
RECURSIVE Parse(_, _, _)

OrExpr(p)     == Parse("or_expr", p, {})
SumExpr(p)    == Parse("sum_expr", p, {})
Stmt(p, ctx)  == Parse("stmt", p, ctx)
Stmts(p, ctx) == Parse("stmts", p, ctx)

-----------------------------------------------------------------------------
(* Expressions. *)
RECURSIVE Operands(_, _), Rest(_, _), Elements(_, _, _, _, _),
          Arguments(_, _, _), Indices(_, _, _), Params(_, _, _), LocalNames(_),
          StmtList(_, _, _, _)

(* process_matrix after its `['.  e: the elements so far; width: the columns
   of the first row, 0 before its end.  The last row is not compared with it,
   and two of the error exits free the last element twice. *)
Elements(p, e, row, col, width) ==
  LET q == OrExpr(p)
      all == Append(e, q.val)
  IN CASE q.val = Null -> Fails(q)
       [] q.val # Null /\ Is(q, ",") ->
            Elements(Consume(q), all, row, col + 1, width)
       [] q.val # Null /\ Is(q, ";") ->
            IF width \in {0, col} THEN Elements(Consume(q), all, row + 1, 1, col)
            ELSE Ends(Fails(Consume(q)), "undefined")
       [] q.val # Null /\ Is(q, "]") ->
            Returns(Consume(q),
              IF row = 1 \/ col = 1 THEN VectorNode(all) ELSE MatrixNode(all, row, col))
       [] OTHER -> Ends(Fails(q), "undefined")

ProcessMatrix(p) == Elements(p, <<>>, 1, 1, 0)

(* function_call after its `('.  An end of line among the arguments is
   consumed before the line is skipped: the next line is. *)
Arguments(p, name, args) ==
  LET q == OrExpr(p)
      all == Append(args, q.val)
  IN CASE Is(p, ")") ->
            IF Len(p.funs[name].params) = Len(args)
            THEN Returns(Consume(p), CallNode(name, args))
            ELSE Fails(Consume(p))
       [] Is(p, "EOL")                   -> Fails(Consume(p))
       [] OTHER ->
            CASE q.val = Null            -> Fails(q)
              [] q.val # Null /\ Is(q, ",") -> Arguments(Consume(q), name, all)
              [] q.val # Null /\ Is(q, ")") -> Arguments(q, name, all)
              [] OTHER                   -> Fails(q)

FunctionCall(p, name) ==
  IF name \in DOMAIN p.funs THEN Arguments(Consume(p), name, <<>>)
  ELSE Fails(Consume(p))

(* access_node after a `['. *)
Indices(p, name, idx) ==
  LET q == OrExpr(p)
      r == Consume(q)
      all == Append(idx, q.val)
  IN IF q.val = Null \/ ~Is(q, "]") THEN Fails(q)
     ELSE IF Is(r, "[") THEN Indices(Consume(r), name, all)
     ELSE Returns(r, ElementNode(name, all))

AccessNode(p, name) ==
  IF Known(p, name) THEN Indices(Consume(p), name, <<>>) ELSE Fails(p)

(* token_id: a variable nobody knows becomes a global one. *)
TokenId(p, name) ==
  CASE Is(p, "(") -> FunctionCall(p, name)
    [] Is(p, "[") -> AccessNode(p, name)
    [] OTHER -> Returns([p EXCEPT !.globals = IF Known(p, name) THEN @
                                              ELSE @ \cup {name}],
                        IdNode(name))

Term(p) ==
  CASE Is(p, "ID")  -> TokenId(Consume(p), p.cur.text)
    [] Is(p, "NUM") -> Returns(Consume(p), ConstNode("digit", p.cur.text))
    [] Is(p, "STR") -> Returns(Consume(p), ConstNode("string", p.cur.text))
    [] Is(p, "[")   -> ProcessMatrix(Consume(p))
    [] OTHER        -> Returns(p, Null)

TermExpr(p) ==
  IF ~Is(p, "(") THEN Term(p)
  ELSE LET q == OrExpr(Consume(p))
       IN IF Is(q, ")") THEN Consume(q) ELSE Error(q)

(* The operators of each level, from the weakest to the strongest. *)
LevelsShifted == << {"||"}, {"&&"}, {"==", "<", ">", "<=", ">=", "!="},
                    {"-"}, {"*", "/", "+"}, {"^"} >>

Levels == << {"||"}, {"&&"}, {"==", "<", ">", "<=", ">=", "!="},
             {"+", "-"}, {"*", "/"}, {"^"} >>

(* or_expr, and_expr, rel_expr, sum_expr, mult_expr and exp_expr; the operands
   of the strongest operator are those of term_expr. *)
Operands(p, n) ==
  IF n > Len(Levels) THEN TermExpr(p)
  ELSE LET q == Operands(p, n + 1)
       IN IF q.val = Null THEN q ELSE Rest(q, n)

(* The operator and its right operand, as often as they follow - a relation
   only once.  Where the operand is missing, a stub takes its place and the
   line is skipped by some levels only; `^` drops the operator. *)
Rest(p, n) ==
  IF p.cur.kind \notin Levels[n] THEN p
  ELSE LET q == Operands(Consume(p), n + 1)
           r == CASE q.val # Null  -> q
                  [] n \in {4, 5}  -> Returns(Error(q), <<Stub>>)
                  [] OTHER         -> Fails(q)
           s == Returns(r, OpNode(p.cur.kind, p.val, r.val))
       IN IF n = 6 /\ q.val = Null THEN Returns(r, p.val)
          ELSE IF n = 3 THEN s ELSE Rest(s, n)

(* expr: an expression or an assignment to a variable or an element.  An
   assignment without left side follows a null pointer. *)
AssignmentSwapped(left, p) ==
  LET q == OrExpr(Consume(p))
      r == IF q.val = Null THEN Fails(q) ELSE q
  IN Returns(r, AssignNode(r.val, left))

Assignment(left, p) ==
  LET q == OrExpr(Consume(p))
      r == IF q.val = Null THEN Fails(q) ELSE q
  IN Returns(r, AssignNode(left, r.val))

Expr(p) ==
  LET q == OrExpr(p)
  IN CASE ~Is(q, "=")    -> q
       [] Is(q, "=") /\ q.val = Null -> Ends(q, "undefined")
       [] OTHER -> IF q.val[1].kind \in {"id", "access"}
                   THEN Assignment(q.val, q)
                   ELSE SyncStream(Error(Consume(q)))

-----------------------------------------------------------------------------
(* Function definitions. *)

(* The definition that fails forgets to pop its table. *)
LeaveScopeUnlessError(p) == IF p.errors THEN p ELSE [p EXCEPT !.scopes = Front(@)]

LeaveScope(p) == [p EXCEPT !.scopes = Front(@)]

(* process_function_body.  The text of the body is kept for the properties. *)
FunctionBody(p, name, params) ==
  LET begun == [Consume(p) EXCEPT
                  !.scopes = Append(@, [fn |-> name, names |-> {}, lost |-> FALSE]),
                  !.funs = (name :> [params |-> params, body |-> Null,
                                     text |-> <<>>]) @@ @]
      r == Stmts(FoldLeft(PutSymbol, begun, params), {"func"})
      f == [params |-> params, body |-> r.val,
            text |-> SubSeq(r.log, Len(p.log) + 1, Len(r.log) - 1)]
  IN CASE r.end # "ok"     -> r
       [] r.end = "ok" /\ Scope(r).lost -> Ends(r, "undefined")
       [] OTHER -> IF r.errors
                   THEN [LeaveScope(r) EXCEPT !.funs = Without(@, name)]
                   ELSE [LeaveScope(r) EXCEPT !.funs = (name :> f) @@ @]

(* process_args after its `('.  An end of line is consumed, nothing else is
   skipped then. *)
Params(p, name, params) ==
  LET q == Consume(p)
      all == Append(params, p.cur.text)
  IN CASE Is(p, ")")   -> IF Is(q, "{") THEN FunctionBody(q, name, params)
                          ELSE SyncStream(Error(q))
       [] Is(p, "EOL") -> Error(q)
       [] Is(p, "ID")  -> IF Is(q, ",") THEN Params(Consume(q), name, all)
                          ELSE IF Is(q, ")") THEN Params(q, name, all)
                          ELSE SyncStream(Error(q))
       [] OTHER        -> SyncStream(Error(p))

(* process_args: the old function of the name is destroyed first. *)
ProcessArgs(p, name) ==
  LET lost(s) == s.lost \/ (s.fn = name /\ name \in DOMAIN p.funs)
  IN Params([Consume(p) EXCEPT
               !.funs = Without(@, name),
               !.scopes = [i \in DOMAIN @ |-> [@[i] EXCEPT !.lost = lost(p.scopes[i])]]],
            name, <<>>)

(* The stub carries the text of the definition, for the properties. *)
ProcessFunction(p) ==
  LET q == Consume(p)
      r == IF Is(p, "ID") /\ Is(q, "(") THEN ProcessArgs(q, p.cur.text)
           ELSE SyncStream(Error(IF Is(p, "ID") THEN q ELSE p))
      text == SubSeq(r.log, Len(p.log) - 1, Len(r.log) - 1)
  IN Returns(r, <<Node("stub", text, <<>>)>>)

(* process_local_declaration: the end of the line belongs to it. *)
LocalNames(p) ==
  LET q == IF Is(p, "ID") THEN PutSymbol(Consume(p), p.cur.text) ELSE p
  IN CASE Is(p, "EOL") -> Consume(p)
       [] ~Is(p, "EOL") /\ Is(q, "EOL") -> LocalNames(q)
       [] ~Is(p, "EOL") /\ Is(q, ",")   -> LocalNames(Consume(q))
       [] OTHER -> SyncStream(Error(q))

LocalDeclaration(p, ctx) ==
  IF "func" \notin ctx THEN Fails(p)
  ELSE LET q == LocalNames(p)
           text == SubSeq(q.log, Len(p.log) - 1, Len(q.log) - 1)
       IN Returns(q, <<Node("stub", text, <<>>)>>)

-----------------------------------------------------------------------------
(* Statements.  p is the state after the word the statement begins with. *)
ReturnNode(p, ctx) ==
  LET q == SumExpr(p)
  IN IF ctx = {} THEN Fails(p)
     ELSE IF q.val = Null THEN Ends(q, "undefined")
     ELSE Returns(q, ReturnsNode(q.val))

IfExpr(p, ctx) ==
  LET c == OrExpr(Consume(p))
      s == Stmt(Consume(c), ctx \cup {"cond"})
      e == IF Is(s, "else") THEN Stmt(Consume(s), ctx \cup {"cond"})
           ELSE Returns(s, Null)
  IN IF ~Is(p, "(") THEN Fails(p)
     ELSE IF c.val = Null \/ ~Is(c, ")") THEN Fails(c)
     ELSE IF s.val = Null THEN Returns(Error(s), <<Stub>>)
     ELSE Returns(e, IfNode(c.val, s.val, e.val))

WhileExpr(p, ctx) ==
  LET c == OrExpr(Consume(p))
      s == Stmt(Consume(c), ctx \cup {"cycle"})
  IN IF ~Is(p, "(") THEN Fails(p)
     ELSE IF c.val = Null \/ ~Is(c, ")") THEN Fails(c)
     ELSE IF s.val = Null THEN Returns(Error(s), <<Stub>>)
     ELSE Returns(s, WhileNode(c.val, s.val))

ForExpr(p, ctx) ==
  LET a == Expr(Consume(p))
      b == OrExpr(Consume(a))
      c == Expr(Consume(b))
      s == Stmt(Consume(c), ctx \cup {"cycle"})
  IN IF ~Is(p, "(") THEN Fails(p)
     ELSE IF ~Is(a, ";") THEN Fails(a)
     ELSE IF ~Is(b, ";") THEN Fails(b)
     ELSE IF ~Is(c, ")") THEN Fails(c)
     ELSE IF s.val = Null THEN Fails(s)
     ELSE Returns(s, ForNode(a.val, b.val, c.val, s.val))

(* break_expr and continue_expr *)
JumpAnywhere(p, ctx, kind) ==
  IF ctx = {} THEN Fails(p) ELSE Returns(p, JumpNode(kind))

Jump(p, ctx, kind) ==
  IF "cycle" \notin ctx THEN Fails(p)
  ELSE Returns(p, JumpNode(kind))

EndScope(p, ctx) ==
  IF ctx = {} THEN Returns(Error(p), <<Stub>>)
  ELSE Returns(p, JumpNode("}"))

ProcessScope(p, ctx) ==
  IF ctx = {} THEN Fails(p)
  ELSE IF ctx \cap {"cycle", "cond"} = {} THEN Returns(Error(p), <<Stub>>)
  ELSE Stmts(p, ctx)

(* other_expr: only an empty line may have no expression. *)
OtherExpr(p) ==
  LET q == Expr(p)
  IN IF q.val = Null /\ ~Is(q, "EOL") THEN Fails(q) ELSE q

AnyStmt(p, ctx) ==
  CASE Is(p, "function") -> ProcessFunction(Consume(p))
    [] Is(p, "local")    -> LocalDeclaration(Consume(p), ctx)
    [] Is(p, "if")       -> IfExpr(Consume(p), ctx)
    [] Is(p, "for")      -> ForExpr(Consume(p), ctx)
    [] Is(p, "while")    -> WhileExpr(Consume(p), ctx)
    [] Is(p, "break")    -> Jump(Consume(p), ctx, "break")
    [] Is(p, "continue") -> Jump(Consume(p), ctx, "continue")
    [] Is(p, "return")   -> ReturnNode(Consume(p), ctx)
    [] Is(p, "{")        -> ProcessScope(Consume(p), ctx)
    [] Is(p, "}")        -> EndScope(Consume(p), ctx)
    [] Is(p, "UNKNOWN")  -> Fails(Consume(p))
    [] OTHER             -> OtherExpr(p)

(* Where stmts stops without an error; the first form forgets the end of the
   file. *)
AtEndOfLine(p, ctx) == ctx = {} /\ Is(p, "EOL")

AtEnd(p, ctx) == Is(p, "EOF") \/ (ctx = {} /\ Is(p, "EOL"))

(* stmts: statements up to an error, a `}', the end of the file or, at the
   prompt, the end of the line.  list: from the first statement to the last
   one; tail: what hangs on the last one, the rest of a block.  The next
   statement takes the place of the tail. *)
StmtList(p, ctx, list, tail) ==
  LET q == IF ctx # {} /\ Is(p, "EOL") THEN Consume(p) ELSE p
      r == Stmt(q, ctx)
  IN IF AtEnd(p, ctx) THEN Returns(p, list \o tail)
     ELSE IF r.errors THEN Returns(r, list \o tail)
     ELSE IF r.val = Null THEN StmtList(r, ctx, list, tail)
     ELSE IF r.val[1].kind = "}" THEN Returns(r, list \o r.val)
     ELSE StmtList(r, ctx, Append(list, r.val[1]), Tail(r.val))

Parse(function, p, ctx) ==
  CASE function = "or_expr"  -> Operands(p, 1)
    [] function = "sum_expr" -> Operands(p, 4)
    [] function = "stmt"     -> AnyStmt(p, ctx)
    [] function = "stmts"    -> StmtList(p, ctx, Null, Null)

(* programme reads one line, or as many as its blocks and functions have.  The
   token that ended the last one is dropped, whatever it is. *)
ProgrammeKeepsToken(p) ==
  Stmts([p EXCEPT !.errors = FALSE, !.log = <<>>, !.val = Null], {})

Programme(p) ==
  Stmts(Consume([p EXCEPT !.errors = FALSE, !.log = <<>>, !.val = Null]), {})
=============================================================================
