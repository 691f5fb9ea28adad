-------------------------------- MODULE Calls --------------------------------
(* Function definitions and function calls: the function table of function.c,
   the parsing of definitions and calls in syntax.c, traverse_func_call and its
   helpers in traverse.c, and what they do to the scope chain of symbol.c.

   Definitions are parsed while nothing is executed, and a parsed line is
   executed while nothing is parsed; both happen between two prompts.  A
   definition holds the identifiers and the call nodes its body consists of.  An
   identifier is a pair <<x, t>>: the name, which is all its node holds, and the
   table in which the parser found it (kept for the properties).  A call node is a pair <<g, n>>: the name of the called function and the number
   of arguments it had when the node was parsed.  The function is looked up by
   name again when the node is executed. *)
EXTENDS Scopes, Sequences

CONSTANTS
  Funs,       \* names of functions
  Line,       \* stands for the text of the line read at the prompt
  Uses,       \* what the programs of this model do: see Features
  MaxArgs,    \* bound: parameters of a function
  MaxCalls    \* bound: calls in progress

(* recursion:    a function is called while it is being called or while the
                 arguments of a call to it are evaluated;
   redefinition: a name that has a definition is defined again;
   nesting:      a function is defined inside the body of another one;
   lateLocal:    a body declares a local variable after it has used the name
                 for a variable of another table. *)
Features == {"recursion", "redefinition", "nesting", "lateLocal"}

ASSUME CallsAssumption ==
  /\ NULL \notin Funs
  /\ Line \notin Funs
  /\ Uses \subseteq Features
  /\ MaxArgs \in Nat
  /\ MaxCalls \in Nat

VARIABLES
  funs,     \* function_table: the function of a name, or NULL
  hdr,      \* the header process_args is reading, or NULL
  defs,     \* process_function_body in progress, outermost first
  frames,   \* traverse_func_call in progress, outermost first
  errors,   \* the error counter of syntax.c is not zero
  status    \* "ok", or how the interpreter ended

callVars == <<funs, hdr, defs, frames, errors, status>>
vars == <<scopeVars, callVars>>

-----------------------------------------------------------------------------
Args == UNION {[1..n -> Ids] : n \in 0..MaxArgs}
Sites == Funs \X (0..MaxArgs)
Names == Ids \X AllTables

(* struct function; scope is NULL until the body has been parsed. *)
Function == [params: Args, scope: Tables \cup {NULL},
             refs: SUBSET Names, sites: SUBSET Sites]

(* The locals of process_args; those of process_function_body.  lost: the
   function the definition holds a pointer to has been destroyed. *)
Header == [fn: Funs, params: Args]
Definition == [fn: Funs, table: Tables, refs: SUBSET Names,
               sites: SUBSET Sites, lost: BOOLEAN]

ASSUME NullAssumption == NULL \notin Function /\ NULL \notin Header

(* One traverse_func_call.  owner: the text the call node stands in, which is
   also the text of the arguments; left: arguments not evaluated yet; runs:
   the node has arguments, without which the body is not executed; from: the
   table that was current before the call (kept for the properties). *)
Frame == [fn: Funs, table: Tables, owner: Funs \cup {Line},
          left: 0..MaxArgs, runs: BOOLEAN, from: AllTables]

TypeOK ==
  /\ ScopesTypeOK
  /\ funs \in [Funs -> Function \cup {NULL}]
  /\ hdr \in Header \cup {NULL}
  /\ defs \in Seq(Definition)
  /\ frames \in Seq(Frame)
  /\ errors \in BOOLEAN
  /\ status \in {"ok", "exited", "undefined", "hung"}

Init ==
  /\ CreateGlobal
  /\ funs = [f \in Funs |-> NULL]
  /\ hdr = NULL
  /\ defs = <<>>
  /\ frames = <<>>
  /\ errors = FALSE
  /\ status = "ok"

-----------------------------------------------------------------------------
Last(s) == s[Len(s)]
Front(s) == SubSeq(s, 1, Len(s) - 1)
Injective(s) == \A i, j \in DOMAIN s : s[i] = s[j] => i = j

Defined(f) == funs[f] # NULL

Parsing == status = "ok" /\ frames = <<>> /\ hdr = NULL /\ ~errors
InBody  == Parsing /\ defs # <<>>

(* A message of the parser inside a body ends every definition in progress; at
   the prompt it only ends the line. *)
SyntaxError == errors' = (defs # <<>>)

Ends(how) ==
  /\ status' = how
  /\ UNCHANGED <<scopeVars, funs, hdr, defs, frames, errors>>

(* function_destroy frees the table of a function whose body is complete. *)
FreedTables(f) == IF Defined(f) THEN {funs[f].scope} \ {NULL} ELSE {}

(* process_args: an old function of the name is deleted before the new header
   has been read. *)
StartHeader(f) ==
  /\ Parsing
  /\ defs = <<>> \/ "nesting" \in Uses
  /\ Defined(f) => "redefinition" \in Uses
  /\ Destroy(FreedTables(f))
  /\ funs' = [funs EXCEPT ![f] = NULL]
  /\ defs' = [i \in DOMAIN defs |->
                [defs[i] EXCEPT !.lost = @ \/ (defs[i].fn = f /\ Defined(f))]]
  /\ hdr' = [fn |-> f, params |-> <<>>]
  /\ UNCHANGED <<top, frames, errors, status>>

(* One parameter of the header (function_add_arg). *)
AddArg(x) ==
  /\ status = "ok" /\ hdr # NULL
  /\ Len(hdr.params) < MaxArgs
  /\ hdr' = [hdr EXCEPT !.params = Append(@, x)]
  /\ UNCHANGED <<scopeVars, funs, defs, frames, errors, status>>

(* The header is rejected: nothing replaces the deleted function. *)
HeaderError ==
  /\ status = "ok" /\ hdr # NULL
  /\ hdr' = NULL
  /\ SyntaxError
  /\ UNCHANGED <<scopeVars, funs, defs, frames, status>>

(* The header is complete: the function enters the table, its scope becomes the
   current one and receives the parameters.  Two parameters of one name make
   symbol_table_put_symbol end the program. *)
OpenBody(t) ==
  /\ status = "ok" /\ hdr # NULL
  /\ IF Injective(hdr.params)
     THEN /\ Push(t, {hdr.params[i] : i \in DOMAIN hdr.params})
          /\ funs' = [funs EXCEPT ![hdr.fn] =
                        [params |-> hdr.params, scope |-> NULL,
                         refs |-> {}, sites |-> {}]]
          /\ defs' = Append(defs, [fn |-> hdr.fn, table |-> t, refs |-> {},
                                   sites |-> {}, lost |-> FALSE])
          /\ hdr' = NULL
          /\ UNCHANGED <<frames, errors, status>>
     ELSE t \notin live /\ Ends("exited")

(* The text of the definition in progress has used x for another variable. *)
UsedBefore(x) == \E r \in Last(defs).refs : r[1] = x /\ r[2] # top

(* process_local_declaration *)
DeclareLocal(x) ==
  /\ InBody
  /\ UsedBefore(x) => "lateLocal" \in Uses
  /\ IF PutFails(x) THEN Ends("exited")
     ELSE /\ PutTop(x)
          /\ UNCHANGED <<top, prev, live, callVars>>

(* token_id for a variable: a name no table of the chain holds becomes a global
   variable. *)
RefId(x) ==
  /\ Parsing
  /\ IF Hangs(x) THEN Ends("hung")
     ELSE /\ IF Found(x) THEN syms' = syms ELSE PutGlobal(x)
          /\ \E t \in AllTables :
               /\ t = IF Found(x) THEN Resolve(x) ELSE Global
               /\ defs' = IF defs = <<>> THEN defs
                          ELSE [defs EXCEPT ![Len(defs)].refs = @ \cup {<<x, t>>}]
          /\ UNCHANGED <<top, prev, live, funs, hdr, frames, errors, status>>

(* The parser accepts a call whatever the number of its arguments. *)
AcceptsAny(g, n) == Defined(g)

(* function_call accepts a call of a known function with its number of
   arguments and reports an error otherwise. *)
Accepts(g, n) == Defined(g) /\ Len(funs[g].params) = n

ParseCall(g, n) ==
  /\ InBody
  /\ IF Accepts(g, n)
     THEN /\ defs' = [defs EXCEPT ![Len(defs)].sites = @ \cup {<<g, n>>}]
          /\ errors' = errors
     ELSE SyntaxError /\ defs' = defs
  /\ UNCHANGED <<scopeVars, funs, hdr, frames, status>>

(* Any other error in a body. *)
ParseError ==
  /\ InBody
  /\ SyntaxError
  /\ UNCHANGED <<scopeVars, funs, hdr, defs, frames, status>>

(* The error exit keeps the deleted function in the table. *)
EndDefinitionKeepsFunction ==
  /\ status = "ok" /\ hdr = NULL /\ defs # <<>>
  /\ ~Last(defs).lost
  /\ defs' = Front(defs)
  /\ IF PopFails
     THEN status' = "exited" /\ UNCHANGED <<scopeVars, funs, errors>>
     ELSE /\ Pop
          /\ Destroy(IF errors THEN {top} ELSE {})
          /\ funs' = [funs EXCEPT ![Last(defs).fn] =
                        [@ EXCEPT !.scope = top, !.refs = Last(defs).refs,
                                  !.sites = Last(defs).sites]]
          /\ errors' = (errors /\ Len(defs) > 1)
          /\ UNCHANGED status
  /\ UNCHANGED <<hdr, frames>>

(* The end of process_function_body: the current table becomes the scope of the
   function and is popped; after an error the function is deleted and with it
   its table.  Writing to a destroyed function is undefined. *)
EndDefinition ==
  /\ status = "ok" /\ hdr = NULL /\ defs # <<>>
  /\ LET d == Last(defs)
     IN IF d.lost THEN Ends("undefined")
        ELSE /\ defs' = Front(defs)
             /\ IF PopFails
                THEN status' = "exited" /\ UNCHANGED <<scopeVars, funs, errors>>
                ELSE /\ Pop
                     /\ Destroy(IF errors THEN {top} ELSE {})
                     /\ funs' = [funs EXCEPT ![d.fn] =
                                   IF errors THEN NULL
                                   ELSE [@ EXCEPT !.scope = top,
                                                  !.refs = d.refs,
                                                  !.sites = d.sites]]
                     /\ errors' = (errors /\ Len(defs) > 1)
                     /\ UNCHANGED status
             /\ UNCHANGED <<hdr, frames>>

-----------------------------------------------------------------------------
(* Execution.  The text whose nodes are being executed: while arguments are
   evaluated it is still that of the caller. *)
Owner == IF frames = <<>> THEN Line
         ELSE IF Last(frames).left > 0 THEN Last(frames).owner
         ELSE Last(frames).fn

(* A line has been parsed just before it is executed: its variables are those
   the parser found or made, its calls are of functions the parser accepted. *)
Idle == frames # <<>> /\ ~Last(frames).runs

Refs == CASE Idle         -> {}
          [] ~Idle /\ Owner = Line -> syms[Global] \X {Global}
          [] OTHER        -> funs[Owner].refs

CallNodes == CASE Idle         -> {}
               [] ~Idle /\ Owner = Line -> {s \in Sites : Accepts(s[1], s[2])}
               [] OTHER        -> funs[Owner].sites

Running == status = "ok" /\ hdr = NULL /\ defs = <<>> /\ ~errors

Active(g) == \E i \in DOMAIN frames : frames[i].fn = g

(* traverse_func_call of a user's function up to its first argument.  A name
   without a function is a null pointer, and a function with more parameters
   than the node has arguments reads past the end of the argument array.  A
   node without arguments has no such array: neither the parameters nor the
   body are looked at. *)
Call(g, n) ==
  /\ Running
  /\ Len(frames) < MaxCalls
  /\ <<g, n>> \in CallNodes
  /\ Active(g) => "recursion" \in Uses
  /\ IF ~Defined(g) THEN Ends("undefined")
     ELSE IF n > 0 /\ Len(funs[g].params) > n THEN Ends("undefined")
     ELSE /\ SetScope(funs[g].scope)
          /\ frames' = Append(frames, [fn |-> g, table |-> funs[g].scope,
                                       owner |-> Owner,
                                       left |-> IF n = 0 THEN 0
                                                ELSE Len(funs[g].params),
                                       runs |-> n > 0,
                                       from |-> top])
          /\ UNCHANGED <<syms, live, funs, hdr, defs, errors, status>>

(* perform_init_args counts one argument too many. *)
NextArgMiscounts ==
  /\ Running
  /\ frames # <<>> /\ Last(frames).left > 0
  /\ frames' = [frames EXCEPT ![Len(frames)].left = @ + 1]
  /\ UNCHANGED <<scopeVars, funs, hdr, defs, errors, status>>

(* perform_init_args: one argument is evaluated and stored. *)
NextArg ==
  /\ Running
  /\ frames # <<>> /\ Last(frames).left > 0
  /\ frames' = [frames EXCEPT ![Len(frames)].left = @ - 1]
  /\ UNCHANGED <<scopeVars, funs, hdr, defs, errors, status>>

(* The return that leaves the function's table on the chain. *)
ReturnWithoutPop ==
  /\ Running
  /\ frames # <<>> /\ Last(frames).left = 0
  /\ frames' = Front(frames)
  /\ UNCHANGED <<scopeVars, funs, hdr, defs, errors, status>>

(* The body ends - at its end, at a return or after an error - and
   traverse_func_call pops the table. *)
Return ==
  /\ Running
  /\ frames # <<>> /\ Last(frames).left = 0
  /\ IF PopFails THEN Ends("exited")
     ELSE /\ Pop
          /\ frames' = Front(frames)
          /\ UNCHANGED <<prev, syms, live, funs, hdr, defs, errors, status>>

(* traverse_id, traverse_assign and traverse_access look a name up whenever
   they meet it; only the lookups that fail leave a trace.  A symbol that is
   not found is a null pointer. *)
UseId(x) ==
  /\ Running
  /\ \E r \in Refs : r[1] = x
  /\ ~Found(x)
  /\ Ends(IF Hangs(x) THEN "hung" ELSE "undefined")

-----------------------------------------------------------------------------
Parse ==
  \/ \E f \in Funs : StartHeader(f)
  \/ \E x \in Ids : AddArg(x)
  \/ HeaderError
  \/ \E t \in Tables : OpenBody(t)
  \/ \E x \in Ids : DeclareLocal(x)
  \/ \E x \in Ids : RefId(x)
  \/ \E g \in Funs, n \in 0..MaxArgs : ParseCall(g, n)
  \/ ParseError
  \/ EndDefinition

Execute ==
  \/ \E g \in Funs, n \in 0..MaxArgs : Call(g, n)
  \/ NextArg
  \/ Return
  \/ \E x \in Ids : UseId(x)

Next == Parse \/ Execute

Spec == Init /\ [][Next]_vars

-----------------------------------------------------------------------------
(* Properties. *)

(* The tables of a stack of definitions or calls lie on the chain from newest
   along link in the order of the stack, each once, the global table last. *)
IsChain(newest, link, stack) ==
  /\ newest = IF stack = <<>> THEN Global ELSE Last(stack).table
  /\ \A i \in DOMAIN stack :
       link[stack[i].table] = IF i = 1 THEN Global ELSE stack[i - 1].table
  /\ \A i, j \in DOMAIN stack : stack[i].table = stack[j].table => i = j

(* All tables are kept in one list: it ends with the current table and begins
   with the global one (symbol_table_push, symbol_table_set_scope and
   symbol_table_pop).  The list is exactly the definitions, or the calls, in
   progress; so every lookup ends, and the prompt finds the global table. *)
ChainIsContexts ==
  /\ prev[Global] = NULL
  /\ defs = <<>> \/ frames = <<>>
  /\ frames = <<>> => IsChain(top, prev, defs)
  /\ defs = <<>> => IsChain(top, prev, frames)

(* After the last return the current table is the global one again
   (symbol_table_pop in traverse_func_call). *)
GlobalAtPrompt == defs = <<>> /\ frames = <<>> => top = Global

(* No table is used after symbol_table_destroy: the chain, the definitions in
   progress and the function table only refer to allocated tables, and no
   table belongs to two of them (so none is freed twice). *)
TablesLive ==
  /\ top \in live /\ Global \in live
  /\ \A i \in DOMAIN defs : defs[i].table \in live
  /\ \A f \in Funs : Defined(f) /\ funs[f].scope # NULL =>
       /\ funs[f].scope \in live
       /\ \A i \in DOMAIN defs : defs[i].table # funs[f].scope
       /\ \A g \in Funs : Defined(g) /\ funs[g].scope = funs[f].scope => g = f

(* A variable the parser accepted in the text that is being executed is found
   when it is used: traverse_id never gets a null symbol. *)
IdsResolve == status = "ok" /\ Running => \A r \in Refs : Found(r[1])

(* A name in the text that is being executed means the variable the parser found
   for it: the lookup of the traversal ends in the same table as the lookup of
   the parser, although other tables have been on the list in between.  The
   exception is a name that another function in progress has in its table: a
   local variable of a caller, or - in an argument - one of the called function,
   takes the place of the global variable (token_id, traverse_id,
   traverse_func_call). *)
NamesAsParsed ==
  LET own == IF Owner = Line THEN Global ELSE funs[Owner].scope
      others == {frames[i].table : i \in DOMAIN frames} \ {own}
  IN Running =>
       \A r \in Refs : (\A t \in others : r[1] \notin syms[t]) => Resolve(r[1]) = r[2]

(* A call node of the text that is being executed still fits the function of
   its name: traverse_func_call never gets a null function or reads past the
   argument array. *)
SitesFit == Running => \A s \in CallNodes : Defined(s[1]) /\ Len(funs[s[1]].params) = s[2]

(* Whatever a call did, its return makes current again the table that was
   current before the call. *)
ScopeRestored ==
  [][Len(frames') < Len(frames) => top' = Last(frames).from]_vars
=============================================================================
