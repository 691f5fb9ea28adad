------------------------------- MODULE Scopes -------------------------------
(* symbol.c: the symbol tables and the chain that links them.

   A table is created for the globals, and one for every function body while
   it is parsed (symbol_table_push).  At run time symbol_table_set_scope puts
   the table of the called function back on the chain by overwriting its prev
   pointer, and symbol_table_pop takes the newest table off again.  A lookup
   walks from top along prev until it finds the name or a null pointer.

   This module holds the state of symbol.c and one operator per operation; the
   operators say how they change the state and leave the rest to their caller.
   What a symbol's value is does not matter here: a table is the set of names
   it holds.  Module Calls drives these operations. *)
EXTENDS Naturals, FiniteSets

CONSTANTS
  Tables,   \* the addresses a table of a function may have
  Global,   \* the table made by symbol_table_create_global
  NULL,     \* the null pointer
  Ids       \* identifiers that name variables and parameters

ASSUME ScopesAssumption ==
  /\ Global \notin Tables
  /\ NULL \notin Tables \cup {Global}
  /\ IsFiniteSet(Tables)

AllTables == Tables \cup {Global}

VARIABLES
  top,      \* the current table
  prev,     \* prev[t]: the prev field of table t
  syms,     \* syms[t]: the names that table t holds
  live      \* the tables that are allocated

scopeVars == <<top, prev, syms, live>>

ScopesTypeOK ==
  /\ top \in AllTables
  /\ prev \in [AllTables -> AllTables \cup {NULL}]
  /\ syms \in [AllTables -> SUBSET Ids]
  /\ live \subseteq AllTables

(* symbol_table_create_global.  The symbol ans is not one of Ids. *)
CreateGlobal ==
  /\ top = Global
  /\ prev = [t \in AllTables |-> NULL]
  /\ syms = [t \in AllTables |-> {}]
  /\ live = {Global}

-----------------------------------------------------------------------------
(* The walk of symbol_table_lookup_all: Walk[k] is the table reached from top
   after k steps along prev, NULL once the chain has ended.  A chain that has
   not ended after as many steps as there are tables is a cycle. *)
Steps == 0..Cardinality(AllTables)

Walk[k \in Steps] ==
  IF k = 0 THEN top
  ELSE IF Walk[k - 1] = NULL THEN NULL ELSE prev[Walk[k - 1]]

Cyclic == Walk[Cardinality(AllTables)] # NULL

OnChain == {Walk[k] : k \in Steps} \ {NULL}

Holds(x) == {t \in OnChain : x \in syms[t]}

(* symbol_table_lookup_all(x) returns a symbol, returns NULL, or, when the
   chain is a cycle without x, never returns. *)
Found(x) == Holds(x) # {}
Hangs(x) == ~Found(x) /\ Cyclic

(* The table in which symbol_table_lookup_all finds x. *)
Resolve(x) ==
  Walk[CHOOSE k \in Steps :
         /\ Walk[k] \in Holds(x)
         /\ \A j \in 0..(k - 1) : Walk[j] \notin Holds(x)]

-----------------------------------------------------------------------------
(* symbol_table_push, and the symbols S that its only caller puts into the new
   table at once. *)
Push(t, S) ==
  /\ t \in Tables \ live
  /\ live' = live \cup {t}
  /\ prev' = [prev EXCEPT ![t] = top]
  /\ syms' = [syms EXCEPT ![t] = S]
  /\ top' = t

(* symbol_table_pop, when the current table has a predecessor; popping the
   global table is a fatal error, see PopFails. *)
PopFails == prev[top] = NULL

Pop == top' = prev[top]

(* A call that loses the link to the caller's table: the assignment to
   top->prev is missing. *)
SetScopeUnlinked(t) == top' = t /\ prev' = prev

(* symbol_table_set_scope: the prev field of the table is overwritten, whatever
   it was. *)
SetScope(t) ==
  /\ top' = t
  /\ prev' = [prev EXCEPT ![t] = top]

(* symbol_table_put_symbol: a second symbol of one name is a fatal error. *)
PutFails(x) == x \in syms[top]

PutTop(x) == syms' = [syms EXCEPT ![top] = @ \cup {x}]

(* The parser forgets to create the variable it did not find. *)
PutGlobalSkipped(x) == syms' = syms

(* symbol_table_global_put_symbol, for a name the parser did not find. *)
PutGlobal(x) == syms' = [syms EXCEPT ![Global] = @ \cup {x}]

(* symbol_table_destroy of the tables of the set T (none or one). *)
Destroy(T) ==
  /\ live' = live \ T
  /\ prev' = [t \in AllTables |-> IF t \in T THEN NULL ELSE prev[t]]
  /\ syms' = [t \in AllTables |-> IF t \in T THEN {} ELSE syms[t]]
=============================================================================
