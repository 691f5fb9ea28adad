# A formal model of bclite

bclite is an interpreter for a small language of numbers, strings, vectors and
matrices, written in C. This directory holds TLA+ modules that model its core,
TLC configurations that check them on small instances, and proofs that TLAPS
checks for every instance.

## 1. The system

One process reads a line, parses it into a tree, executes the tree, prints what
is left on the evaluation stack, and starts again (`main.c`). A definition of a
function may take several lines; it is complete before anything is executed.
There are no threads and nothing is stored between runs. What makes the program
hard is state that outlives the call that made it: pointers kept in tables,
global counters, one evaluation stack for everybody, and memory with several
pointers to it.

| part | files | state | operations | modelled in |
|---|---|---|---|---|
| symbol tables | `symbol.c` | the current table, the `prev` links, the symbols of each table | create, push, pop, set scope, put, look up, destroy | `Scopes`, driven by `Calls` |
| functions | `function.c`, parts of `syntax.c` and `traverse.c` | name to function; definitions and calls in progress | define, redefine, delete, parse a call, call, bind an argument, return | `Calls` |
| hash table | `hash.c`, `primes.c` | array of chains, size, number of entries and of collisions | insert unique, look up, remove, replace, clean, destroy, iterate | `HashTable`, `Dict` |
| traversal | `traverse.c`, `list.c` | evaluation stack, counters of break, continue and return, error counter | one handler per kind of node | `Traverse` |
| values | `eval.c`, `libcall.c`, parts of `symbol.c` and `traverse.c` | blocks of memory, variables, `ans`, evaluation stack | push constant, variable, literal; operate; assign; index; call a library function; print | `Values` |
| arithmetic | `libm.c`, dispatch in `eval.c` | none | operations on numbers, vectors, matrices; powers | `Libm`; which operations fail, exit or write into an operand also in `Values` |
| parser | `syntax.c` | current and previous token, error counter | one procedure per rule of the grammar | `Parser`, `Reader`; definitions and calls step by step in `Calls` |
| lexer, keywords | `lex.c`, `keyword.c` | one character of lookahead, the last token | next token | `Lexer`; the value of a numeral in `Libm` |
| syntax tree | `as_tree.c` | nodes | construct, destroy | constructors in `Parser`; a constant of `Traverse` |
| main loop | `main.c` | tree and errors of a line, end of file | read, execute, repeat | `Reader`, `Calls`, `Traverse` |
| allocation, messages | `umalloc.c`, `misc.c` | none | end the program when memory runs out | not modelled |

How they interact: the parser resolves names in the symbol tables and pushes a
table for the body of a function; a call puts that table back on the list. Both
the list of tables and the function table are made of hash tables. The traversal
looks every name up again. All expressions leave their values on the evaluation
stack, and a value of a variable of vector or matrix type is a pointer to the
memory of the variable. The counters of jumps are set in one handler and taken
back in another one, further out. Two error counters (one in `syntax.c`, one in
`traverse.c`) end the line.

What makes each part correct:

* lexer: no character is lost, a token is as long as it can be;
* parser: a well formed line gets the tree that priorities and associativity
  determine; whatever is executed holds everything that was read; an error uses
  up the line and no more; the parser never waits for something behind the end;
* arithmetic: a result is what the operation means, or a message says that there
  is none;
* symbol tables: the list is exactly the definitions or calls in progress, with
  the global table at its end; no freed table is on it;
* functions: what the parser accepted still fits when it is executed;
* hash table: it behaves as a map with unique keys; its counters are exact;
* traversal: a handler pops what its own expressions pushed; a jump ends the
  loop or the function it is for, and nothing else; an error ends the line;
* values: a block has one owner; no value on the stack dangles; a variable
  changes only when it is assigned to.

## 2. Modules

* `Scopes` - `symbol.c`. `top` and `prev` are the fields of the C code, `syms`
  the names in each table, `live` the allocated ones. Each operation is an
  operator that says how it changes this state. A walk along `prev` is a
  recursive function of the number of steps; a walk that has not ended after as
  many steps as there are tables is in a cycle (`Hangs`).
* `Calls` - extends `Scopes` with the function table (`funs`), the header that
  `process_args` is reading (`hdr`), the definitions and calls in progress (`defs`,
  `frames`, stacks in place of the recursion of the C code) and the error counter
  of the parser. A body is the set of identifiers and call nodes in it; an identifier is
  kept with the table in which the parser found it, so that `NamesAsParsed` can compare
  that with the table the traversal finds. What
  the program does that it should not survive is a value of `status`: a fatal
  error (`exited`), freed or wild memory (`undefined`), a lookup that does not end
  (`hung`). `Uses` selects which features the programs use: recursion,
  redefinition, nesting, and a local variable that is declared after its name has
  been used (`lateLocal`).
* `HashTable` - `hash.c`. A chain is a sequence whose first bucket lies in the
  array. An insertion that makes the table grow is a job (`job`): one `Move` is one
  turn of the inner loop of `hash_table_rebuild`, `NextSlot` its outer loop, and
  `EndInsert` stores the new bucket. A bucket of the old array that is linked into a new
  chain is marked `lost`, because the old array is freed; the first walk that meets it
  ends the model (`status`).
* `Dict` - the abstract map that `hash.h` describes, with an iterator that
  returns every entry once and whose allocation may fail. `HashTable` is checked to
  implement it: the map is read off the chains and, while the table is rebuilt, the
  buckets that wait.
* `Traverse` - `traverse.c` and `list.c`. The trees are constants; `frames` is the
  stack of handlers in progress and `phase` the place in the handler between two
  calls of `traversal()`. A value is true, false, or not a number; which one an
  expression has is left open, so every path through the tree is taken. `Faults`
  selects what may go wrong. There is a handler for every kind of node: those of
  literals and of elements pop a value for every element or index (`Elements`, `Element`),
  and these and a library function push their value in `Finish`, where an error
  before does not always keep them from it. A value that is missing where the code
  follows its pointer is `crashed`. `Grammar(g)` says which programs the interpreter
  handles as it should: `g` sorts nodes into expressions, statements, and statements
  that may end a loop or a function.
* `Values` - who owns the memory of a value. Each handler's effect on stack, heap
  and variables is one action, and the actions come in any order, as they do
  when operands call functions. `DestroyTable` is the end of a function's variables when
  the function is defined again, which happens between two lines, when values may still
  be on the stack. `Uses = {"alias"}` lets a variable get a new value, or be destroyed,
  while a value on the stack points to the old one.
* `Lexer` - `lex.c` and `keyword.c`. The character in `peek` and the unread file
  together are the text that is left, so `NextToken` is an operator from a text to a
  token and the rest of the text. A unit of a text is one character, or a word of
  letters that no property takes apart. A comment or a string that the end of
  the file interrupts is read for ever (`Endless`). A loop over characters is
  described by where it stops (`RunEnd`).
* `Tokens` - extends `Lexer`: all tokens of a file, as a recursive function, and what
  they have to do with the file (`EveryCharacterRead`, `LongestLexeme`). The reference, what
  a reader passes over and what a name or a number is, looks at positions of the
  file and nothing else.
* `Parser` - `syntax.c` and the constructors of `as_tree.c`. Each function of the
  parser is an operator from the state of the parser (current token, rest of the
  text, error counter, symbol tables of definitions in progress, function table) to
  its state afterwards, with every error exit where the code has it: some skip
  the line, some do not, some consume its end first. The six levels of
  expressions have the same form in the code and are one operator here
  (`Operands`, `Rest`) with the differences spelled out. The functions that
  `syntax.c` declares forward call each other through `Parse`. A pointer to a node is the
  sequence of the nodes linked behind it, which makes visible what `stmts` cuts off.
* `Reader` - extends `Parser` and `Tokens` with the main loop: one action per call of `programme`,
  one per call of `get_result`. It also holds the references: a tree by the weakest
  operator outside parentheses, the skeleton of a text, documented numbers.
* `Libm` - `libm.c`, the choice among its functions in `eval.c`, and the exponent of a
  numeral in `lex.c`. The elements of vectors and matrices are small integers;
  quotients are one value, `Real`, uninitialized numbers another one, `Garbage`. The
  sizes that GSL checks and what it does when they do not fit (its handler in
  `main.c` prints and returns) are part of each operation. The three loops that
  square and multiply are steps. `Meaning` defines the operations anew, by
  functions on positions instead of cases on types.
* `CallsProofs`, `NamesProofs`, `HashTableProofs`, `ValuesProofs`, `TraverseProofs`,
  `LibmProofs`, `ArithmeticProofs`, `LexerProofs` - the theorems; see section 4.
* `MCCalls`, `MCHashTable`, `MCTraverse`, `MCValues`, `MCReader`, `MCLibm` - symmetry
  sets, the hash function, the trees, files and operands of the instances that TLC
  checks.

`Calls` and `Parser` model the same functions of `syntax.c` with different questions.
In `Calls` what is parsed is left open and what happens to tables and functions is
followed into the execution; in `Parser` the text decides what is parsed, and the
execution is left out.

A call without arguments does nothing but print a message: `perform_custom_function`
insists on an array of arguments that such a call does not have. `Calls` (`Idle`) and
`Traverse` (`Arguments`) model it.

Operators whose comment describes a mistake (`SetScopeUnlinked`, `StoreUncounted`,
`TakeWrongFlag`, ...) are variants of the operator that follows them. They are in
no next-state relation. Substituting one for its original must break the property
that `PROJECT.json` names: this shows that the property depends on that code.

## 3. Runs

| run | expected | question |
|---|---|---|
| `calls_redefine` | pass | Do redefinition and nesting keep the list of tables right, and every table allocated as long as it is used? Does every return restore the caller's table, and is the global table current again at the prompt? |
| `calls_plain` | pass | Without recursion, redefinition, nesting and late declarations, does every name and every call still resolve at run time, and a name in the table in which the parser found it? |
| `calls_recursive` | violation | Is the global table current after a recursive call? No: `symbol_table_set_scope` overwrites the link of a table that is on the list. |
| `hash` | pass | Is the table a map, are its counters exact, is every bucket where its key hashes to, does growing end? |
| `hash_rebuild` | violation | Are all buckets copied when the table grows? No: heads of chains are linked while they lie in the array that is freed. |
| `traverse_plain` | pass | Without errors: do pops match pushes, do jumps reach what they are for, is a null pointer never followed - for a condition, an element or an index? |
| `traverse_errors` | pass | After an error, is no handler begun and no counter changed, does each handler in progress push one value at most, and does the prompt come back (or the interpreter die)? |
| `traverse_return` | violation | Does return leave the function? Not from inside a loop. |
| `values` | pass | Has every block one owner, is every pointer on the stack valid, do variables change only by assignment or with their function? |
| `values_alias` | violation | Does `v = v` keep the value of `v`? Not if it is a vector or a matrix. |
| `reader` | pass | Does the lexer lose characters or stop too early? Do well formed lines get the right tree wherever they stand, do trees and functions hold everything that was read, do jumps stay in loops? Does every call of `programme` read on, and is a correct file read to its end? |
| `libm` | pass | Does every operation on digits, vectors and matrices give what it means, or a message? Are operands that fit refused? Do the loops for powers and numerals keep the power, and end? |

The findings that the violations stand for, and those that came up while the
modules were written, are listed in `PROJECT.json` with the lines of code and
documentation that disagree.

`calls_redefine`, `traverse_plain` and `values` check programs that avoid a known
defect, and the module says so in its `Uses` or `Faults` or in the grammar of
`MCTraverse`: no recursion; no return inside a loop and no call in the value of a
return, jumps only as the last statement of a block, functions that end with a
return, no expression as a statement of a body, no errors; no assignment to a variable
that a waiting value points to, and no new definition of its function. `IsDict` ends its
promise where a lost bucket is first used. `OnlyAssignedChange` has one exception, the
divisor of two matrices. `NamesAsParsed` leaves out a name that another function in
progress declares: such a name is captured (a finding). A body that uses a name and then
declares it, as in `y = x` before `local x`, is left out of `calls_plain`: the parser
has found the global variable, the traversal finds the local one (a finding).
`ErrorStopsLine` allows what the code does after an error: a library function is
computed although its argument failed, an element is read with an index that was never
set, and each pushes a value that the end of the line drops. `NoCrash` is about lines
without errors; after an error in a condition, an index or an element on an empty stack
the code does follow a null pointer (a finding), which `ErrorEnds` allows.
`GoodLinesParsed` claims that every well formed line is accepted and read to its end; it
claims the tree of its priorities, to the left, except where the document says something
else (`Disputed`): powers of powers, which `text.ms`, line 1426, calls associative to
the right, and a relation, `&&` or `||` behind an assignment, which line 1420 gives a
higher priority. Both are findings. `EveryCharacterRead` is about files without strings
and without a minus before a letter, `TreesHoldText` about programs without blocks that
are statements of their own. `RightOrTold` lists its exceptions in `KnownDefect`;
without any one of them it is violated, and each has a finding.

### Bounds

* `Calls`: two functions, two tables besides the global one, one or two
  identifiers, at most one parameter, two or three calls in progress. With two identifiers a
  nested function can use a local variable of the function around it, which is not
  found when it is called later. Two tables are enough for one function to be defined
  inside another, for a call in a body and for a redefinition while another function
  keeps its table. The cycle needs one function called twice.
* `HashTable`: five keys, sizes 2, 3, 5 and then 5 again, and hash values such that
  every size has its own collisions. The table grows when there is one collision
  for two entries, so it grows twice with these keys, and a third time to the same
  size, as the code does once the table of primes is used up.
* `Traverse`: programs of one or two nested loops or calls with up to two
  statements in a block, at most six values on the stack, counters up to two. The
  grammars in `MCTraverse` put every kind of jump in every kind of block in a loop,
  in a loop in a loop, and in a function called in an operand. In
  `traverse_plain` no line reaches the bound of six values. In `traverse_errors` lines
  reach the bounds, since a return in a loop leaves its value on the stack, and
  an error in the value of a return leaves a counter raised, for the lines after it;
  there the bounds end executions.
  `traverse_return` needs three values.
* `Values`: two variables, both of functions that can be defined again, and `ans`, four
  blocks, two possible contents, three values on the stack. An operation needs two
  operands, and the third value is the one that waits. A block that the code leaks is
  never free again, so four blocks also bound the length of an execution with leaks.

* `Reader`: four families of files. All sequences of up to four of ten
  characters, which put every character of lookahead before every other one. All
  expressions with three of eight operators, one or more of each level, plain, with
  one pair of parentheses or with an operand missing: three operators are the
  shortest chain in which a level is left and entered again. All sequences of up
  to four pieces of statements (conditions, braces, jumps, a definition). All
  pairs of thirty lines, right and wrong, among them one for each error exit: the
  second line shows where an error left the parser.
* `Lexer`: no state of its own; it is checked with `Reader`.
* `Libm`: digits from -1 to 2, vectors of up to three elements, all 2 x 2 matrices of
  zeros and ones, 3 x 2, 2 x 3 and 3 x 3 matrices, a string; exponents from -7 to 7. All
  pairs of types and of fitting and unfitting sizes occur, and exponents with
  every pattern of three bits.

Section 4 lists what is proved without these bounds. TLC checked each of those
properties first; the bounds matter for what is left to it.

### Fairness

`HashTable` assumes weak fairness of the steps of the rebuilding loops (`Move`,
`NextSlot`) and of the insertion they are part of (`EndInsert`), `Traverse`
of the steps of the handlers. Both are parts of a sequential program that wait for
nothing: once entered, the next step is always taken. There is no fairness for
reading a line or for calling an operation of the table. `Libm` assumes it of the
loops for powers. `Reader` assumes it, too; its runs show `LinesAdvance`, the variant
that makes the main loop end, in place of a liveness property.

## 4. Proofs

Every theorem holds for all values of the constants that satisfy the assumption
of the module (`ScopesAssumption`, `HashAssumption`, ...), and for every bound. Where
it has a hypothesis, the hypothesis is in its statement and in the tables below.
TLC finds no violation of the inductive invariants on the instances of the runs; of
`PInv` it evaluated only the states of the first twenty steps, since its quantifiers
over handlers are slow.

### Scopes, functions and names

`CallsProofs`, with the hypothesis `NoRecursion` (`"recursion" \notin Uses`):

| theorem | states |
|---|---|
| `Invariance` | `IInv` holds in every reachable state |
| `TypeCorrect` | `TypeOK` |
| `ScopeChain` | `ChainIsContexts`: the list of tables is the definitions or calls in progress |
| `NoFreedTable` | `TablesLive`: no freed table is used, none has two owners |
| `PromptIsGlobal` | `GlobalAtPrompt`, which `calls_recursive` refutes with recursion |
| `ReturnsRestore` | `ScopeRestored`: a return makes the caller's table current |

The last five follow from `Invariance`. `ChainIsContexts` is not inductive: a call
keeps it only if the table of the called function is not on the list yet, which
holds because a function that is not active owns a table no active call has.
That needs `TablesLive`, the fact that the table of every call in progress is still
the table of its function (`CallsOK`), and that every definition in progress owns
a table no complete function has (`DefsOK`). `ErrorInBody` ties the error counter
to a definition in progress, so that a failed definition is the one that is
deleted. `IInv` is the conjunction of these with `TypeOK`. Pushing and popping a
table is one lemma each (`ChainPush`, `ChainPop`), used for definitions and
calls alike; then there is one lemma per action, and `NextInv` joins them. The
hypothesis is used in one place: a function that is called is not active.

`NamesProofs`, with the hypothesis `Plain` (`Uses = {}`: no recursion, redefinition,
nesting or late declaration):

| theorem | states |
|---|---|
| `TextsKept` | `NInv`, on top of `IInv`, holds in every reachable state |
| `CallsFit` | `SitesFit`: a call node fits the function of its name |
| `NamesFound` | `IdsResolve`: a lookup of a name the parser accepted ends and finds it |
| `NamesMeant` | `NamesAsParsed`: and ends in the table in which the parser found it, unless another function in progress declares the name |

These properties speak of the calls in progress only. They are kept because the
texts of all complete functions stay right, also of those that are not called now:
`SitesKept` and `RefsKept` say so, `OwnersActive` that every call stands in the line or
in a body further out, and `OneDefinition` that no definition can take away what
another text refers to. For `NamesMeant` they also say where the name is: the table in
an identifier is the one of its own text or the global one, and if it is the global
one the own table does not hold the name. The last part is what a late declaration
would break. A function that is being defined may still fail; that is
why no complete function may call it. The walk of a lookup is a recursive function
(`Walk`). Two walks that follow the same links agree, since there is no least
number of steps at which they differ (`OneWalk`); so `Walk` is the list that
`ChainIsContexts` describes.

### Hash table

`HashTableProofs`, without hypotheses, for every finite set of keys, every hash
function and every increasing list of sizes (`HashAssumption`):

| theorem | states |
|---|---|
| `Invariance` | `IInv` holds in every reachable state |
| `TypeCorrect` | `TypeOK`; no counter exceeds the number of keys |
| `CountersRight` | `Accounting`: both counters are exact, also while the table is rebuilt |
| `OneChain` | `KeysPlaced`: a key is in its slot and in one bucket only |
| `Refinement` | `IsDict`: the table implements `Dict`, up to the first use of a lost bucket |

Neither `Accounting` nor `KeysPlaced` is inductive. A collision is taken back when
the loop meets the slot, so `Accounting` needs to know that what still waits in
the old array is in order for the old size (`JobOK`) and that no waiting key is in
the new array already; `KeysPlaced` needs the same, and that the key to insert is in
neither array. `IterOK` says that an iterator is at a bucket of a table that stands
still. The entries are treated as a set of pairs of a key and a value; storing,
removing and replacing in one chain each have one lemma about that set and about
the counters (`Added`, `Removed`, `Rewritten`). The refinement is shown action by
action: `Move` and `NextSlot` move a bucket from one half of the abstract map to the
other and are stutters, every other action is the action of `Dict` of its name. An
iteration returns every entry once because what is ahead of the iterator
(`CellsFrom`) loses one cell per call. That the rebuilding ends (`InsertEnds`) is
liveness and stays with TLC.

### Values

`ValuesProofs`, for all variables, blocks, contents and any depth of the stack:

| theorem | hypothesis | states |
|---|---|---|
| `Invariance`, `TypeCorrect` | | `IInv`, `TypeOK` |
| `OneOwner` | | `UniqueOwner`: nothing is freed twice |
| `OthersUntouched` | | `OnlyAssignedChange` |
| `NoDangling` | `NoAlias` | `AliasesValid` |
| `AssignmentStores` | `NoAlias` | `AssignStores` |

`NoAlias` is `"alias" \notin Uses`: no variable is assigned to, or destroyed with its
function, while a value on the stack points into it. The steps that destroy a table are
part of the specification, so the hypothesis is what keeps `AliasesValid`: without it
the value that the statement `v` of a body left on the stack points to freed memory once
the function is defined again (a finding). `values_alias` shows that `AssignStores`
fails without it. Ownership is proved with aliases as well: a value with tag `symbol`
owns nothing, so it can dangle but not free. `IInv` is `TypeOK` and `Sound`, a predicate
of the memory, the variables, the stack and a set of blocks that a handler holds between
taking a value off the stack and giving its block away. Each primitive of the code (pop,
free, allocate, push, copy into a variable) has a lemma that takes a sound memory to a
sound memory with more or fewer blocks held, and a handler is a chain of them that ends
with none held.

### Traversal

`TraverseProofs`:

| theorem | hypothesis | states |
|---|---|---|
| `TypeCorrect` | | `TypeOK` |
| `ErrorsStop` | | `ErrorStopsLine`: after an error no handler is begun, no counter changes, and a handler pushes at most one value, as its last act |
| `PlainPopsOwn` | `Grammar(g)`, no faults | `PopsOwn` |
| `PlainNoCrash` | `Grammar(g)`, no faults | `NoCrash` |
| `PlainFlagsClear` | `Grammar(g)`, no faults | `FlagsClearAtPrompt` |
| `PlainJumpsObeyed` | `Grammar(g)`, no faults | `JumpsObeyed` |

The first two hold for all trees. The others need a hypothesis, since the code
has defects: `Faults = {}` and a `g` with `Grammar(g)`. `Grammar` excludes exactly what
section 3 lists for `traverse_plain`. The trees of that run have such a `g`
(`PlainLinesFit` in `MCTraverse`, an assumption that TLC evaluates), so the hypothesis is
satisfied by programs with every kind of jump; the theorems extend the run to
trees of any size and nesting.

`PopsOwn` is not inductive: a handler finds its own values on the stack only if the
one it called left exactly one, or none if it was a statement. The invariant `PInv(g)`
therefore speaks of all handlers in progress. `Linked` says that each is at a place of
its kind of node (`Proper`), that it began where the one below it stands (`Below`),
and that it executes something the grammar allows there (`Visits`). `Mode` says how a
jump is on its way, in four cases: none is (`Calm`); the counter of return is raised
while the value of the return is evaluated (`Giving`); break or continue is on its
way to a loop; return is on its way to a call (`Leaping`). In the last two there is a
handler that will take the counter back, and between it and the top there are only
`if` statements that are finished. That needs the rule that jumps are the last
statement of their block. In each case the number of values on the stack is known
(`Stacked`).

### Arithmetic

`LibmProofs` and `ArithmeticProofs`, under `LibmAssumption` (operations are those of the
language, exponents are integers, numerals have a natural number of digits):

| theorem | hypothesis | states |
|---|---|---|
| `NumeralsExact` | | `LiteralExact`: a numeral is scaled by exactly its exponent |
| `TypeCorrect` | | `TypeOK`: every operation ends in one of the ways there are |
| `PowersKept` | `ValueOperands` | `PowerKept`: the loops for powers keep the power |
| `ResultsRight` | `ValueOperands` | `RightOrTold`: a result without a message is what is meant |
| `ConformantsAnswered` | `ValueOperands` | `ConformantAnswered`: operands that fit are answered |

`ValueOperands` says that the operands are numbers, strings, and vectors and matrices of
integers that are not empty, of any size; those of the run are. The exceptions in
`KnownDefect` and in `ConformantAnswered` are those of the run. The proof unfolds each case
of `eval.c` once for vectors and once for matrices: what the loop over the elements
computes (`VectorsZipped`, `MatricesZipped`, ...) is the function on positions that
`Meaning` is (`Each`).

A product of two vectors or matrices is, in the model, a fold over a row and a column,
as GSL computes it; in `Meaning` it is a `Contraction`: one definition for values with any
number of positions, which folds over a set of indices in whatever order `SetToSeq` puts
them. Both are recursive definitions of the library, in terms of `MapThenFoldSet`. They
meet in `SumTo`, a sum with an index that runs from 1 to n: `DotIsSum` and
`SumInAnyOrder` say that each fold is that sum, by induction over a set of numbers
(`Inductive`), and `ContractionForm` that a position of the product is cut in one way into
one of the first and one of the second operand. `ProductOfVectors`,
`ProductOfVectorAndMatrix`, `ProductOfMatrixAndVector` and `ProductOfMatrices` are the four
operations of `libm.c`.

The loop of a numeral halves the amount of the power and doubles the exponent of what
it multiplies with; `LiteralInv` says that what has been scaled and what is to do
together are the power, and `Halved` that a turn of the loop moves the lowest bit from one
to the other. `PowInv` says the same of powers. Its proof is the same for digits and
matrices, since it only uses that the values of one form, with the product of the
reference, are a monoid (`NumsMonoid`, `GridsMonoid`): associativity of the product of
matrices is the exchange of two sums (`SumsExchanged`), and the matrix with ones on the
diagonal is its unit. The loops need no more than that - in particular not that the
product of matrices commutes, which it does not. The powers of the reference definition
are a recursive function, whose existence (`PowersExist`) and laws (`PowerSteps`,
`PowerOfSquare`) are proved for every monoid.

### Lexer

`LexerProofs`, for every text and all sets of names and digits (`LexerAssumption`: no
digit is a letter, and neither is one of the characters that the lexer names):

| theorem | states |
|---|---|
| `CharactersKept` | token and rest are the text but for blanks and comments, and the character behind a minus that is no sign |
| `TokensAdvance` | every token but the one for the end leaves a shorter text |
| `WordsWhole` | words and numbers are read to their end; a word is a keyword exactly if it is in the table |
| `LongestLexemeOfEveryText` | `LongestLexeme`: no name, number or pair of characters is longer than the token that begins where it begins |
| `EveryCharacterReadOfEveryText` | `EveryCharacterRead`: the texts of all tokens are the text without blanks and comments |

The first three are about one call of `get_next_token` and assume that it does not read
for ever (`"ENDLESS"`), which it does in a comment or a string that the end of the file
interrupts. The last two are about all tokens of a file. Their one hypothesis,
`text \in Text`, says that the file is a sequence of characters; `EveryCharacterRead`
leaves out the same files as in the run `reader`, which checks both for texts of up to
four characters. `AllTokens` and `CharactersRead` are recursive functions on texts: they exist
(`ReadingExists`) since every token leaves a shorter text (`TokensAdvance`), and what is
true of a text if it is true of what its first token leaves is true of all texts
(`ReadingInduction`). For `LongestLexeme` that reduces everything to one token, where each
kind of token is compared with each kind of lexeme. For `EveryCharacterRead` the step is
to count: the first token takes characters from `i + 1` to `j` and leaves those behind
`m`; whatever is passed over before `i` and between `j` and `m` is passed over in the
text, and a character behind `m` is passed over in the text exactly if it is in the
rest (`Shape`).

### Checked by TLC only

* Liveness (`InsertEnds`, `ErrorEnds`, `LoopsEnd`), and that lines advance: fairness and
  `ENABLED` are out of the prover's reach.
* Everything in `Parser`, and of `Reader` all but the two properties of `Tokens`. The
  parser is built from `RECURSIVE` operators, as the code is from recursive functions,
  which the provers cannot use. This leaves `TypeOK`, `TreesHoldText`, `JumpsInLoops`,
  `GoodTextsEnd`, `GoodLinesParsed` and `LinesAdvance` of the run `reader` to TLC.
* `Traverse` outside the grammar and with faults, but for types and `ErrorStopsLine`.
* The four runs that end in a violation: they show a defect, and there is nothing to
  prove.

## 5. Not modelled

The pointers from an operator node to the node after its left operand
(`as_tree.c:176`, `as_tree.c:213`): the tree of `Parser` has a node's operands as its
children, and nothing walks along those links. Which element of a vector an index names,
and indices outside it. Floating point: rounding, overflow, the quotients of GSL. The
destructors of the tree: one call per child, of trees that share no nodes. Formatting
and messages, files and the command line, running out of memory (the program ends). The
overflow of the exponent of a numeral. The values of parameters, and with them that a
nested call of a function overwrites them. `hash_table_insert`, `hash_table_replace`,
`symbol_table_lookup_top` and `purge` have no callers; of these only replace is
modelled. `include` is a keyword without a statement.

## 6. Plan

Done, in this order: `Scopes` and `Calls` with their proofs, `HashTable` with `Dict`,
`Traverse`, `Values`, `Lexer`, `Parser` and `Reader`, `Libm`; then the proofs about all
of them but `Parser` and `Reader`. Next:

1. `Bindings`: parameters, locals and captured names with values, on top of
   `Calls`; arguments evaluated in the callee's scope; element assignment with
   the type of parse time.
2. Proofs: the types of `Reader` and that a line uses up its tokens, once the
   parser is a recursive function instead of `RECURSIVE` operators; `Traverse` with
   faults: what an error leaves on the stack and in the counters.
