# Verification of the Adobe Source Libraries

TLA+ specifications of parts of the Adobe Source Libraries (ASL), the TLC
configurations that model-check them, and proofs that TLAPS checks. Paths below
are relative to `src/`; `adam.cpp` is
`adobe_source_libraries/source/adam.cpp`, and the other `.cpp` files named are beside it;
`adam.hpp`, `closed_hash.hpp`, `copy_on_write.hpp`, `forest.hpp` and
`circular_queue.hpp` are in `adobe_source_libraries/adobe/`, `lex_shared.hpp` in
`adobe/implementation/` there, `eve.dox` and `forest.dox` in
`adobe_source_libraries/documentation/asl/`.

To check a run: `tlc -config AdamFlow_edit.cfg MCAdamFlow` (the module of each run
is in the table of runs). To check the proofs: `tlapm AdamFlowProofs.tla`.

## 1. Inventory

ASL is a C++ library for user interfaces that are described declaratively, and the
containers, value types and parsers this needs. Its own core logic is in four places:
the property model *Adam*, the layout engine *Eve*, the node-based containers under
both, and, in `platform_release/`, the controls and document models above them.

| component | state | operations | hard behaviour | what makes it correct |
|---|---|---|---|---|
| **Adam, flow** (`adam.cpp`, update and flow) | interface cells with priorities; relate clauses; per cell `relation_count_m`, `resolved_m`, `term_m` | add_interface, add_relation, set, touch, update | cells pushed while the loop pops; counts taken down in five places; unstable sort; priorities that drift with every update | counts exact; the loop ends; each clause applied once; lower priority gives way to higher; derivation acyclic and repeatable |
| **Adam, evaluation** (`adam.cpp`, get, calculate, update, reinitialize, monitors) | values, `evaluated_m`, `dirty_m`, contributing sets, the get stack, monitors | get, inspect, update, set, reinitialize, monitor_value, monitor_enabled | recursion through expressions in hash order; caches within an update; exceptions half-way; which half of a cell a read means | every cell holds its expression of what it reads; monitors know the last values; stacks balanced; calls return |
| Adam and Eve evaluators | none | forward parser callbacks | — | — |
| **Expression parser; lexers** | characters put back; a ring of two tokens; values moved out of it | lex, get, put back, parse to postfix code | look-ahead of two tokens in a ring that checks no overflow; a token got twice, or after its value was moved out | the tokens of the text in order; the text accepted exactly if the grammar derives it |
| Adam and Eve statement parsers | position | forward each statement to the evaluators | error paths | each statement once |
| Expression filter | none | rewrites expressions | — | same value |
| **Virtual machine** | value stack, lookup functions | evaluate | short circuits; an evaluation in the middle of another on the same stack; operands an exception leaves there | what the expression means; no evaluation touches what lies below |
| **Eve layout engine** | a forest of views with extents, guides and placements | add_placeable, evaluate, adjust, set_visible | passes down and up until the guides of all levels agree; state kept from one adjust to the next | the loop settles; children inside parents, apart, on their guides; a resize forgets the last |
| **`forest`** (in part) | nodes with leading and trailing edges | insert, erase, splice, iterate | links name a node and the edge is guessed from them; filtered walks | links well formed, traversal visits each edge once |
| **`closed_hash_set`, `closed_hash_map`** | one array of nodes in a used and a free list | insert, erase, find, reserve, copy, clear | elements displaced by inserts and by erases; rebuild in the middle of an insert; throwing copies | a map; no node lost; find exact |
| **`circular_queue`** (in part) | ring buffer with an empty flag | push, pop, put back | full and empty look alike | a bounded queue |
| **`copy_on_write`** | objects with an atomic count; one default instance behind a `once` | construct, copy, move, assign, write, read, destroy, from any thread | the count is read before the use; another thread copies, drops or throws in between; exit | handles behave as values; no race; freed once |
| Names, string pool, `once` | an interned set behind a mutex | intern, initialize | concurrent first use | one address per string |
| Other containers, value types | element data | STL-like | — | — |
| Strings, Unicode, digests, XML, formatters | none | conversions | — | — |
| External model | a map of cells with monitors | set, get, monitor | callbacks | monitor in sync |
| Sequence model, views, controllers | elements with keys, attached views | insert, erase, replace, push to views | view callbacks during a change | every view equals the model |
| Binary file description | a tree over a file | run | forward references | — |
| Notification helpers, window server, presets, popup, edit number, visible-change queue | small state around callbacks | set, toggle, display | callbacks that call back | flags and callbacks paired |
| Menus, cursors, drag and drop, dialogs, keyboard | wrappers of the operating system | — | — | — |

How they interact. A parser calls the evaluators, which call `add_*` of a sheet. A
sheet gives its expressions to the virtual machine, which calls `get` of the sheet
for each variable; `get` calls `calculate`, which runs the machine again: the sheet
and the machine are mutually recursive. Eve keeps its views in a `forest` and walks it
with filtered iterators in every pass; the widgets under it measure themselves when it asks.
`update` calls monitors, which change widgets and through them call `set` and then `update` again. The indices of a
sheet (`name_index_m`, `output_index_m`) are hash tables built on the closed hash,
so the order in which cells are evaluated and reinitialized is that of a hash.
Everything but names, reference counts and `once` runs on one thread;
"concurrency" in Adam is the interleaving of one call's loops, recursion,
exceptions and callbacks.

`PROJECT.json` lists the components with their sources and status, and the hazards
at their lines.

## 2. What is modelled

### The flow solver: `AdamFlow`, `AdamFlowHistory`

`AdamFlow` is `sheet_t::implementation_t` without values: interface cells,
priorities, clauses, conditionals, and the loop of `flow` step by step. Names
are the code's: `relation_count` is `relation_count_m`, `stack` is the vector
`cells`, `cell` the cell whose relations the inner loop reads.

| action | code |
|---|---|
| AddInterface, AddInterfaceRefused, AddRelation | add_interface, add_relation |
| Set, SetInput, Touch, Reinitialize | set, touch, initialize_one under reinitialize |
| BeginUpdate | update: clear_dirty, clear_resolved |
| ConditionalHolds, ConditionalFails, ConditionalThrows, EndConditionals | the loop over the conditional relations |
| BeginFlow | flow: the sorted vector of cells |
| SkipCell, PopCell | the head of its loop |
| PassRelation, ApplyRelation, EndCell | the loop over the relations of a cell |
| EndFlow, EndUpdate | the end of flow, and of update |

A clause is a set of terms, a term a set of cells; the code walks its vectors in
the order of the sheet, the model in any order, and sorts by priority in any way
`std::sort` may. A `size_t` that is only compared with zero is an integer, so an
underflow would be seen as a negative number. Cells whose conditional throws leave
`update` by the exception and the state as it was.

`AdamFlowHistory` adds history variables (priorities at the start, what was
applied, what the last update did) and states what a flow promises.

### The sheet: `AdamSheet`, `AdamSheetHistory`

`AdamSheet` EXTENDS `AdamFlow` and uses its actions; it adds values, initializers,
`get` and `calculate`, the loop of `update`, exceptions and monitors. C++ calls in
progress are a stack of frames: an expression being evaluated for a client
(`client`), an initializer (`init`), a conditional (`when`), a cell of update's
loop (`output`), a cell another expression reads (`get`), or a term of a clause
(`term`). What an expression does next is the constant operator `Step`: read a
variable, return, or throw. The branches of `get` are ReadInitializing, ReadTerm,
ReadInput, ReadCached and ReadCalculates, one for each early return of the code;
Throw is every way an exception leaves; Notify is the end of `update`, from the
invariants to the monitors.

`AdamSheetHistory` records the inputs at the last update, what it left, and what
the client changed since, what the cells held when reinitialize began, and states what a
client sees. The monitors of the model
do not call back.

### The hash table: `ClosedHash`, `ClosedHashLoop`, `HashedMap`

`ClosedHash` is `closed_hash_set` node by node: `next` and `prior` links, the state
bits (home, misplaced, free), and the operations on tables as operators composed
exactly as the code composes `set_next`, `skip_node` and `splice_node_range`.
Growing and copying take one step for each element, so that states in the middle,
with elements in both tables, are seen, and so is a copy that throws there.
`movable` chooses between elements that are moved and elements whose copies may
throw. `HashedMap` is the abstract specification, a map; `ClosedHash` implements it
under `map <- MapOf(Held)`, the elements of the table and, while elements are being
moved, of the new one. `ClosedHashLoop` adds the client's loop
`it = erase(it)` / `++it`.

The map has the capacities in `PrimeTable` as a bound; a call that would need a
larger one is not taken.

### The layout engine: `Forest`, `Eve`, `EveLayout`

`Forest` has the links of `forest.hpp` node by node, with the operators the code has:
`increment` and `decrement` find the edge a link leads to from how the two nodes
are linked, `insert` relinks with `set_next`, and the filtered ranges (`preorder_range`,
`postorder_range`, `child_range`) walk with `filtered_increment` and skip what is below a
hidden node. `Eve` uses it for `proxies_m`.

A view is a `view_proxy_t`, with one record for each slice (horizontal, vertical): the
extents it measured, the place it got, its container length, and the guides
forward and reverse. Every pass of the code is an operator from the views to the
views, applied in the order of the pass:

| action | code |
|---|---|
| AddPlaceable | add_placeable: a view before the end (or, right to left, the beginning) of its parent |
| set_visible | set_visible |
| Evaluate | evaluate: every visible view calculates in postorder, then adjust |
| AdjustCall | adjust |
| AdjustPass | calculate_vertical, adjust and the first solve_up of a slice |
| SolveRound | one turn of solve's loop, a pass down and a pass up, with its limiter |
| LayoutPass | layout, adjust_outsets, flatten; then the vertical slice, or the end |

`SolveUpWith`, `SolveUpCross`, `SolveDownWith`, `SolveDownCross`, `LayoutWith` and
`LayoutChildCross` are the member functions of nearly these names, *with* along a
row or column and *cross* over it. A layout may throw (an exhausted proportional row)
and leave what it had placed. `lround` of a NaN is any of `NaNRounds`.

`EveLayout` states what a layout promises. Its four named exceptions (EndGuided,
StretchedGuided, AloneProportional, EndFilled) are things the code does to particular
alignments, listed below with their lines.

### Reference counts: `CopyOnWrite`, `ValueHandles`

A step is one atomic operation on a count or one use of memory, so every interleaving of
two threads that the hardware could order is seen. Default construction goes through
the `once` of `once.hpp`: the first thread runs `init_default` and may throw, the others wait.

| action | code |
|---|---|
| DefaultConstruct, Construct, ConstructFrom, AssignFrom, Assign, Write, Read, Destruct, Exit | a thread begins a call |
| EnterOnce, InitDefault, InitThrows | call_once and init_default |
| Copy, Move | the constructors, and the parameter of operator= with its swap |
| Check, Access | is_one, and the change in place it allows |
| Allocate, Duplicate, AllocateThrows | allocate_move, allocate, and their exceptions |
| StartRelease, Decrement, Destroy | release: count down, and at zero destroy and deallocate |
| EndRead | the end of a read |

No thread uses a handle another modifies, as with any value type; after exit has run
`release_default` no default constructor runs (the library has no answer to one that does).
`ValueHandles` is the abstract specification: every handle has a value of its own, and a
call takes effect at one moment or throws without effect. `CopyOnWrite` implements it under
`val <- ` the value of the object a handle refers to.

### Expressions: `ExpressionValues`, `Lexer`, `ExpressionParser`, `VirtualMachine`

`Lexer` is `lex_stream.cpp` character by character, with the stack of
characters put back; `ExpressionParser` the recursive descent of
`expression_parser.cpp`, over the ring of two tokens of `lex_shared.hpp`, every path of
failure included: a part not found puts its token back, a required one throws.
`ExpressionValues` has the operators on values with their type errors. `VirtualMachine`
runs the code the parser made, and composes the three the way a sheet uses them:

| action | code |
|---|---|
| Write | the client adds a spelling to its text |
| Evaluate | the parser reads it, rejects it or gives its code to evaluate |
| Literal, UnaryOperator, BinaryOperator, IndexOperator, LogicalOperator, IfelseOperator, ArrayOperator, DictionaryOperator, FunctionOperator, VariableOperator | one item of the code each |
| Return | an evaluate ends: of the client, of a branch, or of a lookup |
| Again | the client goes on with the machine as the last evaluation left it, or with a new one |

A variable is a value, throws, or is defined by a text of its own that is evaluated on
the same machine in the middle of the first, as a sheet's cells are.
`ExpressionMeaning` is the reference: it says what a text means from the
grammar alone, by splitting it in every way a rule allows, and is written from
the rules in the comments and the documentation, not from the parser's control flow.

## 3. The runs

| run | module | what it checks | bounds | states |
|---|---|---|---|---|
| AdamFlow_edit | MCAdamFlow | TypeOK, CountExact, LosesOnlyToHigher over every sequence of building, editing and updating | 3 cells, 2 clauses of single-cell terms, 2 raised priorities, 2 lowered | 938 000 |
| AdamFlow_built | MCAdamFlow | CountExact, NeverOverConstrained, EachAppliedOnce, DerivedBelowContributors, LosesOnlyToHigher, DerivationAcyclic, Repeatable, UpdateEnds (liveness) over repeated updates of every built sheet | 4 cells, 3 clauses (2 with any disjoint terms), all or two cells linked, distinct or equal priorities; and 3 cells, 1 or 2 clauses whose terms may share cells | 702 000 |
| AdamFlow_sharing | MCAdamFlowLoop | CellLetGo, refuted | 3 cells, 2 clauses | — |
| AdamSheet_client | MCAdamSheetHistory | ValuesRight, MonitorsInSyncUnlessFailed, EnabledInSyncUnlessFailed, ContributingComplete, Quiet, ClientSeesOutputUnlessFailed, Reinitialized, EnabledConservative | 12 sheets of 2 or 3 cells, every order of the hash index | 721 000 |
| AdamSheet_calls | MCAdamSheet | SheetTypeOK, OwnNameOnTop, RefusesOnlyCycles, CallsReturn | 8 sheets, cyclic and failing ones included | 21 000 |
| AdamSheet_filter | MCAdamSheetHistory | ValuesRight, refuted | a filter that reads its cell twice | — |
| AdamSheet_leak | MCAdamSheetHistory | ClientSeesOutput, refuted | a cell whose filter throws | — |
| AdamSheet_order | MCAdamSheetHistory | ReinitializedInSheetOrder, refuted | `a` initialized from an input, `b` from `a` | — |
| Eve_layout | MCEve | SolveSettles, ChildrenInside, SpacingKept, GuidesMeet, ResizeForgets over sequences of evaluate, adjust and set_visible | 45 trees of 3 to 7 views, rows with uneven spacing among them, two text lengths, sizes measured or 40, one view that hides | 13 000 |
| CopyOnWrite_threads | MCCopyOnWrite | CountsReferences, NoDataRace, ImplementsValues, CallsReturn | 2 threads, 2 handles, 3 objects, 2 values | 303 000 |
| VirtualMachine_evaluate | MCVirtualMachine | TokensInOrder, AnswersMeaning, KeepsOperandsBelow over every text of an alphabet | 10 alphabets, texts of 3 to 12 spellings, at most 2 operands left over | 525 000 |
| ClosedHash_map | MCClosedHash | NoNodeLost, FindsExactly, ClearEmpties, VisitsEachOnce, ImplementsMap | 4 colliding keys, 2 payloads, capacities 3, 7, 17 | 130 000 |

Why the bounds are enough. Two clauses over three cells give every way two
clauses can compete for a cell, chains, and cycles; three clauses over four cells
add branching chains and over-constraint by a third clause. With two clauses or more an unresolved
cell may be held by another clause, so that cells are put back on the stack while the
loop pops it, which is what UpdateEnds is about; with terms that share cells the counts may
go wrong as well (AdamFlow_sharing), and the loop ends all the same. Priorities matter only
by their order, so two raises and two lowerings give every order of three cells. In
the runs of built sheets the cells are named in the order of their priorities, a
symmetry of the solver. The sheets of the AdamSheet runs are chosen for one mechanism each (a
conditional, a filter that reads more, an initializer chain, a logic cell read by
two others, an expression that throws, a cycle) and the runs enumerate every order
of client calls, every value of two, and every order of the hash index (of sheets
with three interface cells, one order). In the hash table, four keys have
buckets 0 0 0 1 with capacity 3 and 0 3 0 1 with capacity 7: a bucket of three, a misplaced
element at another's home, and one rebuild with displacement both before and after;
17 is never exceeded with four keys.

The trees of Eve have a container of each kind over leaves of each alignment, two rows
whose guides must agree through the window, and a row in an overlay in a row, where
guides travel through three levels; that the loop needs more than one round is shown by
the mutant of SolveDown. Whether a size is measured or given matters only in that it may leave
room to share out; 40 leaves room in every tree. The rows of three with the spacings
`<<5, 0>>` and `<<0, 2, 1>>` tell the position of each value apart: a value that is taken for
the space before another child shows. The tree is complete before the first
layout, and adjust is called only when every view shown was calculated: a view has no
extents before its first evaluate.

Three objects are what two handles and the default instance can hold, so that memory
runs out exactly when a copy is being made; two threads give every pair of calls.
The alphabets of the expression run are chosen for one part of the grammar each: spellings
that share their beginnings (`<`, `<=`, `<==`, `truex`, `0xg`, `/**a***/`), each level of
operators, conditionals, indices, dictionaries and named arguments, calls, nested parentheses.
Within one every text up to the length is tried, except that a text is not
continued behind two tokens that stand together in no expression (`Plausible`): it is
rejected there, and what follows is never read.

Every property has a mutant of the code (a dropped counter, a missing reset, a wrong
order) that breaks it under the same configuration; they are the operators marked
"Mutant" beside the definitions they change.

### Fairness

One call is one thread that runs to its end. `AdamFlow` therefore assumes weak
fairness of the steps of an update that has begun (`Conditionals \/ Flow \/
EndUpdate`), `AdamSheet` of every step inside a call (`Reinit \/ Evaluate \/
Updating \/ Answering`). No fairness is assumed of the client: nobody has to call
`update`. UpdateEnds is checked of the built sheets, with that fairness (BuiltSpec). It and CallsReturn say that the loops and the recursion end, which
is the code's own doing (the stack of cells shrinks, the depth limit stops cycles).

`CopyOnWrite` assumes weak fairness of each thread's own step: a preemptive scheduler lets
every thread run, and its CallsReturn then says that no thread waits for ever in `call_once`.
A thread is not promised to overtake others whose `init_default` keeps throwing.
`Eve` and `VirtualMachine` state safety only and assume no fairness.

### Where code and documentation disagree

Four disagreements have a run whose property TLC refutes:

* *AdamFlow_sharing.* `adam.cpp:1218` asserts "Cell still belongs to relation but
  all relations resolved." With clauses whose terms share a cell the assertion
  fails; with disjoint terms it is a theorem (CellsLetGo).
* *AdamSheet_filter.* `get` returns the derived value only for the first read of
  a cell by its own filter (`adam.cpp:1545`), so that a filter that reads the
  cell twice mixes the derived value and the old input.
* *AdamSheet_leak.* When an expression in update's loop throws, the name that
  `update` pushed stays on the get stack (`adam.cpp:1287`), and a later `get` of that cell,
  after an update that succeeds, returns its input half.
* *AdamSheet_order.* `adam.hpp:463` says that cells are initialized "in sheet order";
  `adam.cpp:1400` walks the hash index, whose elements are in the order of their hashes, the newest
  first (`closed_hash.hpp:495`). A cell whose initializer reads another that the index has behind it
  takes the value that one is about to lose. What is right in every order of the index is
  Reinitialized, which is proved.

Others were met while modelling and are noted at the properties that are weaker for
them; they have no run of their own:

* `get` takes a name on top of the get stack for a read by that cell of itself (`adam.cpp:1541`),
  but only interface cells put their names there. When an interface cell `a` and an output `o`
  read each other, `o` reads the input half of `a` in the middle of the evaluation of `a`: the
  cycle is not detected, although `adam.cpp:1527` throws for one, `o` is calculated twice in one
  update, the second time to the value it has already, its dirty mark is taken back and its
  monitor is not called (`adam.hpp:297`). This was found by the proof of MonitorsTold, whose
  invariant needs that such sheets are excluded (Layered). TLC finds it in AdamSheet_client.cfg
  with `Chosen = {"entangled"}`: MonitorsInSyncUnlessFailed fails.
* `adam.hpp:273` says exactly one relation of a relation set is evaluated; a clause whose
  terms share a cell may end without any (EachAppliedOnce assumes disjoint terms).
* `adam.hpp:296` says a monitor is called when the value changes; after an update that
  throws, a changed value may never be told (MonitorsInSyncUnlessFailed).
* `adam.hpp:365` defines the enabled state by three sets, and the monitors are called when
  two of them change; the comment at `adam.cpp:439` knows it (EvenlyAccessed).
* `adam.hpp:337` calls the enabled state conservative; with two conditionals, a cell that the
  second reads is evaluated before all contributors of the conditionals are known
  (`adam.cpp:1257`, EnabledConservative).
* `documentation/stldoc/hashedassociativecontainer.dox:723` keeps iterators valid across
  a resize, and `closed_hash.hpp:145` checks the concept; `reserve` frees the nodes
  (`closed_hash.hpp:349`).
* `eve.dox:80` says that of the spacing of a container with N children the first N - 1 values are
  used, for the spaces between them, and a single value for all of them. The solver takes value i as
  the space before child i and repeats the last one (`eve.cpp:1171`), so that with two values or more
  value 0 lies before the first child instead of behind it. The parser hides this
  by putting a 0 before the values of a text (`eve_evaluate.cpp:340`): `spacing: [5, 0]` is as
  documented. A client that fills `layout_attributes_t` itself by the documentation gets every space
  one child late. SpacingKept follows the solver, with the value of each space told apart.
* `eve.dox:14` and `eve.dox:225` describe alignment and fill; a `reverse_fill` view placed across
  a container gets the length of a filled one and the position of one that is not (`eve.cpp:1118`,
  `1121`, EndFilled); a guided leaf aligned to the end of a row moves by its guide's whole
  distance from that end (`eve.cpp:922`, EndGuided); one in a row longer than measured is put back on its
  guide over the view before it (`eve.cpp:996`, StretchedGuided); and a proportional view
  alone in its row is placed by `0.0 / 0.0` (`eve.cpp:1024`, AloneProportional).
* A second adjust starts from the outsets of the first, so they only grow (`eve.cpp:785`);
  ResizeForgets leaves them out.
* A lone quote at the end of a text is an empty string (`lex_stream.cpp:457`), and `1.2.3`
  is read as 1.2. `{}`, `@` before a keyword, and unary `+` of any type are accepted,
  which the grammar in the documentation does not have.
* `circular_queue.hpp:103` says a queue is full when its size is its capacity; a copy of a
  full queue has its end behind the array instead of at its beginning (`circular_queue.hpp:341`) and
  is not full.
* When a constructor of the value throws, `copy_on_write` frees the memory with the allocator
  in a header that is not constructed, or destroyed already (`copy_on_write.hpp:292`, `309`).
* `forest.dox:262` promises the position of what was inserted; `insert` of a
  range returns another (`forest.hpp:885`). The const `filter_fullorder_range`
  passes its arguments in the wrong order and cannot be instantiated (`forest.hpp:1048`).

## 4. What is proved

All theorems hold for every value of the constants that satisfies the named
assumptions of the modules: finitely many cells, clauses of nonempty terms over them with
at least two terms that differ (the parser demands a second relate expression,
`adam_parser.cpp:420`), bounds that are naturals; in AdamSheet, names of different kinds that
do not meet, and sheets whose clauses are a sequence and whose cells have an expression of their own
(NamesAssumption, SheetsAssumption); in AdamSheetHistory, expressions that read at most MaxReads
variables, which is to say that they have no loop, and a get(name) of the client that
reads the name and returns it (ReadsAssumption; initializers too have no loop); in ClosedHash, a hash of natural numbers, positive capacities, and a `None` that is no
element; in CopyOnWrite, finitely many threads and handles, and markers (no object, a dead
handle, no call) that are none of what they are told from.

**`AdamFlowProofs`**

* *TypeCorrect*: `Spec => []TypeOK`.
* *CountsExact*: `Spec => []CountExact`. `relation_count_m` counts the unresolved
  relations that still hold a cell, so it never underflows. CountExact alone is not
  inductive: PassRelation needs that the cell being read is resolved (CellRead), and
  ConditionalFails that the relations that are resolved so far were evaluated earlier
  in the same loop (CountStart). CountInv adds both and TypeOK. The step that
  matters is ApplyRelation, where three groups of cells lose the relation and
  each of them in another part of the code; the disjointness of terms is needed exactly there.
* *CellsLetGo*: the code's assertion, from CountExact at the end of the inner loop.

**`AdamFlowHistoryProofs`**, for every sheet, whether terms share cells or not

* *NoDerivationCycle*: `HSpec => []DerivationAcyclic`, of forests and of clauses with terms of one cell.
* *DerivedGoBelow*: `HSpec => []DerivedBelowContributors`.

Both rest on a ledger (Ledger): what `applied` holds is exactly the resolved active clauses,
each with one of its terms, and `term` names only what is in it. In a forest a cycle of
derivations would be a set of clauses with too many shared cells (ForestAcyclic). With terms of one cell the other
cells of an applied clause are resolved already (Contributors), so a clause that derives its term
adds an edge to a cell that no derived cell depends on: Acyclic says that every set of cells has one
that depends on none of the set, and needs no paths. Below is the priority that ApplyRelation gives the
derived cells, kept because no priority is below `priority_low` (Lowest).

and, for sheets whose active clauses have terms that share no cell (Orderly),

* *OverConstrainsNothing*: `HSpec => []NeverOverConstrained`. An unresolved clause has two
  open terms, or one while the loop is still to read it (StillOpen).
* *AppliesEachOnce*: `HSpec => []EachAppliedOnce`. `flow` ends with an empty stack, so no
  cell is held (Exact: the counts are exact for the active clauses), and then no clause is unresolved.
* *HigherPrioritiesWin*: `HSpec => []LosesOnlyToHigher`.

The last is the promise of the solver, and its invariant had to describe what the loop is in the
middle of (Wave): the stack below a mark holds the cells `flow` started with and has not
come to, in the order of their priorities; B are the cells whose own values were taken, none of them lower
than a cell below the mark; and W are the clauses applied since the last of them was
taken. Above the mark are only cells of W. Everything resolved follows from B, so a cell that
gives up its value does so to B, whose priorities are not below its own. That no cell is derived twice
in a forest needs besides that the clauses of W hang together (Connected, counted rather than
drawn: at least as many shared cells as a tree has): a further clause then meets them in one cell
only, the one being read.

**`AdamSheetProofs`**

* *FlowImplemented*: `SheetSpec => Spec`. Evaluation, exceptions and monitors drive
  the solver only by its own steps, so every theorem of the flow is one of the sheet;
  *SheetCountsExact* is the instance for CountExact.
* *NamesBalanced*: `SheetSpec => []OwnNameOnTop`. The invariant gives each frame a
  place in the get stack, and says that places go up by one at the frames that push and not
  elsewhere, and that the innermost one's is the top (Marks). What earlier failed updates have
  left lies below the first place, and does no harm to the frames above.
* *SheetTypeCorrect*: `SheetSpec => []SheetTypeOK`. That a value is made from interface cells only
  (`contributing`) is not obvious: initializers accumulate plain inputs in the same set, and an
  initializer that throws leaves them there. The invariant says to which phase an evaluation
  belongs (InPhase) and that what is accumulated under a value or a conditional, now or in a
  caller, is cells (Framed).
* *CyclesAreReal*: `SheetSpec => []RefusesOnlyCycles`, for any sheet with an interface cell: the
  depth limit of `get` and `calculate` refuses no read but one that has come back to a cell it is in the middle
  of. Every step changes the stack of frames in one of six ways (FramesStep), and every frame
  that counts is for a name of the sheet or for the term of an interface cell (CallInv). So a stack at the limit either has one of them
  twice (the pigeonhole), or has every name and a term of every interface cell. The second cannot be:
  `flow` leaves the cell it read first with its own value (FlowSourced), so not every cell has a
  term (Sourced).

**`AdamSheetHistoryProofs`**, for sheets that are layered: a cycle of reads passes from an interface
cell to an interface cell (Layered)

* *MonitorsTold*: `HSheetSpec => []MonitorsInSyncUnlessFailed`.
* *ClientSeesPublished*: `HSheetSpec => ClientSeesOutputUnlessFailed`.
* *ValuesCorrect*: `HSheetSpec => []ValuesRight`, if besides no interface cell reads itself twice
  (ReadsOnce).

Neither hypothesis can be dropped: the sheet "entangled" (section 3) is not layered and refutes
the first theorem, AdamSheet_filter refutes the third for a cell that reads itself twice. Cyclic
sheets are not excluded as such: that interface cells read one another in a circle is detected.
TLC evaluates the hypotheses of this module and the next for the sheets of AdamSheet_client
(HypothesesHold), so they are satisfied by every mechanism the runs know.

The invariant (HInv) is about the middle of an update. The evaluations in progress are a chain:
each has read, of other names, values that will not change any more in this update, and waits
for the next to give it the one it asks for (Follows, Waits, Chained). Two lemmas carry the
proof. A cell whose evaluation ends is nowhere else in the chain: an outer evaluation of it
would have read the same values and be waiting for one that the inner one went past (NotTwice).
And the name on top of the get stack is read by nobody but its own cell (TopIsOwn), which is
what the test in `get` relies on and where the layers are needed: between the two would lie a
cycle of cells that push no names. For it the invariant says which frame each name comes from
(Placed), and that its flag tells whether the cell has read itself (Flagged). Every evaluated
cell holds what its expression comes to from what it followed (Correct); an input half is
overwritten by the derived value only when its cell is evaluated (InputsKept); and a cell that a
conditional has evaluated is in no clause that could still derive it (Released). Told says that
a monitor that was not told the value of its cell watches one marked dirty. Nothing is
assumed of what expressions compute. That a run of an expression comes to what `Outcome`, the
reference in ValuesRight, computes is OutcomeIs: the recursive function there has one solution,
since two would have a least place where they differ.

**`AdamSheetClientProofs`**, on top of the invariants of the two modules before

* *ReinitializationCorrect*: `HSheetSpec => Reinitialized`, for every sheet that declares
  each name once (DeclaredOnce; `adam.cpp:759` throws otherwise) and every order of the index. Each stale
  cell ends with what its initializer comes to from the new values of the cells before it in the
  index and the old values of those behind it; a cell that is not stale keeps its value; and
  a cell that reads none behind it ends with what its initializer comes to, taken or passed
  over. Nothing is assumed of the order: where it is not the order of the sheet, the first part says
  which values are mixed, and AdamSheet_order shows it.
* *EnabledTold*: `HSheetSpec => []EnabledInSyncUnlessFailed`, of layered sheets in which the cells
  whose enabled state may be watched are accessed evenly (EvenlyAccessed): the priority of such a
  cell is accessed in every update or in none, because it is in a clause without a condition or in
  no clause; and in the second case its own expression reads it always or never. The code
  tells no monitor of a change of the accessed values alone, as its comment says
  (`adam.cpp:439`): without the hypothesis the property fails, for instance for
  a touched cell in no clause whose filter reads the cell only while an input holds.

For the first, Turning says what the walk has done so far: a value that differs from the one
reinitialize began with (`entered`) is of a stale cell the walk has come to, and each such cell was
given what its initializer came to from what it read by turn (ByTurn). What is read now is by turn
(TurnIsNow), since a name that is not before this one in the index has not been touched. For a cell that
is passed over, the argument goes back to the call before: it holds what its
initializer came to from what it read (FromInit), a name it read that is not in the future of the sheet
has not changed since (Settled), and this lasts while reinitialize gives new values to
others, because what contributed to a value that is not stale is not stale either
(Recorded, Kept). The initializer in progress has read in the same way (Initializing). For the second, Ruling says that every flow reads the clauses that have no
condition, so the priorities of their cells are accessed. Accessing says that an evaluated cell which
always reads itself has accessed its value, that no evaluation in progress has gone past its own
cell without doing so, and that no cell is accessed that never reads itself; it rests on
TopIsOwn, since only a read with the cell's own name on top counts. Answered compares what a
monitor was told with what two of the three sets give (Owed), and says that the third cannot
differ.

**`ClosedHashProofs`**

* *NodesKept*, *FindIsExact*, *ClearIsComplete*: `NoNodeLost`, `FindsExactly`,
  `ClearEmpties`.
* *MapImplemented*: `Spec => ImplementsMap`, the refinement of `HashedMap`.
* In `ClosedHashLoopProofs`, *LoopIsExact*: `LoopSpec => []VisitsEachOnce`, and *LoopIsAClient*:
  the loop is a client of the table, so the theorems above hold in it.

The argument has four layers. Lemmas about circular lists (RingSkip, RingSplice,
RingReplace) say what the three ways of relinking do; that no nodes form a circle of their own is stated as
"every nonempty set of nodes has one whose predecessor is outside of it", which needs no
induction. On them rest the effects of the steps that the operations are made
of (PutEffect, TakenOutEffect, MovedAwayEffect). The invariant of a table, `Good`,
adds to the lists that a misplaced element follows one of its own
bucket: `find` and the branch of `erase` that fills a home from its follower are
right because of it, and each operation is shown to keep it. Last, a rebuild has a
loop invariant (`Loop`): the old table's used list is split into a part that is done, whose
elements are in the new table, and the rest; when elements are moved the old
table's part is empty storage, and when they are copied the old table is whole, which
is why a copy that throws loses nothing. The loop that erases as it goes has a set of nodes it has
left behind (Before), closed under `next` but for the node it has come to; erasing that node
may put another in its place (the follower that fills a home), and it is this new one the loop
goes on with.

**`CopyOnWriteProofs`**, for any number of threads, handles and objects

* *CountsExact*: `Spec => []CountsReferences`: the count of an object is the number of handles that
  stand for it, plus the releases that are about to count it down, plus the default's own.
* *ThreadsDoNotRace*: `Spec => []NoDataRace`: no thread reads an object another is writing or
  destroying.
* *HandlesAreValues*: `Spec => ImplementsValues`, the refinement of `ValueHandles`: every handle
  behaves as a value of its own, and a call takes effect at one moment or throws without effect.

The invariant has a part for control (Control: where a thread can be in each call, that nobody
uses a handle another modifies, that one thread at most is in `init_default`) and one for the counts
(Counting). The counts alone are not inductive: `is_one` is read before the change in place
(`copy_on_write.hpp`, the write of a shared value), and what keeps it true until then is that
an object with count 1 is referred to by this handle only, whose other users the client excludes
(Held). ReferencesChange says what one step does to the sum: at most two handles, one
release and the default change, and every action is one instance of it.

**Only model-checked.** Liveness (UpdateEnds, CallsReturn), which is out of the prover's
reach. Repeatable compares two updates, and would need a relation between their runs. Quiet,
ContributingComplete and EnabledConservative compare two updates likewise. The layout (EveLayout) computes
with folds over forests: a proof is an induction over data. The expressions (TokensInOrder,
AnswersMeaning, KeepsOperandsBelow) stay with TLC: parser and meaning are recursive
operators, which the prover does not take.

## 5. What is not modelled

* Of Adam: `contributing()` and `monitor_contributing`, which only read what is
  modelled; monitors of invariants; callbacks that call back into the sheet
  (`adam.cpp:1353`); more than 1024 cells.
* Of the hash table: allocation failure, assignment or swap that throws, iterators
  held over a resize.
* Of the forest: erase, splice, insert of a range, reverse, copies, and the cache of the size.
* Of Eve: measuring itself, which is the widgets' (two-pass widgets have one of two heights).
* Of copy_on_write: constructors with an allocator of the client's, comparisons (two
  reads), and the build without threads.
* Of expressions: `/`, `%` and fractions; line positions and next_position; functions other than
  `max`, `typeof` and `scale`; replaced lookups; negative subscripts; the statement parsers of
  Adam and Eve and the comments between statements.
* The other components of the inventory. Conversions, formatting and type
  erasure have hardly any state and are not planned.

## 6. Plan

Done: AdamFlow, AdamSheet, ClosedHash with their abstract specifications and proofs, in this
order because the property model is the heart of the library and its indices are hash tables;
then Eve on Forest, CopyOnWrite (the code that runs on several threads), and the way
of an expression from its text to its value.

Next, in order of importance:

1. *SequenceModel*: keys, elements and views (`sequence_model.hpp`); the abstract
   specification is a sequence, each view a copy of it; refinement, with
   views that attach in the middle of a life, and keys that are never reused. 3 views, 3 elements.
2. *Forest*, the rest: erase and splice as actions, refinement of an ordered forest; shares
   the ring lemmas of ClosedHashProofs. 4 nodes.
3. Monitors that call back into the sheet from the loop of update.
4. *Names*: interning behind a mutex and its `once`. *Selections* and the table index.
5. The statement parsers, on the tokens of Lexer; the small state holders of `platform_release`
   (visible-change queue, presets, edit number, window server).

Proofs to come: that `insert` keeps the links of a Forest, and that its walks pass each node once.
