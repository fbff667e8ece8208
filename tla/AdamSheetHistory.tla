------------------------- MODULE AdamSheetHistory -------------------------
(***************************************************************************)
(* AdamSheet with history variables, and what a sheet promises its client. *)
(***************************************************************************)
EXTENDS AdamSheet

CONSTANTS
  Get(_),       (* the query that is a call of get(name)                   *)
  MaxReads      (* bound: variables one expression reads                   *)

-----------------------------------------------------------------------------
(* What expressions may read. *)
Reading == UNION {[1..k -> Value] : k \in 0..MaxReads}
ReadAt(e, vals, k, n) == Step(e, SubSeq(vals, 1, k)) = [do |-> "read", name |-> n]
MayRead(e, n) == \E vals \in Reading : ReadAt(e, vals, Len(vals), n)

(* The expressions that sheet s may calculate cell n with: its own, and for an
   interface cell those of the relate clauses. *)
DerivedAs(s, n) ==
  UNION {{s.relations[r].derive[t][n] : t \in {u \in s.relations[r].terms : n \in u}} :
           r \in DOMAIN s.relations}
Calculators(s, n) == {s.expr[n]} \cup DerivedAs(s, n)
MayFollow(s, n, m) == \E e \in Calculators(s, n) : MayRead(e, m)

(* An expression has no loop: it reads so many variables at most.  And get(name)
   reads the name, and returns what it has read. *)
ASSUME ReadsAssumption ==
  /\ MaxReads \in Nat
  /\ \A s \in Sheets : \A n \in DOMAIN s.expr : \A e \in Calculators(s, n) :
       \A vals \in [1..MaxReads -> Value] : Step(e, vals).do # "read"
  /\ \A s \in Sheets : \A i \in DOMAIN s.order : s.init[s.order[i]] # NoExpr =>
       \A vals \in [1..MaxReads -> Value] : Step(s.init[s.order[i]], vals).do # "read"
  /\ \A n \in Evaluable :
       /\ Step(Get(n), <<>>) = [do |-> "read", name |-> n]
       /\ \A v \in Value : Step(Get(n), <<v>>) = [do |-> "return", value |-> v]

(* Cycles of reads have two interface cells that follow one another.  An interface cell
   that reads an output or a logic cell made from it alone finds no cycle: its name is
   on top of the get stack, which holds names of interface cells only, and the
   output reads the input half of the cell ("we assume it must refer to an input
   cell", adam.cpp:1538). *)
Layered(s) ==
  \A S \in SUBSET DOMAIN s.expr : S # {} =>
    \E n \in S : \A m \in S : MayFollow(s, n, m) => n \in Cell /\ m \in Cell

(* No interface cell reads itself twice. *)
ReadsOnce(s) ==
  \A n \in Cell \cap DOMAIN s.expr : \A vals \in Reading : \A j, k \in 0..Len(vals) :
    ReadAt(s.expr[n], vals, j, n) /\ ReadAt(s.expr[n], vals, k, n) => j = k

(* No name is declared twice: a second declaration throws (adam.cpp:759). *)
DeclaredOnce(s) ==
  s.order \in Seq(Declared) /\ \A i, j \in DOMAIN s.order : s.order[i] = s.order[j] => i = j

(* Expression e reads n before it comes to a value, whatever it reads. *)
AlwaysReads(e, n) == \A vals \in Reading : Step(e, vals).do = "return" =>
  \E k \in 0..(Len(vals) - 1) : ReadAt(e, vals, k, n)

(* The cells of the relate clauses of sheet s, and of those that no conditional governs. *)
Related(s) == UNION {UNION s.relations[r].terms : r \in DOMAIN s.relations}
Ruled(s) ==
  UNION {UNION s.relations[r].terms : r \in {q \in DOMAIN s.relations : s.relations[q].when = NoExpr}}

(* A cell whose enabled state may be watched has its priority accessed in every update,
   or in none; its value, if that is what counts, in every update or in none. *)
EvenlyAccessed(s) == \A c \in Cell : s.touches[c] # {} =>
  /\ c \in DOMAIN s.expr
  /\ c \in Ruled(s) \/ (c \notin Related(s) /\ (AlwaysReads(s.expr[c], c) \/ ~MayRead(s.expr[c], c)))

VARIABLES
  start,        (* the inputs when the last update began                   *)
  published,    (* what the last update left, if it came to its end        *)
  changed,      (* the cells set since; all of them after a touch or       *)
                (* reinitialize                                            *)
  failed,       (* some update has thrown                                  *)
  pristine,     (* nobody has set or derived an interface cell             *)
  entered       (* the inputs; in reinitialize, those it began with        *)

ghostVars == <<start, published, changed, failed, pristine>>
shvars == <<svars, ghostVars, entered>>

Nothing == [state |-> <<>>, contributing |-> <<>>]

SHInit ==
  /\ SInit
  /\ start = input /\ published = Nothing /\ changed = {} /\ failed = FALSE /\ pristine = TRUE
  /\ entered = input

HBuild == (Build \/ Answering) /\ UNCHANGED ghostVars

HEvaluate ==
  /\ Evaluate
  /\ published' = IF Throws /\ frames[1].kind \in {"when", "output"} THEN Nothing ELSE published
  /\ failed' = (failed \/ (Throws /\ frames[1].kind \in {"when", "output"}))
  /\ UNCHANGED <<start, changed, pristine>>

HUpdating ==
  /\ Updating
  /\ IF Notify
     THEN /\ published' = [state |-> state, contributing |-> contributing]
          /\ changed' = {}
          /\ UNCHANGED failed
     ELSE /\ LET thrown == phase = "flowed" /\ phase' = "idle"
             IN  /\ published' = IF thrown THEN Nothing ELSE published
                 /\ failed' = (failed \/ thrown)
          /\ UNCHANGED changed
  /\ UNCHANGED <<start, pristine>>

HCalls ==
  /\ Calls
  /\ start' = IF phase' = "conditionals" THEN input ELSE start
  /\ changed' = IF priority_high' = priority_high /\ mode' = mode THEN changed
                ELSE IF input' = input THEN Cell \cup Input
                ELSE changed \cup {n \in Cell \cup Input : input'[n] # input[n]}
  /\ pristine' = (pristine /\ phase' = phase /\ \A c \in Cell : input'[c] = input[c])
  /\ UNCHANGED <<published, failed>>

HReinit ==
  /\ Reinit
  /\ changed' = Cell \cup Input
  /\ UNCHANGED <<start, published, failed, pristine>>

HEnter == entered' = IF mode = "reinit" /\ mode' = "reinit" THEN entered ELSE input'

SHNext == (HBuild \/ HEvaluate \/ HUpdating \/ HCalls \/ HReinit) /\ HEnter
HSheetSpec == SHInit /\ [][SHNext]_shvars

-----------------------------------------------------------------------------
(* What an expression comes to when each name it reads has the value env gives it. *)
Outcome(e, env) ==
  LET vals[i \in 0..MaxReads] ==
        IF i = 0 THEN <<>>
        ELSE LET s == Step(e, vals[i - 1])
             IN  IF s.do = "read" THEN Append(vals[i - 1], env[s.name]) ELSE vals[i - 1]
  IN  Step(e, vals[MaxReads])

Seen(m) == IF m \in Evaluable THEN state[m] ELSE input[m]

(* What is seen, but for n. *)
SeenBut(n, v) == [m \in Declared \cup Evaluable |-> IF m = n THEN v ELSE Seen(m)]

(* y': the value a cell's own expression reads of the cell.  A relation that derives
   the cell gives it, otherwise the input half as it was when the update began. *)
Unfiltered(n) ==
  IF term[n] = NoTerm THEN start[n]
  ELSE Outcome(TermExpr(n), SeenBut(n, start[n])).value

Ended == Resting /\ published # Nothing

-----------------------------------------------------------------------------
(* After an update every cell holds its expression applied to the values of the
   cells it reads; a cell that a relate clause derives and that has a filter of its
   own holds the filter of the derived value ("y' = x; y'' = round(y')", release
   notes of 1.0.42). *)
ValuesRight ==
  (Ended /\ changed = {} /\ ~failed) => \A n \in evaluated :
     Outcome(sheet.expr[n], SeenBut(n, Unfiltered(n))) = [do |-> "return", value |-> state[n]]

(* A monitor of a value was last told the value the cell has ("a callback for a cell
   to be called when the value of the cell changes"). *)
MonitorsInSync ==
  Ended => \A n \in Indexed : told_value[n] \in {Unmonitored, state[n]}

(* As long as no update throws. *)
MonitorsInSyncUnlessFailed == ~failed => MonitorsInSync

(* A monitor of an enabled state was last told the state the cell has: "active(cell)
   || (value-accessed(cell) && (for some cell x in the touchlist:
   prirority-accessed(x)))" (adam.hpp). *)
EnabledInSync ==
  Ended => \A c \in Cell : told_enabled[c] \in {Unmonitored, Enabled(c, touch_set[c])}

(* It holds as long as no update throws, in sheets where the cells watched are evenly
   accessed: a change of value-accessed alone is not told ("REVIST ... A change there
   might go unnoticed", adam.cpp:439). *)
EnabledInSyncUnlessFailed == ~failed => EnabledInSync

(* "Outside of these calls the get() function may be called to get the most recent
   ouput value of the cell cashed from the last call to update()" (adam.hpp), when
   that call came to its end. *)
ClientSeesOutput ==
  [][ \A v \in Value : (Answer(v) /\ published # Nothing) =>
        \A n \in Indexed : Now.expr = Get(n) => v = published.state[n] ]_shvars

(* As long as no update throws. *)
ClientSeesOutputUnlessFailed ==
  [][ \A v \in Value : (Answer(v) /\ published # Nothing /\ ~failed) =>
        \A n \in Indexed : Now.expr = Get(n) => v = published.state[n] ]_shvars

(* An update repeated with nothing changed in between tells no monitor of a value,
   in a sheet whose filters are idempotent. *)
Quiet ==
  [][ (Notify /\ published # Nothing /\ changed = {} /\ ~failed) => dirty = {} ]_shvars

(* Setting one interface cell changes only the values it contributed to, and those
   of cells that are in a relate clause. *)
ContributingComplete ==
  [][ (Notify /\ published # Nothing) => \A c \in Cell : changed = {c} =>
        \A n \in Indexed :
          c \in published.contributing[n] \cup priority_accessed_m \/ state[n] = published.state[n]
    ]_shvars

AtMostOneConditional == Cardinality({r \in Relation : relations[r].conditional}) <= 1

(* "Enabled status is a conservative approximation which is false if a change to the
   cell cannot affect the output of a correct sheet" (adam.hpp): setting a cell that
   is not active leaves every output as it was.  With two conditionals it may fail: a
   cell that the second one reads is evaluated before the first one's contributing
   cells are recorded (adam.cpp:1257). *)
EnabledConservative ==
  [][ (Notify /\ published # Nothing /\ AtMostOneConditional) => \A c \in Cell \ active : changed = {c} =>
        \A n \in OutputCells : state[n] = published.state[n] ]_shvars

(* The index that reinitialize walks has m before n. *)
Earlier(m, n) ==
  \E i, j \in DOMAIN output_index : i < j /\ output_index[i] = m /\ output_index[j] = n

(* The interface cells that the initializer of n reads come before n. *)
ReadsEarlier(n) ==
  sheet.init[n] # NoExpr => \A m \in Cell : MayRead(sheet.init[n], m) => Earlier(m, n)

(* What m holds when it is the turn of n: its new value if it came before, otherwise
   the one it had when reinitialize began. *)
ByTurn(n, m) == IF Earlier(m, n) THEN input[m] ELSE entered[m]

Initialized(n) ==
  sheet.init[n] # NoExpr => Outcome(sheet.init[n], input) = [do |-> "return", value |-> input[n]]

(* Reinitialize walks a hash index.  In whatever order it comes to the interface cells,
   it gives each that is stale what the initializer comes to from the new values of the
   cells before it and the old ones of the others, and leaves the rest alone.  So a cell
   whose initializer reads cells before it only ends with what the initializer comes to;
   and if nobody has set or derived a cell, that is true of a cell passed over as well:
   those whose initializer, or what it reads, was made from a plain input set since
   ("init_dirty_m") are all taken. *)
Reinitialized ==
  [][ EndReinitialize => \A c \in interface :
        /\ IF Stale(c)
           THEN Outcome(sheet.init[c], [m \in Declared |-> ByTurn(c, m)]) =
                  [do |-> "return", value |-> input[c]]
           ELSE input[c] = entered[c]
        /\ (Stale(c) \/ pristine) /\ ReadsEarlier(c) => Initialized(c) ]_shvars

(* "Input cells are re-initialized, in sheet order, and interface cell initializers are
   re-evaluated" (adam.hpp): a cell that reinitialize evaluates is left with what its
   initializer comes to, in a sheet that declares what it reads before it. *)
ReinitializedInSheetOrder ==
  [][ EndReinitialize => \A c \in interface : Stale(c) => Initialized(c) ]_shvars
=============================================================================
