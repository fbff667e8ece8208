----------------------------- MODULE AdamSheet -----------------------------
(***************************************************************************)
(* A sheet of the Adam property model: how the cells are initialized,      *)
(* evaluated, applied back to their inputs and reported to monitors.  The  *)
(* flow solver is AdamFlow; every step here that touches its variables is  *)
(* one of its actions.                                                     *)
(*                                                                         *)
(* An evaluation is a stack of frames, the C++ calls in progress: the      *)
(* virtual machine runs an expression, which reads variables through       *)
(* get(), which calculates other cells.  What an expression does is the    *)
(* constant operator Step: given the values read so far it reads another   *)
(* variable, returns a value or throws.                                    *)
(***************************************************************************)
EXTENDS AdamFlow

CONSTANTS
  Input, Constant,             (* plain input cells and constants          *)
  Output, Invariant, Logic,    (* cells that are only calculated           *)
  Value, Empty, True,          (* values; of a cell without initializer;   *)
                               (* the one a conditional holds for          *)
  NoExpr,                      (* no expression                            *)
  Step(_, _),                  (* what an expression does next             *)
  Sheets,                      (* the sheets a client may build, and what  *)
                               (* it queries and monitors of each          *)
  MaxLeak,                     (* bound: names left on get_stack           *)
  Unmonitored                  (* no monitor is attached                   *)

Computed == Output \cup Invariant \cup Logic
Declared == Input \cup Constant \cup Cell
Evaluable == Cell \cup Computed

ASSUME NamesAssumption ==
  /\ Input \cap Constant = {} /\ (Input \cup Constant) \cap Cell = {}
  /\ Output \cap Invariant = {} /\ (Output \cup Invariant) \cap Logic = {}
  /\ Declared \cap Computed = {}
  /\ IsFiniteSet(Declared \cup Computed) /\ NoCell \notin Declared \cup Computed
  /\ Empty \in Value

ASSUME SheetsAssumption == \A s \in Sheets :
  /\ s.order \in [1..Len(s.order) -> Declared]
  /\ DOMAIN s.expr \subseteq Evaluable
  /\ \A i \in DOMAIN s.order : s.order[i] \in Cell => s.order[i] \in DOMAIN s.expr
  /\ DOMAIN s.relations = 1..Len(s.relations)
  /\ \A i \in DOMAIN s.relations : s.relations[i].terms \in Shapes

VARIABLES
  sheet,          (* what the client declares (order, linked, init, expr, relations) *)
                  (* and asks for (queries, monitored, touches)                      *)
  output_index,   (* output_index_m: its iteration order never changes              *)
  mode,           (* "build", "ready", "reinit" (in reinitialize) or "broken"       *)
  built,          (* declarations done                                              *)
  input,          (* state_m of input halves, plain inputs and constants            *)
  state,          (* state_m of output halves and calculated cells                  *)
  evaluated, dirty,  (* evaluated_m, dirty_m                                        *)
  contributing,   (* contributing_m: the interface cells a value was made from      *)
  init_contributing, init_dirty,
  frames,         (* the evaluations in progress, innermost last                    *)
  get_stack,      (* get_stack_m: <<name, second>>                                  *)
  accumulate,     (* accumulate_contributing_m                                      *)
  cond_indirect,  (* conditional_indirect_contributing_m                            *)
  value_accessed, (* value_accessed_m                                               *)
  at,             (* position of a loop over output_index                           *)
  updated,        (* updated_m: update has been called                             *)
  priority_accessed_m, active,        (* of the last update that reached its end    *)
  invariant,      (* invariant_m: no violated invariant shares a contributing cell  *)
  told_value, told_enabled, touch_set (* what each monitor was last told            *)

declVars  == <<sheet, output_index, mode, built>>
cellVars  == <<input, state, evaluated, dirty, contributing>>
initVars  == <<init_contributing, init_dirty>>
evalVars  == <<frames, get_stack, accumulate, cond_indirect, value_accessed>>
monVars   == <<priority_accessed_m, active, invariant, told_value, told_enabled, touch_set>>
svars == <<vars, declVars, cellVars, initVars, evalVars, at, updated, monVars>>

(* What name_index_m and output_index_m hold once the sheet is built. *)
Names == {sheet.order[i] : i \in DOMAIN sheet.order} \cup DOMAIN sheet.expr
Indexed == DOMAIN sheet.expr \ Logic

-----------------------------------------------------------------------------
(* Frames. *)
Last(s) == s[Len(s)]
Front(s) == SubSeq(s, 1, Len(s) - 1)

Frame(kind, of, expr, old) ==
  [kind |-> kind, of |-> of, expr |-> expr, vals |-> <<>>, old |-> old]

Running == frames # <<>>
Now == Last(frames)
In(kind) == Running /\ Now.kind = kind
Does == Step(Now.expr, Now.vals)
Reads(n) == Running /\ Does = [do |-> "read", name |-> n]
Returns(v) == Running /\ Does = [do |-> "return", value |-> v]

Deliver(fs, v) == [fs EXCEPT ![Len(fs)] = [Last(fs) EXCEPT !.vals = Append(@, v)]]

(* get_count_m: get is on the C++ stack once for each cell it calculates and for
   each term it calls.  The loop of update calls calculate itself. *)
Getting(f) == f.kind \in {"get", "term"}
GetCount == Cardinality({i \in DOMAIN frames : Getting(frames[i])})
(* Mutant: the input halves of the interface cells are not counted. *)
CellCountNames == Cardinality(Names)
CellCount == Cardinality(Names) + Cardinality(Cell \cap Names)
Cycle == GetCount + 1 > CellCount

(* The names on the get stack that a throw takes off: those get pushed.  The loop
   of update has no handler and leaves the name it pushed. *)
Unwound == Cardinality({i \in DOMAIN frames : frames[i].kind = "get" /\ frames[i].of \in Cell})

OnTop(n) == get_stack # <<>> /\ Last(get_stack)[1] = n
Attached(n) == n \in Cell /\ relation_count[n] # 0
(* Mutants: every name is pushed; an output that returns leaves its name. *)
PushAny(n) == Append(get_stack, <<n, FALSE>>)
PopGet(n) == IF In("get") /\ n \in Cell THEN Front(get_stack) ELSE get_stack
Push(n) == IF n \in Cell THEN Append(get_stack, <<n, FALSE>>) ELSE get_stack
Pop(n) == IF n \in Cell THEN Front(get_stack) ELSE get_stack

TermExpr(c) == sheet.relations[term[c][1]].derive[term[c][2]][c]

-----------------------------------------------------------------------------
SInit ==
  /\ Init
  /\ sheet \in Sheets
  /\ output_index \in Listings(Indexed)
  /\ mode = "build" /\ built = 0
  /\ input = [n \in Declared |-> Empty] /\ state = [n \in Evaluable |-> Empty]
  /\ evaluated = {} /\ dirty = {} /\ contributing = [n \in Evaluable |-> {}]
  /\ init_contributing = [n \in Declared |-> IF n \in Input THEN {n} ELSE {}]
  /\ init_dirty = {}
  /\ frames = <<>> /\ get_stack = <<>> /\ accumulate = {}
  /\ cond_indirect = {} /\ value_accessed = {} /\ at = 1
  /\ updated = FALSE /\ priority_accessed_m = {} /\ active = {}
  /\ invariant = [n \in Indexed |-> FALSE]
  /\ told_value = [n \in Indexed |-> Unmonitored]
  /\ told_enabled = [c \in Cell |-> Unmonitored] /\ touch_set = [c \in Cell |-> {}]

(* A variable read by an initializer: get() in initialize mode.  Names not yet
   declared are not found; an interface cell finds itself. *)
Visible(n) ==
  \/ mode = "reinit" /\ n \in Declared
  \/ mode = "build" /\ \E i \in 1..built + 1 : sheet.order[i] = n /\ (i <= built \/ n \in Cell)

(* Mutant: what an interface cell was initialized from is not passed on. *)
ReadInitializingDirect(n) ==
  /\ In("init") /\ Reads(n) /\ Visible(n)
  /\ accumulate' = accumulate \cup ({n} \cap Input)
  /\ frames' = Deliver(frames, input[n])
  /\ UNCHANGED <<vars, declVars, cellVars, initVars, get_stack, cond_indirect, value_accessed,
                 at, updated, monVars>>

ReadInitializing(n) ==
  /\ In("init") /\ Reads(n) /\ Visible(n)
  /\ accumulate' = accumulate \cup init_contributing[n]
  /\ frames' = Deliver(frames, input[n])
  /\ UNCHANGED <<vars, declVars, cellVars, initVars, get_stack, cond_indirect, value_accessed,
                 at, updated, monVars>>

(* add_input, add_interface and add_constant evaluate an initializer. *)
Declaring(n) == mode = "build" /\ built < Len(sheet.order) /\ n = sheet.order[built + 1]

BeginDeclare(n) ==
  /\ Declaring(n) /\ ~Running /\ sheet.init[n] # NoExpr
  /\ accumulate' = IF n \in Cell THEN {} ELSE accumulate
  /\ frames' = <<Frame("init", n, sheet.init[n], {})>>
  /\ UNCHANGED <<vars, declVars, cellVars, initVars, get_stack, cond_indirect, value_accessed,
                 at, updated, monVars>>

Declare(n) ==
  /\ Declaring(n)
  /\ built' = built + 1
  /\ IF sheet.init[n] = NoExpr
     THEN ~Running /\ UNCHANGED <<input, init_contributing, frames>>
     ELSE \E v \in Value :
            /\ In("init") /\ Now.of = n /\ Returns(v)
            /\ input' = [input EXCEPT ![n] = v]
            /\ init_contributing' = IF n \in Cell
                 THEN [init_contributing EXCEPT ![n] = @ \cup accumulate] ELSE init_contributing
            /\ frames' = <<>>
  /\ IF n \in Cell THEN AddInterface(n, n \in sheet.linked, sheet.init[n] # NoExpr)
                   ELSE UNCHANGED vars
  /\ UNCHANGED <<sheet, output_index, mode, state, evaluated, dirty, contributing, init_dirty,
                 get_stack, accumulate, cond_indirect, value_accessed, at, updated, monVars>>

(* add_relation, once the cells are there. *)
DeclareRelation ==
  /\ mode = "build" /\ ~Running /\ built = Len(sheet.order)
  /\ Len(relations) < Len(sheet.relations)
  /\ LET r == sheet.relations[Len(relations) + 1]
     IN  AddRelation(r.terms, r.when # NoExpr)
  /\ UNCHANGED <<declVars, cellVars, initVars, evalVars, at, updated, monVars>>

EndBuild ==
  /\ mode = "build" /\ ~Running /\ built = Len(sheet.order)
  /\ Len(relations) = Len(sheet.relations)
  /\ mode' = "ready"
  /\ UNCHANGED <<vars, sheet, output_index, built, cellVars, initVars, evalVars, at, updated, monVars>>

-----------------------------------------------------------------------------
(* reinitialize: the interface cells whose initializers read a dirty input, in the
   order of output_index. *)
Resting == mode = "ready" /\ phase = "idle" /\ ~Running

BeginReinitialize ==
  /\ Resting
  /\ init_dirty = {} \/ priority_high + Cardinality(interface) <= MaxHigh
  /\ mode' = "reinit" /\ at' = 1
  /\ UNCHANGED <<vars, sheet, output_index, built, cellVars, initVars, evalVars, updated, monVars>>

Stale(n) == n \in Cell /\ init_dirty \cap init_contributing[n] # {}

BeginInitialize ==
  /\ mode = "reinit" /\ ~Running /\ at <= Len(output_index)
  /\ LET n == output_index[at]
     IN  /\ Stale(n)
         /\ accumulate' = {}
         /\ frames' = <<Frame("init", n, sheet.init[n], {})>>
  /\ UNCHANGED <<vars, declVars, cellVars, initVars, get_stack, cond_indirect, value_accessed,
                 at, updated, monVars>>

SkipInitialize ==
  /\ mode = "reinit" /\ ~Running /\ at <= Len(output_index)
  /\ ~Stale(output_index[at])
  /\ at' = at + 1
  /\ UNCHANGED <<vars, declVars, cellVars, initVars, evalVars, updated, monVars>>

EndInitialize(v) ==
  /\ mode = "reinit" /\ In("init") /\ Returns(v)
  /\ LET n == Now.of
     IN  /\ input' = [input EXCEPT ![n] = v]
         /\ init_contributing' = [init_contributing EXCEPT ![n] = @ \cup accumulate]
         /\ Reinitialize({n})
  /\ frames' = <<>> /\ at' = at + 1
  /\ UNCHANGED <<declVars, state, evaluated, dirty, contributing, init_dirty, get_stack,
                 accumulate, cond_indirect, value_accessed, updated, monVars>>

EndReinitialize ==
  /\ mode = "reinit" /\ ~Running /\ at > Len(output_index)
  /\ mode' = "ready" /\ init_dirty' = {}
  /\ UNCHANGED <<vars, sheet, output_index, built, cellVars, init_contributing, evalVars, at, updated, monVars>>

-----------------------------------------------------------------------------
(* The client between updates: set, touch, get or inspect, and monitors. *)
SetValue(n, v) ==
  /\ Resting /\ n \in (Cell \cup Input) \cap Names
  /\ input' = [input EXCEPT ![n] = v]
  /\ IF n \in Cell THEN Set(n) ELSE SetInput
  /\ init_dirty' = IF n \in Input THEN init_dirty \cup {n} ELSE init_dirty
  /\ UNCHANGED <<declVars, state, evaluated, dirty, contributing, init_contributing, evalVars,
                 at, updated, monVars>>

TouchCells(S) ==
  /\ Resting /\ Touch(S)
  /\ UNCHANGED <<declVars, cellVars, initVars, evalVars, at, updated, monVars>>

Query(q) ==
  /\ Resting
  /\ frames' = <<Frame("client", NoCell, q, {})>>
  /\ UNCHANGED <<vars, declVars, cellVars, initVars, get_stack, accumulate, cond_indirect,
                 value_accessed, at, updated, monVars>>

Answer(v) ==
  /\ In("client") /\ Returns(v)
  /\ frames' = <<>>
  /\ UNCHANGED <<vars, declVars, cellVars, initVars, get_stack, accumulate, cond_indirect,
                 value_accessed, at, updated, monVars>>

(* monitor_value and monitor_enabled tell the monitor at once. *)
MonitorValue(n) ==
  /\ Resting /\ updated /\ told_value[n] = Unmonitored
  /\ told_value' = [told_value EXCEPT ![n] = state[n]]
  /\ UNCHANGED <<vars, declVars, cellVars, initVars, evalVars, at, updated,
                 priority_accessed_m, active, invariant, told_enabled, touch_set>>

Enabled(c, T) == c \in active \/ (c \in value_accessed /\ T \cap priority_accessed_m # {})

MonitorEnabled(c, T) ==
  /\ Resting /\ updated /\ c \in interface /\ told_enabled[c] = Unmonitored
  /\ told_enabled' = [told_enabled EXCEPT ![c] = Enabled(c, T)]
  /\ touch_set' = [touch_set EXCEPT ![c] = T]
  /\ UNCHANGED <<vars, declVars, cellVars, initVars, evalVars, at, updated,
                 priority_accessed_m, active, invariant, told_value>>

-----------------------------------------------------------------------------
(* get(), outside initialize mode. *)
Evaluating == Running /\ Now.kind # "init"

(* An expression that reads the cell it calculates: the first time the relation that
   derives the cell stands for it, otherwise its input half. *)
ReadTerm(n) ==
  /\ Evaluating /\ Reads(n) /\ ~Cycle /\ OnTop(n)
  /\ ~Last(get_stack)[2] /\ term[n] # NoTerm
  /\ get_stack' = [get_stack EXCEPT ![Len(get_stack)] = <<n, TRUE>>]
  /\ frames' = Append(frames, Frame("term", n, TermExpr(n), {}))
  /\ UNCHANGED <<vars, declVars, cellVars, initVars, accumulate, cond_indirect, value_accessed,
                 at, updated, monVars>>

ReadInput(n) ==
  /\ Evaluating /\ Reads(n) /\ ~Cycle /\ OnTop(n)
  /\ Last(get_stack)[2] \/ term[n] = NoTerm
  /\ value_accessed' = value_accessed \cup {n}
  /\ accumulate' = accumulate \cup {n}
  /\ frames' = Deliver(frames, input[n])
  /\ UNCHANGED <<vars, declVars, cellVars, initVars, get_stack, cond_indirect, at, updated, monVars>>

ReadCached(n) ==
  /\ Evaluating /\ Reads(n) /\ ~Cycle /\ ~OnTop(n) /\ n \in Names
  /\ IF n \in Evaluable
     THEN /\ n \in evaluated
          /\ accumulate' = accumulate \cup contributing[n]
          /\ contributing' = [contributing EXCEPT ![n] = @ \cup cond_indirect]
          /\ frames' = Deliver(frames, state[n])
     ELSE /\ frames' = Deliver(frames, input[n])
          /\ UNCHANGED <<accumulate, contributing>>
  /\ UNCHANGED <<vars, declVars, input, state, evaluated, dirty, initVars, get_stack,
                 cond_indirect, value_accessed, at, updated, monVars>>

ReadCalculates(n) ==
  /\ Evaluating /\ Reads(n) /\ ~Cycle /\ ~OnTop(n)
  /\ n \in (Evaluable \cap Names) \ evaluated /\ ~Attached(n)
  /\ get_stack' = Push(n)
  /\ frames' = Append(frames, Frame("get", n, sheet.expr[n], accumulate))
  /\ accumulate' = {}
  /\ UNCHANGED <<vars, declVars, cellVars, initVars, cond_indirect, value_accessed, at, updated, monVars>>

(* Mutants: the new value is compared after it is stored; every value calculated
   counts as changed. *)
CalculatedLate(n, v) ==
  /\ state' = [state EXCEPT ![n] = v]
  /\ dirty' = dirty \ {n}
  /\ evaluated' = evaluated \cup {n}
  /\ contributing' = [contributing EXCEPT ![n] = accumulate \cup cond_indirect]
  /\ get_stack' = Pop(n)

CalculatedDirty(n, v) ==
  /\ state' = [state EXCEPT ![n] = v]
  /\ dirty' = dirty \cup {n}
  /\ evaluated' = evaluated \cup {n}
  /\ contributing' = [contributing EXCEPT ![n] = accumulate \cup cond_indirect]
  /\ get_stack' = Pop(n)

(* calculate, and what both its callers do with the result. *)
Calculated(n, v) ==
  /\ state' = [state EXCEPT ![n] = v]
  /\ dirty' = IF v # state[n] THEN dirty \cup {n} ELSE dirty \ {n}
  /\ evaluated' = evaluated \cup {n}
  /\ contributing' = [contributing EXCEPT ![n] = accumulate \cup cond_indirect]
  /\ get_stack' = Pop(n)

(* Mutant: what contributed to the cell that reads is forgotten. *)
ReturnGetForgets(v) ==
  /\ In("get") /\ Returns(v)
  /\ Calculated(Now.of, v)
  /\ accumulate' = Now.old
  /\ frames' = Deliver(Front(frames), v)
  /\ UNCHANGED <<vars, declVars, input, initVars, cond_indirect, value_accessed, at, updated, monVars>>

ReturnGet(v) ==
  /\ In("get") /\ Returns(v)
  /\ Calculated(Now.of, v)
  /\ accumulate' = accumulate \cup Now.old
  /\ frames' = Deliver(Front(frames), v)
  /\ UNCHANGED <<vars, declVars, input, initVars, cond_indirect, value_accessed, at, updated, monVars>>

(* Mutant: a term takes off the name its cell pushed. *)
ReturnTermPops(v) ==
  /\ In("term") /\ Returns(v)
  /\ frames' = Deliver(Front(frames), v)
  /\ get_stack' = Pop(Now.of)
  /\ UNCHANGED <<vars, declVars, cellVars, initVars, accumulate, cond_indirect,
                 value_accessed, at, updated, monVars>>

ReturnTerm(v) ==
  /\ In("term") /\ Returns(v)
  /\ frames' = Deliver(Front(frames), v)
  /\ UNCHANGED <<vars, declVars, cellVars, initVars, get_stack, accumulate, cond_indirect,
                 value_accessed, at, updated, monVars>>

(* The expression itself throws, or reads a name that is not there yet, a cell that
   is attached to an unresolved relate clause, or too deep. *)
Throws ==
  /\ Running
  /\ \/ Does.do = "throw"
     \/ /\ Does.do = "read"
        /\ LET n == Does.name
           IN  IF Now.kind = "init" THEN ~Visible(n)
               ELSE \/ Cycle
                    \/ n \notin Names
                    \/ ~OnTop(n) /\ n \in Evaluable \ evaluated /\ Attached(n)

(* The exception leaves through every frame.  An update that throws stays as it is. *)
Throw ==
  /\ Throws
  /\ frames' = <<>>
  /\ get_stack' = SubSeq(get_stack, 1, Len(get_stack) - Unwound)
  /\ \/ frames[1].kind = "when" /\ ConditionalThrows /\ UNCHANGED mode
     \/ frames[1].kind = "output" /\ EndUpdate /\ UNCHANGED mode
     \/ /\ frames[1].kind = "init"
        /\ mode' = IF mode = "build" THEN "broken" ELSE "ready"
        /\ UNCHANGED vars
     \/ frames[1].kind = "client" /\ UNCHANGED <<vars, mode>>
  /\ UNCHANGED <<sheet, output_index, built, cellVars, initVars, accumulate, cond_indirect,
                 value_accessed, at, updated, monVars>>

-----------------------------------------------------------------------------
(* Mutant: evaluated_m is not cleared. *)
StartUpdateEvaluated ==
  /\ Resting /\ BeginUpdate /\ Len(get_stack) <= MaxLeak
  /\ dirty' = {}
  /\ accumulate' = {} /\ cond_indirect' = {} /\ value_accessed' = {}
  /\ updated' = TRUE
  /\ UNCHANGED <<declVars, input, state, evaluated, contributing, initVars, frames, get_stack,
                 at, monVars>>

(* update *)
StartUpdate ==
  /\ Resting /\ BeginUpdate /\ Len(get_stack) <= MaxLeak
  /\ evaluated' = {} /\ dirty' = {}
  /\ accumulate' = {} /\ cond_indirect' = {} /\ value_accessed' = {}
  /\ updated' = TRUE
  /\ UNCHANGED <<declVars, input, state, contributing, initVars, frames, get_stack, at, monVars>>

BeginConditional(r) ==
  /\ SolvesNext(r) /\ ~Running
  /\ frames' = <<Frame("when", r, sheet.relations[r].when, {})>>
  /\ UNCHANGED <<vars, declVars, cellVars, initVars, get_stack, accumulate, cond_indirect,
                 value_accessed, at, updated, monVars>>

EndConditional(v) ==
  /\ In("when") /\ Returns(v)
  /\ IF v = True THEN ConditionalHolds(Now.of) ELSE ConditionalFails(Now.of)
  /\ frames' = <<>>
  /\ UNCHANGED <<declVars, cellVars, initVars, get_stack, accumulate, cond_indirect,
                 value_accessed, at, updated, monVars>>

(* Mutant: what the conditionals were made from is not kept. *)
ConditionalsSolvedForgets ==
  /\ EndConditionals /\ ~Running
  /\ UNCHANGED <<declVars, cellVars, initVars, evalVars, at, updated, monVars>>

ConditionalsSolved ==
  /\ EndConditionals /\ ~Running
  /\ cond_indirect' = accumulate
  /\ UNCHANGED <<declVars, cellVars, initVars, frames, get_stack, accumulate, value_accessed,
                 at, updated, monVars>>

FlowStep ==
  /\ Flow
  /\ at' = 1
  /\ UNCHANGED <<declVars, cellVars, initVars, evalVars, updated, monVars>>

(* The loop that calculates what output_index holds. *)
Visiting(n) == phase = "flowed" /\ ~Running /\ at <= Len(output_index) /\ n = output_index[at]

AppliedBack(n, v) == IF n \in linked THEN [input EXCEPT ![n] = v] ELSE input

BeginCalculate(n) ==
  /\ Visiting(n) /\ n \notin evaluated /\ ~Attached(n)
  /\ accumulate' = {}
  /\ get_stack' = Push(n)
  /\ frames' = <<Frame("output", n, sheet.expr[n], {})>>
  /\ UNCHANGED <<vars, declVars, cellVars, initVars, cond_indirect, value_accessed, at, updated, monVars>>

(* Too many or odd relate clauses may leave a cell attached. *)
CalculateAttached(n) ==
  /\ Visiting(n) /\ n \notin evaluated /\ Attached(n)
  /\ accumulate' = {}
  /\ get_stack' = Push(n)
  /\ EndUpdate
  /\ UNCHANGED <<declVars, cellVars, initVars, frames, cond_indirect, value_accessed, at, updated, monVars>>

EndCalculate(v) ==
  /\ In("output") /\ Returns(v)
  /\ Calculated(Now.of, v)
  /\ input' = AppliedBack(Now.of, v)
  /\ frames' = <<>> /\ at' = at + 1
  /\ UNCHANGED <<vars, declVars, initVars, accumulate, cond_indirect, value_accessed, updated, monVars>>

(* Mutant: the loop goes on without advancing. *)
ApplyEvaluatedAgain(n) ==
  /\ Visiting(n) /\ n \in evaluated
  /\ input' = AppliedBack(n, state[n])
  /\ UNCHANGED <<vars, declVars, state, evaluated, dirty, contributing, initVars, evalVars, at,
                 updated, monVars>>

ApplyEvaluated(n) ==
  /\ Visiting(n) /\ n \in evaluated
  /\ input' = AppliedBack(n, state[n])
  /\ at' = at + 1
  /\ UNCHANGED <<vars, declVars, state, evaluated, dirty, contributing, initVars, evalVars, updated, monVars>>

OutputCells == IF Output \cap Names # {} THEN Output \cap Names ELSE Cell

(* What the cells that count as output were made from. *)
Contributes == UNION {contributing[n] : n \in OutputCells}

(* What the violated invariants were made from. *)
Poison == UNION {contributing[n] : n \in {m \in Invariant \cap Names : state[m] # True}}

(* Mutant: the touch set is not looked at. *)
AccessKept(c) == FALSE
AccessChanged(c) ==
  priority_accessed \cap touch_set[c] # priority_accessed_m \cap touch_set[c]

(* The invariants, then the monitors: a value that changed in this update is told, and
   an enabled state when the cell's active state or its touch set's priorities did. *)
Notify ==
  /\ phase = "flowed" /\ ~Running /\ at > Len(output_index)
  /\ EndUpdate
  /\ invariant' = [n \in Indexed |-> Poison \cap contributing[n] = {}]
  /\ told_value' = [n \in Indexed |->
       IF told_value[n] # Unmonitored /\ n \in dirty THEN state[n] ELSE told_value[n]]
  /\ priority_accessed_m' = priority_accessed
  /\ active' = priority_accessed \cup Contributes
  /\ told_enabled' = [c \in Cell |->
       IF told_enabled[c] # Unmonitored /\ (AccessChanged(c) \/ (c \in active') # (c \in active))
       THEN c \in active' \/ (c \in value_accessed /\ priority_accessed \cap touch_set[c] # {})
       ELSE told_enabled[c]]
  /\ UNCHANGED <<declVars, cellVars, initVars, evalVars, at, updated, touch_set>>

-----------------------------------------------------------------------------
Build ==
  \/ \E n \in Declared : BeginDeclare(n) \/ Declare(n)
  \/ DeclareRelation
  \/ EndBuild

Reinit ==
  \/ BeginInitialize
  \/ SkipInitialize
  \/ \E v \in Value : EndInitialize(v)
  \/ EndReinitialize

Evaluate ==
  \/ \E n \in Declared \cup Computed :
       \/ ReadInitializing(n) \/ ReadTerm(n) \/ ReadInput(n) \/ ReadCached(n) \/ ReadCalculates(n)
  \/ \E v \in Value : ReturnGet(v) \/ ReturnTerm(v)
  \/ Throw

Updating ==
  \/ \E r \in Relation : BeginConditional(r)
  \/ \E v \in Value : EndConditional(v) \/ EndCalculate(v)
  \/ ConditionalsSolved
  \/ FlowStep
  \/ \E n \in Indexed : BeginCalculate(n) \/ CalculateAttached(n) \/ ApplyEvaluated(n)
  \/ Notify

Answering == \E v \in Value : Answer(v)

Calls ==
  \/ \E n \in Cell \cup Input, v \in Value : SetValue(n, v)
  \/ \E S \in SUBSET Cell : TouchCells(S)
  \/ BeginReinitialize
  \/ StartUpdate
  \/ \E q \in sheet.queries : Query(q)
  \/ \E n \in sheet.monitored : MonitorValue(n)
  \/ \E c \in Cell : \E T \in sheet.touches[c] : MonitorEnabled(c, T)

SNext == Build \/ Reinit \/ Evaluate \/ Updating \/ Answering \/ Calls

(* A call that has begun is one thread that runs to its end. *)
SFairness == WF_svars(Reinit \/ Evaluate \/ Updating \/ Answering)

SheetSpec == SInit /\ [][SNext]_svars
FairSheetSpec == SheetSpec /\ SFairness

-----------------------------------------------------------------------------
(* Every variable has its type. *)
FrameKinds == {"init", "client", "when", "output", "get", "term"}

SheetTypeOK ==
  /\ sheet \in Sheets /\ mode \in {"build", "ready", "reinit", "broken"} /\ built \in Nat
  /\ input \in [Declared -> Value] /\ state \in [Evaluable -> Value]
  /\ evaluated \subseteq Evaluable /\ dirty \subseteq Evaluable
  /\ contributing \in [Evaluable -> SUBSET Cell]
  /\ init_dirty \subseteq Input /\ value_accessed \subseteq Cell
  /\ \A i \in DOMAIN frames : frames[i].kind \in FrameKinds /\ frames[i].vals \in Seq(Value)
  /\ get_stack \in Seq(Cell \X BOOLEAN)
  /\ at \in Nat /\ priority_accessed_m \subseteq Cell /\ active \subseteq Cell

(* A cell that returns finds its own name on top of the get stack: what is pushed is
   popped by the same call, through terms, nested reads and exceptions, also above
   the names that failed updates left there.  So no pop meets an empty vector and no
   read takes another cell's name for its own. *)
OwnNameOnTop ==
  (Running /\ Now.kind \in {"get", "output"} /\ Now.of \in Cell) => OnTop(Now.of)

(* "cycle detected, consider using a relate { } clause." is the truth: in a sheet with
   an interface cell a read is refused for its depth only while some cell, or the term of
   some cell, is evaluated inside its own evaluation.  A chain of reads that meets no cell
   twice is never refused, however deep: the cell it was derived from has no term, so the
   limit of one get for each cell and one more for each interface cell is not passed. *)
RefusesOnlyCycles ==
  (Evaluating /\ Does.do = "read" /\ Cycle /\ interface # {}) =>
     \E i, j \in DOMAIN frames :
        /\ i < j /\ Getting(frames[i])
        /\ frames[i].kind = frames[j].kind /\ frames[i].of = frames[j].of

(* A call that has begun returns: evaluation cannot go on for ever, cycles included. *)
CallsReturn == (mode = "reinit" \/ (mode = "ready" /\ (Running \/ phase # "idle"))) ~> Resting
=============================================================================
