-------------------------- MODULE AdamSheetProofs --------------------------
(***************************************************************************)
(* What TLAPS proves of AdamSheet, for every sheet: that it drives the     *)
(* flow solver only through the steps of AdamFlow, so what is proved of    *)
(* the solver holds in it; that the get stack is balanced through nested   *)
(* reads, terms and exceptions; that every variable keeps its type; and    *)
(* that a read is refused for its depth in cycles only.                    *)
(***************************************************************************)
EXTENDS AdamSheet, AdamFlowProofs, SequenceTheorems

USE NamesAssumption, SheetsAssumption

-----------------------------------------------------------------------------
(* A step of the sheet is a step of the flow solver or leaves it alone. *)
LEMMA BuildFlows ==
  ASSUME TypeOK, sheet \in Sheets, Build
  PROVE  [Next]_vars
<1>1. ASSUME NEW n \in Declared, BeginDeclare(n) PROVE UNCHANGED vars
  BY <1>1 DEF BeginDeclare
<1>2. ASSUME NEW n \in Declared, Declare(n) PROVE [Next]_vars
  <2>1. CASE n \in Cell
    <3>1. AddInterface(n, n \in sheet.linked, sheet.init[n] # NoExpr)
      BY <1>2, <2>1 DEF Declare
    <3>2. (n \in sheet.linked) \in BOOLEAN /\ (sheet.init[n] # NoExpr) \in BOOLEAN
      OBVIOUS
    <3> QED BY <2>1, <3>1, <3>2, Zenon DEF Next, Client
  <2>2. CASE n \notin Cell
    BY <1>2, <2>2 DEF Declare
  <2> QED BY <2>1, <2>2
<1>3. CASE DeclareRelation
  <2> DEFINE r == sheet.relations[Len(relations) + 1]
  <2>1. AddRelation(r.terms, r.when # NoExpr)
    BY <1>3 DEF DeclareRelation
  <2>2. r.terms \in Shapes
    <3>1. Len(relations) \in Nat /\ Len(relations) < Len(sheet.relations)
      BY <1>3 DEF DeclareRelation, TypeOK
    <3> QED BY <3>1
  <2>3. (r.when # NoExpr) \in BOOLEAN
    OBVIOUS
  <2> QED BY <2>1, <2>2, <2>3, Zenon DEF Next, Client
<1>4. CASE EndBuild
  BY <1>4 DEF EndBuild
<1> QED BY <1>1, <1>2, <1>3, <1>4 DEF Build
(* reinitialize changes the flow only as AdamFlow has it: one raised priority for
   each cell it initializes. *)
LEMMA ReinitFlows ==
  ASSUME TypeOK, Reinit
  PROVE  [Next]_vars
<1>1. CASE BeginInitialize
  BY <1>1 DEF BeginInitialize
<1>2. CASE SkipInitialize
  BY <1>2 DEF SkipInitialize
<1>3. ASSUME NEW v \in Value, EndInitialize(v) PROVE Next
  <2>1. Reinitialize({Now.of})
    BY <1>3 DEF EndInitialize
  <2>2. {Now.of} \in SUBSET Cell
    BY <2>1 DEF Reinitialize, TypeOK
  <2> QED BY <2>1, <2>2, Zenon DEF Next, Client
<1>4. CASE EndReinitialize
  BY <1>4 DEF EndReinitialize
<1> QED BY <1>1, <1>2, <1>3, <1>4 DEF Reinit

(* Evaluating an expression leaves the flow alone, but for a throw that ends update. *)
LEMMA EvaluateFlows ==
  ASSUME Evaluate
  PROVE  [Next]_vars
<1>1. ASSUME NEW n \in Declared \cup Computed,
             ReadInitializing(n) \/ ReadTerm(n) \/ ReadInput(n) \/ ReadCached(n) \/ ReadCalculates(n)
      PROVE  UNCHANGED vars
  BY <1>1 DEF ReadInitializing, ReadTerm, ReadInput, ReadCached, ReadCalculates
<1>2. ASSUME NEW v \in Value, ReturnGet(v) \/ ReturnTerm(v) PROVE UNCHANGED vars
  BY <1>2 DEF ReturnGet, ReturnTerm
<1>3. CASE Throw
  <2>1. ConditionalThrows \/ EndUpdate \/ UNCHANGED vars
    BY <1>3 DEF Throw
  <2> QED BY <2>1, Zenon DEF Next, Update, Conditionals
<1> QED BY <1>1, <1>2, <1>3 DEF Evaluate

(* update drives the flow by AdamFlow's steps. *)
LEMMA UpdatingFlows ==
  ASSUME Updating
  PROVE  [Next]_vars
<1>1. ASSUME NEW r \in Relation, BeginConditional(r) PROVE UNCHANGED vars
  BY <1>1 DEF BeginConditional
<1>2. ASSUME NEW v \in Value, EndConditional(v) PROVE Next
  <2>1. ConditionalHolds(Now.of) \/ ConditionalFails(Now.of)
    BY <1>2 DEF EndConditional
  <2>2. Now.of \in Relation
    BY <2>1 DEF ConditionalHolds, ConditionalFails, SolvesNext, Unsolved
  <2> QED BY <2>1, <2>2, Zenon DEF Next, Update, Conditionals
<1>3. ASSUME NEW v \in Value, EndCalculate(v) PROVE UNCHANGED vars
  BY <1>3 DEF EndCalculate
<1>4. CASE ConditionalsSolved
  BY <1>4, Zenon DEF ConditionalsSolved, Next, Update, Conditionals
<1>5. CASE FlowStep
  BY <1>5, Zenon DEF FlowStep, Next, Update
<1>6. ASSUME NEW n \in Indexed, BeginCalculate(n) \/ CalculateAttached(n) \/ ApplyEvaluated(n)
      PROVE  EndUpdate \/ UNCHANGED vars
  BY <1>6 DEF BeginCalculate, CalculateAttached, ApplyEvaluated
<1>7. CASE Notify
  BY <1>7, Zenon DEF Notify, Next, Update
<1>8. EndUpdate => Next
  BY Zenon DEF Next, Update
<1> QED BY <1>1, <1>2, <1>3, <1>4, <1>5, <1>6, <1>7, <1>8 DEF Updating

(* The calls of the client are AdamFlow's. *)
LEMMA CallsFlow ==
  ASSUME Calls \/ Answering
  PROVE  [Next]_vars
<1>1. ASSUME NEW n \in Cell \cup Input, NEW v \in Value, SetValue(n, v) PROVE Next
  <2>1. (n \in Cell /\ Set(n)) \/ SetInput
    BY <1>1 DEF SetValue
  <2> QED BY <2>1, Zenon DEF Next, Client
<1>2. ASSUME NEW S \in SUBSET Cell, TouchCells(S) PROVE Next
  BY <1>2, Zenon DEF TouchCells, Next, Client
<1>3. CASE BeginReinitialize
  BY <1>3 DEF BeginReinitialize
<1>4. CASE StartUpdate
  BY <1>4, Zenon DEF StartUpdate, Next, Update
<1>5. ASSUME NEW q \in sheet.queries, Query(q) PROVE UNCHANGED vars
  BY <1>5 DEF Query
<1>6. ASSUME NEW n \in sheet.monitored, MonitorValue(n) PROVE UNCHANGED vars
  BY <1>6 DEF MonitorValue
<1>7. ASSUME NEW c \in Cell, NEW T \in sheet.touches[c], MonitorEnabled(c, T) PROVE UNCHANGED vars
  BY <1>7 DEF MonitorEnabled
<1>8. ASSUME NEW v \in Value, Answer(v) PROVE UNCHANGED vars
  BY <1>8 DEF Answer
<1> QED BY <1>1, <1>2, <1>3, <1>4, <1>5, <1>6, <1>7, <1>8 DEF Calls, Answering

(* The sheet a client declares never changes. *)
LEMMA SheetStays ==
  ASSUME [SNext]_svars
  PROVE  sheet' = sheet
<1>1. CASE UNCHANGED svars
  BY <1>1 DEF svars, declVars
<1>2. CASE Build
  BY <1>2 DEF Build, BeginDeclare, Declare, DeclareRelation, EndBuild, declVars
<1>3. CASE Reinit
  BY <1>3 DEF Reinit, BeginInitialize, SkipInitialize, EndInitialize, EndReinitialize, declVars
<1>4. CASE Evaluate
  BY <1>4 DEF Evaluate, ReadInitializing, ReadTerm, ReadInput, ReadCached, ReadCalculates,
              ReturnGet, ReturnTerm, Throw, declVars
<1>5. CASE Updating
  BY <1>5 DEF Updating, BeginConditional, EndConditional, EndCalculate, ConditionalsSolved,
              FlowStep, BeginCalculate, CalculateAttached, ApplyEvaluated, Notify, declVars
<1>6. CASE Answering
  BY <1>6 DEF Answering, Answer, declVars
<1>7. CASE Calls
  BY <1>7 DEF Calls, SetValue, TouchCells, BeginReinitialize, StartUpdate, Query,
              MonitorValue, MonitorEnabled, declVars
<1> QED BY <1>1, <1>2, <1>3, <1>4, <1>5, <1>6, <1>7 DEF SNext

LEMMA StepFlows ==
  ASSUME TypeOK, sheet \in Sheets, [SNext]_svars
  PROVE  [Next]_vars /\ TypeOK'
<1>1. [Next]_vars
  <2>1. CASE UNCHANGED svars
    BY <2>1 DEF svars
  <2>2. CASE SNext
    BY <2>2, BuildFlows, ReinitFlows, EvaluateFlows, UpdatingFlows, CallsFlow, Zenon DEF SNext
  <2> QED BY <2>1, <2>2
<1> QED BY <1>1, TypeKept

(* Whatever a sheet declares, evaluates, reinitializes or throws, it drives the flow
   solver only through AdamFlow's own steps: AdamSheet implements AdamFlow. *)
THEOREM FlowImplemented == SheetSpec => Spec
<1> DEFINE Inv == TypeOK /\ sheet \in Sheets
<1>1. SInit => Init /\ Inv
  BY DEF SInit, Init, TypeOK, Relation, NoTerm
<1>2. Inv /\ [SNext]_svars => [Next]_vars /\ Inv'
  BY StepFlows, SheetStays
<1>3. QED BY <1>1, <1>2, PTL DEF SheetSpec, Spec

(* What is proved of the flow solver holds of every sheet that drives it. *)
THEOREM SheetCountsExact == SheetSpec => []CountExact
BY FlowImplemented, CountsExact, PTL
-----------------------------------------------------------------------------
(* OwnNameOnTop is inductive once every frame is given the length the get stack had
   while the frame was innermost. *)
FrameOver(A) == [kind : FrameKinds, of : A, expr : A, vals : A, old : A]
(* The frames that the public calls begin with. *)
Roots == {"init", "client", "when", "output"}
(* The frames whose name is on the get stack: get and update push it for a cell. *)
Named(f) == f.kind \in {"get", "output"} /\ f.of \in Cell

(* pos[i] is the length of the get stack gs up to frame i: each named frame has its
   name there, right above the place of the frame below it. *)
Marks(pos, fs, gs) ==
  /\ pos \in Seq(Nat) /\ Len(pos) = Len(fs)
  /\ fs # <<>> => pos[Len(fs)] = Len(gs)
  /\ \A i \in 1..Len(fs) : Named(fs[i]) => pos[i] \in 1..Len(gs) /\ gs[pos[i]][1] = fs[i].of
  /\ \A i \in 2..Len(fs) : pos[i] = IF Named(fs[i]) THEN pos[i - 1] + 1 ELSE pos[i - 1]
  /\ \A i, j \in 1..Len(fs) : i < j => pos[i] <= pos[j]

(* The frames and the get stack belong together, whatever lies below the first name. *)
Stacked(fs, gs) ==
  /\ \E A : fs \in Seq(FrameOver(A))
  /\ fs # <<>> => fs[1].kind \in Roots
  /\ gs \in Seq(Cell \X BOOLEAN)
  /\ \E pos : Marks(pos, fs, gs)

(* Front takes off the last element and leaves the others. *)
LEMMA FrontIs ==
  ASSUME NEW S, NEW s \in Seq(S), s # <<>>
  PROVE  /\ Len(s) \in Nat /\ Len(s) >= 1
         /\ Front(s) \in Seq(S) /\ Len(Front(s)) = Len(s) - 1
         /\ \A i \in 1..(Len(s) - 1) : Front(s)[i] = s[i]
<1>1. Len(s) \in Nat /\ Len(s) >= 1
  OBVIOUS
<1>2. Len(s) - 1 \in Int /\ \A i \in 1..(Len(s) - 1) : s[i] \in S
  BY <1>1
<1>3. Front(s) \in Seq(S)
  BY <1>2, SubSeqProperties DEF Front
<1> DEFINE n == Len(s)  m == Len(Front(s))
<1>4. m = IF 1 <= n - 1 THEN n - 1 - 1 + 1 ELSE 0
  BY <1>2, SubSeqProperties DEF Front
<1>5. \A i \in 1..(n - 1 - 1 + 1) : Front(s)[i] = s[1 + i - 1]
  BY <1>2, SubSeqProperties DEF Front
<1>6. n \in Nat /\ n >= 1
  BY <1>1
<1> HIDE DEF n, m
<1>7. m = n - 1
  BY <1>4, <1>6
<1>8. ASSUME NEW i \in 1..(n - 1) PROVE Front(s)[i] = s[i]
  <2>1. i \in 1..(n - 1 - 1 + 1) /\ 1 + i - 1 = i
    BY <1>6
  <2> QED BY <2>1, <1>5
<1> QED BY <1>3, <1>6, <1>7, <1>8 DEF n, m

(* The innermost frame, if named, has its name on top. *)
LEMMA StackedTop ==
  ASSUME NEW fs, NEW gs, Stacked(fs, gs), fs # <<>>, Named(fs[Len(fs)])
  PROVE  Len(gs) >= 1 /\ gs[Len(gs)][1] = fs[Len(fs)].of
<1>1. PICK A : fs \in Seq(FrameOver(A))
  BY DEF Stacked
<1>2. PICK pos : Marks(pos, fs, gs)
  BY DEF Stacked
<1>3. Len(fs) \in 1..Len(fs)
  BY <1>1
<1> QED BY <1>2, <1>3 DEF Marks, Stacked

(* What a new frame does to the get stack: it pushes its name, or changes no name. *)
Pushed(f, gs, gs2) ==
  IF Named(f) THEN gs2 = Append(gs, <<f.of, FALSE>>)
  ELSE /\ gs2 \in Seq(Cell \X BOOLEAN) /\ Len(gs2) = Len(gs)
       /\ \A i \in 1..Len(gs) : gs2[i][1] = gs[i][1]

(* A public call begins with a single frame. *)
LEMMA StackedRoot ==
  ASSUME NEW gs \in Seq(Cell \X BOOLEAN), NEW C, NEW f \in FrameOver(C), f.kind \in Roots,
         NEW gs2, Pushed(f, gs, gs2)
  PROVE  Stacked(<<f>>, gs2)
<1>1. <<f>> \in Seq(FrameOver(C)) /\ Len(<<f>>) = 1 /\ <<f>>[1] = f
  OBVIOUS
<1>2. Named(f) => <<f.of, FALSE>> \in Cell \X BOOLEAN
  BY DEF Named
<1>3. gs2 \in Seq(Cell \X BOOLEAN) /\ Len(gs2) \in Nat
  <2>1. CASE Named(f)
    <3>1. Append(gs, <<f.of, FALSE>>) \in Seq(Cell \X BOOLEAN)
      BY <1>2, <2>1
    <3>2. gs2 = Append(gs, <<f.of, FALSE>>)
      BY <2>1 DEF Pushed
    <3>3. gs2 \in Seq(Cell \X BOOLEAN)
      BY <3>1, <3>2
    <3> QED BY <3>3
  <2>2. CASE ~Named(f)
    <3>1. gs2 \in Seq(Cell \X BOOLEAN)
      BY <2>2 DEF Pushed
    <3> QED BY <3>1
  <2> QED BY <2>1, <2>2
<1>4. Named(f) => Len(gs2) >= 1 /\ gs2[Len(gs2)][1] = f.of
  BY <1>2 DEF Pushed
<1>5. Marks(<<Len(gs2)>>, <<f>>, gs2)
  BY <1>1, <1>3, <1>4 DEF Marks
<1> QED BY <1>1, <1>3, <1>5 DEF Stacked

(* An initializer, a conditional or a client's expression pushes no name. *)
LEMMA StackedUnnamed ==
  ASSUME NEW gs \in Seq(Cell \X BOOLEAN), NEW kind \in {"init", "client", "when"},
         NEW of, NEW expr, NEW old
  PROVE  Stacked(<<Frame(kind, of, expr, old)>>, gs)
<1> DEFINE f == Frame(kind, of, expr, old)
           C == {of, expr, old, <<>>}
<1>1. f \in FrameOver(C) /\ f.kind \in Roots /\ ~Named(f)
  BY DEF Frame, FrameOver, FrameKinds, Roots, Named
<1> HIDE DEF f, C
<1>2. Pushed(f, gs, gs)
  BY <1>1 DEF Pushed
<1>3. Stacked(<<f>>, gs)
  BY <1>1, <1>2, StackedRoot
<1> QED BY <1>3 DEF f

(* What leaves kinds, names and lengths alone keeps the marks. *)
LEMMA StackedKept ==
  ASSUME NEW fs, NEW gs, Stacked(fs, gs), NEW A, NEW fs2 \in Seq(FrameOver(A)),
         NEW gs2 \in Seq(Cell \X BOOLEAN),
         Len(fs2) = Len(fs), \A i \in 1..Len(fs) : fs2[i].kind = fs[i].kind /\ fs2[i].of = fs[i].of,
         Len(gs2) = Len(gs), \A i \in 1..Len(gs) : gs2[i][1] = gs[i][1]
  PROVE  Stacked(fs2, gs2)
<1>1. PICK pos : Marks(pos, fs, gs)
  BY DEF Stacked
<1>2. \E B : fs \in Seq(FrameOver(B))
  BY DEF Stacked
<1>3. fs2 # <<>> => fs # <<>> /\ 1 \in 1..Len(fs)
  BY <1>2
<1>4. \A i \in 1..Len(fs) : Named(fs2[i]) <=> Named(fs[i])
  BY DEF Named
<1>5. Marks(pos, fs2, gs2)
  <2>1. /\ pos \in Seq(Nat) /\ Len(pos) = Len(fs2)
        /\ fs2 # <<>> => pos[Len(fs2)] = Len(gs2)
    BY <1>1, <1>3 DEF Marks
  <2>2. \A i \in 1..Len(fs2) :
          Named(fs2[i]) => pos[i] \in 1..Len(gs2) /\ gs2[pos[i]][1] = fs2[i].of
    BY <1>1, <1>4 DEF Marks
  <2>3. \A i \in 2..Len(fs) : i \in 1..Len(fs)
    BY <1>2
  <2>4. \A i \in 2..Len(fs2) :
          pos[i] = IF Named(fs2[i]) THEN pos[i - 1] + 1 ELSE pos[i - 1]
    BY <1>1, <1>4, <2>3 DEF Marks
  <2>5. \A i, j \in 1..Len(fs2) : i < j => pos[i] <= pos[j]
    BY <1>1 DEF Marks
  <2> QED BY <2>1, <2>2, <2>4, <2>5 DEF Marks
<1> QED BY <1>3, <1>5 DEF Stacked

(* Delivering a value to the innermost frame leaves names and places alone. *)
LEMMA Delivered ==
  ASSUME NEW fs, NEW gs, Stacked(fs, gs), fs # <<>>, NEW v
  PROVE  Stacked(Deliver(fs, v), gs)
<1>1. PICK A : fs \in Seq(FrameOver(A))
  BY DEF Stacked
<1> DEFINE B == A \cup {Append(fs[Len(fs)].vals, v)}
<1>2. Len(fs) \in 1..Len(fs)
  BY <1>1
<1>3. \A i \in 1..Len(fs) : fs[i] \in FrameOver(A)
  BY <1>1
<1> DEFINE g == [Last(fs) EXCEPT !.vals = Append(@, v)]
<1>4. g \in FrameOver(B) /\ g.kind = fs[Len(fs)].kind /\ g.of = fs[Len(fs)].of
  BY <1>2, <1>3 DEF FrameOver, Last
<1>5. \A f \in FrameOver(A) : f \in FrameOver(B)
  BY DEF FrameOver
<1> HIDE DEF B, g
<1>6. Deliver(fs, v) = [fs EXCEPT ![Len(fs)] = g]
  BY DEF Deliver, g
<1>8. /\ Deliver(fs, v) \in Seq(FrameOver(B)) /\ Len(Deliver(fs, v)) = Len(fs)
      /\ \A i \in 1..Len(fs) : Deliver(fs, v)[i].kind = fs[i].kind /\ Deliver(fs, v)[i].of = fs[i].of
  BY <1>1, <1>2, <1>3, <1>4, <1>5, <1>6
<1>7. gs \in Seq(Cell \X BOOLEAN)
  BY DEF Stacked
<1> QED BY <1>7, <1>8, StackedKept
(* A call of get or of a term goes on top. *)
LEMMA StackedPush ==
  ASSUME NEW fs, NEW gs, Stacked(fs, gs), fs # <<>>,
         NEW C, NEW f \in FrameOver(C), NEW gs2, Pushed(f, gs, gs2)
  PROVE  Stacked(Append(fs, f), gs2)
<1> DEFINE fs2 == Append(fs, f)
           n == Len(fs)
<1>1. PICK A : fs \in Seq(FrameOver(A))
  BY DEF Stacked
<1>2. PICK pos : Marks(pos, fs, gs)
  BY DEF Stacked
<1> DEFINE B == A \cup C
           pos2 == Append(pos, Len(gs2))
<1>3. f \in FrameOver(B)
  BY DEF FrameOver
<1>4. \A x \in FrameOver(A) : x \in FrameOver(B)
  BY DEF FrameOver
<1>5. n \in Nat /\ n >= 1
  BY <1>1
<1>6. /\ gs \in Seq(Cell \X BOOLEAN) /\ Len(gs) \in Nat
      /\ gs2 \in Seq(Cell \X BOOLEAN) /\ Len(gs2) \in Nat
      /\ Len(gs2) = IF Named(f) THEN Len(gs) + 1 ELSE Len(gs)
      /\ Named(f) => gs2[Len(gs2)][1] = f.of
      /\ \A i \in 1..Len(gs) : gs2[i][1] = gs[i][1]
  <2>1. gs \in Seq(Cell \X BOOLEAN)
    BY DEF Stacked
  <2>2. CASE Named(f)
    <3>1. <<f.of, FALSE>> \in Cell \X BOOLEAN
      BY <2>2 DEF Named
    <3>2. gs2 = Append(gs, <<f.of, FALSE>>)
      BY <2>2 DEF Pushed
    <3> QED BY <2>1, <2>2, <3>1, <3>2
  <2>3. CASE ~Named(f)
    BY <2>1, <2>3 DEF Pushed
  <2> QED BY <2>2, <2>3
<1> HIDE DEF B
<1>7. /\ fs2 \in Seq(FrameOver(B)) /\ Len(fs2) = n + 1 /\ fs2[n + 1] = f
      /\ \A i \in 1..n : fs2[i] = fs[i]
  BY <1>1, <1>3, <1>4
<1>8. /\ pos \in Seq(Nat) /\ Len(pos) = n /\ pos[n] = Len(gs)
      /\ \A i \in 1..n : pos[i] \in Nat
  BY <1>2, <1>5 DEF Marks
<1>9. pos2 \in Seq(Nat) /\ Len(pos2) = n + 1 /\ pos2[n + 1] = Len(gs2) /\ \A i \in 1..n : pos2[i] = pos[i]
  BY <1>6, <1>8
<1>10. \A i, j \in 1..n : i < j => pos[i] <= pos[j]
  BY <1>2 DEF Marks
<1> HIDE DEF fs2, pos2, n
<1>11. Marks(pos2, fs2, gs2)
  <2>1. fs2 # <<>> => pos2[Len(fs2)] = Len(gs2)
    BY <1>7, <1>9
  <2>2. ASSUME NEW i \in 1..Len(fs2), Named(fs2[i]) PROVE pos2[i] \in 1..Len(gs2) /\ gs2[pos2[i]][1] = fs2[i].of
    <3>1. CASE i = n + 1
      BY <2>2, <3>1, <1>3, <1>5, <1>6, <1>7, <1>9
    <3>2. CASE i \in 1..n
      <4>1. Named(fs[i]) /\ pos2[i] = pos[i]
        BY <2>2, <3>2, <1>7, <1>9
      <4>2. pos[i] \in 1..Len(gs) /\ gs[pos[i]][1] = fs[i].of
        BY <4>1, <3>2, <1>2, <1>5 DEF Marks, n
      <4> QED BY <4>1, <4>2, <3>2, <1>6, <1>7
    <3> QED BY <2>2, <3>1, <3>2, <1>5, <1>7
  <2>3. ASSUME NEW i \in 2..Len(fs2)
        PROVE  pos2[i] = IF Named(fs2[i]) THEN pos2[i - 1] + 1 ELSE pos2[i - 1]
    <3>1. CASE i = n + 1
      BY <3>1, <1>5, <1>6, <1>7, <1>8, <1>9
    <3>2. CASE i \in 2..n
      <4>1. pos[i] = IF Named(fs[i]) THEN pos[i - 1] + 1 ELSE pos[i - 1]
        BY <3>2, <1>2 DEF Marks, n
      <4>2. i \in 1..n /\ i - 1 \in 1..n
        BY <3>2, <1>5
      <4>3. fs2[i] = fs[i] /\ pos2[i] = pos[i] /\ pos2[i - 1] = pos[i - 1]
        BY <4>2, <1>7, <1>9
      <4> QED BY <4>1, <4>3
    <3> QED BY <2>3, <3>1, <3>2, <1>5, <1>7
  <2>4. ASSUME NEW i \in 1..Len(fs2), NEW j \in 1..Len(fs2), i < j PROVE pos2[i] <= pos2[j]
    <3>1. CASE j = n + 1
      <4>1. i \in 1..n /\ pos[i] <= pos[n]
        BY <2>4, <3>1, <1>5, <1>7, <1>8, <1>10
      <4>2. pos[i] \in Nat
        BY <4>1, <1>8
      <4> QED BY <3>1, <4>1, <4>2, <1>6, <1>8, <1>9, SMTT(30)
    <3>2. CASE j \in 1..n
      BY <2>4, <3>2, <1>5, <1>9, <1>10
    <3> QED BY <2>4, <3>1, <3>2, <1>5, <1>7
  <2> QED BY <2>1, <2>2, <2>3, <2>4, <1>7, <1>9 DEF Marks
<1>12. fs2[1].kind \in Roots
  BY <1>5, <1>7 DEF Stacked, n
<1>13. Stacked(fs2, gs2)
  BY <1>6, <1>7, <1>11, <1>12 DEF Stacked
<1> QED BY <1>13 DEF fs2

(* A call that returns takes its own name off. *)
LEMMA StackedPop ==
  ASSUME NEW fs, NEW gs, Stacked(fs, gs), fs # <<>>, fs[Len(fs)].kind \notin Roots
  PROVE  /\ Stacked(Front(fs), IF Named(fs[Len(fs)]) THEN Front(gs) ELSE gs)
         /\ Front(fs) # <<>>
<1> DEFINE n == Len(fs)
           fs2 == Front(fs)
           gs2 == IF Named(fs[n]) THEN Front(gs) ELSE gs
<1>1. PICK A : fs \in Seq(FrameOver(A))
  BY DEF Stacked
<1>2. PICK pos : Marks(pos, fs, gs)
  BY DEF Stacked
<1> DEFINE pos2 == Front(pos)
<1>3. n \in Nat /\ n >= 2
  <2>1. Len(fs) # 1
    BY DEF Stacked
  <2>2. Len(fs) \in Nat /\ Len(fs) >= 1
    BY <1>1, FrontIs
  <2>3. \A k \in Nat : k >= 1 /\ k # 1 => k >= 2
    OBVIOUS
  <2> QED BY <2>1, <2>2, <2>3
<1>4. /\ pos \in Seq(Nat) /\ Len(pos) = n /\ pos[n] = Len(gs)
      /\ \A i \in 1..n : pos[i] \in Nat
  BY <1>2, <1>3 DEF Marks
<1>5. gs \in Seq(Cell \X BOOLEAN) /\ Len(gs) \in Nat
  BY DEF Stacked
<1>6. Named(fs[n]) => Len(gs) >= 1
  BY <1>5, StackedTop
<1>7. pos[n] = IF Named(fs[n]) THEN pos[n - 1] + 1 ELSE pos[n - 1]
  BY <1>2, <1>3 DEF Marks
<1>8. /\ fs2 \in Seq(FrameOver(A)) /\ Len(fs2) = n - 1 /\ fs2 # <<>>
      /\ \A i \in 1..(n - 1) : fs2[i] = fs[i]
  <2>1. fs2 \in Seq(FrameOver(A)) /\ Len(fs2) = n - 1 /\ \A i \in 1..(n - 1) : fs2[i] = fs[i]
    BY <1>1, FrontIs
  <2>2. Len(fs2) # 0
    BY <2>1, <1>3
  <2> QED BY <2>1, <2>2
<1>9. pos2 \in Seq(Nat) /\ Len(pos2) = n - 1 /\ \A i \in 1..(n - 1) : pos2[i] = pos[i]
  <2>1. pos # <<>>
    BY <1>3, <1>4
  <2> QED BY <2>1, <1>4, FrontIs
<1>10. /\ gs2 \in Seq(Cell \X BOOLEAN) /\ Len(gs2) = pos[n - 1]
       /\ \A i \in 1..Len(gs2) : gs2[i] = gs[i]
  <2>1. pos[n - 1] \in Nat
    BY <1>3, <1>4
  <2>2. CASE Named(fs[n])
    <3>1. gs # <<>> /\ gs2 = Front(gs)
      BY <2>2, <1>5, <1>6
    <3>2. gs2 \in Seq(Cell \X BOOLEAN) /\ Len(gs2) = Len(gs) - 1 /\ \A i \in 1..(Len(gs) - 1) : gs2[i] = gs[i]
      BY <3>1, <1>5, FrontIs
    <3>3. Len(gs) - 1 = pos[n - 1]
      BY <2>1, <2>2, <1>4, <1>7
    <3> QED BY <3>2, <3>3
  <2>3. CASE ~Named(fs[n])
    <3>1. gs2 = gs /\ Len(gs) = pos[n - 1]
      BY <2>3, <1>4, <1>7
    <3> QED BY <3>1, <1>5
  <2> QED BY <2>2, <2>3
<1> HIDE DEF fs2, gs2, pos2
<1>11. Marks(pos2, fs2, gs2)
  <2>1. ASSUME NEW i \in 1..Len(fs2), Named(fs2[i]) PROVE pos2[i] \in 1..Len(gs2) /\ gs2[pos2[i]][1] = fs2[i].of
    <3>1. i \in 1..n /\ i <= n - 1 /\ n - 1 \in 1..n /\ Named(fs[i]) /\ pos2[i] = pos[i]
      BY <2>1, <1>3, <1>8, <1>9
    <3>2. pos[i] \in 1..Len(gs) /\ gs[pos[i]][1] = fs[i].of
      BY <3>1, <1>2 DEF Marks
    <3>3. pos[i] <= pos[n - 1]
      <4>1. i < n - 1 => pos[i] <= pos[n - 1]
        BY <3>1, <1>2 DEF Marks
      <4> QED BY <4>1, <3>1, <1>3, <1>4
    <3>4. pos[i] \in 1..Len(gs2)
      BY <3>1, <3>2, <3>3, <1>4, <1>10
    <3> QED BY <3>1, <3>2, <3>4, <1>8, <1>10
  <2>2. ASSUME NEW i \in 2..Len(fs2)
        PROVE  pos2[i] = IF Named(fs2[i]) THEN pos2[i - 1] + 1 ELSE pos2[i - 1]
    <3>1. pos[i] = IF Named(fs[i]) THEN pos[i - 1] + 1 ELSE pos[i - 1]
      BY <1>2, <1>3, <1>8 DEF Marks
    <3> HIDE DEF n
    <3>2. i \in 1..(n - 1) /\ i - 1 \in 1..(n - 1)
      BY <1>3, <1>8
    <3>3. fs2[i] = fs[i] /\ pos2[i] = pos[i] /\ pos2[i - 1] = pos[i - 1]
      BY <3>2, <1>8, <1>9
    <3> QED BY <3>1, <3>3
  <2>3. \A i, j \in 1..Len(fs2) : i < j => pos2[i] <= pos2[j]
    <3>1. \A i, j \in 1..n : i < j => pos[i] <= pos[j]
      BY <1>2 DEF Marks
    <3>2. \A i \in 1..Len(fs2) : i \in 1..n /\ pos2[i] = pos[i]
      BY <1>3, <1>8, <1>9
    <3> HIDE DEF n
    <3> QED BY <3>1, <3>2
  <2>4. pos2[Len(fs2)] = Len(gs2)
    BY <1>3, <1>8, <1>9, <1>10
  <2> QED BY <2>1, <2>2, <2>3, <2>4, <1>8, <1>9 DEF Marks
<1>12. fs2[1].kind \in Roots
  BY <1>3, <1>8 DEF Stacked
<1>13. Stacked(fs2, gs2)
  BY <1>8, <1>10, <1>11, <1>12 DEF Stacked
<1> QED BY <1>8, <1>13 DEF fs2, gs2
(* With no frame any get stack will do: what a failed update left stays. *)
LEMMA StackedNone ==
  ASSUME NEW gs \in Seq(Cell \X BOOLEAN)
  PROVE  Stacked(<<>>, gs)
<1>1. <<>> \in Seq(FrameOver({})) /\ <<>> \in Seq(Nat) /\ Len(<<>>) = 0
  OBVIOUS
<1>2. Marks(<<>>, <<>>, gs)
  BY <1>1 DEF Marks
<1> QED BY <1>1, <1>2 DEF Stacked

(* The inductive invariant behind OwnNameOnTop. *)
StackInv == Stacked(frames, get_stack)

(* Declaring cells keeps it. *)
LEMMA StackBuild ==
  ASSUME StackInv, Build
  PROVE  StackInv'
<1> USE DEF StackInv
<1>1. get_stack \in Seq(Cell \X BOOLEAN)
  BY DEF Stacked
<1>2. ASSUME NEW n \in Declared, BeginDeclare(n) PROVE StackInv'
  <2>1. get_stack' = get_stack /\ frames' = <<Frame("init", n, sheet.init[n], {})>>
    BY <1>2 DEF BeginDeclare
  <2> QED BY <1>1, <2>1, StackedUnnamed
<1>3. ASSUME NEW n \in Declared, Declare(n) PROVE StackInv'
  <2>1. get_stack' = get_stack /\ (frames' = frames \/ frames' = <<>>)
    BY <1>3 DEF Declare
  <2> QED BY <1>1, <2>1, StackedNone
<1>4. CASE DeclareRelation \/ EndBuild
  BY <1>4 DEF DeclareRelation, EndBuild, evalVars
<1> QED BY <1>2, <1>3, <1>4 DEF Build

(* reinitialize keeps it. *)
LEMMA StackReinit ==
  ASSUME StackInv, Reinit
  PROVE  StackInv'
<1> USE DEF StackInv
<1>1. get_stack \in Seq(Cell \X BOOLEAN)
  BY DEF Stacked
<1>2. CASE BeginInitialize
  <2>1. /\ get_stack' = get_stack
        /\ frames' = <<Frame("init", output_index[at], sheet.init[output_index[at]], {})>>
    BY <1>2 DEF BeginInitialize
  <2> QED BY <1>1, <2>1, StackedUnnamed
<1>3. ASSUME NEW v \in Value, EndInitialize(v) PROVE StackInv'
  <2>1. get_stack' = get_stack /\ frames' = <<>>
    BY <1>3 DEF EndInitialize
  <2> QED BY <1>1, <2>1, StackedNone
<1>4. CASE SkipInitialize \/ EndReinitialize
  BY <1>4 DEF SkipInitialize, EndReinitialize, evalVars
<1> QED BY <1>2, <1>3, <1>4 DEF Reinit

(* Reading a variable keeps it: only a cell that is calculated pushes its name. *)
LEMMA StackReads ==
  ASSUME StackInv, NEW n \in Declared \cup Computed,
         ReadInitializing(n) \/ ReadTerm(n) \/ ReadInput(n) \/ ReadCached(n) \/ ReadCalculates(n)
  PROVE  StackInv'
<1> USE DEF StackInv
<1>1. get_stack \in Seq(Cell \X BOOLEAN)
  BY DEF Stacked
<1>2. frames # <<>>
  BY DEF ReadInitializing, ReadTerm, ReadInput, ReadCached, ReadCalculates, In, Evaluating, Running
<1>3. CASE ReadInitializing(n) \/ ReadInput(n) \/ ReadCached(n)
  <2>1. get_stack' = get_stack /\ (frames' = Deliver(frames, input[n]) \/ frames' = Deliver(frames, state[n]))
    BY <1>3 DEF ReadInitializing, ReadInput, ReadCached
  <2> QED BY <1>2, <2>1, Delivered
<1>4. CASE ReadTerm(n)
  <2> DEFINE top == Len(get_stack)
  <2>1. /\ get_stack' = [get_stack EXCEPT ![top] = <<n, TRUE>>]
        /\ frames' = Append(frames, Frame("term", n, TermExpr(n), {}))
        /\ get_stack # <<>> /\ get_stack[top][1] = n
    BY <1>4 DEF ReadTerm, OnTop, Last
  <2>2. top \in 1..top /\ get_stack[top] \in Cell \X BOOLEAN
    BY <1>1, <2>1
  <2>3. <<n, TRUE>> \in Cell \X BOOLEAN
    BY <2>1, <2>2
  <2>4. /\ get_stack' \in Seq(Cell \X BOOLEAN) /\ Len(get_stack') = top
        /\ \A i \in 1..top : get_stack'[i] = IF i = top THEN <<n, TRUE>> ELSE get_stack[i]
    BY <1>1, <2>1, <2>2, <2>3
  <2> HIDE DEF top
  <2>5. ASSUME NEW i \in 1..top PROVE get_stack'[i][1] = get_stack[i][1]
    <3>1. CASE i = top
      BY <3>1, <2>1, <2>2, <2>4
    <3>2. CASE i # top
      BY <3>2, <2>4
    <3> QED BY <3>1, <3>2
  <2> DEFINE f == Frame("term", n, TermExpr(n), {})
             C == {n, TermExpr(n), {}, <<>>}
  <2>6. f \in FrameOver(C) /\ ~Named(f)
    BY DEF Frame, FrameOver, FrameKinds, Named
  <2>7. Pushed(f, get_stack, get_stack')
    BY <2>4, <2>5, <2>6 DEF Pushed, top
  <2> HIDE DEF f, C
  <2>8. Stacked(Append(frames, f), get_stack')
    BY <1>2, <2>6, <2>7, StackedPush
  <2> QED BY <2>1, <2>8 DEF f
<1>5. CASE ReadCalculates(n)
  <2> DEFINE f == Frame("get", n, sheet.expr[n], accumulate)
             C == {n, sheet.expr[n], accumulate, <<>>}
  <2>1. get_stack' = Push(n) /\ frames' = Append(frames, f)
    BY <1>5 DEF ReadCalculates
  <2>2. f \in FrameOver(C) /\ (Named(f) <=> n \in Cell) /\ f.of = n
    BY DEF Frame, FrameOver, FrameKinds, Named
  <2> HIDE DEF f, C
  <2>3. Pushed(f, get_stack, get_stack')
    BY <1>1, <2>1, <2>2 DEF Push, Pushed
  <2>4. Stacked(Append(frames, f), get_stack')
    BY <1>2, <2>2, <2>3, StackedPush
  <2> QED BY <2>1, <2>4
<1> QED BY <1>3, <1>4, <1>5

(* Returning from get or from a term keeps it: get pops what it pushed, a term
   pushed nothing. *)
LEMMA StackReturns ==
  ASSUME StackInv, NEW v \in Value, ReturnGet(v) \/ ReturnTerm(v)
  PROVE  StackInv'
<1> USE DEF StackInv
<1>1. frames # <<>> /\ frames' = Deliver(Front(frames), v)
  BY DEF ReturnGet, ReturnTerm, In, Running
<1>2. get_stack' = IF Named(Now) THEN Front(get_stack) ELSE get_stack
  BY DEF ReturnGet, ReturnTerm, In, Calculated, Pop, Named
<1>3. Now.kind \notin Roots
  BY DEF ReturnGet, ReturnTerm, In, Roots
<1>4. Now = frames[Len(frames)]
  BY DEF Now, Last
<1>5. Stacked(Front(frames), get_stack') /\ Front(frames) # <<>>
  BY <1>1, <1>2, <1>3, <1>4, StackedPop
<1> QED BY <1>1, <1>5, Delivered

(* An exception takes off the names that get pushed; the update's own stays. *)
LEMMA StackThrow ==
  ASSUME StackInv, Throw
  PROVE  StackInv'
<1> USE DEF StackInv
<1>1. get_stack \in Seq(Cell \X BOOLEAN) /\ Len(get_stack) \in Nat
  BY DEF Stacked
<1>2. Unwound \in Nat
  <2>1. PICK A : frames \in Seq(FrameOver(A))
    BY DEF Stacked
  <2>2. Len(frames) \in Nat /\ DOMAIN frames = 1..Len(frames)
    BY <2>1
  <2>3. IsFiniteSet(1..Len(frames))
    BY <2>2, FS_Interval
  <2>4. IsFiniteSet({i \in DOMAIN frames : frames[i].kind = "get" /\ frames[i].of \in Cell})
    BY <2>2, <2>3, FS_Subset
  <2> QED BY <2>4, FS_CardinalityType DEF Unwound
<1>3. frames' = <<>> /\ get_stack' = SubSeq(get_stack, 1, Len(get_stack) - Unwound)
  BY DEF Throw
<1>4. Len(get_stack) - Unwound \in Int
  BY <1>1, <1>2
<1>5. \A i \in 1..(Len(get_stack) - Unwound) : get_stack[i] \in Cell \X BOOLEAN
  BY <1>1, <1>2
<1>6. get_stack' \in Seq(Cell \X BOOLEAN)
  BY <1>3, <1>4, <1>5, SubSeqProperties
<1> QED BY <1>3, <1>6, StackedNone
(* The steps of update keep it. *)
LEMMA StackUpdating ==
  ASSUME StackInv, Updating
  PROVE  StackInv'
<1> USE DEF StackInv
<1>1. get_stack \in Seq(Cell \X BOOLEAN)
  BY DEF Stacked
<1>3. ASSUME NEW r \in Relation, BeginConditional(r) PROVE StackInv'
  <2>1. get_stack' = get_stack /\ frames' = <<Frame("when", r, sheet.relations[r].when, {})>>
    BY <1>3 DEF BeginConditional
  <2> QED BY <1>1, <2>1, StackedUnnamed
<1>4. ASSUME NEW v \in Value, EndConditional(v) PROVE StackInv'
  <2>1. get_stack' = get_stack /\ frames' = <<>>
    BY <1>4 DEF EndConditional
  <2> QED BY <1>1, <2>1, StackedNone
<1>5. ASSUME NEW v \in Value, EndCalculate(v) PROVE StackInv'
  <2>1. /\ frames # <<>> /\ frames[Len(frames)].kind = "output"
        /\ get_stack' = Pop(frames[Len(frames)].of) /\ frames' = <<>>
    BY <1>5 DEF EndCalculate, In, Running, Calculated, Now, Last
  <2>2. CASE frames[Len(frames)].of \in Cell
    <3>1. Len(get_stack) >= 1
      BY <2>1, <2>2, StackedTop DEF Named
    <3>2. get_stack # <<>>
      BY <3>1, <1>1
    <3>3. get_stack' \in Seq(Cell \X BOOLEAN)
      BY <2>1, <2>2, <3>2, <1>1, FrontIs DEF Pop
    <3> QED BY <2>1, <3>3, StackedNone
  <2>3. CASE frames[Len(frames)].of \notin Cell
    BY <2>1, <2>3, <1>1, StackedNone DEF Pop
  <2> QED BY <2>2, <2>3
<1>6. ASSUME NEW n \in Indexed, BeginCalculate(n) PROVE StackInv'
  <2> DEFINE f == Frame("output", n, sheet.expr[n], {})
             C == {n, sheet.expr[n], {}, <<>>}
  <2>1. get_stack' = Push(n) /\ frames' = <<f>>
    BY <1>6 DEF BeginCalculate
  <2>2. f \in FrameOver(C) /\ f.kind \in Roots /\ (Named(f) <=> n \in Cell) /\ f.of = n
    BY DEF Frame, FrameOver, FrameKinds, Roots, Named
  <2> HIDE DEF f, C
  <2>3. Pushed(f, get_stack, get_stack')
    BY <1>1, <2>1, <2>2 DEF Push, Pushed
  <2>4. Stacked(<<f>>, get_stack')
    BY <1>1, <2>2, <2>3, StackedRoot
  <2> QED BY <2>1, <2>4
<1>7. ASSUME NEW n \in Indexed, CalculateAttached(n) PROVE StackInv'
  <2>1. get_stack' = Push(n) /\ frames' = frames /\ frames = <<>>
    BY <1>7 DEF CalculateAttached, Visiting, Running
  <2>2. get_stack' \in Seq(Cell \X BOOLEAN)
    <3>1. n \in Cell => <<n, FALSE>> \in Cell \X BOOLEAN
      OBVIOUS
    <3> QED BY <1>1, <2>1, <3>1 DEF Push
  <2> QED BY <2>1, <2>2, StackedNone
<1>8. ASSUME NEW n \in Indexed, ApplyEvaluated(n) PROVE StackInv'
  BY <1>8 DEF ApplyEvaluated, evalVars
<1>9. CASE ConditionalsSolved \/ FlowStep \/ Notify
  BY <1>9 DEF ConditionalsSolved, FlowStep, Notify, evalVars
<1> QED BY <1>3, <1>4, <1>5, <1>6, <1>7, <1>8, <1>9 DEF Updating

(* The calls of the client, and their answers, keep it. *)
LEMMA StackCalls ==
  ASSUME StackInv, Calls \/ Answering
  PROVE  StackInv'
<1> USE DEF StackInv
<1>1. get_stack \in Seq(Cell \X BOOLEAN)
  BY DEF Stacked
<1>2. ASSUME NEW q \in sheet.queries, Query(q) PROVE StackInv'
  <2>1. get_stack' = get_stack /\ frames' = <<Frame("client", NoCell, q, {})>>
    BY <1>2 DEF Query
  <2> QED BY <1>1, <2>1, StackedUnnamed
<1>3. ASSUME NEW v \in Value, Answer(v) PROVE StackInv'
  <2>1. get_stack' = get_stack /\ frames' = <<>>
    BY <1>3 DEF Answer
  <2> QED BY <1>1, <2>1, StackedNone
<1>4. ASSUME \/ \E n \in Cell \cup Input, v \in Value : SetValue(n, v)
             \/ \E S \in SUBSET Cell : TouchCells(S)
             \/ BeginReinitialize \/ StartUpdate
             \/ \E n \in sheet.monitored : MonitorValue(n)
             \/ \E c \in Cell : \E T \in sheet.touches[c] : MonitorEnabled(c, T)
      PROVE  StackInv'
  BY <1>4 DEF SetValue, TouchCells, BeginReinitialize, StartUpdate, MonitorValue, MonitorEnabled, evalVars
<1> QED BY <1>2, <1>3, <1>4 DEF Calls, Answering

LEMMA StackInit == SInit => StackInv
<1>1. SInit => frames = <<>> /\ get_stack = <<>>
  BY DEF SInit
<1>2. <<>> \in Seq(Cell \X BOOLEAN)
  OBVIOUS
<1>3. Stacked(<<>>, <<>>)
  BY <1>2, StackedNone
<1> QED BY <1>1, <1>3 DEF StackInv

LEMMA StackStep ==
  ASSUME StackInv, [SNext]_svars
  PROVE  StackInv'
<1>1. CASE UNCHANGED svars
  BY <1>1 DEF svars, evalVars, StackInv
<1>2. CASE Build
  BY <1>2, StackBuild
<1>3. CASE Reinit
  BY <1>3, StackReinit
<1>4. CASE Evaluate
  <2>1. ASSUME NEW n \in Declared \cup Computed,
               ReadInitializing(n) \/ ReadTerm(n) \/ ReadInput(n) \/ ReadCached(n) \/ ReadCalculates(n)
        PROVE  StackInv'
    BY <2>1, StackReads
  <2>2. ASSUME NEW v \in Value, ReturnGet(v) \/ ReturnTerm(v) PROVE StackInv'
    BY <2>2, StackReturns
  <2> QED BY <1>4, <2>1, <2>2, StackThrow DEF Evaluate
<1>5. CASE Updating
  BY <1>5, StackUpdating
<1>6. CASE Calls \/ Answering
  BY <1>6, StackCalls
<1> QED BY <1>1, <1>2, <1>3, <1>4, <1>5, <1>6 DEF SNext

(* In every sheet, whatever it reads, throws or refuses, a cell that returns finds its
   own name on top of the get stack: get and update pop what they pushed. *)
THEOREM NamesBalanced == SheetSpec => []OwnNameOnTop
<1>1. SInit => StackInv
  BY StackInit
<1>2. StackInv /\ [SNext]_svars => StackInv'
  BY StackStep
<1>3. StackInv => OwnNameOnTop
  <2> SUFFICES ASSUME StackInv, Running, Now.kind \in {"get", "output"}, Now.of \in Cell
               PROVE  OnTop(Now.of)
    BY DEF OwnNameOnTop
  <2>1. frames # <<>> /\ Now = frames[Len(frames)] /\ Named(frames[Len(frames)])
    BY DEF Running, Now, Last, Named
  <2>2. Len(get_stack) >= 1 /\ get_stack[Len(get_stack)][1] = Now.of
    BY <2>1, StackedTop DEF StackInv
  <2>3. get_stack # <<>>
    BY <2>2
  <2> QED BY <2>2, <2>3 DEF OnTop, Last
<1> QED BY <1>1, <1>2, <1>3, PTL DEF SheetSpec
-----------------------------------------------------------------------------
(* Types.  They need to know what is going on: an evaluation belongs
   to one phase. *)
Root == frames[1].kind
InPhase ==
  /\ phase # "idle" => mode = "ready"
  /\ frames # <<>> =>
       \/ Root = "init" /\ phase = "idle" /\ mode \in {"build", "reinit"} /\ Len(frames) = 1
       \/ Root = "client" /\ phase = "idle" /\ mode = "ready"
       \/ Root = "when" /\ phase = "conditionals"
       \/ Root = "output" /\ phase = "flowed"
  /\ frames # <<>> /\ mode = "build" => built < Len(sheet.order)

(* What is accumulated for a value or a conditional are interface cells; an initializer
   accumulates plain inputs as well, and what it leaves is still there when a client asks. *)
Collects(f) == f.kind \in {"when", "output", "get"}
Framed(fs, acc) ==
  /\ \E A : fs \in Seq(FrameOver(A))
  /\ \A i \in 1..Len(fs) :
       /\ fs[i].vals \in Seq(Value)
       /\ fs[i].kind \in {"get", "output"} => fs[i].of \in Evaluable
       /\ Collects(fs[i]) => acc \subseteq Cell
  /\ \A i, j \in 1..Len(fs) : i < j /\ Collects(fs[i]) => fs[j].old \subseteq Cell
  /\ \A i \in 2..Len(fs) : fs[i].kind \in {"get", "term"}

CellsTyped ==
  /\ sheet \in Sheets /\ mode \in {"build", "ready", "reinit", "broken"} /\ built \in Nat
  /\ input \in [Declared -> Value] /\ state \in [Evaluable -> Value]
  /\ evaluated \subseteq Evaluable /\ dirty \subseteq Evaluable
  /\ contributing \in [Evaluable -> SUBSET Cell]
  /\ init_dirty \subseteq Input /\ value_accessed \subseteq Cell
  /\ at \in Nat /\ priority_accessed_m \subseteq Cell /\ active \subseteq Cell
  /\ cond_indirect \subseteq Cell /\ (phase = "conditionals" => accumulate \subseteq Cell)

Typed == CellsTyped /\ InPhase /\ Framed(frames, accumulate)
SheetInv == TypeOK /\ StackInv /\ Typed

LEMMA SheetTypes == SheetInv => SheetTypeOK
<1> SUFFICES ASSUME SheetInv PROVE SheetTypeOK
  OBVIOUS
<1>1. PICK A : frames \in Seq(FrameOver(A))
  BY DEF SheetInv, Typed, Framed
<1>2. \A i \in DOMAIN frames : frames[i] \in FrameOver(A) /\ i \in 1..Len(frames)
  BY <1>1
<1>3. \A i \in DOMAIN frames : frames[i].kind \in FrameKinds /\ frames[i].vals \in Seq(Value)
  BY <1>2 DEF SheetInv, Typed, Framed, FrameOver
<1>4. get_stack \in Seq(Cell \X BOOLEAN)
  BY DEF SheetInv, StackInv, Stacked
<1> QED BY <1>3, <1>4 DEF SheetInv, Typed, CellsTyped, SheetTypeOK

(* What Deliver, a call and a return do to the frames. *)
LEMMA DeliverIs ==
  ASSUME NEW A, NEW fs \in Seq(FrameOver(A)), fs # <<>>, NEW v
  PROVE  /\ \E B : Deliver(fs, v) \in Seq(FrameOver(B))
         /\ Len(Deliver(fs, v)) = Len(fs) /\ Len(fs) \in 1..Len(fs)
         /\ \A i \in 1..Len(fs) :
              /\ Deliver(fs, v)[i].kind = fs[i].kind /\ Deliver(fs, v)[i].of = fs[i].of
              /\ Deliver(fs, v)[i].expr = fs[i].expr /\ Deliver(fs, v)[i].old = fs[i].old
              /\ Deliver(fs, v)[i].vals = IF i = Len(fs) THEN Append(fs[i].vals, v) ELSE fs[i].vals
<1> DEFINE B == A \cup {Append(fs[Len(fs)].vals, v)}
           g == [Last(fs) EXCEPT !.vals = Append(@, v)]
<1>1. Len(fs) \in 1..Len(fs)
  OBVIOUS
<1>2. \A i \in 1..Len(fs) : fs[i] \in FrameOver(A)
  OBVIOUS
<1>3. /\ g \in FrameOver(B) /\ g.vals = Append(fs[Len(fs)].vals, v)
      /\ g.kind = fs[Len(fs)].kind /\ g.of = fs[Len(fs)].of
      /\ g.expr = fs[Len(fs)].expr /\ g.old = fs[Len(fs)].old
  BY <1>1, <1>2 DEF FrameOver, Last
<1>4. \A f \in FrameOver(A) : f \in FrameOver(B)
  BY DEF FrameOver
<1>5. Deliver(fs, v) = [fs EXCEPT ![Len(fs)] = g]
  BY DEF Deliver
<1> HIDE DEF B, g
<1>6. Deliver(fs, v) \in Seq(FrameOver(B)) /\ Len(Deliver(fs, v)) = Len(fs)
  BY <1>1, <1>2, <1>3, <1>4, <1>5
<1>7. \A i \in 1..Len(fs) : Deliver(fs, v)[i] = IF i = Len(fs) THEN g ELSE fs[i]
  BY <1>1, <1>2, <1>5
<1> QED BY <1>1, <1>3, <1>6, <1>7

LEMMA PushIs ==
  ASSUME NEW A, NEW fs \in Seq(FrameOver(A)), NEW kind \in FrameKinds, NEW of, NEW expr, NEW old
  PROVE  LET gs == Append(fs, Frame(kind, of, expr, old))
         IN  /\ \E B : gs \in Seq(FrameOver(B))
             /\ Len(gs) = Len(fs) + 1 /\ gs # <<>> /\ Len(fs) \in Nat
             /\ gs[Len(fs) + 1] = Frame(kind, of, expr, old)
             /\ \A i \in 1..Len(fs) : gs[i] = fs[i]
<1> DEFINE f == Frame(kind, of, expr, old)
           B == A \cup {of, expr, old, <<>>}
<1>1. f \in FrameOver(B)
  BY DEF Frame, FrameOver
<1>2. \A g \in FrameOver(A) : g \in FrameOver(B)
  BY DEF FrameOver
<1> HIDE DEF f, B
<1>3. Append(fs, f) \in Seq(FrameOver(B))
  BY <1>1, <1>2
<1>4. /\ Len(Append(fs, f)) = Len(fs) + 1 /\ Len(fs) \in Nat
      /\ Append(fs, f)[Len(fs) + 1] = f
      /\ \A i \in 1..Len(fs) : Append(fs, f)[i] = fs[i]
  OBVIOUS
<1>5. Append(fs, f) # <<>>
  BY <1>4
<1> QED BY <1>3, <1>4, <1>5 DEF f

-----------------------------------------------------------------------------
LEMMA FramedNone ==
  ASSUME NEW acc
  PROVE  Framed(<<>>, acc)
<1>1. <<>> \in Seq(FrameOver({})) /\ Len(<<>>) = 0
  OBVIOUS
<1> QED BY <1>1 DEF Framed

LEMMA FramedRoot ==
  ASSUME NEW kind \in Roots, NEW of, NEW expr, NEW acc,
         kind = "output" => of \in Evaluable, kind \in {"when", "output"} => acc \subseteq Cell
  PROVE  Framed(<<Frame(kind, of, expr, {})>>, acc)
<1> DEFINE f == Frame(kind, of, expr, {})
           B == {of, expr, {}, <<>>}
<1>1. f \in FrameOver(B) /\ f.kind = kind /\ f.of = of /\ f.vals = <<>>
  BY DEF Frame, FrameOver, FrameKinds, Roots
<1> HIDE DEF f, B
<1>2. <<f>> \in Seq(FrameOver(B)) /\ Len(<<f>>) = 1 /\ <<f>>[1] = f
  BY <1>1
<1>3. <<>> \in Seq(Value) /\ kind # "get"
  BY DEF Roots
<1> DEFINE fs == <<f>>
<1>4. fs \in Seq(FrameOver(B)) /\ Len(fs) = 1 /\ \A i \in 1..1 : fs[i] = f
  BY <1>2
<1> HIDE DEF fs
<1>5. (\A i, j \in 1..1 : ~(i < j)) /\ 2..1 = {}
  OBVIOUS
<1>6. Collects(f) => acc \subseteq Cell
  BY <1>1, <1>3 DEF Collects, Roots
<1>7. f.vals \in Seq(Value) /\ (f.kind \in {"get", "output"} => f.of \in Evaluable)
  BY <1>1, <1>3
<1>8. Framed(fs, acc)
  BY <1>4, <1>5, <1>6, <1>7 DEF Framed
<1> QED BY <1>8 DEF f, fs

LEMMA FramedDeliver ==
  ASSUME NEW fs, NEW acc, Framed(fs, acc), fs # <<>>, NEW v \in Value,
         NEW acc2, acc \subseteq Cell => acc2 \subseteq Cell
  PROVE  Framed(Deliver(fs, v), acc2)
<1>1. PICK A : fs \in Seq(FrameOver(A))
  BY DEF Framed
<1> DEFINE gs == Deliver(fs, v)
<1>2. /\ \E B : gs \in Seq(FrameOver(B))
      /\ Len(gs) = Len(fs)
      /\ \A i \in 1..Len(fs) :
           /\ gs[i].kind = fs[i].kind /\ gs[i].of = fs[i].of /\ gs[i].old = fs[i].old
           /\ gs[i].vals = IF i = Len(fs) THEN Append(fs[i].vals, v) ELSE fs[i].vals
  BY <1>1, DeliverIs
<1> HIDE DEF gs
<1>3. \A i \in 1..Len(fs) : gs[i].vals \in Seq(Value) /\ (Collects(gs[i]) <=> Collects(fs[i]))
  <2> TAKE i \in 1..Len(fs)
  <2>1. fs[i].vals \in Seq(Value)
    BY DEF Framed
  <2>2. Append(fs[i].vals, v) \in Seq(Value)
    BY <2>1
  <2> QED BY <1>2, <2>1, <2>2 DEF Collects
<1>4. \A i \in 2..Len(fs) : i \in 1..Len(fs)
  BY <1>1
<1>5. Framed(gs, acc2)
  BY <1>2, <1>3, <1>4 DEF Framed
<1> QED BY <1>5 DEF gs

(* An initializer alone accumulates what it likes. *)
LEMMA FramedInit ==
  ASSUME NEW fs, NEW acc, Framed(fs, acc), Len(fs) = 1, fs[1].kind = "init", NEW v \in Value, NEW acc2
  PROVE  Framed(Deliver(fs, v), acc2)
<1>1. \A i \in 1..1 : i = 1
  OBVIOUS
<1>2. Framed(fs, acc2)
  <2>1. \A i \in 1..Len(fs) : ~Collects(fs[i])
    BY <1>1 DEF Collects
  <2> QED BY <2>1 DEF Framed
<1>3. fs # <<>>
  OBVIOUS
<1>4. acc2 \subseteq Cell => acc2 \subseteq Cell
  OBVIOUS
<1> QED BY <1>2, <1>3, <1>4, FramedDeliver

LEMMA FramedPush ==
  ASSUME NEW fs, NEW acc, Framed(fs, acc), NEW kind \in {"get", "term"}, NEW of, NEW expr, NEW acc2,
         kind = "get" => of \in Evaluable /\ acc2 = {}, kind = "term" => acc2 = acc
  PROVE  Framed(Append(fs, Frame(kind, of, expr, IF kind = "get" THEN acc ELSE {})), acc2)
<1>1. PICK A : fs \in Seq(FrameOver(A))
  BY DEF Framed
<1> DEFINE f == Frame(kind, of, expr, IF kind = "get" THEN acc ELSE {})
           gs == Append(fs, f)
           n == Len(fs)
<1>2. kind \in FrameKinds
  BY DEF FrameKinds
<1>3. /\ \E B : gs \in Seq(FrameOver(B))
      /\ Len(gs) = n + 1 /\ n \in Nat /\ gs[n + 1] = f /\ \A i \in 1..n : gs[i] = fs[i]
  BY <1>1, <1>2, PushIs
<1>4. /\ f.kind = kind /\ f.of = of /\ f.vals = <<>> /\ f.old = IF kind = "get" THEN acc ELSE {}
      /\ <<>> \in Seq(Value)
  BY DEF Frame
<1> HIDE DEF f, gs, n
<1>5. \A i \in 1..n + 1 : i \in 1..n \/ i = n + 1
  BY <1>3
<1>6. \A i \in 1..n + 1 :
        /\ gs[i].vals \in Seq(Value)
        /\ gs[i].kind \in {"get", "output"} => gs[i].of \in Evaluable
        /\ Collects(gs[i]) => acc2 \subseteq Cell
  BY <1>3, <1>4, <1>5 DEF Framed, Collects, n
<1>7. \A i, j \in 1..n + 1 : i < j /\ Collects(gs[i]) => gs[j].old \subseteq Cell
  <2> TAKE i, j \in 1..n + 1
  <2> HAVE i < j /\ Collects(gs[i])
  <2>1. i \in 1..n
    BY <1>3
  <2>2. Collects(fs[i]) /\ acc \subseteq Cell
    BY <2>1, <1>3 DEF Framed, n
  <2>3. CASE j = n + 1
    BY <2>2, <2>3, <1>3, <1>4
  <2>4. CASE j \in 1..n
    BY <2>1, <2>2, <2>4, <1>3 DEF Framed, n
  <2> QED BY <1>5, <2>3, <2>4
<1>8. \A i \in 2..n + 1 : gs[i].kind \in {"get", "term"}
  <2>1. \A i \in 2..n + 1 : i \in 2..n \/ i = n + 1
    BY <1>3
  <2>2. \A i \in 2..n : i \in 1..n
    BY <1>3
  <2> QED BY <2>1, <2>2, <1>3, <1>4 DEF Framed, n
<1>9. Framed(gs, acc2)
  BY <1>3, <1>6, <1>7, <1>8 DEF Framed
<1> QED BY <1>9 DEF gs, f

LEMMA FramedPop ==
  ASSUME NEW fs, NEW acc, Framed(fs, acc), fs # <<>>, NEW acc2,
         acc2 = acc \/ acc2 = acc \cup fs[Len(fs)].old
  PROVE  Framed(Front(fs), acc2)
<1>1. PICK A : fs \in Seq(FrameOver(A))
  BY DEF Framed
<1> DEFINE n == Len(fs)
           gs == Front(fs)
<1>2. n \in Nat /\ n >= 1 /\ gs \in Seq(FrameOver(A)) /\ Len(gs) = n - 1 /\ \A i \in 1..n - 1 : gs[i] = fs[i]
  BY <1>1, FrontIs
<1> HIDE DEF gs, n
<1>3. n \in 1..n /\ \A i \in 1..n - 1 : i \in 1..n /\ i < n
  BY <1>2
<1>4. ASSUME NEW i \in 1..n - 1, Collects(gs[i]) PROVE acc2 \subseteq Cell
  BY <1>2, <1>3, <1>4 DEF Framed, n
<1>5. \A i \in 2..n - 1 : i \in 2..n /\ i \in 1..n - 1
  BY <1>2
<1> QED BY <1>2, <1>3, <1>4, <1>5 DEF Framed, gs, n

-----------------------------------------------------------------------------
(* Where an evaluation is. *)
LEMMA InnermostIs ==
  ASSUME StackInv, Framed(frames, accumulate), frames # <<>>
  PROVE  /\ Len(frames) \in Nat /\ Len(frames) >= 1 /\ Now = frames[Len(frames)] /\ Root \in Roots
         /\ Now.kind \in FrameKinds /\ Now.vals \in Seq(Value)
         /\ Now.kind \in {"get", "output"} => Now.of \in Evaluable
         /\ Collects(Now) => accumulate \subseteq Cell
         /\ Now.kind \in Roots => Len(frames) = 1 /\ Root = Now.kind
<1>1. PICK A : frames \in Seq(FrameOver(A))
  BY DEF Framed
<1> DEFINE n == Len(frames)
<1>2. n \in Nat /\ n >= 1 /\ n \in 1..n /\ frames[n] \in FrameOver(A) /\ (n = 1 \/ n \in 2..n)
  <2>1. n \in Nat /\ n >= 1
    BY <1>1, FrontIs
  <2>2. \A i \in 1..n : frames[i] \in FrameOver(A)
    BY <1>1
  <2> HIDE DEF n
  <2> QED BY <2>1, <2>2
<1>3. Now = frames[n]
  BY DEF Now, Last
<1>4. Root \in Roots
  BY DEF StackInv, Stacked, Root
<1>5. Now.kind \in FrameKinds
  BY <1>2, <1>3 DEF FrameOver
<1>6. /\ Now.vals \in Seq(Value)
      /\ Now.kind \in {"get", "output"} => Now.of \in Evaluable
      /\ Collects(Now) => accumulate \subseteq Cell
  BY <1>2, <1>3 DEF Framed
<1>7. Now.kind \in Roots => n = 1
  BY <1>2, <1>3 DEF Framed, Roots
<1> HIDE DEF n
<1>8. Now.kind \in Roots => Root = Now.kind
  BY <1>3, <1>7 DEF Root
<1> QED BY <1>2, <1>3, <1>4, <1>5, <1>6, <1>7, <1>8 DEF n

(* The names of a sheet are declared or calculated, and there are finitely many. *)
LEMMA NamesAre ==
  ASSUME sheet \in Sheets
  PROVE  /\ Names \subseteq Declared \cup Evaluable /\ Indexed \subseteq Evaluable
         /\ \A i \in 1..Len(sheet.order) : sheet.order[i] \in Declared
         /\ IsFiniteSet(Names) /\ CellCount \in Nat
<1>1. /\ DOMAIN sheet.order = 1..Len(sheet.order)
      /\ \A i \in 1..Len(sheet.order) : sheet.order[i] \in Declared
      /\ DOMAIN sheet.expr \subseteq Evaluable
  OBVIOUS
<1>2. Names \subseteq Declared \cup Evaluable /\ Indexed \subseteq Evaluable
  BY <1>1 DEF Names, Indexed
<1>3. Names \subseteq Declared \cup Computed /\ Cell \cap Names \subseteq Declared \cup Computed
  BY <1>2 DEF Evaluable, Declared
<1>4. IsFiniteSet(Names) /\ IsFiniteSet(Cell \cap Names)
  BY <1>3, FS_Subset
<1> QED BY <1>1, <1>2, <1>4, FS_CardinalityType DEF CellCount

(* Nothing runs: the frames need nothing. *)
LEMMA AtRest ==
  ASSUME frames' = <<>>, phase' # "idle" => mode' = "ready"
  PROVE  InPhase' /\ Framed(frames', accumulate')
BY FramedNone DEF InPhase

(* Declaring cells keeps the types. *)
LEMMA TypedBuild ==
  ASSUME TypeOK, StackInv, Typed, Build
  PROVE  Typed'
<1> USE DEF Typed
<1> USE DEF cellVars, initVars, evalVars, monVars, declVars
<1>1. ASSUME NEW n \in Declared, BeginDeclare(n) PROVE Typed'
  <2>1. /\ mode = "build" /\ built < Len(sheet.order) /\ phase = "idle"
        /\ frames' = <<Frame("init", n, sheet.init[n], {})>>
        /\ UNCHANGED <<phase, declVars, cellVars, initVars, cond_indirect, value_accessed, at, monVars>>
    BY <1>1 DEF BeginDeclare, Declaring, InPhase, vars
  <2>2. CellsTyped'
    BY <2>1 DEF CellsTyped
  <2>3. Framed(frames', accumulate')
    BY <2>1, FramedRoot DEF Roots
  <2>4. Root' = "init" /\ Len(frames') = 1
    BY <2>1 DEF Root, Frame
  <2> QED BY <2>1, <2>2, <2>3, <2>4 DEF InPhase
<1>2. ASSUME NEW n \in Declared, Declare(n) PROVE Typed'
  <2>1. /\ mode = "build" /\ phase = "idle" /\ phase' = phase /\ built' = built + 1 /\ frames' = <<>>
        /\ UNCHANGED <<sheet, mode, state, evaluated, dirty, contributing, init_dirty, accumulate,
                       cond_indirect, value_accessed, at, monVars>>
    BY <1>2 DEF Declare, Declaring, InPhase, AddInterface, vars, Running
  <2>2. input' = input \/ \E v \in Value : input' = [input EXCEPT ![n] = v]
    BY <1>2 DEF Declare
  <2>3. CellsTyped'
    BY <2>1, <2>2 DEF CellsTyped
  <2> QED BY <2>1, <2>3, AtRest
<1>3. CASE DeclareRelation \/ EndBuild
  <2>1. /\ mode' = mode \/ mode' = "ready"
        /\ phase' = phase /\ frames' = <<>>
        /\ UNCHANGED <<sheet, built, cellVars, initVars, evalVars, at, monVars>>
    BY <1>3 DEF DeclareRelation, EndBuild, AddRelation, vars, Running
  <2>2. CellsTyped'
    BY <2>1 DEF CellsTyped
  <2> QED BY <2>1, <2>2, AtRest DEF InPhase
<1> QED BY <1>1, <1>2, <1>3 DEF Build

(* So does reinitialize. *)
LEMMA TypedReinit ==
  ASSUME TypeOK, StackInv, Typed, Reinit
  PROVE  Typed'
<1> USE DEF Typed
<1> USE DEF cellVars, initVars, evalVars, monVars, declVars
<1>1. CASE BeginInitialize
  <2> DEFINE n == output_index[at]
  <2>1. /\ mode = "reinit" /\ phase = "idle" /\ accumulate' = {}
        /\ frames' = <<Frame("init", n, sheet.init[n], {})>>
        /\ UNCHANGED <<phase, declVars, cellVars, initVars, cond_indirect, value_accessed, at, monVars>>
    BY <1>1 DEF BeginInitialize, InPhase, vars
  <2>2. CellsTyped'
    BY <2>1 DEF CellsTyped
  <2>3. Framed(frames', accumulate')
    BY <2>1, FramedRoot DEF Roots
  <2>4. Root' = "init" /\ Len(frames') = 1
    BY <2>1 DEF Root, Frame
  <2> QED BY <2>1, <2>2, <2>3, <2>4 DEF InPhase
<1>2. CASE SkipInitialize \/ EndReinitialize
  <2>1. /\ mode' \in {mode, "ready"} /\ phase' = phase /\ frames' = <<>> /\ at' \in {at, at + 1}
        /\ init_dirty' \in {init_dirty, {}}
        /\ UNCHANGED <<sheet, built, cellVars, evalVars, monVars>>
    BY <1>2 DEF SkipInitialize, EndReinitialize, vars, Running
  <2>2. CellsTyped'
    BY <2>1 DEF CellsTyped
  <2> QED BY <2>1, <2>2, AtRest DEF InPhase
<1>3. ASSUME NEW v \in Value, EndInitialize(v) PROVE Typed'
  <2>1. /\ phase' = phase /\ frames' = <<>> /\ at' = at + 1
        /\ input' = [input EXCEPT ![Now.of] = v]
        /\ UNCHANGED <<sheet, mode, built, state, evaluated, dirty, contributing, init_dirty, accumulate,
                       cond_indirect, value_accessed, monVars>>
    BY <1>3 DEF EndInitialize, Reinitialize
  <2>2. input' \in [Declared -> Value]
    BY <2>1 DEF CellsTyped
  <2>3. CellsTyped'
    BY <2>1, <2>2 DEF CellsTyped
  <2> QED BY <2>1, <2>3, AtRest DEF InPhase
<1> QED BY <1>1, <1>2, <1>3 DEF Reinit

(* A read or a return goes on with the evaluation that was begun. *)
LEMMA GoesOn ==
  ASSUME StackInv, StackInv', Typed, frames # <<>>, UNCHANGED <<phase, sheet, mode, built>>,
         frames' # <<>>, frames'[1].kind = frames[1].kind, Root = "init" => Len(frames') = Len(frames)
  PROVE  InPhase'
BY DEF Typed, InPhase, Root

(* Reading a variable keeps the types. *)
LEMMA TypedReads ==
  ASSUME TypeOK, StackInv, StackInv', Typed, NEW n \in Declared \cup Computed,
         ReadInitializing(n) \/ ReadTerm(n) \/ ReadInput(n) \/ ReadCached(n) \/ ReadCalculates(n)
  PROVE  Typed'
<1> USE DEF cellVars, initVars, evalVars, monVars, declVars
<1>1. /\ frames # <<>> /\ UNCHANGED <<phase, sheet, mode, built, input, state, evaluated, dirty,
                                     init_dirty, cond_indirect, at, monVars>>
      /\ CellsTyped /\ InPhase /\ Framed(frames, accumulate)
  BY DEF ReadInitializing, ReadTerm, ReadInput, ReadCached, ReadCalculates, In, Evaluating, Running, vars, Typed
<1>2. PICK A : frames \in Seq(FrameOver(A))
  BY <1>1 DEF Framed
<1>3. /\ Len(frames) \in Nat /\ Len(frames) >= 1 /\ Now.kind \in FrameKinds
      /\ Now.kind \in Roots => Len(frames) = 1 /\ Root = Now.kind
      /\ Collects(Now) => accumulate \subseteq Cell
  BY <1>1, InnermostIs
<1>4. /\ Names \subseteq Declared \cup Evaluable
      /\ \A i \in 1..Len(sheet.order) : sheet.order[i] \in Declared
  BY <1>1, NamesAre DEF CellsTyped
<1>5. OnTop(n) => n \in Cell
  <2>1. get_stack \in Seq(Cell \X BOOLEAN)
    BY DEF StackInv, Stacked
  <2>2. get_stack # <<>> => get_stack[Len(get_stack)] \in Cell \X BOOLEAN
    BY <2>1
  <2> QED BY <2>2 DEF OnTop, Last
<1>6. phase = "conditionals" => accumulate \subseteq Cell
  BY <1>1 DEF CellsTyped
<1>7. ASSUME NEW v \in Value, frames' = Deliver(frames, v), accumulate \subseteq Cell => accumulate' \subseteq Cell,
             contributing' \in [Evaluable -> SUBSET Cell], value_accessed' \subseteq Cell
      PROVE  Typed'
  <2>1. Framed(frames', accumulate')
    BY <1>1, <1>7, FramedDeliver
  <2>2. Len(frames') = Len(frames) /\ frames'[1].kind = frames[1].kind /\ 1 \in 1..Len(frames)
    BY <1>1, <1>2, <1>3, <1>7, DeliverIs
  <2>3. frames' # <<>>
    BY <2>2, <1>3
  <2>4. InPhase'
    BY <1>1, <2>2, <2>3, GoesOn DEF Typed
  <2>5. CellsTyped'
    BY <1>1, <1>6, <1>7 DEF CellsTyped
  <2> QED BY <2>1, <2>4, <2>5 DEF Typed
<1>8. ASSUME Now.kind # "init", NEW kind \in {"get", "term"}, NEW expr,
             kind = "get" => n \in Evaluable /\ accumulate' = {}, kind = "term" => accumulate' = accumulate,
             frames' = Append(frames, Frame(kind, n, expr, IF kind = "get" THEN accumulate ELSE {})),
             UNCHANGED <<contributing, value_accessed>>
      PROVE  Typed'
  <2>1. Framed(frames', accumulate')
    BY <1>1, <1>8, FramedPush
  <2>2. frames' # <<>> /\ frames'[1] = frames[1]
    <3>1. kind \in FrameKinds /\ 1 \in 1..Len(frames)
      BY <1>3 DEF FrameKinds
    <3> QED BY <1>2, <1>8, <3>1, PushIs
  <2>3. Root # "init"
    BY <1>1, <1>3, <1>8 DEF InPhase, Root, Now, Last
  <2>4. InPhase'
    BY <1>1, <2>2, <2>3, GoesOn DEF Typed
  <2>5. CellsTyped'
    BY <1>1, <1>6, <1>8 DEF CellsTyped
  <2> QED BY <2>1, <2>4, <2>5 DEF Typed
<1>9. CASE ReadInitializing(n)
  <2>1. Now.kind = "init" /\ phase = "idle"
    BY <1>1, <1>3, <1>9 DEF ReadInitializing, In, InPhase, Roots
  <2>2. n \in Declared
    <3>1. CASE mode = "reinit"
      BY <1>9, <3>1 DEF ReadInitializing, Visible
    <3>2. CASE mode = "build"
      <4>1. built \in Nat /\ built < Len(sheet.order)
        BY <1>1, <3>2 DEF InPhase, CellsTyped
      <4>2. Len(sheet.order) \in Nat
        BY <1>1 DEF CellsTyped
      <4>3. \A i \in 1..built + 1 : i \in 1..Len(sheet.order)
        BY <4>1, <4>2
      <4> QED BY <1>4, <1>9, <3>2, <4>3 DEF ReadInitializing, Visible
    <3> QED BY <1>9, <3>1, <3>2 DEF ReadInitializing, Visible
  <2>3. input[n] \in Value
    BY <1>1, <2>2 DEF CellsTyped
  <2>4. /\ frames' = Deliver(frames, input[n])
        /\ UNCHANGED <<contributing, value_accessed>>
    BY <1>9 DEF ReadInitializing
  <2>5. Framed(frames', accumulate')
    BY <1>1, <1>3, <2>1, <2>3, <2>4, FramedInit DEF Roots, Root
  <2>6. Len(frames') = Len(frames) /\ frames'[1].kind = frames[1].kind /\ 1 \in 1..Len(frames)
    BY <1>1, <1>2, <1>3, <2>4, DeliverIs
  <2>7. frames' # <<>>
    BY <2>6, <1>3
  <2>8. InPhase'
    BY <1>1, <2>6, <2>7, GoesOn DEF Typed
  <2>9. CellsTyped'
    BY <1>1, <2>1, <2>4 DEF CellsTyped
  <2> QED BY <2>5, <2>8, <2>9 DEF Typed
<1>10. CASE ReadTerm(n)
  <2>1. frames' = Append(frames, Frame("term", n, TermExpr(n), {}))
    BY <1>10 DEF ReadTerm
  <2>2. Now.kind # "init" /\ UNCHANGED <<accumulate, contributing, value_accessed>>
    BY <1>10 DEF ReadTerm, Evaluating
  <2> QED BY <1>8, <2>1, <2>2
<1>11. CASE ReadInput(n)
  <2>1. n \in Cell /\ value_accessed' = value_accessed \cup {n} /\ accumulate' = accumulate \cup {n}
        /\ frames' = Deliver(frames, input[n]) /\ contributing' = contributing
    BY <1>5, <1>11 DEF ReadInput
  <2>2. input[n] \in Value /\ value_accessed \subseteq Cell /\ contributing \in [Evaluable -> SUBSET Cell]
    BY <1>1, <2>1 DEF CellsTyped, Declared
  <2> QED BY <1>7, <2>1, <2>2
<1>12. CASE ReadCached(n)
  <2>1. /\ input \in [Declared -> Value] /\ state \in [Evaluable -> Value] /\ value_accessed \subseteq Cell
        /\ contributing \in [Evaluable -> SUBSET Cell] /\ cond_indirect \subseteq Cell
    BY <1>1 DEF CellsTyped
  <2>2. value_accessed' = value_accessed
    BY <1>12 DEF ReadCached
  <2>3. CASE n \in Evaluable
    <3>1. /\ accumulate' = accumulate \cup contributing[n]
          /\ contributing' = [contributing EXCEPT ![n] = @ \cup cond_indirect]
          /\ frames' = Deliver(frames, state[n])
      BY <1>12, <2>3 DEF ReadCached
    <3>2. contributing' \in [Evaluable -> SUBSET Cell]
      BY <2>1, <3>1
    <3>3. state[n] \in Value /\ contributing[n] \subseteq Cell
      BY <2>1, <2>3
    <3> QED BY <1>7, <2>1, <2>2, <3>1, <3>2, <3>3
  <2>4. CASE n \notin Evaluable
    <3>1. n \in Names /\ frames' = Deliver(frames, input[n]) /\ UNCHANGED <<accumulate, contributing>>
      BY <1>12, <2>4 DEF ReadCached
    <3>2. input[n] \in Value
      BY <1>4, <2>1, <2>4, <3>1
    <3> QED BY <1>7, <2>1, <2>2, <3>1, <3>2
  <2> QED BY <2>3, <2>4
<1>13. CASE ReadCalculates(n)
  <2>1. /\ frames' = Append(frames, Frame("get", n, sheet.expr[n], accumulate))
        /\ Now.kind # "init" /\ n \in Evaluable /\ accumulate' = {} /\ UNCHANGED <<contributing, value_accessed>>
    BY <1>13 DEF ReadCalculates, Evaluating
  <2> QED BY <1>8, <2>1
<1> QED BY <1>9, <1>10, <1>11, <1>12, <1>13

(* What a value is calculated to is kept. *)
LEMMA CalculatedTypes ==
  ASSUME Typed, NEW n \in Evaluable, NEW v \in Value, Calculated(n, v), accumulate \subseteq Cell
  PROVE  /\ state' \in [Evaluable -> Value] /\ evaluated' \subseteq Evaluable /\ dirty' \subseteq Evaluable
         /\ contributing' \in [Evaluable -> SUBSET Cell]
<1>1. /\ state \in [Evaluable -> Value] /\ evaluated \subseteq Evaluable /\ dirty \subseteq Evaluable
      /\ contributing \in [Evaluable -> SUBSET Cell] /\ cond_indirect \subseteq Cell
  BY DEF Typed, CellsTyped
<1>2. /\ state' = [state EXCEPT ![n] = v] /\ evaluated' = evaluated \cup {n}
      /\ contributing' = [contributing EXCEPT ![n] = accumulate \cup cond_indirect]
      /\ dirty' = dirty \cup {n} \/ dirty' = dirty \ {n}
  BY DEF Calculated
<1> QED BY <1>1, <1>2

(* Returning to the frame below keeps the types. *)
LEMMA TypedReturns ==
  ASSUME TypeOK, StackInv, StackInv', Typed, NEW v \in Value, ReturnGet(v) \/ ReturnTerm(v)
  PROVE  Typed'
<1>1. /\ frames # <<>> /\ UNCHANGED <<phase, sheet, mode, built, input, init_dirty, cond_indirect,
                                     value_accessed, at, priority_accessed_m, active>>
      /\ CellsTyped /\ InPhase /\ Framed(frames, accumulate)
      /\ frames' = Deliver(Front(frames), v) /\ Now.kind \in {"get", "term"}
  BY DEF ReturnGet, ReturnTerm, In, Running, vars, Typed, declVars, initVars, monVars, cellVars
<1>2. /\ Len(frames) \in Nat /\ Now = frames[Len(frames)]
      /\ Now.kind = "get" => Now.of \in Evaluable /\ accumulate \subseteq Cell
  BY <1>1, InnermostIs DEF Collects
<1>3. Front(frames) # <<>>
  BY <1>1, <1>2, StackedPop DEF StackInv, Roots
<1>4. PICK A : frames \in Seq(FrameOver(A))
  BY <1>1 DEF Framed
<1>5. /\ Front(frames) \in Seq(FrameOver(A)) /\ Len(Front(frames)) = Len(frames) - 1
      /\ \A i \in 1..Len(frames) - 1 : Front(frames)[i] = frames[i]
  BY <1>1, <1>4, FrontIs
<1>6. /\ Len(frames') = Len(Front(frames)) /\ 1 \in 1..Len(Front(frames))
      /\ frames'[1].kind = Front(frames)[1].kind
  BY <1>1, <1>3, <1>5, DeliverIs
<1>7. frames' # <<>> /\ frames'[1].kind = frames[1].kind
  BY <1>5, <1>6
<1>8. Root # "init"
  <2>1. Len(frames) # 1
    BY <1>5, <1>6, <1>2
  <2> QED BY <1>1, <2>1 DEF InPhase
<1>9. InPhase'
  BY <1>1, <1>7, <1>8, GoesOn
<1>10. Framed(frames', accumulate')
  <2>1. accumulate' = accumulate \/ accumulate' = accumulate \cup Now.old
    BY DEF ReturnGet, ReturnTerm
  <2>2. Framed(Front(frames), accumulate')
    BY <1>1, <1>2, <2>1, FramedPop
  <2> QED BY <1>1, <1>3, <2>2, FramedDeliver
<1>11. /\ state' \in [Evaluable -> Value] /\ evaluated' \subseteq Evaluable /\ dirty' \subseteq Evaluable
       /\ contributing' \in [Evaluable -> SUBSET Cell]
  <2>1. CASE ReturnGet(v)
    BY <1>2, <2>1, CalculatedTypes DEF ReturnGet, In
  <2>2. CASE ReturnTerm(v)
    BY <1>1, <2>2 DEF ReturnTerm, cellVars, CellsTyped
  <2> QED BY <2>1, <2>2
<1>12. phase = "conditionals" => accumulate' \subseteq Cell
  <2>1. CASE ReturnTerm(v)
    BY <1>1, <2>1 DEF ReturnTerm, CellsTyped
  <2>2. CASE ReturnGet(v) /\ phase = "conditionals"
    <3>1. Collects(frames[1]) /\ 1 \in 1..Len(frames) /\ Len(frames) \in 1..Len(frames) /\ 1 < Len(frames)
      <4>1. Collects(frames[1])
        BY <1>1, <2>2 DEF InPhase, Root, Collects
      <4> QED BY <4>1, <1>2, <1>5, <1>6
    <3>2. Now.old \subseteq Cell /\ accumulate \subseteq Cell
      BY <1>1, <1>2, <3>1 DEF Framed
    <3> QED BY <2>2, <3>2 DEF ReturnGet
  <2> QED BY <2>1, <2>2
<1>13. CellsTyped'
  BY <1>1, <1>11, <1>12 DEF CellsTyped
<1> QED BY <1>9, <1>10, <1>13 DEF Typed

(* An exception leaves nothing that runs. *)
LEMMA TypedThrow ==
  ASSUME TypeOK, StackInv, Typed, Throw
  PROVE  Typed'
<1>1. /\ frames # <<>> /\ frames' = <<>>
      /\ UNCHANGED <<sheet, built, input, state, evaluated, dirty, contributing, init_dirty,
                     accumulate, cond_indirect, value_accessed, at, priority_accessed_m, active>>
  BY DEF Throw, Throws, Running, cellVars, initVars, monVars
<1>2. (phase' = "idle" /\ mode' = mode) \/ (phase' = phase /\ mode' \in {"broken", "ready", mode})
  BY DEF Throw, ConditionalThrows, EndUpdate, vars
<1>3. phase' # "idle" => mode' = "ready"
  BY <1>2 DEF Throw, ConditionalThrows, EndUpdate, vars, Typed, InPhase, Root
<1>4. CellsTyped'
  BY <1>1, <1>2 DEF Typed, CellsTyped
<1> QED BY <1>1, <1>3, <1>4, AtRest DEF Typed

(* The steps of update keep the types. *)
LEMMA TypedUpdating ==
  ASSUME TypeOK, TypeOK', StackInv, StackInv', Typed, Updating
  PROVE  Typed'
<1> USE DEF cellVars, initVars, evalVars, monVars, declVars
<1>1. CellsTyped /\ InPhase /\ Framed(frames, accumulate)
  BY DEF Typed
<1>2. ASSUME NEW r \in Relation, BeginConditional(r) PROVE Typed'
  <2>1. /\ phase = "conditionals" /\ phase' = phase
        /\ frames' = <<Frame("when", r, sheet.relations[r].when, {})>>
        /\ UNCHANGED <<declVars, cellVars, initVars, accumulate, cond_indirect, value_accessed, at, monVars>>
    BY <1>2 DEF BeginConditional, SolvesNext, vars
  <2>2. CellsTyped' /\ accumulate' \subseteq Cell /\ mode = "ready"
    BY <1>1, <2>1 DEF CellsTyped, InPhase
  <2>3. Framed(frames', accumulate')
    BY <2>1, <2>2, FramedRoot DEF Roots
  <2>4. Root' = "when"
    BY <2>1 DEF Root, Frame
  <2> QED BY <2>1, <2>2, <2>3, <2>4 DEF InPhase, Typed
<1>3. ASSUME NEW v \in Value, EndConditional(v) PROVE Typed'
  <2>1. /\ phase' = phase /\ frames' = <<>>
        /\ UNCHANGED <<declVars, cellVars, initVars, accumulate, cond_indirect, value_accessed, at, monVars>>
    BY <1>3 DEF EndConditional, ConditionalHolds, ConditionalFails
  <2>2. CellsTyped'
    BY <1>1, <2>1 DEF CellsTyped
  <2> QED BY <1>1, <2>1, <2>2, AtRest DEF InPhase, Typed
<1>4. CASE ConditionalsSolved
  <2>1. /\ phase = "conditionals" /\ phase' = "flow" /\ frames' = <<>> /\ cond_indirect' = accumulate
        /\ UNCHANGED <<declVars, cellVars, initVars, accumulate, value_accessed, at, monVars>>
    BY <1>4 DEF ConditionalsSolved, EndConditionals, Running
  <2>2. CellsTyped'
    BY <1>1, <2>1 DEF CellsTyped
  <2> QED BY <1>1, <2>1, <2>2, AtRest DEF InPhase, Typed
<1>5. CASE FlowStep
  <2>1. /\ phase \in {"flow", "pop", "visit"} /\ phase' \in {"pop", "visit", "flowed"} /\ at' = 1
        /\ UNCHANGED <<declVars, cellVars, initVars, evalVars, monVars>>
    BY <1>5 DEF FlowStep, Flow, BeginFlow, SkipCell, PopCell, PassRelation, ApplyRelation, VisitsNext,
                EndCell, EndFlow
  <2>2. CellsTyped'
    BY <1>1, <2>1 DEF CellsTyped
  <2>3. frames' = <<>> /\ mode = "ready"
    BY <1>1, <2>1 DEF InPhase
  <2> QED BY <2>1, <2>2, <2>3, AtRest DEF Typed
<1>6. ASSUME NEW n \in Indexed, BeginCalculate(n) PROVE Typed'
  <2>1. /\ phase = "flowed" /\ phase' = phase /\ accumulate' = {}
        /\ frames' = <<Frame("output", n, sheet.expr[n], {})>>
        /\ UNCHANGED <<declVars, cellVars, initVars, cond_indirect, value_accessed, at, monVars>>
    BY <1>6 DEF BeginCalculate, Visiting, vars
  <2>2. CellsTyped' /\ n \in Evaluable /\ mode = "ready"
    BY <1>1, <2>1, NamesAre DEF CellsTyped, InPhase
  <2>3. Framed(frames', accumulate')
    BY <2>1, <2>2, FramedRoot DEF Roots
  <2>4. Root' = "output"
    BY <2>1 DEF Root, Frame
  <2> QED BY <2>1, <2>2, <2>3, <2>4 DEF InPhase, Typed
<1>7. ASSUME NEW n \in Indexed, CalculateAttached(n) PROVE Typed'
  <2>1. /\ phase' = "idle" /\ accumulate' = {} /\ frames' = <<>>
        /\ UNCHANGED <<declVars, cellVars, initVars, cond_indirect, value_accessed, at, monVars>>
    BY <1>7 DEF CalculateAttached, Visiting, EndUpdate, Running
  <2>2. CellsTyped'
    BY <1>1, <2>1 DEF CellsTyped
  <2> QED BY <2>1, <2>2, AtRest DEF Typed
<1>8. ASSUME NEW v \in Value, EndCalculate(v) PROVE Typed'
  <2>1. /\ frames # <<>> /\ Now.kind = "output" /\ Calculated(Now.of, v) /\ input' = AppliedBack(Now.of, v)
        /\ phase' = phase /\ frames' = <<>> /\ at' = at + 1
        /\ UNCHANGED <<declVars, initVars, accumulate, cond_indirect, value_accessed, monVars>>
    BY <1>8 DEF EndCalculate, In, Running, vars
  <2>2. Now.of \in Evaluable /\ accumulate \subseteq Cell
    BY <1>1, <2>1, InnermostIs DEF Collects
  <2>3. /\ state' \in [Evaluable -> Value] /\ evaluated' \subseteq Evaluable /\ dirty' \subseteq Evaluable
        /\ contributing' \in [Evaluable -> SUBSET Cell]
    BY <2>1, <2>2, CalculatedTypes
  <2>4. input' \in [Declared -> Value]
    BY <1>1, <2>1 DEF AppliedBack, CellsTyped
  <2>5. CellsTyped'
    BY <1>1, <2>1, <2>3, <2>4 DEF CellsTyped
  <2> QED BY <1>1, <2>1, <2>5, AtRest DEF InPhase, Typed
<1>9. ASSUME NEW n \in Indexed, ApplyEvaluated(n) PROVE Typed'
  <2>1. /\ input' = AppliedBack(n, state[n]) /\ n \in evaluated
        /\ phase' = phase /\ frames' = <<>> /\ at' = at + 1
        /\ UNCHANGED <<declVars, state, evaluated, dirty, contributing, initVars, evalVars, monVars>>
    BY <1>9 DEF ApplyEvaluated, Visiting, Running, vars
  <2>2. input' \in [Declared -> Value]
    BY <1>1, <2>1 DEF AppliedBack, CellsTyped
  <2>3. CellsTyped'
    BY <1>1, <2>1, <2>2 DEF CellsTyped
  <2> QED BY <1>1, <2>1, <2>3, AtRest DEF InPhase, Typed
<1>10. CASE Notify
  <2>1. /\ phase' = "idle" /\ frames' = <<>>
        /\ priority_accessed_m' = priority_accessed /\ active' = priority_accessed \cup Contributes
        /\ UNCHANGED <<declVars, cellVars, initVars, evalVars, at>>
    BY <1>10 DEF Notify, EndUpdate, Running
  <2>2. priority_accessed \subseteq Cell
    BY DEF TypeOK
  <2>3. Contributes \subseteq Cell
    <3>1. OutputCells \subseteq Evaluable
      BY DEF OutputCells, Evaluable, Computed
    <3>2. \A n \in Evaluable : contributing[n] \subseteq Cell
      BY <1>1 DEF CellsTyped
    <3> QED BY <3>1, <3>2 DEF Contributes
  <2>4. priority_accessed_m' \subseteq Cell /\ active' \subseteq Cell
    BY <2>1, <2>2, <2>3
  <2>5. CellsTyped'
    BY <1>1, <2>1, <2>4 DEF CellsTyped
  <2> QED BY <2>1, <2>5, AtRest DEF Typed
<1> QED BY <1>2, <1>3, <1>4, <1>5, <1>6, <1>7, <1>8, <1>9, <1>10 DEF Updating

(* So do the client's calls. *)
LEMMA TypedCalls ==
  ASSUME TypeOK, StackInv, Typed, Calls \/ Answering
  PROVE  Typed'
<1> USE DEF cellVars, initVars, evalVars, monVars, declVars
<1>1. CellsTyped /\ InPhase /\ Framed(frames, accumulate)
  BY DEF Typed
<1>2. ASSUME NEW q \in sheet.queries, Query(q) PROVE Typed'
  <2>1. /\ phase = "idle" /\ phase' = phase /\ mode = "ready"
        /\ frames' = <<Frame("client", NoCell, q, {})>>
        /\ UNCHANGED <<declVars, cellVars, initVars, accumulate, cond_indirect, value_accessed, at, monVars>>
    BY <1>2 DEF Query, Resting, vars
  <2>2. CellsTyped'
    BY <1>1, <2>1 DEF CellsTyped
  <2>3. Framed(frames', accumulate')
    BY <2>1, FramedRoot DEF Roots
  <2>4. Root' = "client"
    BY <2>1 DEF Root, Frame
  <2> QED BY <2>1, <2>2, <2>3, <2>4 DEF InPhase, Typed
<1>3. ASSUME NEW n \in Cell \cup Input, NEW v \in Value, SetValue(n, v) PROVE Typed'
  <2>1. /\ phase' = phase /\ frames' = <<>> /\ input' = [input EXCEPT ![n] = v]
        /\ init_dirty' = IF n \in Input THEN init_dirty \cup {n} ELSE init_dirty
        /\ UNCHANGED <<declVars, state, evaluated, dirty, contributing, evalVars, at, monVars>>
    BY <1>3 DEF SetValue, Set, SetInput, Resting, Running
  <2>2. input' \in [Declared -> Value]
    BY <1>1, <2>1 DEF CellsTyped
  <2>3. CellsTyped'
    BY <1>1, <2>1, <2>2 DEF CellsTyped
  <2> QED BY <1>1, <2>1, <2>3, AtRest DEF InPhase, Typed
<1>4. ASSUME \/ \E S \in SUBSET Cell : TouchCells(S)
             \/ BeginReinitialize
             \/ \E n \in sheet.monitored : MonitorValue(n)
             \/ \E c \in Cell : \E T \in sheet.touches[c] : MonitorEnabled(c, T)
             \/ \E v \in Value : Answer(v)
      PROVE  Typed'
  <2>1. /\ phase' = phase /\ frames' = <<>>
        /\ mode' = mode \/ (phase = "idle" /\ mode' = "reinit")
        /\ at' \in {at, 1}
        /\ UNCHANGED <<sheet, built, cellVars, initVars, accumulate, cond_indirect, value_accessed,
                       priority_accessed_m, active>>
    BY <1>4 DEF TouchCells, Touch, BeginReinitialize, MonitorValue, MonitorEnabled, Answer, Resting,
                Running, vars
  <2>2. CellsTyped'
    BY <1>1, <2>1 DEF CellsTyped
  <2> QED BY <1>1, <2>1, <2>2, AtRest DEF InPhase, Typed
<1>5. CASE StartUpdate
  <2>1. /\ mode = "ready" /\ frames' = <<>> /\ evaluated' = {} /\ dirty' = {}
        /\ accumulate' = {} /\ cond_indirect' = {} /\ value_accessed' = {}
        /\ UNCHANGED <<declVars, input, state, contributing, initVars, at, monVars>>
    BY <1>5 DEF StartUpdate, Resting, Running
  <2>2. CellsTyped'
    BY <1>1, <2>1 DEF CellsTyped
  <2> QED BY <2>1, <2>2, AtRest DEF Typed
<1> QED BY <1>2, <1>3, <1>4, <1>5 DEF Calls, Answering

LEMMA SheetInvInit == SInit => SheetInv
<1> SUFFICES ASSUME SInit PROVE SheetInv
  OBVIOUS
<1>1. TypeOK
  BY DEF SInit, Init, TypeOK, Relation, NoTerm
<1>2. StackInv
  BY StackInit
<1>3. /\ input = [n \in Declared |-> Empty] /\ state = [n \in Evaluable |-> Empty]
      /\ contributing = [n \in Evaluable |-> {}]
  BY DEF SInit
<1>4. CellsTyped
  BY <1>3 DEF SInit, CellsTyped
<1>5. InPhase /\ Framed(frames, accumulate)
  <2>1. frames = <<>> /\ phase = "idle"
    BY DEF SInit, Init
  <2> QED BY <2>1, FramedNone DEF InPhase
<1> QED BY <1>1, <1>2, <1>4, <1>5 DEF SheetInv, Typed

LEMMA SheetInvStep == SheetInv /\ [SNext]_svars => SheetInv'
<1> SUFFICES ASSUME SheetInv, [SNext]_svars PROVE SheetInv'
  OBVIOUS
<1>1. TypeOK /\ StackInv /\ Typed /\ sheet \in Sheets
  BY DEF SheetInv, Typed, CellsTyped
<1>2. TypeOK' /\ StackInv'
  BY <1>1, StepFlows, StackStep
<1>3. Typed'
  <2>1. CASE UNCHANGED svars
    BY <1>1, <2>1 DEF svars, vars, declVars, cellVars, initVars, evalVars, monVars, Typed, CellsTyped,
                      InPhase, Root, Names
  <2>2. CASE Build
    BY <1>1, <2>2, TypedBuild
  <2>3. CASE Reinit
    BY <1>1, <2>3, TypedReinit
  <2>4. CASE Evaluate
    <3>1. ASSUME NEW n \in Declared \cup Computed,
                 ReadInitializing(n) \/ ReadTerm(n) \/ ReadInput(n) \/ ReadCached(n) \/ ReadCalculates(n)
          PROVE  Typed'
      BY <1>1, <1>2, <3>1, TypedReads
    <3>2. ASSUME NEW v \in Value, ReturnGet(v) \/ ReturnTerm(v) PROVE Typed'
      BY <1>1, <1>2, <3>2, TypedReturns
    <3>3. CASE Throw
      BY <1>1, <3>3, TypedThrow
    <3> QED BY <2>4, <3>1, <3>2, <3>3 DEF Evaluate
  <2>5. CASE Updating
    BY <1>1, <1>2, <2>5, TypedUpdating
  <2>6. CASE Calls \/ Answering
    BY <1>1, <2>6, TypedCalls
  <2> QED BY <2>1, <2>2, <2>3, <2>4, <2>5, <2>6 DEF SNext
<1> QED BY <1>2, <1>3 DEF SheetInv

(* Every variable of a sheet keeps its type, whatever evaluates, throws or is initialized:
   what a value was made from are always interface cells, although initializers
   accumulate plain inputs in the same set. *)
THEOREM SheetTypeCorrect == SheetSpec => []SheetTypeOK
BY SheetInvInit, SheetInvStep, SheetTypes, PTL DEF SheetSpec

-----------------------------------------------------------------------------
(* The calls of get that are in progress are of names of the sheet, and its terms are
   those of derived cells. *)
Called(fs) ==
  \A i \in 1..Len(fs) :
    /\ fs[i].kind = "get" => fs[i].of \in Names
    /\ fs[i].kind = "term" => fs[i].of \in Cell /\ term[fs[i].of] # NoTerm
CallInv == interface \subseteq Names /\ Called(frames)

(* Nothing is derived in the middle of an evaluation. *)
LEMMA TermsStay ==
  ASSUME SheetInv, [SNext]_svars
  PROVE  /\ frames # <<>> => term' = term
         /\ interface' = interface \/ \E i \in 1..Len(sheet.order) : interface' = interface \cup {sheet.order[i]}
<1> USE DEF vars, sheetVars, flowVars
<1>1. CASE UNCHANGED svars
  BY <1>1 DEF svars
<1>2. CASE Build
  <2>1. ASSUME NEW n \in Declared, Declare(n), n \in Cell
        PROVE  /\ term' = term
               /\ \E i \in 1..Len(sheet.order) : interface' = interface \cup {sheet.order[i]}
    <3>1. term' = term /\ interface' = interface \cup {n} /\ Declaring(n)
      BY <2>1 DEF Declare, AddInterface
    <3>2. built \in Nat /\ Len(sheet.order) \in Nat
      BY DEF SheetInv, Typed, CellsTyped
    <3> QED BY <3>1, <3>2 DEF Declaring
  <2>2. ASSUME NEW n \in Declared, BeginDeclare(n) \/ (Declare(n) /\ n \notin Cell)
        PROVE  UNCHANGED vars
    BY <2>2 DEF BeginDeclare, Declare
  <2>3. CASE DeclareRelation \/ EndBuild
    BY <2>3 DEF DeclareRelation, EndBuild, AddRelation
  <2> QED BY <1>2, <2>1, <2>2, <2>3 DEF Build
<1>3. CASE Reinit
  BY <1>3 DEF Reinit, BeginInitialize, SkipInitialize, EndInitialize, EndReinitialize, Reinitialize
<1>4. CASE Evaluate
  <2>1. CASE Throw
    BY <2>1 DEF Throw, ConditionalThrows, EndUpdate
  <2> QED BY <1>4, <2>1 DEF Evaluate, ReadInitializing, ReadTerm, ReadInput, ReadCached, ReadCalculates,
                            ReturnGet, ReturnTerm
<1>5. CASE Updating
  <2>1. CASE FlowStep
    <3>1. phase \in {"flow", "pop", "visit"} /\ Update
      BY <2>1, Zenon DEF FlowStep, Update, Flow, BeginFlow, SkipCell, PopCell, PassRelation, ApplyRelation,
                         VisitsNext, EndCell, EndFlow
    <3>2. frames = <<>>
      BY <3>1 DEF SheetInv, Typed, InPhase
    <3> QED BY <3>1, <3>2, SheetUnchanged
  <2>2. ASSUME NEW v \in Value, EndConditional(v) PROVE term' = term /\ interface' = interface
    BY <2>2 DEF EndConditional, ConditionalHolds, ConditionalFails
  <2> QED BY <1>5, <2>1, <2>2 DEF Updating, BeginConditional, EndCalculate, ConditionalsSolved, EndConditionals,
                                  BeginCalculate, CalculateAttached, ApplyEvaluated, Notify, EndUpdate
<1>6. CASE Calls \/ Answering
  <2>1. CASE StartUpdate
    BY <2>1 DEF StartUpdate, Resting, Running, BeginUpdate
  <2>2. ASSUME NEW n \in Cell \cup Input, NEW v \in Value, SetValue(n, v)
        PROVE  term' = term /\ interface' = interface
    BY <2>2 DEF SetValue, Set, SetInput
  <2>3. ASSUME NEW S \in SUBSET Cell, TouchCells(S) PROVE term' = term /\ interface' = interface
    BY <2>3 DEF TouchCells, Touch
  <2> QED BY <1>6, <2>1, <2>2, <2>3 DEF Calls, Answering, Answer, BeginReinitialize, Query, MonitorValue,
                                        MonitorEnabled
<1> QED BY <1>1, <1>2, <1>3, <1>4, <1>5, <1>6 DEF SNext

(* A step leaves the evaluations in progress alone, answers the innermost, adds the get
   of a name or of a term, ends one, or ends or begins them all. *)
LEMMA FramesStep ==
  ASSUME SheetInv, [SNext]_svars
  PROVE  \/ frames' = frames
         \/ \E f : frames' = <<f>> /\ ~Getting(f)
         \/ frames' = <<>>
         \/ \E v : frames # <<>> /\ frames' = Deliver(frames, v)
         \/ \E f : /\ frames # <<>> /\ frames' = Append(frames, f)
                   /\ \/ f.kind = "get" /\ f.of \in Names
                      \/ f.kind = "term" /\ f.of \in Cell /\ term[f.of] # NoTerm
         \/ \E v : frames # <<>> /\ Front(frames) # <<>> /\ frames' = Deliver(Front(frames), v)
<1> DEFINE P == \/ frames' = frames
                \/ \E f : frames' = <<f>> /\ ~Getting(f)
                \/ frames' = <<>>
                \/ \E v : frames # <<>> /\ frames' = Deliver(frames, v)
                \/ \E f : /\ frames # <<>> /\ frames' = Append(frames, f)
                          /\ \/ f.kind = "get" /\ f.of \in Names
                             \/ f.kind = "term" /\ f.of \in Cell /\ term[f.of] # NoTerm
                \/ \E v : frames # <<>> /\ Front(frames) # <<>> /\ frames' = Deliver(Front(frames), v)
<1>1. \A kind, of, expr, old : kind \in Roots => ~Getting(Frame(kind, of, expr, old))
  BY DEF Roots, Getting, Frame
<1>2. CASE UNCHANGED svars
  BY <1>2 DEF svars, evalVars
<1>3. CASE Build
  BY <1>1, <1>3 DEF Build, BeginDeclare, Declare, DeclareRelation, EndBuild, evalVars, Roots
<1>4. CASE Reinit
  BY <1>1, <1>4 DEF Reinit, BeginInitialize, SkipInitialize, EndInitialize, EndReinitialize, evalVars, Roots
<1>5. CASE Evaluate
  <2>1. ASSUME NEW n \in Declared \cup Computed, ReadInitializing(n) \/ ReadInput(n) \/ ReadCached(n)
        PROVE  P
    BY <2>1 DEF ReadInitializing, ReadInput, ReadCached, In, Evaluating, Running
  <2>2. ASSUME NEW n \in Declared \cup Computed, ReadTerm(n) \/ ReadCalculates(n) PROVE P
    <3>1. \A kind, of, expr, old : Frame(kind, of, expr, old).kind = kind /\ Frame(kind, of, expr, old).of = of
      BY DEF Frame
    <3>2. CASE ReadTerm(n)
      <4>1. /\ frames # <<>> /\ frames' = Append(frames, Frame("term", n, TermExpr(n), {}))
            /\ get_stack # <<>> /\ n = get_stack[Len(get_stack)][1] /\ term[n] # NoTerm
        BY <3>2 DEF ReadTerm, Evaluating, Running, OnTop, Last
      <4>2. get_stack \in Seq(Cell \X BOOLEAN)
        BY DEF SheetInv, StackInv, Stacked
      <4>3. n \in Cell
        BY <4>1, <4>2
      <4> QED BY <3>1, <4>1, <4>3
    <3>3. CASE ReadCalculates(n)
      BY <3>1, <3>3 DEF ReadCalculates, Evaluating, Running
    <3> QED BY <2>2, <3>2, <3>3
  <2>3. ASSUME NEW v \in Value, ReturnGet(v) \/ ReturnTerm(v) PROVE P
    <3>1. frames # <<>> /\ frames' = Deliver(Front(frames), v) /\ Now = frames[Len(frames)]
          /\ Now.kind \notin Roots
      BY <2>3 DEF ReturnGet, ReturnTerm, In, Running, Now, Last, Roots
    <3>2. Front(frames) # <<>>
      BY <3>1, StackedPop DEF SheetInv, StackInv
    <3> QED BY <3>1, <3>2
  <2>4. CASE Throw
    BY <2>4 DEF Throw
  <2> QED BY <1>5, <2>1, <2>2, <2>3, <2>4 DEF Evaluate
<1>6. CASE Updating
  BY <1>1, <1>6 DEF Updating, BeginConditional, EndConditional, EndCalculate, ConditionalsSolved,
              FlowStep, BeginCalculate, CalculateAttached, ApplyEvaluated, Notify, evalVars, Roots
<1>7. CASE Calls \/ Answering
  BY <1>1, <1>7 DEF Calls, Answering, Answer, SetValue, TouchCells, BeginReinitialize, StartUpdate, Query,
              MonitorValue, MonitorEnabled, evalVars, Roots
<1> QED BY <1>2, <1>3, <1>4, <1>5, <1>6, <1>7 DEF SNext

(* What the frames hold of the sheet is kept. *)
LEMMA CallInvStep == SheetInv /\ CallInv /\ [SNext]_svars => CallInv'
<1> SUFFICES ASSUME SheetInv, CallInv, [SNext]_svars PROVE CallInv'
  OBVIOUS
<1>1. sheet' = sheet /\ Names' = Names /\ sheet \in Sheets
  BY SheetStays DEF Names, SheetInv, Typed, CellsTyped
<1>2. interface' \subseteq Names'
  <2>1. \A i \in 1..Len(sheet.order) : sheet.order[i] \in Names
    BY <1>1 DEF Names
  <2> QED BY <1>1, <2>1, TermsStay DEF CallInv
<1>3. PICK A : frames \in Seq(FrameOver(A))
  BY DEF SheetInv, Typed, Framed
<1> DEFINE Fine(f) == /\ f.kind = "get" => f.of \in Names
                      /\ f.kind = "term" => f.of \in Cell /\ term[f.of] # NoTerm
<1>4. \A i \in 1..Len(frames) : Fine(frames[i])
  BY DEF CallInv, Called
<1>5. frames' = <<>> \/ (frames # <<>> => term' = term)
  BY TermsStay
<1>6. ASSUME NEW fs, NEW B, fs \in Seq(FrameOver(B)), fs # <<>>, NEW v, frames # <<>>,
             \A i \in 1..Len(fs) : Fine(fs[i]), frames' = Deliver(fs, v)
      PROVE  Called(frames)'
  <2>1. /\ Len(frames') = Len(fs)
        /\ \A i \in 1..Len(fs) : frames'[i].kind = fs[i].kind /\ frames'[i].of = fs[i].of
    BY <1>6, DeliverIs
  <2>2. term' = term
    BY <1>6, TermsStay
  <2> QED BY <1>1, <1>6, <2>1, <2>2 DEF Called
<1>12. ASSUME frames' = <<>> PROVE Called(frames)'
  <2>1. \A i \in 1..Len(frames') : FALSE
    BY <1>12
  <2> QED BY <2>1 DEF Called
<1>7. ASSUME frames' = frames PROVE Called(frames)'
  <2>1. CASE frames = <<>>
    BY <1>7, <1>12, <2>1
  <2>2. CASE frames # <<>>
    <3>1. term' = term
      BY <2>2, TermsStay
    <3>2. \A i \in 1..Len(frames') : Fine(frames'[i])
      BY <1>4, <1>7
    <3> QED BY <1>1, <3>1, <3>2 DEF Called
  <2> QED BY <2>1, <2>2
<1>8. ASSUME NEW f, frames' = <<f>>, ~Getting(f) PROVE Called(frames)'
  <2>1. \A i \in 1..Len(frames') : frames'[i] = f
    BY <1>8
  <2> QED BY <1>8, <2>1 DEF Called, Getting
<1>9. ASSUME NEW v, frames # <<>>, frames' = Deliver(frames, v) PROVE Called(frames)'
  BY <1>3, <1>4, <1>6, <1>9
<1>10. ASSUME NEW f, frames # <<>>, frames' = Append(frames, f), Fine(f), f.kind \in {"get", "term"}
       PROVE  Called(frames)'
  <2>1. term' = term
    BY <1>10, TermsStay
  <2>2. Len(frames') = Len(frames) + 1 /\ Len(frames) \in Nat /\ frames'[Len(frames) + 1] = f
        /\ \A i \in 1..Len(frames) : frames'[i] = frames[i]
    BY <1>3, <1>10
  <2>3. \A i \in 1..Len(frames) + 1 : i \in 1..Len(frames) \/ i = Len(frames) + 1
    BY <2>2
  <2>4. \A i \in 1..Len(frames') : Fine(frames'[i])
    BY <1>4, <1>10, <2>2, <2>3
  <2> QED BY <1>1, <2>1, <2>4 DEF Called
<1>11. ASSUME NEW v, frames # <<>>, Front(frames) # <<>>, frames' = Deliver(Front(frames), v)
       PROVE  Called(frames)'
  <2>1. /\ Front(frames) \in Seq(FrameOver(A)) /\ Len(Front(frames)) = Len(frames) - 1 /\ Len(frames) \in Nat
        /\ \A i \in 1..Len(frames) - 1 : Front(frames)[i] = frames[i]
    BY <1>3, <1>11, FrontIs
  <2>2. \A i \in 1..Len(frames) - 1 : i \in 1..Len(frames)
    BY <2>1
  <2>3. \A i \in 1..Len(Front(frames)) : Fine(Front(frames)[i])
    BY <1>4, <2>1, <2>2
  <2> QED BY <1>6, <1>11, <2>1, <2>3
<1> QED BY <1>2, <1>7, <1>8, <1>9, <1>10, <1>11, <1>12, FramesStep DEF CallInv

(* The frames of one kind: more of them than there are names to be of meet one twice. *)
LEMMA MeetsTwice ==
  ASSUME NEW A, NEW fs \in Seq(FrameOver(A)), NEW G \in SUBSET (1..Len(fs)), NEW S, IsFiniteSet(S),
         \A i \in G : fs[i].of \in S, Cardinality(S) < Cardinality(G)
  PROVE  \E i, j \in G : i < j /\ fs[i].of = fs[j].of
<1> DEFINE f == [i \in G |-> fs[i].of]
<1>1. IsFiniteSet(G)
  <2>1. Len(fs) \in Int
    OBVIOUS
  <2>2. IsFiniteSet(1..Len(fs))
    BY <2>1, FS_Interval
  <2> QED BY <2>2, FS_Subset
<1>2. f \in [G -> S]
  OBVIOUS
<1>3. PICK i, j \in G : i # j /\ f[i] = f[j]
  <2> HIDE DEF f
  <2> QED BY <1>1, <1>2, FS_PigeonHole
<1>4. i \in Int /\ j \in Int /\ fs[i].of = fs[j].of
  BY <1>3
<1> QED BY <1>3, <1>4

(* A chain of reads is refused for its depth only where it has come back to a cell it is in
   the middle of: without one there are fewer calls of get than names and derived cells, and the
   cells are never all derived. *)
THEOREM CyclesAreReal == SheetSpec => []RefusesOnlyCycles
<1>1. SInit => CallInv
  BY DEF SInit, Init, CallInv, Called
<1>2. SheetInv /\ CallInv /\ Within /\ Sourced => RefusesOnlyCycles
  <2> SUFFICES ASSUME SheetInv, CallInv, Within, Sourced, Cycle, interface # {}
               PROVE  \E i, j \in DOMAIN frames :
                         /\ i < j /\ Getting(frames[i])
                         /\ frames[i].kind = frames[j].kind /\ frames[i].of = frames[j].of
    BY DEF RefusesOnlyCycles
  <2>1. PICK A : frames \in Seq(FrameOver(A))
    BY DEF SheetInv, Typed, Framed
  <2> DEFINE G == {i \in 1..Len(frames) : frames[i].kind = "get"}
             H == {i \in 1..Len(frames) : frames[i].kind = "term"}
             T == {c \in Cell : term[c] # NoTerm}
             C == Cell \cap Names
  <2>2. DOMAIN frames = 1..Len(frames) /\ Len(frames) \in Nat
    BY <2>1
  <2>3. /\ IsFiniteSet(Names) /\ IsFiniteSet(C) /\ IsFiniteSet(T)
        /\ Cardinality(Names) \in Nat /\ Cardinality(C) \in Nat /\ Cardinality(T) \in Nat
    <3>1. IsFiniteSet(Names)
      BY NamesAre DEF SheetInv, Typed, CellsTyped
    <3>2. C \in SUBSET Names /\ T \in SUBSET Cell /\ IsFiniteSet(Cell)
      BY CellAssumption
    <3> HIDE DEF C, T
    <3>3. IsFiniteSet(C) /\ IsFiniteSet(T)
      BY <3>1, <3>2, FS_Subset
    <3> QED BY <3>1, <3>3, FS_CardinalityType
  <2>4. Cardinality(T) < Cardinality(C)
    <3>1. interface \subseteq C /\ T \subseteq C
      BY DEF CallInv, Within, SheetInv, TypeOK
    <3>2. \E c \in C : c \notin T
      <4>1. CASE Deriving
        BY <3>1, <4>1 DEF Sourced, Within
      <4>2. CASE ~Deriving
        BY <3>1, <4>2 DEF Deriving
      <4> QED BY <4>1, <4>2
    <3> QED BY <2>3, <3>1, <3>2, FS_Subset
  <2>5. /\ IsFiniteSet(G) /\ IsFiniteSet(H) /\ Cardinality(G) \in Nat /\ Cardinality(H) \in Nat
        /\ GetCount = Cardinality(G) + Cardinality(H)
    <3>1. IsFiniteSet(G) /\ IsFiniteSet(H) /\ Cardinality(G) \in Nat /\ Cardinality(H) \in Nat
      <4>1. G \in SUBSET (1..Len(frames)) /\ H \in SUBSET (1..Len(frames))
        OBVIOUS
      <4>2. IsFiniteSet(1..Len(frames))
        BY <2>2, FS_Interval
      <4> HIDE DEF G, H
      <4>3. IsFiniteSet(G) /\ IsFiniteSet(H)
        BY <4>1, <4>2, FS_Subset
      <4> QED BY <4>3, FS_CardinalityType
    <3> DEFINE K == {i \in DOMAIN frames : Getting(frames[i])}
    <3>2. K = G \cup H /\ G \cap H = {} /\ GetCount = Cardinality(K)
      BY <2>2 DEF Getting, GetCount
    <3>3. Cardinality(G \cap H) = 0
      BY <3>2, FS_EmptySet
    <3>4. Cardinality(G \cup H) = Cardinality(G) + Cardinality(H) - Cardinality(G \cap H)
      BY <3>1, FS_Union
    <3> HIDE DEF G, H, K
    <3> QED BY <3>1, <3>2, <3>3, <3>4
  <2>6. Cardinality(G) + Cardinality(H) + 1 > Cardinality(Names) + Cardinality(C)
    BY <2>5 DEF Cycle, CellCount
  <2>7. Cardinality(Names) < Cardinality(G) \/ Cardinality(T) < Cardinality(H)
    <3> HIDE DEF G, H, T, C
    <3> QED BY <2>3, <2>4, <2>5, <2>6
  <2>8. CASE Cardinality(Names) < Cardinality(G)
    <3>1. G \in SUBSET (1..Len(frames)) /\ \A i \in G : frames[i].of \in Names
      BY DEF CallInv, Called
    <3>2. \E i, j \in G : i < j /\ frames[i].of = frames[j].of
      <4> HIDE DEF G
      <4> QED BY <2>1, <2>3, <2>8, <3>1, MeetsTwice
    <3> QED BY <2>2, <3>2 DEF Getting
  <2>9. CASE Cardinality(T) < Cardinality(H)
    <3>1. H \in SUBSET (1..Len(frames)) /\ \A i \in H : frames[i].of \in T
      BY DEF CallInv, Called
    <3>2. \E i, j \in H : i < j /\ frames[i].of = frames[j].of
      <4> HIDE DEF H, T
      <4> QED BY <2>1, <2>3, <2>9, <3>1, MeetsTwice
    <3> QED BY <2>2, <3>2 DEF Getting
  <2> QED BY <2>7, <2>8, <2>9
<1> QED BY <1>1, <1>2, SheetInvInit, SheetInvStep, CallInvStep, FlowImplemented, FlowSourced, PTL DEF SheetSpec
=============================================================================
