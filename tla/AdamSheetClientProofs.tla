----------------------- MODULE AdamSheetClientProofs -----------------------
(***************************************************************************)
(* What TLAPS proves of what a sheet's client relies on.  Initializers:    *)
(* what reinitialize leaves in each cell, in whatever order it comes to    *)
(* them.                                                                   *)
(* Enabled states: after an update, each monitor of an enabled state was   *)
(* last told what holds now, if the cell is accessed evenly.               *)
(***************************************************************************)
EXTENDS AdamSheetHistoryProofs

-----------------------------------------------------------------------------
(* Name m is declared later. *)
ToCome(m) == \E i \in DOMAIN sheet.order : built < i /\ sheet.order[i] = m

(* Nothing that happens to m before it is the turn of n again is news to n. *)
Settled(m, n) == m # n /\ ~ToCome(m) /\ (m \in Cell => Earlier(m, n))

(* Expression e, that initializes n, has read vals: of settled names what they hold.
   What those were made from is in made. *)
HasRead(e, vals, n, made) ==
  \A k \in 0..(Len(vals) - 1) : \E m \in Declared :
    /\ ReadAt(e, vals, k, m) /\ Settled(m, n) /\ vals[k + 1] = input[m]
    /\ init_contributing[m] \subseteq made

(* Cell c holds what its initializer comes to. *)
FromInit(c) == sheet.init[c] # NoExpr =>
  \E w \in Seq(Value) : /\ HasRead(sheet.init[c], w, c, init_contributing[c])
                        /\ Step(sheet.init[c], w) = Give(input[c])

(* The initializer that runs is that of the name whose turn it is. *)
Initializing == In("init") =>
  /\ Now.expr = sheet.init[Now.of] /\ sheet.init[Now.of] # NoExpr
  /\ \A k \in 0..(Len(Now.vals) - 1) : \E m : ReadAt(Now.expr, Now.vals, k, m)
  /\ Now.of \in Cell /\ ReadsEarlier(Now.of) => HasRead(Now.expr, Now.vals, Now.of, accumulate)
  /\ mode = "build" => Declaring(Now.of)
  /\ mode = "reinit" =>
       Stale(Now.of) /\ Now.of \in interface /\ at \in DOMAIN output_index /\ Now.of = output_index[at]

(* What initializers were made from is known of the cells declared. *)
Recorded ==
  /\ \A n \in Input : n \in init_contributing[n]
  /\ \A n \in Declared \ Input :
       init_contributing[n] # {} => n \in interface /\ sheet.init[n] # NoExpr
  /\ DOMAIN init_contributing = Declared
  /\ \A c \in interface : \E i \in 1..Len(sheet.order) : i <= built /\ sheet.order[i] = c
  /\ mode \in {"ready", "reinit"} => \A m : ~ToCome(m)
  /\ mode = "reinit" => at >= 1

(* Of the cells whose initializers read earlier ones: one that is not stale has kept the
   value of its initializer, if nobody set or derived an interface cell; and reinitialize
   gives it to those it comes to. *)
Kept ==
  /\ pristine => phase = "idle"
  /\ \A c \in interface : pristine /\ ~Stale(c) /\ ReadsEarlier(c) => FromInit(c)
  /\ mode = "reinit" => \A i \in DOMAIN output_index : \A c \in interface :
       i < at /\ output_index[i] = c /\ (Stale(c) \/ pristine) /\ ReadsEarlier(c) => FromInit(c)

InitInv == SheetInv /\ output_index \in Listings(Indexed) /\ Initializing /\ Recorded /\ Kept

LEMMA Kinds ==
  SheetInv => /\ sheet \in Sheets /\ built \in Nat /\ input \in [Declared -> Value] /\ interface \subseteq Cell
              /\ phase = "idle" \/ mode = "ready"
BY DEF SheetInv, Typed, CellsTyped, InPhase, TypeOK

(* An innermost frame of an initializer is the only one. *)
LEMMA InitAlone ==
  ASSUME NEW fs, NEW acc, Framed(fs, acc), fs # <<>>, Last(fs).kind = "init"
  PROVE  Len(fs) = 1 /\ Last(fs) = fs[1] /\ fs[1].kind = "init"
<1>1. PICK A : fs \in Seq(FrameOver(A))
  BY DEF Framed
<1>2. PICK n : n = Len(fs)
  OBVIOUS
<1>3. n \in Nat /\ n >= 1
  BY <1>1, <1>2, FrontIs
<1>4. fs[n].kind = "init" /\ \A i \in 2..n : fs[i].kind \in {"get", "term"}
  BY <1>2 DEF Last, Framed
<1>5. n = 1
  <2>1. n = 1 \/ n \in 2..n
    BY <1>3
  <2>2. n \notin 2..n
    BY <1>4
  <2> QED BY <2>1, <2>2
<1> QED BY <1>2, <1>4, <1>5 DEF Last

(* Initializers run only while the sheet is built or initialized again. *)
LEMMA InitializersWhen ==
  /\ SheetInv /\ In("init") => mode \in {"build", "reinit"} /\ Len(frames) = 1 /\ Now = frames[1]
  /\ SheetInv' /\ In("init")' => mode' \in {"build", "reinit"}
<1>1. SheetInv /\ In("init") => mode \in {"build", "reinit"} /\ Len(frames) = 1 /\ Now = frames[1]
  BY InitAlone DEF SheetInv, Typed, InPhase, In, Running, Now, Root
<1>2. ASSUME SheetInv', In("init")' PROVE mode' \in {"build", "reinit"}
  <2>1. PICK fs, acc : fs = frames' /\ acc = accumulate'
    OBVIOUS
  <2>2. Framed(fs, acc) /\ fs # <<>> /\ Last(fs).kind = "init"
    BY <1>2, <2>1 DEF SheetInv, Typed, In, Running, Now
  <2>3. fs[1].kind = "init"
    BY <2>2, InitAlone
  <2> QED BY <1>2, <2>1, <2>2, <2>3 DEF SheetInv, Typed, InPhase, Root
<1> QED BY <1>1, <1>2

(* The index has each cell once. *)
LEMMA EarlierIs ==
  ASSUME sheet \in Sheets, output_index \in Listings(Indexed)
  PROVE  /\ DOMAIN output_index \subseteq Nat
         /\ \A i, j \in DOMAIN output_index : output_index[i] = output_index[j] => i = j
         /\ \A i, j \in DOMAIN output_index : Earlier(output_index[i], output_index[j]) <=> i < j
         /\ \A m : ~Earlier(m, m)
<1>1. PICK k : output_index \in [1..k -> Indexed]
  BY DEF Listings
<1>2. DOMAIN output_index \subseteq Nat
  BY <1>1
<1>3. \A i, j \in DOMAIN output_index : output_index[i] = output_index[j] => i = j
  BY DEF Listings
<1>4. \A i, j \in DOMAIN output_index : Earlier(output_index[i], output_index[j]) <=> i < j
  BY <1>3 DEF Earlier
<1>5. ASSUME NEW m, Earlier(m, m) PROVE FALSE
  <2>1. PICK i, j \in DOMAIN output_index : i < j /\ output_index[i] = m /\ output_index[j] = m
    BY <1>5 DEF Earlier
  <2> QED BY <2>1, <1>2, <1>3
<1> QED BY <1>2, <1>3, <1>4, <1>5

(* What an initializer has read stays read while the names that are settled keep their
   values. *)
LEMMA HasReadStays ==
  ASSUME NEW e, NEW vals, NEW n, NEW made, NEW more, HasRead(e, vals, n, made),
         UNCHANGED <<sheet, output_index>>, made \subseteq more, \A m : ToCome(m)' => ToCome(m),
         \A m \in Declared : Settled(m, n) /\ init_contributing[m] \subseteq made
           => input'[m] = input[m] /\ init_contributing'[m] = init_contributing[m]
  PROVE  HasRead(e, vals, n, more)'
<1>1. \A m : Settled(m, n) => Settled(m, n)'
  BY DEF Settled, Earlier
<1>2. ASSUME NEW k \in 0..(Len(vals) - 1)
      PROVE  \E m \in Declared :
               /\ ReadAt(e, vals, k, m) /\ Settled(m, n)' /\ vals[k + 1] = input'[m]
               /\ init_contributing'[m] \subseteq more
  <2>1. PICK m \in Declared :
          /\ ReadAt(e, vals, k, m) /\ Settled(m, n) /\ vals[k + 1] = input[m]
          /\ init_contributing[m] \subseteq made
    BY DEF HasRead
  <2>2. input'[m] = input[m] /\ init_contributing'[m] = init_contributing[m]
    BY <2>1
  <2> QED BY <2>1, <2>2, <1>1
<1> QED BY <1>2 DEF HasRead

LEMMA FromInitStays ==
  ASSUME NEW c, FromInit(c), UNCHANGED <<sheet, output_index>>, input'[c] = input[c],
         init_contributing'[c] = init_contributing[c], \A m : ToCome(m)' => ToCome(m),
         \A m \in Declared : Settled(m, c) /\ init_contributing[m] \subseteq init_contributing[c]
           => input'[m] = input[m] /\ init_contributing'[m] = init_contributing[m]
  PROVE  FromInit(c)'
<1> SUFFICES ASSUME sheet.init[c] # NoExpr
             PROVE  \E w \in Seq(Value) : /\ HasRead(sheet.init[c], w, c, init_contributing[c])'
                                          /\ Step(sheet'.init[c], w) = Give(input'[c])
  BY DEF FromInit
<1>1. PICK w \in Seq(Value) : /\ HasRead(sheet.init[c], w, c, init_contributing[c])
                              /\ Step(sheet.init[c], w) = Give(input[c])
  BY DEF FromInit
<1>2. PICK e, made : e = sheet.init[c] /\ made = init_contributing[c]
  OBVIOUS
<1>3. HasRead(e, w, c, made)
  BY <1>1, <1>2
<1>4. HasRead(e, w, c, made)'
  BY <1>2, <1>3, HasReadStays
<1>5. HasRead(sheet.init[c], w, c, init_contributing[c])'
  BY <1>2, <1>4 DEF HasRead
<1> QED BY <1>1, <1>5

(* The steps that leave what was declared and initialized alone. *)
LEMMA NothingNew ==
  ASSUME UNCHANGED <<sheet, output_index, built, input, init_contributing, init_dirty>>
  PROVE  /\ \A m : ToCome(m)' <=> ToCome(m)
         /\ \A c : /\ Stale(c)' <=> Stale(c)
                   /\ ReadsEarlier(c)' <=> ReadsEarlier(c)
                   /\ FromInit(c)' <=> FromInit(c)
         /\ \A e, vals, n, made : HasRead(e, vals, n, made)' <=> HasRead(e, vals, n, made)
<1>1. \A m : ToCome(m)' <=> ToCome(m)
  BY DEF ToCome
<1>2. \A m, n : (Earlier(m, n)' <=> Earlier(m, n)) /\ (Settled(m, n)' <=> Settled(m, n))
  BY <1>1 DEF Earlier, Settled
<1>3. \A e, vals, n, made : HasRead(e, vals, n, made)' <=> HasRead(e, vals, n, made)
  BY <1>2 DEF HasRead
<1>4. ASSUME NEW c PROVE FromInit(c)' <=> FromInit(c)
  BY <1>3 DEF FromInit, HasRead, Settled, ToCome, Earlier
<1>5. ASSUME NEW c PROVE (Stale(c)' <=> Stale(c)) /\ (ReadsEarlier(c)' <=> ReadsEarlier(c))
  BY <1>2 DEF Stale, ReadsEarlier
<1> QED BY <1>1, <1>3, <1>4, <1>5

-----------------------------------------------------------------------------
(* Steps that leave the inputs alone. *)
LEMMA NoneInitializing ==
  ASSUME SheetInv', frames' = <<>> \/ mode' \notin {"build", "reinit"}
  PROVE  Initializing'
BY InitializersWhen DEF Initializing, In, Running

LEMMA Unmoved ==
  ASSUME InitInv, SheetInv', Initializing',
         UNCHANGED <<sheet, output_index, built, input, init_contributing, init_dirty, interface>>,
         pristine' => pristine /\ phase' = "idle",
         mode' \in {"ready", "reinit"} => \A m : ~ToCome(m),
         mode' = "reinit" => mode = "reinit" /\ at' = at
  PROVE  InitInv'
<1>1. Indexed' = Indexed
  BY DEF Indexed
<1>2. output_index' \in Listings(Indexed)'
  BY <1>1 DEF InitInv, Listings
<1>3. Recorded'
  BY NothingNew DEF InitInv, Recorded
<1>4. ASSUME NEW c PROVE (Stale(c)' <=> Stale(c)) /\ (ReadsEarlier(c)' <=> ReadsEarlier(c))
                         /\ (FromInit(c)' <=> FromInit(c))
  BY NothingNew
<1>5. Kept'
  BY <1>4 DEF InitInv, Kept
<1> QED BY <1>2, <1>3, <1>5 DEF InitInv

LEMMA InitUpdating ==
  ASSUME InitInv, SheetInv', HUpdating
  PROVE  InitInv'
<1>1. phase # "idle" /\ mode = "ready"
  BY BusyUpdating DEF HUpdating, InitInv, SheetInv, Typed, InPhase
<1>2. UNCHANGED <<sheet, output_index, mode, built, init_contributing, init_dirty, interface, pristine>>
  BY DEF HUpdating, Updating, BeginConditional, EndConditional, EndCalculate, ConditionalsSolved, FlowStep,
         BeginCalculate, CalculateAttached, ApplyEvaluated, Notify, declVars, initVars, vars, sheetVars,
         ConditionalHolds, ConditionalFails, EndConditionals, Flow, BeginFlow, SkipCell, PopCell, PassRelation,
         ApplyRelation, EndCell, EndFlow, EndUpdate
<1>3. Initializing'
  BY <1>1, <1>2, NoneInitializing
<1>4. output_index' \in Listings(Indexed)'
  BY <1>2 DEF InitInv, Listings, Indexed
<1>5. Recorded'
  BY <1>1, <1>2 DEF InitInv, Recorded, ToCome
<1>6. Kept'
  BY <1>1, <1>2 DEF InitInv, Kept
<1> QED BY <1>3, <1>4, <1>5, <1>6 DEF InitInv

(* What an initializer reads is what it may read. *)
LEMMA ReadsWhatItMay ==
  ASSUME sheet \in Sheets, NEW i \in DOMAIN sheet.order, NEW n, n = sheet.order[i],
         sheet.init[n] # NoExpr, NEW m, NEW vals \in Seq(Value),
         \A k \in 0..(Len(vals) - 1) : \E q : ReadAt(sheet.init[n], vals, k, q),
         Step(sheet.init[n], vals) = Read(m)
  PROVE  MayRead(sheet.init[n], m)
<1>1. PICK e : e = sheet.init[n]
  OBVIOUS
<1>2. \A w \in [1..MaxReads -> Value] : Step(e, w).do # "read"
  BY <1>1, ReadsAssumption, Zenon
<1>3. vals \in Reading
  BY <1>1, <1>2, ReadsEnd
<1>4. ReadAt(e, vals, Len(vals), m)
  BY <1>1, WholePrefix DEF ReadAt, Read
<1> QED BY <1>1, <1>3, <1>4 DEF MayRead

(* An initializer reads one more name. *)
LEMMA HasReadMore ==
  ASSUME NEW e, NEW vals \in Seq(Value), NEW n, NEW made, HasRead(e, vals, n, made),
         NEW m \in Declared, Step(e, vals) = Read(m), Settled(m, n), input[m] \in Value
  PROVE  HasRead(e, Append(vals, input[m]), n, made \cup init_contributing[m])
<1> PICK v, w : v = input[m] /\ w = Append(vals, v)
  OBVIOUS
<1>1. Len(w) = Len(vals) + 1 /\ Len(vals) \in Nat /\ w[Len(vals) + 1] = v
      /\ \A j \in 1..Len(vals) : w[j] = vals[j]
  BY OneMore
<1>2. \A q : \A k \in 0..Len(vals) : ReadAt(e, w, k, q) <=> ReadAt(e, vals, k, q)
  BY MoreRead
<1>3. ReadAt(e, vals, Len(vals), m)
  BY MoreRead
<1>4. ASSUME NEW k \in 0..(Len(w) - 1)
      PROVE  \E q \in Declared :
               /\ ReadAt(e, w, k, q) /\ Settled(q, n) /\ w[k + 1] = input[q]
               /\ init_contributing[q] \subseteq made \cup init_contributing[m]
  <2>1. CASE k = Len(vals)
    BY <2>1, <1>1, <1>2, <1>3
  <2>2. CASE k # Len(vals)
    <3>1. k \in 0..(Len(vals) - 1) /\ k \in 0..Len(vals) /\ k + 1 \in 1..Len(vals)
      BY <2>2, <1>1
    <3>2. PICK q \in Declared :
            /\ ReadAt(e, vals, k, q) /\ Settled(q, n) /\ vals[k + 1] = input[q]
            /\ init_contributing[q] \subseteq made
      BY <3>1 DEF HasRead
    <3> QED BY <3>1, <3>2, <1>1, <1>2
  <2> QED BY <2>1, <2>2
<1> QED BY <1>4 DEF HasRead

(* Whose turn it is has a place in the sheet. *)
LEMMA PlaceOf ==
  ASSUME InitInv, DeclaredOnce(sheet), In("init")
  PROVE  \E i \in DOMAIN sheet.order : sheet.order[i] = Now.of
<1>1. sheet \in Sheets /\ built \in Nat /\ mode \in {"build", "reinit"} /\ Len(sheet.order) \in Nat
      /\ DOMAIN sheet.order = 1..Len(sheet.order)
  BY InitializersWhen DEF InitInv, SheetInv, Typed, CellsTyped, DeclaredOnce
<1>2. CASE mode = "build"
  <2>1. built < Len(sheet.order) /\ Now.of = sheet.order[built + 1]
    BY <1>2 DEF InitInv, Initializing, Declaring
  <2> QED BY <1>1, <2>1
<1>3. CASE mode = "reinit"
  <2>1. Now.of \in interface
    BY <1>3 DEF InitInv, Initializing
  <2> QED BY <1>1, <2>1 DEF InitInv, Recorded
<1> QED BY <1>1, <1>2, <1>3

(* An interface cell whose initializer reads earlier ones reads a name that is settled. *)
LEMMA ReadsSettled ==
  ASSUME InitInv, DeclaredOnce(sheet), In("init"), Now.of \in Cell, ReadsEarlier(Now.of),
         NEW m \in Declared, Does = Read(m), Visible(m)
  PROVE  Settled(m, Now.of)
<1>1. PICK i \in DOMAIN sheet.order : sheet.order[i] = Now.of
  BY PlaceOf
<1>2. /\ sheet \in Sheets /\ built \in Nat /\ mode \in {"build", "reinit"} /\ Now.vals \in Seq(Value)
      /\ Len(sheet.order) \in Nat /\ DOMAIN sheet.order = 1..Len(sheet.order)
  BY InitializersWhen DEF InitInv, SheetInv, Typed, CellsTyped, Framed, DeclaredOnce
<1>3. MayRead(sheet.init[Now.of], m)
  <2>1. PICK n, vals : n = Now.of /\ vals = Now.vals
    OBVIOUS
  <2>2. /\ Now.expr = sheet.init[n] /\ sheet.init[n] # NoExpr
        /\ \A k \in 0..(Len(vals) - 1) : \E q : ReadAt(sheet.init[n], vals, k, q)
    BY <2>1 DEF InitInv, Initializing
  <2>3. Step(sheet.init[n], vals) = Read(m)
    BY <2>1, <2>2 DEF Does
  <2> QED BY <1>1, <1>2, <2>1, <2>2, <2>3, ReadsWhatItMay
<1>4. m \in Cell => Earlier(m, Now.of)
  BY <1>3 DEF ReadsEarlier, InitInv, Initializing
<1>5. m # Now.of
  BY <1>2, <1>4, EarlierIs DEF InitInv
<1>6. ~ToCome(m)
  <2>1. CASE mode = "reinit"
    BY <2>1 DEF InitInv, Recorded
  <2>2. CASE mode = "build"
    <3>1. built < Len(sheet.order) /\ Now.of = sheet.order[built + 1]
      BY <2>2 DEF InitInv, Initializing, Declaring
    <3>2. PICK j \in 1..(built + 1) : sheet.order[j] = m
      BY <2>2 DEF Visible
    <3>3. j <= built /\ j \in DOMAIN sheet.order
      BY <1>2, <1>5, <3>1, <3>2
    <3> QED BY <1>2, <3>2, <3>3 DEF ToCome, DeclaredOnce
  <2> QED BY <1>2, <2>1, <2>2
<1> QED BY <1>4, <1>5, <1>6 DEF Settled

LEMMA OthersWhen ==
  ASSUME SheetInv, frames # <<>>, Now.kind # "init"
  PROVE  mode \notin {"build", "reinit"}
<1>1. StackInv /\ Framed(frames, accumulate) /\ InPhase
  BY DEF SheetInv, Typed
<1>2. Root = "init" => Len(frames) = 1 /\ Now = frames[1]
  BY <1>1, InnermostIs DEF InPhase
<1>3. Root # "init"
  BY <1>2 DEF Root
<1> QED BY <1>1, <1>3 DEF InPhase

LEMMA DeliverGives ==
  ASSUME NEW A, NEW fs \in Seq(FrameOver(A)), fs # <<>>, NEW v, NEW gs, gs = Deliver(fs, v)
  PROVE  \E n : /\ n = Len(fs) /\ n \in 1..n /\ Len(gs) = n
                /\ \A i \in 1..n : /\ gs[i].kind = fs[i].kind /\ gs[i].of = fs[i].of /\ gs[i].expr = fs[i].expr
                                   /\ gs[i].vals = IF i = n THEN Append(fs[i].vals, v) ELSE fs[i].vals
<1> PICK n : n = Len(fs)
  OBVIOUS
<1>1. /\ Len(gs) = n /\ n \in 1..n
      /\ \A i \in 1..n : /\ gs[i].kind = fs[i].kind /\ gs[i].of = fs[i].of /\ gs[i].expr = fs[i].expr
                         /\ gs[i].vals = IF i = n THEN Append(fs[i].vals, v) ELSE fs[i].vals
  BY DeliverIs
<1> QED BY <1>1

LEMMA DeliverOne ==
  ASSUME NEW A, NEW fs \in Seq(FrameOver(A)), fs # <<>>, NEW v, NEW gs, gs = Deliver(fs, v)
  PROVE  Len(fs) = 1 => /\ Len(gs) = 1 /\ gs[1].kind = fs[1].kind /\ gs[1].of = fs[1].of
                        /\ gs[1].expr = fs[1].expr /\ gs[1].vals = Append(fs[1].vals, v)
<1>1. PICK n : /\ n = Len(fs) /\ n \in 1..n /\ Len(gs) = n
               /\ \A i \in 1..n : /\ gs[i].kind = fs[i].kind /\ gs[i].of = fs[i].of /\ gs[i].expr = fs[i].expr
                                  /\ gs[i].vals = IF i = n THEN Append(fs[i].vals, v) ELSE fs[i].vals
  BY DeliverGives
<1> QED BY <1>1

LEMMA InitReads ==
  ASSUME InitInv, SheetInv', DeclaredOnce(sheet), NEW n \in Declared \cup Computed, ReadInitializing(n)
  PROVE  Initializing'
<1>1. /\ In("init") /\ Does = Read(n) /\ Visible(n) /\ frames' = Deliver(frames, input[n])
      /\ accumulate' = accumulate \cup init_contributing[n]
      /\ UNCHANGED <<sheet, output_index, mode, built, input, init_contributing, init_dirty, interface, at>>
  BY DEF ReadInitializing, Reads, Running, Read, declVars, cellVars, initVars, vars, sheetVars
<1>2. /\ sheet \in Sheets /\ built \in Nat /\ input \in [Declared -> Value]
      /\ mode \in {"build", "reinit"} /\ Len(frames) = 1 /\ Now = frames[1] /\ frames # <<>>
  BY <1>1, InitializersWhen DEF InitInv, SheetInv, Typed, CellsTyped, In, Running
<1>3. PICK A : frames \in Seq(FrameOver(A)) /\ frames[1].vals \in Seq(Value)
  BY <1>2 DEF InitInv, SheetInv, Typed, Framed
<1>4. PICK f, acc, v : f = frames[1] /\ acc = accumulate /\ v = input[n]
  OBVIOUS
<1>6. /\ f.kind = "init" /\ f.expr = sheet.init[f.of] /\ sheet.init[f.of] # NoExpr
      /\ Step(f.expr, f.vals) = Read(n) /\ f.vals \in Seq(Value) /\ Now = f
      /\ \A k \in 0..(Len(f.vals) - 1) : \E m : ReadAt(f.expr, f.vals, k, m)
  BY <1>1, <1>2, <1>3, <1>4 DEF InitInv, Initializing, In, Does
<1>7. n \in Declared
  <2>1. CASE mode = "reinit"
    BY <1>1, <2>1 DEF Visible
  <2>2. CASE mode = "build"
    <3>1. built < Len(sheet.order) /\ Len(sheet.order) \in Nat
      BY <2>2, <1>1, <1>2 DEF InitInv, Initializing, Declaring, DeclaredOnce
    <3>2. PICK j \in 1..(built + 1) : sheet.order[j] = n
      BY <1>1, <2>2 DEF Visible
    <3>3. j \in 1..Len(sheet.order)
      BY <1>2, <3>1
    <3> QED BY <1>2, <3>2, <3>3, NamesAre
  <2> QED BY <1>2, <2>1, <2>2
<1>9. v \in Value
  BY <1>2, <1>4, <1>7
<1>10. PICK w, acc2 : w = Append(f.vals, v) /\ acc2 = acc \cup init_contributing[n]
  OBVIOUS
<1>11. f.of \in Cell /\ ReadsEarlier(f.of) => HasRead(f.expr, w, f.of, acc2)'
  <2> SUFFICES ASSUME f.of \in Cell, ReadsEarlier(f.of) PROVE HasRead(f.expr, w, f.of, acc2)'
    OBVIOUS
  <2>1. HasRead(f.expr, f.vals, f.of, acc)
    BY <1>1, <1>4, <1>6 DEF InitInv, Initializing
  <2>2. Settled(n, f.of)
    BY <1>1, <1>6, <1>7, ReadsSettled
  <2>3. HasRead(f.expr, w, f.of, acc2)
    BY <1>4, <1>6, <1>7, <1>9, <1>10, <2>1, <2>2, HasReadMore
  <2> QED BY <1>1, <2>3, NothingNew
<1>12. \A k \in 0..(Len(w) - 1) : \E m : ReadAt(f.expr, w, k, m)
  <2>1. Len(w) = Len(f.vals) + 1 /\ Len(f.vals) \in Nat
    BY <1>6, <1>9, <1>10, OneMore
  <2>2. \A q : \A k \in 0..Len(f.vals) : ReadAt(f.expr, w, k, q) <=> ReadAt(f.expr, f.vals, k, q)
    BY <1>6, <1>9, <1>10, MoreRead
  <2>3. ReadAt(f.expr, f.vals, Len(f.vals), n)
    BY <1>6, <1>9, MoreRead
  <2> QED BY <1>6, <2>1, <2>2, <2>3
<1>13. PICK g : g = frames'[1]
  OBVIOUS
<1>14. /\ Len(frames') = 1 /\ g.kind = f.kind /\ g.of = f.of /\ g.expr = f.expr /\ g.vals = w
  <2>1. PICK fs, fs2 : fs = frames /\ fs2 = frames'
    OBVIOUS
  <2>2. fs2 = Deliver(fs, v) /\ fs \in Seq(FrameOver(A)) /\ fs # <<>> /\ Len(fs) = 1
    BY <1>1, <1>2, <1>3, <1>4, <2>1
  <2>3. /\ Len(fs2) = 1 /\ fs2[1].kind = fs[1].kind /\ fs2[1].of = fs[1].of /\ fs2[1].expr = fs[1].expr
        /\ fs2[1].vals = Append(fs[1].vals, v)
    BY <2>2, DeliverOne
  <2> QED BY <2>1, <2>3, <1>4, <1>10, <1>13
<1>15. Now' = g
  BY <1>13, <1>14 DEF Now, Last
<1>16. acc2 = accumulate'
  BY <1>1, <1>4, <1>10
<1>17. /\ \A k \in 0..(Len(Now.vals) - 1)' : \E m : ReadAt(Now.expr, Now.vals, k, m)'
       /\ Now'.of \in Cell /\ ReadsEarlier(Now.of)' => HasRead(Now.expr, Now.vals, Now.of, accumulate)'
  <2>1. ReadsEarlier(f.of)' => ReadsEarlier(f.of)
    BY <1>1, NothingNew
  <2>2. ReadsEarlier(Now.of)' <=> ReadsEarlier(f.of)'
    BY <1>14, <1>15 DEF ReadsEarlier
  <2> QED BY <1>11, <1>12, <1>14, <1>15, <1>16, <2>1, <2>2 DEF HasRead, ReadAt
<1>18. /\ Now'.expr = sheet'.init[Now'.of] /\ sheet'.init[Now'.of] # NoExpr
  BY <1>1, <1>6, <1>14, <1>15
<1>19. mode' = "build" => Declaring(Now.of)'
  BY <1>1, <1>2, <1>4, <1>14, <1>15 DEF InitInv, Initializing, Declaring
<1>20. mode' = "reinit" => Stale(Now.of)' /\ Now'.of \in interface' /\ at' \in DOMAIN output_index'
                           /\ Now'.of = output_index'[at']
  BY <1>1, <1>2, <1>4, <1>14, <1>15 DEF InitInv, Initializing, Stale
<1> QED BY <1>17, <1>18, <1>19, <1>20 DEF Initializing

LEMMA InitEvaluate ==
  ASSUME InitInv, SheetInv', DeclaredOnce(sheet), HEvaluate
  PROVE  InitInv'
<1>1. /\ UNCHANGED <<sheet, output_index, built, input, init_contributing, init_dirty, interface, at, pristine>>
      /\ mode' = "reinit" => mode = "reinit"
  BY DEF HEvaluate, Evaluate, ReadInitializing, ReadTerm, ReadInput, ReadCached, ReadCalculates, ReturnGet,
         ReturnTerm, Throw, declVars, cellVars, initVars, vars, sheetVars, ConditionalThrows, EndUpdate
<1>2. phase' = phase \/ phase' = "idle"
  BY DEF HEvaluate, Evaluate, ReadInitializing, ReadTerm, ReadInput, ReadCached, ReadCalculates, ReturnGet,
         ReturnTerm, Throw, vars, ConditionalThrows, EndUpdate
<1>3. Initializing'
  <2>1. CASE Throw
    BY <2>1, NoneInitializing DEF Throw
  <2>2. ASSUME NEW n \in Declared \cup Computed, ReadInitializing(n) PROVE Initializing'
    BY <2>2, InitReads
  <2>3. CASE ~Throw /\ \A n \in Declared \cup Computed : ~ReadInitializing(n)
    <3>1. frames # <<>> /\ Now.kind # "init" /\ mode' = mode
      BY <2>3 DEF HEvaluate, Evaluate, ReadTerm, ReadInput, ReadCached, ReadCalculates, ReturnGet, ReturnTerm,
         Evaluating, Running, In, declVars
    <3> QED BY <3>1, OthersWhen, NoneInitializing DEF InitInv
  <2> QED BY <2>1, <2>2, <2>3
<1>4. pristine' => pristine /\ phase' = "idle"
  BY <1>1, <1>2 DEF InitInv, Kept
<1>5. mode' \in {"ready", "reinit"} => mode \in {"ready", "reinit"}
  <2>1. frames # <<>> => mode # "broken"
    BY DEF InitInv, SheetInv, Typed, InPhase
  <2>2. frames # <<>> \/ mode' = mode
    BY DEF HEvaluate, Evaluate, ReadInitializing, ReadTerm, ReadInput, ReadCached, ReadCalculates, ReturnGet,
           ReturnTerm, Throw, Throws, Reads, Returns, Running, In, Evaluating, declVars
  <2>3. mode' = mode \/ mode' = IF mode = "build" THEN "broken" ELSE "ready"
    BY DEF HEvaluate, Evaluate, ReadInitializing, ReadTerm, ReadInput, ReadCached, ReadCalculates, ReturnGet,
           ReturnTerm, Throw, declVars
  <2>4. mode \in {"build", "ready", "reinit", "broken"}
    BY DEF InitInv, SheetInv, Typed, CellsTyped
  <2> QED BY <2>1, <2>2, <2>3, <2>4
<1>6. mode' \in {"ready", "reinit"} => \A m : ~ToCome(m)
  BY <1>5 DEF InitInv, Recorded
<1> QED BY <1>1, <1>3, <1>4, <1>6, Unmoved

-----------------------------------------------------------------------------
(* Steps that initialize. *)
LEMMA InitDeclare ==
  ASSUME InitInv, SheetInv', DeclaredOnce(sheet), NEW n \in Declared, Declare(n), pristine' = pristine
  PROVE  InitInv'
<1>1. /\ mode = "build" /\ built < Len(sheet.order) /\ n = sheet.order[built + 1] /\ built' = built + 1
      /\ frames' = <<>> /\ phase' = phase
      /\ UNCHANGED <<sheet, output_index, mode, init_dirty>>
      /\ interface' = IF n \in Cell THEN interface \cup {n} ELSE interface
  BY DEF Declare, Declaring, Running, AddInterface, vars, sheetVars
<1>2. /\ sheet \in Sheets /\ built \in Nat /\ input \in [Declared -> Value] /\ interface \subseteq Cell
      /\ Len(sheet.order) \in Nat /\ DOMAIN sheet.order = 1..Len(sheet.order)
  BY Kinds DEF InitInv, DeclaredOnce
<1>3. built + 1 \in 1..Len(sheet.order)
  BY <1>1, <1>2
<1>4. /\ \A m \in Declared : m # n => input'[m] = input[m] /\ init_contributing'[m] = init_contributing[m]
      /\ DOMAIN init_contributing' = Declared
      /\ init_contributing'[n] # init_contributing[n] => n \in Cell /\ sheet.init[n] # NoExpr
  BY <1>2 DEF Declare, InitInv, Recorded
<1>5. Initializing'
  BY <1>1, NoneInitializing
<1>6. Indexed' = Indexed
  BY <1>1 DEF Indexed
<1>7. output_index' \in Listings(Indexed)'
  BY <1>1, <1>6 DEF InitInv, Listings
<1>8. Recorded'
  <2>1. ASSUME NEW c \in interface' PROVE \E i \in 1..Len(sheet'.order) : i <= built' /\ sheet'.order[i] = c
    <3>1. CASE c \in interface
      <4>1. PICK i \in 1..Len(sheet.order) : i <= built /\ sheet.order[i] = c
        BY <3>1 DEF InitInv, Recorded
      <4> QED BY <4>1, <1>1, <1>2
    <3>2. CASE c = n
      BY <3>2, <1>1, <1>2, <1>3
    <3> QED BY <2>1, <3>1, <3>2, <1>1
  <2>2. ASSUME NEW m \in Declared \ Input, init_contributing'[m] # {}
        PROVE  m \in interface' /\ sheet'.init[m] # NoExpr
    BY <2>2, <1>1, <1>4 DEF InitInv, Recorded
  <2>3. \A m \in Input : m \in init_contributing'[m]
    <3>1. Input \cap Cell = {} /\ Input \subseteq Declared
      BY NamesAssumption DEF Declared
    <3> QED BY <3>1, <1>4 DEF InitInv, Recorded
  <2>4. mode' = "build"
    BY <1>1
  <2> QED BY <2>1, <2>2, <2>3, <2>4, <1>4 DEF Recorded
<1>9. \A m : (ToCome(m)' => ToCome(m)) /\ (~ToCome(m) => m # n)
  BY <1>1, <1>2, <1>3 DEF ToCome
<1>10. \A c : ReadsEarlier(c)' <=> ReadsEarlier(c)
  BY <1>1 DEF ReadsEarlier, Earlier
<1>11. ASSUME NEW c \in interface', pristine', ~Stale(c)', ReadsEarlier(c)' PROVE FromInit(c)'
  <2>1. c \in Cell /\ c \in Declared /\ ReadsEarlier(c)
    BY <1>1, <1>2, <1>10, <1>11 DEF Declared
  <2>2. CASE c # n
    <3>1. c \in interface
      BY <1>1, <2>2
    <3>2. FromInit(c)
      BY <3>1, <1>1, <1>4, <1>11, <2>1, <2>2 DEF InitInv, Kept, Stale
    <3>3. \A m : Settled(m, c) => m # n
      BY <1>9 DEF Settled
    <3> QED BY <3>2, <3>3, <1>1, <1>4, <1>9, <2>1, <2>2, FromInitStays
  <2>3. CASE c = n /\ sheet.init[n] # NoExpr
    <3>1. PICK v \in Value :
            /\ In("init") /\ Now.of = n /\ Returns(v) /\ input' = [input EXCEPT ![n] = v]
            /\ init_contributing' = [init_contributing EXCEPT ![n] = @ \cup accumulate]
      BY <2>1, <2>3 DEF Declare
    <3>2. PICK w, e, acc : w = Now.vals /\ e = sheet.init[n] /\ acc = accumulate
      OBVIOUS
    <3>3. /\ HasRead(e, w, n, acc) /\ Step(e, w) = Give(v) /\ w \in Seq(Value)
      <4>1. Now.vals \in Seq(Value)
        BY <3>1, InitializersWhen DEF InitInv, SheetInv, Typed, Framed
      <4> QED BY <4>1, <2>1, <2>3, <3>1, <3>2 DEF InitInv, Initializing, Returns, Does, Give
    <3>4. PICK more : more = init_contributing'[n]
      OBVIOUS
    <3>5. acc \subseteq more
      BY <3>1, <3>2, <3>4 DEF InitInv, Recorded
    <3>6. \A m : Settled(m, n) => m # n
      BY DEF Settled
    <3>7. HasRead(e, w, n, more)'
      BY <3>3, <3>5, <3>6, <1>1, <1>4, <1>9, HasReadStays
    <3>8. HasRead(sheet.init[n], w, n, init_contributing[n])'
      BY <3>2, <3>4, <3>7, <1>1 DEF HasRead
    <3>9. Step(sheet'.init[n], w) = Give(input'[n])
      BY <1>1, <1>2, <3>1, <3>2, <3>3
    <3> QED BY <2>3, <3>3, <3>8, <3>9 DEF FromInit, HasRead
  <2> QED BY <2>2, <2>3, <1>1 DEF FromInit
<1>12. Kept'
  BY <1>1, <1>11 DEF InitInv, Kept
<1> QED BY <1>5, <1>6, <1>7, <1>8, <1>12 DEF InitInv

LEMMA InitBuild ==
  ASSUME InitInv, SheetInv', DeclaredOnce(sheet), HBuild
  PROVE  InitInv'
<1>1. UNCHANGED pristine
  BY DEF HBuild, ghostVars
<1>2. pristine => phase = "idle"
  BY DEF InitInv, Kept
<1>3. ASSUME NEW n \in Declared, BeginDeclare(n) PROVE InitInv'
  <2>1. /\ mode = "build" /\ Declaring(n) /\ sheet.init[n] # NoExpr
        /\ frames' = <<Frame("init", n, sheet.init[n], {})>>
        /\ UNCHANGED <<sheet, output_index, mode, built, input, init_contributing, init_dirty, interface, phase>>
    BY <1>3 DEF BeginDeclare, Declaring, declVars, cellVars, initVars, vars, sheetVars
  <2>2. PICK g : g = Frame("init", n, sheet.init[n], {})
    OBVIOUS
  <2>3. g.kind = "init" /\ g.of = n /\ g.expr = sheet.init[n] /\ g.vals = <<>>
    BY <2>2 DEF Frame
  <2>4. Now' = g
    BY <2>1, <2>2 DEF Now, Last
  <2>5. /\ \A k \in 0..(Len(Now.vals) - 1)' : \E m : ReadAt(Now.expr, Now.vals, k, m)'
        /\ HasRead(Now.expr, Now.vals, Now.of, accumulate)'
    BY <2>3, <2>4 DEF HasRead
  <2>6. Declaring(Now.of)'
    BY <2>1, <2>3, <2>4 DEF Declaring
  <2>7. Initializing'
    BY <2>1, <2>3, <2>4, <2>5, <2>6 DEF Initializing
  <2>8. mode' = "build"
    BY <2>1
  <2> QED BY <1>1, <1>2, <2>1, <2>7, <2>8, Unmoved
<1>4. CASE DeclareRelation \/ EndBuild \/ Answering
  <2>1. /\ frames' = <<>>
        /\ mode' = "reinit" => mode = "reinit" /\ at' = at
        /\ UNCHANGED <<sheet, output_index, built, input, init_contributing, init_dirty, interface, phase>>
    BY <1>4 DEF DeclareRelation, EndBuild, Answering, Answer, Running, declVars, cellVars, initVars, evalVars, vars,
         sheetVars, AddRelation
  <2>2. mode' \in {"ready", "reinit"} => \A m : ~ToCome(m)
    <3>1. CASE EndBuild
      <4>1. built = Len(sheet.order) /\ DOMAIN sheet.order = 1..Len(sheet.order) /\ Len(sheet.order) \in Nat
        BY <3>1 DEF EndBuild, DeclaredOnce
      <4> QED BY <4>1 DEF ToCome
    <3>2. CASE DeclareRelation
      BY <3>2 DEF DeclareRelation, declVars
    <3>3. CASE Answering
      BY <3>3 DEF Answering, Answer, declVars, InitInv, Recorded
    <3> QED BY <1>4, <3>1, <3>2, <3>3
  <2> QED BY <1>1, <1>2, <2>1, <2>2, NoneInitializing, Unmoved
<1> QED BY <1>1, <1>3, <1>4, InitDeclare DEF HBuild, Build

LEMMA InitCalls ==
  ASSUME InitInv, SheetInv', HCalls
  PROVE  InitInv'
<1>1. /\ mode = "ready" /\ phase = "idle"
      /\ UNCHANGED <<sheet, output_index, built, init_contributing, interface>>
      /\ pristine' => pristine /\ phase' = phase /\ \A c \in Cell : input'[c] = input[c]
  BY DEF HCalls, Calls, SetValue, TouchCells, BeginReinitialize, StartUpdate, Query, MonitorValue, MonitorEnabled,
         Resting, Set, SetInput, Touch, BeginUpdate, declVars, cellVars, initVars, vars, sheetVars
<1>2. (\A m : ~ToCome(m)) /\ UNCHANGED <<sheet, output_index, built>>
  BY <1>1 DEF InitInv, Recorded
<1>3. output_index' \in Listings(Indexed)'
  BY <1>1 DEF InitInv, Listings, Indexed
<1>4. CASE BeginReinitialize
  <2>1. /\ mode' = "reinit" /\ at' = 1 /\ frames' = <<>> /\ UNCHANGED <<input, init_dirty, phase>>
    BY <1>4 DEF BeginReinitialize, Resting, Running, evalVars, initVars, cellVars, vars
  <2>2. Initializing'
    BY <2>1, NoneInitializing
  <2>3. Recorded'
    BY <1>1, <1>2, <2>1 DEF InitInv, Recorded, ToCome
  <2>4. \A c : /\ Stale(c)' <=> Stale(c)
               /\ ReadsEarlier(c)' <=> ReadsEarlier(c)
               /\ FromInit(c)' <=> FromInit(c)
    BY <1>1, <2>1, NothingNew
  <2>5. \A i \in DOMAIN output_index : ~(i < 1)
    BY DEF InitInv, Listings
  <2>6. Kept'
    BY <1>1, <2>1, <2>4, <2>5 DEF InitInv, Kept
  <2> QED BY <1>3, <2>2, <2>3, <2>6 DEF InitInv
<1>5. ASSUME NEW n \in Cell \cup Input, NEW v \in Value, SetValue(n, v) PROVE InitInv'
  <2>1. /\ mode' = "ready" /\ phase' = "idle" /\ input' = [input EXCEPT ![n] = v]
        /\ init_dirty' = IF n \in Input THEN init_dirty \cup {n} ELSE init_dirty
    BY <1>1, <1>5 DEF SetValue, declVars, Set, SetInput
  <2>2. Initializing'
    BY <2>1, NoneInitializing
  <2>3. Recorded'
    BY <1>1, <1>2, <2>1 DEF InitInv, Recorded, ToCome
  <2>4. ASSUME NEW c \in interface, pristine', ~Stale(c)', ReadsEarlier(c)' PROVE FromInit(c)'
    <3>1. c \in Cell /\ input \in [Declared -> Value] /\ Cell \subseteq Declared /\ input'[c] = input[c]
      BY <1>1, <2>4, Kinds DEF InitInv, Declared
    <3>2. ~Stale(c)
      BY <1>1, <2>1, <2>4 DEF Stale
    <3>3. FromInit(c)
      BY <1>1, <2>4, <3>2 DEF InitInv, Kept, ReadsEarlier, Earlier
    <3>4. ASSUME NEW m \in Declared, init_contributing[m] \subseteq init_contributing[c] PROVE input'[m] = input[m]
      <4>1. CASE m = n /\ n \in Input
        <5>1. n \in init_contributing[c]
          BY <3>4, <4>1 DEF InitInv, Recorded
        <5> QED BY <5>1, <1>1, <2>1, <2>4, <3>1, <4>1 DEF Stale
      <4>2. CASE m = n /\ n \in Cell
        BY <1>1, <2>4, <4>2
      <4>3. CASE m # n
        BY <2>1, <3>1, <4>3
      <4> QED BY <4>1, <4>2, <4>3
    <3>5. \A m : ToCome(m)' => ToCome(m)
      BY <1>2 DEF ToCome
    <3> QED BY <3>1, <3>3, <3>4, <3>5, <1>1, FromInitStays
  <2>5. Kept'
    BY <1>1, <2>1, <2>4 DEF InitInv, Kept
  <2> QED BY <1>3, <2>2, <2>3, <2>5 DEF InitInv
<1>6. CASE ~BeginReinitialize /\ \A n \in Cell \cup Input, v \in Value : ~SetValue(n, v)
  <2>1. mode' = "ready" /\ UNCHANGED <<input, init_dirty>>
    BY <1>1, <1>6 DEF HCalls, Calls, TouchCells, StartUpdate, Query, MonitorValue, MonitorEnabled, declVars, cellVars,
         initVars
  <2> QED BY <1>1, <1>2, <2>1, NoneInitializing, Unmoved
<1> QED BY <1>4, <1>5, <1>6

(* reinitialize. *)
LEMMA InitBegin ==
  ASSUME InitInv, SheetInv', BeginInitialize, pristine' = pristine
  PROVE  InitInv'
<1>1. PICK n : n = output_index[at]
  OBVIOUS
<1>2. /\ mode = "reinit" /\ at <= Len(output_index) /\ Stale(n)
      /\ accumulate' = {} /\ frames' = <<Frame("init", n, sheet.init[n], {})>>
      /\ UNCHANGED <<sheet, output_index, mode, built, input, init_contributing, init_dirty, interface, at, phase>>
  BY <1>1 DEF BeginInitialize, declVars, cellVars, initVars, vars, sheetVars
<1>3. at \in DOMAIN output_index
  <2>1. at \in Nat /\ at >= 1
    BY <1>2 DEF InitInv, Recorded, SheetInv, Typed, CellsTyped
  <2>2. Len(output_index) \in Nat /\ DOMAIN output_index = 1..Len(output_index)
    <3>1. sheet \in Sheets
      BY Kinds DEF InitInv
    <3>2. PICK k : output_index \in [1..k -> Indexed]
      BY DEF InitInv, Listings
    <3>3. Len(output_index) \in Nat
      BY <3>1, IndexHits DEF InitInv
    <3> QED BY <3>2, <3>3
  <2> QED BY <1>2, <2>1, <2>2
<1>4. n \in interface /\ sheet.init[n] # NoExpr
  <2>1. n \in Declared \ Input
    BY <1>2, NamesAssumption DEF Stale, Declared
  <2> QED BY <1>2, <2>1 DEF Stale, InitInv, Recorded
<1>5. PICK g : g = Frame("init", n, sheet.init[n], {})
  OBVIOUS
<1>6. g.kind = "init" /\ g.of = n /\ g.expr = sheet.init[n] /\ g.vals = <<>>
  BY <1>5 DEF Frame
<1>7. Now' = g
  BY <1>2, <1>5 DEF Now, Last
<1>8. /\ \A k \in 0..(Len(Now.vals) - 1)' : \E m : ReadAt(Now.expr, Now.vals, k, m)'
      /\ HasRead(Now.expr, Now.vals, Now.of, accumulate)'
  BY <1>6, <1>7 DEF HasRead
<1>9. Stale(Now.of)'
  BY <1>2, <1>6, <1>7 DEF Stale
<1>10. Initializing'
  BY <1>1, <1>2, <1>3, <1>4, <1>6, <1>7, <1>8, <1>9 DEF Initializing
<1>11. (pristine => phase = "idle") /\ \A m : ~ToCome(m)
  BY <1>2 DEF InitInv, Kept, Recorded
<1> QED BY <1>2, <1>10, <1>11, Unmoved

LEMMA InitSkip ==
  ASSUME InitInv, SheetInv', SkipInitialize, pristine' = pristine
  PROVE  InitInv'
<1>1. /\ mode = "reinit" /\ ~Stale(output_index[at]) /\ at' = at + 1 /\ frames' = <<>>
      /\ UNCHANGED <<sheet, output_index, mode, built, input, init_contributing, init_dirty, interface, phase>>
  BY DEF SkipInitialize, Running, evalVars, declVars, cellVars, initVars, vars, sheetVars
<1>3. output_index' \in Listings(Indexed)'
  BY <1>1 DEF InitInv, Listings, Indexed
<1>4. Initializing'
  BY <1>1, NoneInitializing
<1>5. at \in Nat
  BY DEF InitInv, SheetInv, Typed, CellsTyped
<1>6. Recorded'
  BY <1>1, <1>5 DEF InitInv, Recorded, ToCome
<1>7. \A c : /\ Stale(c)' <=> Stale(c)
             /\ ReadsEarlier(c)' <=> ReadsEarlier(c)
             /\ FromInit(c)' <=> FromInit(c)
  BY <1>1, NothingNew
<1>8. ASSUME NEW i \in DOMAIN output_index, NEW c \in interface, i < at', c = output_index[i],
             Stale(c) \/ pristine, ReadsEarlier(c)
      PROVE  FromInit(c)
  <2>1. i \in Nat
    BY DEF InitInv, Listings
  <2>2. CASE i < at
    BY <1>1, <1>8, <2>2 DEF InitInv, Kept
  <2>3. CASE i = at
    BY <1>1, <1>8, <2>3 DEF InitInv, Kept
  <2> QED BY <1>1, <1>5, <1>8, <2>1, <2>2, <2>3
<1>9. Kept'
  BY <1>1, <1>7, <1>8 DEF InitInv, Kept
<1> QED BY <1>3, <1>4, <1>6, <1>9 DEF InitInv

(* What reinitialize gives a cell is what its initializer comes to, and a cell it has
   been to before does not read this one, if it reads earlier ones. *)
LEMMA InitEnd ==
  ASSUME InitInv, SheetInv', NEW v \in Value, EndInitialize(v), pristine' = pristine
  PROVE  InitInv'
<1>1. PICK n : n = Now.of
  OBVIOUS
<1>2. /\ mode = "reinit" /\ In("init") /\ Does = Give(v)
      /\ input' = [input EXCEPT ![n] = v]
      /\ init_contributing' = [init_contributing EXCEPT ![n] = @ \cup accumulate]
      /\ frames' = <<>> /\ at' = at + 1
      /\ UNCHANGED <<sheet, output_index, mode, built, init_dirty, interface, phase>>
  BY <1>1 DEF EndInitialize, Returns, Give, Reinitialize, declVars, sheetVars, vars
<1>3. /\ sheet \in Sheets /\ input \in [Declared -> Value] /\ interface \subseteq Cell /\ Cell \subseteq Declared
  BY Kinds DEF InitInv, Declared
<1>4. /\ Now.expr = sheet.init[n] /\ sheet.init[n] # NoExpr
      /\ Stale(n) /\ n \in interface /\ at \in DOMAIN output_index /\ n = output_index[at]
  BY <1>1, <1>2 DEF InitInv, Initializing
<1>5. n \in Cell /\ n \notin Input
  BY <1>3, <1>4, NamesAssumption
<1>6. /\ \A m \in Declared : m # n => input'[m] = input[m] /\ init_contributing'[m] = init_contributing[m]
      /\ DOMAIN init_contributing' = Declared /\ input'[n] = v
      /\ init_contributing[n] \subseteq init_contributing'[n]
  BY <1>2, <1>3, <1>5 DEF InitInv, Recorded
<1>7. at \in Nat
  BY DEF InitInv, SheetInv, Typed, CellsTyped
<1>8. Initializing'
  BY <1>2, NoneInitializing
<1>9. \A m : /\ ToCome(m)' <=> ToCome(m)
             /\ ReadsEarlier(m)' <=> ReadsEarlier(m)
             /\ Settled(m, n) => m # n
  BY <1>2 DEF ToCome, ReadsEarlier, Earlier, Settled
<1>10. output_index' \in Listings(Indexed)'
  BY <1>2 DEF InitInv, Listings, Indexed
<1>11. Recorded'
  <2>1. \A m \in Input : m \in init_contributing'[m]
    BY <1>5, <1>6 DEF InitInv, Recorded, Declared
  <2>2. \A m \in Declared \ Input : init_contributing'[m] # {} => m \in interface' /\ sheet'.init[m] # NoExpr
    BY <1>2, <1>4, <1>6 DEF InitInv, Recorded
  <2>3. at' >= 1
    BY <1>2, <1>7
  <2> QED BY <2>1, <2>2, <2>3, <1>2, <1>6, <1>9 DEF InitInv, Recorded
<1>12. ReadsEarlier(n) => FromInit(n)'
  <2> SUFFICES ASSUME ReadsEarlier(n) PROVE FromInit(n)'
    OBVIOUS
  <2>1. PICK w, e, acc, more : w = Now.vals /\ e = sheet.init[n] /\ acc = accumulate /\ more = init_contributing'[n]
    OBVIOUS
  <2>2. w \in Seq(Value)
    BY <1>2, <2>1, InitializersWhen DEF InitInv, SheetInv, Typed, Framed
  <2>3. HasRead(e, w, n, acc) /\ Step(e, w) = Give(v)
    BY <1>1, <1>2, <1>4, <1>5, <2>1 DEF Does, InitInv, Initializing
  <2>4. acc \subseteq more
    BY <1>2, <1>3, <1>5, <2>1 DEF InitInv, Recorded
  <2>5. HasRead(e, w, n, more)'
    BY <2>3, <2>4, <1>2, <1>6, <1>9, HasReadStays
  <2>6. HasRead(sheet.init[n], w, n, init_contributing[n])'
    BY <2>1, <2>5, <1>2 DEF HasRead
  <2>7. Step(sheet'.init[n], w) = Give(input'[n])
    BY <1>2, <1>6, <2>1, <2>3
  <2> QED BY <2>2, <2>6, <2>7 DEF FromInit, HasRead
<1>13. ASSUME NEW c \in interface, c # n, FromInit(c),
              \A m \in Declared : Settled(m, c) /\ init_contributing[m] \subseteq init_contributing[c] => m # n
       PROVE  FromInit(c)'
  <2>1. c \in Cell /\ c \in Declared
    BY <1>3
  <2> QED BY <2>1, <1>2, <1>6, <1>9, <1>13, FromInitStays
<1>14. \A c : c # n /\ c \in Cell => (Stale(c)' <=> Stale(c))
  BY <1>2, <1>3, <1>6 DEF Stale
<1>15. Stale(n)'
  BY <1>2, <1>4, <1>6 DEF Stale
<1>16. ASSUME NEW c \in interface, pristine, ~Stale(c)', ReadsEarlier(c) PROVE FromInit(c)'
  <2>1. c # n
    BY <1>15, <1>16 DEF Stale
  <2>2. ~Stale(c)
    BY <1>3, <1>14, <1>16, <2>1
  <2>3. \A m \in Declared : init_contributing[m] \subseteq init_contributing[c] => m # n
    BY <1>3, <1>4, <1>16, <2>2 DEF Stale
  <2>4. FromInit(c)
    BY <1>16, <2>2 DEF InitInv, Kept
  <2> QED BY <1>13, <1>16, <2>1, <2>3, <2>4
<1>17. ASSUME NEW i \in DOMAIN output_index, NEW c \in interface, i < at + 1, c = output_index[i],
              Stale(c)' \/ pristine, ReadsEarlier(c)
       PROVE  FromInit(c)'
  <2>1. CASE c = n
    <3>1. FromInit(n)'
      BY <1>12, <1>17, <2>1
    <3> QED BY <2>1, <3>1 DEF FromInit, HasRead, Settled, ToCome, Earlier
  <2>2. CASE c # n
    <3>1. i \in Nat /\ i < at
      <4>1. i \in Nat /\ i # at
        BY <1>4, <1>17, <2>2 DEF InitInv, Listings
      <4> QED BY <4>1, <1>7, <1>17
    <3>2. Stale(c) \/ pristine
      BY <1>3, <1>14, <1>17, <2>2
    <3>3. FromInit(c)
      BY <1>2, <1>17, <3>1, <3>2 DEF InitInv, Kept
    <3>4. ~Settled(n, c)
      <4>1. Earlier(n, c) <=> at < i
        BY <1>3, <1>4, <1>17, EarlierIs DEF InitInv
      <4> QED BY <3>1, <4>1, <1>5, <1>7 DEF Settled
    <3> QED BY <1>13, <2>2, <3>3, <3>4
  <2> QED BY <2>1, <2>2
<1>18. Kept'
  <2>1. \A c \in interface' : pristine' /\ ~Stale(c)' /\ ReadsEarlier(c)' => FromInit(c)'
    BY <1>2, <1>9, <1>16
  <2>2. \A i \in DOMAIN output_index' : \A c \in interface' :
          i < at' /\ output_index'[i] = c /\ (Stale(c)' \/ pristine') /\ ReadsEarlier(c)' => FromInit(c)'
    BY <1>2, <1>9, <1>17
  <2>3. pristine' => phase' = "idle"
    BY <1>2 DEF InitInv, Kept
  <2> QED BY <2>1, <2>2, <2>3 DEF Kept
<1> QED BY <1>8, <1>10, <1>11, <1>18 DEF InitInv

(* reinitialize has come to every interface cell when it ends. *)
LEMMA ComesToAll ==
  ASSUME InitInv, DeclaredOnce(sheet), EndReinitialize, NEW c \in interface
  PROVE  \E i \in DOMAIN output_index : i < at /\ output_index[i] = c
<1>1. sheet \in Sheets /\ interface \subseteq Cell
  BY Kinds DEF InitInv
<1>2. PICK j \in 1..Len(sheet.order) : sheet.order[j] = c
  BY DEF InitInv, Recorded
<1>3. c \in Indexed
  <2>1. j \in DOMAIN sheet.order /\ sheet.order[j] \in Cell
    BY <1>1, <1>2 DEF DeclaredOnce
  <2>2. c \in DOMAIN sheet.expr
    BY <1>1, <1>2, <2>1, SheetsAssumption
  <2>3. c \notin Logic
    BY <1>1, NamesAssumption DEF Declared, Computed
  <2> QED BY <2>2, <2>3 DEF Indexed
<1>4. PICK i \in 1..Len(output_index) : output_index[i] = c
  BY <1>1, <1>3, IndexHits DEF InitInv
<1>5. PICK k : output_index \in [1..k -> Indexed]
  BY DEF InitInv, Listings
<1>6. Len(output_index) \in Nat
  BY <1>1, IndexHits DEF InitInv
<1>7. DOMAIN output_index = 1..Len(output_index)
  BY <1>5, <1>6
<1>8. at > Len(output_index) /\ at \in Nat
  BY DEF EndReinitialize, InitInv, SheetInv, Typed, CellsTyped
<1> QED BY <1>4, <1>6, <1>7, <1>8

LEMMA InitEndAll ==
  ASSUME InitInv, SheetInv', DeclaredOnce(sheet), EndReinitialize, pristine' = pristine
  PROVE  InitInv'
<1>1. /\ mode = "reinit" /\ mode' = "ready" /\ frames' = <<>>
      /\ UNCHANGED <<sheet, output_index, built, input, init_contributing, interface, phase, at>>
  BY DEF EndReinitialize, Running, evalVars, cellVars, vars, sheetVars
<1>2. output_index' \in Listings(Indexed)'
  BY <1>1 DEF InitInv, Listings, Indexed
<1>3. Initializing'
  BY <1>1, NoneInitializing
<1>4. Recorded'
  BY <1>1 DEF InitInv, Recorded, ToCome
<1>5. \A c : (FromInit(c)' <=> FromInit(c)) /\ (ReadsEarlier(c)' <=> ReadsEarlier(c))
  <2>1. \A m : ToCome(m)' <=> ToCome(m)
    BY <1>1 DEF ToCome
  <2>2. \A c : ReadsEarlier(c)' <=> ReadsEarlier(c)
    BY <1>1 DEF ReadsEarlier, Earlier
  <2>3. ASSUME NEW c PROVE FromInit(c)' <=> FromInit(c)
    BY <1>1, <2>1 DEF FromInit, HasRead, Settled, ToCome, Earlier
  <2> QED BY <2>2, <2>3
<1>6. ASSUME NEW c \in interface, pristine, ReadsEarlier(c) PROVE FromInit(c)
  <2>1. PICK i \in DOMAIN output_index : i < at /\ output_index[i] = c
    BY ComesToAll
  <2> QED BY <1>1, <1>6, <2>1 DEF InitInv, Kept
<1>7. Kept'
  BY <1>1, <1>5, <1>6 DEF InitInv, Kept
<1> QED BY <1>2, <1>3, <1>4, <1>7 DEF InitInv

LEMMA InitInvStep ==
  ASSUME InitInv, [SHNext]_shvars, \A s \in Sheets : DeclaredOnce(s)
  PROVE  InitInv'
<1>1. sheet \in Sheets
  BY Kinds DEF InitInv
<1>2. DeclaredOnce(sheet)
  BY <1>1, Zenon
<1>3. SheetInv'
  BY HistoryIsSheet, SheetInvStep DEF InitInv
<1>4. CASE HReinit
  <2>1. pristine' = pristine
    BY <1>4 DEF HReinit
  <2> QED BY <1>2, <1>3, <1>4, <2>1, InitBegin, InitSkip, InitEnd, InitEndAll DEF HReinit, Reinit
<1>5. CASE UNCHANGED shvars
  <2>1. /\ UNCHANGED <<sheet, output_index, built, input, init_contributing, init_dirty, interface>>
        /\ UNCHANGED <<pristine, phase, mode, at, frames, accumulate>>
    BY <1>5 DEF shvars, svars, vars, sheetVars, declVars, cellVars, initVars, evalVars, ghostVars
  <2>2. Initializing'
    <3>1. Now' = Now /\ (In("init")' <=> In("init"))
      BY <2>1 DEF In, Running, Now
    <3>2. HasRead(Now.expr, Now.vals, Now.of, accumulate)' <=> HasRead(Now.expr, Now.vals, Now.of, accumulate)
      BY <2>1, <3>1 DEF HasRead, Settled, ToCome, Earlier
    <3>3. /\ Declaring(Now.of)' <=> Declaring(Now.of)
          /\ Stale(Now.of)' <=> Stale(Now.of)
          /\ ReadsEarlier(Now.of)' <=> ReadsEarlier(Now.of)
      BY <2>1, <3>1 DEF Declaring, Stale, ReadsEarlier, Earlier
    <3>4. \A k, m : ReadAt(Now.expr, Now.vals, k, m)' <=> ReadAt(Now.expr, Now.vals, k, m)
      BY <3>1 DEF ReadAt
    <3> QED BY <2>1, <3>1, <3>2, <3>3, <3>4 DEF InitInv, Initializing
  <2>3. /\ pristine => phase = "idle"
        /\ mode \in {"ready", "reinit"} => \A m : ~ToCome(m)
    BY DEF InitInv, Kept, Recorded
  <2> QED BY <1>3, <2>1, <2>2, <2>3, Unmoved
<1> QED BY <1>2, <1>3, <1>4, <1>5, InitBuild, InitEvaluate, InitUpdating, InitCalls DEF SHNext

LEMMA InitInvInit == SHInit => InitInv
<1> SUFFICES ASSUME SHInit PROVE InitInv
  OBVIOUS
<1>1. SheetInv
  BY SheetInvInit DEF SHInit
<1>2. /\ output_index \in Listings(Indexed) /\ frames = <<>> /\ mode = "build" /\ phase = "idle" /\ interface = {}
      /\ init_contributing = [n \in Declared |-> IF n \in Input THEN {n} ELSE {}]
  BY DEF SHInit, SInit, Init
<1>3. Initializing
  BY <1>2 DEF Initializing, In, Running
<1>4. Recorded
  BY <1>2 DEF Recorded, Declared
<1>5. Kept
  BY <1>2 DEF Kept
<1> QED BY <1>1, <1>2, <1>3, <1>4, <1>5 DEF InitInv

-----------------------------------------------------------------------------
(* The walk of reinitialize: what it has not come to, or passed over, is as it was; and
   what it has come to is what the initializer gave when it was the cell's turn. *)
HasTurned(e, vals, n) == \A k \in 0..(Len(vals) - 1) : \E m \in Declared :
  ReadAt(e, vals, k, m) /\ vals[k + 1] = ByTurn(n, m)

FromTurn(c) == \E w \in Seq(Value) : HasTurned(sheet.init[c], w, c) /\ Step(sheet.init[c], w) = Give(input[c])

Turning == mode = "reinit" =>
  /\ \A m \in Declared : input[m] # entered[m] =>
       \E i \in DOMAIN output_index : i < at /\ output_index[i] = m /\ Stale(m)
  /\ \A i \in DOMAIN output_index : \A c \in interface :
       i < at /\ output_index[i] = c /\ Stale(c) => FromTurn(c)
  /\ In("init") => HasTurned(Now.expr, Now.vals, Now.of)

(* What is read now is what holds by turn: a name that comes earlier has been come to,
   and one that comes later, or is not in the index, has not. *)
LEMMA TurnIsNow ==
  ASSUME InitInv, Turning, mode = "reinit", at \in DOMAIN output_index, NEW m \in Declared
  PROVE  ByTurn(output_index[at], m) = input[m]
<1>1. sheet \in Sheets /\ DOMAIN output_index \subseteq Nat
  BY Kinds, EarlierIs DEF InitInv
<1>2. CASE Earlier(m, output_index[at])
  BY <1>2 DEF ByTurn
<1>3. CASE ~Earlier(m, output_index[at])
  <2>1. input[m] # entered[m] => FALSE
    <3> SUFFICES ASSUME input[m] # entered[m] PROVE FALSE
      OBVIOUS
    <3>1. PICK i \in DOMAIN output_index : i < at /\ output_index[i] = m
      BY DEF Turning
    <3> QED BY <3>1, <1>1, <1>3, EarlierIs DEF InitInv
  <2> QED BY <2>1, <1>3 DEF ByTurn
<1> QED BY <1>2, <1>3

(* It goes on holding while the cells after it are initialized. *)
LEMMA HasTurnedStays ==
  ASSUME NEW e, NEW vals, NEW n, HasTurned(e, vals, n), UNCHANGED <<output_index, entered>>,
         \A m \in Declared : Earlier(m, n) => input'[m] = input[m]
  PROVE  HasTurned(e, vals, n)'
<1>1. \A m \in Declared : ByTurn(n, m)' = ByTurn(n, m)
  BY DEF ByTurn, Earlier
<1> QED BY <1>1 DEF HasTurned

LEMMA FromTurnStays ==
  ASSUME NEW c, FromTurn(c), UNCHANGED <<sheet, output_index, entered>>, input'[c] = input[c],
         \A m \in Declared : Earlier(m, c) => input'[m] = input[m]
  PROVE  FromTurn(c)'
<1>1. PICK w \in Seq(Value) : HasTurned(sheet.init[c], w, c) /\ Step(sheet.init[c], w) = Give(input[c])
  BY DEF FromTurn
<1>2. PICK e : e = sheet.init[c]
  OBVIOUS
<1>3. HasTurned(e, w, c)'
  BY <1>1, <1>2, HasTurnedStays
<1>4. HasTurned(sheet.init[c], w, c)'
  BY <1>2, <1>3 DEF HasTurned, ByTurn
<1> QED BY <1>1, <1>4 DEF FromTurn

LEMMA TurnReads ==
  ASSUME InitInv, Turning, mode = "reinit", UNCHANGED <<at, entered>>,
         NEW n \in Declared \cup Computed, ReadInitializing(n)
  PROVE  Turning'
<1>1. /\ In("init") /\ Does = Read(n) /\ n \in Declared /\ frames' = Deliver(frames, input[n])
      /\ UNCHANGED <<sheet, output_index, mode, input, init_contributing, init_dirty, interface>>
  BY DEF ReadInitializing, Reads, Running, Read, Visible, declVars, cellVars, initVars, vars, sheetVars
<1>2. /\ input \in [Declared -> Value] /\ Len(frames) = 1 /\ Now = frames[1] /\ frames # <<>>
      /\ at \in DOMAIN output_index /\ Now.of = output_index[at]
  BY <1>1, InitializersWhen DEF InitInv, SheetInv, Typed, CellsTyped, In, Running, Initializing
<1>3. PICK A : frames \in Seq(FrameOver(A)) /\ frames[1].vals \in Seq(Value)
  BY <1>2 DEF InitInv, SheetInv, Typed, Framed
<1>4. PICK f, v, w : f = frames[1] /\ v = input[n] /\ w = Append(f.vals, v)
  OBVIOUS
<1>5. v \in Value /\ v = ByTurn(f.of, n)
  BY <1>1, <1>2, <1>4, TurnIsNow
<1>6. HasTurned(f.expr, w, f.of)
  <2>1. Step(f.expr, f.vals) = Read(n) /\ HasTurned(f.expr, f.vals, f.of)
    BY <1>1, <1>2, <1>4 DEF Does, Turning
  <2>2. Len(w) = Len(f.vals) + 1 /\ Len(f.vals) \in Nat /\ w[Len(f.vals) + 1] = v
        /\ \A j \in 1..Len(f.vals) : w[j] = f.vals[j]
    BY <1>3, <1>4, <1>5, OneMore
  <2>3. \A q : \A k \in 0..Len(f.vals) : ReadAt(f.expr, w, k, q) <=> ReadAt(f.expr, f.vals, k, q)
    BY <1>3, <1>4, <1>5, MoreRead
  <2>4. ReadAt(f.expr, f.vals, Len(f.vals), n)
    BY <1>3, <1>4, <1>5, <2>1, MoreRead
  <2>5. ASSUME NEW k \in 0..(Len(w) - 1)
        PROVE  \E m \in Declared : ReadAt(f.expr, w, k, m) /\ w[k + 1] = ByTurn(f.of, m)
    <3>1. CASE k = Len(f.vals)
      BY <3>1, <1>1, <1>5, <2>2, <2>3, <2>4
    <3>2. CASE k # Len(f.vals)
      <4>1. k \in 0..(Len(f.vals) - 1) /\ k \in 0..Len(f.vals) /\ k + 1 \in 1..Len(f.vals)
        BY <3>2, <2>2
      <4>2. PICK m \in Declared : ReadAt(f.expr, f.vals, k, m) /\ f.vals[k + 1] = ByTurn(f.of, m)
        BY <4>1, <2>1 DEF HasTurned
      <4> QED BY <4>1, <4>2, <2>2, <2>3
    <3> QED BY <3>1, <3>2
  <2> QED BY <2>5 DEF HasTurned
<1>7. PICK g : g = frames'[1]
  OBVIOUS
<1>8. Len(frames') = 1 /\ g.of = f.of /\ g.expr = f.expr /\ g.vals = w
  <2>1. PICK fs, fs2 : fs = frames /\ fs2 = frames'
    OBVIOUS
  <2>2. fs2 = Deliver(fs, v) /\ fs \in Seq(FrameOver(A)) /\ fs # <<>> /\ Len(fs) = 1
    BY <1>1, <1>2, <1>3, <1>4, <2>1
  <2>3. Len(fs2) = 1 /\ fs2[1].of = fs[1].of /\ fs2[1].expr = fs[1].expr /\ fs2[1].vals = Append(fs[1].vals, v)
    BY <2>2, DeliverOne
  <2> QED BY <2>1, <2>3, <1>4, <1>7
<1>9. Now' = g
  BY <1>7, <1>8 DEF Now, Last
<1>10. \A n2, m : ByTurn(n2, m)' = ByTurn(n2, m)
  BY <1>1 DEF ByTurn, Earlier
<1>11. HasTurned(Now.expr, Now.vals, Now.of)'
  BY <1>6, <1>8, <1>9, <1>10 DEF HasTurned
<1>12. ASSUME NEW c PROVE (Stale(c)' <=> Stale(c)) /\ (FromTurn(c) => FromTurn(c)')
  <2>1. Stale(c)' <=> Stale(c)
    BY <1>1 DEF Stale
  <2>2. FromTurn(c) => FromTurn(c)'
    BY <1>1, FromTurnStays
  <2> QED BY <2>1, <2>2
<1> QED BY <1>1, <1>11, <1>12 DEF Turning

LEMMA TurnReinit ==
  ASSUME InitInv, Turning, Reinit, entered' = entered, mode' = "reinit"
  PROVE  Turning'
<1>1. sheet \in Sheets /\ input \in [Declared -> Value] /\ at \in Nat /\ DOMAIN output_index \subseteq Nat
      /\ mode = "reinit" /\ interface \subseteq Cell
  BY Kinds, EarlierIs DEF Reinit, BeginInitialize, SkipInitialize, EndInitialize, EndReinitialize, InitInv,
       SheetInv, Typed, CellsTyped
<1>2. CASE BeginInitialize
  <2>1. PICK n : n = output_index[at]
    OBVIOUS
  <2>2. /\ frames' = <<Frame("init", n, sheet.init[n], {})>>
        /\ UNCHANGED <<sheet, output_index, input, init_contributing, init_dirty, interface, at>>
    BY <1>2, <2>1 DEF BeginInitialize, declVars, cellVars, initVars, vars, sheetVars
  <2>3. PICK g : g = Frame("init", n, sheet.init[n], {})
    OBVIOUS
  <2>4. g.vals = <<>> /\ Now' = g
    BY <2>2, <2>3 DEF Frame, Now, Last
  <2>5. HasTurned(Now.expr, Now.vals, Now.of)'
    BY <2>4 DEF HasTurned
  <2>6. ASSUME NEW c PROVE (Stale(c)' <=> Stale(c)) /\ (FromTurn(c) => FromTurn(c)')
    <3>1. Stale(c)' <=> Stale(c)
      BY <2>2 DEF Stale
    <3>2. FromTurn(c) => FromTurn(c)'
      BY <2>2, FromTurnStays
    <3> QED BY <3>1, <3>2
  <2> QED BY <1>1, <2>2, <2>5, <2>6 DEF Turning
<1>3. CASE SkipInitialize
  <2>1. /\ ~Stale(output_index[at]) /\ at' = at + 1 /\ frames' = <<>>
        /\ UNCHANGED <<sheet, output_index, input, init_contributing, init_dirty, interface>>
    BY <1>3 DEF SkipInitialize, Running, evalVars, declVars, cellVars, initVars, vars, sheetVars
  <2>2. ASSUME NEW c PROVE (Stale(c)' <=> Stale(c)) /\ (FromTurn(c) => FromTurn(c)')
    <3>1. Stale(c)' <=> Stale(c)
      BY <2>1 DEF Stale
    <3>2. FromTurn(c) => FromTurn(c)'
      BY <2>1, FromTurnStays
    <3> QED BY <3>1, <3>2
  <2>3. ~In("init")'
    BY <2>1 DEF In, Running
  <2>4. \A m \in Declared : input'[m] # entered'[m] =>
          \E i \in DOMAIN output_index' : i < at' /\ output_index'[i] = m /\ Stale(m)'
    <3> SUFFICES ASSUME NEW m \in Declared, input'[m] # entered'[m]
                 PROVE  \E i \in DOMAIN output_index' : i < at' /\ output_index'[i] = m /\ Stale(m)'
      OBVIOUS
    <3>1. PICK i \in DOMAIN output_index : i < at /\ output_index[i] = m /\ Stale(m)
      BY <1>1, <2>1 DEF Turning
    <3> QED BY <1>1, <2>1, <2>2, <3>1
  <2>5. ASSUME NEW i \in DOMAIN output_index, NEW c \in interface, i < at', output_index[i] = c, Stale(c)'
        PROVE  FromTurn(c)'
    <3>1. Stale(c) /\ i # at
      BY <2>1, <2>2, <2>5
    <3>2. i < at
      BY <1>1, <2>1, <2>5, <3>1
    <3> QED BY <1>1, <2>2, <2>5, <3>1, <3>2 DEF Turning
  <2> QED BY <2>1, <2>3, <2>4, <2>5 DEF Turning
<1>4. ASSUME NEW v \in Value, EndInitialize(v) PROVE Turning'
  <2>1. PICK n : n = Now.of
    OBVIOUS
  <2>2. /\ In("init") /\ Does = Give(v) /\ input' = [input EXCEPT ![n] = v]
        /\ init_contributing' = [init_contributing EXCEPT ![n] = @ \cup accumulate]
        /\ frames' = <<>> /\ at' = at + 1
        /\ UNCHANGED <<sheet, output_index, init_dirty, interface>>
    BY <1>4, <2>1 DEF EndInitialize, Returns, Give, Reinitialize, declVars, sheetVars
  <2>3. /\ Now.expr = sheet.init[n] /\ Stale(n) /\ n \in interface /\ at \in DOMAIN output_index
        /\ n = output_index[at] /\ HasTurned(sheet.init[n], Now.vals, n) /\ n \in Declared
    BY <1>1, <2>1, <2>2 DEF InitInv, Initializing, Turning, Declared
  <2>4. /\ \A m \in Declared : m # n => input'[m] = input[m]
        /\ \A c : Stale(c) => Stale(c)'
        /\ \A c : c # n /\ c \in Cell => (Stale(c)' <=> Stale(c))
    <3>1. \A m \in Declared : m # n => input'[m] = input[m] /\ init_contributing'[m] = init_contributing[m]
      BY <1>1, <2>2 DEF InitInv, Recorded
    <3>2. init_contributing[n] \subseteq init_contributing'[n] /\ Cell \subseteq Declared
      BY <2>2, <2>3 DEF InitInv, Recorded, Declared
    <3>3. ASSUME NEW c, Stale(c) PROVE Stale(c)'
      <4>1. init_contributing[c] \subseteq init_contributing'[c]
        BY <3>1, <3>2, <3>3 DEF Stale
      <4> QED BY <2>2, <3>3, <4>1 DEF Stale
    <3>4. \A c : c # n /\ c \in Cell => (Stale(c)' <=> Stale(c))
      BY <2>2, <3>1, <3>2 DEF Stale
    <3> QED BY <3>1, <3>3, <3>4
  <2>5. ~In("init")'
    BY <2>2 DEF In, Running
  <2>6. FromTurn(n)'
    <3>1. PICK w, e : w = Now.vals /\ e = sheet.init[n]
      OBVIOUS
    <3>2. w \in Seq(Value) /\ Step(e, w) = Give(v) /\ HasTurned(e, w, n)
      BY <2>2, <2>3, <3>1, InitializersWhen DEF InitInv, SheetInv, Typed, Framed, Does
    <3>3. ~Earlier(n, n)
      BY <1>1, EarlierIs DEF InitInv
    <3>4. HasTurned(e, w, n)'
      BY <2>2, <2>4, <3>2, <3>3, HasTurnedStays
    <3>5. HasTurned(sheet.init[n], w, n)'
      BY <2>2, <3>1, <3>4 DEF HasTurned, ByTurn
    <3>6. input'[n] = v
      BY <1>1, <2>2, <2>3
    <3> QED BY <2>2, <3>1, <3>2, <3>5, <3>6 DEF FromTurn, HasTurned
  <2>7. \A m \in Declared : input'[m] # entered'[m] =>
          \E i \in DOMAIN output_index' : i < at' /\ output_index'[i] = m /\ Stale(m)'
    <3> SUFFICES ASSUME NEW m \in Declared, input'[m] # entered'[m]
                 PROVE  \E i \in DOMAIN output_index : i < at + 1 /\ output_index[i] = m /\ Stale(m)'
      BY <2>2
    <3>1. CASE m = n
      <4>1. at < at + 1 /\ Stale(m)'
        BY <1>1, <2>3, <2>4, <3>1
      <4> QED BY <2>3, <3>1, <4>1
    <3>2. CASE m # n
      <4>1. PICK i \in DOMAIN output_index : i < at /\ output_index[i] = m /\ Stale(m)
        BY <1>1, <2>4, <3>2 DEF Turning
      <4>2. i < at + 1 /\ Stale(m)'
        BY <1>1, <2>4, <4>1
      <4> QED BY <4>1, <4>2
    <3> QED BY <3>1, <3>2
  <2>8. ASSUME NEW i \in DOMAIN output_index, NEW c \in interface, i < at + 1, output_index[i] = c, Stale(c)'
        PROVE  FromTurn(c)'
    <3>1. CASE c = n
      <4>1. ByTurn(c, c)' = ByTurn(n, n)'
        BY <3>1 DEF ByTurn, Earlier
      <4> QED BY <2>6, <3>1 DEF FromTurn, HasTurned, ByTurn, Earlier
    <3>2. CASE c # n
      <4>1. i # at /\ i < at
        BY <1>1, <2>3, <2>8, <3>2
      <4>2. Stale(c) /\ c \in Declared
        BY <1>1, <2>4, <2>8, <3>2 DEF Declared
      <4>3. FromTurn(c)
        BY <1>1, <2>8, <4>1, <4>2 DEF Turning
      <4>4. ~Earlier(n, c)
        BY <1>1, <2>3, <2>8, <4>1, EarlierIs DEF InitInv
      <4>5. input'[c] = input[c] /\ \A m \in Declared : Earlier(m, c) => input'[m] = input[m]
        BY <2>4, <3>2, <4>2, <4>4
      <4> QED BY <2>2, <4>3, <4>5, FromTurnStays
    <3> QED BY <3>1, <3>2
  <2> QED BY <2>2, <2>5, <2>7, <2>8 DEF Turning
<1>5. ~EndReinitialize
  BY DEF EndReinitialize
<1> QED BY <1>2, <1>3, <1>4, <1>5 DEF Reinit

LEMMA TurningStep ==
  ASSUME InitInv, Turning, [SHNext]_shvars
  PROVE  Turning'
<1> SUFFICES ASSUME mode' = "reinit" PROVE Turning'
  BY DEF Turning
<1>1. CASE HReinit /\ HEnter
  <2>1. mode = "reinit"
    BY <1>1 DEF HReinit, Reinit, BeginInitialize, SkipInitialize, EndInitialize, EndReinitialize
  <2>2. entered' = entered
    BY <1>1, <2>1 DEF HEnter
  <2> QED BY <1>1, <2>2, TurnReinit DEF HReinit
<1>2. CASE HEvaluate /\ HEnter
  <2>1. mode = "reinit"
    BY <1>2 DEF HEvaluate, Evaluate, ReadInitializing, ReadTerm, ReadInput, ReadCached, ReadCalculates, ReturnGet,
         ReturnTerm, Throw, declVars
  <2>2. entered' = entered /\ at' = at
    BY <1>2, <2>1 DEF HEnter, HEvaluate, Evaluate, ReadInitializing, ReadTerm, ReadInput, ReadCached, ReadCalculates,
         ReturnGet, ReturnTerm, Throw
  <2>3. \E n \in Declared \cup Computed : ReadInitializing(n)
    <3> SUFFICES ASSUME \A n \in Declared \cup Computed : ~ReadInitializing(n) PROVE FALSE
      OBVIOUS
    <3>1. CASE Throw
      <4>1. frames[1].kind = "init"
        BY <2>1, <3>1 DEF Throw, Throws, Running, InitInv, SheetInv, Typed, InPhase, Root
      <4> QED BY <2>1, <3>1, <4>1 DEF Throw
    <3>2. CASE ~Throw
      <4>1. frames # <<>> /\ Now.kind # "init"
        BY <1>2, <3>2 DEF HEvaluate, Evaluate, ReadTerm, ReadInput, ReadCached, ReadCalculates, ReturnGet, ReturnTerm,
           Evaluating, Running, In
      <4> QED BY <4>1, <2>1, OthersWhen DEF InitInv
    <3> QED BY <3>1, <3>2
  <2> QED BY <2>1, <2>2, <2>3, TurnReads
<1>3. CASE HCalls /\ HEnter
  <2>1. /\ BeginReinitialize /\ mode = "ready" /\ at' = 1 /\ frames' = <<>>
        /\ UNCHANGED <<sheet, output_index, input, init_contributing, init_dirty>>
    BY <1>3 DEF HCalls, Calls, SetValue, TouchCells, BeginReinitialize, StartUpdate, Query, MonitorValue,
         MonitorEnabled, Resting, Running, declVars, cellVars, initVars, evalVars
  <2>2. entered' = input'
    BY <1>3, <2>1 DEF HEnter
  <2>3. ~In("init")' /\ \A i \in DOMAIN output_index : ~(i < 1)
    BY <2>1 DEF In, Running, InitInv, Listings
  <2> QED BY <2>1, <2>2, <2>3 DEF Turning
<1>4. CASE UNCHANGED shvars
  <2>1. UNCHANGED <<sheet, output_index, mode, at, input, init_contributing, init_dirty, interface, frames, entered>>
    BY <1>4 DEF shvars, svars, vars, sheetVars, declVars, cellVars, initVars, evalVars
  <2>2. Now' = Now /\ (In("init")' <=> In("init"))
    BY <2>1 DEF In, Running, Now
  <2>3. HasTurned(Now.expr, Now.vals, Now.of)' <=> HasTurned(Now.expr, Now.vals, Now.of)
    BY <2>1, <2>2 DEF HasTurned, ByTurn, Earlier
  <2>4. ASSUME NEW c PROVE (Stale(c)' <=> Stale(c)) /\ (FromTurn(c) => FromTurn(c)')
    <3>1. Stale(c)' <=> Stale(c)
      BY <2>1 DEF Stale
    <3>2. FromTurn(c) => FromTurn(c)'
      BY <2>1, FromTurnStays
    <3> QED BY <3>1, <3>2
  <2> QED BY <2>1, <2>2, <2>3, <2>4 DEF Turning
<1>5. CASE HBuild \/ HUpdating
  <2>1. mode' # "reinit"
    <3>1. CASE HUpdating
      <4>1. mode = "ready" /\ mode' = mode
        <5>1. phase # "idle" /\ mode = "ready"
          BY <3>1, BusyUpdating DEF HUpdating, InitInv, SheetInv, Typed, InPhase
        <5>2. mode' = mode
          BY <3>1 DEF HUpdating, Updating, BeginConditional, EndConditional, EndCalculate, ConditionalsSolved,
               FlowStep, BeginCalculate, CalculateAttached, ApplyEvaluated, Notify, declVars
        <5> QED BY <5>1, <5>2
      <4> QED BY <4>1
    <3>2. CASE HBuild
      <4>1. Answering => mode = "ready" /\ mode' = mode
        <5>1. Answering => frames # <<>> /\ Now.kind = "client" /\ mode' = mode
          BY DEF Answering, Answer, In, Running, declVars
        <5>2. frames # <<>> /\ Now.kind # "init" => mode \notin {"build", "reinit"}
          BY OthersWhen DEF InitInv
        <5> QED BY <5>1, <5>2 DEF Answering
      <4>2. Build => mode' \in {"build", "ready"}
        BY DEF Build, BeginDeclare, Declaring, Declare, DeclareRelation, EndBuild, declVars
      <4> QED BY <3>2, <4>1, <4>2 DEF HBuild
    <3> QED BY <1>5, <3>1, <3>2
  <2> QED BY <2>1
<1> QED BY <1>1, <1>2, <1>3, <1>4, <1>5 DEF SHNext

-----------------------------------------------------------------------------
(* What an initializer has read and given is what it comes to. *)
LEMMA InitEnds ==
  ASSUME sheet \in Sheets, NEW i \in DOMAIN sheet.order, NEW e, e = sheet.init[sheet.order[i]], e # NoExpr
  PROVE  \A u \in [1..MaxReads -> Value] : Step(e, u).do # "read"
BY ReadsAssumption, Zenon

LEMMA ComesTo ==
  ASSUME NEW e, \A u \in [1..MaxReads -> Value] : Step(e, u).do # "read",
         NEW env, NEW w \in Seq(Value), NEW v, Step(e, w) = Give(v),
         \A k \in 0..(Len(w) - 1) : \E m : ReadAt(e, w, k, m) /\ w[k + 1] = env[m]
  PROVE  Outcome(e, env) = Give(v)
<1>1. Len(w) <= MaxReads /\ MaxReads \in Nat
  BY ReadsEnd, ReadsAssumption
<1> QED BY <1>1, OutcomeIs

(* What reinitialize leaves in each interface cell, whatever the order of the index: a
   stale one holds what its initializer came to from the new values of the cells before
   it and the old ones of the others, and the rest is as it was.  If its initializer reads
   earlier cells only, a stale cell, and any cell if nothing was set or derived, holds
   what its initializer comes to in the end: what an initializer has read changes neither
   while the cells after it are initialized nor when a plain input is set that it was not
   made from. *)
THEOREM ReinitializationCorrect ==
  ASSUME \A s \in Sheets : DeclaredOnce(s)
  PROVE  HSheetSpec => Reinitialized
<1>1. SHInit => InitInv /\ Turning
  BY InitInvInit DEF SHInit, SInit, Turning
<1>2. InitInv /\ Turning /\ [SHNext]_shvars => InitInv' /\ Turning'
  BY InitInvStep, TurningStep
<1> DEFINE Right(c) ==
      /\ IF Stale(c)
         THEN Outcome(sheet.init[c], [m \in Declared |-> ByTurn(c, m)]) = [do |-> "return", value |-> input[c]]
         ELSE input[c] = entered[c]
      /\ (Stale(c) \/ pristine) /\ ReadsEarlier(c) => Initialized(c)
<1>3. InitInv /\ Turning /\ [SHNext]_shvars => [ EndReinitialize => \A c \in interface : Right(c) ]_shvars
  <2> SUFFICES ASSUME InitInv, Turning, EndReinitialize, NEW c \in interface
               PROVE  Right(c)
    OBVIOUS
  <2>1. sheet \in Sheets /\ mode = "reinit" /\ c \in Declared
    BY Kinds DEF InitInv, EndReinitialize, Declared
  <2>2. DeclaredOnce(sheet)
    BY <2>1, Zenon
  <2>3. PICK i \in DOMAIN output_index : i < at /\ output_index[i] = c
    BY <2>2, ComesToAll
  <2>4. PICK j \in DOMAIN sheet.order : sheet.order[j] = c
    BY <2>2 DEF InitInv, Recorded, DeclaredOnce
  <2>5. PICK e, v : e = sheet.init[c] /\ v = input[c]
    OBVIOUS
  <2>6. e # NoExpr => \A u \in [1..MaxReads -> Value] : Step(e, u).do # "read"
    BY <2>1, <2>4, <2>5, InitEnds
  <2>7. ASSUME Stale(c)
        PROVE  Outcome(sheet.init[c], [m \in Declared |-> ByTurn(c, m)]) = [do |-> "return", value |-> input[c]]
    <3>1. PICK w \in Seq(Value) : HasTurned(e, w, c) /\ Step(e, w) = Give(v)
      BY <2>1, <2>3, <2>5, <2>7 DEF Turning, FromTurn
    <3>2. PICK env : env = [m \in Declared |-> ByTurn(c, m)]
      OBVIOUS
    <3>3. \A k \in 0..(Len(w) - 1) : \E m : ReadAt(e, w, k, m) /\ w[k + 1] = env[m]
      BY <3>1, <3>2 DEF HasTurned
    <3>4. e # NoExpr
      <4>1. c \in Declared \ Input
        BY <2>1, <2>7, NamesAssumption DEF Stale
      <4> QED BY <4>1, <2>5, <2>7 DEF Stale, InitInv, Recorded
    <3>5. Outcome(e, env) = Give(v)
      BY <2>6, <3>1, <3>3, <3>4, ComesTo
    <3> QED BY <2>5, <3>2, <3>5 DEF Give
  <2>8. ASSUME ~Stale(c) PROVE input[c] = entered[c]
    BY <2>1, <2>8 DEF Turning
  <2>9. ASSUME Stale(c) \/ pristine, ReadsEarlier(c), sheet.init[c] # NoExpr
        PROVE  Outcome(sheet.init[c], input) = [do |-> "return", value |-> input[c]]
    <3>1. FromInit(c)
      BY <2>1, <2>3, <2>9 DEF InitInv, Kept
    <3>2. PICK w \in Seq(Value) : HasRead(e, w, c, init_contributing[c]) /\ Step(e, w) = Give(v)
      BY <2>5, <2>9, <3>1 DEF FromInit
    <3>3. PICK env : env = input
      OBVIOUS
    <3>4. \A k \in 0..(Len(w) - 1) : \E m : ReadAt(e, w, k, m) /\ w[k + 1] = env[m]
      BY <3>2, <3>3 DEF HasRead
    <3>5. e # NoExpr
      BY <2>5, <2>9
    <3>6. Outcome(e, env) = Give(v)
      BY <2>6, <3>2, <3>4, <3>5, ComesTo
    <3> QED BY <2>5, <3>3, <3>6 DEF Give
  <2> QED BY <2>7, <2>8, <2>9 DEF Initialized
<1> QED BY <1>1, <1>2, <1>3, PTL DEF HSheetSpec, Reinitialized

-----------------------------------------------------------------------------
(* Enabled states.  The cells that no clause derives, and those of them that read
   themselves in every update. *)
Frees == (Cell \cap DOMAIN sheet.expr) \ Related(sheet)
Selves == {c \in Frees : AlwaysReads(sheet.expr[c], c)}

(* The clauses without a condition are all there and read by every flow. *)
Ruling ==
  /\ \A r \in Relation : relations[r].conditional => sheet.relations[r].when # NoExpr
  /\ mode \in {"ready", "reinit"} => Len(relations) = Len(sheet.relations)
  /\ phase \in {"conditionals", "flow"} => \A r \in rel_resolved : relations[r].conditional
  /\ phase \in {"pop", "visit", "flowed"} =>
       \A r \in Relation : ~relations[r].conditional => Edges(r) \subseteq priority_accessed

(* No evaluation in progress of a cell of S has read its own cell. *)
SelfUnread(fs, S) ==
  \A i \in 1..Len(fs) : fs[i].kind \in {"get", "output"} /\ fs[i].of \in S =>
    Unread(fs[i].expr, fs[i].vals, Len(fs[i].vals), fs[i].of)

(* The values that update has accessed are those of the cells that have read themselves. *)
Accessing == ~failed /\ phase # "idle" =>
  /\ SelfUnread(frames, Frees \ value_accessed)
  /\ evaluated \cap Selves \subseteq value_accessed
  /\ \A c \in value_accessed \cap Frees : MayRead(sheet.expr[c], c)

(* What a monitor of the enabled state of c should have been told. *)
Owed(c) == c \in active \/ (c \in Selves /\ touch_set[c] \cap priority_accessed_m # {})
Watched(c) == sheet.touches[c] # {}

Answered == ~failed =>
  /\ \A c \in Cell : told_enabled[c] # Unmonitored => Watched(c) /\ told_enabled[c] = Owed(c)
  /\ phase = "idle" /\ published # Nothing =>
       \A c \in Cell : Watched(c) => c \in active \/ (c \in value_accessed <=> c \in Selves)
  /\ DOMAIN told_enabled = Cell /\ DOMAIN touch_set = Cell

EnabledInv == HInv /\ EvenlyAccessed(sheet) /\ Ruling /\ Accessing /\ Answered

(* The clauses are the sheet's. *)
LEMMA ClauseOf ==
  ASSUME TypeOK, Clauses, sheet \in Sheets, NEW r \in Relation
  PROVE  r \in DOMAIN sheet.relations /\ Terms(r) = sheet.relations[r].terms
<1>1. PICK k, l : k = Len(sheet.relations) /\ l = Len(relations)
  OBVIOUS
<1>2. DOMAIN sheet.relations = 1..k
  BY <1>1, SheetsAssumption
<1>3. relations \in Seq([terms : Shapes, conditional : BOOLEAN])
  BY DEF TypeOK
<1>4. r \in 1..l /\ l \in Nat
  BY <1>1, <1>3 DEF Relation
<1>5. l <= k
  BY <1>1 DEF Clauses
<1>6. k \in Nat
  BY <1>1, <1>2, <1>4, SheetsAssumption
<1>7. r \in 1..k
  BY <1>4, <1>5, <1>6
<1> QED BY <1>2, <1>7 DEF Clauses, Terms

LEMMA FreeIs ==
  ASSUME TypeOK, Clauses, sheet \in Sheets, NEW c \in Frees
  PROVE  /\ c \in Cell /\ c \in DOMAIN sheet.expr /\ c \in Indexed /\ term[c] = NoTerm
         /\ \A e \in Calculators(sheet, c) : e = sheet.expr[c]
<1>1. c \in Cell /\ c \in DOMAIN sheet.expr /\ c \notin Related(sheet)
  BY DEF Frees
<1>2. term[c] = NoTerm
  <2> SUFFICES ASSUME term[c] # NoTerm PROVE FALSE
    OBVIOUS
  <2>1. PICK r, t : r = term[c][1] /\ t = term[c][2]
    OBVIOUS
  <2>2. r \in Relation /\ t \in Terms(r) /\ c \in t
    BY <1>1, <2>1 DEF TypeOK, Clauses
  <2>3. r \in DOMAIN sheet.relations /\ t \in sheet.relations[r].terms
    BY <2>2, ClauseOf
  <2> QED BY <2>2, <2>3, <1>1 DEF Related
<1>3. ASSUME NEW e \in DerivedAs(sheet, c) PROVE FALSE
  <2>1. PICK r \in DOMAIN sheet.relations : \E t \in sheet.relations[r].terms : c \in t
    BY DEF DerivedAs
  <2> QED BY <2>1, <1>1 DEF Related
<1>4. \A e \in Calculators(sheet, c) : e = sheet.expr[c]
  BY <1>3 DEF Calculators
<1>5. c \in Indexed
  BY <1>1, ComputedIs DEF Indexed, Computed
<1> QED BY <1>1, <1>2, <1>4, <1>5

-----------------------------------------------------------------------------
LEMMA RulingKept ==
  ASSUME Ruling, UNCHANGED <<sheet, relations, priority_accessed>>,
         mode' \in {"ready", "reinit"} => mode \in {"ready", "reinit"},
         phase' = "idle" \/ (phase' = phase /\ rel_resolved' = rel_resolved)
  PROVE  Ruling'
<1>1. Relation' = Relation /\ \A r : Edges(r)' = Edges(r)
  BY DEF Relation, Edges, Terms
<1> QED BY <1>1 DEF Ruling

LEMMA RulingBuild ==
  ASSUME SheetInv, Clauses, Ruling, Build
  PROVE  Ruling'
<1> USE DEF vars, sheetVars, flowVars
<1>1. phase = "idle" /\ mode = "build" /\ sheet' = sheet
  BY DEF Build, BeginDeclare, Declare, DeclareRelation, EndBuild, Declaring, SheetInv, Typed, InPhase, declVars
<1>2. ASSUME NEW n \in Declared, BeginDeclare(n) \/ Declare(n) PROVE Ruling'
  <2>1. UNCHANGED <<relations, priority_accessed, phase, mode>>
    BY <1>2 DEF BeginDeclare, Declare, AddInterface, declVars
  <2> QED BY <1>1, <2>1, RulingKept
<1>3. CASE DeclareRelation
  <2>1. PICK l : l = Len(relations)
    OBVIOUS
  <2>2. PICK s : s = sheet.relations[l + 1]
    OBVIOUS
  <2>3. PICK q : q = [terms |-> s.terms, conditional |-> s.when # NoExpr]
    OBVIOUS
  <2>4. relations' = Append(relations, q) /\ phase' = phase /\ mode' = mode
    BY <1>3, <2>1, <2>2, <2>3 DEF DeclareRelation, AddRelation, declVars
  <2>5. relations \in Seq([terms : Shapes, conditional : BOOLEAN])
    BY DEF SheetInv, TypeOK
  <2>6. l \in Nat /\ Relation = 1..l /\ Relation' = 1..(l + 1) /\ relations'[l + 1] = q
        /\ \A r \in 1..l : relations'[r] = relations[r]
    BY <2>1, <2>4, <2>5 DEF Relation
  <2>7. q.conditional => s.when # NoExpr
    BY <2>3
  <2>8. \A r \in 1..(l + 1) : r \in 1..l \/ r = l + 1
    BY <2>6
  <2>9. \A r \in Relation' : relations'[r].conditional => sheet.relations[r].when # NoExpr
    BY <2>2, <2>6, <2>7, <2>8 DEF Ruling
  <2> QED BY <2>4, <2>9, <1>1 DEF Ruling
<1>4. CASE EndBuild
  <2>1. UNCHANGED <<relations, phase>> /\ Len(relations) = Len(sheet.relations)
    BY <1>4 DEF EndBuild
  <2> QED BY <2>1, <1>1 DEF Ruling, Relation
<1> QED BY <1>2, <1>3, <1>4 DEF Build

LEMMA RulingUpdating ==
  ASSUME SheetInv, Ruling, Updating
  PROVE  Ruling'
<1> USE DEF vars, sheetVars, flowVars
<1>1. sheet' = sheet /\ mode' = mode
  BY DEF Updating, BeginConditional, EndConditional, EndCalculate, ConditionalsSolved,
         FlowStep, BeginCalculate, CalculateAttached, ApplyEvaluated, Notify, declVars
<1>2. ASSUME NEW r \in Relation, ConditionalFails(r) PROVE Ruling'
  <2>1. UNCHANGED <<relations, priority_accessed, phase>> /\ phase = "conditionals"
        /\ rel_resolved' = rel_resolved \cup {r} /\ relations[r].conditional
    BY <1>2 DEF ConditionalFails, SolvesNext, Unsolved
  <2>2. \A q \in rel_resolved' : relations'[q].conditional
    BY <2>1 DEF Ruling
  <2> QED BY <2>1, <2>2, <1>1 DEF Ruling, Relation
<1>3. ASSUME EndConditionals PROVE Ruling'
  BY <1>1, <1>3 DEF Ruling, Relation, EndConditionals
<1>4. CASE BeginFlow
  <2>1. /\ UNCHANGED <<relations, rel_resolved>> /\ phase = "flow" /\ phase' = "pop"
        /\ priority_accessed' = UNION {Edges(r) : r \in Relation \ rel_resolved}
    BY <1>4 DEF BeginFlow
  <2>2. \A r \in Relation : ~relations[r].conditional => r \notin rel_resolved
    BY <2>1 DEF Ruling
  <2>3. \A r \in Relation : ~relations[r].conditional => Edges(r) \subseteq priority_accessed'
    BY <2>1, <2>2
  <2>4. Relation' = Relation /\ \A r : Edges(r)' = Edges(r)
    BY <2>1 DEF Relation, Edges, Terms
  <2> QED BY <2>1, <2>3, <2>4, <1>1 DEF Ruling
<1>5. ASSUME SkipCell \/ PopCell \/ EndCell \/ EndFlow \/ \E r \in Relation : PassRelation(r) \/ ApplyRelation(r)
      PROVE  Ruling'
  <2>1. UNCHANGED <<relations, priority_accessed>> /\ phase \in {"pop", "visit"}
        /\ phase' \in {"pop", "visit", "flowed"}
    BY <1>5 DEF SkipCell, PopCell, EndCell, EndFlow, PassRelation, ApplyRelation, VisitsNext
  <2>2. Relation' = Relation /\ \A r : Edges(r)' = Edges(r)
    BY <2>1 DEF Relation, Edges, Terms
  <2> QED BY <2>1, <2>2, <1>1 DEF Ruling
<1>6. CASE ConditionalsSolved \/ FlowStep
  BY <1>3, <1>4, <1>5, <1>6 DEF ConditionalsSolved, FlowStep, Flow
<1>7. ASSUME NEW v \in Value, EndConditional(v) PROVE Ruling'
  <2>1. CASE ConditionalHolds(Now.of)
    BY <2>1, <1>1, RulingKept DEF ConditionalHolds
  <2>2. CASE ConditionalFails(Now.of)
    <3>1. Now.of \in Relation
      BY <2>2 DEF ConditionalFails, SolvesNext, Unsolved
    <3> QED BY <2>2, <3>1, <1>2
  <2> QED BY <1>7, <2>1, <2>2 DEF EndConditional
<1>8. ASSUME UNCHANGED vars \/ EndUpdate PROVE Ruling'
  BY <1>1, <1>8, RulingKept DEF EndUpdate
<1> QED BY <1>6, <1>7, <1>8 DEF Updating, BeginConditional, EndCalculate, BeginCalculate, CalculateAttached,
           ApplyEvaluated, Notify

LEMMA RulingStep ==
  ASSUME SheetInv, Clauses, Ruling, [SNext]_svars
  PROVE  Ruling'
<1> USE DEF vars, sheetVars, flowVars
<1>1. CASE UNCHANGED svars
  BY <1>1, RulingKept DEF svars, declVars
<1>2. CASE Build
  BY <1>2, RulingBuild
<1>3. CASE Reinit
  BY <1>3, RulingKept DEF Reinit, BeginInitialize, SkipInitialize, EndInitialize, EndReinitialize, Reinitialize,
          declVars
<1>4. CASE Evaluate
  <2>1. CASE Throw
    <3>1. UNCHANGED <<sheet, relations, priority_accessed>>
          /\ (phase' = "idle" \/ (phase' = phase /\ rel_resolved' = rel_resolved))
      BY <2>1 DEF Throw, ConditionalThrows, EndUpdate
    <3>2. frames # <<>>
      BY <2>1 DEF Throw, Throws, Running
    <3>3. mode' \in {"ready", "reinit"} => mode \in {"ready", "reinit"}
      BY <2>1, <3>2 DEF Throw, SheetInv, Typed, InPhase, Root
    <3> QED BY <3>1, <3>3, RulingKept
  <2> QED BY <1>4, <2>1, RulingKept DEF Evaluate, ReadInitializing, ReadTerm, ReadInput, ReadCached,
             ReadCalculates, ReturnGet, ReturnTerm, declVars
<1>5. CASE Updating
  BY <1>5, RulingUpdating
<1>6. CASE Answering
  BY <1>6, RulingKept DEF Answering, Answer, declVars
<1>7. CASE Calls
  <2>1. CASE StartUpdate
    BY <2>1 DEF StartUpdate, BeginUpdate, declVars, Ruling, Relation
  <2> QED BY <1>7, <2>1, RulingKept DEF Calls, SetValue, TouchCells, BeginReinitialize, Query, MonitorValue,
          MonitorEnabled, Resting, Set, SetInput, Touch, declVars
<1> QED BY <1>1, <1>2, <1>3, <1>4, <1>5, <1>6, <1>7 DEF SNext

-----------------------------------------------------------------------------
(* Values are accessed by the cells themselves. *)
LEMMA SelfUnreadLess ==
  ASSUME NEW fs, NEW S, NEW T, SelfUnread(fs, S), T \subseteq S
  PROVE  SelfUnread(fs, T)
BY DEF SelfUnread

LEMMA SelfUnreadNew ==
  ASSUME NEW A, NEW fs \in Seq(FrameOver(A)), NEW S, SelfUnread(fs, S), NEW f, f.vals = <<>>
  PROVE  SelfUnread(Append(fs, f), S)
<1>1. PICK gs, l : gs = Append(fs, f) /\ l = Len(fs)
  OBVIOUS
<1>2. l \in Nat /\ Len(gs) = l + 1 /\ gs[l + 1] = f /\ \A i \in 1..l : gs[i] = fs[i]
  BY <1>1, AppendIs
<1>3. Len(<<>>) = 0 /\ 0..(0 - 1) = {}
  OBVIOUS
<1>4. \A e, n : Unread(e, <<>>, Len(<<>>), n)
  BY <1>3 DEF Unread
<1>5. \A i \in 1..(l + 1) : i \in 1..l \/ i = l + 1
  BY <1>2
<1>6. SelfUnread(gs, S)
  BY <1>1, <1>2, <1>4, <1>5 DEF SelfUnread
<1> QED BY <1>1, <1>6

LEMMA SelfUnreadOne ==
  ASSUME NEW f, f.vals = <<>>, NEW S
  PROVE  SelfUnread(<<f>>, S)
<1>1. Len(<<>>) = 0 /\ 0..(0 - 1) = {}
  OBVIOUS
<1>2. \A e, n : Unread(e, <<>>, Len(<<>>), n)
  BY <1>1 DEF Unread
<1>3. Len(<<f>>) = 1 /\ \A i \in 1..1 : <<f>>[i] = f
  OBVIOUS
<1> QED BY <1>2, <1>3 DEF SelfUnread

(* The innermost evaluation is given what it has read, which is not its own cell. *)
LEMMA SelfUnreadMore ==
  ASSUME NEW A, NEW fs \in Seq(FrameOver(A)), fs # <<>>, NEW v \in Value, NEW L, L = Len(fs),
         fs[L].vals \in Seq(Value), NEW m, Step(fs[L].expr, fs[L].vals) = Read(m),
         NEW S, SelfUnread(fs, S), NEW T, T \subseteq S,
         fs[L].kind \in {"get", "output"} /\ fs[L].of \in T => fs[L].of # m
  PROVE  SelfUnread(Deliver(fs, v), T)
<1>1. PICK gs : gs = Deliver(fs, v)
  OBVIOUS
<1>2. /\ L \in 1..L /\ Len(gs) = L
      /\ \A i \in 1..L : /\ gs[i].kind = fs[i].kind /\ gs[i].of = fs[i].of /\ gs[i].expr = fs[i].expr
                         /\ gs[i].vals = IF i = L THEN Append(fs[i].vals, v) ELSE fs[i].vals
  BY <1>1, DeliverGives
<1>3. ASSUME NEW i \in 1..L, gs[i].kind \in {"get", "output"}, gs[i].of \in T
      PROVE  Unread(gs[i].expr, gs[i].vals, Len(gs[i].vals), gs[i].of)
  <2>1. Unread(fs[i].expr, fs[i].vals, Len(fs[i].vals), fs[i].of)
    BY <1>2, <1>3 DEF SelfUnread
  <2>2. CASE i # L
    BY <2>1, <2>2, <1>2
  <2>3. CASE i = L
    <3>1. PICK e, w, n : e = fs[L].expr /\ w = fs[L].vals /\ n = fs[L].of
      OBVIOUS
    <3>2. Unread(e, w, Len(w), n) /\ n # m /\ w \in Seq(Value) /\ Step(e, w) = Read(m)
      BY <2>1, <2>3, <3>1, <1>2, <1>3
    <3>3. Unread(e, Append(w, v), Len(Append(w, v)), n)
      BY <3>2, MoreRead
    <3> QED BY <2>3, <3>1, <3>3, <1>2
  <2> QED BY <2>2, <2>3
<1> QED BY <1>1, <1>2, <1>3 DEF SelfUnread

(* A cell whose evaluation comes to a value, and that reads itself in every update, has. *)
LEMMA SelfAccessed ==
  ASSUME HInv, Accessing, ~failed, phase # "idle", NEW v, Returns(v), Now.kind \in {"get", "output"},
         Now.of \in Selves
  PROVE  Now.of \in value_accessed
<1> SUFFICES ASSUME Now.of \notin value_accessed PROVE FALSE
  OBVIOUS
<1>1. PICK fs, L : fs = frames /\ L = Len(fs)
  OBVIOUS
<1>2. fs # <<>> /\ L \in 1..L /\ Now = fs[L] /\ fs[L].vals \in Seq(Value) /\ sheet \in Sheets
  BY <1>1, Evaluations DEF HInv, Returns, Running
<1>3. Chained(fs)
  BY <1>1 DEF HInv, Sound, InProgress, Clean
<1>4. PICK n, e, vals : n = fs[L].of /\ e = fs[L].expr /\ vals = fs[L].vals
  OBVIOUS
<1>5. Faithful(fs[L]) /\ fs[L].kind \in {"get", "output"} /\ n \in Selves
  BY <1>1, <1>2, <1>3, <1>4 DEF Chained
<1>6. n \in DOMAIN sheet.expr /\ e = sheet.expr[n] /\ Follows(e, vals, n, Own(n))
  BY <1>4, <1>5 DEF Faithful
<1>7. Unread(e, vals, Len(vals), n)
  <2>1. n \in Frees \ value_accessed
    BY <1>2, <1>4, <1>5 DEF Selves
  <2> QED BY <2>1, <1>1, <1>2, <1>4, <1>5 DEF Accessing, SelfUnread
<1>8. \A k \in 0..(Len(vals) - 1) : \E q : ReadAt(e, vals, k, q)
  BY <1>6 DEF Follows
<1>9. vals \in Reading
  <2>1. e \in Calculators(sheet, n)
    BY <1>6 DEF Calculators
  <2> QED BY <2>1, <1>2, <1>4, <1>6, <1>8, Bounded
<1>10. Step(e, vals).do = "return"
  BY <1>2, <1>4 DEF Returns, Does
<1>11. \E k \in 0..(Len(vals) - 1) : ReadAt(e, vals, k, n)
  BY <1>5, <1>6, <1>9, <1>10 DEF Selves, AlwaysReads
<1> QED BY <1>7, <1>11 DEF Unread

LEMMA FreesStay == ASSUME sheet' = sheet PROVE Frees' = Frees /\ Selves' = Selves
BY DEF Frees, Selves

(* What is in progress goes on, and no value is accessed. *)
LEMMA AccessingOn ==
  ASSUME Accessing, phase' # "idle" => phase # "idle", ~failed' => ~failed,
         UNCHANGED <<sheet, value_accessed>>,
         ~failed /\ phase # "idle" =>
           SelfUnread(frames', Frees \ value_accessed) /\ evaluated' \cap Selves \subseteq value_accessed
  PROVE  Accessing'
<1>1. Frees' = Frees /\ Selves' = Selves
  BY FreesStay
<1> SUFFICES ASSUME ~failed', phase' # "idle"
             PROVE  /\ SelfUnread(frames, Frees \ value_accessed)'
                    /\ evaluated' \cap Selves \subseteq value_accessed
                    /\ \A c \in value_accessed \cap Frees : MayRead(sheet.expr[c], c)
  BY <1>1 DEF Accessing
<1>2. PICK fs : fs = frames'
  OBVIOUS
<1>3. SelfUnread(fs, Frees \ value_accessed)
  BY <1>2
<1>4. SelfUnread(frames, Frees \ value_accessed)'
  BY <1>1, <1>2, <1>3 DEF SelfUnread
<1> QED BY <1>4 DEF Accessing

LEMMA AccessingReadInput ==
  ASSUME HInv, Accessing, ~failed, ~failed', NEW n \in Declared \cup Computed, ReadInput(n)
  PROVE  Accessing'
<1>1. /\ Reads(n) /\ OnTop(n) /\ value_accessed' = value_accessed \cup {n}
      /\ UNCHANGED <<sheet, evaluated, phase>>
  BY DEF ReadInput, declVars, cellVars, vars
<1> SUFFICES ASSUME phase # "idle" PROVE Accessing'
  BY <1>1 DEF Accessing
<1>2. PICK v : v = input[n] /\ frames' = Deliver(frames, v)
  BY DEF ReadInput
<1>3. PICK fs, L : fs = frames /\ L = Len(fs)
  OBVIOUS
<1>4. PICK A : fs \in Seq(FrameOver(A))
  BY <1>1, <1>3, InnermostReads
<1>5. /\ fs # <<>> /\ L \in 1..L /\ fs[L].vals \in Seq(Value)
      /\ Step(fs[L].expr, fs[L].vals) = Read(n)
  BY <1>1, <1>3, InnermostReads
<1>6. Clean
  BY DEF Clean
<1>7. PICK where : Placed(where, fs, get_stack) /\ Flagged(where, fs, get_stack) /\ Chained(fs)
  BY <1>1, <1>3, <1>6, InnermostReads
<1>8. n \in Cell /\ Owner(fs[L]) = n
  BY <1>1, <1>3, <1>6, <1>7, OwnRead
<1>9. TypeOK /\ Clauses /\ sheet \in Sheets /\ CellsTyped
  BY Evaluations DEF HInv
<1>10. v \in Value
  BY <1>2, <1>8, <1>9 DEF CellsTyped, Declared
<1>11. n \in Frees => MayRead(sheet.expr[n], n)
  <2> SUFFICES ASSUME n \in Frees PROVE MayRead(sheet.expr[n], n)
    OBVIOUS
  <2>1. PICK f : f = fs[L]
    OBVIOUS
  <2>2. n \in DOMAIN sheet.expr /\ \A e \in Calculators(sheet, n) : e = sheet.expr[n]
    BY <1>9, FreeIs
  <2>3. f.of = n /\ n # NoCell
    BY <2>1, <1>8, CellAssumption DEF Owner
  <2>4. Faithful(f)
    BY <2>1, <1>3, <1>5, <1>7 DEF Chained
  <2>5. MayFollow(sheet, f.of, n)
    BY <2>1, <2>2, <2>3, <2>4, <1>5, <1>8, <1>9, MayFollows
  <2>6. PICK e \in Calculators(sheet, n) : MayRead(e, n)
    BY <2>3, <2>5 DEF MayFollow
  <2> QED BY <2>2, <2>6
<1>12. Frees' = Frees /\ Selves' = Selves
  BY <1>1, FreesStay
<1>13. PICK S, T : S = Frees \ value_accessed /\ T = Frees \ value_accessed'
  OBVIOUS
<1>14. SelfUnread(frames, Frees \ value_accessed)'
  <2>1. SelfUnread(fs, S)
    BY <1>3, <1>13 DEF Accessing
  <2>2. T \subseteq S /\ n \notin T
    BY <1>1, <1>13
  <2>3. SelfUnread(Deliver(fs, v), T)
    BY <2>1, <2>2, <1>3, <1>4, <1>5, <1>10, SelfUnreadMore
  <2> QED BY <2>3, <1>2, <1>3, <1>12, <1>13 DEF SelfUnread
<1>15. evaluated' \cap Selves' \subseteq value_accessed'
  BY <1>1, <1>12 DEF Accessing
<1>16. \A c \in value_accessed' \cap Frees' : MayRead(sheet'.expr[c], c)
  BY <1>1, <1>11, <1>12 DEF Accessing
<1> QED BY <1>14, <1>15, <1>16 DEF Accessing

(* An innermost evaluation that reads another name than the one on top does not read its own cell. *)
LEMMA NotOwn ==
  ASSUME HInv, frames # <<>>, NEW n, ~OnTop(n), Now.kind \in {"get", "output"}, Now.of \in Cell
  PROVE  Now.of # n
<1>1. StackInv
  BY Evaluations DEF HInv
<1>2. Now = frames[Len(frames)] /\ Named(frames[Len(frames)])
  BY DEF Now, Last, Named
<1>3. Len(get_stack) >= 1 /\ get_stack[Len(get_stack)][1] = Now.of
  BY <1>1, <1>2, StackedTop DEF StackInv
<1>4. get_stack # <<>>
  BY <1>3
<1> QED BY <1>3, <1>4 DEF OnTop, Last

LEMMA AccessingReads ==
  ASSUME HInv, Accessing, ~failed, ~failed', NEW n \in Declared \cup Computed,
         ReadCached(n) \/ ReadCalculates(n) \/ ReadTerm(n) \/ ReadInitializing(n)
  PROVE  Accessing'
<1>1. UNCHANGED <<sheet, evaluated, phase, value_accessed>> /\ Reads(n)
  BY DEF ReadCached, ReadCalculates, ReadTerm, ReadInitializing, declVars, cellVars, vars
<1> SUFFICES ASSUME phase # "idle" PROVE SelfUnread(frames', Frees \ value_accessed)
  BY <1>1, AccessingOn DEF Accessing
<1>2. PICK fs, L : fs = frames /\ L = Len(fs)
  OBVIOUS
<1>3. PICK A : fs \in Seq(FrameOver(A))
  BY <1>1, <1>2, InnermostReads
<1>4. /\ fs # <<>> /\ L \in 1..L /\ Now = fs[L] /\ fs[L].vals \in Seq(Value)
      /\ Step(fs[L].expr, fs[L].vals) = Read(n)
  BY <1>1, <1>2, InnermostReads
<1>5. PICK S : S = Frees \ value_accessed
  OBVIOUS
<1>6. SelfUnread(fs, S) /\ S \subseteq Cell
  BY <1>2, <1>5 DEF Accessing, Frees
<1>7. CellsTyped /\ Now.kind # "init"
  <2>1. mode = "ready" /\ SheetInv
    BY Evaluations DEF HInv, InPhase, Base
  <2>2. In("init") => mode \in {"build", "reinit"}
    BY <2>1, InitializersWhen
  <2> QED BY <2>1, <2>2, <1>2, <1>4, Evaluations DEF In, Running, HInv
<1>8. CASE ReadCached(n)
  <2>1. ~OnTop(n) /\ \E v \in Value : frames' = Deliver(frames, v)
    <3>1. n \in Evaluable => state[n] \in Value
      BY <1>7 DEF CellsTyped
    <3>2. n \notin Evaluable => input[n] \in Value
      BY <1>7 DEF CellsTyped, Evaluable
    <3> QED BY <1>8, <3>1, <3>2 DEF ReadCached
  <2>2. PICK v \in Value : frames' = Deliver(fs, v)
    BY <2>1, <1>2
  <2>3. fs[L].kind \in {"get", "output"} /\ fs[L].of \in S => fs[L].of # n
    BY <2>1, <1>2, <1>4, <1>6, NotOwn
  <2>4. SelfUnread(Deliver(fs, v), S)
    BY <2>3, <1>2, <1>3, <1>4, <1>6, SelfUnreadMore
  <2> QED BY <2>2, <2>4, <1>5
<1>9. CASE ReadCalculates(n) \/ ReadTerm(n)
  <2>1. PICK f : frames' = Append(fs, f) /\ f.vals = <<>>
    <3>1. PICK f, g : f = Frame("get", n, sheet.expr[n], accumulate) /\ g = Frame("term", n, TermExpr(n), {})
      OBVIOUS
    <3>2. f.vals = <<>> /\ g.vals = <<>>
      BY <3>1 DEF Frame
    <3>3. frames' = Append(fs, f) \/ frames' = Append(fs, g)
      BY <3>1, <1>2, <1>9 DEF ReadCalculates, ReadTerm
    <3> QED BY <3>2, <3>3
  <2>2. SelfUnread(Append(fs, f), S)
    BY <2>1, <1>3, <1>6, SelfUnreadNew
  <2> QED BY <2>1, <2>2, <1>5
<1>10. CASE ReadInitializing(n)
  BY <1>7, <1>10 DEF ReadInitializing, In
<1> QED BY <1>8, <1>9, <1>10

LEMMA AccessingReturns ==
  ASSUME HInv, Accessing, ~failed, ~failed', NEW v \in Value, ReturnGet(v) \/ ReturnTerm(v)
  PROVE  Accessing'
<1>1. UNCHANGED <<sheet, phase, value_accessed>> /\ frames' = Deliver(Front(frames), v) /\ frames # <<>> /\ Returns(v)
      /\ Now.kind \in {"get", "term"}
  BY DEF ReturnGet, ReturnTerm, declVars, vars, In, Running
<1> SUFFICES ASSUME phase # "idle"
             PROVE  SelfUnread(frames', Frees \ value_accessed) /\ evaluated' \cap Selves \subseteq value_accessed
  BY <1>1, AccessingOn DEF Accessing
<1>2. PICK all, fs, m, L : all = frames /\ fs = Front(all) /\ m = Len(all) /\ L = m - 1
  OBVIOUS
<1>3. PICK A : all \in Seq(FrameOver(A))
  BY <1>1, <1>2, Evaluations DEF HInv
<1>4. /\ Frames(all) /\ all # <<>> /\ m \in Nat /\ m >= 1 /\ m \in 1..m /\ Now = all[m] /\ TypeOK /\ Clauses
      /\ sheet \in Sheets
  BY <1>1, <1>2, Evaluations DEF HInv
<1>5. m # 1
  BY <1>1, <1>4 DEF Frames, Roots
<1>6. /\ fs \in Seq(FrameOver(A)) /\ Len(fs) = L /\ L \in 1..L /\ L \in 1..m /\ L \in 1..(m - 1) /\ L + 1 = m
      /\ fs # <<>> /\ \A i \in 1..L : fs[i] = all[i] /\ i \in 1..m
  <2>1. fs \in Seq(FrameOver(A)) /\ Len(fs) = m - 1 /\ \A i \in 1..(m - 1) : fs[i] = all[i]
    BY <1>2, <1>3, <1>4, FrontIs
  <2>2. L \in Nat /\ L >= 1 /\ L \in 1..L /\ L \in 1..m /\ L + 1 = m /\ 1..L = 1..(m - 1) /\ \A i \in 1..L : i \in 1..m
    BY <1>2, <1>4, <1>5
  <2>3. fs # <<>>
    BY <2>1, <2>2, <1>2
  <2> QED BY <2>1, <2>2, <2>3, <1>2
<1>7. PICK S : S = Frees \ value_accessed
  OBVIOUS
<1>8. SelfUnread(all, S)
  BY <1>2, <1>7 DEF Accessing
<1>9. SelfUnread(fs, S)
  BY <1>2, <1>6, <1>8 DEF SelfUnread
<1>10. Chained(all)
  BY <1>2 DEF HInv, Sound, InProgress, Clean
<1>11. Faithful(all[m]) /\ Waits(fs[L], all[m]) /\ fs[L].vals \in Seq(Value)
  <2>1. Waits(all[L], all[m])
    <3>1. L \in 1..(Len(all) - 1)
      BY <1>2, <1>6
    <3>2. Waits(all[L], all[L + 1])
      BY <3>1, <1>10 DEF Chained
    <3> QED BY <3>2, <1>6
  <2>2. Faithful(all[m])
    BY <1>2, <1>4, <1>10 DEF Chained
  <2>3. all[L].vals \in Seq(Value)
    BY <1>2, <1>4, <1>6 DEF Frames
  <2> QED BY <2>1, <2>2, <2>3, <1>6
<1>12. PICK n : n = all[m].of
  OBVIOUS
<1>13. Step(fs[L].expr, fs[L].vals) = Read(n)
  BY <1>11, <1>12 DEF Waits
<1>14. fs[L].kind \in {"get", "output"} /\ fs[L].of \in S => fs[L].of # n
  <2> SUFFICES ASSUME fs[L].kind \in {"get", "output"}, fs[L].of \in S, fs[L].of = n PROVE FALSE
    OBVIOUS
  <2>1. n \in Frees
    BY <1>7
  <2>2. n \in Cell /\ term[n] = NoTerm
    BY <2>1, <1>4, FreeIs
  <2>3. CASE all[m].kind = "get"
    BY <2>2, <2>3, <1>11, <1>12 DEF Waits, Owner
  <2>4. CASE all[m].kind = "term"
    BY <2>2, <2>4, <1>11, <1>12 DEF Faithful
  <2> QED BY <2>3, <2>4, <1>1, <1>4
<1>15. SelfUnread(Deliver(fs, v), S)
  BY <1>6, <1>9, <1>11, <1>13, <1>14, SelfUnreadMore
<1>16. evaluated' \cap Selves \subseteq value_accessed
  <2>1. CASE ReturnTerm(v)
    BY <2>1 DEF ReturnTerm, cellVars, Accessing
  <2>2. CASE ReturnGet(v)
    <3>1. evaluated' = evaluated \cup {Now.of} /\ Now.kind = "get"
      BY <2>2 DEF ReturnGet, Calculated, In
    <3>2. Now.of \in Selves => Now.of \in value_accessed
      BY <3>1, <1>1, SelfAccessed
    <3> QED BY <3>1, <3>2 DEF Accessing
  <2> QED BY <2>1, <2>2
<1> QED BY <1>1, <1>2, <1>7, <1>15, <1>16

LEMMA AccessingEvaluate ==
  ASSUME HInv, Accessing, ~failed', HEvaluate
  PROVE  Accessing'
<1>1. ~failed
  BY EvaluateQuietly
<1>2. ASSUME Throw PROVE Accessing'
  <2>1. frames # <<>> /\ frames[1].kind \notin {"when", "output"}
    BY <1>2 DEF HEvaluate, Throw, Throws, Running
  <2>2. phase = "idle" /\ phase' = phase
    BY <2>1, <1>2, Evaluations DEF HInv, InPhase, Root, Throw, vars
  <2> QED BY <2>2 DEF Accessing
<1> QED BY <1>1, <1>2, AccessingReadInput, AccessingReads, AccessingReturns DEF HEvaluate, Evaluate

LEMMA AccessingUpdating ==
  ASSUME HInv, Accessing, ~failed', HUpdating
  PROVE  Accessing'
<1> SUFFICES ASSUME phase' # "idle" PROVE Accessing'
  BY DEF Accessing
<1>1. ~Notify
  BY DEF Notify, EndUpdate
<1>2. ~failed /\ phase # "idle"
  BY <1>1, UpdatingQuietly, BusyUpdating DEF HInv, Base, HUpdating
<1>3. UNCHANGED <<sheet, value_accessed>>
  BY DEF HUpdating, Updating, BeginConditional, EndConditional, EndCalculate, ConditionalsSolved, FlowStep,
         BeginCalculate, CalculateAttached, ApplyEvaluated, Notify, declVars, evalVars
<1>4. PICK S : S = Frees \ value_accessed
  OBVIOUS
<1>5. SelfUnread(frames, S)
  BY <1>2, <1>4 DEF Accessing
<1>6. \A kind, of, expr, old : Frame(kind, of, expr, old).vals = <<>>
  BY DEF Frame
<1>7. SelfUnread(<<>>, S)
  <2>1. 1..Len(<<>>) = {}
    OBVIOUS
  <2> QED BY <2>1 DEF SelfUnread
<1>8. SelfUnread(frames', S)
  <2>1. \/ frames' = frames \/ frames' = <<>>
        \/ \E kind, of, expr, old : frames' = <<Frame(kind, of, expr, old)>>
    BY DEF HUpdating, Updating, BeginConditional, EndConditional, EndCalculate, ConditionalsSolved, FlowStep,
           BeginCalculate, CalculateAttached, ApplyEvaluated, Notify, evalVars
  <2>2. ASSUME NEW f, f.vals = <<>>, frames' = <<f>> PROVE SelfUnread(frames', S)
    <3>1. SelfUnread(<<f>>, S)
      BY <2>2, SelfUnreadOne
    <3> QED BY <3>1, <2>2
  <2> QED BY <2>1, <2>2, <1>5, <1>6, <1>7
<1>9. evaluated' \cap Selves \subseteq value_accessed
  <2>1. ASSUME NEW v \in Value, EndCalculate(v) PROVE evaluated' \cap Selves \subseteq value_accessed
    <3>1. evaluated' = evaluated \cup {Now.of} /\ Now.kind = "output" /\ Returns(v)
      BY <2>1 DEF EndCalculate, Calculated, In
    <3>2. Now.of \in Selves => Now.of \in value_accessed
      BY <3>1, <1>2, SelfAccessed
    <3> QED BY <3>1, <3>2, <1>2 DEF Accessing
  <2>2. (\A v \in Value : ~EndCalculate(v)) => evaluated' = evaluated
    BY DEF HUpdating, Updating, BeginConditional, EndConditional, ConditionalsSolved, FlowStep,
           BeginCalculate, CalculateAttached, ApplyEvaluated, Notify, cellVars
  <2> QED BY <2>1, <2>2, <1>2 DEF Accessing
<1> QED BY <1>2, <1>3, <1>4, <1>8, <1>9, AccessingOn

LEMMA AccessingStep ==
  ASSUME HInv, Accessing, [SHNext]_shvars
  PROVE  Accessing'
<1> SUFFICES ASSUME ~failed', phase' # "idle" PROVE Accessing'
  BY DEF Accessing
<1>1. CASE HEvaluate
  BY <1>1, AccessingEvaluate
<1>2. CASE HUpdating
  BY <1>2, AccessingUpdating
<1>3. CASE HCalls
  <2>1. StartUpdate
    BY <1>3 DEF HCalls, Calls, SetValue, TouchCells, BeginReinitialize, Query, MonitorValue, MonitorEnabled,
           Resting, Set, SetInput, Touch, vars
  <2>2. evaluated' = {} /\ value_accessed' = {} /\ frames' = <<>>
    BY <2>1 DEF StartUpdate, Resting, Running
  <2>3. 1..Len(frames') = {}
    BY <2>2
  <2> QED BY <2>2, <2>3 DEF Accessing, SelfUnread
<1>4. CASE HBuild
  <2>1. CASE Build
    <3>1. phase = "idle" /\ phase' = phase
      BY <2>1, Evaluations DEF HInv, Build, BeginDeclare, Declare, DeclareRelation, EndBuild, Declaring, InPhase,
             AddInterface, AddRelation, vars
    <3> QED BY <3>1
  <2>2. CASE Answering
    <3>1. phase' = phase /\ frames' = <<>> /\ UNCHANGED <<sheet, evaluated, value_accessed, failed>>
      BY <2>2, <1>4 DEF HBuild, Answering, Answer, declVars, cellVars, vars, ghostVars
    <3>2. 1..Len(frames') = {}
      BY <3>1
    <3>3. SelfUnread(frames', Frees \ value_accessed)
      BY <3>2 DEF SelfUnread
    <3> QED BY <3>1, <3>3, AccessingOn DEF Accessing
  <2> QED BY <1>4, <2>1, <2>2 DEF HBuild
<1>5. CASE HReinit
  <2>1. phase = "idle" /\ phase' = phase
    BY <1>5, Evaluations DEF HInv, HReinit, Reinit, BeginInitialize, SkipInitialize, EndInitialize, EndReinitialize,
           InPhase, Reinitialize, vars
  <2> QED BY <2>1
<1>6. CASE UNCHANGED shvars
  <2>1. UNCHANGED <<phase, frames, sheet, evaluated, value_accessed, failed>>
    BY <1>6 DEF shvars, svars, ghostVars, declVars, cellVars, evalVars, vars
  <2>2. ~failed /\ phase # "idle" => SelfUnread(frames', Frees \ value_accessed)
    BY <2>1 DEF Accessing
  <2> QED BY <2>1, <2>2, AccessingOn DEF Accessing
<1> QED BY <1>1, <1>2, <1>3, <1>4, <1>5, <1>6 DEF SHNext

-----------------------------------------------------------------------------
(* When update comes to its end, what was accessed is what the sheet says. *)
LEMMA AccessedAtEnd ==
  ASSUME HInv, EvenlyAccessed(sheet), Ruling, Accessing, ~failed, phase = "flowed", Indexed \subseteq evaluated,
         NEW c \in Cell, Watched(c)
  PROVE  c \in priority_accessed \/ (c \in value_accessed <=> c \in Selves)
<1>1. TypeOK /\ Clauses /\ sheet \in Sheets /\ mode = "ready"
  BY Evaluations DEF HInv, InPhase
<1>2. /\ c \in DOMAIN sheet.expr
      /\ c \in Ruled(sheet) \/ (c \notin Related(sheet) /\ (AlwaysReads(sheet.expr[c], c) \/ ~MayRead(sheet.expr[c], c)))
  BY DEF EvenlyAccessed, Watched
<1>3. CASE c \in Ruled(sheet)
  <2>1. PICK r \in DOMAIN sheet.relations : sheet.relations[r].when = NoExpr /\ c \in UNION sheet.relations[r].terms
    BY <1>3 DEF Ruled
  <2>2. relations \in Seq([terms : Shapes, conditional : BOOLEAN])
    BY <1>1 DEF TypeOK
  <2>3. Len(relations) = Len(sheet.relations) /\ DOMAIN sheet.relations = 1..Len(sheet.relations)
    BY <1>1, SheetsAssumption DEF Ruling
  <2>4. r \in Relation
    BY <2>2, <2>3 DEF Relation
  <2>5. c \in Edges(r)
    BY <2>1, <2>4, <1>1, ClauseOf DEF Edges
  <2>6. ~relations[r].conditional
    BY <2>1, <2>4 DEF Ruling
  <2> QED BY <2>4, <2>5, <2>6 DEF Ruling
<1>4. CASE c \notin Ruled(sheet)
  <2>1. c \in Frees /\ (AlwaysReads(sheet.expr[c], c) \/ ~MayRead(sheet.expr[c], c))
    BY <1>2, <1>4 DEF Frees
  <2>2. c \in evaluated
    BY <2>1, <1>1, FreeIs
  <2>3. c \in Selves => c \in value_accessed
    BY <2>2 DEF Accessing
  <2>4. c \in value_accessed => c \in Selves
    BY <2>1 DEF Accessing, Selves
  <2> QED BY <2>3, <2>4
<1> QED BY <1>3, <1>4

(* What is left of an update that came to its end stays. *)
LEMMA AnsweredKept ==
  ASSUME Answered, ~failed' => ~failed,
         UNCHANGED <<sheet, told_enabled, touch_set, active, priority_accessed_m>>,
         ~failed' /\ phase' = "idle" /\ published' # Nothing =>
           phase = "idle" /\ published # Nothing /\ value_accessed' = value_accessed
  PROVE  Answered'
<1>1. Selves' = Selves /\ (\A c : Owed(c)' = Owed(c)) /\ (\A c : Watched(c)' = Watched(c))
  BY FreesStay DEF Owed, Watched
<1> QED BY <1>1 DEF Answered

LEMMA AnsweredNotify ==
  ASSUME HInv, EvenlyAccessed(sheet), Ruling, Accessing, Answered, ~failed', HUpdating, Notify
  PROVE  Answered'
<1>1. /\ phase = "flowed" /\ frames = <<>> /\ at > Len(output_index) /\ ~failed
      /\ priority_accessed_m' = priority_accessed /\ active' = priority_accessed \cup Contributes
      /\ told_enabled' = [c \in Cell |->
           IF told_enabled[c] # Unmonitored /\ (AccessChanged(c) \/ (c \in active') # (c \in active))
           THEN c \in active' \/ (c \in value_accessed /\ priority_accessed \cap touch_set[c] # {})
           ELSE told_enabled[c]]
      /\ UNCHANGED <<sheet, value_accessed, touch_set, evaluated>>
  BY DEF HUpdating, Notify, EndUpdate, Running, declVars, evalVars, cellVars
<1>2. Indexed \subseteq evaluated
  <2>1. PICK k : k = Len(output_index)
    OBVIOUS
  <2>2. k \in Nat /\ \A n \in Indexed : \E i \in 1..k : output_index[i] = n
    BY <2>1, IndexHits, Evaluations DEF HInv, Base
  <2>3. at \in 1..(k + 1) /\ \A i \in 1..k : i < at => output_index[i] \in evaluated
    BY <2>1, <1>1 DEF HInv, Sound, Passing
  <2>4. \A i \in 1..k : i < at
    BY <2>1, <2>2, <2>3, <1>1
  <2> QED BY <2>2, <2>3, <2>4
<1>3. Selves' = Selves /\ (\A c : Watched(c)' <=> Watched(c))
  BY <1>1, FreesStay DEF Watched
<1>4. \A c \in Cell : Watched(c) => c \in priority_accessed \/ (c \in value_accessed <=> c \in Selves)
  BY <1>1, <1>2, AccessedAtEnd
<1>5. ASSUME NEW c \in Cell, told_enabled'[c] # Unmonitored
      PROVE  Watched(c) /\ told_enabled'[c] = (c \in active' \/ (c \in Selves /\ touch_set[c] \cap priority_accessed # {}))
  <2> DEFINE new == c \in active' \/ (c \in value_accessed /\ priority_accessed \cap touch_set[c] # {})
             owed == c \in active' \/ (c \in Selves /\ touch_set[c] \cap priority_accessed # {})
  <2>1. told_enabled[c] # Unmonitored
    BY <1>1, <1>5
  <2>2. Watched(c) /\ told_enabled[c] = (c \in active \/ (c \in Selves /\ touch_set[c] \cap priority_accessed_m # {}))
    BY <2>1, <1>1 DEF Answered, Owed
  <2>3. new <=> owed
    BY <2>2, <1>1, <1>4
  <2>4. CASE AccessChanged(c) \/ (c \in active') # (c \in active)
    <3>1. told_enabled'[c] = new
      BY <2>1, <2>4, <1>1
    <3> QED BY <3>1, <2>2, <2>3
  <2>5. CASE ~(AccessChanged(c) \/ (c \in active') # (c \in active))
    <3>1. told_enabled'[c] = told_enabled[c]
      BY <2>5, <1>1
    <3>2. (c \in active') <=> (c \in active)
      BY <2>5
    <3>3. priority_accessed \cap touch_set[c] = priority_accessed_m \cap touch_set[c]
      BY <2>5 DEF AccessChanged
    <3>4. (c \in active \/ (c \in Selves /\ touch_set[c] \cap priority_accessed_m # {})) <=> owed
      BY <3>2, <3>3
    <3> QED BY <3>1, <3>4, <2>2
  <2> QED BY <2>4, <2>5
<1>6. ASSUME NEW c \in Cell, told_enabled'[c] # Unmonitored PROVE Watched(c)' /\ told_enabled'[c] = Owed(c)'
  BY <1>1, <1>3, <1>5, <1>6 DEF Owed
<1>7. \A c \in Cell : Watched(c)' => c \in active' \/ (c \in value_accessed' <=> c \in Selves')
  BY <1>1, <1>3, <1>4
<1>8. DOMAIN told_enabled' = Cell /\ DOMAIN touch_set' = Cell
  BY <1>1 DEF Answered
<1> QED BY <1>6, <1>7, <1>8 DEF Answered

LEMMA AnsweredMonitor ==
  ASSUME HInv, EvenlyAccessed(sheet), Answered, ~failed, ~failed', published' = published,
         NEW d \in Cell, NEW T \in sheet.touches[d], MonitorEnabled(d, T)
  PROVE  Answered'
<1>1. /\ phase = "idle" /\ updated /\ told_enabled' = [told_enabled EXCEPT ![d] = Enabled(d, T)]
      /\ touch_set' = [touch_set EXCEPT ![d] = T]
      /\ UNCHANGED <<phase, sheet, active, priority_accessed_m, value_accessed>>
  BY DEF MonitorEnabled, Resting, vars, declVars, evalVars
<1>2. DOMAIN told_enabled = Cell /\ DOMAIN touch_set = Cell
  BY DEF Answered
<1>3. Selves' = Selves /\ (\A c : Watched(c)' <=> Watched(c)) /\ Watched(d)
  BY <1>1, FreesStay DEF Watched
<1>4. published # Nothing
  <2>1. d \in Indexed
    BY <1>3, ComputedIs DEF EvenlyAccessed, Watched, Indexed, Computed
  <2> QED BY <2>1, <1>1 DEF HInv, Sound, Told
<1>5. d \in active \/ (d \in value_accessed <=> d \in Selves)
  BY <1>1, <1>3, <1>4 DEF Answered
<1>6. told_enabled'[d] = Enabled(d, T) /\ touch_set'[d] = T
      /\ \A c \in Cell : c # d => told_enabled'[c] = told_enabled[c] /\ touch_set'[c] = touch_set[c]
  BY <1>1, <1>2
<1>7. Enabled(d, T) = (d \in active \/ (d \in Selves /\ T \cap priority_accessed_m # {}))
  BY <1>5 DEF Enabled
<1>8. told_enabled'[d] = Owed(d)'
  BY <1>1, <1>3, <1>6, <1>7 DEF Owed
<1>9. ASSUME NEW c \in Cell, c # d PROVE Owed(c)' = Owed(c)
  BY <1>1, <1>3, <1>6, <1>9 DEF Owed
<1>10. ASSUME NEW c \in Cell, told_enabled'[c] # Unmonitored PROVE Watched(c)' /\ told_enabled'[c] = Owed(c)'
  <2>1. CASE c = d
    BY <2>1, <1>3, <1>8
  <2>2. CASE c # d
    <3>1. told_enabled'[c] = told_enabled[c] /\ Owed(c)' = Owed(c)
      BY <2>2, <1>6, <1>9
    <3>2. Watched(c) /\ told_enabled[c] = Owed(c)
      BY <3>1, <1>10 DEF Answered
    <3> QED BY <3>1, <3>2, <1>3
  <2> QED BY <2>1, <2>2
<1>11. \A c \in Cell : Watched(c)' => c \in active' \/ (c \in value_accessed' <=> c \in Selves')
  BY <1>1, <1>3, <1>4 DEF Answered
<1>12. DOMAIN told_enabled' = Cell /\ DOMAIN touch_set' = Cell
  BY <1>1, <1>2
<1> QED BY <1>10, <1>11, <1>12 DEF Answered

LEMMA AnsweredEvaluate ==
  ASSUME HInv, Answered, ~failed', HEvaluate
  PROVE  Answered'
<1>1. ~failed /\ published' = published
  BY EvaluateQuietly
<1>2. UNCHANGED <<sheet, told_enabled, touch_set, active, priority_accessed_m>>
  BY DEF HEvaluate, Evaluate, ReadInitializing, ReadTerm, ReadInput, ReadCached, ReadCalculates, ReturnGet,
         ReturnTerm, Throw, declVars, monVars
<1>3. phase' = phase
  <2>1. ASSUME Throw PROVE phase' = phase
    <3>1. frames[1].kind \notin {"when", "output"}
      BY <1>1, <2>1 DEF HEvaluate, Throw
    <3> QED BY <3>1, <2>1 DEF Throw, vars
  <2> QED BY <2>1 DEF HEvaluate, Evaluate, ReadInitializing, ReadTerm, ReadInput, ReadCached, ReadCalculates,
          ReturnGet, ReturnTerm, vars
<1>4. ASSUME phase = "idle", published # Nothing, NEW n \in Declared \cup Computed, ReadInput(n) PROVE FALSE
  <2>1. Reads(n) /\ OnTop(n) /\ Clean
    BY <1>1, <1>4 DEF ReadInput, Clean
  <2>2. PICK fs, L : fs = frames /\ L = Len(fs)
    OBVIOUS
  <2>3. PICK where : Placed(where, fs, get_stack) /\ Flagged(where, fs, get_stack) /\ Chained(fs)
    BY <1>1, <2>1, <2>2, InnermostReads
  <2>4. n \in Cell /\ n \in DOMAIN sheet.expr \ evaluated
    BY <1>1, <2>1, <2>2, <2>3, OwnRead
  <2>5. n \in Indexed
    BY <2>4, ComputedIs DEF Indexed, Computed
  <2> QED BY <2>4, <2>5, <1>1, <1>4 DEF HInv, Sound, AllSeen
<1>5. (\A n \in Declared \cup Computed : ~ReadInput(n)) => value_accessed' = value_accessed
  BY DEF HEvaluate, Evaluate, ReadInitializing, ReadTerm, ReadCached, ReadCalculates, ReturnGet, ReturnTerm, Throw
<1> QED BY <1>1, <1>2, <1>3, <1>4, <1>5, AnsweredKept

LEMMA AnsweredUpdating ==
  ASSUME HInv, Answered, ~failed', HUpdating, ~Notify
  PROVE  Answered'
<1>1. ~failed /\ ~(phase = "flowed" /\ phase' = "idle") /\ phase # "idle"
  BY UpdatingQuietly, BusyUpdating DEF HInv, Base, HUpdating
<1>2. UNCHANGED <<sheet, told_enabled, touch_set, active, priority_accessed_m>>
  BY DEF HUpdating, Updating, BeginConditional, EndConditional, EndCalculate, ConditionalsSolved, FlowStep,
         BeginCalculate, CalculateAttached, ApplyEvaluated, declVars, monVars
<1>3. phase' # "idle"
  BY <1>1 DEF HUpdating, Updating, BeginConditional, EndConditional, EndCalculate, ConditionalsSolved, FlowStep,
         BeginCalculate, CalculateAttached, ApplyEvaluated, vars, ConditionalHolds, ConditionalFails,
         EndConditionals, Flow, BeginFlow, SkipCell, PopCell, PassRelation, ApplyRelation, VisitsNext, EndCell, EndFlow,
         EndUpdate
<1> QED BY <1>1, <1>2, <1>3, AnsweredKept

LEMMA AnsweredCalls ==
  ASSUME HInv, EvenlyAccessed(sheet), Answered, ~failed', HCalls
  PROVE  Answered'
<1>1. ~failed /\ published' = published /\ phase = "idle"
  BY DEF HCalls, Calls, SetValue, TouchCells, BeginReinitialize, StartUpdate, Query, MonitorValue, MonitorEnabled,
         Resting
<1>2. ASSUME NEW d \in Cell, NEW T \in sheet.touches[d], MonitorEnabled(d, T) PROVE Answered'
  BY <1>1, <1>2, AnsweredMonitor
<1>3. CASE StartUpdate
  <2>1. UNCHANGED <<sheet, told_enabled, touch_set, active, priority_accessed_m>> /\ phase' = "conditionals"
    BY <1>3 DEF StartUpdate, BeginUpdate, declVars, monVars
  <2> QED BY <2>1, <1>1, AnsweredKept
<1>4. ASSUME ~StartUpdate, \A d \in Cell : \A T \in sheet.touches[d] : ~MonitorEnabled(d, T) PROVE Answered'
  <2>1. UNCHANGED <<sheet, told_enabled, touch_set, active, priority_accessed_m, value_accessed>>
    BY <1>4 DEF HCalls, Calls, SetValue, TouchCells, BeginReinitialize, Query, MonitorValue, declVars, monVars, evalVars
  <2> QED BY <2>1, <1>1, AnsweredKept
<1> QED BY <1>2, <1>3, <1>4

LEMMA AnsweredStep ==
  ASSUME EnabledInv, [SHNext]_shvars
  PROVE  Answered'
<1> SUFFICES ASSUME ~failed' PROVE Answered'
  BY DEF Answered
<1>1. CASE HEvaluate
  BY <1>1, AnsweredEvaluate DEF EnabledInv
<1>2. CASE HUpdating
  BY <1>2, AnsweredUpdating, AnsweredNotify DEF EnabledInv
<1>3. CASE HCalls
  BY <1>3, AnsweredCalls DEF EnabledInv
<1>4. CASE HBuild
  <2>1. UNCHANGED <<sheet, told_enabled, touch_set, active, priority_accessed_m, value_accessed, published, failed, phase>>
    BY <1>4 DEF HBuild, Build, Answering, Answer, BeginDeclare, Declare, DeclareRelation, EndBuild, ghostVars, declVars,
           monVars, evalVars, vars, AddInterface, AddRelation
  <2> QED BY <2>1, AnsweredKept DEF EnabledInv
<1>5. CASE HReinit
  <2>1. UNCHANGED <<sheet, told_enabled, touch_set, active, priority_accessed_m, value_accessed, published, failed, phase>>
    BY <1>5 DEF HReinit, Reinit, BeginInitialize, SkipInitialize, EndInitialize, EndReinitialize, declVars, monVars,
           evalVars, vars, Reinitialize
  <2> QED BY <2>1, AnsweredKept DEF EnabledInv
<1>6. CASE UNCHANGED shvars
  <2>1. UNCHANGED <<sheet, told_enabled, touch_set, active, priority_accessed_m, value_accessed, published, failed, phase>>
    BY <1>6 DEF shvars, svars, ghostVars, declVars, monVars, evalVars, vars
  <2> QED BY <2>1, AnsweredKept DEF EnabledInv
<1> QED BY <1>1, <1>2, <1>3, <1>4, <1>5, <1>6 DEF SHNext

LEMMA EnabledInvStep ==
  ASSUME EnabledInv, [SHNext]_shvars
  PROVE  EnabledInv'
<1>1. SheetInv /\ Clauses /\ [SNext]_svars
  BY HistoryIsSheet DEF EnabledInv, HInv, Base
<1>2. HInv' /\ Ruling' /\ Accessing' /\ Answered'
  BY <1>1, HInvStep, RulingStep, AccessingStep, AnsweredStep DEF EnabledInv
<1>3. sheet' = sheet
  BY <1>1, SheetStays
<1> QED BY <1>2, <1>3 DEF EnabledInv

LEMMA EnabledInvInit ==
  ASSUME SHInit, \A s \in Sheets : Layered(s), \A s \in Sheets : EvenlyAccessed(s)
  PROVE  EnabledInv
<1>1. HInv
  BY HInvInit
<1>2. /\ sheet \in Sheets /\ relations = <<>> /\ mode = "build" /\ phase = "idle" /\ published = Nothing
      /\ told_enabled = [c \in Cell |-> Unmonitored] /\ touch_set = [c \in Cell |-> {}]
  BY DEF SHInit, SInit, Init
<1>3. Relation = {}
  BY <1>2 DEF Relation
<1>4. Ruling /\ Accessing /\ Answered
  BY <1>2, <1>3 DEF Ruling, Accessing, Answered
<1> QED BY <1>1, <1>2, <1>4 DEF EnabledInv

(* In a layered sheet where the cells that are watched are evenly accessed, as long as no
   update throws, a monitor of an enabled state was last told the state that the cell has
   (monitor_enabled and the loop over the monitors at the end of update). *)
THEOREM EnabledTold ==
  ASSUME \A s \in Sheets : Layered(s), \A s \in Sheets : EvenlyAccessed(s)
  PROVE  HSheetSpec => []EnabledInSyncUnlessFailed
<1>1. SHInit => EnabledInv
  BY EnabledInvInit
<1>2. EnabledInv /\ [SHNext]_shvars => EnabledInv'
  BY EnabledInvStep
<1>3. EnabledInv => EnabledInSyncUnlessFailed
  <2> SUFFICES ASSUME EnabledInv, ~failed, Ended, NEW c \in Cell, told_enabled[c] # Unmonitored
               PROVE  told_enabled[c] = Enabled(c, touch_set[c])
    BY DEF EnabledInSyncUnlessFailed, EnabledInSync
  <2>1. phase = "idle" /\ published # Nothing
    BY DEF Ended, Resting
  <2>2. Watched(c) /\ told_enabled[c] = (c \in active \/ (c \in Selves /\ touch_set[c] \cap priority_accessed_m # {}))
    BY DEF EnabledInv, Answered, Owed
  <2>3. c \in active \/ (c \in value_accessed <=> c \in Selves)
    BY <2>1, <2>2 DEF EnabledInv, Answered
  <2> QED BY <2>2, <2>3 DEF Enabled
<1> QED BY <1>1, <1>2, <1>3, PTL DEF HSheetSpec
=============================================================================
