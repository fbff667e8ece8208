-------------------------- MODULE CopyOnWriteProofs --------------------------
(***************************************************************************)
(* What TLAPS proves of CopyOnWrite, for any threads, handles and memory:  *)
(* the counts are exact, no two threads race for a value, and the handles  *)
(* behave as values of their own.                                          *)
(***************************************************************************)
EXTENDS CopyOnWrite, FiniteSetTheorems, TLAPS

USE CopyOnWriteAssumption

Copies == {"copy", "move", "assign_copy", "assign_move"}
Constructors == {"default", "construct", "copy", "move"}
Assignments == {"assign", "assign_copy", "assign_move"}
Releasing == {"decrement", "destroy"}

\* the steps of each call
Places(op) ==
  CASE op = "default" -> {"once", "init", "copy"}
    [] op = "construct" -> {"allocate"}
    [] op = "copy" -> {"copy"}
    [] op = "move" -> {"move"}
    [] op = "read" -> {"read"}
    [] op = "exit" -> Releasing
    [] op = "destroy" -> {"release"} \cup Releasing
    [] op = "assign" -> {"check", "access", "allocate"} \cup Releasing
    [] op = "assign_copy" -> {"assign_copy"} \cup Releasing
    [] op = "assign_move" -> {"assign_move"} \cup Releasing
    [] op = "write" -> {"check", "access", "duplicate"} \cup Releasing

AllPlaces == {"idle", "once", "init", "copy", "move", "read", "release", "check", "access", "allocate",
              "duplicate", "assign_copy", "assign_move"} \cup Releasing

TypeOK ==
  /\ object \in [Handle -> Object \cup {Null, Dead}]
  /\ value \in [Object -> Value \cup {Free}]
  /\ count \in [Object -> Int]
  /\ default_s \in Object \cup {Null}
  /\ flag_s \in {"none", "running", "done"}
  /\ exited \in BOOLEAN
  /\ call \in [Thread -> Calls \cup {NoCall}]
  /\ pc \in [Thread -> [at : AllPlaces, obj : Object \cup {Null}, to : Object \cup {Null, Dead}]]

-----------------------------------------------------------------------------
(* The control of a call: where its thread can be, and what its handles are.  *)

Placed(t) ==
  /\ call[t] = NoCall <=> pc[t].at = "idle"
  /\ call[t] # NoCall =>
       /\ pc[t].at \in Places(call[t].op)
       /\ call[t].op \in Constructors => object[call[t].h] = Dead
       /\ call[t].op \in Copies => object[call[t].from] # Dead
       /\ call[t].op \in Assignments \cup {"destroy"} => object[call[t].h] # Dead
       /\ call[t].op \in {"read", "write"} => object[call[t].h] \in Object
  /\ pc[t].at = "access" => object[call[t].h] \in Object
  /\ pc[t].at = "destroy" => pc[t].obj \in Object
  /\ pc[t].at \in Releasing =>
       /\ call[t].op \in {"assign", "write"} => pc[t].to \in Object
       /\ call[t].op \in {"assign_copy", "assign_move"} => pc[t].to = object[call[t].h]
       /\ call[t].op = "destroy" => pc[t].to = Dead

\* no thread uses a handle another modifies
Exclusive ==
  \A t, u \in Thread : t # u /\ call[t] # NoCall /\ call[u] # NoCall =>
    Modifies(call[t]) \cap Uses(call[u]) = {}

\* one thread at most is in init_default, and nobody beyond it before it is done
Once ==
  /\ flag_s = "done" <=> default_s # Null
  /\ exited => flag_s = "done"
  /\ \A t \in Thread :
       /\ call[t] # NoCall /\ call[t].op = "default" => ~exited
       /\ call[t] # NoCall /\ call[t].op = "default" /\ pc[t].at = "copy" => flag_s = "done"
       /\ pc[t].at = "init" => flag_s = "running"
       /\ \A u \in Thread : pc[t].at = "init" /\ pc[u].at = "init" => t = u

Control == TypeOK /\ (\A t \in Thread : Placed(t)) /\ Exclusive /\ Once

-----------------------------------------------------------------------------
(* The references: what each handle stands for, what each release is about to  *)
(* count down, and the default instance.                                       *)
Stands == [h \in Handle |-> Current(h)]
Drops == [t \in Thread |-> IF pc[t].at = "decrement" THEN pc[t].obj ELSE Null]
Kept == IF exited THEN Null ELSE default_s

\* the thread that makes h stand for another object
Replaces(t, h) == pc[t].at \in Releasing /\ call[t].h = h /\ call[t].op # "exit"

\* a thread that is going to change the object of its handle in place
Owns(t) == pc[t].at = "access" \/ (pc[t].at \in Releasing /\ call[t].op = "write")

\* What it changes no other handle stands for; what is being destroyed nobody does.
Held ==
  \A t \in Thread :
    /\ Owns(t) => count[Stands[call[t].h]] = 1
    /\ pc[t].at = "destroy" => count[pc[t].obj] = 0
    /\ \A u \in Thread : pc[t].at = "destroy" /\ pc[u].at = "destroy" /\ pc[t].obj = pc[u].obj => t = u

DefaultKept == Kept # Null => value[Kept] = Default

Counting == CountsReferences /\ Held /\ DefaultKept

IInv == Control /\ Counting
-----------------------------------------------------------------------------
LEMMA InitControl == Init => Control
<1> SUFFICES ASSUME Init PROVE Control
  OBVIOUS
<1>1. TypeOK
  <2>1. Idle \in [at : AllPlaces, obj : Object \cup {Null}, to : Object \cup {Null, Dead}]
    BY DEF Idle, AllPlaces
  <2>2. /\ object \in [Handle -> Object \cup {Null, Dead}]
        /\ value \in [Object -> Value \cup {Free}]
        /\ count \in [Object -> Int]
    BY DEF Init
  <2>3. call \in [Thread -> Calls \cup {NoCall}]
    BY DEF Init
  <2>4. pc \in [Thread -> [at : AllPlaces, obj : Object \cup {Null}, to : Object \cup {Null, Dead}]]
    BY <2>1 DEF Init
  <2> QED BY <2>2, <2>3, <2>4 DEF Init, TypeOK
<1>2. \A t \in Thread : Placed(t)
  BY DEF Init, Placed, Idle, Releasing
<1>3. Exclusive /\ Once
  BY DEF Init, Exclusive, Once, Idle
<1> QED BY <1>1, <1>2, <1>3 DEF Control

\* What a thread does to its own handles leaves the calls of others where they are.
LEMMA OthersPlaced ==
  ASSUME Control, NEW t \in Thread, NEW u \in Thread, u # t,
         call'[u] = call[u], pc'[u] = pc[u], call[t] # NoCall,
         \A g \in Handle : object'[g] # object[g] => g \in Modifies(call[t])
  PROVE  Placed(u)'
<1>1. CASE call[u] = NoCall
  BY <1>1 DEF Control, Placed, Releasing
<1>2. CASE call[u] # NoCall
  <2>1. Placed(u)
    BY DEF Control
  <2>2. call[u].h \in Handle /\ call[u].from \in Handle
    BY <1>2 DEF Control, TypeOK, Calls
  <2>3. Modifies(call[t]) \cap {call[u].h, call[u].from} = {}
    BY <1>2 DEF Control, Exclusive, Uses
  <2>4. object'[call[u].h] = object[call[u].h] /\ object'[call[u].from] = object[call[u].from]
    BY <2>2, <2>3
  <2> QED BY <2>1, <2>4 DEF Placed
<1> QED BY <1>1, <1>2

\* So a step keeps the control if its own thread is well placed after it.
LEMMA StepKeeps ==
  ASSUME Control, NEW t \in Thread, call[t] # NoCall,
         call' \in {call, [call EXCEPT ![t] = NoCall]},
         \A u \in Thread : u # t => pc'[u] = pc[u],
         \A g \in Handle : object'[g] # object[g] => g \in Modifies(call[t]),
         TypeOK', Placed(t)', Once'
  PROVE  Control'
<1>1. \A u \in Thread : u # t => call'[u] = call[u]
  BY DEF Control, TypeOK
<1>2. \A u \in Thread : Placed(u)'
  BY <1>1, OthersPlaced
<1>3. \A u \in Thread : call'[u] \in {call[u], NoCall}
  BY DEF Control, TypeOK
<1>4. Exclusive'
  BY <1>3 DEF Control, Exclusive, Modifies, Uses
<1> QED BY <1>2, <1>4 DEF Control

\* A call that begins uses no handle another modifies, and modifies none another uses.
LEMMA BeginControl ==
  ASSUME Control, NEW t \in Thread, NEW c \in Calls, NEW where, Begin(t, c, where),
         TypeOK', Placed(t)', Once'
  PROVE  Control'
<1>1. /\ call[t] = NoCall /\ call' = [call EXCEPT ![t] = c] /\ pc' = [pc EXCEPT ![t] = where]
      /\ UNCHANGED object
  BY DEF Begin
<1>2. \A u \in Thread : u # t => call'[u] = call[u] /\ pc'[u] = pc[u]
  BY <1>1 DEF Control, TypeOK
<1>3. \A u \in Thread : Placed(u)'
  <2> SUFFICES ASSUME NEW u \in Thread, u # t PROVE Placed(u)'
    OBVIOUS
  <2>1. Placed(u)
    BY DEF Control
  <2> QED BY <2>1, <1>1, <1>2 DEF Placed
<1>4. Exclusive'
  <2> SUFFICES ASSUME NEW u \in Thread, NEW v \in Thread, u # v, call'[u] # NoCall, call'[v] # NoCall
               PROVE  (Modifies(call[u]) \cap Uses(call[v]))' = {}
    BY DEF Exclusive
  <2>1. CASE u # t /\ v # t
    BY <2>1, <1>2 DEF Control, Exclusive, Modifies, Uses
  <2>2. CASE u = t
    <3>1. call'[u] = c /\ call'[v] = call[v]
      BY <2>2, <1>1, <1>2 DEF Control, TypeOK
    <3>2. Modifies(c) \cap Uses(call[v]) = {}
      BY <3>1, <2>2 DEF Begin
    <3> QED BY <3>1, <3>2 DEF Modifies, Uses
  <2>3. CASE v = t
    <3>1. call'[v] = c /\ call'[u] = call[u]
      BY <2>3, <1>1, <1>2 DEF Control, TypeOK
    <3>2. Uses(c) \cap Modifies(call[u]) = {}
      BY <3>1, <2>3 DEF Begin
    <3> QED BY <3>1, <3>2 DEF Modifies, Uses
  <2> QED BY <2>1, <2>2, <2>3
<1> QED BY <1>3, <1>4 DEF Control

LEMMA ClientControl ==
  ASSUME Control, NEW t \in Thread, Client(t)
  PROVE  Control'
<1> USE DEF Calls, Ops, AllPlaces, Releasing, Places, Constructors, Copies, Assignments, Plain, At, Release
<1>1. PICK h \in Handle : 
        \/ DefaultConstruct(t, h) \/ Read(t, h) \/ Destruct(t, h) \/ Exit(t, h)
        \/ \E v \in Value : Construct(t, h, v) \/ Assign(t, h, v) \/ Write(t, h, v)
        \/ \E g \in Handle : \/ \E op \in {"copy", "move"} : ConstructFrom(t, op, h, g)
                             \/ \E op \in {"assign_copy", "assign_move"} : AssignFrom(t, op, h, g)
  BY DEF Client
<1>2. Default \in Value
  OBVIOUS
<1>3. ASSUME NEW c \in Calls, NEW where \in [at : AllPlaces, obj : Object \cup {Null}, to : Object \cup {Null, Dead}],
             Begin(t, c, where), UNCHANGED exited, where.at \in Places(c.op) \ (Releasing \cup {"access", "init"}),
             c.op = "default" => ~exited /\ where.at = "once",
             c.op \in Constructors => object[c.h] = Dead,
             c.op \in Copies => object[c.from] # Dead,
             c.op \in Assignments \cup {"destroy"} => object[c.h] # Dead,
             c.op \in {"read", "write"} => object[c.h] \in Object
      PROVE  Control'
  <2>1. /\ call[t] = NoCall /\ call' = [call EXCEPT ![t] = c] /\ pc' = [pc EXCEPT ![t] = where]
        /\ UNCHANGED <<object, value, count, default_s, flag_s>>
    BY <1>3 DEF Begin, heap
  <2>2. TypeOK'
    BY <1>3, <2>1 DEF Control, TypeOK
  <2>3. call'[t] = c /\ pc'[t] = where
    BY <2>1 DEF Control, TypeOK
  <2>4. c # NoCall
    OBVIOUS
  <2>5. Placed(t)'
    BY <1>3, <2>1, <2>3, <2>4 DEF Placed
  <2>6. Once'
    BY <1>3, <2>1, <2>3, <2>4 DEF Control, TypeOK, Once
  <2> QED BY <1>3, <2>2, <2>5, <2>6, BeginControl
<1>4. ASSUME DefaultConstruct(t, h) PROVE Control'
  BY <1>2, <1>3, <1>4 DEF DefaultConstruct
<1>5. ASSUME Read(t, h) PROVE Control'
  BY <1>2, <1>3, <1>5 DEF Read
<1>6. ASSUME Destruct(t, h) PROVE Control'
  BY <1>2, <1>3, <1>6 DEF Destruct
<1>7. ASSUME NEW v \in Value, Construct(t, h, v) PROVE Control'
  BY <1>2, <1>3, <1>7 DEF Construct
<1>8. ASSUME NEW v \in Value, Assign(t, h, v) PROVE Control'
  BY <1>2, <1>3, <1>8 DEF Assign
<1>9. ASSUME NEW v \in Value, Write(t, h, v) PROVE Control'
  BY <1>2, <1>3, <1>9 DEF Write
<1>10. ASSUME NEW g \in Handle, NEW op \in {"copy", "move"}, ConstructFrom(t, op, h, g) PROVE Control'
  BY <1>2, <1>3, <1>10 DEF ConstructFrom
<1>11. ASSUME NEW g \in Handle, NEW op \in {"assign_copy", "assign_move"}, AssignFrom(t, op, h, g) PROVE Control'
  BY <1>2, <1>3, <1>11 DEF AssignFrom
<1>12. ASSUME Exit(t, h) PROVE Control'
  <2> DEFINE c == Plain("exit", h) 
             where == Release(default_s, Null)
  <2>1. /\ c \in Calls /\ c.op = "exit" /\ c # NoCall
        /\ where \in [at : AllPlaces, obj : Object \cup {Null}, to : Object \cup {Null, Dead}]
        /\ where.at = "decrement"
    BY <1>2 DEF Control, TypeOK
  <2> HIDE DEF c, where
  <2>2. /\ call[t] = NoCall /\ call' = [call EXCEPT ![t] = c] /\ pc' = [pc EXCEPT ![t] = where]
        /\ UNCHANGED <<object, value, count, default_s, flag_s>> /\ exited' = TRUE /\ flag_s = "done"
    BY <1>12 DEF Exit, Begin, heap, c, where
  <2>3. TypeOK'
    BY <2>1, <2>2 DEF Control, TypeOK
  <2>4. call'[t] = c /\ pc'[t] = where
    BY <2>2 DEF Control, TypeOK
  <2>5. Placed(t)'
    BY <2>1, <2>4 DEF Placed
  <2>6. \A u \in Thread : u # t => call'[u] = call[u] /\ pc'[u] = pc[u]
    BY <2>2 DEF Control, TypeOK
  <2>7. \A u \in Thread : call[u] # NoCall => call[u].op # "default"
    BY <1>12 DEF Exit
  <2>8. Once'
    BY <2>1, <2>2, <2>4, <2>6, <2>7 DEF Control, Once
  <2>9. Begin(t, c, where)
    BY <1>12 DEF Exit, c, where
  <2> QED BY <2>1, <2>3, <2>5, <2>8, <2>9, BeginControl
<1> QED BY <1>1, <1>4, <1>5, <1>6, <1>7, <1>8, <1>9, <1>10, <1>11, <1>12
\* A call that returns, or goes on, with what it changes of its own.
LEMMA StepControl ==
  ASSUME Control, NEW t \in Thread, Step(t)
  PROVE  Control'
<1> USE DEF AllPlaces, Releasing, At, Release
<1>1. Placed(t) /\ TypeOK /\ Once
  BY DEF Control
<1>2. pc[t].at # "idle"
  BY DEF Step, EnterOnce, InitThrows, Copy, Move, Check, Access, AllocateThrows, EndRead, StartRelease,
         Decrement, Destroy, InitDefault, Allocate, Duplicate
<1>3. /\ call[t] # NoCall /\ call[t] \in Calls /\ call[t].h \in Handle /\ call[t].from \in Handle
      /\ call[t].op \in Ops /\ call[t].value \in Value
      /\ pc[t] \in [at : AllPlaces, obj : Object \cup {Null}, to : Object \cup {Null, Dead}]
  BY <1>1, <1>2 DEF Placed, TypeOK, Calls
<1>4. pc[t].at \in Places(call[t].op)
  BY <1>1, <1>3 DEF Placed
<1>5. ASSUME NEW where \in [at : AllPlaces, obj : Object \cup {Null}, to : Object \cup {Null, Dead}], Goes(t, where)
      PROVE  /\ call' = call /\ pc' = [pc EXCEPT ![t] = where] /\ pc'[t] = where
             /\ pc' \in [Thread -> [at : AllPlaces, obj : Object \cup {Null}, to : Object \cup {Null, Dead}]]
             /\ \A u \in Thread : u # t => pc'[u] = pc[u]
  BY <1>1, <1>5 DEF Goes, TypeOK
<1>6. ASSUME Returns(t)
      PROVE  /\ call' = [call EXCEPT ![t] = NoCall] /\ call'[t] = NoCall /\ pc'[t].at = "idle"
             /\ call' \in [Thread -> Calls \cup {NoCall}]
             /\ pc' \in [Thread -> [at : AllPlaces, obj : Object \cup {Null}, to : Object \cup {Null, Dead}]]
             /\ \A u \in Thread : u # t => pc'[u] = pc[u] /\ call'[u] = call[u]
             /\ Placed(t)'
  BY <1>1, <1>6 DEF Returns, Idle, TypeOK, Placed
\* handles and the once_flag left alone
<1>7. ASSUME Returns(t), UNCHANGED <<object, once>>, 
             value' \in [Object -> Value \cup {Free}], count' \in [Object -> Int]
      PROVE  Control'
  <2>1. TypeOK'
    BY <1>1, <1>6, <1>7 DEF TypeOK, once
  <2>2. Once'
    BY <1>1, <1>6, <1>7 DEF Once, once
  <2> QED BY <1>3, <1>6, <1>7, <2>1, <2>2, StepKeeps
<1>8. ASSUME NEW where \in [at : AllPlaces, obj : Object \cup {Null}, to : Object \cup {Null, Dead}],
             Goes(t, where), UNCHANGED <<object, once>>, where.at \notin {"init", "copy"}, Placed(t)',
             value' \in [Object -> Value \cup {Free}], count' \in [Object -> Int]
      PROVE  Control'
  <2>1. TypeOK'
    BY <1>1, <1>5, <1>8 DEF TypeOK, once
  <2>2. Once'
    BY <1>1, <1>5, <1>8 DEF Once, once
  <2> QED BY <1>3, <1>5, <1>8, <2>1, <2>2, StepKeeps
<1>9. CASE EnterOnce(t)
  <2>1. call[t].op = "default" /\ pc[t].at = "once"
    BY <1>3, <1>4, <1>9 DEF EnterOnce, Places, Ops
  <2>2. PICK step \in {"init", "copy"} :
          /\ Goes(t, At(step)) /\ UNCHANGED <<object, heap, default_s, exited>>
          /\ step = "init" => flag_s = "none" /\ flag_s' = "running"
          /\ step = "copy" => flag_s = "done" /\ flag_s' = "done"
    BY <1>9 DEF EnterOnce
  <2>3. TypeOK'
    BY <1>1, <1>5, <2>2 DEF TypeOK, heap
  <2>4. Placed(t)'
    BY <1>1, <1>3, <1>5, <2>1, <2>2 DEF Placed, Places
  <2>5. Once'
    BY <1>1, <1>5, <2>2 DEF Once
  <2> QED BY <1>3, <1>5, <2>2, <2>3, <2>4, <2>5, StepKeeps
<1>10. ASSUME NEW o \in Object, InitDefault(t, o) PROVE Control'
  <2>1. call[t].op = "default" /\ pc[t].at = "init"
    BY <1>3, <1>4, <1>10 DEF InitDefault, Places, Ops
  <2>2. Goes(t, At("copy")) /\ UNCHANGED <<object, exited>> /\ default_s' = o /\ flag_s' = "done"
    BY <1>10 DEF InitDefault
  <2>3. TypeOK'
    BY <1>1, <1>5, <1>10, <2>2 DEF TypeOK, InitDefault, New
  <2>4. Placed(t)'
    BY <1>1, <1>3, <1>5, <2>1, <2>2 DEF Placed, Places
  <2>5. Once'
    BY <1>1, <1>5, <2>1, <2>2 DEF Once
  <2> QED BY <1>3, <1>5, <2>2, <2>3, <2>4, <2>5, StepKeeps
<1>11. CASE InitThrows(t)
  <2>1. Returns(t) /\ UNCHANGED <<object, heap, default_s, exited>> /\ flag_s' = "none" /\ pc[t].at = "init"
    BY <1>11 DEF InitThrows
  <2>2. TypeOK'
    BY <1>1, <1>6, <2>1 DEF TypeOK, heap
  <2>3. Once'
    BY <1>1, <1>6, <2>1 DEF Once
  <2> QED BY <1>3, <1>6, <2>1, <2>2, <2>3, StepKeeps
<1>12. CASE Copy(t)
  <2> DEFINE c == call[t]
             o == IF c.op = "default" THEN default_s ELSE object[c.from]
  <2>1. /\ c.op \in {"default", "copy", "assign_copy"} /\ pc[t].at = (IF c.op = "default" THEN "copy" ELSE c.op)
        /\ Modifies(c) = {c.h}
    BY <1>3, <1>4, <1>12 DEF Copy, Places, Ops, Modifies
  <2>2. o \in Object \cup {Null}
    BY <1>1, <1>3, <2>1 DEF Placed, Copies, TypeOK, Once
  <2>3. /\ object' = [object EXCEPT ![c.h] = o]
        /\ count' = IF o = Null THEN count ELSE [count EXCEPT ![o] = @ + 1]
        /\ UNCHANGED <<value, once>>
        /\ IF c.op = "assign_copy" THEN Goes(t, Release(object[c.h], o)) ELSE Returns(t)
    BY <1>12 DEF Copy
  <2> HIDE DEF o
  <2>4. object' \in [Handle -> Object \cup {Null, Dead}] /\ count' \in [Object -> Int]
    BY <1>1, <1>3, <2>2, <2>3 DEF TypeOK
  <2>5. \A g \in Handle : object'[g] # object[g] => g \in Modifies(c)
    BY <1>1, <2>1, <2>3 DEF TypeOK
  <2>6. CASE c.op = "assign_copy"
    <3>1. object[c.h] \in Object \cup {Null}
      BY <1>1, <1>3, <2>6 DEF Placed, Assignments, TypeOK
    <3>2. TypeOK'
      BY <1>1, <1>5, <2>2, <2>3, <2>4, <2>6, <3>1 DEF TypeOK, once
    <3>3. Once'
      BY <1>1, <1>5, <2>2, <2>3, <2>6, <3>1 DEF Once, once
    <3>4. object'[c.h] = o /\ object'[c.from] # Dead /\ o # Dead
      BY <1>1, <1>3, <2>1, <2>2, <2>3, <2>6 DEF TypeOK, Placed, Copies
    <3>5. Placed(t)'
      BY <1>1, <1>3, <1>5, <2>2, <2>3, <2>6, <3>1, <3>4
         DEF Placed, Places, Constructors, Copies, Assignments
    <3> QED BY <1>3, <1>5, <2>2, <2>3, <2>5, <2>6, <3>1, <3>2, <3>3, <3>5, StepKeeps
  <2>7. CASE c.op # "assign_copy"
    <3>1. TypeOK'
      BY <1>1, <1>6, <2>3, <2>4, <2>7 DEF TypeOK, once
    <3>2. Once'
      BY <1>1, <1>6, <2>3, <2>7 DEF Once, once
    <3> QED BY <1>3, <1>6, <2>3, <2>5, <2>7, <3>1, <3>2, StepKeeps
  <2> QED BY <2>6, <2>7
<1>13. CASE Move(t)
  <2> DEFINE c == call[t]
             o == object[c.from]
             old == IF c.h = c.from THEN Null ELSE object[c.h]
  <2>1. c.op \in {"move", "assign_move"} /\ pc[t].at = c.op
    BY <1>3, <1>4, <1>13 DEF Move, Places, Ops
  <2>2. o \in Object \cup {Null} /\ Modifies(c) = {c.h, c.from}
    BY <1>1, <1>3, <2>1 DEF Placed, Copies, TypeOK, Modifies
  <2>3. /\ object' = [object EXCEPT ![c.from] = Null, ![c.h] = o]
        /\ UNCHANGED <<heap, once>>
        /\ IF c.op = "assign_move" THEN Goes(t, Release(old, o)) ELSE Returns(t)
    BY <1>13, <2>1 DEF Move
  <2> HIDE DEF o, old
  <2>4. object' \in [Handle -> Object \cup {Null, Dead}]
    BY <1>1, <1>3, <2>2, <2>3 DEF TypeOK
  <2>5. \A g \in Handle : object'[g] # object[g] => g \in Modifies(c)
    BY <1>1, <2>2, <2>3 DEF TypeOK
  <2>6. CASE c.op = "assign_move"
    <3>1. old \in Object \cup {Null}
      BY <1>1, <1>3, <2>6 DEF Placed, Assignments, TypeOK, old
    <3>2. TypeOK'
      BY <1>1, <1>5, <2>2, <2>3, <2>4, <2>6, <3>1 DEF TypeOK, once, heap
    <3>3. Once'
      <4>1. call' = call /\ pc'[t].at = "decrement" /\ \A u \in Thread : u # t => pc'[u] = pc[u]
        BY <1>1, <1>5, <2>2, <2>3, <2>6, <3>1
      <4> QED BY <1>1, <2>3, <4>1 DEF Once, once
    <3>4. object'[c.h] = o /\ object'[c.from] # Dead /\ o # Dead
      BY <1>1, <1>3, <2>1, <2>2, <2>3, <2>6 DEF TypeOK
    <3>5. Placed(t)'
      BY <1>1, <1>3, <1>5, <2>2, <2>3, <2>6, <3>1, <3>4
         DEF Placed, Places, Constructors, Copies, Assignments
    <3> QED BY <1>3, <1>5, <2>2, <2>3, <2>5, <2>6, <3>1, <3>2, <3>3, <3>5, StepKeeps
  <2>7. CASE c.op # "assign_move"
    <3>1. TypeOK'
      BY <1>1, <1>6, <2>3, <2>4, <2>7 DEF TypeOK, once, heap
    <3>2. Once'
      BY <1>1, <1>6, <2>3, <2>7 DEF Once, once
    <3> QED BY <1>3, <1>6, <2>3, <2>5, <2>7, <3>1, <3>2, StepKeeps
  <2> QED BY <2>6, <2>7
<1>14. CASE Check(t)
  <2> DEFINE o == object[call[t].h]
  <2>1. call[t].op \in {"assign", "write"} /\ (call[t].op = "write" => o \in Object)
    BY <1>1, <1>3, <1>4, <1>14 DEF Check, Places, Ops, Placed
  <2>2. o \in Object \cup {Null}
    BY <1>1, <1>3, <2>1 DEF Placed, Assignments, TypeOK
  <2>3. PICK step \in {"access", "duplicate", "allocate"} :
          /\ Goes(t, At(step)) /\ UNCHANGED <<object, heap, once>>
          /\ step = "access" => o # Null
          /\ step = "duplicate" => call[t].op = "write"
          /\ step = "allocate" => call[t].op = "assign"
    <3>1. /\ Goes(t, At(CASE o # Null /\ count[o] = 1 -> "access"
                  [] call[t].op = "write" /\ count[o] # 1 -> "duplicate"
                  [] OTHER -> "allocate"))
          /\ UNCHANGED <<object, heap, once>>
      BY <1>14 DEF Check
    <3>2. CASE o # Null /\ count[o] = 1
      BY <3>1, <3>2
    <3>3. CASE ~(o # Null /\ count[o] = 1) /\ call[t].op = "write"
      <4>1. count[o] # 1
        BY <3>3, <2>1
      <4> QED BY <3>1, <3>3, <4>1
    <3>4. CASE ~(o # Null /\ count[o] = 1) /\ call[t].op = "assign"
      BY <3>1, <3>4
    <3> QED BY <3>2, <3>3, <3>4, <2>1
  <2>4. Placed(t)'
    BY <1>1, <1>3, <1>4, <1>5, <2>1, <2>2, <2>3 DEF Placed, Places, Constructors, Copies
  <2> QED BY <1>1, <1>8, <2>3, <2>4 DEF heap, TypeOK
<1>15. CASE Access(t)
  <2>1. object[call[t].h] \in Object /\ Returns(t)
    BY <1>1, <1>15 DEF Access, Placed
  <2>2. value' \in [Object -> Value \cup {Free}]
    BY <1>1, <1>3, <1>15, <2>1 DEF Access, TypeOK
  <2> QED BY <1>1, <1>7, <1>15, <2>1, <2>2 DEF Access, TypeOK
<1>16. CASE AllocateThrows(t)
  BY <1>1, <1>7, <1>16 DEF AllocateThrows, heap, TypeOK
<1>17. CASE EndRead(t)
  BY <1>1, <1>7, <1>17 DEF EndRead, heap, TypeOK
<1>18. CASE StartRelease(t)
  <2> DEFINE o == object[call[t].h]
  <2>1. call[t].op = "destroy"
    BY <1>3, <1>4, <1>18 DEF StartRelease, Places, Ops
  <2>2. o \in Object \cup {Null}
    BY <1>1, <1>3, <2>1 DEF Placed, Assignments, TypeOK
  <2>3. Goes(t, Release(o, Dead)) /\ UNCHANGED <<object, heap, once>>
    BY <1>18 DEF StartRelease
  <2>4. Placed(t)'
    BY <1>1, <1>3, <1>5, <2>1, <2>2, <2>3 DEF Placed, Places, Constructors, Copies, Assignments
  <2> QED BY <1>1, <1>8, <2>2, <2>3, <2>4 DEF heap, TypeOK
<1>23. ASSUME Released(t), pc[t].at \in Releasing, UNCHANGED once,
              value' \in [Object -> Value \cup {Free}], count' \in [Object -> Int]
      PROVE  Control'
  <2> DEFINE c == call[t]
             next == pc[t].to
  <2>1. c.op \in {"exit", "destroy", "assign", "assign_copy", "assign_move", "write"}
    BY <1>3, <1>4, <1>23 DEF Places, Ops
  <2>2. /\ object' = IF c.op = "exit" THEN object ELSE [object EXCEPT ![c.h] = next]
        /\ IF c.op = "write" THEN Goes(t, At("access")) ELSE Returns(t)
    BY <1>23 DEF Released
  <2>3. object' \in [Handle -> Object \cup {Null, Dead}]
    BY <1>1, <1>3, <2>2 DEF TypeOK
  <2>4. \A g \in Handle : object'[g] # object[g] => g \in Modifies(c)
    BY <1>1, <2>1, <2>2 DEF TypeOK, Modifies
  <2>5. CASE c.op = "write"
    <3>1. TypeOK'
      BY <1>1, <1>5, <1>23, <2>2, <2>3, <2>5 DEF TypeOK, once
    <3>2. Once'
      BY <1>1, <1>5, <1>23, <2>2, <2>5 DEF Once, once
    <3>3. object'[c.h] \in Object
      BY <1>1, <1>3, <1>23, <2>2, <2>5 DEF Placed, TypeOK
    <3>4. Placed(t)'
      BY <1>1, <1>3, <1>5, <2>2, <2>5, <3>3 DEF Placed, Places, Constructors, Copies, Assignments
    <3> QED BY <1>3, <1>5, <2>2, <2>4, <2>5, <3>1, <3>2, <3>4, StepKeeps
  <2>6. CASE c.op # "write"
    <3>1. TypeOK'
      BY <1>1, <1>6, <1>23, <2>2, <2>3, <2>6 DEF TypeOK, once
    <3>2. Once'
      BY <1>1, <1>6, <1>23, <2>2, <2>6 DEF Once, once
    <3> QED BY <1>3, <1>6, <2>2, <2>4, <2>6, <3>1, <3>2, StepKeeps
  <2> QED BY <2>5, <2>6
<1>19. CASE Decrement(t)
  <2> DEFINE o == pc[t].obj
  <2>1. /\ pc[t].at = "decrement"
        /\ count' = IF o = Null THEN count ELSE [count EXCEPT ![o] = @ - 1]
        /\ UNCHANGED <<value, once>>
        /\ \/ o # Null /\ Goes(t, [pc[t] EXCEPT !.at = "destroy"]) /\ UNCHANGED object
           \/ Released(t)
    BY <1>19 DEF Decrement
  <2>2. value' \in [Object -> Value \cup {Free}] /\ count' \in [Object -> Int]
    BY <1>1, <1>3, <2>1 DEF TypeOK
  <2>3. CASE o # Null /\ Goes(t, [pc[t] EXCEPT !.at = "destroy"]) /\ UNCHANGED object
    <3> DEFINE where == [pc[t] EXCEPT !.at = "destroy"]
    <3>1. /\ where \in [at : AllPlaces, obj : Object \cup {Null}, to : Object \cup {Null, Dead}]
          /\ where.at = "destroy" /\ where.to = pc[t].to /\ where.obj = o
      BY <1>3
    <3> HIDE DEF where
    <3>2. call' = call /\ pc'[t] = where
      BY <1>5, <2>3, <3>1 DEF where
    <3>3. call[t].op \in {"exit", "destroy", "assign", "assign_copy", "assign_move", "write"}
      BY <1>3, <1>4, <2>1 DEF Places, Ops
    <3>4. Placed(t)'
      BY <1>1, <1>3, <2>1, <2>3, <3>1, <3>2, <3>3 DEF Placed, Places
    <3> QED BY <1>8, <2>1, <2>2, <2>3, <3>1, <3>4 DEF where
  <2> QED BY <1>23, <2>1, <2>2, <2>3
<1>20. CASE Destroy(t)
  <2>1. pc[t].at = "destroy" /\ Released(t) /\ UNCHANGED <<count, once>>
    BY <1>20 DEF Destroy
  <2>2. value' \in [Object -> Value \cup {Free}] /\ count' \in [Object -> Int]
    BY <1>1, <1>3, <1>20 DEF TypeOK, Destroy
  <2> QED BY <1>23, <2>1, <2>2
<1>21. ASSUME NEW o \in Object, Allocate(t, o) PROVE Control'
  <2> DEFINE c == call[t]
  <2>1. c.op \in {"construct", "assign"} /\ Modifies(c) = {c.h} /\ pc[t].at = "allocate"
    BY <1>3, <1>4, <1>21 DEF Allocate, Places, Ops, Modifies
  <2>2. value' \in [Object -> Value \cup {Free}] /\ count' \in [Object -> Int]
    BY <1>1, <1>3, <1>21 DEF Allocate, New, TypeOK
  <2>3. CASE object[c.h] \in Object
    <3>1. Goes(t, Release(object[c.h], o)) /\ UNCHANGED <<object, once>>
      BY <1>21, <2>3 DEF Allocate
    <3>2. c.op = "assign"
      BY <1>1, <1>3, <2>1, <2>3 DEF Placed, Constructors
    <3>3. Placed(t)'
      BY <1>1, <1>3, <1>5, <2>3, <3>1, <3>2 DEF Placed, Places, Constructors, Copies, Assignments
    <3> QED BY <1>8, <2>2, <2>3, <3>1, <3>3
  <2>4. CASE object[c.h] \notin Object
    <3>1. Returns(t) /\ UNCHANGED once /\ object' = [object EXCEPT ![c.h] = o]
      BY <1>21, <2>4 DEF Allocate
    <3>2. TypeOK'
      BY <1>1, <1>3, <1>6, <2>2, <3>1 DEF TypeOK, once
    <3>3. Once'
      BY <1>1, <1>6, <3>1 DEF Once, once
    <3>4. \A g \in Handle : object'[g] # object[g] => g \in Modifies(c)
      BY <1>1, <2>1, <3>1 DEF TypeOK
    <3> QED BY <1>3, <1>6, <3>1, <3>2, <3>3, <3>4, StepKeeps
  <2> QED BY <2>3, <2>4
<1>22. ASSUME NEW o \in Object, Duplicate(t, o) PROVE Control'
  <2> DEFINE c == call[t]
  <2>1. c.op = "write" /\ pc[t].at = "duplicate"
    BY <1>3, <1>4, <1>22 DEF Duplicate, Places, Ops
  <2>2. object[c.h] \in Object
    BY <1>1, <1>3, <2>1 DEF Placed
  <2>3. value' \in [Object -> Value \cup {Free}] /\ count' \in [Object -> Int]
    BY <1>1, <1>22, <2>2 DEF Duplicate, New, TypeOK
  <2>4. Goes(t, Release(object[c.h], o)) /\ UNCHANGED <<object, once>>
    BY <1>22 DEF Duplicate
  <2>5. Placed(t)'
    BY <1>1, <1>3, <1>5, <2>1, <2>2, <2>4 DEF Placed, Places, Constructors, Copies, Assignments
  <2> QED BY <1>8, <2>2, <2>3, <2>4, <2>5
<1> QED BY <1>9, <1>10, <1>11, <1>12, <1>13, <1>14, <1>15, <1>16, <1>17, <1>18, <1>19, <1>20, <1>21, <1>22 DEF Step
LEMMA ControlStep == Control /\ [Next]_vars => Control'
<1>1. ASSUME Control, Next PROVE Control'
  BY <1>1, ClientControl, StepControl DEF Next
<1>2. ASSUME Control, UNCHANGED vars PROVE Control'
  BY <1>2 DEF Control, TypeOK, Placed, Exclusive, Once, vars, heap, once
<1> QED BY <1>1, <1>2

-----------------------------------------------------------------------------
(* What the handles stand for. *)
Standing ==
  \A h \in Handle :
    /\ \A t \in Thread : Replaces(t, h) => Current(h) = pc[t].to
    /\ (\A t \in Thread : ~Replaces(t, h)) => Current(h) = object[h]

LEMMA CurrentIs == Control => Standing
<1> SUFFICES ASSUME Control, NEW h \in Handle
             PROVE  /\ \A t \in Thread : Replaces(t, h) => Current(h) = pc[t].to
                    /\ (\A t \in Thread : ~Replaces(t, h)) => Current(h) = object[h]
  BY DEF Standing
<1>1. Replacing(h) = {t \in Thread : Replaces(t, h)}
  BY DEF Replacing, Replaces, Releasing
<1>2. ASSUME NEW t \in Thread, Replaces(t, h) PROVE Current(h) = pc[t].to
  <2>1. \A u \in Thread : Replaces(u, h) => h \in Modifies(call[u]) /\ h \in Uses(call[u]) /\ call[u] # NoCall
    <3> SUFFICES ASSUME NEW u \in Thread, Replaces(u, h)
                 PROVE  h \in Modifies(call[u]) /\ h \in Uses(call[u]) /\ call[u] # NoCall
      OBVIOUS
    <3>1. call[u] # NoCall /\ call[u] \in Calls /\ pc[u].at \in Places(call[u].op)
      BY DEF Control, TypeOK, Placed, Replaces, Releasing
    <3> QED BY <3>1 DEF Replaces, Releasing, Places, Modifies, Uses, Calls, Ops
  <2>2. \A u \in Thread : Replaces(u, h) => u = t
    BY <1>2, <2>1 DEF Control, Exclusive
  <2>3. Replacing(h) = {t}
    BY <1>1, <1>2, <2>2
  <2> QED BY <2>3 DEF Current
<1>3. ASSUME \A t \in Thread : ~Replaces(t, h) PROVE Current(h) = object[h]
  <2>1. Replacing(h) = {}
    BY <1>1, <1>3
  <2> QED BY <2>1 DEF Current
<1> QED BY <1>2, <1>3

LEMMA CurrentIsNext == Control' => Standing'
BY CurrentIs, PTL

\* In the state before a step of t, the handles t uses but does not replace have their objects.
LEMMA UsesObject ==
  ASSUME Control, NEW t \in Thread, call[t] # NoCall, NEW h \in Uses(call[t]), ~Replaces(t, h)
  PROVE  \A u \in Thread : ~Replaces(u, h)
<1> SUFFICES ASSUME NEW u \in Thread, u # t, Replaces(u, h) PROVE FALSE
  OBVIOUS
<1>1. call[u] # NoCall /\ call[u] \in Calls /\ pc[u].at \in Places(call[u].op)
  BY DEF Control, TypeOK, Placed, Replaces, Releasing
<1>2. h \in Modifies(call[u])
  BY <1>1 DEF Replaces, Releasing, Places, Modifies, Calls, Ops
<1> QED BY <1>1, <1>2 DEF Control, Exclusive

\* What a step of t changes no other thread sees.
Alone(t) == \A u \in Thread : u # t => call'[u] = call[u] /\ pc'[u] = pc[u]

LEMMA StandsKept ==
  ASSUME Control, Control', NEW t \in Thread, Alone(t), NEW h \in Handle, object'[h] = object[h],
         ~Replaces(t, h), ~Replaces(t, h)'
  PROVE  Stands'[h] = Stands[h]
<1>1. CASE \E u \in Thread : Replaces(u, h)
  <2>1. PICK u \in Thread : Replaces(u, h)
    BY <1>1
  <2>2. u # t /\ Replaces(u, h)' /\ pc'[u].to = pc[u].to
    BY <2>1 DEF Alone, Replaces
  <2> QED BY <2>1, <2>2, CurrentIs, CurrentIsNext DEF Standing, Stands
<1>2. CASE \A u \in Thread : ~Replaces(u, h)
  <2>1. \A u \in Thread : ~Replaces(u, h)'
    BY <1>2 DEF Alone, Replaces
  <2> QED BY <1>2, <2>1, CurrentIs, CurrentIsNext DEF Standing, Stands
<1> QED BY <1>1, <1>2

\* What the handles stand for that a step of t uses, before and after it.
LEMMA StandsBefore ==
  ASSUME Control, NEW t \in Thread, call[t] # NoCall, NEW h \in Handle, h \in Uses(call[t])
  PROVE  Stands[h] = IF Replaces(t, h) THEN pc[t].to ELSE object[h]
<1>1. CASE Replaces(t, h)
  BY <1>1, CurrentIs DEF Standing, Stands
<1>2. CASE ~Replaces(t, h)
  BY <1>2, UsesObject, CurrentIs DEF Standing, Stands
<1> QED BY <1>1, <1>2

LEMMA StandsAfter ==
  ASSUME Control, Control', NEW t \in Thread, call[t] # NoCall, Alone(t), NEW h \in Handle,
         h \in Modifies(call[t]), h \in Uses(call[t])
  PROVE  Stands'[h] = IF Replaces(t, h)' THEN pc'[t].to ELSE object'[h]
<1>1. CASE Replaces(t, h)'
  BY <1>1, CurrentIsNext DEF Standing, Stands
<1>2. CASE ~Replaces(t, h)'
  <2>1. ASSUME NEW u \in Thread, u # t PROVE ~Replaces(u, h)
    <3> SUFFICES ASSUME Replaces(u, h) PROVE FALSE
      OBVIOUS
    <3>1. call[u] # NoCall /\ call[u] \in Calls
      BY DEF Control, TypeOK, Placed, Replaces, Releasing
    <3> QED BY <2>1, <3>1 DEF Control, Exclusive, Replaces, Uses
  <2>2. \A u \in Thread : ~Replaces(u, h)'
    BY <1>2, <2>1 DEF Alone, Replaces
  <2> QED BY <2>2, CurrentIsNext DEF Standing, Stands
<1> QED BY <1>1, <1>2

-----------------------------------------------------------------------------
(* Counting. *)
Is(x, o) == IF x = o THEN 1 ELSE 0
Holders(D, f, o) == Cardinality({d \in D : f[d] = o})

LEMMA HoldersNat ==
  ASSUME NEW D, IsFiniteSet(D), NEW f, NEW o
  PROVE  /\ Holders(D, f, o) \in Nat
         /\ \A x \in D : f[x] = o => Holders(D, f, o) >= 1
         /\ \A x, y \in D : x # y /\ f[x] = o /\ f[y] = o => Holders(D, f, o) >= 2
<1> DEFINE S == {d \in D : f[d] = o}
<1>1. IsFiniteSet(S) /\ Cardinality(S) \in Nat
  BY FS_Subset, FS_CardinalityType
<1>2. ASSUME NEW x \in D, f[x] = o PROVE Cardinality(S) >= 1
  <2>1. IsFiniteSet({x}) /\ Cardinality({x}) = 1
    BY FS_Singleton
  <2> QED BY <1>1, <1>2, <2>1, FS_Subset
<1>3. ASSUME NEW x \in D, NEW y \in D, x # y, f[x] = o, f[y] = o PROVE Cardinality(S) >= 2
  <2>1. IsFiniteSet({x}) /\ Cardinality({x}) = 1
    BY FS_Singleton
  <2>2. IsFiniteSet({x} \cup {y}) /\ Cardinality({x} \cup {y}) = 2
    <3> DEFINE X == {x}
    <3>1. y \notin X /\ IsFiniteSet(X) /\ Cardinality(X) = 1
      BY <1>3, <2>1
    <3> HIDE DEF X
    <3>2. IsFiniteSet(X \cup {y}) /\ Cardinality(X \cup {y}) = 2
      BY <3>1, FS_AddElement
    <3> QED BY <3>2 DEF X
  <2>3. {x} \cup {y} \subseteq S
    BY <1>3
  <2> QED BY <1>1, <2>2, <2>3, FS_Subset
<1> QED BY <1>1, <1>2, <1>3 DEF Holders

LEMMA OneChanges ==
  ASSUME NEW D, IsFiniteSet(D), NEW f, NEW g, NEW x \in D, \A d \in D : d # x => g[d] = f[d], NEW o
  PROVE  Holders(D, g, o) = Holders(D, f, o) + Is(g[x], o) - Is(f[x], o)
<1> DEFINE F == {d \in D : f[d] = o}
           G == {d \in D : g[d] = o}
           R == {d \in D : d # x /\ f[d] = o}
<1>1. IsFiniteSet(R) /\ Cardinality(R) \in Nat /\ x \notin R
  BY FS_Subset, FS_CardinalityType
<1>2. Cardinality(R \cup {x}) = Cardinality(R) + 1
  BY <1>1, FS_AddElement
<1>3. F = IF f[x] = o THEN R \cup {x} ELSE R
  OBVIOUS
<1>4. G = IF g[x] = o THEN R \cup {x} ELSE R
  OBVIOUS
<1>5. Cardinality(F) = Cardinality(R) + Is(f[x], o)
  BY <1>1, <1>2, <1>3 DEF Is
<1>6. Cardinality(G) = Cardinality(R) + Is(g[x], o)
  BY <1>1, <1>2, <1>4 DEF Is
<1> HIDE DEF F, G, R
<1>7. Is(f[x], o) \in Int /\ Is(g[x], o) \in Int
  BY DEF Is
<1>8. Holders(D, f, o) = Cardinality(F) /\ Holders(D, g, o) = Cardinality(G)
  BY DEF F, G, Holders
<1> QED BY <1>1, <1>5, <1>6, <1>7, <1>8

LEMMA ReferencesAre ==
  \A o \in Object : References(o) = Holders(Handle, Stands, o) + Holders(Thread, Drops, o) + Is(Kept, o)
<1> SUFFICES ASSUME NEW o \in Object
             PROVE  References(o) = Holders(Handle, Stands, o) + Holders(Thread, Drops, o) + Is(Kept, o)
  OBVIOUS
<1>1. {h \in Handle : Current(h) = o} = {h \in Handle : Stands[h] = o}
  BY DEF Stands
<1>2. {t \in Thread : pc[t].at = "decrement" /\ pc[t].obj = o} = {t \in Thread : Drops[t] = o}
  BY DEF Drops
<1>3. (IF default_s = o /\ ~exited THEN 1 ELSE 0) = Is(Kept, o)
  BY DEF Is, Kept
<1> QED BY <1>1, <1>2, <1>3 DEF References, Holders

LEMMA ReferencesAreNext ==
  \A o \in Object : References(o)' = Holders(Handle, Stands', o) + Holders(Thread, Drops', o) + Is(Kept', o)
<1> SUFFICES ASSUME NEW o \in Object
             PROVE  References(o)' = Holders(Handle, Stands', o) + Holders(Thread, Drops', o) + Is(Kept', o)
  OBVIOUS
<1>1. {h \in Handle : Current(h)' = o} = {h \in Handle : Stands'[h] = o}
  BY DEF Stands
<1>2. {t \in Thread : pc'[t].at = "decrement" /\ pc'[t].obj = o} = {t \in Thread : Drops'[t] = o}
  BY DEF Drops
<1>3. (IF default_s' = o /\ ~exited' THEN 1 ELSE 0) = Is(Kept', o)
  BY DEF Is, Kept
<1> QED BY <1>1, <1>2, <1>3 DEF References, Holders
\* What a count tells of the references, and a reference of the count.
LEMMA Counted ==
  ASSUME IInv, NEW o \in Object
  PROVE  /\ count[o] \in Nat
         /\ \A h \in Handle : Stands[h] = o => count[o] >= 1
         /\ \A t \in Thread : Drops[t] = o => count[o] >= 1
         /\ Kept = o => count[o] >= 1
         /\ \A h \in Handle : Stands[h] = o /\ count[o] = 1 =>
              /\ \A g \in Handle : g # h => Stands[g] # o
              /\ \A t \in Thread : Drops[t] # o
              /\ Kept # o
<1>1. count[o] = Holders(Handle, Stands, o) + Holders(Thread, Drops, o) + Is(Kept, o)
  BY ReferencesAre DEF IInv, Counting, CountsReferences
<1>2. IsFiniteSet(Handle) /\ IsFiniteSet(Thread)
  OBVIOUS
<1>3. /\ Holders(Handle, Stands, o) \in Nat
      /\ \A h \in Handle : Stands[h] = o => Holders(Handle, Stands, o) >= 1
      /\ \A h, g \in Handle : h # g /\ Stands[h] = o /\ Stands[g] = o => Holders(Handle, Stands, o) >= 2
  BY <1>2, HoldersNat
<1>4. /\ Holders(Thread, Drops, o) \in Nat
      /\ \A t \in Thread : Drops[t] = o => Holders(Thread, Drops, o) >= 1
  BY <1>2, HoldersNat
<1>5. Is(Kept, o) \in {0, 1} /\ (Kept = o => Is(Kept, o) = 1)
  BY DEF Is
<1> QED BY <1>1, <1>3, <1>4, <1>5

LEMMA FreeIsUnused ==
  ASSUME IInv, NEW o \in Object, value[o] = Free
  PROVE  /\ count[o] = 0
         /\ \A h \in Handle : Stands[h] # o
         /\ \A t \in Thread : Drops[t] # o
         /\ Kept # o
         /\ \A t \in Thread : ~(pc[t].at = "destroy" /\ pc[t].obj = o)
<1>1. ~(count[o] > 0) /\ \A t \in Thread : ~(pc[t].at = "destroy" /\ pc[t].obj = o)
  BY DEF IInv, Counting, CountsReferences
<1>2. count[o] \in Nat
  BY Counted
<1>3. count[o] = 0
  BY <1>1, <1>2
<1> QED BY <1>1, <1>3, Counted

\* A thread that owns a handle uses it.
LEMMA OwnsUses ==
  ASSUME Control, NEW t \in Thread, Owns(t)
  PROVE  /\ call[t] # NoCall /\ call[t] \in Calls /\ call[t].h \in Handle
         /\ call[t].h \in Modifies(call[t]) /\ call[t].h \in Uses(call[t])
         /\ Stands[call[t].h] = (IF Replaces(t, call[t].h) THEN pc[t].to ELSE object[call[t].h])
         /\ Stands[call[t].h] \in Object
<1>1. call[t] # NoCall /\ call[t] \in Calls /\ pc[t].at \in Places(call[t].op)
  BY DEF Control, TypeOK, Placed, Owns, Releasing
<1>2. call[t].op \in {"assign", "write"}
  BY <1>1 DEF Owns, Places, Releasing, Calls, Ops
<1>3. call[t].h \in Handle /\ call[t].h \in Modifies(call[t]) /\ call[t].h \in Uses(call[t])
  BY <1>1, <1>2 DEF Calls, Modifies, Uses
<1>4. Stands[call[t].h] = (IF Replaces(t, call[t].h) THEN pc[t].to ELSE object[call[t].h])
  BY <1>1, <1>3, StandsBefore
<1> QED BY <1>1, <1>2, <1>3, <1>4 DEF Owns, Replaces, Control, Placed, Releasing

\* A count that a step of t may change without another thread's noticing: of memory
\* that is free, or of an object t has a reference to.
Own(t, o) ==
  \/ value[o] = Free
  \/ \E h \in Uses(call[t]) : h \in Handle /\ Stands[h] = o
  \/ Drops[t] = o
  \/ Kept = o

LEMMA OthersHeld ==
  ASSUME IInv, Control', NEW t \in Thread, Alone(t), call[t] # NoCall,
         call' \in {call, [call EXCEPT ![t] = NoCall]},
         \A h \in Handle : object'[h] # object[h] => h \in Modifies(call[t]),
         \A o \in Object : count'[o] = count[o] \/ Own(t, o),
         NEW u \in Thread, u # t
  PROVE  /\ (Owns(u) => count[Stands[call[u].h]] = 1)'
         /\ (pc[u].at = "destroy" => count[pc[u].obj] = 0)'
<1>1. Control /\ call'[u] = call[u] /\ pc'[u] = pc[u]
  BY DEF IInv, Alone
<1>2. ASSUME Owns(u)' PROVE (count[Stands[call[u].h]] = 1)'
  <2> DEFINE h == call[u].h
             o == Stands[h]
  <2>1. Owns(u)
    BY <1>1, <1>2 DEF Owns
  <2>2. call[u] # NoCall /\ h \in Handle /\ h \in Modifies(call[u]) /\ h \in Uses(call[u]) /\ o \in Object
    BY <1>1, <2>1, OwnsUses
  <2>3. h \notin Uses(call[t]) /\ h \notin Modifies(call[t])
    BY <1>1, <2>2 DEF Control, Exclusive
  <2>4. ~Replaces(t, h) /\ ~Replaces(t, h)'
    <3>1. h # call[t].h
      BY <2>3 DEF Uses
    <3>2. call'[t] = NoCall => ~(pc'[t].at \in Releasing)
      BY DEF Control, Placed, Releasing
    <3> QED BY <1>1, <3>1, <3>2 DEF Replaces, Control, TypeOK
  <2>5. Stands'[h] = o
    BY <1>1, <2>2, <2>3, <2>4, StandsKept
  <2>6. count[o] = 1
    BY <2>1 DEF IInv, Counting, Held
  <2>7. ~Own(t, o)
    <3>1. \A g \in Handle : g # h => Stands[g] # o
      BY <2>2, <2>6, Counted
    <3>2. Drops[t] # o /\ Kept # o
      BY <2>2, <2>6, Counted
    <3>3. value[o] # Free
      BY <2>2, <2>6, FreeIsUnused
    <3> QED BY <2>3, <3>1, <3>2, <3>3 DEF Own
  <2> QED BY <1>1, <2>2, <2>5, <2>6, <2>7
<1>3. ASSUME pc'[u].at = "destroy" PROVE count'[pc'[u].obj] = 0
  <2> DEFINE o == pc[u].obj
  <2>1. o \in Object /\ pc[u].at = "destroy"
    BY <1>1, <1>3 DEF Control, Placed
  <2>2. count[o] = 0
    BY <2>1 DEF IInv, Counting, Held
  <2>3. ~Own(t, o)
    <3>1. /\ \A g \in Handle : Stands[g] # o
          /\ Drops[t] # o /\ Kept # o
      BY <2>1, <2>2, Counted
    <3>2. value[o] # Free
      BY <2>1, FreeIsUnused
    <3> QED BY <3>1, <3>2 DEF Own
  <2> QED BY <1>1, <2>1, <2>2, <2>3
<1> QED BY <1>2, <1>3

\* How the references to an object change when two handles, one release and the
\* default instance do.
LEMMA ReferencesChange ==
  ASSUME NEW h \in Handle, NEW g \in Handle, NEW t \in Thread,
         \A x \in Handle : x \notin {h, g} => Stands'[x] = Stands[x],
         \A u \in Thread : u # t => Drops'[u] = Drops[u],
         NEW o \in Object
  PROVE  References(o)' = References(o)
           + (Is(Stands'[h], o) - Is(Stands[h], o))
           + (IF g = h THEN 0 ELSE Is(Stands'[g], o) - Is(Stands[g], o))
           + (Is(Drops'[t], o) - Is(Drops[t], o))
           + (Is(Kept', o) - Is(Kept, o))
<1> DEFINE M == [Stands EXCEPT ![h] = Stands'[h]]
           N == Stands'
           E == Drops'
<1>1. /\ M[h] = N[h] /\ (g # h => M[g] = Stands[g])
      /\ \A x \in Handle : x # h => M[x] = Stands[x]
      /\ \A x \in Handle : x # g => N[x] = M[x]
      /\ \A u \in Thread : u # t => E[u] = Drops[u]
  BY DEF Stands
<1> HIDE DEF M, N, E
<1>2. IsFiniteSet(Handle) /\ IsFiniteSet(Thread)
  OBVIOUS
<1>3. Holders(Handle, M, o) = Holders(Handle, Stands, o) + Is(M[h], o) - Is(Stands[h], o)
  <2>1. \A x \in Handle : x # h => M[x] = Stands[x]
    BY <1>1
  <2> QED BY <1>2, <2>1, OneChanges
<1>4. Holders(Handle, N, o) = Holders(Handle, M, o) + Is(N[g], o) - Is(M[g], o)
  <2>1. \A x \in Handle : x # g => N[x] = M[x]
    BY <1>1
  <2> QED BY <1>2, <2>1, OneChanges
<1>5. Holders(Thread, E, o) = Holders(Thread, Drops, o) + Is(E[t], o) - Is(Drops[t], o)
  BY <1>1, <1>2, OneChanges
<1>6. /\ Holders(Handle, Stands, o) \in Nat /\ Holders(Handle, M, o) \in Nat /\ Holders(Thread, Drops, o) \in Nat
  BY <1>2, HoldersNat
<1>7. \A x : Is(x, o) \in Int
  BY DEF Is
<1>8. /\ References(o) = Holders(Handle, Stands, o) + Holders(Thread, Drops, o) + Is(Kept, o)
      /\ References(o)' = Holders(Handle, Stands', o) + Holders(Thread, Drops', o) + Is(Kept', o)
  BY ReferencesAre, ReferencesAreNext
<1> QED BY <1>1, <1>3, <1>4, <1>5, <1>6, <1>7, <1>8 DEF N, E
-----------------------------------------------------------------------------
(* Each step keeps the counting. *)
LEMMA StepLocal ==
  ASSUME Control, NEW t \in Thread, Step(t)
  PROVE  /\ call[t] # NoCall /\ call[t] \in Calls /\ call[t].h \in Handle /\ call[t].from \in Handle
         /\ pc[t].at \in Places(call[t].op)
         /\ Alone(t) /\ call' \in {call, [call EXCEPT ![t] = NoCall]}
         /\ \A h \in Handle : object'[h] # object[h] => h \in Modifies(call[t])
<1>1. Placed(t) /\ TypeOK
  BY DEF Control
<1>2. pc[t].at # "idle"
  BY DEF Step, EnterOnce, InitThrows, Copy, Move, Check, Access, AllocateThrows, EndRead, StartRelease,
         Decrement, Destroy, InitDefault, Allocate, Duplicate, Releasing
<1>3. /\ call[t] # NoCall /\ call[t] \in Calls /\ call[t].h \in Handle /\ call[t].from \in Handle
      /\ pc[t].at \in Places(call[t].op) /\ call[t].op \in Ops
  BY <1>1, <1>2 DEF Placed, TypeOK, Calls
<1>4. \A where : Goes(t, where) => Alone(t) /\ call' = call
  BY <1>1 DEF Goes, Alone, TypeOK
<1>5. Returns(t) => Alone(t) /\ call' = [call EXCEPT ![t] = NoCall]
  BY <1>1 DEF Returns, Alone, TypeOK
<1>6. UNCHANGED object \/ (\E x : object' = [object EXCEPT ![call[t].h] = x]) 
        => \A h \in Handle : object'[h] # object[h] => h = call[t].h
  BY <1>1 DEF TypeOK
<1>7. ASSUME Released(t), pc[t].at \in Releasing
      PROVE  /\ Alone(t) /\ call' \in {call, [call EXCEPT ![t] = NoCall]}
             /\ \A h \in Handle : object'[h] # object[h] => h \in Modifies(call[t])
  <2>1. Alone(t) /\ call' \in {call, [call EXCEPT ![t] = NoCall]}
    BY <1>4, <1>5, <1>7 DEF Released
  <2>2. \A h \in Handle : object'[h] # object[h] => h = call[t].h /\ call[t].op # "exit"
    BY <1>1, <1>7 DEF Released, TypeOK
  <2>3. call[t].op # "exit" => call[t].h \in Modifies(call[t])
    BY <1>3, <1>7 DEF Releasing, Places, Ops, Modifies
  <2> QED BY <2>1, <2>2, <2>3
<1>8. CASE EnterOnce(t) \/ InitThrows(t) \/ Check(t) \/ Access(t) \/ AllocateThrows(t) \/ EndRead(t) 
           \/ StartRelease(t) \/ (\E o \in Object : InitDefault(t, o) \/ Duplicate(t, o))
  BY <1>3, <1>4, <1>5, <1>8 DEF EnterOnce, InitThrows, Check, Access, AllocateThrows, EndRead,
         StartRelease, InitDefault, Duplicate
<1>9. CASE Copy(t)
  <2>1. Alone(t) /\ call' \in {call, [call EXCEPT ![t] = NoCall]}
    BY <1>4, <1>5, <1>9 DEF Copy
  <2>2. \A h \in Handle : object'[h] # object[h] => h = call[t].h
    BY <1>6, <1>9 DEF Copy
  <2>3. call[t].h \in Modifies(call[t])
    BY <1>3, <1>9 DEF Copy, Places, Ops, Modifies, Releasing
  <2> QED BY <1>3, <2>1, <2>2, <2>3
<1>10. CASE Move(t)
  <2>1. Alone(t) /\ call' \in {call, [call EXCEPT ![t] = NoCall]}
    BY <1>4, <1>5, <1>10 DEF Move
  <2>2. \A h \in Handle : object'[h] # object[h] => h \in {call[t].h, call[t].from}
    BY <1>1, <1>10 DEF Move, TypeOK
  <2>3. Modifies(call[t]) = {call[t].h, call[t].from}
    BY <1>3, <1>10 DEF Move, Places, Ops, Modifies, Releasing
  <2> QED BY <1>3, <2>1, <2>2, <2>3
<1>11. ASSUME NEW o \in Object, Allocate(t, o)
       PROVE  /\ Alone(t) /\ call' \in {call, [call EXCEPT ![t] = NoCall]}
              /\ \A h \in Handle : object'[h] # object[h] => h \in Modifies(call[t])
  <2>1. Alone(t) /\ call' \in {call, [call EXCEPT ![t] = NoCall]}
    BY <1>4, <1>5, <1>11 DEF Allocate
  <2>2. \A h \in Handle : object'[h] # object[h] => h = call[t].h
    BY <1>1, <1>11 DEF Allocate, TypeOK
  <2>3. call[t].h \in Modifies(call[t])
    BY <1>3, <1>11 DEF Allocate, Places, Ops, Modifies, Releasing
  <2> QED BY <2>1, <2>2, <2>3
<1>12. CASE Decrement(t) \/ Destroy(t)
  <2>1. Released(t) \/ (Goes(t, [pc[t] EXCEPT !.at = "destroy"]) /\ UNCHANGED object)
    BY <1>12 DEF Decrement, Destroy
  <2> QED BY <1>3, <1>4, <1>7, <1>12, <2>1 DEF Decrement, Destroy, Releasing
<1> QED BY <1>3, <1>8, <1>9, <1>10, <1>11, <1>12 DEF Step

LEMMA StepKeepsCounting ==
  ASSUME IInv, Control', NEW t \in Thread, Step(t),
         \A o \in Object : count'[o] = References(o)',
         \A o \in Object : count'[o] = count[o] \/ Own(t, o),
         \A o \in Object : (value[o] # Free <=> \/ count[o] > 0
                              \/ \E u \in Thread : pc[u].at = "destroy" /\ pc[u].obj = o)',
         Owns(t)' => (count[Stands[call[t].h]] = 1)',
         pc'[t].at = "destroy" =>
           /\ count'[pc'[t].obj] = 0
           /\ \A u \in Thread : u # t => ~(pc[u].at = "destroy" /\ pc[u].obj = pc'[t].obj),
         DefaultKept'
  PROVE  Counting'
<1>1. CountsReferences'
  BY DEF CountsReferences
<1>2. Control
  BY DEF IInv
<1>3. /\ call[t] # NoCall /\ Alone(t) /\ call' \in {call, [call EXCEPT ![t] = NoCall]}
      /\ \A h \in Handle : object'[h] # object[h] => h \in Modifies(call[t])
  BY <1>2, StepLocal
<1>4. \A u \in Thread : /\ (Owns(u) => count[Stands[call[u].h]] = 1)'
                        /\ (pc[u].at = "destroy" => count[pc[u].obj] = 0)'
  <2> TAKE u \in Thread
  <2>1. CASE u = t
    BY <2>1
  <2>2. CASE u # t
    BY <1>3, <2>2, OthersHeld
  <2> QED BY <2>1, <2>2
<1>5. \A u, v \in Thread : (pc[u].at = "destroy" /\ pc[v].at = "destroy" /\ pc[u].obj = pc[v].obj)' => u = v
  BY <1>3 DEF Alone, IInv, Counting, Held
<1>6. Held'
  BY <1>4, <1>5 DEF Held
<1> QED BY <1>1, <1>6 DEF Counting

\* A step that begins or ends no release, and leaves handles and counts alone.
LEMMA QuietReferences ==
  ASSUME Control, Control', NEW t \in Thread, Alone(t), UNCHANGED object, Kept' = Kept,
         pc[t].at \notin Releasing, pc'[t].at \notin Releasing
  PROVE  /\ \A h \in Handle : Stands'[h] = Stands[h]
         /\ \A o \in Object : References(o)' = References(o)
<1>1. \A h \in Handle : Stands'[h] = Stands[h]
  BY StandsKept DEF Replaces
<1>2. \A u \in Thread : Drops'[u] = Drops[u]
  BY DEF Alone, Drops, Releasing
<1>3. Stands' = Stands /\ Drops' = Drops
  BY <1>1, <1>2 DEF Stands, Drops
<1> QED BY <1>1, <1>3, ReferencesAre, ReferencesAreNext
\* The references after a step of t, by what its two handles stand for.
LEMMA StepReferences ==
  ASSUME IInv, Control', NEW t \in Thread, Step(t)
  PROVE  /\ \A x \in Handle : x # call[t].h /\ object'[x] = object[x] => Stands'[x] = Stands[x]
         /\ \A o \in Object : References(o)' = count[o]
              + (Is(Stands'[call[t].h], o) - Is(Stands[call[t].h], o))
              + (IF call[t].from = call[t].h THEN 0
                 ELSE Is(Stands'[call[t].from], o) - Is(Stands[call[t].from], o))
              + (Is(Drops'[t], o) - Is(Drops[t], o))
              + (Is(Kept', o) - Is(Kept, o))
<1>1. Control
  BY DEF IInv
<1>2. /\ call[t] # NoCall /\ call[t] \in Calls /\ call[t].h \in Handle /\ call[t].from \in Handle
      /\ Alone(t) /\ call' \in {call, [call EXCEPT ![t] = NoCall]}
      /\ \A h \in Handle : object'[h] # object[h] => h \in Modifies(call[t])
  BY <1>1, StepLocal
<1>3. \A x \in Handle : x # call[t].h => ~Replaces(t, x) /\ ~Replaces(t, x)'
  <2>1. call'[t] = NoCall => pc'[t].at \notin Releasing
    BY DEF Control, Placed, Releasing
  <2> QED BY <1>1, <1>2, <2>1 DEF Replaces, Control, TypeOK
<1>4. \A x \in Handle : x # call[t].h /\ object'[x] = object[x] => Stands'[x] = Stands[x]
  BY <1>1, <1>2, <1>3, StandsKept
<1>5. Modifies(call[t]) \subseteq {call[t].h, call[t].from}
  BY DEF Modifies
<1>6. \A x \in Handle : x \notin {call[t].h, call[t].from} => Stands'[x] = Stands[x]
  BY <1>2, <1>4, <1>5
<1>7. \A u \in Thread : u # t => Drops'[u] = Drops[u]
  BY <1>2 DEF Alone, Drops
<1>8. \A o \in Object : count[o] = References(o)
  BY DEF IInv, Counting, CountsReferences
<1> QED BY <1>2, <1>4, <1>6, <1>7, <1>8, ReferencesChange

LEMMA QuietCounting ==
  ASSUME IInv, Control', NEW t \in Thread,
         EnterOnce(t) \/ InitThrows(t) \/ Check(t) \/ Access(t) \/ AllocateThrows(t) \/ EndRead(t)
  PROVE  Counting' /\ Stands' = Stands
<1>1. Control /\ Placed(t) /\ TypeOK /\ Step(t)
  BY DEF IInv, Control, Step
<1>2. /\ call[t] # NoCall /\ call[t] \in Calls /\ call[t].h \in Handle
      /\ pc[t].at \in Places(call[t].op) /\ Alone(t)
  BY <1>1, StepLocal
<1>3. PICK step \in AllPlaces \ Releasing : pc'[t].at = step
  <2>1. pc[t] \in [at : AllPlaces, obj : Object \cup {Null}, to : Object \cup {Null, Dead}]
    BY <1>1 DEF TypeOK
  <2> QED BY <1>1, <2>1 DEF EnterOnce, InitThrows, Check, Access, AllocateThrows, EndRead, Goes, Returns, At, Idle,
                            TypeOK, AllPlaces, Releasing
<1>4. pc[t].at \notin Releasing /\ pc'[t].at \notin Releasing
  BY <1>3 DEF EnterOnce, InitThrows, Check, Access, AllocateThrows, EndRead, Releasing
<1>5. UNCHANGED <<object, count, default_s, exited>> /\ Kept' = Kept
  BY DEF EnterOnce, InitThrows, Check, Access, AllocateThrows, EndRead, heap, once, Kept
<1>6. /\ \A h \in Handle : Stands'[h] = Stands[h]
      /\ \A o \in Object : count'[o] = References(o)'
  BY <1>1, <1>2, <1>4, <1>5, QuietReferences DEF IInv, Counting, CountsReferences
<1>7. ASSUME NEW o \in Object
      PROVE  (value[o] # Free <=> \/ count[o] > 0
                                  \/ \E u \in Thread : pc[u].at = "destroy" /\ pc[u].obj = o)'
  <2>1. (\E u \in Thread : pc[u].at = "destroy" /\ pc[u].obj = o)'
          <=> \E u \in Thread : pc[u].at = "destroy" /\ pc[u].obj = o
    BY <1>2, <1>4 DEF Alone, Releasing
  <2>2. value'[o] # Free <=> value[o] # Free
    <3>1. CASE UNCHANGED value
      BY <3>1
    <3>2. CASE Access(t)
      <4> DEFINE p == object[call[t].h]
      <4>1. p \in Object /\ call[t].value \in Value /\ value' = [value EXCEPT ![p] = call[t].value]
        BY <1>1, <1>2, <3>2 DEF Access, Placed, Calls
      <4>2. Stands[call[t].h] = p
        BY <1>1, <1>2, <1>4, StandsBefore DEF Replaces, Uses
      <4>3. value[p] # Free
        BY <1>2, <4>1, <4>2, FreeIsUnused
      <4> QED BY <1>1, <4>1, <4>3 DEF TypeOK
    <3> QED BY <3>1, <3>2 DEF EnterOnce, InitThrows, Check, AllocateThrows, EndRead, heap
  <2>3. value[o] # Free <=> count[o] > 0 \/ \E u \in Thread : pc[u].at = "destroy" /\ pc[u].obj = o
    BY DEF IInv, Counting, CountsReferences
  <2> QED BY <1>5, <2>1, <2>2, <2>3
<1>8. Owns(t)' => (count[Stands[call[t].h]] = 1)'
  <2> SUFFICES ASSUME Owns(t)' PROVE (count[Stands[call[t].h]] = 1)'
    OBVIOUS
  <2>1. pc'[t].at = "access"
    BY <1>4 DEF Owns
  <2>2. Check(t) /\ count[object[call[t].h]] = 1 /\ call'[t] = call[t]
    BY <1>1, <1>2, <2>1 DEF EnterOnce, InitThrows, Check, Access, AllocateThrows, EndRead, Goes, Returns, At, Idle,
                             TypeOK
  <2>3. Stands[call[t].h] = object[call[t].h]
    BY <1>1, <1>2, <1>4, StandsBefore DEF Replaces, Uses
  <2> QED BY <1>2, <1>5, <1>6, <2>2, <2>3
<1>9. DefaultKept'
  <2> SUFFICES ASSUME Kept # Null PROVE value'[Kept] = Default
    BY <1>5 DEF DefaultKept
  <2>1. value[Kept] = Default
    BY DEF IInv, Counting, DefaultKept
  <2>2. CASE Access(t)
    <3> DEFINE p == object[call[t].h]
    <3>1. p \in Object /\ value' = [value EXCEPT ![p] = call[t].value] /\ Owns(t)
      BY <1>1, <1>2, <2>2 DEF Access, Placed, Owns
    <3>2. Stands[call[t].h] = p
      BY <1>1, <1>2, <1>4, StandsBefore DEF Replaces, Uses
    <3>3. count[p] = 1
      BY <3>1, <3>2 DEF IInv, Counting, Held
    <3>4. Kept # p
      BY <1>2, <3>1, <3>2, <3>3, Counted
    <3>5. Kept \in Object
      BY <1>1 DEF TypeOK, Kept
    <3> QED BY <1>1, <2>1, <3>1, <3>4, <3>5 DEF TypeOK
  <2>3. CASE ~Access(t)
    BY <2>1, <2>3 DEF EnterOnce, InitThrows, Check, AllocateThrows, EndRead, heap
  <2> QED BY <2>2, <2>3
<1>10. Stands' = Stands
  BY <1>6 DEF Stands
<1> QED BY <1>1, <1>3, <1>5, <1>6, <1>7, <1>8, <1>9, <1>10, StepKeepsCounting DEF Releasing

\* The handle of the call comes to stand for `new`; what it stood for is released next.
LEMMA TakesReferences ==
  ASSUME IInv, Control', NEW t \in Thread, Step(t), NEW new,
         pc[t].at \notin Releasing, call[t].h \in Modifies(call[t]), call[t].op # "exit", Kept' = Kept,
         \A x \in Handle : x # call[t].h => object'[x] = object[x],
         \/ Returns(t) /\ object[call[t].h] \notin Object /\ object'[call[t].h] = new
         \/ Goes(t, Release(object[call[t].h], new))
  PROVE  /\ Stands'[call[t].h] = new
         /\ \A o \in Object : References(o)' = count[o] + Is(new, o)
<1> DEFINE h == call[t].h
           old == object[h]
<1>1. Control /\ TypeOK
  BY DEF IInv, Control
<1>2. /\ call[t] # NoCall /\ call[t] \in Calls /\ h \in Handle /\ call[t].from \in Handle /\ Alone(t)
      /\ h \in Uses(call[t])
  BY <1>1, StepLocal DEF Uses
<1>3. Stands[h] = old /\ Drops[t] = Null
  BY <1>1, <1>2, StandsBefore DEF Replaces, Drops, Releasing
<1>4. /\ \/ pc'[t].at = "idle" /\ old \notin Object /\ object'[h] = new
         \/ pc'[t].at = "decrement" /\ pc'[t].obj = old /\ pc'[t].to = new /\ call'[t] = call[t]
  <2>1. CASE Returns(t)
    BY <1>1, <2>1 DEF Returns, Idle, TypeOK, Goes, Release
  <2>2. CASE Goes(t, Release(old, new))
    BY <1>1, <2>2 DEF Goes, Release, TypeOK
  <2> QED BY <2>1, <2>2
<1>5. Stands'[h] = new
  BY <1>1, <1>2, <1>4, StandsAfter DEF Replaces, Releasing
<1>6. /\ call[t].from # h => Stands'[call[t].from] = Stands[call[t].from]
      /\ \A o \in Object : References(o)' = count[o]
              + (Is(Stands'[h], o) - Is(Stands[h], o))
              + (IF call[t].from = h THEN 0
                 ELSE Is(Stands'[call[t].from], o) - Is(Stands[call[t].from], o))
              + (Is(Drops'[t], o) - Is(Drops[t], o))
              + (Is(Kept', o) - Is(Kept, o))
  BY <1>2, StepReferences
<1>7. \A o \in Object : Is(Drops'[t], o) - Is(Drops[t], o) = Is(old, o)
  BY <1>3, <1>4 DEF Drops, Is
<1>8. \A x, o : Is(x, o) \in Int
  BY DEF Is
<1>9. \A o \in Object : count[o] \in Int
  BY <1>1 DEF TypeOK
<1>10. ASSUME NEW o \in Object PROVE References(o)' = count[o] + Is(new, o)
  <2>1. (IF call[t].from = h THEN 0 ELSE Is(Stands'[call[t].from], o) - Is(Stands[call[t].from], o)) = 0
    BY <1>6, <1>8
  <2>2. References(o)' = count[o] + (Is(new, o) - Is(old, o)) + 0 + Is(old, o) + (Is(Kept, o) - Is(Kept, o))
    BY <1>3, <1>5, <1>6, <1>7, <2>1
  <2> QED BY <1>8, <1>9, <2>2
<1> QED BY <1>5, <1>10

LEMMA TakesCounting ==
  ASSUME IInv, Control', NEW t \in Thread, Step(t), NEW new,
         pc[t].at \notin Releasing, call[t].h \in Modifies(call[t]), call[t].op # "exit", UNCHANGED once,
         \A x \in Handle : x # call[t].h => object'[x] = object[x],
         \/ Returns(t) /\ object[call[t].h] \notin Object /\ object'[call[t].h] = new
         \/ Goes(t, Release(object[call[t].h], new)),
         \A o \in Object : count'[o] = count[o] + Is(new, o),
         new \in Object => Own(t, new) /\ value'[new] # Free,
         \A o \in Object : value'[o] = value[o] \/ (value[o] = Free /\ o = new),
         call[t].op = "write" => new \in Object /\ count'[new] = 1
  PROVE  Counting' /\ Stands' = [Stands EXCEPT ![call[t].h] = new]
<1>1. Control /\ TypeOK
  BY DEF IInv, Control
<1>2. /\ call[t] # NoCall /\ call[t] \in Calls /\ call[t].h \in Handle /\ Alone(t)
  BY <1>1, StepLocal
<1>3. Kept' = Kept
  BY DEF Kept, once
<1>4. /\ Stands'[call[t].h] = new
      /\ \A o \in Object : References(o)' = count[o] + Is(new, o)
  BY <1>3, TakesReferences
<1>5. /\ pc'[t].at \in {"idle", "decrement"}
      /\ call'[t] \in {NoCall, call[t]} /\ (pc'[t].at = "decrement" => call'[t] = call[t])
  BY <1>1 DEF Returns, Goes, Release, Idle, TypeOK
<1>6. \A o \in Object : count[o] \in Nat
  BY Counted
<1>7. ASSUME NEW o \in Object
      PROVE  (value[o] # Free <=> \/ count[o] > 0
                                  \/ \E u \in Thread : pc[u].at = "destroy" /\ pc[u].obj = o)'
  <2>1. value[o] # Free <=> count[o] > 0 \/ \E u \in Thread : pc[u].at = "destroy" /\ pc[u].obj = o
    BY DEF IInv, Counting, CountsReferences
  <2>2. (\E u \in Thread : pc[u].at = "destroy" /\ pc[u].obj = o)'
          <=> \E u \in Thread : pc[u].at = "destroy" /\ pc[u].obj = o
    BY <1>2, <1>5 DEF Alone, Releasing
  <2>3. CASE o = new
    BY <1>6, <2>3 DEF Is
  <2>4. CASE o # new
    BY <1>6, <2>1, <2>2, <2>4 DEF Is
  <2> QED BY <2>3, <2>4
<1>8. \A o \in Object : count'[o] = count[o] \/ Own(t, o)
  BY <1>6 DEF Is
<1>9. Owns(t)' => (count[Stands[call[t].h]] = 1)'
  BY <1>4, <1>5 DEF Owns, Releasing
<1>10. DefaultKept'
  <2> SUFFICES ASSUME Kept # Null PROVE value'[Kept] = Default
    BY <1>3 DEF DefaultKept
  <2>1. Kept \in Object
    BY <1>1 DEF Kept, TypeOK
  <2>2. value[Kept] = Default /\ Default # Free
    BY DEF IInv, Counting, DefaultKept
  <2> QED BY <2>1, <2>2
<1>11. Stands' = [Stands EXCEPT ![call[t].h] = new]
  <2>1. \A x \in Handle : x # call[t].h => Stands'[x] = Stands[x]
    BY StepReferences
  <2> QED BY <1>2, <1>4, <2>1 DEF Stands
<1> QED BY <1>4, <1>5, <1>7, <1>8, <1>9, <1>10, <1>11, StepKeepsCounting

LEMMA CopyCounting ==
  ASSUME IInv, Control', NEW t \in Thread, Copy(t)
  PROVE  /\ Counting'
         /\ Stands' = [Stands EXCEPT ![call[t].h] =
                        IF call[t].op = "default" THEN default_s ELSE Stands[call[t].from]]
<1> DEFINE c == call[t]
           o == IF c.op = "default" THEN default_s ELSE object[c.from]
<1>1. Control /\ Placed(t) /\ TypeOK /\ Once /\ Step(t)
  BY DEF IInv, Control, Step
<1>2. /\ c # NoCall /\ c \in Calls /\ c.h \in Handle /\ c.from \in Handle
      /\ pc[t].at \in Places(c.op) /\ c.op \in Ops
  BY <1>1, StepLocal DEF Calls
<1>3. /\ c.op \in {"default", "copy", "assign_copy"} /\ pc[t].at = (IF c.op = "default" THEN "copy" ELSE c.op)
      /\ Modifies(c) = {c.h}
  BY <1>2 DEF Copy, Places, Ops, Modifies, Releasing
<1>4. /\ object' = [object EXCEPT ![c.h] = o]
      /\ count' = IF o = Null THEN count ELSE [count EXCEPT ![o] = @ + 1]
      /\ UNCHANGED <<value, once>>
      /\ IF c.op = "assign_copy" THEN Goes(t, Release(object[c.h], o)) ELSE Returns(t)
  BY DEF Copy
<1>5. o \in Object \cup {Null} /\ Null \notin Object
  BY <1>1, <1>2, <1>3 DEF Placed, Copies, TypeOK, Once
<1>6. Own(t, o)
  <2>1. CASE c.op = "default"
    BY <1>1, <1>2, <1>3, <2>1 DEF Own, Kept, Once
  <2>2. CASE c.op # "default"
    <3>1. Stands[c.from] = object[c.from]
      BY <1>1, <1>2, <1>3, StandsBefore DEF Replaces, Releasing, Uses
    <3> QED BY <1>2, <2>2, <3>1 DEF Own, Uses
  <2> QED BY <2>1, <2>2
<1>7. o \in Object => value'[o] # Free
  <2>1. CASE c.op = "default"
    BY <1>1, <1>2, <1>3, <1>4, <2>1, FreeIsUnused DEF Kept, Once
  <2>2. CASE c.op # "default"
    <3>1. Stands[c.from] = object[c.from]
      BY <1>1, <1>2, <1>3, StandsBefore DEF Replaces, Releasing, Uses
    <3> QED BY <1>2, <1>4, <2>2, <3>1, FreeIsUnused
  <2> QED BY <2>1, <2>2
<1>8. \A p \in Object : count'[p] = count[p] + Is(o, p)
  BY <1>1, <1>4, <1>5 DEF Is, TypeOK
<1>9. \/ Returns(t) /\ object[c.h] \notin Object /\ object'[c.h] = o
      \/ Goes(t, Release(object[c.h], o))
  BY <1>1, <1>2, <1>3, <1>4 DEF Placed, Constructors, TypeOK
<1>10. \A x \in Handle : x # c.h => object'[x] = object[x]
  BY <1>1, <1>4 DEF TypeOK
<1>11. c.h \in Modifies(c) /\ c.op # "exit" /\ c.op # "write" /\ pc[t].at \notin Releasing
  BY <1>3 DEF Releasing
<1>12. o = IF c.op = "default" THEN default_s ELSE Stands[c.from]
  BY <1>1, <1>2, <1>3, StandsBefore DEF Replaces, Releasing, Uses
<1> HIDE DEF o
<1> QED BY <1>1, <1>4, <1>6, <1>7, <1>8, <1>9, <1>10, <1>11, <1>12, TakesCounting

LEMMA AllocateCounting ==
  ASSUME IInv, Control', NEW t \in Thread, NEW o \in Object, Allocate(t, o)
  PROVE  Counting' /\ Stands' = [Stands EXCEPT ![call[t].h] = o]
<1> DEFINE c == call[t]
<1>1. Control /\ Placed(t) /\ TypeOK /\ Step(t)
  BY DEF IInv, Control, Step
<1>2. c # NoCall /\ c \in Calls /\ c.h \in Handle /\ pc[t].at \in Places(c.op) /\ c.op \in Ops /\ c.value \in Value
  BY <1>1, StepLocal DEF Calls
<1>3. c.op \in {"construct", "assign"} /\ Modifies(c) = {c.h} /\ pc[t].at \notin Releasing
  BY <1>2 DEF Allocate, Places, Ops, Modifies, Releasing
<1>4. /\ value[o] = Free /\ value' = [value EXCEPT ![o] = c.value] /\ count' = [count EXCEPT ![o] = 1]
      /\ UNCHANGED once
  BY DEF Allocate, New
<1>5. count[o] = 0 /\ Own(t, o)
  BY <1>4, FreeIsUnused DEF Own
<1>6. \A p \in Object : count'[p] = count[p] + Is(o, p)
  BY <1>1, <1>4, <1>5 DEF Is, TypeOK
<1>7. \A p \in Object : value'[p] = value[p] \/ (value[p] = Free /\ p = o)
  BY <1>1, <1>4 DEF TypeOK
<1>8. value'[o] # Free
  BY <1>1, <1>2, <1>4 DEF TypeOK
<1>9. \/ Returns(t) /\ object[c.h] \notin Object /\ object'[c.h] = o
      \/ Goes(t, Release(object[c.h], o))
  BY <1>1, <1>2 DEF Allocate, TypeOK
<1>10. \A x \in Handle : x # c.h => object'[x] = object[x]
  BY <1>1 DEF Allocate, TypeOK
<1>11. c.h \in Modifies(c) /\ c.op # "exit" /\ c.op # "write"
  BY <1>3
<1> QED BY <1>1, <1>3, <1>4, <1>5, <1>6, <1>7, <1>8, <1>9, <1>10, <1>11, TakesCounting

LEMMA DuplicateCounting ==
  ASSUME IInv, Control', NEW t \in Thread, NEW o \in Object, Duplicate(t, o)
  PROVE  Counting' /\ Stands' = [Stands EXCEPT ![call[t].h] = o]
<1> DEFINE c == call[t]
           shared == object[c.h]
<1>1. Control /\ Placed(t) /\ TypeOK /\ Step(t)
  BY DEF IInv, Control, Step
<1>2. c # NoCall /\ c \in Calls /\ c.h \in Handle /\ pc[t].at \in Places(c.op) /\ c.op \in Ops
  BY <1>1, StepLocal DEF Calls
<1>3. c.op = "write" /\ Modifies(c) = {c.h} /\ pc[t].at \notin Releasing
  BY <1>2 DEF Duplicate, Places, Ops, Modifies, Releasing
<1>4. /\ value[o] = Free /\ value' = [value EXCEPT ![o] = value[shared]] /\ count' = [count EXCEPT ![o] = 1]
      /\ UNCHANGED <<object, once>> /\ Goes(t, Release(shared, o))
  BY DEF Duplicate, New
<1>5. count[o] = 0 /\ Own(t, o)
  BY <1>4, FreeIsUnused DEF Own
<1>6. \A p \in Object : count'[p] = count[p] + Is(o, p)
  BY <1>1, <1>4, <1>5 DEF Is, TypeOK
<1>7. \A p \in Object : value'[p] = value[p] \/ (value[p] = Free /\ p = o)
  BY <1>1, <1>4 DEF TypeOK
<1>8. value'[o] # Free
  <2>1. shared \in Object
    BY <1>1, <1>2, <1>3 DEF Placed
  <2>2. Stands[c.h] = shared
    BY <1>1, <1>2, <1>3, StandsBefore DEF Replaces, Uses
  <2>3. value[shared] # Free
    BY <1>2, <2>1, <2>2, FreeIsUnused
  <2> QED BY <1>1, <1>4, <2>3 DEF TypeOK
<1>9. c.h \in Modifies(c) /\ c.op # "exit" /\ count'[o] = 1
  BY <1>1, <1>3, <1>4 DEF TypeOK
<1> QED BY <1>1, <1>3, <1>4, <1>5, <1>6, <1>7, <1>8, <1>9, TakesCounting

LEMMA StartReleaseCounting ==
  ASSUME IInv, Control', NEW t \in Thread, StartRelease(t)
  PROVE  Counting' /\ Stands' = [Stands EXCEPT ![call[t].h] = Dead]
<1> DEFINE c == call[t]
<1>1. Control /\ Placed(t) /\ TypeOK /\ Step(t)
  BY DEF IInv, Control, Step
<1>2. c # NoCall /\ c \in Calls /\ c.h \in Handle /\ pc[t].at \in Places(c.op) /\ c.op \in Ops
  BY <1>1, StepLocal DEF Calls
<1>3. c.op = "destroy" /\ Modifies(c) = {c.h} /\ pc[t].at \notin Releasing
  BY <1>2 DEF StartRelease, Places, Ops, Modifies, Releasing
<1>4. UNCHANGED <<object, heap, once>> /\ Goes(t, Release(object[c.h], Dead))
  BY DEF StartRelease
<1>5. \A p \in Object : count'[p] = count[p] + Is(Dead, p)
  BY <1>1, <1>4 DEF Is, TypeOK, heap
<1>6. Dead \notin Object
  OBVIOUS
<1> QED BY <1>1, <1>3, <1>4, <1>5, <1>6, TakesCounting DEF heap

\* A step that changes the references of a release or of the default instance only.
LEMMA SameStands ==
  ASSUME IInv, Control', NEW t \in Thread, Step(t), \A h \in Handle : Stands'[h] = Stands[h]
  PROVE  \A o \in Object : References(o)' = count[o] + (Is(Drops'[t], o) - Is(Drops[t], o))
                                                     + (Is(Kept', o) - Is(Kept, o))
<1> SUFFICES ASSUME NEW o \in Object
             PROVE  References(o)' = count[o] + (Is(Drops'[t], o) - Is(Drops[t], o))
                                              + (Is(Kept', o) - Is(Kept, o))
  OBVIOUS
<1>1. call[t].h \in Handle /\ call[t].from \in Handle /\ Control
  BY StepLocal DEF IInv
<1>2. References(o)' = count[o]
         + (Is(Stands'[call[t].h], o) - Is(Stands[call[t].h], o))
         + (IF call[t].from = call[t].h THEN 0
            ELSE Is(Stands'[call[t].from], o) - Is(Stands[call[t].from], o))
         + (Is(Drops'[t], o) - Is(Drops[t], o))
         + (Is(Kept', o) - Is(Kept, o))
  BY StepReferences
<1>3. \A x : Is(x, o) \in Int
  BY DEF Is
<1>4. count[o] \in Int
  BY <1>1 DEF Control, TypeOK
<1>5. References(o)' = count[o] + 0 + 0 + (Is(Drops'[t], o) - Is(Drops[t], o)) + (Is(Kept', o) - Is(Kept, o))
  BY <1>1, <1>2, <1>3
<1> QED BY <1>3, <1>4, <1>5

LEMMA MoveCounting ==
  ASSUME IInv, Control', NEW t \in Thread, Move(t)
  PROVE  /\ Counting'
         /\ Stands' = [Stands EXCEPT ![call[t].from] = Null, ![call[t].h] = Stands[call[t].from]]
<1> DEFINE c == call[t]
           o == object[c.from]
           old == IF c.h = c.from THEN Null ELSE object[c.h]
<1>1. Control /\ Placed(t) /\ TypeOK /\ Step(t)
  BY DEF IInv, Control, Step
<1>2. /\ c # NoCall /\ c \in Calls /\ c.h \in Handle /\ c.from \in Handle /\ Alone(t)
      /\ pc[t].at \in Places(c.op) /\ c.op \in Ops
  BY <1>1, StepLocal DEF Calls
<1>3. /\ c.op \in {"move", "assign_move"} /\ pc[t].at = c.op
      /\ Modifies(c) = {c.h, c.from} /\ Uses(c) = {c.h, c.from} /\ pc[t].at \notin Releasing
  BY <1>2 DEF Move, Places, Ops, Modifies, Uses, Releasing
<1>4. /\ object' = [object EXCEPT ![c.from] = Null, ![c.h] = o] /\ UNCHANGED <<heap, once>>
      /\ \/ c.op = "assign_move" /\ Goes(t, Release(old, o))
         \/ c.op = "move" /\ Returns(t)
  BY <1>3 DEF Move
<1>5. /\ object'[c.h] = o /\ (c.h # c.from => object'[c.from] = Null)
      /\ \A x \in Handle : x \notin {c.h, c.from} => object'[x] = object[x]
      /\ c.op = "move" => c.h # c.from /\ old = Dead
  BY <1>1, <1>2, <1>4 DEF TypeOK, Placed, Constructors, Copies
<1>6. \/ pc'[t].at = "decrement" /\ pc'[t].obj = old /\ pc'[t].to = o /\ call'[t] = call[t]
      \/ pc'[t].at = "idle" /\ old = Dead
  BY <1>1, <1>4, <1>5 DEF Goes, Returns, Idle, Release, TypeOK
<1>7. Stands[c.h] = object[c.h] /\ Stands[c.from] = o
  BY <1>1, <1>2, <1>3, StandsBefore DEF Replaces
<1>8. Stands'[c.h] = o
  BY <1>1, <1>2, <1>3, <1>5, <1>6, StandsAfter DEF Replaces, Releasing
<1>9. c.h # c.from => Stands'[c.from] = Null
  <2> SUFFICES ASSUME NEW g \in Handle, g = c.from, c.h # g PROVE Stands'[g] = Null
    BY <1>2
  <2>1. ~Replaces(t, g)'
    <3>1. pc'[t].at \in Releasing => call'[t] = c
      BY <1>6 DEF Releasing
    <3> QED BY <3>1 DEF Replaces
  <2>2. Stands'[g] = IF Replaces(t, g)' THEN pc'[t].to ELSE object'[g]
    BY <1>1, <1>2, <1>3, StandsAfter
  <2> QED BY <1>5, <2>1, <2>2
<1>10. Kept' = Kept /\ value' = value /\ count' = count
  BY <1>4 DEF Kept, once, heap
<1>11. Drops[t] = Null /\ (Drops'[t] = old \/ (Drops'[t] = Null /\ old = Dead))
  BY <1>3, <1>6 DEF Drops, Releasing
<1>12. ASSUME NEW p \in Object PROVE count'[p] = References(p)'
  <2>1. References(p)' = count[p]
         + (Is(Stands'[c.h], p) - Is(Stands[c.h], p))
         + (IF c.from = c.h THEN 0 ELSE Is(Stands'[c.from], p) - Is(Stands[c.from], p))
         + (Is(Drops'[t], p) - Is(Drops[t], p))
         + (Is(Kept', p) - Is(Kept, p))
    BY <1>1, StepReferences
  <2>2. Is(Null, p) = 0 /\ Is(Dead, p) = 0 /\ Is(Drops'[t], p) = Is(old, p) /\ \A x : Is(x, p) \in Int
    BY <1>11 DEF Is
  <2>3. count[p] \in Int
    BY <1>1 DEF TypeOK
  <2> HIDE DEF o
  <2>4. CASE c.h = c.from
    <3>1. References(p)' = count[p] + (Is(o, p) - Is(o, p)) + 0 + (0 - 0) + (Is(Kept, p) - Is(Kept, p))
      BY <1>7, <1>8, <1>10, <1>11, <2>1, <2>2, <2>4
    <3> QED BY <1>10, <2>2, <2>3, <3>1
  <2>5. CASE c.h # c.from
    <3>1. References(p)' = count[p] + (Is(o, p) - Is(object[c.h], p)) + (0 - Is(o, p)) 
             + (Is(object[c.h], p) - 0) + (Is(Kept, p) - Is(Kept, p))
      BY <1>7, <1>8, <1>9, <1>10, <1>11, <2>1, <2>2, <2>5
    <3> QED BY <1>10, <2>2, <2>3, <3>1
  <2> QED BY <2>4, <2>5
<1>13. \A p \in Object :
         (value[p] # Free <=> \/ count[p] > 0
                              \/ \E u \in Thread : pc[u].at = "destroy" /\ pc[u].obj = p)'
  <2>1. \A p \in Object : (\E u \in Thread : pc[u].at = "destroy" /\ pc[u].obj = p)'
                            <=> \E u \in Thread : pc[u].at = "destroy" /\ pc[u].obj = p
    BY <1>2, <1>3, <1>6 DEF Alone, Releasing
  <2> QED BY <1>10, <2>1 DEF IInv, Counting, CountsReferences
<1>14. ~Owns(t)'
  BY <1>3, <1>6 DEF Owns, Releasing
<1>15. DefaultKept'
  BY <1>10 DEF IInv, Counting, DefaultKept
<1>16. pc'[t].at # "destroy"
  BY <1>6
<1>17. Stands' = [Stands EXCEPT ![c.from] = Null, ![c.h] = Stands[c.from]]
  <2>1. \A x \in Handle : x \notin {c.h, c.from} => Stands'[x] = Stands[x]
    BY <1>1, <1>5, StepReferences
  <2>2. \A x \in Handle :
          Stands'[x] = IF x = c.h THEN Stands[c.from] ELSE IF x = c.from THEN Null ELSE Stands[x]
    BY <1>7, <1>8, <1>9, <2>1
  <2> QED BY <1>2, <2>2 DEF Stands
<1> QED BY <1>1, <1>10, <1>12, <1>13, <1>14, <1>15, <1>16, <1>17, StepKeepsCounting

LEMMA InitDefaultCounting ==
  ASSUME IInv, Control', NEW t \in Thread, NEW o \in Object, InitDefault(t, o)
  PROVE  Counting' /\ Stands' = Stands
<1> DEFINE c == call[t]
<1>1. Control /\ Placed(t) /\ TypeOK /\ Once /\ Step(t)
  BY DEF IInv, Control, Step
<1>2. c # NoCall /\ c \in Calls /\ c.h \in Handle /\ pc[t].at \in Places(c.op) /\ c.op \in Ops /\ Alone(t)
  BY <1>1, StepLocal DEF Calls
<1>3. c.op = "default" /\ pc[t].at = "init"
  BY <1>2 DEF InitDefault, Places, Ops, Releasing
<1>4. /\ value[o] = Free /\ value' = [value EXCEPT ![o] = Default] /\ count' = [count EXCEPT ![o] = 1]
      /\ UNCHANGED <<object, exited>> /\ default_s' = o /\ Goes(t, At("copy"))
  BY DEF InitDefault, New
<1>5. Kept = Null /\ Kept' = o
  BY <1>1, <1>2, <1>3, <1>4 DEF Kept, Once
<1>6. pc'[t].at = "copy"
  BY <1>1, <1>4 DEF Goes, At, TypeOK
<1>7. \A h \in Handle : Stands'[h] = Stands[h]
  BY <1>1, <1>2, <1>3, <1>4, <1>6, StandsKept DEF Replaces, Releasing
<1>8. count[o] = 0
  BY <1>4, FreeIsUnused
<1>9. ASSUME NEW p \in Object PROVE count'[p] = References(p)'
  <2>1. Drops[t] = Null /\ Drops'[t] = Null
    BY <1>3, <1>6 DEF Drops
  <2>2. References(p)' = count[p] + (Is(Null, p) - Is(Null, p)) + (Is(o, p) - Is(Null, p))
    BY <1>1, <1>5, <1>7, <2>1, SameStands
  <2>3. count'[p] = IF p = o THEN 1 ELSE count[p]
    BY <1>1, <1>4 DEF TypeOK
  <2> QED BY <1>1, <1>8, <2>2, <2>3 DEF Is, TypeOK
<1>10. ASSUME NEW p \in Object
       PROVE  (value[p] # Free <=> \/ count[p] > 0
                                   \/ \E u \in Thread : pc[u].at = "destroy" /\ pc[u].obj = p)'
  <2>1. (\E u \in Thread : pc[u].at = "destroy" /\ pc[u].obj = p)'
          <=> \E u \in Thread : pc[u].at = "destroy" /\ pc[u].obj = p
    BY <1>2, <1>3, <1>6 DEF Alone
  <2>2. value[p] # Free <=> count[p] > 0 \/ \E u \in Thread : pc[u].at = "destroy" /\ pc[u].obj = p
    BY DEF IInv, Counting, CountsReferences
  <2>3. CASE p = o
    BY <1>1, <1>4, <2>3 DEF TypeOK
  <2>4. CASE p # o
    BY <1>1, <1>4, <2>1, <2>2, <2>4 DEF TypeOK
  <2> QED BY <2>3, <2>4
<1>11. DefaultKept'
  BY <1>1, <1>4, <1>5 DEF DefaultKept, TypeOK
<1>12. \A p \in Object : count'[p] = count[p] \/ Own(t, p)
  BY <1>1, <1>4 DEF Own, TypeOK
<1>13. ~Owns(t)' /\ pc'[t].at # "destroy"
  BY <1>6 DEF Owns, Releasing
<1>14. Stands' = Stands
  BY <1>7 DEF Stands
<1> QED BY <1>1, <1>9, <1>10, <1>11, <1>12, <1>13, <1>14, StepKeepsCounting

\* While a call releases an object, its handle stands for the object it will have.
LEMMA ReleasingStands ==
  ASSUME IInv, Control', NEW t \in Thread, Decrement(t) \/ Destroy(t)
  PROVE  /\ \A h \in Handle : Stands'[h] = Stands[h]
         /\ Owns(t)' => Owns(t) /\ call'[t] = call[t]
         /\ pc'[t].at = "destroy" => /\ Decrement(t) /\ pc'[t].obj = pc[t].obj /\ pc[t].obj # Null
                                     /\ count'[pc[t].obj] = 0
         /\ Drops'[t] = Null /\ Kept' = Kept
<1> DEFINE c == call[t]
<1>1. Control /\ Placed(t) /\ TypeOK /\ Step(t)
  BY DEF IInv, Control, Step
<1>2. c # NoCall /\ c \in Calls /\ c.h \in Handle /\ pc[t].at \in Places(c.op) /\ c.op \in Ops /\ Alone(t)
  BY <1>1, StepLocal DEF Calls
<1>3. pc[t].at \in Releasing /\ c.op \in {"exit", "destroy", "assign", "assign_copy", "assign_move", "write"}
  BY <1>2 DEF Decrement, Destroy, Places, Ops, Releasing
<1>4. PICK place : 
        /\ pc'[t] = place
        /\ \/ /\ place = [pc[t] EXCEPT !.at = "destroy"] /\ UNCHANGED object /\ call'[t] = c /\ Decrement(t)
              /\ pc[t].obj # Null /\ count'[pc[t].obj] = 0
           \/ /\ place.at \in {"idle", "access"} /\ (place.at = "access" => call'[t] = c /\ c.op = "write")
              /\ object' = IF c.op = "exit" THEN object ELSE [object EXCEPT ![c.h] = pc[t].to]
  <2>1. CASE Released(t)
    <3>1. pc'[t] = (IF c.op = "write" THEN At("access") ELSE Idle) /\ (c.op = "write" => call'[t] = c)
      BY <1>1, <2>1 DEF Released, Goes, Returns, TypeOK
    <3> QED BY <2>1, <3>1 DEF Released, At, Idle
  <2>2. CASE ~Released(t)
    <3>1. Goes(t, [pc[t] EXCEPT !.at = "destroy"]) /\ UNCHANGED object /\ Decrement(t)
          /\ pc[t].obj # Null /\ count'[pc[t].obj] = 0
      BY <2>2 DEF Decrement, Destroy
    <3> QED BY <1>1, <3>1 DEF Goes, TypeOK
  <2> QED BY <2>1, <2>2
<1>5. /\ place.at \in Releasing => /\ place.at = "destroy" /\ place.to = pc[t].to /\ place.obj = pc[t].obj
                                   /\ call'[t] = c /\ Decrement(t) /\ pc[t].obj # Null
                                   /\ UNCHANGED object /\ count'[pc[t].obj] = 0
      /\ place.at \notin Releasing => place.at \in {"idle", "access"}
      /\ place.at # "decrement"
  <2>1. pc[t] \in [at : AllPlaces, obj : Object \cup {Null}, to : Object \cup {Null, Dead}]
    BY <1>1 DEF TypeOK
  <2>2. [pc[t] EXCEPT !.at = "destroy"].at = "destroy" /\ [pc[t] EXCEPT !.at = "destroy"].to = pc[t].to
        /\ [pc[t] EXCEPT !.at = "destroy"].obj = pc[t].obj
    BY <2>1
  <2> QED BY <1>4, <2>2 DEF Releasing
<1>6. Drops'[t] = Null /\ Kept' = Kept
  BY <1>4, <1>5 DEF Drops, Kept, Decrement, Destroy, once
<1>7. Owns(t)' => Owns(t) /\ call'[t] = c
  <2>1. place.at = "access" => call'[t] = c /\ c.op = "write"
    <3>1. pc[t] \in [at : AllPlaces, obj : Object \cup {Null}, to : Object \cup {Null, Dead}]
      BY <1>1 DEF TypeOK
    <3> QED BY <1>4, <3>1
  <2>2. place.at \in Releasing => call'[t] = c
    BY <1>5
  <2>3. pc'[t] = place
    BY <1>4
  <2> QED BY <1>3, <2>1, <2>2, <2>3 DEF Owns
<1>8. \A h \in Handle : h # c.h => Stands'[h] = Stands[h]
  <2>1. \A h \in Handle : object'[h] # object[h] => h = c.h
    BY <1>1, <1>2, <1>4, <1>5 DEF TypeOK
  <2> QED BY <1>1, <2>1, StepReferences
<1>9. CASE c.op = "exit"
  <2>1. ~Replaces(t, c.h) /\ object' = object
    BY <1>4, <1>9 DEF Replaces
  <2>2. \A h \in Handle : ~Replaces(t, h)'
    BY <1>4, <1>5, <1>9 DEF Replaces, Releasing
  <2> QED BY <1>1, <1>2, <1>4, <1>5, <1>6, <1>7, <1>8, <2>1, <2>2, StandsKept
<1>10. CASE c.op # "exit"
  <2> SUFFICES ASSUME NEW g \in Handle, g = c.h PROVE Stands'[g] = Stands[g]
    BY <1>2, <1>4, <1>5, <1>6, <1>7, <1>8 DEF Releasing
  <2>1. g \in Modifies(c) /\ g \in Uses(c)
    BY <1>3, <1>10 DEF Modifies, Uses
  <2>2. Stands[g] = pc[t].to
    BY <1>1, <1>2, <1>3, <1>10, <2>1, StandsBefore DEF Replaces
  <2>3. Stands'[g] = IF Replaces(t, g)' THEN pc'[t].to ELSE object'[g]
    BY <1>1, <1>2, <2>1, StandsAfter
  <2>4. CASE place.at \in Releasing
    <3>1. Replaces(t, g)' /\ pc'[t].to = pc[t].to
      BY <1>4, <1>5, <1>10, <2>4 DEF Replaces
    <3> QED BY <2>2, <2>3, <3>1
  <2>5. CASE place.at \notin Releasing
    <3>1. ~Replaces(t, g)' /\ object'[g] = pc[t].to
      BY <1>1, <1>4, <1>10, <2>5 DEF Replaces, TypeOK, Releasing
    <3> QED BY <2>2, <2>3, <3>1
  <2> QED BY <2>4, <2>5
<1> QED BY <1>9, <1>10

LEMMA DecrementCounting ==
  ASSUME IInv, Control', NEW t \in Thread, Decrement(t)
  PROVE  Counting'
<1> DEFINE o == pc[t].obj
<1>1. Control /\ TypeOK /\ Step(t) /\ Alone(t)
  BY StepLocal DEF IInv, Control, Step
<1>2. /\ pc[t].at = "decrement" /\ o \in Object \cup {Null} /\ Null \notin Object
      /\ count' = IF o = Null THEN count ELSE [count EXCEPT ![o] = @ - 1]
      /\ UNCHANGED <<value, once>>
  BY <1>1 DEF Decrement, TypeOK
<1>3. Drops[t] = o
  BY <1>2 DEF Drops
<1>4. /\ \A h \in Handle : Stands'[h] = Stands[h]
      /\ Owns(t)' => Owns(t) /\ call'[t] = call[t]
      /\ pc'[t].at = "destroy" => pc'[t].obj = o /\ o # Null /\ count'[o] = 0
      /\ Drops'[t] = Null /\ Kept' = Kept
  BY ReleasingStands
<1>5. \A p \in Object : count'[p] = count[p] - Is(o, p)
  BY <1>1, <1>2 DEF Is, TypeOK
<1>6. ASSUME NEW p \in Object PROVE count'[p] = References(p)'
  <2>1. References(p)' = count[p] + (Is(Null, p) - Is(o, p)) + (Is(Kept, p) - Is(Kept, p))
    BY <1>1, <1>3, <1>4, SameStands
  <2>2. count[p] \in Int /\ Is(Null, p) = 0 /\ \A x : Is(x, p) \in Int
    BY <1>1, <1>2 DEF TypeOK, Is
  <2> QED BY <1>5, <2>1, <2>2
<1>7. \A p \in Object : count[p] \in Nat /\ (p = o => count[p] >= 1)
  BY <1>3, Counted
<1>8. \A u \in Thread : ~(pc[u].at = "destroy" /\ pc[u].obj = o /\ o # Null)
  <2> SUFFICES ASSUME NEW u \in Thread, pc[u].at = "destroy", pc[u].obj = o, o # Null PROVE FALSE
    OBVIOUS
  <2>1. count[o] = 0
    BY DEF IInv, Counting, Held
  <2> QED BY <1>2, <1>7, <2>1
<1>9. o # Null /\ count'[o] = 0 => pc'[t].at = "destroy" /\ pc'[t].obj = o
  <2> HAVE o # Null /\ count'[o] = 0
  <2>1. Goes(t, [pc[t] EXCEPT !.at = "destroy"])
    BY DEF Decrement
  <2> QED BY <1>1, <2>1 DEF Goes, TypeOK
<1>10. ASSUME NEW p \in Object
       PROVE  (value[p] # Free <=> \/ count[p] > 0
                                   \/ \E u \in Thread : pc[u].at = "destroy" /\ pc[u].obj = p)'
  <2>1. value[p] # Free <=> count[p] > 0 \/ \E u \in Thread : pc[u].at = "destroy" /\ pc[u].obj = p
    BY DEF IInv, Counting, CountsReferences
  <2>2. CASE p = o
    <3>1. value'[p] # Free
      BY <1>2, <1>7, <2>1, <2>2
    <3>2. count'[p] > 0 \/ count'[p] = 0
      BY <1>2, <1>5, <1>7, <2>2 DEF Is
    <3> QED BY <1>2, <1>9, <2>2, <3>1, <3>2
  <2>3. CASE p # o
    <3>1. (\E u \in Thread : pc[u].at = "destroy" /\ pc[u].obj = p)'
            <=> \E u \in Thread : pc[u].at = "destroy" /\ pc[u].obj = p
      BY <1>1, <1>2, <1>4, <2>3 DEF Alone
    <3>2. count'[p] = count[p]
      BY <1>5, <1>7, <2>3 DEF Is
    <3> QED BY <1>2, <2>1, <3>1, <3>2
  <2> QED BY <2>2, <2>3
<1>11. Owns(t)' => (count[Stands[call[t].h]] = 1)'
  <2> SUFFICES ASSUME Owns(t)' PROVE (count[Stands[call[t].h]] = 1)'
    OBVIOUS
  <2> DEFINE p == Stands[call[t].h]
  <2>1. Owns(t) /\ call'[t] = call[t] /\ call[t].h \in Handle /\ p \in Object
    BY <1>1, <1>4, OwnsUses
  <2>2. count[p] = 1
    BY <2>1 DEF IInv, Counting, Held
  <2>3. p # o
    BY <1>3, <2>1, <2>2, Counted
  <2>4. count'[p] = 1
    BY <1>5, <2>1, <2>2, <2>3 DEF Is
  <2> QED BY <1>4, <2>1, <2>4
<1>12. DefaultKept'
  BY <1>2, <1>4 DEF IInv, Counting, DefaultKept
<1>13. \A p \in Object : count'[p] = count[p] \/ Own(t, p)
  BY <1>3, <1>5, <1>7 DEF Is, Own
<1> QED BY <1>1, <1>4, <1>6, <1>8, <1>10, <1>11, <1>12, <1>13, StepKeepsCounting

LEMMA DestroyCounting ==
  ASSUME IInv, Control', NEW t \in Thread, Destroy(t)
  PROVE  Counting'
<1> DEFINE o == pc[t].obj
<1>1. Control /\ Placed(t) /\ TypeOK /\ Step(t) /\ Alone(t)
  BY StepLocal DEF IInv, Control, Step
<1>2. pc[t].at = "destroy" /\ o \in Object /\ value' = [value EXCEPT ![o] = Free] /\ UNCHANGED <<count, once>>
  BY <1>1 DEF Destroy, Placed
<1>3. /\ \A h \in Handle : Stands'[h] = Stands[h]
      /\ Owns(t)' => Owns(t) /\ call'[t] = call[t]
      /\ pc'[t].at # "destroy"
      /\ Drops'[t] = Null /\ Kept' = Kept
  BY <1>2, ReleasingStands DEF Decrement
<1>4. count[o] = 0 /\ \A u \in Thread : pc[u].at = "destroy" /\ pc[u].obj = o => u = t
  BY <1>2 DEF IInv, Counting, Held
<1>5. ASSUME NEW p \in Object PROVE count'[p] = References(p)'
  <2>1. Drops[t] = Null
    BY <1>2 DEF Drops
  <2>2. References(p)' = count[p] + (Is(Null, p) - Is(Null, p)) + (Is(Kept, p) - Is(Kept, p))
    BY <1>1, <1>3, <2>1, SameStands
  <2> QED BY <1>1, <1>2, <2>2 DEF TypeOK, Is
<1>6. ASSUME NEW p \in Object
      PROVE  (value[p] # Free <=> \/ count[p] > 0
                                  \/ \E u \in Thread : pc[u].at = "destroy" /\ pc[u].obj = p)'
  <2>1. value[p] # Free <=> count[p] > 0 \/ \E u \in Thread : pc[u].at = "destroy" /\ pc[u].obj = p
    BY DEF IInv, Counting, CountsReferences
  <2>2. (\E u \in Thread : pc[u].at = "destroy" /\ pc[u].obj = p)'
          <=> \E u \in Thread : u # t /\ pc[u].at = "destroy" /\ pc[u].obj = p
    BY <1>1, <1>3 DEF Alone
  <2>3. CASE p = o
    BY <1>1, <1>2, <1>4, <2>2, <2>3 DEF TypeOK
  <2>4. CASE p # o
    BY <1>1, <1>2, <2>1, <2>2, <2>4 DEF TypeOK
  <2> QED BY <2>3, <2>4
<1>7. Owns(t)' => (count[Stands[call[t].h]] = 1)'
  <2> SUFFICES ASSUME Owns(t)' PROVE (count[Stands[call[t].h]] = 1)'
    OBVIOUS
  <2>1. Owns(t) /\ call'[t] = call[t] /\ call[t].h \in Handle
    BY <1>1, <1>3, OwnsUses
  <2> QED BY <1>2, <1>3, <2>1 DEF IInv, Counting, Held
<1>8. DefaultKept'
  <2> SUFFICES ASSUME Kept # Null PROVE value'[Kept] = Default
    BY <1>3 DEF DefaultKept
  <2>1. Kept \in Object /\ Kept # o
    BY <1>1, <1>2, <1>4, Counted DEF Kept, TypeOK
  <2> QED BY <1>1, <1>2, <2>1 DEF IInv, Counting, DefaultKept, TypeOK
<1> QED BY <1>1, <1>2, <1>3, <1>5, <1>6, <1>7, <1>8, StepKeepsCounting

LEMMA StepCounting ==
  ASSUME IInv, Control', NEW t \in Thread, Step(t)
  PROVE  Counting'
BY QuietCounting, CopyCounting, MoveCounting, InitDefaultCounting, AllocateCounting, DuplicateCounting,
   StartReleaseCounting, DecrementCounting, DestroyCounting DEF Step

\* A call that begins counts nothing; exit passes the reference of default_s to its release.
LEMMA ClientBegins ==
  ASSUME IInv, Control', NEW t \in Thread, Client(t)
  PROVE  \E c \in Calls :
           /\ call[t] = NoCall /\ call' = [call EXCEPT ![t] = c] /\ Alone(t)
           /\ UNCHANGED <<object, value, count, default_s>>
           /\ pc'[t].at \notin Releasing \cup {"access", "idle"} \/ (pc'[t].at = "decrement" /\ c.op = "exit")
           /\ Stands' = Stands /\ \A o \in Object : References(o)' = References(o)
           /\ Kept' \in {Kept, Null}
<1>1. Control /\ Placed(t) /\ TypeOK /\ Once
  BY DEF IInv, Control
<1>0. PICK h \in Handle, c \in Calls : \E where :
        /\ Begin(t, c, where)
        /\ \/ UNCHANGED exited /\ where.at \notin Releasing \cup {"access", "idle"}
           \/ Exit(t, h) /\ c.op = "exit" /\ where = Release(default_s, Null)
  <2> USE DEF Calls, Ops, Releasing, Plain, At
  <2>1. PICK h \in Handle : 
          \/ DefaultConstruct(t, h) \/ Read(t, h) \/ Destruct(t, h) \/ Exit(t, h)
          \/ \E v \in Value : Construct(t, h, v) \/ Assign(t, h, v) \/ Write(t, h, v)
          \/ \E g \in Handle : \/ \E op \in {"copy", "move"} : ConstructFrom(t, op, h, g)
                               \/ \E op \in {"assign_copy", "assign_move"} : AssignFrom(t, op, h, g)
    BY DEF Client
  <2>2. Default \in Value
    OBVIOUS
  <2>3. CASE DefaultConstruct(t, h) \/ Read(t, h) \/ Destruct(t, h)
    BY <2>2, <2>3 DEF DefaultConstruct, Read, Destruct
  <2>4. ASSUME NEW v \in Value, Construct(t, h, v) \/ Assign(t, h, v) \/ Write(t, h, v)
        PROVE  \E c \in Calls : \E where : Begin(t, c, where) /\ UNCHANGED exited
                                            /\ where.at \notin Releasing \cup {"access", "idle"}
    BY <2>2, <2>4 DEF Construct, Assign, Write
  <2>5. ASSUME NEW g \in Handle, NEW op \in {"copy", "move"}, ConstructFrom(t, op, h, g)
        PROVE  \E c \in Calls : \E where : Begin(t, c, where) /\ UNCHANGED exited
                                            /\ where.at \notin Releasing \cup {"access", "idle"}
    BY <2>2, <2>5 DEF ConstructFrom
  <2>6. ASSUME NEW g \in Handle, NEW op \in {"assign_copy", "assign_move"}, AssignFrom(t, op, h, g)
        PROVE  \E c \in Calls : \E where : Begin(t, c, where) /\ UNCHANGED exited
                                            /\ where.at \notin Releasing \cup {"access", "idle"}
    BY <2>2, <2>6 DEF AssignFrom
  <2>7. ASSUME Exit(t, h)
        PROVE  \E c \in Calls : \E where : /\ Begin(t, c, where)
                                           /\ Exit(t, h) /\ c.op = "exit" /\ where = Release(default_s, Null)
    <3>1. Plain("exit", h) \in Calls /\ Plain("exit", h).op = "exit"
      BY <2>2
    <3>2. Begin(t, Plain("exit", h), Release(default_s, Null))
      BY <2>7 DEF Exit
    <3> QED BY <2>7, <3>1, <3>2
  <2> QED BY <2>1, <2>3, <2>4, <2>5, <2>6, <2>7
<1>2. PICK where :
        /\ Begin(t, c, where)
        /\ \/ UNCHANGED exited /\ where.at \notin Releasing \cup {"access", "idle"}
           \/ Exit(t, h) /\ c.op = "exit" /\ where = Release(default_s, Null)
  BY <1>0
<1>3. /\ call[t] = NoCall /\ call' = [call EXCEPT ![t] = c] /\ pc' = [pc EXCEPT ![t] = where]
      /\ UNCHANGED <<object, value, count, default_s>>
  BY <1>2 DEF Begin, heap
<1>4. Alone(t) /\ pc'[t] = where /\ call'[t] = c /\ pc[t].at = "idle"
  BY <1>1, <1>3 DEF TypeOK, Alone, Placed
<1>5. /\ \A g \in Handle : Stands'[g] = Stands[g]
      /\ \A o \in Object : References(o)' = References(o)
      /\ Kept' \in {Kept, Null}
  <2>1. CASE UNCHANGED exited /\ where.at \notin Releasing \cup {"access", "idle"}
    <3>1. Kept' = Kept /\ pc[t].at \notin Releasing /\ pc'[t].at \notin Releasing
      BY <1>3, <1>4, <2>1 DEF Kept, Releasing
    <3> QED BY <1>1, <1>3, <1>4, <3>1, QuietReferences
  <2>2. CASE Exit(t, h) /\ c.op = "exit" /\ where = Release(default_s, Null)
    <3>1. Kept = default_s /\ Kept' = Null /\ Drops[t] = Null /\ Drops'[t] = default_s
      BY <1>4, <2>2 DEF Exit, Kept, Drops, Release
    <3>2. \A g \in Handle : ~Replaces(t, g) /\ ~Replaces(t, g)'
      BY <1>4, <2>2 DEF Replaces, Releasing
    <3>3. \A g \in Handle : Stands'[g] = Stands[g]
      BY <1>1, <1>3, <1>4, <3>2, StandsKept
    <3>4. \A u \in Thread : u # t => Drops'[u] = Drops[u]
      BY <1>4 DEF Alone, Drops
    <3>5. ASSUME NEW o \in Object PROVE References(o)' = References(o)
      <4>1. References(o)' = References(o)
              + (Is(Stands'[h], o) - Is(Stands[h], o))
              + (IF h = h THEN 0 ELSE Is(Stands'[h], o) - Is(Stands[h], o))
              + (Is(Drops'[t], o) - Is(Drops[t], o))
              + (Is(Kept', o) - Is(Kept, o))
        BY <3>3, <3>4, ReferencesChange
      <4>2. \A x : Is(x, o) \in Int
        BY DEF Is
      <4>3. References(o) \in Int
        BY <1>1 DEF IInv, Counting, CountsReferences, TypeOK
      <4> QED BY <3>1, <3>3, <4>1, <4>2, <4>3
    <3> QED BY <3>1, <3>3, <3>5
  <2> QED BY <1>2, <2>1, <2>2
<1>6. Stands' = Stands
  BY <1>5 DEF Stands
<1>7. pc'[t].at \notin Releasing \cup {"access", "idle"} \/ (pc'[t].at = "decrement" /\ c.op = "exit")
  BY <1>2, <1>4 DEF Release
<1> QED BY <1>3, <1>4, <1>5, <1>6, <1>7

LEMMA ClientCounting ==
  ASSUME IInv, Control', NEW t \in Thread, Client(t)
  PROVE  Counting'
<1>1. Control
  BY DEF IInv
<1>2. PICK c \in Calls :
           /\ call[t] = NoCall /\ call' = [call EXCEPT ![t] = c] /\ Alone(t)
           /\ UNCHANGED <<object, value, count, default_s>>
           /\ pc'[t].at \notin Releasing \cup {"access", "idle"} \/ (pc'[t].at = "decrement" /\ c.op = "exit")
           /\ Stands' = Stands /\ \A o \in Object : References(o)' = References(o)
           /\ Kept' \in {Kept, Null}
  BY ClientBegins
<1>3. call'[t] = c /\ pc[t].at = "idle"
  BY <1>1, <1>2 DEF Control, TypeOK, Placed
<1>4. \A u \in Thread : /\ Owns(u)' => Owns(u) /\ u # t
                        /\ pc'[u].at = "destroy" => pc'[u] = pc[u] /\ u # t
  BY <1>2, <1>3 DEF Alone, Owns, Releasing
<1>5. CountsReferences'
  <2>1. \A o \in Object : (\E u \in Thread : pc[u].at = "destroy" /\ pc[u].obj = o)'
                            <=> \E u \in Thread : pc[u].at = "destroy" /\ pc[u].obj = o
    BY <1>2, <1>3, <1>4 DEF Alone
  <2> QED BY <1>2, <2>1 DEF IInv, Counting, CountsReferences
<1>6. Held'
  <2>1. ASSUME NEW u \in Thread, Owns(u)' PROVE (count[Stands[call[u].h]] = 1)'
    <3>1. Owns(u) /\ call'[u] = call[u]
      BY <1>2, <1>4, <2>1 DEF Alone
    <3> QED BY <1>2, <3>1 DEF IInv, Counting, Held
  <2>2. \A u \in Thread : (pc[u].at = "destroy" => count[pc[u].obj] = 0)'
    BY <1>2, <1>4 DEF IInv, Counting, Held
  <2>3. \A u, v \in Thread : (pc[u].at = "destroy" /\ pc[v].at = "destroy" /\ pc[u].obj = pc[v].obj)' => u = v
    BY <1>4 DEF IInv, Counting, Held
  <2> QED BY <2>1, <2>2, <2>3 DEF Held
<1>7. DefaultKept'
  BY <1>2 DEF IInv, Counting, DefaultKept
<1> QED BY <1>5, <1>6, <1>7 DEF Counting

LEMMA InitCounting == Init => Counting
<1> SUFFICES ASSUME Init PROVE Counting
  OBVIOUS
<1>1. Control
  BY InitControl
<1>2. /\ \A t \in Thread : Drops[t] = Null /\ pc[t].at = "idle"
      /\ Kept = Null
  BY DEF Init, Idle, Drops, Kept
<1>3. \A h \in Handle : Stands[h] = Dead
  <2>1. \A h \in Handle : \A t \in Thread : ~Replaces(t, h)
    BY <1>2 DEF Replaces, Releasing
  <2> QED BY <1>1, <2>1, CurrentIs DEF Standing, Stands, Init
<1>4. ASSUME NEW o \in Object PROVE References(o) = 0
  <2>1. {h \in Handle : Stands[h] = o} = {} /\ {t \in Thread : Drops[t] = o} = {} /\ Is(Kept, o) = 0
    BY <1>2, <1>3 DEF Is
  <2>2. Holders(Handle, Stands, o) = 0 /\ Holders(Thread, Drops, o) = 0
    BY <2>1, FS_EmptySet DEF Holders
  <2> QED BY <2>1, <2>2, ReferencesAre
<1>5. CountsReferences
  BY <1>2, <1>4 DEF CountsReferences, Init
<1>6. Held /\ DefaultKept
  BY <1>2 DEF Held, DefaultKept, Owns, Releasing
<1> QED BY <1>5, <1>6 DEF Counting

LEMMA IInvStep == IInv /\ [Next]_vars => IInv'
<1>1. ASSUME IInv, Next PROVE IInv'
  <2>1. Control'
    BY <1>1, ControlStep DEF IInv
  <2> QED BY <1>1, <2>1, ClientCounting, StepCounting DEF Next, IInv
<1>2. ASSUME IInv, UNCHANGED vars PROVE IInv'
  <2>1. Control'
    BY <1>2, ControlStep DEF IInv
  <2>3. Stands' = Stands /\ Drops' = Drops /\ Kept' = Kept
    BY <1>2 DEF vars, heap, once, Stands, Current, Replacing, Drops, Kept
  <2>4. \A o \in Object : References(o)' = References(o)
    BY <2>3, ReferencesAre, ReferencesAreNext
  <2>5. Counting'
    BY <1>2, <2>3, <2>4 DEF IInv, Counting, CountsReferences, Held, DefaultKept, Owns, vars, heap, once
  <2> QED BY <2>1, <2>5 DEF IInv
<1> QED BY <1>1, <1>2

LEMMA Invariance == Spec => []IInv
<1>1. Init => IInv
  BY InitControl, InitCounting DEF IInv
<1>2. IInv /\ [Next]_vars => IInv'
  BY IInvStep
<1> QED BY <1>1, <1>2, PTL DEF Spec

\* Every thread that uses a value has a handle that stands for it.
LEMMA InUse ==
  ASSUME Control, NEW t \in Thread, pc[t].at \in {"read", "duplicate", "access"}
  PROVE  /\ call[t] # NoCall /\ call[t].h \in Handle /\ call[t].h \in Uses(call[t])
         /\ object[call[t].h] \in Object /\ Stands[call[t].h] = object[call[t].h]
<1>1. call[t] # NoCall /\ call[t] \in Calls /\ pc[t].at \in Places(call[t].op)
  BY DEF Control, TypeOK, Placed
<1>2. call[t].h \in Handle /\ call[t].h \in Uses(call[t]) /\ call[t].op \in Ops
  BY <1>1 DEF Calls, Uses
<1>3. pc[t].at = "access" \/ call[t].op \in {"read", "write"}
  BY <1>1, <1>2 DEF Places, Ops, Releasing
<1>4. object[call[t].h] \in Object
  BY <1>1, <1>3 DEF Control, Placed
<1>5. ~Replaces(t, call[t].h)
  BY DEF Replaces, Releasing
<1> QED BY <1>1, <1>2, <1>4, <1>5, StandsBefore

LEMMA NoRace == IInv => NoDataRace
<1> SUFFICES ASSUME IInv, NEW t \in Thread, NEW u \in Thread, t # u,
                    NEW o, o \in Writing(t), o \in Reading(u) \cup Writing(u)
             PROVE  FALSE
  BY DEF NoDataRace
<1>1. Control
  BY DEF IInv
<1>2. \/ pc[t].at = "access" /\ o = object[call[t].h]
      \/ pc[t].at = "destroy" /\ o = pc[t].obj
  BY DEF Writing
<1>3. \/ pc[u].at \in {"read", "duplicate", "access"} /\ o = object[call[u].h]
      \/ pc[u].at = "destroy" /\ o = pc[u].obj
  BY DEF Reading, Writing
<1>4. \A v \in Thread : pc[v].at = "destroy" => pc[v].obj \in Object /\ count[pc[v].obj] = 0
  BY <1>1 DEF Control, Placed, IInv, Counting, Held
<1>5. CASE pc[t].at = "access"
  <2>1. /\ call[t] # NoCall /\ call[t].h \in Handle /\ o \in Object /\ Stands[call[t].h] = o
        /\ call[t].h \in Modifies(call[t])
    BY <1>1, <1>2, <1>5, InUse, OwnsUses DEF Owns
  <2>2. count[o] = 1
    BY <1>5, <2>1 DEF IInv, Counting, Held, Owns
  <2>3. pc[u].at # "destroy"
    BY <1>3, <1>4, <2>2
  <2>4. /\ call[u] # NoCall /\ call[u].h \in Handle /\ call[u].h \in Uses(call[u]) /\ Stands[call[u].h] = o
    BY <1>1, <1>3, <2>3, InUse
  <2>5. call[u].h # call[t].h
    BY <1>1, <2>1, <2>4 DEF Control, Exclusive
  <2> QED BY <2>1, <2>2, <2>4, <2>5, Counted
<1>6. CASE pc[t].at = "destroy"
  <2>1. o \in Object /\ count[o] = 0
    BY <1>2, <1>4, <1>6
  <2>2. CASE pc[u].at = "destroy"
    BY <1>2, <1>3, <1>6, <2>2 DEF IInv, Counting, Held
  <2>3. CASE pc[u].at # "destroy"
    <3>1. call[u].h \in Handle /\ Stands[call[u].h] = o
      BY <1>1, <1>3, <2>3, InUse
    <3> QED BY <2>1, <3>1, Counted
  <2> QED BY <2>2, <2>3
<1> QED BY <1>2, <1>5, <1>6

-----------------------------------------------------------------------------
(* The refinement: the handles as values of their own. *)
Holds(x) == IF x \in Object THEN value[x] ELSE x
Val == [h \in Handle |-> IF Current(h) \in Object THEN value[Current(h)] ELSE Current(h)]
Pend == [t \in Thread |-> Pending(t)]

LEMMA ValIs == /\ Val = [h \in Handle |-> Holds(Stands[h])]
               /\ Val' = [h \in Handle |-> Holds(Stands[h])']
BY DEF Val, Holds, Stands

\* The abstract actions, by what a step does to the values and to what is pending.
LEMMA BeginStep ==
  ASSUME NEW t \in Thread, NEW c \in Calls, call[t] = NoCall, call' = [call EXCEPT ![t] = c],
         Pend' = [Pend EXCEPT ![t] = TRUE], Val' = Val
  PROVE  Values!Next
<1>1. c \in Values!Calls
  BY DEF Calls, Ops, Values!Calls
<1> QED BY <1>1 DEF Values!Next, Values!Begin, Val, Pend

LEMMA EffectStep ==
  ASSUME NEW t \in Thread, Pend[t], Pend' = [Pend EXCEPT ![t] = FALSE], Val' = Values!Apply(call[t], Val),
         call' \in {call, [call EXCEPT ![t] = NoCall]}
  PROVE  Values!Next
BY DEF Values!Next, Values!Effect, Val, Pend

LEMMA ReturnStep ==
  ASSUME NEW t \in Thread, call[t] # NoCall, ~Pend[t], call' = [call EXCEPT ![t] = NoCall],
         Val' = Val, Pend' = Pend
  PROVE  Values!Next
BY DEF Values!Next, Values!Return, Val, Pend

LEMMA ThrowStep ==
  ASSUME NEW t \in Thread, Pend[t], call' = [call EXCEPT ![t] = NoCall],
         Pend' = [Pend EXCEPT ![t] = FALSE], Val' = Val
  PROVE  Values!Next
BY DEF Values!Next, Values!Throw, Val, Pend

\* What is pending changes for the thread of the step only.
LEMMA PendChanges ==
  ASSUME NEW t \in Thread, Alone(t)
  PROVE  Pend' = [Pend EXCEPT ![t] = Pending(t)']
BY DEF Alone, Pend, Pending

\* A step that changes the values of no object a handle stands for changes no value.
LEMMA ValKept ==
  ASSUME Stands' = Stands, \A o \in Object : value'[o] = value[o] \/ \A h \in Handle : Stands[h] # o
  PROVE  Val' = Val
<1>1. \A h \in Handle : Holds(Stands[h])' = Holds(Stands[h])
  BY DEF Holds
<1> QED BY <1>1, ValIs

\* Nor does one that gives a handle another object, for the others.
LEMMA ValTakes ==
  ASSUME IInv, NEW h \in Handle, NEW new, Stands' = [Stands EXCEPT ![h] = new],
         \A o \in Object : value'[o] = value[o] \/ value[o] = Free
  PROVE  Val' = [Val EXCEPT ![h] = IF new \in Object THEN value'[new] ELSE new]
<1>1. \A g \in Handle : Stands'[g] = IF g = h THEN new ELSE Stands[g]
  BY DEF Stands
<1>2. \A g \in Handle : g # h => Holds(Stands[g])' = Holds(Stands[g])
  BY <1>1, FreeIsUnused DEF Holds
<1>3. Holds(Stands[h])' = IF new \in Object THEN value'[new] ELSE new
  BY <1>1 DEF Holds
<1> QED BY <1>2, <1>3, ValIs

Simulated == Values!Next \/ UNCHANGED <<Val, call, Pend>>

LEMMA ClientSimulated ==
  ASSUME IInv, Control', NEW t \in Thread, Client(t)
  PROVE  Simulated
<1>1. Control
  BY DEF IInv
<1>2. PICK c \in Calls :
           /\ call[t] = NoCall /\ call' = [call EXCEPT ![t] = c] /\ Alone(t)
           /\ UNCHANGED <<object, value, count, default_s>>
           /\ pc'[t].at \notin Releasing \cup {"access", "idle"} \/ (pc'[t].at = "decrement" /\ c.op = "exit")
           /\ Stands' = Stands
  BY ClientBegins
<1>3. call'[t] = c /\ c # NoCall
  BY <1>1, <1>2 DEF Control, TypeOK
<1>4. Pending(t)'
  BY <1>2, <1>3 DEF Pending, Releasing
<1>5. Pend' = [Pend EXCEPT ![t] = TRUE]
  BY <1>2, <1>4, PendChanges DEF Pending
<1>6. Val' = Val
  BY <1>2, ValKept
<1> QED BY <1>2, <1>5, <1>6, BeginStep DEF Simulated

\* What is pending before and after a step of a call.
LEMMA StepPending ==
  ASSUME IInv, NEW t \in Thread, Step(t)
  PROVE  /\ pc[t].at \notin Releasing => Pend[t]
         /\ call[t] # NoCall
         /\ Returns(t) => /\ Pend' = [Pend EXCEPT ![t] = FALSE]
                          /\ call' = [call EXCEPT ![t] = NoCall]
         /\ \A o, next : Goes(t, Release(o, next)) =>
              /\ call' = call
              /\ call[t].op \notin {"write", "exit"} => Pend' = [Pend EXCEPT ![t] = FALSE]
              /\ call[t].op = "write" /\ Pend[t] => Pend' = Pend
         /\ \A step : Goes(t, At(step)) /\ step \notin {"idle"} \cup Releasing /\ Pend[t] =>
              call' = call /\ Pend' = Pend
<1>1. Control /\ TypeOK /\ Alone(t) /\ call[t] # NoCall /\ pc[t].at # "idle"
  BY StepLocal DEF IInv, Control, Placed
<1>2. Pend' = [Pend EXCEPT ![t] = Pending(t)'] /\ Pend[t] = Pending(t)
  BY <1>1, PendChanges DEF Pend
<1>3. pc[t].at \notin Releasing => Pending(t)
  BY <1>1 DEF Pending, Releasing
<1>4. ASSUME Returns(t) PROVE Pending(t)' = FALSE /\ call' = [call EXCEPT ![t] = NoCall]
  <2>1. pc'[t].at = "idle" /\ call'[t] = NoCall /\ call' = [call EXCEPT ![t] = NoCall]
    BY <1>1, <1>4 DEF Returns, Idle, TypeOK
  <2> QED BY <2>1 DEF Pending
<1>5. ASSUME NEW o, NEW next, Goes(t, Release(o, next))
      PROVE  /\ call' = call
             /\ call[t].op \notin {"write", "exit"} => Pending(t)' = FALSE
             /\ call[t].op = "write" => Pending(t)' = TRUE
  <2>1. pc'[t].at = "decrement" /\ call' = call
    BY <1>1, <1>5 DEF Goes, Release, TypeOK
  <2>2. call[t].op \notin {"write", "exit"} => ~Pending(t)'
    BY <2>1 DEF Pending
  <2>3. call[t].op = "write" => Pending(t)'
    BY <1>1, <2>1 DEF Pending
  <2>4. Pending(t)' \in BOOLEAN
    BY DEF Pending
  <2> QED BY <2>1, <2>2, <2>3, <2>4
<1>6. ASSUME NEW step, Goes(t, At(step)), step \notin {"idle"} \cup Releasing
      PROVE  call' = call /\ Pending(t)' = TRUE
  <2>1. pc'[t].at = step /\ call' = call
    BY <1>1, <1>6 DEF Goes, At, TypeOK
  <2> QED BY <1>6, <2>1 DEF Pending, Releasing
<1>7. Pend \in [Thread -> BOOLEAN]
  BY DEF Pend, Pending
<1>8. Pend[t] => [Pend EXCEPT ![t] = TRUE] = Pend
  BY <1>7
<1>9. pc[t].at \notin Releasing => Pend[t]
  BY <1>2, <1>3
<1>10. Returns(t) => Pend' = [Pend EXCEPT ![t] = FALSE] /\ call' = [call EXCEPT ![t] = NoCall]
  BY <1>2, <1>4
<1>11. \A o, next : Goes(t, Release(o, next)) =>
              /\ call' = call
              /\ call[t].op \notin {"write", "exit"} => Pend' = [Pend EXCEPT ![t] = FALSE]
              /\ call[t].op = "write" /\ Pend[t] => Pend' = Pend
  BY <1>2, <1>5, <1>8
<1>12. \A step : Goes(t, At(step)) /\ step \notin {"idle"} \cup Releasing /\ Pend[t] =>
              call' = call /\ Pend' = Pend
  BY <1>2, <1>6, <1>8
<1> QED BY <1>1, <1>9, <1>10, <1>11, <1>12

\* The steps before the effect: of call_once, is_one, and the copy write makes.
LEMMA EarlySimulated ==
  ASSUME IInv, Control', NEW t \in Thread,
         EnterOnce(t) \/ Check(t) \/ (\E o \in Object : InitDefault(t, o) \/ Duplicate(t, o))
  PROVE  Simulated
<1>1. Control /\ TypeOK /\ Step(t) /\ call[t].h \in Handle /\ pc[t].at \in Places(call[t].op) /\ call[t].op \in Ops
  <2>1. Control /\ TypeOK /\ Step(t)
    BY DEF IInv, Control, Step
  <2> QED BY <2>1, StepLocal DEF Calls
<1>2. Pend[t]
  BY <1>1, StepPending DEF EnterOnce, Check, InitDefault, Duplicate, Releasing
<1>3. CASE EnterOnce(t)
  <2>1. \E step \in {"init", "copy"} : Goes(t, At(step))
    BY <1>3 DEF EnterOnce
  <2>2. call' = call /\ Pend' = Pend
    BY <1>1, <1>2, <2>1, StepPending DEF Releasing
  <2>3. Val' = Val
    <3>1. Stands' = Stands /\ value' = value
      BY <1>3, QuietCounting DEF EnterOnce, heap
    <3> QED BY <3>1, ValKept
  <2> QED BY <2>2, <2>3 DEF Simulated
<1>4. CASE Check(t)
  <2>1. \E step \in {"access", "duplicate", "allocate"} : Goes(t, At(step))
    <3>1. \E step : Goes(t, At(step)) /\ pc'[t].at = step
      BY <1>1, <1>4 DEF Check, Goes, At, TypeOK
    <3>2. pc'[t].at \in {"access", "duplicate", "allocate"}
      BY <1>1, <1>4 DEF Check, Goes, At, TypeOK
    <3> QED BY <3>1, <3>2
  <2>2. call' = call /\ Pend' = Pend
    BY <1>1, <1>2, <2>1, StepPending DEF Releasing
  <2>3. Val' = Val
    <3>1. Stands' = Stands /\ value' = value
      BY <1>4, QuietCounting DEF Check, heap
    <3> QED BY <3>1, ValKept
  <2> QED BY <2>2, <2>3 DEF Simulated
<1>5. ASSUME NEW o \in Object, InitDefault(t, o) PROVE Simulated
  <2>1. Goes(t, At("copy"))
    BY <1>5 DEF InitDefault
  <2>2. call' = call /\ Pend' = Pend
    BY <1>1, <1>2, <2>1, StepPending DEF Releasing
  <2>3. \A p \in Object : value'[p] = value[p] \/ \A h \in Handle : Stands[h] # p
    BY <1>1, <1>5, FreeIsUnused DEF InitDefault, New, TypeOK
  <2>4. Val' = Val
    BY <1>5, <2>3, InitDefaultCounting, ValKept
  <2> QED BY <2>2, <2>4 DEF Simulated
<1>6. ASSUME NEW o \in Object, Duplicate(t, o) PROVE Simulated
  <2> DEFINE shared == object[call[t].h]
  <2>1. call[t].op = "write" /\ Goes(t, Release(shared, o))
    BY <1>1, <1>6 DEF Duplicate, Places, Ops, Releasing
  <2>2. call' = call /\ Pend' = Pend
    BY <1>1, <1>2, <2>1, StepPending
  <2>3. /\ \A p \in Object : value'[p] = value[p] \/ value[p] = Free
        /\ value'[o] = value[shared]
    BY <1>1, <1>6 DEF Duplicate, New, TypeOK
  <2>4. Stands' = [Stands EXCEPT ![call[t].h] = o]
    BY <1>6, DuplicateCounting
  <2>5. Val' = [Val EXCEPT ![call[t].h] = value[shared]]
    BY <1>1, <2>3, <2>4, ValTakes
  <2>6. Val[call[t].h] = value[shared]
    <3>1. Stands[call[t].h] = shared /\ shared \in Object
      BY <1>1, <1>6, InUse DEF Duplicate
    <3> QED BY <1>1, <3>1, ValIs DEF Holds
  <2>7. Val' = Val
    BY <2>5, <2>6 DEF Val
  <2> QED BY <2>2, <2>7 DEF Simulated
<1> QED BY <1>3, <1>4, <1>5, <1>6

LEMMA ThrowSimulated ==
  ASSUME IInv, Control', NEW t \in Thread, InitThrows(t) \/ AllocateThrows(t)
  PROVE  Simulated
<1>1. Step(t) /\ Returns(t) /\ value' = value /\ pc[t].at \notin Releasing
  BY DEF Step, InitThrows, AllocateThrows, heap, Releasing
<1>2. Pend[t] /\ Pend' = [Pend EXCEPT ![t] = FALSE] /\ call' = [call EXCEPT ![t] = NoCall]
  BY <1>1, StepPending
<1>3. Val' = Val
  BY <1>1, QuietCounting, ValKept
<1> QED BY <1>2, <1>3, ThrowStep DEF Simulated

\* The steps at which a call takes effect.
LEMMA CopySimulated ==
  ASSUME IInv, Control', NEW t \in Thread, Copy(t)
  PROVE  Simulated
<1> DEFINE c == call[t]
           o == IF c.op = "default" THEN default_s ELSE Stands[c.from]
<1>1. Control /\ TypeOK /\ Once /\ Step(t)
  BY DEF IInv, Control, Step
<1>2. c # NoCall /\ c \in Calls /\ c.h \in Handle /\ c.from \in Handle /\ pc[t].at \in Places(c.op) /\ c.op \in Ops
  BY <1>1, StepLocal DEF Calls
<1>3. /\ c.op \in {"default", "copy", "assign_copy"} /\ pc[t].at \notin Releasing
      /\ c.op = "default" => pc[t].at = "copy"
  BY <1>2 DEF Copy, Places, Ops, Releasing
<1>4. Pend' = [Pend EXCEPT ![t] = FALSE] /\ Pend[t] /\ call' \in {call, [call EXCEPT ![t] = NoCall]}
  <2>1. Returns(t) \/ (c.op = "assign_copy" /\ Goes(t, Release(object[c.h], object[c.from])))
    BY DEF Copy
  <2> QED BY <1>1, <1>3, <2>1, StepPending
<1>5. Stands' = [Stands EXCEPT ![c.h] = o] /\ value' = value
  BY CopyCounting DEF Copy
<1>6. Val' = [Val EXCEPT ![c.h] = IF o \in Object THEN value[o] ELSE o]
  BY <1>2, <1>5, ValTakes
<1>7. Val' = Values!Apply(c, Val)
  <2>1. CASE c.op = "default"
    <3>1. default_s \in Object /\ value[default_s] = Default
      BY <1>1, <1>2, <1>3, <2>1 DEF Once, TypeOK, IInv, Counting, DefaultKept, Kept
    <3> QED BY <1>6, <2>1, <3>1 DEF Values!Apply
  <2>2. CASE c.op # "default"
    <3>1. Val[c.from] = IF o \in Object THEN value[o] ELSE o
      BY <1>2, <2>2, ValIs DEF Holds
    <3>2. Val' = [Val EXCEPT ![c.h] = Val[c.from]] /\ c.op \in {"copy", "assign_copy"}
      BY <1>3, <1>6, <2>2, <3>1
    <3> QED BY <3>2 DEF Values!Apply
  <2> QED BY <2>1, <2>2
<1> QED BY <1>4, <1>7, EffectStep DEF Simulated

LEMMA MoveSimulated ==
  ASSUME IInv, Control', NEW t \in Thread, Move(t)
  PROVE  Simulated
<1> DEFINE c == call[t]
<1>1. Control /\ TypeOK /\ Step(t)
  BY DEF IInv, Control, Step
<1>2. c # NoCall /\ c \in Calls /\ c.h \in Handle /\ c.from \in Handle /\ pc[t].at \in Places(c.op) /\ c.op \in Ops
  BY <1>1, StepLocal DEF Calls
<1>3. c.op \in {"move", "assign_move"} /\ pc[t].at \notin Releasing
  BY <1>2 DEF Move, Places, Ops, Releasing
<1>4. Pend' = [Pend EXCEPT ![t] = FALSE] /\ Pend[t] /\ call' \in {call, [call EXCEPT ![t] = NoCall]}
  <2>1. \/ Returns(t)
        \/ /\ c.op = "assign_move"
           /\ Goes(t, Release(IF c.h = c.from THEN Null ELSE object[c.h], object[c.from]))
    BY DEF Move
  <2> QED BY <1>1, <1>3, <2>1, StepPending
<1>5. Stands' = [Stands EXCEPT ![c.from] = Null, ![c.h] = Stands[c.from]] /\ value' = value
  BY MoveCounting DEF Move, heap
<1>6. \A h \in Handle : Stands'[h] = IF h = c.h THEN Stands[c.from] ELSE IF h = c.from THEN Null ELSE Stands[h]
  BY <1>2, <1>5 DEF Stands
<1>7. \A h \in Handle : Holds(Stands[h])' = IF h = c.h THEN Holds(Stands[c.from])
                                            ELSE IF h = c.from THEN Null ELSE Holds(Stands[h])
  <2> SUFFICES ASSUME NEW h \in Handle
               PROVE  Holds(Stands[h])' = IF h = c.h THEN Holds(Stands[c.from])
                                          ELSE IF h = c.from THEN Null ELSE Holds(Stands[h])
    OBVIOUS
  <2>1. Null \notin Object
    OBVIOUS
  <2>2. value' = value
    BY <1>5
  <2>3. Holds(Stands[h])' = IF Stands'[h] \in Object THEN value[Stands'[h]] ELSE Stands'[h]
    BY <2>2 DEF Holds
  <2>4. CASE h = c.h
    BY <1>6, <2>3, <2>4 DEF Holds
  <2>5. CASE h # c.h /\ h = c.from
    BY <1>6, <2>1, <2>3, <2>5
  <2>6. CASE h # c.h /\ h # c.from
    BY <1>6, <2>3, <2>6 DEF Holds
  <2> QED BY <2>4, <2>5, <2>6
<1>8. Val' = [Val EXCEPT ![c.from] = Null, ![c.h] = Val[c.from]]
  BY <1>2, <1>7, ValIs
<1>9. Val' = Values!Apply(c, Val)
  BY <1>3, <1>8 DEF Values!Apply
<1> QED BY <1>4, <1>9, EffectStep DEF Simulated

LEMMA AllocateSimulated ==
  ASSUME IInv, Control', NEW t \in Thread, NEW o \in Object, Allocate(t, o)
  PROVE  Simulated
<1> DEFINE c == call[t]
<1>1. Control /\ TypeOK /\ Step(t)
  BY DEF IInv, Control, Step
<1>2. c # NoCall /\ c \in Calls /\ c.h \in Handle /\ pc[t].at \in Places(c.op) /\ c.op \in Ops
  BY <1>1, StepLocal DEF Calls
<1>3. c.op \in {"construct", "assign"} /\ pc[t].at \notin Releasing
  BY <1>2 DEF Allocate, Places, Ops, Releasing
<1>4. Pend' = [Pend EXCEPT ![t] = FALSE] /\ Pend[t] /\ call' \in {call, [call EXCEPT ![t] = NoCall]}
  <2>1. Returns(t) \/ Goes(t, Release(object[c.h], o))
    BY DEF Allocate
  <2> QED BY <1>1, <1>3, <2>1, StepPending
<1>5. /\ Stands' = [Stands EXCEPT ![c.h] = o]
      /\ value'[o] = c.value /\ \A p \in Object : value'[p] = value[p] \/ value[p] = Free
  BY <1>1, AllocateCounting DEF Allocate, New, TypeOK
<1>6. Val' = [Val EXCEPT ![c.h] = c.value]
  BY <1>2, <1>5, ValTakes
<1>7. Val' = Values!Apply(c, Val)
  BY <1>3, <1>6 DEF Values!Apply
<1> QED BY <1>4, <1>7, EffectStep DEF Simulated

LEMMA AccessSimulated ==
  ASSUME IInv, Control', NEW t \in Thread, Access(t)
  PROVE  Simulated
<1> DEFINE c == call[t]
           o == object[c.h]
<1>1. Control /\ TypeOK /\ Step(t)
  BY DEF IInv, Control, Step
<1>2. c # NoCall /\ c \in Calls /\ c.h \in Handle /\ pc[t].at \in Places(c.op) /\ c.op \in Ops
  BY <1>1, StepLocal DEF Calls
<1>3. c.op \in {"write", "assign"} /\ pc[t].at \notin Releasing
  BY <1>2 DEF Access, Places, Ops, Releasing
<1>4. Pend' = [Pend EXCEPT ![t] = FALSE] /\ Pend[t] /\ call' \in {call, [call EXCEPT ![t] = NoCall]}
  BY <1>1, <1>3, StepPending DEF Access
<1>5. Stands' = Stands /\ o \in Object /\ Stands[c.h] = o /\ value' = [value EXCEPT ![o] = c.value]
  BY <1>1, QuietCounting, InUse DEF Access
<1>6. \A h \in Handle : h # c.h => Stands[h] # o
  <2>1. count[o] = 1
    BY <1>5 DEF IInv, Counting, Held, Owns, Access
  <2> QED BY <1>2, <1>5, <2>1, Counted
<1>7. \A h \in Handle : Holds(Stands[h])' = IF h = c.h THEN c.value ELSE Holds(Stands[h])
  BY <1>1, <1>5, <1>6 DEF Holds, TypeOK
<1>8. Val' = [Val EXCEPT ![c.h] = c.value]
  BY <1>2, <1>7, ValIs
<1>9. Val' = Values!Apply(c, Val)
  BY <1>3, <1>8 DEF Values!Apply
<1> QED BY <1>4, <1>9, EffectStep DEF Simulated

LEMMA EndReadSimulated ==
  ASSUME IInv, Control', NEW t \in Thread, EndRead(t)
  PROVE  Simulated
<1> DEFINE c == call[t]
<1>1. Step(t) /\ Returns(t) /\ value' = value /\ pc[t].at = "read"
  BY DEF Step, EndRead, heap
<1>2. c.op = "read"
  BY <1>1, StepLocal DEF IInv, Calls, Ops, Places, Releasing
<1>3. Pend' = [Pend EXCEPT ![t] = FALSE] /\ Pend[t] /\ call' = [call EXCEPT ![t] = NoCall]
  BY <1>1, StepPending DEF Releasing
<1>4. Val' = Val
  BY <1>1, QuietCounting, ValKept
<1>5. Val' = Values!Apply(c, Val)
  BY <1>2, <1>4 DEF Values!Apply
<1> QED BY <1>3, <1>5, EffectStep DEF Simulated

LEMMA StartReleaseSimulated ==
  ASSUME IInv, Control', NEW t \in Thread, StartRelease(t)
  PROVE  Simulated
<1> DEFINE c == call[t]
<1>1. Control /\ Step(t) /\ Goes(t, Release(object[c.h], Dead)) /\ value' = value /\ pc[t].at = "release"
  BY DEF Step, StartRelease, heap, IInv
<1>2. c.op = "destroy" /\ c.h \in Handle
  BY <1>1, StepLocal DEF Calls, Ops, Places, Releasing
<1>3. Pend' = [Pend EXCEPT ![t] = FALSE] /\ Pend[t] /\ call' = call
  BY <1>1, <1>2, StepPending DEF Releasing
<1>4. Val' = [Val EXCEPT ![c.h] = Dead]
  <2>1. Stands' = [Stands EXCEPT ![c.h] = Dead] /\ Dead \notin Object
    BY StartReleaseCounting
  <2> QED BY <1>1, <1>2, <2>1, ValTakes
<1>5. Val' = Values!Apply(c, Val)
  BY <1>2, <1>4 DEF Values!Apply
<1> QED BY <1>3, <1>5, EffectStep DEF Simulated

\* A release shows in no value; a write is still pending after it, exit takes effect.
LEMMA ReleaseSimulated ==
  ASSUME IInv, Control', NEW t \in Thread, Decrement(t) \/ Destroy(t)
  PROVE  Simulated
<1> DEFINE c == call[t]
<1>1. Control /\ TypeOK /\ Step(t) /\ Placed(t)
  BY DEF IInv, Control, Step
<1>2. c # NoCall /\ Alone(t) /\ pc[t].at \in Places(c.op) /\ c.op \in Ops /\ pc[t].at \in Releasing
  BY <1>1, StepLocal DEF Calls, Decrement, Destroy, Releasing
<1>3. Stands' = Stands
  BY ReleasingStands DEF Stands
<1>4. Val' = Val
  <2>1. \A o \in Object : value'[o] = value[o] \/ \A h \in Handle : Stands[h] # o
    <3>1. CASE Decrement(t)
      BY <3>1 DEF Decrement
    <3>2. CASE Destroy(t)
      <4>1. pc[t].obj \in Object /\ count[pc[t].obj] = 0
        BY <1>1, <3>2 DEF Destroy, Placed, IInv, Counting, Held
      <4>2. \A h \in Handle : Stands[h] # pc[t].obj
        BY <4>1, Counted
      <4> QED BY <1>1, <3>2, <4>2 DEF Destroy, TypeOK
    <3> QED BY <3>1, <3>2
  <2> QED BY <1>3, <2>1, ValKept
<1>5. Pend[t] <=> c.op \in {"write", "exit"}
  BY <1>2 DEF Pend, Pending, Releasing
<1>6. CASE c.op = "write"
  <2>1. call' = call /\ pc'[t].at # "idle"
    <3>1. Goes(t, At("access")) \/ Goes(t, [pc[t] EXCEPT !.at = "destroy"])
      BY <1>6 DEF Decrement, Destroy, Released
    <3> QED BY <1>1, <3>1 DEF Goes, At, TypeOK
  <2>2. Pending(t)' \in BOOLEAN /\ Pending(t)' /\ Pend[t]
    BY <1>2, <1>5, <1>6, <2>1 DEF Pending
  <2>3. Pend' = Pend
    BY <1>2, <2>2, PendChanges DEF Pend, Pending
  <2> QED BY <1>4, <2>1, <2>3 DEF Simulated
<1>7. CASE c.op # "write"
  <2>1. CASE Returns(t)
    <3>1. Pend' = [Pend EXCEPT ![t] = FALSE] /\ call' = [call EXCEPT ![t] = NoCall]
      BY <1>1, <2>1, StepPending
    <3>2. CASE c.op = "exit"
      <4>1. Val' = Values!Apply(c, Val)
        BY <1>4, <3>2 DEF Values!Apply
      <4> QED BY <1>5, <3>1, <3>2, <4>1, EffectStep DEF Simulated
    <3>3. CASE c.op # "exit"
      <4>1. ~Pend[t]
        BY <1>5, <1>7, <3>3
      <4>2. Pend' = Pend
        BY <3>1, <4>1 DEF Pend, Pending
      <4> QED BY <1>2, <1>4, <3>1, <4>1, <4>2, ReturnStep DEF Simulated
    <3> QED BY <3>2, <3>3
  <2>2. CASE ~Returns(t)
    <3>1. Goes(t, [pc[t] EXCEPT !.at = "destroy"])
      BY <1>7, <2>2 DEF Decrement, Destroy, Released
    <3>2. pc'[t].at = "destroy" /\ call' = call
      BY <1>1, <3>1 DEF Goes, TypeOK
    <3>3. Pending(t)' <=> c.op \in {"write", "exit"}
      BY <1>2, <3>2 DEF Pending
    <3>4. Pending(t)' \in BOOLEAN /\ Pend[t] \in BOOLEAN
      BY DEF Pend, Pending
    <3>5. Pending(t)' = Pend[t]
      BY <1>5, <3>3, <3>4
    <3>6. Pend' = Pend
      BY <1>2, <3>5, PendChanges DEF Pend
    <3> QED BY <1>4, <3>2, <3>6 DEF Simulated
  <2> QED BY <2>1, <2>2
<1> QED BY <1>6, <1>7

LEMMA InitSimulated == Init => Values!Init
<1> SUFFICES ASSUME Init PROVE Values!Init
  OBVIOUS
<1>1. Control /\ \A h \in Handle : \A t \in Thread : ~Replaces(t, h)
  BY InitControl DEF Init, Idle, Replaces, Releasing
<1>2. \A h \in Handle : Current(h) = Dead
  BY <1>1, CurrentIs DEF Standing, Init
<1>3. Dead \notin Object
  OBVIOUS
<1>4. \A t \in Thread : Pending(t) = FALSE
  BY DEF Init, Idle, Pending
<1> QED BY <1>2, <1>3, <1>4 DEF Values!Init, Init

LEMMA StepSimulated ==
  ASSUME IInv, IInv', Next
  PROVE  Simulated
<1>1. PICK t \in Thread : Client(t) \/ Step(t)
  BY DEF Next
<1>2. Control'
  BY DEF IInv
<1>3. CASE Client(t)
  BY <1>2, <1>3, ClientSimulated
<1>4. CASE Step(t)
  <2>1. EnterOnce(t) \/ Check(t) \/ (\E o \in Object : InitDefault(t, o) \/ Duplicate(t, o)) => Simulated
    BY <1>2, EarlySimulated
  <2>2. InitThrows(t) \/ AllocateThrows(t) => Simulated
    BY <1>2, ThrowSimulated
  <2>3. Copy(t) \/ Move(t) \/ Access(t) \/ EndRead(t) \/ (\E o \in Object : Allocate(t, o)) => Simulated
    BY <1>2, CopySimulated, MoveSimulated, AccessSimulated, EndReadSimulated, AllocateSimulated
  <2>4. StartRelease(t) \/ Decrement(t) \/ Destroy(t) => Simulated
    BY <1>2, StartReleaseSimulated, ReleaseSimulated
  <2> QED BY <1>4, <2>1, <2>2, <2>3, <2>4 DEF Step
<1> QED BY <1>1, <1>3, <1>4

-----------------------------------------------------------------------------
\* Whatever the threads do, in any order of their atomic steps, the count of every
\* object is the number of its handles, of releases that have not counted down yet,
\* and of the default instance until exit; and it is in memory exactly as long as
\* it is counted or its destruction goes on (copy_on_write.hpp:316-341).
THEOREM CountsExact == Spec => []CountsReferences
<1>1. IInv => CountsReferences
  BY DEF IInv, Counting
<1> QED BY <1>1, Invariance, PTL

\* No thread changes or destroys a value that another reads, copies, changes or
\* destroys (copy_on_write.hpp:60 "thread safe", is_one at 155-158 and 179-182).
THEOREM ThreadsDoNotRace == Spec => []NoDataRace
<1>1. IInv => NoDataRace
  BY NoRace
<1> QED BY <1>1, Invariance, PTL

\* Each handle behaves as a value of its own: every call of every thread takes
\* effect on the handles at one moment, or throws and changes none (the promise of
\* copy_on_write.hpp:55-60, implemented by sharing).
THEOREM HandlesAreValues == Spec => ImplementsValues
<1>1. Init => Values!Init
  BY InitSimulated
<1>2. ASSUME IInv, IInv', [Next]_vars
      PROVE  [Values!Next]_(<<[h \in Handle |-> IF Current(h) \in Object THEN value[Current(h)] ELSE Current(h)],
                              call, [t \in Thread |-> Pending(t)]>>)
  <2>1. CASE Next
    BY <1>2, <2>1, StepSimulated DEF Simulated, Val, Pend
  <2>2. CASE UNCHANGED vars
    <3>1. Val' = Val /\ Pend' = Pend /\ call' = call
      BY <2>2 DEF Val, Pend, vars, heap, once, Current, Replacing, Pending
    <3> QED BY <3>1 DEF Val, Pend
  <2> QED BY <1>2, <2>1, <2>2
<1> QED BY <1>1, <1>2, Invariance, PTL DEF Spec, ImplementsValues, Values!Spec
=============================================================================
