----------------------------- MODULE CopyOnWrite -----------------------------
(***************************************************************************)
(* copy_on_write (copy_on_write.hpp) used by several threads.  A step is   *)
(* one atomic operation of a reference count, or a use of memory that has  *)
(* no other step of the thread before it; a use that takes time (copying,  *)
(* reading, writing or destroying a value) is the state before that step.  *)
(***************************************************************************)
EXTENDS Integers, FiniteSets

CONSTANTS
  Thread, Handle, Value,
  Object,      \* bound: the memory for implementation_t
  Default,     \* the value of a default constructed T
  Null,        \* a null object_m, left by a move
  Dead,        \* a handle that is not constructed, or destroyed
  Free,        \* memory that is not allocated
  NoCall

\* the member functions, with the handle they are called on, a source and a value
Ops == {"default", "construct", "copy", "move", "destroy", "assign", "assign_copy",
        "assign_move", "write", "read", "exit"}
Calls == [op : Ops, h : Handle, from : Handle, value : Value]

ASSUME CopyOnWriteAssumption ==
  /\ Default \in Value
  /\ {Null, Dead} \cap Object = {} /\ Null # Dead
  /\ Free \notin Value
  /\ NoCall \notin Calls
  /\ IsFiniteSet(Thread) /\ IsFiniteSet(Handle)

VARIABLES
  object,      \* object_m of each handle
  value,       \* value_m of each object, Free when it is not allocated
  count,       \* count_m in its header
  default_s,
  flag_s,      \* the once_flag: "none", "running", "done"
  exited,      \* exit has called release_default
  call,        \* the call each thread is in
  pc           \* where it is: the next step, the object to release, the next object_m

heap == <<value, count>>
once == <<default_s, flag_s, exited>>
vars == <<object, value, count, default_s, flag_s, exited, call, pc>>

Idle == [at |-> "idle", obj |-> Null, to |-> Null]
At(step) == [at |-> step, obj |-> Null, to |-> Null]
Release(o, next) == [at |-> "decrement", obj |-> o, to |-> next]

Init ==
  /\ object = [h \in Handle |-> Dead]
  /\ value = [o \in Object |-> Free] /\ count = [o \in Object |-> 0]
  /\ default_s = Null /\ flag_s = "none" /\ exited = FALSE
  /\ call = [t \in Thread |-> NoCall] /\ pc = [t \in Thread |-> Idle]

(***************************************************************************)
(* The calls.  Threads use handles as they use any value: no thread uses a *)
(* handle while another modifies it.                                       *)
(***************************************************************************)
Uses(c) == {c.h, c.from}
Modifies(c) == CASE c.op \in {"move", "assign_move"} -> {c.h, c.from}
                 [] c.op \in {"read", "exit"} -> {}
                 [] OTHER -> {c.h}

Begin(t, c, where) ==
  /\ call[t] = NoCall
  /\ \A u \in Thread : call[u] # NoCall =>
       Modifies(c) \cap Uses(call[u]) = {} /\ Uses(c) \cap Modifies(call[u]) = {}
  /\ call' = [call EXCEPT ![t] = c] /\ pc' = [pc EXCEPT ![t] = where]
  /\ UNCHANGED <<object, heap, default_s, flag_s>>

Returns(t) ==
  /\ call' = [call EXCEPT ![t] = NoCall] /\ pc' = [pc EXCEPT ![t] = Idle]

Goes(t, where) ==
  /\ pc' = [pc EXCEPT ![t] = where] /\ UNCHANGED call

\* a construct, read or destroy uses one handle and no value
Plain(op, h) == [op |-> op, h |-> h, from |-> h, value |-> Default]

\* No default constructor runs after exit has released the default instance.
DefaultConstruct(t, h) ==
  /\ object[h] = Dead /\ ~exited
  /\ Begin(t, Plain("default", h), At("once")) /\ UNCHANGED exited

Construct(t, h, v) ==
  /\ object[h] = Dead
  /\ Begin(t, [Plain("construct", h) EXCEPT !.value = v], At("allocate")) /\ UNCHANGED exited

\* the copy and the move constructor
ConstructFrom(t, op, h, g) ==
  /\ object[h] = Dead /\ object[g] # Dead
  /\ Begin(t, [Plain(op, h) EXCEPT !.from = g], At(op)) /\ UNCHANGED exited

\* operator=(copy_on_write x), x copied or moved from g
AssignFrom(t, op, h, g) ==
  /\ object[h] # Dead /\ object[g] # Dead
  /\ Begin(t, [Plain(op, h) EXCEPT !.from = g], At(op)) /\ UNCHANGED exited

Assign(t, h, v) ==
  /\ object[h] # Dead
  /\ Begin(t, [Plain("assign", h) EXCEPT !.value = v], At("check")) /\ UNCHANGED exited

\* write() and what the client writes to the reference it returns
Write(t, h, v) ==
  /\ object[h] \in Object
  /\ Begin(t, [Plain("write", h) EXCEPT !.value = v], At("check")) /\ UNCHANGED exited

Read(t, h) ==
  /\ object[h] \in Object
  /\ Begin(t, Plain("read", h), At("read")) /\ UNCHANGED exited

Destruct(t, h) ==
  /\ object[h] # Dead
  /\ Begin(t, Plain("destroy", h), At("release")) /\ UNCHANGED exited

\* exit runs release_default.  No default constructor may be running by then
\* (or start later): it could use the default instance after its release.
Exit(t, h) ==
  /\ flag_s = "done" /\ ~exited /\ exited' = TRUE
  /\ \A u \in Thread : call[u] # NoCall => call[u].op # "default"
  /\ Begin(t, Plain("exit", h), Release(default_s, Null))

(***************************************************************************)
(* The steps of a call.                                                    *)
(***************************************************************************)
\* call_once: the first runs init_default, the others wait for it.
EnterOnce(t) ==
  /\ pc[t].at = "once"
  /\ \/ /\ flag_s = "none" /\ flag_s' = "running" /\ Goes(t, At("init"))
     \/ /\ flag_s = "done" /\ UNCHANGED flag_s /\ Goes(t, At("copy"))
  /\ UNCHANGED <<object, heap, default_s, exited>>

New(o, v) ==
  /\ value[o] = Free
  /\ value' = [value EXCEPT ![o] = v] /\ count' = [count EXCEPT ![o] = 1]

InitDefault(t, o) ==
  /\ pc[t].at = "init"
  /\ New(o, Default) /\ default_s' = o /\ flag_s' = "done"
  /\ Goes(t, At("copy"))
  /\ UNCHANGED <<object, exited>>

\* An exception in init_default leaves call_once as if it had not been called.
InitThrows(t) ==
  /\ pc[t].at = "init" /\ flag_s' = "none"
  /\ Returns(t)
  /\ UNCHANGED <<object, heap, default_s, exited>>

\* The default and the copy constructor, also of the parameter of an assignment,
\* which is then swapped with the handle and releases what that had.
Copy(t) ==
  LET c == call[t]
      o == IF c.op = "default" THEN default_s ELSE object[c.from]
  IN /\ pc[t].at \in {"copy", "assign_copy"}
     /\ count' = IF o = Null THEN count ELSE [count EXCEPT ![o] = @ + 1]
     /\ object' = [object EXCEPT ![c.h] = o]
     /\ IF c.op = "assign_copy" THEN Goes(t, Release(object[c.h], o)) ELSE Returns(t)
     /\ UNCHANGED <<value, once>>

(* Mutant: the handle moved from keeps its object. *)
MoveKeeps(t) ==
  LET c == call[t] IN
  /\ pc[t].at \in {"move", "assign_move"}
  /\ object' = [object EXCEPT ![c.h] = object[c.from]]
  /\ IF c.op = "assign_move"
     THEN Goes(t, Release(object[c.h], object[c.from]))
     ELSE Returns(t)
  /\ UNCHANGED <<heap, once>>

Move(t) ==
  LET c == call[t] IN
  /\ pc[t].at \in {"move", "assign_move"}
  /\ object' = [object EXCEPT ![c.from] = Null, ![c.h] = object[c.from]]
  /\ IF c.op = "assign_move"
     THEN Goes(t, Release(IF c.h = c.from THEN Null ELSE object[c.h], object[c.from]))
     ELSE Returns(t)
  /\ UNCHANGED <<heap, once>>

(* Mutant: an object two handles refer to is changed in place too. *)
CheckTwo(t) ==
  LET o == object[call[t].h] IN
  /\ pc[t].at = "check"
  /\ Goes(t, At(CASE o # Null /\ count[o] <= 2 -> "access"
                  [] call[t].op = "write" /\ count[o] > 2 -> "duplicate"
                  [] OTHER -> "allocate"))
  /\ UNCHANGED <<object, heap, once>>

\* is_one: an object no other handle refers to is changed in place.
Check(t) ==
  LET o == object[call[t].h] IN
  /\ pc[t].at = "check"
  /\ Goes(t, At(CASE o # Null /\ count[o] = 1 -> "access"
                  [] call[t].op = "write" /\ count[o] # 1 -> "duplicate"
                  [] OTHER -> "allocate"))
  /\ UNCHANGED <<object, heap, once>>

Access(t) ==
  /\ pc[t].at = "access"
  /\ value' = [value EXCEPT ![object[call[t].h]] = call[t].value]
  /\ Returns(t)
  /\ UNCHANGED <<object, count, once>>

\* allocate_move, of the value of the caller; a handle that had an object resets it.
Allocate(t, o) ==
  LET h == call[t].h IN
  /\ pc[t].at = "allocate" /\ New(o, call[t].value)
  /\ IF object[h] \in Object THEN Goes(t, Release(object[h], o)) /\ UNCHANGED object
     ELSE object' = [object EXCEPT ![h] = o] /\ Returns(t)
  /\ UNCHANGED once

(* Mutant: allocate is left to its default argument. *)
DuplicateDefault(t, o) ==
  /\ pc[t].at = "duplicate" /\ New(o, Default)
  /\ Goes(t, Release(object[call[t].h], o))
  /\ UNCHANGED <<object, once>>

\* allocate, of a copy of the value shared with others
Duplicate(t, o) ==
  LET shared == object[call[t].h] IN
  /\ pc[t].at = "duplicate" /\ New(o, value[shared])
  /\ Goes(t, Release(shared, o))
  /\ UNCHANGED <<object, once>>

(* Mutant: without memory the call starts again. *)
AllocateRetries(t) ==
  /\ pc[t].at \in {"allocate", "duplicate"}
  /\ Goes(t, At(IF call[t].op = "construct" THEN "allocate" ELSE "check"))
  /\ UNCHANGED <<object, heap, once>>

\* There is no memory, or a constructor of T throws.
AllocateThrows(t) ==
  /\ pc[t].at \in {"allocate", "duplicate"}
  /\ Returns(t)
  /\ UNCHANGED <<object, heap, once>>

EndRead(t) ==
  /\ pc[t].at = "read" /\ Returns(t) /\ UNCHANGED <<object, heap, once>>

StartRelease(t) ==
  /\ pc[t].at = "release"
  /\ Goes(t, Release(object[call[t].h], Dead))
  /\ UNCHANGED <<object, heap, once>>

\* What the caller of release does next: reset takes the new object.
Released(t) ==
  /\ object' = IF call[t].op = "exit" THEN object ELSE [object EXCEPT ![call[t].h] = pc[t].to]
  /\ IF call[t].op = "write" THEN Goes(t, At("access")) ELSE Returns(t)

Decrement(t) ==
  LET o == pc[t].obj IN
  /\ pc[t].at = "decrement"
  /\ count' = IF o = Null THEN count ELSE [count EXCEPT ![o] = @ - 1]
  /\ IF o # Null /\ count'[o] = 0
     THEN Goes(t, [pc[t] EXCEPT !.at = "destroy"]) /\ UNCHANGED object
     ELSE Released(t)
  /\ UNCHANGED <<value, once>>

Destroy(t) ==
  /\ pc[t].at = "destroy"
  /\ value' = [value EXCEPT ![pc[t].obj] = Free]
  /\ Released(t)
  /\ UNCHANGED <<count, once>>

Step(t) ==
  \/ EnterOnce(t) \/ InitThrows(t) \/ Copy(t) \/ Move(t) \/ Check(t) \/ Access(t)
  \/ AllocateThrows(t) \/ EndRead(t) \/ StartRelease(t) \/ Decrement(t) \/ Destroy(t)
  \/ \E o \in Object : InitDefault(t, o) \/ Allocate(t, o) \/ Duplicate(t, o)

Client(t) ==
  \E h \in Handle :
     \/ DefaultConstruct(t, h) \/ Read(t, h) \/ Destruct(t, h) \/ Exit(t, h)
     \/ \E v \in Value : Construct(t, h, v) \/ Assign(t, h, v) \/ Write(t, h, v)
     \/ \E g \in Handle : \/ \E op \in {"copy", "move"} : ConstructFrom(t, op, h, g)
                          \/ \E op \in {"assign_copy", "assign_move"} : AssignFrom(t, op, h, g)

Next == \E t \in Thread : Client(t) \/ Step(t)

\* A thread in a call goes on with it.
Spec == Init /\ [][Next]_vars /\ \A t \in Thread : WF_vars(Step(t))

(***************************************************************************)
(* Properties.                                                             *)
(***************************************************************************)
Replacing(h) ==
  {t \in Thread : /\ pc[t].at \in {"decrement", "destroy"}
                  /\ call[t].h = h /\ call[t].op # "exit"}

\* the object a handle stands for, also while a call on it releases another
Current(h) ==
  IF Replacing(h) = {} THEN object[h] ELSE pc[CHOOSE t \in Replacing(h) : TRUE].to

References(o) ==
  Cardinality({h \in Handle : Current(h) = o})
  + Cardinality({t \in Thread : pc[t].at = "decrement" /\ pc[t].obj = o})
  + IF default_s = o /\ ~exited THEN 1 ELSE 0

\* The count of an object is the number of handles that stand for it, of releases
\* that have not counted down yet, and the reference of default_s until exit; the
\* memory lives exactly as long as there is one or its destruction goes on.  So no
\* order of the atomic steps of copies, moves, resets and exceptions leaks an
\* object, frees it twice or frees it early (copy_on_write.hpp:316-341).
CountsReferences ==
  \A o \in Object :
     /\ count[o] = References(o)
     /\ value[o] # Free <=> \/ count[o] > 0
                            \/ \E t \in Thread : pc[t].at = "destroy" /\ pc[t].obj = o

\* the values a thread is in the middle of reading, or of changing or destroying
Reading(t) == IF pc[t].at \in {"read", "duplicate"} THEN {object[call[t].h]} ELSE {}
Writing(t) == CASE pc[t].at = "access" -> {object[call[t].h]}
                [] pc[t].at = "destroy" -> {pc[t].obj}
                [] OTHER -> {}

\* No thread changes or destroys a value while another reads, copies, changes or
\* destroys it, though is_one is asked before the use and other threads count up
\* and down in between: a thread that saw one reference is its only holder
\* (copy_on_write.hpp:60 "thread safe", 155-158, 179-182).
NoDataRace ==
  \A t, u \in Thread : t # u => Writing(t) \cap (Reading(u) \cup Writing(u)) = {}

\* A write takes effect at its access, any other call when the handle has its new
\* object: when an old one is released after that, only the return is to come.
Pending(t) ==
  \/ pc[t].at \notin {"idle", "decrement", "destroy"}
  \/ call[t] # NoCall /\ call[t].op \in {"write", "exit"}

Values == INSTANCE ValueHandles WITH
  val <- [h \in Handle |-> IF Current(h) \in Object THEN value[Current(h)] ELSE Current(h)],
  pending <- [t \in Thread |-> Pending(t)],
  Moved <- Null

\* The handles behave as values of their own (ValueHandles): sharing never shows,
\* not while another thread copies, writes or destroys a handle with the same
\* object, and a call that throws has changed no handle.
ImplementsValues == Values!Spec

\* a call is over, or waits to run init_default that threw in another thread
Returned(t) == call[t] = NoCall \/ (pc[t].at = "once" /\ flag_s = "none")

\* Every call returns: threads that wait in call_once for init_default are let in
\* when it is done, and find it theirs to run when it threw (once.hpp:33-36).  A
\* thread that others with throwing init_default overtake forever is excluded.
CallsReturn == \A t \in Thread : call[t] # NoCall ~> Returned(t)
=============================================================================
