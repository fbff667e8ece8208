---------------------------- MODULE ValueHandles ----------------------------
(***************************************************************************)
(* What copy_on_write promises its clients: each handle has a value of its *)
(* own.  A call of any thread takes effect at one moment between its begin *)
(* and its return, or throws and has none.                                 *)
(***************************************************************************)
CONSTANTS
  Thread, Handle, Value,
  Default,     \* the value of a default constructed T
  Moved,       \* what a handle holds that was moved from
  Dead,        \* no copy_on_write lives under this name
  NoCall

VARIABLES
  val,         \* the value of each handle
  call,        \* the call each thread is in: its name, handle, source and value
  pending      \* its effect is still to come

Calls == [op : {"default", "construct", "copy", "move", "destroy", "assign", "assign_copy",
                "assign_move", "write", "read", "exit"},
          h : Handle, from : Handle, value : Value]

Apply(c, V) ==
  CASE c.op \in {"construct", "assign", "write"} -> [V EXCEPT ![c.h] = c.value]
    [] c.op = "default" -> [V EXCEPT ![c.h] = Default]
    [] c.op \in {"copy", "assign_copy"} -> [V EXCEPT ![c.h] = V[c.from]]
    [] c.op \in {"move", "assign_move"} -> [V EXCEPT ![c.from] = Moved, ![c.h] = V[c.from]]
    [] c.op = "destroy" -> [V EXCEPT ![c.h] = Dead]
    [] c.op \in {"read", "exit"} -> V

Init ==
  /\ val = [h \in Handle |-> Dead]
  /\ call = [t \in Thread |-> NoCall]
  /\ pending = [t \in Thread |-> FALSE]

Begin(t, c) ==
  /\ call[t] = NoCall
  /\ call' = [call EXCEPT ![t] = c] /\ pending' = [pending EXCEPT ![t] = TRUE]
  /\ UNCHANGED val

Effect(t) ==
  /\ pending[t] /\ pending' = [pending EXCEPT ![t] = FALSE]
  /\ val' = Apply(call[t], val)
  /\ call' \in {call, [call EXCEPT ![t] = NoCall]}

Return(t) ==
  /\ call[t] # NoCall /\ ~pending[t]
  /\ call' = [call EXCEPT ![t] = NoCall]
  /\ UNCHANGED <<val, pending>>

Throw(t) ==
  /\ pending[t]
  /\ call' = [call EXCEPT ![t] = NoCall] /\ pending' = [pending EXCEPT ![t] = FALSE]
  /\ UNCHANGED val

Next == \E t \in Thread : (\E c \in Calls : Begin(t, c)) \/ Effect(t) \/ Return(t) \/ Throw(t)

Spec == Init /\ [][Next]_<<val, call, pending>>
=============================================================================
