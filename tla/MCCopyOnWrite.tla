---------------------------- MODULE MCCopyOnWrite ----------------------------
(***************************************************************************)
(* Two threads with a handle each, that both may use, and memory for the   *)
(* default instance and a new object for either write: the configuration   *)
(* assigns the sets.                                                       *)
(***************************************************************************)
EXTENDS CopyOnWrite
=============================================================================
