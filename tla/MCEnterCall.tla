---------------------------- MODULE MCEnterCall ----------------------------
(* Both halves of entering a call: the thread's memory contexts and its stack *)
(* limit.  They share no variable, so that their interleavings show nothing    *)
(* new: each is run with the other at rest in an initial state.                *)
EXTENDS MCThreadLifecycle, MCStackDepth

VARIABLE running

EnterInit ==
  /\ Init /\ StackInit
  /\ running \in {"memory", "stack"}
  /\ running = "memory" => headroom = Unknown

EnterNext ==
  \/ running = "memory" /\ Next /\ UNCHANGED <<depth_vars, running>>
  \/ running = "stack" /\ StackNext /\ UNCHANGED <<vars, running>>
  \* The process has ended.
  \/ overflow /\ UNCHANGED <<vars, depth_vars, running>>

EnterSpec == EnterInit /\ [][EnterNext]_<<vars, depth_vars, running>>
=============================================================================
