----------------------------- MODULE StackDepth -----------------------------
(***************************************************************************)
(* The stack depth check of libpg_query on one thread: every call measures *)
(* the stack that is left below its own frame, sizes max_stack_depth to it *)
(* (src/pg_query.c), and recursive code compares how far it has come with  *)
(* that limit (stack_depth.c).  All sizes are in one unit, kB in the code. *)
(***************************************************************************)
EXTENDS Integers

CONSTANTS
  Headrooms,   \* stack left below the frames from which the host calls
  Slop,        \* STACK_DEPTH_SLOP
  Minimum,     \* the default of max_stack_depth, 100 kB
  Cap,         \* 2 MB
  MaxFrames,   \* stack that recursive code uses from one check to the next
  ErrorFrames, \* stack that raising the error uses
  Unknown      \* in place of a headroom: the stack's end cannot be determined

ASSUME StackAssumption ==
  /\ Headrooms \subseteq Nat \union {Unknown}
  /\ Unknown \notin Nat
  /\ Slop \in Nat /\ Minimum \in Nat /\ Cap \in Nat
  /\ MaxFrames \in Nat \ {0} /\ ErrorFrames \in Nat
  /\ Minimum <= Cap

\* The slop is there for what happens between two checks and for error handling.
ASSUME SlopAssumption == MaxFrames + ErrorFrames <= Slop

VARIABLES
  call_phase,       \* "host", "call" (checked) or "deeper" (not checked yet)
  headroom,         \* stack below the frame of the call under way
  max_stack_depth,  \* __thread, survives from call to call
  used,             \* distance from stack_base_ptr
  overflow          \* has a frame been pushed below the end of the stack?

depth_vars == <<call_phase, headroom, max_stack_depth, used, overflow>>

StackTypeOK ==
  /\ call_phase \in {"host", "call", "deeper"}
  /\ headroom \in Headrooms
  /\ max_stack_depth \in Minimum..Cap
  /\ used \in 0..(Cap + MaxFrames)
  /\ overflow \in BOOLEAN

StackInit ==
  /\ call_phase = "host"
  /\ headroom \in Headrooms
  /\ max_stack_depth = Minimum
  /\ used = 0
  /\ overflow = FALSE

\* Mutation: the limit is only ever raised.
LimitOnlyRaised(h, old) ==
  IF h = Unknown \/ h - Slop <= old THEN old
  ELSE IF h - Slop > Cap THEN Cap ELSE h - Slop

\* Mutation: the slop is not subtracted.
LimitWithoutSlop(h, old) ==
  IF h = Unknown \/ h <= Minimum THEN old ELSE IF h > Cap THEN Cap ELSE h

\* set_max_stack_depth: the limit for a call with headroom h; old is what the
\* previous call left in max_stack_depth.
Limit(h, old) ==
  IF h = Unknown \/ h - Slop <= Minimum THEN old
  ELSE IF h - Slop > Cap THEN Cap ELSE h - Slop

\* pg_query_enter_stack_depth_check: base and limit, from the same frame.
EnterStackDepthCheck(h) ==
  /\ call_phase = "host"
  /\ call_phase' = "call"
  /\ headroom' = h
  /\ max_stack_depth' = Limit(h, max_stack_depth)
  /\ used' = 0
  /\ UNCHANGED overflow

\* Recursion: frames are pushed, of functions that do not check themselves.
Descend(k) ==
  /\ call_phase = "call" /\ ~overflow
  /\ used' = used + k
  /\ overflow' = (headroom # Unknown /\ used + k > headroom)
  /\ call_phase' = "deeper"
  /\ UNCHANGED <<headroom, max_stack_depth>>

\* check_stack_depth: stack_is_too_deep() is false ...
CheckPasses ==
  /\ call_phase = "deeper" /\ ~overflow
  /\ used <= max_stack_depth
  /\ call_phase' = "call"
  /\ UNCHANGED <<headroom, max_stack_depth, used, overflow>>

\* ... or true: raising the error takes some more stack, then the PG_CATCH
\* near the base is reached.
CheckFails ==
  /\ call_phase = "deeper" /\ ~overflow
  /\ used > max_stack_depth
  /\ overflow' = (headroom # Unknown /\ used + ErrorFrames > headroom)
  /\ call_phase' = "call"
  /\ used' = 0
  /\ UNCHANGED <<headroom, max_stack_depth>>

\* The recursion returns some way.
Ascend(k) ==
  /\ call_phase = "call" /\ ~overflow
  /\ k <= used
  /\ used' = used - k
  /\ UNCHANGED <<call_phase, headroom, max_stack_depth, overflow>>

\* pg_query_exit_stack_depth_check: no base, so no check, outside of calls.
ExitStackDepthCheck ==
  /\ call_phase = "call" /\ ~overflow
  /\ used = 0
  /\ call_phase' = "host"
  /\ UNCHANGED <<headroom, max_stack_depth, used, overflow>>

StackNext ==
  \/ \E h \in Headrooms : EnterStackDepthCheck(h)
  \/ \E k \in 1..MaxFrames : Descend(k) \/ Ascend(k)
  \/ CheckPasses \/ CheckFails \/ ExitStackDepthCheck

StackSpec == StackInit /\ [][StackNext]_depth_vars

-----------------------------------------------------------------------------
(* Properties. *)

\* More stack is left than the slop and the default limit take: set_max_stack_depth
\* does not ignore what it has measured.
Roomy(h) == h # Unknown /\ h - Slop > Minimum

\* "raises an error before we overflow and crash": in a call that starts with
\* enough stack, recursive code stays above the end of it, the frames between two
\* checks and the error's own frames included, whatever limit the calls before
\* have left, be it ones with little stack or of unknown size.
NoStackOverflow == overflow => ~Roomy(headroom)

\* A limit that an earlier call left behind is not in force in a call that has
\* enough stack to get its own: the slop is free below it.
LimitLeavesSlop ==
  call_phase # "host" /\ Roomy(headroom) => max_stack_depth + Slop <= headroom

\* "Re-evaluated for each call", "the budget is sized to the stack left below it":
\* the limit of any call whose stack is known is the default or leaves the slop
\* free.  It does not hold: see the early return of Limit.
LimitFitsThisCall ==
  call_phase # "host" /\ headroom # Unknown =>
    max_stack_depth = Minimum \/ max_stack_depth + Slop <= headroom
=============================================================================
