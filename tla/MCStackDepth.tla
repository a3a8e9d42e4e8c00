---------------------------- MODULE MCStackDepth ----------------------------
(* StackDepth in units of 100 kB: slop 5, default limit 1, cap 20. *)
EXTENDS StackDepth

\* Stacks that are ignored (3 is below the slop, 6 leaves just the default limit,
\* and one of unknown size), the smallest that is not, and both sides of the cap.
Calls == {Unknown, 3, 6, 7, 8, 12, 25, 26, 80}
=============================================================================
