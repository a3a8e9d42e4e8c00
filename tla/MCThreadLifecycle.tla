------------------------- MODULE MCThreadLifecycle -------------------------
(* ThreadLifecycle on a main thread and interchangeable workers. *)
EXTENDS ThreadLifecycle, TLC

\* The workers differ only in name.
WorkerSymmetry == Permutations(Threads \ {Main})
=============================================================================
