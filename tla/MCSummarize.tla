---------------------------- MODULE MCSummarize ----------------------------
(* Both halves of pg_query_summary: the walk that fills the lists, and the     *)
(* truncation of the text.  They share no variable, so that each is run with   *)
(* the other at rest in an initial state.                                      *)
EXTENDS MCSummary, MCTruncate

VARIABLE running

SummarizeInit ==
  \/ /\ running = "walk"
     /\ query = (CHOOSE q \in Queries : TRUE) /\ truncate_limit = 0 /\ TruncateInit
     /\ Init
  \/ /\ running = "truncate"
     /\ tree = (CHOOSE t \in Trees : TRUE) /\ Init
     /\ TruncateInit

SummarizeNext ==
  \/ running = "walk" /\ Next /\ UNCHANGED <<truncate_vars, running>>
  \/ running = "truncate" /\ TruncateNext /\ UNCHANGED <<vars, running>>

SummarizeSpec ==
  SummarizeInit /\ [][SummarizeNext]_<<vars, truncate_vars, running>>
=============================================================================
