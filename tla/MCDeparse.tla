----------------------------- MODULE MCDeparse -----------------------------
(* Both halves of the deparser: the parentheses of expressions, and the layout *)
(* of statements with their comments.  They share no variable, so that each is *)
(* run with the other at rest in an initial state.                             *)
EXTENDS MCDeparseExpr, MCDeparseLayout

VARIABLE running

DeparseInit ==
  \/ /\ running = "expression"
     /\ query = (CHOOSE q \in Queries : TRUE) /\ opts = (CHOOSE o \in Options : TRUE)
     /\ Init /\ ExprInit
  \/ /\ running = "layout"
     /\ tree = Col /\ context = "a_expr" /\ ExprInit
     /\ Init

DeparseNext ==
  \/ running = "expression" /\ ExprNext /\ UNCHANGED <<vars, running>>
  \/ running = "layout" /\ Next /\ UNCHANGED <<expr_vars, running>>

DeparseSpec == DeparseInit /\ [][DeparseNext]_<<vars, expr_vars, running>>
=============================================================================
