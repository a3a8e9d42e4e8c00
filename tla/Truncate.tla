------------------------------ MODULE Truncate ------------------------------
(***************************************************************************)
(* pg_query_summary_truncate: the text of a query that is longer than a    *)
(* limit is made shorter by writing "..." for whole clauses, the deepest   *)
(* first and among those of one depth the longest first, with the query    *)
(* deparsed again after each; what is still too long is cut.               *)
(*                                                                         *)
(* A query is its clauses (target lists, WHERE clauses, VALUES lists,      *)
(* columns, queries of CTEs), each with the node that has it, the clauses  *)
(* it sits in, and the length of its own text, in bytes and characters.    *)
(***************************************************************************)
EXTENDS Integers, Sequences, FiniteSets, FiniteSetsExt

CONSTANTS
  Queries,    \* see QueriesAssumption
  Limits,     \* truncate_limit; an int, and -1 is not passed on
  SizeMod     \* 2^64: a size_t is a number modulo this

\* clauses: what the query consists of; node, within, kind: a clause's node, the
\* clauses around it, and what it is; above: the nodes around a node; raws: the
\* RawStmts; unwalked: nodes whose type the tree walker does not support; bytes,
\* chars: of a clause's own text; rest: the length of the text in no clause.
ASSUME QueriesAssumption ==
  \A q \in Queries : \A c \in q.clauses :
    /\ q.node[c] \notin q.raws
    /\ q.node[c] \notin q.above[q.node[c]]
    /\ IsFiniteSet(q.above[q.node[c]])
    /\ \A d \in q.within[c] : /\ d \in q.clauses
                              /\ q.node[d] \in q.above[q.node[c]]
                              /\ q.above[q.node[d]] \subseteq q.above[q.node[c]]
ASSUME LimitsAssumption ==
  /\ SizeMod \in Nat \ {0}
  /\ \A limit \in Limits : limit \in Int /\ limit < SizeMod

VARIABLES
  query, truncate_limit,
  truncations,  \* the possible truncations that have not been applied
  applied,      \* the ones that have, in their order
  status,       \* "start", "apply", "done"
  cut           \* history: was the text cut?

truncate_vars == <<query, truncate_limit, truncations, applied, status, cut>>

AsSize(n) == n % SizeMod

-----------------------------------------------------------------------------
(* The text of the query: what deparse_raw_stmt_list and global_replace     *)
(* produce when some clauses have been replaced.                            *)

\* What a dummy node looks like in the end.  A ResTarget with a name is
\* shortened after SELECT only: in SET it is "... = ...", and after SELECT
\* DISTINCT "... AS ...".
DummyLength(kind) == CASE kind = "set" -> 9
                       [] kind = "distinct" -> 10
                       [] OTHER -> 3

Total(weight, S) == MapThenSumSet(LAMBDA c : weight[c], S)

TextLength(own, replaced) ==
  LET visible == {c \in query.clauses : query.within[c] \intersect replaced = {}}
      weight == [c \in query.clauses |->
                   IF c \in replaced THEN DummyLength(query.kind[c]) ELSE own[c]]
  IN  query.rest + Total(weight, visible)

Bytes(replaced) == TextLength(query.bytes, replaced)
Chars(replaced) == TextLength(query.chars, replaced)

\* The length of a clause, in bytes, as the parser built it.
ClauseLength(c) ==
  Total(query.bytes, {d \in query.clauses : d = c \/ c \in query.within[d]})

\* What cols_len and its like make of it: the text of a statement with this clause
\* alone, less the text around the clause.  The INSERT built for a column list has
\* override = 1, OVERRIDING_USER_VALUE, and "OVERRIDING USER VALUE " is not taken
\* off again.
MeasuredLength(c) ==
  ClauseLength(c) + (IF query.kind[c] = "cols" THEN 22 ELSE 0)

-----------------------------------------------------------------------------
(* generate_possible_truncations walks the nodes; the depth goes up below    *)
(* every node but a RawStmt.                                                *)

Depth(c) == Cardinality(query.above[query.node[c]] \ query.raws)

Reached(c) == query.above[query.node[c]] \intersect query.unwalked = {}

\* Mutation: any clause is worth it.
AddTruncationAlways(c) == TRUE

\* "Don't bother truncating if it won't become shorter."
add_truncation(c) == MeasuredLength(c) > 3

generate_possible_truncations ==
  {c \in query.clauses : Reached(c) /\ add_truncation(c)}

\* Mutation: from the outside to the inside.
ComesFirstOutermost(a, b) ==
  \/ Depth(a) < Depth(b)
  \/ Depth(a) = Depth(b) /\ MeasuredLength(a) >= MeasuredLength(b)

\* cmp_possible_truncations: a is not sorted after b.  Equal ones come in any
\* order.
ComesFirst(a, b) ==
  \/ Depth(a) > Depth(b)
  \/ Depth(a) = Depth(b) /\ MeasuredLength(a) >= MeasuredLength(b)

TruncateInit ==
  /\ query \in Queries /\ truncate_limit \in Limits
  /\ truncations = {} /\ applied = <<>>
  /\ status = "start" /\ cut = FALSE

\* pg_query_summary_truncate: both sides of the comparison are ints.
Fits ==
  /\ status = "start" /\ Bytes({}) <= truncate_limit
  /\ status' = "done"
  /\ UNCHANGED <<query, truncate_limit, truncations, applied, cut>>

Generate ==
  /\ status = "start" /\ Bytes({}) > truncate_limit
  /\ truncations' = generate_possible_truncations
  /\ status' = "apply"
  /\ UNCHANGED <<query, truncate_limit, applied, cut>>

Applied == {applied[i] : i \in 1..Len(applied)}

\* One round of apply_truncations.  The comparison is one of size_t's.
Apply(c) ==
  /\ status = "apply" /\ c \in truncations
  /\ \A d \in truncations : ComesFirst(c, d)
  /\ applied' = Append(applied, c)
  /\ truncations' = truncations \ {c}
  /\ status' = IF Bytes(Applied \union {c}) <= AsSize(truncate_limit)
               THEN "done" ELSE "apply"
  /\ UNCHANGED <<query, truncate_limit, cut>>

\* Mutation: the ellipsis is appended to all of the characters that fit.
CutCharsNoRoom(n) == IF n <= AsSize(truncate_limit) THEN n ELSE truncate_limit + 3

\* truncate_mbstr on a text of n characters: pg_mbcharcliplen takes an int, and
\* finds nothing to keep when that is negative.
truncate_mbstr(n) ==
  IF n <= AsSize(truncate_limit) THEN n
  ELSE (IF truncate_limit < 3 THEN 0 ELSE truncate_limit - 3) + 3

\* Nothing is left to be replaced.
Cut ==
  /\ status = "apply" /\ truncations = {}
  /\ status' = "done" /\ cut' = TRUE
  /\ UNCHANGED <<query, truncate_limit, truncations, applied>>

TruncateNext == Fits \/ Generate \/ (\E c \in truncations : Apply(c)) \/ Cut

TruncateSpec == TruncateInit /\ [][TruncateNext]_truncate_vars

\* Of a text that was cut.
ResultChars == truncate_mbstr(Chars(Applied))

-----------------------------------------------------------------------------
(* Properties. *)

\* The state has its type, and no truncation is both pending and applied: each
\* round of apply_truncations goes on to the next one.
TypeOK ==
  /\ query \in Queries
  /\ truncations \subseteq query.clauses
  /\ applied \in Seq(query.clauses)
  /\ Applied \intersect truncations = {}
  /\ status \in {"start", "apply", "done"}
  /\ cut \in BOOLEAN

\* No round of apply_truncations is spent on a clause that an earlier round has
\* already removed from the query together with the clause around it: such a
\* round would change a node that is not in the tree any more.
AppliedAreLive ==
  \A j \in 1..Len(applied) : \A i \in 1..(j - 1) :
    applied[i] \notin query.within[applied[j]]

\* What survives is the outside of the query: a clause is given up only when
\* every deeper one that could be given up is gone.
OuterClausesSurvive ==
  \A c \in Applied : \A d \in truncations : Depth(d) <= Depth(c)

\* The text that is returned is within the limit, in bytes if whole clauses were
\* enough and otherwise in characters, or is an ellipsis when that has more; a limit
\* below zero is none; and the text is only ever cut when no clause is left to be
\* replaced.
ResultFits ==
  /\ (status = "done" /\ truncate_limit >= 0) =>
       IF cut THEN ResultChars <= truncate_limit \/ ResultChars <= 3
       ELSE Bytes(Applied) <= truncate_limit
  /\ cut => Applied = generate_possible_truncations

\* The kinds of clauses whose length add_truncation compares wrongly: the dummy of
\* a SET list or of a DISTINCT target list is longer than three characters, and a
\* column list is shorter than measured.
Misjudged == {"set", "distinct", "cols"}

\* Every round makes the text shorter, though the clauses inside of the one it
\* replaces may have been replaced before, and by something longer; of the
\* misjudged kinds, if the clause was longer than its dummy.
RoundsShorten ==
  [][\A c \in query.clauses :
       /\ applied' = Append(applied, c)
       /\ query.kind[c] \in Misjudged => ClauseLength(c) > DummyLength(query.kind[c])
       => Bytes(Applied \union {c}) < Bytes(Applied)]_truncate_vars

\* "Don't bother truncating if it won't become shorter": the same of every round,
\* of any kind.  It does not hold.
TruncationsShorten ==
  LET First(j) == {applied[i] : i \in 1..j}
  IN  \A j \in 1..Len(applied) : Bytes(First(j)) < Bytes(First(j - 1))
=============================================================================
