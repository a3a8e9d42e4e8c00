------------------------------- MODULE Summary -------------------------------
(***************************************************************************)
(* pg_query_summary_walk (src/pg_query_summary.c): the walk over the parse *)
(* tree that collects relations, CTE names, functions and filter columns,  *)
(* and the pass after it that tells relations from references to CTEs.     *)
(*                                                                         *)
(* A tree is the sequence of its nodes in the order in which               *)
(* raw_expression_tree_walker meets them, a node before what is in it; the *)
(* node keeps the place of the last one in it.  The walk is then a cursor  *)
(* that moves forward, jumps to a WHERE clause to collect filter columns,  *)
(* and comes back.  Node types that the walker only passes through are     *)
(* left out; a JOIN stands for the range vars in it.                       *)
(***************************************************************************)
EXTENDS Naturals, Sequences, FiniteSets

CONSTANTS
  Trees,
  Names         \* of relations and CTEs

\* Utility statements: "drop" is DROP, "naming" the ones that name functions
\* (GRANT, RENAME, CREATE FUNCTION), "ddl" all others that are looked at.
Statements == {"select", "dml", "ddl", "drop", "naming"}

\* What the walk does not enter: RETURNING clauses, and the parts of utility
\* statements that no case asks for, such as the query of DECLARE CURSOR, column
\* definitions, rule actions, the body of a function and what DROP PROCEDURE names.
Closed == {"returning", "unwalked"}

\* "func" is a call, "name" a function that a utility statement names.
Kinds == Statements \union Closed \union {"rv", "col", "func", "name"}

\* What a node is to its parent.  "from": FROM or USING list, or the relation
\* of COPY; "target": the relation written to or defined; "source": what MERGE
\* uses; "with": the query of a CTE.
Roles == {"top", "list", "target", "source", "from", "where", "with"}

\* name: of the CTE with role "with", of the relation with kind "rv".  schema
\* and alias: does the range var have one?  A "col" is never a star.
Node == [kind : Kinds, role : Roles, parent : Nat, last : Nat,
         name : Names \union {""}, schema : BOOLEAN, alias : BOOLEAN,
         recursive : BOOLEAN]

\* What the grammar puts where: a statement that writes is of its own or part of
\* another statement; RETURNING is of a statement; a WITH clause is of SELECT and
\* DML; the relations that are recorded are of a statement, and DROP and the like
\* read none; and nothing comes in between the parts of a WHERE clause, which is
\* one field.
StandsRight(t, n) ==
  LET below == t[n].parent > 0 /\ t[t[n].parent].kind \in Statements
      above == t[t[n].parent].kind
  IN  /\ t[n].kind \in {"dml", "ddl", "drop", "naming", "unwalked"} =>
           t[n].role # "where" /\ (t[n].parent = 0 \/ below)
      /\ t[n].kind = "returning" => t[n].role # "where" /\ below
      /\ t[n].role = "with" => below /\ above \in {"select", "dml"}
      /\ t[n].kind = "rv" /\ t[n].role = "target" => below
      /\ t[n].kind = "rv" /\ t[n].role = "from" =>
           below /\ above \in {"select", "dml", "ddl"}
      /\ t[n].kind = "name" => /\ t[n].role = "list" /\ t[n].parent > 0
                               /\ above \in {"drop", "naming"} \union Closed
      /\ t[n].role = "where" =>
           \A k \in (n + 1)..Len(t), m \in (n + 1)..Len(t) :
             /\ m < k /\ t[m].parent = t[n].parent
             /\ t[k].parent = t[n].parent /\ t[k].role = "where"
             => t[m].role = "where"

IsTree(t) ==
  /\ t \in Seq(Node)
  /\ \A n \in 1..Len(t) :
       /\ n <= t[n].last /\ t[n].last <= Len(t)
       /\ t[n].parent < n
       /\ t[n].parent > 0 => t[n].last <= t[t[n].parent].last
       /\ \A m \in (n + 1)..t[n].last : t[m].parent >= n
       /\ t[n].kind \in {"rv", "name"} => t[n].last = n
  /\ \A n \in 1..Len(t) : StandsRight(t, n)

ASSUME TreesAssumption == \A t \in Trees : IsTree(t)

VARIABLES
  tree,
  phase,        \* "walk", "resolve" or "done"
  at,           \* the next node, or the next range var
  save_filter_columns,
  owner,        \* the SelectStmt whose WHERE clause is walked for its columns
  cte_names,    \* only asked for membership
  cte_self_reference_range_vars,
  range_vars, functions, filter_columns, tables, aliases   \* lists of nodes

lists == <<cte_names, cte_self_reference_range_vars, range_vars, functions,
           filter_columns, tables, aliases>>
vars == <<tree, phase, at, save_filter_columns, owner, cte_names,
          cte_self_reference_range_vars, range_vars, functions, filter_columns,
          tables, aliases>>

Nodes == 1..Len(tree)
OfKind(k) == {n \in Nodes : tree[n].kind = k}
Children(s, role) == {n \in Nodes : tree[n].parent = s /\ tree[n].role = role}
Inside(n, m) == m <= n /\ n <= tree[m].last
Where(s) == {n \in Nodes : \E c \in Children(s, "where") : Inside(n, c)}
LastOf(S) == CHOOSE n \in S : \A m \in S : m <= n
FirstOf(S) == CHOOSE n \in S : \A m \in S : n <= m
InOrder(S) ==
  CHOOSE list \in [1..Cardinality(S) -> S] :
    \A i, j \in 1..Cardinality(S) : i < j => list[i] < list[j]
Count(list, n) == Cardinality({k \in 1..Len(list) : list[k] = n})

Init ==
  /\ tree \in Trees
  /\ phase = "walk" /\ at = 1
  /\ save_filter_columns = FALSE /\ owner = 0
  /\ cte_names = {} /\ cte_self_reference_range_vars = {}
  /\ range_vars = <<>> /\ functions = <<>> /\ filter_columns = <<>>
  /\ tables = <<>> /\ aliases = <<>>

-----------------------------------------------------------------------------
(* pg_query_summary_walk_impl *)

\* The columns of a WHERE clause have all been met.
FilterPassOver == save_filter_columns /\ at > LastOf(Where(owner))

Meets(kind) ==
  /\ phase = "walk" /\ at \in Nodes /\ ~FilterPassOver
  /\ tree[at].kind = kind

\* pg_query_raw_tree_walker_supports knows neither T_ReturningClause nor a utility
\* statement: no walker enters what is closed.
ClosedNodes == {n \in Nodes : tree[n].kind \in Closed}
Entered(n) == \A r \in ClosedNodes : n = r \/ ~Inside(n, r)

\* cte_self_reference_walker on the definition of c.
SelfReferences(c) ==
  {r \in OfKind("rv") : /\ Inside(r, c) /\ Entered(r)
                        /\ ~tree[r].schema /\ tree[r].name = tree[c].name}

\* Mutation: WITH RECURSIVE makes no difference.
HandleWithClauseIgnoringRecursive(s) ==
  LET ctes == Children(s, "with")
      Known(c) == cte_names \union {tree[d].name : d \in {e \in ctes : e < c}}
  IN  /\ cte_self_reference_range_vars' = cte_self_reference_range_vars \union
           UNION {SelfReferences(c) : c \in {d \in ctes : tree[d].name \notin Known(d)}}
      /\ cte_names' = cte_names \union {tree[c].name : c \in ctes}

\* A name that is known already, from an enclosing scope or an earlier CTE of
\* the clause, resolves to that CTE inside the definition.
handle_with_clause(s) ==
  LET ctes == Children(s, "with")
      Known(c) == cte_names \union {tree[d].name : d \in {e \in ctes : e < c}}
  IN  /\ cte_self_reference_range_vars' = cte_self_reference_range_vars \union
           UNION {SelfReferences(c) : c \in {d \in ctes :
                    ~tree[s].recursive /\ tree[d].name \notin Known(d)}}
      /\ cte_names' = cte_names \union {tree[c].name : c \in ctes}

\* add_range_var, add_range_var_list
RangeVars(s, role) == InOrder(Children(s, role) \intersect OfKind("rv"))

\* Mutation: a sub-SELECT is entered in the first pass over WHERE as well.
SelectStmtInBothPasses ==
  /\ Meets("select")
  /\ handle_with_clause(at)
  /\ range_vars' = range_vars \o RangeVars(at, "from") \o RangeVars(at, "target")
  /\ IF Where(at) = {} \/ save_filter_columns
     THEN at' = at + 1 /\ UNCHANGED <<save_filter_columns, owner>>
     ELSE /\ at' = FirstOf(Where(at))
          /\ save_filter_columns' = TRUE /\ owner' = at
  /\ UNCHANGED <<tree, phase, functions, filter_columns, tables, aliases>>

\* The WHERE clause is walked twice, first for its filter columns.
SelectStmt ==
  /\ Meets("select") /\ ~save_filter_columns
  /\ handle_with_clause(at)
  /\ range_vars' = range_vars \o RangeVars(at, "from") \o RangeVars(at, "target")
  /\ IF Where(at) = {}
     THEN at' = at + 1 /\ UNCHANGED <<save_filter_columns, owner>>
     ELSE /\ at' = FirstOf(Where(at))
          /\ save_filter_columns' = TRUE /\ owner' = at
  /\ UNCHANGED <<tree, phase, functions, filter_columns, tables, aliases>>

\* Mutation: the walk goes on behind the clause that it has only searched for
\* columns.
EndFilterPassBehindClause ==
  /\ phase = "walk" /\ save_filter_columns
  /\ FilterPassOver \/ Meets("select")
  /\ save_filter_columns' = FALSE
  /\ at' = LastOf(Where(owner)) + 1
  /\ UNCHANGED <<tree, phase, owner, lists>>

\* A sub-SELECT makes the walker return true, and that ends the whole pass;
\* otherwise the pass ends behind the WHERE clause.  Then the statement is
\* walked from its beginning.
EndFilterPass ==
  /\ phase = "walk" /\ save_filter_columns
  /\ FilterPassOver \/ Meets("select")
  /\ save_filter_columns' = FALSE
  /\ at' = owner + 1
  /\ UNCHANGED <<tree, phase, owner, lists>>

\* INSERT, UPDATE, DELETE and MERGE; the source of a MERGE is not recorded.
DmlStmt ==
  /\ Meets("dml")
  /\ handle_with_clause(at)
  /\ range_vars' = range_vars \o RangeVars(at, "target") \o RangeVars(at, "from")
  /\ at' = at + 1
  /\ UNCHANGED <<tree, phase, save_filter_columns, owner, functions,
                 filter_columns, tables, aliases>>

\* COPY, ALTER TABLE, CREATE TABLE, VIEW, INDEX, TRIGGER and RULE, TRUNCATE, VACUUM,
\* REFRESH, LOCK: the relations they are about, and a query or an expression.
DdlStmt ==
  /\ Meets("ddl")
  /\ range_vars' = range_vars \o RangeVars(at, "target") \o RangeVars(at, "from")
  /\ at' = at + 1
  /\ UNCHANGED <<tree, phase, save_filter_columns, owner, cte_names,
                 cte_self_reference_range_vars, functions, filter_columns,
                 tables, aliases>>

\* The functions that a utility statement names.
Named(s) == OfKind("name") \intersect Children(s, "list")

\* All relations, or the relations of all rules or triggers; of functions only
\* the first: linitial(stmt->objects).
DropStmt ==
  /\ Meets("drop")
  /\ range_vars' = range_vars \o RangeVars(at, "target")
  /\ functions' = IF Named(at) = {} THEN functions
                  ELSE Append(functions, FirstOf(Named(at)))
  /\ at' = at + 1
  /\ UNCHANGED <<tree, phase, save_filter_columns, owner, cte_names,
                 cte_self_reference_range_vars, filter_columns, tables, aliases>>

\* GRANT, RENAME with the old and the new name, CREATE FUNCTION.
NamingStmt ==
  /\ Meets("naming")
  /\ range_vars' = range_vars \o RangeVars(at, "target")
  /\ functions' = functions \o InOrder(Named(at))
  /\ at' = at + 1
  /\ UNCHANGED <<tree, phase, save_filter_columns, owner, cte_names,
                 cte_self_reference_range_vars, filter_columns, tables, aliases>>

FuncCall ==
  /\ Meets("func")
  /\ functions' = Append(functions, at)
  /\ at' = at + 1
  /\ UNCHANGED <<tree, phase, save_filter_columns, owner, cte_names,
                 cte_self_reference_range_vars, range_vars, filter_columns,
                 tables, aliases>>

ColumnRef ==
  /\ Meets("col")
  /\ filter_columns' = IF save_filter_columns THEN Append(filter_columns, at)
                       ELSE filter_columns
  /\ at' = at + 1
  /\ UNCHANGED <<tree, phase, save_filter_columns, owner, cte_names,
                 cte_self_reference_range_vars, range_vars, functions, tables,
                 aliases>>

\* The walk passes what its statement has recorded ...
RangeVar ==
  /\ Meets("rv") \/ Meets("name")
  /\ at' = at + 1
  /\ UNCHANGED <<tree, phase, save_filter_columns, owner, lists>>

\* ... and goes round what is closed.
Unsupported ==
  /\ Meets("returning") \/ Meets("unwalked")
  /\ at' = tree[at].last + 1
  /\ UNCHANGED <<tree, phase, save_filter_columns, owner, lists>>

-----------------------------------------------------------------------------
(* The range vars, after the walk. *)

EndWalk ==
  /\ phase = "walk" /\ at > Len(tree) /\ ~save_filter_columns
  /\ phase' = "resolve" /\ at' = 1
  /\ UNCHANGED <<tree, save_filter_columns, owner, lists>>

\* Mutation: what is written to can be a CTE, too.
IsCteReferenceInAnyContext(r) ==
  /\ ~tree[r].schema
  /\ tree[r].name \in cte_names
  /\ r \notin cte_self_reference_range_vars

\* Only a "from" is recorded with CONTEXT_SELECT.
is_cte_reference(r) ==
  /\ tree[r].role = "from"
  /\ ~tree[r].schema
  /\ tree[r].name \in cte_names
  /\ r \notin cte_self_reference_range_vars

handle_range_var ==
  /\ phase = "resolve" /\ at <= Len(range_vars)
  /\ tables' = IF is_cte_reference(range_vars[at]) THEN tables
               ELSE Append(tables, range_vars[at])
  /\ aliases' = IF tree[range_vars[at]].alias THEN Append(aliases, range_vars[at])
                ELSE aliases
  /\ at' = at + 1
  /\ UNCHANGED <<tree, phase, save_filter_columns, owner, cte_names,
                 cte_self_reference_range_vars, range_vars, functions,
                 filter_columns>>

Finish ==
  /\ phase = "resolve" /\ at > Len(range_vars)
  /\ phase' = "done"
  /\ UNCHANGED <<tree, at, save_filter_columns, owner, lists>>

Next ==
  \/ SelectStmt \/ EndFilterPass \/ DmlStmt
  \/ DdlStmt \/ DropStmt \/ NamingStmt
  \/ FuncCall \/ ColumnRef \/ RangeVar \/ Unsupported
  \/ EndWalk \/ handle_range_var \/ Finish

Spec == Init /\ [][Next]_vars

-----------------------------------------------------------------------------
(* What SQL says of the names. *)

Ctes == {c \in Nodes : tree[c].role = "with"}

\* A CTE is seen by the statement its WITH clause belongs to and by the CTEs
\* after it; by itself and the ones before it too with WITH RECURSIVE.
Sees(r, c) ==
  LET s == tree[c].parent
  IN  /\ Inside(r, s)
      /\ \A d \in Children(s, "with") :
           Inside(r, d) => tree[s].recursive \/ c < d

RefersToCte(r) ==
  /\ tree[r].role \in {"from", "source"} /\ ~tree[r].schema
  /\ \E c \in Ctes : tree[c].name = tree[r].name /\ Sees(r, c)

\* The range vars the walk gets to see: not in what is closed, not MERGE's source,
\* not in FOR UPDATE OF.
Recorded ==
  {r \in OfKind("rv") : Entered(r) /\ tree[r].role \in {"from", "target"}}

\* No two CTEs share a name, and who uses the name of a CTE sees it or is in its
\* definition.
NamesAreClear ==
  /\ \A c, d \in Ctes : tree[c].name = tree[d].name => c = d
  /\ \A r \in Recorded, c \in Ctes :
       tree[r].role = "from" /\ ~tree[r].schema /\ tree[r].name = tree[c].name
         => Sees(r, c) \/ Inside(r, c)

-----------------------------------------------------------------------------
(* Properties. *)

\* is_cte_reference tells CTEs from relations as long as the names are clear:
\* the tables of the summary are then the range vars that do not refer to a CTE.
\* Without that, a relation with the name of a CTE that it cannot see is missing,
\* since there is one list of CTE names for the whole input.
TablesAreRelationsIfClear ==
  phase = "done" /\ NamesAreClear =>
    \A r \in Recorded : Count(tables, r) = IF RefersToCte(r) THEN 0 ELSE 1

\* Without any condition: no mention of a relation is listed twice, though WHERE
\* is walked twice; one that is written to, qualified by a schema, or named like
\* no CTE is listed; a reference to a CTE only gets into the list from inside the
\* definition of a CTE of the same name; and every alias is listed once, of
\* relations and CTEs.
MentionsListedOnce ==
  phase = "done" =>
    \A r \in OfKind("rv") :
      /\ Count(tables, r) <= 1
      /\ r \in Recorded /\ (\/ tree[r].role = "target" \/ tree[r].schema
                            \/ \A c \in Ctes : tree[c].name # tree[r].name)
           => Count(tables, r) = 1
      /\ Count(tables, r) = 1 /\ RefersToCte(r)
           => \E c \in Ctes : Inside(r, c) /\ tree[c].name = tree[r].name
      /\ Count(aliases, r) = IF r \in Recorded /\ tree[r].alias THEN 1 ELSE 0

\* The SELECT whose WHERE clause a column is in, with no SELECT in between.
InWhereOf(n, s) ==
  /\ tree[s].kind = "select" /\ n \in Where(s)
  /\ \A m \in OfKind("select") \intersect Where(s) : ~Inside(n, m)

\* Is in the WHERE clause of a SELECT.
Filters(n) == \E s \in Nodes : InWhereOf(n, s)

\* No part of a WHERE clause before it is a sub-SELECT.
BeforeSubselects(n) ==
  \E s \in Nodes : /\ InWhereOf(n, s)
                   /\ \A m \in OfKind("select") \intersect Where(s) : n < m

\* Though WHERE is walked twice and the walk goes through other expressions with the
\* same code, save_filter_columns is on for columns of the WHERE clauses of SELECTs
\* only, and no more than once for each; and a column that no sub-SELECT stands
\* before is listed.
FilterColumnsOfWhere ==
  phase = "done" =>
    \A n \in OfKind("col") :
      /\ Count(filter_columns, n) <= 1
      /\ Count(filter_columns, n) = 1 => Entered(n) /\ Filters(n)
      /\ Entered(n) /\ BeforeSubselects(n) => Count(filter_columns, n) = 1

\* What the comments on both passes over a WHERE clause say: a sub-SELECT is not
\* descended into, so that the filter columns are, each once, the columns of WHERE
\* clauses of SELECTs that are not within a sub-SELECT of the clause.  The walk does
\* not do that: at the sub-SELECT it returns true, which ends the pass, and the
\* columns after it are lost.
FilterColumnsSkipSubselects ==
  phase = "done" =>
    \A n \in OfKind("col") :
      Count(filter_columns, n) = IF Entered(n) /\ Filters(n) THEN 1 ELSE 0

\* DROP FUNCTION names it, but not as the first one.
DroppedLater(n) ==
  /\ tree[n].kind = "name" /\ tree[tree[n].parent].kind = "drop"
  /\ n # FirstOf(Named(tree[n].parent))

\* add_function: a function that the walk gets to is listed, called or named, but
\* for the later ones of DROP FUNCTION; and it is listed once, or at most twice if
\* it is called in the WHERE clause of a SELECT, however such clauses nest.
FunctionsListed ==
  phase = "done" =>
    \A n \in OfKind("func") \union OfKind("name") :
      /\ Count(functions, n) <= IF Filters(n) THEN 2 ELSE 1
      /\ Entered(n) /\ ~DroppedLater(n) => Count(functions, n) >= 1
=============================================================================
