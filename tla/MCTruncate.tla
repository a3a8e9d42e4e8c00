----------------------------- MODULE MCTruncate -----------------------------
(* Truncate on three shapes of queries, with clauses of several lengths. *)
EXTENDS Truncate

\* Node 0 is the RawStmt, node 1 its statement.
Query(node, within, kind, above, unwalked, own, wide) ==
  [clauses |-> DOMAIN node, node |-> node, within |-> within, kind |-> kind,
   above |-> above, raws |-> {0}, unwalked |-> unwalked,
   bytes |-> [c \in DOMAIN node |-> own[c] + (IF c = wide THEN 2 ELSE 0)],
   chars |-> own, rest |-> 8]

\* UPDATE .. SET 1 WHERE 2, where 2 has a subselect with targets 3, WHERE 4.
Subselects ==
  {Query(<<1, 1, 5, 5>>, <<{}, {}, {2}, {2}>>, <<"set", "where", k, "where">>,
         <<{0}, {0, 1}, {0, 1, 2}, {0, 1, 2, 3}, {0, 1, 2, 3, 4}>>, u,
         <<a, 8, b, c>>, w) :
     k \in {"select", "distinct"}, u \in {{}, {3}}, w \in {0, 1, 3},
     a \in {5, 10}, b \in {1, 4, 6}, c \in {3, 4, 6}}

\* WITH x AS (1) SELECT 3 ..., with targets 2 in the CTE.
WithQueries ==
  {Query(<<3, 4, 1>>, <<{}, {1}, {}>>, <<"cte", "select", k>>,
         <<{0}, {0, 1}, {0, 1, 2}, {0, 1, 2, 3}>>, {}, <<8, a, b>>, w) :
     k \in {"select", "distinct"}, w \in {0, 1, 2}, a \in 1..6, b \in 1..6}

\* INSERT INTO t (1) VALUES (2) ON CONFLICT DO UPDATE SET 3 WHERE 4.
Inserts ==
  {Query(<<1, 2, 2, 2>>, <<{}, {}, {}, {}>>, <<"cols", "values", "set", "where">>,
         <<{0}, {0, 1}>>, {}, <<a, b, c, d>>, w) :
     w \in {0, 4}, a \in {1, 4}, b \in {3, 5}, c \in {5, 9, 11}, d \in {5, 9}}

\* INSERT INTO t (1) SELECT 2, with a column list of one, two or four bytes.
ColumnLists ==
  {Query(<<1, 2>>, <<{}, {}>>, <<"cols", "select">>, <<{0}, {0, 1}>>, {}, <<a, b>>, 0) :
     a \in {1, 2, 4}, b \in {4, 6}}

MCQueries == Subselects \union WithQueries \union Inserts
MCLimits == {-3} \union 0..42
=============================================================================
