----------------------------- MODULE MCSummary -----------------------------
(* Summary, on every tree that a few growing steps can build. *)
EXTENDS Summary

New(kind, role, name) ==
  [kind |-> kind, role |-> role, name |-> name, schema |-> FALSE,
   alias |-> kind = "rv" /\ role = "from", recursive |-> FALSE, parent |-> 0, last |-> 0]

\* What may be put into a node, in the order of the walk; a statement that
\* writes comes with its target.
Rank == [target |-> 1, list |-> 2, source |-> 3, from |-> 4, where |-> 5,
         returning |-> 6, with |-> 7]
Rv(role, n) == <<New("rv", role, n)>>
Sub(role) == <<New("select", role, "")>>
Cte(n) == <<New("select", "with", n)>>
WithSchema(n) == <<[New("rv", "from", n) EXCEPT !.schema = TRUE]>>
Dml(role, name, target) == <<New("dml", role, name), New("rv", "target", target)>>

\* t with what put below p, its rightmost path; ancestors grow with it.
Put(t, p, what) ==
  LET end == Len(t) + Len(what)
      old == [n \in 1..Len(t) |->
                IF p > 0 /\ n <= p /\ t[n].last >= p
                THEN [t[n] EXCEPT !.last = end] ELSE t[n]]
      new == [k \in 1..Len(what) |->
                [what[k] EXCEPT !.parent = IF k = 1 THEN p ELSE Len(t) + 1,
                                !.last = IF k = 1 THEN end ELSE Len(t) + k]]
  IN  old \o new

RightmostPath(t) == {n \in 1..Len(t) : t[n].last = Len(t)}
RankOf(node) == IF node.kind = "returning" THEN 6 ELSE Rank[node.role]
LastRank(t, p) ==
  LET below == {n \in 1..Len(t) : t[n].parent = p}
  IN  IF below = {} THEN 0
      ELSE RankOf(t[CHOOSE n \in below : \A m \in below : m <= n])

Grow(t, Tops, Below(_)) ==
  {Put(t, 0, what) : what \in Tops} \union
  UNION {{Put(t, p, what) :
            what \in {w \in Below(t[p].kind) : RankOf(w[1]) >= LastRank(t, p)}} :
         p \in RightmostPath(t)}

Grown(steps, Tops, Below(_)) ==
  LET g[k \in 0..steps] ==
        IF k = 0 THEN {<<>>} ELSE UNION {Grow(t, Tops, Below) : t \in g[k - 1]}
  IN  g[steps]

\* With WITH clauses recursive or not.
OrRecursive(ts) ==
  ts \union {[n \in 1..Len(t) |->
                IF t[n].kind \in {"select", "dml"}
                THEN [t[n] EXCEPT !.recursive = TRUE] ELSE t[n]] : t \in ts}

\* Names and scopes.
NameTops == {Sub("top")}
NamesBelow(kind) ==
  IF kind = "select"
  THEN {Rv("from", "a"), Rv("from", "b"), Sub("from"), Cte("a"), Cte("b")}
  ELSE {}

\* Statements that write, and what goes with them.
WriteTops == {Sub("top"), Dml("top", "", "a"),
              <<New("ddl", "top", ""), New("rv", "target", "a")>>,
              <<New("ddl", "top", "")>>}
WritesBelow(kind) ==
  CASE kind = "select" -> {Rv("target", "a"), Rv("from", "a"), WithSchema("a"),
                           Cte("a"), Dml("with", "a", "a")}
    [] kind = "dml" -> {Rv("source", "a"), Rv("from", "a"), Sub("from"), Cte("a"),
                        <<New("returning", "list", "")>>}
    [] kind = "ddl" -> {<<New("func", "list", "")>>, Rv("from", "a"), Sub("from")}
    [] kind = "returning" -> {Sub("list"), <<New("func", "list", "")>>}
    [] OTHER -> {}

\* Utility statements.
UtilityTops ==
  {<<New(k, "top", "")>> : k \in {"ddl", "drop", "naming", "unwalked", "func"}}
UtilitiesBelow(kind) ==
  CASE kind \in {"drop", "naming"} -> {Rv("target", "a"), <<New("name", "list", "")>>}
    [] kind = "ddl" -> {Rv("target", "a"), Sub("from"), <<New("func", "list", "")>>,
                        <<New("unwalked", "list", "")>>}
    [] kind = "unwalked" -> {<<New("name", "list", "")>>, <<New("func", "list", "")>>,
                             Rv("list", "a"), Sub("list")}
    [] kind = "select" -> {Rv("from", "a"), <<New("func", "where", "")>>}
    [] OTHER -> {}

\* WHERE clauses.
FilterTops == {Sub("top"), Dml("top", "", "a")}
FiltersBelow(kind) ==
  CASE kind = "select" -> {<<New("func", "list", "")>>, Rv("from", "a"),
                           <<New("col", "where", "")>>,
                           <<New("func", "where", "")>>, Sub("where")}
    [] kind = "dml" -> {<<New("col", "where", "")>>, Sub("where")}
    [] kind = "func" -> {<<New("col", "list", "")>>, Sub("list")}
    [] OTHER -> {}

MCTrees ==
  OrRecursive(Grown(5, NameTops, NamesBelow))
    \union OrRecursive(Grown(4, WriteTops, WritesBelow))
    \union Grown(4, UtilityTops, UtilitiesBelow)
    \union Grown(5, FilterTops, FiltersBelow)
=============================================================================
