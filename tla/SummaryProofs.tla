---------------------------- MODULE SummaryProofs ----------------------------
(***************************************************************************)
(* Proofs about Summary, for trees of any size: what the walk lists, it    *)
(* lists as often as it should, though it goes through each WHERE clause   *)
(* twice; and what is listed as a table is no reference to a CTE.          *)
(*                                                                         *)
(* The walk is a cursor.  The inductive invariant says of every node       *)
(* whether the cursor has passed it, and whether a search for filter       *)
(* columns has; the lists hold what follows from the two.                  *)
(***************************************************************************)
EXTENDS Summary, FiniteSetTheorems, SequenceTheorems, WellFoundedInduction, TLAPS

-----------------------------------------------------------------------------
(* The invariant. *)

TypeInv ==
  /\ tree \in Trees
  /\ phase \in {"walk", "resolve", "done"} /\ at \in Nat \ {0}
  /\ save_filter_columns \in BOOLEAN
  /\ owner \in Nat
  /\ cte_self_reference_range_vars \subseteq OfKind("rv")
  /\ range_vars \in Seq(Nat) /\ functions \in Seq(Nat)
  /\ filter_columns \in Seq(Nat) /\ tables \in Seq(Nat) /\ aliases \in Seq(Nat)

\* How far the walk is, the searches of WHERE clauses aside.
Here ==
  IF phase # "walk" THEN Len(tree) + 1
  ELSE IF save_filter_columns THEN owner + 1 ELSE at

\* Not within a closed part; its node itself is not within it.
Outside(p) == \A r \in ClosedNodes : ~(r < p /\ p <= tree[r].last)

\* A search stays in its WHERE clause, and has met no statement in it.
Cursor ==
  /\ phase = "walk" => Outside(at)
  /\ phase # "walk" => ~save_filter_columns
  /\ phase = "walk" /\ ~save_filter_columns => at <= Len(tree) + 1
  /\ save_filter_columns =>
       /\ owner \in OfKind("select") /\ Outside(owner) /\ Where(owner) # {}
       /\ FirstOf(Where(owner)) <= at /\ at <= LastOf(Where(owner)) + 1
       /\ \A m \in Where(owner) : tree[m].kind \in Statements => at <= m

Passed(n) == Outside(n) /\ n < Here

\* The nodes that the search of a WHERE clause gets to.
Reached(n, s) ==
  /\ s \in OfKind("select") /\ n \in Where(s) /\ Outside(n)
  /\ \A m \in OfKind("select") \intersect Where(s) : n < m

\* A search has been there.
Searched(n) ==
  \E s \in Nodes : /\ Reached(n, s) /\ s < Here
                   /\ save_filter_columns /\ s = owner => n < at

Once(b) == IF b THEN 1 ELSE 0

FunctionsSoFar ==
  \A n \in OfKind("func") :
    Count(functions, n) = Once(Passed(n)) + Once(Searched(n))

\* The names that their statement lists, when the walk passes it.
ListedNames ==
  {n \in OfKind("name") : /\ Entered(n) /\ ~DroppedLater(n)
                          /\ tree[tree[n].parent].kind \in {"drop", "naming"}}

NamesSoFar ==
  \A n \in OfKind("name") :
    Count(functions, n) = Once(n \in ListedNames /\ tree[n].parent < Here)

ColumnsSoFar ==
  \A n \in OfKind("col") : Count(filter_columns, n) = Once(Searched(n))

\* A statement that the walk has passed has recorded its range vars ...
RangeVarsSoFar ==
  /\ \A k \in 1..Len(range_vars) : range_vars[k] \in Recorded
  /\ \A r \in Recorded : Count(range_vars, r) = Once(tree[r].parent < Here)

\* ... and its CTEs, with the references that are to tables in spite of them.
Met(c) == Outside(c) /\ tree[c].parent < Here
OwnName(c) == \A d \in Ctes : tree[d].name = tree[c].name => d = c
Plain(c) == ~tree[tree[c].parent].recursive

CtesSoFar ==
  /\ cte_names = {tree[c].name : c \in {d \in Ctes : Met(d)}}
  /\ \A r \in cte_self_reference_range_vars :
       \E c \in Ctes : Plain(c) /\ r \in SelfReferences(c)
  /\ \A c \in Ctes :
       Met(c) /\ Plain(c) /\ OwnName(c)
         => SelfReferences(c) \subseteq cte_self_reference_range_vars

\* The first m of a list.
CountTo(list, m, n) == Cardinality({k \in 1..m : list[k] = n})

TablesSoFar ==
  /\ phase = "walk" => tables = <<>> /\ aliases = <<>>
  /\ phase # "walk" =>
       /\ at <= Len(range_vars) + 1
       /\ phase = "done" => at = Len(range_vars) + 1
       /\ \A r \in OfKind("rv") :
            /\ Count(tables, r) = IF is_cte_reference(r) THEN 0
                                  ELSE CountTo(range_vars, at - 1, r)
            /\ Count(aliases, r) = IF tree[r].alias
                                   THEN CountTo(range_vars, at - 1, r) ELSE 0

IndInv ==
  /\ TypeInv /\ Cursor /\ FunctionsSoFar /\ NamesSoFar /\ ColumnsSoFar
  /\ RangeVarsSoFar /\ CtesSoFar /\ TablesSoFar

-----------------------------------------------------------------------------
(* Trees. *)

\* What a tree is, node by node.
LEMMA TreeFacts ==
  ASSUME tree \in Trees
  PROVE  /\ Len(tree) \in Nat /\ Nodes = 1..Len(tree)
         /\ \A n \in Nodes :
              /\ tree[n].last \in Nat /\ n <= tree[n].last
              /\ tree[n].last <= Len(tree) /\ tree[n].last \in Nodes
              /\ tree[n].parent \in Nat /\ tree[n].parent < n
              /\ tree[n].parent > 0 =>
                   /\ tree[n].parent \in Nodes
                   /\ tree[n].last <= tree[tree[n].parent].last
              /\ tree[n].kind \in Kinds
<1>1. IsTree(tree)
  BY TreesAssumption
<1>2. tree \in Seq(Node) /\ Len(tree) \in Nat /\ Nodes = 1..Len(tree)
  BY <1>1 DEF IsTree, Nodes
<1>3. ASSUME NEW n \in Nodes
      PROVE  tree[n].last \in Nat /\ tree[n].parent \in Nat /\ tree[n].kind \in Kinds
  <2>1. tree[n] \in Node
    BY <1>2
  <2> QED BY <2>1 DEF Node
<1>4. \A n \in Nodes : /\ n <= tree[n].last /\ tree[n].last <= Len(tree)
                       /\ tree[n].parent < n
                       /\ tree[n].parent > 0 =>
                            tree[n].last <= tree[tree[n].parent].last
  BY <1>1, <1>2 DEF IsTree
<1> QED BY <1>2, <1>3, <1>4

\* What is in a node has its parent in it, too.
LEMMA ParentWithin ==
  ASSUME tree \in Trees, NEW m \in Nodes, NEW n \in Nodes, m < n,
         n <= tree[m].last
  PROVE  /\ m <= tree[n].parent /\ tree[n].parent \in Nodes
         /\ tree[n].parent < n
<1>1. n \in (m + 1)..tree[m].last
  BY TreeFacts
<1>2. tree[n].parent >= m
  BY <1>1, TreesAssumption DEF IsTree, Nodes
<1> QED BY <1>2, TreeFacts

\* The least of some natural numbers.
LEMMA LeastOf ==
  ASSUME NEW S \in SUBSET Nat, S # {}
  PROVE  \E x \in S : \A y \in S : x <= y
<1> DEFINE R == {ss \in Nat \X Nat : ss[1] < ss[2]}
<1>1. IsWellFoundedOn(R, Nat)
  BY NatLessThanWellFounded DEF OpToRel
<1> HIDE DEF R
<1>2. PICK x \in S : \A y \in S : ~(<<y, x>> \in R)
  BY <1>1, WFMin
<1>3. \A y \in S : y \in Nat /\ ~(y < x)
  BY <1>2 DEF R
<1> QED BY <1>3

\* The greatest of some natural numbers up to n.
LEMMA GreatestOf ==
  ASSUME NEW S \in SUBSET Nat, S # {}, NEW n \in Nat, \A y \in S : y <= n
  PROVE  \E x \in S : \A y \in S : y <= x
<1> DEFINE T == {n - y : y \in S}
<1>1. T \in SUBSET Nat /\ T # {}
  <2>1. \A y \in S : n - y \in Nat
    OBVIOUS
  <2>2. PICK y \in S : TRUE
    OBVIOUS
  <2>3. n - y \in T
    OBVIOUS
  <2> QED BY <2>1, <2>3
<1> HIDE DEF T
<1>2. PICK t \in T : \A u \in T : t <= u
  BY <1>1, LeastOf
<1>3. PICK x \in S : t = n - x
  BY DEF T
<1>4. \A y \in S : n - y \in T /\ y \in Nat
  BY DEF T
<1> QED BY <1>2, <1>3, <1>4

\* A node in another one ends in it.
LEMMA EndsWithin ==
  ASSUME tree \in Trees, NEW m \in Nodes, NEW n \in Nodes, m <= n,
         n <= tree[m].last
  PROVE  tree[n].last <= tree[m].last
<1> DEFINE S == {k \in Nodes : /\ m < k /\ k <= tree[m].last
                               /\ tree[m].last < tree[k].last}
<1>1. S = {}
  <2> SUFFICES ASSUME S # {} PROVE FALSE
    OBVIOUS
  <2>1. S \in SUBSET Nat
    BY TreeFacts
  <2>2. PICK k \in S : \A j \in S : k <= j
    BY <2>1, LeastOf
  <2>3. /\ m <= tree[k].parent /\ tree[k].parent \in Nodes /\ tree[k].parent < k
        /\ tree[k].last <= tree[tree[k].parent].last
    BY <2>2, ParentWithin, TreeFacts
  <2>4. tree[k].parent # m
    BY <2>2, <2>3, TreeFacts
  <2>5. tree[k].parent \in S
    BY <2>2, <2>3, <2>4, TreeFacts
  <2> QED BY <2>2, <2>3, <2>5, TreeFacts
<1> QED BY <1>1, TreeFacts

-----------------------------------------------------------------------------
(* What is closed. *)

\* Entered, in terms of positions.
LEMMA OutsideIsEntered ==
  ASSUME tree \in Trees, NEW n \in Nodes
  PROVE  Outside(n) <=> Entered(n)
<1>1. n \in Nat /\ \A r \in ClosedNodes : r \in Nat /\ tree[r].last \in Nat
  BY TreeFacts DEF ClosedNodes
<1> QED BY <1>1 DEF Outside, Entered, Inside

\* The walker steps over no closed node but by the action for it.
LEMMA OutsideNext ==
  ASSUME tree \in Trees, NEW p \in Nodes, Outside(p), tree[p].kind \notin Closed
  PROVE  Outside(p + 1)
<1> SUFFICES ASSUME NEW r \in ClosedNodes, r < p + 1,
                    p + 1 <= tree[r].last
             PROVE  FALSE
  BY DEF Outside
<1>1. r \in Nat /\ tree[r].last \in Nat /\ p \in Nat /\ r # p
  BY TreeFacts DEF ClosedNodes
<1>2. r < p /\ p <= tree[r].last
  BY <1>1
<1> QED BY <1>2 DEF Outside

\* Behind a closed part is outside of any.
LEMMA OutsideAfter ==
  ASSUME tree \in Trees, NEW p \in Nodes, Outside(p)
  PROVE  Outside(tree[p].last + 1)
<1> SUFFICES ASSUME NEW r \in ClosedNodes, r < tree[p].last + 1,
                    tree[p].last + 1 <= tree[r].last
             PROVE  FALSE
  BY DEF Outside
<1>1. /\ r \in Nodes /\ r \in Nat /\ tree[r].last \in Nat /\ p \in Nat
      /\ tree[p].last \in Nat /\ p <= tree[p].last
  BY TreeFacts DEF ClosedNodes
<1>2. CASE r < p
  BY <1>1, <1>2 DEF Outside
<1>3. CASE p <= r
  <2>1. tree[r].last <= tree[p].last
    BY <1>1, <1>3, EndsWithin
  <2> QED BY <1>1, <2>1
<1> QED BY <1>1, <1>2, <1>3

\* What a node that is outside is in, is outside.
LEMMA OutsideAbove ==
  ASSUME tree \in Trees, NEW m \in Nodes, NEW n \in Nodes, Inside(n, m),
         Outside(n)
  PROVE  Outside(m)
<1> SUFFICES ASSUME NEW r \in ClosedNodes, r < m, m <= tree[r].last
             PROVE  FALSE
  BY DEF Outside
<1>1. /\ r \in Nodes /\ r \in Nat /\ tree[r].last \in Nat
      /\ m \in Nat /\ n \in Nat /\ tree[m].last \in Nat
  BY TreeFacts DEF ClosedNodes
<1>2. tree[m].last <= tree[r].last
  BY <1>1, EndsWithin
<1>3. r < n /\ n <= tree[r].last
  BY <1>1, <1>2 DEF Inside
<1> QED BY <1>3 DEF Outside

\* A node below another one, which is not closed, is outside with it.
LEMMA OutsideWithParent ==
  ASSUME tree \in Trees, NEW n \in Nodes, tree[n].parent > 0,
         tree[tree[n].parent].kind \notin Closed
  PROVE  Outside(n) <=> Outside(tree[n].parent)
<1> DEFINE p == tree[n].parent
<1>1. p \in Nodes /\ p \in Nat /\ n \in Nat /\ p < n /\ Inside(n, p)
  BY TreeFacts DEF Inside
<1>2. Outside(n) => Outside(p)
  BY <1>1, OutsideAbove
<1>3. ASSUME Outside(p), NEW r \in ClosedNodes, r < n,
             n <= tree[r].last
      PROVE  FALSE
  <2>1. r \in Nodes /\ r \in Nat /\ tree[r].last \in Nat /\ r # p
    BY TreeFacts DEF ClosedNodes
  <2>2. r <= p
    BY <1>3, <2>1, ParentWithin
  <2>3. r < p /\ p <= tree[r].last
    BY <1>1, <1>3, <2>1, <2>2
  <2> QED BY <1>3, <2>3 DEF Outside
<1>4. Outside(p) => Outside(n)
  BY <1>3 DEF Outside
<1> QED BY <1>2, <1>4

-----------------------------------------------------------------------------
(* WHERE clauses. *)

\* A set of nodes has a first and a last one.
LEMMA FirstAndLast ==
  ASSUME tree \in Trees, NEW S \in SUBSET Nodes, S # {}
  PROVE  /\ FirstOf(S) \in S /\ \A m \in S : FirstOf(S) <= m
         /\ LastOf(S) \in S /\ \A m \in S : m <= LastOf(S)
<1>1. S \in SUBSET Nat /\ Len(tree) \in Nat /\ \A m \in S : m <= Len(tree)
  BY TreeFacts
<1>2. \E x \in S : \A y \in S : x <= y
  BY <1>1, LeastOf
<1>3. \E x \in S : \A y \in S : y <= x
  BY <1>1, GreatestOf
<1> QED BY <1>2, <1>3 DEF FirstOf, LastOf

\* A node is below its parent.
LEMMA ChildInside ==
  ASSUME tree \in Trees, NEW s \in Nodes, NEW c \in Nodes, tree[c].parent = s
  PROVE  s < c /\ c <= tree[s].last /\ tree[c].last <= tree[s].last
  BY TreeFacts

\* Nodes of a WHERE clause are in the statement, behind its node.
LEMMA WhereInside ==
  ASSUME tree \in Trees, NEW s \in Nodes, NEW n \in Where(s)
  PROVE  /\ n \in Nodes /\ s < n /\ n <= tree[s].last /\ tree[n].last \in Where(s)
         /\ \E c \in Children(s, "where") : Inside(n, c)
<1>1. n \in Nodes /\ \E c \in Children(s, "where") : Inside(n, c)
  BY DEF Where
<1>2. PICK c \in Children(s, "where") : Inside(n, c)
  BY <1>1
<1>3. c \in Nodes /\ tree[c].parent = s
  BY DEF Children
<1>4. s < c /\ c <= n /\ n <= tree[c].last /\ tree[c].last <= tree[s].last
  BY <1>2, <1>3, ChildInside DEF Inside
<1>5. tree[n].last <= tree[c].last
  BY <1>1, <1>3, <1>4, EndsWithin
<1>6. Inside(tree[n].last, c) /\ tree[n].last \in Nodes
  BY <1>1, <1>3, <1>4, <1>5, TreeFacts DEF Inside
<1>7. tree[n].last \in Where(s)
  BY <1>2, <1>6 DEF Where
<1> QED BY <1>1, <1>3, <1>4, <1>7, TreeFacts

\* The part of a statement that a node in it belongs to.
LEMMA PartOf ==
  ASSUME tree \in Trees, NEW s \in Nodes, NEW m \in Nodes, s < m,
         m <= tree[s].last
  PROVE  \E y \in Nodes : tree[y].parent = s /\ Inside(m, y)
<1> DEFINE S == {y \in Nodes : s < y /\ Inside(m, y)}
<1>1. m \in S /\ S \in SUBSET Nat
  BY TreeFacts DEF Inside
<1>2. PICK y \in S : \A z \in S : y <= z
  BY <1>1, LeastOf
<1>3. y \in Nodes /\ s < y /\ y <= m /\ m <= tree[y].last
  BY <1>2 DEF Inside
<1>4. /\ s <= tree[y].parent /\ tree[y].parent \in Nodes /\ tree[y].parent < y
      /\ tree[y].last <= tree[tree[y].parent].last
  <2>1. y <= tree[s].last
    BY <1>3, TreeFacts
  <2>2. s <= tree[y].parent /\ tree[y].parent \in Nodes /\ tree[y].parent < y
    BY <1>3, <2>1, ParentWithin
  <2> QED BY <1>3, <2>2, TreeFacts
<1>5. tree[y].parent = s
  <2> SUFFICES ASSUME tree[y].parent # s PROVE FALSE
    OBVIOUS
  <2>1. Inside(m, tree[y].parent)
    BY <1>3, <1>4, TreeFacts DEF Inside
  <2>2. tree[y].parent \in S
    BY <1>4, <2>1, TreeFacts
  <2> QED BY <1>2, <1>3, <1>4, <2>2, TreeFacts
<1> QED BY <1>2, <1>5

\* Parts of the same statement do not overlap.
LEMMA PartsApart ==
  ASSUME tree \in Trees, NEW s \in Nodes, NEW c \in Nodes, NEW d \in Nodes,
         tree[c].parent = s, tree[d].parent = s, c < d
  PROVE  tree[c].last < d
<1> SUFFICES ASSUME d <= tree[c].last PROVE FALSE
  BY TreeFacts
<1>1. c <= tree[d].parent
  BY ParentWithin
<1> QED BY <1>1, TreeFacts

\* A WHERE clause begins with a part of the statement and has no gaps.
LEMMA WhereSpan ==
  ASSUME tree \in Trees, NEW s \in Nodes, Where(s) # {}
  PROVE  LET f == FirstOf(Where(s))
             l == LastOf(Where(s))
         IN  /\ f \in Where(s) /\ l \in Where(s) /\ f <= l /\ tree[f].parent = s
             /\ \A m \in Where(s) : f <= m /\ m <= l
             /\ \A m \in Nodes : f <= m /\ m <= l => m \in Where(s)
<1> DEFINE f == FirstOf(Where(s))
           l == LastOf(Where(s))
<1>1. Where(s) \in SUBSET Nodes
  BY DEF Where
<1>2. /\ f \in Where(s) /\ \A m \in Where(s) : f <= m
      /\ l \in Where(s) /\ \A m \in Where(s) : m <= l
  BY <1>1, FirstAndLast
<1> HIDE DEF f, l
<1>3. f \in Nodes /\ l \in Nodes /\ f \in Nat /\ l \in Nat /\ f <= l
  BY <1>1, <1>2, TreeFacts
<1>4. f \in Children(s, "where") /\ tree[f].parent = s /\ tree[f].role = "where"
  <2>1. PICK c \in Children(s, "where") : Inside(f, c)
    BY <1>2, WhereInside
  <2>2. c \in Nodes /\ c <= f
    BY <2>1 DEF Children, Inside
  <2>3. c \in Where(s)
    BY <2>1, <2>2, TreeFacts DEF Where, Inside
  <2>4. c = f
    BY <1>2, <1>3, <2>2, <2>3, TreeFacts
  <2> QED BY <2>1, <2>4 DEF Children
<1>5. PICK c \in Children(s, "where") : Inside(l, c)
  BY <1>2, WhereInside
<1>6. /\ c \in Nodes /\ tree[c].parent = s /\ tree[c].role = "where"
      /\ c <= l /\ l <= tree[c].last
  BY <1>5 DEF Children, Inside
<1>7. ASSUME NEW m \in Nodes, f <= m, m <= l PROVE m \in Where(s)
  <2>1. s < m /\ m <= tree[s].last
    BY <1>2, <1>3, <1>7, WhereInside, TreeFacts
  <2>2. PICK y \in Nodes : tree[y].parent = s /\ Inside(m, y)
    BY <2>1, PartOf
  <2>3. y <= m /\ m <= tree[y].last /\ y \in Nat /\ m \in Nat /\ tree[y].last \in Nat
    BY <2>2, TreeFacts DEF Inside
  <2>4. ~(y < f)
    <3> SUFFICES ASSUME y < f PROVE FALSE
      OBVIOUS
    <3>1. tree[y].last < f
      BY <1>3, <1>4, <2>2, PartsApart
    <3> QED BY <1>3, <1>7, <2>3, <3>1
  <2>5. ~(c < y)
    <3> SUFFICES ASSUME c < y PROVE FALSE
      OBVIOUS
    <3>1. tree[c].last < y
      BY <1>6, <2>2, PartsApart
    <3> QED BY <1>3, <1>6, <1>7, <2>3, <3>1, TreeFacts
  <2>6. tree[y].role = "where"
    <3>1. CASE y = f \/ y = c
      BY <1>4, <1>6, <3>1
    <3>2. CASE f < y /\ y < c
      <4>1. y \in (f + 1)..Len(tree) /\ c \in (f + 1)..Len(tree)
        BY <1>3, <1>6, <2>3, <3>2, TreeFacts
      <4>2. StandsRight(tree, f)
        BY <1>3, TreesAssumption, TreeFacts DEF IsTree
      <4> QED BY <1>4, <1>6, <2>2, <3>2, <4>1, <4>2 DEF StandsRight
    <3> QED BY <1>3, <1>6, <2>3, <2>4, <2>5, <3>1, <3>2, TreeFacts
  <2>7. y \in Children(s, "where")
    BY <2>2, <2>6 DEF Children
  <2> QED BY <2>2, <2>7 DEF Where
<1> QED BY <1>2, <1>3, <1>4, <1>7 DEF f, l

\* The WHERE clause with a node in it has a SELECT in front of the node if it has
\* the node of a SELECT there whose WHERE clause has the node, too.
LEMMA InnerWhere ==
  ASSUME tree \in Trees, NEW s \in Nodes, NEW o \in Nodes, s < o,
         NEW n \in Where(s), n \in Where(o)
  PROVE  o \in Where(s) /\ o < n
<1>1. PICK c \in Children(s, "where") : Inside(n, c)
  BY WhereInside
<1>2. c \in Nodes /\ tree[c].parent = s /\ c <= n /\ n <= tree[c].last
  BY <1>1 DEF Children, Inside
<1>3. n \in Nodes /\ o < n /\ n <= tree[o].last
  BY WhereInside
<1>4. ~(o < c)
  <2> SUFFICES ASSUME o < c PROVE FALSE
    OBVIOUS
  <2>1. c <= tree[o].last
    BY <1>2, <1>3, TreeFacts
  <2>2. o <= tree[c].parent
    BY <1>2, <2>1, ParentWithin
  <2> QED BY <1>2, <2>2, TreeFacts
<1>5. Inside(o, c)
  BY <1>2, <1>3, <1>4, TreeFacts DEF Inside
<1> QED BY <1>1, <1>3, <1>5 DEF Where

-----------------------------------------------------------------------------
(* Lists. *)

\* How often n is among the first m of a list is a number.
LEMMA CountToType ==
  ASSUME NEW list, NEW m \in Nat, NEW n
  PROVE  /\ IsFiniteSet({k \in 1..m : list[k] = n})
         /\ CountTo(list, m, n) \in Nat
<1>1. IsFiniteSet(1..m)
  BY FS_Interval
<1>2. IsFiniteSet({k \in 1..m : list[k] = n})
  BY <1>1, FS_Subset
<1> QED BY <1>2, FS_CardinalityType DEF CountTo

\* Nothing is among the first none.
LEMMA CountToNone ==
  ASSUME NEW list, NEW n
  PROVE  CountTo(list, 0, n) = 0
<1>1. {k \in 1..0 : list[k] = n} = {}
  OBVIOUS
<1> QED BY <1>1, FS_EmptySet DEF CountTo

\* One more.
LEMMA CountToNext ==
  ASSUME NEW list, NEW m \in Nat, NEW n
  PROVE  CountTo(list, m + 1, n) = CountTo(list, m, n) + Once(list[m + 1] = n)
<1> DEFINE A == {k \in 1..m : list[k] = n}
           B == {k \in 1..(m + 1) : list[k] = n}
<1>1. IsFiniteSet(A) /\ CountTo(list, m, n) \in Nat
  BY CountToType
<1>2. CASE list[m + 1] = n
  <2>1. B = A \cup {m + 1} /\ m + 1 \notin A
    BY <1>2
  <2>2. Cardinality(B) = Cardinality(A) + 1
    BY <1>1, <2>1, FS_AddElement
  <2> QED BY <1>2, <2>2 DEF CountTo, Once
<1>3. CASE list[m + 1] # n
  <2>1. B = A
    BY <1>3
  <2> QED BY <1>1, <1>3, <2>1 DEF CountTo, Once
<1> QED BY <1>2, <1>3

\* The count only depends on the part that is counted.
LEMMA CountToSame ==
  ASSUME NEW list, NEW other, NEW m, NEW n, \A k \in 1..m : list[k] = other[k]
  PROVE  CountTo(list, m, n) = CountTo(other, m, n)
<1>1. {k \in 1..m : list[k] = n} = {k \in 1..m : other[k] = n}
  OBVIOUS
<1> QED BY <1>1 DEF CountTo

\* The count of a list is that of all of it.
LEMMA CountIsCountTo ==
  ASSUME NEW list, NEW n
  PROVE  Count(list, n) = CountTo(list, Len(list), n)
  BY DEF Count, CountTo

\* An empty list.
LEMMA CountEmpty ==
  ASSUME NEW n
  PROVE  Count(<<>>, n) = 0
<1>1. Len(<<>>) = 0
  OBVIOUS
<1> QED BY <1>1, CountIsCountTo, CountToNone

\* A count is a number.
LEMMA CountType ==
  ASSUME NEW S, NEW list \in Seq(S), NEW n
  PROVE  Count(list, n) \in Nat
<1>1. Len(list) \in Nat
  OBVIOUS
<1>2. CountTo(list, Len(list), n) \in Nat
  BY <1>1, CountToType
<1> QED BY <1>2, CountIsCountTo

\* lappend
LEMMA CountAppend ==
  ASSUME NEW list \in Seq(Nat), NEW x \in Nat, NEW n
  PROVE  Count(Append(list, x), n) = Count(list, n) + Once(x = n)
<1> DEFINE l == Append(list, x)
<1>1. /\ Len(list) \in Nat /\ Len(l) = Len(list) + 1 /\ l[Len(list) + 1] = x
      /\ \A k \in 1..Len(list) : l[k] = list[k]
  OBVIOUS
<1> HIDE DEF l
<1>2. CountTo(l, Len(list) + 1, n) = CountTo(l, Len(list), n) + Once(x = n)
  BY <1>1, CountToNext
<1>3. CountTo(l, Len(list), n) = CountTo(list, Len(list), n)
  BY <1>1, CountToSame
<1> QED BY <1>1, <1>2, <1>3, CountIsCountTo DEF l

\* list_concat
LEMMA CountConcat ==
  ASSUME NEW s \in Seq(Nat), NEW t \in Seq(Nat), NEW n
  PROVE  Count(s \o t, n) = Count(s, n) + Count(t, n)
<1> DEFINE N == Len(s)
           M == Len(t)
           u == s \o t
           A == {k \in 1..N : s[k] = n}
           B == {k \in 1..M : t[k] = n}
           C == {k \in (N + 1)..(N + M) : u[k] = n}
           f == [k \in B |-> k + N]
<1>1. N \in Nat /\ M \in Nat
  OBVIOUS
<1>2. /\ Len(u) = N + M
      /\ \A k \in 1..(N + M) : u[k] = IF k <= N THEN s[k] ELSE t[k - N]
  BY ConcatProperties
<1> HIDE DEF u
<1>3. IsFiniteSet(A) /\ IsFiniteSet(B)
  <2> HIDE DEF N, M
  <2>1. IsFiniteSet(1..N) /\ IsFiniteSet(1..M)
    BY <1>1, FS_Interval
  <2>2. A \in SUBSET (1..N) /\ B \in SUBSET (1..M)
    OBVIOUS
  <2> HIDE DEF A, B
  <2> QED BY <2>1, <2>2, FS_Subset
<1> HIDE DEF N, M
<1>4. f \in Bijection(B, C)
  <2>1. \A k \in B : k + N \in C
    <3> SUFFICES ASSUME NEW k \in B PROVE k + N \in C
      OBVIOUS
    <3>1. k \in 1..M /\ t[k] = n
      OBVIOUS
    <3>2. k + N \in 1..(N + M) /\ ~(k + N <= N) /\ (k + N) - N = k
          /\ k + N \in (N + 1)..(N + M)
      BY <1>1, <3>1
    <3>3. u[k + N] = n
      BY <1>2, <3>1, <3>2
    <3> QED BY <3>2, <3>3
  <2>2. \A j, k \in B : j + N = k + N => j = k
    BY <1>1
  <2>3. \A c \in C : \E k \in B : k + N = c
    <3> SUFFICES ASSUME NEW c \in C PROVE \E k \in B : k + N = c
      OBVIOUS
    <3>1. c \in (N + 1)..(N + M) /\ u[c] = n
      OBVIOUS
    <3>2. c \in 1..(N + M) /\ ~(c <= N) /\ c - N \in 1..M /\ (c - N) + N = c
      BY <1>1, <3>1
    <3>3. t[c - N] = n
      BY <1>2, <3>1, <3>2
    <3> QED BY <3>2, <3>3
  <2> HIDE DEF B, C
  <2> QED BY <2>1, <2>2, <2>3
          DEF Bijection, Injection, Surjection, IsInjective
<1>5. IsFiniteSet(C) /\ Cardinality(C) = Cardinality(B)
  BY <1>3, <1>4, FS_Bijection DEF ExistsBijection
<1>6. {k \in 1..(N + M) : u[k] = n} = A \cup C
  BY <1>1, <1>2
<1>7. A \cap C = {}
  BY <1>1
<1>8. Cardinality(A \cup C) = Cardinality(A) + Cardinality(C)
  <2>1. Cardinality(A) \in Nat /\ Cardinality(C) \in Nat
    BY <1>3, <1>5, FS_CardinalityType
  <2> HIDE DEF A, C
  <2>2. Cardinality(A \cup C) = Cardinality(A) + Cardinality(C) - 0
    BY <1>3, <1>5, <1>7, FS_Union, FS_EmptySet
  <2> QED BY <2>1, <2>2
<1>9. /\ Count(s, n) = Cardinality(A) /\ Count(t, n) = Cardinality(B)
      /\ Count(s \o t, n) = Cardinality({k \in 1..(N + M) : u[k] = n})
  BY <1>2 DEF Count, N, M, u
<1> QED BY <1>5, <1>6, <1>8, <1>9

\* A set of nodes can be put in order.
LEMMA OrderExists ==
  ASSUME NEW N \in Nat, NEW S \in SUBSET (1..N)
  PROVE  /\ IsFiniteSet(S) /\ Cardinality(S) \in Nat
         /\ \E list \in [1..Cardinality(S) -> S] :
              \A i, j \in 1..Cardinality(S) : i < j => list[i] < list[j]
<1> DEFINE Ordered(T, k) == \E list \in [1..k -> T] :
                              \A i, j \in 1..k : i < j => list[i] < list[j]
           Bad == {k \in Nat : \E T \in SUBSET (1..N) :
                                 Cardinality(T) = k /\ ~Ordered(T, k)}
<1>1. \A T \in SUBSET (1..N) : IsFiniteSet(T) /\ Cardinality(T) \in Nat
  <2>1. IsFiniteSet(1..N)
    BY FS_Interval
  <2>2. \A T \in SUBSET (1..N) : IsFiniteSet(T)
    BY <2>1, FS_Subset
  <2> QED BY <2>2, FS_CardinalityType
<1>2. Bad = {}
  <2> SUFFICES ASSUME Bad # {} PROVE FALSE
    OBVIOUS
  <2>1. Bad \in SUBSET Nat
    OBVIOUS
  <2> HIDE DEF Ordered
  <2>2. PICK k \in Bad : \A j \in Bad : k <= j
    <3> HIDE DEF Bad
    <3> QED BY <2>1, LeastOf
  <2>3. k \in Nat
    OBVIOUS
  <2>4. PICK T \in SUBSET (1..N) : Cardinality(T) = k /\ ~Ordered(T, k)
    OBVIOUS
  <2>5. IsFiniteSet(T)
    BY <1>1
  <2>6. CASE k = 0
    <3>1. 1..k = {}
      BY <2>6
    <3>2. [i \in 1..k |-> i] \in [1..k -> T]
      BY <3>1
    <3>3. Ordered(T, k)
      BY <3>1, <3>2 DEF Ordered
    <3> QED BY <2>4, <3>3
  <2>7. CASE k # 0
    <3>1. T # {} /\ T \in SUBSET Nat /\ \A y \in T : y <= N
      BY <2>4, <2>7, FS_EmptySet
    <3>2. PICK x \in T : \A y \in T : y <= x
      BY <3>1, GreatestOf
    <3> DEFINE U == T \ {x}
    <3>3. U \in SUBSET (1..N) /\ Cardinality(U) = k - 1 /\ k - 1 \in Nat
      <4>1. Cardinality(U) = IF x \in T THEN Cardinality(T) - 1 ELSE Cardinality(T)
        BY <2>5, FS_RemoveElement
      <4> QED BY <2>3, <2>4, <2>7, <3>2, <4>1
    <3>4. \A y \in U : y < x
      BY <3>1, <3>2
    <3>5. Ordered(U, k - 1)
      <4> SUFFICES ASSUME ~Ordered(U, k - 1) PROVE FALSE
        OBVIOUS
      <4> HIDE DEF U
      <4>1. k - 1 \in Bad
        BY <3>3
      <4> QED BY <2>2, <2>3, <4>1
    <3>6. PICK g \in [1..(k - 1) -> U] :
            \A i, j \in 1..(k - 1) : i < j => g[i] < g[j]
      BY <3>5 DEF Ordered
    <3> DEFINE h == [i \in 1..k |-> IF i = k THEN x ELSE g[i]]
    <3>7. \A i \in 1..k : i # k => i \in 1..(k - 1) /\ g[i] \in U
      BY <2>3, <3>6
    <3>8. h \in [1..k -> T]
      BY <3>2, <3>7
    <3>9. ASSUME NEW i \in 1..k, NEW j \in 1..k, i < j PROVE h[i] < h[j]
      <4>1. i # k /\ i \in 1..(k - 1) /\ h[i] = g[i] /\ g[i] \in U
        BY <2>3, <3>7, <3>9
      <4>2. CASE j = k
        BY <3>4, <4>1, <4>2
      <4>3. CASE j # k
        <5>1. j \in 1..(k - 1) /\ h[j] = g[j]
          BY <3>7, <4>3
        <5> QED BY <3>6, <3>9, <4>1, <5>1
      <4> QED BY <4>2, <4>3
    <3>10. Ordered(T, k)
      <4> HIDE DEF h
      <4> QED BY <3>8, <3>9 DEF Ordered
    <3> QED BY <2>4, <3>10
  <2> QED BY <2>6, <2>7
<1>3. Ordered(S, Cardinality(S))
  <2> HIDE DEF Ordered
  <2> QED BY <1>1, <1>2
<1> QED BY <1>1, <1>3

\* ... and then each is there once.
LEMMA CountInOrder ==
  ASSUME NEW N \in Nat, NEW S \in SUBSET (1..N), NEW n
  PROVE  /\ InOrder(S) \in Seq(S) /\ InOrder(S) \in Seq(Nat)
         /\ Count(InOrder(S), n) = Once(n \in S)
<1> DEFINE c == Cardinality(S)
           l == InOrder(S)
<1>1. IsFiniteSet(S) /\ c \in Nat
  BY OrderExists
<1>2. l \in [1..c -> S] /\ \A i, j \in 1..c : i < j => l[i] < l[j]
  BY OrderExists DEF InOrder
<1> HIDE DEF l
<1>3. l \in Seq(S) /\ Len(l) = c /\ l \in Seq(Nat)
  <2>1. \A i \in 1..c : l[i] \in S /\ l[i] \in 1..N
    BY <1>2
  <2>2. l \in [1..c -> Nat]
    BY <1>2, <2>1
  <2> HIDE DEF c
  <2> QED BY <1>1, <1>2, <2>2
<1>4. \A i, j \in 1..c : l[i] = l[j] => i = j
  <2> SUFFICES ASSUME NEW i \in 1..c, NEW j \in 1..c, l[i] = l[j], i # j PROVE FALSE
    OBVIOUS
  <2>1. l[i] \in S /\ l[i] \in 1..N
    BY <1>2
  <2>2. i < j \/ j < i
    BY <1>1
  <2>3. l[i] \in Nat
    BY <2>1
  <2>4. l[i] < l[j] \/ l[j] < l[i]
    BY <1>2, <2>2
  <2> QED BY <2>3, <2>4
<1>5. l \in Injection(1..c, S)
  BY <1>2, <1>4 DEF Injection, IsInjective
<1>6. l \in Surjection(1..c, S)
  <2>1. Cardinality(1..c) = c
    BY <1>1, FS_Interval
  <2> HIDE DEF c
  <2> QED BY <1>1, <1>5, <2>1, FS_Injection DEF c
<1>7. CASE n \in S
  <2>1. PICK k \in 1..c : l[k] = n
    BY <1>6, <1>7 DEF Surjection
  <2>2. {i \in 1..c : l[i] = n} = {k}
    BY <1>4, <2>1
  <2>3. Count(l, n) = 1
    BY <1>3, <2>2, FS_Singleton DEF Count
  <2> QED BY <1>3, <1>7, <2>3 DEF Once, l
<1>8. CASE n \notin S
  <2>1. {i \in 1..c : l[i] = n} = {}
    BY <1>2, <1>8
  <2>2. Count(l, n) = 0
    BY <1>3, <2>1, FS_EmptySet DEF Count
  <2> QED BY <1>3, <1>8, <2>2 DEF Once, l
<1> QED BY <1>7, <1>8

-----------------------------------------------------------------------------
(* The walk goes on. *)

\* The tree stays, and with it all that is said about the tree alone.
LEMMA SameTree ==
  ASSUME UNCHANGED tree
  PROVE  /\ Nodes' = Nodes /\ Recorded' = Recorded /\ Ctes' = Ctes
         /\ ListedNames' = ListedNames
         /\ \A k : OfKind(k)' = OfKind(k)
         /\ \A s : Where(s)' = Where(s)
         /\ \A p : Outside(p)' <=> Outside(p)
         /\ \A n, s : Reached(n, s)' <=> Reached(n, s)
         /\ \A c : SelfReferences(c)' = SelfReferences(c)
         /\ \A c : /\ OwnName(c)' <=> OwnName(c)
                   /\ Plain(c)' <=> Plain(c)
<1>1. /\ Nodes' = Nodes /\ ClosedNodes' = ClosedNodes
      /\ \A k : OfKind(k)' = OfKind(k)
  BY DEF Nodes, OfKind, ClosedNodes
<1>2. \A s : Where(s)' = Where(s)
  BY <1>1 DEF Where, Children, Inside
<1>3. \A p : Outside(p)' <=> Outside(p)
  BY <1>1 DEF Outside
<1>4. \A n, s : Reached(n, s)' <=> Reached(n, s)
  BY <1>1, <1>2, <1>3 DEF Reached
<1>5. \A n : Entered(n)' <=> Entered(n)
  BY <1>1 DEF Entered, Inside
<1>6. Recorded' = Recorded /\ Ctes' = Ctes
  BY <1>1, <1>5 DEF Recorded, Ctes
<1>7. \A c : SelfReferences(c)' = SelfReferences(c)
  BY <1>1, <1>5 DEF SelfReferences, Inside
<1>8. \A c : /\ OwnName(c)' <=> OwnName(c)
             /\ Plain(c)' <=> Plain(c)
  BY <1>6 DEF OwnName, Plain
<1>9. \A s : Named(s)' = Named(s)
  BY <1>1 DEF Named, Children
<1>10. \A n : DroppedLater(n)' <=> DroppedLater(n)
  BY <1>9 DEF DroppedLater, FirstOf
<1>11. ListedNames' = ListedNames
  BY <1>1, <1>5, <1>10 DEF ListedNames
<1> QED BY <1>1, <1>2, <1>3, <1>4, <1>6, <1>7, <1>8, <1>11

\* No node is reached by the searches of two WHERE clauses: the outer one ends at
\* the inner SELECT.
LEMMA OneSearch ==
  ASSUME tree \in Trees, NEW n, NEW s \in Nodes, NEW o \in Nodes,
         Reached(n, s), Reached(n, o)
  PROVE  s = o
<1>1. /\ s \in OfKind("select") /\ n \in Where(s)
      /\ \A m \in OfKind("select") \intersect Where(s) : n < m
  BY DEF Reached
<1>2. /\ o \in OfKind("select") /\ n \in Where(o)
      /\ \A m \in OfKind("select") \intersect Where(o) : n < m
  BY DEF Reached
<1>3. n \in Nodes
  BY <1>1 DEF Where
<1>4. ~(s < o)
  BY <1>1, <1>2, <1>3, InnerWhere, TreeFacts
<1>5. ~(o < s)
  BY <1>1, <1>2, <1>3, InnerWhere, TreeFacts
<1> QED BY <1>4, <1>5, TreeFacts

\* The walk goes on behind p.
GoesOn(p) ==
  /\ UNCHANGED tree /\ p \in Nodes /\ Outside(p)
  /\ Here = p /\ Here' \in Nat /\ p < Here'
  /\ \A m \in Nodes : p < m /\ m < Here' => ~Outside(m)

\* Then the node has been passed, and no other that counts.
LEMMA WalkPasses ==
  ASSUME tree \in Trees, NEW p, GoesOn(p)
  PROVE  /\ ~Passed(p)
         /\ \A n \in Nodes : Passed(n)' <=> Passed(n) \/ n = p
<1>1. /\ UNCHANGED tree /\ p \in Nodes /\ Outside(p) /\ Here = p
      /\ Here' \in Nat /\ p < Here'
      /\ \A m \in Nodes : p < m /\ m < Here' => ~Outside(m)
  BY DEF GoesOn
<1>2. p \in Nat /\ \A n \in Nodes : n \in Nat
  BY <1>1, TreeFacts
<1>3. ~Passed(p)
  BY <1>1, <1>2 DEF Passed
<1>4. ASSUME NEW n \in Nodes PROVE Passed(n)' <=> Passed(n) \/ n = p
  <2>1. Passed(n)' <=> Outside(n) /\ n < Here'
    BY <1>1, SameTree DEF Passed
  <2>2. Passed(n) <=> Outside(n) /\ n < p
    BY <1>1 DEF Passed
  <2> QED BY <1>1, <1>2, <2>1, <2>2
<1> QED BY <1>3, <1>4

\* A part of a statement comes with its statement.
LEMMA WalkMeets ==
  ASSUME tree \in Trees, NEW p, GoesOn(p), NEW x \in Nodes, Outside(x),
         tree[x].parent > 0, tree[tree[x].parent].kind \in Statements
  PROVE  tree[x].parent < Here' <=> tree[x].parent < Here \/ tree[x].parent = p
<1>1. /\ p \in Nodes /\ Here = p /\ Here' \in Nat /\ p < Here'
      /\ \A m \in Nodes : p < m /\ m < Here' => ~Outside(m)
  BY DEF GoesOn
<1>2. tree[x].parent \in Nodes /\ Outside(tree[x].parent)
  BY OutsideWithParent, TreeFacts DEF Statements, Closed
<1> QED BY <1>1, <1>2, TreeFacts

\* Parts of a statement, by kind and role.
LEMMA PartsOfStatements ==
  ASSUME tree \in Trees
  PROVE  /\ \A r \in Recorded :
              /\ r \in Nodes /\ Outside(r) /\ tree[r].parent > 0
              /\ tree[tree[r].parent].kind \in Statements
         /\ \A c \in Ctes :
              /\ c \in Nodes /\ tree[c].parent > 0
              /\ tree[tree[c].parent].kind \in Statements
              /\ tree[tree[c].parent].kind \in {"select", "dml"}
         /\ \A n \in ListedNames :
              /\ n \in Nodes /\ Outside(n) /\ tree[n].parent > 0
              /\ tree[tree[n].parent].kind \in Statements
<1>1. \A n \in Nodes : StandsRight(tree, n)
  BY TreesAssumption, TreeFacts DEF IsTree
<1>2. \A r \in Recorded : r \in Nodes /\ Outside(r) /\ tree[r].kind = "rv"
                          /\ tree[r].role \in {"from", "target"}
  BY OutsideIsEntered DEF Recorded, OfKind
<1>3. \A c \in Ctes : c \in Nodes /\ tree[c].role = "with"
  BY DEF Ctes
<1>4. \A n \in ListedNames : /\ n \in Nodes /\ Outside(n) /\ tree[n].kind = "name"
                             /\ tree[tree[n].parent].kind \in Statements
  BY OutsideIsEntered DEF ListedNames, OfKind, Statements
<1> QED BY <1>1, <1>2, <1>3, <1>4 DEF StandsRight

\* The searches are where they were.
SameSearches ==
  \A n \in Nodes : tree[n].kind \notin Closed => (Searched(n)' <=> Searched(n))

\* The walk goes on behind a node: what the searches have been at stays.
LEMMA WalkKeepsSearches ==
  ASSUME TypeInv, Cursor, NEW p, GoesOn(p), phase = "walk", ~save_filter_columns,
         tree[p].kind = "select" /\ Where(p) # {} =>
           save_filter_columns' /\ owner' = p /\ at' = FirstOf(Where(p)),
         (tree[p].kind = "select" /\ Where(p) = {}) \/ tree[p].kind # "select" =>
           ~save_filter_columns'
  PROVE  SameSearches
<1>1. /\ tree \in Trees /\ UNCHANGED tree /\ p \in Nodes /\ Outside(p) /\ Here = p
      /\ Here' \in Nat /\ p < Here'
      /\ \A m \in Nodes : p < m /\ m < Here' => ~Outside(m)
  BY DEF GoesOn, TypeInv
<1>2. p \in Nat /\ \A m \in Nodes : m \in Nat
  BY <1>1, TreeFacts
<1> SUFFICES ASSUME NEW n \in Nodes
             PROVE  Searched(n)' <=> Searched(n)
  BY DEF SameSearches
<1>3. Searched(n) => Searched(n)'
  <2> SUFFICES ASSUME Searched(n) PROVE Searched(n)'
    OBVIOUS
  <2>1. PICK s \in Nodes : Reached(n, s) /\ s < p
    BY <1>1 DEF Searched
  <2>2. s < Here' /\ (save_filter_columns' => s # owner')
    BY <1>1, <1>2, <2>1 DEF Searched
  <2>3. s \in Nodes' /\ Reached(n, s)'
    BY <1>1, <2>1, SameTree
  <2> QED BY <2>2, <2>3 DEF Searched
<1>4. Searched(n)' => Searched(n)
  <2> SUFFICES ASSUME Searched(n)' PROVE Searched(n)
    OBVIOUS
  <2>1. PICK s \in Nodes' : /\ Reached(n, s)' /\ s < Here'
                            /\ save_filter_columns' /\ s = owner' => n < at'
    BY DEF Searched
  <2>2. s \in Nodes /\ Reached(n, s)
    BY <1>1, <2>1, SameTree
  <2>3. n \in Where(s) /\ s \in OfKind("select") /\ Outside(n)
    BY <2>2 DEF Reached
  <2>4. Outside(s)
    <3>1. s < n /\ n <= tree[s].last
      BY <1>1, <2>2, <2>3, WhereInside
    <3>2. Inside(n, s)
      BY <1>2, <2>2, <3>1 DEF Inside
    <3> QED BY <1>1, <2>2, <2>3, <3>2, OutsideAbove
  <2>5. s = p \/ s < p
    BY <1>1, <1>2, <2>1, <2>2, <2>4
  <2>6. s # p
    <3> SUFFICES ASSUME s = p PROVE FALSE
      OBVIOUS
    <3>1. tree[p].kind = "select" /\ Where(p) # {}
      BY <2>3 DEF OfKind
    <3>2. n < FirstOf(Where(p))
      BY <2>1, <3>1
    <3>3. FirstOf(Where(p)) <= n
      BY <1>1, <2>3, <3>1, WhereSpan
    <3>4. FirstOf(Where(p)) \in Nat
      BY <1>1, <1>2, <3>1, WhereSpan, WhereInside
    <3> QED BY <1>2, <3>2, <3>3, <3>4
  <2> QED BY <1>1, <2>2, <2>5, <2>6 DEF Searched
<1> QED BY <1>3, <1>4

\* The steps of the walk, but for the end of a search.
WalkOn ==
  \/ SelectStmt \/ DmlStmt \/ DdlStmt \/ DropStmt \/ NamingStmt
  \/ FuncCall \/ ColumnRef \/ RangeVar \/ Unsupported

\* What the steps have in common: where they go.
LEMMA StepOver ==
  ASSUME WalkOn
  PROVE  /\ phase = "walk" /\ phase' = "walk" /\ UNCHANGED <<tree, tables, aliases>>
         /\ at \in Nodes /\ ~FilterPassOver
         /\ \/ /\ tree[at].kind \in Closed /\ at' = tree[at].last + 1
               /\ UNCHANGED <<save_filter_columns, owner>>
            \/ /\ tree[at].kind = "select" /\ ~save_filter_columns
               /\ Where(at) # {} /\ at' = FirstOf(Where(at))
               /\ save_filter_columns' = TRUE /\ owner' = at
            \/ /\ tree[at].kind \notin Closed /\ at' = at + 1
               /\ tree[at].kind = "select" => ~save_filter_columns /\ Where(at) = {}
               /\ UNCHANGED <<save_filter_columns, owner>>
<1>1. CASE SelectStmt
  BY <1>1 DEF SelectStmt, Meets, Closed
<1>2. CASE DmlStmt
  BY <1>2 DEF DmlStmt, Meets, Closed
<1>3. CASE DdlStmt
  BY <1>3 DEF DdlStmt, Meets, Closed
<1>4. CASE DropStmt
  BY <1>4 DEF DropStmt, Meets, Closed
<1>5. CASE NamingStmt
  BY <1>5 DEF NamingStmt, Meets, Closed
<1>6. CASE FuncCall
  BY <1>6 DEF FuncCall, Meets, Closed
<1>7. CASE ColumnRef
  BY <1>7 DEF ColumnRef, Meets, Closed
<1>8. CASE RangeVar
  BY <1>8 DEF RangeVar, Meets, lists, Closed
<1>9. CASE Unsupported
  BY <1>9 DEF Unsupported, Meets, lists, Closed
<1> QED BY <1>1, <1>2, <1>3, <1>4, <1>5, <1>6, <1>7, <1>8, <1>9 DEF WalkOn

\* Positions after a step, in the tree that stays.
LEMMA AfterStep ==
  ASSUME UNCHANGED tree
  PROVE  /\ Outside(at)' <=> Outside(at')
         /\ Outside(owner)' <=> Outside(owner')
         /\ Where(owner)' = Where(owner')
         /\ FirstOf(Where(owner))' = FirstOf(Where(owner'))
         /\ LastOf(Where(owner))' = LastOf(Where(owner'))
<1>1. Where(owner)' = Where(owner')
  BY DEF Where, Children, Inside, Nodes
<1> QED BY <1>1, SameTree DEF Outside, FirstOf, LastOf, ClosedNodes, Nodes

\* Outside of searches, the walk goes on behind the node, or goes to search its
\* WHERE clause.
LEMMA WalkStep ==
  ASSUME TypeInv, Cursor, WalkOn, ~save_filter_columns
  PROVE  GoesOn(at) /\ SameSearches /\ Cursor'
<1>1. /\ tree \in Trees /\ phase = "walk" /\ phase' = "walk" /\ UNCHANGED tree
      /\ at \in Nodes /\ Outside(at) /\ at \in Nat /\ Len(tree) \in Nat
      /\ at <= Len(tree)
  BY StepOver, TreeFacts DEF TypeInv, Cursor
<1>2. Here = at
  BY <1>1 DEF Here
<1>3. CASE /\ tree[at].kind \in Closed /\ at' = tree[at].last + 1
           /\ UNCHANGED <<save_filter_columns, owner>>
  <2>1. Here' = tree[at].last + 1
    BY <1>1, <1>3 DEF Here
  <2>2. tree[at].last \in Nat /\ at <= tree[at].last /\ tree[at].last <= Len(tree)
    BY <1>1, TreeFacts
  <2>3. ASSUME NEW m \in Nodes, at < m, m < Here' PROVE ~Outside(m)
    <3>1. at \in ClosedNodes /\ m <= tree[at].last
      BY <1>1, <1>3, <2>1, <2>2, <2>3, TreeFacts DEF ClosedNodes
    <3> QED BY <2>3, <3>1 DEF Outside
  <2>4. GoesOn(at)
    BY <1>1, <1>2, <2>1, <2>2, <2>3 DEF GoesOn
  <2>5. SameSearches
    BY <1>1, <1>3, <2>4, WalkKeepsSearches DEF Closed
  <2>6. Outside(at)'
    BY <1>1, <1>3, OutsideAfter, AfterStep
  <2>7. Cursor'
    BY <1>1, <1>3, <2>2, <2>6 DEF Cursor
  <2> QED BY <2>4, <2>5, <2>7
<1>4. CASE /\ tree[at].kind = "select" /\ Where(at) # {}
           /\ at' = FirstOf(Where(at))
           /\ save_filter_columns' = TRUE /\ owner' = at
  <2>1. Here' = at + 1
    BY <1>1, <1>4 DEF Here
  <2>2. GoesOn(at)
    BY <1>1, <1>2, <2>1, TreeFacts DEF GoesOn
  <2>3. SameSearches
    BY <1>1, <1>4, <2>2, WalkKeepsSearches
  <2> DEFINE f == FirstOf(Where(at))
             l == LastOf(Where(at))
  <2>4. /\ f \in Where(at) /\ l \in Where(at) /\ f <= l /\ tree[f].parent = at
        /\ \A m \in Where(at) : f <= m /\ m <= l
    BY <1>1, <1>4, WhereSpan
  <2> HIDE DEF f, l
  <2>5. f \in Nodes /\ l \in Nodes
    BY <2>4 DEF Where
  <2>6. Outside(f)
    BY <1>1, <1>4, <2>4, <2>5, OutsideWithParent, TreeFacts DEF Closed
  <2>7. f <= l + 1
    BY <1>1, <2>4, <2>5, TreeFacts
  <2>8. /\ Outside(at)' /\ owner' \in OfKind("select")' /\ Outside(owner)'
        /\ Where(owner)' # {}
        /\ FirstOf(Where(owner))' <= at'
        /\ at' <= LastOf(Where(owner))' + 1
        /\ \A m \in Where(owner)' : tree'[m].kind \in Statements => at' <= m
    <3>1. /\ Where(owner)' = Where(at) /\ OfKind("select")' = OfKind("select")
          /\ (Outside(owner)' <=> Outside(at)) /\ (Outside(at)' <=> Outside(f))
          /\ FirstOf(Where(owner))' = f /\ LastOf(Where(owner))' = l
      BY <1>1, <1>4, SameTree, AfterStep DEF f, l
    <3>2. f <= f
      BY <1>1, <2>5, TreeFacts
    <3>3. at \in OfKind("select")
      BY <1>1, <1>4 DEF OfKind
    <3>4. at' = f /\ owner' = at
      BY <1>4 DEF f
    <3> QED BY <1>1, <2>4, <2>6, <2>7, <3>1, <3>2, <3>3, <3>4
  <2>9. Cursor'
    BY <1>1, <1>4, <2>8 DEF Cursor
  <2> QED BY <2>2, <2>3, <2>9
<1>5. CASE /\ tree[at].kind \notin Closed /\ at' = at + 1
           /\ tree[at].kind = "select" => Where(at) = {}
           /\ UNCHANGED <<save_filter_columns, owner>>
  <2>1. Here' = at + 1
    BY <1>1, <1>5 DEF Here
  <2>2. GoesOn(at)
    BY <1>1, <1>2, <2>1, TreeFacts DEF GoesOn
  <2>3. SameSearches
    BY <1>1, <1>5, <2>2, WalkKeepsSearches
  <2>4. Outside(at)'
    BY <1>1, <1>5, OutsideNext, AfterStep
  <2>5. Cursor'
    BY <1>1, <1>5, <2>4 DEF Cursor
  <2> QED BY <2>2, <2>3, <2>5
<1> QED BY <1>3, <1>4, <1>5, StepOver

\* A search goes on in its WHERE clause.
LEMMA SearchStep ==
  ASSUME TypeInv, Cursor, WalkOn, save_filter_columns
  PROVE  /\ Here' = Here /\ Cursor' /\ ~Searched(at)
         /\ tree[at].kind \notin Statements \union Closed
         /\ \A n \in Nodes : Searched(n)' <=> Searched(n) \/ n = at
<1> DEFINE f == FirstOf(Where(owner))
           l == LastOf(Where(owner))
<1>1. /\ tree \in Trees /\ phase = "walk" /\ phase' = "walk" /\ UNCHANGED tree
      /\ at \in Nodes /\ Outside(at) /\ at \in Nat /\ Len(tree) \in Nat
      /\ \A n \in Nodes : n \in Nat
  BY StepOver, TreeFacts DEF TypeInv, Cursor
<1>2. /\ owner \in OfKind("select") /\ owner \in Nodes /\ Outside(owner)
      /\ Where(owner) # {} /\ f <= at
      /\ \A m \in Where(owner) : tree[m].kind \in Statements => at <= m
  BY DEF Cursor, OfKind
<1>3. /\ f \in Where(owner) /\ l \in Where(owner)
      /\ \A m \in Where(owner) : f <= m /\ m <= l
      /\ \A m \in Nodes : f <= m /\ m <= l => m \in Where(owner)
  BY <1>1, <1>2, WhereSpan
<1>4. ~(at > l)
  BY StepOver DEF FilterPassOver
<1> HIDE DEF f, l
<1>5. f \in Nodes /\ l \in Nodes /\ f \in Nat /\ l \in Nat
  BY <1>1, <1>3 DEF Where
<1>6. at \in Where(owner) /\ at <= l
  BY <1>1, <1>2, <1>3, <1>4, <1>5
<1>7. tree[at].kind \notin Statements \union Closed
  <2>1. tree[at].kind # "select"
    BY StepOver DEF Closed
  <2> SUFFICES ASSUME tree[at].kind \in {"dml", "ddl", "drop", "naming", "unwalked",
                                        "returning"}
               PROVE  FALSE
    BY <2>1 DEF Statements, Closed
  <2>2. StandsRight(tree, at)
    BY <1>1, TreesAssumption, TreeFacts DEF IsTree
  <2>3. /\ tree[at].role # "where"
        /\ tree[at].parent = 0 \/ tree[tree[at].parent].kind \in Statements
    BY <2>2 DEF StandsRight
  <2>4. PICK c \in Children(owner, "where") : Inside(at, c)
    BY <1>1, <1>2, <1>6, WhereInside
  <2>5. c \in Nodes /\ tree[c].role = "where" /\ c <= at /\ at <= tree[c].last
    BY <2>4 DEF Children, Inside
  <2>6. c < at
    BY <1>1, <2>3, <2>5
  <2> DEFINE q == tree[at].parent
  <2>7. c <= q /\ q \in Nodes /\ q < at
    BY <1>1, <2>5, <2>6, ParentWithin
  <2>8. q <= tree[c].last
    BY <1>1, <2>5, <2>7, TreeFacts
  <2>9. q \in Where(owner)
    BY <2>4, <2>7, <2>8 DEF Where, Inside
  <2>10. q \in Nat /\ q # 0
    BY <1>1, <2>7, TreeFacts
  <2>11. tree[q].kind \in Statements
    BY <2>3, <2>10
  <2> HIDE DEF q
  <2>12. at <= q
    BY <1>2, <2>9, <2>11
  <2> QED BY <1>1, <2>7, <2>10, <2>12
<1>8. at' = at + 1 /\ save_filter_columns' /\ owner' = owner
  BY <1>7, StepOver DEF Statements, Closed
<1>9. Here' = Here /\ Here = owner + 1
  BY <1>1, <1>8 DEF Here
<1>10. Outside(at')
  BY <1>1, <1>7, <1>8, OutsideNext
<1>11. Cursor'
  <2>1. ASSUME NEW m \in Where(owner), tree[m].kind \in Statements PROVE at' <= m
    <3>1. m \in Nodes /\ m \in Nat
      BY <1>1 DEF Where
    <3>2. at <= m /\ at # m
      BY <1>2, <1>7, <2>1
    <3> QED BY <1>1, <1>8, <3>1, <3>2
  <2>2. /\ Where(owner)' = Where(owner) /\ OfKind("select")' = OfKind("select")
        /\ (Outside(owner)' <=> Outside(owner)) /\ (Outside(at)' <=> Outside(at'))
        /\ FirstOf(Where(owner))' = f /\ LastOf(Where(owner))' = l
    BY <1>1, <1>8, SameTree, AfterStep DEF f, l
  <2>3. f <= at' /\ at' <= l + 1
    BY <1>1, <1>2, <1>5, <1>6, <1>8
  <2>4. /\ Outside(at)' /\ owner' \in OfKind("select")' /\ Outside(owner)'
        /\ Where(owner)' # {}
        /\ FirstOf(Where(owner))' <= at'
        /\ at' <= LastOf(Where(owner))' + 1
        /\ \A m \in Where(owner)' : tree'[m].kind \in Statements => at' <= m
    BY <1>1, <1>2, <1>8, <1>10, <2>1, <2>2, <2>3
  <2> QED BY <1>1, <1>8, <2>4 DEF Cursor
<1>12. Reached(at, owner)
  <2>1. ASSUME NEW m \in OfKind("select") \intersect Where(owner) PROVE at < m
    <3>1. m \in Nodes /\ m \in Nat /\ tree[m].kind = "select" /\ m \in Where(owner)
      BY <1>1 DEF OfKind
    <3>2. at <= m /\ m # at
      BY <1>2, <1>7, <3>1 DEF Statements
    <3> QED BY <1>1, <3>1, <3>2
  <2> QED BY <1>1, <1>2, <1>6, <2>1 DEF Reached
<1>13. owner \in Nat /\ owner < Here
  BY <1>1, <1>2, <1>9
<1>14. ~Searched(at)
  <2> SUFFICES ASSUME Searched(at) PROVE FALSE
    OBVIOUS
  <2>1. PICK s \in Nodes : /\ Reached(at, s)
                           /\ save_filter_columns /\ s = owner => at < at
    BY DEF Searched
  <2>2. s = owner
    BY <1>1, <1>2, <1>12, <2>1, OneSearch
  <2> QED BY <1>1, <2>1, <2>2
<1>15. ASSUME NEW n \in Nodes PROVE Searched(n)' <=> Searched(n) \/ n = at
  <2>1. /\ Nodes' = Nodes /\ \A s : Reached(n, s)' <=> Reached(n, s)
    BY <1>1, SameTree
  <2>2. Searched(n)' <=> \E s \in Nodes : /\ Reached(n, s) /\ s < Here
                                          /\ s = owner => n < at + 1
    BY <1>8, <1>9, <2>1 DEF Searched
  <2>3. Searched(n) <=> \E s \in Nodes : /\ Reached(n, s) /\ s < Here
                                         /\ s = owner => n < at
    BY DEF Searched
  <2>4. n < at + 1 <=> n < at \/ n = at
    BY <1>1
  <2>5. n = at => Searched(n)'
    BY <1>2, <1>12, <1>13, <2>2, <2>4
  <2>6. Searched(n) => Searched(n)'
    BY <2>2, <2>3, <2>4
  <2>7. Searched(n)' => Searched(n) \/ n = at
    BY <2>2, <2>3, <2>4
  <2> QED BY <2>5, <2>6, <2>7
<1> QED BY <1>7, <1>9, <1>11, <1>14, <1>15

\* The end of a search is the end of what it gets to.
LEMMA SearchEnds ==
  ASSUME TypeInv, Cursor, EndFilterPass
  PROVE  /\ UNCHANGED tree /\ Here' = Here /\ Cursor'
         /\ \A n \in Nodes : Searched(n)' <=> Searched(n)
<1> DEFINE l == LastOf(Where(owner))
<1>1. /\ tree \in Trees /\ phase = "walk" /\ phase' = "walk" /\ UNCHANGED tree
      /\ save_filter_columns /\ ~save_filter_columns' /\ at' = owner + 1
      /\ FilterPassOver \/ Meets("select")
      /\ at \in Nat /\ Len(tree) \in Nat /\ \A n \in Nodes : n \in Nat
  BY TreeFacts DEF TypeInv, EndFilterPass
<1>2. /\ owner \in OfKind("select") /\ owner \in Nodes /\ Outside(owner)
      /\ tree[owner].kind = "select" /\ owner <= Len(tree)
      /\ Where(owner) # {} /\ FirstOf(Where(owner)) <= at
  BY <1>1, TreeFacts DEF Cursor, OfKind
<1>3. Here' = Here /\ Here = owner + 1
  BY <1>1 DEF Here
<1>4. Cursor'
  <2>1. Outside(at)'
    BY <1>1, <1>2, OutsideNext, AfterStep DEF Closed
  <2>2. at' <= Len(tree') + 1
    BY <1>1, <1>2
  <2> QED BY <1>1, <2>1, <2>2 DEF Cursor
<1>5. ASSUME NEW n \in Nodes, Reached(n, owner) PROVE n < at
  <2>1. n \in Where(owner) /\ \A m \in OfKind("select") \intersect Where(owner) : n < m
    BY <1>5 DEF Reached
  <2>2. /\ \A m \in Where(owner) : FirstOf(Where(owner)) <= m /\ m <= l
        /\ \A m \in Nodes : FirstOf(Where(owner)) <= m /\ m <= l => m \in Where(owner)
        /\ l \in Where(owner)
    BY <1>1, <1>2, WhereSpan
  <2>3. l \in Nat
    BY <1>1, <2>2 DEF Where
  <2>4. CASE at > l
    BY <1>1, <2>1, <2>2, <2>3, <2>4
  <2>5. CASE ~(at > l)
    <3>1. Meets("select")
      BY <1>1, <2>5 DEF FilterPassOver
    <3>2. at \in Nodes /\ at \in OfKind("select")
      BY <3>1 DEF Meets, OfKind
    <3> HIDE DEF l
    <3>3. at \in Where(owner)
      BY <1>1, <1>2, <2>2, <2>3, <2>5, <3>2
    <3> QED BY <2>1, <3>2, <3>3
  <2> QED BY <2>4, <2>5
<1>6. ASSUME NEW n \in Nodes PROVE Searched(n)' <=> Searched(n)
  <2>1. /\ Nodes' = Nodes /\ \A s : Reached(n, s)' <=> Reached(n, s)
    BY <1>1, SameTree
  <2>2. Searched(n)' <=> \E s \in Nodes : Reached(n, s) /\ s < Here
    BY <1>1, <1>3, <2>1 DEF Searched
  <2>3. Searched(n) <=> \E s \in Nodes : /\ Reached(n, s) /\ s < Here
                                         /\ s = owner => n < at
    BY <1>1 DEF Searched
  <2> QED BY <1>5, <2>2, <2>3
<1> QED BY <1>1, <1>3, <1>4, <1>6

-----------------------------------------------------------------------------
(* The lists. *)

\* Lists of members of S.
LEMMA ListsOf ==
  ASSUME NEW S, NEW T, S \subseteq T, NEW s \in Seq(S)
  PROVE  s \in Seq(T)
<1>1. Len(s) \in Nat /\ s \in [1..Len(s) -> S]
  OBVIOUS
<1>2. s \in [1..Len(s) -> T]
  BY <1>1
<1> QED BY <1>1, <1>2

\* ... and two of them joined.
LEMMA ConcatOf ==
  ASSUME NEW S, NEW s \in Seq(S), NEW t \in Seq(S)
  PROVE  s \o t \in Seq(S)
  OBVIOUS

\* What a step lists of columns.
LEMMA WalkColumns ==
  ASSUME TypeInv, WalkOn
  PROVE  /\ filter_columns' = IF tree[at].kind = "col" /\ save_filter_columns
                              THEN Append(filter_columns, at) ELSE filter_columns
         /\ filter_columns' \in Seq(Nat)
<1>1. at \in Nat /\ filter_columns \in Seq(Nat)
  BY DEF TypeInv
<1>2. filter_columns' = IF tree[at].kind = "col" /\ save_filter_columns
                        THEN Append(filter_columns, at) ELSE filter_columns
  <2>1. CASE SelectStmt
    BY <2>1 DEF SelectStmt, Meets
  <2>2. CASE DmlStmt
    BY <2>2 DEF DmlStmt, Meets
  <2>3. CASE DdlStmt \/ DropStmt \/ NamingStmt
    BY <2>3 DEF DdlStmt, DropStmt, NamingStmt, Meets
  <2>4. CASE FuncCall
    BY <2>4 DEF FuncCall, Meets
  <2>5. CASE ColumnRef
    BY <2>5 DEF ColumnRef, Meets
  <2>6. CASE RangeVar
    BY <2>6 DEF RangeVar, Meets, lists
  <2>7. CASE Unsupported
    BY <2>7 DEF Unsupported, Meets, lists
  <2> QED BY <2>1, <2>2, <2>3, <2>4, <2>5, <2>6, <2>7 DEF WalkOn
<1> QED BY <1>1, <1>2

\* The names below a DROP or the like that the walk meets: all that are listed.
LEMMA NamesBelow ==
  ASSUME TypeInv, NEW s \in Nodes, Outside(s), tree[s].kind \in {"drop", "naming"}
  PROVE  /\ Named(s) \in SUBSET Nodes
         /\ \A n \in OfKind("name") : n \in Named(s) <=> tree[n].parent = s
         /\ \A n \in Named(s) : Entered(n)
<1>1. tree \in Trees /\ \A n \in Nodes : StandsRight(tree, n)
  BY TreesAssumption, TreeFacts DEF IsTree, TypeInv
<1>2. Named(s) \in SUBSET Nodes
  BY DEF Named, OfKind
<1>3. ASSUME NEW n \in OfKind("name") PROVE n \in Named(s) <=> tree[n].parent = s
  <2>1. n \in Nodes /\ tree[n].kind = "name"
    BY DEF OfKind
  <2>2. tree[n].role = "list"
    BY <1>1, <2>1 DEF StandsRight
  <2> QED BY <2>1, <2>2 DEF Named, Children
<1>4. ASSUME NEW n \in Named(s) PROVE Entered(n)
  <2>1. n \in Nodes /\ tree[n].parent = s
    BY DEF Named, Children
  <2>2. Outside(n)
    BY <1>1, <2>1, OutsideWithParent, TreeFacts DEF Closed
  <2> QED BY <1>1, <2>1, <2>2, OutsideIsEntered
<1> QED BY <1>2, <1>3, <1>4

\* add_function: what a step lists of functions.
LEMMA WalkFunctions ==
  ASSUME TypeInv, Cursor, WalkOn
  PROVE  /\ functions' \in Seq(Nat)
         /\ \A n \in OfKind("func") :
              Count(functions', n) = Count(functions, n) + Once(at = n)
         /\ \A n \in OfKind("name") :
              Count(functions', n) =
                Count(functions, n) + Once(n \in ListedNames /\ tree[n].parent = at)
<1>1. /\ tree \in Trees /\ at \in Nodes /\ Outside(at) /\ at \in Nat
      /\ functions \in Seq(Nat)
  BY StepOver DEF TypeInv, Cursor
<1>2. \A n : Count(functions, n) \in Nat
  BY <1>1, CountType
<1>3. /\ \A n \in OfKind("func") : tree[n].kind = "func"
      /\ \A n \in OfKind("name") : tree[n].kind = "name"
      /\ \A n \in ListedNames : tree[tree[n].parent].kind \in {"drop", "naming"}
  BY DEF OfKind, ListedNames
<1>4. CASE FuncCall
  <2>1. tree[at].kind = "func" /\ functions' = Append(functions, at)
    BY <1>4 DEF FuncCall, Meets
  <2>2. functions' \in Seq(Nat)
    BY <1>1, <2>1
  <2>3. \A n : Count(functions', n) = Count(functions, n) + Once(at = n)
    BY <1>1, <2>1, CountAppend
  <2>4. \A n \in ListedNames : tree[n].parent # at
    BY <1>3, <2>1
  <2>5. \A n \in OfKind("name") : at # n
    BY <1>3, <2>1
  <2> QED BY <1>2, <2>2, <2>3, <2>4, <2>5 DEF Once
<1>5. CASE DropStmt
  <2>1. /\ tree[at].kind = "drop"
        /\ functions' = IF Named(at) = {} THEN functions
                        ELSE Append(functions, FirstOf(Named(at)))
    BY <1>5 DEF DropStmt, Meets
  <2>2. /\ Named(at) \in SUBSET Nodes
        /\ \A n \in OfKind("name") : n \in Named(at) <=> tree[n].parent = at
        /\ \A n \in Named(at) : Entered(n)
    BY <1>1, <2>1, NamesBelow
  <2>3. \A n \in OfKind("func") : at # n
    BY <1>3, <2>1
  <2>4. CASE Named(at) = {}
    <3>1. functions' = functions
      BY <2>1, <2>4
    <3>2. \A n \in OfKind("name") : tree[n].parent # at
      BY <2>2, <2>4
    <3> QED BY <1>1, <1>2, <2>3, <3>1, <3>2 DEF Once
  <2>5. CASE Named(at) # {}
    <3> DEFINE f == FirstOf(Named(at))
    <3>1. f \in Named(at)
      BY <1>1, <2>2, <2>5, FirstAndLast
    <3>2. f \in Nat /\ f \in OfKind("name")
      BY <1>1, <2>2, <3>1, TreeFacts DEF Named
    <3>3. functions' = Append(functions, f)
      BY <2>1, <2>5
    <3>4. ASSUME NEW n \in OfKind("name")
          PROVE  f = n <=> n \in ListedNames /\ tree[n].parent = at
      <4>1. tree[n].parent = at => (DroppedLater(n) <=> n # f)
        BY <1>3, <2>1 DEF DroppedLater
      <4>2. f = n => tree[n].parent = at /\ Entered(n)
        BY <2>2, <3>1
      <4> QED BY <2>1, <4>1, <4>2 DEF ListedNames
    <3> HIDE DEF f
    <3>5. \A n : Count(functions', n) = Count(functions, n) + Once(f = n)
      BY <1>1, <3>2, <3>3, CountAppend
    <3>6. \A n \in OfKind("func") : f # n
      BY <1>3, <3>2
    <3>7. functions' \in Seq(Nat)
      BY <1>1, <3>2, <3>3
    <3> QED BY <1>2, <2>3, <3>4, <3>5, <3>6, <3>7 DEF Once
  <2> QED BY <2>4, <2>5
<1>6. CASE NamingStmt
  <2>1. tree[at].kind = "naming" /\ functions' = functions \o InOrder(Named(at))
    BY <1>6 DEF NamingStmt, Meets
  <2>2. /\ Named(at) \in SUBSET Nodes
        /\ \A n \in OfKind("name") : n \in Named(at) <=> tree[n].parent = at
        /\ \A n \in Named(at) : Entered(n)
    BY <1>1, <2>1, NamesBelow
  <2>3. /\ InOrder(Named(at)) \in Seq(Nat)
        /\ \A n : Count(InOrder(Named(at)), n) = Once(n \in Named(at))
    BY <1>1, <2>2, CountInOrder, TreeFacts
  <2>4. functions' \in Seq(Nat)
    BY <1>1, <2>1, <2>3, ConcatOf
  <2>5. \A n : Count(functions', n) = Count(functions, n) + Once(n \in Named(at))
    BY <1>1, <2>1, <2>3, CountConcat
  <2>6. \A n \in OfKind("func") : at # n /\ n \notin Named(at)
    BY <1>3, <2>1 DEF Named
  <2>7. ASSUME NEW n \in OfKind("name")
        PROVE  n \in Named(at) <=> n \in ListedNames /\ tree[n].parent = at
    <3>1. tree[n].parent = at => ~DroppedLater(n)
      BY <2>1 DEF DroppedLater
    <3> QED BY <2>1, <2>2, <3>1 DEF ListedNames
  <2> QED BY <1>2, <2>4, <2>5, <2>6, <2>7 DEF Once
<1>7. CASE SelectStmt \/ DmlStmt \/ DdlStmt \/ ColumnRef \/ RangeVar \/ Unsupported
  <2>1. functions' = functions /\ tree[at].kind \notin {"func", "drop", "naming"}
    BY <1>7 DEF SelectStmt, DmlStmt, DdlStmt, ColumnRef, RangeVar, Unsupported,
                Meets, lists
  <2>2. \A n \in ListedNames : tree[n].parent # at
    BY <1>3, <2>1
  <2>3. \A n \in OfKind("func") : at # n
    BY <1>3, <2>1
  <2> QED BY <1>1, <1>2, <2>1, <2>2, <2>3 DEF Once
<1> QED BY <1>4, <1>5, <1>6, <1>7 DEF WalkOn

\* A function that is called is listed when the walk passes it, and when a search
\* does.
LEMMA FunctionsKept ==
  ASSUME TypeInv, Cursor, FunctionsSoFar, WalkOn
  PROVE  FunctionsSoFar'
<1>1. /\ tree \in Trees /\ UNCHANGED tree /\ at \in Nodes /\ at \in Nat
      /\ functions \in Seq(Nat)
  BY StepOver DEF TypeInv
<1> SUFFICES ASSUME NEW n \in OfKind("func")
             PROVE  Count(functions, n)' = Once(Passed(n))' + Once(Searched(n))'
  BY <1>1, SameTree DEF FunctionsSoFar
<1>2. n \in Nodes /\ tree[n].kind = "func" /\ n \in Nat
  BY <1>1, TreeFacts DEF OfKind
<1>3. Count(functions, n) = Once(Passed(n)) + Once(Searched(n))
  BY DEF FunctionsSoFar
<1>4. Count(functions, n)' = Count(functions, n) + Once(at = n)
  <2>1. Count(functions', n) = Count(functions, n) + Once(at = n)
    BY WalkFunctions
  <2> QED BY <2>1 DEF Count
<1>5. CASE ~save_filter_columns
  <2>1. GoesOn(at) /\ SameSearches
    BY <1>5, WalkStep
  <2>2. ~Passed(at) /\ (Passed(n)' <=> Passed(n) \/ n = at)
    BY <1>1, <1>2, <2>1, WalkPasses
  <2>3. Searched(n)' <=> Searched(n)
    BY <1>2, <2>1 DEF SameSearches, Closed
  <2>4. Once(Passed(n))' = Once(Passed(n)) + Once(at = n)
    BY <2>2 DEF Once
  <2>5. Once(Searched(n))' = Once(Searched(n))
    BY <2>3 DEF Once
  <2> QED BY <1>3, <1>4, <2>4, <2>5 DEF Once
<1>6. CASE save_filter_columns
  <2>1. Here' = Here /\ ~Searched(at) /\ (Searched(n)' <=> Searched(n) \/ n = at)
    BY <1>2, <1>6, SearchStep
  <2>2. Passed(n)' <=> Passed(n)
    BY <1>1, <2>1, SameTree DEF Passed
  <2>3. Once(Searched(n))' = Once(Searched(n)) + Once(at = n)
    BY <2>1 DEF Once
  <2>4. Once(Passed(n))' = Once(Passed(n))
    BY <2>2 DEF Once
  <2> QED BY <1>3, <1>4, <2>3, <2>4 DEF Once
<1> QED BY <1>5, <1>6

\* A function that is named is listed with its statement.
LEMMA NamesKept ==
  ASSUME TypeInv, Cursor, NamesSoFar, WalkOn
  PROVE  NamesSoFar'
<1>1. /\ tree \in Trees /\ UNCHANGED tree /\ ListedNames' = ListedNames
      /\ OfKind("name")' = OfKind("name") /\ at \in Nodes /\ at \in Nat
  BY StepOver, SameTree DEF TypeInv
<1> SUFFICES ASSUME NEW n \in OfKind("name")
             PROVE  Count(functions', n) =
                      Once(n \in ListedNames /\ tree[n].parent < Here')
  BY <1>1 DEF NamesSoFar, Count, Once
<1>2. Count(functions, n) = Once(n \in ListedNames /\ tree[n].parent < Here)
  BY DEF NamesSoFar
<1>3. Count(functions', n) =
        Count(functions, n) + Once(n \in ListedNames /\ tree[n].parent = at)
  BY WalkFunctions
<1>4. CASE n \notin ListedNames
  BY <1>2, <1>3, <1>4 DEF Once
<1>5. CASE n \in ListedNames
  <2>1. /\ n \in Nodes /\ Outside(n) /\ tree[n].parent > 0
        /\ tree[tree[n].parent].kind \in Statements /\ tree[n].parent \in Nat
    BY <1>1, <1>5, PartsOfStatements, TreeFacts
  <2>2. CASE ~save_filter_columns
    <3>1. GoesOn(at)
      BY <2>2, WalkStep
    <3>2. tree[n].parent < Here' <=> tree[n].parent < Here \/ tree[n].parent = at
      BY <1>1, <2>1, <3>1, WalkMeets
    <3>3. Here = at
      BY <3>1 DEF GoesOn
    <3>4. tree[n].parent = at => ~(tree[n].parent < Here)
      BY <1>1, <2>1, <3>3
    <3> QED BY <1>2, <1>3, <1>5, <3>2, <3>4 DEF Once
  <2>3. CASE save_filter_columns
    <3>1. Here' = Here /\ tree[at].kind \notin Statements
      BY <2>3, SearchStep
    <3>2. tree[n].parent # at
      BY <2>1, <3>1
    <3> QED BY <1>2, <1>3, <1>5, <3>1, <3>2 DEF Once
  <2> QED BY <2>2, <2>3
<1> QED BY <1>4, <1>5

\* A column is listed when a search passes it.
LEMMA ColumnsKept ==
  ASSUME TypeInv, Cursor, ColumnsSoFar, WalkOn
  PROVE  ColumnsSoFar'
<1>1. /\ tree \in Trees /\ UNCHANGED tree /\ at \in Nodes /\ at \in Nat
      /\ filter_columns \in Seq(Nat)
  BY StepOver DEF TypeInv
<1> SUFFICES ASSUME NEW n \in OfKind("col")
             PROVE  Count(filter_columns, n)' = Once(Searched(n))'
  BY <1>1, SameTree DEF ColumnsSoFar
<1>2. n \in Nodes /\ tree[n].kind = "col" /\ n \in Nat
  BY <1>1, TreeFacts DEF OfKind
<1>3. Count(filter_columns, n) = Once(Searched(n))
  BY DEF ColumnsSoFar
<1>4. CASE ~save_filter_columns
  <2>1. SameSearches
    BY <1>4, WalkStep
  <2>2. Searched(n)' <=> Searched(n)
    BY <1>2, <2>1 DEF SameSearches, Closed
  <2>3. filter_columns' = filter_columns
    BY <1>4, WalkColumns
  <2> QED BY <1>3, <2>2, <2>3 DEF Once, Count
<1>5. CASE save_filter_columns
  <2>1. ~Searched(at) /\ (Searched(n)' <=> Searched(n) \/ n = at)
    BY <1>2, <1>5, SearchStep
  <2>2. CASE tree[at].kind = "col"
    <3>1. filter_columns' = Append(filter_columns, at)
      BY <1>5, <2>2, WalkColumns
    <3>2. Count(filter_columns', n) = Count(filter_columns, n) + Once(at = n)
      BY <1>1, <3>1, CountAppend
    <3>3. Count(filter_columns, n)' = Count(filter_columns, n) + Once(at = n)
      BY <3>2 DEF Count
    <3> QED BY <1>3, <2>1, <3>3 DEF Once
  <2>3. CASE tree[at].kind # "col"
    <3>1. filter_columns' = filter_columns /\ at # n
      BY <1>2, <2>3, WalkColumns
    <3> QED BY <1>3, <2>1, <3>1 DEF Once, Count
  <2> QED BY <2>2, <2>3
<1> QED BY <1>4, <1>5

\* The range vars of statement s are recorded, once each.
RecordsOf(s) ==
  /\ range_vars' \in Seq(Nat) /\ range_vars' \in Seq(Recorded)
  /\ \A r \in Recorded :
       Count(range_vars', r) = Count(range_vars, r) + Once(tree[r].parent = s)

\* add_range_var and add_range_var_list, for FROM and for the target, in either
\* order.
LEMMA FromAndTarget ==
  ASSUME TypeInv, NEW s \in Nodes, tree[s].kind \in Statements, Outside(s),
         range_vars \in Seq(Recorded), NEW x, NEW y,
         \/ x = RangeVars(s, "from") /\ y = RangeVars(s, "target")
         \/ x = RangeVars(s, "target") /\ y = RangeVars(s, "from"),
         range_vars' = range_vars \o x \o y
  PROVE  RecordsOf(s)
<1>1. tree \in Trees /\ range_vars \in Seq(Nat) /\ Len(tree) \in Nat
  BY TreeFacts DEF TypeInv
<1> DEFINE F == Children(s, "from") \intersect OfKind("rv")
           T == Children(s, "target") \intersect OfKind("rv")
<1>2. F \in SUBSET (1..Len(tree)) /\ T \in SUBSET (1..Len(tree))
  BY DEF Children, Nodes
<1>3. \A r : r \in F <=> /\ r \in Nodes /\ tree[r].parent = s
                         /\ tree[r].role = "from" /\ tree[r].kind = "rv"
  BY DEF Children, OfKind
<1>4. \A r : r \in T <=> /\ r \in Nodes /\ tree[r].parent = s
                         /\ tree[r].role = "target" /\ tree[r].kind = "rv"
  BY DEF Children, OfKind
<1>5. F \subseteq Recorded /\ T \subseteq Recorded
  <2> SUFFICES ASSUME NEW r \in F \cup T PROVE r \in Recorded
    OBVIOUS
  <2>1. /\ r \in Nodes /\ tree[r].parent = s /\ tree[r].kind = "rv"
        /\ tree[r].role \in {"from", "target"}
    BY <1>3, <1>4
  <2>2. tree[r].parent > 0
    BY <1>1, <2>1, TreeFacts
  <2>3. Outside(r)
    BY <1>1, <2>1, <2>2, OutsideWithParent DEF Statements, Closed
  <2>4. Entered(r)
    BY <1>1, <2>1, <2>3, OutsideIsEntered
  <2> QED BY <2>1, <2>4 DEF Recorded, OfKind
<1>6. ASSUME NEW r \in Recorded
      PROVE  Once(r \in F) + Once(r \in T) = Once(tree[r].parent = s)
  <2>1. r \in Nodes /\ tree[r].kind = "rv" /\ tree[r].role \in {"from", "target"}
    BY DEF Recorded, OfKind
  <2>2. CASE tree[r].parent = s
    BY <1>3, <1>4, <2>1, <2>2 DEF Once
  <2>3. CASE tree[r].parent # s
    BY <1>3, <1>4, <2>3 DEF Once
  <2> QED BY <2>2, <2>3
<1> HIDE DEF F, T
<1>7. /\ InOrder(F) \in Seq(F) /\ InOrder(F) \in Seq(Nat)
      /\ \A n : Count(InOrder(F), n) = Once(n \in F)
  BY <1>1, <1>2, CountInOrder
<1>8. /\ InOrder(T) \in Seq(T) /\ InOrder(T) \in Seq(Nat)
      /\ \A n : Count(InOrder(T), n) = Once(n \in T)
  BY <1>1, <1>2, CountInOrder
<1>9. /\ InOrder(F) \in Seq(Recorded) /\ InOrder(T) \in Seq(Recorded)
  BY <1>5, <1>7, <1>8, ListsOf
<1>10. RangeVars(s, "from") = InOrder(F) /\ RangeVars(s, "target") = InOrder(T)
  BY DEF RangeVars, F, T
<1>11. /\ x \in Seq(Nat) /\ y \in Seq(Nat)
       /\ x \in Seq(Recorded) /\ y \in Seq(Recorded)
  BY <1>7, <1>8, <1>9, <1>10
<1>12. /\ range_vars \o x \in Seq(Nat) /\ range_vars \o x \in Seq(Recorded)
  BY <1>1, <1>11, ConcatOf
<1>13. range_vars' \in Seq(Nat) /\ range_vars' \in Seq(Recorded)
  BY <1>11, <1>12, ConcatOf
<1>14. ASSUME NEW r \in Recorded
       PROVE  Count(range_vars', r) = Count(range_vars, r) + Once(tree[r].parent = s)
  <2>1. Count((range_vars \o x) \o y, r) = Count(range_vars \o x, r) + Count(y, r)
    BY <1>11, <1>12, CountConcat
  <2>2. Count(range_vars \o x, r) = Count(range_vars, r) + Count(x, r)
    BY <1>1, <1>11, CountConcat
  <2>3. Count(range_vars, r) \in Nat
    BY <1>1, CountType
  <2>4. \/ Count(x, r) = Once(r \in F) /\ Count(y, r) = Once(r \in T)
        \/ Count(x, r) = Once(r \in T) /\ Count(y, r) = Once(r \in F)
    BY <1>7, <1>8, <1>10
  <2> QED BY <1>6, <2>1, <2>2, <2>3, <2>4 DEF Once
<1> QED BY <1>13, <1>14 DEF RecordsOf

\* DROP and the like have a target and read nothing.
LEMMA NothingRead ==
  ASSUME TypeInv, NEW s \in Nodes, tree[s].kind \in {"drop", "naming"}
  PROVE  RangeVars(s, "from") = <<>> /\ RangeVars(s, "target") \in Seq(Nat)
<1>1. tree \in Trees /\ \A n \in Nodes : StandsRight(tree, n)
  BY TreesAssumption, TreeFacts DEF IsTree, TypeInv
<1> DEFINE F == Children(s, "from") \intersect OfKind("rv")
           T == Children(s, "target") \intersect OfKind("rv")
<1>2. F = {}
  <2> SUFFICES ASSUME NEW r \in F PROVE FALSE
    OBVIOUS
  <2>1. r \in Nodes /\ tree[r].kind = "rv" /\ tree[r].role = "from" /\ tree[r].parent = s
    BY DEF Children, OfKind
  <2> QED BY <1>1, <2>1 DEF StandsRight
<1>3. T \in SUBSET Nodes
  BY DEF Children
<1>4. Nodes = 1..Len(tree) /\ Len(tree) \in Nat
  BY <1>1, TreeFacts
<1> HIDE DEF F, T
<1>5. InOrder(F) \in Seq(F) /\ InOrder(T) \in Seq(Nat)
  BY <1>2, <1>3, <1>4, CountInOrder
<1>6. InOrder(F) = <<>>
  BY <1>2, <1>5
<1> QED BY <1>5, <1>6 DEF RangeVars, F, T

\* What a step records.
LEMMA WalkRecords ==
  ASSUME TypeInv, Cursor, WalkOn, range_vars \in Seq(Recorded)
  PROVE  RecordsOf(at)
<1>1. tree \in Trees /\ at \in Nodes /\ Outside(at) /\ range_vars \in Seq(Nat)
  BY StepOver DEF TypeInv, Cursor
<1>2. CASE tree[at].kind \notin Statements
  <2>1. range_vars' = range_vars
    <3>1. FuncCall \/ ColumnRef \/ RangeVar \/ Unsupported
      BY <1>2 DEF WalkOn, SelectStmt, DmlStmt, DdlStmt, DropStmt, NamingStmt, Meets,
                  Statements
    <3> QED BY <3>1 DEF FuncCall, ColumnRef, RangeVar, Unsupported, lists
  <2>2. \A r \in Recorded : tree[r].parent # at
    BY <1>1, <1>2, PartsOfStatements
  <2>3. \A r \in Recorded : Count(range_vars, r) \in Nat
    BY <1>1, CountType
  <2> QED BY <1>1, <2>1, <2>2, <2>3 DEF Once, RecordsOf
<1>3. CASE tree[at].kind \in Statements
  <2>1. \/ range_vars' = range_vars \o RangeVars(at, "from") \o RangeVars(at, "target")
        \/ range_vars' = range_vars \o RangeVars(at, "target") \o RangeVars(at, "from")
    <3>1. \/ SelectStmt \/ DmlStmt \/ DdlStmt
          \/ (DropStmt \/ NamingStmt) /\ tree[at].kind \in {"drop", "naming"}
      BY <1>3 DEF WalkOn, FuncCall, ColumnRef, RangeVar, Unsupported, Meets,
                  Statements, DropStmt, NamingStmt
    <3>2. CASE SelectStmt \/ DmlStmt \/ DdlStmt
      BY <3>2 DEF SelectStmt, DmlStmt, DdlStmt
    <3>3. CASE (DropStmt \/ NamingStmt) /\ tree[at].kind \in {"drop", "naming"}
      <4>1. range_vars' = range_vars \o RangeVars(at, "target")
        BY <3>3 DEF DropStmt, NamingStmt
      <4>2. RangeVars(at, "from") = <<>> /\ RangeVars(at, "target") \in Seq(Nat)
        BY <1>1, <3>3, NothingRead
      <4>3. range_vars \o RangeVars(at, "target") \in Seq(Nat)
        BY <1>1, <4>2, ConcatOf
      <4>4. range_vars' = range_vars \o RangeVars(at, "target") \o <<>>
        BY <4>1, <4>3
      <4> QED BY <4>2, <4>4
    <3> QED BY <3>1, <3>2, <3>3
  <2> QED BY <1>1, <1>3, <2>1, FromAndTarget
<1> QED BY <1>2, <1>3

\* Range vars are recorded with their statement.
LEMMA RangeVarsKept ==
  ASSUME TypeInv, Cursor, RangeVarsSoFar, WalkOn
  PROVE  RangeVarsSoFar'
<1>1. /\ tree \in Trees /\ UNCHANGED tree /\ Recorded' = Recorded
      /\ at \in Nodes /\ Outside(at) /\ at \in Nat
  BY StepOver, SameTree DEF TypeInv, Cursor
<1>2. /\ range_vars \in Seq(Recorded)
      /\ \A r \in Recorded : Count(range_vars, r) = Once(tree[r].parent < Here)
  <2>1. /\ range_vars \in Seq(Nat)
        /\ \A k \in 1..Len(range_vars) : range_vars[k] \in Recorded
    BY DEF RangeVarsSoFar, TypeInv
  <2>2. range_vars \in Seq(Recorded)
    BY <2>1
  <2> QED BY <2>2 DEF RangeVarsSoFar
<1>3. /\ range_vars' \in Seq(Recorded)
      /\ \A r \in Recorded :
           Count(range_vars', r) = Count(range_vars, r) + Once(tree[r].parent = at)
  BY <1>2, WalkRecords DEF RecordsOf
<1>4. ASSUME NEW r \in Recorded
      PROVE  Count(range_vars', r) = Once(tree'[r].parent < Here')
  <2>1. /\ r \in Nodes /\ Outside(r) /\ tree[r].parent > 0
        /\ tree[tree[r].parent].kind \in Statements /\ tree[r].parent \in Nat
    BY <1>1, PartsOfStatements, TreeFacts
  <2>2. CASE ~save_filter_columns
    <3>1. GoesOn(at)
      BY <2>2, WalkStep
    <3>2. tree[r].parent < Here' <=> tree[r].parent < Here \/ tree[r].parent = at
      BY <1>1, <2>1, <3>1, WalkMeets
    <3>3. Here = at
      BY <3>1 DEF GoesOn
    <3>4. tree[r].parent = at => ~(tree[r].parent < Here)
      BY <1>1, <2>1, <3>3
    <3>5. Once(tree[r].parent < Here) + Once(tree[r].parent = at)
            = Once(tree[r].parent < Here')
      BY <3>2, <3>4 DEF Once
    <3> QED BY <1>1, <1>2, <1>3, <3>5
  <2>3. CASE save_filter_columns
    <3>1. Here' = Here /\ tree[at].kind \notin Statements
      BY <2>3, SearchStep
    <3>2. tree[r].parent # at
      BY <2>1, <3>1
    <3>3. Once(tree[r].parent < Here) + Once(tree[r].parent = at)
            = Once(tree[r].parent < Here')
      BY <3>1, <3>2 DEF Once
    <3> QED BY <1>1, <1>2, <1>3, <3>3
  <2> QED BY <2>2, <2>3
<1>5. \A r \in Recorded' : Count(range_vars, r)' = Once(tree[r].parent < Here)'
  BY <1>1, <1>4 DEF Count, Once
<1>6. \A k \in 1..Len(range_vars') : range_vars'[k] \in Recorded
  BY <1>3
<1> QED BY <1>1, <1>5, <1>6 DEF RangeVarsSoFar

\* CTEs are met with their statement.
LEMMA MeetsCtes ==
  ASSUME TypeInv, Cursor, WalkOn
  PROVE  /\ \A c \in Ctes : Met(c)' <=> Met(c) \/ tree[c].parent = at
         /\ \A c \in Ctes : tree[c].parent = at => ~Met(c) /\ ~save_filter_columns
<1>1. /\ tree \in Trees /\ UNCHANGED tree /\ at \in Nodes /\ Outside(at) /\ at \in Nat
  BY StepOver DEF TypeInv, Cursor
<1>2. ASSUME NEW c \in Ctes
      PROVE  /\ Met(c)' <=> Met(c) \/ tree[c].parent = at
             /\ tree[c].parent = at => ~Met(c) /\ ~save_filter_columns
  <2>1. /\ c \in Nodes /\ tree[c].parent > 0 /\ tree[c].parent \in Nat
        /\ tree[tree[c].parent].kind \in Statements
    BY <1>1, PartsOfStatements, TreeFacts
  <2>2. Met(c)' <=> Outside(c) /\ tree[c].parent < Here'
    BY <1>1, SameTree DEF Met
  <2>3. CASE ~save_filter_columns
    <3>1. GoesOn(at) /\ Here = at
      BY <2>3, WalkStep DEF GoesOn
    <3>2. CASE Outside(c)
      <4>1. tree[c].parent < Here' <=> tree[c].parent < Here \/ tree[c].parent = at
        BY <1>1, <2>1, <3>1, <3>2, WalkMeets
      <4> QED BY <1>1, <2>1, <2>2, <2>3, <3>1, <3>2, <4>1 DEF Met
    <3>3. CASE ~Outside(c)
      <4>1. tree[c].parent # at
        <5> SUFFICES ASSUME tree[c].parent = at PROVE FALSE
          OBVIOUS
        <5>1. Outside(c)
          BY <1>1, <2>1, OutsideWithParent DEF Statements, Closed
        <5> QED BY <3>3, <5>1
      <4> QED BY <2>2, <3>3, <4>1 DEF Met
    <3> QED BY <3>2, <3>3
  <2>4. CASE save_filter_columns
    <3>1. Here' = Here /\ tree[at].kind \notin Statements
      BY <2>4, SearchStep
    <3>2. tree[c].parent # at
      BY <2>1, <3>1
    <3> QED BY <2>2, <3>1, <3>2 DEF Met
  <2> QED BY <2>3, <2>4
<1> QED BY <1>2

\* The CTEs of the statement at the cursor whose self references are kept.
NewCtes == {c \in Ctes : /\ tree[c].parent = at /\ ~tree[at].recursive
                         /\ tree[c].name \notin cte_names
                         /\ \A d \in Ctes : tree[d].parent = at /\ d < c =>
                              tree[d].name # tree[c].name}

\* handle_with_clause: what a step does to the CTE names and the self references.
LEMMA WalkCtes ==
  ASSUME TypeInv, WalkOn
  PROVE  /\ cte_names' = cte_names \union
              {tree[c].name : c \in {d \in Ctes : tree[d].parent = at}}
         /\ cte_self_reference_range_vars' = cte_self_reference_range_vars \union
              UNION {SelfReferences(c) : c \in NewCtes}
<1>1. tree \in Trees /\ at \in Nodes
  BY StepOver DEF TypeInv
<1>2. Children(at, "with") = {d \in Ctes : tree[d].parent = at}
  BY DEF Children, Ctes
<1>3. CASE handle_with_clause(at)
  <2> DEFINE ctes == Children(at, "with")
             Known(c) == cte_names \union {tree[d].name : d \in {e \in ctes : e < c}}
             S == {d \in ctes : ~tree[at].recursive /\ tree[d].name \notin Known(d)}
  <2>1. /\ cte_names' = cte_names \union {tree[c].name : c \in ctes}
        /\ cte_self_reference_range_vars' = cte_self_reference_range_vars \union
             UNION {SelfReferences(c) : c \in S}
    BY <1>3 DEF handle_with_clause
  <2>2. S = NewCtes
    <3>1. \A c : c \in S <=> c \in NewCtes
      BY <1>2 DEF NewCtes
    <3> QED BY <3>1
  <2> QED BY <1>2, <2>1, <2>2
<1>4. CASE ~handle_with_clause(at)
  <2>1. \/ DdlStmt \/ DropStmt \/ NamingStmt
        \/ FuncCall \/ ColumnRef \/ RangeVar \/ Unsupported
    BY <1>4 DEF WalkOn, SelectStmt, DmlStmt
  <2>2. UNCHANGED <<cte_names, cte_self_reference_range_vars>>
    BY <2>1 DEF DdlStmt, DropStmt, NamingStmt, FuncCall, ColumnRef, RangeVar,
                Unsupported, lists
  <2>3. tree[at].kind \notin {"select", "dml"}
    BY <2>1 DEF DdlStmt, DropStmt, NamingStmt, FuncCall, ColumnRef, RangeVar,
                Unsupported, Meets
  <2>4. \A c \in Ctes : tree[c].parent # at
    BY <1>1, <2>3, PartsOfStatements
  <2>5. {d \in Ctes : tree[d].parent = at} = {} /\ NewCtes = {}
    BY <2>4 DEF NewCtes
  <2> QED BY <2>2, <2>5
<1> QED BY <1>3, <1>4

\* The CTE names are those of the statements passed, and the self references of a
\* CTE with a name of its own are kept.
LEMMA CtesKept ==
  ASSUME TypeInv, Cursor, CtesSoFar, WalkOn
  PROVE  CtesSoFar' /\ (cte_self_reference_range_vars \subseteq OfKind("rv"))'
<1>1. /\ tree \in Trees /\ UNCHANGED tree /\ Ctes' = Ctes
      /\ \A c : SelfReferences(c)' = SelfReferences(c)
      /\ \A c : (OwnName(c)' <=> OwnName(c)) /\ (Plain(c)' <=> Plain(c))
      /\ OfKind("rv")' = OfKind("rv")
      /\ cte_self_reference_range_vars \subseteq OfKind("rv")
  BY StepOver, SameTree DEF TypeInv
<1>2. /\ cte_names = {tree[c].name : c \in {d \in Ctes : Met(d)}}
      /\ \A r \in cte_self_reference_range_vars :
           \E c \in Ctes : Plain(c) /\ r \in SelfReferences(c)
      /\ \A c \in Ctes :
           Met(c) /\ Plain(c) /\ OwnName(c)
             => SelfReferences(c) \subseteq cte_self_reference_range_vars
  BY DEF CtesSoFar
<1>3. /\ cte_names' = cte_names \union
           {tree[c].name : c \in {d \in Ctes : tree[d].parent = at}}
      /\ cte_self_reference_range_vars' = cte_self_reference_range_vars \union
           UNION {SelfReferences(c) : c \in NewCtes}
  BY WalkCtes
<1>4. /\ \A c \in Ctes : Met(c)' <=> Met(c) \/ tree[c].parent = at
      /\ \A c \in Ctes : tree[c].parent = at => ~Met(c)
  BY MeetsCtes
<1>5. cte_names' = {tree'[c].name : c \in {d \in Ctes' : Met(d)'}}
  <2>1. \A x : x \in cte_names' <=> \E c \in Ctes : Met(c)' /\ x = tree[c].name
    BY <1>2, <1>3, <1>4
  <2> QED BY <1>1, <2>1
<1>6. ASSUME NEW r \in cte_self_reference_range_vars'
      PROVE  /\ \E c \in Ctes : Plain(c) /\ r \in SelfReferences(c)
             /\ r \in OfKind("rv")
  <2>1. CASE r \in cte_self_reference_range_vars
    BY <1>1, <1>2, <2>1
  <2>2. CASE \E c \in NewCtes : r \in SelfReferences(c)
    <3>1. PICK c \in NewCtes : r \in SelfReferences(c)
      BY <2>2
    <3>2. c \in Ctes /\ Plain(c)
      BY DEF NewCtes, Plain
    <3> QED BY <3>1, <3>2 DEF SelfReferences
  <2> QED BY <1>3, <2>1, <2>2
<1>7. ASSUME NEW c \in Ctes, Met(c)', Plain(c), OwnName(c)
      PROVE  SelfReferences(c) \subseteq cte_self_reference_range_vars'
  <2>1. CASE Met(c)
    BY <1>2, <1>3, <1>7, <2>1
  <2>2. CASE tree[c].parent = at
    <3>1. ~Met(c)
      BY <1>4, <2>2
    <3>2. tree[c].name \notin cte_names
      BY <1>2, <1>7, <3>1 DEF OwnName
    <3>3. \A d \in Ctes : d < c => tree[d].name # tree[c].name
      <4> SUFFICES ASSUME NEW d \in Ctes, d < c, tree[d].name = tree[c].name
                   PROVE  FALSE
        OBVIOUS
      <4>1. d = c
        BY <1>7 DEF OwnName
      <4>2. c \in Nat
        BY <1>1, TreeFacts DEF Ctes
      <4> QED BY <4>1, <4>2
    <3>4. c \in NewCtes
      BY <1>7, <2>2, <3>2, <3>3 DEF NewCtes, Plain
    <3> QED BY <1>3, <3>4
  <2> QED BY <1>4, <1>7, <2>1, <2>2
<1>8. (cte_self_reference_range_vars \subseteq OfKind("rv"))'
  BY <1>1, <1>6
<1>9. CtesSoFar'
  BY <1>1, <1>5, <1>6, <1>7 DEF CtesSoFar
<1> QED BY <1>8, <1>9

-----------------------------------------------------------------------------
(* The invariant. *)

\* The steps between passes, and the ones after the walk.
LEMMA ListsKept ==
  ASSUME IndInv, Here' = Here, \A n \in Nodes : Searched(n)' <=> Searched(n),
         UNCHANGED <<tree, cte_names, cte_self_reference_range_vars, range_vars,
                     functions, filter_columns>>
  PROVE  /\ FunctionsSoFar' /\ NamesSoFar' /\ ColumnsSoFar' /\ RangeVarsSoFar'
         /\ CtesSoFar'
<1>1. /\ Nodes' = Nodes /\ Recorded' = Recorded /\ Ctes' = Ctes
      /\ ListedNames' = ListedNames
      /\ \A k : OfKind(k)' = OfKind(k)
      /\ \A p : Outside(p)' <=> Outside(p)
      /\ \A c : SelfReferences(c)' = SelfReferences(c)
      /\ \A c : (OwnName(c)' <=> OwnName(c)) /\ (Plain(c)' <=> Plain(c))
  BY SameTree
<1>2. \A n : Passed(n)' <=> Passed(n)
  BY <1>1 DEF Passed
<1>3. FunctionsSoFar'
  <2> SUFFICES ASSUME NEW n \in OfKind("func")
               PROVE  Count(functions, n)' = Once(Passed(n))' + Once(Searched(n))'
    BY <1>1 DEF FunctionsSoFar
  <2>1. n \in Nodes
    BY DEF OfKind
  <2>2. Once(Passed(n))' = Once(Passed(n)) /\ Once(Searched(n))' = Once(Searched(n))
    BY <1>2, <2>1 DEF Once
  <2>3. Count(functions, n)' = Count(functions, n)
    BY DEF Count
  <2> QED BY <2>2, <2>3 DEF IndInv, FunctionsSoFar
<1>4. ColumnsSoFar'
  <2> SUFFICES ASSUME NEW n \in OfKind("col")
               PROVE  Count(filter_columns, n)' = Once(Searched(n))'
    BY <1>1 DEF ColumnsSoFar
  <2>1. n \in Nodes
    BY DEF OfKind
  <2>2. Once(Searched(n))' = Once(Searched(n))
    BY <2>1 DEF Once
  <2>3. Count(filter_columns, n)' = Count(filter_columns, n)
    BY DEF Count
  <2> QED BY <2>2, <2>3 DEF IndInv, ColumnsSoFar
<1>5. RangeVarsSoFar'
  BY <1>1 DEF IndInv, RangeVarsSoFar, Count, Once
<1>6. CtesSoFar'
  <2>1. \A c : Met(c)' <=> Met(c)
    BY <1>1 DEF Met
  <2> QED BY <1>1, <2>1 DEF IndInv, CtesSoFar
<1>7. NamesSoFar'
  BY <1>1 DEF IndInv, NamesSoFar, Count, Once
<1> QED BY <1>3, <1>4, <1>5, <1>6, <1>7

\* pg_query_summary_walk starts at the first node with empty lists.
LEMMA InitHolds ==
  ASSUME Init
  PROVE  IndInv
<1>1. /\ tree \in Trees /\ phase = "walk" /\ at = 1 /\ ~save_filter_columns
      /\ owner = 0 /\ cte_names = {} /\ cte_self_reference_range_vars = {}
      /\ range_vars = <<>> /\ functions = <<>> /\ filter_columns = <<>>
      /\ tables = <<>> /\ aliases = <<>>
  BY DEF Init
<1>2. TypeInv
  <2>1. at \in Nat \ {0} /\ owner \in Nat
    BY <1>1
  <2>2. <<>> \in Seq(Nat)
    OBVIOUS
  <2>3. save_filter_columns \in BOOLEAN
    BY DEF Init
  <2> QED BY <1>1, <2>1, <2>2, <2>3 DEF TypeInv
<1>3. Here = 1 /\ \A n \in Nodes : n \in Nat /\ n >= 1
  BY <1>1, TreeFacts DEF Here
<1>4. Cursor
  <2>1. Outside(1)
    BY <1>1, <1>3 DEF Outside, ClosedNodes
  <2> QED BY <1>1, <2>1, TreeFacts DEF Cursor
<1>5. \A n \in Nodes : ~Passed(n) /\ ~Searched(n)
  BY <1>3 DEF Passed, Searched
<1>6. FunctionsSoFar /\ ColumnsSoFar
  BY <1>1, <1>5, CountEmpty DEF FunctionsSoFar, ColumnsSoFar, Once, OfKind
<1>10. NamesSoFar
  <2>1. \A n \in ListedNames : ~(tree[n].parent < Here)
    BY <1>1, <1>3, PartsOfStatements, TreeFacts
  <2> QED BY <1>1, <2>1, CountEmpty DEF NamesSoFar, Once
<1>7. RangeVarsSoFar
  <2>1. \A r \in Recorded : ~(tree[r].parent < Here)
    BY <1>1, <1>3, PartsOfStatements, TreeFacts
  <2>2. 1..Len(range_vars) = {}
    BY <1>1
  <2> QED BY <1>1, <2>1, <2>2, CountEmpty DEF RangeVarsSoFar, Once
<1>8. CtesSoFar
  <2>1. \A c \in Ctes : ~Met(c)
    BY <1>1, <1>3, PartsOfStatements, TreeFacts DEF Met
  <2> QED BY <1>1, <2>1 DEF CtesSoFar
<1>9. TablesSoFar
  BY <1>1 DEF TablesSoFar
<1> QED BY <1>2, <1>4, <1>6, <1>7, <1>8, <1>9, <1>10 DEF IndInv

\* A step over a node.
LEMMA WalkKeepsInv ==
  ASSUME IndInv, WalkOn
  PROVE  IndInv'
<1>1. TypeInv /\ Cursor /\ tree \in Trees
  BY DEF IndInv, TypeInv
<1>2. FunctionsSoFar' /\ NamesSoFar' /\ ColumnsSoFar'
  BY <1>1, FunctionsKept, NamesKept, ColumnsKept DEF IndInv
<1>3. RangeVarsSoFar'
  BY <1>1, RangeVarsKept DEF IndInv
<1>4. CtesSoFar' /\ (cte_self_reference_range_vars \subseteq OfKind("rv"))'
  BY <1>1, CtesKept DEF IndInv
<1>5. Cursor'
  BY <1>1, WalkStep, SearchStep
<1>6. TablesSoFar'
  BY StepOver DEF IndInv, TablesSoFar
<1>7. range_vars' \in Seq(Nat)
  <2>1. /\ range_vars \in Seq(Nat)
        /\ \A k \in 1..Len(range_vars) : range_vars[k] \in Recorded
    BY DEF IndInv, RangeVarsSoFar, TypeInv
  <2>2. range_vars \in Seq(Recorded)
    BY <2>1
  <2> QED BY <1>1, <2>2, WalkRecords DEF RecordsOf
<1>8. at' \in Nat \ {0} /\ owner' \in Nat /\ save_filter_columns' \in BOOLEAN
  <2>1. at \in Nodes /\ at \in Nat /\ tree[at].last \in Nat
    BY <1>1, StepOver, TreeFacts
  <2>2. Where(at) # {} => FirstOf(Where(at)) \in Nat \ {0}
    <3> SUFFICES ASSUME Where(at) # {} PROVE FirstOf(Where(at)) \in Nat \ {0}
      OBVIOUS
    <3>1. FirstOf(Where(at)) \in Where(at)
      BY <1>1, <2>1, WhereSpan
    <3>2. FirstOf(Where(at)) \in Nodes
      BY <3>1 DEF Where
    <3> QED BY <1>1, <3>2, TreeFacts
  <2>3. at' \in Nat \ {0}
    <3>1. \/ at' = tree[at].last + 1 \/ at' = at + 1
          \/ Where(at) # {} /\ at' = FirstOf(Where(at))
      BY StepOver
    <3>2. tree[at].last + 1 \in Nat \ {0} /\ at + 1 \in Nat \ {0}
      BY <2>1
    <3> QED BY <2>2, <3>1, <3>2
  <2>4. owner' \in Nat
    BY <1>1, <2>1, StepOver DEF TypeInv
  <2>5. save_filter_columns' \in BOOLEAN
    BY <1>1, StepOver DEF TypeInv
  <2> QED BY <2>3, <2>4, <2>5
<1>9. TypeInv'
  BY <1>1, <1>4, <1>7, <1>8, StepOver, WalkFunctions, WalkColumns DEF TypeInv
<1> QED BY <1>2, <1>3, <1>4, <1>5, <1>6, <1>9 DEF IndInv

\* A search ends, and the statement is walked.
LEMMA EndFilterPassKeepsInv ==
  ASSUME IndInv, EndFilterPass
  PROVE  IndInv'
<1>1. TypeInv /\ Cursor
  BY DEF IndInv
<1>2. /\ UNCHANGED tree /\ Here' = Here /\ Cursor'
      /\ \A n \in Nodes : Searched(n)' <=> Searched(n)
  BY <1>1, SearchEnds
<1>3. UNCHANGED lists /\ phase = "walk" /\ phase' = "walk"
  BY DEF EndFilterPass
<1>4. FunctionsSoFar' /\ NamesSoFar' /\ ColumnsSoFar' /\ RangeVarsSoFar' /\ CtesSoFar'
  BY <1>2, <1>3, ListsKept DEF lists
<1>5. TablesSoFar'
  BY <1>3 DEF IndInv, TablesSoFar, lists
<1>6. TypeInv'
  <2>1. OfKind("rv")' = OfKind("rv")
    BY <1>2, SameTree
  <2>2. save_filter_columns' = FALSE /\ owner' = owner /\ at' = owner + 1
    BY DEF EndFilterPass
  <2>3. owner' \in Nat /\ at' \in Nat \ {0}
    BY <1>1, <2>2 DEF TypeInv
  <2>4. save_filter_columns' \in BOOLEAN
    BY <2>2
  <2> QED BY <1>1, <1>2, <1>3, <2>1, <2>3, <2>4 DEF TypeInv, lists
<1> QED BY <1>2, <1>4, <1>5, <1>6 DEF IndInv

\* The walk is over.
LEMMA EndWalkKeepsInv ==
  ASSUME IndInv, EndWalk
  PROVE  IndInv'
<1>1. /\ TypeInv /\ Cursor /\ tree \in Trees /\ at \in Nat
  BY DEF IndInv, TypeInv
<1>2. /\ phase = "walk" /\ phase' = "resolve" /\ at > Len(tree) /\ at' = 1
      /\ ~save_filter_columns /\ ~save_filter_columns'
      /\ UNCHANGED <<tree, save_filter_columns, owner, lists>>
  BY DEF EndWalk
<1>3. at = Len(tree) + 1
  BY <1>1, <1>2, TreeFacts DEF Cursor
<1>4. Here' = Here
  BY <1>2, <1>3 DEF Here
<1>5. \A n \in Nodes : Searched(n)' <=> Searched(n)
  BY <1>2, <1>4, SameTree DEF Searched
<1>6. FunctionsSoFar' /\ NamesSoFar' /\ ColumnsSoFar' /\ RangeVarsSoFar' /\ CtesSoFar'
  BY <1>2, <1>4, <1>5, ListsKept DEF lists
<1>7. Cursor'
  BY <1>2 DEF Cursor
<1>8. TablesSoFar'
  <2>1. tables' = <<>> /\ aliases' = <<>> /\ range_vars' = range_vars
    BY <1>2 DEF IndInv, TablesSoFar, lists
  <2>2. at' - 1 = 0 /\ at' <= Len(range_vars') + 1
    BY <1>1, <1>2, <2>1 DEF TypeInv
  <2>3. \A r : CountTo(range_vars, at - 1, r)' = 0
    BY <2>2, CountToNone DEF CountTo
  <2>4. \A r : Count(tables, r)' = 0 /\ Count(aliases, r)' = 0
    BY <2>1, CountEmpty DEF Count
  <2> QED BY <1>2, <2>2, <2>3, <2>4 DEF TablesSoFar
<1>9. TypeInv'
  <2>1. OfKind("rv")' = OfKind("rv")
    BY <1>2, SameTree
  <2> QED BY <1>1, <1>2, <2>1 DEF TypeInv, lists
<1> QED BY <1>6, <1>7, <1>8, <1>9 DEF IndInv

\* The last range var has been resolved, or nothing happens.
LEMMA FinishKeepsInv ==
  ASSUME IndInv, Finish \/ UNCHANGED vars
  PROVE  IndInv'
<1>1. /\ TypeInv /\ Cursor /\ tree \in Trees /\ at \in Nat /\ Len(range_vars) \in Nat
  BY DEF IndInv, TypeInv
<1>2. /\ UNCHANGED <<tree, at, save_filter_columns, owner, lists>>
      /\ \/ phase = "resolve" /\ at > Len(range_vars) /\ phase' = "done"
         \/ phase' = phase
  BY DEF Finish, vars, lists
<1>3. Here' = Here
  BY <1>2 DEF Here
<1>4. \A n \in Nodes : Searched(n)' <=> Searched(n)
  BY <1>2, <1>3, SameTree DEF Searched
<1>5. FunctionsSoFar' /\ NamesSoFar' /\ ColumnsSoFar' /\ RangeVarsSoFar' /\ CtesSoFar'
  BY <1>2, <1>3, <1>4, ListsKept DEF lists
<1>6. Cursor'
  <2>1. /\ (Outside(at)' <=> Outside(at)) /\ (Outside(owner)' <=> Outside(owner))
        /\ Where(owner)' = Where(owner) /\ OfKind("select")' = OfKind("select")
        /\ FirstOf(Where(owner))' = FirstOf(Where(owner))
        /\ LastOf(Where(owner))' = LastOf(Where(owner))
    BY <1>2, SameTree, AfterStep
  <2> QED BY <1>1, <1>2, <2>1 DEF Cursor
<1>7. TablesSoFar'
  <2>1. /\ OfKind("rv")' = OfKind("rv")
        /\ \A r : is_cte_reference(r)' <=> is_cte_reference(r)
        /\ \A r : /\ Count(tables, r)' = Count(tables, r)
                  /\ Count(aliases, r)' = Count(aliases, r)
                  /\ CountTo(range_vars, at - 1, r)' = CountTo(range_vars, at - 1, r)
    BY <1>2, SameTree DEF is_cte_reference, Count, CountTo, lists
  <2>2. range_vars' = range_vars /\ tables' = tables /\ aliases' = aliases
        /\ at' = at /\ tree' = tree
    BY <1>2 DEF lists
  <2>3. CASE phase = "resolve" /\ at > Len(range_vars) /\ phase' = "done"
    <3>1. at = Len(range_vars) + 1
      BY <1>1, <2>3 DEF IndInv, TablesSoFar
    <3> QED BY <2>1, <2>2, <2>3, <3>1 DEF IndInv, TablesSoFar
  <2>4. CASE phase' = phase
    BY <2>1, <2>2, <2>4 DEF IndInv, TablesSoFar
  <2> QED BY <1>2, <2>3, <2>4
<1>8. TypeInv'
  <2>1. OfKind("rv")' = OfKind("rv")
    BY <1>2, SameTree
  <2> QED BY <1>1, <1>2, <2>1 DEF TypeInv, lists
<1> QED BY <1>5, <1>6, <1>7, <1>8 DEF IndInv

\* handle_range_var adds a range var to the tables or not, and to the aliases.
LEMMA ResolveKeepsInv ==
  ASSUME IndInv, handle_range_var
  PROVE  IndInv'
<1> DEFINE x == range_vars[at]
<1>1. /\ TypeInv /\ Cursor /\ tree \in Trees /\ at \in Nat /\ at >= 1
      /\ Len(range_vars) \in Nat /\ tables \in Seq(Nat) /\ aliases \in Seq(Nat)
  BY DEF IndInv, TypeInv
<1>2. /\ phase = "resolve" /\ phase' = "resolve" /\ at <= Len(range_vars)
      /\ tables' = IF is_cte_reference(x) THEN tables ELSE Append(tables, x)
      /\ aliases' = IF tree[x].alias THEN Append(aliases, x) ELSE aliases
      /\ at' = at + 1
      /\ UNCHANGED <<tree, save_filter_columns, owner, cte_names,
                     cte_self_reference_range_vars, range_vars, functions,
                     filter_columns>>
  BY DEF handle_range_var
<1>3. x \in Nat
  BY <1>1, <1>2 DEF TypeInv
<1> HIDE DEF x
<1>4. Here' = Here
  BY <1>2 DEF Here
<1>5. \A n \in Nodes : Searched(n)' <=> Searched(n)
  <2>1. ~save_filter_columns /\ ~save_filter_columns'
    BY <1>1, <1>2 DEF Cursor
  <2> QED BY <1>2, <1>4, <2>1, SameTree DEF Searched
<1>6. FunctionsSoFar' /\ NamesSoFar' /\ ColumnsSoFar' /\ RangeVarsSoFar' /\ CtesSoFar'
  BY <1>2, <1>4, <1>5, ListsKept
<1>7. Cursor'
  BY <1>1, <1>2 DEF Cursor
<1>8. ASSUME NEW r \in OfKind("rv")
      PROVE  /\ Count(tables', r) = IF is_cte_reference(r) THEN 0
                                    ELSE CountTo(range_vars, at, r)
             /\ Count(aliases', r) = IF tree[r].alias
                                     THEN CountTo(range_vars, at, r) ELSE 0
  <2>1. /\ Count(tables, r) = IF is_cte_reference(r) THEN 0
                              ELSE CountTo(range_vars, at - 1, r)
        /\ Count(aliases, r) = IF tree[r].alias
                               THEN CountTo(range_vars, at - 1, r) ELSE 0
    BY <1>2 DEF IndInv, TablesSoFar
  <2>2. CountTo(range_vars, at, r) = CountTo(range_vars, at - 1, r) + Once(x = r)
    <3>1. at - 1 \in Nat /\ (at - 1) + 1 = at
      BY <1>1
    <3>2. CountTo(range_vars, (at - 1) + 1, r)
            = CountTo(range_vars, at - 1, r) + Once(range_vars[(at - 1) + 1] = r)
      BY <3>1, CountToNext
    <3> QED BY <3>1, <3>2 DEF x
  <2>3. CountTo(range_vars, at - 1, r) \in Nat
    <3>1. at - 1 \in Nat
      BY <1>1
    <3> QED BY <3>1, CountToType
  <2>4. Count(Append(tables, x), r) = Count(tables, r) + Once(x = r)
    BY <1>1, <1>3, CountAppend
  <2>5. Count(Append(aliases, x), r) = Count(aliases, r) + Once(x = r)
    BY <1>1, <1>3, CountAppend
  <2>6. CASE x = r
    BY <1>2, <2>1, <2>2, <2>3, <2>4, <2>5, <2>6 DEF Once
  <2>7. CASE x # r
    <3>1. Count(tables', r) = Count(tables, r)
      BY <1>2, <2>1, <2>3, <2>4, <2>7 DEF Once
    <3>2. Count(aliases', r) = Count(aliases, r)
      BY <1>2, <2>1, <2>3, <2>5, <2>7 DEF Once
    <3>3. CountTo(range_vars, at, r) = CountTo(range_vars, at - 1, r)
      BY <2>2, <2>3, <2>7 DEF Once
    <3> QED BY <2>1, <3>1, <3>2, <3>3
  <2> QED BY <2>6, <2>7
<1>9. TablesSoFar'
  <2>1. /\ OfKind("rv")' = OfKind("rv")
        /\ \A r : is_cte_reference(r)' <=> is_cte_reference(r)
    BY <1>2, SameTree DEF is_cte_reference
  <2>2. at' - 1 = at /\ at' <= Len(range_vars') + 1
    BY <1>1, <1>2
  <2>3. \A r : /\ Count(tables, r)' = Count(tables', r)
               /\ Count(aliases, r)' = Count(aliases', r)
               /\ CountTo(range_vars, at - 1, r)' = CountTo(range_vars, at, r)
    BY <1>2, <2>2 DEF Count, CountTo
  <2> QED BY <1>2, <1>8, <2>1, <2>2, <2>3 DEF TablesSoFar
<1>10. TypeInv'
  <2>1. OfKind("rv")' = OfKind("rv")
    BY <1>2, SameTree
  <2>2. tables' \in Seq(Nat) /\ aliases' \in Seq(Nat)
    BY <1>1, <1>2, <1>3
  <2>3. at' \in Nat \ {0}
    BY <1>1, <1>2
  <2> QED BY <1>1, <1>2, <2>1, <2>2, <2>3 DEF TypeInv
<1> QED BY <1>6, <1>7, <1>9, <1>10 DEF IndInv

\* The inductive invariant: at every point of pg_query_summary_walk, for every
\* tree, the lists hold what the walk and the searches of WHERE clauses have passed.
THEOREM WalkKeepsLists == Spec => []IndInv
<1>1. Init => IndInv
  BY InitHolds
<1>2. IndInv /\ [Next]_vars => IndInv'
  <2> SUFFICES ASSUME IndInv, [Next]_vars PROVE IndInv'
    OBVIOUS
  <2>1. \/ WalkOn \/ EndFilterPass \/ EndWalk \/ handle_range_var
        \/ Finish \/ UNCHANGED vars
    BY DEF Next, WalkOn
  <2> QED BY <2>1, WalkKeepsInv, EndFilterPassKeepsInv, EndWalkKeepsInv,
             ResolveKeepsInv, FinishKeepsInv
<1> QED BY <1>1, <1>2, PTL DEF Spec

-----------------------------------------------------------------------------
(* What the summary lists. *)

\* What a search gets to is in a WHERE clause of a SELECT, before its sub-SELECTs.
LEMMA SearchedAre ==
  ASSUME IndInv, phase = "done", NEW n \in Nodes
  PROVE  /\ Searched(n) => Entered(n) /\ Filters(n)
         /\ Searched(n) <=> Entered(n) /\ BeforeSubselects(n)
<1>1. tree \in Trees /\ n \in Nat /\ ~save_filter_columns /\ Here = Len(tree) + 1
  BY TreeFacts DEF IndInv, TypeInv, Cursor, Here
<1>2. Searched(n) <=> \E s \in Nodes : Reached(n, s)
  BY <1>1, TreeFacts DEF Searched
<1>3. ASSUME NEW s \in Nodes
      PROVE  Reached(n, s) <=>
               /\ Entered(n) /\ InWhereOf(n, s)
               /\ \A m \in OfKind("select") \intersect Where(s) : n < m
  <2>1. Outside(n) <=> Entered(n)
    BY <1>1, OutsideIsEntered
  <2>2. s \in OfKind("select") <=> tree[s].kind = "select"
    BY DEF OfKind
  <2>3. ASSUME \A m \in OfKind("select") \intersect Where(s) : n < m,
               NEW m \in OfKind("select") \intersect Where(s)
        PROVE  ~Inside(n, m)
    <3>1. n < m /\ m \in Nat
      BY <1>1, <2>3, TreeFacts DEF OfKind
    <3> QED BY <1>1, <3>1 DEF Inside
  <2> QED BY <2>1, <2>2, <2>3 DEF Reached, InWhereOf
<1>4. Searched(n) <=> Entered(n) /\ BeforeSubselects(n)
  BY <1>2, <1>3 DEF BeforeSubselects
<1>5. BeforeSubselects(n) => Filters(n)
  BY DEF BeforeSubselects, Filters
<1> QED BY <1>4, <1>5

\* add_function is called for every function that the walk gets to, called or named,
\* for every tree, but for the later ones of DROP FUNCTION; more than once only in
\* the WHERE clause of a SELECT, and then twice, however such clauses nest.
THEOREM FunctionsListedHolds == Spec => []FunctionsListed
<1>1. ASSUME IndInv, phase = "done", NEW n \in OfKind("func")
      PROVE  /\ Count(functions, n) <= IF Filters(n) THEN 2 ELSE 1
             /\ Entered(n) => Count(functions, n) >= 1
  <2>1. tree \in Trees /\ n \in Nodes /\ Here = Len(tree) + 1
    BY <1>1 DEF IndInv, TypeInv, OfKind, Here
  <2>2. Passed(n) <=> Entered(n)
    BY <2>1, OutsideIsEntered, TreeFacts DEF Passed
  <2>3. Searched(n) => Filters(n)
    BY <1>1, <2>1, SearchedAre
  <2>4. Count(functions, n) = Once(Passed(n)) + Once(Searched(n))
    BY <1>1 DEF IndInv, FunctionsSoFar
  <2> QED BY <2>2, <2>3, <2>4 DEF Once
<1>2. ASSUME IndInv, phase = "done", NEW n \in OfKind("name")
      PROVE  /\ Count(functions, n) <= 1
             /\ Entered(n) /\ ~DroppedLater(n) => Count(functions, n) >= 1
  <2>1. /\ tree \in Trees /\ n \in Nodes /\ Here = Len(tree) + 1
        /\ tree[n].kind = "name" /\ Len(tree) \in Nat
    BY <1>2, TreeFacts DEF IndInv, TypeInv, OfKind, Here
  <2>2. Count(functions, n) = Once(n \in ListedNames /\ tree[n].parent < Here)
    BY <1>2 DEF IndInv, NamesSoFar
  <2>3. tree[n].parent < Here /\ tree[n].parent \in Nat
    BY <2>1, TreeFacts
  <2>4. /\ tree[n].parent > 0
        /\ tree[tree[n].parent].kind \in {"drop", "naming"} \union Closed
    BY <2>1, TreesAssumption, TreeFacts DEF IsTree, StandsRight
  <2>5. Entered(n) => tree[tree[n].parent].kind \notin Closed
    <3> SUFFICES ASSUME tree[tree[n].parent].kind \in Closed PROVE ~Entered(n)
      OBVIOUS
    <3>1. tree[n].parent \in ClosedNodes /\ tree[n].parent < n /\ n \in Nat
      BY <2>1, <2>4, TreeFacts DEF ClosedNodes
    <3>2. Inside(n, tree[n].parent)
      BY <2>1, <2>4, TreeFacts DEF Inside
    <3> QED BY <2>3, <3>1, <3>2 DEF Entered
  <2>6. Entered(n) /\ ~DroppedLater(n) => n \in ListedNames
    BY <2>4, <2>5 DEF ListedNames
  <2> QED BY <2>2, <2>3, <2>6 DEF Once
<1>3. IndInv => FunctionsListed
  <2>1. \A n \in OfKind("name") : IndInv /\ phase = "done" => Count(functions, n) \in Nat
    BY CountType DEF IndInv, TypeInv
  <2> QED BY <1>1, <1>2, <2>1 DEF FunctionsListed
<1> QED BY <1>3, WalkKeepsLists, PTL

\* save_filter_columns is on for columns of WHERE clauses of SELECTs only, at most
\* once for each, and for every one that no sub-SELECT stands before, for every tree.
THEOREM FilterColumnsOfWhereHolds == Spec => []FilterColumnsOfWhere
<1>1. IndInv => FilterColumnsOfWhere
  <2> SUFFICES ASSUME IndInv, phase = "done", NEW n \in OfKind("col")
               PROVE  /\ Count(filter_columns, n) <= 1
                      /\ Count(filter_columns, n) = 1 => Entered(n) /\ Filters(n)
                      /\ Entered(n) /\ BeforeSubselects(n) => Count(filter_columns, n) = 1
    BY DEF FilterColumnsOfWhere
  <2>1. n \in Nodes
    BY DEF OfKind
  <2>2. Count(filter_columns, n) = Once(Searched(n))
    BY DEF IndInv, ColumnsSoFar
  <2> QED BY <2>1, <2>2, SearchedAre DEF Once
<1> QED BY <1>1, WalkKeepsLists, PTL

\* After the pass over the range vars.
LEMMA WhenDone ==
  ASSUME IndInv, phase = "done"
  PROVE  /\ tree \in Trees
         /\ \A r \in OfKind("rv") :
              /\ Count(tables, r) = IF is_cte_reference(r) THEN 0
                                    ELSE Once(r \in Recorded)
              /\ Count(aliases, r) = IF tree[r].alias THEN Once(r \in Recorded) ELSE 0
         /\ cte_names = {tree[c].name : c \in {d \in Ctes : Outside(d)}}
<1>1. tree \in Trees /\ Here = Len(tree) + 1
  BY DEF IndInv, TypeInv, Here
<1>2. /\ range_vars \in Seq(Nat) /\ Len(range_vars) \in Nat
      /\ at = Len(range_vars) + 1 /\ at - 1 = Len(range_vars)
  BY DEF IndInv, TypeInv, TablesSoFar
<1>3. ASSUME NEW r \in OfKind("rv")
      PROVE  CountTo(range_vars, at - 1, r) = Once(r \in Recorded)
  <2>1. CountTo(range_vars, at - 1, r) = Count(range_vars, r)
    BY <1>2, CountIsCountTo
  <2>2. CASE r \in Recorded
    <3>1. r \in Nodes /\ tree[r].parent < Len(tree) + 1
      BY <1>1, TreeFacts DEF OfKind
    <3>2. Count(range_vars, r) = Once(tree[r].parent < Here)
      BY <2>2 DEF IndInv, RangeVarsSoFar
    <3> QED BY <1>1, <2>1, <2>2, <3>1, <3>2 DEF Once
  <2>3. CASE r \notin Recorded
    <3>1. {k \in 1..Len(range_vars) : range_vars[k] = r} = {}
      BY <2>3 DEF IndInv, RangeVarsSoFar
    <3>2. Count(range_vars, r) = 0
      BY <3>1, FS_EmptySet DEF Count
    <3> QED BY <2>1, <2>3, <3>2 DEF Once
  <2> QED BY <2>2, <2>3
<1>4. \A c \in Ctes : Met(c) <=> Outside(c)
  BY <1>1, TreeFacts DEF Met, Ctes
<1>5. cte_names = {tree[c].name : c \in {d \in Ctes : Outside(d)}}
  BY <1>4 DEF IndInv, CtesSoFar
<1> QED BY <1>1, <1>3, <1>5 DEF IndInv, TablesSoFar

\* Whoever sees a CTE and is met, is met with the CTE.
LEMMA SeenIsMet ==
  ASSUME tree \in Trees, NEW r \in Recorded, NEW c \in Ctes, Sees(r, c)
  PROVE  Outside(c)
<1> DEFINE s == tree[c].parent
<1>1. /\ c \in Nodes /\ s > 0 /\ tree[s].kind \in Statements /\ s \in Nodes
  BY PartsOfStatements, TreeFacts
<1>2. r \in Nodes /\ Outside(r)
  BY PartsOfStatements
<1>3. Outside(s)
  BY <1>1, <1>2, OutsideAbove DEF Sees
<1> QED BY <1>1, <1>3, OutsideWithParent DEF Statements, Closed

\* handle_range_var lists no mention twice, lists all that cannot be a CTE, and
\* lists a reference to a CTE only from inside the definition of one with that name,
\* for every tree.
THEOREM MentionsListedOnceHolds == Spec => []MentionsListedOnce
<1>1. IndInv => MentionsListedOnce
  <2> SUFFICES ASSUME IndInv, phase = "done", NEW r \in OfKind("rv")
               PROVE  /\ Count(tables, r) <= 1
                      /\ r \in Recorded /\ (\/ tree[r].role = "target" \/ tree[r].schema
                                            \/ \A c \in Ctes : tree[c].name # tree[r].name)
                           => Count(tables, r) = 1
                      /\ Count(tables, r) = 1 /\ RefersToCte(r)
                           => \E c \in Ctes : Inside(r, c) /\ tree[c].name = tree[r].name
                      /\ Count(aliases, r) = IF r \in Recorded /\ tree[r].alias THEN 1 ELSE 0
    BY DEF MentionsListedOnce
  <2>1. /\ tree \in Trees
        /\ Count(tables, r) = IF is_cte_reference(r) THEN 0 ELSE Once(r \in Recorded)
        /\ Count(aliases, r) = IF tree[r].alias THEN Once(r \in Recorded) ELSE 0
        /\ cte_names = {tree[c].name : c \in {d \in Ctes : Outside(d)}}
    BY WhenDone
  <2>2. Count(tables, r) <= 1
    BY <2>1 DEF Once
  <2>3. ASSUME r \in Recorded,
               \/ tree[r].role = "target" \/ tree[r].schema
               \/ \A c \in Ctes : tree[c].name # tree[r].name
        PROVE  Count(tables, r) = 1
    <3>1. ~is_cte_reference(r)
      BY <2>1, <2>3 DEF is_cte_reference
    <3> QED BY <2>1, <2>3, <3>1 DEF Once
  <2>4. ASSUME Count(tables, r) = 1, RefersToCte(r)
        PROVE  \E c \in Ctes : Inside(r, c) /\ tree[c].name = tree[r].name
    <3>1. r \in Recorded /\ ~is_cte_reference(r)
      BY <2>1, <2>4 DEF Once
    <3>2. tree[r].role = "from" /\ ~tree[r].schema
      BY <2>4, <3>1 DEF RefersToCte, Recorded
    <3>3. PICK c \in Ctes : tree[c].name = tree[r].name /\ Sees(r, c)
      BY <2>4 DEF RefersToCte
    <3>4. Outside(c)
      BY <2>1, <3>1, <3>3, SeenIsMet
    <3>5. tree[r].name \in cte_names
      BY <2>1, <3>3, <3>4
    <3>6. r \in cte_self_reference_range_vars
      BY <3>1, <3>2, <3>5 DEF is_cte_reference
    <3>7. PICK d \in Ctes : r \in SelfReferences(d)
      BY <3>6 DEF IndInv, CtesSoFar
    <3> QED BY <3>7 DEF SelfReferences
  <2>5. Count(aliases, r) = IF r \in Recorded /\ tree[r].alias THEN 1 ELSE 0
    BY <2>1 DEF Once
  <2> QED BY <2>2, <2>3, <2>4, <2>5
<1> QED BY <1>1, WalkKeepsLists, PTL

\* is_cte_reference, which knows one list of names for all scopes, agrees with the
\* scope rules of SQL for every tree whose names are clear.
THEOREM TablesAreRelationsIfClearHolds == Spec => []TablesAreRelationsIfClear
<1>1. IndInv => TablesAreRelationsIfClear
  <2> SUFFICES ASSUME IndInv, phase = "done", NamesAreClear, NEW r \in Recorded
               PROVE  Count(tables, r) = IF RefersToCte(r) THEN 0 ELSE 1
    BY DEF TablesAreRelationsIfClear
  <2>1. /\ r \in OfKind("rv") /\ Entered(r) /\ tree[r].role \in {"from", "target"}
    BY DEF Recorded
  <2>2. /\ tree \in Trees
        /\ Count(tables, r) = IF is_cte_reference(r) THEN 0 ELSE Once(r \in Recorded)
        /\ cte_names = {tree[c].name : c \in {d \in Ctes : Outside(d)}}
    BY <2>1, WhenDone
  <2>3. /\ \A c, d \in Ctes : tree[c].name = tree[d].name => c = d
        /\ \A c \in Ctes :
             tree[r].role = "from" /\ ~tree[r].schema /\ tree[r].name = tree[c].name
               => Sees(r, c) \/ Inside(r, c)
    BY DEF NamesAreClear
  <2>4. ASSUME RefersToCte(r) PROVE is_cte_reference(r)
    <3>1. tree[r].role = "from" /\ ~tree[r].schema
      BY <2>1, <2>4 DEF RefersToCte
    <3>2. PICK c \in Ctes : tree[c].name = tree[r].name /\ Sees(r, c)
      BY <2>4 DEF RefersToCte
    <3>3. tree[r].name \in cte_names
      BY <2>2, <3>2, SeenIsMet
    <3>4. ASSUME r \in cte_self_reference_range_vars PROVE FALSE
      <4>1. PICK d \in Ctes : Plain(d) /\ r \in SelfReferences(d)
        BY <3>4 DEF IndInv, CtesSoFar
      <4>2. Inside(r, d) /\ tree[d].name = tree[r].name
        BY <4>1 DEF SelfReferences
      <4>3. d = c
        BY <2>3, <3>2, <4>2
      <4>4. c \in Children(tree[c].parent, "with") /\ c \in Nat
        BY <2>2, TreeFacts DEF Children, Ctes
      <4>5. tree[tree[c].parent].recursive \/ c < c
        BY <3>2, <4>2, <4>3, <4>4 DEF Sees
      <4> QED BY <4>1, <4>3, <4>4, <4>5 DEF Plain
    <3> QED BY <3>1, <3>3, <3>4 DEF is_cte_reference
  <2>5. ASSUME is_cte_reference(r) PROVE RefersToCte(r)
    <3>1. /\ tree[r].role = "from" /\ ~tree[r].schema /\ tree[r].name \in cte_names
          /\ r \notin cte_self_reference_range_vars
      BY <2>5 DEF is_cte_reference
    <3>2. PICK c \in Ctes : Outside(c) /\ tree[c].name = tree[r].name
      BY <2>2, <3>1
    <3>3. Sees(r, c)
      <4> SUFFICES ASSUME ~Sees(r, c) PROVE FALSE
        OBVIOUS
      <4> DEFINE s == tree[c].parent
      <4>1. Inside(r, c)
        BY <2>3, <3>1, <3>2
      <4>2. c \in Nodes /\ s \in Nodes /\ s < c /\ tree[c].last <= tree[s].last /\ r \in Nodes
        BY <2>1, <2>2, PartsOfStatements, TreeFacts DEF OfKind
      <4>3. Inside(r, s)
        BY <2>2, <4>1, <4>2, TreeFacts DEF Inside
      <4>4. ~tree[s].recursive
        BY <4>3 DEF Sees
      <4>5. Plain(c) /\ OwnName(c)
        BY <2>3, <4>4 DEF Plain, OwnName
      <4>6. Met(c)
        BY <2>2, <3>2, <4>2, TreeFacts DEF Met, Here
      <4>7. SelfReferences(c) \subseteq cte_self_reference_range_vars
        BY <4>5, <4>6 DEF IndInv, CtesSoFar
      <4>8. r \in SelfReferences(c)
        BY <2>1, <3>1, <3>2, <4>1 DEF SelfReferences
      <4> QED BY <3>1, <4>7, <4>8
    <3> QED BY <3>1, <3>2, <3>3 DEF RefersToCte
  <2> QED BY <2>2, <2>4, <2>5 DEF Once
<1> QED BY <1>1, WalkKeepsLists, PTL
=============================================================================
