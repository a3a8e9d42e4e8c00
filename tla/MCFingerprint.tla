--------------------------- MODULE MCFingerprint ---------------------------
(* Fingerprint on four families of trees. *)
EXTENDS FingerprintCanonical

Col(c) == Node("ColumnRef", <<c>>, <<>>)
Const == Ignored
Leaves == {Col("a"), Col("b"), Const}
List(name, items) == Field(name, "list", ListOf(items))
Func(args) == Node("FuncCall", <<>>, <<List("args", args)>>)
Target(x) == Node("ResTarget", <<>>, <<Field("val", "node", x)>>)
Select(fields) == Node("SelectStmt", <<>>, fields)
Raw(stmt) == ListOf(<<Node("RawStmt", <<>>, <<Field("stmt", "node", stmt)>>)>>)

\* Target lists of functions of leaves, in every order and with repetitions.
Funcs == {Func(args) : args \in SeqOf(Leaves \union {Nil}, 2)}
Targets == {Select(<<List("targetList", <<Target(x), Target(y)>>)>>) :
              x \in Funcs, y \in Leaves \union Funcs}

\* Functions of functions of functions: each list is walked again and again,
\* and the innermost arguments are below the limit.
Around(S) == UNION {{Func(<<x>>), Func(<<x, Col("a")>>), Func(<<Col("a"), x>>),
                     Func(<<x, x>>)} : x \in S}
Deep == Around(Around({Func(args) : args \in SeqOf(Leaves, 2)}))

\* Relations in DML and utility statements.
Relations == {RangeVar(alias, schema, name, "p") :
                alias \in {Nil, "x"}, schema \in {Nil, "s"}, name \in {"t1", "t12"}}
From == {Raw(Select(<<List("fromClause", <<r, s>>)>>)) :
           r \in Relations, s \in Relations}
Relation == {Raw(Node(type, <<>>, <<Field("relation", "specific", r)>>)) :
               type \in {"InsertStmt", "CopyStmt"},
               r \in Relations \union {RangeVar(Nil, Nil, "t1", "t")}}

\* SELECT DISTINCT, lists in their own order, rows of values, and set operations
\* nested by fields of one given type.
Fields == {Select(<<List("distinctClause", d), List("groupClause", g),
                    List("valuesLists", <<ListOf(<<Col("b"), Col("a")>>), v>>)>>) :
             d \in {<<>>, <<Nil>>, <<Col("a")>>}, g \in SeqOf(Leaves, 2),
             v \in {Nil, ListOf(<<Col("a"), Col("b")>>)}}
Union(larg, rarg) == Select(<<Field("larg", "specific", larg),
                              Field("rarg", "specific", rarg)>>)
RECURSIVE Chain(_, _)
Chain(n, x) == IF n = 0 THEN x ELSE Union(Chain(n - 1, x), Select(<<>>))
Unions == {Chain(n, Select(<<List("groupClause", <<x>>)>>)) : n \in 1..6, x \in Leaves}

MCTrees == Targets \union Deep \union From \union Relation \union Fields \union Unions

MCOptions == {{}, {"IGNORE_ALIASES", "INCLUDE_SCHEMA"}, {"FULL_RELNAME"},
              {"INCLUDE_SCHEMA"}}
MCSorted == {"fromClause", "targetList", "cols", "rexpr", "valuesLists", "args"}
MCPlaces == {<<"SelectStmt", "fromClause">>, <<"InsertStmt", "relation">>}
MCWithoutDigits(name) == IF name = "t12" THEN "t" ELSE name

\* Hash values are ordered like this: longer input first, then by rank.
Strings == <<"x", "s", "t", "t1", "t12", "a", "b", "RangeVar", "aliasname",
             "relname", "schemaname", "relpersistence", "p", "ColumnRef", "FuncCall", "args", "ResTarget",
             "val", "SelectStmt", "targetList", "RawStmt", "stmt", "fromClause",
             "relation", "InsertStmt", "CopyStmt", "distinctClause", "groupClause",
             "valuesLists", "larg", "rarg">>
Rank == [s \in Range(Strings) |-> CHOOSE i \in 1..Len(Strings) : Strings[i] = s]
MCBefore(s, t) ==
  \/ Len(s) > Len(t)
  \/ /\ Len(s) = Len(t)
     /\ \E i \in 1..Len(s) : /\ Rank[s[i]] < Rank[t[i]]
                             /\ \A j \in 1..(i - 1) : s[j] = t[j]
=============================================================================
