--------------------------- MODULE MCDeparseExpr ---------------------------
(* DeparseExpr on all expressions of two levels and spines of three. *)
EXTENDS DeparseExpr

Col == E("col", <<>>)
Simple == {Col, E("1", <<>>), E("-1", <<>>)}

Prefix == {"prefix -", "prefix Op", "NOT"}

\* AND below AND on the left, and minus on a constant, are never built.
Unary(S) == {E(op, <<x>>) : op \in Prefix \union Completing, x \in S}
              \ {E("prefix -", <<x>>) : x \in Simple \ {Col}}
Binary(S, T) == {E(op, <<x, y>>) : op \in Infix \union {"SIMILAR"}, x \in S, y \in T}
Bools(S, T) ==
  UNION {{E(op, <<x, y>>) : x \in {x \in S : x.op # op}, y \in T} : op \in BoolOps}
Between(S, T, U) ==
  {E(op, <<x, y, z>>) : op \in {"BETWEEN", "SIMILAR"}, x \in S, y \in T, z \in U}

One == Unary({Col, E("-1", <<>>)}) \union Binary({Col}, {Col}) \union Bools({Col}, {Col})
         \union Between({Col}, {Col}, {Col})

\* One operand is from S, the others are columns.
Spines(S) == Unary(S) \union Binary(S, {Col}) \union Binary({Col}, S)
               \union Bools(S, {Col}) \union Bools({Col}, S)
               \union Between(S, {Col}, {Col}) \union Between({Col}, S, {Col})
               \union Between({Col}, {Col}, S)

\* Both operands have operators of their own.
Full == Binary(One, One) \union Bools(One, One)
          \union {E("AND", <<Col, x, Col>>) : x \in One}

Some == {x \in One : x.op \in {"prefix Op", "NOT", "= ANY", "+ ANY", "=", "||", "BETWEEN"}
                     /\ x.args[1] = Col}

MCExprs == Simple \union One \union Spines(One) \union Full \union Spines(Spines(Some))
MCContexts == {"a_expr", "b_expr", "c_expr"}
=============================================================================
