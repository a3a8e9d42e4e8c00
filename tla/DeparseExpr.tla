---------------------------- MODULE DeparseExpr ----------------------------
(***************************************************************************)
(* The deparser writes an expression with as few parentheses as the        *)
(* grammar lets it get away with.  Deparsing is a recursive operator here  *)
(* that gives the tokens of the text; the state machine is the parser that *)
(* reads them back, with the conflicts of the grammar resolved by the      *)
(* precedence of rules and tokens as bison does it.                        *)
(*                                                                         *)
(* An expression is an operation with its operands.  A construct that has  *)
(* one operand and then only tokens up to its end, like IN (...) or        *)
(* COLLATE "c", is an operation on that operand and one token.             *)
(***************************************************************************)
EXTENDS Naturals, Sequences, FiniteSets, TLC

CONSTANTS
  Exprs,     \* expressions that the parser can build
  Contexts,  \* where they stand: "a_expr", "b_expr", "c_expr"
  NoOperand

E(op, args) == [op |-> op, args |-> args]

\* One operator of each class that getOperatorPrecedence tells apart, and the
\* binary constructs with a keyword ...
Infix == {"=", "DISTINCT", "LIKE", "||", "+", "*", "^", "AT"}
\* ... and of the classes that deparseSubqueryOp writes before ANY and ALL.
AnyOps == {"= ANY", "LIKE ANY", "|| ANY", "+ ANY"}
BoolOps == {"AND", "OR"}

VARIABLES
  tree, context,  \* what was deparsed, and where
  input,          \* the tokens that are left
  previous,       \* the token before them
  pending,        \* rules under way: a token and the operands before it
  operand,        \* the operand that has been read, or NoOperand
  verdict         \* "parsing", "accepted", "error"

expr_vars == <<tree, context, input, previous, pending, operand, verdict>>

-----------------------------------------------------------------------------
(* The deparser: DeparseExprPrec and what is built on it. *)

PREC_OR == 1
PREC_AND == 2
PREC_NOT == 3
PREC_IS == 4
PREC_COMPARISON == 5
PREC_BETWEEN == 6
PREC_OP == 7
PREC_ADD == 8
PREC_MUL == 9
PREC_EXP == 10
PREC_AT == 11
PREC_COLLATE == 12
PREC_UMINUS == 13
PREC_ATOM == 14

\* getSubqueryOperatorPrecedence, of the operator before ANY.
getSubqueryOperatorPrecedence ==
  "= ANY" :> PREC_COMPARISON @@ "LIKE ANY" :> PREC_BETWEEN
    @@ "|| ANY" :> PREC_OP @@ "+ ANY" :> PREC_ADD

\* getExprPrecedence; x + ANY (...) has the smaller of the precedences of + and
\* Op.
getExprPrecedence ==
  "AND" :> PREC_AND @@ "OR" :> PREC_OR @@ "NOT" :> PREC_NOT
    @@ "DISTINCT" :> PREC_IS @@ "IS NULL" :> PREC_IS
    @@ "=" :> PREC_COMPARISON @@ "= ANY" :> PREC_COMPARISON
    @@ "LIKE" :> PREC_BETWEEN @@ "LIKE ANY" :> PREC_BETWEEN
    @@ "IN" :> PREC_BETWEEN @@ "BETWEEN" :> PREC_BETWEEN @@ "SIMILAR" :> PREC_BETWEEN
    @@ "||" :> PREC_OP @@ "|| ANY" :> PREC_OP @@ "+ ANY" :> PREC_OP
    @@ "prefix Op" :> PREC_OP @@ "+" :> PREC_ADD @@ "*" :> PREC_MUL
    @@ "^" :> PREC_EXP @@ "AT" :> PREC_AT @@ "AT LOCAL" :> PREC_AT
    @@ "COLLATE" :> PREC_COLLATE
    @@ "prefix -" :> PREC_UMINUS @@ "::" :> PREC_ATOM @@ "[]" :> PREC_ATOM
    @@ "col" :> PREC_ATOM @@ "1" :> PREC_ATOM @@ "-1" :> PREC_ATOM

isSubqueryComparisonForm(x) == x.op \in AnyOps \union {"IN"}

\* Mutation: no operator is non-associative.
NeedsParensAllLeft(x, parent, side) ==
  LET prec == getExprPrecedence[x.op]
  IN  \/ prec < parent
      \/ prec = parent /\ parent \notin {PREC_NOT, PREC_UMINUS} /\ side = "right"

\* Mutation: an operator of the same precedence on the right is left alone.
NeedsParensNotRight(x, parent, side) ==
  LET prec == getExprPrecedence[x.op]
  IN  \/ prec < parent
      \/ /\ prec = parent
         /\ ~(side = "left" /\ isSubqueryComparisonForm(x))
         /\ parent \in {PREC_IS, PREC_COMPARISON, PREC_BETWEEN}

needsParensForPrecedence(x, parent, side) ==
  LET prec == getExprPrecedence[x.op]
  IN  \/ prec < parent
      \/ /\ prec = parent
         /\ ~(side = "left" /\ isSubqueryComparisonForm(x))
         /\ \/ parent \in {PREC_IS, PREC_COMPARISON, PREC_BETWEEN}
            \/ parent \notin {PREC_NOT, PREC_UMINUS} /\ side = "right"

\* b_expr has rules for operators and IS DISTINCT FROM.
needsParensAsBExpr(x) ==
  /\ x.op \notin (Infix \ {"LIKE", "AT"}) \union {"prefix -", "prefix Op"}
  /\ getExprPrecedence[x.op] # PREC_ATOM

needsParensAsCExpr(x) ==
  getExprPrecedence[x.op] # PREC_ATOM \/ needsParensAsBExpr(x)

Parens(text) == <<"(">> \o text \o <<")">>

RECURSIVE deparseExpr(_, _)

deparseExprOperand(x, parent, side, ctx) ==
  IF needsParensForPrecedence(x, parent, side)
       \/ (ctx = "b_expr" /\ needsParensAsBExpr(x))
  THEN Parens(deparseExpr(x, "a_expr")) ELSE deparseExpr(x, ctx)

\* IN and op ANY, with a query or with a list: the left operand is up against the
\* operator token, not against the rule.  A SubLink always has ctx "a_expr".
deparseSubLink(x, ctx) ==
  deparseExprOperand(x.args[1],
                     IF x.op = "IN" THEN PREC_BETWEEN
                     ELSE getSubqueryOperatorPrecedence[x.op], "left", ctx) \o <<x.op>>

\* deparseTypeCast and deparseAIndirection decide on their own.
CastArg(x) ==
  IF needsParensAsCExpr(x) \/ x.op = "-1" THEN Parens(deparseExpr(x, "a_expr"))
  ELSE deparseExpr(x, "a_expr")
SubscriptArg(x) ==
  IF x.op = "col" THEN <<"col">> ELSE Parens(deparseExpr(x, "a_expr"))

\* deparseBoolExpr: only AND and OR get parentheses.
BoolArg(x) ==
  IF x.op \in BoolOps THEN Parens(deparseExpr(x, "a_expr"))
  ELSE deparseExpr(x, "a_expr")
RECURSIVE JoinedArgs(_, _)
JoinedArgs(op, args) ==
  IF Len(args) = 1 THEN BoolArg(args[1])
  ELSE BoolArg(args[1]) \o <<op>> \o JoinedArgs(op, Tail(args))

\* The context goes on to the operands of an A_Expr only.
deparseExpr(x, ctx) ==
  LET prec == getExprPrecedence[x.op]
      inner == IF ctx = "b_expr" THEN "b_expr" ELSE "a_expr"
      Left(p, c) == deparseExprOperand(x.args[1], p, "left", c)
      Right(i, c) == deparseExprOperand(x.args[i], prec, "right", c)
  IN  CASE x.op \in {"col", "1"} -> <<x.op>>
        [] x.op = "-1" -> <<"-", "1">>
        [] x.op = "AT" -> Left(prec, "a_expr") \o <<"AT">> \o Right(2, "a_expr")
        [] x.op \in Infix \ {"AT"} -> Left(prec, inner) \o <<x.op>> \o Right(2, inner)
        [] x.op = "prefix -" -> <<"-">> \o Right(1, inner)
        [] x.op = "prefix Op" -> <<"@">> \o Right(1, inner)
        [] isSubqueryComparisonForm(x) -> deparseSubLink(x, inner)
        [] x.op = "BETWEEN" -> Left(prec, inner) \o <<"BETWEEN">>
                                 \o Right(2, "b_expr") \o <<"AND">> \o Right(3, inner)
        [] x.op = "SIMILAR" -> Left(prec, inner) \o <<"SIMILAR">> \o Right(2, inner)
                                 \o IF Len(x.args) < 3 THEN <<>>
                                    ELSE <<"ESCAPE">> \o Right(3, inner)
        [] x.op \in {"IS NULL", "COLLATE", "AT LOCAL"} -> Left(prec, "a_expr") \o <<x.op>>
        [] x.op \in BoolOps -> JoinedArgs(x.op, x.args)
        [] x.op = "NOT" -> <<"NOT">> \o BoolArg(x.args[1])
        [] x.op = "::" -> CastArg(x.args[1]) \o <<"::">>
        [] x.op = "[]" -> SubscriptArg(x.args[1]) \o <<"[]">>

deparseBExpr(x) ==
  IF needsParensAsBExpr(x) THEN Parens(deparseExpr(x, "a_expr"))
  ELSE deparseExpr(x, "b_expr")

\* A cast is not among the types that need no parentheses.
deparseCExpr(x) ==
  IF needsParensAsCExpr(x) \/ x.op = "::" THEN Parens(deparseExpr(x, "a_expr"))
  ELSE deparseExpr(x, "a_expr")

Deparsed(x, ctx) ==
  CASE ctx = "a_expr" -> deparseExpr(x, "a_expr")
    [] ctx = "b_expr" -> deparseBExpr(x)
    [] ctx = "c_expr" -> deparseCExpr(x)

-----------------------------------------------------------------------------
(* The parser, external to this code: the rules of a_expr and b_expr with    *)
(* %left, %right and %nonassoc of the grammar.                              *)

\* The tokens that may follow an operand, with their precedence ...
TokenPrec ==
  "OR" :> 1 @@ "AND" :> 2 @@ "DISTINCT" :> 4 @@ "IS NULL" :> 4
    @@ "=" :> 5 @@ "= ANY" :> 5 @@ "LIKE" :> 6 @@ "LIKE ANY" :> 6 @@ "IN" :> 6
    @@ "BETWEEN" :> 6 @@ "SIMILAR" :> 6 @@ "||" :> 7 @@ "|| ANY" :> 7 @@ "+" :> 8
    @@ "-" :> 8 @@ "+ ANY" :> 8 @@ "*" :> 9 @@ "^" :> 10 @@ "AT" :> 11
    @@ "AT LOCAL" :> 11 @@ "COLLATE" :> 12 @@ "[]" :> 14 @@ "::" :> 15
\* ... and those of them after which the construct is complete.
Completing == AnyOps \union {"IN", "IS NULL", "AT LOCAL", "COLLATE", "::", "[]"}
NonAssociative == {4, 5, 6}
RightAssociative == {3, 13}

\* The precedence of a rule under way.
RulePrec(rule) ==
  CASE rule.args = <<>> /\ rule.token = "NOT" -> 3
    [] rule.args = <<>> /\ rule.token = "-" -> 13
    [] rule.args = <<>> /\ rule.token = "@" -> 7
    [] OTHER -> TokenPrec[rule.token]

LastPending(token) ==
  IF \E i \in 1..Len(pending) : pending[i].token = token
  THEN CHOOSE i \in 1..Len(pending) :
         pending[i].token = token /\ \A j \in (i + 1)..Len(pending) :
                                       pending[j].token # token
  ELSE 0

TopRule == pending[Len(pending)]
OpenBetween(rule) == rule.token = "BETWEEN" /\ Len(rule.args) = 1

\* The grammar symbol that is being read: the innermost bracket says a_expr, the
\* lower bound of a BETWEEN says b_expr.
Nonterminal ==
  LET bound == {i \in 1..Len(pending) : OpenBetween(pending[i])}
  IN  IF \E i \in bound : i > LastPending("(") THEN "b_expr"
      ELSE IF LastPending("(") > 0 THEN "a_expr" ELSE context

Lookahead == IF input = <<>> THEN "end" ELSE Head(input)
Allowed(token) ==
  CASE Nonterminal = "a_expr" -> TRUE
    [] Nonterminal = "b_expr" -> token \in {"=", "DISTINCT", "||", "+", "*", "^", "-",
                                            "@", "::", "[]", "AND"}
    [] OTHER -> token = "[]"

\* What reducing a rule builds: AND and OR are flattened to the left, and a
\* minus goes into a constant (makeAndExpr, makeOrExpr, doNegate).
Built(rule, x) ==
  LET args == Append(rule.args, x)
  IN  CASE rule.token \in BoolOps /\ args[1].op = rule.token ->
             E(rule.token, Append(args[1].args, x))
        [] rule.args = <<>> /\ rule.token = "-" ->
             IF x.op = "1" THEN E("-1", <<>>)
             ELSE IF x.op = "-1" THEN E("1", <<>>) ELSE E("prefix -", args)
        [] rule.args = <<>> /\ rule.token = "@" -> E("prefix Op", args)
        [] OTHER -> E(rule.token, args)

ExprInit ==
  /\ tree \in Exprs /\ context \in Contexts
  /\ input = Deparsed(tree, context)
  /\ previous = "start" /\ pending = <<>> /\ operand = NoOperand
  /\ verdict = "parsing"

Read ==
  /\ input' = Tail(input) /\ previous' = Head(input)
  /\ UNCHANGED <<tree, context, verdict>>

\* An operand is expected.
Starting == \/ Lookahead \in {"col", "1", "("}
            \/ Lookahead \in {"-", "@", "NOT"} /\ Allowed(Lookahead)

ShiftOperand ==
  /\ verdict = "parsing" /\ operand = NoOperand /\ Lookahead \in {"col", "1"}
  /\ operand' = E(Lookahead, <<>>)
  /\ UNCHANGED pending /\ Read

ShiftPrefix ==
  /\ verdict = "parsing" /\ operand = NoOperand /\ Starting /\ Lookahead \notin {"col", "1"}
  /\ pending' = Append(pending, [token |-> Lookahead, args |-> <<>>])
  /\ UNCHANGED operand /\ Read

\* An operand has been read: between the rule it may end and the token that may
\* go on, the higher precedence wins, then associativity.
Rule == pending # <<>> /\ TopRule.token # "(" /\ ~OpenBetween(TopRule)
EndsBound == Lookahead = "AND" /\ Nonterminal = "b_expr"
Operator == Lookahead \in DOMAIN TokenPrec /\ ~EndsBound
Subscriptable == Lookahead = "[]" => previous \in {"col", ")"}

\* ESCAPE is just above LIKE and SIMILAR: it goes on with their rule.
Escaping ==
  /\ Rule /\ Lookahead = "ESCAPE"
  /\ TopRule.token \in {"LIKE", "SIMILAR"} /\ Len(TopRule.args) = 1

Reducing ==
  /\ Rule /\ ~Escaping
  /\ Operator =>
       \/ RulePrec(TopRule) > TokenPrec[Lookahead]
       \/ /\ RulePrec(TopRule) = TokenPrec[Lookahead]
          /\ RulePrec(TopRule) \notin NonAssociative \union RightAssociative

Shifting ==
  /\ Operator /\ Allowed(Lookahead) /\ Subscriptable
  /\ Rule => RulePrec(TopRule) < TokenPrec[Lookahead]

Reduce ==
  /\ verdict = "parsing" /\ operand # NoOperand /\ Reducing
  /\ operand' = Built(TopRule, operand)
  /\ pending' = SubSeq(pending, 1, Len(pending) - 1)
  /\ UNCHANGED <<tree, context, input, previous, verdict>>

ShiftOperator ==
  /\ verdict = "parsing" /\ operand # NoOperand /\ Shifting
  /\ IF Lookahead \in Completing
     THEN operand' = E(Lookahead, <<operand>>) /\ UNCHANGED pending
     ELSE /\ pending' = Append(pending, [token |-> Lookahead, args |-> <<operand>>])
          /\ operand' = NoOperand
  /\ Read

\* The AND of a BETWEEN, and ESCAPE.
Bounding == ~Rule /\ EndsBound /\ pending # <<>> /\ OpenBetween(TopRule)
ShiftBound ==
  /\ verdict = "parsing" /\ operand # NoOperand /\ (Bounding \/ Escaping)
  /\ pending' = [pending EXCEPT ![Len(pending)].args = Append(@, operand)]
  /\ operand' = NoOperand
  /\ Read

Closing == ~Rule /\ Lookahead = ")" /\ pending # <<>> /\ TopRule.token = "("
Close ==
  /\ verdict = "parsing" /\ operand # NoOperand /\ Closing
  /\ pending' = SubSeq(pending, 1, Len(pending) - 1)
  /\ UNCHANGED operand /\ Read

AtEnd == pending = <<>> /\ Lookahead = "end"
Accept ==
  /\ verdict = "parsing" /\ operand # NoOperand /\ AtEnd
  /\ verdict' = "accepted"
  /\ UNCHANGED <<tree, context, input, previous, pending, operand>>

Reject ==
  /\ verdict = "parsing"
  /\ IF operand = NoOperand THEN ~Starting
     ELSE ~(Reducing \/ Shifting \/ Bounding \/ Escaping \/ Closing \/ AtEnd)
  /\ verdict' = "error"
  /\ UNCHANGED <<tree, context, input, previous, pending, operand>>

ExprNext == ShiftOperand \/ ShiftPrefix \/ Reduce \/ ShiftOperator \/ ShiftBound
          \/ Close \/ Accept \/ Reject

ExprSpec == ExprInit /\ [][ExprNext]_expr_vars

-----------------------------------------------------------------------------
(* Properties. *)

\* Wherever the grammar has an a_expr, b_expr or c_expr, the parser reads the
\* text, and reads the expression that was deparsed: leaving out parentheses
\* never lets an operator take the operand of another one.  The exception is a
\* negative constant as a c_expr, which is written without the parentheses it
\* needs (SELECT * FROM xmltable('/x' PASSING (-1) COLUMNS a int)).
RoundTrip ==
  /\ verdict = "accepted" => operand = tree
  /\ verdict = "error" => context = "c_expr" /\ tree.op = "-1"
=============================================================================
