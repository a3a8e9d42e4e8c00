------------------------------- MODULE Split -------------------------------
(***************************************************************************)
(* pg_query_split_with_scanner: the input is scanned twice, once to count  *)
(* the statements and once to fill the array that was allocated for them.  *)
(* What counts as the end of a statement is decided by the same few lines, *)
(* written out in both passes.                                             *)
(***************************************************************************)
EXTENDS Integers, Sequences, FiniteSets

CONSTANTS
  Inputs,   \* token sequences
  Loc(_),   \* byte offset of the i-th token; the last one is the end of input
  Wrap      \* 2^(bits of size_t)

\* The kinds of token that the passes tell apart; the scanner raises an error
\* in place of a "bad" one.
Tokens == {"keyword", "(", ")", ";", "other", "bad"}

ASSUME InputsAssumption ==
  \A q \in Inputs : q \in Seq(Tokens) /\ Len(q) < Wrap
ASSUME WrapAssumption == Wrap \in Nat /\ Wrap > 1
\* Tokens follow each other and take at least one byte.
ASSUME LocAssumption ==
  \A q \in Inputs : \A i \in 1..(Len(q) + 1) :
    /\ Loc(i) \in Nat
    /\ \A j \in 1..(Len(q) + 1) : i < j => Loc(i) < Loc(j)

VARIABLES
  input,
  phase,         \* "count", "fill", "done" or "error"
  pos,           \* tokens read so far, plus one
  keyword_before_terminator,
  open_parens,   \* size_t
  n_stmts,
  stmts,         \* the slots of result.stmts written so far
  stmtstart

vars == <<input, phase, pos, keyword_before_terminator, open_parens, n_stmts,
          stmts, stmtstart>>

\* What the scanner returns for its i-th call.
Tok(q, i) == IF i <= Len(q) THEN q[i] ELSE "eof"

Init ==
  /\ input \in Inputs
  /\ phase = "count"
  /\ pos = 1
  /\ keyword_before_terminator = FALSE
  /\ open_parens = 0
  /\ n_stmts = 0
  /\ stmts = <<>>
  /\ stmtstart = 0

\* Unsigned arithmetic wraps around.
ParensAfter(tok) ==
  CASE tok = "(" -> IF open_parens = Wrap - 1 THEN 0 ELSE open_parens + 1
    [] tok = ")" -> IF open_parens = 0 THEN Wrap - 1 ELSE open_parens - 1
    [] OTHER -> open_parens

\* Mutation: a terminator inside of parentheses ends the statement.
TerminatesAnywhere(tok) == keyword_before_terminator /\ tok \in {";", "eof"}
\* Mutation: the end of the input is not a terminator.
TerminatesAtSemicolon(tok) ==
  keyword_before_terminator /\ open_parens = 0 /\ tok = ";"

Terminates(tok) ==
  /\ keyword_before_terminator
  /\ open_parens = 0
  /\ tok \in {";", "eof"}

KeywordAfter(tok) ==
  tok = "keyword" \/ (keyword_before_terminator /\ ~Terminates(tok))

\* Mutation: the first pass does not notice a bad token.
CountTokenSkipsBad ==
  /\ phase = "count"
  /\ Tok(input, pos) # "eof"
  /\ n_stmts' = IF Terminates(Tok(input, pos)) THEN n_stmts + 1 ELSE n_stmts
  /\ keyword_before_terminator' = KeywordAfter(Tok(input, pos))
  /\ open_parens' = ParensAfter(Tok(input, pos))
  /\ pos' = pos + 1
  /\ UNCHANGED <<input, phase, stmts, stmtstart>>

\* First pass, a token that is not the last one.
CountToken ==
  /\ phase = "count"
  /\ Tok(input, pos) \notin {"bad", "eof"}
  /\ n_stmts' = IF Terminates(Tok(input, pos)) THEN n_stmts + 1 ELSE n_stmts
  /\ keyword_before_terminator' = KeywordAfter(Tok(input, pos))
  /\ open_parens' = ParensAfter(Tok(input, pos))
  /\ pos' = pos + 1
  /\ UNCHANGED <<input, phase, stmts, stmtstart>>

\* Mutation: the second pass goes on with the parentheses of the first one.
CountEndKeepsParens ==
  /\ phase = "count"
  /\ Tok(input, pos) = "eof"
  /\ n_stmts' = IF Terminates("eof") THEN n_stmts + 1 ELSE n_stmts
  /\ keyword_before_terminator' = FALSE
  /\ pos' = 1
  /\ phase' = "fill"
  /\ UNCHANGED <<input, open_parens, stmts, stmtstart>>

\* End of input in the first pass; the array is allocated and the second
\* scanner set up.
CountEnd ==
  /\ phase = "count"
  /\ Tok(input, pos) = "eof"
  /\ n_stmts' = IF Terminates("eof") THEN n_stmts + 1 ELSE n_stmts
  /\ keyword_before_terminator' = FALSE
  /\ open_parens' = 0
  /\ pos' = 1
  /\ phase' = "fill"
  /\ UNCHANGED <<input, stmts, stmtstart>>

\* The statement that ends at the current token.
Stmt == [location |-> stmtstart, len |-> Loc(pos) - stmtstart]

\* Mutation: an empty statement does not move the start of the next one.
StartAfterStatementOnly(tok) ==
  IF Terminates(tok) THEN Loc(pos) + 1 ELSE stmtstart

StartAfter(tok) ==
  IF Terminates(tok) \/ (open_parens = 0 /\ tok = ";")
  THEN Loc(pos) + 1 ELSE stmtstart

FillToken ==
  /\ phase = "fill"
  /\ Tok(input, pos) \notin {"bad", "eof"}
  /\ stmts' = IF Terminates(Tok(input, pos)) THEN Append(stmts, Stmt) ELSE stmts
  /\ stmtstart' = StartAfter(Tok(input, pos))
  /\ keyword_before_terminator' = KeywordAfter(Tok(input, pos))
  /\ open_parens' = ParensAfter(Tok(input, pos))
  /\ pos' = pos + 1
  /\ UNCHANGED <<input, phase, n_stmts>>

FillEnd ==
  /\ phase = "fill"
  /\ Tok(input, pos) = "eof"
  /\ stmts' = IF Terminates("eof") THEN Append(stmts, Stmt) ELSE stmts
  /\ stmtstart' = StartAfter("eof")
  /\ keyword_before_terminator' = KeywordAfter("eof")
  /\ phase' = "done"
  /\ UNCHANGED <<input, pos, open_parens, n_stmts>>

\* core_yylex raises an error: PG_CATCH, with result as it is.
ScanError ==
  /\ phase \in {"count", "fill"}
  /\ Tok(input, pos) = "bad"
  /\ phase' = "error"
  /\ UNCHANGED <<input, pos, keyword_before_terminator, open_parens, n_stmts,
                 stmts, stmtstart>>

Next == CountToken \/ CountEnd \/ FillToken \/ FillEnd \/ ScanError

Spec == Init /\ [][Next]_vars

-----------------------------------------------------------------------------
(* What a statement is, without scanning: boundaries are the terminators   *)
(* with as many "(" as ")" before them, and a statement ends at a boundary *)
(* if there is a keyword between it and the boundary before.               *)

Count(q, t, i) == Cardinality({k \in 1..(i - 1) : Tok(q, k) = t})
Depth(q, i) == Count(q, "(", i) - Count(q, ")", i)
Boundary(q, i) == Tok(q, i) \in {";", "eof"} /\ Depth(q, i) = 0
KeywordPending(q, i) ==
  \E k \in 1..(i - 1) : /\ Tok(q, k) = "keyword"
                        /\ \A m \in k..(i - 1) : ~Boundary(q, m)
Ends(q, i) == Boundary(q, i) /\ KeywordPending(q, i)
EndsBefore(q, i) == {k \in 1..(i - 1) : Ends(q, k)}
\* s is the offset after the last boundary before the i-th token.
IsStart(q, s, i) ==
  \/ s = 0 /\ \A m \in 1..(i - 1) : ~Boundary(q, m)
  \/ \E b \in 1..(i - 1) : /\ Boundary(q, b) /\ s = Loc(b) + 1
                           /\ \A m \in (b + 1)..(i - 1) : ~Boundary(q, m)
\* stmt is the statement that ends at the i-th token.
IsStmt(q, stmt, i) ==
  IsStart(q, stmt.location, i) /\ stmt.location + stmt.len = Loc(i)

-----------------------------------------------------------------------------
(* Properties. *)

TypeOK ==
  /\ input \in Inputs
  /\ phase \in {"count", "fill", "done", "error"}
  /\ pos \in 1..(Len(input) + 1)
  /\ keyword_before_terminator \in BOOLEAN
  /\ open_parens \in 0..(Wrap - 1)
  /\ n_stmts \in Nat
  /\ stmts \in Seq([location : Nat, len : Int])
  /\ stmtstart \in Nat

\* The second pass never writes past the array that was allocated with the
\* first pass's count.
FillsWithinArray == Len(stmts) <= n_stmts

\* Statements are not empty, do not overlap and come in the order of the text.
StatementsInOrder ==
  \A s \in 1..Len(stmts) :
    /\ stmts[s].len > 0
    /\ s > 1 => stmts[s - 1].location + stmts[s - 1].len < stmts[s].location

\* The array is filled to its end, and its slots are exactly the statements of
\* the input as defined above.
SplitsIntoStatements ==
  phase = "done" =>
    LET ends == EndsBefore(input, Len(input) + 2)
    IN  /\ Len(stmts) = n_stmts
        /\ n_stmts = Cardinality(ends)
        /\ \A i \in ends : \E s \in 1..Len(stmts) : IsStmt(input, stmts[s], i)

Covered(ss, i) ==
  \E s \in 1..Len(ss) : /\ ss[s].location <= Loc(i)
                        /\ Loc(i) < ss[s].location + ss[s].len

\* Every keyword of the input is part of a statement.
KeywordsAreCovered ==
  \A i \in 1..Len(input) : Tok(input, i) = "keyword" => Covered(stmts, i)

\* No statement is lost when the parentheses of the input match.
BalancedInputIsCovered ==
  phase = "done" /\ Depth(input, Len(input) + 1) = 0 => KeywordsAreCovered

\* A scanner error comes before the array is allocated, never while it is
\* filled: pg_query_free_split_result frees n_stmts slots of an array that
\* exists, also those that were never written.
ErrorsBeforeAllocation == [][~(phase = "fill" /\ phase' = "error")]_vars

-----------------------------------------------------------------------------
(* The inductive invariant of the proofs. *)

\* Each pass has computed, token by token, what the definitions above say.
ScanMatches ==
  phase \in {"count", "fill"} =>
    /\ keyword_before_terminator <=> KeywordPending(input, pos)
    /\ open_parens = Depth(input, pos) \/ open_parens = Depth(input, pos) + Wrap

CountMatches ==
  phase = "count" =>
    /\ n_stmts = Cardinality(EndsBefore(input, pos))
    /\ stmts = <<>> /\ stmtstart = 0

Scanned == IF phase = "done" THEN Len(input) + 2 ELSE pos

FillMatches ==
  phase \in {"fill", "done"} =>
    /\ \A i \in 1..Len(input) : input[i] # "bad"
    /\ n_stmts = Cardinality(EndsBefore(input, Len(input) + 2))
    /\ Len(stmts) = Cardinality(EndsBefore(input, Scanned))
    /\ \A i \in EndsBefore(input, Scanned) :
         \E s \in 1..Len(stmts) : IsStmt(input, stmts[s], i)

StartMatches ==
  phase = "fill" =>
    /\ IsStart(input, stmtstart, pos)
    /\ stmts # <<>> =>
         stmts[Len(stmts)].location + stmts[Len(stmts)].len < stmtstart

CoverMatches ==
  phase \in {"fill", "done"} =>
    \A i \in 1..Len(input) :
      i < Scanned /\ Tok(input, i) = "keyword" =>
        Covered(stmts, i) \/ \A m \in i..(Scanned - 1) : ~Boundary(input, m)

ErrorMatches == phase = "error" => stmts = <<>>

\* In the first pass no token so far was bad.
NoneBadSoFar ==
  phase = "count" => \A i \in 1..(pos - 1) : input[i] # "bad"

IndInv ==
  /\ TypeOK /\ ScanMatches /\ CountMatches /\ FillMatches /\ StartMatches
  /\ CoverMatches /\ ErrorMatches /\ NoneBadSoFar /\ StatementsInOrder
=============================================================================
