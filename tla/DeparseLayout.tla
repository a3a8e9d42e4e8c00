--------------------------- MODULE DeparseLayout ---------------------------
(***************************************************************************)
(* How the deparser lays out a query and puts its comments back.  Comments *)
(* are collected from the tokens of the query, given to its statements and *)
(* written when a node behind them is printed.  The text grows in parts,   *)
(* parts in groups below a keyword, groups in nesting levels; when a level *)
(* ends, parts that fit are merged into lines and go to the level above.   *)
(*                                                                         *)
(* The functions that print the node types are any sequence of calls: each *)
(* node of the statement once, in any order, with parts, groups and levels *)
(* in between.  The text consists of words, comments, brackets, blanks and *)
(* newlines, and its length is their number; indentation is not part of it.*)
(***************************************************************************)
EXTENDS Naturals, Sequences, FiniteSets, TLC

CONSTANTS
  Nil,
  Queries,      \* sequences of tokens: [kind, newlines], "\n" after it
  Options,      \* PostgresDeparseOpts without the comments
  MaxCalls(_),  \* bound: calls of the layout functions in a query
  MaxLevels     \* bound: nesting levels

Comments == {"--", "/*"}
Modes == {"NO_INDENT", "INDENT", "INDENT_AND_MERGE"}
Word(kind, at) == [kind |-> kind, at |-> at]
Mark(kind) == Word(kind, 0)
Space == Mark(" ")
NewLine == Mark("\n")

VARIABLES
  query, opts,
  k,            \* the statement that is deparsed
  levels,       \* the nesting levels, innermost last
  result_parts, emitted_comments,
  str,          \* the text of the statements before
  printed,      \* the nodes of the statement that have been printed
  calls,        \* how many layout calls there were
  said,         \* history: what was printed, in order
  status        \* "next", "printing", "done"

vars == <<query, opts, k, levels, result_parts, emitted_comments, str, printed,
          calls, said, status>>

-----------------------------------------------------------------------------
(* Tokens, and what the parser makes of them. *)

Start(i) == 2 * i
End(i) == 2 * i + 1
INT_MAX == 2 * (Len(query) + 2)
Tokens(kinds) == {i \in 1..Len(query) : query[i].kind \in kinds}
Least(S) == CHOOSE i \in S : \A j \in S : i <= j

\* A statement starts with a keyword and ends before the next semicolon.
Heads == Tokens({"kw"})
FirstToken(n) == CHOOSE i \in Heads : Cardinality({j \in Heads : j < i}) = n - 1
StmtCount == Cardinality(Heads)
stmt_location(n) == Start(FirstToken(n))
Semicolon(n) == Least({i \in Tokens({";"}) : i > FirstToken(n)})
stmt_end(n) == Start(Semicolon(n))
Nodes(n) == {i \in Tokens({"x"}) : /\ i > FirstToken(n)
                                   /\ n < StmtCount => i < Semicolon(n)}

-----------------------------------------------------------------------------
(* pg_query_deparse_comments_for_query. *)

\* The end of the last token before it that is not a comment.
match_location(i) ==
  LET before == {j \in 1..(i - 1) : query[j].kind \notin Comments}
  IN  IF before = {} THEN 0
      ELSE End(CHOOSE j \in before : \A m \in before : m <= j)

newlines_before_comment(i) ==
  IF i > 1 /\ query[i - 1].kind \notin Comments THEN query[i - 1].newlines ELSE 0
newlines_after_comment(i) == IF i < Len(query) THEN query[i].newlines ELSE 0

\* Mutation: a statement's comments start where the statement does.
StmtCommentsFromLocation(n) ==
  IF StmtCount = 1 THEN Tokens(Comments)
  ELSE {i \in Tokens(Comments) :
          /\ match_location(i) >= stmt_location(n)
          /\ n < StmtCount => match_location(i) < stmt_end(n)}

\* copy_deparse_opts_for_stmt: the comments from where the statement before
\* ended to where this one does.
StmtComments(n) ==
  IF StmtCount = 1 THEN Tokens(Comments)
  ELSE {i \in Tokens(Comments) :
          /\ n > 1 => match_location(i) >= stmt_end(n - 1)
          /\ n < StmtCount => match_location(i) < stmt_end(n)}

-----------------------------------------------------------------------------
(* Parts, groups and levels. *)

Last(s) == s[Len(s)]
Front(s) == SubSeq(s, 1, Len(s) - 1)
SetLast(s, e) == [s EXCEPT ![Len(s)] = e]

TrimSpace(text) ==
  IF text # <<>> /\ Last(text) = Space THEN Front(text) ELSE text

makeDeparseStatePart(level, mode) ==
  [str |-> <<>>, mergeable |-> mode = "INDENT_AND_MERGE",
   indent |-> level.base_indent
                + (IF mode = "NO_INDENT" THEN 0 ELSE opts.indent_size)]

NewGroup(level, keyword, mode) ==
  [keyword |-> keyword, mode |-> mode,
   parts |-> <<makeDeparseStatePart(level, mode)>>]

\* deparseGetCurrentPartGroup makes the first group when there is none.
WithGroup(level) ==
  IF level.groups # <<>> THEN level
  ELSE [level EXCEPT !.groups = <<NewGroup(level, Nil, "NO_INDENT")>>]
Group(level) == Last(WithGroup(level).groups)
Part(level) == Last(Group(level).parts)

SetParts(level, parts) ==
  LET l == WithGroup(level)
  IN  [l EXCEPT !.groups = SetLast(@, [Last(@) EXCEPT !.parts = parts])]
SetPart(level, part) == SetParts(level, SetLast(Group(level).parts, part))

Append_(level, text) ==
  SetPart(level, [Part(level) EXCEPT !.str = @ \o text])
removeTrailingSpace(level) ==
  SetPart(level, [Part(level) EXCEPT !.str = TrimSpace(@)])
deparseMarkCurrentPartNonMergable(level) ==
  SetPart(level, [Part(level) EXCEPT !.mergeable = FALSE])

deparseRemoveTrailingEmptyPart(level) ==
  IF Part(level).str = <<>> THEN SetParts(level, Front(Group(level).parts))
  ELSE WithGroup(level)

deparseAppendPart(level, deduplicate) ==
  LET l == IF deduplicate THEN deparseRemoveTrailingEmptyPart(level)
           ELSE WithGroup(level)
  IN  SetParts(l, Append(Group(l).parts,
                         makeDeparseStatePart(l, Group(l).mode)))

deparseAppendCommaAndPart(level) ==
  IF opts.commas_start_of_line
  THEN Append_(deparseAppendPart(level, TRUE), <<Mark(","), Space>>)
  ELSE deparseAppendPart(Append_(level, <<Mark(",")>>), TRUE)

deparseAppendPartGroup(level, keyword, mode) ==
  LET l == IF level.groups = <<>> THEN level ELSE removeTrailingSpace(level)
  IN  [l EXCEPT !.groups = Append(@, NewGroup(l, keyword, mode))]

\* The newlines around a comment.
RECURSIVE BreakLine(_, _)
BreakLine(level, n) ==
  IF n = 0 THEN level
  ELSE BreakLine(IF opts.pretty_print THEN deparseAppendPart(level, FALSE)
                 ELSE Append_(level, <<NewLine>>), n - 1)

\* Emit one less leading newline if there is one for formatting reasons.
LeadingNewlines(level, i) ==
  IF /\ opts.pretty_print /\ newlines_before_comment(i) > 0
     /\ Group(level).keyword # Nil /\ Part(level).str = <<>>
  THEN newlines_before_comment(i) - 1 ELSE newlines_before_comment(i)

\* Mutation: the comment may be merged with what follows.
AppendCommentMergeable(level, i) ==
  BreakLine(Append_(BreakLine(level, LeadingNewlines(level, i)),
                    <<Word(query[i].kind, i)>>),
            newlines_after_comment(i))

AppendComment(level, i) ==
  BreakLine(deparseMarkCurrentPartNonMergable(
              Append_(BreakLine(level, LeadingNewlines(level, i)),
                      <<Word(query[i].kind, i)>>)),
            newlines_after_comment(i))

\* deparseAppendCommentsIfNeeded writes these, in order.
Needed(location) ==
  {i \in StmtComments(k) \ emitted_comments : match_location(i) <= location}
RECURSIVE AppendComments(_, _)
AppendComments(level, S) ==
  IF S = {} THEN level
  ELSE AppendComments(AppendComment(level, Least(S)), S \ {Least(S)})
RECURSIVE Texts(_)
Texts(S) ==
  IF S = {} THEN <<>>
  ELSE <<Word(query[Least(S)].kind, Least(S))>> \o Texts(S \ {Least(S)})

-----------------------------------------------------------------------------
(* The end of a level. *)

\* Mutation: merged parts are not kept apart.
JoinedWithoutSpace(a, b) == [a EXCEPT !.str = TrimSpace(@) \o b.str]

Joined(a, b) ==
  LET text == TrimSpace(a.str)
  IN  [a EXCEPT !.str =
         IF text # <<>> /\ Last(text) # Mark("(") THEN text \o <<Space>> \o b.str
         ELSE text \o b.str]

Fit(a, b) ==
  /\ a.mergeable /\ b.mergeable
  /\ a.indent + Len(TrimSpace(a.str)) + 1 + Len(b.str) <= opts.max_line_length

RECURSIVE Merge(_, _)
Merge(lines, rest) ==
  IF rest = <<>> THEN lines
  ELSE LET target == [Last(lines) EXCEPT !.str = TrimSpace(@)]
       IN  Merge(IF Fit(target, Head(rest))
                 THEN SetLast(lines, Joined(target, Head(rest)))
                 ELSE SetLast(lines, target) \o <<Head(rest)>>,
                 Tail(rest))

Merged(group) ==
  IF group.mode = "INDENT_AND_MERGE" /\ Len(group.parts) > 1
  THEN Merge(<<Head(group.parts)>>, Tail(group.parts)) ELSE group.parts

\* Mutation: the first part goes to the keyword's line only if it is the only
\* one, and is freed either way.
KeywordLineFrees(level, keyword, mode, parts) ==
  LET line == [makeDeparseStatePart(level, "NO_INDENT")
                 EXCEPT !.str = <<Word(keyword, 0)>>]
  IN  <<IF parts[1].str = <<>> \/ Len(parts) # 1 THEN line
        ELSE [line EXCEPT !.str = @ \o <<Space>> \o parts[1].str]>>
        \o Tail(parts)

\* The keyword, with the first part behind it if that is the only one.
KeywordLine(level, keyword, mode, parts) ==
  LET line == [makeDeparseStatePart(level, "NO_INDENT")
                 EXCEPT !.str = <<Word(keyword, 0)>>]
  IN  IF Len(parts) = 1 \/ mode = "NO_INDENT"
      THEN <<IF parts[1].str = <<>> THEN line
             ELSE [line EXCEPT !.str = @ \o <<Space>> \o parts[1].str]>>
             \o Tail(parts)
      ELSE <<line>> \o parts

Lines(level, group) ==
  IF group.keyword = Nil THEN Merged(group)
  ELSE KeywordLine(level, group.keyword, group.mode, Merged(group))

RECURSIVE AllLines(_, _)
AllLines(level, groups) ==
  IF groups = <<>> THEN <<>>
  ELSE Lines(level, Head(groups)) \o AllLines(level, Tail(groups))

\* deparseStateIncreaseNestingLevel.
NewLevel(bracket, base_indent) ==
  [bracket |-> bracket, base_indent |-> base_indent, groups |-> <<>>]
TopLevel == NewLevel(Nil, 0)
LevelBelow(level, bracket) ==
  NewLevel(bracket, level.base_indent + opts.indent_size
                      + (IF Group(level).mode = "NO_INDENT" THEN 0
                         ELSE opts.indent_size))

\* deparseStateDecreaseNestingLevel, with a level above.
Absorb(parent, level) ==
  deparseMarkCurrentPartNonMergable(
    deparseAppendPart(
      SetParts(parent, Group(parent).parts \o AllLines(level, level.groups)),
      TRUE))

-----------------------------------------------------------------------------
(* deparseEmit. *)

RECURSIVE EmitParts(_, _)
EmitParts(parts, text) ==
  IF parts = <<>> THEN text
  ELSE
    LET p == Head(parts).str
        closes == p # <<>> /\ Head(p) \in {Mark(")"), Mark(";")}
        before == IF ~opts.pretty_print /\ closes THEN TrimSpace(text) ELSE text
        after == TrimSpace(before \o p)
        break == IF Len(parts) = 1 THEN <<>>
                 ELSE IF opts.pretty_print THEN <<NewLine>>
                 ELSE IF Last(after) # Mark("(") THEN <<Space>> ELSE <<>>
    IN  EmitParts(Tail(parts), after \o break)

deparseEmit(parts) ==
  EmitParts(IF Last(parts).str = <<>> THEN Front(parts) ELSE parts, str)
    \o (IF opts.pretty_print /\ opts.trailing_newline THEN <<NewLine>> ELSE <<>>)

-----------------------------------------------------------------------------

Init ==
  /\ query \in Queries /\ opts \in Options
  /\ k = 1 /\ levels = <<>> /\ result_parts = <<>> /\ emitted_comments = {}
  /\ str = <<>> /\ printed = {} /\ calls = 0 /\ said = <<>> /\ status = "next"

\* The level of its own that the comments before or behind a statement get.
CommentLines(S) ==
  IF StmtComments(k) = {} THEN <<>>
  ELSE AllLines(TopLevel,
         deparseRemoveTrailingEmptyPart(AppendComments(TopLevel, S)).groups)

\* deparseRawStmtOpts: the comments at the start, and the statement's first
\* word, either the keyword of a group or plain text.
BeginStmt ==
  /\ status = "next" /\ k <= StmtCount
  /\ LET comments == Needed(stmt_location(k))
         word == Word("kw", 0)
     IN  /\ result_parts' = CommentLines(comments)
         /\ emitted_comments' = comments
         /\ said' = said \o Texts(comments) \o <<word>>
         /\ \/ \E mode \in Modes :
                 levels' = <<deparseAppendPartGroup(TopLevel, "kw", mode)>>
            \/ levels' = <<Append_(TopLevel, <<word, Space>>)>>
  /\ status' = "printing"
  /\ UNCHANGED <<query, opts, k, str, printed, calls>>

Current == Last(levels)
Say(text) == said' = said \o text
Call == calls < MaxCalls(query) /\ calls' = calls + 1
InLevel(level) ==
  /\ status = "printing"
  /\ levels' = SetLast(levels, level)
  /\ UNCHANGED <<query, opts, k, result_parts, str, status>>

\* deparseAConst, deparseColumnRef, deparseCommonTableExpr: the comments that
\* come before the node, and its text.
PrintNode(x) ==
  /\ status = "printing" /\ x \in Nodes(k) \ printed
  /\ LET comments == Needed(Start(x))
     IN  /\ InLevel(Append_(AppendComments(Current, comments),
                            <<Word("x", x), Space>>))
         /\ emitted_comments' = emitted_comments \union comments
         /\ Say(Append(Texts(comments), Word("x", x)))
  /\ printed' = printed \union {x}
  /\ UNCHANGED calls

Comma ==
  /\ Call
  /\ InLevel(deparseAppendCommaAndPart(removeTrailingSpace(Current)))
  /\ Say(<<Mark(",")>>)
  /\ UNCHANGED <<emitted_comments, printed>>

NextPart ==
  /\ Call
  /\ InLevel(deparseAppendPart(Current, TRUE))
  /\ UNCHANGED <<emitted_comments, printed, said>>

NextGroup(mode) ==
  /\ Call
  /\ InLevel(deparseAppendPartGroup(Current, "group", mode))
  /\ Say(<<Word("group", 0)>>)
  /\ UNCHANGED <<emitted_comments, printed>>

\* A sub-SELECT in brackets, or CASE ... END.
Opens == ("(" :> <<Mark("(")>>) @@ ("CASE" :> <<Mark("CASE"), Space>>)
Closes == ("(" :> Mark(")")) @@ ("CASE" :> Mark("END"))

OpenLevel(bracket) ==
  /\ Call /\ status = "printing" /\ Len(levels) < MaxLevels
  /\ LET level == deparseMarkCurrentPartNonMergable(
                    Append_(Current, Opens[bracket]))
     IN  levels' = Append(SetLast(levels, level), LevelBelow(level, bracket))
  /\ Say(<<Mark(bracket)>>)
  /\ UNCHANGED <<query, opts, k, result_parts, emitted_comments, str, printed,
                 status>>

CloseLevel ==
  /\ status = "printing" /\ Len(levels) > 1
  /\ Current.groups # <<>>
  /\ levels' = SetLast(Front(levels),
                 Append_(Absorb(Last(Front(levels)), removeTrailingSpace(Current)),
                         <<Closes[Current.bracket], Space>>))
  /\ Say(<<Closes[Current.bracket]>>)
  /\ UNCHANGED <<query, opts, k, result_parts, emitted_comments, str, printed,
                 calls, status>>

\* The statement ends: the comments that are left, and the text.
EndStmt ==
  /\ status = "printing" /\ Len(levels) = 1 /\ printed = Nodes(k)
  /\ LET rest == Needed(INT_MAX)
         own == removeTrailingSpace(Current)
         parts == result_parts \o AllLines(own, own.groups) \o CommentLines(rest)
         separator == IF k < StmtCount THEN <<Mark(";"), Space>> ELSE <<>>
     IN  /\ str' = deparseEmit(parts) \o separator
         /\ said' = said \o Texts(rest)
                      \o (IF k < StmtCount THEN <<Mark(";")>> ELSE <<>>)
  /\ k' = k + 1 /\ levels' = <<>> /\ result_parts' = <<>>
  /\ emitted_comments' = {} /\ printed' = {}
  /\ status' = IF k < StmtCount THEN "next" ELSE "done"
  /\ UNCHANGED <<query, opts, calls>>

Next ==
  \/ BeginStmt \/ (\E x \in 1..Len(query) : PrintNode(x)) \/ Comma \/ NextPart
  \/ (\E mode \in Modes : NextGroup(mode))
  \/ (\E bracket \in {"(", "CASE"} : OpenLevel(bracket)) \/ CloseLevel \/ EndStmt

Spec == Init /\ [][Next]_vars

-----------------------------------------------------------------------------
(* Properties. *)

Printable(item) == item \notin {Space, NewLine}
IsComment(item) == item.kind \in Comments
IsWord(item) == item.kind \in {"kw", "group", "x", "CASE", "END"}

\* Whatever the options, the order in which nodes are printed and the way parts
\* are merged, the text that comes out is what was printed, in order, and words
\* that were apart stay apart.
TextKept ==
  status = "done" =>
    /\ SelectSeq(str, Printable) = said
    /\ \A i \in 1..(Len(str) - 1) : ~(IsWord(str[i]) /\ IsWord(str[i + 1]))

\* Every comment of the query comes out, once, and in the order of the query:
\* none falls between two statements or is given to both.
CommentsKept ==
  status = "done" =>
    SelectSeq(str, IsComment) = Texts(Tokens(Comments))

\* The line of a "--" comment ends with it, so that it never hides a part of the
\* query.  The exceptions: a comment that a bare CR ends is followed by no newline
\* that would be counted; and with pretty_print and without trailing_newline, the
\* newline of a comment at the end of a statement is dropped, and the semicolon
\* and all of the next statement's first line become part of the comment.
LineCommentsEnd ==
  \A i \in 1..(Len(str) - 1) :
    str[i].kind = "--" =>
      \/ str[i + 1] = NewLine
      \/ newlines_after_comment(str[i].at) = 0
      \/ /\ str[i + 1] = Mark(";")
         /\ opts.pretty_print /\ ~opts.trailing_newline
=============================================================================
