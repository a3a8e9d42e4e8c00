--------------------------- MODULE MCDeparseLayout ---------------------------
EXTENDS DeparseLayout

Tok(kind) == [kind |-> kind, newlines |-> 0]
Ending(kind, n) == [kind |-> kind, newlines |-> n]

\* One comment, or two in a row, at any place of a query.
Insert(q, comments) ==
  {SubSeq(q, 1, i) \o c \o SubSeq(q, i + 1, Len(q)) : i \in 0..Len(q),
                                                      c \in comments}

\* Two statements, and what may stand before, in, between and behind them.
TwoStatements ==
  Insert(<<Tok("kw"), Tok("x"), Tok(";"), Tok("kw"), Tok("x")>>,
         {<<Ending("--", 1)>>, <<Ending("--", 2)>>,
          <<Ending("--", 1), Tok("/*")>>, <<Tok("/*"), Ending("--", 1)>>})

\* One statement of two nodes on lines of their own, with one more comment, which
\* LF or CR ends.
OneStatement ==
  Insert(<<Ending("kw", 1), Ending("x", 1), Tok("/*"), Tok("x")>>,
         {<<Ending("--", 1)>>, <<Ending("--", 0)>>})

MCQueries == TwoStatements \union OneStatement
IsLong(q) == \E i \in 1..Len(q) : q[i].kind = ";"
MCMaxCalls(q) == IF IsLong(q) THEN 1 ELSE 3

\* Parts of one or two words fit into a line.
Opt(pretty, newline, commas) ==
  [pretty_print |-> pretty, trailing_newline |-> newline,
   commas_start_of_line |-> commas, max_line_length |-> 7, indent_size |-> 1]
MCOptions == {Opt(FALSE, FALSE, FALSE), Opt(TRUE, FALSE, FALSE),
              Opt(TRUE, TRUE, TRUE)}
=============================================================================
