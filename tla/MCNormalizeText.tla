-------------------------- MODULE MCNormalizeText --------------------------
(* NormalizeText, for queries of up to four tokens. *)
EXTENDS NormalizeText

\* The tokens follow each other, the second one after a blank; a token is one
\* or two bytes long.  A '-' is one and has a constant after it.  The third
\* token may be a string with Unicode escapes and a blank after it.
Layouts ==
  {y \in [lens : [1..4 -> {1, 2}], signs : SUBSET {1, 2, 3}, blanks : {0, 1}] :
     \A a \in y.signs : /\ a + 1 \notin y.signs
                        /\ y.lens[a] = 1
                        /\ a = 3 => y.blanks = 0}

Loc(y, k) ==
  LET l == y.lens
  IN  CASE k = 1 -> 0
        [] k = 2 -> l[1] + 1
        [] k = 3 -> l[1] + 1 + l[2]
        [] k = 4 -> l[1] + 1 + l[2] + l[3] + y.blanks

Query(y, dashes) ==
  [toks |-> [k \in 1..4 |-> [loc |-> Loc(y, k), len |-> y.lens[k],
                             blanks |-> IF k = 3 THEN y.blanks ELSE 0]],
   dashes |-> dashes,
   len |-> Loc(y, 4) + y.lens[4] + 1]

\* A short query, and a '-' anywhere.
Short == [lens |-> <<1, 1, 1, 1>>, signs |-> {}, blanks |-> 0]
OddQueries == {Query(Short, d) : d \in SUBSET {Loc(Short, k) : k \in 1..4}}

MCQueries == {Query(y, {Loc(y, k) : k \in y.signs}) : y \in Layouts} \union OddQueries

\* Constants are recorded where tokens start that are not part of the constant
\* before; for the odd queries, anything is.
MCRecords(q) ==
  LET starts == {q.toks[k].loc : k \in {t \in 1..4 :
                   \/ t = 1 \/ q.toks[t].blanks > 0
                   \/ q.toks[t - 1].loc \notin q.dashes}}
      signs == {q.toks[k].loc : k \in {t \in 1..3 :
                   q.toks[t].loc \in q.dashes /\ q.toks[t + 1].blanks > 0}}
      Any(places, ids) ==
        UNION {[1..n -> [location : places, param_id : ids]] : n \in 0..3}
  IN  Any(starts \ signs, {-1, 2})
        \union IF q \in OddQueries THEN Any(0..(q.len + 1), {-1}) ELSE {}
=============================================================================
