--------------------------- MODULE NormalizeText ---------------------------
(***************************************************************************)
(* fill_in_constant_lengths and generate_normalized_query                  *)
(* (src/pg_query_normalize.c): the constants that const_record_walker has  *)
(* recorded, in no particular order and possibly more than once, are cut   *)
(* out of the query text and replaced by parameter symbols, in a buffer    *)
(* whose size was computed before.                                         *)
(***************************************************************************)
EXTENDS Integers, Sequences, FiniteSets

CONSTANTS
  Queries,      \* [toks, dashes, len]: the tokens, where a '-' is, and the length
  Records(_),   \* clocations of a query: sequences of [location, param_id]
  HighestExtern \* highest_extern_param_id

INT_MAX == 2147483647

\* A token, and the blanks that the scanner reads after a U&'...' string when it
\* looks for UESCAPE.
Token == [loc : Nat, len : Nat \ {0}, blanks : Nat]
End(t) == t.loc + t.len
ReadTo(t) == End(t) + t.blanks

ASSUME QueriesAssumption ==
  \A q \in Queries :
    /\ q.len \in Nat
    /\ q.dashes \subseteq Nat
    /\ q.toks \in Seq(Token)
    /\ \A k \in 1..Len(q.toks) : ReadTo(q.toks[k]) <= q.len
    /\ \A k, m \in 1..Len(q.toks) :
         k < m => ReadTo(q.toks[k]) <= q.toks[m].loc
ASSUME RecordsAssumption ==
  \A q \in Queries : \A r \in Records(q) :
    r \in Seq([location : Nat, param_id : (-INT_MAX)..INT_MAX])
ASSUME ExternAssumption == HighestExtern \in 0..INT_MAX

Record == [location : Nat, length : Int, param_id : Int]
Piece == [from : Int, to : Int, param : Int]

\* Length of the symbol "$n".  A number is at most twice INT_MAX, so it has no
\* more than ten digits.
ParamLen(n) == 2 + Cardinality({k \in 1..9 : 10^k <= n})

VARIABLES
  query,
  recs,          \* clocations, with lengths
  stage,         \* "sort", "lengths", "emit" or "done"
  i,             \* loop counter of either loop
  tok,           \* tokens read from the scanner, plus one
  last_loc,
  quer_loc, n_quer_loc, last_off, last_tok_len,
  out            \* history: [from, to, param], copied text and the symbol after

scanVars == <<tok, last_loc>>
textVars == <<quer_loc, n_quer_loc, last_off, last_tok_len, out>>
vars == <<query, recs, stage, i, scanVars, textVars>>

Init ==
  /\ query \in Queries
  /\ \E r \in Records(query) :
       recs = [k \in 1..Len(r) |-> [location |-> r[k].location, length |-> -1,
                                    param_id |-> r[k].param_id]]
  /\ stage = "sort"
  /\ i = 1 /\ tok = 1 /\ last_loc = -1
  /\ quer_loc = 0 /\ n_quer_loc = 0 /\ last_off = 0 /\ last_tok_len = 0
  /\ out = <<>>

\* Mutation: the records are left as the walker found them.
SortNothing ==
  /\ stage = "sort"
  /\ stage' = "lengths"
  /\ UNCHANGED <<query, recs, i, scanVars, textVars>>

\* qsort by location; the order of equal ones is left open.
Sort ==
  /\ stage = "sort"
  /\ \E p \in [1..Len(recs) -> 1..Len(recs)] :
       /\ \A a, b \in 1..Len(recs) :
            a < b => p[a] # p[b] /\ recs[p[a]].location <= recs[p[b]].location
       /\ recs' = [k \in 1..Len(recs) |-> recs[p[k]]]
  /\ stage' = "lengths"
  /\ UNCHANGED <<query, i, scanVars, textVars>>

Rec == recs[i]

\* "Duplicate constant, ignore"
SkipDuplicate ==
  /\ stage = "lengths" /\ i <= Len(recs)
  /\ Rec.location <= last_loc
  /\ i' = i + 1
  /\ UNCHANGED <<query, recs, stage, scanVars, textVars>>

\* "Lex tokens until we find the desired constant"
Looking ==
  /\ stage = "lengths" /\ i <= Len(recs)
  /\ Rec.location > last_loc

AtEnd == tok > Len(query.toks)

LexPast ==
  /\ Looking /\ ~AtEnd
  /\ query.toks[tok].loc < Rec.location
  /\ tok' = tok + 1
  /\ UNCHANGED <<query, recs, stage, i, last_loc, textVars>>

\* The token the constant ends with: a minus sign belongs to the constant
\* after it.
LastToken == IF Rec.location \in query.dashes THEN tok + 1 ELSE tok

\* Mutation: the blanks after a string with Unicode escapes are counted.
ConstantLengthWithBlanks == ReadTo(query.toks[LastToken]) - Rec.location

\* The length is up to where the scanner has read; the blanks after a string
\* with Unicode escapes are dropped if the constant starts with that string.
ConstantLength ==
  LET t == query.toks[LastToken]
  IN  (IF t.loc = Rec.location THEN End(t) ELSE ReadTo(t)) - Rec.location

FillLength ==
  /\ Looking /\ ~AtEnd
  /\ query.toks[tok].loc >= Rec.location
  /\ LastToken <= Len(query.toks)
  /\ recs' = [recs EXCEPT ![i].length = ConstantLength]
  /\ tok' = LastToken + 1
  /\ last_loc' = Rec.location
  /\ i' = i + 1
  /\ UNCHANGED <<query, stage, textVars>>

\* "If we hit end-of-string, give up, leaving remaining lengths -1"
GiveUp ==
  /\ Looking
  /\ \/ AtEnd
     \/ /\ ~AtEnd
        /\ query.toks[tok].loc >= Rec.location
        /\ LastToken > Len(query.toks)
  /\ stage' = "emit" /\ i' = 1
  /\ UNCHANGED <<query, recs, scanVars, textVars>>

LengthsDone ==
  /\ stage = "lengths" /\ i > Len(recs)
  /\ stage' = "emit" /\ i' = 1
  /\ UNCHANGED <<query, recs, scanVars, textVars>>

\* Mutation: a constant that overlaps the one before is replaced too.
FitsWithOverlap ==
  /\ Rec.length >= 0
  /\ Rec.location <= query.len
  /\ Rec.length <= query.len - Rec.location

\* Is the constant known, after the one before, and within the query?
Fits ==
  /\ Rec.length >= 0
  /\ Rec.location >= last_off + last_tok_len
  /\ Rec.location <= query.len
  /\ Rec.length <= query.len - Rec.location

SkipConstant ==
  /\ stage = "emit" /\ i <= Len(recs)
  /\ ~Fits
  /\ i' = i + 1
  /\ UNCHANGED <<query, recs, stage, scanVars, textVars>>

Param == IF Rec.param_id < 0 THEN HighestExtern - Rec.param_id ELSE Rec.param_id

\* Mutation: the text before the constant is measured from the start of the
\* constant before.
ReplaceFromLastStart ==
  /\ stage = "emit" /\ i <= Len(recs)
  /\ Fits
  /\ LET len_to_wrt == Rec.location - last_off
     IN  /\ out' = Append(out, [from |-> quer_loc, to |-> quer_loc + len_to_wrt,
                                param |-> Param])
         /\ n_quer_loc' = n_quer_loc + len_to_wrt + ParamLen(Param)
  /\ quer_loc' = Rec.location + Rec.length
  /\ last_off' = Rec.location
  /\ last_tok_len' = Rec.length
  /\ i' = i + 1
  /\ UNCHANGED <<query, recs, stage, scanVars>>

\* The text before the constant, then the symbol.
Replace ==
  /\ stage = "emit" /\ i <= Len(recs)
  /\ Fits
  /\ LET len_to_wrt == Rec.location - last_off - last_tok_len
     IN  /\ out' = Append(out, [from |-> quer_loc, to |-> quer_loc + len_to_wrt,
                                param |-> Param])
         /\ n_quer_loc' = n_quer_loc + len_to_wrt + ParamLen(Param)
  /\ quer_loc' = Rec.location + Rec.length
  /\ last_off' = Rec.location
  /\ last_tok_len' = Rec.length
  /\ i' = i + 1
  /\ UNCHANGED <<query, recs, stage, scanVars>>

\* The rest of the text.
Finish ==
  /\ stage = "emit" /\ i > Len(recs)
  /\ n_quer_loc' = n_quer_loc + query.len - quer_loc
  /\ quer_loc' = query.len
  /\ out' = Append(out, [from |-> quer_loc, to |-> query.len, param |-> 0])
  /\ stage' = "done"
  /\ UNCHANGED <<query, recs, i, scanVars, last_off, last_tok_len>>

Next == \/ Sort \/ SkipDuplicate \/ LexPast \/ FillLength \/ GiveUp \/ LengthsDone
        \/ SkipConstant \/ Replace \/ Finish

Spec == Init /\ [][Next]_vars

-----------------------------------------------------------------------------
(* Properties. *)

TypeOK ==
  /\ query \in Queries
  /\ recs \in Seq(Record)
  /\ stage \in {"sort", "lengths", "emit", "done"}
  /\ i \in 1..(Len(recs) + 1)
  /\ tok \in 1..(Len(query.toks) + 1)
  /\ last_loc \in Int
  /\ quer_loc \in Nat /\ n_quer_loc \in Nat
  /\ last_off \in Nat /\ last_tok_len \in Nat
  /\ out \in Seq(Piece)

\* norm_query_buflen
BufLen == query.len + 10 * Len(recs)

\* Whatever is recorded, nothing is written past the buffer, and no copy has a
\* negative length or reads past the query.
WithinBuffer ==
  /\ n_quer_loc <= BufLen
  /\ \A k \in 1..Len(out) :
       0 <= out[k].from /\ out[k].from <= out[k].to /\ out[k].to <= query.len

\* Before the second loop nothing is written.  In it, no symbol has made the
\* result more than ten bytes longer than the text it replaces.
WrittenBound ==
  IF stage \in {"sort", "lengths"}
  THEN quer_loc = 0 /\ n_quer_loc = 0 /\ last_off = 0 /\ last_tok_len = 0
  ELSE /\ stage = "emit" => quer_loc = last_off + last_tok_len
       /\ quer_loc <= query.len
       /\ n_quer_loc <= quer_loc + 10 * (i - 1)

\* A length is unknown or at least one byte.
LengthsPositive == \A k \in 1..Len(recs) : recs[k].length = -1 \/ recs[k].length > 0

\* The inductive invariant.
IndInv == TypeOK /\ LengthsPositive /\ WrittenBound /\ WithinBuffer

\* What a constant at this location covers.
Span(loc) ==
  LET k == CHOOSE t \in 1..Len(query.toks) : query.toks[t].loc = loc
  IN  loc..(End(query.toks[IF loc \in query.dashes THEN k + 1 ELSE k]) - 1)

Locations == {recs[k].location : k \in 1..Len(recs)}

\* As the parser records them: each where a constant starts, with its sign if it
\* has one; a string has none.
LocationsAreConstants ==
  \A loc \in Locations : \E k \in 1..Len(query.toks) :
    /\ query.toks[k].loc = loc
    /\ loc \in query.dashes =>
         k < Len(query.toks) /\ query.toks[k + 1].blanks = 0
    /\ k > 1 => query.toks[k - 1].loc \notin query.dashes \/ query.toks[k].blanks > 0

\* The result is the query with every recorded constant replaced once, by one
\* of the parameters recorded for its place, and all else unchanged.
ConstantsReplaced ==
  stage = "done" /\ LocationsAreConstants =>
    /\ Len(out) = Cardinality(Locations) + 1
    /\ \A k \in 1..(Len(out) - 1) : \E r \in 1..Len(recs) :
         /\ out[k].to = recs[r].location
         /\ out[k].param = IF recs[r].param_id < 0
                           THEN HighestExtern - recs[r].param_id
                           ELSE recs[r].param_id
    /\ UNION {out[k].from..(out[k].to - 1) : k \in 1..Len(out)}
         = (0..(query.len - 1)) \ UNION {Span(loc) : loc \in Locations}
    /\ \A k, m \in 1..Len(out) : k < m => out[k].to <= out[m].from
=============================================================================
