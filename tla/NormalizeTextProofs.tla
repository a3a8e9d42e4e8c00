------------------------ MODULE NormalizeTextProofs ------------------------
(***************************************************************************)
(* generate_normalized_query stays within its buffer for every query and   *)
(* every list of recorded locations, whatever the parser has recorded.     *)
(* If the locations are those of constants, its result is the query with   *)
(* each of these constants replaced once and all else as it was.           *)
(*                                                                         *)
(* The first is a matter of lengths only.  The second needs that the first *)
(* loop finds the token of every constant, so that it must not have read   *)
(* past one (Measuring), and that what the second loop has copied is the   *)
(* text read so far without the constants seen so far (Writing).           *)
(***************************************************************************)
EXTENDS NormalizeText, FiniteSetTheorems, TLAPS

\* The comment of generate_normalized_query: "a $n symbol certainly isn't more
\* than 11 bytes, even if n reaches INT_MAX".
LEMMA SymbolLength == ASSUME NEW n \in Int PROVE ParamLen(n) \in 2..11
<1> DEFINE S == {k \in 1..9 : 10^k <= n}
<1>1. IsFiniteSet(1..9) /\ Cardinality(1..9) = 9
  <2>1. \A a, b \in Int : /\ IsFiniteSet(a..b)
                         /\ Cardinality(a..b) = IF a > b THEN 0 ELSE b - a + 1
    BY FS_Interval
  <2>2. 1 \in Int /\ 9 \in Int
    OBVIOUS
  <2>3. IsFiniteSet(1..9) /\ Cardinality(1..9) = IF 1 > 9 THEN 0 ELSE 9 - 1 + 1
    BY ONLY <2>1, <2>2, Zenon
  <2> QED BY <2>3
<1>2. IsFiniteSet(S) /\ Cardinality(S) <= Cardinality(1..9)
  <2>1. S \subseteq 1..9
    OBVIOUS
  <2> QED BY <1>1, <2>1, FS_Subset
<1>3. Cardinality(S) \in Nat
  BY <1>2, FS_CardinalityType
<1> HIDE DEF S
<1>4. 2 + Cardinality(S) \in 2..11
  BY <1>1, <1>2, <1>3
<1> QED BY <1>4 DEF ParamLen, S

\* A symbol takes at most eleven bytes and the constant it replaces at least
\* one, so a replacement adds at most ten.
LEMMA GrowsByTen ==
  ASSUME NEW n \in Nat, NEW off \in Nat, NEW len \in Nat, NEW k \in Nat,
         NEW q \in Nat, q = off + len, n <= q + 10 * (k - 1),
         NEW loc \in Nat, loc >= off + len, NEW l \in Nat, l > 0,
         NEW pl \in 2..11
  PROVE  /\ n + (loc - off - len) + pl \in Nat
         /\ n + (loc - off - len) + pl <= loc + l + 10 * k
  OBVIOUS

LEMMA MoreRoom ==
  ASSUME NEW n \in Nat, NEW q \in Nat, NEW k \in Nat, NEW m \in Nat,
         n <= q + 10 * (k - 1), m >= k
  PROVE  n <= q + 10 * (m - 1)
  OBVIOUS

LEMMA BoundReached ==
  ASSUME NEW n \in Nat, NEW q \in Nat, NEW len \in Nat, NEW k \in Nat,
         NEW m \in Nat, n <= q + 10 * k, q <= len, 10 * k <= 10 * m
  PROVE  n <= len + 10 * m
  OBVIOUS

LEMMA IntMaxType == INT_MAX \in Nat
  BY SMT DEF INT_MAX

\* A step that leaves the text alone preserves what is said of it.
LEMMA TextUnchanged ==
  ASSUME IndInv, UNCHANGED <<query, textVars>>, Len(recs') = Len(recs),
         i' \in 1..(Len(recs) + 1),
         \/ stage' = stage /\ i' >= i
         \/ stage = "sort" /\ stage' = "lengths"
         \/ stage = "lengths" /\ stage' = "emit" /\ i' = 1
  PROVE  WrittenBound' /\ WithinBuffer'
<1> Len(recs) \in Nat
  BY DEF IndInv, TypeOK
<1> query.len \in Nat
  BY QueriesAssumption DEF IndInv, TypeOK
<1>1. WrittenBound'
  <2>1. /\ query' = query /\ quer_loc' = quer_loc /\ n_quer_loc' = n_quer_loc
        /\ last_off' = last_off /\ last_tok_len' = last_tok_len
    BY DEF textVars
  <2>2. /\ i \in Nat /\ i' \in Nat /\ quer_loc \in Nat /\ n_quer_loc \in Nat
        /\ last_off \in Nat /\ last_tok_len \in Nat
    BY DEF IndInv, TypeOK
  <2>3. CASE stage' = stage /\ i' >= i
    <3>1. CASE stage \in {"sort", "lengths"}
      BY <2>1, <2>3, <3>1 DEF IndInv, WrittenBound
    <3>2. CASE stage \notin {"sort", "lengths"}
      <4>1. n_quer_loc <= quer_loc + 10 * (i - 1)
        BY <3>2 DEF IndInv, WrittenBound
      <4>2. n_quer_loc <= quer_loc + 10 * (i' - 1)
        BY ONLY <4>1, <2>2, <2>3, MoreRoom
      <4> QED BY <2>1, <2>3, <3>2, <4>2 DEF IndInv, WrittenBound
    <3> QED BY <3>1, <3>2
  <2>4. CASE stage = "sort" /\ stage' = "lengths"
    BY <2>1, <2>4 DEF IndInv, WrittenBound
  <2>5. CASE stage = "lengths" /\ stage' = "emit" /\ i' = 1
    BY <2>1, <2>5 DEF IndInv, WrittenBound
  <2> QED BY <2>3, <2>4, <2>5
<1>2. WithinBuffer'
  BY DEF IndInv, WithinBuffer, BufLen, textVars
<1> QED BY <1>1, <1>2

LEMMA InitInvariant == Init => IndInv
<1> SUFFICES ASSUME Init PROVE IndInv
  OBVIOUS
<1> query.len \in Nat /\ Len(query.toks) \in Nat
  BY QueriesAssumption DEF Init
<1> PICK r \in Records(query) :
      recs = [k \in 1..Len(r) |-> [location |-> r[k].location, length |-> -1,
                                   param_id |-> r[k].param_id]]
  BY DEF Init
<1> DEFINE R == [location : Nat, param_id : (-INT_MAX)..INT_MAX]
<1>1. r \in Seq(R)
  BY RecordsAssumption DEF Init
<1>2. Len(r) \in Nat /\ \A k \in 1..Len(r) : r[k] \in R
  <2> HIDE DEF R
  <2> QED BY <1>1
<1>3. \A k \in 1..Len(r) :
        [location |-> r[k].location, length |-> -1, param_id |-> r[k].param_id]
          \in Record
  BY <1>2, IntMaxType DEF Record
<1>4. recs \in Seq(Record) /\ Len(recs) = Len(r)
  <2> QED BY <1>2, <1>3
<1>5. TypeOK
  BY <1>4 DEF TypeOK, Init
<1>6. LengthsPositive
  BY <1>4, <1>2 DEF LengthsPositive
<1>7. WrittenBound
  BY DEF WrittenBound, Init
<1>8. WithinBuffer
  BY <1>4, <1>2 DEF WithinBuffer, BufLen, Init
<1> QED BY <1>5, <1>6, <1>7, <1>8 DEF IndInv

LEMMA NextInvariant == IndInv /\ [Next]_vars => IndInv'
<1> SUFFICES ASSUME IndInv, [Next]_vars PROVE IndInv'
  OBVIOUS
<1> DEFINE toks == query.toks
<1>q. /\ query.len \in Nat /\ toks \in Seq(Token)
      /\ \A k \in 1..Len(toks) : ReadTo(toks[k]) <= query.len
      /\ \A k, m \in 1..Len(toks) : k < m => ReadTo(toks[k]) <= toks[m].loc
  BY QueriesAssumption DEF IndInv, TypeOK
<1>r. recs \in Seq(Record)
  BY DEF IndInv, TypeOK
<1>s. Len(toks) \in Nat /\ \A k \in 1..Len(toks) : toks[k] \in Token
  <2> HIDE DEF toks
  <2> QED BY <1>q
<1>t. /\ query.len \in Nat /\ Len(toks) \in Nat /\ Len(recs) \in Nat
      /\ \A k \in 1..Len(recs) : recs[k] \in Record
  BY <1>q, <1>r, <1>s
<1>1. CASE Sort
  <2> PICK p \in [1..Len(recs) -> 1..Len(recs)] :
        recs' = [k \in 1..Len(recs) |-> recs[p[k]]]
    BY <1>1 DEF Sort
  <2>1. /\ recs' \in Seq(Record) /\ Len(recs') = Len(recs)
        /\ \A k \in 1..Len(recs) : recs'[k] = recs[p[k]] /\ p[k] \in 1..Len(recs)
    <3>1. \A k \in 1..Len(recs) : recs[p[k]] \in Record
      BY <1>t
    <3> QED BY <3>1, <1>t
  <2>2. TypeOK'
    BY <1>1, <1>t, <2>1 DEF Sort, IndInv, TypeOK, scanVars, textVars
  <2>3. LengthsPositive'
    BY <2>1 DEF IndInv, LengthsPositive
  <2>4. WrittenBound' /\ WithinBuffer'
    BY <1>1, <2>1, TextUnchanged DEF Sort, IndInv, TypeOK
  <2> QED BY <2>2, <2>3, <2>4 DEF IndInv
<1>2. CASE SkipDuplicate
  <2>1. TypeOK'
    BY <1>2, <1>t DEF SkipDuplicate, IndInv, TypeOK, scanVars, textVars
  <2>2. LengthsPositive'
    BY <1>2 DEF SkipDuplicate, IndInv, LengthsPositive
  <2>3. WrittenBound' /\ WithinBuffer'
    BY <1>2, <2>1, <1>t, TextUnchanged DEF SkipDuplicate, IndInv, TypeOK
  <2> QED BY <2>1, <2>2, <2>3 DEF IndInv
<1>3. CASE LexPast
  <2>1. TypeOK'
    BY <1>3, <1>t DEF LexPast, AtEnd, IndInv, TypeOK, textVars
  <2>2. LengthsPositive'
    BY <1>3 DEF LexPast, IndInv, LengthsPositive
  <2>3. WrittenBound' /\ WithinBuffer'
    BY <1>3, <1>t, TextUnchanged DEF LexPast, IndInv, TypeOK
  <2> QED BY <2>1, <2>2, <2>3 DEF IndInv
<1>4. CASE FillLength
  <2>1. /\ i \in 1..Len(recs) /\ tok \in 1..Len(toks)
        /\ LastToken \in 1..Len(toks) /\ LastToken >= tok
        /\ Rec \in Record
    <3>1. i \in 1..Len(recs) /\ Rec = recs[i]
      BY <1>4, <1>t DEF FillLength, Looking, Rec, IndInv, TypeOK
    <3>2. tok \in 1..Len(toks) /\ LastToken <= Len(toks)
      BY <1>4, <1>s DEF FillLength, AtEnd, IndInv, TypeOK
    <3>3. LastToken = tok \/ LastToken = tok + 1
      BY DEF LastToken
    <3> QED BY <3>1, <3>2, <3>3, <1>t, <1>s
  <2>2. toks[LastToken].loc >= toks[tok].loc
    <3>1. CASE LastToken = tok
      <4>1. toks[tok].loc \in Nat
        BY <2>1, <1>s DEF Token
      <4> QED BY <4>1, <3>1
    <3>2. CASE LastToken > tok
      <4>1. ReadTo(toks[tok]) <= toks[LastToken].loc
        BY <3>2, <2>1, <1>q
      <4>2. toks[tok] \in Token /\ toks[LastToken] \in Token
        BY <2>1, <1>s
      <4> HIDE DEF toks
      <4> QED BY <4>1, <4>2 DEF ReadTo, End, Token
    <3> QED BY <3>1, <3>2, <2>1
  <2>3. ConstantLength \in Int /\ ConstantLength > 0
    <3> DEFINE t == toks[LastToken]
    <3>1. t \in Token
      BY <2>1, <1>s
    <3>2. toks[tok].loc \in Nat /\ toks[tok].loc >= Rec.location
      BY <2>1, <1>s, <1>4 DEF FillLength, Token
    <3>3. Rec.location \in Nat
      BY <2>1 DEF Record
    <3>4. t.loc >= Rec.location
      <4>1. t.loc \in Nat
        BY <3>1 DEF Token
      <4> QED BY <4>1, <2>2, <3>2, <3>3
    <3>5. ConstantLength = (IF t.loc = Rec.location THEN End(t) ELSE ReadTo(t))
                             - Rec.location
      BY DEF ConstantLength
    <3> HIDE DEF t
    <3> QED BY <3>1, <3>3, <3>4, <3>5 DEF ReadTo, End, Token
  <2>4. recs' = [recs EXCEPT ![i] = [recs[i] EXCEPT !.length = ConstantLength]]
    BY <1>4 DEF FillLength
  <2>5. [recs[i] EXCEPT !.length = ConstantLength] \in Record
    BY <2>1, <2>3, <1>t DEF Record
  <2>6. /\ recs' \in Seq(Record) /\ Len(recs') = Len(recs)
        /\ \A k \in 1..Len(recs) :
             recs'[k] = IF k = i THEN [recs[i] EXCEPT !.length = ConstantLength]
                                 ELSE recs[k]
    <3> DEFINE filled == [recs[i] EXCEPT !.length = ConstantLength]
    <3>1. filled \in Record /\ recs' = [recs EXCEPT ![i] = filled]
      BY <2>4, <2>5
    <3> HIDE DEF filled
    <3>2. /\ recs' \in Seq(Record) /\ Len(recs') = Len(recs)
          /\ \A k \in 1..Len(recs) : recs'[k] = IF k = i THEN filled ELSE recs[k]
      BY <2>1, <3>1, <1>r
    <3> QED BY <3>2 DEF filled
  <2>7. TypeOK'
    <3>1. i' = i + 1 /\ tok' = LastToken + 1 /\ last_loc' \in Int
      BY <1>4, <2>1 DEF FillLength, Record
    <3>2. UNCHANGED <<query, stage, quer_loc, n_quer_loc, last_off, last_tok_len, out>>
      BY <1>4 DEF FillLength, textVars
    <3>3. i' \in 1..(Len(recs') + 1)
      BY <3>1, <2>1, <2>6, <1>t
    <3>4. tok' \in 1..(Len(query'.toks) + 1)
      BY <3>1, <3>2, <2>1, <1>s
    <3> QED BY <2>6, <3>1, <3>2, <3>3, <3>4 DEF IndInv, TypeOK
  <2>8. recs'[i].length = ConstantLength
    <3>1. recs'[i] = [recs[i] EXCEPT !.length = ConstantLength]
      BY <2>1, <2>6
    <3>2. recs[i] \in Record
      BY <2>1, <1>t
    <3> QED BY <3>1, <3>2 DEF Record
  <2>9. LengthsPositive'
    BY <2>3, <2>6, <2>8, <1>t DEF IndInv, LengthsPositive
  <2>10. WrittenBound' /\ WithinBuffer'
    <3>1. i' \in 1..(Len(recs) + 1) /\ i' >= i /\ stage' = stage
      <4>1. i' = i + 1 /\ stage' = stage
        BY <1>4 DEF FillLength
      <4> QED BY <4>1, <2>1, <1>t
    <3> QED BY <1>4, <2>6, <3>1, TextUnchanged DEF FillLength
  <2> QED BY <2>7, <2>9, <2>10 DEF IndInv
<1>5. CASE GiveUp \/ LengthsDone
  <2>1. TypeOK'
    <3>1. /\ stage' = "emit" /\ i' = 1
          /\ UNCHANGED <<query, recs, tok, last_loc, quer_loc, n_quer_loc,
                         last_off, last_tok_len, out>>
      BY <1>5 DEF GiveUp, LengthsDone, scanVars, textVars
    <3> QED BY <3>1, <1>t DEF IndInv, TypeOK
  <2>2. LengthsPositive'
    BY <1>5 DEF GiveUp, LengthsDone, IndInv, LengthsPositive
  <2>3. WrittenBound' /\ WithinBuffer'
    BY <1>5, <1>t, TextUnchanged DEF GiveUp, LengthsDone, Looking
  <2> QED BY <2>1, <2>2, <2>3 DEF IndInv
<1>6. CASE SkipConstant
  <2>1. TypeOK'
    BY <1>6, <1>t DEF SkipConstant, IndInv, TypeOK, scanVars, textVars
  <2>2. LengthsPositive'
    BY <1>6 DEF SkipConstant, IndInv, LengthsPositive
  <2>3. WrittenBound' /\ WithinBuffer'
    BY <1>6, <2>1, <1>t, TextUnchanged DEF SkipConstant, IndInv, TypeOK
  <2> QED BY <2>1, <2>2, <2>3 DEF IndInv
<1>7. CASE Replace
  <2> DEFINE piece == [from |-> quer_loc,
                       to |-> quer_loc + (Rec.location - last_off - last_tok_len),
                       param |-> Param]
  <2>1. i \in 1..Len(recs) /\ Rec = recs[i]
    BY <1>7, <1>t DEF Replace, Rec, IndInv, TypeOK
  <2>2. /\ Rec.location \in Nat /\ Rec.length \in Nat /\ Rec.length > 0
        /\ Rec.location >= last_off + last_tok_len
        /\ Rec.location + Rec.length <= query.len
        /\ Param \in Int
    <3>1. Rec \in Record
      BY <2>1, <1>t
    <3>2. Rec.length = -1 \/ Rec.length > 0
      BY <2>1 DEF IndInv, LengthsPositive
    <3>3. Fits
      BY <1>7 DEF Replace
    <3> QED BY <3>1, <3>2, <3>3, <1>t, ExternAssumption, IntMaxType
            DEF Record, Fits, Param, IndInv, TypeOK
  <2>3. ParamLen(Param) \in 2..11
    BY <2>2, SymbolLength
  <2>4. /\ quer_loc \in Nat /\ quer_loc = last_off + last_tok_len
        /\ last_off \in Nat /\ last_tok_len \in Nat
        /\ n_quer_loc \in Nat /\ n_quer_loc <= quer_loc + 10 * (i - 1)
    BY <1>7 DEF Replace, IndInv, TypeOK, WrittenBound
  <2>5. /\ quer_loc' = Rec.location + Rec.length
        /\ last_off' = Rec.location /\ last_tok_len' = Rec.length
        /\ i' = i + 1 /\ stage' = "emit"
        /\ UNCHANGED <<query, recs, scanVars>>
        /\ out' = Append(out, piece)
        /\ n_quer_loc' = n_quer_loc + (Rec.location - last_off - last_tok_len)
                           + ParamLen(Param)
    BY <1>7 DEF Replace
  <2>6. /\ n_quer_loc' \in Nat
        /\ n_quer_loc' <= quer_loc' + 10 * i
    <3>1. i \in Nat /\ i > 0
      BY <2>1, <1>t
    <3>2. /\ n_quer_loc + (Rec.location - last_off - last_tok_len)
               + ParamLen(Param) \in Nat
          /\ n_quer_loc + (Rec.location - last_off - last_tok_len)
               + ParamLen(Param) <= Rec.location + Rec.length + 10 * i
      BY ONLY <3>1, <2>2, <2>3, <2>4, GrowsByTen
    <3> QED BY <2>5, <3>2
  <2>7. piece \in Piece /\ 0 <= piece.from /\ piece.from <= piece.to
        /\ piece.to <= query.len
    BY <2>2, <2>4, <1>t DEF Piece
  <2>8. /\ out \in Seq(Piece) /\ out' \in Seq(Piece) /\ Len(out') = Len(out) + 1
        /\ \A k \in 1..Len(out') : out'[k] = IF k <= Len(out) THEN out[k] ELSE piece
    <3>1. out \in Seq(Piece)
      BY DEF IndInv, TypeOK
    <3> HIDE DEF piece
    <3> QED BY <2>5, <2>7, <3>1
  <2>9. TypeOK'
    <3>1. UNCHANGED <<query, recs, tok, last_loc>> /\ i' \in 1..(Len(recs) + 1)
      BY <2>1, <2>5, <1>t DEF scanVars
    <3>2. quer_loc' \in Nat /\ last_off' \in Nat /\ last_tok_len' \in Nat
      BY <2>2, <2>5
    <3> QED BY <3>1, <3>2, <2>5, <2>6, <2>8 DEF IndInv, TypeOK
  <2>10. LengthsPositive'
    BY <2>5 DEF IndInv, LengthsPositive
  <2>11. WrittenBound'
    BY <2>1, <2>2, <2>5, <2>6, <1>t DEF WrittenBound
  <2>12. WithinBuffer'
    <3>1. n_quer_loc' <= BufLen'
      <4>1. quer_loc' <= query.len /\ quer_loc' \in Nat /\ 10 * i <= 10 * Len(recs)
        BY <2>1, <2>2, <2>5, <1>t
      <4>2. BufLen' = query.len + 10 * Len(recs)
        BY <2>5 DEF BufLen
      <4>3. n_quer_loc' \in Nat /\ n_quer_loc' <= quer_loc' + 10 * i /\ i \in Nat
        BY <2>1, <2>6, <1>t
      <4>4. n_quer_loc' <= query.len + 10 * Len(recs)
        BY ONLY <4>1, <4>3, <1>t, BoundReached
      <4> QED BY <4>2, <4>4
    <3>2. ASSUME NEW k \in 1..Len(out')
          PROVE  /\ 0 <= out'[k].from /\ out'[k].from <= out'[k].to
                 /\ out'[k].to <= query.len
      <4>1. CASE k <= Len(out)
        <5>1. k \in 1..Len(out) /\ out'[k] = out[k]
          BY <4>1, <2>8
        <5> QED BY <5>1 DEF IndInv, WithinBuffer
      <4>2. CASE ~(k <= Len(out))
        <5>1. out'[k] = piece
          BY <4>2, <2>8
        <5> QED BY <5>1, <2>7
      <4> QED BY <4>1, <4>2
    <3> QED BY <3>1, <3>2, <2>5 DEF WithinBuffer
  <2> QED BY <2>9, <2>10, <2>11, <2>12 DEF IndInv
<1>8. CASE Finish
  <2> DEFINE piece == [from |-> quer_loc, to |-> query.len, param |-> 0]
  <2>1. /\ quer_loc \in Nat /\ quer_loc <= query.len
        /\ n_quer_loc \in Nat /\ n_quer_loc <= quer_loc + 10 * (i - 1)
        /\ i = Len(recs) + 1
    BY <1>8, <1>t DEF Finish, IndInv, TypeOK, WrittenBound
  <2>2. /\ quer_loc' = query.len /\ stage' = "done"
        /\ n_quer_loc' = n_quer_loc + query.len - quer_loc
        /\ out' = Append(out, piece)
        /\ UNCHANGED <<query, recs, i, scanVars, last_off, last_tok_len>>
    BY <1>8 DEF Finish
  <2>3. n_quer_loc' \in Nat /\ n_quer_loc' <= query.len + 10 * Len(recs)
    BY <2>1, <2>2, <1>t
  <2>4. piece \in Piece /\ 0 <= piece.from /\ piece.from <= piece.to
        /\ piece.to <= query.len
    BY <2>1, <1>t DEF Piece
  <2>5. /\ out \in Seq(Piece) /\ out' \in Seq(Piece) /\ Len(out') = Len(out) + 1
        /\ \A k \in 1..Len(out') : out'[k] = IF k <= Len(out) THEN out[k] ELSE piece
    <3>1. out \in Seq(Piece)
      BY DEF IndInv, TypeOK
    <3> HIDE DEF piece
    <3> QED BY <2>2, <2>4, <3>1
  <2>6. TypeOK'
    BY <2>2, <2>3, <2>5, <1>t DEF IndInv, TypeOK, scanVars
  <2>7. LengthsPositive'
    BY <2>2 DEF IndInv, LengthsPositive
  <2>8. WrittenBound'
    BY <2>1, <2>2, <2>3, <1>t DEF WrittenBound
  <2>9. WithinBuffer'
    <3>1. n_quer_loc' <= BufLen'
      BY <2>2, <2>3 DEF BufLen
    <3>2. ASSUME NEW k \in 1..Len(out')
          PROVE  /\ 0 <= out'[k].from /\ out'[k].from <= out'[k].to
                 /\ out'[k].to <= query.len
      <4>1. CASE k <= Len(out)
        <5>1. k \in 1..Len(out) /\ out'[k] = out[k]
          BY <4>1, <2>5
        <5> QED BY <5>1 DEF IndInv, WithinBuffer
      <4>2. CASE ~(k <= Len(out))
        <5>1. out'[k] = piece
          BY <4>2, <2>5
        <5> QED BY <5>1, <2>4
      <4> QED BY <4>1, <4>2
    <3> QED BY <3>1, <3>2, <2>2 DEF WithinBuffer
  <2> QED BY <2>6, <2>7, <2>8, <2>9 DEF IndInv
<1>9. CASE UNCHANGED vars
  <2>1. UNCHANGED <<query, recs, stage, i, tok, last_loc, quer_loc, n_quer_loc,
                    last_off, last_tok_len, out>>
    BY <1>9 DEF vars, scanVars, textVars
  <2> QED BY <2>1 DEF IndInv, TypeOK, LengthsPositive, WrittenBound,
                      WithinBuffer, BufLen
<1> QED BY <1>1, <1>2, <1>3, <1>4, <1>5, <1>6, <1>7, <1>8, <1>9 DEF Next

\* The invariant holds for every query and every list of locations.
THEOREM TextInvariant == Spec => []IndInv
<1>1. Init => IndInv
  BY InitInvariant
<1>2. IndInv /\ [Next]_vars => IndInv'
  BY NextInvariant
<1> QED BY <1>1, <1>2, PTL DEF Spec

\* generate_normalized_query never writes past norm_query, never copies a
\* negative number of bytes and never reads past the query, even for locations
\* that the parser would not record.
THEOREM BufferSafety == Spec => []WithinBuffer
<1>1. IndInv => WithinBuffer
  BY DEF IndInv
<1> QED BY <1>1, TextInvariant, PTL

\* The state has its type, for every query and every list of locations.
THEOREM TextTypeCorrect == Spec => []TypeOK
<1>1. IndInv => TypeOK
  BY DEF IndInv
<1> QED BY <1>1, TextInvariant, PTL
-----------------------------------------------------------------------------
(* What is replaced.  The rest is about locations that the parser records    *)
(* (LocationsAreConstants): the result is the query with each constant       *)
(* replaced once.                                                            *)

\* The token that a constant starts with, the one it ends with, and its end.
TokenAt(q, loc) == CHOOSE t \in 1..Len(q.toks) : q.toks[t].loc = loc
LastOf(q, loc) == IF loc \in q.dashes THEN TokenAt(q, loc) + 1 ELSE TokenAt(q, loc)
EndOf(q, loc) == End(q.toks[LastOf(q, loc)])

\* Record k is the first one of its location.
Leads(rs, k) == \A m \in 1..(k - 1) : rs[m].location < rs[k].location

\* Only the first record of a location has a length, that of the constant there.
Measured(q, rs, k) ==
  IF Leads(rs, k) THEN rs[k].length = EndOf(q, rs[k].location) - rs[k].location
  ELSE rs[k].length = -1

Sorted ==
  stage # "sort" =>
    \A a, b \in 1..Len(recs) : a < b => recs[a].location <= recs[b].location

\* The first loop has measured the records before i, and the scanner has not read
\* past a constant that is still to be measured.
Measuring ==
  /\ stage = "sort" =>
       /\ i = 1 /\ tok = 1 /\ last_loc = -1
       /\ \A k \in 1..Len(recs) : recs[k].length = -1
  /\ stage = "lengths" /\ LocationsAreConstants =>
       /\ \A k \in 1..Len(recs) :
            IF k < i THEN Measured(query, recs, k) ELSE recs[k].length = -1
       /\ last_loc = IF i = 1 THEN -1 ELSE recs[i - 1].location
       /\ \A k \in i..Len(recs) :
            recs[k].location > last_loc => tok <= TokenAt(query, recs[k].location)
  /\ stage = "emit" /\ LocationsAreConstants =>
       \A k \in 1..Len(recs) : Measured(query, recs, k)

\* The locations of the records before the n-th.
Seen(rs, n) == {rs[k].location : k \in 1..(n - 1)}

\* Is byte x copied by one of these pieces?  Is it part of one of these constants?
Copied(ps, x) == \E k \in 1..Len(ps) : ps[k].from <= x /\ x < ps[k].to
Cut(q, S, x) == \E loc \in S : loc <= x /\ x < EndOf(q, loc)

\* Piece p ends at a record, and has the parameter of this record after it.
EndsAtRecord(p, rs) ==
  \E r \in 1..Len(rs) :
    /\ p.to = rs[r].location
    /\ p.param = IF rs[r].param_id < 0 THEN HighestExtern - rs[r].param_id
                 ELSE rs[r].param_id

InOrder(ps) == \A k, m \in 1..Len(ps) : k < m => ps[k].to <= ps[m].from

\* The second loop has written the text up to the end of the last constant seen,
\* less the constants seen, each of which has its symbol.
Writing ==
  /\ stage \in {"sort", "lengths"} => out = <<>>
  /\ stage = "emit" /\ LocationsAreConstants =>
       /\ quer_loc = IF i = 1 THEN 0 ELSE EndOf(query, recs[i - 1].location)
       /\ IsFiniteSet(Seen(recs, i)) /\ Len(out) = Cardinality(Seen(recs, i))
       /\ \A k \in 1..Len(out) : out[k].to <= quer_loc /\ EndsAtRecord(out[k], recs)
       /\ InOrder(out)
       /\ \A loc \in Seen(recs, i) : EndOf(query, loc) <= quer_loc
       /\ \A x \in Int : Copied(out, x) <=>
            0 <= x /\ x < quer_loc /\ ~Cut(query, Seen(recs, i), x)

\* The inductive invariant for the result, on top of IndInv.
ResultInv == Sorted /\ Measuring /\ Writing /\ ConstantsReplaced

\* The tokens of a query follow each other.
LEMMA TokensFollow ==
  ASSUME TypeOK
  PROVE  /\ Len(query.toks) \in Nat /\ query.len \in Nat
         /\ \A k \in 1..Len(query.toks) :
              /\ query.toks[k] \in Token
              /\ query.toks[k].loc \in Nat
              /\ query.toks[k].loc < End(query.toks[k])
              /\ End(query.toks[k]) <= query.len /\ End(query.toks[k]) \in Nat
         /\ \A k, m \in 1..Len(query.toks) :
              k < m => End(query.toks[k]) <= query.toks[m].loc
<1> DEFINE toks == query.toks
<1>1. /\ toks \in Seq(Token) /\ query.len \in Nat
      /\ \A k \in 1..Len(toks) : ReadTo(toks[k]) <= query.len
      /\ \A k, m \in 1..Len(toks) : k < m => ReadTo(toks[k]) <= toks[m].loc
  BY QueriesAssumption DEF TypeOK
<1> HIDE DEF toks
<1>2. Len(toks) \in Nat /\ \A k \in 1..Len(toks) : toks[k] \in Token
  BY <1>1
<1>3. \A t \in Token : /\ t.loc \in Nat /\ t.loc < End(t) /\ End(t) <= ReadTo(t)
                       /\ End(t) \in Nat /\ ReadTo(t) \in Nat
  BY DEF Token, End, ReadTo
<1>4. ASSUME NEW k \in 1..Len(toks)
      PROVE  /\ toks[k] \in Token /\ toks[k].loc \in Nat
             /\ toks[k].loc < End(toks[k])
             /\ End(toks[k]) <= query.len /\ End(toks[k]) \in Nat
  BY <1>1, <1>2, <1>3
<1>5. ASSUME NEW k \in 1..Len(toks), NEW m \in 1..Len(toks), k < m
      PROVE  End(toks[k]) <= toks[m].loc
  <2>1. ReadTo(toks[k]) <= toks[m].loc
    BY <1>1, <1>5
  <2>2. /\ End(toks[k]) <= ReadTo(toks[k]) /\ toks[m].loc \in Nat
        /\ End(toks[k]) \in Nat /\ ReadTo(toks[k]) \in Nat
    BY <1>2, <1>3
  <2> QED BY <2>1, <2>2
<1> QED BY <1>1, <1>2, <1>4, <1>5 DEF toks

\* ... so that a later one starts later, and no two start at the same place.
LEMMA TokensApart ==
  ASSUME TypeOK, NEW k \in 1..Len(query.toks), NEW m \in 1..Len(query.toks)
  PROVE  /\ k < m => query.toks[k].loc < query.toks[m].loc
         /\ query.toks[k].loc <= query.toks[m].loc => k <= m
         /\ query.toks[k].loc = query.toks[m].loc => k = m
<1>1. /\ query.toks[k].loc \in Nat /\ query.toks[m].loc \in Nat
      /\ query.toks[k].loc < End(query.toks[k]) /\ End(query.toks[k]) \in Nat
      /\ query.toks[m].loc < End(query.toks[m]) /\ End(query.toks[m]) \in Nat
      /\ k < m => End(query.toks[k]) <= query.toks[m].loc
      /\ m < k => End(query.toks[m]) <= query.toks[k].loc
  BY TokensFollow
<1> QED BY <1>1

\* A recorded constant is one or two whole tokens of the query.
LEMMA ConstantAt ==
  ASSUME TypeOK, LocationsAreConstants, NEW loc \in Locations
  PROVE  /\ loc \in Nat
         /\ TokenAt(query, loc) \in 1..Len(query.toks)
         /\ query.toks[TokenAt(query, loc)].loc = loc
         /\ LastOf(query, loc) \in 1..Len(query.toks)
         /\ loc \in query.dashes => query.toks[LastOf(query, loc)].blanks = 0
         /\ TokenAt(query, loc) > 1 =>
              \/ query.toks[TokenAt(query, loc) - 1].loc \notin query.dashes
              \/ query.toks[TokenAt(query, loc)].blanks > 0
         /\ EndOf(query, loc) \in Nat
         /\ loc < EndOf(query, loc) /\ EndOf(query, loc) <= query.len
<1> DEFINE t == TokenAt(query, loc)
<1>1. PICK k \in 1..Len(query.toks) :
        /\ query.toks[k].loc = loc
        /\ loc \in query.dashes =>
             k < Len(query.toks) /\ query.toks[k + 1].blanks = 0
        /\ k > 1 => query.toks[k - 1].loc \notin query.dashes
                    \/ query.toks[k].blanks > 0
  BY DEF LocationsAreConstants
<1>2. t \in 1..Len(query.toks) /\ query.toks[t].loc = loc
  BY <1>1, Zenon DEF TokenAt
<1> HIDE DEF t
<1>3. t = k
  BY <1>1, <1>2, TokensApart
<1>4. Len(query.toks) \in Nat /\ query.len \in Nat
  BY TokensFollow
<1>5. LastOf(query, loc) = IF loc \in query.dashes THEN k + 1 ELSE k
  BY <1>3 DEF LastOf, t
<1>6. LastOf(query, loc) \in 1..Len(query.toks)
  BY <1>1, <1>4, <1>5
<1> DEFINE e == LastOf(query, loc)
<1> HIDE DEF e
<1>7. /\ query.toks[e].loc \in Nat /\ query.toks[k].loc \in Nat
      /\ query.toks[e].loc < End(query.toks[e]) /\ End(query.toks[e]) \in Nat
      /\ End(query.toks[e]) <= query.len
  BY <1>1, <1>6, TokensFollow DEF e
<1>8. query.toks[k].loc <= query.toks[e].loc
  <2>1. e = k \/ k < e
    BY <1>5 DEF e
  <2> QED BY <1>6, <1>7, <2>1, TokensApart DEF e
<1>9. EndOf(query, loc) = End(query.toks[e])
  BY DEF EndOf, e
<1> QED BY <1>1, <1>2, <1>3, <1>5, <1>6, <1>7, <1>8, <1>9, <1>4 DEF t, e

\* Two recorded constants have no token in common.
LEMMA ConstantsApart ==
  ASSUME TypeOK, LocationsAreConstants, NEW a \in Locations, NEW b \in Locations,
         a < b
  PROVE  /\ LastOf(query, a) < TokenAt(query, b)
         /\ EndOf(query, a) <= b
<1> DEFINE s == TokenAt(query, a)
           t == TokenAt(query, b)
           e == LastOf(query, a)
<1>1. /\ s \in 1..Len(query.toks) /\ query.toks[s].loc = a
      /\ e \in 1..Len(query.toks)
      /\ a \in query.dashes => query.toks[e].blanks = 0
      /\ a \in Nat
  BY ConstantAt
<1>2. /\ t \in 1..Len(query.toks) /\ query.toks[t].loc = b /\ b \in Nat
      /\ t > 1 => query.toks[t - 1].loc \notin query.dashes
                  \/ query.toks[t].blanks > 0
  BY ConstantAt
<1>3. e = IF a \in query.dashes THEN s + 1 ELSE s
  BY DEF LastOf
<1> HIDE DEF s, t, e
<1>4. s < t
  <2>1. ~(t <= s)
    <3>1. t < s => query.toks[t].loc < query.toks[s].loc
      BY <1>1, <1>2, TokensApart
    <3> QED BY <1>1, <1>2, <3>1
  <2> QED BY <1>1, <1>2, <2>1
<1>5. e < t
  <2>1. CASE a \in query.dashes
    <3>1. e = s + 1 /\ query.toks[e].blanks = 0
      BY <1>1, <1>3, <2>1
    <3>2. ASSUME t = s + 1 PROVE FALSE
      <4>1. query.toks[t - 1].loc = a /\ t > 1 /\ t = e
        BY <1>1, <1>2, <3>1, <3>2
      <4> QED BY <1>2, <2>1, <3>1, <4>1
    <3> QED BY <1>1, <1>2, <1>4, <3>1, <3>2
  <2>2. CASE a \notin query.dashes
    BY <1>3, <1>4, <2>2
  <2> QED BY <2>1, <2>2
<1>6. End(query.toks[e]) <= query.toks[t].loc
  BY <1>1, <1>2, <1>5, TokensFollow
<1> QED BY <1>2, <1>5, <1>6 DEF EndOf, s, t, e

\* What the parser has recorded does not depend on the lengths.
LEMMA SameConstants ==
  ASSUME query' = query, Len(recs') = Len(recs),
         \A k \in 1..Len(recs) : recs'[k].location = recs[k].location
  PROVE  /\ Locations' = Locations
         /\ LocationsAreConstants' <=> LocationsAreConstants
<1>1. Locations' = Locations
  BY DEF Locations
<1> QED BY <1>1 DEF LocationsAreConstants

\* The records have their types, and a place among the locations.
LEMMA RecordTypes ==
  ASSUME TypeOK
  PROVE  /\ Len(recs) \in Nat /\ i \in Nat /\ i >= 1 /\ tok \in Nat /\ tok >= 1
         /\ \A k \in 1..Len(recs) :
              /\ recs[k] \in Record
              /\ recs[k].location \in Nat /\ recs[k].length \in Int
              /\ recs[k].location \in Locations
<1>1. recs \in Seq(Record) /\ i \in 1..(Len(recs) + 1) /\ tok \in 1..(Len(query.toks) + 1)
  BY DEF TypeOK
<1>2. Len(recs) \in Nat /\ Len(query.toks) \in Nat
  BY <1>1, TokensFollow
<1>3. \A k \in 1..Len(recs) : recs[k] \in Record
  BY <1>1
<1>4. \A k \in 1..Len(recs) : recs[k].location \in Locations
  BY DEF Locations
<1> QED BY <1>1, <1>2, <1>3, <1>4 DEF Record

\* A token that starts at a location is found.
LEMMA TokenFound ==
  ASSUME NEW q, NEW loc, \E k \in 1..Len(q.toks) : q.toks[k].loc = loc
  PROVE  TokenAt(q, loc) \in 1..Len(q.toks)
  BY Zenon DEF TokenAt

\* Which record leads depends on the locations only.
LEMMA SameLeads ==
  ASSUME NEW rs, NEW ss, NEW n \in Nat, NEW k \in 1..n,
         \A m \in 1..n : ss[m].location = rs[m].location
  PROVE  Leads(ss, k) <=> Leads(rs, k)
<1>1. \A m \in 1..(k - 1) : m \in 1..n
  OBVIOUS
<1> QED BY <1>1 DEF Leads

\* In a sorted list, a record that does not lead has the location of the one
\* before.
LEMMA Follower ==
  ASSUME TypeOK, Sorted, stage # "sort", NEW k \in 1..Len(recs), ~Leads(recs, k)
  PROVE  k > 1 /\ k - 1 \in 1..Len(recs)
         /\ recs[k - 1].location = recs[k].location
<1>1. PICK m \in 1..(k - 1) : ~(recs[m].location < recs[k].location)
  BY DEF Leads
<1>2. /\ k - 1 \in 1..Len(recs) /\ m \in 1..Len(recs) /\ m < k /\ k > 1
      /\ m = k - 1 \/ m < k - 1
  BY RecordTypes, <1>1
<1>3. /\ recs[m].location \in Nat /\ recs[k].location \in Nat
      /\ recs[k - 1].location \in Nat
  BY <1>2, RecordTypes
<1>4. /\ recs[m].location <= recs[k - 1].location
      /\ recs[k - 1].location <= recs[k].location
  BY <1>2, <1>3 DEF Sorted
<1> QED BY <1>1, <1>2, <1>3, <1>4

\* ... and one that is after the one before leads.
LEMMA Leader ==
  ASSUME TypeOK, Sorted, stage # "sort", NEW k \in 1..Len(recs),
         k > 1 => recs[k - 1].location < recs[k].location
  PROVE  Leads(recs, k)
<1>1. k > 1 => k - 1 \in 1..Len(recs)
  BY RecordTypes
<1> QED BY <1>1, Follower, RecordTypes

\* The first loop is at a constant that it has not read past.
LEMMA AtConstant ==
  ASSUME TypeOK, Sorted, Measuring, LocationsAreConstants, Looking
  PROVE  /\ i \in 1..Len(recs) /\ Rec = recs[i] /\ Rec.location \in Locations
         /\ Leads(recs, i)
         /\ ~AtEnd /\ tok \in 1..Len(query.toks)
         /\ query.toks[tok].loc >= Rec.location =>
              tok = TokenAt(query, Rec.location) /\ LastToken = LastOf(query, Rec.location)
<1>1. /\ i \in 1..Len(recs) /\ Rec = recs[i] /\ stage = "lengths"
      /\ Rec.location > last_loc
  BY RecordTypes DEF Looking, Rec
<1>2. Rec.location \in Locations /\ Rec.location \in Nat
  BY <1>1, RecordTypes
<1>3. Leads(recs, i)
  <2>1. i > 1 => recs[i - 1].location < recs[i].location
    BY <1>1, RecordTypes DEF Measuring
  <2> QED BY <1>1, <2>1, Leader
<1> DEFINE t == TokenAt(query, Rec.location)
<1>4. tok <= t
  BY <1>1, RecordTypes DEF Measuring
<1>5. t \in 1..Len(query.toks) /\ query.toks[t].loc = Rec.location
  BY <1>2, ConstantAt
<1> HIDE DEF t
<1>6. tok \in 1..Len(query.toks) /\ ~AtEnd
  BY <1>4, <1>5, RecordTypes, TokensFollow DEF AtEnd
<1>7. ASSUME query.toks[tok].loc >= Rec.location
      PROVE  tok = t
  <2>1. ~(tok < t)
    <3>1. tok < t => query.toks[tok].loc < query.toks[t].loc
      BY <1>5, <1>6, TokensApart
    <3>2. query.toks[tok].loc \in Nat
      BY <1>6, TokensFollow
    <3> QED BY <1>2, <1>5, <1>7, <3>1, <3>2
  <2> QED BY <1>4, <1>5, <1>6, <2>1
<1>8. tok = t => LastToken = LastOf(query, Rec.location)
  BY DEF LastToken, LastOf, t
<1> QED BY <1>1, <1>2, <1>3, <1>6, <1>7, <1>8 DEF t

\* qsort leaves the records in the order of their locations.
LEMMA SortResult ==
  ASSUME IndInv, ResultInv, Sort
  PROVE  ResultInv'
<1>1. TypeOK /\ Len(recs) \in Nat /\ i = 1 /\ tok = 1 /\ last_loc = -1
      /\ \A k \in 1..Len(recs) : recs[k].length = -1 /\ recs[k].location \in Nat
  BY RecordTypes DEF Sort, IndInv, ResultInv, Measuring
<1>2. PICK p \in [1..Len(recs) -> 1..Len(recs)] :
        /\ \A a, b \in 1..Len(recs) :
             a < b => p[a] # p[b] /\ recs[p[a]].location <= recs[p[b]].location
        /\ recs' = [k \in 1..Len(recs) |-> recs[p[k]]]
  BY DEF Sort
<1>3. /\ DOMAIN recs' = 1..Len(recs)
      /\ \A k \in 1..Len(recs) : recs'[k] = recs[p[k]] /\ p[k] \in 1..Len(recs)
  BY <1>2
<1>4. Len(recs') = Len(recs)
  <2>1. recs' \in Seq(Record)
    BY <1>1, <1>2, RecordTypes
  <2> QED BY <1>1, <1>3, <2>1
<1>5. /\ stage' = "lengths" /\ query' = query /\ i' = 1 /\ tok' = 1
      /\ last_loc' = -1 /\ out' = out /\ out = <<>> /\ stage = "sort"
  BY <1>1 DEF Sort, scanVars, textVars, ResultInv, Writing
<1>6. Sorted'
  BY <1>2, <1>3, <1>4 DEF Sorted
<1>7. Measuring'
  <2> SUFFICES ASSUME LocationsAreConstants'
               PROVE  \A k \in 1..Len(recs') :
                        /\ recs'[k].length = -1
                        /\ 1 <= TokenAt(query', recs'[k].location)
    BY <1>1, <1>4, <1>5 DEF Measuring
  <2> TAKE k \in 1..Len(recs')
  <2>1. recs'[k].length = -1
    BY <1>1, <1>3, <1>4
  <2>2. recs'[k].location \in Locations'
    BY DEF Locations
  <2>3. \E t \in 1..Len(query'.toks) : query'.toks[t].loc = recs'[k].location
    BY <2>2 DEF LocationsAreConstants
  <2>4. TokenAt(query', recs'[k].location) \in 1..Len(query'.toks)
    BY <2>3, TokenFound
  <2>5. Len(query'.toks) \in Nat
    BY <1>1, <1>5, TokensFollow
  <2> QED BY <2>1, <2>4, <2>5
<1>8. Writing' /\ ConstantsReplaced'
  BY <1>5 DEF Writing, ConstantsReplaced
<1> QED BY <1>6, <1>7, <1>8 DEF ResultInv

\* A step of the first loop leaves the list sorted and the text unwritten.
LEMMA FirstLoop ==
  ASSUME IndInv, ResultInv, stage = "lengths", stage' = "lengths", query' = query,
         out' = out, Len(recs') = Len(recs),
         \A k \in 1..Len(recs) : recs'[k].location = recs[k].location
  PROVE  /\ Sorted' /\ Writing' /\ ConstantsReplaced'
         /\ LocationsAreConstants' <=> LocationsAreConstants
<1>1. Sorted' /\ Writing' /\ ConstantsReplaced'
  BY DEF ResultInv, Sorted, Writing, ConstantsReplaced
<1> QED BY <1>1, SameConstants

\* "Duplicate constant, ignore": its length stays unknown.
LEMMA SkipDuplicateResult ==
  ASSUME IndInv, ResultInv, SkipDuplicate
  PROVE  ResultInv'
<1>1. TypeOK /\ Sorted /\ Measuring
  BY DEF IndInv, ResultInv
<1>2. /\ stage = "lengths" /\ stage' = "lengths" /\ query' = query /\ recs' = recs
      /\ i' = i + 1 /\ tok' = tok /\ last_loc' = last_loc /\ out' = out
      /\ i \in 1..Len(recs) /\ recs[i].location <= last_loc
  BY <1>1, RecordTypes DEF SkipDuplicate, scanVars, textVars, Rec
<1>3. /\ Sorted' /\ Writing' /\ ConstantsReplaced'
      /\ LocationsAreConstants' <=> LocationsAreConstants
  BY <1>2, FirstLoop
<1>4. ASSUME LocationsAreConstants
      PROVE  /\ \A k \in 1..Len(recs) :
                  IF k < i + 1 THEN Measured(query, recs, k) ELSE recs[k].length = -1
             /\ last_loc = IF i + 1 = 1 THEN -1 ELSE recs[(i + 1) - 1].location
             /\ \A k \in (i + 1)..Len(recs) :
                  recs[k].location > last_loc => tok <= TokenAt(query, recs[k].location)
  <2>1. /\ \A k \in 1..Len(recs) :
             IF k < i THEN Measured(query, recs, k) ELSE recs[k].length = -1
        /\ last_loc = IF i = 1 THEN -1 ELSE recs[i - 1].location
        /\ \A k \in i..Len(recs) :
             recs[k].location > last_loc => tok <= TokenAt(query, recs[k].location)
    BY <1>1, <1>2, <1>4 DEF Measuring
  <2>2. i > 1 /\ i - 1 \in 1..Len(recs) /\ last_loc = recs[i - 1].location
    <3>1. recs[i].location \in Nat
      BY <1>1, <1>2, RecordTypes
    <3>2. i # 1
      BY <1>2, <2>1, <3>1
    <3> QED BY <1>1, <1>2, <2>1, <3>2, RecordTypes
  <2>3. recs[i].location = last_loc
    <3>1. recs[i].location \in Nat /\ recs[i - 1].location \in Nat
      BY <1>1, <1>2, <2>2, RecordTypes
    <3>2. recs[i - 1].location <= recs[i].location
      BY <1>1, <1>2, <2>2 DEF Sorted
    <3> QED BY <1>2, <2>2, <3>1, <3>2
  <2>4. Measured(query, recs, i)
    <3>1. i - 1 \in 1..(i - 1) /\ ~(recs[i - 1].location < recs[i].location)
      <4>1. recs[i].location \in Nat
        BY <1>1, <1>2, RecordTypes
      <4> QED BY <1>1, <2>2, <2>3, <4>1, RecordTypes
    <3>2. ~Leads(recs, i)
      BY <3>1 DEF Leads
    <3> QED BY <1>2, <2>1, <3>2 DEF Measured
  <2>5. i \in Nat /\ Len(recs) \in Nat
    BY <1>1, RecordTypes
  <2>6. \A k \in 1..Len(recs) : k < i + 1 => k < i \/ k = i
    BY <2>5
  <2>7. (i + 1) - 1 = i /\ i + 1 # 1 /\ \A k \in (i + 1)..Len(recs) : k \in i..Len(recs)
    BY <2>2, <2>5
  <2>8. \A k \in 1..Len(recs) : ~(k < i + 1) => ~(k < i)
    BY <2>5
  <2> QED BY <2>1, <2>3, <2>4, <2>6, <2>7, <2>8
<1>5. Measuring'
  BY <1>2, <1>3, <1>4 DEF Measuring
<1> QED BY <1>3, <1>5 DEF ResultInv

\* A token before the constant is not one that a constant starts with.
LEMMA LexPastResult ==
  ASSUME IndInv, ResultInv, LexPast
  PROVE  ResultInv'
<1>1. TypeOK /\ Sorted /\ Measuring
  BY DEF IndInv, ResultInv
<1>2. /\ stage = "lengths" /\ stage' = "lengths" /\ query' = query /\ recs' = recs
      /\ i' = i /\ tok' = tok + 1 /\ last_loc' = last_loc /\ out' = out
      /\ Looking /\ query.toks[tok].loc < Rec.location
  BY DEF LexPast, Looking, textVars
<1>3. /\ Sorted' /\ Writing' /\ ConstantsReplaced'
      /\ LocationsAreConstants' <=> LocationsAreConstants
  BY <1>2, FirstLoop
<1>4. ASSUME LocationsAreConstants, NEW k \in i..Len(recs),
             recs[k].location > last_loc
      PROVE  tok + 1 <= TokenAt(query, recs[k].location)
  <2>1. /\ i \in 1..Len(recs) /\ Rec = recs[i] /\ tok \in 1..Len(query.toks)
    BY <1>1, <1>2, <1>4, AtConstant
  <2>2. k \in 1..Len(recs) /\ (k = i \/ i < k)
    BY <1>1, <2>1, RecordTypes
  <2>3. /\ recs[i].location \in Nat /\ recs[k].location \in Nat
        /\ recs[k].location \in Locations
    BY <1>1, <2>1, <2>2, RecordTypes
  <2>4. recs[i].location <= recs[k].location
    BY <1>1, <1>2, <2>1, <2>2, <2>3 DEF Sorted
  <2> DEFINE t == TokenAt(query, recs[k].location)
  <2>5. t \in 1..Len(query.toks) /\ query.toks[t].loc = recs[k].location
    BY <1>1, <1>4, <2>3, ConstantAt
  <2>6. tok <= t
    BY <1>1, <1>2, <1>4 DEF Measuring
  <2> HIDE DEF t
  <2>7. query.toks[tok].loc \in Nat
    BY <1>1, <2>1, TokensFollow
  <2>8. tok # t
    BY <1>2, <2>1, <2>3, <2>4, <2>5, <2>7
  <2>9. tok + 1 <= t
    BY <2>1, <2>5, <2>6, <2>8
  <2> QED BY <2>9 DEF t
<1>5. Measuring'
  BY <1>1, <1>2, <1>3, <1>4 DEF Measuring
<1> QED BY <1>3, <1>5 DEF ResultInv

\* The constant is the token that the scanner is at, or that and the next one; its
\* length is up to the end of it.
LEMMA FillLengthResult ==
  ASSUME IndInv, ResultInv, FillLength
  PROVE  ResultInv'
<1>1. TypeOK /\ Sorted /\ Measuring
  BY DEF IndInv, ResultInv
<1>2. /\ stage = "lengths" /\ stage' = "lengths" /\ query' = query
      /\ i' = i + 1 /\ tok' = LastToken + 1 /\ last_loc' = Rec.location
      /\ out' = out /\ Looking /\ query.toks[tok].loc >= Rec.location
      /\ recs' = [recs EXCEPT ![i].length = ConstantLength]
      /\ i \in 1..Len(recs) /\ Rec = recs[i]
  BY <1>1, RecordTypes DEF FillLength, Looking, textVars, Rec
<1>3. /\ Len(recs') = Len(recs)
      /\ \A k \in 1..Len(recs) : k # i => recs'[k] = recs[k]
      /\ recs'[i] = [recs[i] EXCEPT !.length = ConstantLength]
  <2>1. recs \in Seq(Record)
    BY <1>1 DEF TypeOK
  <2> QED BY <1>2, <2>1
<1>4. recs'[i].location = recs[i].location /\ recs'[i].length = ConstantLength
  <2>1. recs[i] \in Record
    BY <1>1, <1>2, RecordTypes
  <2> QED BY <1>3, <2>1 DEF Record
<1>5. \A k \in 1..Len(recs) : recs'[k].location = recs[k].location
  BY <1>3, <1>4
<1>6. /\ Sorted' /\ Writing' /\ ConstantsReplaced'
      /\ LocationsAreConstants' <=> LocationsAreConstants
  BY <1>2, <1>3, <1>5, FirstLoop
<1>7. ASSUME LocationsAreConstants
      PROVE  /\ \A k \in 1..Len(recs) :
                  IF k < i + 1 THEN Measured(query, recs', k) ELSE recs'[k].length = -1
             /\ \A k \in (i + 1)..Len(recs) : recs[k].location > recs[i].location =>
                  LastToken + 1 <= TokenAt(query, recs[k].location)
  <2> DEFINE loc == recs[i].location
  <2>1. /\ \A k \in 1..Len(recs) :
             IF k < i THEN Measured(query, recs, k) ELSE recs[k].length = -1
    BY <1>1, <1>2, <1>7 DEF Measuring
  <2>2. /\ loc \in Locations /\ Leads(recs, i) /\ tok = TokenAt(query, loc)
        /\ LastToken = LastOf(query, loc)
    BY <1>1, <1>2, <1>7, AtConstant
  <2>3. /\ loc \in Nat /\ LastToken \in 1..Len(query.toks)
        /\ loc \in query.dashes => query.toks[LastToken].blanks = 0
        /\ tok \in 1..Len(query.toks) /\ query.toks[tok].loc = loc
    BY <1>1, <1>7, <2>2, ConstantAt
  <2>4. ConstantLength = EndOf(query, loc) - loc
    <3> DEFINE t == query.toks[LastToken]
    <3>1. t \in Token /\ EndOf(query, loc) = End(t)
      BY <1>1, <2>2, <2>3, TokensFollow DEF EndOf
    <3>2. t.loc = loc \/ ReadTo(t) = End(t)
      <4>1. CASE loc \in query.dashes
        <5>1. t.blanks = 0
          BY <2>3, <4>1
        <5> HIDE DEF t
        <5> QED BY <3>1, <5>1 DEF ReadTo, End, Token
      <4>2. CASE loc \notin query.dashes
        <5>1. LastToken = tok
          BY <1>2, <4>2 DEF LastToken
        <5> QED BY <2>3, <5>1
      <4> QED BY <4>1, <4>2
    <3>3. ConstantLength = (IF t.loc = loc THEN End(t) ELSE ReadTo(t)) - loc
      BY <1>2 DEF ConstantLength
    <3> QED BY <3>1, <3>2, <3>3
  <2>5. \A k \in 1..Len(recs) : Leads(recs', k) <=> Leads(recs, k)
    BY <1>1, <1>5, RecordTypes, SameLeads
  <2>6. Measured(query, recs', i)
    BY <1>2, <1>4, <2>2, <2>4, <2>5 DEF Measured
  <2>7. ASSUME NEW k \in 1..Len(recs), k < i PROVE Measured(query, recs', k)
    <3>1. k # i
      BY <1>1, <2>7, RecordTypes
    <3>2. recs'[k] = recs[k] /\ Measured(query, recs, k)
      BY <1>3, <2>1, <2>7, <3>1
    <3> QED BY <2>5, <3>2 DEF Measured
  <2>8. i \in Nat /\ Len(recs) \in Nat
    BY <1>1, RecordTypes
  <2>9. ASSUME NEW k \in (i + 1)..Len(recs), recs[k].location > loc
        PROVE  LastToken + 1 <= TokenAt(query, recs[k].location)
    <3>1. k \in 1..Len(recs)
      BY <1>2, <2>8
    <3>2. recs[k].location \in Locations /\ recs[k].location \in Nat
      BY <1>1, <3>1, RecordTypes
    <3>3. LastOf(query, loc) < TokenAt(query, recs[k].location)
      BY <1>1, <1>7, <2>2, <2>3, <2>9, <3>2, ConstantsApart
    <3>4. TokenAt(query, recs[k].location) \in 1..Len(query.toks)
      BY <1>1, <1>7, <3>2, ConstantAt
    <3> QED BY <2>2, <2>3, <3>3, <3>4
  <2>10. ASSUME NEW k \in 1..Len(recs)
         PROVE  IF k < i + 1 THEN Measured(query, recs', k) ELSE recs'[k].length = -1
    <3>1. CASE k < i
      BY <2>7, <2>8, <3>1
    <3>2. CASE k = i
      BY <2>6, <2>8, <3>2
    <3>3. CASE k > i
      <4>1. ~(k < i + 1) /\ ~(k < i) /\ recs'[k] = recs[k]
        BY <1>3, <2>8, <3>3
      <4> QED BY <2>1, <4>1
    <3> QED BY <2>8, <3>1, <3>2, <3>3
  <2> QED BY <2>9, <2>10
<1>8. Measuring'
  <2>1. (i + 1) - 1 = i /\ i + 1 # 1 /\ \A k \in (i + 1)..Len(recs) : k \in 1..Len(recs)
    BY <1>1, <1>2, RecordTypes
  <2>2. last_loc' = recs'[(i + 1) - 1].location
    BY <1>2, <1>4, <2>1
  <2> QED BY <1>2, <1>3, <1>5, <1>6, <1>7, <2>1, <2>2 DEF Measuring
<1> QED BY <1>6, <1>8 DEF ResultInv

\* "If we hit end-of-string, give up": not for what the parser records.
LEMMA GiveUpResult ==
  ASSUME IndInv, ResultInv, GiveUp
  PROVE  ResultInv'
<1>1. TypeOK /\ Sorted /\ Measuring
  BY DEF IndInv, ResultInv
<1>2. /\ stage = "lengths" /\ stage' = "emit" /\ query' = query /\ recs' = recs
      /\ Looking
  BY DEF GiveUp, Looking
<1>3. LocationsAreConstants' <=> LocationsAreConstants
  BY <1>2, SameConstants
<1>4. ~LocationsAreConstants
  <2> SUFFICES ASSUME LocationsAreConstants PROVE FALSE
    OBVIOUS
  <2>1. /\ Rec.location \in Locations /\ ~AtEnd
        /\ query.toks[tok].loc >= Rec.location => LastToken = LastOf(query, Rec.location)
    BY <1>1, <1>2, AtConstant
  <2>2. LastOf(query, Rec.location) <= Len(query.toks)
    BY <1>1, <2>1, ConstantAt
  <2>3. query.toks[tok].loc >= Rec.location /\ LastToken > Len(query.toks)
    BY <2>1 DEF GiveUp
  <2>4. LastOf(query, Rec.location) \in 1..Len(query.toks)
    BY <1>1, <2>1, ConstantAt
  <2> QED BY <1>1, <2>1, <2>3, <2>4, TokensFollow
<1>5. Sorted'
  BY <1>1, <1>2 DEF Sorted
<1> QED BY <1>2, <1>3, <1>4, <1>5
        DEF ResultInv, Measuring, Writing, ConstantsReplaced

\* The second loop starts with an empty result.
LEMMA LengthsDoneResult ==
  ASSUME IndInv, ResultInv, LengthsDone
  PROVE  ResultInv'
<1>1. TypeOK /\ Sorted /\ Measuring /\ Len(recs) \in Nat /\ i \in Nat
  BY RecordTypes DEF IndInv, ResultInv
<1>2. /\ stage = "lengths" /\ stage' = "emit" /\ query' = query /\ recs' = recs
      /\ i' = 1 /\ out' = out /\ quer_loc' = quer_loc /\ out = <<>> /\ quer_loc = 0
      /\ i > Len(recs)
  BY DEF LengthsDone, textVars, IndInv, WrittenBound, ResultInv, Writing
<1>3. LocationsAreConstants' <=> LocationsAreConstants
  BY <1>2, SameConstants
<1>4. Sorted' /\ ConstantsReplaced'
  BY <1>1, <1>2 DEF Sorted, ConstantsReplaced
<1>5. Measuring'
  <2>1. \A k \in 1..Len(recs) : k < i
    BY <1>1, <1>2
  <2> QED BY <1>1, <1>2, <1>3, <2>1 DEF Measuring
<1>6. Seen(recs', 1) = {} /\ IsFiniteSet({}) /\ Cardinality({}) = 0
  BY FS_EmptySet DEF Seen
<1>7. Len(out') = 0 /\ \A x \in Int : ~Copied(out', x)
  BY <1>2 DEF Copied
<1>8. Writing'
  <2>1. \A k \in 1..Len(out') : FALSE
    BY <1>7
  <2>2. InOrder(out')
    BY <2>1 DEF InOrder
  <2>3. \A x \in Int : ~(0 <= x /\ x < quer_loc')
    BY <1>2
  <2> QED BY <1>2, <1>6, <1>7, <2>1, <2>2, <2>3 DEF Writing
<1> QED BY <1>4, <1>5, <1>8 DEF ResultInv

\* In the second loop: what is written ends where the last constant did, and the
\* first record of each location is the one that fits.
LEMMA LeaderFits ==
  ASSUME IndInv, ResultInv, stage = "emit", LocationsAreConstants,
         i \in 1..Len(recs)
  PROVE  /\ Fits <=> Leads(recs, i)
         /\ quer_loc <= recs[i].location \/ ~Leads(recs, i)
<1>1. TypeOK /\ Sorted /\ Measuring /\ Len(recs) \in Nat /\ i \in Nat /\ Rec = recs[i]
  BY RecordTypes DEF IndInv, ResultInv, Rec
<1>2. Measured(query, recs, i)
  BY <1>1 DEF Measuring
<1>3. CASE ~Leads(recs, i)
  BY <1>1, <1>2, <1>3 DEF Measured, Fits
<1>4. CASE Leads(recs, i)
  <2> DEFINE loc == recs[i].location
  <2>1. /\ loc \in Nat /\ loc \in Locations
    BY <1>1, RecordTypes
  <2>2. /\ recs[i].length = EndOf(query, loc) - loc /\ EndOf(query, loc) \in Nat
        /\ loc < EndOf(query, loc) /\ EndOf(query, loc) <= query.len
    BY <1>1, <1>2, <1>4, <2>1, ConstantAt DEF Measured
  <2>3. quer_loc = last_off + last_tok_len
    BY DEF IndInv, WrittenBound
  <2>4. quer_loc <= loc
    <3>1. CASE i = 1
      BY <2>1, <3>1 DEF ResultInv, Writing
    <3>2. CASE i # 1
      <4>1. i - 1 \in 1..Len(recs) /\ i - 1 \in 1..(i - 1)
        BY <1>1, <3>2
      <4>2. recs[i - 1].location < loc
        BY <1>4, <4>1 DEF Leads
      <4>3. recs[i - 1].location \in Locations
        BY <1>1, <4>1, RecordTypes
      <4>4. EndOf(query, recs[i - 1].location) <= loc
        BY <1>1, <2>1, <4>2, <4>3, ConstantsApart
      <4> QED BY <3>2, <4>4 DEF ResultInv, Writing
    <3> QED BY <3>1, <3>2
  <2>5. query.len \in Nat
    BY <1>1, TokensFollow
  <2>6. Fits
    BY <1>1, <2>1, <2>2, <2>3, <2>4, <2>5 DEF Fits
  <2> QED BY <1>4, <2>4, <2>6
<1> QED BY <1>3, <1>4

\* One more record is seen.
LEMMA OneMoreSeen ==
  ASSUME NEW rs, NEW n \in Nat, n >= 1
  PROVE  /\ Seen(rs, n + 1) = Seen(rs, n) \union {rs[n].location}
         /\ \A k \in 1..(n - 1) : rs[k].location \in Seen(rs, n)
<1>1. 1..((n + 1) - 1) = (1..(n - 1)) \union {n}
  OBVIOUS
<1> QED BY <1>1 DEF Seen

\* What is skipped is a constant that has its symbol already.
LEMMA SkipConstantResult ==
  ASSUME IndInv, ResultInv, SkipConstant
  PROVE  ResultInv'
<1>1. TypeOK /\ Sorted /\ Measuring /\ Len(recs) \in Nat /\ i \in Nat /\ i >= 1
  BY RecordTypes DEF IndInv, ResultInv
<1>2. /\ stage = "emit" /\ stage' = "emit" /\ query' = query /\ recs' = recs
      /\ i' = i + 1 /\ out' = out /\ quer_loc' = quer_loc /\ ~Fits
      /\ i \in 1..Len(recs)
  BY <1>1 DEF SkipConstant, textVars
<1>3. LocationsAreConstants' <=> LocationsAreConstants
  BY <1>2, SameConstants
<1>4. Sorted' /\ ConstantsReplaced' /\ Measuring'
  BY <1>1, <1>2, <1>3 DEF Sorted, ConstantsReplaced, Measuring
<1>5. Writing'
  <2> SUFFICES ASSUME LocationsAreConstants
               PROVE  /\ i > 1
                      /\ recs[(i + 1) - 1].location = recs[i - 1].location
                      /\ Seen(recs, i + 1) = Seen(recs, i)
    <3>1. (i + 1) # 1 /\ (i > 1 => i # 1)
      BY <1>1
    <3> QED BY <1>2, <1>3, <3>1 DEF ResultInv, Writing
  <2>1. ~Leads(recs, i)
    BY <1>2, LeaderFits
  <2>2. i > 1 /\ recs[i - 1].location = recs[i].location
    BY <1>1, <1>2, <2>1, Follower
  <2>3. i - 1 \in 1..(i - 1) /\ (i + 1) - 1 = i
    BY <1>1, <2>2
  <2>4. recs[i].location \in Seen(recs, i)
    BY <1>1, <2>2, <2>3, OneMoreSeen
  <2>5. Seen(recs, i + 1) = Seen(recs, i)
    <3>1. Seen(recs, i + 1) = Seen(recs, i) \union {recs[i].location}
      BY <1>1, OneMoreSeen
    <3> QED BY <2>4, <3>1, Zenon
  <2> QED BY <2>2, <2>3, <2>5
<1> QED BY <1>4, <1>5 DEF ResultInv

\* A piece from where the text is written up to a later place.
LEMMA OneMorePiece ==
  ASSUME NEW ps \in Seq(Piece), NEW p \in Piece, NEW from \in Nat,
         \A k \in 1..Len(ps) : ps[k].to <= from, InOrder(ps), p.from = from,
         from <= p.to
  PROVE  /\ Len(Append(ps, p)) = Len(ps) + 1 /\ Len(ps) \in Nat
         /\ \A k \in 1..Len(ps) : Append(ps, p)[k] = ps[k]
         /\ Append(ps, p)[Len(ps) + 1] = p
         /\ InOrder(Append(ps, p))
         /\ \A x \in Int :
              Copied(Append(ps, p), x) <=> Copied(ps, x) \/ (from <= x /\ x < p.to)
<1> DEFINE o == Append(ps, p)
<1>1. /\ Len(o) = Len(ps) + 1 /\ Len(ps) \in Nat
      /\ \A k \in 1..Len(ps) : o[k] = ps[k]
      /\ o[Len(ps) + 1] = p
  OBVIOUS
<1> HIDE DEF o
<1>2. \A k \in 1..Len(o) : k \in 1..Len(ps) \/ k = Len(ps) + 1
  BY <1>1
<1>3. InOrder(o)
  <2> SUFFICES ASSUME NEW k \in 1..Len(o), NEW m \in 1..Len(o), k < m
               PROVE  o[k].to <= o[m].from
    BY DEF InOrder
  <2>1. k \in 1..Len(ps)
    BY <1>1
  <2>2. CASE m \in 1..Len(ps)
    BY <1>1, <2>1, <2>2 DEF InOrder
  <2>3. CASE m = Len(ps) + 1
    BY <1>1, <2>1, <2>3
  <2> QED BY <1>2, <2>2, <2>3
<1>4. ASSUME NEW x \in Int
      PROVE  Copied(o, x) <=> Copied(ps, x) \/ (from <= x /\ x < p.to)
  <2>1. \A k \in 1..Len(ps) : k \in 1..Len(o)
    BY <1>1
  <2>2. Len(ps) + 1 \in 1..Len(o)
    BY <1>1
  <2> QED BY <1>1, <1>2, <2>1, <2>2 DEF Copied
<1> QED BY <1>1, <1>3, <1>4 DEF o

\* One more constant is cut out, right after the text before it.
LEMMA OneMoreCut ==
  ASSUME NEW q, NEW S, NEW from \in Nat, NEW loc \in Nat, NEW end \in Nat,
         end = EndOf(q, loc), from <= loc, loc < end,
         \A l \in S : EndOf(q, l) \in Nat /\ EndOf(q, l) <= from,
         NEW x \in Int
  PROVE  /\ 0 <= x /\ x < end /\ ~Cut(q, S \union {loc}, x) <=>
              \/ 0 <= x /\ x < from /\ ~Cut(q, S, x)
              \/ from <= x /\ x < loc
<1>1. Cut(q, S \union {loc}, x) <=> Cut(q, S, x) \/ (loc <= x /\ x < end)
  BY DEF Cut
<1>2. Cut(q, S, x) => x < from
  <2> SUFFICES ASSUME NEW l \in S, x < EndOf(q, l) PROVE x < from
    BY DEF Cut
  <2>1. EndOf(q, l) \in Nat /\ EndOf(q, l) <= from
    OBVIOUS
  <2> QED BY <2>1
<1> QED BY <1>1, <1>2

\* The text before the constant, then the symbol of the record.
LEMMA ReplaceResult ==
  ASSUME IndInv, ResultInv, Replace
  PROVE  ResultInv'
<1>1. /\ TypeOK /\ Sorted /\ Measuring /\ Len(recs) \in Nat /\ i \in Nat /\ i >= 1
      /\ quer_loc \in Nat /\ out \in Seq(Piece)
  BY RecordTypes DEF IndInv, ResultInv, TypeOK
<1> DEFINE loc == recs[i].location
           piece == [from |-> quer_loc,
                     to |-> quer_loc + (Rec.location - last_off - last_tok_len),
                     param |-> Param]
<1>2. /\ stage = "emit" /\ stage' = "emit" /\ query' = query /\ recs' = recs
      /\ i' = i + 1 /\ out' = Append(out, piece) /\ Fits
      /\ quer_loc' = Rec.location + Rec.length
      /\ i \in 1..Len(recs) /\ Rec = recs[i]
  BY <1>1 DEF Replace, Rec
<1>3. LocationsAreConstants' <=> LocationsAreConstants
  BY <1>2, SameConstants
<1>4. Sorted' /\ ConstantsReplaced' /\ Measuring'
  BY <1>1, <1>2, <1>3 DEF Sorted, ConstantsReplaced, Measuring
<1>5. ASSUME LocationsAreConstants
      PROVE  /\ quer_loc' = EndOf(query, loc)
             /\ IsFiniteSet(Seen(recs, i + 1))
             /\ Len(out') = Cardinality(Seen(recs, i + 1))
             /\ \A k \in 1..Len(out') :
                  out'[k].to <= quer_loc' /\ EndsAtRecord(out'[k], recs)
             /\ InOrder(out')
             /\ \A l \in Seen(recs, i + 1) : EndOf(query, l) <= quer_loc'
             /\ \A x \in Int : Copied(out', x) <=>
                  0 <= x /\ x < quer_loc' /\ ~Cut(query, Seen(recs, i + 1), x)
  <2> DEFINE S == Seen(recs, i)
             end == EndOf(query, loc)
  <2>1. /\ quer_loc = last_off + last_tok_len
        /\ last_off \in Nat /\ last_tok_len \in Nat
    BY <1>2 DEF IndInv, WrittenBound, TypeOK
  <2>2. Leads(recs, i) /\ quer_loc <= loc
    BY <1>2, <1>5, LeaderFits
  <2>3. loc \in Nat /\ loc \in Locations /\ recs[i] \in Record
    BY <1>1, <1>2, RecordTypes
  <2>4. /\ recs[i].length = end - loc /\ end \in Nat /\ loc < end
    BY <1>1, <1>2, <1>5, <2>2, <2>3, ConstantAt DEF Measuring, Measured
  <2>5. quer_loc' = end
    BY <1>2, <2>3, <2>4
  <2>6. /\ IsFiniteSet(S) /\ Len(out) = Cardinality(S)
        /\ \A k \in 1..Len(out) : out[k].to <= quer_loc /\ EndsAtRecord(out[k], recs)
        /\ InOrder(out)
        /\ \A l \in S : EndOf(query, l) <= quer_loc
        /\ \A x \in Int : Copied(out, x) <=>
             0 <= x /\ x < quer_loc /\ ~Cut(query, S, x)
    BY <1>2, <1>5 DEF ResultInv, Writing
  <2>7. Param \in Int
    BY <1>2, <2>3, ExternAssumption, IntMaxType DEF Param, Record
  <2>8. piece.from = quer_loc /\ piece.to = loc /\ piece.param = Param
    BY <1>1, <1>2, <2>1, <2>3
  <2>9. piece \in Piece
    BY <1>1, <1>2, <2>1, <2>3, <2>7 DEF Piece
  <2> HIDE DEF piece, end, loc, S
  <2>10. /\ Len(out') = Len(out) + 1 /\ Len(out) \in Nat
         /\ \A k \in 1..Len(out) : out'[k] = out[k]
         /\ out'[Len(out) + 1] = piece
         /\ InOrder(out')
         /\ \A x \in Int :
              Copied(out', x) <=> Copied(out, x) \/ (quer_loc <= x /\ x < loc)
    BY <1>1, <1>2, <2>2, <2>6, <2>8, <2>9, OneMorePiece
  <2>11. Seen(recs, i + 1) = S \union {loc}
    BY <1>1, OneMoreSeen DEF S, loc
  <2>12. loc \notin S
    <3>1. \A m \in 1..(i - 1) : recs[m].location < loc /\ recs[m].location \in Nat
      BY <1>1, <1>2, <2>2, RecordTypes DEF Leads, loc
    <3>2. \A m \in 1..(i - 1) : recs[m].location # loc
      BY <2>3, <3>1
    <3> QED BY <3>2 DEF S, Seen
  <2>13. IsFiniteSet(S \union {loc})
         /\ Cardinality(S \union {loc}) = Cardinality(S) + 1
    BY <2>6, <2>12, FS_AddElement
  <2>14. EndsAtRecord(piece, recs)
    <3>1. piece.to = recs[i].location
          /\ piece.param = IF recs[i].param_id < 0 THEN HighestExtern - recs[i].param_id
                           ELSE recs[i].param_id
      BY <1>2, <2>8 DEF Param, loc
    <3> QED BY <1>2, <3>1 DEF EndsAtRecord
  <2>15. ASSUME NEW k \in 1..Len(out')
         PROVE  out'[k].to <= end /\ EndsAtRecord(out'[k], recs)
    <3>1. CASE k \in 1..Len(out)
      <4>1. out[k].to <= quer_loc /\ EndsAtRecord(out[k], recs) /\ out'[k] = out[k]
        BY <2>6, <2>10, <3>1
      <4>2. out[k].to \in Int
        <5>1. out[k] \in Piece
          BY <1>1, <3>1
        <5> QED BY <5>1 DEF Piece
      <4> QED BY <1>1, <2>2, <2>3, <2>4, <4>1, <4>2
    <3>2. CASE k = Len(out) + 1
      BY <2>3, <2>4, <2>8, <2>10, <2>14, <3>2
    <3> QED BY <2>10, <3>1, <3>2
  <2>16. \A l \in S : EndOf(query, l) \in Nat /\ EndOf(query, l) <= quer_loc
    <3> TAKE l \in S
    <3>1. PICK m \in 1..(i - 1) : l = recs[m].location
      BY DEF S, Seen
    <3>2. m \in 1..Len(recs)
      BY <1>1, <1>2
    <3>3. l \in Locations
      BY <1>1, <3>1, <3>2, RecordTypes
    <3> QED BY <1>1, <1>5, <2>6, <3>3, ConstantAt
  <2>17. \A l \in S \union {loc} : EndOf(query, l) <= end
    <3> TAKE l \in S \union {loc}
    <3>1. CASE l \in S
      BY <1>1, <2>2, <2>3, <2>4, <2>16, <3>1
    <3>2. CASE l = loc
      BY <2>4, <3>2 DEF end
    <3> QED BY <3>1, <3>2
  <2>18. ASSUME NEW x \in Int
         PROVE  Copied(out', x) <=> 0 <= x /\ x < end /\ ~Cut(query, S \union {loc}, x)
    <3>1. 0 <= x /\ x < end /\ ~Cut(query, S \union {loc}, x) <=>
            \/ 0 <= x /\ x < quer_loc /\ ~Cut(query, S, x)
            \/ quer_loc <= x /\ x < loc
      <4>1. end = EndOf(query, loc)
        BY DEF end
      <4> QED BY <1>1, <2>2, <2>3, <2>4, <2>16, <4>1, OneMoreCut
    <3> QED BY <2>6, <2>10, <3>1
  <2>19. Len(out') = Cardinality(S \union {loc})
    BY <2>6, <2>10, <2>13
  <2> QED BY <2>5, <2>10, <2>11, <2>13, <2>15, <2>17, <2>18, <2>19 DEF end
<1>6. Writing'
  <2>1. (i + 1) # 1 /\ (i + 1) - 1 = i
    BY <1>1
  <2> QED BY <1>2, <1>3, <1>5, <2>1 DEF Writing
<1> QED BY <1>4, <1>6 DEF ResultInv

\* What a constant covers, as bytes of the text.
LEMMA SpanBytes ==
  ASSUME TypeOK, LocationsAreConstants, NEW x \in Int
  PROVE  x \in UNION {Span(loc) : loc \in Locations} <=> Cut(query, Locations, x)
<1>1. ASSUME NEW loc \in Locations
      PROVE  x \in Span(loc) <=> loc <= x /\ x < EndOf(query, loc)
  <2>1. Span(loc) = loc..(EndOf(query, loc) - 1)
    BY DEF Span, EndOf, LastOf, TokenAt
  <2>2. loc \in Nat /\ EndOf(query, loc) \in Nat
    BY ConstantAt
  <2> QED BY <2>1, <2>2
<1>2. x \in UNION {Span(loc) : loc \in Locations} <=>
        \E loc \in Locations : x \in Span(loc)
  OBVIOUS
<1> QED BY <1>1, <1>2 DEF Cut

\* The rest of the text: the result is complete.
LEMMA FinishResult ==
  ASSUME IndInv, ResultInv, Finish
  PROVE  ResultInv'
<1>1. /\ TypeOK /\ Sorted /\ Measuring /\ Len(recs) \in Nat /\ i \in Nat /\ i >= 1
      /\ quer_loc \in Nat /\ out \in Seq(Piece) /\ query.len \in Nat
      /\ quer_loc <= query.len
  BY RecordTypes, TokensFollow DEF IndInv, ResultInv, TypeOK, Finish, WrittenBound
<1> DEFINE piece == [from |-> quer_loc, to |-> query.len, param |-> 0]
<1>2. /\ stage = "emit" /\ stage' = "done" /\ query' = query /\ recs' = recs
      /\ out' = Append(out, piece) /\ i = Len(recs) + 1
  BY <1>1 DEF Finish, IndInv, TypeOK
<1>3. /\ LocationsAreConstants' <=> LocationsAreConstants
      /\ Locations' = Locations
  BY <1>2, SameConstants
<1>4. Sorted' /\ Measuring' /\ Writing'
  BY <1>1, <1>2 DEF Sorted, Measuring, Writing
<1>5. ConstantsReplaced'
  <2> SUFFICES ASSUME LocationsAreConstants
      PROVE  /\ Len(out') = Cardinality(Locations) + 1
             /\ \A k \in 1..(Len(out') - 1) : EndsAtRecord(out'[k], recs)
             /\ UNION {out'[k].from..(out'[k].to - 1) : k \in 1..Len(out')}
                  = (0..(query.len - 1)) \ UNION {Span(loc) : loc \in Locations}
             /\ InOrder(out')
    <3>1. \A loc : Span(loc)' = Span(loc)
      BY <1>2 DEF Span
    <3> QED BY <1>2, <1>3, <3>1 DEF ConstantsReplaced, EndsAtRecord, InOrder
  <2>1. Seen(recs, i) = Locations
    <3>1. i - 1 = Len(recs)
      BY <1>1, <1>2
    <3> QED BY <3>1 DEF Seen, Locations
  <2>2. /\ Len(out) = Cardinality(Locations)
        /\ \A k \in 1..Len(out) : out[k].to <= quer_loc /\ EndsAtRecord(out[k], recs)
        /\ InOrder(out)
        /\ \A loc \in Locations : EndOf(query, loc) <= quer_loc
        /\ \A x \in Int : Copied(out, x) <=>
             0 <= x /\ x < quer_loc /\ ~Cut(query, Locations, x)
    BY <1>2, <2>1 DEF ResultInv, Writing
  <2>3. piece \in Piece /\ piece.from = quer_loc /\ piece.to = query.len
    BY <1>1 DEF Piece
  <2> HIDE DEF piece
  <2>4. /\ Len(out') = Len(out) + 1 /\ Len(out) \in Nat
        /\ \A k \in 1..Len(out) : out'[k] = out[k]
        /\ out'[Len(out) + 1] = piece
        /\ InOrder(out')
        /\ \A x \in Int :
             Copied(out', x) <=> Copied(out, x) \/ (quer_loc <= x /\ x < query.len)
    BY <1>1, <1>2, <2>2, <2>3, OneMorePiece
  <2>5. \A k \in 1..(Len(out') - 1) : EndsAtRecord(out'[k], recs)
    <3>1. Len(out') - 1 = Len(out)
      BY <2>4
    <3> QED BY <2>2, <2>4, <3>1
  <2>6. ASSUME NEW x \in Int
        PROVE  Copied(out', x) <=>
                 x \in (0..(query.len - 1)) \ UNION {Span(loc) : loc \in Locations}
    <3>1. Cut(query, Locations, x) => x < quer_loc
      <4> SUFFICES ASSUME NEW loc \in Locations, x < EndOf(query, loc)
                   PROVE  x < quer_loc
        BY DEF Cut
      <4>1. EndOf(query, loc) \in Nat /\ EndOf(query, loc) <= quer_loc
        BY <1>1, <2>2, ConstantAt
      <4> QED BY <1>1, <4>1
    <3>2. x \in UNION {Span(loc) : loc \in Locations} <=> Cut(query, Locations, x)
      BY <1>1, SpanBytes
    <3>3. x \in 0..(query.len - 1) <=> 0 <= x /\ x < query.len
      BY <1>1
    <3>4. Copied(out', x) <=> 0 <= x /\ x < query.len /\ ~Cut(query, Locations, x)
      BY <1>1, <2>2, <2>4, <3>1
    <3> QED BY <3>2, <3>3, <3>4
  <2>7. \A k \in 1..Len(out') : out'[k] \in Piece
    <3>1. \A k \in 1..Len(out) : out[k] \in Piece
      BY <1>1
    <3>2. \A k \in 1..Len(out') : k \in 1..Len(out) \/ k = Len(out) + 1
      BY <2>4
    <3> QED BY <2>3, <2>4, <3>1, <3>2
  <2>8. UNION {out'[k].from..(out'[k].to - 1) : k \in 1..Len(out')}
          = {x \in Int : Copied(out', x)}
    <3>1. \A k \in 1..Len(out') : out'[k].from \in Int /\ out'[k].to \in Int
      BY <2>7 DEF Piece
    <3>2. \A k \in 1..Len(out') : \A x :
            x \in out'[k].from..(out'[k].to - 1) <=>
              x \in Int /\ out'[k].from <= x /\ x < out'[k].to
      BY <3>1
    <3> QED BY <3>2 DEF Copied
  <2>9. {x \in Int : Copied(out', x)}
          = (0..(query.len - 1)) \ UNION {Span(loc) : loc \in Locations}
    <3>1. 0..(query.len - 1) \subseteq Int
      BY <1>1
    <3> QED BY <2>6, <3>1
  <2> QED BY <2>2, <2>4, <2>5, <2>8, <2>9
<1> QED BY <1>4, <1>5 DEF ResultInv

\* Every step of the two loops keeps the invariant.
LEMMA ResultStep ==
  ASSUME IndInv, ResultInv, [Next]_vars
  PROVE  ResultInv'
<1>1. CASE UNCHANGED vars
  <2>1. UNCHANGED <<query, recs, stage, i, tok, last_loc, quer_loc, n_quer_loc,
                    last_off, last_tok_len, out>>
    BY <1>1 DEF vars, scanVars, textVars
  <2>2. /\ LocationsAreConstants' <=> LocationsAreConstants
        /\ Locations' = Locations
    BY <2>1, SameConstants
  <2>3. \A loc : Span(loc)' = Span(loc)
    BY <2>1 DEF Span
  <2>4. ConstantsReplaced'
    BY <2>1, <2>2, <2>3 DEF ResultInv, ConstantsReplaced
  <2> QED BY <2>1, <2>2, <2>4 DEF ResultInv, Sorted, Measuring, Writing
<1> QED BY <1>1, SortResult, SkipDuplicateResult, LexPastResult, FillLengthResult,
           GiveUpResult, LengthsDoneResult, SkipConstantResult, ReplaceResult,
           FinishResult DEF Next

\* Before the records are sorted nothing is measured or written.
LEMMA InitResult ==
  ASSUME Init
  PROVE  ResultInv
<1> PICK r \in Records(query) :
      recs = [k \in 1..Len(r) |-> [location |-> r[k].location, length |-> -1,
                                   param_id |-> r[k].param_id]]
  BY DEF Init
<1>1. Len(r) \in Nat
  BY RecordsAssumption DEF Init
<1>2. Len(recs) = Len(r) /\ \A k \in 1..Len(recs) : recs[k].length = -1
  BY <1>1
<1> QED BY <1>2 DEF Init, ResultInv, Sorted, Measuring, Writing, ConstantsReplaced

\* generate_normalized_query replaces every constant that the parser has recorded,
\* once, by one of the parameters recorded for its place, and leaves the rest of
\* the text as it was: for every query, and every order and repetition of records.
THEOREM ConstantsReplacedHolds == Spec => []ConstantsReplaced
<1>1. Init => ResultInv
  BY InitResult
<1>2. IndInv /\ ResultInv /\ [Next]_vars => ResultInv'
  BY ResultStep
<1>3. ResultInv => ConstantsReplaced
  BY DEF ResultInv
<1> QED BY <1>1, <1>2, <1>3, TextInvariant, PTL DEF Spec

\* qsort loses no record: an arrangement of n records without repetition has all n.
LEMMA SortKeepsLocations ==
  ASSUME TypeOK, Sort
  PROVE  Locations' = Locations
<1> DEFINE n == Len(recs)
<1>1. n \in Nat /\ recs \in Seq(Record)
  BY RecordTypes DEF TypeOK
<1>2. PICK p \in [1..n -> 1..n] :
        /\ \A a, b \in 1..n :
             a < b => p[a] # p[b] /\ recs[p[a]].location <= recs[p[b]].location
        /\ recs' = [k \in 1..n |-> recs[p[k]]]
  BY DEF Sort
<1>3. p \in Injection(1..n, 1..n)
  <2>1. \A a, b \in 1..n : a = b \/ a < b \/ b < a
    BY <1>1
  <2>2. \A a, b \in 1..n : p[a] = p[b] => a = b
    BY <1>2, <2>1
  <2> QED BY <2>2 DEF Injection, IsInjective
<1>4. IsFiniteSet(1..n)
  BY <1>1, FS_Interval
<1>5. p \in Surjection(1..n, 1..n)
  BY <1>3, <1>4, FS_Injection
<1>6. \A m \in 1..n : \E k \in 1..n : p[k] = m
  BY <1>5 DEF Surjection
<1>7. Len(recs') = n /\ \A k \in 1..n : recs'[k] = recs[p[k]] /\ p[k] \in 1..n
  <2>1. recs' \in Seq(Record)
    BY <1>1, <1>2, RecordTypes
  <2> QED BY <1>1, <1>2, <2>1
<1> HIDE DEF n
<1>8. Locations' = {recs[p[k]].location : k \in 1..n}
  BY <1>7 DEF Locations
<1>9. Locations = {recs[m].location : m \in 1..n}
  BY DEF Locations, n
<1>10. Locations' \subseteq Locations
  BY <1>7, <1>8, <1>9
<1>11. ASSUME NEW m \in 1..n PROVE recs[m].location \in Locations'
  <2>1. PICK k \in 1..n : p[k] = m
    BY <1>6
  <2> QED BY <1>8, <2>1
<1> QED BY <1>9, <1>10, <1>11

\* fill_in_constant_lengths and generate_normalized_query lose no location that
\* const_record_walker has recorded and invent none: what ConstantsReplaced says of
\* the sorted records is said of those recorded.
THEOREM LocationsKept == Spec => [][Locations' = Locations /\ query' = query]_vars
<1>1. IndInv /\ [Next]_vars => [Locations' = Locations /\ query' = query]_vars
  <2> SUFFICES ASSUME IndInv, Next PROVE Locations' = Locations /\ query' = query
    BY DEF vars
  <2>1. TypeOK
    BY DEF IndInv
  <2>2. CASE Sort
    BY <2>1, <2>2, SortKeepsLocations DEF Sort
  <2>3. CASE FillLength
    <3>1. /\ i \in 1..Len(recs) /\ recs \in Seq(Record) /\ query' = query
          /\ recs' = [recs EXCEPT ![i] = [recs[i] EXCEPT !.length = ConstantLength]]
      BY <2>1, <2>3, RecordTypes DEF FillLength, Looking, TypeOK
    <3>2. \A k \in 1..Len(recs) : recs'[k].location = recs[k].location
      <4> DEFINE filled == [recs[i] EXCEPT !.length = ConstantLength]
      <4>1. recs[i] \in Record
        BY <2>1, <3>1, RecordTypes
      <4>2. filled.location = recs[i].location
        BY <4>1 DEF Record
      <4>3. recs' = [recs EXCEPT ![i] = filled]
        BY <3>1
      <4> HIDE DEF filled
      <4> QED BY <3>1, <4>2, <4>3
    <3>3. Len(recs') = Len(recs)
      BY <3>1
    <3> QED BY <3>1, <3>2, <3>3, SameConstants
  <2>4. ASSUME UNCHANGED <<query, recs>> PROVE Locations' = Locations /\ query' = query
    BY <2>4 DEF Locations
  <2>5. SkipDuplicate \/ LexPast \/ GiveUp \/ LengthsDone \/ SkipConstant \/ Replace
          \/ Finish => UNCHANGED <<query, recs>>
    BY DEF SkipDuplicate, LexPast, GiveUp, LengthsDone, SkipConstant, Replace, Finish
  <2> QED BY <2>2, <2>3, <2>4, <2>5 DEF Next
<1> QED BY <1>1, TextInvariant, PTL DEF Spec
=============================================================================
