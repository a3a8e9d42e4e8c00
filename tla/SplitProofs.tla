---------------------------- MODULE SplitProofs ----------------------------
(***************************************************************************)
(* Proofs about Split, for every set of inputs: the two passes of          *)
(* pg_query_split_with_scanner agree, and what they find are the           *)
(* statements of the input as Split defines them without scanning.         *)
(***************************************************************************)
EXTENDS Split, FiniteSetTheorems, SequenceTheorems, TLAPS

-----------------------------------------------------------------------------
(* One more token: how the definitions about a prefix of the input grow. *)

LEMMA InputType ==
  ASSUME NEW q \in Inputs
  PROVE  /\ Len(q) \in Nat /\ Len(q) < Wrap
         /\ \A i \in 1..Len(q) : q[i] \in Tokens
  BY InputsAssumption

LEMMA CountStep ==
  ASSUME NEW q \in Inputs, NEW t, NEW i \in 1..(Len(q) + 1)
  PROVE  /\ Count(q, t, i) \in 0..(i - 1)
         /\ Count(q, t, i + 1)
              = IF Tok(q, i) = t THEN Count(q, t, i) + 1 ELSE Count(q, t, i)
  <1> DEFINE S == {k \in 1..(i - 1) : Tok(q, k) = t}
             T == {k \in 1..(i + 1 - 1) : Tok(q, k) = t}
  <1>0. i \in Nat /\ i >= 1
    BY InputType
  <1>1. IsFiniteSet(1..(i - 1)) /\ Cardinality(1..(i - 1)) = i - 1
    BY <1>0, FS_Interval
  <1>2. IsFiniteSet(S) /\ Cardinality(S) <= i - 1
    BY <1>1, FS_Subset
  <1>3. Cardinality(S) \in Nat
    BY <1>2, FS_CardinalityType
  <1>4. T = IF Tok(q, i) = t THEN S \union {i} ELSE S
    BY <1>0
  <1>5. i \notin S
    BY <1>0
  <1>6. Cardinality(S \union {i}) = Cardinality(S) + 1
    BY <1>2, <1>5, FS_AddElement
  <1>7. Count(q, t, i) = Cardinality(S) /\ Count(q, t, i + 1) = Cardinality(T)
    BY DEF Count
  <1> HIDE DEF S, T
  <1> QED
    BY <1>0, <1>2, <1>3, <1>4, <1>6, <1>7

LEMMA DepthStep ==
  ASSUME NEW q \in Inputs, NEW i \in 1..(Len(q) + 1)
  PROVE  /\ Depth(q, i) \in (1 - i)..(i - 1)
         /\ Depth(q, i + 1) = IF Tok(q, i) = "(" THEN Depth(q, i) + 1
                              ELSE IF Tok(q, i) = ")" THEN Depth(q, i) - 1
                              ELSE Depth(q, i)
  BY InputType, CountStep DEF Depth

LEMMA DepthInit ==
  ASSUME NEW q \in Inputs
  PROVE  Depth(q, 1) = 0
  <1>1. 1 \in 1..(Len(q) + 1)
    BY InputType
  <1> QED
    BY <1>1, DepthStep

LEMMA PendingStep ==
  ASSUME NEW q \in Inputs, NEW i \in 1..(Len(q) + 1)
  PROVE  KeywordPending(q, i + 1)
           <=> \/ Tok(q, i) = "keyword"
               \/ KeywordPending(q, i) /\ ~Boundary(q, i)
  <1>0. i \in Nat /\ i >= 1
    BY InputType
  <1>1. ASSUME KeywordPending(q, i + 1)
        PROVE  Tok(q, i) = "keyword" \/ (KeywordPending(q, i) /\ ~Boundary(q, i))
    <2>1. PICK k \in 1..i : /\ Tok(q, k) = "keyword"
                            /\ \A m \in k..i : ~Boundary(q, m)
      BY <1>0, <1>1 DEF KeywordPending
    <2> QED
      BY <1>0, <2>1 DEF KeywordPending
  <1>2. ASSUME Tok(q, i) = "keyword" PROVE KeywordPending(q, i + 1)
    <2>1. ~Boundary(q, i)
      BY <1>2 DEF Boundary
    <2> QED
      BY <1>0, <1>2, <2>1 DEF KeywordPending
  <1>3. ASSUME KeywordPending(q, i), ~Boundary(q, i)
        PROVE  KeywordPending(q, i + 1)
    <2>1. PICK k \in 1..(i - 1) : /\ Tok(q, k) = "keyword"
                                  /\ \A m \in k..(i - 1) : ~Boundary(q, m)
      BY <1>3 DEF KeywordPending
    <2>2. \A m \in k..i : ~Boundary(q, m)
      BY <1>0, <1>3, <2>1
    <2> QED
      BY <1>0, <2>1, <2>2 DEF KeywordPending
  <1> QED
    BY <1>1, <1>2, <1>3

LEMMA EndsStep ==
  ASSUME NEW q \in Inputs, NEW i \in 1..(Len(q) + 1)
  PROVE  /\ EndsBefore(q, i + 1) = IF Ends(q, i) THEN EndsBefore(q, i) \union {i}
                                   ELSE EndsBefore(q, i)
         /\ IsFiniteSet(EndsBefore(q, i))
         /\ Cardinality(EndsBefore(q, i)) \in Nat
         /\ Cardinality(EndsBefore(q, i + 1))
              = IF Ends(q, i) THEN Cardinality(EndsBefore(q, i)) + 1
                ELSE Cardinality(EndsBefore(q, i))
  <1>0. i \in Nat /\ i >= 1
    BY InputType
  <1>1. EndsBefore(q, i + 1) = IF Ends(q, i) THEN EndsBefore(q, i) \union {i}
                               ELSE EndsBefore(q, i)
    BY <1>0 DEF EndsBefore
  <1>2. IsFiniteSet(EndsBefore(q, i))
    <2>1. IsFiniteSet(1..(i - 1))
      BY <1>0, FS_Interval
    <2> QED
      BY <2>1, FS_Subset DEF EndsBefore
  <1>3. i \notin EndsBefore(q, i)
    BY <1>0 DEF EndsBefore
  <1> QED
    BY <1>1, <1>2, <1>3, FS_AddElement, FS_CardinalityType

\* The statements of a prefix are no more than those of the whole input.
LEMMA EndsMonotone ==
  ASSUME NEW q \in Inputs, NEW i \in 1..(Len(q) + 2)
  PROVE  Cardinality(EndsBefore(q, i)) <= Cardinality(EndsBefore(q, Len(q) + 2))
  <1> DEFINE n == Len(q) + 2
  <1>0. i \in Nat /\ i >= 1 /\ n \in Nat /\ i <= n
    BY InputType
  <1>1. IsFiniteSet(1..(n - 1))
    BY <1>0, FS_Interval
  <1>2. IsFiniteSet(EndsBefore(q, n))
    BY <1>1, FS_Subset DEF EndsBefore
  <1>3. EndsBefore(q, i) \subseteq EndsBefore(q, n)
    BY <1>0 DEF EndsBefore
  <1> QED
    BY <1>2, <1>3, FS_Subset

LEMMA EndsInit ==
  ASSUME NEW q \in Inputs
  PROVE  EndsBefore(q, 1) = {} /\ Cardinality(EndsBefore(q, 1)) = 0
  BY FS_EmptySet DEF EndsBefore

LEMMA StartStep ==
  ASSUME NEW q \in Inputs, NEW i \in 1..(Len(q) + 1), NEW s, IsStart(q, s, i)
  PROVE  IsStart(q, IF Boundary(q, i) THEN Loc(i) + 1 ELSE s, i + 1)
  <1>0. i \in Nat /\ i >= 1
    BY InputType
  <1>1. CASE Boundary(q, i)
    BY <1>0, <1>1 DEF IsStart
  <1>2. CASE ~Boundary(q, i) /\ s = 0 /\ \A m \in 1..(i - 1) : ~Boundary(q, m)
    BY <1>0, <1>2 DEF IsStart
  <1>3. ASSUME ~Boundary(q, i),
               NEW b \in 1..(i - 1), Boundary(q, b), s = Loc(b) + 1,
               \A m \in (b + 1)..(i - 1) : ~Boundary(q, m)
        PROVE  IsStart(q, s, i + 1)
    <2>1. \A m \in (b + 1)..i : ~Boundary(q, m)
      BY <1>0, <1>3
    <2> QED
      BY <1>0, <1>3, <2>1 DEF IsStart
  <1> QED
    BY <1>1, <1>2, <1>3 DEF IsStart

\* A statement starts before every token that no boundary separates from its end.
LEMMA StartBefore ==
  ASSUME NEW q \in Inputs, NEW i \in 1..(Len(q) + 1), NEW s, IsStart(q, s, i),
         NEW k \in 1..i, \A m \in k..(i - 1) : ~Boundary(q, m)
  PROVE  s \in Nat /\ s <= Loc(k)
  <1>0. Len(q) \in Nat
    BY InputType
  <1>1. Loc(k) \in Nat
    BY <1>0, LocAssumption
  <1>2. ASSUME NEW b \in 1..(i - 1), Boundary(q, b), s = Loc(b) + 1
        PROVE  s \in Nat /\ s <= Loc(k)
    <2>1. b < k
      BY <1>0, <1>2
    <2>2. Loc(b) \in Nat /\ Loc(b) < Loc(k)
      BY <1>0, <2>1, LocAssumption
    <2> QED
      BY <1>1, <1>2, <2>2
  <1> QED
    BY <1>1, <1>2 DEF IsStart

-----------------------------------------------------------------------------
(* What the code computes for the token at hand. *)

LEMMA AtToken ==
  ASSUME TypeOK
  PROVE  /\ input \in Inputs /\ Len(input) \in Nat /\ pos \in 1..(Len(input) + 1)
         /\ Tok(input, pos) = "eof" <=> pos = Len(input) + 1
  <1>1. input \in Inputs /\ pos \in 1..(Len(input) + 1)
    BY DEF TypeOK
  <1>2. Len(input) \in Nat /\ \A i \in 1..Len(input) : input[i] \in Tokens
    BY <1>1, InputType
  <1>3. "eof" \notin Tokens
    BY DEF Tokens
  <1> QED
    BY <1>1, <1>2, <1>3 DEF Tok

LEMMA TerminatorIsBoundary ==
  ASSUME TypeOK, ScanMatches, phase \in {"count", "fill"}
  PROVE  /\ Terminates(Tok(input, pos)) <=> Ends(input, pos)
         /\ open_parens = 0 /\ Tok(input, pos) \in {";", "eof"}
              <=> Boundary(input, pos)
  <1>1. Depth(input, pos) \in (1 - pos)..(pos - 1)
    BY AtToken, DepthStep
  <1>2. open_parens = 0 <=> Depth(input, pos) = 0
    BY <1>1, AtToken, InputType, WrapAssumption DEF ScanMatches, TypeOK
  <1>3. keyword_before_terminator <=> KeywordPending(input, pos)
    BY DEF ScanMatches
  <1>4. open_parens = 0 /\ Tok(input, pos) \in {";", "eof"}
          <=> Boundary(input, pos)
    BY <1>2 DEF Boundary
  <1> QED
    BY <1>3, <1>4 DEF Terminates, Ends

LEMMA ScanStep ==
  ASSUME TypeOK, ScanMatches, phase \in {"count", "fill"}
  PROVE  /\ KeywordAfter(Tok(input, pos)) \in BOOLEAN
         /\ KeywordAfter(Tok(input, pos)) <=> KeywordPending(input, pos + 1)
         /\ ParensAfter(Tok(input, pos)) \in 0..(Wrap - 1)
         /\ pos <= Len(input) =>
              \/ ParensAfter(Tok(input, pos)) = Depth(input, pos + 1)
              \/ ParensAfter(Tok(input, pos)) = Depth(input, pos + 1) + Wrap
  <1>1. KeywordAfter(Tok(input, pos)) \in BOOLEAN
    BY DEF KeywordAfter, TypeOK, Terminates
  <1>2. KeywordAfter(Tok(input, pos)) <=> KeywordPending(input, pos + 1)
    <2>1. Terminates(Tok(input, pos)) <=> Ends(input, pos)
      BY TerminatorIsBoundary
    <2>2. keyword_before_terminator <=> KeywordPending(input, pos)
      BY DEF ScanMatches
    <2>3. KeywordPending(input, pos + 1)
            <=> \/ Tok(input, pos) = "keyword"
                \/ KeywordPending(input, pos) /\ ~Boundary(input, pos)
      BY AtToken, PendingStep
    <2> QED
      BY <2>1, <2>2, <2>3 DEF KeywordAfter, Ends
  <1>3. open_parens \in 0..(Wrap - 1) /\ Wrap \in Nat /\ Wrap > 1
    BY WrapAssumption DEF TypeOK
  <1>4. ParensAfter(Tok(input, pos)) \in 0..(Wrap - 1)
    BY <1>3 DEF ParensAfter
  <1>5. ASSUME pos <= Len(input)
        PROVE  \/ ParensAfter(Tok(input, pos)) = Depth(input, pos + 1)
               \/ ParensAfter(Tok(input, pos)) = Depth(input, pos + 1) + Wrap
    <2>1. pos \in 1..Len(input) /\ Len(input) \in Nat /\ Len(input) < Wrap
      BY <1>5, AtToken, InputType
    <2>2. Depth(input, pos) \in (1 - pos)..(pos - 1)
      BY AtToken, DepthStep
    <2>3. Depth(input, pos + 1)
            = IF Tok(input, pos) = "(" THEN Depth(input, pos) + 1
              ELSE IF Tok(input, pos) = ")" THEN Depth(input, pos) - 1
              ELSE Depth(input, pos)
      BY AtToken, DepthStep
    <2>4. \/ open_parens = Depth(input, pos)
          \/ open_parens = Depth(input, pos) + Wrap
      BY DEF ScanMatches
    <2> QED
      BY <1>3, <2>1, <2>2, <2>3, <2>4 DEF ParensAfter
  <1> QED
    BY <1>1, <1>2, <1>4, <1>5

\* Reading one token in the second pass, the last one included.
LEMMA FillStep ==
  ASSUME IndInv, phase = "fill", UNCHANGED input,
         stmts' = IF Terminates(Tok(input, pos)) THEN Append(stmts, Stmt)
                  ELSE stmts
  PROVE  /\ stmts' \in Seq([location : Nat, len : Int])
         /\ Len(stmts') = Cardinality(EndsBefore(input, pos + 1))
         /\ \A i \in EndsBefore(input, pos + 1) :
              \E s \in 1..Len(stmts') : IsStmt(input, stmts'[s], i)
         /\ StatementsInOrder'
         /\ \A i \in 1..pos : Tok(input, i) = "keyword" =>
              Covered(stmts', i) \/ \A m \in i..pos : ~Boundary(input, m)
         /\ stmts' # stmts =>
              /\ stmts' # <<>>
              /\ stmts'[Len(stmts')].location + stmts'[Len(stmts')].len = Loc(pos)
  <1> DEFINE R == [location : Nat, len : Int]
  <1>0. /\ input \in Inputs /\ Len(input) \in Nat /\ pos \in 1..(Len(input) + 1)
        /\ stmts \in Seq(R) /\ Len(stmts) \in Nat /\ stmtstart \in Nat
        /\ Loc(pos) \in Nat
    <2>1. TypeOK
      BY DEF IndInv
    <2>2. input \in Inputs /\ Len(input) \in Nat /\ pos \in 1..(Len(input) + 1)
      BY <2>1, AtToken
    <2>3. stmts \in Seq(R) /\ stmtstart \in Nat
      BY <2>1 DEF TypeOK
    <2>4. Len(stmts) \in Nat
      BY <2>3, LenProperties
    <2>5. Loc(pos) \in Nat
      BY <2>2, LocAssumption
    <2> QED
      BY <2>2, <2>3, <2>4, <2>5
  <1>1. /\ Len(stmts) = Cardinality(EndsBefore(input, pos))
        /\ \A i \in EndsBefore(input, pos) :
             \E s \in 1..Len(stmts) : IsStmt(input, stmts[s], i)
    BY DEF IndInv, FillMatches, Scanned
  <1>2. /\ IsStart(input, stmtstart, pos)
        /\ stmts # <<>> =>
             stmts[Len(stmts)].location + stmts[Len(stmts)].len < stmtstart
    BY DEF IndInv, StartMatches
  <1>3. Terminates(Tok(input, pos)) <=> Ends(input, pos)
    BY TerminatorIsBoundary DEF IndInv
  <1>4. \A i \in 1..Len(input) : i < pos /\ Tok(input, i) = "keyword" =>
          Covered(stmts, i) \/ \A m \in i..(pos - 1) : ~Boundary(input, m)
    BY DEF IndInv, CoverMatches, Scanned
  <1>5. StatementsInOrder
    BY DEF IndInv
  <1>6. CASE Ends(input, pos)
    <2>1. stmts' = Append(stmts, Stmt)
      BY <1>3, <1>6
    <2>2. Stmt \in R /\ Stmt.location = stmtstart /\ Stmt.len = Loc(pos) - stmtstart
      BY <1>0 DEF Stmt
    <2>3. /\ stmts' \in Seq(R) /\ Len(stmts') = Len(stmts) + 1 /\ stmts' # <<>>
          /\ \A s \in 1..Len(stmts) : stmts'[s] = stmts[s]
          /\ stmts'[Len(stmts) + 1] = Stmt
      <3> HIDE DEF R
      <3>1. /\ Append(stmts, Stmt) \in Seq(R)
            /\ Append(stmts, Stmt) # <<>>
            /\ Len(Append(stmts, Stmt)) = Len(stmts) + 1
            /\ \A s \in 1..Len(stmts) : Append(stmts, Stmt)[s] = stmts[s]
            /\ Append(stmts, Stmt)[Len(stmts) + 1] = Stmt
        BY <1>0, <2>2, AppendProperties, Zenon
      <3> QED
        BY <2>1, <3>1, Zenon
    <2>4. Len(stmts') = Cardinality(EndsBefore(input, pos + 1))
      BY <1>0, <1>1, <1>6, <2>3, EndsStep
    <2>5. \A i \in EndsBefore(input, pos + 1) :
            \E s \in 1..Len(stmts') : IsStmt(input, stmts'[s], i)
      <3> SUFFICES ASSUME NEW i \in EndsBefore(input, pos + 1)
                   PROVE  \E s \in 1..Len(stmts') : IsStmt(input, stmts'[s], i)
        OBVIOUS
      <3>1. CASE i = pos
        <4>1. IsStmt(input, Stmt, pos)
          BY <1>0, <1>2, <2>2 DEF IsStmt
        <4>2. Len(stmts) + 1 \in 1..Len(stmts')
          BY <1>0, <2>3
        <4>3. IsStmt(input, stmts'[Len(stmts) + 1], i)
          BY <2>3, <3>1, <4>1
        <4> QED
          BY <4>2, <4>3
      <3>2. CASE i \in EndsBefore(input, pos)
        <4>1. PICK s \in 1..Len(stmts) : IsStmt(input, stmts[s], i)
          BY <1>1, <3>2
        <4>2. s \in 1..Len(stmts')
          BY <1>0, <2>3
        <4> QED
          BY <2>3, <4>1, <4>2
      <3> QED
        BY <1>0, <1>6, <3>1, <3>2, EndsStep
    <2>6. stmtstart < Loc(pos)
      <3>1. PICK k \in 1..(pos - 1) : /\ Tok(input, k) = "keyword"
                                      /\ \A m \in k..(pos - 1) : ~Boundary(input, m)
        BY <1>6 DEF Ends, KeywordPending
      <3>2. stmtstart <= Loc(k)
        BY <1>0, <1>2, <3>1, StartBefore
      <3>3. Loc(k) \in Nat /\ Loc(k) < Loc(pos)
        BY <1>0, LocAssumption
      <3> QED
        BY <1>0, <3>2, <3>3
    <2>7. StatementsInOrder'
      <3> SUFFICES ASSUME NEW s \in 1..Len(stmts')
                   PROVE  /\ stmts'[s].len > 0
                          /\ s > 1 => stmts'[s - 1].location + stmts'[s - 1].len
                                        < stmts'[s].location
        BY DEF StatementsInOrder
      <3>1. CASE s \in 1..Len(stmts)
        <4>1. s > 1 => s - 1 \in 1..Len(stmts)
          BY <1>0, <3>1
        <4> QED
          BY <1>5, <2>3, <3>1, <4>1 DEF StatementsInOrder
      <3>2. CASE s = Len(stmts) + 1
        <4>1. stmts'[s].len > 0
          BY <1>0, <2>2, <2>3, <2>6, <3>2
        <4>2. ASSUME s > 1
              PROVE  stmts'[s - 1].location + stmts'[s - 1].len < stmts'[s].location
          <5>1. s - 1 = Len(stmts) /\ Len(stmts) \in 1..Len(stmts) /\ stmts # <<>>
            BY <1>0, <3>2, <4>2, EmptySeq
          <5> QED
            BY <1>2, <2>2, <2>3, <3>2, <5>1
        <4> QED
          BY <4>1, <4>2
      <3> QED
        BY <1>0, <2>3, <3>1, <3>2
    <2>8. ASSUME NEW i \in 1..pos, Tok(input, i) = "keyword"
          PROVE  Covered(stmts', i)
      <3>1. i < pos /\ i \in 1..Len(input)
        <4>1. Tok(input, pos) # "keyword"
          BY <1>6 DEF Ends, Boundary
        <4> QED
          BY <1>0, <2>8, <4>1
      <3>2. CASE Covered(stmts, i)
        BY <1>0, <2>3, <3>2 DEF Covered
      <3>3. CASE \A m \in i..(pos - 1) : ~Boundary(input, m)
        <4>1. stmtstart <= Loc(i)
          BY <1>0, <1>2, <3>3, StartBefore
        <4>2. Loc(i) \in Nat /\ Loc(i) < Loc(pos)
          BY <1>0, <3>1, LocAssumption
        <4>3. Len(stmts) + 1 \in 1..Len(stmts')
          BY <1>0, <2>3
        <4>4. /\ stmts'[Len(stmts) + 1].location <= Loc(i)
              /\ Loc(i) < stmts'[Len(stmts) + 1].location
                            + stmts'[Len(stmts) + 1].len
          BY <1>0, <2>2, <2>3, <4>1, <4>2
        <4> QED
          BY <4>3, <4>4 DEF Covered
      <3> QED
        BY <1>4, <2>8, <3>1, <3>2, <3>3
    <2>9. stmts'[Len(stmts')].location + stmts'[Len(stmts')].len = Loc(pos)
      BY <1>0, <2>2, <2>3
    <2> QED
      BY <2>3, <2>4, <2>5, <2>7, <2>8, <2>9
  <1>7. CASE ~Ends(input, pos)
    <2>1. stmts' = stmts
      BY <1>3, <1>7
    <2>2. EndsBefore(input, pos + 1) = EndsBefore(input, pos)
      BY <1>0, <1>7, EndsStep
    <2>3. StatementsInOrder'
      BY <1>5, <2>1 DEF StatementsInOrder
    <2>4. ASSUME NEW i \in 1..pos, Tok(input, i) = "keyword"
          PROVE  Covered(stmts', i) \/ \A m \in i..pos : ~Boundary(input, m)
      <3>1. CASE i = pos
        <4>1. ~Boundary(input, pos)
          BY <2>4, <3>1 DEF Boundary
        <4> QED
          BY <1>0, <3>1, <4>1
      <3>2. CASE i < pos
        <4>1. i \in 1..Len(input)
          BY <1>0, <3>2
        <4>2. CASE Covered(stmts, i)
          BY <2>1, <4>2 DEF Covered
        <4>3. CASE \A m \in i..(pos - 1) : ~Boundary(input, m)
          <5>1. KeywordPending(input, pos)
            BY <1>0, <2>4, <3>2, <4>3 DEF KeywordPending
          <5>2. ~Boundary(input, pos)
            BY <1>7, <5>1 DEF Ends
          <5>3. \A m \in i..pos : m \in i..(pos - 1) \/ m = pos
            BY <1>0
          <5>4. \A m \in i..pos : ~Boundary(input, m)
            BY <4>3, <5>2, <5>3
          <5> QED
            BY <5>4
        <4> QED
          BY <1>4, <2>4, <3>2, <4>1, <4>2, <4>3
      <3> QED
        BY <1>0, <3>1, <3>2
    <2> QED
      BY <1>0, <1>1, <2>1, <2>2, <2>3, <2>4
  <1> QED
    BY <1>6, <1>7

-----------------------------------------------------------------------------
(* The invariant. *)

LEMMA InvInit == Init => IndInv
  <1> SUFFICES ASSUME Init PROVE IndInv
    OBVIOUS
  <1> USE DEF Init
  <1>1. TypeOK
    <2>1. 1 \in 1..(Len(input) + 1) /\ 0 \in 0..(Wrap - 1)
      BY InputType, WrapAssumption
    <2>2. <<>> \in Seq([location : Nat, len : Int])
      BY EmptySeq
    <2> QED
      BY <2>1, <2>2 DEF TypeOK
  <1>2. ScanMatches
    <2>1. ~KeywordPending(input, 1)
      BY DEF KeywordPending
    <2> QED
      BY <2>1, DepthInit DEF ScanMatches
  <1>3. CountMatches
    BY EndsInit DEF CountMatches
  <1>4. StatementsInOrder
    BY DEF StatementsInOrder
  <1> QED
    BY <1>1, <1>2, <1>3, <1>4
       DEF IndInv, FillMatches, StartMatches, CoverMatches, ErrorMatches,
           NoneBadSoFar

LEMMA InvCountToken == IndInv /\ CountToken => IndInv'
  <1> SUFFICES ASSUME IndInv, CountToken PROVE IndInv'
    OBVIOUS
  <1>0. /\ TypeOK /\ ScanMatches /\ CountMatches /\ StatementsInOrder
        /\ phase = "count" /\ phase' = "count" /\ input' = input
        /\ pos' = pos + 1 /\ stmts' = stmts /\ stmtstart' = stmtstart
    BY DEF IndInv, CountToken
  <1>1. /\ input \in Inputs /\ Len(input) \in Nat /\ pos \in 1..Len(input)
        /\ Tok(input, pos) # "bad"
    BY <1>0, AtToken DEF CountToken
  <1>2. ScanMatches'
    BY <1>0, <1>1, ScanStep DEF ScanMatches, CountToken
  <1>3. CountMatches'
    <2>1. n_stmts' = IF Ends(input, pos) THEN n_stmts + 1 ELSE n_stmts
      BY <1>0, TerminatorIsBoundary DEF CountToken
    <2>2. pos \in 1..(Len(input) + 1)
      BY <1>1
    <2>3. Cardinality(EndsBefore(input, pos + 1))
            = IF Ends(input, pos) THEN Cardinality(EndsBefore(input, pos)) + 1
              ELSE Cardinality(EndsBefore(input, pos))
      BY <1>1, <2>2, EndsStep
    <2> QED
      BY <1>0, <2>1, <2>3 DEF CountMatches
  <1>4. TypeOK'
    <2>1. n_stmts' \in Nat
      BY <1>0 DEF CountToken, TypeOK
    <2>2. pos' \in 1..(Len(input') + 1)
      BY <1>0, <1>1
    <2>3. keyword_before_terminator' \in BOOLEAN
      BY <1>0, ScanStep DEF CountToken
    <2>4. open_parens' \in 0..(Wrap - 1)
      BY <1>0, ScanStep DEF CountToken
    <2> QED
      BY <1>0, <2>1, <2>2, <2>3, <2>4 DEF TypeOK
  <1>5. NoneBadSoFar'
    BY <1>0, <1>1 DEF IndInv, NoneBadSoFar, Tok
  <1>6. StatementsInOrder'
    BY <1>0 DEF StatementsInOrder
  <1> QED
    BY <1>0, <1>2, <1>3, <1>4, <1>5, <1>6
       DEF IndInv, FillMatches, StartMatches, CoverMatches, ErrorMatches

LEMMA InvCountEnd == IndInv /\ CountEnd => IndInv'
  <1> SUFFICES ASSUME IndInv, CountEnd PROVE IndInv'
    OBVIOUS
  <1>0. /\ TypeOK /\ ScanMatches /\ CountMatches /\ StatementsInOrder
        /\ phase = "count" /\ phase' = "fill" /\ input' = input
        /\ pos' = 1 /\ stmts' = <<>> /\ stmtstart' = 0
        /\ keyword_before_terminator' = FALSE /\ open_parens' = 0
        /\ Tok(input, pos) = "eof"
    BY DEF IndInv, CountEnd, CountMatches
  <1>1. input \in Inputs /\ Len(input) \in Nat /\ pos = Len(input) + 1
    BY <1>0, AtToken
  <1>2. ScanMatches'
    <2>1. ~KeywordPending(input, 1)
      BY DEF KeywordPending
    <2> QED
      BY <1>0, <1>1, <2>1, DepthInit DEF ScanMatches
  <1>3. FillMatches'
    <2>1. \A i \in 1..Len(input) : input[i] # "bad"
      BY <1>0, <1>1 DEF IndInv, NoneBadSoFar
    <2>2. n_stmts' = IF Ends(input, pos) THEN n_stmts + 1 ELSE n_stmts
      BY <1>0, TerminatorIsBoundary DEF CountEnd
    <2>3. n_stmts' = Cardinality(EndsBefore(input, pos + 1))
      BY <1>0, <1>1, <2>2, EndsStep, AtToken DEF CountMatches
    <2>4. pos + 1 = Len(input) + 2
      BY <1>1
    <2>5. /\ EndsBefore(input, 1) = {} /\ Cardinality(EndsBefore(input, 1)) = 0
          /\ Scanned' = 1
      BY <1>0, <1>1, EndsInit DEF Scanned
    <2> QED
      BY <1>0, <2>1, <2>3, <2>4, <2>5 DEF FillMatches
  <1>4. TypeOK'
    <2>1. n_stmts' \in Nat
      BY <1>0 DEF CountEnd, TypeOK
    <2>2. pos' \in 1..(Len(input') + 1) /\ open_parens' \in 0..(Wrap - 1)
      BY <1>0, <1>1, WrapAssumption
    <2>3. stmts' \in Seq([location : Nat, len : Int])
      BY <1>0, EmptySeq
    <2> QED
      BY <1>0, <1>1, <2>1, <2>2, <2>3 DEF TypeOK
  <1>5. StartMatches'
    BY <1>0 DEF StartMatches, IsStart
  <1>6. CoverMatches'
    BY <1>0 DEF CoverMatches, Scanned
  <1>7. StatementsInOrder'
    BY <1>0 DEF StatementsInOrder
  <1> QED
    BY <1>0, <1>2, <1>3, <1>4, <1>5, <1>6, <1>7
       DEF IndInv, CountMatches, ErrorMatches, NoneBadSoFar

LEMMA InvFillToken == IndInv /\ FillToken => IndInv'
  <1> SUFFICES ASSUME IndInv, FillToken PROVE IndInv'
    OBVIOUS
  <1>0. /\ TypeOK /\ ScanMatches
        /\ phase = "fill" /\ phase' = "fill" /\ input' = input
        /\ pos' = pos + 1 /\ n_stmts' = n_stmts
        /\ stmtstart' = StartAfter(Tok(input, pos))
        /\ stmts' = IF Terminates(Tok(input, pos)) THEN Append(stmts, Stmt)
                    ELSE stmts
    BY DEF IndInv, FillToken
  <1>1. /\ input \in Inputs /\ Len(input) \in Nat /\ pos \in 1..Len(input)
        /\ pos \in 1..(Len(input) + 1) /\ Tok(input, pos) # "eof"
        /\ Loc(pos) \in Nat
    <2>1. input \in Inputs /\ Len(input) \in Nat /\ pos \in 1..Len(input)
      BY <1>0, AtToken DEF FillToken
    <2> QED
      BY <2>1, LocAssumption DEF FillToken
  <1>2. /\ stmts' \in Seq([location : Nat, len : Int])
        /\ Len(stmts') = Cardinality(EndsBefore(input, pos + 1))
        /\ \A i \in EndsBefore(input, pos + 1) :
             \E s \in 1..Len(stmts') : IsStmt(input, stmts'[s], i)
        /\ StatementsInOrder'
        /\ \A i \in 1..pos : Tok(input, i) = "keyword" =>
             Covered(stmts', i) \/ \A m \in i..pos : ~Boundary(input, m)
        /\ stmts' # stmts =>
             /\ stmts' # <<>>
             /\ stmts'[Len(stmts')].location + stmts'[Len(stmts')].len = Loc(pos)
    BY <1>0, FillStep
  <1>3. ScanMatches'
    BY <1>0, <1>1, ScanStep DEF ScanMatches, FillToken
  <1>4. FillMatches'
    BY <1>0, <1>2 DEF IndInv, FillMatches, Scanned
  <1>5. CoverMatches'
    <2>1. Scanned' = pos + 1 /\ Scanned' - 1 = pos
      BY <1>0, <1>1 DEF Scanned
    <2>2. \A i \in 1..Len(input) : i < Scanned' => i \in 1..pos
      BY <1>1, <2>1
    <2>3. \A i \in 1..Len(input) :
            i < Scanned' /\ Tok(input, i) = "keyword" =>
              Covered(stmts', i) \/ \A m \in i..(Scanned' - 1) : ~Boundary(input, m)
      BY <1>2, <2>1, <2>2
    <2> QED
      BY <1>0, <2>3 DEF CoverMatches
  <1>6. stmtstart' = IF Boundary(input, pos) THEN Loc(pos) + 1 ELSE stmtstart
    <2>1. /\ Terminates(Tok(input, pos)) <=> Ends(input, pos)
          /\ open_parens = 0 /\ Tok(input, pos) \in {";", "eof"}
               <=> Boundary(input, pos)
      BY <1>0, TerminatorIsBoundary
    <2> QED
      BY <1>0, <1>1, <2>1 DEF StartAfter, Ends
  <1>7. IsStart(input, stmtstart, pos) /\ stmtstart \in Nat
    BY <1>0 DEF IndInv, StartMatches, TypeOK
  <1>8. StartMatches'
    <2>1. IsStart(input, stmtstart', pos + 1)
      <3>1. IsStart(input, IF Boundary(input, pos) THEN Loc(pos) + 1
                           ELSE stmtstart, pos + 1)
        BY <1>1, <1>7, StartStep
      <3> QED
        BY <1>6, <3>1
    <2>2. stmtstart <= stmtstart'
      <3>1. stmtstart <= Loc(pos)
        BY <1>1, <1>7, StartBefore
      <3> QED
        BY <1>1, <1>6, <1>7, <3>1
    <2>3. ASSUME stmts' # <<>>
          PROVE  stmts'[Len(stmts')].location + stmts'[Len(stmts')].len < stmtstart'
      <3>1. CASE stmts' = stmts
        <4>1. stmts[Len(stmts)].location + stmts[Len(stmts)].len < stmtstart
          BY <1>0, <2>3, <3>1 DEF IndInv, StartMatches
        <4>2. Len(stmts) \in 1..Len(stmts)
          BY <1>0, <2>3, <3>1, EmptySeq DEF TypeOK
        <4>3. stmts[Len(stmts)] \in [location : Nat, len : Int]
          BY <1>0, <4>2, ElementOfSeq DEF TypeOK
        <4>4. stmts[Len(stmts)].location + stmts[Len(stmts)].len \in Int
          BY <4>3
        <4> QED
          BY <1>1, <1>6, <1>7, <2>2, <3>1, <4>1, <4>4
      <3>2. CASE stmts' # stmts
        <4>1. Boundary(input, pos)
          BY <1>0, <3>2, TerminatorIsBoundary DEF Ends
        <4> QED
          BY <1>1, <1>2, <1>6, <3>2, <4>1
      <3> QED
        BY <3>1, <3>2
    <2> QED
      BY <1>0, <2>1, <2>3 DEF StartMatches
  <1>9. TypeOK'
    <2>1. pos' \in 1..(Len(input') + 1)
      BY <1>0, <1>1
    <2>2. keyword_before_terminator' \in BOOLEAN
      BY <1>0, ScanStep DEF FillToken
    <2>3. open_parens' \in 0..(Wrap - 1)
      BY <1>0, ScanStep DEF FillToken
    <2>4. stmtstart' \in Nat
      BY <1>1, <1>6, <1>7
    <2> QED
      BY <1>0, <1>2, <2>1, <2>2, <2>3, <2>4 DEF TypeOK
  <1> QED
    BY <1>0, <1>2, <1>3, <1>4, <1>5, <1>8, <1>9
       DEF IndInv, CountMatches, ErrorMatches, NoneBadSoFar

LEMMA InvFillEnd == IndInv /\ FillEnd => IndInv'
  <1> SUFFICES ASSUME IndInv, FillEnd PROVE IndInv'
    OBVIOUS
  <1>0. /\ TypeOK /\ ScanMatches
        /\ phase = "fill" /\ phase' = "done" /\ input' = input
        /\ pos' = pos /\ n_stmts' = n_stmts /\ open_parens' = open_parens
        /\ Tok(input, pos) = "eof"
        /\ stmtstart' = StartAfter(Tok(input, pos))
        /\ stmts' = IF Terminates(Tok(input, pos)) THEN Append(stmts, Stmt)
                    ELSE stmts
    BY DEF IndInv, FillEnd
  <1>1. /\ input \in Inputs /\ Len(input) \in Nat /\ pos = Len(input) + 1
        /\ Loc(pos) \in Nat
    <2>1. /\ input \in Inputs /\ Len(input) \in Nat /\ pos = Len(input) + 1
          /\ pos \in 1..(Len(input) + 1)
      BY <1>0, AtToken
    <2> QED
      BY <2>1, LocAssumption
  <1>2. /\ stmts' \in Seq([location : Nat, len : Int])
        /\ Len(stmts') = Cardinality(EndsBefore(input, pos + 1))
        /\ \A i \in EndsBefore(input, pos + 1) :
             \E s \in 1..Len(stmts') : IsStmt(input, stmts'[s], i)
        /\ StatementsInOrder'
        /\ \A i \in 1..pos : Tok(input, i) = "keyword" =>
             Covered(stmts', i) \/ \A m \in i..pos : ~Boundary(input, m)
    BY <1>0, FillStep
  <1>3. Scanned' = pos + 1 /\ Scanned' - 1 = pos
    BY <1>0, <1>1 DEF Scanned
  <1>4. FillMatches'
    BY <1>0, <1>2, <1>3 DEF IndInv, FillMatches
  <1>5. CoverMatches'
    <2>1. \A i \in 1..Len(input) : i < Scanned' => i \in 1..pos
      BY <1>1, <1>3
    <2>2. \A i \in 1..Len(input) :
            i < Scanned' /\ Tok(input, i) = "keyword" =>
              Covered(stmts', i) \/ \A m \in i..(Scanned' - 1) : ~Boundary(input, m)
      BY <1>2, <1>3, <2>1
    <2> QED
      BY <1>0, <2>2 DEF CoverMatches
  <1>6. TypeOK'
    <2>1. keyword_before_terminator' \in BOOLEAN
      BY <1>0, ScanStep DEF FillEnd
    <2>2. stmtstart' \in Nat
      BY <1>0, <1>1 DEF StartAfter, TypeOK
    <2> QED
      BY <1>0, <1>2, <2>1, <2>2 DEF TypeOK
  <1> QED
    BY <1>0, <1>2, <1>4, <1>5, <1>6
       DEF IndInv, ScanMatches, CountMatches, StartMatches, ErrorMatches,
           NoneBadSoFar

LEMMA InvScanError == IndInv /\ ScanError => IndInv'
  <1> SUFFICES ASSUME IndInv, ScanError PROVE IndInv'
    OBVIOUS
  <1>0. /\ TypeOK /\ phase \in {"count", "fill"} /\ phase' = "error"
        /\ Tok(input, pos) = "bad" /\ stmts' = stmts /\ StatementsInOrder
        /\ UNCHANGED <<input, pos, keyword_before_terminator, open_parens,
                       n_stmts, stmtstart>>
    BY DEF IndInv, ScanError
  <1>1. phase = "count"
    <2>1. pos \in 1..Len(input) /\ input[pos] = "bad"
      BY <1>0, AtToken DEF Tok
    <2> QED
      BY <1>0, <2>1 DEF IndInv, FillMatches
  <1>2. stmts' = <<>>
    BY <1>0, <1>1 DEF IndInv, CountMatches
  <1>3. TypeOK'
    BY <1>0 DEF TypeOK
  <1>4. StatementsInOrder'
    BY <1>0 DEF StatementsInOrder
  <1> QED
    BY <1>0, <1>2, <1>3, <1>4
       DEF IndInv, ScanMatches, CountMatches, FillMatches, StartMatches,
           CoverMatches, ErrorMatches, NoneBadSoFar

LEMMA InvStutter == IndInv /\ UNCHANGED vars => IndInv'
  BY DEF vars, IndInv, TypeOK, ScanMatches, CountMatches, FillMatches, Scanned,
         StartMatches, CoverMatches, ErrorMatches, NoneBadSoFar,
         StatementsInOrder

\* The two passes compute, token by token, what Split defines about prefixes.
THEOREM SplitInvariant == Spec => []IndInv
  <1>1. IndInv /\ [Next]_vars => IndInv'
    BY InvCountToken, InvCountEnd, InvFillToken, InvFillEnd, InvScanError,
       InvStutter DEF Next
  <1> QED
    BY <1>1, InvInit, PTL DEF Spec

\* The second pass stays within the array the first one sized.
THEOREM ArraySafety == Spec => []FillsWithinArray
  <1>1. IndInv => FillsWithinArray
    <2> SUFFICES ASSUME IndInv PROVE FillsWithinArray
      OBVIOUS
    <2>0. TypeOK
      BY DEF IndInv
    <2>1. /\ input \in Inputs /\ Len(input) \in Nat /\ n_stmts \in Nat
          /\ pos \in 1..(Len(input) + 1)
      BY <2>0, AtToken DEF TypeOK
    <2>2. CASE phase \in {"count", "error"}
      <3>1. stmts = <<>>
        BY <2>2 DEF IndInv, CountMatches, ErrorMatches
      <3> QED
        BY <2>1, <3>1 DEF FillsWithinArray
    <2>3. CASE phase \in {"fill", "done"}
      <3>1. Scanned \in 1..(Len(input) + 2)
        BY <2>1 DEF Scanned
      <3>2. Cardinality(EndsBefore(input, Scanned))
              <= Cardinality(EndsBefore(input, Len(input) + 2))
        BY <2>1, <3>1, EndsMonotone
      <3> QED
        BY <2>3, <3>2 DEF IndInv, FillMatches, FillsWithinArray
    <2> QED
      BY <2>0, <2>2, <2>3 DEF TypeOK
  <1> QED
    BY <1>1, SplitInvariant, PTL

\* The statements are non-empty, disjoint and in order.
THEOREM InOrder == Spec => []StatementsInOrder
  <1>1. IndInv => StatementsInOrder
    BY DEF IndInv
  <1> QED
    BY <1>1, SplitInvariant, PTL

\* What is returned are the statements of the input, all of them and no other.
THEOREM SplitCorrect == Spec => []SplitsIntoStatements
  <1>1. IndInv => SplitsIntoStatements
    BY DEF IndInv, FillMatches, Scanned, SplitsIntoStatements
  <1> QED
    BY <1>1, SplitInvariant, PTL

\* When the parentheses match, every keyword is in a statement.
THEOREM NothingLost == Spec => []BalancedInputIsCovered
  <1>1. IndInv => BalancedInputIsCovered
    <2> SUFFICES ASSUME IndInv, phase = "done", Depth(input, Len(input) + 1) = 0
                 PROVE  KeywordsAreCovered
      BY DEF BalancedInputIsCovered
    <2>1. input \in Inputs /\ Len(input) \in Nat
      BY AtToken DEF IndInv
    <2>2. Boundary(input, Len(input) + 1)
      <3>1. Tok(input, Len(input) + 1) = "eof"
        BY <2>1 DEF Tok
      <3> QED
        BY <3>1 DEF Boundary
    <2>3. \A i \in 1..Len(input) :
            i < Len(input) + 2 /\ Tok(input, i) = "keyword" =>
              \/ Covered(stmts, i)
              \/ \A m \in i..(Len(input) + 2 - 1) : ~Boundary(input, m)
      BY DEF IndInv, CoverMatches, Scanned
    <2>4. \A i \in 1..Len(input) : /\ i < Len(input) + 2
                                   /\ Len(input) + 1 \in i..(Len(input) + 2 - 1)
      BY <2>1
    <2> QED
      BY <2>2, <2>3, <2>4 DEF KeywordsAreCovered
  <1> QED
    BY <1>1, SplitInvariant, PTL

\* The state has its type; the counter of parentheses stays in a size_t.
THEOREM SplitTypeCorrect == Spec => []TypeOK
  <1>1. IndInv => TypeOK
    BY DEF IndInv
  <1> QED
    BY <1>1, SplitInvariant, PTL

\* The second pass meets no error, so that the array is returned complete or
\* not at all.
THEOREM SecondPassSucceeds == Spec => ErrorsBeforeAllocation
  <1>1. IndInv /\ [Next]_vars => [~(phase = "fill" /\ phase' = "error")]_vars
    <2> SUFFICES ASSUME IndInv, Next, phase = "fill", phase' = "error"
                 PROVE  FALSE
      OBVIOUS
    <2>1. ScanError
      BY DEF Next, CountToken, CountEnd, FillToken, FillEnd
    <2>2. pos \in Nat \ {0} /\ Len(input) \in Nat
      BY AtToken DEF IndInv, TypeOK
    <2>3. pos \in 1..Len(input) /\ input[pos] = "bad"
      BY <2>1, <2>2 DEF ScanError, Tok
    <2> QED
      BY <2>3 DEF IndInv, FillMatches
  <1> QED
    BY <1>1, SplitInvariant, PTL DEF Spec, ErrorsBeforeAllocation
=============================================================================
