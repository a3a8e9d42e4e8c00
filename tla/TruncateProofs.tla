--------------------------- MODULE TruncateProofs ---------------------------
(* No round of apply_truncations is spent on a clause that is gone already,  *)
(* for every query: the depth of a clause is more than that of the clauses   *)
(* around it, and the rounds go from the deepest to the outermost.  They end *)
(* with the first text that fits.                                            *)
EXTENDS Truncate, FiniteSetTheorems, TLAPS

\* The inductive invariant.
IndInv == TypeOK /\ AppliedAreLive /\ OuterClausesSurvive
            /\ (status = "start" => applied = <<>>)

\* Where the rounds stand: what has been applied and what is left are all there
\* is, and they end with the first text that fits, or with none left.
Progress ==
  /\ truncate_limit \in Limits
  /\ status = "start" => ~cut
  /\ status = "apply" =>
       ~cut /\ Applied \union truncations = generate_possible_truncations
  /\ status = "done" =>
       IF cut THEN Applied = generate_possible_truncations
       ELSE truncate_limit >= 0 => Bytes(Applied) <= truncate_limit

\* The depth that generate_possible_truncations counts is a number.
LEMMA DepthType ==
  ASSUME query \in Queries, NEW c \in query.clauses
  PROVE  Depth(c) \in Nat
<1>1. IsFiniteSet(query.above[query.node[c]]) BY QueriesAssumption
<1>2. IsFiniteSet(query.above[query.node[c]] \ query.raws) BY <1>1, FS_Difference
<1> QED BY <1>2, FS_CardinalityType DEF Depth

\* A clause that sits in another one has a greater depth, since the walk counts
\* the other one's node and every node that it counted for the other one.
LEMMA DepthGrows ==
  ASSUME query \in Queries, NEW c \in query.clauses, NEW d \in query.within[c]
  PROVE  Depth(d) < Depth(c)
<1> DEFINE outer == query.above[query.node[d]] \ query.raws
           inner == query.above[query.node[c]] \ query.raws
<1>1. d \in query.clauses BY QueriesAssumption
<1>2. IsFiniteSet(query.above[query.node[c]]) BY QueriesAssumption
<1>3. IsFiniteSet(inner) BY <1>2, FS_Difference
<1>4. outer \subseteq inner BY QueriesAssumption
<1>5. query.node[d] \in inner /\ query.node[d] \notin outer
  BY <1>1, QueriesAssumption
<1>6. Cardinality(outer) <= Cardinality(inner)
      /\ (Cardinality(inner) = Cardinality(outer) => inner = outer)
  <2> HIDE DEF outer, inner
  <2> QED BY <1>3, <1>4, FS_Subset
<1>7. Depth(d) \in Nat /\ Depth(c) \in Nat BY <1>1, DepthType
<1>8. Depth(d) = Cardinality(outer) /\ Depth(c) = Cardinality(inner) BY DEF Depth
<1>9. inner # outer BY <1>5
<1> HIDE DEF outer, inner
<1> QED BY <1>6, <1>7, <1>8, <1>9

\* What is said of a query stays while the query does.
LEMMA SameQuery ==
  ASSUME query' = query
  PROVE  /\ generate_possible_truncations' = generate_possible_truncations
         /\ Bytes(Applied)' = Bytes(Applied')
  BY DEF generate_possible_truncations, Reached, add_truncation, MeasuredLength,
         ClauseLength, Bytes, TextLength

\* A limit that is not negative is itself as a size_t.
LEMMA LimitAsSize ==
  ASSUME truncate_limit \in Limits, truncate_limit >= 0
  PROVE  AsSize(truncate_limit) = truncate_limit /\ truncate_limit \in Nat
<1>1. truncate_limit \in Nat /\ SizeMod \in Nat /\ truncate_limit < SizeMod
  BY LimitsAssumption
<1> QED BY <1>1 DEF AsSize

\* pg_query_summary_truncate begins with nothing applied.
LEMMA InitInv == TruncateInit => IndInv
<1> SUFFICES ASSUME TruncateInit PROVE IndInv OBVIOUS
<1>1. applied = <<>> /\ Len(applied) = 0 /\ applied \in Seq(query.clauses)
  BY DEF TruncateInit
<1>2. Applied = {} BY <1>1 DEF Applied
<1>3. TypeOK BY <1>1, <1>2 DEF TruncateInit, TypeOK
<1>4. AppliedAreLive BY <1>1 DEF AppliedAreLive
<1>5. OuterClausesSurvive BY <1>2 DEF OuterClausesSurvive
<1> QED BY <1>1, <1>3, <1>4, <1>5 DEF IndInv

\* One round of apply_truncations.
LEMMA ApplyInv ==
  ASSUME IndInv, NEW c \in truncations, Apply(c)
  PROVE  IndInv'
<1> USE DEF IndInv, TypeOK
<1>1. /\ query' = query /\ c \in query.clauses
      /\ applied' = Append(applied, c) /\ truncations' = truncations \ {c}
      /\ status' \in {"done", "apply"} /\ cut' = cut
  BY DEF Apply
<1>2. Len(applied) \in Nat /\ Len(applied') = Len(applied) + 1
      /\ applied' \in Seq(query.clauses)
      /\ applied'[Len(applied) + 1] = c
      /\ \A i \in 1..Len(applied) : applied'[i] = applied[i]
  BY <1>1
<1>3. Applied' = Applied \union {c} BY <1>2 DEF Applied
<1>4. \A d \in truncations : Depth(d) <= Depth(c)
  <2> TAKE d \in truncations
  <2>1. Depth(d) \in Nat /\ Depth(c) \in Nat BY <1>1, DepthType
  <2>2. ComesFirst(c, d) BY DEF Apply
  <2> QED BY <2>1, <2>2 DEF ComesFirst
<1>5. \A d \in query.clauses : Depth(d)' = Depth(d) BY <1>1 DEF Depth
<1>6. TypeOK' BY <1>1, <1>2, <1>3
<1>7. OuterClausesSurvive'
  BY <1>1, <1>3, <1>4, <1>5, <1>6 DEF OuterClausesSurvive, Applied
<1>8. ASSUME NEW j \in 1..Len(applied'), NEW i \in 1..(j - 1)
      PROVE  applied'[i] \notin query.within[applied'[j]]
  <2>1. CASE j = Len(applied) + 1
    <3>1. i \in 1..Len(applied) /\ applied'[i] = applied[i] /\ applied'[j] = c
      BY <1>2, <2>1
    <3>2. applied[i] \in Applied /\ applied[i] \in query.clauses
      BY <3>1 DEF Applied
    <3>3. Depth(c) <= Depth(applied[i]) BY <3>2 DEF OuterClausesSurvive
    <3>4. Depth(c) \in Nat /\ Depth(applied[i]) \in Nat BY <1>1, <3>2, DepthType
    <3>5. applied[i] \in query.within[c] => Depth(applied[i]) < Depth(c)
      BY <1>1, DepthGrows
    <3> QED BY <3>1, <3>3, <3>4, <3>5
  <2>2. CASE j # Len(applied) + 1
    <3>1. j \in 1..Len(applied) /\ i \in 1..Len(applied) BY <1>2, <2>2
    <3> QED BY <1>2, <3>1 DEF AppliedAreLive
  <2> QED BY <2>1, <2>2
<1>9. AppliedAreLive' BY <1>1, <1>8 DEF AppliedAreLive
<1> QED BY <1>1, <1>6, <1>7, <1>9

\* Every step of the truncation.
LEMMA NextInv == IndInv /\ [TruncateNext]_truncate_vars => IndInv'
<1> SUFFICES ASSUME IndInv, [TruncateNext]_truncate_vars PROVE IndInv' OBVIOUS
<1>1. CASE Fits
  BY <1>1 DEF Fits, IndInv, TypeOK, AppliedAreLive, OuterClausesSurvive, Applied, Depth
<1>2. CASE Generate
  BY <1>2 DEF Generate, generate_possible_truncations, IndInv, TypeOK,
     AppliedAreLive, OuterClausesSurvive, Applied, Depth
<1>3. CASE \E c \in truncations : Apply(c) BY <1>3, ApplyInv
<1>4. CASE Cut
  BY <1>4 DEF Cut, IndInv, TypeOK, AppliedAreLive, OuterClausesSurvive, Applied, Depth
<1>5. CASE UNCHANGED truncate_vars
  BY <1>5 DEF truncate_vars, IndInv, TypeOK, AppliedAreLive, OuterClausesSurvive, Applied,
              Depth
<1> QED BY <1>1, <1>2, <1>3, <1>4, <1>5 DEF TruncateNext

\* The rounds get on, or end with a text that fits.
LEMMA NextProgress == IndInv /\ Progress /\ [TruncateNext]_truncate_vars => Progress'
<1> SUFFICES ASSUME IndInv, Progress, [TruncateNext]_truncate_vars PROVE Progress'
  OBVIOUS
<1>1. CASE Fits
  <2>1. /\ status = "start" /\ status' = "done" /\ Bytes({}) <= truncate_limit
        /\ UNCHANGED <<query, truncate_limit, truncations, applied, cut>>
    BY <1>1 DEF Fits
  <2>2. Applied' = {}
    BY <2>1 DEF IndInv, Applied
  <2> QED BY <2>1, <2>2, SameQuery DEF Progress
<1>2. CASE Generate
  <2>1. /\ status = "start" /\ status' = "apply"
        /\ truncations' = generate_possible_truncations
        /\ UNCHANGED <<query, truncate_limit, applied, cut>>
    BY <1>2 DEF Generate
  <2>2. Applied' = {}
    BY <2>1 DEF IndInv, Applied
  <2> QED BY <2>1, <2>2, SameQuery DEF Progress
<1>3. ASSUME NEW c \in truncations, Apply(c) PROVE Progress'
  <2>1. /\ status = "apply" /\ truncations' = truncations \ {c}
        /\ applied' = Append(applied, c)
        /\ status' = IF Bytes(Applied \union {c}) <= AsSize(truncate_limit)
                     THEN "done" ELSE "apply"
        /\ UNCHANGED <<query, truncate_limit, cut>>
    BY <1>3 DEF Apply
  <2>2. applied \in Seq(query.clauses) /\ c \in query.clauses
    BY DEF IndInv, TypeOK
  <2>3. Applied' = Applied \union {c}
    BY <2>1, <2>2 DEF Applied
  <2>4. /\ ~cut /\ truncate_limit \in Limits
        /\ Applied \union truncations = generate_possible_truncations
    BY <2>1 DEF Progress
  <2>5. (Applied \union {c}) \union (truncations \ {c}) = Applied \union truncations
    OBVIOUS
  <2>6. truncate_limit >= 0 => AsSize(truncate_limit) = truncate_limit
    BY <2>4, LimitAsSize
  <2> QED BY <2>1, <2>3, <2>4, <2>5, <2>6, SameQuery DEF Progress
<1>4. CASE Cut
  <2>1. /\ status = "apply" /\ truncations = {} /\ status' = "done" /\ cut' = TRUE
        /\ UNCHANGED <<query, truncate_limit, truncations, applied>>
    BY <1>4 DEF Cut
  <2>2. Applied' = Applied
    BY <2>1 DEF Applied
  <2> QED BY <2>1, <2>2, SameQuery DEF Progress
<1>5. CASE UNCHANGED truncate_vars
  <2>1. UNCHANGED <<query, truncate_limit, truncations, applied, status, cut>>
    BY <1>5 DEF truncate_vars
  <2>2. Applied' = Applied
    BY <2>1 DEF Applied
  <2> QED BY <2>1, <2>2, SameQuery DEF Progress
<1> QED BY <1>1, <1>2, <1>3, <1>4, <1>5 DEF TruncateNext

\* The inductive invariant holds in every state of the truncation.
THEOREM TruncateInvariant == TruncateSpec => []IndInv
  BY InitInv, NextInv, PTL DEF TruncateSpec

\* The state has its type, and no truncation is applied twice.
THEOREM TruncateTypeCorrect == TruncateSpec => []TypeOK
<1>1. IndInv => TypeOK BY DEF IndInv
<1> QED BY <1>1, TruncateInvariant, PTL

\* apply_truncations never changes a clause that it has already removed.
THEOREM RoundsAreNotWasted == TruncateSpec => []AppliedAreLive
<1>1. IndInv => AppliedAreLive BY DEF IndInv
<1> QED BY <1>1, TruncateInvariant, PTL

\* The clauses that survive are the outermost ones.
THEOREM OuterSurvives == TruncateSpec => []OuterClausesSurvive
<1>1. IndInv => OuterClausesSurvive BY DEF IndInv
<1> QED BY <1>1, TruncateInvariant, PTL

\* apply_truncations and truncate_mbstr give a text within the limit, for every
\* query and every limit that is not negative, and cut it only when every clause
\* that could be replaced has been.
THEOREM ResultFitsHolds == TruncateSpec => []ResultFits
<1>1. TruncateInit => Progress
  BY DEF TruncateInit, Progress
<1>2. IndInv /\ Progress /\ [TruncateNext]_truncate_vars => Progress'
  BY NextProgress
<1>3. TypeOK /\ Progress => ResultFits
  <2> SUFFICES ASSUME TypeOK, Progress PROVE ResultFits
    OBVIOUS
  <2>1. cut => status = "done"
    BY DEF TypeOK, Progress
  <2>2. ASSUME truncate_limit >= 0
        PROVE  ResultChars <= truncate_limit \/ ResultChars <= 3
    <3>1. AsSize(truncate_limit) = truncate_limit /\ truncate_limit \in Nat
      BY <2>2, LimitAsSize DEF Progress
    <3> QED BY <3>1 DEF ResultChars, truncate_mbstr
  <2> QED BY <2>1, <2>2 DEF ResultFits, Progress
<1> QED BY <1>1, <1>2, <1>3, TruncateInvariant, TruncateTypeCorrect, PTL DEF TruncateSpec
=============================================================================
