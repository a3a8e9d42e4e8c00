------------------------- MODULE FingerprintProofs -------------------------
(***************************************************************************)
(* The cache keeps the walk of Fingerprint from being exponential, for     *)
(* every tree, limit and order of the hash values: a place is walked at    *)
(* most once, and once more for each sorted list around it.                *)
(*                                                                         *)
(* The inductive invariant compares each place with the ones directly      *)
(* below it.  A call walks everything below its place once, and once more  *)
(* in the one call that sorts the list; a call that is under way has still *)
(* to walk what comes next, which counts as if it had.                     *)
(***************************************************************************)
EXTENDS Fingerprint, FiniteSetTheorems, SequenceTheorems,
        WellFoundedInduction, TLAPS

Positive == Nat \ {0}
Paths == Seq(Positive)
IsSeq(s) == s \in Seq(Range(s))

\* The positions of the items of a list, each of them once.
EachOnce(s) ==
  /\ IsSeq(s)
  /\ \A j \in 1..Len(s) : s[j].pos \in Positive
  /\ \A i, j \in 1..Len(s) : s[i].pos = s[j].pos => i = j

\* A frame has these fields.
Fields == {"path", "parent", "field", "depth", "next", "mark", "phase", "sorted"}
IsFrame(f) == f = [x \in Fields |-> f[x]]

\* A call n places down in tree x, where these lists are in the cache.
FrameInv(x, cached, f, n) ==
  /\ IsFrame(f)
  /\ f.path \in Paths /\ Len(f.path) = n
  /\ f.next \in Positive
  /\ f.field = FieldOf(x, f.path)
  /\ f.phase \in {"start", "field", "plain", "hash", "item", "emit"}
  /\ f.phase = "start" /\ Descend(x, f.path).is = "list" => f.next = 1 /\ f.sorted = <<>>
  /\ f.phase \in {"hash", "item"} =>
       /\ SortsItems(x, f.path) /\ f.path \notin cached
       /\ IsSeq(f.sorted) /\ Len(f.sorted) = f.next - 1
       /\ \A j \in 1..Len(f.sorted) : f.sorted[j].pos = j
  /\ f.phase = "emit" => f.path \in cached /\ EachOnce(f.sorted)

\* The calls under way are at places further and further down.
StackInv ==
  /\ IsSeq(stack)
  /\ \A k \in 1..Len(stack) : FrameInv(tree, DOMAIN listsort_cache, stack[k], k - 1)

\* Lists are in the cache that are sorted.
CacheInv ==
  \A path \in DOMAIN listsort_cache :
    path \in Paths /\ SortsItems(tree, path) /\ EachOnce(listsort_cache[path])

\* Has this call walked the i-th value below its place, the last time round?
Called(f, i) ==
  \/ f.phase \in {"start", "plain", "hash"} /\ i < f.next
  \/ f.phase \in {"field", "item"} /\ i <= f.next
  \/ f.phase = "emit" /\ \E j \in 1..(f.next - 1) : f.sorted[j].pos = i

Pending(path, i) ==
  IF \E k \in 1..Len(stack) : stack[k].path = path /\ ~Called(stack[k], i)
  THEN 1 ELSE 0
Cached(path) == IF path \in DOMAIN listsort_cache THEN 1 ELSE 0

\* Each call for a place walks what is below it once, and the call that sorts
\* walks it twice.
Balanced(path, i) ==
  Visits(Append(path, i)) + Pending(path, i) <= Visits(path) + Cached(path)

VisitsInv ==
  /\ \A path \in DOMAIN visits : path \in Paths /\ visits[path] \in Nat
  /\ \A path \in Paths, i \in Positive : Balanced(path, i)

IndInv == StackInv /\ CacheInv /\ VisitsInv /\ VisitsBounded

-----------------------------------------------------------------------------
(* Sequences, frames and places. *)

LEMMA SeqLen ==
  ASSUME NEW s, IsSeq(s)
  PROVE  Len(s) \in Nat /\ DOMAIN s = 1..Len(s) /\ (s # <<>> => Len(s) \in 1..Len(s))
<1>1. s \in Seq(Range(s))
  BY DEF IsSeq
<1>2. Len(s) \in Nat /\ DOMAIN s = 1..Len(s)
  BY <1>1
<1>3. s # <<>> => Len(s) # 0
  BY <1>1
<1> QED BY <1>2, <1>3

\* A function on 1..n is a sequence of its values.
LEMMA SeqOfValues ==
  ASSUME NEW s, NEW n \in Nat, s = [i \in 1..n |-> s[i]]
  PROVE  IsSeq(s) /\ Len(s) = n
<1>1. DOMAIN s = 1..n
  OBVIOUS
<1>2. \A i \in 1..n : s[i] \in Range(s)
  BY <1>1 DEF Range
<1>3. s \in [1..n -> Range(s)]
  BY <1>2
<1>4. s \in Seq(Range(s))
  BY <1>3
<1> QED BY <1>1, <1>4 DEF IsSeq

LEMMA SeqAppend ==
  ASSUME NEW s, NEW e, IsSeq(s)
  PROVE  /\ IsSeq(Append(s, e)) /\ Len(Append(s, e)) = Len(s) + 1
         /\ \A k \in 1..Len(s) : Append(s, e)[k] = s[k]
         /\ Append(s, e)[Len(s) + 1] = e
<1> DEFINE S == Range(s) \union {e}
           t == Append(s, e)
<1>1. s \in Seq(Range(s))
  BY DEF IsSeq
<1>2. Len(s) \in Nat /\ s \in [1..Len(s) -> Range(s)]
  BY <1>1
<1>3. s \in [1..Len(s) -> S]
  BY <1>2
<1>4. s \in Seq(S)
  BY <1>2, <1>3
<1>5. /\ t \in Seq(S) /\ Len(t) = Len(s) + 1
      /\ \A k \in 1..Len(s) : t[k] = s[k]
      /\ t[Len(s) + 1] = e
  BY <1>4, AppendProperties
<1> HIDE DEF t, S
<1>6. t = [i \in 1..(Len(s) + 1) |-> t[i]] /\ Len(s) + 1 \in Nat
  <2>1. DOMAIN t = 1..Len(t) /\ t = [i \in DOMAIN t |-> t[i]]
    BY <1>5
  <2> QED BY <1>2, <1>5, <2>1
<1>7. IsSeq(t)
  BY <1>6, SeqOfValues
<1> QED BY <1>5, <1>7 DEF t

LEMMA SeqPop ==
  ASSUME NEW s, IsSeq(s), s # <<>>
  PROVE  /\ IsSeq(Pop(s)) /\ Len(Pop(s)) = Len(s) - 1
         /\ \A k \in 1..(Len(s) - 1) : Pop(s)[k] = s[k]
<1> DEFINE t == Pop(s)
           m == Len(s) - 1
<1>1. s \in Seq(Range(s)) /\ Len(s) \in Nat /\ Len(s) \in 1..Len(s)
  BY SeqLen DEF IsSeq
<1>2. m \in Nat
  BY <1>1
<1>3. t = [i \in 1..m |-> s[i]]
  BY <1>1 DEF Pop
<1> HIDE DEF t, m
<1>4. \A i \in 1..m : t[i] = s[i]
  BY <1>3
<1>5. t = [i \in 1..m |-> t[i]]
  BY <1>3
<1>6. IsSeq(t) /\ Len(t) = m
  BY <1>2, <1>5, SeqOfValues
<1> QED BY <1>4, <1>6 DEF t, m

LEMMA SeqContinue ==
  ASSUME NEW f, IsSeq(stack), stack # <<>>
  PROVE  /\ IsSeq(Continue(f)) /\ Len(Continue(f)) = Len(stack)
         /\ Continue(f)[Len(stack)] = f
         /\ \A k \in 1..(Len(stack) - 1) : Continue(f)[k] = stack[k]
<1> DEFINE n == Len(stack)
           t == Continue(f)
<1>1. n \in Nat /\ DOMAIN stack = 1..n /\ n \in 1..n
  BY SeqLen
<1>2. t = [i \in 1..n |-> IF i = n THEN f ELSE stack[i]]
  BY <1>1 DEF Continue
<1> HIDE DEF n, t
<1>3. t[n] = f /\ \A k \in 1..(n - 1) : t[k] = stack[k]
  BY <1>1, <1>2
<1>4. t = [i \in 1..n |-> t[i]]
  BY <1>2
<1>5. IsSeq(t) /\ Len(t) = n
  BY <1>1, <1>4, SeqOfValues
<1> QED BY <1>3, <1>5 DEF n, t

\* A frame of a call that begins.
LEMMA FrameFields ==
  ASSUME NEW path, NEW parent, NEW field, NEW depth
  PROVE  LET f == Frame(path, parent, field, depth)
         IN  /\ IsFrame(f) /\ f.path = path /\ f.field = field /\ f.next = 1
             /\ f.phase = "start" /\ f.sorted = <<>>
  BY DEF Frame, IsFrame, Fields

\* A place below another one: what is above it is what is above that one, and
\* that one.
LEMMA PathBelow ==
  ASSUME NEW path \in Paths, NEW i \in Positive
  PROVE  LET below == Append(path, i)
         IN  /\ below \in Paths /\ Len(path) \in Nat /\ Len(below) = Len(path) + 1
             /\ below[Len(path) + 1] = i
             /\ \A j \in 1..Len(path) : below[j] = path[j]
             /\ \A j \in 0..(Len(path) - 1) : SubSeq(below, 1, j) = SubSeq(path, 1, j)
             /\ SubSeq(below, 1, Len(path)) = path
<1> DEFINE below == Append(path, i)
           n == Len(path)
<1>1. /\ below \in Paths /\ n \in Nat /\ Len(below) = n + 1 /\ below[n + 1] = i
      /\ \A j \in 1..n : below[j] = path[j]
  BY AppendProperties DEF Paths
<1> HIDE DEF below
<1>2. ASSUME NEW j \in 0..n PROVE SubSeq(below, 1, j) = SubSeq(path, 1, j)
  <2>1. SubSeq(below, 1, j) = [x \in 1..j |-> below[x]]
    BY <1>1 DEF Paths
  <2>2. SubSeq(path, 1, j) = [x \in 1..j |-> path[x]]
    BY <1>1 DEF Paths
  <2>3. \A x \in 1..j : below[x] = path[x]
    BY <1>1
  <2> QED BY <2>1, <2>2, <2>3
<1>3. SubSeq(path, 1, n) = path
  BY <1>1 DEF Paths
<1>4. \A j \in 0..(n - 1) : j \in 0..n
  BY <1>1
<1>5. SubSeq(below, 1, n) = path
  BY <1>1, <1>2, <1>3
<1> QED BY <1>1, <1>2, <1>4, <1>5 DEF below

\* The greatest of some places above.
LEMMA MaxIsIn ==
  ASSUME NEW n \in Nat, NEW S \in SUBSET (0..n), S # {}
  PROVE  Max(S) \in S
<1> DEFINE R == {ss \in Nat \X Nat : ss[1] < ss[2]}
           T == {n - x : x \in S}
<1>1. IsWellFoundedOn(R, Nat)
  BY NatLessThanWellFounded DEF OpToRel
<1>2. T \in SUBSET Nat /\ T # {}
  <2>1. \A x \in S : n - x \in Nat
    OBVIOUS
  <2> QED BY <2>1
<1> HIDE DEF R, T
<1>3. PICK m \in T : \A y \in T : ~(<<y, m>> \in R)
  BY <1>1, <1>2, WFMin
<1>4. \A y \in T : y \in Nat /\ m \in Nat /\ ~(y < m)
  BY <1>2, <1>3 DEF R
<1>5. PICK x \in S : m = n - x
  BY DEF T
<1>6. \A y \in S : n - y \in T
  BY DEF T
<1>7. \A y \in S : x >= y
  BY <1>4, <1>5, <1>6
<1> QED BY <1>7 DEF Max

\* The field that a place belongs to: a node's own, or the one of a list.
LEMMA FieldBelow ==
  ASSUME NEW x, NEW path \in Paths, NEW i \in Positive
  PROVE  /\ Descend(x, path).is = "node" =>
              FieldOf(x, Append(path, i)) = Descend(x, path).fields[i].name
         /\ Descend(x, path).is # "node" => FieldOf(x, Append(path, i)) = FieldOf(x, path)
<1> DEFINE below == Append(path, i)
           n == Len(path)
<1>1. /\ below \in Paths /\ n \in Nat /\ Len(below) = n + 1 /\ below[n + 1] = i
      /\ \A j \in 1..n : below[j] = path[j]
      /\ \A j \in 0..(n - 1) : SubSeq(below, 1, j) = SubSeq(path, 1, j)
      /\ SubSeq(below, 1, n) = path
  BY PathBelow
<1> SUFFICES /\ Descend(x, path).is = "node" => FieldOf(x, below) = Descend(x, path).fields[i].name
             /\ Descend(x, path).is # "node" => FieldOf(x, below) = FieldOf(x, path)
  OBVIOUS
<1> HIDE DEF below, n
<1>2. 0..(Len(below) - 1) = 0..(n - 1) \union {n}
  BY <1>1
<1>3. CASE Descend(x, path).is = "node"
  <2>0. n \in 0..(Len(below) - 1) /\ \A j \in 0..(Len(below) - 1) : j \in 0..n
    BY <1>1
  <2>1. n \in Above(x, below) /\ \A j \in Above(x, below) : j \in 0..n
    BY <1>1, <1>3, <2>0 DEF Above
  <2>2. \A j \in Above(x, below) : (\A y \in Above(x, below) : j >= y) => j = n
    BY <1>1, <2>1
  <2>3. \A y \in Above(x, below) : n >= y
    BY <1>1, <2>1
  <2>4. Max(Above(x, below)) = n
    BY <2>1, <2>2, <2>3 DEF Max
  <2> QED BY <1>1, <1>3, <2>1, <2>4 DEF FieldOf, Owner
<1>4. CASE Descend(x, path).is # "node"
  <2>1. Above(x, below) = Above(x, path)
    <3>1. Above(x, below) = {j \in 0..(n - 1) \union {n} : Descend(x, SubSeq(below, 1, j)).is = "node"}
      BY <1>2 DEF Above
    <3>2. Above(x, path) = {j \in 0..(n - 1) : Descend(x, SubSeq(path, 1, j)).is = "node"}
      BY DEF Above, n
    <3>3. ~(Descend(x, SubSeq(below, 1, n)).is = "node")
      BY <1>1, <1>4
    <3>4. \A j \in 0..(n - 1) : Descend(x, SubSeq(below, 1, j)) = Descend(x, SubSeq(path, 1, j))
      BY <1>1
    <3> QED BY <3>1, <3>2, <3>3, <3>4
  <2>2. CASE Above(x, path) = {}
    BY <1>4, <2>1, <2>2 DEF FieldOf
  <2>3. CASE Above(x, path) # {}
    <3> DEFINE m == Max(Above(x, path))
    <3>1. Above(x, path) \in SUBSET (0..n)
      BY <1>1 DEF Above, n
    <3>2. m \in Above(x, path)
      BY <1>1, <2>3, <3>1, MaxIsIn
    <3>3. m \in 0..(n - 1)
      BY <3>2 DEF Above, n
    <3> HIDE DEF m
    <3>4. m + 1 \in 1..n
      BY <1>1, <3>3
    <3>5. SubSeq(below, 1, m) = SubSeq(path, 1, m) /\ below[m + 1] = path[m + 1]
      BY <1>1, <3>3, <3>4
    <3>6. Owner(x, below) = Owner(x, path)
      BY <2>1, <3>5 DEF Owner, m
    <3>7. /\ FieldOf(x, below) = Owner(x, below).fields[below[m + 1]].name
          /\ FieldOf(x, path) = Owner(x, path).fields[path[m + 1]].name
      BY <2>1, <2>3 DEF FieldOf, m
    <3> QED BY <1>4, <3>5, <3>6, <3>7
  <2> QED BY <2>2, <2>3
<1> QED BY <1>3, <1>4

\* What a place may be walked more often than the one above it.
LEMMA SortedBelow ==
  ASSUME NEW x, NEW path \in Paths, NEW i \in Positive
  PROVE  /\ Cardinality(SortedAbove(x, path)) \in Nat
         /\ Cardinality(SortedAbove(x, Append(path, i))) =
              Cardinality(SortedAbove(x, path)) + (IF SortsItems(x, path) THEN 1 ELSE 0)
<1> DEFINE below == Append(path, i)
           n == Len(path)
<1>1. /\ below \in Paths /\ n \in Nat /\ Len(below) = n + 1
      /\ \A j \in 0..(n - 1) : SubSeq(below, 1, j) = SubSeq(path, 1, j)
      /\ SubSeq(below, 1, n) = path
  BY PathBelow
<1> HIDE DEF below, n
<1>2. 0..(Len(below) - 1) = 0..(n - 1) \union {n} /\ n \notin 0..(n - 1)
  BY <1>1
<1>3. IsFiniteSet(SortedAbove(x, path)) /\ n \notin SortedAbove(x, path)
  <2>1. SortedAbove(x, path) \in SUBSET (0..(n - 1))
    BY DEF SortedAbove, n
  <2>2. IsFiniteSet(0..(n - 1))
    BY <1>1, FS_Interval
  <2> QED BY <1>2, <2>1, <2>2, FS_Subset
<1>4. SortedAbove(x, below) =
        IF SortsItems(x, path) THEN SortedAbove(x, path) \union {n} ELSE SortedAbove(x, path)
  BY <1>1, <1>2 DEF SortedAbove, n
<1>5. Cardinality(SortedAbove(x, path)) \in Nat
  BY <1>3, FS_CardinalityType
<1>6. Cardinality(SortedAbove(x, path) \union {n}) = Cardinality(SortedAbove(x, path)) + 1
  BY <1>3, FS_AddElement
<1> QED BY <1>4, <1>5, <1>6 DEF below

-----------------------------------------------------------------------------
(* The steps of the walk. *)

\* A place that was walked n times.
LEMMA VisitsType ==
  ASSUME VisitsInv, NEW path
  PROVE  Visits(path) \in Nat
  BY DEF VisitsInv, Visits

\* The call under way, which no other one shares its place with.
LEMMA TopCall ==
  ASSUME StackInv, stack # <<>>
  PROVE  /\ IsSeq(stack) /\ Len(stack) \in 1..Len(stack) /\ Len(stack) \in Nat
         /\ FrameInv(tree, DOMAIN listsort_cache, Top, Len(stack) - 1)
         /\ \A k \in 1..(Len(stack) - 1) :
              /\ k \in 1..Len(stack) /\ stack[k].path # Top.path
              /\ \A i \in Positive : stack[k].path # Append(Top.path, i)
<1> DEFINE n == Len(stack)
<1>1. IsSeq(stack) /\ n \in 1..n /\ n \in Nat
  BY SeqLen DEF StackInv
<1>2. FrameInv(tree, DOMAIN listsort_cache, Top, n - 1)
  BY <1>1 DEF StackInv, Top
<1>3. ASSUME NEW k \in 1..(n - 1)
      PROVE  /\ k \in 1..n /\ stack[k].path # Top.path
             /\ \A i \in Positive : stack[k].path # Append(Top.path, i)
  <2>1. k \in 1..n /\ k - 1 # n - 1 /\ k - 1 # n
    BY <1>1
  <2>2. Len(stack[k].path) = k - 1
    BY <2>1 DEF StackInv, FrameInv
  <2>3. Top.path \in Paths /\ Len(Top.path) = n - 1
    BY <1>2 DEF FrameInv
  <2>4. \A i \in Positive : Len(Append(Top.path, i)) = (n - 1) + 1
    BY <2>3, PathBelow
  <2>5. (n - 1) + 1 = n
    BY <1>1
  <2> QED BY <2>1, <2>2, <2>3, <2>4, <2>5
<1> QED BY <1>1, <1>2, <1>3

\* What a call has still to walk is counted once.
LEMMA PendingType ==
  ASSUME NEW path, NEW i
  PROVE  Pending(path, i) \in {0, 1} /\ Cached(path) \in {0, 1}
  BY DEF Pending, Cached

\* A call goes on to its next step, without one for a place below it.
LEMMA GoesOn ==
  ASSUME IndInv, stack # <<>>, NEW f, stack' = Continue(f), f.path = Top.path,
         FrameInv(tree, DOMAIN listsort_cache, f, Len(stack) - 1),
         \A i \in Positive : Called(Top, i) => Called(f, i),
         tree' = tree, visits' = visits, listsort_cache' = listsort_cache
  PROVE  IndInv'
<1> DEFINE n == Len(stack)
<1>1. /\ IsSeq(stack) /\ n \in 1..n /\ n \in Nat
      /\ \A k \in 1..(n - 1) : k \in 1..n
  BY TopCall DEF IndInv
<1>2. /\ IsSeq(stack') /\ Len(stack') = n /\ stack'[n] = f
      /\ \A k \in 1..(n - 1) : stack'[k] = stack[k]
  BY <1>1, SeqContinue
<1>3. \A k \in 1..n : k = n \/ k \in 1..(n - 1)
  BY <1>1
<1>4. StackInv'
  <2>1. \A k \in 1..n : FrameInv(tree, DOMAIN listsort_cache, stack'[k], k - 1)
    BY <1>1, <1>2, <1>3 DEF IndInv, StackInv
  <2> QED BY <1>2, <2>1 DEF StackInv
<1>5. ASSUME NEW path \in Paths, NEW i \in Positive PROVE Balanced(path, i)'
  <2>1. Pending(path, i)' <= Pending(path, i)
    <3>1. ASSUME NEW k \in 1..n, stack'[k].path = path, ~Called(stack'[k], i)
          PROVE  stack[k].path = path /\ ~Called(stack[k], i)
      BY <1>1, <1>2, <1>3, <3>1 DEF Top
    <3> QED BY <1>2, <3>1 DEF Pending
  <2>2. Balanced(path, i)
    BY DEF IndInv, VisitsInv
  <2>3. /\ Visits(path)' = Visits(path) /\ Visits(Append(path, i))' = Visits(Append(path, i))
        /\ Cached(path)' = Cached(path)
    BY DEF Visits, Cached
  <2>4. /\ Pending(path, i) \in {0, 1} /\ Pending(path, i)' \in {0, 1}
        /\ Cached(path) \in {0, 1} /\ Visits(path) \in Nat /\ Visits(Append(path, i)) \in Nat
    BY PendingType, VisitsType DEF IndInv, Pending
  <2> QED BY <2>1, <2>2, <2>3, <2>4 DEF Balanced
<1>6. VisitsInv'
  BY <1>5 DEF IndInv, VisitsInv
<1>7. CacheInv' /\ VisitsBounded'
  BY DEF IndInv, CacheInv, VisitsBounded
<1> QED BY <1>4, <1>6, <1>7 DEF IndInv

\* A call returns.
LEMMA Returns ==
  ASSUME IndInv, stack # <<>>, stack' = Pop(stack),
         tree' = tree, visits' = visits, listsort_cache' = listsort_cache
  PROVE  IndInv'
<1> DEFINE n == Len(stack)
<1>1. /\ IsSeq(stack) /\ n \in 1..n /\ n \in Nat
      /\ \A k \in 1..(n - 1) : k \in 1..n
  BY TopCall DEF IndInv
<1>2. /\ IsSeq(stack') /\ Len(stack') = n - 1
      /\ \A k \in 1..(n - 1) : stack'[k] = stack[k]
  BY <1>1, SeqPop
<1>3. StackInv'
  <2>1. \A k \in 1..(n - 1) : FrameInv(tree, DOMAIN listsort_cache, stack'[k], k - 1)
    BY <1>1, <1>2 DEF IndInv, StackInv
  <2> QED BY <1>2, <2>1 DEF StackInv
<1>4. ASSUME NEW path \in Paths, NEW i \in Positive PROVE Balanced(path, i)'
  <2>1. Pending(path, i)' <= Pending(path, i)
    BY <1>1, <1>2 DEF Pending
  <2>2. Balanced(path, i)
    BY DEF IndInv, VisitsInv
  <2>3. /\ Visits(path)' = Visits(path) /\ Visits(Append(path, i))' = Visits(Append(path, i))
        /\ Cached(path)' = Cached(path)
    BY DEF Visits, Cached
  <2>4. /\ Pending(path, i) \in {0, 1} /\ Pending(path, i)' \in {0, 1}
        /\ Cached(path) \in {0, 1} /\ Visits(path) \in Nat /\ Visits(Append(path, i)) \in Nat
    BY PendingType, VisitsType DEF IndInv, Pending
  <2> QED BY <2>1, <2>2, <2>3, <2>4 DEF Balanced
<1>5. VisitsInv'
  BY <1>4 DEF IndInv, VisitsInv
<1>6. CacheInv' /\ VisitsBounded'
  BY DEF IndInv, CacheInv, VisitsBounded
<1> QED BY <1>3, <1>5, <1>6 DEF IndInv

\* Other lists may get into the cache meanwhile.
LEMMA OtherCached ==
  ASSUME NEW x, NEW c, NEW d, NEW f, NEW n, FrameInv(x, c, f, n),
         f.path \in c <=> f.path \in d
  PROVE  FrameInv(x, d, f, n)
  BY DEF FrameInv

\* pg_qsort puts the items into another order: each is there once.
LEMMA SortedOnce ==
  ASSUME NEW s, IsSeq(s), \A j \in 1..Len(s) : s[j].pos = j, NEW t \in Sortings(s)
  PROVE  EachOnce(t) /\ Len(t) = Len(s)
<1> DEFINE n == Len(s)
<1>1. n \in Nat
  BY SeqLen
<1>2. PICK p \in Bijection(1..n, 1..n) : t = [i \in 1..n |-> s[p[i]]]
  BY DEF Sortings
<1>3. p \in [1..n -> 1..n] /\ \A i, j \in 1..n : p[i] = p[j] => i = j
  BY DEF Bijection, Injection, IsInjective
<1> HIDE DEF n
<1>4. \A i \in 1..n : t[i].pos = p[i] /\ p[i] \in 1..n
  BY <1>2, <1>3 DEF n
<1>5. IsSeq(t) /\ Len(t) = n
  <2>1. t = [i \in 1..n |-> t[i]]
    BY <1>2
  <2> QED BY <1>1, <2>1, SeqOfValues
<1>6. \A i \in 1..n : t[i].pos \in Positive
  BY <1>1, <1>4 DEF Positive
<1>7. \A i, j \in 1..n : t[i].pos = t[j].pos => i = j
  BY <1>3, <1>4
<1> QED BY <1>5, <1>6, <1>7 DEF EachOnce, n

\* The items are sorted, and their order gets into the cache.
LEMMA Sorts ==
  ASSUME IndInv, SortItems
  PROVE  IndInv'
<1> DEFINE n == Len(stack)
           P == Top.path
           C == DOMAIN listsort_cache
           D == DOMAIN listsort_cache'
<1>1. stack # <<>> /\ Top.phase = "hash" /\ tree' = tree /\ visits' = visits
  BY DEF SortItems, InList
<1>2. PICK sorted \in Sortings(Top.sorted) :
        /\ stack' = Continue([Top EXCEPT !.phase = "emit", !.next = 1, !.sorted = sorted])
        /\ listsort_cache' = [p \in C \union {P} |->
                                IF p = P THEN sorted ELSE listsort_cache[p]]
  BY DEF SortItems
<1> DEFINE f == [Top EXCEPT !.phase = "emit", !.next = 1, !.sorted = sorted]
<1>3. /\ IsSeq(stack) /\ n \in 1..n /\ n \in Nat /\ FrameInv(tree, C, Top, n - 1)
      /\ \A k \in 1..(n - 1) : k \in 1..n /\ stack[k].path # P
  BY <1>1, TopCall DEF IndInv
<1>4. /\ IsFrame(f) /\ f.path = P /\ f.field = Top.field /\ f.next = 1
      /\ f.phase = "emit" /\ f.sorted = sorted
  BY <1>3 DEF FrameInv, IsFrame, Fields
<1>5. /\ P \in Paths /\ SortsItems(tree, P) /\ P \notin C
      /\ IsSeq(Top.sorted) /\ \A j \in 1..Len(Top.sorted) : Top.sorted[j].pos = j
  BY <1>1, <1>3 DEF FrameInv
<1>6. EachOnce(sorted)
  BY <1>5, SortedOnce
<1>7. D = C \union {P} /\ listsort_cache'[P] = sorted
      /\ \A p \in C : listsort_cache'[p] = listsort_cache[p]
  BY <1>2, <1>5
<1>8. /\ IsSeq(stack') /\ Len(stack') = n /\ stack'[n] = f
      /\ \A k \in 1..(n - 1) : stack'[k] = stack[k]
  BY <1>1, <1>2, <1>3, SeqContinue
<1> HIDE DEF f
<1>9. \A k \in 1..n : k = n \/ k \in 1..(n - 1)
  BY <1>3
<1>10. StackInv'
  <2>1. FrameInv(tree, D, f, n - 1)
    BY <1>3, <1>4, <1>6, <1>7 DEF FrameInv, Positive
  <2>2. ASSUME NEW k \in 1..(n - 1) PROVE FrameInv(tree, D, stack[k], k - 1)
    <3>1. FrameInv(tree, C, stack[k], k - 1) /\ stack[k].path # P
      BY <1>3 DEF IndInv, StackInv
    <3> QED BY <1>7, <3>1, OtherCached
  <2>3. \A k \in 1..n : FrameInv(tree, D, stack'[k], k - 1)
    BY <1>8, <1>9, <2>1, <2>2
  <2> QED BY <1>1, <1>8, <2>3 DEF StackInv
<1>11. CacheInv'
  BY <1>1, <1>5, <1>6, <1>7 DEF IndInv, CacheInv
<1>12. ASSUME NEW path \in Paths, NEW i \in Positive PROVE Balanced(path, i)'
  <2>1. Balanced(path, i)
    BY DEF IndInv, VisitsInv
  <2>2. Visits(path)' = Visits(path) /\ Visits(Append(path, i))' = Visits(Append(path, i))
    BY <1>1 DEF Visits
  <2>3. /\ Pending(path, i) \in {0, 1} /\ Pending(path, i)' \in {0, 1}
        /\ Cached(path) \in {0, 1} /\ Visits(path) \in Nat /\ Visits(Append(path, i)) \in Nat
    BY PendingType, VisitsType DEF IndInv, Pending
  <2>4. CASE path = P
    <3>1. Cached(path) = 0 /\ Cached(path)' = 1
      BY <1>5, <1>7, <2>4 DEF Cached
    <3> QED BY <2>1, <2>2, <2>3, <3>1 DEF Balanced
  <2>5. CASE path # P
    <3>1. Cached(path)' = Cached(path)
      BY <1>7, <2>5 DEF Cached
    <3>2. Pending(path, i)' <= Pending(path, i)
      <4>1. ASSUME NEW k \in 1..n, stack'[k].path = path, ~Called(stack'[k], i)
            PROVE  stack[k].path = path /\ ~Called(stack[k], i)
        BY <1>4, <1>8, <1>9, <2>5, <4>1
      <4> QED BY <1>8, <4>1 DEF Pending
    <3> QED BY <2>1, <2>2, <2>3, <3>1, <3>2 DEF Balanced
  <2> QED BY <2>4, <2>5
<1>13. VisitsInv'
  BY <1>1, <1>12 DEF IndInv, VisitsInv
<1>14. VisitsBounded'
  BY <1>1 DEF IndInv, VisitsBounded
<1> QED BY <1>10, <1>11, <1>13, <1>14 DEF IndInv

\* Below different places are different places.
LEMMA BelowDiffers ==
  ASSUME NEW p \in Paths, NEW q \in Paths, NEW i \in Positive, NEW j \in Positive,
         Append(p, i) = Append(q, j)
  PROVE  p = q /\ i = j
<1>1. Len(p) = Len(q) /\ Len(p) \in Nat
  <2>1. /\ Len(p) \in Nat /\ Len(q) \in Nat
        /\ Len(Append(p, i)) = Len(p) + 1 /\ Len(Append(q, j)) = Len(q) + 1
    BY PathBelow
  <2> QED BY <2>1
<1>2. i = j
  <2>1. Append(p, i)[Len(p) + 1] = i
    BY PathBelow
  <2>2. Append(q, j)[Len(q) + 1] = j
    BY PathBelow
  <2> QED BY <1>1, <2>1, <2>2
<1>3. SubSeq(Append(p, i), 1, Len(p)) = p /\ SubSeq(Append(q, j), 1, Len(q)) = q
  BY PathBelow
<1> QED BY <1>1, <1>2, <1>3

\* A call goes on with one for the i-th value below its place.
LEMMA Calls ==
  ASSUME IndInv, stack # <<>>, NEW f, NEW i \in Positive, f.path = Top.path,
         FrameInv(tree, DOMAIN listsort_cache, f, Len(stack) - 1),
         \A j \in Positive : Called(Top, j) => Called(f, j),
         Called(f, i), ~Called(Top, i),
         NEW cs, NEW toks, NEW parent, NEW field, NEW how, NEW depth,
         Call(Continue(f), cs, toks, Append(Top.path, i), parent, field, how, depth),
         field = FieldOf(tree, Append(Top.path, i)),
         tree' = tree, listsort_cache' = listsort_cache
  PROVE  IndInv'
<1> DEFINE n == Len(stack)
           P == Top.path
           below == Append(P, i)
           g == Frame(below, parent, field, depth)
           C == DOMAIN listsort_cache
<1>1. CASE stack' = Continue(f) /\ visits' = visits
  BY <1>1, GoesOn
<1>2. CASE /\ stack' = Append(Continue(f), g)
           /\ visits' = [p \in DOMAIN visits \union {below} |->
                           IF p = below THEN Visits(p) + 1 ELSE visits[p]]
  <2>1. /\ IsSeq(stack) /\ n \in 1..n /\ n \in Nat /\ P \in Paths /\ Len(P) = n - 1
        /\ \A k \in 1..(n - 1) : k \in 1..n /\ stack[k].path # P /\ stack[k].path # below
    BY TopCall DEF IndInv, FrameInv
  <2>2. /\ below \in Paths /\ Len(below) = (n - 1) + 1 /\ below # P
        /\ \A q \in Paths, j \in Positive : Append(q, j) = below => q = P /\ j = i
        /\ \A j \in Positive : Append(below, j) # below
    <3>1. below \in Paths /\ Len(below) = Len(P) + 1 /\ Len(P) \in Nat
      BY <2>1, PathBelow
    <3>2. \A j \in Positive : Len(Append(below, j)) = Len(below) + 1
      BY <3>1, PathBelow
    <3>3. \A q \in Paths, j \in Positive : Append(q, j) = below => q = P /\ j = i
      BY <2>1, BelowDiffers
    <3>4. below # P
      BY <3>1
    <3>5. \A j \in Positive : Append(below, j) # below
      BY <3>1, <3>2
    <3> QED BY <2>1, <3>1, <3>3, <3>4, <3>5
  <2>3. /\ IsSeq(Continue(f)) /\ Len(Continue(f)) = n /\ Continue(f)[n] = f
        /\ \A k \in 1..(n - 1) : Continue(f)[k] = stack[k]
    BY <2>1, SeqContinue
  <2>4. /\ IsSeq(stack') /\ Len(stack') = n + 1 /\ stack'[n + 1] = g /\ stack'[n] = f
        /\ \A k \in 1..(n - 1) : stack'[k] = stack[k]
    <3>1. /\ IsSeq(stack') /\ Len(stack') = n + 1 /\ stack'[n + 1] = g
          /\ \A k \in 1..n : stack'[k] = Continue(f)[k]
      BY <1>2, <2>3, SeqAppend
    <3> QED BY <2>1, <2>3, <3>1
  <2>5. \A k \in 1..(n + 1) : k = n + 1 \/ k = n \/ k \in 1..(n - 1)
    BY <2>1
  <2> HIDE DEF below
  <2>6. /\ IsFrame(g) /\ g.path = below /\ g.field = field /\ g.next = 1
        /\ g.phase = "start" /\ g.sorted = <<>>
    BY FrameFields
  <2> HIDE DEF g
  <2>7. StackInv'
    <3>1. FrameInv(tree, C, g, (n + 1) - 1)
      <4>1. (n + 1) - 1 = (n - 1) + 1
        BY <2>1
      <4>2. g.field = FieldOf(tree, g.path)
        BY <2>6 DEF below
      <4> QED BY <2>2, <2>6, <4>1, <4>2 DEF FrameInv, Positive
    <3>2. \A k \in 1..(n - 1) : FrameInv(tree, C, stack[k], k - 1)
      BY <2>1 DEF IndInv, StackInv
    <3>3. \A k \in 1..(n + 1) : FrameInv(tree, C, stack'[k], k - 1)
      BY <2>4, <2>5, <3>1, <3>2
    <3> QED BY <2>4, <3>3 DEF StackInv
  <2>8. \A q : Visits(q) \in Nat /\ Visits(q)' = IF q = below THEN Visits(q) + 1 ELSE Visits(q)
    <3>1. \A q : Visits(q) \in Nat
      BY VisitsType DEF IndInv
    <3>2. \A q : Visits(q)' = IF q = below THEN Visits(q) + 1 ELSE Visits(q)
      BY <1>2 DEF Visits
    <3> QED BY <3>1, <3>2
  <2>9. ASSUME NEW path \in Paths, NEW j \in Positive PROVE Balanced(path, j)'
    <3> DEFINE q == Append(path, j)
    <3>1. Balanced(path, j) /\ Cached(path)' = Cached(path)
      BY DEF IndInv, VisitsInv, Cached
    <3>2. /\ Pending(path, j) \in {0, 1} /\ Pending(path, j)' \in {0, 1}
          /\ Cached(path) \in {0, 1} /\ Visits(path) \in Nat /\ Visits(q) \in Nat
      BY <2>8, PendingType DEF Pending
    <3>3. CASE path = below
      <4>1. Visits(path)' = Visits(path) + 1 /\ Visits(q)' = Visits(q)
        BY <2>2, <2>8, <3>3
      <4> QED BY <3>1, <3>2, <4>1 DEF Balanced
    <3>4. CASE path # below /\ q = below
      <4>1. path = P /\ j = i
        BY <2>2, <3>4
      <4>2. Visits(path)' = Visits(path) /\ Visits(q)' = Visits(q) + 1
        BY <2>8, <3>4
      <4>3. Pending(path, j) = 1
        BY <2>1, <4>1 DEF Pending, Top
      <4>4. Pending(path, j)' = 0
        <5>1. ASSUME NEW k \in 1..(n + 1), stack'[k].path = P, ~Called(stack'[k], i)
              PROVE  FALSE
          BY <2>1, <2>2, <2>4, <2>5, <2>6, <5>1
        <5> QED BY <2>4, <4>1, <5>1 DEF Pending
      <4> QED BY <3>1, <3>2, <4>2, <4>3, <4>4 DEF Balanced
    <3>5. CASE path # below /\ q # below
      <4>1. Visits(path)' = Visits(path) /\ Visits(q)' = Visits(q)
        BY <2>8, <3>5
      <4>2. Pending(path, j)' <= Pending(path, j)
        <5>1. ASSUME NEW k \in 1..(n + 1), stack'[k].path = path, ~Called(stack'[k], j)
              PROVE  k \in 1..n /\ stack[k].path = path /\ ~Called(stack[k], j)
          BY <2>1, <2>4, <2>5, <2>6, <3>5, <5>1 DEF Top
        <5> QED BY <2>4, <5>1 DEF Pending
      <4> QED BY <3>1, <3>2, <4>1, <4>2 DEF Balanced
    <3> QED BY <3>3, <3>4, <3>5
  <2>10. VisitsInv'
    <3>1. \A p \in DOMAIN visits' : p \in Paths /\ visits'[p] \in Nat
      BY <1>2, <2>2, <2>8 DEF IndInv, VisitsInv
    <3> QED BY <2>9, <3>1 DEF VisitsInv
  <2>11. CacheInv'
    BY DEF IndInv, CacheInv
  <2>12. Visits(below) + 1 <= 1 + Cardinality(SortedAbove(tree, below))
    <3>1. Balanced(P, i) /\ Pending(P, i) = 1
      BY <2>1 DEF IndInv, VisitsInv, Pending, Top
    <3>2. /\ Cardinality(SortedAbove(tree, P)) \in Nat
          /\ Cardinality(SortedAbove(tree, below)) =
               Cardinality(SortedAbove(tree, P)) + (IF SortsItems(tree, P) THEN 1 ELSE 0)
      BY <2>1, SortedBelow DEF below
    <3>3. Visits(P) <= 1 + Cardinality(SortedAbove(tree, P))
      BY <3>2 DEF IndInv, VisitsBounded, Visits
    <3>4. Cached(P) <= IF SortsItems(tree, P) THEN 1 ELSE 0
      BY DEF IndInv, CacheInv, Cached
    <3>5. Visits(P) \in Nat /\ Visits(below) \in Nat /\ Cached(P) \in {0, 1}
      BY <2>8, PendingType
    <3>6. Visits(below) + 1 <= Visits(P) + Cached(P)
      BY <3>1 DEF Balanced, below
    <3> QED BY <3>2, <3>3, <3>4, <3>5, <3>6
  <2>13. VisitsBounded'
    BY <1>2, <2>12 DEF IndInv, VisitsBounded
  <2> QED BY <2>7, <2>10, <2>11, <2>13 DEF IndInv
<1> QED BY <1>1, <1>2 DEF Call

-----------------------------------------------------------------------------
(* The actions: each of them keeps the invariant. *)

\* What is known of the call under way, whatever it does.
LEMMA Under ==
  ASSUME IndInv, stack # <<>>
  PROVE  /\ FrameInv(tree, DOMAIN listsort_cache, Top, Len(stack) - 1)
         /\ IsFrame(Top) /\ Top.path \in Paths /\ Top.next \in Positive
         /\ Here = Descend(tree, Top.path)
  BY TopCall DEF IndInv, FrameInv, Here, At

\* The next number is a number.
LEMMA NextNumber ==
  ASSUME NEW n \in Positive
  PROVE  n \in Nat /\ n + 1 \in Positive /\ (n + 1) - 1 = (n - 1) + 1
  BY DEF Positive

LEMMA SkipFieldInv ==
  ASSUME IndInv, SkipField
  PROVE  IndInv'
<1> DEFINE f == [Top EXCEPT !.next = @ + 1]
<1>1. /\ stack # <<>> /\ Here.is = "node" /\ Top.phase = "start" /\ stack' = Continue(f)
      /\ tree' = tree /\ visits' = visits /\ listsort_cache' = listsort_cache
  BY DEF SkipField, InNode
<1>2. /\ FrameInv(tree, DOMAIN listsort_cache, Top, Len(stack) - 1) /\ IsFrame(Top)
      /\ Top.next \in Nat /\ Top.next + 1 \in Positive /\ Here = Descend(tree, Top.path)
  BY <1>1, Under, NextNumber
<1>3. /\ IsFrame(f) /\ f.path = Top.path /\ f.field = Top.field
      /\ f.phase = "start" /\ f.next = Top.next + 1
  BY <1>1, <1>2 DEF IsFrame, Fields
<1> HIDE DEF f
<1>4. FrameInv(tree, DOMAIN listsort_cache, f, Len(stack) - 1)
  BY <1>1, <1>2, <1>3 DEF FrameInv
<1>5. \A i \in Positive : Called(Top, i) => Called(f, i)
  BY <1>1, <1>2, <1>3 DEF Called, Positive
<1> QED BY <1>1, <1>3, <1>4, <1>5, GoesOn

LEMMA BeginFieldInv ==
  ASSUME IndInv, BeginField
  PROVE  IndInv'
<1> DEFINE f == [Top EXCEPT !.phase = "field", !.mark = Len(Context)]
           cs == Emitted(contexts, <<TheField.name>>)
           toks == IF Len(contexts) = 1 THEN Append(tokens, TheField.name) ELSE tokens
<1>1. /\ stack # <<>> /\ Here.is = "node" /\ Top.phase = "start"
      /\ Call(Continue(f), cs, toks, Append(Top.path, Top.next), Here.type,
              TheField.name, TheField.how, Top.depth + 1)
      /\ tree' = tree /\ listsort_cache' = listsort_cache
  BY DEF BeginField, InNode, Below
<1>2. /\ FrameInv(tree, DOMAIN listsort_cache, Top, Len(stack) - 1) /\ IsFrame(Top)
      /\ Top.next \in Positive /\ Top.path \in Paths /\ Here = Descend(tree, Top.path)
  BY <1>1, Under
<1>3. /\ IsFrame(f) /\ f.path = Top.path /\ f.field = Top.field
      /\ f.phase = "field" /\ f.next = Top.next
  BY <1>2 DEF IsFrame, Fields
<1> HIDE DEF f, cs, toks
<1>4. FrameInv(tree, DOMAIN listsort_cache, f, Len(stack) - 1)
  BY <1>2, <1>3 DEF FrameInv
<1>5. \A i \in Positive : Called(Top, i) => Called(f, i)
  BY <1>1, <1>2, <1>3 DEF Called, Positive
<1>6. Called(f, Top.next) /\ ~Called(Top, Top.next)
  BY <1>1, <1>2, <1>3 DEF Called, Positive
<1>7. TheField.name = FieldOf(tree, Append(Top.path, Top.next))
  BY <1>1, <1>2, FieldBelow DEF TheField
<1> QED BY <1>1, <1>2, <1>3, <1>4, <1>5, <1>6, <1>7, Calls

LEMMA EndFieldInv ==
  ASSUME IndInv, EndField
  PROVE  IndInv'
<1> DEFINE f == [Top EXCEPT !.next = @ + 1, !.phase = "start"]
<1>1. /\ stack # <<>> /\ Here.is = "node" /\ Top.phase = "field" /\ stack' = Continue(f)
      /\ tree' = tree /\ visits' = visits /\ listsort_cache' = listsort_cache
  BY DEF EndField, InNode
<1>2. /\ FrameInv(tree, DOMAIN listsort_cache, Top, Len(stack) - 1) /\ IsFrame(Top)
      /\ Top.next \in Nat /\ Top.next + 1 \in Positive /\ Here = Descend(tree, Top.path)
  BY <1>1, Under, NextNumber
<1>3. /\ IsFrame(f) /\ f.path = Top.path /\ f.field = Top.field
      /\ f.phase = "start" /\ f.next = Top.next + 1
  BY <1>2 DEF IsFrame, Fields
<1> HIDE DEF f
<1>4. FrameInv(tree, DOMAIN listsort_cache, f, Len(stack) - 1)
  BY <1>1, <1>2, <1>3 DEF FrameInv
<1>5. \A i \in Positive : Called(Top, i) => Called(f, i)
  BY <1>1, <1>2, <1>3 DEF Called, Positive
<1> QED BY <1>1, <1>3, <1>4, <1>5, GoesOn

LEMMA ListBeginInv ==
  ASSUME IndInv, ListBegin
  PROVE  IndInv'
<1> DEFINE C == DOMAIN listsort_cache
<1>1. /\ stack # <<>> /\ Here.is = "list" /\ Top.phase = "start"
      /\ tree' = tree /\ visits' = visits /\ listsort_cache' = listsort_cache
  BY DEF ListBegin, InList
<1>2. /\ FrameInv(tree, C, Top, Len(stack) - 1) /\ IsFrame(Top)
      /\ Top.next = 1 /\ Top.sorted = <<>> /\ Top.path \in Paths
      /\ Descend(tree, Top.path).is = "list" /\ Top.field = FieldOf(tree, Top.path)
  BY <1>1, Under DEF FrameInv
<1>3. \A i \in Positive : ~Called(Top, i)
  BY <1>1, <1>2 DEF Called, Positive
<1>4. CASE Top.field \notin SortedFields
  <2> DEFINE f == [Top EXCEPT !.phase = "plain"]
  <2>1. stack' = Continue(f)
    BY <1>4 DEF ListBegin
  <2>2. /\ IsFrame(f) /\ f.path = Top.path /\ f.field = Top.field
        /\ f.phase = "plain" /\ f.next = Top.next
    BY <1>2 DEF IsFrame, Fields
  <2> HIDE DEF f
  <2>3. FrameInv(tree, C, f, Len(stack) - 1)
    BY <1>2, <2>2 DEF FrameInv
  <2> QED BY <1>1, <1>3, <2>1, <2>2, <2>3, GoesOn
<1>5. CASE Top.field \in SortedFields /\ Top.path \in C
  <2> DEFINE f == [Top EXCEPT !.phase = "emit", !.sorted = listsort_cache[Top.path]]
  <2>1. stack' = Continue(f)
    BY <1>5 DEF ListBegin
  <2>2. /\ IsFrame(f) /\ f.path = Top.path /\ f.field = Top.field
        /\ f.phase = "emit" /\ f.next = Top.next /\ f.sorted = listsort_cache[Top.path]
    BY <1>2 DEF IsFrame, Fields
  <2>3. EachOnce(listsort_cache[Top.path])
    BY <1>5 DEF IndInv, CacheInv
  <2> HIDE DEF f
  <2>4. FrameInv(tree, C, f, Len(stack) - 1)
    BY <1>2, <1>5, <2>2, <2>3 DEF FrameInv
  <2> QED BY <1>1, <1>3, <2>1, <2>2, <2>4, GoesOn
<1>6. CASE Top.field \in SortedFields /\ Top.path \notin C
  <2> DEFINE f == [Top EXCEPT !.phase = "hash"]
  <2>1. stack' = Continue(f)
    BY <1>6 DEF ListBegin
  <2>2. /\ IsFrame(f) /\ f.path = Top.path /\ f.field = Top.field
        /\ f.phase = "hash" /\ f.next = 1 /\ f.sorted = <<>>
    BY <1>2 DEF IsFrame, Fields
  <2> HIDE DEF f
  <2>3. IsSeq(f.sorted) /\ Len(f.sorted) = f.next - 1 /\ 1..Len(f.sorted) = {}
    BY <2>2 DEF IsSeq
  <2>4. SortsItems(tree, f.path)
    BY <1>2, <1>6, <2>2 DEF SortsItems
  <2>5. FrameInv(tree, C, f, Len(stack) - 1)
    BY <1>2, <1>6, <2>2, <2>3, <2>4 DEF FrameInv
  <2> QED BY <1>1, <1>3, <2>1, <2>2, <2>5, GoesOn
<1> QED BY <1>4, <1>5, <1>6

LEMMA HashItemInv ==
  ASSUME IndInv, HashItem
  PROVE  IndInv'
<1> DEFINE f == [Top EXCEPT !.phase = "item"]
           cs == Append(contexts, <<>>)
<1>1. /\ stack # <<>> /\ Here.is = "list" /\ Top.phase = "hash"
      /\ Call(Continue(f), cs, tokens, Append(Top.path, Top.next), Top.parent,
              Top.field, "node", Top.depth + 1)
      /\ tree' = tree /\ listsort_cache' = listsort_cache
  BY DEF HashItem, InList, Below
<1>2. /\ FrameInv(tree, DOMAIN listsort_cache, Top, Len(stack) - 1) /\ IsFrame(Top)
      /\ Top.next \in Positive /\ Top.path \in Paths /\ Here = Descend(tree, Top.path)
      /\ Top.field = FieldOf(tree, Top.path)
  BY <1>1, Under DEF FrameInv
<1>3. /\ IsFrame(f) /\ f.path = Top.path /\ f.field = Top.field
      /\ f.phase = "item" /\ f.next = Top.next /\ f.sorted = Top.sorted
  BY <1>2 DEF IsFrame, Fields
<1> HIDE DEF f, cs
<1>4. FrameInv(tree, DOMAIN listsort_cache, f, Len(stack) - 1)
  BY <1>1, <1>2, <1>3 DEF FrameInv
<1>5. \A i \in Positive : Called(Top, i) => Called(f, i)
  BY <1>1, <1>2, <1>3 DEF Called, Positive
<1>6. Called(f, Top.next) /\ ~Called(Top, Top.next)
  BY <1>1, <1>2, <1>3 DEF Called, Positive
<1>7. Top.field = FieldOf(tree, Append(Top.path, Top.next))
  BY <1>1, <1>2, FieldBelow
<1> QED BY <1>1, <1>2, <1>3, <1>4, <1>5, <1>6, <1>7, Calls

LEMMA HashItemDoneInv ==
  ASSUME IndInv, HashItemDone
  PROVE  IndInv'
<1> DEFINE e == [hash |-> Context, pos |-> Top.next]
           f == [Top EXCEPT !.next = @ + 1, !.phase = "hash", !.sorted = Append(@, e)]
<1>1. /\ stack # <<>> /\ Here.is = "list" /\ Top.phase = "item" /\ stack' = Continue(f)
      /\ tree' = tree /\ visits' = visits /\ listsort_cache' = listsort_cache
  BY DEF HashItemDone, InList
<1>2. /\ FrameInv(tree, DOMAIN listsort_cache, Top, Len(stack) - 1) /\ IsFrame(Top)
      /\ Top.next \in Nat /\ Top.next + 1 \in Positive
      /\ (Top.next + 1) - 1 = (Top.next - 1) + 1
  BY <1>1, Under, NextNumber
<1> HIDE DEF e
<1>3. /\ IsFrame(f) /\ f.path = Top.path /\ f.field = Top.field
      /\ f.phase = "hash" /\ f.next = Top.next + 1 /\ f.sorted = Append(Top.sorted, e)
  BY <1>2 DEF IsFrame, Fields
<1> HIDE DEF f
<1>4. /\ IsSeq(Top.sorted) /\ Len(Top.sorted) = Top.next - 1
      /\ \A j \in 1..Len(Top.sorted) : Top.sorted[j].pos = j
  BY <1>1, <1>2 DEF FrameInv
<1>5. /\ IsSeq(f.sorted) /\ Len(f.sorted) = f.next - 1
      /\ \A j \in 1..Len(f.sorted) : f.sorted[j].pos = j
  <2> DEFINE s == Top.sorted
             t == f.sorted
  <2>1. /\ IsSeq(t) /\ Len(t) = Len(s) + 1 /\ t[Len(s) + 1] = e
        /\ \A k \in 1..Len(s) : t[k] = s[k]
    BY <1>3, <1>4, SeqAppend
  <2>2. Len(t) = f.next - 1
    BY <1>2, <1>3, <1>4, <2>1
  <2>3. Len(s) \in Nat /\ \A j \in 1..(Len(s) + 1) : j = Len(s) + 1 \/ j \in 1..Len(s)
    BY <1>4, SeqLen
  <2>4. e.pos = Len(s) + 1
    BY <1>2, <1>4 DEF e
  <2> QED BY <1>4, <2>1, <2>2, <2>3, <2>4
<1>6. FrameInv(tree, DOMAIN listsort_cache, f, Len(stack) - 1)
  BY <1>1, <1>2, <1>3, <1>5 DEF FrameInv
<1>7. \A i \in Positive : Called(Top, i) => Called(f, i)
  BY <1>1, <1>2, <1>3 DEF Called, Positive
<1> QED BY <1>1, <1>3, <1>6, <1>7, GoesOn

\* One more of the sorted items has had its turn.
LEMMA EmitsNext ==
  ASSUME IndInv, stack # <<>>, Top.phase = "emit", Top.next <= Len(Top.sorted)
  PROVE  LET f == [Top EXCEPT !.next = @ + 1]
             i == Top.sorted[Top.next].pos
         IN  /\ f.path = Top.path /\ i \in Positive
             /\ FrameInv(tree, DOMAIN listsort_cache, f, Len(stack) - 1)
             /\ \A j \in Positive : Called(Top, j) => Called(f, j)
             /\ Called(f, i) /\ ~Called(Top, i)
<1> DEFINE f == [Top EXCEPT !.next = @ + 1]
           i == Top.sorted[Top.next].pos
           n == Top.next
           s == Top.sorted
<1>1. /\ FrameInv(tree, DOMAIN listsort_cache, Top, Len(stack) - 1) /\ IsFrame(Top)
      /\ n \in Positive /\ n \in Nat /\ n + 1 \in Positive /\ (n + 1) - 1 = n
  BY Under, NextNumber DEF Positive
<1>2. /\ IsFrame(f) /\ f.path = Top.path /\ f.field = Top.field
      /\ f.phase = "emit" /\ f.next = n + 1 /\ f.sorted = s
  BY <1>1 DEF IsFrame, Fields
<1>3. EachOnce(s) /\ Len(s) \in Nat
  BY <1>1, SeqLen DEF FrameInv, EachOnce
<1>4. n \in 1..Len(s) /\ \A j \in 1..(n - 1) : j \in 1..Len(s) /\ j # n /\ j \in 1..n
  BY <1>1, <1>3 DEF Positive
<1> HIDE DEF f
<1>5. FrameInv(tree, DOMAIN listsort_cache, f, Len(stack) - 1)
  BY <1>1, <1>2 DEF FrameInv
<1>6. i \in Positive
  BY <1>3, <1>4 DEF EachOnce
<1>7. \A j : Called(Top, j) <=> \E k \in 1..(n - 1) : s[k].pos = j
  BY DEF Called
<1>8. \A j : Called(f, j) <=> \E k \in 1..n : s[k].pos = j
  BY <1>1, <1>2 DEF Called
<1>9. Called(f, i) /\ \A j \in Positive : Called(Top, j) => Called(f, j)
  <2>1. n \in 1..n
    BY <1>1 DEF Positive
  <2> QED BY <1>4, <1>7, <1>8, <2>1
<1>10. ~Called(Top, i)
  <2>1. ASSUME NEW k \in 1..(n - 1), s[k].pos = i PROVE FALSE
    BY <1>3, <1>4, <2>1 DEF EachOnce
  <2> QED BY <1>7, <2>1
<1> QED BY <1>2, <1>5, <1>6, <1>9, <1>10 DEF f

LEMMA SkipDuplicateInv ==
  ASSUME IndInv, SkipDuplicate
  PROVE  IndInv'
<1> DEFINE f == [Top EXCEPT !.next = @ + 1]
<1>1. /\ stack # <<>> /\ Top.phase = "emit" /\ Top.next <= Len(Top.sorted)
      /\ stack' = Continue(f)
      /\ tree' = tree /\ visits' = visits /\ listsort_cache' = listsort_cache
  BY DEF SkipDuplicate, InList
<1>2. /\ f.path = Top.path /\ FrameInv(tree, DOMAIN listsort_cache, f, Len(stack) - 1)
      /\ \A j \in Positive : Called(Top, j) => Called(f, j)
  BY <1>1, EmitsNext
<1> HIDE DEF f
<1> QED BY <1>1, <1>2, GoesOn

LEMMA EmitItemInv ==
  ASSUME IndInv, EmitItem
  PROVE  IndInv'
<1> DEFINE f == [Top EXCEPT !.next = @ + 1]
           i == Top.sorted[Top.next].pos
<1>1. /\ stack # <<>> /\ Here.is = "list" /\ Top.phase = "emit"
      /\ Top.next <= Len(Top.sorted)
      /\ Call(Continue(f), contexts, tokens, Append(Top.path, i), Top.parent,
              Top.field, "node", Top.depth + 1)
      /\ tree' = tree /\ listsort_cache' = listsort_cache
  BY DEF EmitItem, InList, Below
<1>2. /\ f.path = Top.path /\ FrameInv(tree, DOMAIN listsort_cache, f, Len(stack) - 1)
      /\ \A j \in Positive : Called(Top, j) => Called(f, j)
      /\ Called(f, i) /\ ~Called(Top, i) /\ i \in Positive
  BY <1>1, EmitsNext
<1>3. /\ Top.path \in Paths /\ Here = Descend(tree, Top.path)
      /\ Top.field = FieldOf(tree, Top.path)
  BY <1>1, Under DEF FrameInv
<1> HIDE DEF f, i
<1>4. Top.field = FieldOf(tree, Append(Top.path, i))
  BY <1>1, <1>2, <1>3, FieldBelow
<1> QED BY <1>1, <1>2, <1>4, Calls

LEMMA PlainItemInv ==
  ASSUME IndInv, PlainItem
  PROVE  IndInv'
<1> DEFINE f == [Top EXCEPT !.next = @ + 1]
<1>1. /\ stack # <<>> /\ Here.is = "list" /\ Top.phase = "plain"
      /\ Call(Continue(f), contexts, tokens, Append(Top.path, Top.next), Top.parent,
              Top.field, "node", Top.depth + 1)
      /\ tree' = tree /\ listsort_cache' = listsort_cache
  BY DEF PlainItem, InList, Below
<1>2. /\ FrameInv(tree, DOMAIN listsort_cache, Top, Len(stack) - 1) /\ IsFrame(Top)
      /\ Top.next \in Positive /\ Top.next \in Nat /\ Top.next + 1 \in Positive
      /\ Top.path \in Paths /\ Here = Descend(tree, Top.path)
      /\ Top.field = FieldOf(tree, Top.path)
  BY <1>1, Under, NextNumber DEF FrameInv
<1>3. /\ IsFrame(f) /\ f.path = Top.path /\ f.field = Top.field
      /\ f.phase = "plain" /\ f.next = Top.next + 1
  BY <1>1, <1>2 DEF IsFrame, Fields
<1> HIDE DEF f
<1>4. FrameInv(tree, DOMAIN listsort_cache, f, Len(stack) - 1)
  BY <1>2, <1>3 DEF FrameInv
<1>5. \A i \in Positive : Called(Top, i) => Called(f, i)
  BY <1>1, <1>2, <1>3 DEF Called, Positive
<1>6. Called(f, Top.next) /\ ~Called(Top, Top.next)
  BY <1>1, <1>2, <1>3 DEF Called, Positive
<1>7. Top.field = FieldOf(tree, Append(Top.path, Top.next))
  BY <1>1, <1>2, FieldBelow
<1> QED BY <1>1, <1>2, <1>3, <1>4, <1>5, <1>6, <1>7, Calls

LEMMA IndInit ==
  ASSUME Init
  PROVE  IndInv
<1> DEFINE f == Frame(<<>>, Nil, Nil, 0)
<1>1. stack = <<f>> /\ listsort_cache = <<>> /\ visits = [path \in {<<>>} |-> 1]
  BY DEF Init
<1>2. /\ IsFrame(f) /\ f.path = <<>> /\ f.field = Nil /\ f.next = 1
      /\ f.phase = "start" /\ f.sorted = <<>>
  BY FrameFields
<1> HIDE DEF f
<1>3. IsSeq(stack) /\ Len(stack) = 1 /\ stack[1] = f
  <2>1. <<f>> = [i \in 1..1 |-> <<f>>[i]]
    OBVIOUS
  <2> QED BY <1>1, <2>1, SeqOfValues
<1>4. <<>> \in Paths /\ Len(<<>>) = 0
  BY DEF Paths
<1>5. StackInv
  <2>1. FieldOf(tree, <<>>) = Nil
    BY <1>4 DEF FieldOf, Above
  <2>2. FrameInv(tree, DOMAIN listsort_cache, f, 1 - 1)
    BY <1>2, <1>4, <2>1 DEF FrameInv, Positive
  <2> QED BY <1>3, <2>2 DEF StackInv
<1>6. CacheInv
  BY <1>1 DEF CacheInv
<1>7. ASSUME NEW path \in Paths, NEW i \in Positive PROVE Balanced(path, i)
  <2>1. Visits(Append(path, i)) = 0
    <3>1. Append(path, i) # <<>>
      BY AppendProperties DEF Paths
    <3> QED BY <1>1, <3>1 DEF Visits
  <2>2. CASE path = <<>>
    <3>1. Visits(path) = 1
      BY <1>1, <2>2 DEF Visits
    <3> QED BY <2>1, <3>1, PendingType DEF Balanced
  <2>3. CASE path # <<>>
    <3>1. Pending(path, i) = 0
      BY <1>2, <1>3, <2>3 DEF Pending
    <3>2. Visits(path) = 0
      BY <1>1, <2>3 DEF Visits
    <3> QED BY <2>1, <3>1, <3>2, PendingType DEF Balanced
  <2> QED BY <2>2, <2>3
<1>8. VisitsInv
  BY <1>1, <1>4, <1>7 DEF VisitsInv
<1>9. VisitsBounded
  <2>1. 1 \in Positive
    BY DEF Positive
  <2>2. Cardinality(SortedAbove(tree, <<>>)) \in Nat
    BY <1>4, <2>1, SortedBelow
  <2> QED BY <1>1, <2>2 DEF VisitsBounded
<1> QED BY <1>5, <1>6, <1>8, <1>9 DEF IndInv

LEMMA IndStep ==
  ASSUME IndInv, [Next]_vars
  PROVE  IndInv'
<1>1. CASE NodeReturns \/ ListReturns
  <2>1. /\ stack # <<>> /\ stack' = Pop(stack)
        /\ tree' = tree /\ visits' = visits /\ listsort_cache' = listsort_cache
    BY <1>1 DEF NodeReturns, ListReturns, InList
  <2> QED BY <2>1, Returns
<1>2. CASE UNCHANGED vars
  <2>1. /\ stack' = stack /\ tree' = tree /\ visits' = visits
        /\ listsort_cache' = listsort_cache
    BY <1>2 DEF vars
  <2>2. \A path \in Paths, i \in Positive : Balanced(path, i)'
    BY <2>1 DEF IndInv, VisitsInv, Balanced, Pending, Cached, Visits
  <2> QED BY <2>1, <2>2 DEF IndInv, StackInv, CacheInv, VisitsInv, VisitsBounded
<1> QED
  BY <1>1, <1>2, SkipFieldInv, BeginFieldInv, EndFieldInv, ListBeginInv, HashItemInv,
     HashItemDoneInv, Sorts, SkipDuplicateInv, EmitItemInv, PlainItemInv DEF Next

\* The inductive invariant of the walk.
THEOREM WalkInvariant == Spec => []IndInv
<1>1. Init => IndInv
  BY IndInit
<1>2. IndInv /\ [Next]_vars => IndInv'
  BY IndStep
<1> QED BY <1>1, <1>2, PTL DEF Spec

\* _fingerprintNode is called for a place of the tree at most once for the
\* fingerprint, and once for each list around it that _fingerprintList sorts: the
\* cache makes the walk polynomial in the size of the tree, as its comment says.
THEOREM WalkIsBounded == Spec => []VisitsBounded
<1>1. IndInv => VisitsBounded
  BY DEF IndInv
<1> QED BY <1>1, WalkInvariant, PTL

\* listsort_cache_insert never finds the list that _fingerprintList has sorted:
\* the Assert(!found) behind it holds.
THEOREM ListsCachedOnce == Spec => []NotFound
<1>1. IndInv => NotFound
  BY DEF IndInv, StackInv, FrameInv, NotFound
<1> QED BY <1>1, WalkInvariant, PTL
=============================================================================
