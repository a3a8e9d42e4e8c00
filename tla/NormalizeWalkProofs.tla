------------------------- MODULE NormalizeWalkProofs -------------------------
(***************************************************************************)
(* Proofs about NormalizeWalk, for queries of any size: the numbers of the *)
(* new parameters are dense, and none of them captures a $n of the query.  *)
(*                                                                         *)
(* That const_record_walker may give back, at the end of a GROUP BY item,  *)
(* as many numbers as the item has constants rests on facts about the      *)
(* whole stack of calls: nobody else took or gave back a number since the  *)
(* item began, and the numbers it takes over belong to constants before    *)
(* it.  The inductive invariant says so for every item under way.          *)
(*                                                                         *)
(* Two constants get one number only where the text repeats an expression, *)
(* and do get it where the code means them to.  A list of numbers waits    *)
(* for its GROUP BY item long after the entry it came from has ended, so   *)
(* that the invariants for this relate the lists that may be taken over to *)
(* the history of the items: when each came to be (HistInv), which entry a *)
(* list is from and that no two lists overlap (SlotInv), and that an entry *)
(* still waits if no like item has come (GroupInv).                        *)
(***************************************************************************)
EXTENDS NormalizeWalk, SequenceTheorems, WellFoundedInduction, TLAPS

-----------------------------------------------------------------------------
(* Types. *)

Entries == [fp : Fingerprints, refs : Seq(Int)]
SelectFrames ==
  [kind : {"select"}, id : Nat, phase : Phases, targets : Seq(Entries)]
ItemFrames ==
  [kind : {"target", "group"}, id : Nat, fp : Fingerprints,
   fppr : Seq(Int) \union {None}, prev : Nat, start : Nat, made : Nat,
   done : Nat]
Frames == SelectFrames \union ItemFrames
Items ==
  [kind : {"target", "group"}, id : Nat, fp : Fingerprints, prev : Nat,
   last : Nat, text : Seq(Int)]

TypeInv ==
  /\ stack \in Seq(Frames)
  /\ clocations \in Seq(Int)
  /\ highest_normalize_param_id \in Int
  /\ highest_extern_param_id \in Nat
  /\ param_refs \in Seq(Int) \union {None}
  /\ failed \in BOOLEAN
  /\ trace \in Seq(Int)
  /\ items \in Seq(Items)
  /\ selects \in Nat

\* Every item under way is one of the SELECT below it on the stack.
Shape ==
  \A k \in 1..Len(stack) :
    stack[k].kind # "select" => k > 1 /\ stack[k - 1].kind = "select"

-----------------------------------------------------------------------------
(* The numbers of the parameters. *)

\* The numbers of the first n constants.
NumbersOf(c, n) == {-c[i] : i \in {j \in 1..n : c[j] < 0}}

\* What refs takes over from the query's own constants, these constants have.
Known(c, n, refs) ==
  \A j \in 1..Len(refs) : refs[j] < 0 => -refs[j] \in NumbersOf(c, n)

FrameKnown(c, n, f) ==
  /\ f.kind = "select" =>
       \A j \in 1..Len(f.targets) : Known(c, n, f.targets[j].refs)
  /\ f.kind # "select" => f.fppr = None \/ Known(c, n, f.fppr)

\* Has a target list entry ended after the first n items had?
TargetSince(is, n) == \E i \in (n + 1)..Len(is) : is[i].kind = "target"

\* Where an item began is not after where it is now.
Before ==
  \A k \in 1..Len(stack) : stack[k].kind # "select" =>
    /\ stack[k].prev <= Len(clocations)
    /\ stack[k].done <= Len(items)
    /\ stack[k].made <= selects

\* ... nor after where the items within it began.
Nested ==
  \A i, k \in 1..Len(stack) :
    stack[i].kind # "select" /\ stack[k].kind # "select" /\ i < k =>
      stack[i].prev <= stack[k].prev /\ stack[i].done <= stack[k].done

\* Whatever may still be taken over belongs to constants that were there when
\* the items within began: it stays when they give their numbers back.
RefsKnown ==
  /\ \A i \in 1..Len(stack) : FrameKnown(clocations, Len(clocations), stack[i])
  /\ \A i, k \in 1..Len(stack) :
       stack[k].kind # "select" /\ i <= k =>
         FrameKnown(clocations, stack[k].prev, stack[i])
  /\ param_refs = None \/ Known(clocations, Len(clocations), param_refs)

\* Without a target list entry that ended within the item, its constants have
\* the numbers that come after those of the constants before it.
Consecutive ==
  \A k \in 1..Len(stack) :
    stack[k].kind # "select" /\ ~TargetSince(items, stack[k].done) =>
      /\ highest_normalize_param_id - 1 - (Len(clocations) - stack[k].prev) >= 0
      /\ NumbersOf(clocations, stack[k].prev) =
           1..(highest_normalize_param_id - 1 - (Len(clocations) - stack[k].prev))

\* ... and nothing within it may take over anything.
NothingToShare ==
  \A i, k \in 1..Len(stack) :
    /\ stack[k].kind # "select" /\ k < i
    /\ ~TargetSince(items, stack[k].done)
    => /\ stack[i].kind = "select" => stack[i].targets = <<>>
       /\ stack[i].kind # "select" => stack[i].fppr = None

\* param_refs is that of a target list entry under way, and none has ended
\* within that one.
Recording ==
  param_refs # None =>
    \E k \in 1..Len(stack) :
      /\ stack[k].kind # "select" /\ stack[k].kind = "target"
      /\ ~TargetSince(items, stack[k].done)

\* An expression with a target list in it has no param_refs when it ends.
Plain(fp, refs) == refs = <<>> \/ Nests[fp] # "select"

NoRefsOfNested ==
  \A k \in 1..Len(stack) :
    /\ stack[k].kind = "select" =>
         \A j \in 1..Len(stack[k].targets) :
           Plain(stack[k].targets[j].fp, stack[k].targets[j].refs)
    /\ stack[k].kind # "select" =>
         stack[k].fppr = None \/ Plain(stack[k].fp, stack[k].fppr)

\* A target list entry within an item is of a SELECT within the item.
SelectsCounted ==
  \A k \in 1..Len(stack) : stack[k].kind # "select" =>
    /\ k < Len(stack) => stack[k].made < selects
    /\ TargetSince(items, stack[k].done) => stack[k].made < selects

Dense ==
  /\ highest_normalize_param_id >= 1
  /\ NumbersOf(clocations, Len(clocations)) = 1..(highest_normalize_param_id - 1)

IndInv ==
  /\ TypeInv /\ Shape /\ Before /\ Nested /\ Dense /\ RefsKnown /\ Consecutive
  /\ NothingToShare /\ Recording /\ NoRefsOfNested /\ SelectsCounted

-----------------------------------------------------------------------------
(* What the actions do to the stack. *)

\* The same call of the walker, at another clause maybe.
SameFrame(f, g) ==
  /\ g.kind = f.kind
  /\ f.kind = "select" => g.targets = f.targets
  /\ f.kind # "select" => g = f

\* A frame is that of a SELECT or that of an item.
LEMMA FrameKinds ==
  /\ \A f \in Frames : f.kind = "select" => f \in SelectFrames
  /\ \A f \in Frames : f.kind # "select" => f \in ItemFrames
  /\ \A f \in Frames : f.id \in Nat
  BY DEF Frames, SelectFrames, ItemFrames

\* The innermost call, if any, is one of the calls under way.
LEMMA TopFrame ==
  ASSUME TypeInv, stack # <<>>
  PROVE  Len(stack) \in 1..Len(stack) /\ Top \in Frames
  BY DEF TypeInv, Top

\* The walk of a SELECT goes on to another clause.
LEMMA NextPhase ==
  ASSUME TypeInv, Under("select"), NEW p \in Phases
  PROVE  LET t == [stack EXCEPT ![Len(stack)].phase = p]
         IN  /\ t \in Seq(Frames) /\ Len(t) = Len(stack)
             /\ \A k \in 1..Len(stack) : SameFrame(stack[k], t[k])
<1> DEFINE n == Len(stack)
           f == [stack[n] EXCEPT !.phase = p]
           t == [stack EXCEPT ![n] = f]
<1>1. n \in 1..Len(stack) /\ stack[n] \in SelectFrames
  BY TopFrame, FrameKinds DEF Under, Top
<1>2. f \in Frames /\ SameFrame(stack[n], f)
  BY <1>1 DEF Frames, SelectFrames, SameFrame
<1>3. [stack EXCEPT ![Len(stack)].phase = p] = t
  OBVIOUS
<1>4. stack \in Seq(Frames)
  BY DEF TypeInv
<1> HIDE DEF f
<1>5. t \in Seq(Frames) /\ Len(t) = Len(stack)
  BY <1>1, <1>2, <1>4
<1>6. \A k \in 1..Len(stack) : t[k] = IF k = n THEN f ELSE stack[k]
  BY <1>1, <1>4
<1>7. \A k \in 1..Len(stack) : SameFrame(stack[k], t[k])
  BY <1>2, <1>6 DEF SameFrame
<1> QED BY <1>3, <1>5, <1>7

\* A constant or SELECT between two lists only moves its SELECT to a later clause.
LEMMA ClauseFrames ==
  ASSUME TypeInv
  PROVE  /\ Clause \in Seq(Frames) /\ Len(Clause) = Len(stack)
         /\ \A k \in 1..Len(stack) : SameFrame(stack[k], Clause[k])
<1>1. CASE Under("select")
  <2> DEFINE p == AfterClause(stack[Len(stack)].phase)
  <2>1. p \in Phases
    BY <1>1, TopFrame, FrameKinds
    DEF Under, Top, AfterClause, Phases, SelectFrames
  <2>2. Clause = [stack EXCEPT ![Len(stack)].phase = p]
    BY <1>1 DEF Clause
  <2> HIDE DEF p
  <2> QED BY <1>1, <2>1, <2>2, NextPhase
<1>2. CASE ~Under("select")
  BY <1>2 DEF Clause, TypeInv, SameFrame
<1> QED BY <1>1, <1>2

\* A call begins.
LEMMA Push ==
  ASSUME NEW s \in Seq(Frames), NEW f \in Frames
  PROVE  /\ Append(s, f) \in Seq(Frames) /\ Len(Append(s, f)) = Len(s) + 1
         /\ \A k \in 1..Len(s) : Append(s, f)[k] = s[k]
         /\ Append(s, f)[Len(s) + 1] = f
  OBVIOUS

\* A call ends.
LEMMA Pop ==
  ASSUME TypeInv, stack # <<>>
  PROVE  LET t == SubSeq(stack, 1, Len(stack) - 1)
         IN  /\ t \in Seq(Frames) /\ Len(t) = Len(stack) - 1
             /\ \A k \in 1..(Len(stack) - 1) : t[k] = stack[k]
<1> DEFINE n == Len(stack) - 1
<1>1. stack \in Seq(Frames) /\ n \in Nat /\ n <= Len(stack)
  BY TopFrame DEF TypeInv
<1>2. /\ SubSeq(stack, 1, n) \in Seq(Frames) /\ Len(SubSeq(stack, 1, n)) = n
      /\ \A k \in 1..n : SubSeq(stack, 1, n)[k] = stack[k]
  BY <1>1, SubSeqProperties
<1> QED BY <1>2

\* The list without one of its entries.
LEMMA WithoutEntries ==
  ASSUME NEW S, NEW s \in Seq(S), NEW i \in 1..Len(s)
  PROVE  /\ Without(s, i) \in Seq(S) /\ Len(Without(s, i)) = Len(s) - 1
         /\ \A j \in 1..Len(Without(s, i)) :
              \E m \in 1..Len(s) : Without(s, i)[j] = s[m]
<1> DEFINE a == SubSeq(s, 1, i - 1)
           b == SubSeq(s, i + 1, Len(s))
<1>1. a \in Seq(S) /\ Len(a) = i - 1 /\ \A j \in 1..(i - 1) : a[j] = s[j]
  OBVIOUS
<1>2. /\ b \in Seq(S) /\ Len(b) = Len(s) - i
      /\ \A j \in 1..(Len(s) - i) : b[j] = s[i + j]
  OBVIOUS
<1>3. Without(s, i) = a \o b
  BY DEF Without
<1> HIDE DEF a, b
<1>4. a \o b \in Seq(S) /\ Len(a \o b) = Len(s) - 1
  <2>1. a \o b \in Seq(S) /\ Len(a \o b) = Len(a) + Len(b)
    BY <1>1, <1>2, ConcatProperties
  <2>2. Len(s) \in Nat
    OBVIOUS
  <2> QED BY <1>1, <1>2, <2>1, <2>2
<1>5. \A j \in 1..(Len(s) - 1) :
        (a \o b)[j] = IF j <= i - 1 THEN a[j] ELSE b[j - (i - 1)]
  <2>1. \A j \in 1..(Len(a) + Len(b)) :
          (a \o b)[j] = IF j <= Len(a) THEN a[j] ELSE b[j - Len(a)]
    BY <1>1, <1>2, ConcatProperties
  <2>2. Len(a) = i - 1 /\ Len(a) + Len(b) = Len(s) - 1
    BY <1>1, <1>2
  <2> QED BY <2>1, <2>2
<1>6. ASSUME NEW j \in 1..(Len(s) - 1)
      PROVE  \E m \in 1..Len(s) : (a \o b)[j] = s[m]
  <2>1. CASE j <= i - 1
    BY <1>1, <1>5, <2>1
  <2>2. CASE ~(j <= i - 1)
    <3>1. j - (i - 1) \in 1..(Len(s) - i) /\ i + (j - (i - 1)) \in 1..Len(s)
      BY <2>2
    <3> QED BY <1>2, <1>5, <2>2, <3>1
  <2> QED BY <2>1, <2>2
<1> QED BY <1>3, <1>4, <1>6

\* The first entry with a fingerprint is one of them.
LEMMA FirstMatch ==
  ASSUME NEW S \in SUBSET Nat, S # {}
  PROVE  First(S) \in S
<1> DEFINE R == {ss \in Nat \X Nat : ss[1] < ss[2]}
<1>1. IsWellFoundedOn(R, Nat)
  BY NatLessThanWellFounded DEF OpToRel
<1> HIDE DEF R
<1>2. PICK x \in S : \A y \in S : ~(<<y, x>> \in R)
  BY <1>1, WFMin
<1>3. \A y \in S : y \in Nat /\ ~(y < x)
  BY <1>2 DEF R
<1>4. \A y \in S : x <= y
  BY <1>3
<1> QED BY <1>4 DEF First

\* What every step within the walk does to the stack: it keeps the calls up to
\* the innermost (Keeps), or that one begins, changes or ends.
Keeps(n) == \A k \in 1..n : SameFrame(stack[k], stack'[k])

\* A constant or $n begins and ends no call.
LEMMA MeetFrames ==
  ASSUME TypeInv, NEW leaf, Meet(leaf)
  PROVE  stack' \in Seq(Frames) /\ Len(stack') = Len(stack) /\ Keeps(Len(stack))
  BY ClauseFrames DEF Meet, Keeps

\* T_SelectStmt: a call begins, with an empty fp_and_param_refs_list.
LEMMA SelectBeginFrames ==
  ASSUME TypeInv, SelectBegin
  PROVE  /\ stack' \in Seq(Frames) /\ Len(stack') = Len(stack) + 1
         /\ Keeps(Len(stack))
         /\ stack'[Len(stack) + 1].kind = "select"
         /\ stack'[Len(stack) + 1].targets = <<>>
<1>1. Select \in Frames /\ Select.kind = "select" /\ Select.targets = <<>>
  BY DEF Select, Frames, SelectFrames, TypeInv, Phases
<1> HIDE DEF Select
<1>2. stack' = Append(Clause, Select)
  BY DEF SelectBegin
<1> QED BY <1>1, <1>2, ClauseFrames, Push DEF Keeps

\* The walk of a SELECT ends: its frame goes.
LEMMA SelectEndFrames ==
  ASSUME TypeInv, SelectEnd
  PROVE  /\ stack' \in Seq(Frames) /\ Len(stack') = Len(stack) - 1
         /\ Len(stack) >= 1 /\ stack[Len(stack)].kind = "select"
         /\ \A k \in 1..(Len(stack) - 1) : stack'[k] = stack[k]
  BY TopFrame, Pop DEF SelectEnd, Under, Top

\* The frame of a new item.
BeginsItem(f, kind, fp, fppr) ==
  /\ f \in ItemFrames /\ f.kind = kind /\ f.fp = fp /\ f.fppr = fppr
  /\ f.prev = Len(clocations) /\ f.made = selects /\ f.done = Len(items)

\* An item begins with the counts of that moment.
LEMMA NewItem ==
  ASSUME TypeInv, Under("select"), NEW kind \in {"target", "group"},
         NEW fp \in Fingerprints, NEW fppr \in Seq(Int) \union {None}
  PROVE  Item(kind, fp, fppr) \in Frames
         /\ BeginsItem(Item(kind, fp, fppr), kind, fp, fppr)
<1>1. Top.id \in Nat
  BY TopFrame, FrameKinds DEF Under
<1>2. Len(clocations) \in Nat /\ Len(trace) \in Nat /\ Len(items) \in Nat
      /\ selects \in Nat
  BY DEF TypeInv
<1> QED BY <1>1, <1>2 DEF Item, BeginsItem, Frames, ItemFrames

\* A target list entry begins: a frame for it, with nothing to take over.
LEMMA TargetBeginFrames ==
  ASSUME TypeInv, NEW fp \in Fingerprints, TargetBegin(fp)
  PROVE  /\ stack' \in Seq(Frames) /\ Len(stack') = Len(stack) + 1
         /\ Len(stack) >= 1 /\ stack[Len(stack)].kind = "select"
         /\ Keeps(Len(stack))
         /\ BeginsItem(stack'[Len(stack) + 1], "target", fp, None)
<1> DEFINE t == [stack EXCEPT ![Len(stack)].phase = "targets"]
           f == Item("target", fp, None)
<1>1. /\ t \in Seq(Frames) /\ Len(t) = Len(stack)
      /\ \A k \in 1..Len(stack) : SameFrame(stack[k], t[k])
  BY NextPhase DEF TargetBegin, Phases
<1>2. f \in Frames /\ BeginsItem(f, "target", fp, None)
  BY NewItem DEF TargetBegin
<1>3. stack' = Append(t, f)
  BY DEF TargetBegin
<1>4. Len(stack) >= 1 /\ stack[Len(stack)].kind = "select"
  BY TopFrame DEF TargetBegin, Under, Top
<1> HIDE DEF t, f
<1> QED BY <1>1, <1>2, <1>3, <1>4, Push DEF Keeps

\* What a target list entry remembers when it ends.
Remembered == IF param_refs = None THEN <<>> ELSE param_refs

\* A target list entry ends: its SELECT has one more entry to match.
LEMMA TargetEndFrames ==
  ASSUME TypeInv, Shape, TargetEnd
  PROVE  LET n == Len(stack) - 1
         IN  /\ stack' \in Seq(Frames) /\ Len(stack') = n /\ n \in 1..Len(stack)
             /\ Top \in ItemFrames /\ Top.kind = "target"
             /\ \A k \in 1..(n - 1) : stack'[k] = stack[k]
             /\ stack[n].kind = "select" /\ stack'[n].kind = "select"
             /\ stack'[n].targets =
                  Append(stack[n].targets, [fp |-> Top.fp, refs |-> Remembered])
<1> DEFINE n == Len(stack) - 1
           e == [fp |-> Top.fp, refs |-> Remembered]
           t == SubSeq(stack, 1, n)
           l == Append(t[n].targets, e)
           f == [t[n] EXCEPT !.targets = l]
<1>1. /\ Len(stack) \in 1..Len(stack) /\ Top \in ItemFrames
      /\ Top.kind = "target"
  BY TopFrame, FrameKinds DEF TargetEnd, Under
<1>2. n \in Nat /\ n \in 1..Len(stack) /\ stack[n].kind = "select"
  BY <1>1 DEF Shape, Top
<1>3. t \in Seq(Frames) /\ Len(t) = n /\ \A k \in 1..n : t[k] = stack[k]
  BY <1>1, Pop
<1>4. stack' = [t EXCEPT ![n] = f]
  BY DEF TargetEnd, ItemBelow, Remembered
<1>5. t[n] \in SelectFrames
  BY <1>2, <1>3, FrameKinds
<1>6. e \in Entries
  BY <1>1 DEF Entries, ItemFrames, Remembered, TypeInv
<1> HIDE DEF t, e
<1>7. l \in Seq(Entries)
  BY <1>5, <1>6 DEF SelectFrames
<1> HIDE DEF l
<1>8. f \in Frames /\ f.kind = "select" /\ f.targets = l
  BY <1>5, <1>7 DEF Frames, SelectFrames
<1> HIDE DEF f
<1>9. /\ stack' \in Seq(Frames) /\ Len(stack') = n
      /\ \A k \in 1..n : stack'[k] = IF k = n THEN f ELSE t[k]
  BY <1>2, <1>3, <1>4, <1>8
<1>10. \A k \in 1..(n - 1) : stack'[k] = stack[k]
  BY <1>2, <1>3, <1>9
<1>11. stack'[n] = f /\ t[n] = stack[n]
  BY <1>2, <1>3, <1>9
<1>12. stack'[n].targets = Append(stack[n].targets, e)
  BY <1>8, <1>11 DEF l
<1> QED BY <1>1, <1>2, <1>8, <1>9, <1>10, <1>11, <1>12 DEF e

\* A GROUP BY item begins: it has taken the first like entry off the list, or
\* there is none.
TakesEntry(fp, s, t, f) ==
  \/ /\ SameFrame(s, t) /\ BeginsItem(f, "group", fp, None)
  \/ /\ t.kind = "select"
     /\ \A j \in 1..Len(t.targets) :
          \E m \in 1..Len(s.targets) : t.targets[j] = s.targets[m]
     /\ \E m \in 1..Len(s.targets) :
          s.targets[m].fp = fp /\ BeginsItem(f, "group", fp, s.targets[m].refs)

\* A GROUP BY item begins: lfirst of the matching entry, which goes, is its fppr.
LEMMA GroupBeginFrames ==
  ASSUME TypeInv, NEW fp \in Fingerprints, GroupBegin(fp)
  PROVE  LET n == Len(stack)
         IN  /\ stack' \in Seq(Frames) /\ Len(stack') = n + 1
             /\ n \in 1..n /\ stack[n].kind = "select"
             /\ Keeps(n - 1)
             /\ TakesEntry(fp, stack[n], stack'[n], stack'[n + 1])
<1> DEFINE n == Len(stack)
           t == [stack EXCEPT ![n].phase = "group"]
           i == First(Matching(fp))
<1>1. n \in 1..n /\ stack[n] \in SelectFrames /\ stack[n].kind = "select"
  BY TopFrame, FrameKinds DEF GroupBegin, Under, Top
<1>2. /\ t \in Seq(Frames) /\ Len(t) = n
      /\ \A k \in 1..n : SameFrame(stack[k], t[k])
  BY NextPhase DEF GroupBegin, Phases
<1>3. CASE Matching(fp) = {}
  <2> DEFINE f == Item("group", fp, None)
  <2>1. f \in Frames /\ BeginsItem(f, "group", fp, None)
    BY NewItem DEF GroupBegin
  <2>2. stack' = Append(t, f)
    BY <1>3 DEF GroupBegin
  <2> HIDE DEF t, f
  <2> QED BY <1>1, <1>2, <2>1, <2>2, Push DEF Keeps, TakesEntry
<1>4. CASE Matching(fp) # {}
  <2> DEFINE ts == stack[n].targets
             f == Item("group", fp, Top.targets[i].refs)
             g == [t[n] EXCEPT !.targets = Without(@, i)]
             u == [t EXCEPT ![n] = g]
  <2>1. Matching(fp) \in SUBSET Nat
    BY DEF Matching
  <2>2. i \in 1..Len(ts) /\ ts[i].fp = fp
    BY <1>4, <2>1, FirstMatch DEF Matching, Top
  <2>3. ts \in Seq(Entries)
    BY <1>1 DEF SelectFrames
  <2> HIDE DEF i
  <2> HIDE DEF ts
  <2>4. ts[i].refs \in Seq(Int)
    <3>1. ts[i] \in Entries
      BY <2>2, <2>3
    <3> QED BY <3>1 DEF Entries
  <2>5. f \in Frames /\ BeginsItem(f, "group", fp, ts[i].refs)
    BY <2>4, NewItem DEF GroupBegin, Top, ts
  <2>6. stack' = Append(u, f)
    BY <1>4 DEF GroupBegin, i
  <2> HIDE DEF t
  <2>7. t[n] \in SelectFrames /\ t[n].targets = ts
    BY <1>1, <1>2, FrameKinds DEF SameFrame, ts
  <2> HIDE DEF f
  <2>8. /\ Without(ts, i) \in Seq(Entries)
        /\ \A j \in 1..Len(Without(ts, i)) :
             \E m \in 1..Len(ts) : Without(ts, i)[j] = ts[m]
    BY <2>2, <2>3, WithoutEntries
  <2>9. g \in Frames /\ g.kind = "select" /\ g.targets = Without(ts, i)
    BY <2>7, <2>8 DEF Frames, SelectFrames
  <2> HIDE DEF g
  <2>10. /\ u \in Seq(Frames) /\ Len(u) = n
         /\ \A k \in 1..n : u[k] = IF k = n THEN g ELSE t[k]
    BY <1>1, <1>2, <2>9
  <2> HIDE DEF u
  <2>11. /\ stack' \in Seq(Frames) /\ Len(stack') = n + 1
         /\ \A k \in 1..n : stack'[k] = u[k]
         /\ stack'[n + 1] = f
    BY <2>5, <2>6, <2>10, Push
  <2>12. Keeps(n - 1)
    BY <1>1, <1>2, <2>10, <2>11 DEF Keeps
  <2>13. stack'[n] = g
    BY <1>1, <2>10, <2>11
  <2>14. TakesEntry(fp, stack[n], g, f)
    BY <2>2, <2>5, <2>8, <2>9 DEF TakesEntry, ts
  <2> QED BY <1>1, <2>11, <2>12, <2>13, <2>14
<1> QED BY <1>3, <1>4

\* A GROUP BY item ends: its frame goes.
LEMMA GroupEndFrames ==
  ASSUME TypeInv, GroupEnd
  PROVE  /\ stack' \in Seq(Frames) /\ Len(stack') = Len(stack) - 1
         /\ Len(stack) \in 1..Len(stack) /\ Top \in ItemFrames
         /\ Top.kind = "group"
         /\ \A k \in 1..(Len(stack) - 1) : stack'[k] = stack[k]
  BY TopFrame, FrameKinds, Pop DEF GroupEnd, Under, ItemBelow

-----------------------------------------------------------------------------
(* The history, and the types. *)

\* An item that ends is recorded.
LEMMA RecordItem ==
  ASSUME TypeInv, Top \in ItemFrames, Record
  PROVE  /\ items' \in Seq(Items) /\ Len(items') = Len(items) + 1
         /\ \A i \in 1..Len(items) : items'[i] = items[i]
         /\ items'[Len(items) + 1].kind = Top.kind
<1> DEFINE s == SubSeq(trace, Top.start + 1, Len(trace))
           r == [kind |-> Top.kind, id |-> Top.id, fp |-> Top.fp,
                 prev |-> Top.prev, last |-> Len(clocations), text |-> s]
<1>1. /\ Top.kind \in {"target", "group"} /\ Top.id \in Nat
      /\ Top.fp \in Fingerprints /\ Top.prev \in Nat /\ Top.start \in Nat
  BY DEF ItemFrames
<1>2. Len(clocations) \in Nat /\ trace \in Seq(Int) /\ items \in Seq(Items)
  BY DEF TypeInv
<1>3. s \in Seq(Int)
  BY <1>1, <1>2, SubSeqProperties
<1> HIDE DEF s
<1>4. r \in Items /\ r.kind = Top.kind
  BY <1>1, <1>2, <1>3 DEF Items
<1>5. items' = Append(items, r)
  BY DEF Record, s
<1> HIDE DEF r
<1> QED BY <1>2, <1>4, <1>5

\* Every step of the walk keeps the types.
LEMMA TypeStep ==
  ASSUME TypeInv, Shape, Next
  PROVE  TypeInv'
<1>1. CASE RecordConstLocation
  BY <1>1, MeetFrames DEF RecordConstLocation, Meet, Remember, Const, TypeInv
<1>2. ASSUME NEW n \in Numbers, ParamRef(n) PROVE TypeInv'
  BY <1>2, MeetFrames, NumbersAssumption DEF ParamRef, Meet, Remember, TypeInv
<1>3. CASE SelectBegin
  BY <1>3, SelectBeginFrames DEF SelectBegin, TypeInv
<1>4. CASE SelectEnd
  BY <1>4, SelectEndFrames DEF SelectEnd, TypeInv
<1>5. CASE TargetEnd
  BY <1>5, TargetEndFrames, RecordItem DEF TargetEnd, TypeInv
<1>6. CASE GroupEnd
  <2>1. Top \in ItemFrames /\ stack' \in Seq(Frames)
    BY <1>6, GroupEndFrames
  <2>2. items' \in Seq(Items)
    BY <1>6, <2>1, RecordItem DEF GroupEnd
  <2>3. CASE Matches
    <3>1. /\ Top.fppr \in Seq(Int) /\ Top.prev \in Nat
          /\ Len(Top.fppr) = Len(clocations) - Top.prev
      BY <2>1, <2>3 DEF Matches, ItemFrames
    <3>2. \A i \in 1..Len(clocations) : i > Top.prev =>
            i - Top.prev \in 1..Len(Top.fppr)
      BY <3>1 DEF TypeInv
    <3>3. clocations' \in Seq(Int)
      <4> DEFINE F(i) == IF i > Top.prev THEN Top.fppr[i - Top.prev]
                         ELSE clocations[i]
      <4>1. ASSUME NEW i \in 1..Len(clocations) PROVE F(i) \in Int
        <5>1. clocations[i] \in Int
          BY DEF TypeInv
        <5>2. i > Top.prev => Top.fppr[i - Top.prev] \in Int
          BY <3>1, <3>2
        <5> QED BY <5>1, <5>2
      <4>2. clocations' = [i \in 1..Len(clocations) |-> F(i)]
        BY <1>6, <2>3 DEF GroupEnd, TypeInv
      <4>3. Len(clocations) \in Nat
        BY DEF TypeInv
      <4> HIDE DEF F
      <4> QED BY <4>1, <4>2, <4>3
    <3>4. highest_normalize_param_id' \in Int
      BY <1>6, <2>3, <3>1 DEF GroupEnd, TypeInv
    <3> QED BY <1>6, <2>1, <2>2, <3>3, <3>4 DEF GroupEnd, TypeInv
  <2>4. CASE ~Matches
    BY <1>6, <2>1, <2>2, <2>4 DEF GroupEnd, TypeInv
  <2> QED BY <2>3, <2>4
<1>7. CASE Fail
  BY <1>7 DEF Fail, TypeInv
<1>8. ASSUME NEW fp \in Fingerprints, TargetBegin(fp) PROVE TypeInv'
  <2>1. stack' \in Seq(Frames)
    BY <1>8, TargetBeginFrames
  <2>2. /\ param_refs' = <<>>
        /\ UNCHANGED <<clocations, highest_normalize_param_id,
                       highest_extern_param_id, failed, trace, items, selects>>
    BY <1>8 DEF TargetBegin
  <2> QED BY <2>1, <2>2 DEF TypeInv
<1>9. ASSUME NEW fp \in Fingerprints, GroupBegin(fp) PROVE TypeInv'
  BY <1>9, GroupBeginFrames DEF GroupBegin, TypeInv
<1> QED BY <1>1, <1>2, <1>3, <1>4, <1>5, <1>6, <1>7, <1>8, <1>9 DEF Next

\* A GROUP BY item that ends is no target list entry that does.
LEMMA GroupIsNoTarget ==
  ASSUME TypeInv, Top \in ItemFrames, Record, Top.kind = "group",
         NEW n \in Nat, n <= Len(items)
  PROVE  TargetSince(items', n) <=> TargetSince(items, n)
<1>1. /\ Len(items') = Len(items) + 1 /\ Len(items) \in Nat
      /\ \A i \in 1..Len(items) : items'[i] = items[i]
      /\ items'[Len(items) + 1].kind = "group"
  BY RecordItem DEF TypeInv
<1> QED BY <1>1 DEF TargetSince

\* A target list entry that ends has ended since any earlier moment.
LEMMA TargetIsTarget ==
  ASSUME TypeInv, Top \in ItemFrames, Record, Top.kind = "target",
         NEW n \in Nat, n <= Len(items)
  PROVE  TargetSince(items', n)
<1>1. /\ Len(items') = Len(items) + 1 /\ Len(items) \in Nat
      /\ items'[Len(items) + 1].kind = "target"
  BY RecordItem DEF TypeInv
<1> QED BY <1>1 DEF TargetSince

\* Later is later.
LEMMA SinceMonotone ==
  ASSUME NEW m \in Nat, NEW n \in Nat, m <= n, TypeInv,
         TargetSince(items, n)
  PROVE  TargetSince(items, m)
  BY DEF TargetSince, TypeInv

\* No target list entry has ended since just now.
LEMMA NoneSinceNow ==
  ASSUME TypeInv
  PROVE  ~TargetSince(items, Len(items))
  BY DEF TargetSince, TypeInv

-----------------------------------------------------------------------------
(* The numbers. *)

\* The numbers of the first n constants are those of these constants.
LEMMA NumbersOfPrefix ==
  ASSUME NEW c, NEW d, NEW n, \A i \in 1..n : c[i] = d[i]
  PROVE  NumbersOf(c, n) = NumbersOf(d, n)
  BY DEF NumbersOf

\* More constants have no fewer numbers.
LEMMA NumbersOfMore ==
  ASSUME NEW c, NEW m \in Nat, NEW n \in Nat, m <= n
  PROVE  NumbersOf(c, m) \subseteq NumbersOf(c, n)
  BY DEF NumbersOf

\* One more constant.
LEMMA NumbersOfAppend ==
  ASSUME NEW c \in Seq(Int), NEW x \in Int, x < 0
  PROVE  /\ \A n \in Nat : n <= Len(c) =>
              NumbersOf(Append(c, x), n) = NumbersOf(c, n)
         /\ NumbersOf(Append(c, x), Len(c) + 1)
              = NumbersOf(c, Len(c)) \union {-x}
<1> DEFINE d == Append(c, x)
<1>1. /\ \A i \in 1..Len(c) : d[i] = c[i]
      /\ d[Len(c) + 1] = x /\ Len(c) \in Nat
  OBVIOUS
<1> HIDE DEF d
<1>2. ASSUME NEW n \in Nat, n <= Len(c)
      PROVE  NumbersOf(d, n) = NumbersOf(c, n)
  <2>1. \A i \in 1..n : d[i] = c[i]
    BY <1>1, <1>2
  <2> QED BY <2>1, NumbersOfPrefix
<1>3. NumbersOf(d, Len(c) + 1) = NumbersOf(d, Len(c)) \union {-x}
  <2>1. 1..(Len(c) + 1) = (1..Len(c)) \union {Len(c) + 1}
    BY <1>1
  <2> QED BY <1>1, <2>1 DEF NumbersOf
<1> QED BY <1>1, <1>2, <1>3 DEF d

\* What is known stays known where no number goes.
LEMMA KnownStays ==
  ASSUME NEW c, NEW d, NEW m, NEW n, NumbersOf(c, m) \subseteq NumbersOf(d, n),
         NEW refs, Known(c, m, refs)
  PROVE  Known(d, n, refs)
  BY DEF Known

\* ... and so for all that a call may still take over.
LEMMA FrameKnownStays ==
  ASSUME NEW c, NEW d, NEW m, NEW n, NumbersOf(c, m) \subseteq NumbersOf(d, n),
         NEW f, NEW g, SameFrame(f, g), FrameKnown(c, m, f)
  PROVE  FrameKnown(d, n, g)
<1>1. CASE f.kind = "select"
  <2>1. \A j \in 1..Len(g.targets) : Known(c, m, g.targets[j].refs)
    BY <1>1 DEF SameFrame, FrameKnown
  <2>2. \A j \in 1..Len(g.targets) : Known(d, n, g.targets[j].refs)
    BY <2>1, KnownStays
  <2> QED BY <1>1, <2>2 DEF SameFrame, FrameKnown
<1>2. CASE f.kind # "select"
  BY <1>2, KnownStays DEF SameFrame, FrameKnown
<1> QED BY <1>1, <1>2

-----------------------------------------------------------------------------
(* The actions, one by one. *)

\* Facts about a frame that its phase does not matter for.
LEMMA SameFrameFacts ==
  ASSUME NEW f, NEW g, SameFrame(f, g)
  PROVE  /\ g.kind = f.kind
         /\ f.kind # "select" => g = f
         /\ f.kind = "select" => g.targets = f.targets
  BY DEF SameFrame

\* The numbers of an item under way are natural numbers.
LEMMA ItemNumbers ==
  ASSUME TypeInv, NEW k \in 1..Len(stack), stack[k].kind # "select"
  PROVE  /\ stack[k] \in ItemFrames
         /\ stack[k].prev \in Nat /\ stack[k].done \in Nat /\ stack[k].made \in Nat
         /\ stack[k].fppr \in Seq(Int) \union {None}
<1>1. stack[k] \in Frames
  BY DEF TypeInv
<1>2. stack[k] \in ItemFrames
  BY <1>1, FrameKinds
<1> QED BY <1>2 DEF ItemFrames

\* A leaf, whether constant or $n, leaves the calls as they are.
LEMMA LeafKeeps ==
  ASSUME IndInv, NEW leaf, Meet(leaf), Len(clocations) <= Len(clocations'),
         Len(clocations') \in Nat
  PROVE  /\ Shape' /\ Before' /\ Nested'
         /\ NothingToShare' /\ NoRefsOfNested' /\ SelectsCounted'
         /\ \A k \in 1..Len(stack) : SameFrame(stack[k], stack'[k])
         /\ Len(stack') = Len(stack)
<1>1. TypeInv /\ Len(stack) \in Nat /\ Len(clocations) \in Nat
  BY DEF IndInv, TypeInv
<1>2. /\ Len(stack') = Len(stack)
      /\ \A k \in 1..Len(stack) : SameFrame(stack[k], stack'[k])
  BY <1>1, MeetFrames DEF Keeps
<1>3. \A k \in 1..Len(stack) :
        /\ stack'[k].kind = stack[k].kind
        /\ stack[k].kind # "select" => stack'[k] = stack[k]
        /\ stack[k].kind = "select" => stack'[k].targets = stack[k].targets
  BY <1>2, SameFrameFacts
<1>4. items' = items /\ selects' = selects
  BY DEF Meet
<1>5. Shape'
  BY <1>1, <1>2, <1>3 DEF IndInv, Shape
<1>6. Before'
  BY <1>1, <1>2, <1>3, <1>4, ItemNumbers DEF IndInv, Before
<1>7. Nested'
  BY <1>2, <1>3 DEF IndInv, Nested
<1>8. NothingToShare'
  BY <1>2, <1>3, <1>4 DEF IndInv, NothingToShare
<1>9. NoRefsOfNested'
  BY <1>2, <1>3 DEF IndInv, NoRefsOfNested
<1>10. SelectsCounted'
  BY <1>2, <1>3, <1>4 DEF IndInv, SelectsCounted
<1> QED BY <1>2, <1>5, <1>6, <1>7, <1>8, <1>9, <1>10

\* A leaf that goes to param_refs has a number that its constant has.
LEMMA RememberKnown ==
  ASSUME TypeInv, NEW c, NEW n, NEW id \in Int, Remember(id),
         param_refs = None \/ Known(c, n, param_refs),
         id < 0 => -id \in NumbersOf(c, n)
  PROVE  param_refs' = None \/ Known(c, n, param_refs')
<1>1. CASE param_refs = None
  BY <1>1 DEF Remember
<1>2. CASE param_refs # None
  <2>1. param_refs \in Seq(Int) /\ param_refs' = Append(param_refs, id)
    BY <1>2 DEF Remember, TypeInv
  <2>2. /\ Len(param_refs') = Len(param_refs) + 1 /\ Len(param_refs) \in Nat
        /\ \A j \in 1..Len(param_refs) : param_refs'[j] = param_refs[j]
        /\ param_refs'[Len(param_refs) + 1] = id
    BY <2>1
  <2> QED BY <1>2, <2>2 DEF Known
<1> QED BY <1>1, <1>2

\* A leaf does not end the target list entry that is recording.
LEMMA RecordingKept ==
  ASSUME IndInv, NEW leaf, Meet(leaf), NEW id, Remember(id),
         Len(stack') = Len(stack),
         \A k \in 1..Len(stack) : SameFrame(stack[k], stack'[k])
  PROVE  Recording'
<1>1. param_refs' # None => param_refs # None
  BY DEF Remember
<1>2. items' = items
  BY DEF Meet
<1> QED BY <1>1, <1>2, SameFrameFacts DEF IndInv, Recording

\* One more number, for one more constant.
LEMMA OneMoreOfBoth ==
  ASSUME NEW a \in Int, NEW b \in Int, NEW c \in Int,
         NEW d \in Int, NEW e \in Int, d = a + 1, e = b + 1
  PROVE  d - 1 - (e - c) = a - 1 - (b - c)
  OBVIOUS

\* RecordConstLocation: one more constant, with the next number.
LEMMA RecordConstLocationInv ==
  ASSUME IndInv, RecordConstLocation
  PROVE  IndInv'
<1> DEFINE h == highest_normalize_param_id
<1>1. /\ TypeInv /\ clocations \in Seq(Int) /\ h \in Int /\ h >= 1
      /\ Len(clocations) \in Nat
  BY DEF IndInv, TypeInv, Dense
<1>2. /\ clocations' = Append(clocations, -h) /\ Len(clocations') = Len(clocations) + 1
      /\ highest_normalize_param_id' = h + 1 /\ Meet(Const) /\ Remember(-h)
  BY <1>1 DEF RecordConstLocation
<1>3. TypeInv'
  BY <1>1, TypeStep DEF Next, IndInv
<1>4. /\ Shape' /\ Before' /\ Nested'
      /\ NothingToShare' /\ NoRefsOfNested' /\ SelectsCounted'
      /\ \A k \in 1..Len(stack) : SameFrame(stack[k], stack'[k])
      /\ Len(stack') = Len(stack)
  BY <1>1, <1>2, LeafKeeps
<1>5. /\ \A n \in Nat : n <= Len(clocations) =>
           NumbersOf(clocations', n) = NumbersOf(clocations, n)
      /\ NumbersOf(clocations', Len(clocations'))
           = NumbersOf(clocations, Len(clocations)) \union {h}
  <2>1. -h \in Int /\ -h < 0 /\ -(-h) = h
    BY <1>1
  <2> QED BY <1>1, <1>2, <2>1, NumbersOfAppend
<1>6. Dense'
  <2>1. 1..h = (1..(h - 1)) \union {h}
    BY <1>1
  <2>2. highest_normalize_param_id' - 1 = h /\ highest_normalize_param_id' >= 1
    BY <1>1, <1>2
  <2>3. NumbersOf(clocations, Len(clocations)) = 1..(h - 1)
    BY DEF IndInv, Dense
  <2> QED BY <1>5, <2>1, <2>2, <2>3 DEF Dense
<1>7. RefsKnown'
  <2>1. ASSUME NEW i \in 1..Len(stack)
        PROVE  FrameKnown(clocations', Len(clocations'), stack'[i])
    BY <1>4, <1>5, FrameKnownStays DEF IndInv, RefsKnown
  <2>2. ASSUME NEW i \in 1..Len(stack), NEW k \in 1..Len(stack),
               stack'[k].kind # "select", i <= k
        PROVE  FrameKnown(clocations', stack'[k].prev, stack'[i])
    <3>1. stack[k].kind # "select" /\ stack'[k] = stack[k]
      BY <1>4, <2>2, SameFrameFacts
    <3>2. stack[k].prev \in Nat /\ stack[k].prev <= Len(clocations)
      BY <1>1, <3>1, ItemNumbers DEF IndInv, Before
    <3>3. NumbersOf(clocations', stack[k].prev) = NumbersOf(clocations, stack[k].prev)
      BY <1>5, <3>2
    <3>4. FrameKnown(clocations, stack[k].prev, stack[i])
      BY <2>2, <3>1 DEF IndInv, RefsKnown
    <3> QED BY <1>4, <3>1, <3>3, <3>4, FrameKnownStays
  <2>3. param_refs' = None \/ Known(clocations', Len(clocations'), param_refs')
    <3>1. param_refs = None \/ Known(clocations', Len(clocations'), param_refs)
      BY <1>5, KnownStays DEF IndInv, RefsKnown
    <3>2. -h \in Int /\ -(-h) \in NumbersOf(clocations', Len(clocations'))
      BY <1>1, <1>5
    <3> QED BY <1>1, <1>2, <3>1, <3>2, RememberKnown
  <2> QED BY <1>4, <2>1, <2>2, <2>3 DEF RefsKnown
<1>8. Consecutive'
  <2> SUFFICES ASSUME NEW k \in 1..Len(stack'), stack'[k].kind # "select",
                      ~TargetSince(items', stack'[k].done)
               PROVE  /\ highest_normalize_param_id' - 1
                              - (Len(clocations') - stack'[k].prev) >= 0
                      /\ NumbersOf(clocations', stack'[k].prev) =
                           1..(highest_normalize_param_id' - 1
                                 - (Len(clocations') - stack'[k].prev))
    BY DEF Consecutive
  <2>1. k \in 1..Len(stack) /\ stack[k].kind # "select" /\ stack'[k] = stack[k]
    BY <1>4, SameFrameFacts
  <2>2. stack[k].prev \in Nat /\ stack[k].prev <= Len(clocations)
    BY <1>1, <2>1, ItemNumbers DEF IndInv, Before
  <2>3. NumbersOf(clocations', stack[k].prev) = NumbersOf(clocations, stack[k].prev)
    BY <1>5, <2>2
  <2>4. /\ h - 1 - (Len(clocations) - stack[k].prev) >= 0
        /\ NumbersOf(clocations, stack[k].prev) =
             1..(h - 1 - (Len(clocations) - stack[k].prev))
    BY <1>2, <2>1 DEF IndInv, Consecutive, Meet
  <2>5. highest_normalize_param_id' - 1 - (Len(clocations') - stack[k].prev)
          = h - 1 - (Len(clocations) - stack[k].prev)
    <3>2. /\ highest_normalize_param_id' = h + 1
          /\ Len(clocations') = Len(clocations) + 1
      BY <1>2
    <3>3. /\ h \in Int /\ Len(clocations) \in Int /\ stack[k].prev \in Int
          /\ highest_normalize_param_id' \in Int /\ Len(clocations') \in Int
      BY <1>1, <1>2, <2>2
    <3> HIDE DEF h
    <3> QED BY <3>2, <3>3, OneMoreOfBoth
  <2> QED BY <2>1, <2>3, <2>4, <2>5
<1>9. Recording'
  BY <1>2, <1>4, RecordingKept
<1> QED BY <1>3, <1>4, <1>6, <1>7, <1>8, <1>9 DEF IndInv

\* T_ParamRef: no number is given out.
LEMMA ParamRefInv ==
  ASSUME IndInv, NEW n \in Numbers, ParamRef(n)
  PROVE  IndInv'
<1>1. TypeInv /\ Len(clocations) \in Nat /\ n \in Int /\ ~(n < 0)
  BY NumbersAssumption DEF IndInv, TypeInv
<1>2. /\ UNCHANGED <<clocations, highest_normalize_param_id>>
      /\ Meet(n) /\ Remember(n) /\ items' = items
  BY DEF ParamRef, Meet
<1>3. TypeInv'
  BY <1>1, TypeStep DEF Next, IndInv
<1>4. /\ Shape' /\ Before' /\ Nested'
      /\ NothingToShare' /\ NoRefsOfNested' /\ SelectsCounted'
      /\ \A k \in 1..Len(stack) : SameFrame(stack[k], stack'[k])
      /\ Len(stack') = Len(stack)
  BY <1>1, <1>2, LeafKeeps
<1>5. Dense'
  BY <1>2 DEF IndInv, Dense
<1>6. RefsKnown'
  <2>1. ASSUME NEW i \in 1..Len(stack)
        PROVE  FrameKnown(clocations, Len(clocations), stack'[i])
    BY <1>4, FrameKnownStays DEF IndInv, RefsKnown
  <2>2. ASSUME NEW i \in 1..Len(stack), NEW k \in 1..Len(stack),
               stack'[k].kind # "select", i <= k
        PROVE  FrameKnown(clocations, stack'[k].prev, stack'[i])
    <3>1. stack[k].kind # "select" /\ stack'[k] = stack[k]
      BY <1>4, <2>2, SameFrameFacts
    <3>2. FrameKnown(clocations, stack[k].prev, stack[i])
      BY <2>2, <3>1 DEF IndInv, RefsKnown
    <3> QED BY <1>4, <3>1, <3>2, FrameKnownStays
  <2>3. param_refs' = None \/ Known(clocations, Len(clocations), param_refs')
    BY <1>1, <1>2, RememberKnown DEF IndInv, RefsKnown
  <2> QED BY <1>2, <1>4, <2>1, <2>2, <2>3 DEF RefsKnown
<1>7. Consecutive'
  BY <1>2, <1>4, SameFrameFacts DEF IndInv, Consecutive
<1>8. Recording'
  BY <1>2, <1>4, RecordingKept
<1> QED BY <1>3, <1>4, <1>5, <1>6, <1>7, <1>8 DEF IndInv

\* A call of the walker begins, and nothing else changes: f is its frame.
LEMMA PushInv ==
  ASSUME IndInv, Len(stack') = Len(stack) + 1, Keeps(Len(stack) - 1),
         UNCHANGED <<items, clocations>>,
         selects <= selects', selects' \in Nat,
         stack # <<>> => stack'[Len(stack)].kind = stack[Len(stack)].kind,
         stack # <<>> /\ stack[Len(stack)].kind # "select" =>
           stack'[Len(stack)] = stack[Len(stack)] /\ selects < selects',
         stack'[Len(stack) + 1].kind # "select" =>
           /\ stack # <<>> /\ stack[Len(stack)].kind = "select"
           /\ stack'[Len(stack) + 1].prev = Len(clocations)
           /\ stack'[Len(stack) + 1].done = Len(items)
           /\ stack'[Len(stack) + 1].made = selects'
  PROVE  Shape' /\ Before' /\ Nested' /\ SelectsCounted'
<1> DEFINE n == Len(stack)
<1>1. /\ TypeInv /\ n \in Nat /\ Len(clocations) \in Nat /\ Len(items) \in Nat
      /\ selects \in Nat
  BY DEF IndInv, TypeInv
<1>2. ASSUME NEW k \in 1..n
      PROVE  /\ stack'[k].kind = stack[k].kind
             /\ stack[k].kind # "select" => stack'[k] = stack[k]
  <2>1. CASE k = n
    <3>1. stack # <<>>
      BY <1>1
    <3> QED BY <2>1, <3>1
  <2>2. CASE k # n
    <3>1. SameFrame(stack[k], stack'[k])
      BY <1>1, <2>2 DEF Keeps
    <3> QED BY <3>1, SameFrameFacts
  <2> QED BY <2>1, <2>2
<1>3. ASSUME NEW k \in 1..n, stack[k].kind # "select"
      PROVE  /\ stack[k].prev \in Nat /\ stack[k].prev <= Len(clocations)
             /\ stack[k].done \in Nat /\ stack[k].done <= Len(items)
             /\ stack[k].made \in Nat /\ stack[k].made <= selects
             /\ stack[k].made < selects'
  <2>1. stack[k].prev \in Nat /\ stack[k].done \in Nat /\ stack[k].made \in Nat
    BY <1>1, <1>3, ItemNumbers
  <2>2. /\ stack[k].prev <= Len(clocations) /\ stack[k].done <= Len(items)
        /\ stack[k].made <= selects
    BY <1>3 DEF IndInv, Before
  <2>3. k < n => stack[k].made < selects
    BY <1>3 DEF IndInv, SelectsCounted
  <2>4. k = n => selects < selects'
    BY <1>1, <1>3
  <2> QED BY <1>1, <2>1, <2>2, <2>3, <2>4
<1>4. \A k \in 1..Len(stack') : k \in 1..n \/ k = n + 1
  BY <1>1
<1>5. stack # <<>> => n >= 1
  BY <1>1 DEF TypeInv
<1>6. Shape'
  <2> SUFFICES ASSUME NEW k \in 1..Len(stack'), stack'[k].kind # "select"
               PROVE  k > 1 /\ stack'[k - 1].kind = "select"
    BY DEF Shape
  <2>1. CASE k \in 1..n
    <3>1. k > 1 /\ stack[k - 1].kind = "select" /\ k - 1 \in 1..n
      BY <1>2, <2>1 DEF IndInv, Shape
    <3> QED BY <1>2, <3>1
  <2>2. CASE k = n + 1
    <3>1. stack[n].kind = "select" /\ n \in 1..n /\ k > 1 /\ k - 1 = n
      BY <1>1, <1>5, <2>2
    <3> QED BY <1>2, <3>1
  <2> QED BY <1>4, <2>1, <2>2
<1>7. Before'
  <2> SUFFICES ASSUME NEW k \in 1..Len(stack'), stack'[k].kind # "select"
               PROVE  /\ stack'[k].prev <= Len(clocations)
                      /\ stack'[k].done <= Len(items)
                      /\ stack'[k].made <= selects'
    BY DEF Before
  <2>1. CASE k \in 1..n
    BY <1>1, <1>2, <1>3, <2>1
  <2>2. CASE k = n + 1
    BY <1>1, <2>2
  <2> QED BY <1>4, <2>1, <2>2
<1>8. Nested'
  <2> SUFFICES ASSUME NEW i \in 1..Len(stack'), NEW k \in 1..Len(stack'),
                      stack'[i].kind # "select", stack'[k].kind # "select", i < k
               PROVE  /\ stack'[i].prev <= stack'[k].prev
                      /\ stack'[i].done <= stack'[k].done
    BY DEF Nested
  <2>1. i \in 1..n
    BY <1>1, <1>4
  <2>2. CASE k \in 1..n
    BY <1>2, <2>1, <2>2 DEF IndInv, Nested
  <2>3. CASE k = n + 1
    BY <1>2, <1>3, <2>1, <2>3
  <2> QED BY <1>4, <2>2, <2>3
<1>9. SelectsCounted'
  <2> SUFFICES ASSUME NEW k \in 1..Len(stack'), stack'[k].kind # "select"
               PROVE  /\ k < Len(stack') => stack'[k].made < selects'
                      /\ TargetSince(items, stack'[k].done) =>
                           stack'[k].made < selects'
    BY DEF SelectsCounted
  <2>1. CASE k \in 1..n
    BY <1>2, <1>3, <2>1
  <2>2. CASE k = n + 1
    BY <1>1, <2>2, NoneSinceNow
  <2> QED BY <1>4, <2>1, <2>2
<1> QED BY <1>6, <1>7, <1>8, <1>9

\* The same call, with no entry on its list that was not there.
NoNewEntry(f, g) ==
  /\ g.kind = f.kind
  /\ f.kind # "select" => g = f
  /\ f.kind = "select" =>
       \A j \in 1..Len(g.targets) :
         \E m \in 1..Len(f.targets) : g.targets[j] = f.targets[m]

\* A shorter list has nothing more to take over.
LEMMA NoNewEntryKnown ==
  ASSUME NEW c, NEW n, NEW f, NEW g, NoNewEntry(f, g), FrameKnown(c, n, f)
  PROVE  FrameKnown(c, n, g)
  BY DEF NoNewEntry, FrameKnown

\* The same call has no new entry.
LEMMA SameFrameNoNewEntry ==
  ASSUME NEW f, NEW g, SameFrame(f, g)
  PROVE  NoNewEntry(f, g)
  BY DEF NoNewEntry, SameFrame

\* May the call with frame f begin?
MayBegin(f) ==
  /\ FrameKnown(clocations, Len(clocations), f)
  /\ f.kind = "select" => f.targets = <<>>
  /\ f.kind # "select" =>
       /\ f.prev = Len(clocations) /\ f.done = Len(items)
       /\ f.fppr = None \/ Plain(f.fp, f.fppr)
       /\ \A k \in 1..Len(stack) :
            stack[k].kind # "select" /\ ~TargetSince(items, stack[k].done) =>
              f.fppr = None

\* A call that may begin leaves the numbers consistent with the stack.
LEMMA PushKeepsNumbers ==
  ASSUME IndInv, TypeInv', Len(stack') = Len(stack) + 1,
         \A k \in 1..Len(stack) : NoNewEntry(stack[k], stack'[k]),
         UNCHANGED <<items, clocations, highest_normalize_param_id>>,
         MayBegin(stack'[Len(stack) + 1]),
         param_refs' = None \/ Known(clocations, Len(clocations), param_refs')
  PROVE  Dense' /\ RefsKnown' /\ Consecutive' /\ NothingToShare' /\ NoRefsOfNested'
<1> DEFINE n == Len(stack)
           f == stack'[n + 1]
           N == Len(clocations)
<1>1. TypeInv /\ n \in Nat /\ N \in Nat /\ Len(items) \in Nat
  BY DEF IndInv, TypeInv
<1>2. \A k \in 1..Len(stack') : k \in 1..n \/ k = n + 1
  BY <1>1
<1>3. \A k \in 1..n : /\ stack'[k].kind = stack[k].kind
                      /\ stack[k].kind # "select" => stack'[k] = stack[k]
  BY DEF NoNewEntry
<1>4. Dense'
  BY DEF IndInv, Dense
<1>5. \A i \in 1..Len(stack') : FrameKnown(clocations, N, stack'[i])
  <2>1. ASSUME NEW i \in 1..n PROVE FrameKnown(clocations, N, stack'[i])
    <3>1. FrameKnown(clocations, N, stack[i]) /\ NoNewEntry(stack[i], stack'[i])
      BY DEF IndInv, RefsKnown
    <3> QED BY <3>1, NoNewEntryKnown
  <2> QED BY <1>2, <2>1 DEF MayBegin
<1>6. ASSUME NEW i \in 1..Len(stack'), NEW k \in 1..Len(stack'),
             stack'[k].kind # "select", i <= k
      PROVE  FrameKnown(clocations, stack'[k].prev, stack'[i])
  <2>1. CASE k \in 1..n
    <3>1. i \in 1..n /\ stack[k].kind # "select" /\ stack'[k] = stack[k]
      BY <1>1, <1>2, <1>3, <1>6, <2>1
    <3>2. FrameKnown(clocations, stack[k].prev, stack[i])
      BY <1>6, <2>1, <3>1 DEF IndInv, RefsKnown
    <3> QED BY <3>1, <3>2, NoNewEntryKnown
  <2>2. CASE k = n + 1
    BY <1>5, <1>6, <2>2 DEF MayBegin
  <2> QED BY <1>2, <2>1, <2>2
<1>7. RefsKnown'
  BY <1>5, <1>6 DEF RefsKnown
<1>8. Consecutive'
  <2> SUFFICES ASSUME NEW k \in 1..Len(stack'), stack'[k].kind # "select",
                      ~TargetSince(items, stack'[k].done)
               PROVE  /\ highest_normalize_param_id - 1 - (N - stack'[k].prev) >= 0
                      /\ NumbersOf(clocations, stack'[k].prev) =
                           1..(highest_normalize_param_id - 1 - (N - stack'[k].prev))
    BY DEF Consecutive
  <2>1. CASE k \in 1..n
    BY <1>3, <2>1 DEF IndInv, Consecutive
  <2>2. CASE k = n + 1
    <3>1. /\ highest_normalize_param_id - 1 - (N - N) = highest_normalize_param_id - 1
          /\ highest_normalize_param_id - 1 >= 0
      BY <1>1 DEF IndInv, Dense, TypeInv
    <3>2. stack'[k].prev = N
      BY <2>2 DEF MayBegin
    <3> QED BY <3>1, <3>2 DEF IndInv, Dense
  <2> QED BY <1>2, <2>1, <2>2
<1>9. NothingToShare'
  <2> SUFFICES ASSUME NEW i \in 1..Len(stack'), NEW k \in 1..Len(stack'),
                      stack'[k].kind # "select", k < i,
                      ~TargetSince(items, stack'[k].done)
               PROVE  /\ stack'[i].kind = "select" => stack'[i].targets = <<>>
                      /\ stack'[i].kind # "select" => stack'[i].fppr = None
    BY DEF NothingToShare
  <2>1. k \in 1..n /\ stack[k].kind # "select" /\ stack'[k] = stack[k]
    BY <1>1, <1>2, <1>3
  <2>2. CASE i \in 1..n
    <3>1. /\ stack[i].kind = "select" => stack[i].targets = <<>>
          /\ stack[i].kind # "select" => stack[i].fppr = None
      BY <2>1, <2>2 DEF IndInv, NothingToShare
    <3>2. CASE stack[i].kind = "select"
      <4>1. stack'[i].kind = "select" /\ stack'[i] \in Frames
        BY <1>3, <2>2, <3>2 DEF TypeInv
      <4>2. stack'[i].targets \in Seq(Entries)
        BY <4>1, FrameKinds DEF SelectFrames
      <4>3. \A j \in 1..Len(stack'[i].targets) : FALSE
        BY <2>2, <3>1, <3>2 DEF NoNewEntry
      <4>4. stack'[i].targets = <<>>
        BY <4>2, <4>3
      <4> QED BY <4>1, <4>4
    <3>3. CASE stack[i].kind # "select"
      BY <1>3, <2>2, <3>1, <3>3
    <3> QED BY <3>2, <3>3
  <2>3. CASE i = n + 1
    BY <2>1, <2>3 DEF MayBegin
  <2> QED BY <1>2, <2>2, <2>3
<1>10. NoRefsOfNested'
  <2> SUFFICES ASSUME NEW k \in 1..Len(stack')
               PROVE  /\ stack'[k].kind = "select" =>
                           \A j \in 1..Len(stack'[k].targets) :
                             Plain(stack'[k].targets[j].fp, stack'[k].targets[j].refs)
                      /\ stack'[k].kind # "select" =>
                           \/ stack'[k].fppr = None
                           \/ Plain(stack'[k].fp, stack'[k].fppr)
    BY DEF NoRefsOfNested, Plain
  <2>1. CASE k \in 1..n
    BY <1>3, <2>1 DEF IndInv, NoRefsOfNested, NoNewEntry
  <2>2. CASE k = n + 1
    BY <2>2 DEF MayBegin
  <2> QED BY <1>2, <2>1, <2>2
<1> QED BY <1>4, <1>7, <1>8, <1>9, <1>10

\* T_SelectStmt begins.
LEMMA SelectBeginInv ==
  ASSUME IndInv, SelectBegin
  PROVE  IndInv'
<1> DEFINE n == Len(stack)
<1>1. TypeInv /\ n \in Nat /\ selects \in Nat
  BY DEF IndInv, TypeInv
<1>2. TypeInv'
  BY <1>1, TypeStep DEF Next, IndInv
<1>3. /\ Len(stack') = n + 1 /\ Keeps(n)
      /\ stack'[n + 1].kind = "select" /\ stack'[n + 1].targets = <<>>
  BY <1>1, SelectBeginFrames
<1>4. /\ UNCHANGED <<items, clocations, highest_normalize_param_id, param_refs>>
      /\ selects' = selects + 1
  BY DEF SelectBegin
<1>5. Keeps(n - 1) /\ \A k \in 1..n : SameFrame(stack[k], stack'[k])
  BY <1>1, <1>3 DEF Keeps
<1>6. stack # <<>> => SameFrame(stack[n], stack'[n])
  BY <1>1, <1>5 DEF TypeInv
<1>7. Shape' /\ Before' /\ Nested' /\ SelectsCounted'
  <2>1. selects <= selects' /\ selects < selects' /\ selects' \in Nat
    BY <1>1, <1>4
  <2>2. stack # <<>> => /\ stack'[n].kind = stack[n].kind
                        /\ stack[n].kind # "select" => stack'[n] = stack[n]
    BY <1>6, SameFrameFacts
  <2> QED BY <1>3, <1>4, <1>5, <2>1, <2>2, PushInv
<1>8. Dense' /\ RefsKnown' /\ Consecutive' /\ NothingToShare' /\ NoRefsOfNested'
  <2>1. MayBegin(stack'[n + 1])
    BY <1>3 DEF MayBegin, FrameKnown
  <2>2. param_refs' = None \/ Known(clocations, Len(clocations), param_refs')
    BY <1>4 DEF IndInv, RefsKnown
  <2>3. \A k \in 1..n : NoNewEntry(stack[k], stack'[k])
    BY <1>5, SameFrameNoNewEntry
  <2> QED BY <1>2, <1>3, <1>4, <2>1, <2>2, <2>3, PushKeepsNumbers
<1>9. Recording'
  BY <1>1, <1>3, <1>4, <1>5, SameFrameFacts DEF IndInv, Recording
<1> QED BY <1>2, <1>7, <1>8, <1>9 DEF IndInv

\* A target list entry begins, and param_refs is emptied.
LEMMA TargetBeginInv ==
  ASSUME IndInv, NEW fp \in Fingerprints, TargetBegin(fp)
  PROVE  IndInv'
<1> DEFINE n == Len(stack)
<1>1. TypeInv /\ n \in Nat /\ selects \in Nat
  BY DEF IndInv, TypeInv
<1>2. TypeInv'
  BY <1>1, TypeStep DEF Next, IndInv
<1>3. /\ Len(stack') = n + 1 /\ Keeps(n) /\ n >= 1 /\ stack[n].kind = "select"
      /\ BeginsItem(stack'[n + 1], "target", fp, None)
  BY <1>1, TargetBeginFrames
<1>4. /\ UNCHANGED <<items, clocations, highest_normalize_param_id, selects>>
      /\ param_refs' = <<>>
  BY DEF TargetBegin
<1>5. /\ Keeps(n - 1) /\ \A k \in 1..n : SameFrame(stack[k], stack'[k])
      /\ SameFrame(stack[n], stack'[n])
  BY <1>1, <1>3 DEF Keeps
<1>6. /\ stack'[n + 1].kind = "target" /\ stack'[n + 1].fppr = None
      /\ stack'[n + 1].prev = Len(clocations) /\ stack'[n + 1].done = Len(items)
      /\ stack'[n + 1].made = selects
  BY <1>3 DEF BeginsItem
<1>7. Shape' /\ Before' /\ Nested' /\ SelectsCounted'
  <2>1. stack # <<>> /\ selects <= selects' /\ selects' \in Nat
    BY <1>1, <1>3, <1>4
  <2>2. stack'[n].kind = "select"
    BY <1>3, <1>5, SameFrameFacts
  <2> QED BY <1>3, <1>4, <1>5, <1>6, <2>1, <2>2, PushInv
<1>8. Dense' /\ RefsKnown' /\ Consecutive' /\ NothingToShare' /\ NoRefsOfNested'
  <2>1. MayBegin(stack'[n + 1])
    BY <1>6 DEF MayBegin, FrameKnown
  <2>2. Known(clocations, Len(clocations), param_refs')
    BY <1>4 DEF Known
  <2>3. \A k \in 1..n : NoNewEntry(stack[k], stack'[k])
    BY <1>5, SameFrameNoNewEntry
  <2> QED BY <1>2, <1>3, <1>4, <2>1, <2>2, <2>3, PushKeepsNumbers
<1>9. Recording'
  <2>1. n + 1 \in 1..Len(stack') /\ ~TargetSince(items', stack'[n + 1].done)
    BY <1>1, <1>3, <1>4, <1>6, NoneSinceNow
  <2> QED BY <1>6, <2>1 DEF Recording
<1> QED BY <1>2, <1>7, <1>8, <1>9 DEF IndInv

\* A GROUP BY item begins: the entry it takes over is of constants before it.
LEMMA GroupBeginInv ==
  ASSUME IndInv, NEW fp \in Fingerprints, GroupBegin(fp)
  PROVE  IndInv'
<1> DEFINE n == Len(stack)
           f == stack'[n + 1]
<1>1. TypeInv /\ n \in Nat /\ selects \in Nat
  BY DEF IndInv, TypeInv
<1>2. TypeInv'
  BY <1>1, TypeStep DEF Next, IndInv
<1>3. /\ Len(stack') = n + 1 /\ Keeps(n - 1) /\ n \in 1..n
      /\ stack[n].kind = "select"
      /\ TakesEntry(fp, stack[n], stack'[n], f)
  BY <1>1, GroupBeginFrames
<1>4. /\ UNCHANGED <<items, clocations, highest_normalize_param_id, selects,
                     param_refs>>
  BY DEF GroupBegin
<1>5. /\ f.kind = "group" /\ f.prev = Len(clocations) /\ f.done = Len(items)
      /\ f.made = selects /\ f.fp = fp
  BY <1>3 DEF TakesEntry, BeginsItem
<1>6. NoNewEntry(stack[n], stack'[n])
  BY <1>3 DEF TakesEntry, SameFrame, NoNewEntry
<1>7. \A k \in 1..n : NoNewEntry(stack[k], stack'[k])
  <2>1. \A k \in 1..(n - 1) : NoNewEntry(stack[k], stack'[k])
    BY <1>3, SameFrameNoNewEntry DEF Keeps
  <2> QED BY <1>1, <1>6, <2>1
<1>8. \/ f.fppr = None
      \/ \E m \in 1..Len(stack[n].targets) :
           stack[n].targets[m].fp = fp /\ f.fppr = stack[n].targets[m].refs
  BY <1>3 DEF TakesEntry, BeginsItem
<1>9. MayBegin(f)
  <2>1. f.fppr = None \/ Known(clocations, Len(clocations), f.fppr)
    <3>1. \A m \in 1..Len(stack[n].targets) :
            Known(clocations, Len(clocations), stack[n].targets[m].refs)
      BY <1>3 DEF IndInv, RefsKnown, FrameKnown
    <3> QED BY <1>8, <3>1
  <2>2. f.fppr = None \/ Plain(f.fp, f.fppr)
    <3>1. \A m \in 1..Len(stack[n].targets) :
            Plain(stack[n].targets[m].fp, stack[n].targets[m].refs)
      BY <1>3 DEF IndInv, NoRefsOfNested
    <3> QED BY <1>5, <1>8, <3>1
  <2>3. ASSUME NEW k \in 1..n, stack[k].kind # "select",
               ~TargetSince(items, stack[k].done)
        PROVE  f.fppr = None
    <3>1. k < n
      BY <1>1, <1>3, <2>3
    <3>2. stack[n].targets = <<>>
      BY <1>3, <2>3, <3>1 DEF IndInv, NothingToShare
    <3> QED BY <1>8, <3>2
  <2> QED BY <1>5, <2>1, <2>2, <2>3 DEF MayBegin, FrameKnown
<1>10. Shape' /\ Before' /\ Nested' /\ SelectsCounted'
  <2>1. stack # <<>> /\ selects <= selects' /\ selects' \in Nat
    BY <1>1, <1>3, <1>4
  <2>2. stack'[n].kind = "select"
    BY <1>3, <1>6 DEF NoNewEntry
  <2> QED BY <1>3, <1>4, <1>5, <2>1, <2>2, PushInv
<1>11. Dense' /\ RefsKnown' /\ Consecutive' /\ NothingToShare' /\ NoRefsOfNested'
  <2>1. param_refs' = None \/ Known(clocations, Len(clocations), param_refs')
    BY <1>4 DEF IndInv, RefsKnown
  <2> QED BY <1>2, <1>3, <1>4, <1>7, <1>9, <2>1, PushKeepsNumbers
<1>12. Recording'
  BY <1>1, <1>3, <1>4, <1>7 DEF IndInv, Recording, NoNewEntry
<1> QED BY <1>2, <1>10, <1>11, <1>12 DEF IndInv

\* A call of the walker ends: the items that it is in go on.
LEMMA PopInv ==
  ASSUME IndInv, stack # <<>>, Len(stack') = Len(stack) - 1,
         \A k \in 1..(Len(stack) - 1) :
           /\ stack'[k].kind = stack[k].kind
           /\ stack[k].kind # "select" => stack'[k] = stack[k],
         Len(clocations') = Len(clocations), Len(items') \in Nat,
         Len(items) <= Len(items'), selects' = selects
  PROVE  Shape' /\ Before' /\ Nested' /\ SelectsCounted'
<1> DEFINE n == Len(stack)
<1>1. /\ TypeInv /\ n \in Nat /\ n >= 1 /\ Len(clocations) \in Nat
      /\ Len(items) \in Nat /\ selects \in Nat
  BY DEF IndInv, TypeInv
<1>2. \A k \in 1..Len(stack') : k \in 1..n /\ k < n /\ k \in 1..(n - 1)
  BY <1>1
<1>3. ASSUME NEW k \in 1..Len(stack'), stack'[k].kind # "select"
      PROVE  /\ k \in 1..n /\ k < n /\ stack[k].kind # "select"
             /\ stack'[k] = stack[k]
             /\ stack[k].done \in Nat
  BY <1>1, <1>2, <1>3, ItemNumbers
<1>4. Shape'
  <2> SUFFICES ASSUME NEW k \in 1..Len(stack'), stack'[k].kind # "select"
               PROVE  k > 1 /\ stack'[k - 1].kind = "select"
    BY DEF Shape
  <2>1. k > 1 /\ stack[k - 1].kind = "select"
    BY <1>3 DEF IndInv, Shape
  <2>2. k - 1 \in 1..(n - 1)
    BY <1>1, <1>2, <2>1
  <2> QED BY <2>1, <2>2
<1>5. Before'
  <2> SUFFICES ASSUME NEW k \in 1..Len(stack'), stack'[k].kind # "select"
               PROVE  /\ stack'[k].prev <= Len(clocations')
                      /\ stack'[k].done <= Len(items')
                      /\ stack'[k].made <= selects'
    BY DEF Before
  <2>1. /\ stack[k].prev <= Len(clocations) /\ stack[k].done <= Len(items)
        /\ stack[k].made <= selects
    BY <1>3 DEF IndInv, Before
  <2> QED BY <1>1, <1>3, <2>1
<1>6. Nested'
  BY <1>3 DEF IndInv, Nested
<1>7. SelectsCounted'
  BY <1>3 DEF IndInv, SelectsCounted
<1> QED BY <1>4, <1>5, <1>6, <1>7

\* T_SelectStmt ends.
LEMMA SelectEndInv ==
  ASSUME IndInv, SelectEnd
  PROVE  IndInv'
<1> DEFINE n == Len(stack)
<1>1. TypeInv /\ n \in Nat /\ Len(items) \in Nat
  BY DEF IndInv, TypeInv
<1>2. TypeInv'
  BY <1>1, TypeStep DEF Next, IndInv
<1>3. /\ Len(stack') = n - 1 /\ n >= 1 /\ stack[n].kind = "select"
      /\ \A k \in 1..(n - 1) : stack'[k] = stack[k]
  BY <1>1, SelectEndFrames
<1>4. UNCHANGED <<items, clocations, highest_normalize_param_id, param_refs,
                  selects>>
  BY DEF SelectEnd
<1>5. \A k \in 1..Len(stack') : k \in 1..n /\ stack'[k] = stack[k]
  BY <1>1, <1>3
<1>6. Shape' /\ Before' /\ Nested' /\ SelectsCounted'
  <2>1. stack # <<>> /\ Len(items) <= Len(items')
    BY <1>1, <1>3, <1>4
  <2> QED BY <1>1, <1>3, <1>4, <2>1, PopInv
<1>7. Dense'
  BY <1>4 DEF IndInv, Dense
<1>8. RefsKnown'
  BY <1>4, <1>5 DEF IndInv, RefsKnown
<1>9. Consecutive'
  BY <1>4, <1>5 DEF IndInv, Consecutive
<1>10. NothingToShare'
  BY <1>4, <1>5 DEF IndInv, NothingToShare
<1>11. NoRefsOfNested'
  BY <1>5 DEF IndInv, NoRefsOfNested
<1>12. Recording'
  <2> SUFFICES ASSUME param_refs' # None
               PROVE  \E k \in 1..Len(stack') :
                        /\ stack'[k].kind # "select" /\ stack'[k].kind = "target"
                        /\ ~TargetSince(items', stack'[k].done)
    BY DEF Recording
  <2>1. PICK k \in 1..n : /\ stack[k].kind # "select" /\ stack[k].kind = "target"
                          /\ ~TargetSince(items, stack[k].done)
    BY <1>4 DEF IndInv, Recording
  <2>2. k \in 1..Len(stack')
    BY <1>1, <1>3, <2>1
  <2> QED BY <1>4, <1>5, <2>1, <2>2
<1> QED BY <1>2, <1>6, <1>7, <1>8, <1>9, <1>10, <1>11, <1>12 DEF IndInv

\* An expression with a target list in it remembers nothing.
LEMMA RememberedPlain ==
  ASSUME IndInv, TargetEnd
  PROVE  Plain(Top.fp, Remembered)
<1> DEFINE n == Len(stack)
<1>1. TypeInv /\ Top \in ItemFrames /\ n \in 1..n /\ Top.kind = "target"
  BY TargetEndFrames DEF IndInv
<1>2. SUFFICES ASSUME Nests[Top.fp] = "select", param_refs # None
               PROVE  FALSE
  BY DEF Plain, Remembered
<1>3. TargetSince(items, Top.done)
  <2>1. "target" \in {items[i].kind : i \in (Top.done + 1)..Len(items)}
    BY <1>2 DEF TargetEnd, HasNests
  <2> QED BY <2>1 DEF TargetSince
<1>4. PICK m \in 1..n : /\ stack[m].kind # "select"
                        /\ ~TargetSince(items, stack[m].done)
  BY <1>2 DEF IndInv, Recording
<1>5. stack[m].done \in Nat /\ Top.done \in Nat
  BY <1>1, <1>4, ItemNumbers DEF ItemFrames
<1>6. stack[m].done <= Top.done
  <2>1. m = n \/ m < n
    BY <1>1
  <2>2. m < n => stack[m].done <= stack[n].done
    BY <1>1, <1>4 DEF IndInv, Nested, Top
  <2> QED BY <1>5, <2>1, <2>2 DEF Top
<1> QED BY <1>1, <1>3, <1>4, <1>5, <1>6, SinceMonotone

\* A target list entry ends: its param_refs go on the list of its SELECT.
LEMMA TargetEndInv ==
  ASSUME IndInv, TargetEnd
  PROVE  IndInv'
<1> DEFINE n == Len(stack) - 1
           e == [fp |-> Top.fp, refs |-> Remembered]
           N == Len(clocations)
<1>1. TypeInv /\ Shape /\ Len(stack) \in Nat /\ Len(items) \in Nat /\ N \in Nat
  BY DEF IndInv, TypeInv
<1>2. TypeInv'
  BY <1>1, TypeStep DEF Next
<1>3. /\ Len(stack') = n /\ n \in 1..Len(stack) /\ n \in Nat /\ n >= 1
      /\ Top \in ItemFrames /\ Top.kind = "target"
      /\ \A k \in 1..(n - 1) : stack'[k] = stack[k]
      /\ stack[n].kind = "select" /\ stack'[n].kind = "select"
      /\ stack'[n].targets = Append(stack[n].targets, e)
  BY <1>1, TargetEndFrames
<1>4. /\ UNCHANGED <<clocations, highest_normalize_param_id, selects>>
      /\ param_refs' = None /\ Record
  BY DEF TargetEnd
<1>5. Len(items') = Len(items) + 1
  BY <1>1, <1>3, <1>4, RecordItem
<1>6. \A k \in 1..n : /\ stack'[k].kind = stack[k].kind
                      /\ stack[k].kind # "select" => stack'[k] = stack[k]
  BY <1>3
<1>7. Shape' /\ Before' /\ Nested' /\ SelectsCounted'
  <2>1. /\ stack # <<>> /\ Len(items) <= Len(items') /\ Len(items') \in Nat
        /\ Len(clocations') = Len(clocations)
    BY <1>1, <1>3, <1>4, <1>5
  <2> QED BY <1>3, <1>4, <1>6, <2>1, PopInv
<1>8. Dense'
  BY <1>4 DEF IndInv, Dense
<1>9. ASSUME NEW k \in 1..Len(stack'), stack'[k].kind # "select"
      PROVE  TargetSince(items', stack'[k].done)
  <2>1. k \in 1..Len(stack) /\ stack[k].kind # "select" /\ stack'[k] = stack[k]
    BY <1>1, <1>3, <1>6, <1>9
  <2>2. stack[k].done \in Nat /\ stack[k].done <= Len(items)
    BY <1>1, <2>1, ItemNumbers DEF IndInv, Before
  <2> QED BY <1>1, <1>3, <1>4, <2>1, <2>2, TargetIsTarget
<1>10. Consecutive'
  BY <1>9 DEF Consecutive
<1>11. NothingToShare'
  BY <1>9 DEF NothingToShare
<1>12. Recording'
  BY <1>4 DEF Recording
<1>13. stack[n].targets \in Seq(Entries)
  <2>1. stack[n] \in Frames
    BY <1>1, <1>3 DEF TypeInv
  <2> QED BY <1>3, <2>1, FrameKinds DEF SelectFrames
<1>14. ASSUME NEW j \in 1..Len(stack'[n].targets)
       PROVE  \/ j \in 1..Len(stack[n].targets)
                 /\ stack'[n].targets[j] = stack[n].targets[j]
              \/ stack'[n].targets[j] = e
  <2> HIDE DEF e
  <2> QED BY <1>3, <1>13
<1>15. NoRefsOfNested'
  <2> SUFFICES ASSUME NEW k \in 1..Len(stack')
               PROVE  /\ stack'[k].kind = "select" =>
                           \A j \in 1..Len(stack'[k].targets) :
                             Plain(stack'[k].targets[j].fp, stack'[k].targets[j].refs)
                      /\ stack'[k].kind # "select" =>
                           \/ stack'[k].fppr = None
                           \/ Plain(stack'[k].fp, stack'[k].fppr)
    BY DEF NoRefsOfNested, Plain
  <2>1. CASE k \in 1..(n - 1)
    <3>1. stack'[k] = stack[k] /\ k \in 1..Len(stack)
      BY <1>1, <1>3, <2>1
    <3> QED BY <3>1 DEF IndInv, NoRefsOfNested
  <2>2. CASE k = n
    <3>1. Plain(e.fp, e.refs)
      BY RememberedPlain
    <3> HIDE DEF e
    <3>2. \A j \in 1..Len(stack[n].targets) :
            Plain(stack[n].targets[j].fp, stack[n].targets[j].refs)
      BY <1>3 DEF IndInv, NoRefsOfNested
    <3> QED BY <1>3, <1>14, <2>2, <3>1, <3>2
  <2> QED BY <1>3, <2>1, <2>2
<1>16. RefsKnown'
  <2>1. ASSUME NEW i \in 1..Len(stack')
        PROVE  FrameKnown(clocations', Len(clocations'), stack'[i])
    <3>1. CASE i \in 1..(n - 1)
      BY <1>1, <1>3, <1>4, <3>1 DEF IndInv, RefsKnown
    <3>2. CASE i = n
      <4>1. Known(clocations, N, e.refs)
        BY DEF IndInv, RefsKnown, Remembered, Known
      <4> HIDE DEF e
      <4>2. \A j \in 1..Len(stack[n].targets) :
              Known(clocations, N, stack[n].targets[j].refs)
        BY <1>3 DEF IndInv, RefsKnown, FrameKnown
      <4>3. \A j \in 1..Len(stack'[n].targets) :
              Known(clocations, N, stack'[n].targets[j].refs)
        BY <1>14, <4>1, <4>2
      <4> QED BY <1>3, <1>4, <3>2, <4>3 DEF FrameKnown
    <3> QED BY <1>3, <3>1, <3>2
  <2>2. ASSUME NEW i \in 1..Len(stack'), NEW k \in 1..Len(stack'),
               stack'[k].kind # "select", i <= k
        PROVE  FrameKnown(clocations', stack'[k].prev, stack'[i])
    <3>1. k # n
      BY <1>3, <2>2
    <3>2. k \in 1..(n - 1) /\ i \in 1..(n - 1)
      BY <1>3, <2>2, <3>1
    <3>3. /\ k \in 1..Len(stack) /\ i \in 1..Len(stack)
          /\ stack'[k] = stack[k] /\ stack'[i] = stack[i]
      BY <1>1, <1>3, <3>2
    <3> QED BY <1>4, <2>2, <3>3 DEF IndInv, RefsKnown
  <2> QED BY <1>4, <2>1, <2>2 DEF RefsKnown
<1> QED BY <1>2, <1>7, <1>8, <1>10, <1>11, <1>12, <1>15, <1>16 DEF IndInv

\* The item that ends has given its constants the numbers of the entry, and has
\* given back its own: then no target list entry has ended within it, and none
\* is recording.
LEMMA SharerIsPlain ==
  ASSUME IndInv, GroupEnd, Matches, Top.fppr # <<>>
  PROVE  /\ ~TargetSince(items, Top.done)
         /\ \A k \in 1..(Len(stack) - 1) : stack[k].kind # "select" =>
              TargetSince(items, stack[k].done)
         /\ param_refs = None
<1> DEFINE n == Len(stack)
<1>1. /\ TypeInv /\ Top \in ItemFrames /\ n \in 1..n /\ Top.kind = "group"
      /\ Top = stack[n] /\ Top.fppr # None
  BY GroupEndFrames DEF IndInv, Matches, Top
<1>2. ~TargetSince(items, Top.done)
  <2>1. Nests[Top.fp] # "select"
    BY <1>1 DEF IndInv, NoRefsOfNested, Plain
  <2>2. Nests[Top.fp] \in {"none", "bare"}
    BY <1>1, <2>1, NestsAssumption DEF ItemFrames
  <2>3. CASE Nests[Top.fp] = "none"
    <3>1. selects = Top.made
      BY <2>3 DEF GroupEnd, HasNests
    <3>2. ~(Top.made < selects)
      BY <1>1, <3>1 DEF TypeInv
    <3> QED BY <1>1, <3>2 DEF IndInv, SelectsCounted
  <2>4. CASE Nests[Top.fp] = "bare"
    <3>1. "target" \notin {items[i].kind : i \in (Top.done + 1)..Len(items)}
      BY <2>4 DEF GroupEnd, HasNests
    <3> QED BY <3>1 DEF TargetSince
  <2> QED BY <2>2, <2>3, <2>4
<1>3. ASSUME NEW k \in 1..(n - 1), stack[k].kind # "select"
      PROVE  TargetSince(items, stack[k].done)
  <2>1. k \in 1..n /\ k < n
    BY <1>1
  <2> QED BY <1>1, <1>3, <2>1 DEF IndInv, NothingToShare
<1>4. param_refs = None
  <2> SUFFICES ASSUME param_refs # None PROVE FALSE
    OBVIOUS
  <2>1. PICK k \in 1..n : /\ stack[k].kind # "select" /\ stack[k].kind = "target"
                          /\ ~TargetSince(items, stack[k].done)
    BY DEF IndInv, Recording
  <2>2. k \in 1..(n - 1)
    BY <1>1, <2>1
  <2> QED BY <1>3, <2>1, <2>2
<1> QED BY <1>2, <1>3, <1>4

\* The numbers that are left once an item's constants have those of refs.
LEMMA NumbersOfShared ==
  ASSUME NEW c \in Seq(Int), NEW d, NEW p \in Nat, p <= Len(c),
         NEW refs \in Seq(Int), Len(refs) = Len(c) - p, Known(c, p, refs),
         \A i \in 1..Len(c) : d[i] = IF i > p THEN refs[i - p] ELSE c[i]
  PROVE  /\ NumbersOf(d, Len(c)) = NumbersOf(c, p)
         /\ \A m \in 0..p : NumbersOf(d, m) = NumbersOf(c, m)
<1>1. Len(c) \in Nat
  OBVIOUS
<1>2. \A i \in 1..p : i \in 1..Len(c) /\ d[i] = c[i]
  BY <1>1
<1>3. \A i \in 1..Len(c) : i > p =>
        i - p \in 1..Len(refs) /\ d[i] = refs[i - p]
  BY <1>1
<1>4. ASSUME NEW m \in 0..p PROVE NumbersOf(d, m) = NumbersOf(c, m)
  <2>1. \A i \in 1..m : d[i] = c[i]
    BY <1>2
  <2> QED BY <2>1, NumbersOfPrefix
<1>5. ASSUME NEW i \in 1..Len(c), d[i] < 0 PROVE -d[i] \in NumbersOf(c, p)
  <2>1. CASE i > p
    BY <1>3, <1>5, <2>1 DEF Known
  <2>2. CASE ~(i > p)
    <3>1. i \in 1..p /\ d[i] = c[i]
      BY <1>2, <2>2
    <3> QED BY <1>5, <3>1 DEF NumbersOf
  <2> QED BY <2>1, <2>2
<1>6. NumbersOf(d, Len(c)) \subseteq NumbersOf(c, p)
  BY <1>5 DEF NumbersOf
<1>7. NumbersOf(c, p) \subseteq NumbersOf(d, Len(c))
  <2>1. NumbersOf(d, p) = NumbersOf(c, p)
    BY <1>4
  <2> QED BY <1>1, <2>1, NumbersOfMore
<1> QED BY <1>4, <1>6, <1>7

\* A GROUP BY item ends: it takes over the numbers of its entry, and gives back
\* its own, or it keeps them.
LEMMA GroupEndInv ==
  ASSUME IndInv, GroupEnd
  PROVE  IndInv'
<1> DEFINE n == Len(stack)
           N == Len(clocations)
           h == highest_normalize_param_id
<1>1. TypeInv /\ Shape /\ Len(items) \in Nat /\ N \in Nat /\ h \in Int
  BY DEF IndInv, TypeInv
<1>2. TypeInv'
  BY <1>1, TypeStep DEF Next
<1>3. /\ Len(stack') = n - 1 /\ n \in 1..n /\ n \in Nat
      /\ Top \in ItemFrames /\ Top.kind = "group" /\ Top = stack[n]
      /\ \A k \in 1..(n - 1) : stack'[k] = stack[k]
  BY <1>1, GroupEndFrames DEF Top
<1>4. UNCHANGED <<selects, param_refs>> /\ Record
  BY DEF GroupEnd
<1>5. Len(items') = Len(items) + 1
  BY <1>1, <1>3, <1>4, RecordItem
<1>6. \A k \in 1..Len(stack') :
        k \in 1..n /\ k < n /\ k \in 1..(n - 1) /\ stack'[k] = stack[k]
  BY <1>3
<1>7. ASSUME NEW k \in 1..Len(stack'), stack'[k].kind # "select"
      PROVE  /\ stack[k].kind # "select" /\ stack[k].prev \in Nat
             /\ stack[k].done \in Nat
             /\ TargetSince(items', stack'[k].done)
                  <=> TargetSince(items, stack[k].done)
  <2>1. k \in 1..n /\ stack[k].kind # "select" /\ stack'[k] = stack[k]
    BY <1>6, <1>7
  <2>2. /\ stack[k].done \in Nat /\ stack[k].done <= Len(items)
        /\ stack[k].prev \in Nat
    BY <1>1, <2>1, ItemNumbers DEF IndInv, Before
  <2> QED BY <1>1, <1>3, <1>4, <2>1, <2>2, GroupIsNoTarget
<1>8. NothingToShare'
  <2> SUFFICES ASSUME NEW i \in 1..Len(stack'), NEW k \in 1..Len(stack'),
                      stack'[k].kind # "select", k < i,
                      ~TargetSince(items', stack'[k].done)
               PROVE  /\ stack'[i].kind = "select" => stack'[i].targets = <<>>
                      /\ stack'[i].kind # "select" => stack'[i].fppr = None
    BY DEF NothingToShare
  <2>1. stack[k].kind # "select" /\ ~TargetSince(items, stack[k].done)
    BY <1>7
  <2>2. i \in 1..n /\ k \in 1..n /\ stack'[i] = stack[i]
    BY <1>6
  <2> QED BY <2>1, <2>2 DEF IndInv, NothingToShare
<1>9. NoRefsOfNested'
  BY <1>6 DEF IndInv, NoRefsOfNested
<1>10. Recording'
  <2> SUFFICES ASSUME param_refs' # None
               PROVE  \E k \in 1..Len(stack') :
                        /\ stack'[k].kind # "select" /\ stack'[k].kind = "target"
                        /\ ~TargetSince(items', stack'[k].done)
    BY DEF Recording
  <2>1. PICK k \in 1..n : /\ stack[k].kind # "select" /\ stack[k].kind = "target"
                          /\ ~TargetSince(items, stack[k].done)
    BY <1>4 DEF IndInv, Recording
  <2>2. k \in 1..Len(stack')
    BY <1>3, <2>1
  <2>3. stack'[k] = stack[k]
    BY <1>6, <2>2
  <2> QED BY <1>7, <2>1, <2>2, <2>3
<1>11. CASE UNCHANGED <<clocations, highest_normalize_param_id>>
  <2>1. Shape' /\ Before' /\ Nested' /\ SelectsCounted'
    <3>1. /\ stack # <<>> /\ Len(items) <= Len(items') /\ Len(items') \in Nat
          /\ Len(clocations') = Len(clocations)
      BY <1>1, <1>3, <1>5, <1>11
    <3> QED BY <1>3, <1>4, <3>1, PopInv
  <2>2. Dense'
    BY <1>11 DEF IndInv, Dense
  <2>3. RefsKnown'
    BY <1>4, <1>6, <1>11 DEF IndInv, RefsKnown
  <2>4. Consecutive'
    BY <1>6, <1>7, <1>11 DEF IndInv, Consecutive
  <2> QED BY <1>2, <1>8, <1>9, <1>10, <2>1, <2>2, <2>3, <2>4 DEF IndInv
<1>12. CASE Matches /\ Top.fppr # <<>>
  <2> DEFINE p == Top.prev
             L == Len(Top.fppr)
  <2>1. /\ p \in Nat /\ p <= N /\ Top.fppr \in Seq(Int) /\ L = N - p /\ L \in Nat
    <3>1. Top.fppr # None /\ L = N - p
      BY <1>12 DEF Matches
    <3>2. p \in Nat /\ Top.fppr \in Seq(Int)
      BY <1>3, <3>1 DEF ItemFrames
    <3>3. p <= N
      BY <1>3 DEF IndInv, Before
    <3> QED BY <3>1, <3>2, <3>3
  <2>2. /\ ~TargetSince(items, Top.done) /\ param_refs = None
        /\ \A k \in 1..(n - 1) : stack[k].kind # "select" =>
             TargetSince(items, stack[k].done)
    BY <1>12, SharerIsPlain
  <2>3. h - 1 - (N - p) >= 0 /\ NumbersOf(clocations, p) = 1..(h - 1 - (N - p))
    BY <1>3, <2>2 DEF IndInv, Consecutive
  <2>4. Known(clocations, p, Top.fppr)
    BY <1>3, <1>12 DEF IndInv, RefsKnown, FrameKnown, Matches
  <2>5. /\ clocations' = [i \in DOMAIN clocations |->
                            IF i > p THEN Top.fppr[i - p] ELSE clocations[i]]
        /\ highest_normalize_param_id' = h - L
    BY <1>12 DEF GroupEnd
  <2>6. /\ NumbersOf(clocations', N) = NumbersOf(clocations, p)
        /\ \A m \in 0..p : NumbersOf(clocations', m) = NumbersOf(clocations, m)
        /\ Len(clocations') = N
    <3>1. clocations \in Seq(Int)
      BY <1>1 DEF TypeInv
    <3> DEFINE r == Top.fppr
    <3> HIDE DEF p, r
    <3>2. \A i \in 1..N :
            clocations'[i] = IF i > p THEN r[i - p] ELSE clocations[i]
      BY <2>5, <3>1 DEF r
    <3>3. r \in Seq(Int) /\ Len(r) = N - p /\ Known(clocations, p, r)
      BY <2>1, <2>4 DEF r
    <3>4. p \in Nat /\ p <= N
      BY <2>1
    <3>5. Len(clocations') = N
      <4>1. DOMAIN clocations' = 1..N /\ clocations' \in Seq(Int)
        BY <1>2, <2>5, <3>1 DEF TypeInv
      <4> QED BY <1>1, <4>1
    <3> QED BY <3>1, <3>2, <3>3, <3>4, <3>5, NumbersOfShared
  <2>7. Shape' /\ Before' /\ Nested' /\ SelectsCounted'
    <3>1. stack # <<>> /\ Len(items) <= Len(items') /\ Len(items') \in Nat
      BY <1>1, <1>3, <1>5
    <3> QED BY <1>3, <1>4, <2>6, <3>1, PopInv
  <2>8. Dense'
    <3>1. h - L - 1 = h - 1 - (N - p) /\ h - L >= 1
      BY <1>1, <2>1, <2>3
    <3> QED BY <2>3, <2>5, <2>6, <3>1 DEF Dense
  <2>9. Consecutive'
    BY <1>6, <1>7, <2>2 DEF Consecutive
  <2>10. RefsKnown'
    <3>1. ASSUME NEW i \in 1..Len(stack')
          PROVE  FrameKnown(clocations', Len(clocations'), stack'[i])
      <4>1. FrameKnown(clocations, p, stack[i]) /\ stack'[i] = stack[i]
        BY <1>3, <1>6 DEF IndInv, RefsKnown
      <4>2. SameFrame(stack[i], stack'[i])
        BY <4>1 DEF SameFrame
      <4> QED BY <2>6, <4>1, <4>2, FrameKnownStays
    <3>2. ASSUME NEW i \in 1..Len(stack'), NEW k \in 1..Len(stack'),
                 stack'[k].kind # "select", i <= k
          PROVE  FrameKnown(clocations', stack'[k].prev, stack'[i])
      <4>1. /\ i \in 1..n /\ k \in 1..n /\ k < n /\ stack'[i] = stack[i]
            /\ stack'[k] = stack[k] /\ stack[k].kind # "select"
            /\ stack[k].prev \in Nat
        BY <1>6, <1>7, <3>2
      <4>2. FrameKnown(clocations, stack[k].prev, stack[i])
        BY <3>2, <4>1 DEF IndInv, RefsKnown
      <4>3. stack[k].prev <= p
        BY <1>3, <4>1 DEF IndInv, Nested
      <4>4. NumbersOf(clocations', stack[k].prev) = NumbersOf(clocations, stack[k].prev)
        BY <2>1, <2>6, <4>1, <4>3
      <4>5. SameFrame(stack[i], stack'[i])
        BY <4>1 DEF SameFrame
      <4> QED BY <4>1, <4>2, <4>4, <4>5, FrameKnownStays
    <3> QED BY <1>4, <2>2, <3>1, <3>2 DEF RefsKnown
  <2> QED BY <1>2, <1>8, <1>9, <1>10, <2>7, <2>8, <2>9, <2>10 DEF IndInv
<1>13. CASE Matches /\ Top.fppr = <<>>
  <2>1. N - Top.prev = 0 /\ Top.prev \in Nat
    BY <1>3, <1>13 DEF Matches, ItemFrames
  <2>2. N = Top.prev
    BY <1>1, <2>1
  <2>3. clocations' = [i \in DOMAIN clocations |-> clocations[i]]
    <3>1. \A i \in DOMAIN clocations : ~(i > Top.prev)
      BY <1>1, <2>2 DEF TypeInv
    <3>2. clocations' = [i \in DOMAIN clocations |->
                           IF i > Top.prev THEN Top.fppr[i - Top.prev]
                           ELSE clocations[i]]
      BY <1>13 DEF GroupEnd
    <3> QED BY <3>1, <3>2
  <2>4. clocations' = clocations
    BY <1>1, <2>3 DEF TypeInv
  <2>5. highest_normalize_param_id' = h
    BY <1>1, <1>13 DEF GroupEnd
  <2> QED BY <1>11, <2>4, <2>5
<1>14. CASE ~Matches
  BY <1>11, <1>14 DEF GroupEnd
<1> QED BY <1>12, <1>13, <1>14

\* check_stack_depth raises its error: the workspace is gone.
LEMMA FailInv ==
  ASSUME IndInv, Fail
  PROVE  IndInv'
<1>1. TypeInv'
  BY TypeStep DEF Next, IndInv
<1>2. /\ stack' = <<>> /\ clocations' = <<>> /\ highest_normalize_param_id' = 1
      /\ param_refs' = None
  BY DEF Fail
<1>3. /\ Shape' /\ Before' /\ Nested' /\ Consecutive' /\ NothingToShare'
      /\ Recording' /\ NoRefsOfNested' /\ SelectsCounted' /\ RefsKnown'
  BY <1>2 DEF Shape, Before, Nested, Consecutive, NothingToShare, Recording,
              NoRefsOfNested, SelectsCounted, RefsKnown
<1>4. Dense'
  BY <1>2 DEF Dense, NumbersOf
<1> QED BY <1>1, <1>3, <1>4 DEF IndInv

\* pg_query_normalize_ext starts with an empty workspace.
LEMMA InitInv ==
  ASSUME Init
  PROVE  IndInv
<1>1. TypeInv
  <2>1. <<>> \in Seq(Frames) /\ <<>> \in Seq(Int)
        /\ <<>> \in Seq(Items)
    OBVIOUS
  <2>2. /\ stack \in Seq(Frames) /\ clocations \in Seq(Int)
        /\ trace \in Seq(Int) /\ items \in Seq(Items)
    BY <2>1, Zenon DEF Init
  <2>3. /\ highest_normalize_param_id \in Int /\ highest_extern_param_id \in Nat
        /\ selects \in Nat
    BY DEF Init
  <2>4. param_refs \in Seq(Int) \union {None} /\ failed \in BOOLEAN
    BY Zenon DEF Init
  <2> QED BY <2>2, <2>3, <2>4 DEF TypeInv
<1>2. /\ Shape /\ Before /\ Nested /\ Consecutive /\ NothingToShare
      /\ Recording /\ NoRefsOfNested /\ SelectsCounted /\ RefsKnown
  BY DEF Init, Shape, Before, Nested, Consecutive, NothingToShare, Recording,
         NoRefsOfNested, SelectsCounted, RefsKnown
<1>3. Dense
  BY DEF Init, Dense, NumbersOf
<1> QED BY <1>1, <1>2, <1>3 DEF IndInv

\* Every step of the walk keeps the invariant.
LEMMA InvStep ==
  ASSUME IndInv, [Next]_vars
  PROVE  IndInv'
<1>1. CASE UNCHANGED vars
  <2> USE <1>1 DEF vars
  <2>1. TypeInv'
    BY DEF IndInv, TypeInv
  <2>2. Shape' /\ Before' /\ Nested' /\ Dense'
    BY DEF IndInv, Shape, Before, Nested, Dense
  <2>3. RefsKnown' /\ Consecutive'
    BY DEF IndInv, RefsKnown, Consecutive
  <2>4. NothingToShare' /\ Recording' /\ NoRefsOfNested' /\ SelectsCounted'
    BY DEF IndInv, NothingToShare, Recording, NoRefsOfNested, SelectsCounted
  <2> QED BY <2>1, <2>2, <2>3, <2>4 DEF IndInv
<1>2. CASE RecordConstLocation
  BY <1>2, RecordConstLocationInv
<1>3. ASSUME NEW n \in Numbers, ParamRef(n) PROVE IndInv'
  BY <1>3, ParamRefInv
<1>4. CASE SelectBegin
  BY <1>4, SelectBeginInv
<1>5. CASE SelectEnd
  BY <1>5, SelectEndInv
<1>6. CASE TargetEnd
  BY <1>6, TargetEndInv
<1>7. CASE GroupEnd
  BY <1>7, GroupEndInv
<1>8. CASE Fail
  BY <1>8, FailInv
<1>9. ASSUME NEW fp \in Fingerprints, TargetBegin(fp) PROVE IndInv'
  BY <1>9, TargetBeginInv
<1>10. ASSUME NEW fp \in Fingerprints, GroupBegin(fp) PROVE IndInv'
  BY <1>10, GroupBeginInv
<1> QED BY <1>1, <1>2, <1>3, <1>4, <1>5, <1>6, <1>7, <1>8, <1>9, <1>10 DEF Next

-----------------------------------------------------------------------------
(* The theorems. *)

\* const_record_walker keeps the invariant: whatever a GROUP BY item gives back
\* or takes over, the numbers of the constants stay consistent with the counter.
THEOREM WalkKeepsNumbers == Spec => []IndInv
<1>1. Init => IndInv
  BY InitInv
<1>2. IndInv /\ [Next]_vars => IndInv'
  BY InvStep
<1> QED BY <1>1, <1>2, PTL DEF Spec

\* The new parameters of const_record_walker are numbered 1, 2, ... without
\* gaps, and no number in use will be given out again.
THEOREM NumbersAreDenseHolds == Spec => []NumbersAreDense
<1>1. IndInv => NumbersAreDense
  <2> SUFFICES ASSUME IndInv PROVE NumbersAreDense
    OBVIOUS
  <2>1. clocations \in Seq(Int)
    BY DEF IndInv, TypeInv
  <2>2. DOMAIN clocations = 1..Len(clocations)
    BY <2>1
  <2> QED BY <2>2 DEF IndInv, Dense, NumbersOf, NumbersAreDense
<1> QED BY <1>1, WalkKeepsNumbers, PTL

\* The highest $n that T_ParamRef has tracked is that of the whole query so far.
HighestTracked ==
  \A j \in 1..Len(trace) : trace[j] <= highest_extern_param_id

\* Every step keeps highest_extern_param_id the highest $n met.
LEMMA HighestTrackedStep ==
  ASSUME TypeInv, HighestTracked, [Next]_vars
  PROVE  HighestTracked'
<1>1. /\ trace \in Seq(Int) /\ highest_extern_param_id \in Nat
      /\ \A j \in 1..Len(trace) : trace[j] \in Int
  BY DEF TypeInv
<1>2. ASSUME NEW leaf \in Int, Meet(leaf), highest_extern_param_id' \in Nat,
             leaf <= highest_extern_param_id',
             highest_extern_param_id <= highest_extern_param_id'
      PROVE  HighestTracked'
  <2>1. /\ Len(trace') = Len(trace) + 1 /\ Len(trace) \in Nat
        /\ trace'[Len(trace) + 1] = leaf
        /\ \A j \in 1..Len(trace) : trace'[j] = trace[j]
    BY <1>1, <1>2 DEF Meet
  <2> QED BY <1>1, <1>2, <2>1 DEF HighestTracked
<1>3. CASE RecordConstLocation
  <2>1. Meet(Const) /\ highest_extern_param_id' = highest_extern_param_id
    BY <1>3 DEF RecordConstLocation
  <2>2. Const \in Int /\ Const <= highest_extern_param_id
    BY <1>1 DEF Const
  <2> QED BY <1>1, <1>2, <2>1, <2>2
<1>4. ASSUME NEW n \in Numbers, ParamRef(n) PROVE HighestTracked'
  <2>1. n \in Nat
    BY NumbersAssumption
  <2>2. /\ Meet(n)
        /\ highest_extern_param_id' =
             IF n > highest_extern_param_id THEN n ELSE highest_extern_param_id
    BY <1>4 DEF ParamRef
  <2>3. /\ highest_extern_param_id' \in Nat /\ n <= highest_extern_param_id'
        /\ highest_extern_param_id <= highest_extern_param_id'
    BY <1>1, <2>1, <2>2
  <2> QED BY <1>2, <2>1, <2>2, <2>3
<1>5. CASE Fail
  BY <1>5 DEF Fail, HighestTracked
<1>6. CASE UNCHANGED <<trace, highest_extern_param_id>>
  BY <1>6 DEF HighestTracked
<1>7. ASSUME NEW fp \in Fingerprints, TargetBegin(fp) \/ GroupBegin(fp)
      PROVE  UNCHANGED <<trace, highest_extern_param_id>>
  BY <1>7 DEF TargetBegin, GroupBegin
<1>8. SelectBegin \/ SelectEnd \/ TargetEnd \/ GroupEnd \/ UNCHANGED vars =>
        UNCHANGED <<trace, highest_extern_param_id>>
  BY DEF SelectBegin, SelectEnd, TargetEnd, GroupEnd, vars
<1> QED BY <1>3, <1>4, <1>5, <1>6, <1>7, <1>8 DEF Next

\* No parameter that replaces a constant is a $n that the query has already, as
\* its number is counted from highest_extern_param_id.
THEOREM NewParamsAreNewHolds == Spec => []NewParamsAreNew
<1>1. Init => HighestTracked
  BY DEF Init, HighestTracked
<1>2. TypeInv /\ HighestTracked /\ [Next]_vars => HighestTracked'
  BY HighestTrackedStep
<1>3. TypeInv /\ HighestTracked => NewParamsAreNew
  <2> SUFFICES ASSUME TypeInv, HighestTracked,
                      NEW i \in DOMAIN clocations, NEW j \in DOMAIN trace,
                      clocations[i] < 0
               PROVE  highest_extern_param_id - clocations[i] # trace[j]
    BY DEF NewParamsAreNew
  <2>1. clocations[i] \in Int /\ highest_extern_param_id \in Nat
    BY DEF TypeInv
  <2>2. trace[j] \in Int /\ trace[j] <= highest_extern_param_id
    BY DEF TypeInv, HighestTracked
  <2> QED BY <2>1, <2>2
<1>4. IndInv => TypeInv
  BY DEF IndInv
<1> QED BY <1>1, <1>2, <1>3, <1>4, WalkKeepsNumbers, PTL DEF Spec

-----------------------------------------------------------------------------
(* What is shared.  Which constants share a parameter depends on the history *)
(* of the walk: on which target list entry a remembered list of parameters   *)
(* comes from, and on where the constants of an item begin and end.          *)

\* The clauses up to the target list.
Early == {"distinct", "targets"}

\* The same call, which may have gone on to a later clause.
Later(f, g) ==
  /\ SameFrame(f, g) /\ g.id = f.id
  /\ f.kind = "select" /\ g.phase \in Early => f.phase \in Early

\* No call but the innermost of these n has changed, and that one went on.
Moves(n) ==
  /\ \A k \in 1..(n - 1) : stack'[k] = stack[k]
  /\ \A k \in 1..n : Later(stack[k], stack'[k])

\* A SELECT goes on to another clause.
LEMMA NextPhaseMoves ==
  ASSUME TypeInv, Under("select"), NEW p \in Phases,
         p \in Early => Top.phase \in Early
  PROVE  LET t == [stack EXCEPT ![Len(stack)].phase = p]
         IN  /\ t \in Seq(Frames) /\ Len(t) = Len(stack)
             /\ \A k \in 1..(Len(stack) - 1) : t[k] = stack[k]
             /\ \A k \in 1..Len(stack) : Later(stack[k], t[k])
             /\ t[Len(stack)].phase = p
<1> DEFINE n == Len(stack)
           f == [stack[n] EXCEPT !.phase = p]
           t == [stack EXCEPT ![n] = f]
<1>1. n \in 1..Len(stack) /\ n \in Nat /\ stack[n] \in SelectFrames
  BY TopFrame, FrameKinds DEF Under, Top, TypeInv
<1>2. f \in Frames /\ Later(stack[n], f) /\ f.phase = p
  BY <1>1 DEF Frames, SelectFrames, SameFrame, Later, Top
<1>3. [stack EXCEPT ![Len(stack)].phase = p] = t
  OBVIOUS
<1>4. stack \in Seq(Frames)
  BY DEF TypeInv
<1> HIDE DEF f
<1>5. t \in Seq(Frames) /\ Len(t) = Len(stack)
  BY <1>1, <1>2, <1>4
<1>6. \A k \in 1..Len(stack) : t[k] = IF k = n THEN f ELSE stack[k]
  BY <1>1, <1>4
<1>7. \A k \in 1..(n - 1) : t[k] = stack[k]
  BY <1>1, <1>6
<1>8. \A k \in 1..Len(stack) : Later(stack[k], t[k])
  BY <1>2, <1>6 DEF Later, SameFrame
<1>9. t[n].phase = p
  BY <1>1, <1>2, <1>6
<1> QED BY <1>3, <1>5, <1>7, <1>8, <1>9

\* ... or a constant or SELECT between two lists makes it do so.
LEMMA ClauseMoves ==
  ASSUME TypeInv
  PROVE  /\ Clause \in Seq(Frames) /\ Len(Clause) = Len(stack)
         /\ \A k \in 1..(Len(stack) - 1) : Clause[k] = stack[k]
         /\ \A k \in 1..Len(stack) : Later(stack[k], Clause[k])
<1>1. CASE Under("select")
  <2> DEFINE p == AfterClause(stack[Len(stack)].phase)
  <2>1. stack[Len(stack)].phase \in Phases
    BY <1>1, TopFrame, FrameKinds DEF Under, Top, SelectFrames
  <2>2. p \in Phases /\ (p \in Early => Top.phase \in Early)
    BY <2>1 DEF Top, AfterClause, Phases, Early
  <2>3. Clause = [stack EXCEPT ![Len(stack)].phase = p]
    BY <1>1 DEF Clause
  <2> HIDE DEF p
  <2> QED BY <1>1, <2>2, <2>3, NextPhaseMoves
<1>2. CASE ~Under("select")
  BY <1>2 DEF Clause, TypeInv, SameFrame, Later
<1> QED BY <1>1, <1>2

\* A constant or $n begins and ends no call.
LEMMA MeetMoves ==
  ASSUME TypeInv, NEW leaf, Meet(leaf)
  PROVE  Len(stack') = Len(stack) /\ Moves(Len(stack))
  BY ClauseMoves DEF Meet, Moves

\* T_SelectStmt: a call with a number of its own begins.
LEMMA SelectBeginMoves ==
  ASSUME TypeInv, SelectBegin
  PROVE  LET f == stack'[Len(stack) + 1]
         IN  /\ Len(stack') = Len(stack) + 1 /\ Moves(Len(stack))
             /\ f.kind = "select" /\ f.targets = <<>> /\ f.id = selects + 1
<1>1. /\ Select \in Frames /\ Select.kind = "select" /\ Select.targets = <<>>
      /\ Select.id = selects + 1
  BY DEF Select, Frames, SelectFrames, TypeInv, Phases
<1> HIDE DEF Select
<1>2. stack' = Append(Clause, Select)
  BY DEF SelectBegin
<1>3. /\ Len(stack') = Len(Clause) + 1 /\ stack'[Len(Clause) + 1] = Select
      /\ \A k \in 1..Len(Clause) : stack'[k] = Clause[k]
  BY <1>1, <1>2, ClauseMoves, Push
<1>4. Len(stack) \in Nat
  BY DEF TypeInv
<1>5. \A k \in 1..(Len(stack) - 1) : k \in 1..Len(stack)
  BY <1>4
<1> QED BY <1>1, <1>3, <1>5, ClauseMoves DEF Moves

\* The frame of a new item has the number of its SELECT and where its text starts.
BeginsAt(f, kind, fp, fppr) ==
  /\ BeginsItem(f, kind, fp, fppr) /\ f.start = Len(trace)
  /\ f.id = stack[Len(stack)].id

\* A target list entry begins.
LEMMA TargetBeginMoves ==
  ASSUME TypeInv, NEW fp \in Fingerprints, TargetBegin(fp)
  PROVE  LET n == Len(stack)
         IN  /\ Len(stack') = n + 1 /\ n \in 1..n /\ stack[n].kind = "select"
             /\ Moves(n) /\ stack'[n].phase = "targets"
             /\ BeginsAt(stack'[n + 1], "target", fp, None)
<1> DEFINE n == Len(stack)
           t == [stack EXCEPT ![n].phase = "targets"]
           f == Item("target", fp, None)
<1>1. n \in 1..n /\ stack[n].kind = "select" /\ n \in Nat
  BY TopFrame DEF TargetBegin, Under, Top, TypeInv
<1>2. /\ t \in Seq(Frames) /\ Len(t) = n
      /\ \A k \in 1..(n - 1) : t[k] = stack[k]
      /\ \A k \in 1..n : Later(stack[k], t[k])
      /\ t[n].phase = "targets"
  BY NextPhaseMoves DEF TargetBegin, Phases, Early
<1>3. f \in Frames /\ BeginsAt(f, "target", fp, None)
  BY NewItem DEF TargetBegin, BeginsAt, Item, Top
<1>4. stack' = Append(t, f)
  BY DEF TargetBegin
<1> HIDE DEF t, f
<1>5. /\ Len(stack') = n + 1 /\ stack'[n + 1] = f
      /\ \A k \in 1..n : stack'[k] = t[k]
  BY <1>2, <1>3, <1>4, Push
<1>6. \A k \in 1..(n - 1) : k \in 1..n
  BY <1>1
<1> QED BY <1>1, <1>2, <1>3, <1>5, <1>6 DEF Moves

\* A target list entry ends: its SELECT has one more entry to match.
LEMMA TargetEndMoves ==
  ASSUME TypeInv, Shape, TargetEnd
  PROVE  LET n == Len(stack) - 1
         IN  /\ stack'[n].id = stack[n].id /\ stack'[n].phase = stack[n].phase
<1> DEFINE n == Len(stack) - 1
           t == SubSeq(stack, 1, n)
           l == Append(t[n].targets, [fp |-> Top.fp, refs |-> Remembered])
           f == [t[n] EXCEPT !.targets = l]
<1>1. n \in Nat /\ n \in 1..Len(stack) /\ stack[n].kind = "select"
  BY TargetEndFrames DEF TypeInv
<1>2. stack # <<>>
  BY TopFrame DEF TargetEnd, Under
<1>3. t \in Seq(Frames) /\ Len(t) = n /\ \A k \in 1..n : t[k] = stack[k]
  BY <1>2, Pop
<1>4. stack' = [t EXCEPT ![n] = f]
  BY DEF TargetEnd, ItemBelow, Remembered
<1>5. t[n] \in SelectFrames /\ n \in 1..n /\ t[n] = stack[n]
  BY <1>1, <1>3, FrameKinds
<1> HIDE DEF t, l
<1>6. f.id = stack[n].id /\ f.phase = stack[n].phase
  BY <1>5 DEF SelectFrames
<1> HIDE DEF f
<1>7. stack'[n] = f
  BY <1>3, <1>4, <1>5
<1> QED BY <1>6, <1>7

\* The list without its i-th entry, entry by entry.
LEMMA WithoutExact ==
  ASSUME NEW S, NEW s \in Seq(S), NEW i \in 1..Len(s)
  PROVE  /\ Len(s) \in Nat /\ Len(Without(s, i)) = Len(s) - 1
         /\ \A j \in 1..(Len(s) - 1) :
              Without(s, i)[j] = IF j < i THEN s[j] ELSE s[j + 1]
<1> DEFINE a == SubSeq(s, 1, i - 1)
           b == SubSeq(s, i + 1, Len(s))
<1>1. a \in Seq(S) /\ Len(a) = i - 1 /\ \A j \in 1..(i - 1) : a[j] = s[j]
  OBVIOUS
<1>2. /\ b \in Seq(S) /\ Len(b) = Len(s) - i
      /\ \A j \in 1..(Len(s) - i) : b[j] = s[i + j]
  OBVIOUS
<1>3. Without(s, i) = a \o b
  BY DEF Without
<1> HIDE DEF a, b
<1>4. \A j \in 1..(Len(a) + Len(b)) :
        (a \o b)[j] = IF j <= Len(a) THEN a[j] ELSE b[j - Len(a)]
  BY <1>1, <1>2, ConcatProperties
<1>5. Len(a) = i - 1 /\ Len(a) + Len(b) = Len(s) - 1 /\ Len(s) \in Nat
  BY <1>1, <1>2
<1>6. ASSUME NEW j \in 1..(Len(s) - 1)
      PROVE  (a \o b)[j] = IF j < i THEN s[j] ELSE s[j + 1]
  <2>1. CASE j < i
    BY <1>1, <1>4, <1>5, <2>1
  <2>2. CASE ~(j < i)
    <3>1. /\ j - (i - 1) \in 1..(Len(s) - i) /\ i + (j - (i - 1)) = j + 1
          /\ ~(j <= i - 1)
      BY <1>5, <2>2
    <3>2. b[j - (i - 1)] = s[i + (j - (i - 1))]
      BY <1>2, <3>1
    <3> QED BY <1>4, <1>5, <2>2, <3>1, <3>2
  <2> QED BY <2>1, <2>2
<1> QED BY <1>3, <1>5, <1>6, WithoutEntries

\* A GROUP BY item begins: it has no entry to take, or takes the i-th.
NoEntry(fp, s, t, f) ==
  /\ t.targets = s.targets
  /\ \A j \in 1..Len(s.targets) : s.targets[j].fp # fp
  /\ BeginsAt(f, "group", fp, None)

TakesFrom(i, fp, s, t, f) ==
  /\ s.targets \in Seq(Entries) /\ i \in 1..Len(s.targets) /\ s.targets[i].fp = fp
  /\ t.targets = Without(s.targets, i)
  /\ BeginsAt(f, "group", fp, s.targets[i].refs)

\* A GROUP BY item begins.
LEMMA GroupBeginMoves ==
  ASSUME TypeInv, NEW fp \in Fingerprints, GroupBegin(fp)
  PROVE  LET n == Len(stack)
         IN  /\ Len(stack') = n + 1 /\ n \in 1..n /\ stack[n].kind = "select"
             /\ \A k \in 1..(n - 1) : stack'[k] = stack[k]
             /\ stack'[n].kind = "select" /\ stack'[n].id = stack[n].id
             /\ stack'[n].phase = "group"
             /\ \/ NoEntry(fp, stack[n], stack'[n], stack'[n + 1])
                \/ \E i \in Nat : TakesFrom(i, fp, stack[n], stack'[n], stack'[n + 1])
<1> DEFINE n == Len(stack)
           t == [stack EXCEPT ![n].phase = "group"]
           i == First(Matching(fp))
           ts == stack[n].targets
<1>1. /\ n \in 1..n /\ stack[n] \in SelectFrames /\ stack[n].kind = "select"
      /\ n \in Nat /\ ts \in Seq(Entries)
  BY TopFrame, FrameKinds DEF GroupBegin, Under, Top, TypeInv, SelectFrames
<1>2. /\ t \in Seq(Frames) /\ Len(t) = n
      /\ \A k \in 1..(n - 1) : t[k] = stack[k]
      /\ \A k \in 1..n : Later(stack[k], t[k])
      /\ t[n].phase = "group"
  BY NextPhaseMoves DEF GroupBegin, Phases, Early
<1>3. t[n].kind = "select" /\ t[n].id = stack[n].id /\ t[n].targets = ts
  BY <1>1, <1>2 DEF Later, SameFrame
<1>4. \A k \in 1..(n - 1) : k \in 1..n
  BY <1>1
<1>5. CASE Matching(fp) = {}
  <2> DEFINE f == Item("group", fp, None)
  <2>1. f \in Frames /\ BeginsAt(f, "group", fp, None)
    BY NewItem DEF GroupBegin, BeginsAt, Item, Top
  <2>2. stack' = Append(t, f)
    BY <1>5 DEF GroupBegin
  <2>3. \A j \in 1..Len(ts) : ts[j].fp # fp
    BY <1>5 DEF Matching, Top
  <2> HIDE DEF t, f
  <2>4. /\ Len(stack') = n + 1 /\ stack'[n + 1] = f
        /\ \A k \in 1..n : stack'[k] = t[k]
    BY <1>2, <2>1, <2>2, Push
  <2> QED BY <1>1, <1>2, <1>3, <1>4, <2>1, <2>3, <2>4 DEF NoEntry
<1>6. CASE Matching(fp) # {}
  <2> DEFINE f == Item("group", fp, Top.targets[i].refs)
             g == [t[n] EXCEPT !.targets = Without(@, i)]
             u == [t EXCEPT ![n] = g]
  <2>1. Matching(fp) \in SUBSET Nat
    BY DEF Matching
  <2>2. i \in 1..Len(ts) /\ ts[i].fp = fp /\ i \in Nat
    BY <1>6, <2>1, FirstMatch DEF Matching, Top
  <2> HIDE DEF i
  <2> HIDE DEF ts
  <2>3. ts[i].refs \in Seq(Int)
    <3>1. ts[i] \in Entries
      BY <1>1, <2>2
    <3> QED BY <3>1 DEF Entries
  <2>4. f \in Frames /\ BeginsAt(f, "group", fp, ts[i].refs)
    BY <2>3, NewItem DEF GroupBegin, Top, ts, BeginsAt, Item
  <2>5. stack' = Append(u, f)
    BY <1>6 DEF GroupBegin, i
  <2> HIDE DEF t, f
  <2>6. t[n] \in SelectFrames
    <3>1. t[n] \in Frames
      BY <1>1, <1>2
    <3> QED BY <1>3, <3>1, FrameKinds
  <2>7. Without(ts, i) \in Seq(Entries)
    BY <1>1, <2>2, WithoutEntries
  <2>8. /\ g \in Frames /\ g.kind = "select" /\ g.targets = Without(ts, i)
        /\ g.id = stack[n].id /\ g.phase = "group"
    <3>1. g = [t[n] EXCEPT !.targets = Without(ts, i)]
      BY <1>3 DEF ts
    <3>2. g \in SelectFrames /\ g.targets = Without(ts, i)
      BY <2>6, <2>7, <3>1 DEF SelectFrames
    <3>3. g.id = t[n].id /\ g.phase = t[n].phase
      BY <2>6 DEF SelectFrames
    <3> QED BY <1>2, <1>3, <3>2, <3>3 DEF Frames, SelectFrames
  <2> HIDE DEF g
  <2>9. /\ u \in Seq(Frames) /\ Len(u) = n
        /\ \A k \in 1..n : u[k] = IF k = n THEN g ELSE t[k]
    BY <1>1, <1>2, <2>8
  <2> HIDE DEF u
  <2>10. /\ Len(stack') = n + 1 /\ \A k \in 1..n : stack'[k] = u[k]
         /\ stack'[n + 1] = f
    BY <2>4, <2>5, <2>9, Push
  <2>11. \A k \in 1..(n - 1) : stack'[k] = stack[k]
    BY <1>1, <1>2, <1>4, <2>9, <2>10
  <2>12. stack'[n] = g
    BY <1>1, <2>9, <2>10
  <2>13. TakesFrom(i, fp, stack[n], stack'[n], stack'[n + 1])
    BY <1>1, <2>2, <2>4, <2>8, <2>10, <2>12 DEF TakesFrom, ts
  <2> QED BY <1>1, <2>2, <2>8, <2>10, <2>11, <2>12, <2>13
<1> QED BY <1>5, <1>6

\* An item that ends is recorded with its constants and its text.
LEMMA RecordExact ==
  ASSUME TypeInv, Top \in ItemFrames, Record
  PROVE  LET e == items'[Len(items) + 1]
         IN  /\ Len(items') = Len(items) + 1 /\ Len(items) \in Nat
             /\ \A t \in 1..Len(items) : items'[t] = items[t]
             /\ e.kind = Top.kind /\ e.id = Top.id /\ e.fp = Top.fp
             /\ e.prev = Top.prev /\ e.last = Len(clocations)
             /\ Top.start <= Len(trace) =>
                  /\ Len(e.text) = Len(trace) - Top.start
                  /\ \A y \in 1..Len(e.text) : e.text[y] = trace[Top.start + y]
<1> DEFINE s == SubSeq(trace, Top.start + 1, Len(trace))
           r == [kind |-> Top.kind, id |-> Top.id, fp |-> Top.fp,
                 prev |-> Top.prev, last |-> Len(clocations), text |-> s]
<1>1. /\ Top.kind \in {"target", "group"} /\ Top.id \in Nat
      /\ Top.fp \in Fingerprints /\ Top.prev \in Nat /\ Top.start \in Nat
  BY DEF ItemFrames
<1>2. Len(clocations) \in Nat /\ trace \in Seq(Int) /\ items \in Seq(Items)
  BY DEF TypeInv
<1>3. s \in Seq(Int)
  BY <1>1, <1>2, SubSeqProperties
<1>4. Top.start <= Len(trace) =>
        /\ Len(s) = Len(trace) - Top.start
        /\ \A y \in 1..Len(s) : s[y] = trace[Top.start + y]
  <2> SUFFICES ASSUME Top.start <= Len(trace)
               PROVE  /\ Len(s) = Len(trace) - Top.start
                      /\ \A y \in 1..Len(s) : s[y] = trace[Top.start + y]
    OBVIOUS
  <2> DEFINE a == Top.start
  <2> HIDE DEF a
  <2>1. a \in Nat /\ a <= Len(trace) /\ Len(trace) \in Nat
    BY <1>1, <1>2 DEF a
  <2>2. /\ Len(SubSeq(trace, a + 1, Len(trace))) = Len(trace) - a
        /\ \A y \in 1..(Len(trace) - a) :
             SubSeq(trace, a + 1, Len(trace))[y] = trace[a + y]
    BY <1>2, <2>1
  <2> QED BY <2>2 DEF a
<1> HIDE DEF s
<1>5. /\ r \in Items /\ r.kind = Top.kind /\ r.id = Top.id /\ r.fp = Top.fp
      /\ r.prev = Top.prev /\ r.last = Len(clocations) /\ r.text = s
  BY <1>1, <1>2, <1>3 DEF Items
<1>6. items' = Append(items, r)
  BY DEF Record, s
<1> HIDE DEF r
<1>7. /\ Len(items') = Len(items) + 1 /\ Len(items) \in Nat
      /\ \A t \in 1..Len(items) : items'[t] = items[t]
      /\ items'[Len(items) + 1] = r
  BY <1>2, <1>5, <1>6
<1> QED BY <1>4, <1>5, <1>7

-----------------------------------------------------------------------------
(* The history of the walk. *)

\* Everything from after place m up to place n is a constant.
AllConst(s, m, n) == \A y \in (m + 1)..n : s[y] = Const

\* A SELECT within another one has a higher number, and an item has that of its
\* SELECT.
Numbered ==
  /\ \A k \in 1..Len(stack) : stack[k].id <= selects
  /\ \A k \in 1..Len(stack) :
       stack[k].kind # "select" => stack[k].id = stack[k - 1].id
  /\ \A j, k \in 1..Len(stack) :
       j < k /\ stack[j].kind = "select" /\ stack[k].kind = "select" =>
         stack[j].id < stack[k].id

\* An item that has ended is of a SELECT met, and its constants are there.
Ended ==
  \A t \in 1..Len(items) :
    /\ items[t].id <= selects
    /\ items[t].prev <= items[t].last /\ items[t].last <= Len(clocations)

\* The SELECTs within an item under way, and the items of these, came after it
\* began; the items that had ended before it began are not theirs, and nor are
\* their constants.
Windows ==
  \A k \in 1..Len(stack) : stack[k].kind # "select" =>
    /\ stack[k].id <= stack[k].made
    /\ \A m \in (k + 1)..Len(stack) : stack[m].id > stack[k].made
    /\ \A t \in 1..stack[k].done :
         items[t].id <= stack[k].made /\ items[t].last <= stack[k].prev
    /\ \A t \in (stack[k].done + 1)..Len(items) : items[t].id > stack[k].made

\* If all its leaves are constants, an item has as many constants as leaves.
LeavesCounted ==
  \A k \in 1..Len(stack) : stack[k].kind # "select" =>
    /\ stack[k].start <= Len(trace)
    /\ AllConst(trace, stack[k].start, Len(trace)) =>
         Len(clocations) - stack[k].prev = Len(trace) - stack[k].start

\* The target list comes before the GROUP BY.
Phased ==
  \A k \in 1..Len(stack) :
    /\ stack[k].kind = "select" /\ stack[k].phase \in Early =>
         \A t \in 1..Len(items) :
           items[t].kind = "group" => items[t].id # stack[k].id
    /\ stack[k].kind = "target" => stack[k - 1].phase = "targets"
    /\ stack[k].kind = "group" => stack[k - 1].phase = "group"

HistInv == Numbered /\ Ended /\ Windows /\ LeavesCounted /\ Phased

\* The counts of the walk are natural numbers.
LEMMA Counts ==
  ASSUME TypeInv
  PROVE  /\ Len(stack) \in Nat /\ Len(clocations) \in Nat /\ Len(items) \in Nat
         /\ Len(trace) \in Nat /\ selects \in Nat
         /\ \A k \in 1..Len(stack) : stack[k] \in Frames /\ stack[k].id \in Nat
         /\ \A k \in 1..Len(stack) : stack[k].kind # "select" =>
              /\ stack[k].prev \in Nat /\ stack[k].done \in Nat
              /\ stack[k].made \in Nat /\ stack[k].start \in Nat
              /\ stack[k].kind \in {"target", "group"}
         /\ \A t \in 1..Len(items) :
              /\ items[t] \in Items
              /\ items[t].id \in Nat /\ items[t].prev \in Nat /\ items[t].last \in Nat
              /\ items[t].kind \in {"target", "group"} /\ items[t].text \in Seq(Int)
<1>1. /\ Len(stack) \in Nat /\ Len(clocations) \in Nat /\ Len(items) \in Nat
      /\ Len(trace) \in Nat /\ selects \in Nat
      /\ \A k \in 1..Len(stack) : stack[k] \in Frames
      /\ \A t \in 1..Len(items) : items[t] \in Items
  BY DEF TypeInv
<1>2. \A e \in Items : /\ e.id \in Nat /\ e.prev \in Nat /\ e.last \in Nat
                       /\ e.kind \in {"target", "group"} /\ e.text \in Seq(Int)
  BY DEF Items
<1>3. \A f \in ItemFrames : /\ f.prev \in Nat /\ f.done \in Nat /\ f.made \in Nat
                            /\ f.start \in Nat /\ f.kind \in {"target", "group"}
  BY DEF ItemFrames
<1> QED BY <1>1, <1>2, <1>3, FrameKinds

\* An item under way has its SELECT below it.
LEMMA BelowItem ==
  ASSUME IndInv, NEW k \in 1..Len(stack), stack[k].kind # "select"
  PROVE  /\ k > 1 /\ k - 1 \in 1..Len(stack) /\ k - 1 \in 1..(Len(stack) - 1)
         /\ stack[k - 1].kind = "select"
  BY Counts DEF IndInv, Shape

\* One more leaf.
LEMMA OneMoreLeaf ==
  ASSUME NEW s \in Seq(Int), NEW leaf \in Int, NEW m \in Nat, m <= Len(s),
         AllConst(Append(s, leaf), m, Len(s) + 1)
  PROVE  AllConst(s, m, Len(s)) /\ leaf = Const
<1> DEFINE n == Len(s)
           u == Append(s, leaf)
<1>1. n \in Nat /\ u[n + 1] = leaf /\ \A y \in 1..n : u[y] = s[y]
  OBVIOUS
<1> HIDE DEF u
<1>2. \A y \in (m + 1)..n : y \in 1..n /\ y \in (m + 1)..(n + 1)
  BY <1>1
<1>3. n + 1 \in (m + 1)..(n + 1)
  BY <1>1
<1> QED BY <1>1, <1>2, <1>3 DEF AllConst, u

\* A leaf: a constant is one more of both, a $n is none.
LEMMA LeafHist ==
  ASSUME IndInv, HistInv, NEW leaf \in Int, Meet(leaf),
         \/ leaf = Const /\ Len(clocations') = Len(clocations) + 1
         \/ leaf # Const /\ Len(clocations') = Len(clocations)
  PROVE  HistInv'
<1> DEFINE n == Len(stack)
<1>1. /\ TypeInv /\ n \in Nat /\ Len(clocations) \in Nat /\ Len(items) \in Nat
      /\ Len(trace) \in Nat /\ trace \in Seq(Int)
  BY Counts DEF IndInv, TypeInv
<1>2. /\ Len(stack') = n /\ \A k \in 1..(n - 1) : stack'[k] = stack[k]
      /\ \A k \in 1..n : Later(stack[k], stack'[k])
  BY <1>1, MeetMoves DEF Moves
<1>3. \A k \in 1..n :
        /\ stack'[k].kind = stack[k].kind /\ stack'[k].id = stack[k].id
        /\ stack[k].kind # "select" => stack'[k] = stack[k]
        /\ stack[k].kind = "select" /\ stack'[k].phase \in Early =>
             stack[k].phase \in Early
  BY <1>2 DEF Later, SameFrame
<1>4. items' = items /\ selects' = selects /\ trace' = Append(trace, leaf)
  BY DEF Meet
<1>5. /\ Len(trace') = Len(trace) + 1 /\ trace'[Len(trace) + 1] = leaf
      /\ \A y \in 1..Len(trace) : trace'[y] = trace[y]
  BY <1>1, <1>4
<1>6. \A k \in 1..n : stack[k].kind # "select" =>
        k > 1 /\ k - 1 \in 1..n /\ stack'[k - 1] = stack[k - 1]
  BY <1>2, BelowItem
<1>7. Numbered'
  BY <1>2, <1>3, <1>4, <1>6 DEF HistInv, Numbered
<1>8. Ended'
  BY <1>1, <1>4, Counts DEF HistInv, Ended
<1>9. Windows'
  <2>1. ASSUME NEW k \in 1..n, stack'[k].kind # "select"
        PROVE  /\ stack'[k] = stack[k] /\ stack[k].kind # "select"
               /\ \A m \in (k + 1)..n : m \in 1..n /\ stack'[m].id = stack[m].id
    <3>1. \A m \in (k + 1)..n : m \in 1..n
      BY <1>1
    <3> QED BY <1>3, <2>1, <3>1
  <2> QED BY <1>2, <1>4, <2>1 DEF HistInv, Windows
<1>10. LeavesCounted'
  <2> SUFFICES ASSUME NEW k \in 1..n, stack[k].kind # "select"
               PROVE  /\ stack[k].start <= Len(trace')
                      /\ AllConst(trace', stack[k].start, Len(trace')) =>
                           Len(clocations') - stack[k].prev = Len(trace') - stack[k].start
    BY <1>2, <1>3 DEF LeavesCounted
  <2>1. /\ stack[k].start \in Nat /\ stack[k].prev \in Nat
        /\ stack[k].start <= Len(trace)
        /\ AllConst(trace, stack[k].start, Len(trace)) =>
             Len(clocations) - stack[k].prev = Len(trace) - stack[k].start
    BY <1>1, Counts DEF HistInv, LeavesCounted
  <2>2. ASSUME AllConst(trace', stack[k].start, Len(trace'))
        PROVE  Len(clocations') - stack[k].prev = Len(trace') - stack[k].start
    <3>1. AllConst(Append(trace, leaf), stack[k].start, Len(trace) + 1)
      BY <1>4, <1>5, <2>2
    <3>2. AllConst(trace, stack[k].start, Len(trace)) /\ leaf = Const
      BY <1>1, <2>1, <3>1, OneMoreLeaf
    <3>3. /\ Len(clocations') = Len(clocations) + 1
          /\ Len(clocations) - stack[k].prev = Len(trace) - stack[k].start
      BY <2>1, <3>2
    <3>4. /\ stack[k].start \in Nat /\ stack[k].prev \in Nat
          /\ Len(clocations) \in Nat /\ Len(trace) \in Nat
          /\ Len(trace') = Len(trace) + 1
      BY <1>1, <1>5, <2>1
    <3> QED BY ONLY <3>3, <3>4
  <2> QED BY <1>1, <1>5, <2>1, <2>2
<1>11. Phased'
  BY <1>2, <1>3, <1>4, <1>6 DEF HistInv, Phased
<1> QED BY <1>7, <1>8, <1>9, <1>10, <1>11 DEF HistInv

\* What a new frame is: a SELECT with a new number, or an item of the innermost
\* SELECT, which is at the clause of the item.
NewSelect(f) == f.kind = "select" /\ f.id = selects + 1 /\ selects' = selects + 1

NewItemOf(f, s, t) ==
  /\ s.kind = "select" /\ f.kind # "select" /\ selects' = selects
  /\ f.id = s.id /\ f.made = selects /\ f.done = Len(items)
  /\ f.prev = Len(clocations) /\ f.start = Len(trace)
  /\ f.kind = "target" => t.phase = "targets"
  /\ f.kind = "group" => t.phase = "group"

\* A call begins.
LEMMA PushHist ==
  ASSUME IndInv, HistInv, Len(stack') = Len(stack) + 1,
         UNCHANGED <<items, clocations, trace>>,
         \A k \in 1..(Len(stack) - 1) : stack'[k] = stack[k],
         \A k \in 1..Len(stack) :
           /\ stack'[k].kind = stack[k].kind /\ stack'[k].id = stack[k].id
           /\ stack[k].kind # "select" => stack'[k] = stack[k]
           /\ stack[k].kind = "select" /\ stack'[k].phase \in Early =>
                stack[k].phase \in Early,
         \/ NewSelect(stack'[Len(stack) + 1])
         \/ /\ Len(stack) \in 1..Len(stack)
            /\ NewItemOf(stack'[Len(stack) + 1], stack[Len(stack)], stack'[Len(stack)])
  PROVE  HistInv'
<1> DEFINE n == Len(stack)
           f == stack'[n + 1]
<1>1. /\ TypeInv /\ n \in Nat /\ Len(clocations) \in Nat /\ Len(items) \in Nat
      /\ Len(trace) \in Nat /\ selects \in Nat
  BY Counts DEF IndInv
<1>2. \A k \in 1..(n + 1) : k \in 1..n \/ k = n + 1
  BY <1>1
<1>3. \A k \in 1..n : stack[k].id \in Nat /\ stack[k].id <= selects
  BY <1>1, Counts DEF HistInv, Numbered
<1>4. /\ f.kind = "select" => f.id = selects + 1 /\ selects' = selects + 1
      /\ f.kind # "select" =>
           /\ n \in 1..n /\ stack[n].kind = "select" /\ selects' = selects
           /\ f.id = stack[n].id /\ f.made = selects /\ f.done = Len(items)
           /\ f.prev = Len(clocations) /\ f.start = Len(trace)
           /\ f.kind = "target" => stack'[n].phase = "targets"
           /\ f.kind = "group" => stack'[n].phase = "group"
  BY DEF NewSelect, NewItemOf
<1>5. selects' \in Nat /\ selects <= selects'
  BY <1>1, <1>4
<1>6. f.id \in Nat /\ f.id <= selects'
  BY <1>1, <1>3, <1>4
<1>7. \A k \in 1..n : stack[k].kind # "select" =>
        /\ k > 1 /\ k - 1 \in 1..n /\ stack'[k - 1] = stack[k - 1]
        /\ stack'[k] = stack[k] /\ stack[k].made \in Nat /\ stack[k].made <= selects
  BY <1>1, BelowItem, Counts DEF IndInv, Before
<1> HIDE DEF f
<1>8. Numbered'
  <2>1. \A k \in 1..(n + 1) : stack'[k].id <= selects'
    BY <1>1, <1>2, <1>3, <1>5, <1>6 DEF f
  <2>2. ASSUME NEW k \in 1..(n + 1), stack'[k].kind # "select"
        PROVE  stack'[k].id = stack'[k - 1].id
    <3>1. CASE k \in 1..n
      BY <1>7, <2>2, <3>1 DEF HistInv, Numbered
    <3>2. CASE k = n + 1
      <4>1. k - 1 = n
        BY <1>1, <3>2
      <4> QED BY <1>4, <2>2, <3>2, <4>1 DEF f
    <3> QED BY <1>2, <3>1, <3>2
  <2>3. ASSUME NEW j \in 1..(n + 1), NEW k \in 1..(n + 1), j < k,
               stack'[j].kind = "select", stack'[k].kind = "select"
        PROVE  stack'[j].id < stack'[k].id
    <3>1. j \in 1..n
      BY <1>1, <2>3
    <3>2. CASE k \in 1..n
      BY <2>3, <3>1, <3>2 DEF HistInv, Numbered
    <3>3. CASE k = n + 1
      BY <1>1, <1>3, <1>4, <2>3, <3>1, <3>3 DEF f
    <3> QED BY <1>2, <3>2, <3>3
  <2> QED BY <2>1, <2>2, <2>3 DEF Numbered
<1>9. Ended'
  BY <1>1, <1>5, Counts DEF HistInv, Ended
<1>10. Windows'
  <2> SUFFICES ASSUME NEW k \in 1..(n + 1), stack'[k].kind # "select"
      PROVE  /\ stack'[k].id <= stack'[k].made
             /\ \A m \in (k + 1)..(n + 1) : stack'[m].id > stack'[k].made
             /\ \A t \in 1..stack'[k].done :
                  items[t].id <= stack'[k].made /\ items[t].last <= stack'[k].prev
             /\ \A t \in (stack'[k].done + 1)..Len(items) :
                  items[t].id > stack'[k].made
    BY DEF Windows
  <2>1. CASE k \in 1..n
    <3>1. stack'[k] = stack[k] /\ stack[k].kind # "select"
      BY <1>7, <2>1
    <3>2. ASSUME NEW m \in (k + 1)..(n + 1) PROVE stack'[m].id > stack[k].made
      <4>1. CASE m \in (k + 1)..n
        <5>1. m \in 1..n
          BY <1>1, <2>1, <4>1
        <5> QED BY <2>1, <3>1, <4>1, <5>1 DEF HistInv, Windows
      <4>2. CASE m = n + 1
        <5>1. CASE f.kind = "select"
          BY <1>1, <1>4, <1>7, <2>1, <3>1, <4>2, <5>1 DEF f
        <5>2. CASE f.kind # "select"
          <6>1. k # n
            BY <1>4, <3>1, <5>2
          <6>2. n \in (k + 1)..n
            BY <1>1, <2>1, <6>1
          <6>3. stack[n].id > stack[k].made
            BY <2>1, <3>1, <6>2 DEF HistInv, Windows
          <6> QED BY <1>4, <4>2, <5>2, <6>3 DEF f
        <5> QED BY <5>1, <5>2
      <4> QED BY <1>1, <2>1, <4>1, <4>2
    <3> QED BY <2>1, <3>1, <3>2 DEF HistInv, Windows
  <2>2. CASE k = n + 1
    <3>1. /\ f.id = stack[n].id /\ f.made = selects /\ f.done = Len(items)
          /\ f.prev = Len(clocations) /\ n \in 1..n /\ stack'[k] = f
      BY <1>4, <2>2 DEF f
    <3>2. \A m \in (k + 1)..(n + 1) : FALSE
      BY <1>1, <2>2
    <3>3. \A t \in (Len(items) + 1)..Len(items) : FALSE
      BY <1>1
    <3> QED BY <1>3, <3>1, <3>2, <3>3 DEF HistInv, Ended
  <2> QED BY <1>2, <2>1, <2>2
<1>11. LeavesCounted'
  <2> SUFFICES ASSUME NEW k \in 1..(n + 1), stack'[k].kind # "select"
      PROVE  /\ stack'[k].start <= Len(trace)
             /\ AllConst(trace, stack'[k].start, Len(trace)) =>
                  Len(clocations) - stack'[k].prev = Len(trace) - stack'[k].start
    BY DEF LeavesCounted
  <2>1. CASE k \in 1..n
    BY <1>7, <2>1 DEF HistInv, LeavesCounted
  <2>2. CASE k = n + 1
    <3>1. stack'[k].start = Len(trace) /\ stack'[k].prev = Len(clocations)
      BY <1>4, <2>2 DEF f
    <3> QED BY <1>1, <3>1
  <2> QED BY <1>2, <2>1, <2>2
<1>12. Phased'
  <2> SUFFICES ASSUME NEW k \in 1..(n + 1)
      PROVE  /\ stack'[k].kind = "select" /\ stack'[k].phase \in Early =>
                  \A t \in 1..Len(items) :
                    items[t].kind = "group" => items[t].id # stack'[k].id
             /\ stack'[k].kind = "target" => stack'[k - 1].phase = "targets"
             /\ stack'[k].kind = "group" => stack'[k - 1].phase = "group"
    BY DEF Phased
  <2>1. CASE k \in 1..n
    BY <1>7, <2>1 DEF HistInv, Phased
  <2>2. CASE k = n + 1
    <3>1. stack'[k] = f /\ k - 1 = n
      BY <1>1, <2>2 DEF f
    <3>2. CASE f.kind = "select"
      <4>1. \A t \in 1..Len(items) : items[t].id # f.id
        <5>1. \A t \in 1..Len(items) : items[t].id \in Nat /\ items[t].id <= selects
          BY <1>1, Counts DEF HistInv, Ended
        <5> QED BY <1>1, <1>4, <3>2, <5>1
      <4> QED BY <3>1, <3>2, <4>1
    <3>3. CASE f.kind # "select"
      BY <1>4, <3>1, <3>3
    <3> QED BY <3>2, <3>3
  <2> QED BY <1>2, <2>1, <2>2
<1> QED BY <1>8, <1>9, <1>10, <1>11, <1>12 DEF HistInv

\* An item that ends is recorded after all others.
RecordsTop(f) ==
  LET e == items'[Len(items) + 1]
  IN  /\ f.kind # "select" /\ Len(items') = Len(items) + 1
      /\ \A t \in 1..Len(items) : items'[t] = items[t]
      /\ e.kind = f.kind /\ e.id = f.id /\ e.fp = f.fp
      /\ e.prev = f.prev /\ e.last = Len(clocations)

\* A call ends.
LEMMA PopHist ==
  ASSUME IndInv, HistInv, Len(stack) \in 1..Len(stack),
         Len(stack') = Len(stack) - 1,
         UNCHANGED <<trace, selects>>, Len(clocations') = Len(clocations),
         \A k \in 1..(Len(stack) - 1) :
           /\ stack'[k].kind = stack[k].kind /\ stack'[k].id = stack[k].id
           /\ stack'[k].phase = stack[k].phase
           /\ stack[k].kind # "select" => stack'[k] = stack[k],
         UNCHANGED items \/ RecordsTop(stack[Len(stack)])
  PROVE  HistInv'
<1> DEFINE n == Len(stack)
           e == items'[Len(items) + 1]
<1>1. /\ TypeInv /\ n \in Nat /\ Len(clocations) \in Nat /\ Len(items) \in Nat
      /\ Len(trace) \in Nat /\ selects \in Nat /\ n \in 1..n
  BY Counts DEF IndInv
<1>2. \A k \in 1..(n - 1) : k \in 1..n /\ k < n
  BY <1>1
<1>3. \A k \in 1..(n - 1) : stack[k].kind # "select" =>
        /\ k > 1 /\ k - 1 \in 1..(n - 1) /\ stack'[k] = stack[k]
        /\ stack[k].done \in Nat /\ stack[k].done <= Len(items)
  <2> SUFFICES ASSUME NEW k \in 1..(n - 1), stack[k].kind # "select"
               PROVE  /\ k > 1 /\ k - 1 \in 1..(n - 1) /\ stack'[k] = stack[k]
                      /\ stack[k].done \in Nat /\ stack[k].done <= Len(items)
    OBVIOUS
  <2>1. k \in 1..n /\ k > 1 /\ k - 1 \in 1..n
    BY <1>2, BelowItem
  <2>2. k - 1 \in 1..(n - 1)
    BY <1>1, <2>1
  <2>3. stack[k].done \in Nat /\ stack[k].done <= Len(items)
    BY <1>1, <2>1, Counts DEF IndInv, Before
  <2> QED BY <2>1, <2>2, <2>3
<1>4. /\ \A t \in 1..Len(items) : items'[t] = items[t]
      /\ \/ Len(items') = Len(items)
         \/ Len(items') = Len(items) + 1 /\ RecordsTop(stack[n])
  BY DEF RecordsTop
<1>5. ASSUME NEW t \in 1..Len(items')
      PROVE  \/ t \in 1..Len(items)
             \/ t = Len(items) + 1 /\ RecordsTop(stack[n])
  BY <1>1, <1>4
<1>6. Numbered'
  BY <1>2, <1>3 DEF HistInv, Numbered
<1>7. Ended'
  <2> SUFFICES ASSUME NEW t \in 1..Len(items')
      PROVE  /\ items'[t].id <= selects /\ items'[t].prev <= items'[t].last
             /\ items'[t].last <= Len(clocations)
    BY DEF Ended
  <2>1. CASE t \in 1..Len(items)
    BY <1>4, <2>1 DEF HistInv, Ended
  <2>2. CASE t = Len(items) + 1 /\ RecordsTop(stack[n])
    <3>1. /\ items'[t].id = stack[n].id /\ items'[t].prev = stack[n].prev
          /\ items'[t].last = Len(clocations) /\ stack[n].kind # "select"
      BY <2>2 DEF RecordsTop
    <3>2. stack[n].id <= selects /\ stack[n].prev <= Len(clocations)
      BY <1>1, <3>1 DEF IndInv, Before, HistInv, Numbered
    <3> QED BY <1>1, <3>1, <3>2
  <2> QED BY <1>5, <2>1, <2>2
<1>8. Windows'
  <2> SUFFICES ASSUME NEW k \in 1..(n - 1), stack'[k].kind # "select"
      PROVE  /\ stack'[k].id <= stack'[k].made
             /\ \A m \in (k + 1)..(n - 1) : stack'[m].id > stack'[k].made
             /\ \A t \in 1..stack'[k].done :
                  items'[t].id <= stack'[k].made /\ items'[t].last <= stack'[k].prev
             /\ \A t \in (stack'[k].done + 1)..Len(items') :
                  items'[t].id > stack'[k].made
    BY DEF Windows
  <2>1. /\ stack'[k] = stack[k] /\ stack[k].kind # "select" /\ k \in 1..n /\ k < n
        /\ stack[k].done \in Nat /\ stack[k].done <= Len(items)
    BY <1>2, <1>3
  <2>2. stack[k].id <= stack[k].made
    BY <2>1 DEF HistInv, Windows
  <2>3. ASSUME NEW m \in (k + 1)..(n - 1) PROVE stack'[m].id > stack[k].made
    <3>1. m \in (k + 1)..n /\ m \in 1..(n - 1)
      BY <1>1, <2>1
    <3> QED BY <2>1, <3>1 DEF HistInv, Windows
  <2>4. ASSUME NEW t \in 1..stack[k].done
        PROVE  items'[t].id <= stack[k].made /\ items'[t].last <= stack[k].prev
    <3>1. t \in 1..Len(items)
      BY <1>1, <2>1
    <3> QED BY <1>4, <2>1, <3>1 DEF HistInv, Windows
  <2>5. ASSUME NEW t \in (stack[k].done + 1)..Len(items')
        PROVE  items'[t].id > stack[k].made
    <3>0. t \in 1..Len(items')
      BY <2>1
    <3>1. CASE t \in 1..Len(items)
      <4>1. t \in (stack[k].done + 1)..Len(items)
        BY <1>1, <2>1, <3>1
      <4> QED BY <1>4, <2>1, <3>1, <4>1 DEF HistInv, Windows
    <3>2. CASE t = Len(items) + 1 /\ RecordsTop(stack[n])
      <4>1. n \in (k + 1)..n
        BY <1>1, <2>1
      <4>2. items'[t].id = stack[n].id
        BY <3>2 DEF RecordsTop
      <4> QED BY <2>1, <4>1, <4>2 DEF HistInv, Windows
    <3> QED BY <1>5, <3>0, <3>1, <3>2
  <2> QED BY <2>1, <2>2, <2>3, <2>4, <2>5
<1>9. LeavesCounted'
  <2> SUFFICES ASSUME NEW k \in 1..(n - 1), stack[k].kind # "select"
      PROVE  /\ stack[k].start <= Len(trace)
             /\ AllConst(trace, stack[k].start, Len(trace)) =>
                  Len(clocations) - stack[k].prev = Len(trace) - stack[k].start
    BY <1>3 DEF LeavesCounted
  <2> QED BY <1>2 DEF HistInv, LeavesCounted
<1>10. Phased'
  <2> SUFFICES ASSUME NEW k \in 1..(n - 1)
      PROVE  /\ stack'[k].kind = "select" /\ stack'[k].phase \in Early =>
                  \A t \in 1..Len(items') :
                    items'[t].kind = "group" => items'[t].id # stack'[k].id
             /\ stack'[k].kind = "target" => stack'[k - 1].phase = "targets"
             /\ stack'[k].kind = "group" => stack'[k - 1].phase = "group"
    BY DEF Phased
  <2>1. /\ k \in 1..n /\ k < n /\ stack'[k].kind = stack[k].kind
        /\ stack'[k].phase = stack[k].phase /\ stack'[k].id = stack[k].id
    BY <1>2
  <2>2. ASSUME stack[k].kind = "select", stack[k].phase \in Early,
               NEW t \in 1..Len(items'), items'[t].kind = "group"
        PROVE  items'[t].id # stack[k].id
    <3>1. CASE t \in 1..Len(items)
      BY <1>4, <2>1, <2>2, <3>1 DEF HistInv, Phased
    <3>2. CASE t = Len(items) + 1 /\ RecordsTop(stack[n])
      <4>1. items'[t].id = stack[n].id /\ stack[n].kind = "group"
        BY <2>2, <3>2 DEF RecordsTop
      <4>2. n - 1 \in 1..(n - 1) /\ n - 1 \in 1..n /\ stack[n - 1].kind = "select"
        BY <1>1, <4>1, BelowItem
      <4>3. stack[n - 1].phase = "group" /\ stack[n].id = stack[n - 1].id
        BY <1>1, <4>1 DEF HistInv, Phased, Numbered
      <4>4. k # n - 1
        BY <2>2, <4>3 DEF Early
      <4>5. k < n - 1
        BY <1>1, <2>1, <4>4
      <4>6. stack[k].id < stack[n - 1].id
        BY <2>1, <2>2, <4>2, <4>5 DEF HistInv, Numbered
      <4>7. stack[k].id \in Nat /\ stack[n - 1].id \in Nat
        BY <1>1, <2>1, <4>2, Counts
      <4> QED BY <4>1, <4>3, <4>6, <4>7
    <3> QED BY <1>5, <3>1, <3>2
  <2>3. stack[k].kind # "select" =>
          /\ k - 1 \in 1..(n - 1) /\ stack'[k - 1].phase = stack[k - 1].phase
    BY <1>3
  <2> QED BY <2>1, <2>2, <2>3 DEF HistInv, Phased
<1> QED BY <1>6, <1>7, <1>8, <1>9, <1>10 DEF HistInv

\* What a GROUP BY item that ends does to the numbers of the constants.
LEMMA GroupEndShares ==
  ASSUME IndInv, GroupEnd
  PROVE  /\ Len(clocations') = Len(clocations)
         /\ Matches => \A i \in 1..Len(clocations) :
              clocations'[i] = IF i > Top.prev THEN Top.fppr[i - Top.prev]
                               ELSE clocations[i]
         /\ ~(Matches /\ Top.fppr # <<>>) => clocations' = clocations
<1>1. TypeInv' /\ clocations \in Seq(Int) /\ Len(clocations) \in Nat
  BY TypeStep DEF Next, IndInv, TypeInv
<1>2. CASE Matches
  <2> DEFINE p == Top.prev
             r == Top.fppr
  <2>1. /\ clocations' = [i \in DOMAIN clocations |->
                            IF i > p THEN r[i - p] ELSE clocations[i]]
        /\ DOMAIN clocations = 1..Len(clocations)
    BY <1>1, <1>2 DEF GroupEnd
  <2>2. p \in Nat /\ Len(r) = Len(clocations) - p
    BY <1>2, GroupEndFrames DEF IndInv, Matches, ItemFrames
  <2> HIDE DEF p, r
  <2>3. \A i \in 1..Len(clocations) :
          clocations'[i] = IF i > p THEN r[i - p] ELSE clocations[i]
    BY <2>1
  <2>4. Len(clocations') = Len(clocations)
    <3>1. DOMAIN clocations' = 1..Len(clocations) /\ clocations' \in Seq(Int)
      BY <1>1, <2>1 DEF TypeInv
    <3> QED BY <1>1, <3>1
  <2>5. ASSUME r = <<>> PROVE clocations' = clocations
    <3>1. Len(clocations) = p
      <4>1. Len(r) = 0
        BY <2>5
      <4> QED BY <1>1, <2>2, <4>1
    <3>2. \A i \in DOMAIN clocations : ~(i > p)
      BY <1>1, <2>1, <2>2, <3>1
    <3>3. clocations' = [i \in DOMAIN clocations |-> clocations[i]]
      BY <2>1, <3>2
    <3> QED BY <1>1, <3>3
  <2> QED BY <1>2, <2>3, <2>4, <2>5 DEF p, r
<1>3. CASE ~Matches
  BY <1>3 DEF GroupEnd
<1> QED BY <1>2, <1>3

\* An item that ends, as the history has it.
LEMMA EndRecords ==
  ASSUME TypeInv, Top \in ItemFrames, Top = stack[Len(stack)], Record
  PROVE  RecordsTop(stack[Len(stack)])
<1>1. Top.kind # "select"
  BY DEF ItemFrames
<1> QED BY <1>1, RecordExact DEF RecordsTop

\* Every step of the walk keeps the history consistent.
LEMMA HistStep ==
  ASSUME IndInv, HistInv, [Next]_vars
  PROVE  HistInv'
<1> DEFINE n == Len(stack)
<1>1. TypeInv /\ Shape /\ n \in Nat /\ clocations \in Seq(Int)
  BY DEF IndInv, TypeInv
<1>2. CASE RecordConstLocation
  <2>1. Len(clocations') = Len(clocations) + 1 /\ Meet(Const)
    BY <1>1, <1>2 DEF RecordConstLocation
  <2>2. Const \in Int
    BY DEF Const
  <2> QED BY <2>1, <2>2, LeafHist
<1>3. ASSUME NEW m \in Numbers, ParamRef(m) PROVE HistInv'
  <2>1. Meet(m) /\ clocations' = clocations
    BY <1>3 DEF ParamRef
  <2>2. m \in Int /\ m # Const
    BY NumbersAssumption DEF Const
  <2> QED BY <2>1, <2>2, LeafHist
<1>4. ASSUME Moves(n)
      PROVE  /\ \A k \in 1..(n - 1) : stack'[k] = stack[k]
             /\ \A k \in 1..n :
                  /\ stack'[k].kind = stack[k].kind /\ stack'[k].id = stack[k].id
                  /\ stack[k].kind # "select" => stack'[k] = stack[k]
                  /\ stack[k].kind = "select" /\ stack'[k].phase \in Early =>
                       stack[k].phase \in Early
  BY <1>4 DEF Moves, Later, SameFrame
<1>5. CASE SelectBegin
  <2>1. Len(stack') = n + 1 /\ Moves(n) /\ NewSelect(stack'[n + 1])
    BY <1>1, <1>5, SelectBeginMoves DEF NewSelect, SelectBegin
  <2>2. UNCHANGED <<items, clocations, trace>>
    BY <1>5 DEF SelectBegin
  <2> QED BY <1>4, <2>1, <2>2, PushHist
<1>6. ASSUME NEW fp \in Fingerprints, TargetBegin(fp) PROVE HistInv'
  <2>1. UNCHANGED <<items, clocations, trace, selects>>
    BY <1>6 DEF TargetBegin
  <2>2. /\ Len(stack') = n + 1 /\ Moves(n) /\ n \in 1..n
        /\ NewItemOf(stack'[n + 1], stack[n], stack'[n])
    BY <1>1, <1>6, <2>1, TargetBeginMoves DEF NewItemOf, BeginsAt, BeginsItem
  <2> QED BY <1>4, <2>1, <2>2, PushHist
<1>7. ASSUME NEW fp \in Fingerprints, GroupBegin(fp) PROVE HistInv'
  <2>1. UNCHANGED <<items, clocations, trace, selects>>
    BY <1>7 DEF GroupBegin
  <2>2. /\ Len(stack') = n + 1 /\ n \in 1..n /\ stack[n].kind = "select"
        /\ \A k \in 1..(n - 1) : stack'[k] = stack[k]
        /\ stack'[n].kind = "select" /\ stack'[n].id = stack[n].id
        /\ stack'[n].phase = "group"
        /\ NewItemOf(stack'[n + 1], stack[n], stack'[n])
    BY <1>1, <1>7, <2>1, GroupBeginMoves
    DEF NewItemOf, NoEntry, TakesFrom, BeginsAt, BeginsItem
  <2>3. \A k \in 1..n : k = n \/ k \in 1..(n - 1)
    BY <1>1
  <2>4. \A k \in 1..n :
          /\ stack'[k].kind = stack[k].kind /\ stack'[k].id = stack[k].id
          /\ stack[k].kind # "select" => stack'[k] = stack[k]
          /\ stack[k].kind = "select" /\ stack'[k].phase \in Early =>
               stack[k].phase \in Early
    BY <2>2, <2>3 DEF Early
  <2> QED BY <2>1, <2>2, <2>4, PushHist
<1>8. CASE SelectEnd
  <2>1. /\ Len(stack') = n - 1 /\ n \in 1..n
        /\ \A k \in 1..(n - 1) : stack'[k] = stack[k]
    BY <1>1, <1>8, SelectEndFrames
  <2>2. UNCHANGED <<trace, selects, clocations, items>>
    BY <1>8 DEF SelectEnd
  <2> QED BY <2>1, <2>2, PopHist
<1>9. CASE TargetEnd
  <2>1. /\ Len(stack') = n - 1 /\ n - 1 \in 1..n /\ n \in 1..n
        /\ \A k \in 1..((n - 1) - 1) : stack'[k] = stack[k]
        /\ stack[n - 1].kind = "select" /\ stack'[n - 1].kind = "select"
        /\ Top \in ItemFrames
    BY <1>1, <1>9, TargetEndFrames
  <2>2. stack'[n - 1].id = stack[n - 1].id /\ stack'[n - 1].phase = stack[n - 1].phase
    BY <1>1, <1>9, TargetEndMoves
  <2>3. \A k \in 1..(n - 1) : k = n - 1 \/ k \in 1..((n - 1) - 1)
    BY <1>1
  <2>4. UNCHANGED <<trace, selects, clocations>> /\ Record
    BY <1>9 DEF TargetEnd
  <2>5. RecordsTop(stack[n])
    BY <1>1, <2>1, <2>4, EndRecords DEF Top
  <2> QED BY <2>1, <2>2, <2>3, <2>4, <2>5, PopHist
<1>10. CASE GroupEnd
  <2>1. /\ Len(stack') = n - 1 /\ n \in 1..n /\ Top \in ItemFrames
        /\ \A k \in 1..(n - 1) : stack'[k] = stack[k]
    BY <1>1, <1>10, GroupEndFrames
  <2>2. UNCHANGED <<trace, selects>> /\ Record
    BY <1>10 DEF GroupEnd
  <2>3. Len(clocations') = Len(clocations)
    BY <1>10, GroupEndShares
  <2>4. RecordsTop(stack[n])
    BY <1>1, <2>1, <2>2, EndRecords DEF Top
  <2> QED BY <2>1, <2>2, <2>3, <2>4, PopHist
<1>11. CASE Fail
  <2>1. stack' = <<>> /\ items' = <<>>
    BY <1>11 DEF Fail
  <2> QED BY <2>1 DEF HistInv, Numbered, Ended, Windows, LeavesCounted, Phased
<1>12. CASE UNCHANGED vars
  BY <1>12 DEF vars, HistInv, Numbered, Ended, Windows, LeavesCounted, Phased
<1> QED BY <1>2, <1>3, <1>5, <1>6, <1>7, <1>8, <1>9, <1>10, <1>11, <1>12 DEF Next

\* The history of an empty walk.
LEMMA HistInit ==
  ASSUME Init
  PROVE  HistInv
  BY DEF Init, HistInv, Numbered, Ended, Windows, LeavesCounted, Phased

-----------------------------------------------------------------------------
(* The lists of parameters that may still be taken over. *)

\* The entries of fp_and_param_refs_list of a SELECT under way, and the one that
\* a GROUP BY item under way has taken off it.
InSlot(f, j) ==
  IF f.kind = "select" THEN j \in 1..Len(f.targets) ELSE j = 0 /\ f.fppr # None
RefsAt(f, j) == IF f.kind = "select" THEN f.targets[j].refs ELSE f.fppr
FpAt(f, j) == IF f.kind = "select" THEN f.targets[j].fp ELSE f.fp

\* Do two lists have a new parameter in common?
Overlap(r, s) ==
  \E x \in 1..Len(r), y \in 1..Len(s) : r[x] = s[y] /\ r[x] < 0
NoRepeats(r) ==
  \A x, y \in 1..Len(r) : r[x] = r[y] /\ r[x] < 0 => x = y

\* No new parameter may be taken over twice.
SlotsApart ==
  \A i, k \in 1..Len(stack), a, b \in Nat :
    /\ InSlot(stack[i], a) /\ InSlot(stack[k], b)
    /\ i # k \/ a # b
    => ~Overlap(RefsAt(stack[i], a), RefsAt(stack[k], b))

SlotsDistinct ==
  \A k \in 1..Len(stack), a \in Nat :
    InSlot(stack[k], a) => NoRepeats(RefsAt(stack[k], a))

\* refs is what the target list entry e, with the fingerprint fp, of the SELECT
\* with the number id has met: only constants of e have a parameter of refs, ...
Holds(c, e, refs) ==
  \A a \in 1..Len(c), j \in 1..Len(refs) :
    refs[j] < 0 /\ c[a] = refs[j] => a \in Consts(e)
\* ... the other parameters of refs are in the text of e, ...
Occurs(e, refs) ==
  \A j \in 1..Len(refs) : refs[j] >= 0 =>
    \E y \in 1..Len(e.text) : e.text[y] = refs[j]
\* ... and refs is all that e has, if that is constants.
Copies(c, e, fp, refs) ==
  Nests[fp] # "select" /\ AllConst(e.text, 0, Len(e.text)) =>
    /\ Len(refs) = e.last - e.prev
    /\ \A j \in 1..Len(refs) : refs[j] = c[e.prev + j]

From(c, e, id, fp, refs) ==
  /\ e.kind = "target" /\ e.id = id /\ e.fp = fp
  /\ Holds(c, e, refs) /\ Occurs(e, refs) /\ Copies(c, e, fp, refs)

\* Every list comes from a target list entry of its SELECT.
Origins ==
  \A k \in 1..Len(stack), a \in Nat : InSlot(stack[k], a) =>
    \E t \in 1..Len(items) :
      From(clocations, items[t], stack[k].id, FpAt(stack[k], a), RefsAt(stack[k], a))

\* The innermost target list entry under way, ...
Innermost(k) ==
  /\ stack[k].kind = "target"
  /\ \A m \in (k + 1)..Len(stack) : stack[m].kind # "target"

\* ... and what of it is in param_refs: each new parameter once, none that an
\* earlier constant has, all the constants if there are only these.
Content(f, c, tr, r) ==
  /\ NoRepeats(r)
  /\ \A a \in 1..Len(c), j \in 1..Len(r) : r[j] < 0 /\ c[a] = r[j] => a > f.prev
  /\ \A j \in 1..Len(r) : r[j] >= 0 =>
       \E y \in (f.start + 1)..Len(tr) : tr[y] = r[j]
  /\ AllConst(tr, f.start, Len(tr)) =>
       /\ Len(r) = Len(c) - f.prev
       /\ \A j \in 1..Len(r) : r[j] = c[f.prev + j]

\* An entry within it that ended has made param_refs NULL.
Remembers ==
  \A k \in 1..Len(stack) : Innermost(k) =>
    /\ param_refs = None => TargetSince(items, stack[k].done)
    /\ param_refs # None => Content(stack[k], clocations, trace, param_refs)

SlotInv == SlotsApart /\ SlotsDistinct /\ Origins /\ Remembers

\* What Known says, constant by constant.
LEMMA Holder ==
  ASSUME NEW c, NEW n, NEW refs, Known(c, n, refs), \A a \in 1..n : c[a] \in Int,
         \A j \in 1..Len(refs) : refs[j] \in Int,
         NEW j \in 1..Len(refs), refs[j] < 0
  PROVE  \E a \in 1..n : c[a] = refs[j]
<1>1. -refs[j] \in {-c[i] : i \in {y \in 1..n : c[y] < 0}}
  BY DEF Known, NumbersOf
<1>2. PICK a \in 1..n : -refs[j] = -c[a]
  BY <1>1
<1>3. refs[j] \in Int /\ c[a] \in Int
  OBVIOUS
<1>4. c[a] = refs[j]
  BY <1>2, <1>3
<1> QED BY <1>4

\* A list that may be taken over is known, in all items around it.
LEMMA SlotKnown ==
  ASSUME IndInv, NEW k \in 1..Len(stack), NEW a \in Nat, InSlot(stack[k], a)
  PROVE  /\ RefsAt(stack[k], a) \in Seq(Int)
         /\ \A j \in 1..Len(RefsAt(stack[k], a)) : RefsAt(stack[k], a)[j] \in Int
         /\ Known(clocations, Len(clocations), RefsAt(stack[k], a))
         /\ \A m \in 1..Len(stack) : stack[m].kind # "select" /\ k <= m =>
              Known(clocations, stack[m].prev, RefsAt(stack[k], a))
<1>1. /\ FrameKnown(clocations, Len(clocations), stack[k])
      /\ \A m \in 1..Len(stack) : stack[m].kind # "select" /\ k <= m =>
           FrameKnown(clocations, stack[m].prev, stack[k])
  BY DEF IndInv, RefsKnown
<1>2. stack[k] \in Frames
  BY DEF IndInv, TypeInv
<1>3. CASE stack[k].kind = "select"
  <2>1. stack[k].targets \in Seq(Entries) /\ a \in 1..Len(stack[k].targets)
    BY <1>2, <1>3, FrameKinds DEF SelectFrames, InSlot
  <2>2. stack[k].targets[a] \in Entries
    BY <2>1
  <2>3. RefsAt(stack[k], a) = stack[k].targets[a].refs
    BY <1>3 DEF RefsAt
  <2>4. stack[k].targets[a].refs \in Seq(Int)
    BY <2>2 DEF Entries
  <2> QED BY <1>1, <1>3, <2>1, <2>3, <2>4 DEF FrameKnown
<1>4. CASE stack[k].kind # "select"
  <2>1. RefsAt(stack[k], a) = stack[k].fppr /\ stack[k].fppr # None
    BY <1>4 DEF RefsAt, InSlot
  <2>2. stack[k].fppr \in Seq(Int)
    BY <1>2, <1>4, <2>1, FrameKinds DEF ItemFrames
  <2> QED BY <1>1, <1>4, <2>1, <2>2 DEF FrameKnown
<1> QED BY <1>3, <1>4

\* The next number has not been given to any constant, and nothing remembers it.
LEMMA NextIsFresh ==
  ASSUME IndInv
  PROVE  /\ highest_normalize_param_id \in Int /\ highest_normalize_param_id >= 1
         /\ \A a \in 1..Len(clocations) :
              /\ clocations[a] \in Int /\ clocations[a] # -highest_normalize_param_id
         /\ \A refs \in Seq(Int) : Known(clocations, Len(clocations), refs) =>
              \A j \in 1..Len(refs) :
                refs[j] \in Int /\ refs[j] # -highest_normalize_param_id
<1> DEFINE h == highest_normalize_param_id
           N == Len(clocations)
<1>1. /\ h \in Int /\ h >= 1 /\ NumbersOf(clocations, N) = 1..(h - 1)
      /\ \A a \in 1..N : clocations[a] \in Int
  BY DEF IndInv, TypeInv, Dense
<1>2. h \notin NumbersOf(clocations, N)
  BY <1>1
<1> HIDE DEF h
<1>3. ASSUME NEW a \in 1..N PROVE clocations[a] # -h
  <2>1. SUFFICES ASSUME clocations[a] = -h PROVE FALSE
    OBVIOUS
  <2>2. clocations[a] < 0 /\ -clocations[a] = h
    BY <1>1, <2>1
  <2>3. h \in NumbersOf(clocations, N)
    BY <2>2 DEF NumbersOf
  <2> QED BY <1>2, <2>3
<1>4. ASSUME NEW refs \in Seq(Int), Known(clocations, N, refs),
             NEW j \in 1..Len(refs)
      PROVE  refs[j] \in Int /\ refs[j] # -h
  <2>0. refs[j] \in Int
    OBVIOUS
  <2>1. SUFFICES ASSUME refs[j] = -h PROVE FALSE
    BY <2>0
  <2>2. refs[j] < 0 /\ -refs[j] = h
    BY <1>1, <2>0, <2>1
  <2> QED BY <1>2, <1>4, <2>2 DEF Known
<1> QED BY <1>1, <1>3, <1>4 DEF h

\* The list at (k, a) was already there.
Stays(k, a) ==
  /\ k \in 1..Len(stack) /\ InSlot(stack[k], a)
  /\ RefsAt(stack'[k], a) = RefsAt(stack[k], a)
  /\ FpAt(stack'[k], a) = FpAt(stack[k], a) /\ stack'[k].id = stack[k].id

\* A call that goes on keeps its lists.
LEMMA LaterStays ==
  ASSUME NEW k \in 1..Len(stack), Later(stack[k], stack'[k]),
         NEW a, InSlot(stack'[k], a)
  PROVE  Stays(k, a)
<1>1. /\ stack'[k].kind = stack[k].kind /\ stack'[k].id = stack[k].id
      /\ stack[k].kind = "select" => stack'[k].targets = stack[k].targets
      /\ stack[k].kind # "select" => stack'[k] = stack[k]
  BY DEF Later, SameFrame
<1>2. CASE stack[k].kind = "select"
  BY <1>1, <1>2 DEF Stays, InSlot, RefsAt, FpAt
<1>3. CASE stack[k].kind # "select"
  BY <1>1, <1>3 DEF Stays
<1> QED BY <1>2, <1>3

LEMMA SameStays ==
  ASSUME NEW k \in 1..Len(stack), stack'[k] = stack[k],
         NEW a, InSlot(stack'[k], a)
  PROVE  Stays(k, a)
  BY DEF Stays

\* A step that adds no list, and changes no number that a list is about, keeps
\* what is said of the lists.
LEMMA SlotsStay ==
  ASSUME SlotsApart, SlotsDistinct, Origins,
         \A k \in 1..Len(stack'), a \in Nat :
           InSlot(stack'[k], a) => Stays(k, a),
         \A t \in 1..Len(items) : t \in 1..Len(items') /\ items'[t] = items[t],
         \A k \in 1..Len(stack'), a \in Nat, t \in 1..Len(items) :
           /\ InSlot(stack'[k], a)
           /\ From(clocations, items[t], stack[k].id, FpAt(stack[k], a),
                   RefsAt(stack[k], a))
           => From(clocations', items[t], stack[k].id, FpAt(stack[k], a),
                   RefsAt(stack[k], a))
  PROVE  SlotsApart' /\ SlotsDistinct' /\ Origins'
<1>1. SlotsApart'
  <2> SUFFICES ASSUME NEW i \in 1..Len(stack'), NEW k \in 1..Len(stack'),
                      NEW a \in Nat, NEW b \in Nat,
                      InSlot(stack'[i], a), InSlot(stack'[k], b), i # k \/ a # b
               PROVE  ~Overlap(RefsAt(stack'[i], a), RefsAt(stack'[k], b))
    BY DEF SlotsApart
  <2>1. Stays(i, a) /\ Stays(k, b)
    OBVIOUS
  <2> QED BY <2>1 DEF Stays, SlotsApart
<1>2. SlotsDistinct'
  BY DEF Stays, SlotsDistinct
<1>3. Origins'
  <2> SUFFICES ASSUME NEW k \in 1..Len(stack'), NEW a \in Nat, InSlot(stack'[k], a)
               PROVE  \E t \in 1..Len(items') :
                        From(clocations', items'[t], stack'[k].id,
                             FpAt(stack'[k], a), RefsAt(stack'[k], a))
    BY DEF Origins
  <2>1. Stays(k, a)
    OBVIOUS
  <2>2. PICK t \in 1..Len(items) :
          From(clocations, items[t], stack[k].id, FpAt(stack[k], a), RefsAt(stack[k], a))
    BY <2>1 DEF Stays, Origins
  <2>3. From(clocations', items[t], stack[k].id, FpAt(stack[k], a), RefsAt(stack[k], a))
    BY <2>2
  <2>4. t \in 1..Len(items') /\ items'[t] = items[t]
    OBVIOUS
  <2> QED BY <2>1, <2>3, <2>4 DEF Stays
<1> QED BY <1>1, <1>2, <1>3

\* The calls that are at or above an entry under way tell whether it is the
\* innermost.
LEMMA SameInnermost ==
  ASSUME Len(stack) \in Nat, NEW k \in 1..Len(stack), Len(stack') = Len(stack),
         \A m \in 1..Len(stack) : stack'[m].kind = stack[m].kind, Innermost(k)'
  PROVE  Innermost(k)
<1>1. \A m \in (k + 1)..Len(stack) : m \in 1..Len(stack)
  OBVIOUS
<1>2. stack'[k].kind = "target" /\ \A m \in (k + 1)..Len(stack) : stack'[m].kind # "target"
  BY DEF Innermost
<1> QED BY <1>1, <1>2 DEF Innermost

\* The j-th place after place p.
LEMMA InRange ==
  ASSUME NEW p \in Nat, NEW j \in Nat, NEW n \in Nat, j >= 1, j <= n - p
  PROVE  p + j \in 1..n
  OBVIOUS

\* Another constant, with a new number, is part of what the entry remembers.
LEMMA ConstContent ==
  ASSUME NEW f, f.prev \in Nat, f.start \in Nat,
         NEW c \in Seq(Int), NEW tr \in Seq(Int), NEW r \in Seq(Int), NEW h \in Int,
         h < 0, f.prev <= Len(c), f.start <= Len(tr),
         \A a \in 1..Len(c) : c[a] # h, \A j \in 1..Len(r) : r[j] # h,
         Content(f, c, tr, r)
  PROVE  Content(f, Append(c, h), Append(tr, Const), Append(r, h))
<1> DEFINE C == Append(c, h)
           T == Append(tr, Const)
           R == Append(r, h)
           p == f.prev
           s == f.start
<1>0. Const \in Int
  BY DEF Const
<1>1. /\ Len(c) \in Nat /\ Len(C) = Len(c) + 1 /\ C[Len(c) + 1] = h
      /\ \A a \in 1..Len(c) : C[a] = c[a]
  OBVIOUS
<1>2. /\ Len(tr) \in Nat /\ Len(T) = Len(tr) + 1 /\ T[Len(tr) + 1] = Const
      /\ \A y \in 1..Len(tr) : T[y] = tr[y]
  BY <1>0
<1>3. /\ Len(r) \in Nat /\ Len(R) = Len(r) + 1 /\ R[Len(r) + 1] = h
      /\ \A j \in 1..Len(r) : R[j] = r[j] /\ r[j] \in Int
  OBVIOUS
<1>4. /\ \A a \in 1..Len(C) : a \in 1..Len(c) \/ a = Len(c) + 1
      /\ \A j \in 1..Len(R) : j \in 1..Len(r) \/ j = Len(r) + 1
  BY <1>1, <1>3
<1> HIDE DEF C, T, R
<1>5. NoRepeats(R)
  BY <1>3, <1>4 DEF NoRepeats, Content
<1>6. ASSUME NEW a \in 1..Len(C), NEW j \in 1..Len(R), R[j] < 0, C[a] = R[j]
      PROVE  a > p
  <2>1. CASE a = Len(c) + 1
    BY <1>1, <2>1
  <2>2. CASE a \in 1..Len(c)
    <3>1. C[a] = c[a] /\ c[a] # h
      BY <1>1, <2>2
    <3>2. j \in 1..Len(r) /\ R[j] = r[j]
      BY <1>3, <1>4, <1>6, <3>1
    <3> QED BY <1>6, <2>2, <3>1, <3>2 DEF Content
  <2> QED BY <1>4, <2>1, <2>2
<1>7. ASSUME NEW j \in 1..Len(R), R[j] >= 0
      PROVE  \E y \in (s + 1)..Len(T) : T[y] = R[j]
  <2>1. j \in 1..Len(r) /\ R[j] = r[j]
    BY <1>3, <1>4, <1>7
  <2>2. PICK y \in (s + 1)..Len(tr) : tr[y] = r[j]
    BY <1>7, <2>1 DEF Content
  <2>3. y \in (s + 1)..Len(T) /\ y \in 1..Len(tr)
    BY <1>2
  <2> QED BY <1>2, <2>1, <2>2, <2>3
<1>8. ASSUME AllConst(T, s, Len(T))
      PROVE  Len(R) = Len(C) - p /\ \A j \in 1..Len(R) : R[j] = C[p + j]
  <2>1. AllConst(tr, s, Len(tr))
    <3>1. AllConst(Append(tr, Const), s, Len(tr) + 1)
      BY <1>2, <1>8 DEF T
    <3>2. s \in Nat /\ s <= Len(tr)
      OBVIOUS
    <3> HIDE DEF s
    <3> QED BY <1>0, <3>1, <3>2, OneMoreLeaf
  <2>2. Len(r) = Len(c) - p /\ \A j \in 1..Len(r) : r[j] = c[p + j]
    BY <2>1 DEF Content
  <2>3. Len(R) = Len(C) - p
    BY <1>1, <1>3, <2>2
  <2>4. ASSUME NEW j \in 1..Len(r) PROVE R[j] = C[p + j]
    <3>1. p \in Nat /\ j \in Nat /\ j >= 1 /\ j <= Len(c) - p
      BY <1>3, <2>2
    <3>2. p + j \in 1..Len(c)
      BY <1>1, <3>1, InRange
    <3> QED BY <1>1, <1>3, <2>2, <3>2
  <2>5. R[Len(r) + 1] = C[p + (Len(r) + 1)]
    <3>1. p + (Len(r) + 1) = Len(c) + 1
      BY <1>1, <1>3, <2>2
    <3> QED BY <1>1, <1>3, <3>1
  <2> QED BY <1>4, <2>3, <2>4, <2>5
<1> QED BY <1>5, <1>6, <1>7, <1>8 DEF Content, C, T, R

\* A $n is part of it too.
LEMMA ParamContent ==
  ASSUME NEW f, f.prev \in Nat, f.start \in Nat,
         NEW c, NEW tr \in Seq(Int), NEW r \in Seq(Int), NEW m \in Nat,
         f.start <= Len(tr), Content(f, c, tr, r)
  PROVE  Content(f, c, Append(tr, m), Append(r, m))
<1> DEFINE T == Append(tr, m)
           R == Append(r, m)
           p == f.prev
           s == f.start
<1>2. /\ Len(tr) \in Nat /\ Len(T) = Len(tr) + 1 /\ T[Len(tr) + 1] = m
      /\ \A y \in 1..Len(tr) : T[y] = tr[y]
  OBVIOUS
<1>3. /\ Len(r) \in Nat /\ Len(R) = Len(r) + 1 /\ R[Len(r) + 1] = m
      /\ \A j \in 1..Len(r) : R[j] = r[j] /\ r[j] \in Int
  OBVIOUS
<1>4. \A j \in 1..Len(R) : j \in 1..Len(r) \/ j = Len(r) + 1
  BY <1>3
<1> HIDE DEF T, R
<1>0. \A j \in 1..Len(R) : R[j] < 0 => j \in 1..Len(r) /\ R[j] = r[j]
  BY <1>3, <1>4
<1>5. NoRepeats(R)
  <2>1. NoRepeats(r)
    BY DEF Content
  <2> QED BY <1>0, <2>1 DEF NoRepeats
<1>6. ASSUME NEW a \in 1..Len(c), NEW j \in 1..Len(R), R[j] < 0, c[a] = R[j]
      PROVE  a > p
  <2>1. j \in 1..Len(r) /\ r[j] < 0 /\ c[a] = r[j]
    BY <1>0, <1>6
  <2> QED BY <2>1 DEF Content
<1>7. ASSUME NEW j \in 1..Len(R), R[j] >= 0
      PROVE  \E y \in (s + 1)..Len(T) : T[y] = R[j]
  <2>1. CASE j = Len(r) + 1
    <3>1. Len(tr) + 1 \in (s + 1)..Len(T)
      BY <1>2
    <3> QED BY <1>2, <1>3, <2>1, <3>1
  <2>2. CASE j \in 1..Len(r)
    <3>1. PICK y \in (s + 1)..Len(tr) : tr[y] = r[j]
      BY <1>3, <1>7, <2>2 DEF Content
    <3>2. y \in (s + 1)..Len(T) /\ y \in 1..Len(tr)
      BY <1>2
    <3> QED BY <1>2, <1>3, <2>2, <3>1, <3>2
  <2> QED BY <1>4, <2>1, <2>2
<1>8. ~AllConst(T, s, Len(T))
  <2>1. Len(tr) + 1 \in (s + 1)..Len(T)
    BY <1>2
  <2>2. m # Const
    BY DEF Const
  <2> QED BY <1>2, <2>1, <2>2 DEF AllConst
<1> QED BY <1>5, <1>6, <1>7, <1>8 DEF Content, T, R

\* A list is still that of its entry if the constants of the entry keep their
\* numbers and no other constant gets one of the list.
LEMMA FromKept ==
  ASSUME NEW c, NEW d, NEW e, e.prev \in Nat, e.last \in Nat,
         NEW id, NEW fp, NEW refs \in Seq(Int),
         e.kind = "target" => \A i \in 1..e.last : d[i] = c[i],
         \A a \in 1..Len(d), j \in 1..Len(refs) :
           refs[j] < 0 /\ d[a] = refs[j] => a \in 1..Len(c) /\ c[a] = refs[j],
         From(c, e, id, fp, refs)
  PROVE  From(d, e, id, fp, refs)
<1>1. /\ e.kind = "target" /\ e.id = id /\ e.fp = fp /\ Holds(c, e, refs)
      /\ Occurs(e, refs) /\ Copies(c, e, fp, refs)
  BY DEF From
<1>2. Holds(d, e, refs)
  BY <1>1 DEF Holds
<1>3. Copies(d, e, fp, refs)
  <2> SUFFICES ASSUME Nests[fp] # "select", AllConst(e.text, 0, Len(e.text))
               PROVE  /\ Len(refs) = e.last - e.prev
                      /\ \A j \in 1..Len(refs) : refs[j] = d[e.prev + j]
    BY DEF Copies
  <2>1. /\ Len(refs) = e.last - e.prev
        /\ \A j \in 1..Len(refs) : refs[j] = c[e.prev + j]
    BY <1>1 DEF Copies
  <2>2. ASSUME NEW j \in 1..Len(refs) PROVE refs[j] = d[e.prev + j]
    <3>1. j \in Nat /\ j >= 1 /\ j <= e.last - e.prev
      BY <2>1
    <3>2. e.prev + j \in 1..e.last
      BY <3>1, InRange
    <3> QED BY <1>1, <2>1, <3>2
  <2> QED BY <2>1, <2>2
<1> QED BY <1>1, <1>2, <1>3 DEF From

\* RecordConstLocation: no list has the number of the new constant, except that
\* of the entry under way.
LEMMA RecordConstSlots ==
  ASSUME IndInv, HistInv, SlotInv, RecordConstLocation
  PROVE  SlotInv'
<1> DEFINE n == Len(stack)
           N == Len(clocations)
           h == -highest_normalize_param_id
<1>1. /\ TypeInv /\ n \in Nat /\ N \in Nat /\ clocations \in Seq(Int)
      /\ trace \in Seq(Int) /\ h \in Int /\ h < 0
  BY NextIsFresh DEF IndInv, TypeInv
<1>2. /\ Meet(Const) /\ clocations' = Append(clocations, h) /\ Remember(h)
      /\ items' = items /\ trace' = Append(trace, Const)
  BY DEF RecordConstLocation, Meet
<1>3. /\ \A a \in 1..N : clocations[a] # h
      /\ \A refs \in Seq(Int) : Known(clocations, N, refs) =>
           \A j \in 1..Len(refs) : refs[j] # h
  BY NextIsFresh
<1> HIDE DEF h
<1>4. /\ Len(clocations') = N + 1 /\ clocations'[N + 1] = h
      /\ \A a \in 1..N : clocations'[a] = clocations[a]
  BY <1>1, <1>2
<1>5. Len(stack') = n /\ \A k \in 1..n : Later(stack[k], stack'[k])
  BY <1>1, <1>2, MeetMoves DEF Moves
<1>6. SlotsApart' /\ SlotsDistinct' /\ Origins'
  <2>1. \A k \in 1..Len(stack'), a \in Nat : InSlot(stack'[k], a) => Stays(k, a)
    BY <1>5, LaterStays
  <2>2. ASSUME NEW k \in 1..Len(stack'), NEW a \in Nat, NEW t \in 1..Len(items),
               InSlot(stack'[k], a),
               From(clocations, items[t], stack[k].id, FpAt(stack[k], a),
                    RefsAt(stack[k], a))
        PROVE  From(clocations', items[t], stack[k].id, FpAt(stack[k], a),
                    RefsAt(stack[k], a))
    <3> DEFINE refs == RefsAt(stack[k], a)
               e == items[t]
    <3>1. refs \in Seq(Int) /\ Known(clocations, N, refs)
      BY <2>1, <2>2, SlotKnown DEF Stays
    <3>2. e.prev \in Nat /\ e.last \in Nat /\ e.last <= N
      BY <1>1, Counts DEF HistInv, Ended
    <3>3. \A i \in 1..e.last : clocations'[i] = clocations[i]
      <4>1. \A i \in 1..e.last : i \in 1..N
        BY <1>1, <3>2
      <4> QED BY <1>4, <4>1
    <3>4. ASSUME NEW b \in 1..Len(clocations'), NEW j \in 1..Len(refs),
                 refs[j] < 0, clocations'[b] = refs[j]
          PROVE  b \in 1..N /\ clocations[b] = refs[j]
      <4>1. refs[j] # h
        BY <1>3, <3>1
      <4>2. b # N + 1
        BY <1>4, <3>4, <4>1
      <4>3. b \in 1..N
        BY <1>1, <1>4, <4>2
      <4> QED BY <1>4, <3>4, <4>3
    <3> HIDE DEF refs, e
    <3> QED BY <2>2, <3>1, <3>2, <3>3, <3>4, FromKept DEF refs, e
  <2> QED BY <1>2, <2>1, <2>2, SlotsStay DEF SlotInv
<1>7. Remembers'
  <2> SUFFICES ASSUME NEW k \in 1..n, Innermost(k)'
               PROVE  /\ param_refs' = None => TargetSince(items', stack'[k].done)
                      /\ param_refs' # None =>
                           Content(stack'[k], clocations', trace', param_refs')
    BY <1>5 DEF Remembers
  <2>1. \A m \in 1..n : stack'[m].kind = stack[m].kind
    BY <1>5 DEF Later, SameFrame
  <2>2. Innermost(k)
    BY <1>1, <1>5, <2>1, SameInnermost
  <2>3. stack[k].kind # "select"
    BY <2>2 DEF Innermost
  <2>4. stack'[k] = stack[k]
    BY <1>5, <2>3 DEF Later, SameFrame
  <2>5. CASE param_refs = None
    BY <1>2, <2>2, <2>4, <2>5 DEF Remember, SlotInv, Remembers
  <2>6. CASE param_refs # None
    <3>1. param_refs \in Seq(Int) /\ Known(clocations, N, param_refs)
      BY <2>6 DEF IndInv, TypeInv, RefsKnown
    <3>2. param_refs' = Append(param_refs, h)
      BY <1>2, <2>6 DEF Remember
    <3>3. param_refs' # None
      <4>1. param_refs' \in Seq(Int)
        BY <1>1, <3>1, <3>2
      <4> QED BY <4>1, NoneAssumption
    <3>4. /\ stack[k].prev \in Nat /\ stack[k].start \in Nat /\ stack[k].prev <= N
          /\ stack[k].start <= Len(trace)
      BY <1>1, <2>3, Counts DEF IndInv, Before, HistInv, LeavesCounted
    <3>5. Content(stack[k], clocations, trace, param_refs)
      BY <2>2, <2>6 DEF SlotInv, Remembers
    <3>6. \A j \in 1..Len(param_refs) : param_refs[j] # h
      BY <1>3, <3>1
    <3>7. Content(stack[k], Append(clocations, h), Append(trace, Const),
                  Append(param_refs, h))
      BY <1>1, <1>3, <3>1, <3>4, <3>5, <3>6, ConstContent
    <3> QED BY <1>2, <2>4, <3>2, <3>3, <3>7
  <2> QED BY <2>5, <2>6
<1> QED BY <1>6, <1>7 DEF SlotInv

\* T_ParamRef: the entry under way remembers the $n.
LEMMA ParamRefSlots ==
  ASSUME IndInv, HistInv, SlotInv, NEW p \in Numbers, ParamRef(p)
  PROVE  SlotInv'
<1> DEFINE n == Len(stack)
<1>1. TypeInv /\ n \in Nat /\ trace \in Seq(Int) /\ p \in Nat
  BY NumbersAssumption DEF IndInv, TypeInv
<1>2. /\ Meet(p) /\ clocations' = clocations /\ Remember(p)
      /\ items' = items /\ trace' = Append(trace, p)
  BY DEF ParamRef, Meet
<1>5. Len(stack') = n /\ \A k \in 1..n : Later(stack[k], stack'[k])
  BY <1>1, <1>2, MeetMoves DEF Moves
<1>6. SlotsApart' /\ SlotsDistinct' /\ Origins'
  <2>1. \A k \in 1..Len(stack'), a \in Nat : InSlot(stack'[k], a) => Stays(k, a)
    BY <1>5, LaterStays
  <2> QED BY <1>2, <2>1, SlotsStay DEF SlotInv
<1>7. Remembers'
  <2> SUFFICES ASSUME NEW k \in 1..n, Innermost(k)'
               PROVE  /\ param_refs' = None => TargetSince(items', stack'[k].done)
                      /\ param_refs' # None =>
                           Content(stack'[k], clocations', trace', param_refs')
    BY <1>5 DEF Remembers
  <2>1. \A m \in 1..n : stack'[m].kind = stack[m].kind
    BY <1>5 DEF Later, SameFrame
  <2>2. Innermost(k)
    BY <1>1, <1>5, <2>1, SameInnermost
  <2>3. stack[k].kind # "select"
    BY <2>2 DEF Innermost
  <2>4. stack'[k] = stack[k]
    BY <1>5, <2>3 DEF Later, SameFrame
  <2>5. CASE param_refs = None
    BY <1>2, <2>2, <2>4, <2>5 DEF Remember, SlotInv, Remembers
  <2>6. CASE param_refs # None
    <3>1. param_refs \in Seq(Int)
      BY <2>6 DEF IndInv, TypeInv
    <3>2. param_refs' = Append(param_refs, p)
      BY <1>2, <2>6 DEF Remember
    <3>3. param_refs' # None
      <4>1. param_refs' \in Seq(Int)
        BY <1>1, <3>1, <3>2
      <4> QED BY <4>1, NoneAssumption
    <3>4. /\ stack[k].prev \in Nat /\ stack[k].start \in Nat
          /\ stack[k].start <= Len(trace)
      BY <1>1, <2>3, Counts DEF HistInv, LeavesCounted
    <3>5. Content(stack[k], clocations, trace, param_refs)
      BY <2>2, <2>6 DEF SlotInv, Remembers
    <3>6. Content(stack[k], clocations, Append(trace, p), Append(param_refs, p))
      BY <1>1, <3>1, <3>4, <3>5, ParamContent
    <3> QED BY <1>2, <2>4, <3>2, <3>3, <3>6
  <2> QED BY <2>5, <2>6
<1> QED BY <1>6, <1>7 DEF SlotInv

\* A call that begins and is no target list entry leaves the innermost one ...
LEMMA InnermostBelow ==
  ASSUME Len(stack) \in Nat, NEW k \in 1..Len(stack), Len(stack') = Len(stack) + 1,
         \A m \in 1..Len(stack) : stack'[m].kind = stack[m].kind, Innermost(k)'
  PROVE  Innermost(k)
<1>1. \A m \in (k + 1)..Len(stack) : m \in 1..Len(stack) /\ m \in (k + 1)..Len(stack')
  OBVIOUS
<1>2. /\ stack'[k].kind = "target"
      /\ \A m \in (k + 1)..Len(stack') : stack'[m].kind # "target"
  BY DEF Innermost
<1> QED BY <1>1, <1>2 DEF Innermost

\* ... and so does one that ends.
LEMMA InnermostAbove ==
  ASSUME Len(stack) \in 1..Len(stack), Len(stack) \in Nat,
         Len(stack') = Len(stack) - 1, NEW k \in 1..Len(stack'),
         \A m \in 1..Len(stack') : stack'[m].kind = stack[m].kind, Innermost(k)',
         stack[Len(stack)].kind # "target"
  PROVE  k \in 1..Len(stack) /\ Innermost(k)
<1>1. \A m \in (k + 1)..Len(stack) :
        \/ m = Len(stack)
        \/ m \in 1..Len(stack') /\ m \in (k + 1)..Len(stack')
  OBVIOUS
<1>2. /\ stack'[k].kind = "target"
      /\ \A m \in (k + 1)..Len(stack') : stack'[m].kind # "target"
  BY DEF Innermost
<1>3. k \in 1..Len(stack)
  OBVIOUS
<1> QED BY <1>1, <1>2, <1>3 DEF Innermost

\* A call that begins without a list of its own.
LEMMA PushSlots ==
  ASSUME IndInv, SlotInv, Len(stack') = Len(stack) + 1,
         \A k \in 1..Len(stack), a \in Nat : InSlot(stack'[k], a) => Stays(k, a),
         \A a \in Nat : ~InSlot(stack'[Len(stack) + 1], a),
         UNCHANGED <<items, clocations>>
  PROVE  SlotsApart' /\ SlotsDistinct' /\ Origins'
<1>1. Len(stack) \in Nat
  BY DEF IndInv, TypeInv
<1>2. \A k \in 1..Len(stack') : k \in 1..Len(stack) \/ k = Len(stack) + 1
  BY <1>1
<1>3. \A k \in 1..Len(stack'), a \in Nat : InSlot(stack'[k], a) => Stays(k, a)
  BY <1>2
<1> QED BY <1>3, SlotsStay DEF SlotInv

\* T_SelectStmt: a new fp_and_param_refs_list is empty.
LEMMA SelectBeginSlots ==
  ASSUME IndInv, HistInv, SlotInv, SelectBegin
  PROVE  SlotInv'
<1> DEFINE n == Len(stack)
<1>1. TypeInv /\ n \in Nat
  BY DEF IndInv, TypeInv
<1>2. UNCHANGED <<clocations, items, trace, param_refs>>
  BY DEF SelectBegin
<1>3. /\ Len(stack') = n + 1 /\ \A k \in 1..n : Later(stack[k], stack'[k])
      /\ stack'[n + 1].kind = "select" /\ stack'[n + 1].targets = <<>>
  BY <1>1, SelectBeginMoves DEF Moves
<1>4. \A a \in Nat : ~InSlot(stack'[n + 1], a)
  BY <1>3 DEF InSlot
<1>5. SlotsApart' /\ SlotsDistinct' /\ Origins'
  BY <1>2, <1>3, <1>4, LaterStays, PushSlots
<1>6. Remembers'
  <2> SUFFICES ASSUME NEW k \in 1..(n + 1), Innermost(k)'
               PROVE  /\ param_refs = None => TargetSince(items, stack'[k].done)
                      /\ param_refs # None =>
                           Content(stack'[k], clocations, trace, param_refs)
    BY <1>2, <1>3 DEF Remembers
  <2>1. stack'[k].kind = "target"
    BY DEF Innermost
  <2>2. k \in 1..n
    BY <1>1, <1>3, <2>1
  <2>3. stack'[k] = stack[k] /\ \A m \in 1..n : stack'[m].kind = stack[m].kind
    BY <1>3, <2>1, <2>2 DEF Later, SameFrame
  <2>4. Innermost(k)
    BY <1>1, <1>3, <2>2, <2>3, InnermostBelow
  <2> QED BY <2>2, <2>3, <2>4 DEF SlotInv, Remembers
<1> QED BY <1>5, <1>6 DEF SlotInv

\* A target list entry begins: param_refs is an empty list.
LEMMA TargetBeginSlots ==
  ASSUME IndInv, HistInv, SlotInv, NEW fp \in Fingerprints, TargetBegin(fp)
  PROVE  SlotInv'
<1> DEFINE n == Len(stack)
           f == stack'[n + 1]
<1>1. TypeInv /\ n \in Nat /\ Len(clocations) \in Nat /\ Len(trace) \in Nat
  BY DEF IndInv, TypeInv
<1>2. UNCHANGED <<clocations, items, trace>> /\ param_refs' = <<>>
  BY DEF TargetBegin
<1>3. /\ Len(stack') = n + 1 /\ \A k \in 1..n : Later(stack[k], stack'[k])
      /\ f.kind = "target" /\ f.fppr = None
      /\ f.prev = Len(clocations) /\ f.start = Len(trace)
  BY <1>1, TargetBeginMoves DEF Moves, BeginsAt, BeginsItem
<1>4. \A a \in Nat : ~InSlot(f, a)
  BY <1>3 DEF InSlot
<1>5. SlotsApart' /\ SlotsDistinct' /\ Origins'
  BY <1>2, <1>3, <1>4, LaterStays, PushSlots
<1>6. Remembers'
  <2> SUFFICES ASSUME NEW k \in 1..(n + 1), Innermost(k)'
               PROVE  /\ param_refs' = None => TargetSince(items', stack'[k].done)
                      /\ param_refs' # None =>
                           Content(stack'[k], clocations', trace', param_refs')
    BY <1>3 DEF Remembers
  <2>1. \A m \in (k + 1)..(n + 1) : stack'[m].kind # "target"
    BY <1>3 DEF Innermost
  <2>2. k = n + 1
    <3>1. k # n + 1 => n + 1 \in (k + 1)..(n + 1)
      BY <1>1
    <3> QED BY <1>3, <2>1, <3>1
  <2>3. param_refs' # None
    <3>1. <<>> \in Seq(Int)
      OBVIOUS
    <3> QED BY <1>2, <3>1, NoneAssumption
  <2>4. Content(f, clocations, trace, <<>>)
    <3>1. Len(<<>>) = Len(clocations) - f.prev /\ \A j \in 1..Len(<<>>) : FALSE
      BY <1>1, <1>3
    <3> HIDE DEF f
    <3> QED BY <3>1 DEF Content, NoRepeats
  <2> QED BY <1>2, <2>2, <2>3, <2>4
<1> QED BY <1>5, <1>6 DEF SlotInv

\* The walk of a SELECT ends: its lists go.
LEMMA SelectEndSlots ==
  ASSUME IndInv, HistInv, SlotInv, SelectEnd
  PROVE  SlotInv'
<1> DEFINE n == Len(stack)
<1>1. TypeInv /\ n \in Nat
  BY DEF IndInv, TypeInv
<1>2. UNCHANGED <<clocations, items, trace, param_refs>>
  BY DEF SelectEnd
<1>3. /\ Len(stack') = n - 1 /\ n \in 1..n /\ stack[n].kind = "select"
      /\ \A k \in 1..(n - 1) : stack'[k] = stack[k]
  BY <1>1, SelectEndFrames
<1>4. \A k \in 1..Len(stack') : k \in 1..n /\ stack'[k] = stack[k]
  BY <1>1, <1>3
<1>5. SlotsApart' /\ SlotsDistinct' /\ Origins'
  <2>1. \A k \in 1..Len(stack'), a \in Nat : InSlot(stack'[k], a) => Stays(k, a)
    BY <1>4, SameStays
  <2> QED BY <1>2, <2>1, SlotsStay DEF SlotInv
<1>6. Remembers'
  <2> SUFFICES ASSUME NEW k \in 1..Len(stack'), Innermost(k)'
               PROVE  /\ param_refs = None => TargetSince(items, stack'[k].done)
                      /\ param_refs # None =>
                           Content(stack'[k], clocations, trace, param_refs)
    BY <1>2 DEF Remembers
  <2>1. k \in 1..n /\ Innermost(k)
    BY <1>1, <1>3, <1>4, InnermostAbove
  <2> QED BY <1>4, <2>1 DEF SlotInv, Remembers
<1> QED BY <1>5, <1>6 DEF SlotInv

\* A GROUP BY item that takes the i-th entry of the n-th call: where a list was.
SourceFrame(n, k) == IF k = n + 1 THEN n ELSE k
SourceEntry(n, i, k, a) ==
  IF k = n + 1 THEN i ELSE IF k = n /\ a >= i THEN a + 1 ELSE a

\* Different lists come from different ones.
LEMMA SourcesApart ==
  ASSUME NEW n \in Nat, NEW i \in Nat, NEW k \in 1..(n + 1), NEW m \in 1..(n + 1),
         NEW a \in Nat, NEW b \in Nat, k # m \/ a # b,
         k = n + 1 => a = 0, m = n + 1 => b = 0
  PROVE  \/ SourceFrame(n, k) # SourceFrame(n, m)
         \/ SourceEntry(n, i, k, a) # SourceEntry(n, i, m, b)
  BY DEF SourceFrame, SourceEntry

\* A GROUP BY item begins: the first entry that matches goes from the list of the
\* SELECT to the item.
LEMMA GroupBeginSlots ==
  ASSUME IndInv, HistInv, SlotInv, NEW fp \in Fingerprints, GroupBegin(fp)
  PROVE  SlotInv'
<1> DEFINE n == Len(stack)
           f == stack'[n + 1]
<1>1. TypeInv /\ n \in Nat
  BY DEF IndInv, TypeInv
<1>2. UNCHANGED <<clocations, items, trace, param_refs>>
  BY DEF GroupBegin
<1>3. /\ Len(stack') = n + 1 /\ n \in 1..n /\ stack[n].kind = "select"
      /\ \A k \in 1..(n - 1) : stack'[k] = stack[k]
      /\ stack'[n].kind = "select" /\ stack'[n].id = stack[n].id
      /\ \/ NoEntry(fp, stack[n], stack'[n], f)
         \/ \E i \in Nat : TakesFrom(i, fp, stack[n], stack'[n], f)
  BY <1>1, GroupBeginMoves
<1>4. f.kind = "group" /\ f.id = stack[n].id /\ f.fp = fp
  BY <1>3 DEF NoEntry, TakesFrom, BeginsAt, BeginsItem
<1>5. \A k \in 1..(n + 1) : k \in 1..(n - 1) \/ k = n \/ k = n + 1
  BY <1>1
<1>6. \A k \in 1..(n - 1) : k \in 1..n
  BY <1>1
<1> HIDE DEF f
<1>7. Remembers'
  <2> SUFFICES ASSUME NEW k \in 1..(n + 1), Innermost(k)'
               PROVE  /\ param_refs = None => TargetSince(items, stack'[k].done)
                      /\ param_refs # None =>
                           Content(stack'[k], clocations, trace, param_refs)
    BY <1>2, <1>3 DEF Remembers
  <2>1. stack'[k].kind = "target"
    BY DEF Innermost
  <2>2. k \in 1..(n - 1)
    BY <1>3, <1>4, <1>5, <2>1 DEF f
  <2>3. \A m \in 1..n : stack'[m].kind = stack[m].kind
    <3>1. \A m \in 1..n : m \in 1..(n - 1) \/ m = n
      BY <1>1
    <3> QED BY <1>3, <3>1
  <2>4. k \in 1..n /\ stack'[k] = stack[k]
    BY <1>3, <1>6, <2>2
  <2>5. Innermost(k)
    BY <1>1, <1>3, <2>3, <2>4, InnermostBelow
  <2> QED BY <2>4, <2>5 DEF SlotInv, Remembers
<1>8. CASE NoEntry(fp, stack[n], stack'[n], f)
  <2>1. stack'[n].targets = stack[n].targets /\ f.fppr = None
    BY <1>8 DEF NoEntry, BeginsAt, BeginsItem
  <2>2. \A a \in Nat : ~InSlot(f, a)
    BY <1>4, <2>1 DEF InSlot
  <2>3. ASSUME NEW k \in 1..n, NEW a \in Nat, InSlot(stack'[k], a)
        PROVE  Stays(k, a)
    <3>1. CASE k = n
      BY <1>3, <2>1, <2>3, <3>1 DEF Stays, InSlot, RefsAt, FpAt
    <3>2. CASE k # n
      <4>1. stack'[k] = stack[k]
        BY <1>1, <1>3, <3>2
      <4> QED BY <2>3, <4>1, SameStays
    <3> QED BY <3>1, <3>2
  <2>4. SlotsApart' /\ SlotsDistinct' /\ Origins'
    BY <1>2, <1>3, <2>2, <2>3, PushSlots DEF f
  <2> QED BY <1>7, <2>4 DEF SlotInv
<1>9. ASSUME NEW i \in Nat, TakesFrom(i, fp, stack[n], stack'[n], f)
      PROVE  SlotInv'
  <2> DEFINE ts == stack[n].targets
             us == stack'[n].targets
             K(k) == SourceFrame(n, k)
             A(k, a) == SourceEntry(n, i, k, a)
  <2>1. /\ ts \in Seq(Entries) /\ i \in 1..Len(ts) /\ ts[i].fp = fp
        /\ us = Without(ts, i) /\ f.fppr = ts[i].refs
    BY <1>9 DEF TakesFrom, BeginsAt, BeginsItem
  <2> HIDE DEF ts, us
  <2>2. /\ Len(us) = Len(ts) - 1 /\ Len(ts) \in Nat
        /\ \A j \in 1..(Len(ts) - 1) : us[j] = IF j < i THEN ts[j] ELSE ts[j + 1]
    BY <2>1, WithoutExact
  <2>3. ASSUME NEW k \in 1..(n + 1), NEW a \in Nat, InSlot(stack'[k], a)
        PROVE  /\ K(k) \in 1..n /\ A(k, a) \in Nat /\ (k = n + 1 => a = 0)
               /\ InSlot(stack[K(k)], A(k, a))
               /\ RefsAt(stack'[k], a) = RefsAt(stack[K(k)], A(k, a))
               /\ FpAt(stack'[k], a) = FpAt(stack[K(k)], A(k, a))
               /\ stack'[k].id = stack[K(k)].id
    <3>1. CASE k \in 1..(n - 1)
      <4>1. K(k) = k /\ A(k, a) = a /\ k \in 1..n /\ k # n + 1
        BY <1>1, <3>1 DEF SourceFrame, SourceEntry
      <4> HIDE DEF K, A
      <4> QED BY <1>3, <2>3, <3>1, <4>1
    <3>2. CASE k = n
      <4>1. a \in 1..Len(us)
        BY <1>3, <2>3, <3>2 DEF InSlot, us
      <4>2. /\ K(k) = n /\ A(k, a) = (IF a >= i THEN a + 1 ELSE a) /\ k # n + 1
        BY <1>1, <3>2 DEF SourceFrame, SourceEntry
      <4>3. /\ A(k, a) \in Nat /\ A(k, a) \in 1..Len(ts)
            /\ us[a] = ts[A(k, a)]
        BY <2>1, <2>2, <4>1, <4>2
      <4> HIDE DEF K, A
      <4>4. /\ InSlot(stack[n], A(k, a)) /\ RefsAt(stack'[n], a) = us[a].refs
            /\ RefsAt(stack[n], A(k, a)) = ts[A(k, a)].refs
            /\ FpAt(stack'[n], a) = us[a].fp
            /\ FpAt(stack[n], A(k, a)) = ts[A(k, a)].fp
        BY <1>3, <4>3 DEF InSlot, RefsAt, FpAt, ts, us
      <4> QED BY <1>3, <3>2, <4>2, <4>3, <4>4
    <3>3. CASE k = n + 1
      <4>1. K(k) = n /\ A(k, a) = i
        BY <3>3 DEF SourceFrame, SourceEntry
      <4> HIDE DEF K, A
      <4>2. /\ a = 0 /\ RefsAt(f, a) = f.fppr /\ FpAt(f, a) = fp
        BY <1>4, <2>3, <3>3 DEF InSlot, RefsAt, FpAt, f
      <4>3. InSlot(stack[n], i) /\ RefsAt(stack[n], i) = ts[i].refs
            /\ FpAt(stack[n], i) = ts[i].fp
        BY <1>3, <2>1 DEF InSlot, RefsAt, FpAt, ts
      <4> QED BY <1>3, <1>4, <2>1, <3>3, <4>1, <4>2, <4>3 DEF f
    <3> QED BY <1>5, <3>1, <3>2, <3>3
  <2> HIDE DEF K, A
  <2>4. SlotsApart'
    <3> SUFFICES ASSUME NEW k \in 1..(n + 1), NEW m \in 1..(n + 1),
                        NEW a \in Nat, NEW b \in Nat,
                        InSlot(stack'[k], a), InSlot(stack'[m], b), k # m \/ a # b
                 PROVE  ~Overlap(RefsAt(stack'[k], a), RefsAt(stack'[m], b))
      BY <1>3 DEF SlotsApart
    <3>1. K(k) # K(m) \/ A(k, a) # A(m, b)
      BY <1>1, <2>3, SourcesApart DEF K, A
    <3>2. ~Overlap(RefsAt(stack[K(k)], A(k, a)), RefsAt(stack[K(m)], A(m, b)))
      BY <2>3, <3>1 DEF SlotInv, SlotsApart
    <3> QED BY <2>3, <3>2
  <2>5. SlotsDistinct'
    BY <1>3, <2>3 DEF SlotInv, SlotsDistinct
  <2>6. Origins'
    <3> SUFFICES ASSUME NEW k \in 1..(n + 1), NEW a \in Nat, InSlot(stack'[k], a)
                 PROVE  \E t \in 1..Len(items) :
                          From(clocations, items[t], stack'[k].id,
                               FpAt(stack'[k], a), RefsAt(stack'[k], a))
      BY <1>2, <1>3 DEF Origins
    <3> QED BY <2>3 DEF SlotInv, Origins
  <2> QED BY <1>7, <2>4, <2>5, <2>6 DEF SlotInv
<1> QED BY <1>3, <1>8, <1>9

\* HasNests: an expression without target lists in it has met none.
LEMMA NestedTargets ==
  ASSUME IndInv, Len(stack) \in 1..Len(stack), Top \in ItemFrames, HasNests,
         Nests[Top.fp] # "select"
  PROVE  ~TargetSince(items, Top.done)
<1>1. Top = stack[Len(stack)] /\ selects \in Nat /\ Top.kind # "select"
  BY DEF Top, IndInv, TypeInv, ItemFrames
<1>2. Nests[Top.fp] \in {"none", "bare"}
  BY NestsAssumption DEF ItemFrames
<1>3. CASE Nests[Top.fp] = "none"
  <2>1. selects = Top.made
    BY <1>3 DEF HasNests
  <2>2. ~(Top.made < selects)
    BY <1>1, <2>1
  <2> QED BY <1>1, <2>2 DEF IndInv, SelectsCounted
<1>4. CASE Nests[Top.fp] = "bare"
  <2>1. "target" \notin {items[i].kind : i \in (Top.done + 1)..Len(items)}
    BY <1>4 DEF HasNests
  <2> QED BY <2>1 DEF TargetSince
<1> QED BY <1>2, <1>3, <1>4

\* What a target list entry has in param_refs when it ends: no number of an
\* earlier constant, and none twice.
LEMMA RememberedOwn ==
  ASSUME IndInv, SlotInv, TargetEnd
  PROVE  /\ Remembered \in Seq(Int) /\ NoRepeats(Remembered)
         /\ \A a \in 1..Len(clocations), j \in 1..Len(Remembered) :
              Remembered[j] < 0 /\ clocations[a] = Remembered[j] => a > Top.prev
<1> DEFINE n == Len(stack)
<1>1. TypeInv /\ n \in 1..n /\ Top = stack[n] /\ Top.kind = "target" /\ n \in Nat
  BY TargetEndFrames DEF IndInv, Top, TypeInv
<1>2. Innermost(n)
  <2>1. \A m \in (n + 1)..n : FALSE
    BY <1>1
  <2> QED BY <1>1, <2>1 DEF Innermost
<1>3. CASE param_refs = None
  <2>1. Remembered = <<>>
    BY <1>3 DEF Remembered
  <2>2. Remembered \in Seq(Int) /\ \A j \in 1..Len(Remembered) : FALSE
    BY <2>1
  <2> QED BY <2>2 DEF NoRepeats
<1>4. CASE param_refs # None
  <2>1. Remembered = param_refs /\ param_refs \in Seq(Int)
    BY <1>1, <1>4 DEF Remembered, TypeInv
  <2>2. Content(Top, clocations, trace, param_refs)
    BY <1>1, <1>2, <1>4 DEF SlotInv, Remembers
  <2> QED BY <2>1, <2>2 DEF Content
<1> QED BY <1>3, <1>4

\* ... so that no list there is has one of its numbers.
LEMMA RememberedApart ==
  ASSUME IndInv, SlotInv, TargetEnd, NEW k \in 1..(Len(stack) - 1), NEW a \in Nat,
         InSlot(stack[k], a)
  PROVE  /\ ~Overlap(RefsAt(stack[k], a), Remembered)
         /\ ~Overlap(Remembered, RefsAt(stack[k], a))
<1> DEFINE n == Len(stack)
           s == RefsAt(stack[k], a)
           r == Remembered
           p == Top.prev
<1>1. /\ TypeInv /\ n \in 1..n /\ Top = stack[n] /\ Top.kind = "target" /\ n \in Nat
      /\ Top \in ItemFrames
  BY TargetEndFrames DEF IndInv, Top, TypeInv
<1>2. k \in 1..n /\ k <= n
  BY <1>1
<1>3. /\ Known(clocations, p, s) /\ \A j \in 1..Len(s) : s[j] \in Int
  BY <1>1, <1>2, SlotKnown
<1>4. /\ p \in Nat /\ p <= Len(clocations) /\ Len(clocations) \in Nat
      /\ \A b \in 1..Len(clocations) : clocations[b] \in Int
  <2>1. Len(clocations) \in Nat /\ \A b \in 1..Len(clocations) : clocations[b] \in Int
    BY <1>1 DEF TypeInv
  <2>2. stack[n].kind # "select"
    BY <1>1
  <2>3. p \in Nat /\ p <= Len(clocations)
    BY <1>1, <2>2, ItemNumbers DEF IndInv, Before
  <2> QED BY <2>1, <2>3
<1>5. \A b \in 1..p : b \in 1..Len(clocations) /\ ~(b > p)
  BY <1>4
<1>6. \A b \in 1..p : clocations[b] \in Int
  BY <1>4, <1>5
<1> HIDE DEF s, p
<1>7. ASSUME NEW x \in 1..Len(s), NEW y \in 1..Len(r), s[x] = r[y], s[x] < 0
      PROVE  FALSE
  <2>1. PICK b \in 1..p : clocations[b] = s[x]
    BY <1>3, <1>6, <1>7, Holder
  <2>2. b > p
    BY <1>5, <1>7, <2>1, RememberedOwn DEF p
  <2> QED BY <1>5, <2>2
<1> QED BY <1>7 DEF Overlap, s

\* ... and it is what the entry that ends has met.
LEMMA RememberedFrom ==
  ASSUME IndInv, HistInv, SlotInv, TargetEnd
  PROVE  From(clocations, items'[Len(items) + 1], Top.id, Top.fp, Remembered)
<1> DEFINE n == Len(stack)
           N == Len(clocations)
           e == items'[Len(items) + 1]
           r == Remembered
           p == Top.prev
           s == Top.start
<1>1. /\ TypeInv /\ n \in 1..n /\ Top = stack[n] /\ Top.kind = "target" /\ n \in Nat
      /\ Top \in ItemFrames /\ Top.kind # "select" /\ HasNests /\ Record
  <2>1. TypeInv /\ Shape /\ HasNests /\ Record
    BY DEF IndInv, TargetEnd
  <2> QED BY <2>1, TargetEndFrames DEF Top, TypeInv
<1>2. /\ p \in Nat /\ s \in Nat /\ s <= Len(trace) /\ Len(trace) \in Nat /\ N \in Nat
  BY <1>1, Counts DEF HistInv, LeavesCounted
<1>3. /\ e.kind = "target" /\ e.id = Top.id /\ e.fp = Top.fp /\ e.prev = p
      /\ e.last = N /\ Len(e.text) = Len(trace) - s
      /\ \A y \in 1..Len(e.text) : e.text[y] = trace[s + y]
  BY <1>1, <1>2, RecordExact
<1>4. Innermost(n)
  <2>1. \A m \in (n + 1)..n : FALSE
    BY <1>1
  <2> QED BY <1>1, <2>1 DEF Innermost
<1> HIDE DEF e, p, s
<1>5. Holds(clocations, e, r)
  <2> SUFFICES ASSUME NEW a \in 1..N, NEW j \in 1..Len(r), r[j] < 0,
                      clocations[a] = r[j]
               PROVE  a \in Consts(e)
    BY DEF Holds
  <2>1. a > p
    BY RememberedOwn DEF p
  <2> QED BY <1>2, <1>3, <2>1 DEF Consts
<1>6. CASE param_refs = None
  <2>1. r = <<>> /\ \A j \in 1..Len(r) : FALSE
    BY <1>6 DEF Remembered
  <2>2. TargetSince(items, Top.done)
    BY <1>1, <1>4, <1>6 DEF SlotInv, Remembers
  <2>3. Nests[Top.fp] = "select"
    BY <1>1, <2>2, NestedTargets
  <2>4. Occurs(e, r)
    BY <2>1 DEF Occurs
  <2>5. Copies(clocations, e, Top.fp, r)
    BY <2>3 DEF Copies
  <2> QED BY <1>3, <1>5, <2>4, <2>5 DEF From, e
<1>7. CASE param_refs # None
  <2>1. r = param_refs /\ r \in Seq(Int) /\ Len(r) \in Nat
    BY <1>1, <1>7 DEF Remembered, TypeInv
  <2>2. Content(Top, clocations, trace, r)
    BY <1>1, <1>4, <1>7, <2>1 DEF SlotInv, Remembers
  <2> HIDE DEF r
  <2>3. Occurs(e, r)
    <3> SUFFICES ASSUME NEW j \in 1..Len(r), r[j] >= 0
                 PROVE  \E y \in 1..Len(e.text) : e.text[y] = r[j]
      BY DEF Occurs
    <3>1. PICK y \in (s + 1)..Len(trace) : trace[y] = r[j]
      BY <2>2 DEF Content, s
    <3>2. y - s \in 1..Len(e.text) /\ s + (y - s) = y
      BY <1>2, <1>3
    <3>3. e.text[y - s] = r[j]
      BY <1>3, <3>1, <3>2
    <3> QED BY <3>2, <3>3
  <2>4. Copies(clocations, e, Top.fp, r)
    <3> SUFFICES ASSUME AllConst(e.text, 0, Len(e.text))
                 PROVE  /\ Len(r) = e.last - e.prev
                        /\ \A j \in 1..Len(r) : r[j] = clocations[e.prev + j]
      BY DEF Copies
    <3>1. AllConst(trace, s, Len(trace))
      <4> SUFFICES ASSUME NEW y \in (s + 1)..Len(trace) PROVE trace[y] = Const
        BY DEF AllConst
      <4>1. y - s \in (0 + 1)..Len(e.text) /\ y - s \in 1..Len(e.text) /\ s + (y - s) = y
        BY <1>2, <1>3
      <4>2. e.text[y - s] = Const
        BY <4>1 DEF AllConst
      <4> QED BY <1>3, <4>1, <4>2
    <3> QED BY <1>3, <2>2, <3>1 DEF Content, s, p
  <2> QED BY <1>3, <1>5, <2>3, <2>4 DEF From, e, r
<1> QED BY <1>6, <1>7

\* A target list entry ends: its SELECT has one more list.
LEMMA TargetEndSlots ==
  ASSUME IndInv, HistInv, SlotInv, TargetEnd
  PROVE  SlotInv'
<1> DEFINE n == Len(stack)
           m == Len(stack) - 1
           ts == stack[m].targets
           L == Len(ts) + 1
           r == Remembered
           Old(k, a) == Stays(k, a) /\ k \in 1..m
           New(k, a) == /\ k = m /\ a = L /\ RefsAt(stack'[k], a) = r
                        /\ FpAt(stack'[k], a) = Top.fp /\ stack'[k].id = Top.id
<1>1. TypeInv /\ Shape /\ n \in Nat /\ Record /\ UNCHANGED clocations /\ param_refs' = None
  BY DEF IndInv, TypeInv, TargetEnd
<1>2. /\ Len(stack') = m /\ m \in 1..n /\ n \in 1..n /\ Top \in ItemFrames
      /\ Top.kind = "target" /\ Top = stack[n]
      /\ \A k \in 1..(m - 1) : stack'[k] = stack[k]
      /\ stack[m].kind = "select" /\ stack'[m].kind = "select"
      /\ stack'[m].targets = Append(ts, [fp |-> Top.fp, refs |-> r])
      /\ stack'[m].id = stack[m].id
  BY <1>1, TargetEndFrames, TargetEndMoves DEF Top
<1>3. stack[m].id = Top.id
  BY <1>2 DEF HistInv, Numbered
<1>4. ts \in Seq(Entries) /\ [fp |-> Top.fp, refs |-> r] \in Entries
  <2>1. ts \in Seq(Entries)
    BY <1>1, <1>2, FrameKinds DEF TypeInv, SelectFrames
  <2>2. r \in Seq(Int)
    BY RememberedOwn
  <2>3. Top.fp \in Fingerprints
    BY <1>2 DEF ItemFrames
  <2> HIDE DEF r
  <2> QED BY <2>1, <2>2, <2>3 DEF Entries
<1> HIDE DEF r, ts
<1>5. /\ Len(stack'[m].targets) = L /\ Len(ts) \in Nat
      /\ stack'[m].targets[L].fp = Top.fp /\ stack'[m].targets[L].refs = r
      /\ \A a \in 1..Len(ts) : stack'[m].targets[a] = ts[a]
  BY <1>2, <1>4
<1>6. ASSUME NEW k \in 1..m, NEW a \in Nat, InSlot(stack'[k], a)
      PROVE  Old(k, a) \/ New(k, a)
  <2>1. k \in 1..n
    BY <1>1
  <2>2. CASE k # m
    <3>1. stack'[k] = stack[k]
      BY <1>1, <1>2, <2>2
    <3> QED BY <1>6, <2>1, <3>1, SameStays
  <2>3. CASE k = m /\ a = L
    BY <1>2, <1>3, <1>5, <2>3 DEF RefsAt, FpAt
  <2>4. CASE k = m /\ a # L
    <3>1. a \in 1..L
      BY <1>2, <1>5, <1>6, <2>4 DEF InSlot
    <3>2. a \in 1..Len(ts)
      BY <1>5, <2>4, <3>1
    <3>3. Stays(m, a)
      BY <1>2, <1>5, <3>2 DEF Stays, InSlot, RefsAt, FpAt, ts
    <3> QED BY <1>2, <2>4, <3>3
  <2> QED BY <2>2, <2>3, <2>4
<1>7. SlotsApart'
  <2> SUFFICES ASSUME NEW i \in 1..m, NEW k \in 1..m, NEW a \in Nat, NEW b \in Nat,
                      InSlot(stack'[i], a), InSlot(stack'[k], b), i # k \/ a # b
               PROVE  ~Overlap(RefsAt(stack'[i], a), RefsAt(stack'[k], b))
    BY <1>2 DEF SlotsApart
  <2>1. CASE Old(i, a) /\ Old(k, b)
    BY <2>1 DEF Stays, SlotInv, SlotsApart
  <2>2. CASE Old(i, a) /\ New(k, b)
    BY <2>2, RememberedApart DEF Stays, r
  <2>3. CASE New(i, a) /\ Old(k, b)
    BY <2>3, RememberedApart DEF Stays, r
  <2>4. ~(New(i, a) /\ New(k, b))
    OBVIOUS
  <2> QED BY <1>6, <2>1, <2>2, <2>3, <2>4
<1>8. SlotsDistinct'
  <2> SUFFICES ASSUME NEW k \in 1..m, NEW a \in Nat, InSlot(stack'[k], a)
               PROVE  NoRepeats(RefsAt(stack'[k], a))
    BY <1>2 DEF SlotsDistinct
  <2>1. CASE Old(k, a)
    BY <2>1 DEF Stays, SlotInv, SlotsDistinct
  <2>2. CASE New(k, a)
    BY <2>2, RememberedOwn DEF r
  <2> QED BY <1>6, <2>1, <2>2
<1>9. /\ Len(items') = Len(items) + 1 /\ Len(items) \in Nat
      /\ \A t \in 1..Len(items) : items'[t] = items[t] /\ t \in 1..Len(items')
  BY <1>1, <1>2, RecordExact
<1>10. Origins'
  <2> SUFFICES ASSUME NEW k \in 1..m, NEW a \in Nat, InSlot(stack'[k], a)
               PROVE  \E t \in 1..Len(items') :
                        From(clocations, items'[t], stack'[k].id,
                             FpAt(stack'[k], a), RefsAt(stack'[k], a))
    BY <1>1, <1>2 DEF Origins
  <2>1. CASE Old(k, a)
    <3>1. PICK t \in 1..Len(items) :
            From(clocations, items[t], stack[k].id, FpAt(stack[k], a), RefsAt(stack[k], a))
      BY <2>1 DEF Stays, SlotInv, Origins
    <3> QED BY <1>9, <2>1, <3>1 DEF Stays
  <2>2. CASE New(k, a)
    <3>1. Len(items) + 1 \in 1..Len(items')
      BY <1>9
    <3>2. From(clocations, items'[Len(items) + 1], Top.id, Top.fp, r)
      BY RememberedFrom DEF r
    <3> QED BY <2>2, <3>1, <3>2
  <2> QED BY <1>6, <2>1, <2>2
<1>11. Remembers'
  <2> SUFFICES ASSUME NEW k \in 1..m, Innermost(k)'
               PROVE  TargetSince(items', stack'[k].done)
    BY <1>1, <1>2 DEF Remembers
  <2>1. stack'[k].kind = "target"
    BY DEF Innermost
  <2>2. k # m
    BY <1>2, <2>1
  <2>3. stack'[k] = stack[k] /\ k \in 1..n
    BY <1>1, <1>2, <2>2
  <2>4. stack[k].done \in Nat /\ stack[k].done <= Len(items)
    BY <1>1, <2>1, <2>3, ItemNumbers DEF IndInv, Before
  <2> QED BY <1>1, <1>2, <2>3, <2>4, TargetIsTarget
<1> QED BY <1>7, <1>8, <1>10, <1>11 DEF SlotInv

\* A GROUP BY item that takes numbers over: the items of which constants change
\* are not target list entries.
LEMMA SharerKeepsTargets ==
  ASSUME IndInv, HistInv, GroupEnd, Matches, Top.fppr # <<>>,
         NEW t \in 1..Len(items), items[t].kind = "target"
  PROVE  /\ t \in 1..Top.done /\ items[t].last <= Top.prev
         /\ \A i \in 1..items[t].last : clocations'[i] = clocations[i]
<1> DEFINE n == Len(stack)
<1>1. /\ TypeInv /\ n \in 1..n /\ Top = stack[n] /\ Top.kind = "group"
      /\ Top \in ItemFrames /\ stack[n].kind # "select"
  <2>1. TypeInv
    BY DEF IndInv
  <2> QED BY <2>1, GroupEndFrames DEF Top
<1>2. /\ Len(items) \in Nat /\ Len(clocations) \in Nat /\ items[t].last \in Nat
      /\ Top.done \in Nat /\ Top.prev \in Nat /\ Top.prev <= Len(clocations)
  BY <1>1, Counts DEF IndInv, Before
<1>3. ~TargetSince(items, Top.done)
  BY SharerIsPlain
<1>4. t \in 1..Top.done
  <2>1. ~(t \in (Top.done + 1)..Len(items))
    BY <1>3 DEF TargetSince
  <2> QED BY <1>2, <2>1
<1>5. items[t].last <= Top.prev
  BY <1>1, <1>4 DEF HistInv, Windows
<1>6. ASSUME NEW i \in 1..items[t].last PROVE clocations'[i] = clocations[i]
  <2>1. i \in 1..Len(clocations) /\ ~(i > Top.prev)
    BY <1>2, <1>5
  <2> QED BY <2>1, GroupEndShares
<1> QED BY <1>4, <1>5, <1>6

\* A GROUP BY item ends: the list that it took over goes with it.
LEMMA GroupEndSlots ==
  ASSUME IndInv, HistInv, SlotInv, GroupEnd
  PROVE  SlotInv'
<1> DEFINE n == Len(stack)
           N == Len(clocations)
           Share == Matches /\ Top.fppr # <<>>
<1>1. /\ TypeInv /\ n \in Nat /\ N \in Nat /\ UNCHANGED <<param_refs, trace>>
      /\ Record
  BY DEF IndInv, TypeInv, GroupEnd
<1>2. /\ Len(stack') = n - 1 /\ n \in 1..n /\ Top \in ItemFrames /\ Top = stack[n]
      /\ Top.kind = "group" /\ \A k \in 1..(n - 1) : stack'[k] = stack[k]
  BY <1>1, GroupEndFrames DEF Top
<1>3. \A k \in 1..Len(stack') : k \in 1..n /\ k # n /\ stack'[k] = stack[k]
  BY <1>1, <1>2
<1>4. /\ Len(items') = Len(items) + 1 /\ Len(items) \in Nat
      /\ \A t \in 1..Len(items) : t \in 1..Len(items') /\ items'[t] = items[t]
  BY <1>1, <1>2, RecordExact
<1>5. SlotsApart' /\ SlotsDistinct' /\ Origins'
  <2>1. \A k \in 1..Len(stack'), a \in Nat : InSlot(stack'[k], a) => Stays(k, a)
    BY <1>3, SameStays
  <2>2. ASSUME NEW k \in 1..Len(stack'), NEW a \in Nat, NEW t \in 1..Len(items),
               InSlot(stack'[k], a), Share,
               From(clocations, items[t], stack[k].id, FpAt(stack[k], a),
                    RefsAt(stack[k], a))
        PROVE  From(clocations', items[t], stack[k].id, FpAt(stack[k], a),
                    RefsAt(stack[k], a))
    <3> DEFINE refs == RefsAt(stack[k], a)
               e == items[t]
               s == Top.fppr
               p == Top.prev
    <3>1. refs \in Seq(Int) /\ k \in 1..n /\ k # n /\ InSlot(stack[k], a)
      BY <1>3, <2>1, <2>2, SlotKnown DEF Stays
    <3>2. e.prev \in Nat /\ e.last \in Nat
      BY <1>1, Counts
    <3>3. e.kind = "target" => \A i \in 1..e.last : clocations'[i] = clocations[i]
      BY <2>2, SharerKeepsTargets
    <3>4. ~Overlap(refs, s)
      <4>1. InSlot(stack[n], 0) /\ RefsAt(stack[n], 0) = s
        BY <1>2, <2>2 DEF InSlot, RefsAt, Matches
      <4> QED BY <1>2, <3>1, <4>1 DEF SlotInv, SlotsApart
    <3>5. p \in Nat /\ p <= N /\ s \in Seq(Int) /\ Len(s) = N - p
      <4>1. s # None /\ Len(s) = N - p
        BY <2>2 DEF Matches
      <4>2. stack[n].kind # "select"
        BY <1>2
      <4>3. p <= N
        BY <1>2, <4>2 DEF IndInv, Before
      <4> QED BY <1>2, <4>1, <4>3 DEF ItemFrames
    <3>6. /\ Len(clocations') = N
          /\ \A i \in 1..N :
               clocations'[i] = IF i > p THEN s[i - p] ELSE clocations[i]
      BY <2>2, GroupEndShares
    <3> HIDE DEF refs, e, s, p
    <3>7. ASSUME NEW b \in 1..Len(clocations'), NEW j \in 1..Len(refs),
                 refs[j] < 0, clocations'[b] = refs[j]
          PROVE  b \in 1..N /\ clocations[b] = refs[j]
      <4>1. b \in 1..N
        BY <3>6
      <4>2. CASE b > p
        <5>1. b - p \in 1..Len(s) /\ clocations'[b] = s[b - p]
          BY <1>1, <3>5, <3>6, <4>1, <4>2
        <5>2. Overlap(refs, s)
          BY <3>7, <5>1 DEF Overlap
        <5> QED BY <3>4, <5>2
      <4>3. CASE ~(b > p)
        BY <3>6, <3>7, <4>1, <4>3
      <4> QED BY <4>2, <4>3
    <3> QED BY <2>2, <3>1, <3>2, <3>3, <3>7, FromKept DEF refs, e
  <2>3. ~Share => clocations' = clocations
    BY GroupEndShares
  <2>4. SlotsApart /\ SlotsDistinct /\ Origins
    BY DEF SlotInv
  <2>5. CASE Share
    BY <1>4, <2>1, <2>2, <2>4, <2>5, SlotsStay
  <2>6. CASE ~Share
    BY <1>4, <2>1, <2>3, <2>4, <2>6, SlotsStay
  <2> QED BY <2>5, <2>6
<1>6. Remembers'
  <2> SUFFICES ASSUME NEW k \in 1..Len(stack'), Innermost(k)'
               PROVE  /\ param_refs = None => TargetSince(items', stack'[k].done)
                      /\ param_refs # None =>
                           Content(stack'[k], clocations', trace, param_refs)
    BY <1>1 DEF Remembers
  <2>1. k \in 1..n /\ Innermost(k) /\ stack'[k] = stack[k]
    BY <1>1, <1>2, <1>3, InnermostAbove
  <2>2. stack[k].kind # "select"
    BY <2>1 DEF Innermost
  <2>3. stack[k].done \in Nat /\ stack[k].done <= Len(items)
    BY <1>1, <2>1, <2>2, ItemNumbers DEF IndInv, Before
  <2>4. TargetSince(items', stack[k].done) <=> TargetSince(items, stack[k].done)
    BY <1>1, <1>2, <2>3, GroupIsNoTarget
  <2>5. param_refs # None => clocations' = clocations
    BY GroupEndShares, SharerIsPlain
  <2> QED BY <2>1, <2>4, <2>5 DEF SlotInv, Remembers
<1> QED BY <1>5, <1>6 DEF SlotInv

\* Every step of the walk keeps what is said of the lists.
LEMMA SlotStep ==
  ASSUME IndInv, HistInv, SlotInv, [Next]_vars
  PROVE  SlotInv'
<1>1. CASE UNCHANGED vars
  <2>1. SlotsApart' /\ SlotsDistinct' /\ Origins'
    BY <1>1 DEF vars, SlotInv, SlotsApart, SlotsDistinct, Origins
  <2>2. Remembers'
    BY <1>1 DEF vars, SlotInv, Remembers, Innermost
  <2> QED BY <2>1, <2>2 DEF SlotInv
<1>2. CASE Fail
  <2>1. Len(stack') = 0
    BY <1>2 DEF Fail
  <2> QED BY <2>1 DEF SlotInv, SlotsApart, SlotsDistinct, Origins, Remembers
<1> QED
  BY <1>1, <1>2, RecordConstSlots, ParamRefSlots, SelectBeginSlots, SelectEndSlots,
     TargetBeginSlots, TargetEndSlots, GroupBeginSlots, GroupEndSlots DEF Next

\* There are no lists at first.
LEMMA SlotInit ==
  ASSUME Init
  PROVE  SlotInv
<1>1. Len(stack) = 0
  BY DEF Init
<1> QED BY <1>1 DEF SlotInv, SlotsApart, SlotsDistinct, Origins, Remembers

-----------------------------------------------------------------------------
(* Which constants share a parameter. *)

\* With the items is, a and b may have one parameter, and b may have the
\* parameter x of the query.
AlikeIn(is, g, t) ==
  /\ is[t].kind = "target" /\ is[g].kind = "group"
  /\ is[t].id = is[g].id /\ is[t].fp = is[g].fp
Shares(is, a, b) ==
  \E t, g \in DOMAIN is :
    AlikeIn(is, g, t) /\ a \in Consts(is[t]) /\ b \in Consts(is[g])
Becomes(is, b, x) ==
  \E t, g \in DOMAIN is :
    /\ AlikeIn(is, g, t) /\ b \in Consts(is[g])
    /\ \E i \in DOMAIN is[t].text : is[t].text[i] = x

\* SharingIsIntended in these words.
LEMMA SharingInWords ==
  SharingIsIntended <=>
    /\ \A a, b \in DOMAIN clocations :
         a < b /\ clocations[a] = clocations[b] /\ clocations[a] < 0 =>
           Shares(items, a, b)
    /\ \A b \in DOMAIN clocations :
         clocations[b] >= 0 => Becomes(items, b, clocations[b])
  BY DEF SharingIsIntended, Alike, AlikeIn, Shares, Becomes

\* What may be shared may be shared when more items have ended.
LEMMA SharesKept ==
  ASSUME NEW is, NEW js, \A t \in DOMAIN is : t \in DOMAIN js /\ js[t] = is[t],
         NEW a, NEW b, NEW x
  PROVE  /\ Shares(is, a, b) => Shares(js, a, b)
         /\ Becomes(is, b, x) => Becomes(js, b, x)
  BY DEF Shares, Becomes, AlikeIn

\* The items that have ended stay, unless the walk fails.
LEMMA ItemsGrow ==
  ASSUME IndInv, [Next]_vars, ~Fail
  PROVE  \A t \in DOMAIN items : t \in DOMAIN items' /\ items'[t] = items[t]
<1>1. TypeInv /\ Shape /\ items \in Seq(Items)
  BY DEF IndInv, TypeInv
<1>2. ASSUME Record, Top \in ItemFrames
      PROVE  \A t \in DOMAIN items : t \in DOMAIN items' /\ items'[t] = items[t]
  <2>1. /\ Len(items') = Len(items) + 1 /\ Len(items) \in Nat /\ items' \in Seq(Items)
        /\ \A t \in 1..Len(items) : items'[t] = items[t]
    BY <1>1, <1>2, RecordExact, RecordItem
  <2> QED BY <1>1, <2>1
<1>3. CASE TargetEnd
  BY <1>1, <1>2, <1>3, TargetEndFrames DEF TargetEnd
<1>4. CASE GroupEnd
  BY <1>1, <1>2, <1>4, GroupEndFrames DEF GroupEnd
<1>5. ~TargetEnd /\ ~GroupEnd => items' = items
  BY DEF Next, vars, RecordConstLocation, ParamRef, Meet, SelectBegin, SelectEnd,
         TargetBegin, GroupBegin
<1> QED BY <1>3, <1>4, <1>5

\* A GROUP BY item that takes numbers over shares them as intended.
LEMMA GroupEndSharing ==
  ASSUME IndInv, HistInv, SlotInv, SharingIsIntended, GroupEnd, Matches,
         Top.fppr # <<>>
  PROVE  SharingIsIntended'
<1> DEFINE n == Len(stack)
           N == Len(clocations)
           s == Top.fppr
           p == Top.prev
           g == Len(items) + 1
<1>1. /\ TypeInv /\ n \in Nat /\ N \in Nat /\ Record
      /\ DOMAIN items = 1..Len(items) /\ DOMAIN clocations = 1..N
  BY DEF IndInv, TypeInv, GroupEnd
<1>2. /\ n \in 1..n /\ Top \in ItemFrames /\ Top = stack[n]
      /\ Top.kind = "group" /\ stack[n].kind # "select"
  BY <1>1, GroupEndFrames DEF Top
<1>3. /\ Len(items') = Len(items) + 1 /\ Len(items) \in Nat
      /\ \A t \in 1..Len(items) : items'[t] = items[t]
      /\ items'[g].kind = "group" /\ items'[g].id = Top.id /\ items'[g].fp = Top.fp
      /\ items'[g].prev = p /\ items'[g].last = N
  BY <1>1, <1>2, RecordExact
<1>4. TypeInv'
  BY GroupEndInv DEF IndInv
<1>5. DOMAIN items' = 1..(Len(items) + 1)
  BY <1>3, <1>4 DEF TypeInv
<1>6. \A t \in DOMAIN items : t \in DOMAIN items' /\ items'[t] = items[t]
  BY <1>1, <1>3, <1>5
<1>7. p \in Nat /\ p <= N /\ s \in Seq(Int) /\ Len(s) = N - p
  <2>1. s # None /\ Len(s) = N - p
    BY DEF Matches
  <2>2. p <= N
    BY <1>2 DEF IndInv, Before
  <2> QED BY <1>2, <2>1, <2>2 DEF ItemFrames
<1>8. /\ Len(clocations') = N
      /\ \A i \in 1..N : clocations'[i] = IF i > p THEN s[i - p] ELSE clocations[i]
  BY GroupEndShares
<1>9. DOMAIN clocations' = 1..N
  BY <1>4, <1>8 DEF TypeInv
<1>10. InSlot(stack[n], 0) /\ RefsAt(stack[n], 0) = s /\ FpAt(stack[n], 0) = Top.fp
  BY <1>2 DEF InSlot, RefsAt, FpAt, Matches
<1>11. PICK t \in 1..Len(items) : From(clocations, items[t], Top.id, Top.fp, s)
  BY <1>2, <1>10 DEF SlotInv, Origins
<1>12. NoRepeats(s)
  BY <1>2, <1>10 DEF SlotInv, SlotsDistinct
<1> HIDE DEF s, p, g
<1>13. g \in DOMAIN items' /\ t \in DOMAIN items' /\ items'[t] = items[t] /\ AlikeIn(items', g, t)
  <2>1. g \in DOMAIN items' /\ t \in DOMAIN items' /\ items'[t] = items[t]
    BY <1>1, <1>3, <1>5, <1>6 DEF g
  <2>2. items[t].kind = "target" /\ items[t].id = Top.id /\ items[t].fp = Top.fp
    BY <1>11 DEF From
  <2> QED BY <1>3, <2>1, <2>2 DEF AlikeIn
<1>14. ASSUME NEW b \in 1..N, b > p PROVE
         /\ b \in Consts(items'[g]) /\ clocations'[b] = s[b - p] /\ b - p \in 1..Len(s)
  BY <1>1, <1>3, <1>7, <1>8, <1>14 DEF Consts
<1>15. ASSUME NEW a \in 1..N, NEW b \in 1..N, a < b, clocations'[a] = clocations'[b],
              clocations'[a] < 0
       PROVE  Shares(items', a, b)
  <2>1. CASE ~(b > p)
    <3>1. ~(a > p)
      BY <1>7, <1>15, <2>1
    <3>2. clocations[a] = clocations[b] /\ clocations[a] < 0
      BY <1>8, <1>15, <2>1, <3>1
    <3>3. Shares(items, a, b)
      BY <1>1, <1>15, <3>2, SharingInWords
    <3> QED BY <1>6, <3>3, SharesKept
  <2>2. CASE b > p /\ ~(a > p)
    <3>1. clocations'[a] = clocations[a] /\ b \in Consts(items'[g])
          /\ clocations'[b] = s[b - p] /\ b - p \in 1..Len(s)
      BY <1>8, <1>14, <2>2
    <3>2. a \in Consts(items[t])
      BY <1>11, <1>15, <3>1 DEF From, Holds
    <3> QED BY <1>13, <3>1, <3>2 DEF Shares
  <2>3. CASE a > p
    <3>1. b > p
      BY <1>7, <1>15, <2>3
    <3>2. a - p \in 1..Len(s) /\ b - p \in 1..Len(s) /\ s[a - p] = s[b - p] /\ s[a - p] < 0
      BY <1>14, <1>15, <2>3, <3>1
    <3>3. a - p = b - p
      BY <1>12, <3>2 DEF NoRepeats
    <3> QED BY <1>7, <1>15, <3>3
  <2> QED BY <2>1, <2>2, <2>3
<1>16. ASSUME NEW b \in 1..N, clocations'[b] >= 0
       PROVE  Becomes(items', b, clocations'[b])
  <2> DEFINE x == clocations'[b]
  <2>1. CASE ~(b > p)
    <3>1. x = clocations[b]
      BY <1>8, <2>1
    <3>2. Becomes(items, b, x)
      BY <1>1, <1>16, <3>1, SharingInWords
    <3> QED BY <1>6, <3>2, SharesKept
  <2>2. CASE b > p
    <3>1. b \in Consts(items'[g]) /\ x = s[b - p] /\ b - p \in 1..Len(s)
      BY <1>14, <2>2
    <3>2. PICK y \in 1..Len(items[t].text) : items[t].text[y] = x
      BY <1>11, <1>16, <3>1 DEF From, Occurs
    <3>3. y \in DOMAIN items'[t].text
      <4>1. items[t].text \in Seq(Int)
        BY <1>1, Counts
      <4> QED BY <1>13, <4>1
    <3> QED BY <1>13, <3>1, <3>2, <3>3 DEF Becomes
  <2> QED BY <2>1, <2>2
<1>17. SharingIsIntended' <=>
         /\ \A a, b \in DOMAIN clocations' :
              a < b /\ clocations'[a] = clocations'[b] /\ clocations'[a] < 0 =>
                Shares(items', a, b)
         /\ \A b \in DOMAIN clocations' :
              clocations'[b] >= 0 => Becomes(items', b, clocations'[b])
  BY DEF SharingIsIntended, Alike, AlikeIn, Shares, Becomes
<1> QED BY <1>9, <1>15, <1>16, <1>17

\* Every step of the walk shares parameters only as intended.
LEMMA SharingStep ==
  ASSUME IndInv, HistInv, SlotInv, SharingIsIntended, [Next]_vars
  PROVE  SharingIsIntended'
<1>1. TypeInv /\ clocations \in Seq(Int)
  BY DEF IndInv, TypeInv
<1>2. SharingIsIntended' <=>
        /\ \A a, b \in DOMAIN clocations' :
             a < b /\ clocations'[a] = clocations'[b] /\ clocations'[a] < 0 =>
               Shares(items', a, b)
        /\ \A b \in DOMAIN clocations' :
             clocations'[b] >= 0 => Becomes(items', b, clocations'[b])
  BY DEF SharingIsIntended, Alike, AlikeIn, Shares, Becomes
<1>3. CASE Fail
  <2>1. clocations' = <<>>
    BY <1>3 DEF Fail
  <2> QED BY <1>2, <2>1
<1>4. CASE ~Fail /\ clocations' = clocations
  <2>1. \A t \in DOMAIN items : t \in DOMAIN items' /\ items'[t] = items[t]
    BY <1>4, ItemsGrow
  <2> QED BY <1>2, <1>4, <2>1, SharesKept, SharingInWords
<1>5. CASE RecordConstLocation
  <2> DEFINE N == Len(clocations)
             h == -highest_normalize_param_id
  <2>1. /\ N \in Nat /\ h \in Int /\ h < 0 /\ DOMAIN clocations = 1..N
        /\ \A a \in 1..N : clocations[a] # h
    BY <1>1, NextIsFresh
  <2>2. clocations' = Append(clocations, h) /\ items' = items
    BY <1>5 DEF RecordConstLocation, Meet
  <2> HIDE DEF h
  <2>3. /\ DOMAIN clocations' = 1..(N + 1) /\ clocations'[N + 1] = h
        /\ \A a \in 1..N : clocations'[a] = clocations[a]
    BY <1>1, <2>1, <2>2
  <2>4. ASSUME NEW a \in 1..(N + 1), NEW b \in 1..(N + 1), a < b,
               clocations'[a] = clocations'[b], clocations'[a] < 0
        PROVE  Shares(items', a, b)
    <3>1. a \in 1..N
      BY <2>1, <2>4
    <3>2. b \in 1..N
      BY <2>1, <2>3, <2>4, <3>1
    <3> QED BY <2>1, <2>2, <2>3, <2>4, <3>1, <3>2, SharingInWords
  <2>5. ASSUME NEW b \in 1..(N + 1), clocations'[b] >= 0
        PROVE  Becomes(items', b, clocations'[b])
    <3>1. b \in 1..N
      BY <2>1, <2>3, <2>5
    <3> QED BY <2>1, <2>2, <2>3, <2>5, <3>1, SharingInWords
  <2> QED BY <1>2, <2>3, <2>4, <2>5
<1>6. CASE GroupEnd /\ Matches /\ Top.fppr # <<>>
  BY <1>6, GroupEndSharing
<1>7. CASE GroupEnd /\ ~(Matches /\ Top.fppr # <<>>)
  <2>1. clocations' = clocations
    BY <1>7, GroupEndShares
  <2> QED BY <1>3, <1>4, <2>1
<1>8. ~Fail /\ ~RecordConstLocation /\ ~GroupEnd => clocations' = clocations
  BY DEF Next, vars, ParamRef, SelectBegin, SelectEnd, TargetBegin, TargetEnd,
         GroupBegin
<1> QED BY <1>3, <1>4, <1>5, <1>6, <1>7, <1>8

\* Two constants share a parameter, or a constant becomes a $n of the query, only
\* where a GROUP BY item has taken over what a like entry of the target list of
\* its SELECT had in param_refs.
THEOREM SharingIsIntendedHolds == Spec => []SharingIsIntended
<1>1. Init => HistInv /\ SlotInv /\ SharingIsIntended
  <2> SUFFICES ASSUME Init PROVE HistInv /\ SlotInv /\ SharingIsIntended
    OBVIOUS
  <2>1. clocations = <<>>
    BY DEF Init
  <2>2. SharingIsIntended
    BY <2>1 DEF SharingIsIntended
  <2> QED BY <2>2, HistInit, SlotInit
<1>2. IndInv /\ HistInv /\ SlotInv /\ SharingIsIntended /\ [Next]_vars =>
        HistInv' /\ SlotInv' /\ SharingIsIntended'
  BY HistStep, SlotStep, SharingStep
<1> QED BY <1>1, <1>2, WalkKeepsNumbers, PTL DEF Spec

-----------------------------------------------------------------------------
(* Which entry a GROUP BY item finds. *)

\* Has a GROUP BY item of this SELECT with this fingerprint ended?
Grouped(is, id, fp) ==
  \E g \in 1..Len(is) : is[g].kind = "group" /\ is[g].id = id /\ is[g].fp = fp

\* The target list entry t of the SELECT of call k has a like one on the list, or
\* else a like GROUP BY item has ended or is under way.
Awaits(st, is, k, t) ==
  \/ \E a \in 1..Len(st[k].targets) : st[k].targets[a].fp = is[t].fp
  \/ Grouped(is, is[t].id, is[t].fp)
  \/ k + 1 \in 1..Len(st) /\ st[k + 1].kind = "group" /\ st[k + 1].fp = is[t].fp

Awaiting ==
  \A k \in 1..Len(stack), t \in 1..Len(items) :
    stack[k].kind = "select" /\ items[t].kind = "target" /\ items[t].id = stack[k].id
      => Awaits(stack, items, k, t)

\* A GROUP BY item that found no entry comes after a like one, if there is a like
\* entry at all.
NothingLeft ==
  \A k \in 1..Len(stack), t \in 1..Len(items) :
    /\ stack[k].kind = "group" /\ stack[k].fppr = None
    /\ items[t].kind = "target" /\ items[t].id = stack[k].id
    /\ items[t].fp = stack[k].fp
    => Grouped(items, stack[k].id, stack[k].fp)

\* An item that has nothing but constants has as many of them as leaves.
TextCounted ==
  \A t \in 1..Len(items) : AllConst(items[t].text, 0, Len(items[t].text)) =>
    items[t].last - items[t].prev = Len(items[t].text)

GroupInv == Awaiting /\ NothingLeft /\ TextCounted

\* Call k is the SELECT that it was, with the entries that it had, and so is the
\* GROUP BY item above it.
KeepsSelect(k) ==
  /\ k \in 1..Len(stack) /\ stack[k].kind = "select" /\ stack'[k].id = stack[k].id
  /\ \A a \in 1..Len(stack[k].targets) : \E b \in 1..Len(stack'[k].targets) :
       stack'[k].targets[b].fp = stack[k].targets[a].fp
  /\ k + 1 \in 1..Len(stack) /\ stack[k + 1].kind = "group" =>
       k + 1 \in 1..Len(stack') /\ stack'[k + 1] = stack[k + 1]

\* The items of before, and maybe more.
Grows == \A t \in 1..Len(items) : t \in 1..Len(items') /\ items'[t] = items[t]

LEMMA AwaitsOn ==
  ASSUME Awaiting, Grows, NEW k, KeepsSelect(k), NEW t \in 1..Len(items),
         items[t].kind = "target", items[t].id = stack'[k].id
  PROVE  Awaits(stack', items', k, t)
<1>1. Awaits(stack, items, k, t)
  BY DEF Awaiting, KeepsSelect
<1>2. items'[t] = items[t]
  BY DEF Grows
<1>3. Grouped(items, items[t].id, items[t].fp) => Grouped(items', items[t].id, items[t].fp)
  BY DEF Grouped, Grows
<1> QED BY <1>1, <1>2, <1>3 DEF Awaits, KeepsSelect

\* Steps that end no item and begin no GROUP BY item.
LEMMA SameGroups ==
  ASSUME GroupInv, UNCHANGED items,
         \A k \in 1..Len(stack') : stack'[k].kind = "select" =>
           KeepsSelect(k) \/ \A t \in 1..Len(items) : items[t].id # stack'[k].id,
         \A k \in 1..Len(stack') : stack'[k].kind = "group" =>
           k \in 1..Len(stack) /\ stack'[k] = stack[k]
  PROVE  GroupInv'
<1>1. Grows
  BY DEF Grows
<1>2. Awaiting'
  <2> SUFFICES ASSUME NEW k \in 1..Len(stack'), NEW t \in 1..Len(items),
                      stack'[k].kind = "select", items[t].kind = "target",
                      items[t].id = stack'[k].id
               PROVE  Awaits(stack', items', k, t)
    BY DEF Awaiting
  <2>1. KeepsSelect(k)
    OBVIOUS
  <2> QED BY <1>1, <2>1, AwaitsOn DEF GroupInv
<1>3. NothingLeft'
  BY DEF GroupInv, NothingLeft
<1>4. TextCounted'
  BY DEF GroupInv, TextCounted
<1> QED BY <1>2, <1>3, <1>4 DEF GroupInv

\* The calls, and their lists, that go on.
LEMMA MovesGroups ==
  ASSUME TypeInv, Moves(Len(stack)), Len(stack') >= Len(stack), Len(stack') \in Nat
  PROVE  \A k \in 1..Len(stack) :
           /\ stack'[k].kind = "select" => KeepsSelect(k)
           /\ stack'[k].kind = "group" => stack'[k] = stack[k]
<1> DEFINE n == Len(stack)
<1>1. n \in Nat
  BY DEF TypeInv
<1>2. \A k \in 1..n :
        /\ stack'[k].kind = stack[k].kind /\ stack'[k].id = stack[k].id
        /\ stack[k].kind = "select" => stack'[k].targets = stack[k].targets
        /\ stack[k].kind # "select" => stack'[k] = stack[k]
  BY DEF Moves, Later, SameFrame
<1>3. \A k \in 1..n : k \in 1..Len(stack')
  BY <1>1
<1>4. ASSUME NEW k \in 1..n, stack'[k].kind = "select" PROVE KeepsSelect(k)
  BY <1>2, <1>3, <1>4 DEF KeepsSelect
<1> QED BY <1>2, <1>4

\* An item that ends keeps the items of before.
LEMMA RecordGrows ==
  ASSUME TypeInv, Top \in ItemFrames, Record
  PROVE  Grows
<1>1. /\ Len(items') = Len(items) + 1 /\ Len(items) \in Nat
      /\ \A t \in 1..Len(items) : items'[t] = items[t]
  BY RecordExact
<1> QED BY <1>1 DEF Grows

\* ... and has as many constants as leaves, if it has only constants.
LEMMA RecordText ==
  ASSUME IndInv, HistInv, TextCounted, Len(stack) \in 1..Len(stack),
         Top \in ItemFrames, Record
  PROVE  TextCounted'
<1> DEFINE e == items'[Len(items) + 1]
           p == Top.prev
           s == Top.start
<1>1. /\ TypeInv /\ Top = stack[Len(stack)] /\ Top.kind # "select"
  BY DEF IndInv, Top, ItemFrames
<1>2. /\ p \in Nat /\ s \in Nat /\ Len(trace) \in Nat /\ Len(clocations) \in Nat
      /\ s <= Len(trace)
      /\ AllConst(trace, s, Len(trace)) => Len(clocations) - p = Len(trace) - s
  BY <1>1, Counts DEF HistInv, LeavesCounted
<1>3. /\ Len(items') = Len(items) + 1 /\ Len(items) \in Nat
      /\ \A t \in 1..Len(items) : items'[t] = items[t]
      /\ e.prev = p /\ e.last = Len(clocations) /\ Len(e.text) = Len(trace) - s
      /\ \A y \in 1..Len(e.text) : e.text[y] = trace[s + y]
  BY <1>1, <1>2, RecordExact
<1> HIDE DEF p, s, e
<1>4. ASSUME AllConst(e.text, 0, Len(e.text)) PROVE e.last - e.prev = Len(e.text)
  <2>1. AllConst(trace, s, Len(trace))
    <3> SUFFICES ASSUME NEW y \in (s + 1)..Len(trace) PROVE trace[y] = Const
      BY DEF AllConst
    <3>1. y - s \in (0 + 1)..Len(e.text) /\ y - s \in 1..Len(e.text) /\ s + (y - s) = y
      BY <1>2, <1>3
    <3>2. e.text[y - s] = Const
      BY <1>4, <3>1 DEF AllConst
    <3> QED BY <1>3, <3>1, <3>2
  <2> QED BY <1>2, <1>3, <2>1
<1> SUFFICES ASSUME NEW t \in 1..Len(items'),
                    AllConst(items'[t].text, 0, Len(items'[t].text))
             PROVE  items'[t].last - items'[t].prev = Len(items'[t].text)
  BY DEF TextCounted
<1>5. CASE t \in 1..Len(items)
  BY <1>3, <1>5 DEF TextCounted
<1>6. CASE t = Len(items) + 1
  BY <1>4, <1>6 DEF e
<1> QED BY <1>3, <1>5, <1>6

\* A GROUP BY item begins: if it finds no entry, then each like entry was found.
LEMMA GroupBeginGroups ==
  ASSUME IndInv, HistInv, GroupInv, NEW fp \in Fingerprints, GroupBegin(fp)
  PROVE  GroupInv'
<1> DEFINE n == Len(stack)
           f == stack'[n + 1]
           ts == stack[n].targets
           us == stack'[n].targets
<1>1. TypeInv /\ n \in Nat /\ items' = items
  BY DEF IndInv, TypeInv, GroupBegin
<1>2. /\ Len(stack') = n + 1 /\ n \in 1..n /\ stack[n].kind = "select"
      /\ \A k \in 1..(n - 1) : stack'[k] = stack[k]
      /\ stack'[n].kind = "select" /\ stack'[n].id = stack[n].id
      /\ \/ NoEntry(fp, stack[n], stack'[n], f)
         \/ \E i \in Nat : TakesFrom(i, fp, stack[n], stack'[n], f)
  BY <1>1, GroupBeginMoves
<1>3. f.kind = "group" /\ f.id = stack[n].id /\ f.fp = fp
  BY <1>2 DEF NoEntry, TakesFrom, BeginsAt, BeginsItem
<1>4. \A k \in 1..(n + 1) : k \in 1..(n - 1) \/ k = n \/ k = n + 1
  BY <1>1
<1>5. Grows
  BY <1>1 DEF Grows
<1> HIDE DEF f
<1>6. ASSUME NEW k \in 1..(n - 1), stack[k].kind = "select" PROVE KeepsSelect(k)
  <2>1. k \in 1..n /\ k + 1 \in 1..(n + 1) /\ (k + 1 = n \/ k + 1 \in 1..(n - 1))
    BY <1>1
  <2>2. stack[k + 1].kind = "group" => stack'[k + 1] = stack[k + 1]
    BY <1>2, <2>1
  <2> QED BY <1>2, <1>6, <2>1, <2>2 DEF KeepsSelect
<1>7. ASSUME NEW t \in 1..Len(items), items[t].kind = "target", items[t].id = stack[n].id
      PROVE  \/ \E a \in 1..Len(ts) : ts[a].fp = items[t].fp
             \/ Grouped(items, items[t].id, items[t].fp)
  <2>1. Awaits(stack, items, n, t)
    BY <1>2, <1>7 DEF GroupInv, Awaiting
  <2>2. ~(n + 1 \in 1..n)
    BY <1>1
  <2> QED BY <2>1, <2>2 DEF Awaits
<1>8. ASSUME NEW t \in 1..Len(items), items[t].kind = "target", items[t].id = stack[n].id,
             NEW a \in 1..Len(ts), ts[a].fp = items[t].fp
      PROVE  Awaits(stack', items, n, t)
  <2>1. CASE NoEntry(fp, stack[n], stack'[n], f)
    BY <1>8, <2>1 DEF NoEntry, Awaits
  <2>2. ASSUME NEW i \in Nat, TakesFrom(i, fp, stack[n], stack'[n], f)
        PROVE  Awaits(stack', items, n, t)
    <3>1. /\ ts \in Seq(Entries) /\ i \in 1..Len(ts) /\ ts[i].fp = fp
          /\ us = Without(ts, i)
      BY <2>2 DEF TakesFrom
    <3> HIDE DEF ts, us
    <3>2. /\ Len(us) = Len(ts) - 1 /\ Len(ts) \in Nat
          /\ \A j \in 1..(Len(ts) - 1) : us[j] = IF j < i THEN ts[j] ELSE ts[j + 1]
      BY <3>1, WithoutExact
    <3>3. CASE a = i
      <4>1. n + 1 \in 1..(n + 1)
        BY <1>1
      <4> QED BY <1>2, <1>3, <1>8, <3>1, <3>3, <4>1 DEF Awaits, f
    <3>4. CASE a < i
      <4>1. a \in 1..Len(us) /\ us[a] = ts[a]
        BY <3>1, <3>2, <3>4
      <4> QED BY <1>8, <4>1 DEF Awaits, us
    <3>5. CASE a > i
      <4>1. a - 1 \in 1..(Len(ts) - 1) /\ ~(a - 1 < i) /\ (a - 1) + 1 = a
        BY <3>1, <3>2, <3>5
      <4>2. a - 1 \in 1..Len(us) /\ us[a - 1] = ts[a]
        BY <3>2, <4>1
      <4> QED BY <1>8, <4>2 DEF Awaits, us
    <3> QED BY <3>1, <3>2, <3>3, <3>4, <3>5
  <2> QED BY <1>2, <2>1, <2>2
<1>9. Awaiting'
  <2> SUFFICES ASSUME NEW k \in 1..(n + 1), NEW t \in 1..Len(items),
                      stack'[k].kind = "select", items[t].kind = "target",
                      items[t].id = stack'[k].id
               PROVE  Awaits(stack', items, k, t)
    BY <1>1, <1>2 DEF Awaiting
  <2>1. CASE k \in 1..(n - 1)
    <3>1. KeepsSelect(k)
      BY <1>2, <1>6, <2>1
    <3> QED BY <1>1, <1>5, <3>1, AwaitsOn DEF GroupInv
  <2>2. CASE k = n
    <3>1. items[t].id = stack[n].id
      BY <1>2, <2>2
    <3>2. Grouped(items, items[t].id, items[t].fp) => Awaits(stack', items, n, t)
      BY DEF Awaits
    <3> QED BY <1>7, <1>8, <2>2, <3>1, <3>2
  <2>3. CASE k = n + 1
    BY <1>3, <2>3 DEF f
  <2> QED BY <1>4, <2>1, <2>2, <2>3
<1>10. NothingLeft'
  <2> SUFFICES ASSUME NEW k \in 1..(n + 1), NEW t \in 1..Len(items),
                      stack'[k].kind = "group", stack'[k].fppr = None,
                      items[t].kind = "target", items[t].id = stack'[k].id,
                      items[t].fp = stack'[k].fp
               PROVE  Grouped(items, stack'[k].id, stack'[k].fp)
    BY <1>1, <1>2 DEF NothingLeft
  <2>1. CASE k \in 1..(n - 1)
    <3>1. k \in 1..n
      BY <1>1, <2>1
    <3> QED BY <1>2, <2>1, <3>1 DEF GroupInv, NothingLeft
  <2>2. k # n
    BY <1>2
  <2>3. CASE k = n + 1
    <3>1. f.fppr = None /\ items[t].fp = fp /\ items[t].id = stack[n].id
      BY <1>3, <2>3 DEF f
    <3>2. CASE NoEntry(fp, stack[n], stack'[n], f)
      <4>1. \A a \in 1..Len(ts) : ts[a].fp # fp
        BY <3>2 DEF NoEntry
      <4>2. Grouped(items, items[t].id, items[t].fp)
        BY <1>7, <3>1, <4>1
      <4> QED BY <4>2
    <3>3. ASSUME NEW i \in Nat, TakesFrom(i, fp, stack[n], stack'[n], f)
          PROVE  FALSE
      <4>1. f.fppr = ts[i].refs /\ ts \in Seq(Entries) /\ i \in 1..Len(ts)
        BY <3>3 DEF TakesFrom, BeginsAt, BeginsItem
      <4>2. ts[i].refs \in Seq(Int)
        <5>1. ts[i] \in Entries
          BY <4>1
        <5> QED BY <5>1 DEF Entries
      <4> QED BY <3>1, <4>1, <4>2, NoneAssumption
    <3> QED BY <1>2, <3>2, <3>3
  <2> QED BY <1>4, <2>1, <2>2, <2>3
<1>11. TextCounted'
  BY <1>1 DEF GroupInv, TextCounted
<1> QED BY <1>9, <1>10, <1>11 DEF GroupInv

\* A target list entry ends: there is an entry for it.
LEMMA TargetEndGroups ==
  ASSUME IndInv, HistInv, GroupInv, TargetEnd
  PROVE  GroupInv'
<1> DEFINE n == Len(stack)
           m == Len(stack) - 1
           ts == stack[m].targets
           e == items'[Len(items) + 1]
<1>1. TypeInv /\ Shape /\ n \in Nat /\ Record
  BY DEF IndInv, TypeInv, TargetEnd
<1>2. /\ Len(stack') = m /\ m \in 1..n /\ n \in 1..n /\ Top \in ItemFrames
      /\ Top.kind = "target" /\ Top = stack[n]
      /\ \A k \in 1..(m - 1) : stack'[k] = stack[k]
      /\ stack[m].kind = "select" /\ stack'[m].kind = "select"
      /\ stack'[m].targets = Append(ts, [fp |-> Top.fp, refs |-> Remembered])
      /\ stack'[m].id = stack[m].id
  BY <1>1, TargetEndFrames, TargetEndMoves DEF Top
<1>3. stack[m].id = Top.id
  BY <1>2 DEF HistInv, Numbered
<1>4. /\ Len(ts) \in Nat /\ Len(stack'[m].targets) = Len(ts) + 1
      /\ stack'[m].targets[Len(ts) + 1].fp = Top.fp
      /\ \A a \in 1..Len(ts) : stack'[m].targets[a] = ts[a]
  <2>1. ts \in Seq(Entries)
    BY <1>1, <1>2, FrameKinds DEF TypeInv, SelectFrames
  <2> HIDE DEF ts
  <2> QED BY <1>2, <2>1
<1>5. /\ Len(items') = Len(items) + 1 /\ Len(items) \in Nat /\ Grows
      /\ e.kind = "target" /\ e.id = Top.id /\ e.fp = Top.fp
      /\ \A t \in 1..Len(items) : items'[t] = items[t]
  BY <1>1, <1>2, RecordExact, RecordGrows
<1>6. \A t \in 1..Len(items') : t \in 1..Len(items) \/ t = Len(items) + 1
  BY <1>5
<1>7. \A k \in 1..m : k \in 1..n /\ (k = m \/ k \in 1..(m - 1))
  BY <1>1
<1>8. ASSUME NEW k \in 1..m, stack'[k].kind = "select" PROVE KeepsSelect(k)
  <2>1. k + 1 \in 1..n /\ (k + 1 = n \/ k + 1 = m \/ k + 1 \in 1..(m - 1))
    BY <1>1
  <2>2. stack[k + 1].kind = "group" => k + 1 \in 1..(m - 1) /\ stack'[k + 1] = stack[k + 1]
    BY <1>2, <2>1
  <2>3. \A j \in 1..(m - 1) : j \in 1..m
    BY <1>1
  <2>4. CASE k = m
    <3>1. \A a \in 1..Len(ts) : a \in 1..Len(stack'[m].targets)
      BY <1>4
    <3> QED BY <1>2, <1>4, <2>2, <2>3, <2>4, <3>1 DEF KeepsSelect
  <2>5. CASE k \in 1..(m - 1)
    BY <1>2, <1>7, <1>8, <2>2, <2>3, <2>5 DEF KeepsSelect
  <2> QED BY <1>7, <2>4, <2>5
<1> HIDE DEF e
<1>9. Awaiting'
  <2> SUFFICES ASSUME NEW k \in 1..m, NEW t \in 1..Len(items'),
                      stack'[k].kind = "select", items'[t].kind = "target",
                      items'[t].id = stack'[k].id
               PROVE  Awaits(stack', items', k, t)
    BY <1>2 DEF Awaiting
  <2>1. CASE t \in 1..Len(items)
    <3>1. items[t].kind = "target" /\ items[t].id = stack'[k].id /\ KeepsSelect(k)
      BY <1>5, <1>8, <2>1
    <3> QED BY <1>5, <2>1, <3>1, AwaitsOn DEF GroupInv
  <2>2. CASE t = Len(items) + 1
    <3>1. items'[t].id = stack[m].id /\ items'[t].fp = Top.fp
      BY <1>3, <1>5, <2>2 DEF e
    <3>2. k = m
      <4>1. SUFFICES ASSUME k \in 1..(m - 1) PROVE FALSE
        BY <1>7
      <4>2. stack[k].kind = "select" /\ stack[k].id = stack[m].id /\ k < m
        <5>1. k < m
          BY <1>1, <4>1
        <5>2. stack'[k] = stack[k]
          BY <1>2, <4>1
        <5> QED BY <3>1, <5>1, <5>2
      <4>3. stack[k].id < stack[m].id
        BY <1>2, <1>7, <4>2 DEF HistInv, Numbered
      <4>4. stack[k].id \in Nat
        BY <1>1, <1>7, Counts
      <4> QED BY <4>2, <4>3, <4>4
    <3>3. Len(ts) + 1 \in 1..Len(stack'[m].targets)
      BY <1>4
    <3> QED BY <1>4, <3>1, <3>2, <3>3 DEF Awaits
  <2> QED BY <1>6, <2>1, <2>2
<1>10. NothingLeft'
  <2> SUFFICES ASSUME NEW k \in 1..m, NEW t \in 1..Len(items'),
                      stack'[k].kind = "group", stack'[k].fppr = None,
                      items'[t].kind = "target", items'[t].id = stack'[k].id,
                      items'[t].fp = stack'[k].fp
               PROVE  Grouped(items', stack'[k].id, stack'[k].fp)
    BY <1>2 DEF NothingLeft
  <2>1. k \in 1..(m - 1) /\ k \in 1..n /\ stack'[k] = stack[k]
    BY <1>2, <1>7
  <2>2. CASE t \in 1..Len(items)
    <3>1. Grouped(items, stack[k].id, stack[k].fp)
      BY <1>5, <2>1, <2>2 DEF GroupInv, NothingLeft
    <3> QED BY <1>5, <2>1, <3>1 DEF Grouped, Grows
  <2>3. CASE t = Len(items) + 1
    <3>1. stack[k].id = stack[m].id
      BY <1>3, <1>5, <2>1, <2>3 DEF e
    <3>2. m \in (k + 1)..n
      BY <1>1, <2>1
    <3>3. stack[k].id <= stack[k].made /\ stack[m].id > stack[k].made
      BY <2>1, <3>2 DEF HistInv, Windows
    <3>4. stack[k].id \in Nat /\ stack[k].made \in Nat
      BY <1>1, <2>1, Counts
    <3> QED BY <3>1, <3>3, <3>4
  <2> QED BY <1>6, <2>2, <2>3
<1>11. TextCounted'
  BY <1>1, <1>2, RecordText DEF GroupInv
<1> QED BY <1>9, <1>10, <1>11 DEF GroupInv

\* A GROUP BY item ends: its entry has been found.
LEMMA GroupEndGroups ==
  ASSUME IndInv, HistInv, GroupInv, GroupEnd
  PROVE  GroupInv'
<1> DEFINE n == Len(stack)
           e == items'[Len(items) + 1]
<1>1. TypeInv /\ n \in Nat /\ Record
  BY DEF IndInv, TypeInv, GroupEnd
<1>2. /\ Len(stack') = n - 1 /\ n \in 1..n /\ Top \in ItemFrames
      /\ Top.kind = "group" /\ Top = stack[n]
      /\ \A k \in 1..(n - 1) : stack'[k] = stack[k]
  BY <1>1, GroupEndFrames DEF Top
<1>3. /\ Len(items') = Len(items) + 1 /\ Len(items) \in Nat /\ Grows
      /\ e.kind = "group" /\ e.id = Top.id /\ e.fp = Top.fp
      /\ \A t \in 1..Len(items) : items'[t] = items[t]
  BY <1>1, <1>2, RecordExact, RecordGrows
<1>4. \A k \in 1..(n - 1) : k \in 1..n
  BY <1>1
<1>5. ASSUME NEW t \in 1..Len(items'), items'[t].kind = "target"
      PROVE  t \in 1..Len(items) /\ items'[t] = items[t]
  <2>1. t \in 1..Len(items) \/ t = Len(items) + 1
    BY <1>3
  <2> QED BY <1>3, <1>5, <2>1
<1> HIDE DEF e
<1>6. \A id, fp : Grouped(items, id, fp) => Grouped(items', id, fp)
  BY <1>3 DEF Grouped, Grows
<1>7. Grouped(items', Top.id, Top.fp)
  <2>1. Len(items) + 1 \in 1..Len(items')
    BY <1>3
  <2> QED BY <1>3, <2>1 DEF Grouped, e
<1>8. Awaiting'
  <2> SUFFICES ASSUME NEW k \in 1..(n - 1), NEW t \in 1..Len(items'),
                      stack'[k].kind = "select", items'[t].kind = "target",
                      items'[t].id = stack'[k].id
               PROVE  Awaits(stack', items', k, t)
    BY <1>2 DEF Awaiting
  <2>1. /\ t \in 1..Len(items) /\ items'[t] = items[t] /\ k \in 1..n
        /\ stack'[k] = stack[k]
    BY <1>2, <1>4, <1>5
  <2>2. Awaits(stack, items, k, t)
    BY <2>1 DEF GroupInv, Awaiting
  <2>3. CASE \E a \in 1..Len(stack[k].targets) : stack[k].targets[a].fp = items[t].fp
    BY <2>1, <2>3 DEF Awaits
  <2>4. CASE Grouped(items, items[t].id, items[t].fp)
    BY <1>6, <2>1, <2>4 DEF Awaits
  <2>5. CASE /\ k + 1 \in 1..n /\ stack[k + 1].kind = "group"
             /\ stack[k + 1].fp = items[t].fp
    <3>1. CASE k + 1 = n
      <4>1. n - 1 = k /\ stack[n].id = stack[n - 1].id
        BY <1>1, <1>2, <3>1 DEF HistInv, Numbered
      <4>2. Top.id = items[t].id /\ Top.fp = items[t].fp
        BY <1>2, <2>1, <2>5, <3>1, <4>1
      <4> QED BY <1>7, <2>1, <4>2 DEF Awaits
    <3>2. CASE k + 1 # n
      <4>1. k + 1 \in 1..(n - 1)
        BY <1>1, <2>5, <3>2
      <4> QED BY <1>2, <2>1, <2>5, <4>1 DEF Awaits
    <3> QED BY <3>1, <3>2
  <2> QED BY <2>2, <2>3, <2>4, <2>5 DEF Awaits
<1>9. NothingLeft'
  <2> SUFFICES ASSUME NEW k \in 1..(n - 1), NEW t \in 1..Len(items'),
                      stack'[k].kind = "group", stack'[k].fppr = None,
                      items'[t].kind = "target", items'[t].id = stack'[k].id,
                      items'[t].fp = stack'[k].fp
               PROVE  Grouped(items', stack'[k].id, stack'[k].fp)
    BY <1>2 DEF NothingLeft
  <2>1. /\ t \in 1..Len(items) /\ items'[t] = items[t] /\ k \in 1..n
        /\ stack'[k] = stack[k]
    BY <1>2, <1>4, <1>5
  <2>2. Grouped(items, stack[k].id, stack[k].fp)
    BY <2>1 DEF GroupInv, NothingLeft
  <2> QED BY <1>6, <2>1, <2>2
<1>10. TextCounted'
  BY <1>1, <1>2, RecordText DEF GroupInv
<1> QED BY <1>8, <1>9, <1>10 DEF GroupInv

\* Every step of the walk keeps what is said of the entries that are found.
LEMMA GroupStep ==
  ASSUME IndInv, HistInv, GroupInv, [Next]_vars
  PROVE  GroupInv'
<1> DEFINE n == Len(stack)
<1>1. TypeInv /\ n \in Nat
  BY DEF IndInv, TypeInv
<1>2. ASSUME NEW leaf, Meet(leaf) PROVE GroupInv'
  <2>1. Len(stack') = n /\ Moves(n) /\ items' = items
    BY <1>1, <1>2, MeetMoves DEF Meet
  <2> QED BY <1>1, <2>1, MovesGroups, SameGroups
<1>3. CASE SelectBegin
  <2>1. /\ Len(stack') = n + 1 /\ Moves(n) /\ items' = items
        /\ stack'[n + 1].kind = "select" /\ stack'[n + 1].id = selects + 1
    BY <1>1, <1>3, SelectBeginMoves DEF SelectBegin
  <2>2. \A k \in 1..Len(stack') : k \in 1..n \/ k = n + 1
    BY <1>1, <2>1
  <2>3. \A k \in 1..n : /\ stack'[k].kind = "select" => KeepsSelect(k)
                        /\ stack'[k].kind = "group" => stack'[k] = stack[k]
    BY <1>1, <2>1, MovesGroups
  <2>4. \A t \in 1..Len(items) : items[t].id # selects + 1
    BY <1>1, Counts DEF HistInv, Ended
  <2> QED BY <2>1, <2>2, <2>3, <2>4, SameGroups
<1>4. ASSUME NEW fp \in Fingerprints, TargetBegin(fp) PROVE GroupInv'
  <2>1. /\ Len(stack') = n + 1 /\ Moves(n) /\ items' = items
        /\ stack'[n + 1].kind = "target"
    BY <1>1, <1>4, TargetBeginMoves DEF TargetBegin, BeginsAt, BeginsItem
  <2>2. \A k \in 1..Len(stack') : k \in 1..n \/ k = n + 1
    BY <1>1, <2>1
  <2>3. \A k \in 1..n : /\ stack'[k].kind = "select" => KeepsSelect(k)
                        /\ stack'[k].kind = "group" => stack'[k] = stack[k]
    BY <1>1, <2>1, MovesGroups
  <2> QED BY <2>1, <2>2, <2>3, SameGroups
<1>5. CASE SelectEnd
  <2>1. /\ Len(stack') = n - 1 /\ n \in 1..n /\ stack[n].kind = "select"
        /\ \A k \in 1..(n - 1) : stack'[k] = stack[k]
    BY <1>1, <1>5, SelectEndFrames
  <2>2. items' = items
    BY <1>5 DEF SelectEnd
  <2>3. \A k \in 1..(n - 1) :
          k \in 1..n /\ k + 1 \in 1..n /\ (k + 1 = n \/ k + 1 \in 1..(n - 1))
    BY <1>1
  <2>4. ASSUME NEW k \in 1..(n - 1), stack'[k].kind = "select" PROVE KeepsSelect(k)
    BY <2>1, <2>3, <2>4 DEF KeepsSelect
  <2> QED BY <2>1, <2>2, <2>3, <2>4, SameGroups
<1>6. CASE Fail
  <2>1. Len(stack') = 0 /\ Len(items') = 0
    BY <1>6 DEF Fail
  <2> QED BY <2>1 DEF GroupInv, Awaiting, NothingLeft, TextCounted
<1>7. CASE UNCHANGED vars
  BY <1>7 DEF vars, GroupInv, Awaiting, NothingLeft, TextCounted
<1>8. RecordConstLocation => Meet(Const)
  BY DEF RecordConstLocation
<1>9. \A p \in Numbers : ParamRef(p) => Meet(p)
  BY DEF ParamRef
<1> QED
  BY <1>2, <1>3, <1>4, <1>5, <1>6, <1>7, <1>8, <1>9, TargetEndGroups,
     GroupBeginGroups, GroupEndGroups DEF Next

\* There are no items at first.
LEMMA GroupInit ==
  ASSUME Init
  PROVE  GroupInv
<1>1. Len(stack) = 0 /\ Len(items) = 0
  BY DEF Init
<1> QED BY <1>1 DEF GroupInv, Awaiting, NothingLeft, TextCounted

\* A GROUP BY item ends that repeats a target list entry: it has found that one,
\* and has as many constants.
LEMMA GroupEndFollows ==
  ASSUME IndInv, HistInv, SlotInv, GroupInv, GroupEnd, NEW t \in 1..Len(items),
         NEW g, g = Len(items) + 1, Repeats(g, t)',
         \A i \in DOMAIN items'[g].text : items'[g].text[i] = Const,
         Nests[items'[g].fp] # "select"
  PROVE  SameNumbers(g, t)'
<1> DEFINE n == Len(stack)
           N == Len(clocations)
           s == Top.fppr
           p == Top.prev
           e == items[t]
<1>1. /\ TypeInv /\ n \in Nat /\ N \in Nat /\ Record /\ TypeInv'
  <2>1. TypeInv'
    BY GroupEndInv DEF IndInv
  <2>2. TypeInv /\ n \in Nat /\ N \in Nat
    BY DEF IndInv, TypeInv
  <2>3. Record
    BY DEF GroupEnd
  <2> QED BY <2>1, <2>2, <2>3
<1>2. /\ n \in 1..n /\ Top \in ItemFrames /\ Top = stack[n]
      /\ Top.kind = "group" /\ stack[n].kind # "select"
  BY <1>1, GroupEndFrames DEF Top
<1>3. /\ Len(items') = Len(items) + 1 /\ Len(items) \in Nat
      /\ \A i \in 1..Len(items) : items'[i] = items[i]
      /\ items'[g].kind = "group" /\ items'[g].id = Top.id /\ items'[g].fp = Top.fp
      /\ items'[g].prev = p /\ items'[g].last = N
  BY <1>1, <1>2, RecordExact
<1>4. DOMAIN items' = 1..(Len(items) + 1) /\ items'[g].text \in Seq(Int)
  <2>1. items' \in Seq(Items)
    BY <1>1 DEF TypeInv
  <2>2. g \in 1..Len(items')
    BY <1>3
  <2>3. items'[g] \in Items
    BY <2>1, <2>2
  <2> QED BY <1>3, <2>1, <2>3 DEF Items
<1>5. /\ e.kind = "target" /\ e.id = Top.id /\ e.fp = Top.fp
      /\ e.text = items'[g].text /\ items'[t] = e
  BY <1>3 DEF Repeats, Alike
<1>6. ASSUME NEW i \in 1..Len(items), items[i].id = Top.id, items[i].fp = Top.fp
      PROVE  /\ items[i].kind = "target" => i = t
             /\ items[i].kind # "group"
  <2>1. i \in DOMAIN items' /\ items'[i] = items[i] /\ i # g
    BY <1>3, <1>4
  <2> QED BY <1>3, <1>6, <2>1 DEF Repeats, Of
<1> HIDE DEF s, p, e
<1>7. s # None
  <2>1. SUFFICES ASSUME s = None PROVE FALSE
    OBVIOUS
  <2>2. Grouped(items, Top.id, Top.fp)
    BY <1>2, <1>5, <2>1 DEF GroupInv, NothingLeft, s, e
  <2> QED BY <1>6, <2>2 DEF Grouped
<1>8. From(clocations, e, Top.id, Top.fp, s)
  <2>1. InSlot(stack[n], 0) /\ RefsAt(stack[n], 0) = s /\ FpAt(stack[n], 0) = Top.fp
    BY <1>2, <1>7 DEF InSlot, RefsAt, FpAt, s
  <2>2. PICK i \in 1..Len(items) : From(clocations, items[i], Top.id, Top.fp, s)
    BY <1>2, <2>1 DEF SlotInv, Origins
  <2>3. i = t
    BY <1>6, <2>2 DEF From
  <2> QED BY <2>2, <2>3 DEF e
<1>9. AllConst(e.text, 0, Len(e.text)) /\ AllConst(items'[g].text, 0, Len(items'[g].text))
  <2>1. \A y \in (0 + 1)..Len(e.text) : y \in DOMAIN items'[g].text
    BY <1>4, <1>5
  <2> QED BY <1>5, <2>1 DEF AllConst
<1>10. /\ Len(s) = e.last - e.prev
       /\ \A j \in 1..Len(s) : s[j] = clocations[e.prev + j]
  BY <1>3, <1>8, <1>9 DEF From, Copies
<1>11. Len(s) = N - p
  <2>1. e.last - e.prev = Len(e.text)
    BY <1>9 DEF GroupInv, TextCounted, e
  <2>2. N - p = Len(items'[g].text)
    <3>1. TextCounted'
      BY GroupEndGroups DEF GroupInv
    <3>2. g \in 1..Len(items')
      BY <1>3
    <3> QED BY <1>3, <1>9, <3>1, <3>2 DEF TextCounted
  <2> QED BY <1>5, <1>10, <2>1, <2>2
<1>12. /\ Len(clocations') = N
       /\ \A i \in 1..N : clocations'[i] = IF i > p THEN s[i - p] ELSE clocations[i]
  <2>1. Matches
    BY <1>7, <1>11 DEF Matches, s, p
  <2> QED BY <2>1, GroupEndShares DEF s, p
<1>13. /\ p \in Nat /\ p <= N /\ e.prev \in Nat /\ e.last \in Nat /\ e.last <= N
  BY <1>1, <1>2, Counts DEF IndInv, Before, HistInv, Ended, p, e
<1>14. e.last <= p
  <2>1. Top.done \in Nat /\ Top.id \in Nat /\ Top.made \in Nat
    BY <1>2 DEF ItemFrames
  <2>2. t \in 1..Top.done
    <3>1. SUFFICES ASSUME t \in (Top.done + 1)..Len(items) PROVE FALSE
      BY <1>3, <2>1
    <3>2. e.id > Top.made /\ Top.id <= Top.made
      BY <1>2, <3>1 DEF HistInv, Windows, e
    <3> QED BY <1>5, <2>1, <3>2
  <2> QED BY <1>2, <2>2 DEF HistInv, Windows, e, p
<1>15. ASSUME NEW a \in Consts(e), NEW b \in Consts(items'[g]), a - e.prev = b - p
       PROVE  clocations'[a] = clocations'[b]
  <2>1. a \in (e.prev + 1)..e.last /\ b \in (p + 1)..N
    BY <1>3 DEF Consts
  <2>2. a \in 1..N /\ ~(a > p) /\ b \in 1..N /\ b > p /\ b - p \in 1..(N - p)
    BY <1>1, <1>13, <1>14, <2>1
  <2>3. a = e.prev + (b - p)
    BY <1>13, <1>15, <2>1
  <2>4. clocations'[b] = s[b - p] /\ clocations'[a] = clocations[a]
    BY <1>12, <2>2
  <2>5. s[b - p] = clocations[e.prev + (b - p)]
    BY <1>10, <1>11, <2>2
  <2> QED BY <2>3, <2>4, <2>5
<1> QED BY <1>3, <1>5, <1>15 DEF SameNumbers

\* The constants of items that have ended keep their numbers, but for those that
\* are part of a GROUP BY item which takes numbers over.
LEMMA OldNumbers ==
  ASSUME IndInv, HistInv, [Next]_vars, ~Fail, NEW g \in 1..Len(items),
         NEW t \in 1..Len(items), Alike(g, t)
  PROVE  \A i \in Consts(items[t]) \union Consts(items[g]) :
           clocations'[i] = clocations[i]
<1> DEFINE N == Len(clocations)
<1>1. TypeInv /\ N \in Nat /\ clocations \in Seq(Int)
  BY DEF IndInv, TypeInv
<1>2. \A i \in 1..Len(items) :
        /\ items[i].prev \in Nat /\ items[i].last \in Nat /\ items[i].last <= N
        /\ items[i].id \in Nat
  BY <1>1, Counts DEF HistInv, Ended
<1>3. ASSUME \A i \in 1..N : clocations'[i] = clocations[i]
      PROVE  \A i \in Consts(items[t]) \union Consts(items[g]) :
               clocations'[i] = clocations[i]
  <2>1. \A i \in Consts(items[t]) \union Consts(items[g]) : i \in 1..N
    BY <1>1, <1>2 DEF Consts
  <2> QED BY <1>3, <2>1
<1>4. CASE clocations' = clocations
  BY <1>3, <1>4
<1>5. CASE RecordConstLocation
  <2>1. clocations' = Append(clocations, -highest_normalize_param_id)
    BY <1>5 DEF RecordConstLocation
  <2>2. -highest_normalize_param_id \in Int
    BY NextIsFresh
  <2>3. \A i \in 1..N : clocations'[i] = clocations[i]
    BY <1>1, <2>1, <2>2
  <2> QED BY <1>3, <2>3
<1>6. CASE GroupEnd /\ Matches /\ Top.fppr # <<>>
  <2> DEFINE n == Len(stack)
  <2>1. /\ n \in 1..n /\ Top \in ItemFrames /\ Top = stack[n] /\ stack[n].kind # "select"
    <3>1. Top \in ItemFrames /\ n \in 1..n /\ Top.kind = "group"
      BY <1>1, <1>6, GroupEndFrames
    <3> QED BY <3>1 DEF Top
  <2>2. items[t].kind = "target" /\ items[t].id = items[g].id
    BY DEF Alike
  <2>3. t \in 1..Top.done /\ items[t].last <= Top.prev
    BY <1>6, <2>2, SharerKeepsTargets
  <2>4. items[t].id <= Top.made
    BY <2>1, <2>3 DEF HistInv, Windows
  <2>5. Top.done \in Nat /\ Top.made \in Nat /\ Top.prev \in Nat /\ Len(items) \in Nat
    BY <1>1, <2>1 DEF ItemFrames, TypeInv
  <2>6. g \in 1..Top.done
    <3>1. SUFFICES ASSUME g \in (Top.done + 1)..Len(items) PROVE FALSE
      BY <2>5
    <3>2. items[g].id > Top.made
      BY <2>1, <3>1 DEF HistInv, Windows
    <3> QED BY <1>2, <2>2, <2>4, <2>5, <3>2
  <2>7. items[g].last <= Top.prev
    BY <2>1, <2>6 DEF HistInv, Windows
  <2>8. \A i \in Consts(items[t]) \union Consts(items[g]) : i \in 1..N /\ ~(i > Top.prev)
    <3>1. ASSUME NEW x \in {t, g} PROVE \A i \in Consts(items[x]) :
                                        i \in 1..N /\ ~(i > Top.prev)
      <4>1. /\ items[x].prev \in Nat /\ items[x].last \in Nat /\ items[x].last <= N
            /\ items[x].last <= Top.prev
        BY <1>2, <2>3, <2>7
      <4> QED BY <1>1, <2>5, <4>1 DEF Consts
    <3> QED BY <3>1
  <2> QED BY <1>6, <2>8, GroupEndShares
<1>7. CASE GroupEnd /\ ~(Matches /\ Top.fppr # <<>>)
  BY <1>4, <1>7, GroupEndShares
<1>8. ~RecordConstLocation /\ ~GroupEnd => clocations' = clocations
  BY DEF Next, vars, ParamRef, SelectBegin, SelectEnd, TargetBegin, TargetEnd,
         GroupBegin
<1> QED BY <1>4, <1>5, <1>6, <1>7, <1>8

\* A target list entry that ends has no GROUP BY item before it.
LEMMA TargetsFirst ==
  ASSUME IndInv, HistInv, TargetEnd, NEW g \in 1..Len(items)
  PROVE  items[g].kind = "group" => items[g].id # Top.id
<1> DEFINE m == Len(stack) - 1
<1>1. TypeInv /\ Shape /\ Len(stack) \in Nat
  BY DEF IndInv, TypeInv
<1>2. m \in 1..Len(stack) /\ stack[m].kind = "select" /\ Top.kind = "target"
  BY <1>1, TargetEndFrames
<1>3. Len(stack) \in 1..Len(stack) /\ Top = stack[Len(stack)]
  BY <1>1, <1>2 DEF Top
<1>4. stack[m].phase \in Early
  BY <1>2, <1>3 DEF HistInv, Phased, Early
<1>5. Top.id = stack[m].id
  BY <1>2, <1>3 DEF HistInv, Numbered
<1> QED BY <1>2, <1>4, <1>5 DEF HistInv, Phased

\* Every step of the walk leaves the repeated items with the same numbers.
LEMMA FollowsStep ==
  ASSUME IndInv, HistInv, SlotInv, GroupInv, GroupByFollowsTarget, [Next]_vars
  PROVE  GroupByFollowsTarget'
<1> DEFINE n == Len(items)
<1>1. TypeInv /\ Shape /\ n \in Nat /\ DOMAIN items = 1..n
  BY DEF IndInv, TypeInv
<1>2. CASE Fail
  <2>1. items' = <<>>
    BY <1>2 DEF Fail
  <2>2. DOMAIN items' = {}
    BY <2>1
  <2> QED BY <2>2 DEF GroupByFollowsTarget
<1>3. CASE ~Fail
  <2>1. \A i \in 1..n : i \in DOMAIN items' /\ items'[i] = items[i]
    BY <1>1, <1>3, ItemsGrow
  <2>2. SUFFICES ASSUME NEW g \in DOMAIN items', NEW t \in DOMAIN items',
                        Repeats(g, t)',
                        \A i \in DOMAIN items'[g].text : items'[g].text[i] = Const,
                        Nests[items'[g].fp] # "select"
                 PROVE  SameNumbers(g, t)'
    BY DEF GroupByFollowsTarget
  <2>3. /\ items'[t].kind = "target" /\ items'[g].kind = "group"
        /\ items'[t].id = items'[g].id
    BY <2>2 DEF Repeats, Alike
  <2>4. CASE g \in 1..n /\ t \in 1..n
    <3>1. items'[g] = items[g] /\ items'[t] = items[t]
      BY <2>1, <2>4
    <3>2. Repeats(g, t)
      <4>1. Alike(g, t) /\ items[t].text = items[g].text
        BY <2>2, <3>1 DEF Repeats, Alike
      <4>2. ASSUME NEW i \in Of("target", items[g].id), items[i].fp = items[g].fp
            PROVE  i = t
        <5>1. i \in 1..n /\ items[i].kind = "target" /\ items[i].id = items[g].id
          BY <1>1, <4>2 DEF Of
        <5>2. i \in DOMAIN items' /\ items'[i] = items[i]
          BY <2>1, <5>1
        <5> QED BY <2>2, <3>1, <4>2, <5>1, <5>2 DEF Repeats, Of
      <4>3. ASSUME NEW i \in Of("group", items[g].id), items[i].fp = items[g].fp
            PROVE  i = g
        <5>1. i \in 1..n /\ items[i].kind = "group" /\ items[i].id = items[g].id
          BY <1>1, <4>3 DEF Of
        <5>2. i \in DOMAIN items' /\ items'[i] = items[i]
          BY <2>1, <5>1
        <5> QED BY <2>2, <3>1, <4>3, <5>1, <5>2 DEF Repeats, Of
      <4> QED BY <4>1, <4>2, <4>3 DEF Repeats
    <3>3. SameNumbers(g, t)
      BY <1>1, <2>2, <2>4, <3>1, <3>2 DEF GroupByFollowsTarget
    <3>4. Alike(g, t)
      BY <3>2 DEF Repeats
    <3>5. \A i \in Consts(items[t]) \union Consts(items[g]) :
            clocations'[i] = clocations[i]
      BY <1>3, <2>4, <3>4, OldNumbers
    <3> QED BY <3>1, <3>3, <3>5 DEF SameNumbers
  <2>5. CASE TargetEnd
    <3>1. Top \in ItemFrames /\ Top.kind = "target" /\ Record
      BY <1>1, <2>5, TargetEndFrames DEF TargetEnd
    <3>2. /\ Len(items') = n + 1 /\ items'[n + 1].kind = "target"
          /\ items'[n + 1].id = Top.id
      BY <1>1, <3>1, RecordExact
    <3>3. TypeInv'
      BY <2>5, TargetEndInv DEF IndInv
    <3>4. DOMAIN items' = 1..(n + 1)
      BY <3>2, <3>3 DEF TypeInv
    <3>5. g \in 1..n
      <4>1. g # n + 1
        BY <2>3, <3>2
      <4> QED BY <1>1, <3>4, <4>1
    <3>6. items[g].kind = "group" /\ items[g].id = items'[t].id
      BY <2>1, <2>3, <3>5
    <3>7. items[g].id # Top.id
      BY <2>5, <3>5, <3>6, TargetsFirst
    <3>8. t # n + 1
      BY <3>2, <3>6, <3>7
    <3>9. t \in 1..n
      BY <1>1, <3>4, <3>8
    <3> QED BY <2>4, <3>5, <3>9
  <2>6. CASE GroupEnd
    <3>1. Top \in ItemFrames /\ Top.kind = "group" /\ Record
      BY <1>1, <2>6, GroupEndFrames DEF GroupEnd
    <3>2. Len(items') = n + 1 /\ items'[n + 1].kind = "group"
      BY <1>1, <3>1, RecordExact
    <3>3. TypeInv'
      BY <2>6, GroupEndInv DEF IndInv
    <3>4. DOMAIN items' = 1..(n + 1)
      BY <3>2, <3>3 DEF TypeInv
    <3>5. t \in 1..n
      <4>1. t # n + 1
        BY <2>3, <3>2
      <4> QED BY <1>1, <3>4, <4>1
    <3>6. CASE g = n + 1
      BY <2>2, <2>6, <3>5, <3>6, GroupEndFollows
    <3>7. CASE g # n + 1
      <4>1. g \in 1..n
        BY <1>1, <3>4, <3>7
      <4> QED BY <2>4, <3>5, <4>1
    <3> QED BY <3>6, <3>7
  <2>7. ~TargetEnd /\ ~GroupEnd => items' = items
    BY <1>3 DEF Next, vars, RecordConstLocation, ParamRef, Meet, SelectBegin,
                SelectEnd, TargetBegin, GroupBegin
  <2>8. CASE items' = items
    BY <1>1, <2>2, <2>4, <2>8
  <2> QED BY <2>5, <2>6, <2>7, <2>8
<1> QED BY <1>2, <1>3

\* A GROUP BY item that repeats the only like entry of the target list of its
\* SELECT gets the parameters of that entry: the walker finds the entry on
\* fp_and_param_refs_list, and what it recorded has the length of the item.
THEOREM GroupByFollowsTargetHolds == Spec => []GroupByFollowsTarget
<1>1. Init => HistInv /\ SlotInv /\ GroupInv /\ GroupByFollowsTarget
  <2> SUFFICES ASSUME Init PROVE HistInv /\ SlotInv /\ GroupInv /\ GroupByFollowsTarget
    OBVIOUS
  <2>1. items = <<>>
    BY DEF Init
  <2>2. GroupByFollowsTarget
    BY <2>1 DEF GroupByFollowsTarget
  <2> QED BY <2>2, HistInit, SlotInit, GroupInit
<1>2. IndInv /\ HistInv /\ SlotInv /\ GroupInv /\ GroupByFollowsTarget /\ [Next]_vars =>
        HistInv' /\ SlotInv' /\ GroupInv' /\ GroupByFollowsTarget'
  BY HistStep, SlotStep, GroupStep, FollowsStep
<1> QED BY <1>1, <1>2, WalkKeepsNumbers, PTL DEF Spec
====
