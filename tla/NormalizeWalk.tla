--------------------------- MODULE NormalizeWalk ---------------------------
(***************************************************************************)
(* const_record_walker (src/pg_query_normalize.c): the walk over the parse *)
(* tree that gives every constant the number of the parameter that will    *)
(* replace it.  A constant gets the next number, except that a GROUP BY    *)
(* item takes over the numbers of the target list entry that it repeats.   *)
(*                                                                         *)
(* The tree is discovered as it is walked: every step picks what the       *)
(* walker meets next.  An expression is known by its fingerprint, which    *)
(* does not depend on the constants and $n in it.  Nodes that neither hold *)
(* a constant or $n nor open a SELECT make no step; GROUP BY 1, ORDER BY 1 *)
(* and type names, which the walker passes over, are such nodes, and so is *)
(* what pg_query_normalize_utility leaves alone.                           *)
(***************************************************************************)
EXTENDS Integers, Sequences

CONSTANTS
  Fingerprints,
  Nests,        \* what SELECTs an expression with a fingerprint has in it:
                \* "none", "bare" (without target lists) or "select"
  Numbers,      \* n of the $n in the query
  MaxLeaves, MaxSelects, MaxItems,   \* bounds on the query
  None

ASSUME NestsAssumption == Nests \in [Fingerprints -> {"none", "bare", "select"}]
ASSUME NumbersAssumption == Numbers \subseteq Nat
ASSUME BoundsAssumption ==
  MaxLeaves \in Nat /\ MaxSelects \in Nat /\ MaxItems \in Nat
ASSUME NoneAssumption == None \notin Seq(Int)

VARIABLES
  stack,       \* the calls of the walker under way, the innermost last
  clocations,  \* param_id of every recorded constant
  highest_normalize_param_id,
  highest_extern_param_id,
  param_refs,  \* None (NULL), or what the target list entry under way has met
  failed,      \* has check_stack_depth raised its error?
  trace,       \* history: the constants (Const) and $n (n) met so far
  items,       \* history: the target list entries and GROUP BY items so far
  selects      \* history: number of SELECTs met so far

vars == <<stack, clocations, highest_normalize_param_id,
          highest_extern_param_id, param_refs, failed, trace, items, selects>>

Init ==
  /\ stack = <<>>
  /\ clocations = <<>>
  /\ highest_normalize_param_id = 1
  /\ highest_extern_param_id = 0
  /\ param_refs = None
  /\ failed = FALSE
  /\ trace = <<>>
  /\ items = <<>>
  /\ selects = 0

\* A constant in trace; the parser takes $0, so that 0 would not do.
Const == -1

Top == stack[Len(stack)]
Under(kind) == stack # <<>> /\ Top.kind = kind

\* A SELECT goes through its clauses in this order.  targets is
\* fp_and_param_refs_list.
Phases == {"distinct", "targets", "from", "group", "order"}
Select == [kind |-> "select", id |-> selects + 1, phase |-> "distinct",
           targets |-> <<>>]

\* A target list entry or GROUP BY item.  fppr is the matching entry, prev is
\* prev_cloc_count; start, made and done are history.
Item(kind, fp, fppr) ==
  [kind |-> kind, id |-> Top.id, fp |-> fp, fppr |-> fppr,
   prev |-> Len(clocations), start |-> Len(trace), made |-> selects,
   done |-> Len(items)]

\* A constant or SELECT outside of the lists ends the list under way.
AfterClause(phase) ==
  CASE phase = "targets" -> "from" [] phase = "group" -> "order" [] OTHER -> phase

Clause ==
  IF Under("select") THEN [stack EXCEPT ![Len(stack)].phase = AfterClause(@)]
  ELSE stack

Meet(leaf) ==
  /\ ~failed /\ Len(trace) < MaxLeaves
  /\ trace' = Append(trace, leaf)
  /\ stack' = Clause
  /\ UNCHANGED <<failed, items, selects>>

Remember(id) ==
  param_refs' = IF param_refs = None THEN None ELSE Append(param_refs, id)

\* RecordConstLocation: for an A_Const, or a string of a utility statement.
RecordConstLocation ==
  /\ Meet(Const)
  /\ clocations' = Append(clocations, -highest_normalize_param_id)
  /\ highest_normalize_param_id' = highest_normalize_param_id + 1
  /\ Remember(-highest_normalize_param_id)
  /\ UNCHANGED highest_extern_param_id

\* Mutation: only the parameters of target lists are tracked.
ParamRefInTargetsOnly(n) ==
  /\ Meet(n)
  /\ highest_extern_param_id' =
       IF param_refs # None /\ n > highest_extern_param_id THEN n
       ELSE highest_extern_param_id
  /\ Remember(n)
  /\ UNCHANGED <<clocations, highest_normalize_param_id>>

\* T_ParamRef
ParamRef(n) ==
  /\ Meet(n)
  /\ highest_extern_param_id' =
       IF n > highest_extern_param_id THEN n ELSE highest_extern_param_id
  /\ Remember(n)
  /\ UNCHANGED <<clocations, highest_normalize_param_id>>

\* T_SelectStmt
SelectBegin ==
  /\ ~failed /\ selects < MaxSelects
  /\ selects' = selects + 1
  /\ stack' = Append(Clause, Select)
  /\ UNCHANGED <<clocations, highest_normalize_param_id,
                 highest_extern_param_id, param_refs, failed, trace, items>>

SelectEnd ==
  /\ ~failed /\ Under("select")
  /\ stack' = SubSeq(stack, 1, Len(stack) - 1)
  /\ UNCHANGED <<clocations, highest_normalize_param_id,
                 highest_extern_param_id, param_refs, failed, trace, items, selects>>

\* There may be one more item, those under way included.
Room ==
  Len(items) + Len(SelectSeq(stack, LAMBDA f : f.kind # "select")) < MaxItems

TargetBegin(fp) ==
  /\ ~failed /\ Under("select") /\ Top.phase \in {"distinct", "targets"}
  /\ Room
  /\ stack' = Append([stack EXCEPT ![Len(stack)].phase = "targets"],
                     Item("target", fp, None))
  /\ param_refs' = <<>>
  /\ UNCHANGED <<clocations, highest_normalize_param_id,
                 highest_extern_param_id, failed, trace, items, selects>>

\* An item's SELECTs are those its fingerprint says.
HasNests ==
  LET inner == {items[i].kind : i \in (Top.done + 1)..Len(items)}
  IN  CASE Nests[Top.fp] = "none" -> selects = Top.made
        [] Nests[Top.fp] = "bare" -> selects > Top.made /\ "target" \notin inner
        [] OTHER -> "target" \in inner

Record ==
  items' = Append(items,
             [kind |-> Top.kind, id |-> Top.id, fp |-> Top.fp,
              prev |-> Top.prev, last |-> Len(clocations),
              text |-> SubSeq(trace, Top.start + 1, Len(trace))])

\* The SELECT that an item belongs to.
ItemBelow == Len(stack) - 1

TargetEnd ==
  /\ ~failed /\ Under("target") /\ HasNests
  /\ stack' = [SubSeq(stack, 1, ItemBelow) EXCEPT ![ItemBelow].targets =
                 Append(@, [fp |-> Top.fp,
                            refs |-> IF param_refs = None THEN <<>> ELSE param_refs])]
  /\ param_refs' = None
  /\ Record
  /\ UNCHANGED <<clocations, highest_normalize_param_id,
                 highest_extern_param_id, failed, trace, selects>>

\* The first entry with this fingerprint that no earlier item has matched.
Matching(fp) == {i \in 1..Len(Top.targets) : Top.targets[i].fp = fp}
First(S) == CHOOSE i \in S : \A j \in S : i <= j
Without(s, i) == SubSeq(s, 1, i - 1) \o SubSeq(s, i + 1, Len(s))

GroupBegin(fp) ==
  /\ ~failed /\ Under("select") /\ Top.phase # "order"
  /\ Room
  /\ LET below == [stack EXCEPT ![Len(stack)].phase = "group"]
         i == First(Matching(fp))
     IN  stack' =
           IF Matching(fp) = {} THEN Append(below, Item("group", fp, None))
           ELSE Append([below EXCEPT ![Len(stack)].targets = Without(@, i)],
                       Item("group", fp, Top.targets[i].refs))
  /\ UNCHANGED <<clocations, highest_normalize_param_id,
                 highest_extern_param_id, param_refs, failed, trace, items, selects>>

\* Mutation: one constant too few.
MatchesOneShort ==
  Top.fppr # None /\ Len(Top.fppr) = Len(clocations) - Top.prev + 1

\* Are the item's constants as many as what the entry has recorded?
Matches == Top.fppr # None /\ Len(Top.fppr) = Len(clocations) - Top.prev

\* Mutation: the numbers given to the item's constants are not given back.
GroupEndKeepsHighest ==
  /\ ~failed /\ Under("group") /\ HasNests
  /\ clocations' = IF Matches
                   THEN [i \in DOMAIN clocations |->
                           IF i > Top.prev THEN Top.fppr[i - Top.prev]
                           ELSE clocations[i]]
                   ELSE clocations
  /\ stack' = SubSeq(stack, 1, ItemBelow)
  /\ Record
  /\ UNCHANGED <<highest_normalize_param_id, highest_extern_param_id, param_refs,
                 failed, trace, selects>>

\* Mutation: they are given back, but the constants keep them.
GroupEndKeepsNumbers ==
  /\ ~failed /\ Under("group") /\ HasNests
  /\ highest_normalize_param_id' =
       IF Matches THEN highest_normalize_param_id - Len(Top.fppr)
       ELSE highest_normalize_param_id
  /\ stack' = SubSeq(stack, 1, ItemBelow)
  /\ Record
  /\ UNCHANGED <<clocations, highest_extern_param_id, param_refs, failed, trace,
                 selects>>

GroupEnd ==
  /\ ~failed /\ Under("group") /\ HasNests
  /\ IF Matches
     THEN /\ clocations' = [i \in DOMAIN clocations |->
                              IF i > Top.prev THEN Top.fppr[i - Top.prev]
                              ELSE clocations[i]]
          /\ highest_normalize_param_id' =
               highest_normalize_param_id - Len(Top.fppr)
     ELSE UNCHANGED <<clocations, highest_normalize_param_id>>
  /\ stack' = SubSeq(stack, 1, ItemBelow)
  /\ Record
  /\ UNCHANGED <<highest_extern_param_id, param_refs, failed, trace, selects>>

\* check_stack_depth raises an error on the way into a node: the call fails, and
\* the workspace goes with its memory context.
Fail ==
  /\ ~failed
  /\ failed' = TRUE
  /\ stack' = <<>> /\ clocations' = <<>> /\ highest_normalize_param_id' = 1
  /\ highest_extern_param_id' = 0 /\ param_refs' = None
  /\ trace' = <<>> /\ items' = <<>> /\ selects' = 0

Next ==
  \/ RecordConstLocation \/ \E n \in Numbers : ParamRef(n)
  \/ SelectBegin \/ SelectEnd \/ TargetEnd \/ GroupEnd \/ Fail
  \/ \E fp \in Fingerprints : TargetBegin(fp) \/ GroupBegin(fp)

Spec == Init /\ [][Next]_vars

-----------------------------------------------------------------------------
(* Properties. *)

\* The new parameters are numbered without gaps: each number up to the highest
\* one replaces some constant, and no constant has a number that will be given
\* to another one.
NumbersAreDense ==
  {-clocations[i] : i \in {j \in DOMAIN clocations : clocations[j] < 0}}
    = 1..(highest_normalize_param_id - 1)

\* A new parameter, whose number comes after the highest $n, never captures a
\* $n of the query, wherever in the query that one is.
NewParamsAreNew ==
  \A i \in DOMAIN clocations, j \in DOMAIN trace :
    clocations[i] < 0 => highest_extern_param_id - clocations[i] # trace[j]

Consts(item) == (item.prev + 1)..item.last
Of(kind, id) == {i \in DOMAIN items : items[i].kind = kind /\ items[i].id = id}

\* Item g of a GROUP BY has the fingerprint of an entry t of the target list.
Alike(g, t) ==
  /\ items[t].kind = "target" /\ items[g].kind = "group"
  /\ items[t].id = items[g].id /\ items[t].fp = items[g].fp

\* Two constants share a new parameter, or a constant becomes one of the query's
\* own parameters, only where a GROUP BY item has taken over the numbers of a
\* like entry of the target list of its SELECT.
SharingIsIntended ==
  /\ \A a, b \in DOMAIN clocations :
       a < b /\ clocations[a] = clocations[b] /\ clocations[a] < 0 =>
         \E t, g \in DOMAIN items :
           Alike(g, t) /\ a \in Consts(items[t]) /\ b \in Consts(items[g])
  /\ \A b \in DOMAIN clocations : clocations[b] >= 0 =>
       \E t, g \in DOMAIN items :
         /\ Alike(g, t) /\ b \in Consts(items[g])
         /\ \E i \in DOMAIN items[t].text : items[t].text[i] = clocations[b]

\* g repeats t, and there is no other item either could be matched with.
Repeats(g, t) ==
  /\ Alike(g, t) /\ items[t].text = items[g].text
  /\ \A i \in Of("target", items[g].id) : items[i].fp = items[g].fp => i = t
  /\ \A i \in Of("group", items[g].id) : items[i].fp = items[g].fp => i = g

SameNumbers(g, t) ==
  \A a \in Consts(items[t]), b \in Consts(items[g]) :
    a - items[t].prev = b - items[g].prev => clocations[a] = clocations[b]

\* A GROUP BY item that repeats a target list entry gets the parameters of that
\* entry, if its leaves are constants and it has no sub-SELECT with a target
\* list.
GroupByFollowsTarget ==
  \A g, t \in DOMAIN items :
    /\ Repeats(g, t)
    /\ \A i \in DOMAIN items[g].text : items[g].text[i] = Const
    /\ Nests[items[g].fp] # "select"
    => SameNumbers(g, t)
=============================================================================
