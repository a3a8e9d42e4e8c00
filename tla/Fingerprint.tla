----------------------------- MODULE Fingerprint -----------------------------
(***************************************************************************)
(* The fingerprint of a parse tree: a hash over the strings that a         *)
(* recursive walk emits.  The items of certain lists are first hashed one  *)
(* by one, each into a context of its own, and emitted in the order of     *)
(* their hashes without repetitions; the order is kept in a cache that     *)
(* all contexts share, since every such list is walked more than once.     *)
(* A field whose value emits nothing leaves no trace.                      *)
(*                                                                         *)
(* The recursion is a stack of frames here, a hash is the sequence of      *)
(* strings that went into it, and Before is the order of the hash values.  *)
(***************************************************************************)
EXTENDS Naturals, Sequences, FiniteSets, FiniteSetsExt

CONSTANTS
  Trees,          \* parse trees
  Nil,            \* a NULL pointer
  OptionSets,     \* sets of fingerprint options to call with
  DepthLimit,     \* 100 in the code
  SortedFields,   \* the fields whose lists are sorted
  DmlPlaces,      \* <<type, field>>: where a RangeVar is in a DML context
  WithoutDigits(_),  \* a relation name without its runs of digits
  Before(_, _)    \* the order of hash values

ASSUME LimitAssumption == DepthLimit \in Nat \ {0}

(* A node has a type, the strings of its scalar fields, and fields that are  *)
(* nodes ("node"), nodes of one given type ("specific") or lists ("list").   *)
(* A node without a type is one that is ignored, like a constant.            *)
Node(type, scalars, fields) ==
  [is |-> "node", type |-> type, scalars |-> scalars, fields |-> fields]
ListOf(items) == [is |-> "list", items |-> items]
RangeVar(alias, schema, name, persistence) ==
  [is |-> "rangevar", alias |-> alias, schema |-> schema, name |-> name,
   persistence |-> persistence]
Field(name, how, value) == [name |-> name, how |-> how, value |-> value]

VARIABLES
  tree, options,
  stack,     \* frames of the recursion, innermost last
  contexts,  \* what each open FingerprintContext has hashed; the root's first
  tokens,    \* the tokens of the root context (write_tokens)
  listsort_cache,  \* for lists, by their place: the sorted items
  visits     \* history: how often each place of the tree was walked

vars == <<tree, options, stack, contexts, tokens, listsort_cache, visits>>

-----------------------------------------------------------------------------
(* Places in the tree. *)

Child(x, i) == IF x.is = "list" THEN x.items[i] ELSE x.fields[i].value

Descend(x, path) ==
  LET at[i \in 0..Len(path)] == IF i = 0 THEN x ELSE Child(at[i - 1], path[i])
  IN  at[Len(path)]
At(path) == Descend(tree, path)

Top == stack[Len(stack)]
Here == At(Top.path)
Below(i) == Append(Top.path, i)
Context == contexts[Len(contexts)]
Pop(s) == SubSeq(s, 1, Len(s) - 1)

\* A frame of _fingerprintNode: the place, the parent's type, the field and the
\* depth it was called with, the next child, what it is at, for a field that is
\* under way what had been hashed before, and for a list the items hashed so far.
Frame(path, parent, field, depth) ==
  [path |-> path, parent |-> parent, field |-> field, depth |-> depth,
   next |-> 1, mark |-> 0, phase |-> "start", sorted |-> <<>>]

\* The strings of a RangeVar; catalogname and inh, which are the same for all
\* relations here, are left out.
fingerprintRangeVar(rv, place) ==
  LET dml == place \in DmlPlaces
      aliased == rv.alias # Nil /\ "IGNORE_ALIASES" \notin options
  IN  (IF aliased THEN <<"aliasname", rv.alias>> ELSE <<>>)
        \o (IF rv.persistence = "t" \/ (dml /\ aliased) THEN <<>>
            ELSE <<"relname", IF "FULL_RELNAME" \in options THEN rv.name
                              ELSE WithoutDigits(rv.name)>>)
        \o <<"relpersistence", rv.persistence>>
        \o (IF rv.schema # Nil /\ (~dml \/ "INCLUDE_SCHEMA" \in options)
            THEN <<"schemaname", rv.schema>> ELSE <<>>)

\* What a call emits before it looks at any child.  A field of one given type
\* calls the function of the type directly, which does not emit its name.
Opening(x, parent, field, how) ==
  CASE x.is = "list" -> <<>>
    [] x.is = "rangevar" -> (IF how = "specific" THEN <<>> ELSE <<"RangeVar">>)
                              \o fingerprintRangeVar(x, <<parent, field>>)
    [] OTHER -> (IF how = "specific" THEN <<>> ELSE <<x.type>>) \o x.scalars

\* Mutation: the depth of a list does not count.
EnteredUnlimitedList(x, depth) ==
  /\ x # Nil
  /\ x.is # "list" => depth < DepthLimit
  /\ x.is = "node" => x.type # Nil

\* Is there anything to walk?  A node of an ignored type emits nothing at all.
Entered(x, depth) ==
  /\ depth < DepthLimit
  /\ x # Nil
  /\ x.is = "node" => x.type # Nil

\* _fingerprintString, for a sequence of strings.
Emitted(cs, strings) == [cs EXCEPT ![Len(cs)] = @ \o strings]

Visits(path) == IF path \in DOMAIN visits THEN visits[path] ELSE 0

\* _fingerprintNode is called for a place, with frames and contexts as given.
Call(frames, cs, toks, path, parent, field, how, depth) ==
  LET x == At(path)
      enters == Entered(x, depth)
      strings == IF enters THEN Opening(x, parent, field, how) ELSE <<>>
  IN  /\ stack' = IF enters THEN Append(frames, Frame(path, parent, field, depth))
                  ELSE frames
      /\ contexts' = Emitted(cs, strings)
      /\ tokens' = IF Len(cs) = 1 THEN toks \o strings ELSE toks
      /\ visits' = IF enters
                   THEN [p \in DOMAIN visits \union {path} |->
                           IF p = path THEN Visits(p) + 1 ELSE visits[p]]
                   ELSE visits

Continue(frame) == [stack EXCEPT ![Len(stack)] = frame]

Init ==
  /\ tree \in Trees
  /\ options \in OptionSets
  /\ stack = <<Frame(<<>>, Nil, Nil, 0)>>
  /\ contexts = <<Opening(tree, Nil, Nil, "node")>>
  /\ tokens = contexts[1]
  /\ listsort_cache = <<>>
  /\ visits = [path \in {<<>>} |-> 1]

-----------------------------------------------------------------------------
(* The generated functions, one for each node type: field after field. *)

InNode(phase) == stack # <<>> /\ Here.is = "node" /\ Top.phase = phase
TheField == Here.fields[Top.next]

\* Is the field walked?  A field of one given type has the depth limit here,
\* since its function is called without _fingerprintNode.
Present(f) ==
  /\ f.value # Nil
  /\ f.how = "list" => f.value.items # <<>>
  /\ f.how = "specific" => Top.depth + 1 < DepthLimit

SkipField ==
  /\ InNode("start")
  /\ Top.next <= Len(Here.fields) /\ ~Present(TheField)
  /\ stack' = Continue([Top EXCEPT !.next = @ + 1])
  /\ UNCHANGED <<tree, options, contexts, tokens, listsort_cache, visits>>

\* The state is copied, the name is emitted and the value walked.
BeginField ==
  /\ InNode("start")
  /\ Top.next <= Len(Here.fields) /\ Present(TheField)
  /\ Call(Continue([Top EXCEPT !.phase = "field", !.mark = Len(Context)]),
          Emitted(contexts, <<TheField.name>>),
          IF Len(contexts) = 1 THEN Append(tokens, TheField.name) ELSE tokens,
          Below(Top.next), Here.type, TheField.name, TheField.how, Top.depth + 1)
  /\ UNCHANGED <<tree, options, listsort_cache>>

\* Did the value emit anything?  A list of one NULL counts as if it had.
FieldIsEmpty ==
  /\ Len(Context) = Top.mark + 1
  /\ ~(TheField.how = "list" /\ TheField.value.items = <<Nil>>)

\* Mutation: the hash goes back to its copy, the token stays.
EndFieldKeepsToken ==
  /\ InNode("field")
  /\ contexts' = IF FieldIsEmpty
                 THEN [contexts EXCEPT ![Len(contexts)] = SubSeq(@, 1, Top.mark)]
                 ELSE contexts
  /\ stack' = Continue([Top EXCEPT !.next = @ + 1, !.phase = "start"])
  /\ UNCHANGED <<tree, options, tokens, listsort_cache, visits>>

\* The value has been walked: if it emitted nothing, the copy is put back.
EndField ==
  /\ InNode("field")
  /\ contexts' = IF FieldIsEmpty
                 THEN [contexts EXCEPT ![Len(contexts)] = SubSeq(@, 1, Top.mark)]
                 ELSE contexts
  /\ tokens' = IF FieldIsEmpty /\ Len(contexts) = 1 THEN Pop(tokens) ELSE tokens
  /\ stack' = Continue([Top EXCEPT !.next = @ + 1, !.phase = "start"])
  /\ UNCHANGED <<tree, options, listsort_cache, visits>>

NodeReturns ==
  /\ stack # <<>>
  /\ \/ Here.is = "rangevar"
     \/ InNode("start") /\ Top.next > Len(Here.fields)
  /\ stack' = Pop(stack)
  /\ UNCHANGED <<tree, options, contexts, tokens, listsort_cache, visits>>

-----------------------------------------------------------------------------
(* _fingerprintList. *)

InList(phase) == stack # <<>> /\ Here.is = "list" /\ Top.phase = phase

\* Mutation: the cache is not looked at.
ListBeginNoLookup ==
  /\ InList("start")
  /\ stack' = Continue(
       [Top EXCEPT !.phase = IF Top.field \notin SortedFields THEN "plain" ELSE "hash"])
  /\ UNCHANGED <<tree, options, contexts, tokens, listsort_cache, visits>>

\* Mutation: a list without sorting is looked up and sorted like the others.
ListBeginSortsAll ==
  /\ InList("start")
  /\ stack' = Continue(
       IF Top.path \in DOMAIN listsort_cache
       THEN [Top EXCEPT !.phase = "emit", !.sorted = listsort_cache[Top.path]]
       ELSE [Top EXCEPT !.phase = "hash"])
  /\ UNCHANGED <<tree, options, contexts, tokens, listsort_cache, visits>>

ListBegin ==
  /\ InList("start")
  /\ stack' = Continue(
       IF Top.field \notin SortedFields THEN [Top EXCEPT !.phase = "plain"]
       ELSE IF Top.path \in DOMAIN listsort_cache
       THEN [Top EXCEPT !.phase = "emit", !.sorted = listsort_cache[Top.path]]
       ELSE [Top EXCEPT !.phase = "hash"])
  /\ UNCHANGED <<tree, options, contexts, tokens, listsort_cache, visits>>

\* Mutation: the new context starts with what the outer one has hashed.
HashItemContinues ==
  /\ InList("hash") /\ Top.next <= Len(Here.items)
  /\ Call(Continue([Top EXCEPT !.phase = "item"]), Append(contexts, Context), tokens,
          Below(Top.next), Top.parent, Top.field, "node", Top.depth + 1)
  /\ UNCHANGED <<tree, options, listsort_cache>>

\* An item is walked in a context of its own, which shares the cache ...
HashItem ==
  /\ InList("hash") /\ Top.next <= Len(Here.items)
  /\ Call(Continue([Top EXCEPT !.phase = "item"]), Append(contexts, <<>>), tokens,
          Below(Top.next), Top.parent, Top.field, "node", Top.depth + 1)
  /\ UNCHANGED <<tree, options, listsort_cache>>

\* ... and the digest is kept with its position.
HashItemDone ==
  /\ InList("item")
  /\ stack' = Continue([Top EXCEPT !.next = @ + 1, !.phase = "hash",
                         !.sorted = Append(@, [hash |-> Context, pos |-> Top.next])])
  /\ contexts' = Pop(contexts)
  /\ UNCHANGED <<tree, options, tokens, listsort_cache, visits>>

compareFingerprintListsortItem(a, b) == Before(a.hash, b.hash)

\* pg_qsort: in order, but items with equal hashes come in any order.
Sortings(items) ==
  {s \in {[i \in 1..Len(items) |-> items[p[i]]] :
           p \in Bijection(1..Len(items), 1..Len(items))} :
     \A i \in 2..Len(items) : ~compareFingerprintListsortItem(s[i], s[i - 1])}

\* Mutation: the order is not remembered.
SortItemsNoCache ==
  /\ InList("hash") /\ Top.next > Len(Here.items)
  /\ \E sorted \in Sortings(Top.sorted) :
       stack' = Continue([Top EXCEPT !.phase = "emit", !.next = 1,
                                     !.sorted = sorted])
  /\ UNCHANGED <<tree, options, contexts, tokens, listsort_cache, visits>>

SortItems ==
  /\ InList("hash") /\ Top.next > Len(Here.items)
  /\ \E sorted \in Sortings(Top.sorted) :
       /\ stack' = Continue([Top EXCEPT !.phase = "emit", !.next = 1,
                                        !.sorted = sorted])
       /\ listsort_cache' =
            [p \in DOMAIN listsort_cache \union {Top.path} |->
               IF p = Top.path THEN sorted ELSE listsort_cache[p]]
  /\ UNCHANGED <<tree, options, contexts, tokens, visits>>

Duplicate ==
  /\ Top.next > 1
  /\ Top.sorted[Top.next - 1].hash = Top.sorted[Top.next].hash

SkipDuplicate ==
  /\ InList("emit") /\ Top.next <= Len(Top.sorted) /\ Duplicate
  /\ stack' = Continue([Top EXCEPT !.next = @ + 1])
  /\ UNCHANGED <<tree, options, contexts, tokens, listsort_cache, visits>>

EmitItem ==
  /\ InList("emit") /\ Top.next <= Len(Top.sorted) /\ ~Duplicate
  /\ Call(Continue([Top EXCEPT !.next = @ + 1]), contexts, tokens,
          Below(Top.sorted[Top.next].pos), Top.parent, Top.field, "node",
          Top.depth + 1)
  /\ UNCHANGED <<tree, options, listsort_cache>>

PlainItem ==
  /\ InList("plain") /\ Top.next <= Len(Here.items)
  /\ Call(Continue([Top EXCEPT !.next = @ + 1]), contexts, tokens,
          Below(Top.next), Top.parent, Top.field, "node", Top.depth + 1)
  /\ UNCHANGED <<tree, options, listsort_cache>>

ListReturns ==
  /\ \/ InList("emit") /\ Top.next > Len(Top.sorted)
     \/ InList("plain") /\ Top.next > Len(Here.items)
  /\ stack' = Pop(stack)
  /\ UNCHANGED <<tree, options, contexts, tokens, listsort_cache, visits>>

Next ==
  \/ SkipField \/ BeginField \/ EndField \/ NodeReturns
  \/ ListBegin \/ HashItem \/ HashItemDone \/ SortItems
  \/ SkipDuplicate \/ EmitItem \/ PlainItem \/ ListReturns

Spec == Init /\ [][Next]_vars

-----------------------------------------------------------------------------
(* Which lists a place is in. *)

\* The node of tree x that a place belongs to, and the field of it.
Above(x, path) ==
  {i \in 0..(Len(path) - 1) : Descend(x, SubSeq(path, 1, i)).is = "node"}
Owner(x, path) == Descend(x, SubSeq(path, 1, Max(Above(x, path))))
FieldOf(x, path) ==
  IF Above(x, path) = {} THEN Nil
  ELSE Owner(x, path).fields[path[Max(Above(x, path)) + 1]].name

\* The lists around a place whose items are hashed before they are emitted.
SortsItems(x, path) ==
  Descend(x, path).is = "list" /\ FieldOf(x, path) \in SortedFields
SortedAbove(x, path) ==
  {i \in 0..(Len(path) - 1) : SortsItems(x, SubSeq(path, 1, i))}

-----------------------------------------------------------------------------
(* Properties; the ones about what is hashed are in FingerprintCanonical. *)

\* The cache does what it is for: a place is walked once for the fingerprint and
\* once for each of the sorted lists around it, not twice for each of them
\* ("exponential runtime behavior").
VisitsBounded ==
  \A path \in DOMAIN visits :
    visits[path] <= 1 + Cardinality(SortedAbove(tree, path))

\* "Assert(!found)": a list gets into the cache once.  While its items are hashed,
\* which may sort any number of other lists, it is not there yet.
NotFound ==
  \A k \in 1..Len(stack) :
    stack[k].phase \in {"hash", "item"} => stack[k].path \notin DOMAIN listsort_cache
=============================================================================
