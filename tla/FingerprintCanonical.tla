------------------------ MODULE FingerprintCanonical ------------------------
(***************************************************************************)
(* What a fingerprint stands for: a reference definition of the strings    *)
(* that a parse tree is hashed to, with sets in place of the lists that    *)
(* are sorted, and no depth; trees are cut off before.                     *)
(***************************************************************************)
EXTENDS Fingerprint, SequencesExt

Ignored == Node(Nil, <<>>, <<>>)

RECURSIVE Pruned(_, _)
Pruned(x, depth) ==
  IF x = Nil \/ x = ListOf(<<Nil>>) THEN x
  ELSE IF depth >= DepthLimit THEN Ignored
  ELSE CASE x.is = "list" ->
              ListOf([i \in 1..Len(x.items) |-> Pruned(x.items[i], depth + 1)])
         [] x.is = "node" ->
              [x EXCEPT !.fields =
                 [i \in 1..Len(x.fields) |->
                    [x.fields[i] EXCEPT !.value = Pruned(@, depth + 1)]]]
         [] OTHER -> x

\* A relation by what it is known as in a query: in SELECT and DML its alias,
\* if it has one, stands for the name, and the schema does not count.
KnownAs(rv, place) ==
  LET dml == place \in DmlPlaces
      aliases == "IGNORE_ALIASES" \notin options
  IN  [rv EXCEPT
        !.alias = IF aliases THEN @ ELSE Nil,
        !.name = IF dml /\ aliases /\ rv.alias # Nil THEN "any" ELSE @,
        !.schema = IF dml /\ "INCLUDE_SCHEMA" \notin options THEN Nil ELSE @]

RECURSIVE Canonical(_, _, _, _)
Canonical(x, parent, field, how) ==
  LET Item(y) == Canonical(y, parent, field, "node")
      Value(f) == Canonical(f.value, x.type, f.name, f.how)
      IsNil(f) == f.how = "list" /\ f.value.is = "list" /\ f.value.items = <<Nil>>
      Part(f) == IF f.value = Nil \/ (Value(f) = <<>> /\ ~IsNil(f)) THEN <<>>
                 ELSE <<f.name>> \o Value(f)
  IN  IF x = Nil \/ x = Ignored THEN <<>>
      ELSE
        CASE x.is = "rangevar" ->
               Opening(KnownAs(x, <<parent, field>>), parent, field, how)
          [] x.is = "node" ->
               Opening(x, parent, field, how)
                 \o FlattenSeq([i \in 1..Len(x.fields) |-> Part(x.fields[i])])
          [] x.is = "list" /\ field \in SortedFields ->
               FlattenSeq(SetToSortSeq({Item(x.items[i]) : i \in 1..Len(x.items)},
                                       Before))
          [] OTHER -> FlattenSeq([i \in 1..Len(x.items) |-> Item(x.items[i])])

ParentOf(x, path) == IF Above(x, path) = {} THEN Nil ELSE Owner(x, path).type

-----------------------------------------------------------------------------
(* Properties. *)

\* The fingerprint of a tree is that of the set of items wherever a list is
\* sorted, so that neither order nor repetition nor the cache shows in it; of a
\* relation only what it is known as counts; a value that emits nothing leaves
\* no field name; and of a tree deeper than the limit it is the fingerprint of
\* the tree cut off there, no more and no less.  The tokens that are printed are
\* the strings that were hashed.
FingerprintIsCanonical ==
  stack = <<>> =>
    /\ contexts[1] = Canonical(Pruned(tree, 0), Nil, Nil, "node")
    /\ tokens = contexts[1]

\* What is cached for a list are the fingerprints of its items alone, in order,
\* whatever the context had hashed before it got there: that is why the entry
\* may be used again in another context.
CacheIsOfTheList ==
  \A path \in DOMAIN listsort_cache :
    LET entry == listsort_cache[path]
    IN  /\ {entry[i].pos : i \in 1..Len(entry)} = 1..Len(At(path).items)
        /\ \A i \in 1..Len(entry) :
             /\ i > 1 => ~Before(entry[i].hash, entry[i - 1].hash)
             /\ entry[i].hash =
                  Canonical(Pruned(At(Append(path, entry[i].pos)), Len(path) + 1),
                            ParentOf(tree, path), FieldOf(tree, path), "node")
=============================================================================
