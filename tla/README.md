# TLA+ models of libpg_query

libpg_query takes the Postgres parser out of the server and makes it a C library:
parse, scan, split, normalize, fingerprint, summarize and deparse SQL without a
database. The parser itself is extracted Postgres code. The library's own work,
and the subject of this project, is everything around it:

* it runs server code, written for one process per connection, on any thread of
  any host: per-thread set-up and tear-down, memory contexts, `ereport(ERROR)`
  turned into result values, a stack limit that depends on the caller;
* it adds algorithms of its own over tokens and parse trees.

The library keeps no data between calls on purpose. Most of its mistakes would be
exactly that: state of one call, of one thread or of a failed call that is seen by
the next, or work done once too often because an error took another way.

## 1. Inventory

| Component | Source | State | Operations | Model |
|---|---|---|---|---|
| Thread lifecycle | `pg_query.c` | thread-local `pg_query_initialized`, `TopMemoryContext`, `CurrentMemoryContext`, `ErrorContext`, context freelist; the shared `pg_query_thread_exit_key` | init, exit, key destructor, enter and leave a call | `ThreadLifecycle` |
| Stack limit | `pg_query.c` 141-279, `stack_depth.c` | thread-local `max_stack_depth`, stack base | set and restore per call, `check_stack_depth` | `StackDepth` |
| API calls | all `pg_query_*.c` | exception stack, errordata stack, scanner settings, malloc'ed parts of results | the 13 API functions and their free functions | `ApiCall`, abstractly `ApiContract` |
| Splitter | `pg_query_split.c` | counters of two passes, the statement array | split with scanner | `Split` |
| Normalization, numbers | `pg_query_normalize.c` 317-628 | recorded constants, counters, `param_refs` | walk over the tree | `NormalizeWalk` |
| Normalization, text | `pg_query_normalize.c` 100-315 | lengths of constants, output buffer | fill in lengths, write text | `NormalizeText` |
| Summary | `pg_query_summary.c` | lists of CTE names, range vars, functions, columns; `save_filter_columns` | walk, resolution of range vars | `Summary` |
| Summary truncation | `pg_query_summary_truncate.c` | list of candidates, the tree that is cut down | truncate | `Truncate` |
| Fingerprint | `pg_query_fingerprint.c`, the generated `pg_query_fingerprint_defs.c` | hash states, tokens, list cache | hash a tree | `Fingerprint`, with its reference in `FingerprintCanonical`; its API call in `ApiCall` |
| Deparser, expressions | `postgres_deparse.c` 880-1070, 1370-1592, 3919-4253 | none | print an expression with the parentheses it needs | `DeparseExpr` |
| Deparser, layout and comments | `postgres_deparse.c` 340-760, 3410-3450, `pg_query_deparse.c` | parts, groups and nesting levels; comments emitted | collect comments, give them to statements, lay out, emit | `DeparseLayout`; its API call in `ApiCall` |
| PL/pgSQL | `pg_query_parse_plpgsql.c` | list of statements | find functions, compile | its API call in `ApiCall` |
| Protobuf and JSON | `pg_query_outfuncs_*`, `pg_query_readfuncs_*` | upb arena | encode, decode | arena lifetime in `ApiCall` |
| Statement types | `pg_query_summary_statement_type.c` | a list | one switch | not modelled |
| Postgres, upb, xxhash | `src/postgres`, `vendor` | | | not modelled: inputs of the models |

How they interact: every API function enters a memory context and the stack check
(thread lifecycle, stack limit), runs the parser or scanner and one of the
algorithms under `PG_TRY`, copies what outlives the call into malloc'ed memory and
leaves the context. Algorithms report failure only through `ereport(ERROR)`, which
jumps to the innermost `PG_TRY`. Threads share nothing but the heap and one static
variable. There is no I/O, no persistence and no waiting.

What is hard to test here, by component (PROJECT.json lists each with its line):

* threads racing through their first call, key tables that run full, tear-down
  that can be started twice;
* an error at any of several operations, jumping over frames that own memory;
* thread-local settings that survive a failed call and are read by a later one;
* two passes over one input that have to agree, with an unsigned counter between;
* constants recorded in tree order and replaced in text order, into a buffer that
  was sized before;
* names that mean different things in different scopes, resolved after the scopes
  are gone;
* items hashed on their own and in order, under a cache that must not depend on
  where it was filled;
* pointers into a tree that earlier rounds of the same loop have changed, and limits
  compared as different integer types;
* a text that has to mean what it was printed from: parentheses, blanks, and comments
  whose end is the end of a line.

## 2. Modules

Each component's module has its state as variables, one action per operation or
loop iteration, and its properties at the end. `MC*` modules give the constants
values for TLC, `*Proofs` modules hold the theorems. Definitions whose comment
begins with "Mutation:" are variants of the definition below them with a plausible
bug; no specification uses them, they show that a property is sensitive to the code
it is about.

**ThreadLifecycle.** Threads are slots that are spawned and gone, any number of
times. The first call is split where another thread can get in between: contexts
(`InitContexts`), `pthread_key_create` (`KeyCreate`, `KeyCreateFails`: the result is
not checked), the store into the shared variable (`KeyStore`) and the read of it
for `pthread_setspecific` (`Bind`). `CallEnter`, `Ereport` and `CallExit` use the
freelist of `aset.c`; `Exit` and `Destructor` run the same clean-up. A use of freed
or missing memory is recorded in `fault`. The host may own keys as well, key 0
included. `ExitCallers` and `ReuseAfterExit` say what the host does with
`pg_query_exit`.

**StackDepth.** A call has a `headroom`, the stack left below its first frame. The
limit is computed as in `set_max_stack_depth` (slop, cap, and the early returns that
keep the old value). Recursion pushes up to `MaxFrames` between two checks; an
error takes `ErrorFrames` more. `get_lowest_stackaddr` is an input: a number or
`Unknown`. Nothing is assumed of the stacks that calls start with, in which order they
come or what they leave in `max_stack_depth`; an overflow ends the process. `Roomy` is
a call whose headroom `set_max_stack_depth` does not ignore. The names of this module
say `Stack`, so that one module can
hold the proofs about both halves of entering a call.

**ApiCall.** One thread, call after call. Every API function is a short program over
the operations that matter: enter, exit, try, parse, scan, walk, encode, malloc,
free, and the test of `result.error`; the actions run it. What an operation does
with an input (`Parses`, `Scans`, `WalkError`, `Encodes`, `Compiles`) is a constant.
`Throw` unwinds to the innermost handler; `CatchReport`, `CatchSwallow` and
`CatchRethrow` are the three kinds of `PG_CATCH` in the code. `known` is what a live
variable still points to: it goes back to what the catching frame had, which is how
a block gets lost. The redirection of stderr is left out: `pg_query_internal.h`
always defines `DEBUG`, so that it is never compiled.

**ApiContract.** What a host is promised: it asks, the library answers with a payload
or an error, and the answer is discarded; all that may stay behind is the parser's
`mode`. `ApiCall` implements it (`KeepsContract`) under the mapping `phase` = idle, busy
or answered by where the call's program is, `mode` = the settings, `answer` = which of
payload and error the result has. Two clauses of it say what one would not expect:
`mode` is not the default after a call whose input did not parse, and PL/pgSQL
(`Partial`) answers with both a payload and an error.

**Split.** `pg_query_split_with_scanner`, one token per step, over the token classes
the loop tells apart, with `open_parens` as the unsigned counter it is
(`Wrap` = 2^32 in the code). The definitions in the second part (`Ends`, `IsStmt`)
say what a statement is without a pass: they are the reference.

**NormalizeWalk.** `const_record_walker`. The tree is discovered as it is walked: each
step picks the next leaf or clause. `trace` and `items` are history variables that
remember the query for the properties; in `trace`, a `$n` is its number, which may be
0, and a constant is `Const`.

**NormalizeText.** The sort, the loop that lexes up to each constant and the loop that
writes the text. `out` is a history of the pieces copied.

**Summary.** A tree is the sequence of its nodes in walk order with the end of each
subtree, so that the recursive walk becomes a cursor. `SelectStmt` jumps to the
WHERE clause for the first pass, `EndFilterPass` comes back from it, early if a
sub-SELECT returns true. Utility statements come as "ddl" (relations, and a query or
an expression), "drop" and "naming" (GRANT, RENAME, CREATE FUNCTION); the functions the
latter two name are nodes, of kind "name", and so is what the walk does not enter:
RETURNING clauses, and the "unwalked" parts of utility statements for which the code has
no case (`Closed`). A property can therefore see what the lists lack. `Sees` and `RefersToCte` are SQL's scope rules, the
reference. `IsTree` says which sequences are trees; `StandsRight` is what of the
grammar the walk relies on: writing statements and RETURNING are not part of an
expression, and a WHERE clause is one field, so that a search of it for columns meets
no gap, and no statement but a SELECT.

**Fingerprint.** The recursion of `_fingerprintNode` and `_fingerprintList` as a stack
of frames; each list item that is hashed opens a context. A hash is the sequence of
strings that went into it, and hashes are ordered by a constant `Before`: there are
no collisions in the model, and no two different sequences of strings run together.
`pg_qsort` may leave items with equal hashes in any order (`Sortings`).
A node has scalars, which come before its fields, and fields of the three kinds the
generator tells apart; the rules about relation names, aliases and schemas are those
of `_fingerprintRangeVar`.

**FingerprintCanonical.** What the walk ought to hash, without a walk, a cache or an
order: `Pruned` is the tree cut off at the limit and `Canonical` its strings, with sets
in place of sorted lists. It is apart because these definitions are RECURSIVE, and
nothing could be proved about a module with them.

**Truncate.** A query is its clauses with their nesting, kinds and lengths in bytes
and characters; deparsing it is adding up what is visible. `ClauseLength` is the
length of a clause's text, `MeasuredLength` what the code takes for it: the INSERT that
`cols_len` deparses has an OVERRIDING clause of 22 bytes that is not subtracted. One
action is one round of `apply_truncations`. Equal truncations come in any order, since `list_sort` is not
stable. Left out: `SELECT WHERE "…"` written by the user, and names that contain the
ellipsis, which `global_replace` would shorten as well.

**DeparseExpr.** The functions that decide about parentheses are translated as they
are, over one operator for each row of the precedence table, SIMILAR TO with and
without ESCAPE and AT LOCAL among them. What reads the text back
is an operator-precedence parser with the precedences of `gram.y` (external): its
actions shift and reduce like bison's tables do, non-associative rows included.
The texts of 12,748 expressions were compared with the library's, and 44,135 were
sent through its parser and back, when this module was written.

**DeparseLayout.** Comments are collected from the tokens, given to the statements and
written before the node behind them. The functions for the node types are abstracted
to any sequence of layout calls: each node once in any order, with commas, parts,
groups and levels in between. Text is words, brackets, comments, blanks and newlines,
each of length 1; indentation counts for the line length but is not written. A line
comment of the input ends with a newline or with a bare carriage return, which the code
does not count as one.

## 3. Runs

Passing runs:

| Run | Bounds | Shows |
|---|---|---|
| `enter_call`: memory | 3 threads, 4 keys, 1 of the host | no invalid use or free of a context (`MemorySafe`), nothing left of a thread that is gone (`NoLeakAfterThreadExit`), nothing stored under a key that is not the library's (`OnlyLibraryKeysBound`). Two workers are enough to race for the variable; slots are reused, so the four keys run out. |
| `enter_call`: stack | units of 100 kB, nine headrooms | a call with stack for the slop and the default limit gets a limit that leaves the slop free (`LimitLeavesSlop`), and does not overflow between two checks or in the error path (`NoStackOverflow`), whatever the calls before it left. Headrooms are one of unknown size, two that are ignored (below the slop, and just the default limit above it), the smallest that is not, and both sides of the cap. |
| `api_calls` | 13 functions, 7 inputs, 8 sets of options | `CallsSetTheirOptions`: calls through `pg_query_raw_parse` are decided by their own options; `NoFatalError`, `CleanBetweenCalls`, `ReturnedBlocksReachable`, `OnlyCommentsErrorLeaks`, the refinement `KeepsContract`, and `EveryCallReturns`. One input for each way a call can go; calls repeat without bound, since a call's end state is that of its beginning. |
| `split` | all token sequences up to 5, counter modulo 6 | `FillsWithinArray`, and that the result is the reference's (`SplitsIntoStatements`, `BalancedInputIsCovered`); a scanner error comes before the array is there (`ErrorsBeforeAllocation`). Five tokens hold nesting, an empty and a second statement, and underflow. |
| `normalize` | 4 leaves, 2 SELECTs, 4 items, three fingerprints | `NumbersAreDense`, `NewParamsAreNew`, `SharingIsIntended` and `GroupByFollowsTarget`. Two SELECTs nest; four items give two targets and two GROUP BY items that compete. The one `$n` is `$1`; with `$0` as well the run is the same but takes 19 million states, so it is kept out of the configuration. |
| `normalize_text` | 4 tokens of 1 or 2 bytes, up to 3 records | `WithinBuffer`, `ConstantsReplaced`. Records come in any order and twice; numbers reach ten digits. For one query the records and the minus signs are arbitrary, so that the scanner's end is hit and records overlap. |
| `summary`: lists | all trees of five growing steps in two families (scopes; WHERE clauses) and of four in two more (writing statements; utility statements) | `TablesAreRelationsIfClear`, `MentionsListedOnce`, `FilterColumnsOfWhere`, `FunctionsListed`. Five nodes hold a CTE inside a CTE of the same name with a reference in each; four a DROP FUNCTION with three functions, or an unwalked part with a call in it next to one that is walked. |
| `summary`: truncation | queries of up to four clauses at up to three depths, with multibyte text; limits from 0 to above the text, and -3 | `AppliedAreLive`, `ResultFits`, `RoundsShorten` (of the kinds of clauses whose length is misjudged, for those longer than what replaces them). The limits hit every length a text can get, and both sides of zero. |
| `fingerprint` | depth limit 6; trees with two nested sorted lists, relations in and out of DML, ignored and NULL items, paths to and beyond the limit; four sets of options | `FingerprintIsCanonical` against the reference, `CacheIsOfTheList`, `VisitsBounded` (the cache keeps the walk from being exponential), `NotFound` (no list is put into the cache twice). |
| `deparse`: expressions | all expressions of two levels over one operator per row of the precedence table, and three levels with one operand that is not a column; in the three contexts of the grammar | `RoundTrip`: the text is accepted, and as the expression that was printed. Whether a pair of parentheses is needed depends on a parent, a child and the operators beside them, which these hold. |
| `deparse`: layout | one statement with three layout calls, two statements with one; two levels, comments at any place, one ended by a carriage return; three sets of options, lines of 7 | `TextKept`, `CommentsKept`, `LineCommentsEnd`. Two statements are enough for a comment to fall between; 7 makes some parts fit and others not. |

`enter_call`, `summary` and `deparse` each have two components that are halves of one
thing and share no variable (`MCEnterCall`, `MCSummarize`, `MCDeparse`). Their
interleavings would show nothing new, so that each half is run with the other at rest.
That is why one of the two has a prefix in its names (`StackSpec`, `TruncateSpec`,
`ExprSpec`).

Deadlock is checked in `enter_call`, where the host can always go on unless an overflow
has ended the process, and in `api_calls`. The others model one call, which ends.

Four runs find what a comment says not to be so (PROJECT.json, `findings`,
quotes the lines). All but `stale_limit` were reproduced with the library:

| Run | Property | What happens |
|---|---|---|
| `stale_settings` | `CallsAreIndependent` | parser options of a failed call decide how later calls without options read their input; what does hold is `CallsSetTheirOptions` |
| `stale_limit` | `LimitFitsThisCall` | a call with less than slop and minimum left runs under the limit of an earlier call (`pg_query.c:242`); what does hold is `LimitLeavesSlop` |
| `column_lists` | `TruncationsShorten` | a short column list is replaced by a longer ellipsis: `INSERT INTO t (a) SELECT a` becomes `INSERT INTO t (...) ...` under a limit of 23; what does hold is `RoundsShorten` |
| `filter_columns` | `FilterColumnsSkipSubselects` | filter columns after a sub-SELECT are dropped: `SELECT 1 WHERE a AND (SELECT b WHERE c) AND d` has a and c, not d; what does hold is `FilterColumnsOfWhere` |

### Known deviations

The passing properties are stated under the conditions under which the code keeps
them. What happens outside of these conditions is read from the code, and was reproduced
with the library except for the leak:

| Where | What | Stated by |
|---|---|---|
| `pg_query.c:98` | `pg_query_exit` on a thread that later exits frees its contexts twice, and a call after it finds none; `pg_query.h:209` says nothing of it | `HostDiscipline` |
| `pg_query_split.c:72` | after one unbalanced parenthesis all later statements are lost, without an error | premise of `BalancedInputIsCovered` |
| `pg_query_normalize.c:525` | a GROUP BY item that repeats a target with a `$n` in it gets other parameters than the target | premise of `GroupByFollowsTarget` |
| `pg_query_summary.c:666` | a relation that shares its name with a CTE it cannot see is missing from the tables | premise of `TablesAreRelationsIfClear` |
| `pg_query_summary.c:465` | of DROP FUNCTION only the first function is listed: `DROP FUNCTION f, g` lists f | `DroppedLater` in `FunctionsListed` |
| `pg_query_raw_tree_walker_supports.c:102` | RETURNING clauses are not summarized: `T_ReturningClause` is not in the list, though its comment says that it has all that `raw_expression_tree_walker` handles; `INSERT INTO t VALUES (1) RETURNING f(a)` lists no function | "returning" in `Closed`, `Entered` in `FunctionsListed` |
| `pg_query_summary.c:292` | the source of a MERGE is not among the tables | `Recorded` |
| `pg_query_summary.c:308` | parts of utility statements that no case asks for are not summarized: the query of DECLARE CURSOR, defaults and CHECK constraints of CREATE TABLE and ALTER TABLE, actions of a rule, the function of a trigger, the WHERE clause of COPY, arguments of EXECUTE, bodies of functions, what DROP PROCEDURE names | "unwalked" in `Closed`, `Entered` in `FunctionsListed` |
| `pg_query_summary.c:260` | a function called in the WHERE clause of a SELECT is listed twice, unless it comes after a sub-SELECT | `FunctionsListed` |
| `pg_query_deparse.c:222` | the error of `pg_query_deparse_comments_for_query` is never freed | `OnlyCommentsErrorLeaks` |
| `pg_query_summary_truncate.c:96` | replacing a SET list or a DISTINCT target list can make the text longer: `UPDATE t SET a = 1 WHERE b = 1` becomes `UPDATE t SET ... = ... WHE...` under a limit of 29; so can replacing a column list (`column_lists`) | premise of `RoundsShorten` |
| `postgres_deparse.c:653` | with `pretty_print` and without `trailing_newline`, `SELECT 1 -- c` before a second statement swallows the semicolon and that statement | third case of `LineCommentsEnd` |
| `pg_query_deparse.c:195` | a line comment ended by a bare carriage return has no newline after it, and hides what is printed behind it: `SELECT a --c\r, b FROM t` | second case of `LineCommentsEnd` |
| `pg_query_deparse.c:38` | the comments of a query without statements are lost | `Queries` have a statement |
| `postgres_deparse.c:1006` | the negative constant of `XMLTABLE (... PASSING (-1) ...)` is printed without its parentheses, which does not parse | second case of `RoundTrip` |

**Fairness.** Only `ApiCall` states a liveness property. It assumes weak fairness of
`LibraryStep`: a thread that is inside the library keeps running. Nothing in the
library waits for anything, so that this is the fairness of the scheduler; the host
is not assumed to make another call. `EveryCallReturns` then says that no chain of
errors and handlers keeps a call from returning.

## 4. Proofs

| Theorem | Says | Assumes |
|---|---|---|
| `ThreadLifecycleProofs`: `TypeCorrect`, `MemorySafety`, `NoLeak`, `OnlyLibraryKeys` | the three properties of `enter_call` about memory, for any number of threads and keys | `HostDiscipline`; the key table has room for the host's keys and one per thread alive (`KeyTableAssumption`) |
| `ThreadLifecycleProofs`: `StackSafety`, `LimitLeavesSlopHolds` | of `StackDepth`, the other half of entering a call: no overflow and no stale limit in a call with room for the slop and the minimum, for any sizes and any calls before it, also ones with less | the slop covers the frames between two checks and the error (`SlopAssumption`) |
| `SplitProofs`: `ArraySafety`, `InOrder`, `SplitCorrect`, `NothingLost`, `SecondPassSucceeds` | the splitter computes the reference, and fails in the first pass or not at all, for every token sequence | fewer than 2^32 tokens (`InputsAssumption`); tokens take at least a byte (`LocAssumption`) |
| `NormalizeTextProofs`: `BufferSafety` | nothing is written past the buffer or read past the query, for any records, also ones no parser would give | tokens do not overlap (`QueriesAssumption`), numbers are ints |
| `NormalizeTextProofs`: `ConstantsReplacedHolds`, `LocationsKept` | each recorded constant is replaced once and all else is copied, once and in order, however the records are ordered and repeated; no step loses or invents a location | the same; `ConstantsReplaced` itself has the premise that the locations are those of constants |
| `ApiCallProofs`: `NoFatalErrorHolds`, `CleanBetweenCallsHolds`, `ReturnedBlocksReachableHolds`, `OnlyCommentsErrorLeaksHolds`, `CallsSetTheirOptionsHolds` | the five invariants of `api_calls`, for any inputs and any sequence of calls | nothing: `Parses`, `Scans`, `WalkError`, `Encodes` and `Compiles` are arbitrary, but for their types |
| `ApiCallProofs`: `LibraryKeepsContract` | `ApiCall` implements `ApiContract`: initial states map to initial states, steps to steps or stutters | the same |
| `NormalizeWalkProofs`: `NumbersAreDenseHolds`, `NewParamsAreNewHolds` | the numbers of the new parameters have no gaps, and none is a $n of the query, for every query | the n of each $n is a natural number, 0 included (`NumbersAssumption`): the scanner's `param` rule; expressions with one fingerprint have the same kind of sub-SELECTs (`Nests`), which is so above the depth limit of fingerprints |
| `NormalizeWalkProofs`: `SharingIsIntendedHolds`, `GroupByFollowsTargetHolds` | constants share a number only between a GROUP BY item and a like entry of its target list; and they do share it if the item repeats the entry and both have constants only, for every query | the same |
| `FingerprintProofs`: `WalkIsBounded`, `ListsCachedOnce` | a place is walked at most once, and once more for each sorted list around it; no list is cached twice. For every tree and set of options | nothing about trees, the limit, which fields are sorted or the order of hashes |
| `SummaryProofs`: `MentionsListedOnceHolds`, `TablesAreRelationsIfClearHolds`, `FilterColumnsOfWhereHolds`, `FunctionsListedHolds` | the four invariants of `summary` about the lists, for trees of any size and nesting | what the grammar puts where (`TreesAssumption`, with `IsTree` and `StandsRight`) |
| `TruncateProofs`: `RoundsAreNotWasted`, `OuterSurvives`, `ResultFitsHolds` | no round works on a clause that is gone, deeper clauses go first, and the result is within the limit, for every query and limit | a clause inside of another belongs to a node below it (`QueriesAssumption` of `Truncate`); a limit is an int, and a `size_t` has more values (`LimitsAssumption`) |

The type invariant of each of these modules is part of its inductive invariant, and
in five of them a theorem of its own (`TypeCorrect`, `StackTypeCorrect`,
`SplitTypeCorrect`, `TextTypeCorrect`, `TruncateTypeCorrect`). Each inductive invariant
is a theorem (`LifecycleInvariant`, `CallsFollowTheOutline`, `WalkKeepsNumbers`,
`WalkKeepsLists` and so on).

The inductive invariants, named `IndInv` (`DepthInv` for `StackDepth`); TLC has checked
them on the instances of the runs as well:

* *ThreadLifecycle.* What a thread owns by phase (`ThreadInv`), and `KeyInv`: the
  shared variable names a key of the library, or every key the library has created
  is still on its way into it. `MemorySafe` alone is not inductive: a step can only
  be shown safe if the pointers are known to lead to blocks that exist, and a
  destructor only runs once because exactly one key of the thread holds its context.
* *StackDepth.* The limit in force leaves the slop if the call has room for the slop and
  the minimum, what is used exceeds the limit by at most the frames between two checks,
  and only a call without that room has overflowed.
* *Split.* At every token the counters equal what the reference says of the text
  before it (`ScanMatches`, `CountMatches`, `FillMatches`, `StartMatches`,
  `CoverMatches`). The key lemma is that the unsigned counter is the depth, or the
  depth plus 2^32, so that it is zero exactly when the depth is. The array bound
  follows because both passes count the same set, cut off at different places.
* *NormalizeText.* What has been written is at most ten bytes per constant longer
  than what has been read (`WrittenBound`). It rests on two lemmas: a symbol has at
  most eleven bytes (`SymbolLength`), and a constant that is replaced has at least
  one (`LengthsPositive`). The bound 10 per constant in the code is right only with
  the second.
  For `ConstantsReplaced`, `ResultInv` adds three parts: the records are in order once
  they are sorted; in the first loop the records before `i` have their lengths, and the
  scanner has not read past a constant that is still to be measured (`Measuring`: behind
  a minus sign it reads one token more, which is not the next constant, since a constant
  is recorded with its sign); in the second loop a byte has been copied exactly if it is
  before `quer_loc` and in no constant seen (`Writing`).
* *Truncate.* What has been applied is not less deep than what is pending, and nothing
  that is applied contains anything that is pending. That a clause inside of another
  is strictly deeper is the lemma it rests on: the nodes above the outer one are
  among those above the inner one, which has one more.
  For `ResultFits`, `Progress` adds that applied and pending truncations together are
  the ones generated, and that the rounds end with the first text that fits. The lengths
  themselves are opaque there: nothing is used of them but the comparison the code makes.
* *ApiCall.* A proof outline: for every point of every function's program, which
  contexts, handlers and malloc'ed blocks there are, which of the blocks a live variable
  knows, and what the settings are. The properties speak of the state between calls
  only; that nothing is left there follows from what the frames own in the middle, and
  from what a handler finds when an error jumps to it.
* *NormalizeWalk.* For every item that is under way, on whatever level of nested
  SELECTs: the parameters recorded within it have consecutive numbers from where the
  counter stood at its beginning, and no number that could be taken over was given out
  within it. Giving numbers back at the end of a GROUP BY item is right only because
  nobody has taken or given back a number in between. TLC checks it on the instance of
  `normalize`.
  The two results on sharing need the history of the items. `HistInv` orders it: the
  items that ended before an item began are of SELECTs met before it, and their constants
  come before its own; those that ended since are of SELECTs within it. `SlotInv` says
  where the lists of numbers are that a GROUP BY item may still take over, on whatever
  level (`InSlot`): each comes from an entry of the target list of its SELECT
  (`Origins`), no new number is in two of them or in one of them twice (`SlotsApart`,
  `SlotsDistinct`), and the list now being filled holds what its entry has recorded
  (`Remembers`). `GroupInv` gives the other direction: an entry of a SELECT still has a
  like list waiting, or a like GROUP BY item has come (`Awaiting`).
* *Fingerprint.* `VisitsBounded` is not inductive: how often a place is walked depends
  on how often the one above it is, and on what the calls under way have still to do.
  `Balanced` relates the two, and every step keeps it: the visits of a place, with the
  one that a call under way has still to make, are at most the visits of the place above
  it, plus one if that is a list in the cache. The bound of a place then follows from
  that of the one above. `StackInv` says what the calls under way are: each is one place
  below the one before it, and one that hashes items has a list that is sorted and not
  in the cache.
* *Summary.* The walk is one cursor and the search of a WHERE clause another. For every
  node, `Passed` and `Searched` say which has been there, and each list is a function of
  the two (`FunctionsSoFar`, `NamesSoFar`, `ColumnsSoFar`, `RangeVarsSoFar`, `CtesSoFar`,
  `TablesSoFar`). `OneSearch` is the lemma that counts: no node is reached by the
  searches of two clauses, since the outer one ends at the inner SELECT. The tables then
  follow from two facts: whoever sees a CTE is met after it, and a self reference is
  kept if the name is nobody else's.

`LeastOf` of `SummaryProofs` is how induction over nodes and list positions is done: the
library's theorem that < on the naturals is well-founded (`WFMin`) takes a set and no
operator, so that a least counterexample can be picked and refuted.

Checked by TLC only:

* everything about time: `EveryCallReturns`, and the fairness that the abstract
  specification of `KeepsContract` states (its safety part is `LibraryKeepsContract`);
* `RoundsShorten`, which compares two sums over sets of clauses: what a fold computes for
  every input needs induction over an operator;
* `FingerprintIsCanonical` and `CacheIsOfTheList`, and all of `DeparseExpr` and
  `DeparseLayout`: their definitions are RECURSIVE operators over trees and layouts, and
  what such an operator computes needs induction over its argument.

## 5. Not modelled

* raw_parser, the scanner and the tree walkers of Postgres: inputs of the models.
* Generated code: the field by field functions for JSON and protobuf have no state but
  an output buffer; those of the fingerprint are modelled by their pattern, not one by
  one. The functions of the deparser that print a node type other than an expression
  are in no model; the repository's tests check them by round trip.
* The hash function: two different sequences of strings are two different hashes.
* Token names, statement types, JSON escaping: tables.
* Out of memory: malloc's result is mostly not checked, so that it ends the process.

## 6. Plan

Done: the modules above, in the order in which a call meets them, then the algorithms
over trees (fingerprint, truncation, deparser), and the contract of a call. Next:

1. PL/pgSQL's `stmts_walker`, which swallows errors, with the functions it loses.
2. Statement types of the summary, with the walk they come from.
