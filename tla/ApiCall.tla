------------------------------- MODULE ApiCall -------------------------------
(***************************************************************************)
(* One thread calling the API of libpg_query, call after call: the memory  *)
(* context of the call, PG_TRY / PG_CATCH, the scanner's settings, and the *)
(* malloc'ed blocks that outlive the call.                                 *)
(*                                                                         *)
(* Every API function is a short program over the same few operations, in  *)
(* the order the C function performs them; the actions below run it.  An   *)
(* ereport(ERROR) unwinds to the innermost PG_TRY (Throw, Catch).  What    *)
(* the input does is a constant of the model: whether it parses under      *)
(* given settings, whether a walk over its tree fails, and so on.          *)
(***************************************************************************)
EXTENDS Naturals, Sequences, FiniteSets

CONSTANTS
  Inputs,           \* query strings
  Options,          \* sets of parser options a caller may pass
  Apis,             \* API functions the host uses
  Parses(_, _),     \* does raw_parser accept an input under these settings?
  Scans(_, _),      \* does the scanner?
  WalkError(_),     \* "none", "stack" (too deep) or "unknown" (node type)
  Encodes(_),       \* does the protobuf encoder / decoder accept it?
  Compiles(_)       \* does PL/pgSQL compile its functions?

\* Settings are given by what is switched off: the PG_QUERY_DISABLE_* flags.
Settings == {"backslash_quote", "standard_conforming_strings",
             "escape_string_warning"}
Defaults == {}

ASSUME InputAssumption ==
  /\ Options \subseteq SUBSET Settings
  /\ \A q \in Inputs, s \in SUBSET Settings :
       /\ Parses(q, s) \in BOOLEAN /\ Scans(q, s) \in BOOLEAN
       /\ Parses(q, s) => Scans(q, s)
  /\ \A q \in Inputs : /\ WalkError(q) \in {"none", "stack", "unknown"}
                       /\ Encodes(q) \in BOOLEAN
                       /\ Compiles(q) \in BOOLEAN

-----------------------------------------------------------------------------
(* Operations, and the programs of the API functions. *)

Op(name) == [op |-> name, arg |-> "", skip |-> 0]
Malloc(b) == [op |-> "malloc", arg |-> b, skip |-> 0]
Free(b) == [op |-> "free", arg |-> b, skip |-> 0]
\* The result variable of the function that owns the innermost PG_TRY is
\* assigned: it survives the jump to that PG_CATCH.
Publish == Op("publish")
SkipIfError(n) == [op |-> "skip_if_error", arg |-> "", skip |-> n]

\* PG_TRY, body, PG_END_TRY; catch names what the PG_CATCH block does.
Try(catch, body) ==
  <<[op |-> "try", arg |-> catch, skip |-> Len(body) + 2]>> \o body
    \o <<Op("end_try")>>

\* A walk over the tree: a walker that knows every node type fails only for
\* lack of stack, raw_expression_tree_walker for an unknown node too.
Walk == Op("walk")
RawWalk == Op("raw_walk")

\* The settings are put back as the last step before the tree is returned.
raw_parse ==
  Try("report", <<Op("set_settings"), Op("parse"), Op("reset_settings"),
                  Malloc("stderr")>>)

nodes_to_protobuf ==
  <<Malloc("arena")>> \o Try("free_arena_rethrow", <<Walk>>)
    \o <<Op("encode_or_free"), Malloc("payload"), Free("arena")>>

protobuf_to_nodes ==
  <<Malloc("arena"), Op("encode_or_free")>>
    \o Try("free_arena_rethrow", <<Walk>>) \o <<Free("arena")>>

Call(body) == <<Op("enter")>> \o body \o <<Op("exit"), Op("return")>>

\* Mutation: the JSON output runs without a PG_TRY of its own.
ParseWithoutTry ==
  Call(raw_parse \o <<SkipIfError(2), Walk, Malloc("payload")>>)

pg_query_parse_opts ==
  Call(raw_parse \o <<SkipIfError(4)>>
         \o Try("report", <<Walk, Malloc("payload")>>))

pg_query_parse_protobuf_opts ==
  Call(raw_parse \o <<SkipIfError(9)>> \o Try("report", nodes_to_protobuf))

\* _fingerprintNode raises nothing but warnings.
pg_query_fingerprint_opts ==
  Call(raw_parse \o <<SkipIfError(1), Malloc("payload")>>)

\* Mutation: a lack of stack is swallowed like an unknown node type.
NormalizeSwallowsAll ==
  Call(Try("report",
           <<Op("parse")>> \o Try("swallow", <<RawWalk>>)
             \o <<Malloc("payload")>>))

\* The default case of const_record_walker has a PG_TRY of its own.
pg_query_normalize ==
  Call(Try("report",
           <<Op("parse")>> \o Try("swallow_unless_stack", <<RawWalk>>)
             \o <<Malloc("payload")>>))

pg_query_scan ==
  Call(Try("report_free_arena",
           <<Op("scan"), Malloc("arena"), Op("encode"), Malloc("payload"),
             Free("arena"), Malloc("stderr")>>))

pg_query_scan_tokens == Call(Try("report", <<Op("scan"), Malloc("payload")>>))

\* Both passes scan the whole input; the array is allocated in between.
pg_query_split_with_scanner ==
  Call(Try("report", <<Op("scan"), Malloc("payload"), Publish, Op("scan"),
                       Malloc("stderr")>>))

pg_query_split_with_parser ==
  Call(raw_parse \o <<SkipIfError(1), Malloc("payload")>>)

pg_query_deparse_protobuf ==
  Call(Try("report", protobuf_to_nodes \o <<RawWalk, Malloc("payload")>>))

\* pg_query_scan_tokens, then code outside of any memory context.
pg_query_deparse_comments_for_query ==
  <<Op("enter")>> \o Try("report", <<Op("scan"), Malloc("tokens")>>)
    \o <<Op("exit"), SkipIfError(2), Malloc("payload"), Free("tokens"),
         Op("return")>>

pg_query_is_utility_stmt ==
  Call(raw_parse \o <<SkipIfError(1), Malloc("payload"), Free("stderr")>>)

\* Two functions; a function that does not compile ends the loop, and the
\* functions collected so far are returned next to the error.
pg_query_parse_plpgsql ==
  Call(raw_parse \o <<SkipIfError(12)>>
         \o Try("swallow", <<RawWalk>>) \o <<Malloc("payload")>>
         \o Try("report", <<Op("compile")>>) \o <<SkipIfError(3)>>
         \o Try("report", <<Op("compile")>>) \o <<Free("stderr")>>)

pg_query_summary ==
  Call(Try("report",
           raw_parse \o <<SkipIfError(8)>>
             \o Try("free_stderr_rethrow", <<Walk>>)
             \o <<Publish, Malloc("arena"), Op("encode_or_free"), Malloc("payload"),
                  Free("arena")>>))

Programs ==
  [ parse            |-> pg_query_parse_opts,
    parse_protobuf   |-> pg_query_parse_protobuf_opts,
    fingerprint      |-> pg_query_fingerprint_opts,
    normalize        |-> pg_query_normalize,
    scan             |-> pg_query_scan,
    scan_tokens      |-> pg_query_scan_tokens,
    split_scanner    |-> pg_query_split_with_scanner,
    split_parser     |-> pg_query_split_with_parser,
    deparse          |-> pg_query_deparse_protobuf,
    deparse_comments |-> pg_query_deparse_comments_for_query,
    is_utility       |-> pg_query_is_utility_stmt,
    plpgsql          |-> pg_query_parse_plpgsql,
    summary          |-> pg_query_summary ]

ASSUME ApiAssumption == Apis \subseteq DOMAIN Programs

\* API functions with a parser_options parameter.
TakesOptions == {"parse", "parse_protobuf", "fingerprint", "summary"}

\* Mutation: stderr_buffer is forgotten.
ReleasedWithoutStderr(a) ==
  IF a = "deparse_comments" THEN {"payload"} ELSE {"error", "payload"}

\* What the matching pg_query_free_* function releases.
Released(a) ==
  IF a = "deparse_comments" THEN {"payload"} ELSE {"error", "stderr", "payload"}

-----------------------------------------------------------------------------
VARIABLES
  at,        \* "host", "running", "throwing" or "returned"
  api, input, options,   \* the call and its arguments
  pc,        \* next operation of the program
  settings,  \* __thread GUC variables of scan.c
  current,   \* CurrentMemoryContext: "top", "call" or "error"
  live,      \* does the call's memory context exist?
  handlers,  \* PG_exception_stack: the PG_TRY blocks that are open
  errors,    \* entries on elog.c's errordata stack
  thrown,    \* class of the error under way
  blocks,    \* malloc'ed blocks that nobody freed
  known,     \* those a live C variable or the result points to
  leaked,    \* <<api, block>>: blocks the host has no pointer to any more
  broken     \* what went wrong for good: "none", "fatal", "lost_block"

call == <<api, input, options>>
vars == <<at, api, input, options, pc, settings, current, live, handlers,
          errors, thrown, blocks, known, leaked, broken>>

\* elog.c: PANIC for an error when ERRORDATA_STACK_SIZE entries are in use.
ErrorStackSize == 5

Init ==
  /\ at = "host"
  /\ api \in Apis /\ input \in Inputs /\ options \in Options
  /\ pc = 1
  /\ settings = Defaults
  /\ current = "top" /\ live = FALSE
  /\ handlers = <<>> /\ errors = 0 /\ thrown = "none"
  /\ blocks = {} /\ known = {} /\ leaked = {}
  /\ broken = "none"

Instruction == Programs[api][pc]
Running(op) == at = "running" /\ broken = "none" /\ Instruction.op = op
Step == pc' = pc + 1

-----------------------------------------------------------------------------
(* The host. *)

CallApi(a, q, o) ==
  /\ at = "host" /\ broken = "none"
  /\ a \notin TakesOptions => o = Defaults
  /\ at' = "running" /\ api' = a /\ input' = q /\ options' = o /\ pc' = 1
  /\ UNCHANGED <<settings, current, live, handlers, errors, thrown, blocks,
                 known, broken, leaked>>

\* The host passes the result to pg_query_free_*, and forgets it.
FreeResult ==
  /\ at = "returned" /\ broken = "none"
  /\ at' = "host"
  /\ leaked' = leaked \union
                 {api} \X (blocks \ (known \intersect Released(api)))
  /\ blocks' = {} /\ known' = {}
  /\ UNCHANGED <<call, pc, settings, current, live, handlers, errors, thrown,
                 broken>>

-----------------------------------------------------------------------------
(* The library. *)

\* Mutation: the context of the call is left current.
ExitStaysInCall ==
  /\ Running("exit")
  /\ live' = FALSE
  /\ Step
  /\ UNCHANGED <<at, call, settings, current, handlers, errors, thrown, blocks,
                 known, broken, leaked>>

\* pg_query_enter_memory_context
Enter ==
  /\ Running("enter")
  /\ current' = "call" /\ live' = TRUE
  /\ Step
  /\ UNCHANGED <<at, call, settings, handlers, errors, thrown, blocks, known,
                 broken, leaked>>

\* pg_query_exit_memory_context
Exit ==
  /\ Running("exit")
  /\ current' = "top" /\ live' = FALSE
  /\ Step
  /\ UNCHANGED <<at, call, settings, handlers, errors, thrown, blocks, known,
                 broken, leaked>>

Return ==
  /\ Running("return")
  /\ at' = "returned"
  /\ UNCHANGED <<call, pc, settings, current, live, handlers, errors, thrown,
                 blocks, known, broken, leaked>>

\* PG_TRY saves PG_exception_stack and what the frame's variables point to.
TryBegin ==
  /\ Running("try")
  /\ handlers' = Append(handlers,
       [catch |-> Instruction.arg, resume |-> pc + Instruction.skip,
        context |-> current, known |-> known])
  /\ Step
  /\ UNCHANGED <<at, call, settings, current, live, errors, thrown, blocks,
                 known, broken, leaked>>

\* PG_END_TRY restores the outer PG_exception_stack.
TryEnd ==
  /\ Running("end_try")
  /\ handlers' = SubSeq(handlers, 1, Len(handlers) - 1)
  /\ Step
  /\ UNCHANGED <<at, call, settings, current, live, errors, thrown, blocks,
                 known, broken, leaked>>

\* Mutation: options are only switched off, and only reset takes them back.
SetSettingsAdds ==
  /\ Running("set_settings")
  /\ settings' = settings \union options
  /\ Step
  /\ UNCHANGED <<at, call, current, live, handlers, errors, thrown, blocks,
                 known, broken, leaked>>

\* pg_query_raw_parse turns parser_options into the scanner's settings ...
SetSettings ==
  /\ Running("set_settings")
  /\ settings' = options
  /\ Step
  /\ UNCHANGED <<at, call, current, live, handlers, errors, thrown, blocks,
                 known, broken, leaked>>

\* Mutation: the options are left behind.
ResetForgotten ==
  /\ Running("reset_settings")
  /\ Step
  /\ UNCHANGED <<at, call, settings, current, live, handlers, errors, thrown,
                 blocks, known, broken, leaked>>

\* ... and puts the defaults back after raw_parser has returned.
ResetSettings ==
  /\ Running("reset_settings")
  /\ settings' = Defaults
  /\ Step
  /\ UNCHANGED <<at, call, current, live, handlers, errors, thrown, blocks,
                 known, broken, leaked>>

\* Does the operation raise an error for input q under settings s, and of which
\* class?
Raises(op, q, s) ==
  CASE op = "parse"          -> IF Parses(q, s) THEN "none" ELSE "error"
    [] op = "scan"           -> IF Scans(q, s) THEN "none" ELSE "error"
    [] op = "walk"           -> IF WalkError(q) = "stack" THEN "stack" ELSE "none"
    [] op = "raw_walk"       -> WalkError(q)
    [] op = "encode"         -> IF Encodes(q) THEN "none" ELSE "error"
    [] op = "encode_or_free" -> IF Encodes(q) THEN "none" ELSE "error"
    [] op = "compile"        -> IF Compiles(q) THEN "none" ELSE "error"

Fallible == {"parse", "scan", "walk", "raw_walk", "encode", "encode_or_free",
             "compile"}

\* An operation that can fail, and does not.
Succeed ==
  /\ at = "running" /\ broken = "none" /\ Instruction.op \in Fallible
  /\ Raises(Instruction.op, input, settings) = "none"
  /\ Step
  /\ UNCHANGED <<at, call, settings, current, live, handlers, errors, thrown,
                 blocks, known, broken, leaked>>

\* errstart and errfinish: one more entry on the errordata stack, and a jump to
\* the innermost PG_TRY with ErrorContext current.  Without a PG_TRY the error
\* is promoted to FATAL and the process ends.
Throw ==
  /\ at = "running" /\ broken = "none" /\ Instruction.op \in Fallible
  /\ Raises(Instruction.op, input, settings) # "none"
  /\ thrown' = Raises(Instruction.op, input, settings)
  /\ errors' = errors + 1
  /\ current' = "error"
  /\ blocks' = IF Instruction.op = "encode_or_free" THEN blocks \ {"arena"}
               ELSE blocks
  /\ broken' = IF handlers = <<>> \/ errors = ErrorStackSize THEN "fatal"
               ELSE broken
  /\ at' = "throwing"
  /\ UNCHANGED <<call, pc, settings, live, handlers, known, leaked>>

Innermost == handlers[Len(handlers)]
Outer == SubSeq(handlers, 1, Len(handlers) - 1)

\* The frames above the handler are gone, and with them their variables; the
\* handler's own volatile arena pointer survives.
CatchReport ==
  /\ at = "throwing" /\ broken = "none"
  /\ Innermost.catch \in {"report", "report_free_arena"}
  /\ current' = Innermost.context
  /\ blocks' = (IF Innermost.catch = "report_free_arena" THEN blocks \ {"arena"}
                ELSE blocks) \union {"error"}
  /\ known' = Innermost.known \union {"error"}
  /\ errors' = 0 /\ thrown' = "none"
  /\ handlers' = Outer /\ pc' = Innermost.resume
  /\ at' = "running"
  /\ UNCHANGED <<call, settings, live, broken, leaked>>

\* PG_CATCH that swallows the error, or an unknown node type at least.
CatchSwallow ==
  /\ at = "throwing" /\ broken = "none"
  /\ \/ Innermost.catch = "swallow"
     \/ Innermost.catch = "swallow_unless_stack" /\ thrown # "stack"
  /\ current' = Innermost.context
  /\ known' = Innermost.known
  /\ errors' = 0 /\ thrown' = "none"
  /\ handlers' = Outer /\ pc' = Innermost.resume
  /\ at' = "running"
  /\ UNCHANGED <<call, settings, live, blocks, broken, leaked>>

\* Mutation: summary's handler passes the error on without freeing anything.
RethrowWithoutFree ==
  /\ at = "throwing" /\ broken = "none"
  /\ \/ Innermost.catch \in {"free_arena_rethrow", "free_stderr_rethrow"}
     \/ Innermost.catch = "swallow_unless_stack" /\ thrown = "stack"
  /\ blocks' = IF Innermost.catch = "free_arena_rethrow" THEN blocks \ {"arena"}
               ELSE blocks
  /\ broken' = IF Outer = <<>> THEN "fatal" ELSE broken
  /\ handlers' = Outer
  /\ UNCHANGED <<at, call, pc, settings, current, live, errors, thrown, known, leaked>>

\* Mutation: PG_exception_stack still names the handler that rethrows.
RethrowToItself ==
  /\ at = "throwing" /\ broken = "none"
  /\ \/ Innermost.catch \in {"free_arena_rethrow", "free_stderr_rethrow"}
     \/ Innermost.catch = "swallow_unless_stack" /\ thrown = "stack"
  /\ blocks' = CASE Innermost.catch = "free_arena_rethrow" -> blocks \ {"arena"}
                 [] Innermost.catch = "free_stderr_rethrow" -> blocks \ {"stderr"}
                 [] OTHER -> blocks
  /\ UNCHANGED <<at, call, pc, settings, current, live, handlers, errors, thrown,
                 known, broken, leaked>>

\* PG_CATCH that frees what only this frame knows and passes the error on.
CatchRethrow ==
  /\ at = "throwing" /\ broken = "none"
  /\ \/ Innermost.catch \in {"free_arena_rethrow", "free_stderr_rethrow"}
     \/ Innermost.catch = "swallow_unless_stack" /\ thrown = "stack"
  /\ blocks' = CASE Innermost.catch = "free_arena_rethrow" -> blocks \ {"arena"}
                 [] Innermost.catch = "free_stderr_rethrow" -> blocks \ {"stderr"}
                 [] OTHER -> blocks
  /\ broken' = IF Outer = <<>> THEN "fatal" ELSE broken
  /\ handlers' = Outer
  /\ UNCHANGED <<at, call, pc, settings, current, live, errors, thrown, known, leaked>>

Allocate ==
  /\ Running("malloc")
  /\ broken' = IF Instruction.arg \in blocks THEN "lost_block" ELSE broken
  /\ blocks' = blocks \union {Instruction.arg}
  /\ known' = known \union {Instruction.arg}
  /\ Step
  /\ UNCHANGED <<at, call, settings, current, live, handlers, errors, thrown, leaked>>

Release ==
  /\ Running("free")
  /\ blocks' = blocks \ ({Instruction.arg} \intersect known)
  /\ known' = known \ {Instruction.arg}
  /\ Step
  /\ UNCHANGED <<at, call, settings, current, live, handlers, errors, thrown,
                 broken, leaked>>

AssignResult ==
  /\ Running("publish")
  /\ handlers' = [handlers EXCEPT ![Len(handlers)].known = known]
  /\ Step
  /\ UNCHANGED <<at, call, settings, current, live, errors, thrown, blocks,
                 known, broken, leaked>>

\* if (result.error) ... : skip what a failed call leaves out.
CheckError ==
  /\ Running("skip_if_error")
  /\ pc' = pc + 1 + (IF "error" \in known THEN Instruction.skip ELSE 0)
  /\ UNCHANGED <<at, call, settings, current, live, handlers, errors, thrown,
                 blocks, known, broken, leaked>>

LibraryStep ==
  \/ Enter \/ Exit \/ Return \/ TryBegin \/ TryEnd
  \/ SetSettings \/ ResetSettings
  \/ Succeed \/ Throw \/ CatchReport \/ CatchSwallow \/ CatchRethrow
  \/ Allocate \/ Release \/ AssignResult \/ CheckError

Next ==
  \/ \E a \in Apis, q \in Inputs, o \in Options : CallApi(a, q, o)
  \/ LibraryStep
  \/ FreeResult

\* A thread inside the library keeps running; the host may stop calling.
Spec == Init /\ [][Next]_vars /\ WF_vars(LibraryStep)

-----------------------------------------------------------------------------
(* Properties. *)

\* Does a call of this API on this input fail, read under settings s?
Fails(a, q, s) ==
  \/ /\ a \in {"scan", "scan_tokens", "split_scanner", "deparse_comments"}
     /\ ~Scans(q, s)
  \/ /\ a \in {"parse", "parse_protobuf", "fingerprint", "normalize",
                 "split_parser", "is_utility", "plpgsql", "summary"}
     /\ ~Parses(q, s)
  \/ /\ a \in {"parse", "parse_protobuf", "normalize", "summary", "deparse"}
     /\ WalkError(q) = "stack"
  \/ a = "deparse" /\ WalkError(q) = "unknown"
  \/ /\ a \in {"parse_protobuf", "scan", "summary", "deparse"}
     /\ ~Encodes(q)
  \/ a = "plpgsql" /\ ~Compiles(q)

ReportsErrorUnder(s) ==
  at = "returned" => /\ "error" \in known <=> Fails(api, input, s)
                     /\ "error" \in known \/ "payload" \in known

\* What pg_query.h says of parser options: they are the call's, on by default.
\* The result of a call is a function of its arguments: it reports an error
\* exactly if this input fails under the options of this call, and otherwise
\* carries a payload, whatever calls the thread made and failed before.
CallsAreIndependent ==
  ReportsErrorUnder(IF api \in TakesOptions THEN options ELSE Defaults)

\* The functions that call the parser or scanner directly, and set nothing.
SetsNothing == {"normalize", "scan", "scan_tokens", "split_scanner",
                "deparse_comments"}

\* What the code does guarantee of it: a call that parses with
\* pg_query_raw_parse reports an error exactly if its input fails under its own
\* options.  The other calls read their input under the settings they find,
\* which are the defaults unless an earlier call passed options.
CallsSetTheirOptions ==
  ReportsErrorUnder(CASE api \in TakesOptions -> options
                      [] api \in SetsNothing  -> settings
                      [] OTHER                -> Defaults)

\* No error leaves the library: each ereport(ERROR) finds a PG_TRY, and the
\* errordata stack does not fill up over a long sequence of failing calls.
NoFatalError == broken # "fatal"

\* After every return, CurrentMemoryContext is TopMemoryContext, the call's
\* context is gone, no PG_TRY is open, the errordata stack is flushed and no
\* upb arena is left: the next call starts as the first one did.
CleanBetweenCalls ==
  at \in {"host", "returned"} =>
    /\ current = "top" /\ ~live
    /\ handlers = <<>> /\ errors = 0
    /\ "arena" \notin blocks

\* Every malloc'ed block is in the result when a call returns, and none was
\* overwritten, also when an error jumped over the frame that allocated it.
ReturnedBlocksReachable ==
  /\ broken # "lost_block"
  /\ at = "returned" => blocks = known

\* The pg_query_free_* function of a result releases all of it, except for the
\* error of pg_query_deparse_comments_for_query, which nothing releases.
OnlyCommentsErrorLeaks == leaked \subseteq {<<"deparse_comments", "error">>}

\* Every call returns, whatever fails on the way.
EveryCallReturns == at = "running" ~> at = "returned"

-----------------------------------------------------------------------------
(* The library implements the contract of ApiContract. *)

Parsing == Apis \ (SetsNothing \union {"deparse"})
Inside == at \in {"running", "throwing"}

Contract == INSTANCE ApiContract WITH
  phase <- CASE at = "host" -> "idle" [] Inside -> "busy" [] OTHER -> "answered",
  mode <- IF Inside /\ api \in Parsing THEN "in flux" ELSE settings,
  answer <- IF at = "returned" THEN known \intersect {"error", "payload"} ELSE {},
  Partial <- {"plpgsql"}

\* Seen from the host, with everything between a call and its return left out,
\* the library keeps its contract: each call is answered, by an error or a
\* payload as its input and the settings that count for it determine, and the
\* settings left to later calls are the defaults or those of a failed parse.
KeepsContract == Contract!Spec
=============================================================================
