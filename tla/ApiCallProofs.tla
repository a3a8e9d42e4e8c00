---------------------------- MODULE ApiCallProofs ----------------------------
(***************************************************************************)
(* Proofs about ApiCall, for every set of inputs, options and API          *)
(* functions: no error ends the process, every call leaves the thread as   *)
(* it found it, no malloc'ed block is lost, every result is what input and *)
(* settings determine, and every step is a step of ApiContract.            *)
(*                                                                         *)
(* The inductive invariant is a proof outline of the API functions: for    *)
(* every operation of every program, which PG_TRY blocks are open, which   *)
(* blocks are allocated, and what is known of the input when the operation *)
(* comes up.  The argument has three parts:                                *)
(*  - the programs, spelled out (the Listing lemmas);                      *)
(*  - from every point of the outline, the operation there leads to        *)
(*    another point of it, or to an error that the open PG_TRY blocks take *)
(*    to one (the Outline lemmas);                                         *)
(*  - hence every action of the specification keeps the invariant.         *)
(***************************************************************************)
EXTENDS ApiCall, SequenceTheorems, TLAPS

-----------------------------------------------------------------------------
(* The outline.  Parameters: p is the place in the program, hs the PG_TRY  *)
(* blocks that are open, K the allocated blocks, q the input, s the        *)
(* settings that count for it, st the settings of the scanner.             *)

Handler(c, n, k) == [catch |-> c, resume |-> n, context |-> "call", known |-> k]
Report(n, k) == Handler("report", n, k)

Begin(p, hs, K) == p = 1 /\ hs = <<>> /\ K = {}

\* How pg_query_raw_parse ends.
Accepted(q, s, st) == Parses(q, s) /\ st = Defaults
Rejected(q, s, st) == ~Parses(q, s) /\ st = s

\* pg_query_raw_parse, from place n + 1 on.
InRawParse(n, below, p, hs, K, q, s, st) ==
  \/ p = n + 1 /\ hs = below /\ K = {}
  \/ p = n + 2 /\ hs = Append(below, Report(n + 7, {})) /\ K = {}
  \/ p = n + 3 /\ hs = Append(below, Report(n + 7, {})) /\ K = {} /\ st = s
  \/ p = n + 4 /\ hs = Append(below, Report(n + 7, {})) /\ K = {} /\ st = s
       /\ Parses(q, s)
  \/ p = n + 5 /\ hs = Append(below, Report(n + 7, {})) /\ K = {}
       /\ Accepted(q, s, st)
  \/ p = n + 6 /\ hs = Append(below, Report(n + 7, {})) /\ K = {"stderr"}
       /\ Accepted(q, s, st)
  \/ p = n + 7 /\ hs = below /\ K = {"stderr"} /\ Accepted(q, s, st)
  \/ p = n + 7 /\ hs = below /\ K = {"error"} /\ Rejected(q, s, st)

AtParse(p, hs, K, q, s, st) ==
  \/ Begin(p, hs, K)
  \/ InRawParse(1, <<>>, p, hs, K, q, s, st)
  \/ p = 9 /\ hs = <<>> /\ K = {"stderr"} /\ Accepted(q, s, st)
  \/ p = 10 /\ hs = <<Report(13, {"stderr"})>> /\ K = {"stderr"}
       /\ Accepted(q, s, st)
  \/ p = 11 /\ hs = <<Report(13, {"stderr"})>> /\ K = {"stderr"}
       /\ Accepted(q, s, st) /\ WalkError(q) # "stack"
  \/ p = 12 /\ hs = <<Report(13, {"stderr"})>> /\ K = {"stderr", "payload"}
       /\ Accepted(q, s, st) /\ WalkError(q) # "stack"
  \/ p \in {13, 14} /\ hs = <<>> /\ K = {"stderr", "payload"}
       /\ Accepted(q, s, st) /\ WalkError(q) # "stack"
  \/ p \in {13, 14} /\ hs = <<>> /\ K = {"stderr", "error"}
       /\ Accepted(q, s, st) /\ WalkError(q) = "stack"
  \/ p \in {13, 14} /\ hs = <<>> /\ K = {"error"} /\ Rejected(q, s, st)

AtParseProtobuf(p, hs, K, q, s, st) ==
  \/ Begin(p, hs, K)
  \/ InRawParse(1, <<>>, p, hs, K, q, s, st)
  \/ p = 9 /\ hs = <<>> /\ K = {"stderr"} /\ Accepted(q, s, st)
  \/ p = 10 /\ hs = <<Report(18, {"stderr"})>> /\ K = {"stderr"}
       /\ Accepted(q, s, st)
  \/ p = 11 /\ hs = <<Report(18, {"stderr"})>> /\ K = {"stderr", "arena"}
       /\ Accepted(q, s, st)
  \/ p = 12 /\ hs = <<Report(18, {"stderr"}),
                      Handler("free_arena_rethrow", 14, {"stderr", "arena"})>>
       /\ K = {"stderr", "arena"} /\ Accepted(q, s, st)
  \/ p = 13 /\ hs = <<Report(18, {"stderr"}),
                      Handler("free_arena_rethrow", 14, {"stderr", "arena"})>>
       /\ K = {"stderr", "arena"} /\ Accepted(q, s, st)
       /\ WalkError(q) # "stack"
  \/ p = 14 /\ hs = <<Report(18, {"stderr"})>> /\ K = {"stderr", "arena"}
       /\ Accepted(q, s, st) /\ WalkError(q) # "stack"
  \/ p = 15 /\ hs = <<Report(18, {"stderr"})>> /\ K = {"stderr", "arena"}
       /\ Accepted(q, s, st) /\ WalkError(q) # "stack" /\ Encodes(q)
  \/ p = 16 /\ hs = <<Report(18, {"stderr"})>>
       /\ K = {"stderr", "arena", "payload"}
       /\ Accepted(q, s, st) /\ WalkError(q) # "stack" /\ Encodes(q)
  \/ p = 17 /\ hs = <<Report(18, {"stderr"})>> /\ K = {"stderr", "payload"}
       /\ Accepted(q, s, st) /\ WalkError(q) # "stack" /\ Encodes(q)
  \/ p \in {18, 19} /\ hs = <<>> /\ K = {"stderr", "payload"}
       /\ Accepted(q, s, st) /\ WalkError(q) # "stack" /\ Encodes(q)
  \/ p \in {18, 19} /\ hs = <<>> /\ K = {"stderr", "error"}
       /\ Accepted(q, s, st) /\ (WalkError(q) = "stack" \/ ~Encodes(q))
  \/ p \in {18, 19} /\ hs = <<>> /\ K = {"error"} /\ Rejected(q, s, st)

\* pg_query_fingerprint_opts, pg_query_split_with_parser
AtFingerprint(p, hs, K, q, s, st) ==
  \/ Begin(p, hs, K)
  \/ InRawParse(1, <<>>, p, hs, K, q, s, st)
  \/ p = 9 /\ hs = <<>> /\ K = {"stderr"} /\ Accepted(q, s, st)
  \/ p \in {10, 11} /\ hs = <<>> /\ K = {"stderr", "payload"}
       /\ Accepted(q, s, st)
  \/ p \in {10, 11} /\ hs = <<>> /\ K = {"error"} /\ Rejected(q, s, st)

AtNormalize(p, hs, K, q, s, st) ==
  /\ st = s
  /\ \/ Begin(p, hs, K)
     \/ p = 2 /\ hs = <<>> /\ K = {}
     \/ p = 3 /\ hs = <<Report(9, {})>> /\ K = {}
     \/ p = 4 /\ hs = <<Report(9, {})>> /\ K = {} /\ Parses(q, s)
     \/ p = 5 /\ hs = <<Report(9, {}), Handler("swallow_unless_stack", 7, {})>>
          /\ K = {} /\ Parses(q, s)
     \/ p = 6 /\ hs = <<Report(9, {}), Handler("swallow_unless_stack", 7, {})>>
          /\ K = {} /\ Parses(q, s) /\ WalkError(q) # "stack"
     \/ p = 7 /\ hs = <<Report(9, {})>> /\ K = {} /\ Parses(q, s)
          /\ WalkError(q) # "stack"
     \/ p = 8 /\ hs = <<Report(9, {})>> /\ K = {"payload"} /\ Parses(q, s)
          /\ WalkError(q) # "stack"
     \/ p \in {9, 10} /\ hs = <<>> /\ K = {"payload"} /\ Parses(q, s)
          /\ WalkError(q) # "stack"
     \/ p \in {9, 10} /\ hs = <<>> /\ K = {"error"}
          /\ (~Parses(q, s) \/ WalkError(q) = "stack")

AtScan(p, hs, K, q, s, st) ==
  LET h == Handler("report_free_arena", 10, {})
  IN  /\ st = s
      /\ \/ Begin(p, hs, K)
         \/ p = 2 /\ hs = <<>> /\ K = {}
         \/ p = 3 /\ hs = <<h>> /\ K = {}
         \/ p = 4 /\ hs = <<h>> /\ K = {} /\ Scans(q, s)
         \/ p = 5 /\ hs = <<h>> /\ K = {"arena"} /\ Scans(q, s)
         \/ p = 6 /\ hs = <<h>> /\ K = {"arena"} /\ Scans(q, s) /\ Encodes(q)
         \/ p = 7 /\ hs = <<h>> /\ K = {"arena", "payload"} /\ Scans(q, s)
              /\ Encodes(q)
         \/ p = 8 /\ hs = <<h>> /\ K = {"payload"} /\ Scans(q, s) /\ Encodes(q)
         \/ p = 9 /\ hs = <<h>> /\ K = {"payload", "stderr"} /\ Scans(q, s)
              /\ Encodes(q)
         \/ p \in {10, 11} /\ hs = <<>> /\ K = {"payload", "stderr"}
              /\ Scans(q, s) /\ Encodes(q)
         \/ p \in {10, 11} /\ hs = <<>> /\ K = {"error"}
              /\ (~Scans(q, s) \/ ~Encodes(q))

AtScanTokens(p, hs, K, q, s, st) ==
  /\ st = s
  /\ \/ Begin(p, hs, K)
     \/ p = 2 /\ hs = <<>> /\ K = {}
     \/ p = 3 /\ hs = <<Report(6, {})>> /\ K = {}
     \/ p = 4 /\ hs = <<Report(6, {})>> /\ K = {} /\ Scans(q, s)
     \/ p = 5 /\ hs = <<Report(6, {})>> /\ K = {"payload"} /\ Scans(q, s)
     \/ p \in {6, 7} /\ hs = <<>> /\ K = {"payload"} /\ Scans(q, s)
     \/ p \in {6, 7} /\ hs = <<>> /\ K = {"error"} /\ ~Scans(q, s)

\* The second scan of an input that was scanned once does not fail: the array
\* that is published is never left next to an error.
AtSplitScanner(p, hs, K, q, s, st) ==
  /\ st = s
  /\ \/ Begin(p, hs, K)
     \/ p = 2 /\ hs = <<>> /\ K = {}
     \/ p = 3 /\ hs = <<Report(9, {})>> /\ K = {}
     \/ p = 4 /\ hs = <<Report(9, {})>> /\ K = {} /\ Scans(q, s)
     \/ p = 5 /\ hs = <<Report(9, {})>> /\ K = {"payload"} /\ Scans(q, s)
     \/ p \in {6, 7} /\ hs = <<Report(9, {"payload"})>> /\ K = {"payload"}
          /\ Scans(q, s)
     \/ p = 8 /\ hs = <<Report(9, {"payload"})>> /\ K = {"payload", "stderr"}
          /\ Scans(q, s)
     \/ p \in {9, 10} /\ hs = <<>> /\ K = {"payload", "stderr"} /\ Scans(q, s)
     \/ p \in {9, 10} /\ hs = <<>> /\ K = {"error"} /\ ~Scans(q, s)

AtDeparse(p, hs, K, q, s, st) ==
  LET h == Report(12, {})
      g == Handler("free_arena_rethrow", 8, {"arena"})
  IN  /\ st = s
      /\ \/ Begin(p, hs, K)
         \/ p = 2 /\ hs = <<>> /\ K = {}
         \/ p = 3 /\ hs = <<h>> /\ K = {}
         \/ p = 4 /\ hs = <<h>> /\ K = {"arena"}
         \/ p = 5 /\ hs = <<h>> /\ K = {"arena"} /\ Encodes(q)
         \/ p = 6 /\ hs = <<h, g>> /\ K = {"arena"} /\ Encodes(q)
         \/ p = 7 /\ hs = <<h, g>> /\ K = {"arena"} /\ Encodes(q)
              /\ WalkError(q) # "stack"
         \/ p = 8 /\ hs = <<h>> /\ K = {"arena"} /\ Encodes(q)
              /\ WalkError(q) # "stack"
         \/ p = 9 /\ hs = <<h>> /\ K = {} /\ Encodes(q) /\ WalkError(q) # "stack"
         \/ p = 10 /\ hs = <<h>> /\ K = {} /\ Encodes(q) /\ WalkError(q) = "none"
         \/ p = 11 /\ hs = <<h>> /\ K = {"payload"} /\ Encodes(q)
              /\ WalkError(q) = "none"
         \/ p \in {12, 13} /\ hs = <<>> /\ K = {"payload"} /\ Encodes(q)
              /\ WalkError(q) = "none"
         \/ p \in {12, 13} /\ hs = <<>> /\ K = {"error"}
              /\ (~Encodes(q) \/ WalkError(q) # "none")

AtDeparseComments(p, hs, K, q, s, st) ==
  /\ st = s
  /\ \/ Begin(p, hs, K)
     \/ p = 2 /\ hs = <<>> /\ K = {}
     \/ p = 3 /\ hs = <<Report(6, {})>> /\ K = {}
     \/ p = 4 /\ hs = <<Report(6, {})>> /\ K = {} /\ Scans(q, s)
     \/ p = 5 /\ hs = <<Report(6, {})>> /\ K = {"tokens"} /\ Scans(q, s)
     \/ p \in {6, 7, 8} /\ hs = <<>> /\ K = {"tokens"} /\ Scans(q, s)
     \/ p = 9 /\ hs = <<>> /\ K = {"tokens", "payload"} /\ Scans(q, s)
     \/ p = 10 /\ hs = <<>> /\ K = {"payload"} /\ Scans(q, s)
     \/ p \in {6, 7, 10} /\ hs = <<>> /\ K = {"error"} /\ ~Scans(q, s)

\* The parse error skips one operation only: free(stderr_buffer) frees NULL.
AtIsUtility(p, hs, K, q, s, st) ==
  \/ Begin(p, hs, K)
  \/ InRawParse(1, <<>>, p, hs, K, q, s, st)
  \/ p = 9 /\ hs = <<>> /\ K = {"stderr"} /\ Accepted(q, s, st)
  \/ p = 10 /\ hs = <<>> /\ K = {"stderr", "payload"} /\ Accepted(q, s, st)
  \/ p \in {11, 12} /\ hs = <<>> /\ K = {"payload"} /\ Accepted(q, s, st)
  \/ p \in {10, 11, 12} /\ hs = <<>> /\ K = {"error"} /\ Rejected(q, s, st)

AtPlpgsql(p, hs, K, q, s, st) ==
  \/ Begin(p, hs, K)
  \/ InRawParse(1, <<>>, p, hs, K, q, s, st)
  \/ p = 9 /\ hs = <<>> /\ K = {"stderr"} /\ Accepted(q, s, st)
  \/ p \in {10, 11} /\ hs = <<Handler("swallow", 12, {"stderr"})>>
       /\ K = {"stderr"} /\ Accepted(q, s, st)
  \/ p = 12 /\ hs = <<>> /\ K = {"stderr"} /\ Accepted(q, s, st)
  \/ p = 13 /\ hs = <<>> /\ K = {"stderr", "payload"} /\ Accepted(q, s, st)
  \/ p = 14 /\ hs = <<Report(16, {"stderr", "payload"})>>
       /\ K = {"stderr", "payload"} /\ Accepted(q, s, st)
  \/ p = 15 /\ hs = <<Report(16, {"stderr", "payload"})>>
       /\ K = {"stderr", "payload"} /\ Accepted(q, s, st) /\ Compiles(q)
  \/ p \in {16, 17, 20} /\ hs = <<>> /\ K = {"stderr", "payload"}
       /\ Accepted(q, s, st) /\ Compiles(q)
  \/ p \in {18, 19} /\ hs = <<Report(20, {"stderr", "payload"})>>
       /\ K = {"stderr", "payload"} /\ Accepted(q, s, st) /\ Compiles(q)
  \/ p \in {16, 20} /\ hs = <<>> /\ K = {"stderr", "payload", "error"}
       /\ Accepted(q, s, st) /\ ~Compiles(q)
  \/ p \in {21, 22} /\ hs = <<>> /\ K = {"payload"} /\ Accepted(q, s, st)
       /\ Compiles(q)
  \/ p \in {21, 22} /\ hs = <<>> /\ K = {"payload", "error"}
       /\ Accepted(q, s, st) /\ ~Compiles(q)
  \/ p \in {21, 22} /\ hs = <<>> /\ K = {"error"} /\ Rejected(q, s, st)

AtSummary(p, hs, K, q, s, st) ==
  LET h == Report(19, {})
      h1 == Report(19, {"stderr"})
      g == Handler("free_stderr_rethrow", 13, {"stderr"})
  IN  \/ Begin(p, hs, K)
      \/ p = 2 /\ hs = <<>> /\ K = {}
      \/ InRawParse(2, <<h>>, p, hs, K, q, s, st)
      \/ p = 10 /\ hs = <<h>> /\ K = {"stderr"} /\ Accepted(q, s, st)
      \/ p = 11 /\ hs = <<h, g>> /\ K = {"stderr"} /\ Accepted(q, s, st)
      \/ p = 12 /\ hs = <<h, g>> /\ K = {"stderr"} /\ Accepted(q, s, st)
           /\ WalkError(q) # "stack"
      \/ p = 13 /\ hs = <<h>> /\ K = {"stderr"} /\ Accepted(q, s, st)
           /\ WalkError(q) # "stack"
      \/ p = 14 /\ hs = <<h1>> /\ K = {"stderr"} /\ Accepted(q, s, st)
           /\ WalkError(q) # "stack"
      \/ p = 15 /\ hs = <<h1>> /\ K = {"stderr", "arena"} /\ Accepted(q, s, st)
           /\ WalkError(q) # "stack"
      \/ p = 16 /\ hs = <<h1>> /\ K = {"stderr", "arena"} /\ Accepted(q, s, st)
           /\ WalkError(q) # "stack" /\ Encodes(q)
      \/ p = 17 /\ hs = <<h1>> /\ K = {"stderr", "arena", "payload"}
           /\ Accepted(q, s, st) /\ WalkError(q) # "stack" /\ Encodes(q)
      \/ p = 18 /\ hs = <<h1>> /\ K = {"stderr", "payload"}
           /\ Accepted(q, s, st) /\ WalkError(q) # "stack" /\ Encodes(q)
      \/ p = 18 /\ hs = <<h>> /\ K = {"error"} /\ Rejected(q, s, st)
      \/ p \in {19, 20} /\ hs = <<>> /\ K = {"stderr", "payload"}
           /\ Accepted(q, s, st) /\ WalkError(q) # "stack" /\ Encodes(q)
      \/ p \in {19, 20} /\ hs = <<>> /\ K = {"error"} /\ Rejected(q, s, st)
      \/ p \in {19, 20} /\ hs = <<>> /\ K = {"error"} /\ Accepted(q, s, st)
           /\ WalkError(q) = "stack"
      \/ p \in {19, 20} /\ hs = <<>> /\ K = {"stderr", "error"}
           /\ Accepted(q, s, st) /\ ~Encodes(q)

At(a, p, hs, K, q, s, st) ==
  \/ a = "parse" /\ AtParse(p, hs, K, q, s, st)
  \/ a = "parse_protobuf" /\ AtParseProtobuf(p, hs, K, q, s, st)
  \/ a \in {"fingerprint", "split_parser"} /\ AtFingerprint(p, hs, K, q, s, st)
  \/ a = "normalize" /\ AtNormalize(p, hs, K, q, s, st)
  \/ a = "scan" /\ AtScan(p, hs, K, q, s, st)
  \/ a = "scan_tokens" /\ AtScanTokens(p, hs, K, q, s, st)
  \/ a = "split_scanner" /\ AtSplitScanner(p, hs, K, q, s, st)
  \/ a = "deparse" /\ AtDeparse(p, hs, K, q, s, st)
  \/ a = "deparse_comments" /\ AtDeparseComments(p, hs, K, q, s, st)
  \/ a = "is_utility" /\ AtIsUtility(p, hs, K, q, s, st)
  \/ a = "plpgsql" /\ AtPlpgsql(p, hs, K, q, s, st)
  \/ a = "summary" /\ AtSummary(p, hs, K, q, s, st)

-----------------------------------------------------------------------------
(* What the outline has to satisfy. *)

\* Where the function leaves its memory context.
ExitAt(a) ==
  CASE a = "parse" -> 13           [] a = "parse_protobuf" -> 18
    [] a = "fingerprint" -> 10     [] a = "split_parser" -> 10
    [] a = "normalize" -> 9        [] a = "scan" -> 10
    [] a = "scan_tokens" -> 6      [] a = "split_scanner" -> 9
    [] a = "deparse" -> 12         [] a = "deparse_comments" -> 6
    [] a = "is_utility" -> 11      [] a = "plpgsql" -> 21
    [] a = "summary" -> 19

\* Does the memory context of the call exist before operation p?
Live(a, p) == 1 < p /\ p <= ExitAt(a)

LastOf(hs) == hs[Len(hs)]
FrontOf(hs) == SubSeq(hs, 1, Len(hs) - 1)
Assigned(hs, k) == [hs EXCEPT ![Len(hs)].known = k]

\* An error that handler h catches, with the handlers o around it and the blocks
\* B allocated, takes the function to a point of the outline: what is allocated
\* then is what the function still knows of.
Caught(a, h, o, B, th, q, s, st) ==
  /\ h.context = "call" /\ Live(a, h.resume)
  /\ \/ /\ h.catch = "report" /\ h.known = B
        /\ At(a, h.resume, o, B \union {"error"}, q, s, st)
     \/ /\ h.catch = "report_free_arena" /\ h.known = B \ {"arena"}
        /\ At(a, h.resume, o, (B \ {"arena"}) \union {"error"}, q, s, st)
     \/ /\ \/ h.catch = "swallow"
           \/ h.catch = "swallow_unless_stack" /\ th # "stack"
        /\ h.known = B
        /\ At(a, h.resume, o, B, q, s, st)

\* A handler that rethrows has one around it that does not.
Unwinds(a, hs, B, th, q, s, st) ==
  LET h == LastOf(hs)
      o == FrontOf(hs)
      Up(C) == o # <<>> /\ Caught(a, LastOf(o), FrontOf(o), C, th, q, s, st)
  IN  /\ hs # <<>>
      /\ \/ Caught(a, h, o, B, th, q, s, st)
         \/ h.catch = "free_arena_rethrow" /\ Up(B \ {"arena"})
         \/ h.catch = "free_stderr_rethrow" /\ Up(B \ {"stderr"})
         \/ h.catch = "swallow_unless_stack" /\ th = "stack" /\ Up(B)

\* The function goes on at place n, in the same memory context.
Goes(a, p, n, hs, K, q, s, st) ==
  (Live(a, n) <=> Live(a, p)) /\ At(a, n, hs, K, q, s, st)

\* What a result must be like.
Answered(a, q, s) ==
  IF ~Fails(a, q, s) THEN {"payload"}
  ELSE IF a = "plpgsql" /\ Parses(q, s) THEN {"payload", "error"}
  ELSE {"error"}

ParsingApis == {"parse", "parse_protobuf", "fingerprint", "split_parser",
                "is_utility", "plpgsql", "summary"}

Returns(a, p, hs, K, q, s, st) ==
  /\ hs = <<>> /\ ~Live(a, p)
  /\ K \intersect {"error", "payload"} = Answered(a, q, s)
  /\ "error" \in K <=> Fails(a, q, s)
  /\ "arena" \notin K
  /\ K \subseteq Released(a) \union
                   (IF a = "deparse_comments" THEN {"error"} ELSE {})
  /\ a \in ParsingApis => st = IF Parses(q, s) THEN Defaults ELSE s

\* The operation at a point of the outline leads to another one.
Sound(a, p, hs, K, q, s, st) ==
  LET I == Programs[a][p]
      Raised == Raises(I.op, q, st)
  IN
  /\ I.op = "enter" =>
       ~Live(a, p) /\ Live(a, p + 1) /\ At(a, p + 1, hs, K, q, s, st)
  /\ I.op = "exit" =>
       Live(a, p) /\ ~Live(a, p + 1) /\ At(a, p + 1, hs, K, q, s, st)
  /\ I.op = "return" => Returns(a, p, hs, K, q, s, st)
  /\ I.op = "try" =>
       /\ Live(a, p)
       /\ Goes(a, p, p + 1, Append(hs, Handler(I.arg, p + I.skip, K)), K, q, s, st)
  /\ I.op = "end_try" => Goes(a, p, p + 1, FrontOf(hs), K, q, s, st)
  /\ I.op = "set_settings" =>
       a \in ParsingApis /\ Goes(a, p, p + 1, hs, K, q, s, s)
  /\ I.op = "reset_settings" =>
       a \in ParsingApis /\ Goes(a, p, p + 1, hs, K, q, s, Defaults)
  /\ I.op \in Fallible /\ Raised = "none" => Goes(a, p, p + 1, hs, K, q, s, st)
  /\ I.op \in Fallible /\ Raised # "none" =>
       /\ Live(a, p)
       /\ Unwinds(a, hs, IF I.op = "encode_or_free" THEN K \ {"arena"} ELSE K,
                  Raised, q, s, st)
  /\ I.op = "malloc" =>
       I.arg \notin K /\ Goes(a, p, p + 1, hs, K \union {I.arg}, q, s, st)
  /\ I.op = "free" => Goes(a, p, p + 1, hs, K \ {I.arg}, q, s, st)
  /\ I.op = "publish" => Goes(a, p, p + 1, Assigned(hs, K), K, q, s, st)
  /\ I.op = "skip_if_error" =>
       Goes(a, p, p + 1 + (IF "error" \in K THEN I.skip ELSE 0),
            hs, K, q, s, st)

-----------------------------------------------------------------------------
(* The inductive invariant. *)

\* The settings that count for the input of the call under way.
Counts == IF api \in ParsingApis THEN options ELSE settings

IndInv ==
  /\ api \in Apis /\ input \in Inputs /\ options \in Options
  /\ settings \in SUBSET Settings
  /\ at \in {"host", "running", "throwing", "returned"}
  /\ broken = "none"
  /\ leaked \subseteq {<<"deparse_comments", "error">>}
  /\ at # "host" /\ api \notin TakesOptions => options = Defaults
  /\ at = "host" =>
       /\ handlers = <<>> /\ blocks = {} /\ known = {}
       /\ current = "top" /\ live = FALSE /\ errors = 0
  /\ at \in {"running", "returned"} =>
       /\ At(api, pc, handlers, known, input, Counts, settings)
       /\ blocks = known /\ errors = 0
       /\ IF Live(api, pc) THEN live = TRUE /\ current = "call"
          ELSE live = FALSE /\ current = "top"
  /\ at = "returned" =>
       Returns(api, pc, handlers, known, input, Counts, settings)
  /\ at = "throwing" =>
       /\ Unwinds(api, handlers, blocks, thrown, input, Counts, settings)
       /\ live = TRUE /\ errors = 1

-----------------------------------------------------------------------------
(* The operations, one by one. *)

TryOp(c, n) == [op |-> "try", arg |-> c, skip |-> n]

\* The fields of the operations that the programs are made of.
LEMMA Fields ==
  /\ \A n : Op(n).op = n
  /\ \A b : Malloc(b).op = "malloc" /\ Malloc(b).arg = b
  /\ \A b : Free(b).op = "free" /\ Free(b).arg = b
  /\ \A n : SkipIfError(n).op = "skip_if_error" /\ SkipIfError(n).skip = n
  /\ \A c, n : /\ TryOp(c, n).op = "try" /\ TryOp(c, n).arg = c
               /\ TryOp(c, n).skip = n
  BY DEF Op, Malloc, Free, SkipIfError, TryOp

\* Which class of error an operation raises, by what the input is like.
LEMMA Errors ==
  ASSUME NEW q, NEW st
  PROVE  /\ Raises("parse", q, st) = IF Parses(q, st) THEN "none" ELSE "error"
         /\ Raises("scan", q, st) = IF Scans(q, st) THEN "none" ELSE "error"
         /\ Raises("walk", q, st) =
              IF WalkError(q) = "stack" THEN "stack" ELSE "none"
         /\ Raises("raw_walk", q, st) = WalkError(q)
         /\ Raises("encode", q, st) = IF Encodes(q) THEN "none" ELSE "error"
         /\ Raises("encode_or_free", q, st) =
              IF Encodes(q) THEN "none" ELSE "error"
         /\ Raises("compile", q, st) = IF Compiles(q) THEN "none" ELSE "error"
  BY DEF Raises

\* PG_TRY within one other.
LEMMA AppendToOne ==
  ASSUME NEW S, NEW g \in S, NEW h \in S
  PROVE  Append(<<g>>, h) = <<g, h>>
<1> DEFINE a == Append(<<g>>, h)
           t == <<g, h>>
<1>1. a \in Seq(S) /\ Len(a) = 2 /\ a[1] = g /\ a[2] = h
  OBVIOUS
<1>2. t \in Seq(S) /\ Len(t) = 2 /\ t[1] = g /\ t[2] = h
  OBVIOUS
<1> HIDE DEF a, t
<1>3. \A i \in 1..Len(a) : a[i] = t[i]
  BY <1>1, <1>2
<1>4. a = t
  BY <1>1, <1>2, <1>3, SeqEqual
<1> QED BY <1>4 DEF a, t

\* PG_END_TRY within one other.
LEMMA FrontOfTwo ==
  ASSUME NEW S, NEW g \in S, NEW h \in S
  PROVE  FrontOf(<<g, h>>) = <<g>>
<1> DEFINE a == SubSeq(<<g, h>>, 1, 1)
           t == <<g>>
<1>1. a \in Seq(S) /\ Len(a) = 1 /\ a[1] = g
  OBVIOUS
<1>2. t \in Seq(S) /\ Len(t) = 1 /\ t[1] = g
  OBVIOUS
<1>3. FrontOf(<<g, h>>) = a
  BY DEF FrontOf
<1> HIDE DEF a, t
<1> QED BY <1>1, <1>2, <1>3, SeqEqual

\* At most two PG_TRY blocks are ever open.
LEMMA Stacks ==
  ASSUME NEW g, NEW h
  PROVE  /\ Append(<<>>, h) = <<h>> /\ Append(<<g>>, h) = <<g, h>>
         /\ LastOf(<<h>>) = h /\ LastOf(<<g, h>>) = h
         /\ FrontOf(<<h>>) = <<>> /\ FrontOf(<<g, h>>) = <<g>>
         /\ <<h>> # <<>> /\ <<g, h>> # <<>>
<1>1. /\ Append(<<>>, h) = <<h>>
      /\ LastOf(<<h>>) = h /\ LastOf(<<g, h>>) = h
      /\ <<h>> # <<>> /\ <<g, h>> # <<>>
  BY DEF LastOf
<1>2. FrontOf(<<h>>) = <<>>
  BY DEF FrontOf
<1> QED
  BY <1>1, <1>2, AppendToOne, FrontOfTwo, g \in {g, h}, h \in {g, h}

\* What a result variable holds is what its PG_CATCH finds.
LEMMA Assignments ==
  ASSUME NEW c, NEW n, NEW k, NEW l
  PROVE  Assigned(<<Handler(c, n, k)>>, l) = <<Handler(c, n, l)>>
  BY DEF Assigned, Handler

\* pg_query_enter_memory_context, first of all.
LEMMA SoundEnter ==
  ASSUME NEW a, NEW p, NEW hs, NEW K, NEW q, NEW s, NEW st,
         Programs[a][p] = Op("enter"), ~Live(a, p), Live(a, p + 1),
         At(a, p + 1, hs, K, q, s, st)
  PROVE  Sound(a, p, hs, K, q, s, st)
<1>1. Programs[a][p].op = "enter"
  BY Fields
<1> QED BY <1>1 DEF Sound, Fallible

\* pg_query_exit_memory_context, within the memory context.
LEMMA SoundExit ==
  ASSUME NEW a, NEW p, NEW hs, NEW K, NEW q, NEW s, NEW st,
         Programs[a][p] = Op("exit"), Live(a, p), ~Live(a, p + 1),
         At(a, p + 1, hs, K, q, s, st)
  PROVE  Sound(a, p, hs, K, q, s, st)
<1>1. Programs[a][p].op = "exit"
  BY Fields
<1> QED BY <1>1 DEF Sound, Fallible

\* The return statement: the result is what Returns says.
LEMMA SoundReturn ==
  ASSUME NEW a, NEW p, NEW hs, NEW K, NEW q, NEW s, NEW st,
         Programs[a][p] = Op("return"), Returns(a, p, hs, K, q, s, st)
  PROVE  Sound(a, p, hs, K, q, s, st)
<1>1. Programs[a][p].op = "return"
  BY Fields
<1> QED BY <1>1 DEF Sound, Fallible

\* PG_TRY, within the memory context of the call.
LEMMA SoundTry ==
  ASSUME NEW a, NEW p, NEW hs, NEW K, NEW q, NEW s, NEW st, NEW c, NEW n,
         Programs[a][p] = TryOp(c, n), Live(a, p),
         Goes(a, p, p + 1, Append(hs, Handler(c, p + n, K)), K, q, s, st)
  PROVE  Sound(a, p, hs, K, q, s, st)
<1>1. /\ Programs[a][p].op = "try" /\ Programs[a][p].arg = c
      /\ Programs[a][p].skip = n
  BY Fields
<1> QED BY <1>1 DEF Sound, Fallible

\* PG_END_TRY.
LEMMA SoundEndTry ==
  ASSUME NEW a, NEW p, NEW hs, NEW K, NEW q, NEW s, NEW st,
         Programs[a][p] = Op("end_try"),
         Goes(a, p, p + 1, FrontOf(hs), K, q, s, st)
  PROVE  Sound(a, p, hs, K, q, s, st)
<1>1. Programs[a][p].op = "end_try"
  BY Fields
<1> QED BY <1>1 DEF Sound, Fallible

\* pg_query_raw_parse sets the settings, and puts the defaults back.
LEMMA SoundSettings ==
  ASSUME NEW a \in ParsingApis, NEW p, NEW hs, NEW K, NEW q, NEW s, NEW st,
         \/ /\ Programs[a][p] = Op("set_settings")
            /\ Goes(a, p, p + 1, hs, K, q, s, s)
         \/ /\ Programs[a][p] = Op("reset_settings")
            /\ Goes(a, p, p + 1, hs, K, q, s, Defaults)
  PROVE  Sound(a, p, hs, K, q, s, st)
<1>1. CASE /\ Programs[a][p] = Op("set_settings")
           /\ Goes(a, p, p + 1, hs, K, q, s, s)
  <2>1. Programs[a][p].op = "set_settings"
    BY <1>1, Fields
  <2> QED BY <1>1, <2>1 DEF Sound, Fallible
<1>2. CASE /\ Programs[a][p] = Op("reset_settings")
           /\ Goes(a, p, p + 1, hs, K, q, s, Defaults)
  <2>1. Programs[a][p].op = "reset_settings"
    BY <1>2, Fields
  <2> QED BY <1>2, <2>1 DEF Sound, Fallible
<1> QED BY <1>1, <1>2

\* A call that may raise an error, below a PG_TRY that handles it.
LEMMA SoundFallible ==
  ASSUME NEW a, NEW p, NEW hs, NEW K, NEW q, NEW s, NEW st,
         NEW n \in Fallible \ {"encode_or_free"},
         Programs[a][p] = Op(n), Live(a, p),
         Raises(n, q, st) = "none" => Goes(a, p, p + 1, hs, K, q, s, st),
         Raises(n, q, st) # "none" =>
           Unwinds(a, hs, K, Raises(n, q, st), q, s, st)
  PROVE  Sound(a, p, hs, K, q, s, st)
<1>1. Programs[a][p].op = n
  BY Fields
<1> QED BY <1>1 DEF Sound, Fallible

\* The same where the arena is freed before the error is raised.
LEMMA SoundDecode ==
  ASSUME NEW a, NEW p, NEW hs, NEW K, NEW q, NEW s, NEW st,
         Programs[a][p] = Op("encode_or_free"), Live(a, p),
         Raises("encode_or_free", q, st) = "none" =>
           Goes(a, p, p + 1, hs, K, q, s, st),
         Raises("encode_or_free", q, st) # "none" =>
           Unwinds(a, hs, K \ {"arena"}, Raises("encode_or_free", q, st), q, s, st)
  PROVE  Sound(a, p, hs, K, q, s, st)
<1>1. Programs[a][p].op = "encode_or_free"
  BY Fields
<1> QED BY <1>1 DEF Sound, Fallible

\* malloc, of a block that is not allocated.
LEMMA SoundMalloc ==
  ASSUME NEW a, NEW p, NEW hs, NEW K, NEW q, NEW s, NEW st, NEW b,
         Programs[a][p] = Malloc(b), b \notin K,
         Goes(a, p, p + 1, hs, K \union {b}, q, s, st)
  PROVE  Sound(a, p, hs, K, q, s, st)
<1>1. Programs[a][p].op = "malloc" /\ Programs[a][p].arg = b
  BY Fields
<1> QED BY <1>1 DEF Sound, Fallible

\* free.
LEMMA SoundFree ==
  ASSUME NEW a, NEW p, NEW hs, NEW K, NEW q, NEW s, NEW st, NEW b,
         Programs[a][p] = Free(b),
         Goes(a, p, p + 1, hs, K \ {b}, q, s, st)
  PROVE  Sound(a, p, hs, K, q, s, st)
<1>1. Programs[a][p].op = "free" /\ Programs[a][p].arg = b
  BY Fields
<1> QED BY <1>1 DEF Sound, Fallible

\* The assignment of a result that a PG_CATCH has to see.
LEMMA SoundPublish ==
  ASSUME NEW a, NEW p, NEW hs, NEW K, NEW q, NEW s, NEW st,
         Programs[a][p] = Op("publish"),
         Goes(a, p, p + 1, Assigned(hs, K), K, q, s, st)
  PROVE  Sound(a, p, hs, K, q, s, st)
<1>1. Programs[a][p].op = "publish"
  BY Fields
<1> QED BY <1>1 DEF Sound, Fallible

\* if (result.error), after an error.
LEMMA SoundSkip ==
  ASSUME NEW a, NEW p, NEW hs, NEW K, NEW q, NEW s, NEW st, NEW n,
         Programs[a][p] = SkipIfError(n), "error" \in K,
         Goes(a, p, p + 1 + n, hs, K, q, s, st)
  PROVE  Sound(a, p, hs, K, q, s, st)
<1>1. Programs[a][p].op = "skip_if_error" /\ Programs[a][p].skip = n
  BY Fields
<1> QED BY <1>1 DEF Sound, Fallible

\* if (result.error), without an error.
LEMMA SoundNoSkip ==
  ASSUME NEW a, NEW p \in Nat, NEW hs, NEW K, NEW q, NEW s, NEW st, NEW n,
         Programs[a][p] = SkipIfError(n), "error" \notin K,
         Goes(a, p, p + 1, hs, K, q, s, st)
  PROVE  Sound(a, p, hs, K, q, s, st)
<1>1. Programs[a][p].op = "skip_if_error" /\ p + 1 + 0 = p + 1
  BY Fields
<1> QED BY <1>1 DEF Sound, Fallible

-----------------------------------------------------------------------------
(* The handlers, one by one. *)

\* PG_CATCH that makes a PgQueryError: all that is allocated is known to it.
LEMMA UnwindsReport ==
  ASSUME NEW a, NEW n, NEW k, NEW th, NEW q, NEW s, NEW st, NEW hs,
         hs # <<>>, LastOf(hs) = Report(n, k), Live(a, n),
         At(a, n, FrontOf(hs), k \union {"error"}, q, s, st)
  PROVE  Unwinds(a, hs, k, th, q, s, st)
<1>1. /\ Report(n, k).catch = "report" /\ Report(n, k).context = "call"
      /\ Report(n, k).resume = n /\ Report(n, k).known = k
  BY DEF Report, Handler
<1> QED BY <1>1 DEF Unwinds, Caught

\* The one of pg_query_scan: it frees the arena first.
LEMMA UnwindsFreeArena ==
  ASSUME NEW a, NEW n, NEW k, NEW B, NEW th, NEW q, NEW s, NEW st,
         B \ {"arena"} = k, Live(a, n),
         At(a, n, <<>>, k \union {"error"}, q, s, st)
  PROVE  Unwinds(a, <<Handler("report_free_arena", n, k)>>, B, th, q, s, st)
<1> DEFINE h == Handler("report_free_arena", n, k)
<1>1. /\ h.catch = "report_free_arena" /\ h.context = "call"
      /\ h.resume = n /\ h.known = k
  BY DEF Handler
<1> HIDE DEF h
<1>2. Caught(a, h, <<>>, B, th, q, s, st)
  BY <1>1 DEF Caught
<1>3. Unwinds(a, <<h>>, B, th, q, s, st)
  BY <1>2, Stacks DEF Unwinds
<1> QED BY <1>3 DEF h

\* PG_CATCH that drops the error: the function goes on after PG_END_TRY.
LEMMA UnwindsSwallow ==
  ASSUME NEW a, NEW n, NEW k, NEW th, NEW q, NEW s, NEW st,
         Live(a, n), At(a, n, <<>>, k, q, s, st)
  PROVE  Unwinds(a, <<Handler("swallow", n, k)>>, k, th, q, s, st)
<1> DEFINE h == Handler("swallow", n, k)
<1>1. /\ h.catch = "swallow" /\ h.context = "call"
      /\ h.resume = n /\ h.known = k
  BY DEF Handler
<1> HIDE DEF h
<1>2. Caught(a, h, <<>>, k, th, q, s, st)
  BY <1>1 DEF Caught
<1>3. Unwinds(a, <<h>>, k, th, q, s, st)
  BY <1>2, Stacks DEF Unwinds
<1> QED BY <1>3 DEF h

\* The one of const_record_walker: an unknown node type is dropped ...
LEMMA UnwindsSwallowUnlessStack ==
  ASSUME NEW a, NEW n, NEW k, NEW g, NEW th, NEW q, NEW s, NEW st,
         th # "stack", Live(a, n), At(a, n, <<g>>, k, q, s, st)
  PROVE  Unwinds(a, <<g, Handler("swallow_unless_stack", n, k)>>, k, th,
                 q, s, st)
<1> DEFINE h == Handler("swallow_unless_stack", n, k)
<1>1. /\ h.catch = "swallow_unless_stack" /\ h.context = "call"
      /\ h.resume = n /\ h.known = k
  BY DEF Handler
<1> HIDE DEF h
<1>2. Caught(a, h, <<g>>, k, th, q, s, st)
  BY <1>1 DEF Caught
<1>3. LastOf(<<g, h>>) = h /\ FrontOf(<<g, h>>) = <<g>> /\ <<g, h>> # <<>>
  BY Stacks
<1>4. Unwinds(a, <<g, h>>, k, th, q, s, st)
  BY <1>2, <1>3 DEF Unwinds
<1> QED BY <1>4 DEF h

\* ... and a lack of stack passed on to the one around it.
LEMMA UnwindsStackRethrow ==
  ASSUME NEW a, NEW n, NEW m, NEW k, NEW l, NEW q, NEW s, NEW st,
         Live(a, n), At(a, n, <<>>, k \union {"error"}, q, s, st)
  PROVE  Unwinds(a, <<Report(n, k), Handler("swallow_unless_stack", m, l)>>, k,
                 "stack", q, s, st)
<1> DEFINE h == Handler("swallow_unless_stack", m, l)
           g == Report(n, k)
<1>1. /\ h.catch = "swallow_unless_stack"
      /\ g.catch = "report" /\ g.context = "call"
      /\ g.resume = n /\ g.known = k
  BY DEF Handler, Report
<1> HIDE DEF h, g
<1>2. Caught(a, g, <<>>, k, "stack", q, s, st)
  BY <1>1 DEF Caught
<1>3. /\ LastOf(<<g, h>>) = h /\ FrontOf(<<g, h>>) = <<g>> /\ <<g, h>> # <<>>
      /\ LastOf(<<g>>) = g /\ FrontOf(<<g>>) = <<>> /\ <<g>> # <<>>
  BY Stacks
<1>4. Unwinds(a, <<g, h>>, k, "stack", q, s, st)
  BY <1>1, <1>2, <1>3 DEF Unwinds
<1> QED BY <1>4 DEF h, g

\* PG_CATCH that frees the arena and passes the error on.
LEMMA UnwindsArenaRethrow ==
  ASSUME NEW a, NEW n, NEW m, NEW k, NEW l, NEW B, NEW th, NEW q, NEW s, NEW st,
         B \ {"arena"} = k,
         Live(a, n), At(a, n, <<>>, k \union {"error"}, q, s, st)
  PROVE  Unwinds(a, <<Report(n, k), Handler("free_arena_rethrow", m, l)>>, B,
                 th, q, s, st)
<1> DEFINE h == Handler("free_arena_rethrow", m, l)
           g == Report(n, k)
<1>1. /\ h.catch = "free_arena_rethrow"
      /\ g.catch = "report" /\ g.context = "call"
      /\ g.resume = n /\ g.known = k
  BY DEF Handler, Report
<1> HIDE DEF h, g
<1>2. Caught(a, g, <<>>, B \ {"arena"}, th, q, s, st)
  BY <1>1 DEF Caught
<1>3. /\ LastOf(<<g, h>>) = h /\ FrontOf(<<g, h>>) = <<g>> /\ <<g, h>> # <<>>
      /\ LastOf(<<g>>) = g /\ FrontOf(<<g>>) = <<>> /\ <<g>> # <<>>
  BY Stacks
<1>4. Unwinds(a, <<g, h>>, B, th, q, s, st)
  BY <1>1, <1>2, <1>3 DEF Unwinds
<1> QED BY <1>4 DEF h, g

\* PG_CATCH of pg_query_summary that frees stderr_buffer and passes the error on.
LEMMA UnwindsStderrRethrow ==
  ASSUME NEW a, NEW n, NEW m, NEW k, NEW l, NEW B, NEW th, NEW q, NEW s, NEW st,
         B \ {"stderr"} = k,
         Live(a, n), At(a, n, <<>>, k \union {"error"}, q, s, st)
  PROVE  Unwinds(a, <<Report(n, k), Handler("free_stderr_rethrow", m, l)>>, B,
                 th, q, s, st)
<1> DEFINE h == Handler("free_stderr_rethrow", m, l)
           g == Report(n, k)
<1>1. /\ h.catch = "free_stderr_rethrow"
      /\ g.catch = "report" /\ g.context = "call"
      /\ g.resume = n /\ g.known = k
  BY DEF Handler, Report
<1> HIDE DEF h, g
<1>2. Caught(a, g, <<>>, B \ {"stderr"}, th, q, s, st)
  BY <1>1 DEF Caught
<1>3. /\ LastOf(<<g, h>>) = h /\ FrontOf(<<g, h>>) = <<g>> /\ <<g, h>> # <<>>
      /\ LastOf(<<g>>) = g /\ FrontOf(<<g>>) = <<>> /\ <<g>> # <<>>
  BY Stacks
<1>4. Unwinds(a, <<g, h>>, B, th, q, s, st)
  BY <1>1, <1>2, <1>3 DEF Unwinds
<1> QED BY <1>4 DEF h, g

-----------------------------------------------------------------------------
(* pg_query_raw_parse, wherever it is called. *)

RawParseAt(a, n) ==
  /\ Programs[a][n + 1] = TryOp("report", 6)
  /\ Programs[a][n + 2] = Op("set_settings")
  /\ Programs[a][n + 3] = Op("parse")
  /\ Programs[a][n + 4] = Op("reset_settings")
  /\ Programs[a][n + 5] = Malloc("stderr")
  /\ Programs[a][n + 6] = Op("end_try")
  /\ \A m \in (n + 1)..(n + 7) : Live(a, m)

\* The outline of the function contains that of pg_query_raw_parse.
Contains(a, n, below, q, s) ==
  \A m, f, k, t : InRawParse(n, below, m, f, k, q, s, t) =>
                    At(a, m, f, k, q, s, t)

\* The outline of pg_query_raw_parse is sound in every function that calls it.
LEMMA RawParseOutline ==
  ASSUME NEW a \in ParsingApis, NEW n \in {1, 2}, NEW below,
         below = <<>> \/ \E g : below = <<g>>,
         NEW p, NEW hs, NEW K, NEW q, NEW s, NEW st,
         RawParseAt(a, n), Contains(a, n, below, q, s),
         InRawParse(n, below, p, hs, K, q, s, st), p # n + 7
  PROVE  Sound(a, p, hs, K, q, s, st)
<1> DEFINE h == Report(n + 7, {})
           up == Append(below, h)
           In(m, f, k, t) == InRawParse(n, below, m, f, k, q, s, t)
<1>1. up # <<>> /\ LastOf(up) = h /\ FrontOf(up) = below
  <2> HIDE DEF h
  <2>1. CASE below = <<>>
    <3>1. up = <<h>>
      BY <2>1, Stacks
    <3>2. <<h>> # <<>> /\ LastOf(<<h>>) = h /\ FrontOf(<<h>>) = <<>>
      BY Stacks
    <3> HIDE DEF up
    <3> QED BY <2>1, <3>1, <3>2
  <2>2. CASE \E g : below = <<g>>
    <3> PICK g : below = <<g>>
      BY <2>2
    <3>1. up = <<g, h>>
      BY Stacks
    <3>2. /\ <<g, h>> # <<>> /\ LastOf(<<g, h>>) = h
          /\ FrontOf(<<g, h>>) = <<g>>
      BY Stacks
    <3> HIDE DEF up
    <3> QED BY <3>1, <3>2
  <2> QED BY <2>1, <2>2
<1>2. \A m \in (n + 1)..(n + 6) : m \in Nat /\ m + 1 \in (n + 1)..(n + 7)
  OBVIOUS
<1>3. ASSUME NEW m \in (n + 1)..(n + 6), NEW f, NEW k, NEW t, In(m + 1, f, k, t)
      PROVE  Goes(a, m, m + 1, f, k, q, s, t)
  BY <1>2, <1>3 DEF Goes, RawParseAt, Contains
<1>4. CASE p = n + 1 /\ hs = below /\ K = {}
  <2>1. Append(hs, Handler("report", p + 6, K)) = up
    BY <1>4 DEF Report
  <2>2. In(p + 1, up, K, st)
    BY <1>4 DEF InRawParse
  <2>3. Goes(a, p, p + 1, up, K, q, s, st)
    BY <1>4, <1>3, <2>2
  <2>4. Programs[a][p] = TryOp("report", 6) /\ Live(a, p)
    BY <1>4 DEF RawParseAt
  <2> QED BY <2>1, <2>3, <2>4, SoundTry
<1>5. CASE p = n + 2 /\ hs = up /\ K = {}
  <2>1. In(p + 1, hs, K, s)
    BY <1>5 DEF InRawParse
  <2>2. Goes(a, p, p + 1, hs, K, q, s, s)
    BY <1>5, <1>3, <2>1
  <2>3. Programs[a][p] = Op("set_settings")
    BY <1>5 DEF RawParseAt
  <2> QED BY <2>2, <2>3, SoundSettings
<1>6. CASE p = n + 3 /\ hs = up /\ K = {} /\ st = s
  <2>1. ASSUME Parses(q, s) PROVE Goes(a, p, p + 1, hs, K, q, s, st)
    <3>1. In(p + 1, hs, K, st)
      BY <1>6, <2>1 DEF InRawParse
    <3> QED BY <1>6, <1>3, <3>1
  <2>2. ASSUME ~Parses(q, s)
        PROVE  Unwinds(a, hs, K, Raises("parse", q, st), q, s, st)
    <3>1. In(n + 7, below, K \union {"error"}, st)
      BY <1>6, <2>2 DEF InRawParse, Rejected
    <3>2. Live(a, n + 7) /\ At(a, n + 7, below, K \union {"error"}, q, s, st)
      BY <3>1 DEF RawParseAt, Contains
    <3> QED BY <1>1, <1>6, <3>2, UnwindsReport
  <2>3. Programs[a][p] = Op("parse") /\ Live(a, p)
    BY <1>6 DEF RawParseAt
  <2> QED BY <1>6, <2>1, <2>2, <2>3, Errors, SoundFallible DEF Fallible
<1>7. CASE p = n + 4 /\ hs = up /\ K = {} /\ st = s /\ Parses(q, s)
  <2>1. In(p + 1, hs, K, Defaults)
    BY <1>7 DEF InRawParse, Accepted
  <2>2. Goes(a, p, p + 1, hs, K, q, s, Defaults)
    BY <1>7, <1>3, <2>1
  <2>3. Programs[a][p] = Op("reset_settings")
    BY <1>7 DEF RawParseAt
  <2> QED BY <2>2, <2>3, SoundSettings
<1>8. CASE p = n + 5 /\ hs = up /\ K = {} /\ Accepted(q, s, st)
  <2>1. In(p + 1, hs, K \union {"stderr"}, st)
    BY <1>8 DEF InRawParse
  <2>2. Goes(a, p, p + 1, hs, K \union {"stderr"}, q, s, st)
    BY <1>8, <1>3, <2>1
  <2>3. Programs[a][p] = Malloc("stderr") /\ "stderr" \notin K
    BY <1>8 DEF RawParseAt
  <2> QED BY <2>2, <2>3, SoundMalloc
<1>9. CASE p = n + 6 /\ hs = up /\ K = {"stderr"} /\ Accepted(q, s, st)
  <2>1. In(p + 1, FrontOf(hs), K, st)
    BY <1>1, <1>9 DEF InRawParse
  <2>2. Goes(a, p, p + 1, FrontOf(hs), K, q, s, st)
    BY <1>9, <1>3, <2>1
  <2>3. Programs[a][p] = Op("end_try")
    BY <1>9 DEF RawParseAt
  <2> QED BY <2>2, <2>3, SoundEndTry
<1> QED BY <1>4, <1>5, <1>6, <1>7, <1>8, <1>9 DEF InRawParse

-----------------------------------------------------------------------------
(* The programs, spelled out. *)

\* The program of pg_query_parse_opts, operation by operation.
LEMMA ParseListing ==
  /\ Programs["parse"][1] = Op("enter")
  /\ Programs["parse"][2] = TryOp("report", 6)
  /\ Programs["parse"][3] = Op("set_settings")
  /\ Programs["parse"][4] = Op("parse")
  /\ Programs["parse"][5] = Op("reset_settings")
  /\ Programs["parse"][6] = Malloc("stderr")
  /\ Programs["parse"][7] = Op("end_try")
  /\ Programs["parse"][8] = SkipIfError(4)
  /\ Programs["parse"][9] = TryOp("report", 4)
  /\ Programs["parse"][10] = Op("walk")
  /\ Programs["parse"][11] = Malloc("payload")
  /\ Programs["parse"][12] = Op("end_try") /\ Programs["parse"][13] = Op("exit")
  /\ Programs["parse"][14] = Op("return")
  BY DEF Programs, pg_query_parse_opts, Call, raw_parse, Try, Walk, TryOp

\* The program of pg_query_parse_protobuf_opts, operation by operation.
LEMMA ParseProtobufListing ==
  /\ Programs["parse_protobuf"][1] = Op("enter")
  /\ Programs["parse_protobuf"][2] = TryOp("report", 6)
  /\ Programs["parse_protobuf"][3] = Op("set_settings")
  /\ Programs["parse_protobuf"][4] = Op("parse")
  /\ Programs["parse_protobuf"][5] = Op("reset_settings")
  /\ Programs["parse_protobuf"][6] = Malloc("stderr")
  /\ Programs["parse_protobuf"][7] = Op("end_try")
  /\ Programs["parse_protobuf"][8] = SkipIfError(9)
  /\ Programs["parse_protobuf"][9] = TryOp("report", 9)
  /\ Programs["parse_protobuf"][10] = Malloc("arena")
  /\ Programs["parse_protobuf"][11] = TryOp("free_arena_rethrow", 3)
  /\ Programs["parse_protobuf"][12] = Op("walk")
  /\ Programs["parse_protobuf"][13] = Op("end_try")
  /\ Programs["parse_protobuf"][14] = Op("encode_or_free")
  /\ Programs["parse_protobuf"][15] = Malloc("payload")
  /\ Programs["parse_protobuf"][16] = Free("arena")
  /\ Programs["parse_protobuf"][17] = Op("end_try")
  /\ Programs["parse_protobuf"][18] = Op("exit")
  /\ Programs["parse_protobuf"][19] = Op("return")
  BY DEF Programs, pg_query_parse_protobuf_opts, Call, raw_parse, Try,
    nodes_to_protobuf, Walk, TryOp

\* The program of pg_query_fingerprint_opts, operation by operation.
LEMMA FingerprintListing ==
  /\ Programs["fingerprint"][1] = Op("enter")
  /\ Programs["fingerprint"][2] = TryOp("report", 6)
  /\ Programs["fingerprint"][3] = Op("set_settings")
  /\ Programs["fingerprint"][4] = Op("parse")
  /\ Programs["fingerprint"][5] = Op("reset_settings")
  /\ Programs["fingerprint"][6] = Malloc("stderr")
  /\ Programs["fingerprint"][7] = Op("end_try")
  /\ Programs["fingerprint"][8] = SkipIfError(1)
  /\ Programs["fingerprint"][9] = Malloc("payload")
  /\ Programs["fingerprint"][10] = Op("exit")
  /\ Programs["fingerprint"][11] = Op("return")
  BY DEF Programs, pg_query_fingerprint_opts, Call, raw_parse, Try, TryOp

\* The program of pg_query_normalize, operation by operation.
LEMMA NormalizeListing ==
  /\ Programs["normalize"][1] = Op("enter")
  /\ Programs["normalize"][2] = TryOp("report", 7)
  /\ Programs["normalize"][3] = Op("parse")
  /\ Programs["normalize"][4] = TryOp("swallow_unless_stack", 3)
  /\ Programs["normalize"][5] = Op("raw_walk")
  /\ Programs["normalize"][6] = Op("end_try")
  /\ Programs["normalize"][7] = Malloc("payload")
  /\ Programs["normalize"][8] = Op("end_try")
  /\ Programs["normalize"][9] = Op("exit")
  /\ Programs["normalize"][10] = Op("return")
  BY DEF Programs, pg_query_normalize, Call, Try, RawWalk, TryOp

\* The program of pg_query_scan, operation by operation.
LEMMA ScanListing ==
  /\ Programs["scan"][1] = Op("enter")
  /\ Programs["scan"][2] = TryOp("report_free_arena", 8)
  /\ Programs["scan"][3] = Op("scan") /\ Programs["scan"][4] = Malloc("arena")
  /\ Programs["scan"][5] = Op("encode")
  /\ Programs["scan"][6] = Malloc("payload")
  /\ Programs["scan"][7] = Free("arena")
  /\ Programs["scan"][8] = Malloc("stderr")
  /\ Programs["scan"][9] = Op("end_try") /\ Programs["scan"][10] = Op("exit")
  /\ Programs["scan"][11] = Op("return")
  BY DEF Programs, pg_query_scan, Call, Try, TryOp

\* The program of pg_query_scan_tokens, operation by operation.
LEMMA ScanTokensListing ==
  /\ Programs["scan_tokens"][1] = Op("enter")
  /\ Programs["scan_tokens"][2] = TryOp("report", 4)
  /\ Programs["scan_tokens"][3] = Op("scan")
  /\ Programs["scan_tokens"][4] = Malloc("payload")
  /\ Programs["scan_tokens"][5] = Op("end_try")
  /\ Programs["scan_tokens"][6] = Op("exit")
  /\ Programs["scan_tokens"][7] = Op("return")
  BY DEF Programs, pg_query_scan_tokens, Call, Try, TryOp

\* The program of pg_query_split_with_scanner, operation by operation.
LEMMA SplitScannerListing ==
  /\ Programs["split_scanner"][1] = Op("enter")
  /\ Programs["split_scanner"][2] = TryOp("report", 7)
  /\ Programs["split_scanner"][3] = Op("scan")
  /\ Programs["split_scanner"][4] = Malloc("payload")
  /\ Programs["split_scanner"][5] = Op("publish")
  /\ Programs["split_scanner"][6] = Op("scan")
  /\ Programs["split_scanner"][7] = Malloc("stderr")
  /\ Programs["split_scanner"][8] = Op("end_try")
  /\ Programs["split_scanner"][9] = Op("exit")
  /\ Programs["split_scanner"][10] = Op("return")
  BY DEF Programs, pg_query_split_with_scanner, Call, Try, Publish, TryOp

\* The program of pg_query_split_with_parser, operation by operation.
LEMMA SplitParserListing ==
  /\ Programs["split_parser"][1] = Op("enter")
  /\ Programs["split_parser"][2] = TryOp("report", 6)
  /\ Programs["split_parser"][3] = Op("set_settings")
  /\ Programs["split_parser"][4] = Op("parse")
  /\ Programs["split_parser"][5] = Op("reset_settings")
  /\ Programs["split_parser"][6] = Malloc("stderr")
  /\ Programs["split_parser"][7] = Op("end_try")
  /\ Programs["split_parser"][8] = SkipIfError(1)
  /\ Programs["split_parser"][9] = Malloc("payload")
  /\ Programs["split_parser"][10] = Op("exit")
  /\ Programs["split_parser"][11] = Op("return")
  BY DEF Programs, pg_query_split_with_parser, Call, raw_parse, Try, TryOp

\* The program of pg_query_deparse_protobuf, operation by operation.
LEMMA DeparseListing ==
  /\ Programs["deparse"][1] = Op("enter")
  /\ Programs["deparse"][2] = TryOp("report", 10)
  /\ Programs["deparse"][3] = Malloc("arena")
  /\ Programs["deparse"][4] = Op("encode_or_free")
  /\ Programs["deparse"][5] = TryOp("free_arena_rethrow", 3)
  /\ Programs["deparse"][6] = Op("walk")
  /\ Programs["deparse"][7] = Op("end_try")
  /\ Programs["deparse"][8] = Free("arena")
  /\ Programs["deparse"][9] = Op("raw_walk")
  /\ Programs["deparse"][10] = Malloc("payload")
  /\ Programs["deparse"][11] = Op("end_try")
  /\ Programs["deparse"][12] = Op("exit")
  /\ Programs["deparse"][13] = Op("return")
  BY DEF Programs, pg_query_deparse_protobuf, Call, Try, protobuf_to_nodes,
    RawWalk, Walk, TryOp

\* The program of pg_query_deparse_comments_for_query, operation by operation.
LEMMA DeparseCommentsListing ==
  /\ Programs["deparse_comments"][1] = Op("enter")
  /\ Programs["deparse_comments"][2] = TryOp("report", 4)
  /\ Programs["deparse_comments"][3] = Op("scan")
  /\ Programs["deparse_comments"][4] = Malloc("tokens")
  /\ Programs["deparse_comments"][5] = Op("end_try")
  /\ Programs["deparse_comments"][6] = Op("exit")
  /\ Programs["deparse_comments"][7] = SkipIfError(2)
  /\ Programs["deparse_comments"][8] = Malloc("payload")
  /\ Programs["deparse_comments"][9] = Free("tokens")
  /\ Programs["deparse_comments"][10] = Op("return")
  BY DEF Programs, pg_query_deparse_comments_for_query, Try, TryOp

\* The program of pg_query_is_utility_stmt, operation by operation.
LEMMA IsUtilityListing ==
  /\ Programs["is_utility"][1] = Op("enter")
  /\ Programs["is_utility"][2] = TryOp("report", 6)
  /\ Programs["is_utility"][3] = Op("set_settings")
  /\ Programs["is_utility"][4] = Op("parse")
  /\ Programs["is_utility"][5] = Op("reset_settings")
  /\ Programs["is_utility"][6] = Malloc("stderr")
  /\ Programs["is_utility"][7] = Op("end_try")
  /\ Programs["is_utility"][8] = SkipIfError(1)
  /\ Programs["is_utility"][9] = Malloc("payload")
  /\ Programs["is_utility"][10] = Free("stderr")
  /\ Programs["is_utility"][11] = Op("exit")
  /\ Programs["is_utility"][12] = Op("return")
  BY DEF Programs, pg_query_is_utility_stmt, Call, raw_parse, Try, TryOp

\* The program of pg_query_parse_plpgsql, operation by operation.
LEMMA PlpgsqlListing ==
  /\ Programs["plpgsql"][1] = Op("enter")
  /\ Programs["plpgsql"][2] = TryOp("report", 6)
  /\ Programs["plpgsql"][3] = Op("set_settings")
  /\ Programs["plpgsql"][4] = Op("parse")
  /\ Programs["plpgsql"][5] = Op("reset_settings")
  /\ Programs["plpgsql"][6] = Malloc("stderr")
  /\ Programs["plpgsql"][7] = Op("end_try")
  /\ Programs["plpgsql"][8] = SkipIfError(12)
  /\ Programs["plpgsql"][9] = TryOp("swallow", 3)
  /\ Programs["plpgsql"][10] = Op("raw_walk")
  /\ Programs["plpgsql"][11] = Op("end_try")
  /\ Programs["plpgsql"][12] = Malloc("payload")
  /\ Programs["plpgsql"][13] = TryOp("report", 3)
  /\ Programs["plpgsql"][14] = Op("compile")
  /\ Programs["plpgsql"][15] = Op("end_try")
  /\ Programs["plpgsql"][16] = SkipIfError(3)
  /\ Programs["plpgsql"][17] = TryOp("report", 3)
  /\ Programs["plpgsql"][18] = Op("compile")
  /\ Programs["plpgsql"][19] = Op("end_try")
  /\ Programs["plpgsql"][20] = Free("stderr")
  /\ Programs["plpgsql"][21] = Op("exit")
  /\ Programs["plpgsql"][22] = Op("return")
  BY DEF Programs, pg_query_parse_plpgsql, Call, raw_parse, Try, RawWalk, TryOp

\* The program of pg_query_summary, operation by operation.
LEMMA SummaryListing ==
  /\ Programs["summary"][1] = Op("enter")
  /\ Programs["summary"][2] = TryOp("report", 17)
  /\ Programs["summary"][3] = TryOp("report", 6)
  /\ Programs["summary"][4] = Op("set_settings")
  /\ Programs["summary"][5] = Op("parse")
  /\ Programs["summary"][6] = Op("reset_settings")
  /\ Programs["summary"][7] = Malloc("stderr")
  /\ Programs["summary"][8] = Op("end_try")
  /\ Programs["summary"][9] = SkipIfError(8)
  /\ Programs["summary"][10] = TryOp("free_stderr_rethrow", 3)
  /\ Programs["summary"][11] = Op("walk")
  /\ Programs["summary"][12] = Op("end_try")
  /\ Programs["summary"][13] = Op("publish")
  /\ Programs["summary"][14] = Malloc("arena")
  /\ Programs["summary"][15] = Op("encode_or_free")
  /\ Programs["summary"][16] = Malloc("payload")
  /\ Programs["summary"][17] = Free("arena")
  /\ Programs["summary"][18] = Op("end_try")
  /\ Programs["summary"][19] = Op("exit")
  /\ Programs["summary"][20] = Op("return")
  BY DEF Programs, pg_query_summary, Call, Try, raw_parse, Walk, Publish, TryOp

-----------------------------------------------------------------------------
(* From every point of an outline to another one: one case per point. *)

\* From every point of the outline of pg_query_parse_opts,
\* the next operation, or the PG_CATCH its error goes to, leads to another one.
LEMMA ParseOutline ==
  ASSUME NEW p, NEW hs, NEW K,
         NEW q \in Inputs, NEW s \in SUBSET Settings, NEW st,
         At("parse", p, hs, K, q, s, st)
  PROVE  Sound("parse", p, hs, K, q, s, st)
<1> DEFINE Here(n, g, k, t) == AtParse(n, g, k, q, s, t)
<1>1. \A n, g, k, t : At("parse", n, g, k, q, s, t) <=> Here(n, g, k, t)
  BY DEF At
<1>2. \A n \in Nat : Live("parse", n) <=> 1 < n /\ n <= 13
  BY DEF Live, ExitAt
<1>3. CASE Begin(p, hs, K)
  <2>1. ~Live("parse", p) /\ Live("parse", p + 1)
    BY <1>3, <1>2 DEF Begin
  <2>2. At("parse", p + 1, hs, K, q, s, st)
    BY <1>3, <1>1 DEF AtParse, Begin, InRawParse
  <2> QED BY <1>3, <2>1, <2>2, ParseListing, SoundEnter DEF Begin
<1>4. CASE InRawParse(1, <<>>, p, hs, K, q, s, st) /\ p # 8
  <2>1. RawParseAt("parse", 1)
    BY ParseListing, <1>2 DEF RawParseAt
  <2>2. Contains("parse", 1, <<>>, q, s)
    BY <1>1 DEF AtParse, Contains
  <2>3. "parse" \in ParsingApis /\ 1 \in {1, 2} /\ p # 1 + 7
    BY <1>4 DEF ParsingApis
  <2> QED BY <1>4, <2>1, <2>2, <2>3, RawParseOutline
<1>5. CASE p = 8 /\ hs = <<>> /\ K = {"stderr"} /\ Accepted(q, s, st)
  <2>1. Goes("parse", p, p + 1, hs, K, q, s, st)
    BY <1>5, <1>1, <1>2 DEF AtParse, Goes, InRawParse
  <2>2. "error" \notin K
    BY <1>5
  <2> QED BY <1>5, <2>1, <2>2, ParseListing, SoundNoSkip
<1>6. CASE p = 8 /\ hs = <<>> /\ K = {"error"} /\ Rejected(q, s, st)
  <2>1. Goes("parse", p, p + 1 + 4, hs, K, q, s, st)
    BY <1>6, <1>1, <1>2 DEF AtParse, Goes, InRawParse
  <2>2. "error" \in K
    BY <1>6
  <2> QED BY <1>6, <2>1, <2>2, ParseListing, SoundSkip
<1>7. CASE p = 9 /\ hs = <<>> /\ K = {"stderr"} /\ Accepted(q, s, st)
  <2>1. Append(hs, Handler("report", p + 4, K)) = <<Report(13, {"stderr"})>>
    BY <1>7, Stacks DEF Report
  <2>2. Live("parse", p)
    BY <1>7, <1>2
  <2>3. Goes("parse", p, p + 1, Append(hs, Handler("report", p + 4, K)), K, q,
          s, st)
    BY <1>7, <1>1, <1>2, <2>1 DEF AtParse, Goes, InRawParse
  <2> QED BY <1>7, <2>2, <2>3, ParseListing, SoundTry
<1>8. CASE p = 10 /\ hs = <<Report(13, {"stderr"})>> /\ K = {"stderr"}
       /\ Accepted(q, s, st)
  <2>1. Raises("walk", q, st) = "none" =>
          Goes("parse", p, p + 1, hs, K, q, s, st)
    BY <1>8, <1>1, <1>2, Errors DEF AtParse, Goes
  <2>2. ASSUME Raises("walk", q, st) # "none"
        PROVE  Unwinds("parse", hs, K, Raises("walk", q, st), q, s, st)
    <3>1. Live("parse", 13) /\ At("parse", 13, <<>>,
            {"stderr"} \union {"error"}, q, s, st)
      BY <1>8, <2>2, <1>1, <1>2, Errors DEF AtParse
    <3>2. /\ hs # <<>> /\ LastOf(hs) = Report(13, {"stderr"})
          /\ FrontOf(hs) = <<>> /\ K = {"stderr"}
      BY <1>8, Stacks
    <3> QED BY <3>1, <3>2, UnwindsReport
  <2>3. Live("parse", p)
    BY <1>8, <1>2
  <2> QED BY <1>8, <2>1, <2>2, <2>3, ParseListing, SoundFallible DEF Fallible
<1>9. CASE p = 11 /\ hs = <<Report(13, {"stderr"})>> /\ K = {"stderr"}
       /\ Accepted(q, s, st) /\ WalkError(q) # "stack"
  <2>1. Goes("parse", p, p + 1, hs, K \union {"payload"}, q, s, st)
    BY <1>9, <1>1, <1>2 DEF AtParse, Goes
  <2>2. "payload" \notin K
    BY <1>9
  <2> QED BY <1>9, <2>1, <2>2, ParseListing, SoundMalloc
<1>10. CASE p = 12 /\ hs = <<Report(13, {"stderr"})>>
       /\ K = {"stderr", "payload"} /\ Accepted(q, s, st)
       /\ WalkError(q) # "stack"
  <2>1. FrontOf(hs) = <<>>
    BY <1>10, Stacks
  <2>2. Goes("parse", p, p + 1, FrontOf(hs), K, q, s, st)
    BY <1>10, <1>1, <1>2, <2>1 DEF AtParse, Goes
  <2> QED BY <1>10, <2>2, ParseListing, SoundEndTry
<1>11. CASE p = 13 /\ hs = <<>> /\ K = {"stderr", "payload"}
       /\ Accepted(q, s, st) /\ WalkError(q) # "stack"
  <2>1. Live("parse", p) /\ ~Live("parse", p + 1)
    BY <1>11, <1>2
  <2>2. At("parse", p + 1, hs, K, q, s, st)
    BY <1>11, <1>1 DEF AtParse
  <2> QED BY <1>11, <2>1, <2>2, ParseListing, SoundExit
<1>12. CASE p = 14 /\ hs = <<>> /\ K = {"stderr", "payload"}
       /\ Accepted(q, s, st) /\ WalkError(q) # "stack"
  <2>1. ~Fails("parse", q, s)
    BY <1>12, InputAssumption DEF Fails, Accepted, Rejected
  <2>2. Returns("parse", p, hs, K, q, s, st)
    BY <1>12, <1>2, <2>1 DEF Returns, Answered, Released, ParsingApis,
       Accepted, Rejected
  <2> QED BY <1>12, <2>2, ParseListing, SoundReturn
<1>13. CASE p = 13 /\ hs = <<>> /\ K = {"stderr", "error"}
       /\ Accepted(q, s, st) /\ WalkError(q) = "stack"
  <2>1. Live("parse", p) /\ ~Live("parse", p + 1)
    BY <1>13, <1>2
  <2>2. At("parse", p + 1, hs, K, q, s, st)
    BY <1>13, <1>1 DEF AtParse
  <2> QED BY <1>13, <2>1, <2>2, ParseListing, SoundExit
<1>14. CASE p = 14 /\ hs = <<>> /\ K = {"stderr", "error"}
       /\ Accepted(q, s, st) /\ WalkError(q) = "stack"
  <2>1. Fails("parse", q, s)
    BY <1>14, InputAssumption DEF Fails, Accepted, Rejected
  <2>2. Returns("parse", p, hs, K, q, s, st)
    BY <1>14, <1>2, <2>1 DEF Returns, Answered, Released, ParsingApis,
       Accepted, Rejected
  <2> QED BY <1>14, <2>2, ParseListing, SoundReturn
<1>15. CASE p = 13 /\ hs = <<>> /\ K = {"error"} /\ Rejected(q, s, st)
  <2>1. Live("parse", p) /\ ~Live("parse", p + 1)
    BY <1>15, <1>2
  <2>2. At("parse", p + 1, hs, K, q, s, st)
    BY <1>15, <1>1 DEF AtParse
  <2> QED BY <1>15, <2>1, <2>2, ParseListing, SoundExit
<1>16. CASE p = 14 /\ hs = <<>> /\ K = {"error"} /\ Rejected(q, s, st)
  <2>1. Fails("parse", q, s)
    BY <1>16, InputAssumption DEF Fails, Accepted, Rejected
  <2>2. Returns("parse", p, hs, K, q, s, st)
    BY <1>16, <1>2, <2>1 DEF Returns, Answered, Released, ParsingApis,
       Accepted, Rejected
  <2> QED BY <1>16, <2>2, ParseListing, SoundReturn
<1> QED BY <1>1, <1>3, <1>4, <1>5, <1>6, <1>7, <1>8, <1>9, <1>10, <1>11,
    <1>12, <1>13, <1>14, <1>15, <1>16 DEF AtParse, InRawParse

\* From every point of the outline of pg_query_parse_protobuf_opts,
\* the next operation, or the PG_CATCH its error goes to, leads to another one.
LEMMA ParseProtobufOutline ==
  ASSUME NEW p, NEW hs, NEW K,
         NEW q \in Inputs, NEW s \in SUBSET Settings, NEW st,
         At("parse_protobuf", p, hs, K, q, s, st)
  PROVE  Sound("parse_protobuf", p, hs, K, q, s, st)
<1> DEFINE Here(n, g, k, t) == AtParseProtobuf(n, g, k, q, s, t)
<1>1. \A n, g, k, t : At("parse_protobuf", n, g, k, q, s, t) <=> Here(n, g, k,
        t)
  BY DEF At
<1>2. \A n \in Nat : Live("parse_protobuf", n) <=> 1 < n /\ n <= 18
  BY DEF Live, ExitAt
<1>3. CASE Begin(p, hs, K)
  <2>1. ~Live("parse_protobuf", p) /\ Live("parse_protobuf", p + 1)
    BY <1>3, <1>2 DEF Begin
  <2>2. At("parse_protobuf", p + 1, hs, K, q, s, st)
    BY <1>3, <1>1 DEF AtParseProtobuf, Begin, InRawParse
  <2> QED BY <1>3, <2>1, <2>2, ParseProtobufListing, SoundEnter DEF Begin
<1>4. CASE InRawParse(1, <<>>, p, hs, K, q, s, st) /\ p # 8
  <2>1. RawParseAt("parse_protobuf", 1)
    BY ParseProtobufListing, <1>2 DEF RawParseAt
  <2>2. Contains("parse_protobuf", 1, <<>>, q, s)
    BY <1>1 DEF AtParseProtobuf, Contains
  <2>3. "parse_protobuf" \in ParsingApis /\ 1 \in {1, 2} /\ p # 1 + 7
    BY <1>4 DEF ParsingApis
  <2> QED BY <1>4, <2>1, <2>2, <2>3, RawParseOutline
<1>5. CASE p = 8 /\ hs = <<>> /\ K = {"stderr"} /\ Accepted(q, s, st)
  <2>1. Goes("parse_protobuf", p, p + 1, hs, K, q, s, st)
    BY <1>5, <1>1, <1>2 DEF AtParseProtobuf, Goes, InRawParse
  <2>2. "error" \notin K
    BY <1>5
  <2> QED BY <1>5, <2>1, <2>2, ParseProtobufListing, SoundNoSkip
<1>6. CASE p = 8 /\ hs = <<>> /\ K = {"error"} /\ Rejected(q, s, st)
  <2>1. Goes("parse_protobuf", p, p + 1 + 9, hs, K, q, s, st)
    BY <1>6, <1>1, <1>2 DEF AtParseProtobuf, Goes, InRawParse
  <2>2. "error" \in K
    BY <1>6
  <2> QED BY <1>6, <2>1, <2>2, ParseProtobufListing, SoundSkip
<1>7. CASE p = 9 /\ hs = <<>> /\ K = {"stderr"} /\ Accepted(q, s, st)
  <2>1. Append(hs, Handler("report", p + 9, K)) = <<Report(18, {"stderr"})>>
    BY <1>7, Stacks DEF Report
  <2>2. Live("parse_protobuf", p)
    BY <1>7, <1>2
  <2>3. Goes("parse_protobuf", p, p + 1, Append(hs, Handler("report", p + 9,
          K)), K, q, s, st)
    BY <1>7, <1>1, <1>2, <2>1 DEF AtParseProtobuf, Goes, InRawParse
  <2> QED BY <1>7, <2>2, <2>3, ParseProtobufListing, SoundTry
<1>8. CASE p = 10 /\ hs = <<Report(18, {"stderr"})>> /\ K = {"stderr"}
       /\ Accepted(q, s, st)
  <2>1. Goes("parse_protobuf", p, p + 1, hs, K \union {"arena"}, q, s, st)
    BY <1>8, <1>1, <1>2 DEF AtParseProtobuf, Goes
  <2>2. "arena" \notin K
    BY <1>8
  <2> QED BY <1>8, <2>1, <2>2, ParseProtobufListing, SoundMalloc
<1>9. CASE p = 11 /\ hs = <<Report(18, {"stderr"})>> /\ K = {"stderr", "arena"}
       /\ Accepted(q, s, st)
  <2> DEFINE g == Report(18, {"stderr"})
             h == Handler("free_arena_rethrow", 14, {"stderr", "arena"})
  <2>1. Handler("free_arena_rethrow", p + 3, K) = h
    BY <1>9
  <2>2. At("parse_protobuf", p + 1, <<g, h>>, K, q, s, st)
    BY <1>9, <1>1 DEF AtParseProtobuf
  <2>3. hs = <<g>>
    BY <1>9
  <2> HIDE DEF g, h
  <2>4. Append(<<g>>, h) = <<g, h>>
    BY Stacks
  <2>5. Live("parse_protobuf", p)
    BY <1>9, <1>2
  <2>6. Append(hs, Handler("free_arena_rethrow", p + 3, K)) = <<g, h>>
    BY <2>1, <2>3, <2>4
  <2>7. Live("parse_protobuf", p + 1)
    BY <1>9, <1>2
  <2>8. Goes("parse_protobuf", p, p + 1, Append(hs,
          Handler("free_arena_rethrow", p + 3, K)), K, q, s, st)
    BY <2>2, <2>5, <2>6, <2>7 DEF Goes
  <2> QED BY <1>9, <2>5, <2>8, ParseProtobufListing, SoundTry
<1>10. CASE p = 12
       /\ hs = <<Report(18, {"stderr"}), Handler("free_arena_rethrow", 14,
            {"stderr", "arena"})>>
       /\ K = {"stderr", "arena"} /\ Accepted(q, s, st)
  <2>1. Raises("walk", q, st) = "none" =>
          Goes("parse_protobuf", p, p + 1, hs, K, q, s, st)
    BY <1>10, <1>1, <1>2, Errors DEF AtParseProtobuf, Goes
  <2>2. ASSUME Raises("walk", q, st) # "none"
        PROVE  Unwinds("parse_protobuf", hs, K, Raises("walk", q, st), q, s,
                 st)
    <3>1. Live("parse_protobuf", 18) /\ At("parse_protobuf", 18, <<>>,
            {"stderr"} \union {"error"}, q, s, st)
      BY <1>10, <2>2, <1>1, <1>2, Errors DEF AtParseProtobuf
    <3>2. K \ {"arena"} = {"stderr"}
      BY <1>10
    <3> QED BY <1>10, <3>1, <3>2, UnwindsArenaRethrow
  <2>3. Live("parse_protobuf", p)
    BY <1>10, <1>2
  <2> QED BY <1>10, <2>1, <2>2, <2>3, ParseProtobufListing,
        SoundFallible DEF Fallible
<1>11. CASE p = 13
       /\ hs = <<Report(18, {"stderr"}), Handler("free_arena_rethrow", 14,
            {"stderr", "arena"})>>
       /\ K = {"stderr", "arena"} /\ Accepted(q, s, st)
       /\ WalkError(q) # "stack"
  <2>1. FrontOf(hs) = <<Report(18, {"stderr"})>>
    BY <1>11, Stacks
  <2>2. Goes("parse_protobuf", p, p + 1, FrontOf(hs), K, q, s, st)
    BY <1>11, <1>1, <1>2, <2>1 DEF AtParseProtobuf, Goes
  <2> QED BY <1>11, <2>2, ParseProtobufListing, SoundEndTry
<1>12. CASE p = 14 /\ hs = <<Report(18, {"stderr"})>>
       /\ K = {"stderr", "arena"} /\ Accepted(q, s, st)
       /\ WalkError(q) # "stack"
  <2>1. Raises("encode_or_free", q, st) = "none" =>
          Goes("parse_protobuf", p, p + 1, hs, K, q, s, st)
    BY <1>12, <1>1, <1>2, Errors DEF AtParseProtobuf, Goes
  <2>2. ASSUME Raises("encode_or_free", q, st) # "none"
        PROVE  Unwinds("parse_protobuf", hs, K \ {"arena"},
                 Raises("encode_or_free", q, st), q, s, st)
    <3>1. Live("parse_protobuf", 18) /\ At("parse_protobuf", 18, <<>>,
            {"stderr"} \union {"error"}, q, s, st)
      BY <1>12, <2>2, <1>1, <1>2, Errors DEF AtParseProtobuf
    <3>2. /\ hs # <<>> /\ LastOf(hs) = Report(18, {"stderr"})
          /\ FrontOf(hs) = <<>> /\ K \ {"arena"} = {"stderr"}
      BY <1>12, Stacks
    <3> QED BY <3>1, <3>2, UnwindsReport
  <2>3. Live("parse_protobuf", p)
    BY <1>12, <1>2
  <2> QED BY <1>12, <2>1, <2>2, <2>3, ParseProtobufListing,
        SoundDecode DEF Fallible
<1>13. CASE p = 15 /\ hs = <<Report(18, {"stderr"})>>
       /\ K = {"stderr", "arena"} /\ Accepted(q, s, st)
       /\ WalkError(q) # "stack" /\ Encodes(q)
  <2>1. Goes("parse_protobuf", p, p + 1, hs, K \union {"payload"}, q, s, st)
    BY <1>13, <1>1, <1>2 DEF AtParseProtobuf, Goes
  <2>2. "payload" \notin K
    BY <1>13
  <2> QED BY <1>13, <2>1, <2>2, ParseProtobufListing, SoundMalloc
<1>14. CASE p = 16 /\ hs = <<Report(18, {"stderr"})>>
       /\ K = {"stderr", "arena", "payload"} /\ Accepted(q, s, st)
       /\ WalkError(q) # "stack" /\ Encodes(q)
  <2>1. Goes("parse_protobuf", p, p + 1, hs, K \ {"arena"}, q, s, st)
    BY <1>14, <1>1, <1>2 DEF AtParseProtobuf, Goes
  <2> QED BY <1>14, <2>1, ParseProtobufListing, SoundFree
<1>15. CASE p = 17 /\ hs = <<Report(18, {"stderr"})>>
       /\ K = {"stderr", "payload"} /\ Accepted(q, s, st)
       /\ WalkError(q) # "stack" /\ Encodes(q)
  <2>1. FrontOf(hs) = <<>>
    BY <1>15, Stacks
  <2>2. Goes("parse_protobuf", p, p + 1, FrontOf(hs), K, q, s, st)
    BY <1>15, <1>1, <1>2, <2>1 DEF AtParseProtobuf, Goes
  <2> QED BY <1>15, <2>2, ParseProtobufListing, SoundEndTry
<1>16. CASE p = 18 /\ hs = <<>> /\ K = {"stderr", "payload"}
       /\ Accepted(q, s, st) /\ WalkError(q) # "stack" /\ Encodes(q)
  <2>1. Live("parse_protobuf", p) /\ ~Live("parse_protobuf", p + 1)
    BY <1>16, <1>2
  <2>2. At("parse_protobuf", p + 1, hs, K, q, s, st)
    BY <1>16, <1>1 DEF AtParseProtobuf
  <2> QED BY <1>16, <2>1, <2>2, ParseProtobufListing, SoundExit
<1>17. CASE p = 19 /\ hs = <<>> /\ K = {"stderr", "payload"}
       /\ Accepted(q, s, st) /\ WalkError(q) # "stack" /\ Encodes(q)
  <2>1. ~Fails("parse_protobuf", q, s)
    BY <1>17, InputAssumption DEF Fails, Accepted, Rejected
  <2>2. Returns("parse_protobuf", p, hs, K, q, s, st)
    BY <1>17, <1>2, <2>1 DEF Returns, Answered, Released, ParsingApis,
       Accepted, Rejected
  <2> QED BY <1>17, <2>2, ParseProtobufListing, SoundReturn
<1>18. CASE p = 18 /\ hs = <<>> /\ K = {"stderr", "error"}
       /\ Accepted(q, s, st) /\ (WalkError(q) = "stack" \/ ~Encodes(q))
  <2>1. Live("parse_protobuf", p) /\ ~Live("parse_protobuf", p + 1)
    BY <1>18, <1>2
  <2>2. At("parse_protobuf", p + 1, hs, K, q, s, st)
    BY <1>18, <1>1 DEF AtParseProtobuf
  <2> QED BY <1>18, <2>1, <2>2, ParseProtobufListing, SoundExit
<1>19. CASE p = 19 /\ hs = <<>> /\ K = {"stderr", "error"}
       /\ Accepted(q, s, st) /\ (WalkError(q) = "stack" \/ ~Encodes(q))
  <2>1. Fails("parse_protobuf", q, s)
    BY <1>19, InputAssumption DEF Fails, Accepted, Rejected
  <2>2. Returns("parse_protobuf", p, hs, K, q, s, st)
    BY <1>19, <1>2, <2>1 DEF Returns, Answered, Released, ParsingApis,
       Accepted, Rejected
  <2> QED BY <1>19, <2>2, ParseProtobufListing, SoundReturn
<1>20. CASE p = 18 /\ hs = <<>> /\ K = {"error"} /\ Rejected(q, s, st)
  <2>1. Live("parse_protobuf", p) /\ ~Live("parse_protobuf", p + 1)
    BY <1>20, <1>2
  <2>2. At("parse_protobuf", p + 1, hs, K, q, s, st)
    BY <1>20, <1>1 DEF AtParseProtobuf
  <2> QED BY <1>20, <2>1, <2>2, ParseProtobufListing, SoundExit
<1>21. CASE p = 19 /\ hs = <<>> /\ K = {"error"} /\ Rejected(q, s, st)
  <2>1. Fails("parse_protobuf", q, s)
    BY <1>21, InputAssumption DEF Fails, Accepted, Rejected
  <2>2. Returns("parse_protobuf", p, hs, K, q, s, st)
    BY <1>21, <1>2, <2>1 DEF Returns, Answered, Released, ParsingApis,
       Accepted, Rejected
  <2> QED BY <1>21, <2>2, ParseProtobufListing, SoundReturn
<1> QED BY <1>1, <1>3, <1>4, <1>5, <1>6, <1>7, <1>8, <1>9, <1>10, <1>11,
    <1>12, <1>13, <1>14, <1>15, <1>16, <1>17, <1>18, <1>19, <1>20,
    <1>21 DEF AtParseProtobuf, InRawParse

\* From every point of the outline of pg_query_fingerprint_opts
\* and pg_query_split_with_parser,
\* the next operation, or the PG_CATCH its error goes to, leads to another one.
LEMMA FingerprintOutline ==
  ASSUME NEW a \in {"fingerprint", "split_parser"}, NEW p, NEW hs, NEW K,
         NEW q \in Inputs, NEW s \in SUBSET Settings, NEW st,
         At(a, p, hs, K, q, s, st)
  PROVE  Sound(a, p, hs, K, q, s, st)
<1> DEFINE Here(n, g, k, t) == AtFingerprint(n, g, k, q, s, t)
<1>1. \A n, g, k, t : At(a, n, g, k, q, s, t) <=> Here(n, g, k, t)
  BY DEF At
<1>2. \A n \in Nat : Live(a, n) <=> 1 < n /\ n <= 10
  BY DEF Live, ExitAt
<1>3. /\ Programs[a][1] = Op("enter")
      /\ Programs[a][2] = TryOp("report", 6)
      /\ Programs[a][3] = Op("set_settings")
      /\ Programs[a][4] = Op("parse")
      /\ Programs[a][5] = Op("reset_settings")
      /\ Programs[a][6] = Malloc("stderr")
      /\ Programs[a][7] = Op("end_try")
      /\ Programs[a][8] = SkipIfError(1)
      /\ Programs[a][9] = Malloc("payload")
      /\ Programs[a][10] = Op("exit")
      /\ Programs[a][11] = Op("return")
  BY FingerprintListing, SplitParserListing
<1>4. CASE Begin(p, hs, K)
  <2>1. ~Live(a, p) /\ Live(a, p + 1)
    BY <1>4, <1>2 DEF Begin
  <2>2. At(a, p + 1, hs, K, q, s, st)
    BY <1>4, <1>1 DEF AtFingerprint, Begin, InRawParse
  <2> QED BY <1>4, <2>1, <2>2, <1>3, SoundEnter DEF Begin
<1>5. CASE InRawParse(1, <<>>, p, hs, K, q, s, st) /\ p # 8
  <2>1. RawParseAt(a, 1)
    BY <1>3, <1>2 DEF RawParseAt
  <2>2. Contains(a, 1, <<>>, q, s)
    BY <1>1 DEF AtFingerprint, Contains
  <2>3. a \in ParsingApis /\ 1 \in {1, 2} /\ p # 1 + 7
    BY <1>5 DEF ParsingApis
  <2> QED BY <1>5, <2>1, <2>2, <2>3, RawParseOutline
<1>6. CASE p = 8 /\ hs = <<>> /\ K = {"stderr"} /\ Accepted(q, s, st)
  <2>1. Goes(a, p, p + 1, hs, K, q, s, st)
    BY <1>6, <1>1, <1>2 DEF AtFingerprint, Goes, InRawParse
  <2>2. "error" \notin K
    BY <1>6
  <2> QED BY <1>6, <2>1, <2>2, <1>3, SoundNoSkip
<1>7. CASE p = 8 /\ hs = <<>> /\ K = {"error"} /\ Rejected(q, s, st)
  <2>1. Goes(a, p, p + 1 + 1, hs, K, q, s, st)
    BY <1>7, <1>1, <1>2 DEF AtFingerprint, Goes, InRawParse
  <2>2. "error" \in K
    BY <1>7
  <2> QED BY <1>7, <2>1, <2>2, <1>3, SoundSkip
<1>8. CASE p = 9 /\ hs = <<>> /\ K = {"stderr"} /\ Accepted(q, s, st)
  <2>1. Goes(a, p, p + 1, hs, K \union {"payload"}, q, s, st)
    BY <1>8, <1>1, <1>2 DEF AtFingerprint, Goes, InRawParse
  <2>2. "payload" \notin K
    BY <1>8
  <2> QED BY <1>8, <2>1, <2>2, <1>3, SoundMalloc
<1>9. CASE p = 10 /\ hs = <<>> /\ K = {"stderr", "payload"}
       /\ Accepted(q, s, st)
  <2>1. Live(a, p) /\ ~Live(a, p + 1)
    BY <1>9, <1>2
  <2>2. At(a, p + 1, hs, K, q, s, st)
    BY <1>9, <1>1 DEF AtFingerprint
  <2> QED BY <1>9, <2>1, <2>2, <1>3, SoundExit
<1>10. CASE p = 11 /\ hs = <<>> /\ K = {"stderr", "payload"}
       /\ Accepted(q, s, st)
  <2>1. ~Fails(a, q, s)
    BY <1>10, InputAssumption DEF Fails, Accepted, Rejected
  <2>2. Returns(a, p, hs, K, q, s, st)
    BY <1>10, <1>2, <2>1 DEF Returns, Answered, Released, ParsingApis,
       Accepted, Rejected
  <2> QED BY <1>10, <2>2, <1>3, SoundReturn
<1>11. CASE p = 10 /\ hs = <<>> /\ K = {"error"} /\ Rejected(q, s, st)
  <2>1. Live(a, p) /\ ~Live(a, p + 1)
    BY <1>11, <1>2
  <2>2. At(a, p + 1, hs, K, q, s, st)
    BY <1>11, <1>1 DEF AtFingerprint
  <2> QED BY <1>11, <2>1, <2>2, <1>3, SoundExit
<1>12. CASE p = 11 /\ hs = <<>> /\ K = {"error"} /\ Rejected(q, s, st)
  <2>1. Fails(a, q, s)
    BY <1>12, InputAssumption DEF Fails, Accepted, Rejected
  <2>2. Returns(a, p, hs, K, q, s, st)
    BY <1>12, <1>2, <2>1 DEF Returns, Answered, Released, ParsingApis,
       Accepted, Rejected
  <2> QED BY <1>12, <2>2, <1>3, SoundReturn
<1> QED BY <1>1, <1>4, <1>5, <1>6, <1>7, <1>8, <1>9, <1>10, <1>11,
    <1>12 DEF AtFingerprint, InRawParse

\* From every point of the outline of pg_query_normalize,
\* the next operation, or the PG_CATCH its error goes to, leads to another one.
LEMMA NormalizeOutline ==
  ASSUME NEW p, NEW hs, NEW K,
         NEW q \in Inputs, NEW s \in SUBSET Settings, NEW st,
         At("normalize", p, hs, K, q, s, st)
  PROVE  Sound("normalize", p, hs, K, q, s, st)
<1> DEFINE Here(n, g, k, t) == AtNormalize(n, g, k, q, s, t)
<1>1. \A n, g, k, t : At("normalize", n, g, k, q, s, t) <=> Here(n, g, k, t)
  BY DEF At
<1>2. \A n \in Nat : Live("normalize", n) <=> 1 < n /\ n <= 9
  BY DEF Live, ExitAt
<1>3. CASE Begin(p, hs, K)
  <2>1. ~Live("normalize", p) /\ Live("normalize", p + 1)
    BY <1>3, <1>2 DEF Begin
  <2>2. At("normalize", p + 1, hs, K, q, s, st)
    BY <1>3, <1>1 DEF AtNormalize, Begin
  <2> QED BY <1>3, <2>1, <2>2, NormalizeListing, SoundEnter DEF Begin
<1>4. CASE p = 2 /\ hs = <<>> /\ K = {} /\ st = s
  <2>1. Append(hs, Handler("report", p + 7, K)) = <<Report(9, {})>>
    BY <1>4, Stacks DEF Report
  <2>2. Live("normalize", p)
    BY <1>4, <1>2
  <2>3. Goes("normalize", p, p + 1, Append(hs, Handler("report", p + 7, K)),
          K, q, s, st)
    BY <1>4, <1>1, <1>2, <2>1 DEF AtNormalize, Goes
  <2> QED BY <1>4, <2>2, <2>3, NormalizeListing, SoundTry
<1>5. CASE p = 3 /\ hs = <<Report(9, {})>> /\ K = {} /\ st = s
  <2>1. Raises("parse", q, st) = "none" =>
          Goes("normalize", p, p + 1, hs, K, q, s, st)
    BY <1>5, <1>1, <1>2, Errors DEF AtNormalize, Goes
  <2>2. ASSUME Raises("parse", q, st) # "none"
        PROVE  Unwinds("normalize", hs, K, Raises("parse", q, st), q, s, st)
    <3>1. Live("normalize", 9) /\ At("normalize", 9, <<>>,
            {} \union {"error"}, q, s, st)
      BY <1>5, <2>2, <1>1, <1>2, Errors DEF AtNormalize
    <3>2. /\ hs # <<>> /\ LastOf(hs) = Report(9, {})
          /\ FrontOf(hs) = <<>> /\ K = {}
      BY <1>5, Stacks
    <3> QED BY <3>1, <3>2, UnwindsReport
  <2>3. Live("normalize", p)
    BY <1>5, <1>2
  <2> QED BY <1>5, <2>1, <2>2, <2>3, NormalizeListing,
        SoundFallible DEF Fallible
<1>6. CASE p = 4 /\ hs = <<Report(9, {})>> /\ K = {} /\ Parses(q, s) /\ st = s
  <2> DEFINE g == Report(9, {})
             h == Handler("swallow_unless_stack", 7, {})
  <2>1. Handler("swallow_unless_stack", p + 3, K) = h
    BY <1>6
  <2>2. At("normalize", p + 1, <<g, h>>, K, q, s, st)
    BY <1>6, <1>1 DEF AtNormalize
  <2>3. hs = <<g>>
    BY <1>6
  <2> HIDE DEF g, h
  <2>4. Append(<<g>>, h) = <<g, h>>
    BY Stacks
  <2>5. Live("normalize", p)
    BY <1>6, <1>2
  <2>6. Append(hs, Handler("swallow_unless_stack", p + 3, K)) = <<g, h>>
    BY <2>1, <2>3, <2>4
  <2>7. Live("normalize", p + 1)
    BY <1>6, <1>2
  <2>8. Goes("normalize", p, p + 1, Append(hs, Handler("swallow_unless_stack",
          p + 3, K)), K, q, s, st)
    BY <2>2, <2>5, <2>6, <2>7 DEF Goes
  <2> QED BY <1>6, <2>5, <2>8, NormalizeListing, SoundTry
<1>7. CASE p = 5
       /\ hs = <<Report(9, {}), Handler("swallow_unless_stack", 7, {})>>
       /\ K = {} /\ Parses(q, s) /\ st = s
  <2>1. Raises("raw_walk", q, st) = "none" =>
          Goes("normalize", p, p + 1, hs, K, q, s, st)
    BY <1>7, <1>1, <1>2, Errors DEF AtNormalize, Goes
  <2>2. ASSUME Raises("raw_walk", q, st) # "none"
        PROVE  Unwinds("normalize", hs, K, Raises("raw_walk", q, st), q, s, st)
    <3>1. CASE WalkError(q) = "stack"
      <4>1. Live("normalize", 9) /\ At("normalize", 9, <<>>,
              {} \union {"error"}, q, s, st)
        BY <1>7, <3>1, <1>1, <1>2 DEF AtNormalize
      <4> QED BY <1>7, <3>1, <4>1, Errors, UnwindsStackRethrow
    <3>2. CASE WalkError(q) # "stack"
      <4>1. Live("normalize", 7) /\ At("normalize", 7, <<Report(9, {})>>, {},
              q, s, st)
        BY <1>7, <3>2, <1>1, <1>2 DEF AtNormalize
      <4> QED BY <1>7, <3>2, <4>1, Errors, UnwindsSwallowUnlessStack
    <3> QED BY <3>1, <3>2
  <2>3. Live("normalize", p)
    BY <1>7, <1>2
  <2> QED BY <1>7, <2>1, <2>2, <2>3, NormalizeListing,
        SoundFallible DEF Fallible
<1>8. CASE p = 6
       /\ hs = <<Report(9, {}), Handler("swallow_unless_stack", 7, {})>>
       /\ K = {} /\ Parses(q, s) /\ WalkError(q) # "stack" /\ st = s
  <2>1. FrontOf(hs) = <<Report(9, {})>>
    BY <1>8, Stacks
  <2>2. Goes("normalize", p, p + 1, FrontOf(hs), K, q, s, st)
    BY <1>8, <1>1, <1>2, <2>1 DEF AtNormalize, Goes
  <2> QED BY <1>8, <2>2, NormalizeListing, SoundEndTry
<1>9. CASE p = 7 /\ hs = <<Report(9, {})>> /\ K = {} /\ Parses(q, s)
       /\ WalkError(q) # "stack" /\ st = s
  <2>1. Goes("normalize", p, p + 1, hs, K \union {"payload"}, q, s, st)
    BY <1>9, <1>1, <1>2 DEF AtNormalize, Goes
  <2>2. "payload" \notin K
    BY <1>9
  <2> QED BY <1>9, <2>1, <2>2, NormalizeListing, SoundMalloc
<1>10. CASE p = 8 /\ hs = <<Report(9, {})>> /\ K = {"payload"} /\ Parses(q, s)
       /\ WalkError(q) # "stack" /\ st = s
  <2>1. FrontOf(hs) = <<>>
    BY <1>10, Stacks
  <2>2. Goes("normalize", p, p + 1, FrontOf(hs), K, q, s, st)
    BY <1>10, <1>1, <1>2, <2>1 DEF AtNormalize, Goes
  <2> QED BY <1>10, <2>2, NormalizeListing, SoundEndTry
<1>11. CASE p = 9 /\ hs = <<>> /\ K = {"payload"} /\ Parses(q, s)
       /\ WalkError(q) # "stack" /\ st = s
  <2>1. Live("normalize", p) /\ ~Live("normalize", p + 1)
    BY <1>11, <1>2
  <2>2. At("normalize", p + 1, hs, K, q, s, st)
    BY <1>11, <1>1 DEF AtNormalize
  <2> QED BY <1>11, <2>1, <2>2, NormalizeListing, SoundExit
<1>12. CASE p = 10 /\ hs = <<>> /\ K = {"payload"} /\ Parses(q, s)
       /\ WalkError(q) # "stack" /\ st = s
  <2>1. ~Fails("normalize", q, s)
    BY <1>12, InputAssumption DEF Fails
  <2>2. Returns("normalize", p, hs, K, q, s, st)
    BY <1>12, <1>2, <2>1 DEF Returns, Answered, Released, ParsingApis
  <2> QED BY <1>12, <2>2, NormalizeListing, SoundReturn
<1>13. CASE p = 9 /\ hs = <<>> /\ K = {"error"}
       /\ (~Parses(q, s) \/ WalkError(q) = "stack") /\ st = s
  <2>1. Live("normalize", p) /\ ~Live("normalize", p + 1)
    BY <1>13, <1>2
  <2>2. At("normalize", p + 1, hs, K, q, s, st)
    BY <1>13, <1>1 DEF AtNormalize
  <2> QED BY <1>13, <2>1, <2>2, NormalizeListing, SoundExit
<1>14. CASE p = 10 /\ hs = <<>> /\ K = {"error"}
       /\ (~Parses(q, s) \/ WalkError(q) = "stack") /\ st = s
  <2>1. Fails("normalize", q, s)
    BY <1>14, InputAssumption DEF Fails
  <2>2. Returns("normalize", p, hs, K, q, s, st)
    BY <1>14, <1>2, <2>1 DEF Returns, Answered, Released, ParsingApis
  <2> QED BY <1>14, <2>2, NormalizeListing, SoundReturn
<1> QED BY <1>1, <1>3, <1>4, <1>5, <1>6, <1>7, <1>8, <1>9, <1>10, <1>11,
    <1>12, <1>13, <1>14 DEF AtNormalize

\* From every point of the outline of pg_query_scan,
\* the next operation, or the PG_CATCH its error goes to, leads to another one.
LEMMA ScanOutline ==
  ASSUME NEW p, NEW hs, NEW K,
         NEW q \in Inputs, NEW s \in SUBSET Settings, NEW st,
         At("scan", p, hs, K, q, s, st)
  PROVE  Sound("scan", p, hs, K, q, s, st)
<1> DEFINE Here(n, g, k, t) == AtScan(n, g, k, q, s, t)
<1>1. \A n, g, k, t : At("scan", n, g, k, q, s, t) <=> Here(n, g, k, t)
  BY DEF At
<1>2. \A n \in Nat : Live("scan", n) <=> 1 < n /\ n <= 10
  BY DEF Live, ExitAt
<1>3. CASE Begin(p, hs, K)
  <2>1. ~Live("scan", p) /\ Live("scan", p + 1)
    BY <1>3, <1>2 DEF Begin
  <2>2. At("scan", p + 1, hs, K, q, s, st)
    BY <1>3, <1>1 DEF AtScan, Begin
  <2> QED BY <1>3, <2>1, <2>2, ScanListing, SoundEnter DEF Begin
<1>4. CASE p = 2 /\ hs = <<>> /\ K = {} /\ st = s
  <2>1. Append(hs, Handler("report_free_arena", p + 8,
          K)) = <<Handler("report_free_arena", 10, {})>>
    BY <1>4, Stacks
  <2>2. Live("scan", p)
    BY <1>4, <1>2
  <2>3. Goes("scan", p, p + 1, Append(hs, Handler("report_free_arena", p + 8,
          K)), K, q, s, st)
    BY <1>4, <1>1, <1>2, <2>1 DEF AtScan, Goes
  <2> QED BY <1>4, <2>2, <2>3, ScanListing, SoundTry
<1>5. CASE p = 3 /\ hs = <<Handler("report_free_arena", 10, {})>> /\ K = {}
       /\ st = s
  <2>1. Raises("scan", q, st) = "none" =>
          Goes("scan", p, p + 1, hs, K, q, s, st)
    BY <1>5, <1>1, <1>2, Errors DEF AtScan, Goes
  <2>2. ASSUME Raises("scan", q, st) # "none"
        PROVE  Unwinds("scan", hs, K, Raises("scan", q, st), q, s, st)
    <3>1. Live("scan", 10) /\ At("scan", 10, <<>>, {} \union {"error"}, q, s,
            st)
      BY <1>5, <2>2, <1>1, <1>2, Errors DEF AtScan
    <3>2. K \ {"arena"} = {}
      BY <1>5
    <3> QED BY <1>5, <3>1, <3>2, UnwindsFreeArena
  <2>3. Live("scan", p)
    BY <1>5, <1>2
  <2> QED BY <1>5, <2>1, <2>2, <2>3, ScanListing, SoundFallible DEF Fallible
<1>6. CASE p = 4 /\ hs = <<Handler("report_free_arena", 10, {})>> /\ K = {}
       /\ Scans(q, s) /\ st = s
  <2>1. Goes("scan", p, p + 1, hs, K \union {"arena"}, q, s, st)
    BY <1>6, <1>1, <1>2 DEF AtScan, Goes
  <2>2. "arena" \notin K
    BY <1>6
  <2> QED BY <1>6, <2>1, <2>2, ScanListing, SoundMalloc
<1>7. CASE p = 5 /\ hs = <<Handler("report_free_arena", 10, {})>>
       /\ K = {"arena"} /\ Scans(q, s) /\ st = s
  <2>1. Raises("encode", q, st) = "none" =>
          Goes("scan", p, p + 1, hs, K, q, s, st)
    BY <1>7, <1>1, <1>2, Errors DEF AtScan, Goes
  <2>2. ASSUME Raises("encode", q, st) # "none"
        PROVE  Unwinds("scan", hs, K, Raises("encode", q, st), q, s, st)
    <3>1. Live("scan", 10) /\ At("scan", 10, <<>>, {} \union {"error"}, q, s,
            st)
      BY <1>7, <2>2, <1>1, <1>2, Errors DEF AtScan
    <3>2. K \ {"arena"} = {}
      BY <1>7
    <3> QED BY <1>7, <3>1, <3>2, UnwindsFreeArena
  <2>3. Live("scan", p)
    BY <1>7, <1>2
  <2> QED BY <1>7, <2>1, <2>2, <2>3, ScanListing, SoundFallible DEF Fallible
<1>8. CASE p = 6 /\ hs = <<Handler("report_free_arena", 10, {})>>
       /\ K = {"arena"} /\ Scans(q, s) /\ Encodes(q) /\ st = s
  <2>1. Goes("scan", p, p + 1, hs, K \union {"payload"}, q, s, st)
    BY <1>8, <1>1, <1>2 DEF AtScan, Goes
  <2>2. "payload" \notin K
    BY <1>8
  <2> QED BY <1>8, <2>1, <2>2, ScanListing, SoundMalloc
<1>9. CASE p = 7 /\ hs = <<Handler("report_free_arena", 10, {})>>
       /\ K = {"arena", "payload"} /\ Scans(q, s) /\ Encodes(q) /\ st = s
  <2>1. Goes("scan", p, p + 1, hs, K \ {"arena"}, q, s, st)
    BY <1>9, <1>1, <1>2 DEF AtScan, Goes
  <2> QED BY <1>9, <2>1, ScanListing, SoundFree
<1>10. CASE p = 8 /\ hs = <<Handler("report_free_arena", 10, {})>>
       /\ K = {"payload"} /\ Scans(q, s) /\ Encodes(q) /\ st = s
  <2>1. Goes("scan", p, p + 1, hs, K \union {"stderr"}, q, s, st)
    BY <1>10, <1>1, <1>2 DEF AtScan, Goes
  <2>2. "stderr" \notin K
    BY <1>10
  <2> QED BY <1>10, <2>1, <2>2, ScanListing, SoundMalloc
<1>11. CASE p = 9 /\ hs = <<Handler("report_free_arena", 10, {})>>
       /\ K = {"payload", "stderr"} /\ Scans(q, s) /\ Encodes(q) /\ st = s
  <2>1. FrontOf(hs) = <<>>
    BY <1>11, Stacks
  <2>2. Goes("scan", p, p + 1, FrontOf(hs), K, q, s, st)
    BY <1>11, <1>1, <1>2, <2>1 DEF AtScan, Goes
  <2> QED BY <1>11, <2>2, ScanListing, SoundEndTry
<1>12. CASE p = 10 /\ hs = <<>> /\ K = {"payload", "stderr"} /\ Scans(q, s)
       /\ Encodes(q) /\ st = s
  <2>1. Live("scan", p) /\ ~Live("scan", p + 1)
    BY <1>12, <1>2
  <2>2. At("scan", p + 1, hs, K, q, s, st)
    BY <1>12, <1>1 DEF AtScan
  <2> QED BY <1>12, <2>1, <2>2, ScanListing, SoundExit
<1>13. CASE p = 11 /\ hs = <<>> /\ K = {"payload", "stderr"} /\ Scans(q, s)
       /\ Encodes(q) /\ st = s
  <2>1. ~Fails("scan", q, s)
    BY <1>13, InputAssumption DEF Fails
  <2>2. Returns("scan", p, hs, K, q, s, st)
    BY <1>13, <1>2, <2>1 DEF Returns, Answered, Released, ParsingApis
  <2> QED BY <1>13, <2>2, ScanListing, SoundReturn
<1>14. CASE p = 10 /\ hs = <<>> /\ K = {"error"}
       /\ (~Scans(q, s) \/ ~Encodes(q)) /\ st = s
  <2>1. Live("scan", p) /\ ~Live("scan", p + 1)
    BY <1>14, <1>2
  <2>2. At("scan", p + 1, hs, K, q, s, st)
    BY <1>14, <1>1 DEF AtScan
  <2> QED BY <1>14, <2>1, <2>2, ScanListing, SoundExit
<1>15. CASE p = 11 /\ hs = <<>> /\ K = {"error"}
       /\ (~Scans(q, s) \/ ~Encodes(q)) /\ st = s
  <2>1. Fails("scan", q, s)
    BY <1>15, InputAssumption DEF Fails
  <2>2. Returns("scan", p, hs, K, q, s, st)
    BY <1>15, <1>2, <2>1 DEF Returns, Answered, Released, ParsingApis
  <2> QED BY <1>15, <2>2, ScanListing, SoundReturn
<1> QED BY <1>1, <1>3, <1>4, <1>5, <1>6, <1>7, <1>8, <1>9, <1>10, <1>11,
    <1>12, <1>13, <1>14, <1>15 DEF AtScan

\* From every point of the outline of pg_query_scan_tokens,
\* the next operation, or the PG_CATCH its error goes to, leads to another one.
LEMMA ScanTokensOutline ==
  ASSUME NEW p, NEW hs, NEW K,
         NEW q \in Inputs, NEW s \in SUBSET Settings, NEW st,
         At("scan_tokens", p, hs, K, q, s, st)
  PROVE  Sound("scan_tokens", p, hs, K, q, s, st)
<1> DEFINE Here(n, g, k, t) == AtScanTokens(n, g, k, q, s, t)
<1>1. \A n, g, k, t : At("scan_tokens", n, g, k, q, s, t) <=> Here(n, g, k, t)
  BY DEF At
<1>2. \A n \in Nat : Live("scan_tokens", n) <=> 1 < n /\ n <= 6
  BY DEF Live, ExitAt
<1>3. CASE Begin(p, hs, K)
  <2>1. ~Live("scan_tokens", p) /\ Live("scan_tokens", p + 1)
    BY <1>3, <1>2 DEF Begin
  <2>2. At("scan_tokens", p + 1, hs, K, q, s, st)
    BY <1>3, <1>1 DEF AtScanTokens, Begin
  <2> QED BY <1>3, <2>1, <2>2, ScanTokensListing, SoundEnter DEF Begin
<1>4. CASE p = 2 /\ hs = <<>> /\ K = {} /\ st = s
  <2>1. Append(hs, Handler("report", p + 4, K)) = <<Report(6, {})>>
    BY <1>4, Stacks DEF Report
  <2>2. Live("scan_tokens", p)
    BY <1>4, <1>2
  <2>3. Goes("scan_tokens", p, p + 1, Append(hs, Handler("report", p + 4, K)),
          K, q, s, st)
    BY <1>4, <1>1, <1>2, <2>1 DEF AtScanTokens, Goes
  <2> QED BY <1>4, <2>2, <2>3, ScanTokensListing, SoundTry
<1>5. CASE p = 3 /\ hs = <<Report(6, {})>> /\ K = {} /\ st = s
  <2>1. Raises("scan", q, st) = "none" =>
          Goes("scan_tokens", p, p + 1, hs, K, q, s, st)
    BY <1>5, <1>1, <1>2, Errors DEF AtScanTokens, Goes
  <2>2. ASSUME Raises("scan", q, st) # "none"
        PROVE  Unwinds("scan_tokens", hs, K, Raises("scan", q, st), q, s, st)
    <3>1. Live("scan_tokens", 6) /\ At("scan_tokens", 6, <<>>,
            {} \union {"error"}, q, s, st)
      BY <1>5, <2>2, <1>1, <1>2, Errors DEF AtScanTokens
    <3>2. /\ hs # <<>> /\ LastOf(hs) = Report(6, {})
          /\ FrontOf(hs) = <<>> /\ K = {}
      BY <1>5, Stacks
    <3> QED BY <3>1, <3>2, UnwindsReport
  <2>3. Live("scan_tokens", p)
    BY <1>5, <1>2
  <2> QED BY <1>5, <2>1, <2>2, <2>3, ScanTokensListing,
        SoundFallible DEF Fallible
<1>6. CASE p = 4 /\ hs = <<Report(6, {})>> /\ K = {} /\ Scans(q, s) /\ st = s
  <2>1. Goes("scan_tokens", p, p + 1, hs, K \union {"payload"}, q, s, st)
    BY <1>6, <1>1, <1>2 DEF AtScanTokens, Goes
  <2>2. "payload" \notin K
    BY <1>6
  <2> QED BY <1>6, <2>1, <2>2, ScanTokensListing, SoundMalloc
<1>7. CASE p = 5 /\ hs = <<Report(6, {})>> /\ K = {"payload"} /\ Scans(q, s)
       /\ st = s
  <2>1. FrontOf(hs) = <<>>
    BY <1>7, Stacks
  <2>2. Goes("scan_tokens", p, p + 1, FrontOf(hs), K, q, s, st)
    BY <1>7, <1>1, <1>2, <2>1 DEF AtScanTokens, Goes
  <2> QED BY <1>7, <2>2, ScanTokensListing, SoundEndTry
<1>8. CASE p = 6 /\ hs = <<>> /\ K = {"payload"} /\ Scans(q, s) /\ st = s
  <2>1. Live("scan_tokens", p) /\ ~Live("scan_tokens", p + 1)
    BY <1>8, <1>2
  <2>2. At("scan_tokens", p + 1, hs, K, q, s, st)
    BY <1>8, <1>1 DEF AtScanTokens
  <2> QED BY <1>8, <2>1, <2>2, ScanTokensListing, SoundExit
<1>9. CASE p = 7 /\ hs = <<>> /\ K = {"payload"} /\ Scans(q, s) /\ st = s
  <2>1. ~Fails("scan_tokens", q, s)
    BY <1>9, InputAssumption DEF Fails
  <2>2. Returns("scan_tokens", p, hs, K, q, s, st)
    BY <1>9, <1>2, <2>1 DEF Returns, Answered, Released, ParsingApis
  <2> QED BY <1>9, <2>2, ScanTokensListing, SoundReturn
<1>10. CASE p = 6 /\ hs = <<>> /\ K = {"error"} /\ ~Scans(q, s) /\ st = s
  <2>1. Live("scan_tokens", p) /\ ~Live("scan_tokens", p + 1)
    BY <1>10, <1>2
  <2>2. At("scan_tokens", p + 1, hs, K, q, s, st)
    BY <1>10, <1>1 DEF AtScanTokens
  <2> QED BY <1>10, <2>1, <2>2, ScanTokensListing, SoundExit
<1>11. CASE p = 7 /\ hs = <<>> /\ K = {"error"} /\ ~Scans(q, s) /\ st = s
  <2>1. Fails("scan_tokens", q, s)
    BY <1>11, InputAssumption DEF Fails
  <2>2. Returns("scan_tokens", p, hs, K, q, s, st)
    BY <1>11, <1>2, <2>1 DEF Returns, Answered, Released, ParsingApis
  <2> QED BY <1>11, <2>2, ScanTokensListing, SoundReturn
<1> QED BY <1>1, <1>3, <1>4, <1>5, <1>6, <1>7, <1>8, <1>9, <1>10,
    <1>11 DEF AtScanTokens

\* From every point of the outline of pg_query_split_with_scanner,
\* the next operation, or the PG_CATCH its error goes to, leads to another one.
LEMMA SplitScannerOutline ==
  ASSUME NEW p, NEW hs, NEW K,
         NEW q \in Inputs, NEW s \in SUBSET Settings, NEW st,
         At("split_scanner", p, hs, K, q, s, st)
  PROVE  Sound("split_scanner", p, hs, K, q, s, st)
<1> DEFINE Here(n, g, k, t) == AtSplitScanner(n, g, k, q, s, t)
<1>1. \A n, g, k, t : At("split_scanner", n, g, k, q, s, t) <=> Here(n, g, k,
        t)
  BY DEF At
<1>2. \A n \in Nat : Live("split_scanner", n) <=> 1 < n /\ n <= 9
  BY DEF Live, ExitAt
<1>3. CASE Begin(p, hs, K)
  <2>1. ~Live("split_scanner", p) /\ Live("split_scanner", p + 1)
    BY <1>3, <1>2 DEF Begin
  <2>2. At("split_scanner", p + 1, hs, K, q, s, st)
    BY <1>3, <1>1 DEF AtSplitScanner, Begin
  <2> QED BY <1>3, <2>1, <2>2, SplitScannerListing, SoundEnter DEF Begin
<1>4. CASE p = 2 /\ hs = <<>> /\ K = {} /\ st = s
  <2>1. Append(hs, Handler("report", p + 7, K)) = <<Report(9, {})>>
    BY <1>4, Stacks DEF Report
  <2>2. Live("split_scanner", p)
    BY <1>4, <1>2
  <2>3. Goes("split_scanner", p, p + 1, Append(hs, Handler("report", p + 7,
          K)), K, q, s, st)
    BY <1>4, <1>1, <1>2, <2>1 DEF AtSplitScanner, Goes
  <2> QED BY <1>4, <2>2, <2>3, SplitScannerListing, SoundTry
<1>5. CASE p = 3 /\ hs = <<Report(9, {})>> /\ K = {} /\ st = s
  <2>1. Raises("scan", q, st) = "none" =>
          Goes("split_scanner", p, p + 1, hs, K, q, s, st)
    BY <1>5, <1>1, <1>2, Errors DEF AtSplitScanner, Goes
  <2>2. ASSUME Raises("scan", q, st) # "none"
        PROVE  Unwinds("split_scanner", hs, K, Raises("scan", q, st), q, s, st)
    <3>1. Live("split_scanner", 9) /\ At("split_scanner", 9, <<>>,
            {} \union {"error"}, q, s, st)
      BY <1>5, <2>2, <1>1, <1>2, Errors DEF AtSplitScanner
    <3>2. /\ hs # <<>> /\ LastOf(hs) = Report(9, {})
          /\ FrontOf(hs) = <<>> /\ K = {}
      BY <1>5, Stacks
    <3> QED BY <3>1, <3>2, UnwindsReport
  <2>3. Live("split_scanner", p)
    BY <1>5, <1>2
  <2> QED BY <1>5, <2>1, <2>2, <2>3, SplitScannerListing,
        SoundFallible DEF Fallible
<1>6. CASE p = 4 /\ hs = <<Report(9, {})>> /\ K = {} /\ Scans(q, s) /\ st = s
  <2>1. Goes("split_scanner", p, p + 1, hs, K \union {"payload"}, q, s, st)
    BY <1>6, <1>1, <1>2 DEF AtSplitScanner, Goes
  <2>2. "payload" \notin K
    BY <1>6
  <2> QED BY <1>6, <2>1, <2>2, SplitScannerListing, SoundMalloc
<1>7. CASE p = 5 /\ hs = <<Report(9, {})>> /\ K = {"payload"} /\ Scans(q, s)
       /\ st = s
  <2>1. Assigned(hs, K) = <<Report(9, {"payload"})>>
    BY <1>7, Assignments DEF Report
  <2>2. Goes("split_scanner", p, p + 1, Assigned(hs, K), K, q, s, st)
    BY <1>7, <1>1, <1>2, <2>1 DEF AtSplitScanner, Goes
  <2> QED BY <1>7, <2>2, SplitScannerListing, SoundPublish
<1>8. CASE p = 6 /\ hs = <<Report(9, {"payload"})>> /\ K = {"payload"}
       /\ Scans(q, s) /\ st = s
  <2>1. Raises("scan", q, st) = "none" =>
          Goes("split_scanner", p, p + 1, hs, K, q, s, st)
    BY <1>8, <1>1, <1>2, Errors DEF AtSplitScanner, Goes
  <2>2. ASSUME Raises("scan", q, st) # "none"
        PROVE  Unwinds("split_scanner", hs, K, Raises("scan", q, st), q, s, st)
    <3>1. Live("split_scanner", 9) /\ At("split_scanner", 9, <<>>,
            {"payload"} \union {"error"}, q, s, st)
      BY <1>8, <2>2, <1>1, <1>2, Errors DEF AtSplitScanner
    <3>2. /\ hs # <<>> /\ LastOf(hs) = Report(9, {"payload"})
          /\ FrontOf(hs) = <<>> /\ K = {"payload"}
      BY <1>8, Stacks
    <3> QED BY <3>1, <3>2, UnwindsReport
  <2>3. Live("split_scanner", p)
    BY <1>8, <1>2
  <2> QED BY <1>8, <2>1, <2>2, <2>3, SplitScannerListing,
        SoundFallible DEF Fallible
<1>9. CASE p = 7 /\ hs = <<Report(9, {"payload"})>> /\ K = {"payload"}
       /\ Scans(q, s) /\ st = s
  <2>1. Goes("split_scanner", p, p + 1, hs, K \union {"stderr"}, q, s, st)
    BY <1>9, <1>1, <1>2 DEF AtSplitScanner, Goes
  <2>2. "stderr" \notin K
    BY <1>9
  <2> QED BY <1>9, <2>1, <2>2, SplitScannerListing, SoundMalloc
<1>10. CASE p = 8 /\ hs = <<Report(9, {"payload"})>>
       /\ K = {"payload", "stderr"} /\ Scans(q, s) /\ st = s
  <2>1. FrontOf(hs) = <<>>
    BY <1>10, Stacks
  <2>2. Goes("split_scanner", p, p + 1, FrontOf(hs), K, q, s, st)
    BY <1>10, <1>1, <1>2, <2>1 DEF AtSplitScanner, Goes
  <2> QED BY <1>10, <2>2, SplitScannerListing, SoundEndTry
<1>11. CASE p = 9 /\ hs = <<>> /\ K = {"payload", "stderr"} /\ Scans(q, s)
       /\ st = s
  <2>1. Live("split_scanner", p) /\ ~Live("split_scanner", p + 1)
    BY <1>11, <1>2
  <2>2. At("split_scanner", p + 1, hs, K, q, s, st)
    BY <1>11, <1>1 DEF AtSplitScanner
  <2> QED BY <1>11, <2>1, <2>2, SplitScannerListing, SoundExit
<1>12. CASE p = 10 /\ hs = <<>> /\ K = {"payload", "stderr"} /\ Scans(q, s)
       /\ st = s
  <2>1. ~Fails("split_scanner", q, s)
    BY <1>12, InputAssumption DEF Fails
  <2>2. Returns("split_scanner", p, hs, K, q, s, st)
    BY <1>12, <1>2, <2>1 DEF Returns, Answered, Released, ParsingApis
  <2> QED BY <1>12, <2>2, SplitScannerListing, SoundReturn
<1>13. CASE p = 9 /\ hs = <<>> /\ K = {"error"} /\ ~Scans(q, s) /\ st = s
  <2>1. Live("split_scanner", p) /\ ~Live("split_scanner", p + 1)
    BY <1>13, <1>2
  <2>2. At("split_scanner", p + 1, hs, K, q, s, st)
    BY <1>13, <1>1 DEF AtSplitScanner
  <2> QED BY <1>13, <2>1, <2>2, SplitScannerListing, SoundExit
<1>14. CASE p = 10 /\ hs = <<>> /\ K = {"error"} /\ ~Scans(q, s) /\ st = s
  <2>1. Fails("split_scanner", q, s)
    BY <1>14, InputAssumption DEF Fails
  <2>2. Returns("split_scanner", p, hs, K, q, s, st)
    BY <1>14, <1>2, <2>1 DEF Returns, Answered, Released, ParsingApis
  <2> QED BY <1>14, <2>2, SplitScannerListing, SoundReturn
<1> QED BY <1>1, <1>3, <1>4, <1>5, <1>6, <1>7, <1>8, <1>9, <1>10, <1>11,
    <1>12, <1>13, <1>14 DEF AtSplitScanner

\* From every point of the outline of pg_query_deparse_protobuf,
\* the next operation, or the PG_CATCH its error goes to, leads to another one.
LEMMA DeparseOutline ==
  ASSUME NEW p, NEW hs, NEW K,
         NEW q \in Inputs, NEW s \in SUBSET Settings, NEW st,
         At("deparse", p, hs, K, q, s, st)
  PROVE  Sound("deparse", p, hs, K, q, s, st)
<1> DEFINE Here(n, g, k, t) == AtDeparse(n, g, k, q, s, t)
<1>1. \A n, g, k, t : At("deparse", n, g, k, q, s, t) <=> Here(n, g, k, t)
  BY DEF At
<1>2. \A n \in Nat : Live("deparse", n) <=> 1 < n /\ n <= 12
  BY DEF Live, ExitAt
<1>3. CASE Begin(p, hs, K)
  <2>1. ~Live("deparse", p) /\ Live("deparse", p + 1)
    BY <1>3, <1>2 DEF Begin
  <2>2. At("deparse", p + 1, hs, K, q, s, st)
    BY <1>3, <1>1 DEF AtDeparse, Begin
  <2> QED BY <1>3, <2>1, <2>2, DeparseListing, SoundEnter DEF Begin
<1>4. CASE p = 2 /\ hs = <<>> /\ K = {} /\ st = s
  <2>1. Append(hs, Handler("report", p + 10, K)) = <<Report(12, {})>>
    BY <1>4, Stacks DEF Report
  <2>2. Live("deparse", p)
    BY <1>4, <1>2
  <2>3. Goes("deparse", p, p + 1, Append(hs, Handler("report", p + 10, K)), K,
          q, s, st)
    BY <1>4, <1>1, <1>2, <2>1 DEF AtDeparse, Goes
  <2> QED BY <1>4, <2>2, <2>3, DeparseListing, SoundTry
<1>5. CASE p = 3 /\ hs = <<Report(12, {})>> /\ K = {} /\ st = s
  <2>1. Goes("deparse", p, p + 1, hs, K \union {"arena"}, q, s, st)
    BY <1>5, <1>1, <1>2 DEF AtDeparse, Goes
  <2>2. "arena" \notin K
    BY <1>5
  <2> QED BY <1>5, <2>1, <2>2, DeparseListing, SoundMalloc
<1>6. CASE p = 4 /\ hs = <<Report(12, {})>> /\ K = {"arena"} /\ st = s
  <2>1. Raises("encode_or_free", q, st) = "none" =>
          Goes("deparse", p, p + 1, hs, K, q, s, st)
    BY <1>6, <1>1, <1>2, Errors DEF AtDeparse, Goes
  <2>2. ASSUME Raises("encode_or_free", q, st) # "none"
        PROVE  Unwinds("deparse", hs, K \ {"arena"}, Raises("encode_or_free",
                 q, st), q, s, st)
    <3>1. Live("deparse", 12) /\ At("deparse", 12, <<>>, {} \union {"error"},
            q, s, st)
      BY <1>6, <2>2, <1>1, <1>2, Errors DEF AtDeparse
    <3>2. /\ hs # <<>> /\ LastOf(hs) = Report(12, {})
          /\ FrontOf(hs) = <<>> /\ K \ {"arena"} = {}
      BY <1>6, Stacks
    <3> QED BY <3>1, <3>2, UnwindsReport
  <2>3. Live("deparse", p)
    BY <1>6, <1>2
  <2> QED BY <1>6, <2>1, <2>2, <2>3, DeparseListing, SoundDecode DEF Fallible
<1>7. CASE p = 5 /\ hs = <<Report(12, {})>> /\ K = {"arena"} /\ Encodes(q)
       /\ st = s
  <2> DEFINE g == Report(12, {})
             h == Handler("free_arena_rethrow", 8, {"arena"})
  <2>1. Handler("free_arena_rethrow", p + 3, K) = h
    BY <1>7
  <2>2. At("deparse", p + 1, <<g, h>>, K, q, s, st)
    BY <1>7, <1>1 DEF AtDeparse
  <2>3. hs = <<g>>
    BY <1>7
  <2> HIDE DEF g, h
  <2>4. Append(<<g>>, h) = <<g, h>>
    BY Stacks
  <2>5. Live("deparse", p)
    BY <1>7, <1>2
  <2>6. Append(hs, Handler("free_arena_rethrow", p + 3, K)) = <<g, h>>
    BY <2>1, <2>3, <2>4
  <2>7. Live("deparse", p + 1)
    BY <1>7, <1>2
  <2>8. Goes("deparse", p, p + 1, Append(hs, Handler("free_arena_rethrow",
          p + 3, K)), K, q, s, st)
    BY <2>2, <2>5, <2>6, <2>7 DEF Goes
  <2> QED BY <1>7, <2>5, <2>8, DeparseListing, SoundTry
<1>8. CASE p = 6
       /\ hs = <<Report(12, {}), Handler("free_arena_rethrow", 8, {"arena"})>>
       /\ K = {"arena"} /\ Encodes(q) /\ st = s
  <2>1. Raises("walk", q, st) = "none" =>
          Goes("deparse", p, p + 1, hs, K, q, s, st)
    BY <1>8, <1>1, <1>2, Errors DEF AtDeparse, Goes
  <2>2. ASSUME Raises("walk", q, st) # "none"
        PROVE  Unwinds("deparse", hs, K, Raises("walk", q, st), q, s, st)
    <3>1. Live("deparse", 12) /\ At("deparse", 12, <<>>, {} \union {"error"},
            q, s, st)
      BY <1>8, <2>2, <1>1, <1>2, Errors DEF AtDeparse
    <3>2. K \ {"arena"} = {}
      BY <1>8
    <3> QED BY <1>8, <3>1, <3>2, UnwindsArenaRethrow
  <2>3. Live("deparse", p)
    BY <1>8, <1>2
  <2> QED BY <1>8, <2>1, <2>2, <2>3, DeparseListing, SoundFallible DEF Fallible
<1>9. CASE p = 7
       /\ hs = <<Report(12, {}), Handler("free_arena_rethrow", 8, {"arena"})>>
       /\ K = {"arena"} /\ Encodes(q) /\ WalkError(q) # "stack" /\ st = s
  <2>1. FrontOf(hs) = <<Report(12, {})>>
    BY <1>9, Stacks
  <2>2. Goes("deparse", p, p + 1, FrontOf(hs), K, q, s, st)
    BY <1>9, <1>1, <1>2, <2>1 DEF AtDeparse, Goes
  <2> QED BY <1>9, <2>2, DeparseListing, SoundEndTry
<1>10. CASE p = 8 /\ hs = <<Report(12, {})>> /\ K = {"arena"} /\ Encodes(q)
       /\ WalkError(q) # "stack" /\ st = s
  <2>1. Goes("deparse", p, p + 1, hs, K \ {"arena"}, q, s, st)
    BY <1>10, <1>1, <1>2 DEF AtDeparse, Goes
  <2> QED BY <1>10, <2>1, DeparseListing, SoundFree
<1>11. CASE p = 9 /\ hs = <<Report(12, {})>> /\ K = {} /\ Encodes(q)
       /\ WalkError(q) # "stack" /\ st = s
  <2>1. Raises("raw_walk", q, st) = "none" =>
          Goes("deparse", p, p + 1, hs, K, q, s, st)
    BY <1>11, <1>1, <1>2, Errors DEF AtDeparse, Goes
  <2>2. ASSUME Raises("raw_walk", q, st) # "none"
        PROVE  Unwinds("deparse", hs, K, Raises("raw_walk", q, st), q, s, st)
    <3>1. Live("deparse", 12) /\ At("deparse", 12, <<>>, {} \union {"error"},
            q, s, st)
      BY <1>11, <2>2, <1>1, <1>2, Errors DEF AtDeparse
    <3>2. /\ hs # <<>> /\ LastOf(hs) = Report(12, {})
          /\ FrontOf(hs) = <<>> /\ K = {}
      BY <1>11, Stacks
    <3> QED BY <3>1, <3>2, UnwindsReport
  <2>3. Live("deparse", p)
    BY <1>11, <1>2
  <2> QED BY <1>11, <2>1, <2>2, <2>3, DeparseListing,
        SoundFallible DEF Fallible
<1>12. CASE p = 10 /\ hs = <<Report(12, {})>> /\ K = {} /\ Encodes(q)
       /\ WalkError(q) = "none" /\ st = s
  <2>1. Goes("deparse", p, p + 1, hs, K \union {"payload"}, q, s, st)
    BY <1>12, <1>1, <1>2 DEF AtDeparse, Goes
  <2>2. "payload" \notin K
    BY <1>12
  <2> QED BY <1>12, <2>1, <2>2, DeparseListing, SoundMalloc
<1>13. CASE p = 11 /\ hs = <<Report(12, {})>> /\ K = {"payload"} /\ Encodes(q)
       /\ WalkError(q) = "none" /\ st = s
  <2>1. FrontOf(hs) = <<>>
    BY <1>13, Stacks
  <2>2. Goes("deparse", p, p + 1, FrontOf(hs), K, q, s, st)
    BY <1>13, <1>1, <1>2, <2>1 DEF AtDeparse, Goes
  <2> QED BY <1>13, <2>2, DeparseListing, SoundEndTry
<1>14. CASE p = 12 /\ hs = <<>> /\ K = {"payload"} /\ Encodes(q)
       /\ WalkError(q) = "none" /\ st = s
  <2>1. Live("deparse", p) /\ ~Live("deparse", p + 1)
    BY <1>14, <1>2
  <2>2. At("deparse", p + 1, hs, K, q, s, st)
    BY <1>14, <1>1 DEF AtDeparse
  <2> QED BY <1>14, <2>1, <2>2, DeparseListing, SoundExit
<1>15. CASE p = 13 /\ hs = <<>> /\ K = {"payload"} /\ Encodes(q)
       /\ WalkError(q) = "none" /\ st = s
  <2>1. ~Fails("deparse", q, s)
    BY <1>15, InputAssumption DEF Fails
  <2>2. Returns("deparse", p, hs, K, q, s, st)
    BY <1>15, <1>2, <2>1 DEF Returns, Answered, Released, ParsingApis
  <2> QED BY <1>15, <2>2, DeparseListing, SoundReturn
<1>16. CASE p = 12 /\ hs = <<>> /\ K = {"error"}
       /\ (~Encodes(q) \/ WalkError(q) # "none") /\ st = s
  <2>1. Live("deparse", p) /\ ~Live("deparse", p + 1)
    BY <1>16, <1>2
  <2>2. At("deparse", p + 1, hs, K, q, s, st)
    BY <1>16, <1>1 DEF AtDeparse
  <2> QED BY <1>16, <2>1, <2>2, DeparseListing, SoundExit
<1>17. CASE p = 13 /\ hs = <<>> /\ K = {"error"}
       /\ (~Encodes(q) \/ WalkError(q) # "none") /\ st = s
  <2>1. Fails("deparse", q, s)
    BY <1>17, InputAssumption DEF Fails
  <2>2. Returns("deparse", p, hs, K, q, s, st)
    BY <1>17, <1>2, <2>1 DEF Returns, Answered, Released, ParsingApis
  <2> QED BY <1>17, <2>2, DeparseListing, SoundReturn
<1> QED BY <1>1, <1>3, <1>4, <1>5, <1>6, <1>7, <1>8, <1>9, <1>10, <1>11,
    <1>12, <1>13, <1>14, <1>15, <1>16, <1>17 DEF AtDeparse

\* From every point of the outline of pg_query_deparse_comments_for_query,
\* the next operation, or the PG_CATCH its error goes to, leads to another one.
LEMMA DeparseCommentsOutline ==
  ASSUME NEW p, NEW hs, NEW K,
         NEW q \in Inputs, NEW s \in SUBSET Settings, NEW st,
         At("deparse_comments", p, hs, K, q, s, st)
  PROVE  Sound("deparse_comments", p, hs, K, q, s, st)
<1> DEFINE Here(n, g, k, t) == AtDeparseComments(n, g, k, q, s, t)
<1>1. \A n, g, k, t : At("deparse_comments", n, g, k, q, s, t) <=> Here(n, g,
        k, t)
  BY DEF At
<1>2. \A n \in Nat : Live("deparse_comments", n) <=> 1 < n /\ n <= 6
  BY DEF Live, ExitAt
<1>3. CASE Begin(p, hs, K)
  <2>1. ~Live("deparse_comments", p) /\ Live("deparse_comments", p + 1)
    BY <1>3, <1>2 DEF Begin
  <2>2. At("deparse_comments", p + 1, hs, K, q, s, st)
    BY <1>3, <1>1 DEF AtDeparseComments, Begin
  <2> QED BY <1>3, <2>1, <2>2, DeparseCommentsListing, SoundEnter DEF Begin
<1>4. CASE p = 2 /\ hs = <<>> /\ K = {} /\ st = s
  <2>1. Append(hs, Handler("report", p + 4, K)) = <<Report(6, {})>>
    BY <1>4, Stacks DEF Report
  <2>2. Live("deparse_comments", p)
    BY <1>4, <1>2
  <2>3. Goes("deparse_comments", p, p + 1, Append(hs, Handler("report", p + 4,
          K)), K, q, s, st)
    BY <1>4, <1>1, <1>2, <2>1 DEF AtDeparseComments, Goes
  <2> QED BY <1>4, <2>2, <2>3, DeparseCommentsListing, SoundTry
<1>5. CASE p = 3 /\ hs = <<Report(6, {})>> /\ K = {} /\ st = s
  <2>1. Raises("scan", q, st) = "none" =>
          Goes("deparse_comments", p, p + 1, hs, K, q, s, st)
    BY <1>5, <1>1, <1>2, Errors DEF AtDeparseComments, Goes
  <2>2. ASSUME Raises("scan", q, st) # "none"
        PROVE  Unwinds("deparse_comments", hs, K, Raises("scan", q, st), q, s,
                 st)
    <3>1. Live("deparse_comments", 6) /\ At("deparse_comments", 6, <<>>,
            {} \union {"error"}, q, s, st)
      BY <1>5, <2>2, <1>1, <1>2, Errors DEF AtDeparseComments
    <3>2. /\ hs # <<>> /\ LastOf(hs) = Report(6, {})
          /\ FrontOf(hs) = <<>> /\ K = {}
      BY <1>5, Stacks
    <3> QED BY <3>1, <3>2, UnwindsReport
  <2>3. Live("deparse_comments", p)
    BY <1>5, <1>2
  <2> QED BY <1>5, <2>1, <2>2, <2>3, DeparseCommentsListing,
        SoundFallible DEF Fallible
<1>6. CASE p = 4 /\ hs = <<Report(6, {})>> /\ K = {} /\ Scans(q, s) /\ st = s
  <2>1. Goes("deparse_comments", p, p + 1, hs, K \union {"tokens"}, q, s, st)
    BY <1>6, <1>1, <1>2 DEF AtDeparseComments, Goes
  <2>2. "tokens" \notin K
    BY <1>6
  <2> QED BY <1>6, <2>1, <2>2, DeparseCommentsListing, SoundMalloc
<1>7. CASE p = 5 /\ hs = <<Report(6, {})>> /\ K = {"tokens"} /\ Scans(q, s)
       /\ st = s
  <2>1. FrontOf(hs) = <<>>
    BY <1>7, Stacks
  <2>2. Goes("deparse_comments", p, p + 1, FrontOf(hs), K, q, s, st)
    BY <1>7, <1>1, <1>2, <2>1 DEF AtDeparseComments, Goes
  <2> QED BY <1>7, <2>2, DeparseCommentsListing, SoundEndTry
<1>8. CASE p = 6 /\ hs = <<>> /\ K = {"tokens"} /\ Scans(q, s) /\ st = s
  <2>1. Live("deparse_comments", p) /\ ~Live("deparse_comments", p + 1)
    BY <1>8, <1>2
  <2>2. At("deparse_comments", p + 1, hs, K, q, s, st)
    BY <1>8, <1>1 DEF AtDeparseComments
  <2> QED BY <1>8, <2>1, <2>2, DeparseCommentsListing, SoundExit
<1>9. CASE p = 7 /\ hs = <<>> /\ K = {"tokens"} /\ Scans(q, s) /\ st = s
  <2>1. Goes("deparse_comments", p, p + 1, hs, K, q, s, st)
    BY <1>9, <1>1, <1>2 DEF AtDeparseComments, Goes
  <2>2. "error" \notin K
    BY <1>9
  <2> QED BY <1>9, <2>1, <2>2, DeparseCommentsListing, SoundNoSkip
<1>10. CASE p = 8 /\ hs = <<>> /\ K = {"tokens"} /\ Scans(q, s) /\ st = s
  <2>1. Goes("deparse_comments", p, p + 1, hs, K \union {"payload"}, q, s, st)
    BY <1>10, <1>1, <1>2 DEF AtDeparseComments, Goes
  <2>2. "payload" \notin K
    BY <1>10
  <2> QED BY <1>10, <2>1, <2>2, DeparseCommentsListing, SoundMalloc
<1>11. CASE p = 9 /\ hs = <<>> /\ K = {"tokens", "payload"} /\ Scans(q, s)
       /\ st = s
  <2>1. Goes("deparse_comments", p, p + 1, hs, K \ {"tokens"}, q, s, st)
    BY <1>11, <1>1, <1>2 DEF AtDeparseComments, Goes
  <2> QED BY <1>11, <2>1, DeparseCommentsListing, SoundFree
<1>12. CASE p = 10 /\ hs = <<>> /\ K = {"payload"} /\ Scans(q, s) /\ st = s
  <2>1. ~Fails("deparse_comments", q, s)
    BY <1>12, InputAssumption DEF Fails
  <2>2. Returns("deparse_comments", p, hs, K, q, s, st)
    BY <1>12, <1>2, <2>1 DEF Returns, Answered, Released, ParsingApis
  <2> QED BY <1>12, <2>2, DeparseCommentsListing, SoundReturn
<1>13. CASE p = 6 /\ hs = <<>> /\ K = {"error"} /\ ~Scans(q, s) /\ st = s
  <2>1. Live("deparse_comments", p) /\ ~Live("deparse_comments", p + 1)
    BY <1>13, <1>2
  <2>2. At("deparse_comments", p + 1, hs, K, q, s, st)
    BY <1>13, <1>1 DEF AtDeparseComments
  <2> QED BY <1>13, <2>1, <2>2, DeparseCommentsListing, SoundExit
<1>14. CASE p = 7 /\ hs = <<>> /\ K = {"error"} /\ ~Scans(q, s) /\ st = s
  <2>1. Goes("deparse_comments", p, p + 1 + 2, hs, K, q, s, st)
    BY <1>14, <1>1, <1>2 DEF AtDeparseComments, Goes
  <2>2. "error" \in K
    BY <1>14
  <2> QED BY <1>14, <2>1, <2>2, DeparseCommentsListing, SoundSkip
<1>15. CASE p = 10 /\ hs = <<>> /\ K = {"error"} /\ ~Scans(q, s) /\ st = s
  <2>1. Fails("deparse_comments", q, s)
    BY <1>15, InputAssumption DEF Fails
  <2>2. Returns("deparse_comments", p, hs, K, q, s, st)
    BY <1>15, <1>2, <2>1 DEF Returns, Answered, Released, ParsingApis
  <2> QED BY <1>15, <2>2, DeparseCommentsListing, SoundReturn
<1> QED BY <1>1, <1>3, <1>4, <1>5, <1>6, <1>7, <1>8, <1>9, <1>10, <1>11,
    <1>12, <1>13, <1>14, <1>15 DEF AtDeparseComments

\* From every point of the outline of pg_query_is_utility_stmt,
\* the next operation, or the PG_CATCH its error goes to, leads to another one.
LEMMA IsUtilityOutline ==
  ASSUME NEW p, NEW hs, NEW K,
         NEW q \in Inputs, NEW s \in SUBSET Settings, NEW st,
         At("is_utility", p, hs, K, q, s, st)
  PROVE  Sound("is_utility", p, hs, K, q, s, st)
<1> DEFINE Here(n, g, k, t) == AtIsUtility(n, g, k, q, s, t)
<1>1. \A n, g, k, t : At("is_utility", n, g, k, q, s, t) <=> Here(n, g, k, t)
  BY DEF At
<1>2. \A n \in Nat : Live("is_utility", n) <=> 1 < n /\ n <= 11
  BY DEF Live, ExitAt
<1>3. CASE Begin(p, hs, K)
  <2>1. ~Live("is_utility", p) /\ Live("is_utility", p + 1)
    BY <1>3, <1>2 DEF Begin
  <2>2. At("is_utility", p + 1, hs, K, q, s, st)
    BY <1>3, <1>1 DEF AtIsUtility, Begin, InRawParse
  <2> QED BY <1>3, <2>1, <2>2, IsUtilityListing, SoundEnter DEF Begin
<1>4. CASE InRawParse(1, <<>>, p, hs, K, q, s, st) /\ p # 8
  <2>1. RawParseAt("is_utility", 1)
    BY IsUtilityListing, <1>2 DEF RawParseAt
  <2>2. Contains("is_utility", 1, <<>>, q, s)
    BY <1>1 DEF AtIsUtility, Contains
  <2>3. "is_utility" \in ParsingApis /\ 1 \in {1, 2} /\ p # 1 + 7
    BY <1>4 DEF ParsingApis
  <2> QED BY <1>4, <2>1, <2>2, <2>3, RawParseOutline
<1>5. CASE p = 8 /\ hs = <<>> /\ K = {"stderr"} /\ Accepted(q, s, st)
  <2>1. Goes("is_utility", p, p + 1, hs, K, q, s, st)
    BY <1>5, <1>1, <1>2 DEF AtIsUtility, Goes, InRawParse
  <2>2. "error" \notin K
    BY <1>5
  <2> QED BY <1>5, <2>1, <2>2, IsUtilityListing, SoundNoSkip
<1>6. CASE p = 8 /\ hs = <<>> /\ K = {"error"} /\ Rejected(q, s, st)
  <2>1. Goes("is_utility", p, p + 1 + 1, hs, K, q, s, st)
    BY <1>6, <1>1, <1>2 DEF AtIsUtility, Goes, InRawParse
  <2>2. "error" \in K
    BY <1>6
  <2> QED BY <1>6, <2>1, <2>2, IsUtilityListing, SoundSkip
<1>7. CASE p = 9 /\ hs = <<>> /\ K = {"stderr"} /\ Accepted(q, s, st)
  <2>1. Goes("is_utility", p, p + 1, hs, K \union {"payload"}, q, s, st)
    BY <1>7, <1>1, <1>2 DEF AtIsUtility, Goes, InRawParse
  <2>2. "payload" \notin K
    BY <1>7
  <2> QED BY <1>7, <2>1, <2>2, IsUtilityListing, SoundMalloc
<1>8. CASE p = 10 /\ hs = <<>> /\ K = {"stderr", "payload"}
       /\ Accepted(q, s, st)
  <2>1. Goes("is_utility", p, p + 1, hs, K \ {"stderr"}, q, s, st)
    BY <1>8, <1>1, <1>2 DEF AtIsUtility, Goes
  <2> QED BY <1>8, <2>1, IsUtilityListing, SoundFree
<1>9. CASE p = 11 /\ hs = <<>> /\ K = {"payload"} /\ Accepted(q, s, st)
  <2>1. Live("is_utility", p) /\ ~Live("is_utility", p + 1)
    BY <1>9, <1>2
  <2>2. At("is_utility", p + 1, hs, K, q, s, st)
    BY <1>9, <1>1 DEF AtIsUtility
  <2> QED BY <1>9, <2>1, <2>2, IsUtilityListing, SoundExit
<1>10. CASE p = 12 /\ hs = <<>> /\ K = {"payload"} /\ Accepted(q, s, st)
  <2>1. ~Fails("is_utility", q, s)
    BY <1>10, InputAssumption DEF Fails, Accepted, Rejected
  <2>2. Returns("is_utility", p, hs, K, q, s, st)
    BY <1>10, <1>2, <2>1 DEF Returns, Answered, Released, ParsingApis,
       Accepted, Rejected
  <2> QED BY <1>10, <2>2, IsUtilityListing, SoundReturn
<1>11. CASE p = 10 /\ hs = <<>> /\ K = {"error"} /\ Rejected(q, s, st)
  <2>1. Goes("is_utility", p, p + 1, hs, K \ {"stderr"}, q, s, st)
    BY <1>11, <1>1, <1>2 DEF AtIsUtility, Goes
  <2> QED BY <1>11, <2>1, IsUtilityListing, SoundFree
<1>12. CASE p = 11 /\ hs = <<>> /\ K = {"error"} /\ Rejected(q, s, st)
  <2>1. Live("is_utility", p) /\ ~Live("is_utility", p + 1)
    BY <1>12, <1>2
  <2>2. At("is_utility", p + 1, hs, K, q, s, st)
    BY <1>12, <1>1 DEF AtIsUtility
  <2> QED BY <1>12, <2>1, <2>2, IsUtilityListing, SoundExit
<1>13. CASE p = 12 /\ hs = <<>> /\ K = {"error"} /\ Rejected(q, s, st)
  <2>1. Fails("is_utility", q, s)
    BY <1>13, InputAssumption DEF Fails, Accepted, Rejected
  <2>2. Returns("is_utility", p, hs, K, q, s, st)
    BY <1>13, <1>2, <2>1 DEF Returns, Answered, Released, ParsingApis,
       Accepted, Rejected
  <2> QED BY <1>13, <2>2, IsUtilityListing, SoundReturn
<1> QED BY <1>1, <1>3, <1>4, <1>5, <1>6, <1>7, <1>8, <1>9, <1>10, <1>11,
    <1>12, <1>13 DEF AtIsUtility, InRawParse

\* From every point of the outline of pg_query_parse_plpgsql,
\* the next operation, or the PG_CATCH its error goes to, leads to another one.
LEMMA PlpgsqlOutline ==
  ASSUME NEW p, NEW hs, NEW K,
         NEW q \in Inputs, NEW s \in SUBSET Settings, NEW st,
         At("plpgsql", p, hs, K, q, s, st)
  PROVE  Sound("plpgsql", p, hs, K, q, s, st)
<1> DEFINE Here(n, g, k, t) == AtPlpgsql(n, g, k, q, s, t)
<1>1. \A n, g, k, t : At("plpgsql", n, g, k, q, s, t) <=> Here(n, g, k, t)
  BY DEF At
<1>2. \A n \in Nat : Live("plpgsql", n) <=> 1 < n /\ n <= 21
  BY DEF Live, ExitAt
<1>3. CASE Begin(p, hs, K)
  <2>1. ~Live("plpgsql", p) /\ Live("plpgsql", p + 1)
    BY <1>3, <1>2 DEF Begin
  <2>2. At("plpgsql", p + 1, hs, K, q, s, st)
    BY <1>3, <1>1 DEF AtPlpgsql, Begin, InRawParse
  <2> QED BY <1>3, <2>1, <2>2, PlpgsqlListing, SoundEnter DEF Begin
<1>4. CASE InRawParse(1, <<>>, p, hs, K, q, s, st) /\ p # 8
  <2>1. RawParseAt("plpgsql", 1)
    BY PlpgsqlListing, <1>2 DEF RawParseAt
  <2>2. Contains("plpgsql", 1, <<>>, q, s)
    BY <1>1 DEF AtPlpgsql, Contains
  <2>3. "plpgsql" \in ParsingApis /\ 1 \in {1, 2} /\ p # 1 + 7
    BY <1>4 DEF ParsingApis
  <2> QED BY <1>4, <2>1, <2>2, <2>3, RawParseOutline
<1>5. CASE p = 8 /\ hs = <<>> /\ K = {"stderr"} /\ Accepted(q, s, st)
  <2>1. Goes("plpgsql", p, p + 1, hs, K, q, s, st)
    BY <1>5, <1>1, <1>2 DEF AtPlpgsql, Goes, InRawParse
  <2>2. "error" \notin K
    BY <1>5
  <2> QED BY <1>5, <2>1, <2>2, PlpgsqlListing, SoundNoSkip
<1>6. CASE p = 8 /\ hs = <<>> /\ K = {"error"} /\ Rejected(q, s, st)
  <2>1. Goes("plpgsql", p, p + 1 + 12, hs, K, q, s, st)
    BY <1>6, <1>1, <1>2 DEF AtPlpgsql, Goes, InRawParse
  <2>2. "error" \in K
    BY <1>6
  <2> QED BY <1>6, <2>1, <2>2, PlpgsqlListing, SoundSkip
<1>7. CASE p = 9 /\ hs = <<>> /\ K = {"stderr"} /\ Accepted(q, s, st)
  <2>1. Append(hs, Handler("swallow", p + 3, K)) = <<Handler("swallow", 12,
          {"stderr"})>>
    BY <1>7, Stacks
  <2>2. Live("plpgsql", p)
    BY <1>7, <1>2
  <2>3. Goes("plpgsql", p, p + 1, Append(hs, Handler("swallow", p + 3, K)), K,
          q, s, st)
    BY <1>7, <1>1, <1>2, <2>1 DEF AtPlpgsql, Goes, InRawParse
  <2> QED BY <1>7, <2>2, <2>3, PlpgsqlListing, SoundTry
<1>8. CASE p = 10 /\ hs = <<Handler("swallow", 12, {"stderr"})>>
       /\ K = {"stderr"} /\ Accepted(q, s, st)
  <2>1. Raises("raw_walk", q, st) = "none" =>
          Goes("plpgsql", p, p + 1, hs, K, q, s, st)
    BY <1>8, <1>1, <1>2, Errors DEF AtPlpgsql, Goes
  <2>2. ASSUME Raises("raw_walk", q, st) # "none"
        PROVE  Unwinds("plpgsql", hs, K, Raises("raw_walk", q, st), q, s, st)
    <3>1. Live("plpgsql", 12) /\ At("plpgsql", 12, <<>>, {"stderr"}, q, s, st)
      BY <1>8, <2>2, <1>1, <1>2, Errors DEF AtPlpgsql
    <3> QED BY <1>8, <3>1, UnwindsSwallow
  <2>3. Live("plpgsql", p)
    BY <1>8, <1>2
  <2> QED BY <1>8, <2>1, <2>2, <2>3, PlpgsqlListing, SoundFallible DEF Fallible
<1>9. CASE p = 11 /\ hs = <<Handler("swallow", 12, {"stderr"})>>
       /\ K = {"stderr"} /\ Accepted(q, s, st)
  <2>1. FrontOf(hs) = <<>>
    BY <1>9, Stacks
  <2>2. Goes("plpgsql", p, p + 1, FrontOf(hs), K, q, s, st)
    BY <1>9, <1>1, <1>2, <2>1 DEF AtPlpgsql, Goes
  <2> QED BY <1>9, <2>2, PlpgsqlListing, SoundEndTry
<1>10. CASE p = 12 /\ hs = <<>> /\ K = {"stderr"} /\ Accepted(q, s, st)
  <2>1. Goes("plpgsql", p, p + 1, hs, K \union {"payload"}, q, s, st)
    BY <1>10, <1>1, <1>2 DEF AtPlpgsql, Goes
  <2>2. "payload" \notin K
    BY <1>10
  <2> QED BY <1>10, <2>1, <2>2, PlpgsqlListing, SoundMalloc
<1>11. CASE p = 13 /\ hs = <<>> /\ K = {"stderr", "payload"}
       /\ Accepted(q, s, st)
  <2>1. Append(hs, Handler("report", p + 3, K)) = <<Report(16, {"stderr",
          "payload"})>>
    BY <1>11, Stacks DEF Report
  <2>2. Live("plpgsql", p)
    BY <1>11, <1>2
  <2>3. Goes("plpgsql", p, p + 1, Append(hs, Handler("report", p + 3, K)), K,
          q, s, st)
    BY <1>11, <1>1, <1>2, <2>1 DEF AtPlpgsql, Goes
  <2> QED BY <1>11, <2>2, <2>3, PlpgsqlListing, SoundTry
<1>12. CASE p = 14 /\ hs = <<Report(16, {"stderr", "payload"})>>
       /\ K = {"stderr", "payload"} /\ Accepted(q, s, st)
  <2>1. Raises("compile", q, st) = "none" =>
          Goes("plpgsql", p, p + 1, hs, K, q, s, st)
    BY <1>12, <1>1, <1>2, Errors DEF AtPlpgsql, Goes
  <2>2. ASSUME Raises("compile", q, st) # "none"
        PROVE  Unwinds("plpgsql", hs, K, Raises("compile", q, st), q, s, st)
    <3>1. Live("plpgsql", 16) /\ At("plpgsql", 16, <<>>, {"stderr",
            "payload"} \union {"error"}, q, s, st)
      BY <1>12, <2>2, <1>1, <1>2, Errors DEF AtPlpgsql
    <3>2. /\ hs # <<>> /\ LastOf(hs) = Report(16, {"stderr", "payload"})
          /\ FrontOf(hs) = <<>> /\ K = {"stderr", "payload"}
      BY <1>12, Stacks
    <3> QED BY <3>1, <3>2, UnwindsReport
  <2>3. Live("plpgsql", p)
    BY <1>12, <1>2
  <2> QED BY <1>12, <2>1, <2>2, <2>3, PlpgsqlListing,
        SoundFallible DEF Fallible
<1>13. CASE p = 15 /\ hs = <<Report(16, {"stderr", "payload"})>>
       /\ K = {"stderr", "payload"} /\ Accepted(q, s, st) /\ Compiles(q)
  <2>1. FrontOf(hs) = <<>>
    BY <1>13, Stacks
  <2>2. Goes("plpgsql", p, p + 1, FrontOf(hs), K, q, s, st)
    BY <1>13, <1>1, <1>2, <2>1 DEF AtPlpgsql, Goes
  <2> QED BY <1>13, <2>2, PlpgsqlListing, SoundEndTry
<1>14. CASE p = 16 /\ hs = <<>> /\ K = {"stderr", "payload"}
       /\ Accepted(q, s, st) /\ Compiles(q)
  <2>1. Goes("plpgsql", p, p + 1, hs, K, q, s, st)
    BY <1>14, <1>1, <1>2 DEF AtPlpgsql, Goes
  <2>2. "error" \notin K
    BY <1>14
  <2> QED BY <1>14, <2>1, <2>2, PlpgsqlListing, SoundNoSkip
<1>15. CASE p = 17 /\ hs = <<>> /\ K = {"stderr", "payload"}
       /\ Accepted(q, s, st) /\ Compiles(q)
  <2>1. Append(hs, Handler("report", p + 3, K)) = <<Report(20, {"stderr",
          "payload"})>>
    BY <1>15, Stacks DEF Report
  <2>2. Live("plpgsql", p)
    BY <1>15, <1>2
  <2>3. Goes("plpgsql", p, p + 1, Append(hs, Handler("report", p + 3, K)), K,
          q, s, st)
    BY <1>15, <1>1, <1>2, <2>1 DEF AtPlpgsql, Goes
  <2> QED BY <1>15, <2>2, <2>3, PlpgsqlListing, SoundTry
<1>16. CASE p = 20 /\ hs = <<>> /\ K = {"stderr", "payload"}
       /\ Accepted(q, s, st) /\ Compiles(q)
  <2>1. Goes("plpgsql", p, p + 1, hs, K \ {"stderr"}, q, s, st)
    BY <1>16, <1>1, <1>2 DEF AtPlpgsql, Goes
  <2> QED BY <1>16, <2>1, PlpgsqlListing, SoundFree
<1>17. CASE p = 18 /\ hs = <<Report(20, {"stderr", "payload"})>>
       /\ K = {"stderr", "payload"} /\ Accepted(q, s, st) /\ Compiles(q)
  <2>1. Raises("compile", q, st) = "none" =>
          Goes("plpgsql", p, p + 1, hs, K, q, s, st)
    BY <1>17, <1>1, <1>2, Errors DEF AtPlpgsql, Goes
  <2>2. ASSUME Raises("compile", q, st) # "none"
        PROVE  Unwinds("plpgsql", hs, K, Raises("compile", q, st), q, s, st)
    <3>1. Live("plpgsql", 20) /\ At("plpgsql", 20, <<>>, {"stderr",
            "payload"} \union {"error"}, q, s, st)
      BY <1>17, <2>2, <1>1, <1>2, Errors DEF AtPlpgsql
    <3>2. /\ hs # <<>> /\ LastOf(hs) = Report(20, {"stderr", "payload"})
          /\ FrontOf(hs) = <<>> /\ K = {"stderr", "payload"}
      BY <1>17, Stacks
    <3> QED BY <3>1, <3>2, UnwindsReport
  <2>3. Live("plpgsql", p)
    BY <1>17, <1>2
  <2> QED BY <1>17, <2>1, <2>2, <2>3, PlpgsqlListing,
        SoundFallible DEF Fallible
<1>18. CASE p = 19 /\ hs = <<Report(20, {"stderr", "payload"})>>
       /\ K = {"stderr", "payload"} /\ Accepted(q, s, st) /\ Compiles(q)
  <2>1. FrontOf(hs) = <<>>
    BY <1>18, Stacks
  <2>2. Goes("plpgsql", p, p + 1, FrontOf(hs), K, q, s, st)
    BY <1>18, <1>1, <1>2, <2>1 DEF AtPlpgsql, Goes
  <2> QED BY <1>18, <2>2, PlpgsqlListing, SoundEndTry
<1>19. CASE p = 16 /\ hs = <<>> /\ K = {"stderr", "payload", "error"}
       /\ Accepted(q, s, st) /\ ~Compiles(q)
  <2>1. Goes("plpgsql", p, p + 1 + 3, hs, K, q, s, st)
    BY <1>19, <1>1, <1>2 DEF AtPlpgsql, Goes
  <2>2. "error" \in K
    BY <1>19
  <2> QED BY <1>19, <2>1, <2>2, PlpgsqlListing, SoundSkip
<1>20. CASE p = 20 /\ hs = <<>> /\ K = {"stderr", "payload", "error"}
       /\ Accepted(q, s, st) /\ ~Compiles(q)
  <2>1. Goes("plpgsql", p, p + 1, hs, K \ {"stderr"}, q, s, st)
    BY <1>20, <1>1, <1>2 DEF AtPlpgsql, Goes
  <2> QED BY <1>20, <2>1, PlpgsqlListing, SoundFree
<1>21. CASE p = 21 /\ hs = <<>> /\ K = {"payload"} /\ Accepted(q, s, st)
       /\ Compiles(q)
  <2>1. Live("plpgsql", p) /\ ~Live("plpgsql", p + 1)
    BY <1>21, <1>2
  <2>2. At("plpgsql", p + 1, hs, K, q, s, st)
    BY <1>21, <1>1 DEF AtPlpgsql
  <2> QED BY <1>21, <2>1, <2>2, PlpgsqlListing, SoundExit
<1>22. CASE p = 22 /\ hs = <<>> /\ K = {"payload"} /\ Accepted(q, s, st)
       /\ Compiles(q)
  <2>1. ~Fails("plpgsql", q, s)
    BY <1>22, InputAssumption DEF Fails, Accepted, Rejected
  <2>2. Returns("plpgsql", p, hs, K, q, s, st)
    BY <1>22, <1>2, <2>1 DEF Returns, Answered, Released, ParsingApis,
       Accepted, Rejected
  <2> QED BY <1>22, <2>2, PlpgsqlListing, SoundReturn
<1>23. CASE p = 21 /\ hs = <<>> /\ K = {"payload", "error"}
       /\ Accepted(q, s, st) /\ ~Compiles(q)
  <2>1. Live("plpgsql", p) /\ ~Live("plpgsql", p + 1)
    BY <1>23, <1>2
  <2>2. At("plpgsql", p + 1, hs, K, q, s, st)
    BY <1>23, <1>1 DEF AtPlpgsql
  <2> QED BY <1>23, <2>1, <2>2, PlpgsqlListing, SoundExit
<1>24. CASE p = 22 /\ hs = <<>> /\ K = {"payload", "error"}
       /\ Accepted(q, s, st) /\ ~Compiles(q)
  <2>1. Fails("plpgsql", q, s)
    BY <1>24, InputAssumption DEF Fails, Accepted, Rejected
  <2>2. Returns("plpgsql", p, hs, K, q, s, st)
    BY <1>24, <1>2, <2>1 DEF Returns, Answered, Released, ParsingApis,
       Accepted, Rejected
  <2> QED BY <1>24, <2>2, PlpgsqlListing, SoundReturn
<1>25. CASE p = 21 /\ hs = <<>> /\ K = {"error"} /\ Rejected(q, s, st)
  <2>1. Live("plpgsql", p) /\ ~Live("plpgsql", p + 1)
    BY <1>25, <1>2
  <2>2. At("plpgsql", p + 1, hs, K, q, s, st)
    BY <1>25, <1>1 DEF AtPlpgsql
  <2> QED BY <1>25, <2>1, <2>2, PlpgsqlListing, SoundExit
<1>26. CASE p = 22 /\ hs = <<>> /\ K = {"error"} /\ Rejected(q, s, st)
  <2>1. Fails("plpgsql", q, s)
    BY <1>26, InputAssumption DEF Fails, Accepted, Rejected
  <2>2. Returns("plpgsql", p, hs, K, q, s, st)
    BY <1>26, <1>2, <2>1 DEF Returns, Answered, Released, ParsingApis,
       Accepted, Rejected
  <2> QED BY <1>26, <2>2, PlpgsqlListing, SoundReturn
<1> QED BY <1>1, <1>3, <1>4, <1>5, <1>6, <1>7, <1>8, <1>9, <1>10, <1>11,
    <1>12, <1>13, <1>14, <1>15, <1>16, <1>17, <1>18, <1>19, <1>20, <1>21,
    <1>22, <1>23, <1>24, <1>25, <1>26 DEF AtPlpgsql, InRawParse

\* From every point of the outline of pg_query_summary,
\* the next operation, or the PG_CATCH its error goes to, leads to another one.
LEMMA SummaryOutline ==
  ASSUME NEW p, NEW hs, NEW K,
         NEW q \in Inputs, NEW s \in SUBSET Settings, NEW st,
         At("summary", p, hs, K, q, s, st)
  PROVE  Sound("summary", p, hs, K, q, s, st)
<1> DEFINE Here(n, g, k, t) == AtSummary(n, g, k, q, s, t)
<1>1. \A n, g, k, t : At("summary", n, g, k, q, s, t) <=> Here(n, g, k, t)
  BY DEF At
<1>2. \A n \in Nat : Live("summary", n) <=> 1 < n /\ n <= 19
  BY DEF Live, ExitAt
<1>3. CASE Begin(p, hs, K)
  <2>1. ~Live("summary", p) /\ Live("summary", p + 1)
    BY <1>3, <1>2 DEF Begin
  <2>2. At("summary", p + 1, hs, K, q, s, st)
    BY <1>3, <1>1 DEF AtSummary, Begin
  <2> QED BY <1>3, <2>1, <2>2, SummaryListing, SoundEnter DEF Begin
<1>4. CASE InRawParse(2, <<Report(19, {})>>, p, hs, K, q, s, st) /\ p # 9
  <2>1. RawParseAt("summary", 2)
    BY SummaryListing, <1>2 DEF RawParseAt
  <2>2. Contains("summary", 2, <<Report(19, {})>>, q, s)
    BY <1>1 DEF AtSummary, Contains
  <2>3. "summary" \in ParsingApis /\ 2 \in {1, 2} /\ p # 2 + 7
    BY <1>4 DEF ParsingApis
  <2> QED BY <1>4, <2>1, <2>2, <2>3, RawParseOutline
<1>5. CASE p = 9 /\ hs = <<Report(19, {})>> /\ K = {"stderr"}
       /\ Accepted(q, s, st)
  <2>1. Goes("summary", p, p + 1, hs, K, q, s, st)
    BY <1>5, <1>1, <1>2 DEF AtSummary, Goes, InRawParse
  <2>2. "error" \notin K
    BY <1>5
  <2> QED BY <1>5, <2>1, <2>2, SummaryListing, SoundNoSkip
<1>6. CASE p = 9 /\ hs = <<Report(19, {})>> /\ K = {"error"}
       /\ Rejected(q, s, st)
  <2>1. Goes("summary", p, p + 1 + 8, hs, K, q, s, st)
    BY <1>6, <1>1, <1>2 DEF AtSummary, Goes, InRawParse
  <2>2. "error" \in K
    BY <1>6
  <2> QED BY <1>6, <2>1, <2>2, SummaryListing, SoundSkip
<1>7. CASE p = 2 /\ hs = <<>> /\ K = {}
  <2>1. Append(hs, Handler("report", p + 17, K)) = <<Report(19, {})>>
    BY <1>7, Stacks DEF Report
  <2>2. Live("summary", p)
    BY <1>7, <1>2
  <2>3. Goes("summary", p, p + 1, Append(hs, Handler("report", p + 17, K)), K,
          q, s, st)
    BY <1>7, <1>1, <1>2, <2>1 DEF AtSummary, Goes, InRawParse
  <2> QED BY <1>7, <2>2, <2>3, SummaryListing, SoundTry
<1>8. CASE p = 10 /\ hs = <<Report(19, {})>> /\ K = {"stderr"}
       /\ Accepted(q, s, st)
  <2> DEFINE g == Report(19, {})
             h == Handler("free_stderr_rethrow", 13, {"stderr"})
  <2>1. Handler("free_stderr_rethrow", p + 3, K) = h
    BY <1>8
  <2>2. At("summary", p + 1, <<g, h>>, K, q, s, st)
    BY <1>8, <1>1 DEF AtSummary
  <2>3. hs = <<g>>
    BY <1>8
  <2> HIDE DEF g, h
  <2>4. Append(<<g>>, h) = <<g, h>>
    BY Stacks
  <2>5. Live("summary", p)
    BY <1>8, <1>2
  <2>6. Append(hs, Handler("free_stderr_rethrow", p + 3, K)) = <<g, h>>
    BY <2>1, <2>3, <2>4
  <2>7. Live("summary", p + 1)
    BY <1>8, <1>2
  <2>8. Goes("summary", p, p + 1, Append(hs, Handler("free_stderr_rethrow",
          p + 3, K)), K, q, s, st)
    BY <2>2, <2>5, <2>6, <2>7 DEF Goes
  <2> QED BY <1>8, <2>5, <2>8, SummaryListing, SoundTry
<1>9. CASE p = 11
       /\ hs = <<Report(19, {}), Handler("free_stderr_rethrow", 13,
            {"stderr"})>>
       /\ K = {"stderr"} /\ Accepted(q, s, st)
  <2>1. Raises("walk", q, st) = "none" =>
          Goes("summary", p, p + 1, hs, K, q, s, st)
    BY <1>9, <1>1, <1>2, Errors DEF AtSummary, Goes
  <2>2. ASSUME Raises("walk", q, st) # "none"
        PROVE  Unwinds("summary", hs, K, Raises("walk", q, st), q, s, st)
    <3>1. Live("summary", 19) /\ At("summary", 19, <<>>, {} \union {"error"},
            q, s, st)
      BY <1>9, <2>2, <1>1, <1>2, Errors DEF AtSummary
    <3>2. K \ {"stderr"} = {}
      BY <1>9
    <3> QED BY <1>9, <3>1, <3>2, UnwindsStderrRethrow
  <2>3. Live("summary", p)
    BY <1>9, <1>2
  <2> QED BY <1>9, <2>1, <2>2, <2>3, SummaryListing, SoundFallible DEF Fallible
<1>10. CASE p = 12
       /\ hs = <<Report(19, {}), Handler("free_stderr_rethrow", 13,
            {"stderr"})>>
       /\ K = {"stderr"} /\ Accepted(q, s, st) /\ WalkError(q) # "stack"
  <2>1. FrontOf(hs) = <<Report(19, {})>>
    BY <1>10, Stacks
  <2>2. Goes("summary", p, p + 1, FrontOf(hs), K, q, s, st)
    BY <1>10, <1>1, <1>2, <2>1 DEF AtSummary, Goes
  <2> QED BY <1>10, <2>2, SummaryListing, SoundEndTry
<1>11. CASE p = 13 /\ hs = <<Report(19, {})>> /\ K = {"stderr"}
       /\ Accepted(q, s, st) /\ WalkError(q) # "stack"
  <2>1. Assigned(hs, K) = <<Report(19, {"stderr"})>>
    BY <1>11, Assignments DEF Report
  <2>2. Goes("summary", p, p + 1, Assigned(hs, K), K, q, s, st)
    BY <1>11, <1>1, <1>2, <2>1 DEF AtSummary, Goes
  <2> QED BY <1>11, <2>2, SummaryListing, SoundPublish
<1>12. CASE p = 14 /\ hs = <<Report(19, {"stderr"})>> /\ K = {"stderr"}
       /\ Accepted(q, s, st) /\ WalkError(q) # "stack"
  <2>1. Goes("summary", p, p + 1, hs, K \union {"arena"}, q, s, st)
    BY <1>12, <1>1, <1>2 DEF AtSummary, Goes
  <2>2. "arena" \notin K
    BY <1>12
  <2> QED BY <1>12, <2>1, <2>2, SummaryListing, SoundMalloc
<1>13. CASE p = 15 /\ hs = <<Report(19, {"stderr"})>>
       /\ K = {"stderr", "arena"} /\ Accepted(q, s, st)
       /\ WalkError(q) # "stack"
  <2>1. Raises("encode_or_free", q, st) = "none" =>
          Goes("summary", p, p + 1, hs, K, q, s, st)
    BY <1>13, <1>1, <1>2, Errors DEF AtSummary, Goes
  <2>2. ASSUME Raises("encode_or_free", q, st) # "none"
        PROVE  Unwinds("summary", hs, K \ {"arena"}, Raises("encode_or_free",
                 q, st), q, s, st)
    <3>1. Live("summary", 19) /\ At("summary", 19, <<>>,
            {"stderr"} \union {"error"}, q, s, st)
      BY <1>13, <2>2, <1>1, <1>2, Errors DEF AtSummary
    <3>2. /\ hs # <<>> /\ LastOf(hs) = Report(19, {"stderr"})
          /\ FrontOf(hs) = <<>> /\ K \ {"arena"} = {"stderr"}
      BY <1>13, Stacks
    <3> QED BY <3>1, <3>2, UnwindsReport
  <2>3. Live("summary", p)
    BY <1>13, <1>2
  <2> QED BY <1>13, <2>1, <2>2, <2>3, SummaryListing, SoundDecode DEF Fallible
<1>14. CASE p = 16 /\ hs = <<Report(19, {"stderr"})>>
       /\ K = {"stderr", "arena"} /\ Accepted(q, s, st)
       /\ WalkError(q) # "stack" /\ Encodes(q)
  <2>1. Goes("summary", p, p + 1, hs, K \union {"payload"}, q, s, st)
    BY <1>14, <1>1, <1>2 DEF AtSummary, Goes
  <2>2. "payload" \notin K
    BY <1>14
  <2> QED BY <1>14, <2>1, <2>2, SummaryListing, SoundMalloc
<1>15. CASE p = 17 /\ hs = <<Report(19, {"stderr"})>>
       /\ K = {"stderr", "arena", "payload"} /\ Accepted(q, s, st)
       /\ WalkError(q) # "stack" /\ Encodes(q)
  <2>1. Goes("summary", p, p + 1, hs, K \ {"arena"}, q, s, st)
    BY <1>15, <1>1, <1>2 DEF AtSummary, Goes
  <2> QED BY <1>15, <2>1, SummaryListing, SoundFree
<1>16. CASE p = 18 /\ hs = <<Report(19, {"stderr"})>>
       /\ K = {"stderr", "payload"} /\ Accepted(q, s, st)
       /\ WalkError(q) # "stack" /\ Encodes(q)
  <2>1. FrontOf(hs) = <<>>
    BY <1>16, Stacks
  <2>2. Goes("summary", p, p + 1, FrontOf(hs), K, q, s, st)
    BY <1>16, <1>1, <1>2, <2>1 DEF AtSummary, Goes
  <2> QED BY <1>16, <2>2, SummaryListing, SoundEndTry
<1>17. CASE p = 18 /\ hs = <<Report(19, {})>> /\ K = {"error"}
       /\ Rejected(q, s, st)
  <2>1. FrontOf(hs) = <<>>
    BY <1>17, Stacks
  <2>2. Goes("summary", p, p + 1, FrontOf(hs), K, q, s, st)
    BY <1>17, <1>1, <1>2, <2>1 DEF AtSummary, Goes
  <2> QED BY <1>17, <2>2, SummaryListing, SoundEndTry
<1>18. CASE p = 19 /\ hs = <<>> /\ K = {"stderr", "payload"}
       /\ Accepted(q, s, st) /\ WalkError(q) # "stack" /\ Encodes(q)
  <2>1. Live("summary", p) /\ ~Live("summary", p + 1)
    BY <1>18, <1>2
  <2>2. At("summary", p + 1, hs, K, q, s, st)
    BY <1>18, <1>1 DEF AtSummary
  <2> QED BY <1>18, <2>1, <2>2, SummaryListing, SoundExit
<1>19. CASE p = 20 /\ hs = <<>> /\ K = {"stderr", "payload"}
       /\ Accepted(q, s, st) /\ WalkError(q) # "stack" /\ Encodes(q)
  <2>1. ~Fails("summary", q, s)
    BY <1>19, InputAssumption DEF Fails, Accepted, Rejected
  <2>2. Returns("summary", p, hs, K, q, s, st)
    BY <1>19, <1>2, <2>1 DEF Returns, Answered, Released, ParsingApis,
       Accepted, Rejected
  <2> QED BY <1>19, <2>2, SummaryListing, SoundReturn
<1>20. CASE p = 19 /\ hs = <<>> /\ K = {"error"} /\ Rejected(q, s, st)
  <2>1. Live("summary", p) /\ ~Live("summary", p + 1)
    BY <1>20, <1>2
  <2>2. At("summary", p + 1, hs, K, q, s, st)
    BY <1>20, <1>1 DEF AtSummary
  <2> QED BY <1>20, <2>1, <2>2, SummaryListing, SoundExit
<1>21. CASE p = 20 /\ hs = <<>> /\ K = {"error"} /\ Rejected(q, s, st)
  <2>1. Fails("summary", q, s)
    BY <1>21, InputAssumption DEF Fails, Accepted, Rejected
  <2>2. Returns("summary", p, hs, K, q, s, st)
    BY <1>21, <1>2, <2>1 DEF Returns, Answered, Released, ParsingApis,
       Accepted, Rejected
  <2> QED BY <1>21, <2>2, SummaryListing, SoundReturn
<1>22. CASE p = 19 /\ hs = <<>> /\ K = {"error"} /\ Accepted(q, s, st)
       /\ WalkError(q) = "stack"
  <2>1. Live("summary", p) /\ ~Live("summary", p + 1)
    BY <1>22, <1>2
  <2>2. At("summary", p + 1, hs, K, q, s, st)
    BY <1>22, <1>1 DEF AtSummary
  <2> QED BY <1>22, <2>1, <2>2, SummaryListing, SoundExit
<1>23. CASE p = 20 /\ hs = <<>> /\ K = {"error"} /\ Accepted(q, s, st)
       /\ WalkError(q) = "stack"
  <2>1. Fails("summary", q, s)
    BY <1>23, InputAssumption DEF Fails, Accepted, Rejected
  <2>2. Returns("summary", p, hs, K, q, s, st)
    BY <1>23, <1>2, <2>1 DEF Returns, Answered, Released, ParsingApis,
       Accepted, Rejected
  <2> QED BY <1>23, <2>2, SummaryListing, SoundReturn
<1>24. CASE p = 19 /\ hs = <<>> /\ K = {"stderr", "error"}
       /\ Accepted(q, s, st) /\ ~Encodes(q)
  <2>1. Live("summary", p) /\ ~Live("summary", p + 1)
    BY <1>24, <1>2
  <2>2. At("summary", p + 1, hs, K, q, s, st)
    BY <1>24, <1>1 DEF AtSummary
  <2> QED BY <1>24, <2>1, <2>2, SummaryListing, SoundExit
<1>25. CASE p = 20 /\ hs = <<>> /\ K = {"stderr", "error"}
       /\ Accepted(q, s, st) /\ ~Encodes(q)
  <2>1. Fails("summary", q, s)
    BY <1>25, InputAssumption DEF Fails, Accepted, Rejected
  <2>2. Returns("summary", p, hs, K, q, s, st)
    BY <1>25, <1>2, <2>1 DEF Returns, Answered, Released, ParsingApis,
       Accepted, Rejected
  <2> QED BY <1>25, <2>2, SummaryListing, SoundReturn
<1> QED BY <1>1, <1>3, <1>4, <1>5, <1>6, <1>7, <1>8, <1>9, <1>10, <1>11,
    <1>12, <1>13, <1>14, <1>15, <1>16, <1>17, <1>18, <1>19, <1>20, <1>21,
    <1>22, <1>23, <1>24, <1>25 DEF AtSummary, InRawParse
-----------------------------------------------------------------------------
(* The outline holds together. *)

\* The functions the host can call.
LEMMA ApiNames ==
  ASSUME NEW a \in Apis
  PROVE  a \in {"parse", "parse_protobuf", "fingerprint", "normalize", "scan",
                "scan_tokens", "split_scanner", "split_parser", "deparse",
                "deparse_comments", "is_utility", "plpgsql", "summary"}
  BY ApiAssumption DEF Programs

\* Every function starts at a point of its outline.
LEMMA OutlineBegins ==
  ASSUME NEW a \in Apis, NEW q, NEW s, NEW st, a \notin ParsingApis => st = s
  PROVE  At(a, 1, <<>>, {}, q, s, st) /\ ~Live(a, 1)
<1>1. ~Live(a, 1)
  BY DEF Live
<1>2. CASE a \in ParsingApis
  <2>1. /\ AtParse(1, <<>>, {}, q, s, st) /\ AtParseProtobuf(1, <<>>, {}, q, s, st)
        /\ AtFingerprint(1, <<>>, {}, q, s, st)
        /\ AtIsUtility(1, <<>>, {}, q, s, st)
        /\ AtPlpgsql(1, <<>>, {}, q, s, st) /\ AtSummary(1, <<>>, {}, q, s, st)
    BY DEF AtParse, AtParseProtobuf, AtFingerprint, AtIsUtility, AtPlpgsql,
           AtSummary, Begin
  <2> QED BY <1>1, <1>2, <2>1 DEF ParsingApis, At
<1>3. CASE a \notin ParsingApis
  <2>1. /\ AtNormalize(1, <<>>, {}, q, s, s) /\ AtScan(1, <<>>, {}, q, s, s)
        /\ AtScanTokens(1, <<>>, {}, q, s, s)
        /\ AtSplitScanner(1, <<>>, {}, q, s, s)
        /\ AtDeparse(1, <<>>, {}, q, s, s)
        /\ AtDeparseComments(1, <<>>, {}, q, s, s)
    BY DEF AtNormalize, AtScan, AtScanTokens, AtSplitScanner, AtDeparse,
           AtDeparseComments, Begin
  <2> QED BY <1>1, <1>3, <2>1, ApiNames DEF ParsingApis, At
<1> QED BY <1>2, <1>3

\* From every point of it, the next operation leads to another one.
LEMMA OutlineIsSound ==
  ASSUME NEW a, NEW p, NEW hs, NEW K, NEW q \in Inputs,
         NEW s \in SUBSET Settings, NEW st, At(a, p, hs, K, q, s, st)
  PROVE  Sound(a, p, hs, K, q, s, st)
<1>1. a \in {"parse", "parse_protobuf", "fingerprint", "normalize", "scan",
             "scan_tokens", "split_scanner", "split_parser", "deparse",
             "deparse_comments", "is_utility", "plpgsql", "summary"}
  BY DEF At
<1> QED
  BY <1>1, ParseOutline, ParseProtobufOutline, FingerprintOutline,
     NormalizeOutline, ScanOutline, ScanTokensOutline, SplitScannerOutline,
     DeparseOutline, DeparseCommentsOutline, IsUtilityOutline, PlpgsqlOutline,
     SummaryOutline

-----------------------------------------------------------------------------
(* The invariant is inductive. *)

\* The first state satisfies the invariant.
LEMMA InitInv == Init => IndInv
  BY DEF Init, IndInv, Defaults

\* The settings that count for a call are settings.
LEMMA CountsAreSettings ==
  IndInv => Counts \in SUBSET Settings
  BY InputAssumption DEF IndInv, Counts

\* The thread runs operation pc of its call: the outline says what comes next.
LEMMA RunningIsSound ==
  ASSUME IndInv, at = "running"
  PROVE  Sound(api, pc, handlers, known, input, Counts, settings)
  BY CountsAreSettings, OutlineIsSound DEF IndInv

\* Within a call, a step that leaves the call and the settings alone and goes on
\* to a point of the outline keeps the invariant.
LEMMA GoesOn ==
  ASSUME IndInv, at = "running", at' = "running", UNCHANGED call,
         settings' \in SUBSET Settings, Counts' = Counts,
         Goes(api, pc, pc', handlers', known', input, Counts, settings'),
         blocks' = known',
         UNCHANGED <<current, live, errors, broken, leaked>>
  PROVE  IndInv'
<1>1. /\ api' = api /\ input' = input /\ options' = options
  BY DEF call
<1>2. At(api', pc', handlers', known', input', Counts', settings')
  BY <1>1 DEF Goes
<1>3. IF Live(api', pc') THEN live' = TRUE /\ current' = "call"
      ELSE live' = FALSE /\ current' = "top"
  BY <1>1 DEF Goes, IndInv
<1> QED BY <1>1, <1>2, <1>3 DEF IndInv

\* The host calls a function: it is at the beginning of its outline.
LEMMA CallApiInv ==
  ASSUME IndInv, NEW a \in Apis, NEW q \in Inputs, NEW o \in Options,
         CallApi(a, q, o)
  PROVE  IndInv'
<1>1. At(a, 1, <<>>, {}, q, Counts', settings) /\ ~Live(a, 1)
  BY OutlineBegins DEF CallApi, Counts
<1> QED BY <1>1 DEF CallApi, IndInv

\* The host frees a result: nothing is left but the one known leak.
LEMMA FreeResultInv ==
  ASSUME IndInv, FreeResult
  PROVE  IndInv'
<1>1. Returns(api, pc, handlers, known, input, Counts, settings) /\ blocks = known
  BY DEF FreeResult, IndInv
<1>2. {api} \X (blocks \ (known \intersect Released(api)))
        \subseteq {<<"deparse_comments", "error">>}
  BY <1>1 DEF Returns
<1> QED BY <1>1, <1>2 DEF FreeResult, IndInv, Returns, call

\* The steps of a call, by what they change.
LEMMA ContextStepsInv ==
  ASSUME IndInv, Enter \/ Exit
  PROVE  IndInv'
<1>1. Sound(api, pc, handlers, known, input, Counts, settings)
  BY RunningIsSound DEF Enter, Exit, Running
<1>2. CASE Enter
  <2>1. Live(api, pc + 1) /\ At(api, pc + 1, handlers, known, input, Counts, settings)
    BY <1>1, <1>2 DEF Sound, Enter, Running, Instruction
  <2>2. Counts' = Counts
    BY <1>2 DEF Enter, Counts, call
  <2> QED BY <1>2, <2>1, <2>2 DEF Enter, Running, Step, IndInv, call
<1>3. CASE Exit
  <2>1. ~Live(api, pc + 1) /\ At(api, pc + 1, handlers, known, input, Counts, settings)
    BY <1>1, <1>3 DEF Sound, Exit, Running, Instruction
  <2>2. Counts' = Counts
    BY <1>3 DEF Exit, Counts, call
  <2> QED BY <1>3, <2>1, <2>2 DEF Exit, Running, Step, IndInv, call
<1> QED BY <1>2, <1>3

\* The function returns, with the result it must have.
LEMMA ReturnInv ==
  ASSUME IndInv, Return
  PROVE  IndInv'
<1>1. Sound(api, pc, handlers, known, input, Counts, settings)
  BY RunningIsSound DEF Return, Running
<1>2. Returns(api, pc, handlers, known, input, Counts, settings)
  BY <1>1 DEF Sound, Return, Running, Instruction
<1>3. Counts' = Counts
  BY DEF Return, Counts, call
<1> QED BY <1>2, <1>3 DEF Return, Running, IndInv, call

\* PG_TRY and PG_END_TRY.
LEMMA TryInv ==
  ASSUME IndInv, TryBegin \/ TryEnd
  PROVE  IndInv'
<1>1. Sound(api, pc, handlers, known, input, Counts, settings)
  BY RunningIsSound DEF TryBegin, TryEnd, Running
<1>2. Counts' = Counts
  BY DEF TryBegin, TryEnd, Counts, call
<1>3. CASE TryBegin
  <2>1. /\ Live(api, pc)
        /\ Goes(api, pc, pc + 1,
                Append(handlers,
                       Handler(Instruction.arg, pc + Instruction.skip, known)),
                known, input, Counts, settings)
    BY <1>1, <1>3 DEF Sound, TryBegin, Running, Instruction
  <2>2. current = "call"
    BY <1>3, <2>1 DEF IndInv, TryBegin, Running
  <2>3. handlers' = Append(handlers,
               Handler(Instruction.arg, pc + Instruction.skip, known))
    BY <1>3, <2>2 DEF TryBegin, Handler
  <2> QED
    BY <1>2, <1>3, <2>1, <2>3, GoesOn DEF TryBegin, Running, Step, IndInv
<1>4. CASE TryEnd
  <2>1. Goes(api, pc, pc + 1, FrontOf(handlers), known, input, Counts, settings)
    BY <1>1, <1>4 DEF Sound, TryEnd, Running, Instruction
  <2> QED
    BY <1>2, <1>4, <2>1, GoesOn DEF TryEnd, Running, Step, IndInv, FrontOf
<1> QED BY <1>3, <1>4

\* Only a function that parses with pg_query_raw_parse sets the settings.
LEMMA SettingsInv ==
  ASSUME IndInv, SetSettings \/ ResetSettings
  PROVE  IndInv'
<1>1. Sound(api, pc, handlers, known, input, Counts, settings)
  BY RunningIsSound DEF SetSettings, ResetSettings, Running
<1>2. api \in ParsingApis
  BY <1>1 DEF Sound, SetSettings, ResetSettings, Running, Instruction
<1>3. Counts = options /\ Counts' = Counts
  BY <1>2 DEF SetSettings, ResetSettings, Counts, call
<1>4. CASE SetSettings
  <2>1. Goes(api, pc, pc + 1, handlers, known, input, Counts, options)
    BY <1>1, <1>3, <1>4 DEF Sound, SetSettings, Running, Instruction
  <2>2. options \in SUBSET Settings
    BY InputAssumption DEF IndInv
  <2> QED
    BY <1>3, <1>4, <2>1, <2>2, GoesOn DEF SetSettings, Running, Step, IndInv
<1>5. CASE ResetSettings
  <2>1. Goes(api, pc, pc + 1, handlers, known, input, Counts, Defaults)
    BY <1>1, <1>5 DEF Sound, ResetSettings, Running, Instruction
  <2>2. Defaults \in SUBSET Settings
    BY DEF Defaults
  <2> QED
    BY <1>3, <1>5, <2>1, <2>2, GoesOn DEF ResetSettings, Running, Step, IndInv
<1> QED BY <1>4, <1>5

\* An operation that could fail does not.
LEMMA SucceedInv ==
  ASSUME IndInv, Succeed
  PROVE  IndInv'
<1>1. Sound(api, pc, handlers, known, input, Counts, settings)
  BY RunningIsSound DEF Succeed
<1>2. Counts' = Counts
  BY DEF Succeed, Counts, call
<1>3. Goes(api, pc, pc + 1, handlers, known, input, Counts, settings)
  BY <1>1 DEF Sound, Succeed, Instruction
<1> QED BY <1>2, <1>3, GoesOn DEF Succeed, Step, IndInv

\* Every error finds a PG_TRY, and room on the errordata stack.
LEMMA ThrowInv ==
  ASSUME IndInv, Throw
  PROVE  IndInv'
<1>1. Sound(api, pc, handlers, known, input, Counts, settings)
  BY RunningIsSound DEF Throw
<1>2. Counts' = Counts
  BY DEF Throw, Counts, call
<1>3. blocks = known /\ errors = 0
  BY DEF Throw, IndInv
<1>4. /\ Live(api, pc)
      /\ Unwinds(api, handlers, blocks', thrown', input, Counts, settings)
  BY <1>1, <1>3 DEF Sound, Throw, Instruction
<1>5. handlers # <<>>
  BY <1>4 DEF Unwinds
<1>6. broken' = "none" /\ errors' = 1
  BY <1>3, <1>5 DEF Throw, ErrorStackSize, IndInv
<1>7. live' = TRUE
  BY <1>4 DEF Throw, IndInv
<1> QED BY <1>2, <1>4, <1>6, <1>7 DEF Throw, IndInv, call

\* The error is caught, and the function goes on at a point of its outline.
LEMMA CatchInv ==
  ASSUME IndInv, CatchReport \/ CatchSwallow
  PROVE  IndInv'
<1>1. /\ Unwinds(api, handlers, blocks, thrown, input, Counts, settings)
      /\ live = TRUE
  BY DEF CatchReport, CatchSwallow, IndInv
<1>2. Innermost = LastOf(handlers) /\ Outer = FrontOf(handlers)
  BY DEF Innermost, Outer, LastOf, FrontOf
<1>3. Caught(api, Innermost, Outer, blocks, thrown, input, Counts, settings)
  BY <1>1, <1>2 DEF CatchReport, CatchSwallow, Unwinds
<1>4. /\ At(api, pc', handlers', known', input, Counts, settings)
      /\ blocks' = known' /\ Live(api, pc') /\ current' = "call"
  <2>1. CASE CatchReport
    BY <1>3, <2>1 DEF CatchReport, Caught
  <2>2. CASE CatchSwallow
    BY <1>3, <2>2 DEF CatchSwallow, Caught
  <2> QED BY <2>1, <2>2
<1>5. Counts' = Counts
  BY DEF CatchReport, CatchSwallow, Counts, call
<1> QED BY <1>1, <1>4, <1>5 DEF CatchReport, CatchSwallow, IndInv, call

\* A handler that passes an error on has another one around it.
LEMMA RethrowInv ==
  ASSUME IndInv, CatchRethrow
  PROVE  IndInv'
<1>1. /\ Unwinds(api, handlers, blocks, thrown, input, Counts, settings)
      /\ live = TRUE /\ errors = 1
  BY DEF CatchRethrow, IndInv
<1>2. Innermost = LastOf(handlers) /\ Outer = FrontOf(handlers)
  BY DEF Innermost, Outer, LastOf, FrontOf
<1>3. ~Caught(api, Innermost, Outer, blocks, thrown, input, Counts, settings)
  BY DEF CatchRethrow, Caught
<1>4. /\ Outer # <<>>
      /\ Caught(api, LastOf(Outer), FrontOf(Outer), blocks', thrown, input,
                Counts, settings)
  BY <1>1, <1>2, <1>3 DEF Unwinds, CatchRethrow
<1>5. Unwinds(api, handlers', blocks', thrown', input, Counts, settings)
  BY <1>4 DEF Unwinds, CatchRethrow
<1>6. Counts' = Counts
  BY DEF CatchRethrow, Counts, call
<1>7. broken' = "none"
  BY <1>4 DEF CatchRethrow, IndInv
<1> QED BY <1>1, <1>5, <1>6, <1>7 DEF CatchRethrow, IndInv, call

\* No block is allocated over one that is still there, none is lost.
LEMMA BlocksInv ==
  ASSUME IndInv, Allocate \/ Release \/ AssignResult
  PROVE  IndInv'
<1>1. Sound(api, pc, handlers, known, input, Counts, settings)
  BY RunningIsSound DEF Allocate, Release, AssignResult, Running
<1>2. Counts' = Counts /\ UNCHANGED call
  BY DEF Allocate, Release, AssignResult, Counts, call
<1>3. blocks = known
  BY DEF IndInv, Allocate, Release, AssignResult, Running
<1>4. CASE Allocate
  <2>1. Instruction.arg \notin known
    BY <1>1, <1>4 DEF Sound, Allocate, Running, Instruction
  <2>2. Goes(api, pc, pc + 1, handlers, known \union {Instruction.arg}, input,
             Counts, settings)
    BY <1>1, <1>4 DEF Sound, Allocate, Running, Instruction
  <2> QED
    BY <1>2, <1>3, <1>4, <2>1, <2>2, GoesOn DEF Allocate, Running, Step, IndInv
<1>5. CASE Release
  <2>1. Goes(api, pc, pc + 1, handlers, known \ {Instruction.arg}, input,
             Counts, settings)
    BY <1>1, <1>5 DEF Sound, Release, Running, Instruction
  <2>2. blocks' = known'
    BY <1>3, <1>5 DEF Release
  <2> QED
    BY <1>2, <1>5, <2>1, <2>2, GoesOn DEF Release, Running, Step, IndInv
<1>6. CASE AssignResult
  <2>1. Goes(api, pc, pc + 1, Assigned(handlers, known), known, input, Counts,
             settings)
    BY <1>1, <1>6 DEF Sound, AssignResult, Running, Instruction
  <2> QED
    BY <1>2, <1>3, <1>6, <2>1, GoesOn
    DEF AssignResult, Running, Step, IndInv, Assigned
<1> QED BY <1>4, <1>5, <1>6

\* if (result.error) ...
LEMMA CheckErrorInv ==
  ASSUME IndInv, CheckError
  PROVE  IndInv'
<1>1. Sound(api, pc, handlers, known, input, Counts, settings)
  BY RunningIsSound DEF CheckError, Running
<1>2. Counts' = Counts /\ UNCHANGED call
  BY DEF CheckError, Counts, call
<1>3. Goes(api, pc, pc', handlers, known, input, Counts, settings)
  BY <1>1 DEF Sound, CheckError, Running, Instruction
<1>4. blocks = known
  BY DEF IndInv, CheckError, Running
<1> QED BY <1>2, <1>3, <1>4, GoesOn DEF CheckError, Running, IndInv

\* Every step keeps the invariant.
LEMMA InvStep == IndInv /\ [Next]_vars => IndInv'
<1> SUFFICES ASSUME IndInv, [Next]_vars PROVE IndInv'
  OBVIOUS
<1>1. CASE \E a \in Apis, q \in Inputs, o \in Options : CallApi(a, q, o)
  BY <1>1, CallApiInv
<1>2. CASE LibraryStep
  BY <1>2, ContextStepsInv, ReturnInv, TryInv, SettingsInv, SucceedInv, ThrowInv,
     CatchInv, RethrowInv, BlocksInv, CheckErrorInv DEF LibraryStep
<1>3. CASE FreeResult
  BY <1>3, FreeResultInv
<1>4. CASE UNCHANGED vars
  BY <1>4 DEF vars, IndInv, Counts
<1> QED BY <1>1, <1>2, <1>3, <1>4 DEF Next

-----------------------------------------------------------------------------
(* What follows. *)

\* The proof outline is an invariant: whatever the thread called before and
\* whatever failed, an API function is at a point of its outline, and an error
\* under way has a PG_TRY that takes it to one.
THEOREM CallsFollowTheOutline == Spec => []IndInv
  BY InitInv, InvStep, PTL DEF Spec

\* Every ereport(ERROR) within the library reaches a PG_CATCH, and the errordata
\* stack of elog.c has room for it, however many calls failed before: no input
\* ends the process.
THEOREM NoFatalErrorHolds == Spec => []NoFatalError
<1>1. IndInv => NoFatalError
  BY DEF IndInv, NoFatalError
<1> QED BY <1>1, CallsFollowTheOutline, PTL

\* After every call, failed or not, the thread is as it was before: in
\* TopMemoryContext, the context of the call deleted, PG_exception_stack empty,
\* the errordata stack flushed, no arena left.
THEOREM CleanBetweenCallsHolds == Spec => []CleanBetweenCalls
<1>1. IndInv => CleanBetweenCalls
  BY DEF IndInv, CleanBetweenCalls, Returns
<1> QED BY <1>1, CallsFollowTheOutline, PTL

\* No malloc of the library overwrites the last pointer to a block, and when a
\* call returns the result points to every block that is allocated.
THEOREM ReturnedBlocksReachableHolds == Spec => []ReturnedBlocksReachable
<1>1. IndInv => ReturnedBlocksReachable
  BY DEF IndInv, ReturnedBlocksReachable
<1> QED BY <1>1, CallsFollowTheOutline, PTL

\* The pg_query_free_* functions release whatever a call returns, on every path,
\* except for the error of pg_query_deparse_comments_for_query.
THEOREM OnlyCommentsErrorLeaksHolds == Spec => []OnlyCommentsErrorLeaks
<1>1. IndInv => OnlyCommentsErrorLeaks
  BY DEF IndInv, OnlyCommentsErrorLeaks
<1> QED BY <1>1, CallsFollowTheOutline, PTL

\* Deparsing reads no setting of the scanner.
LEMMA DeparseIgnoresSettings ==
  ASSUME NEW q, NEW s, NEW t
  PROVE  Fails("deparse", q, s) <=> Fails("deparse", q, t)
  BY DEF Fails

\* A call reports an error exactly if its input fails, under its own options if
\* it parses with pg_query_raw_parse, else under the settings it finds.
THEOREM CallsSetTheirOptionsHolds == Spec => []CallsSetTheirOptions
<1>1. IndInv => CallsSetTheirOptions
  <2> SUFFICES ASSUME IndInv, at = "returned"
               PROVE  CallsSetTheirOptions
    BY DEF CallsSetTheirOptions, ReportsErrorUnder
  <2>1. Returns(api, pc, handlers, known, input, Counts, settings)
    BY DEF IndInv
  <2>2. "error" \in known <=> Fails(api, input, Counts)
    BY <2>1 DEF Returns
  <2>3. "error" \in known \/ "payload" \in known
    BY <2>1 DEF Returns, Answered
  <2>4. api \in Apis /\ (api \notin TakesOptions => options = Defaults)
    BY DEF IndInv
  <2>5. CASE api \in TakesOptions
    BY <2>2, <2>3, <2>5
    DEF CallsSetTheirOptions, ReportsErrorUnder, TakesOptions, SetsNothing,
        Counts, ParsingApis
  <2>6. CASE api \in SetsNothing
    BY <2>2, <2>3, <2>6
    DEF CallsSetTheirOptions, ReportsErrorUnder, TakesOptions, SetsNothing,
        Counts, ParsingApis
  <2>7. CASE api = "deparse"
    BY <2>2, <2>3, <2>7, DeparseIgnoresSettings
    DEF CallsSetTheirOptions, ReportsErrorUnder, TakesOptions, SetsNothing
  <2>8. CASE api \in {"split_parser", "is_utility", "plpgsql"}
    BY <2>2, <2>3, <2>4, <2>8
    DEF CallsSetTheirOptions, ReportsErrorUnder, TakesOptions, SetsNothing,
        Counts, ParsingApis
  <2> QED
    BY <2>4, <2>5, <2>6, <2>7, <2>8, ApiNames DEF TakesOptions, SetsNothing
<1> QED BY <1>1, CallsFollowTheOutline, PTL

-----------------------------------------------------------------------------
(* The contract. *)

\* The functions that call pg_query_raw_parse.
LEMMA ParsingIsParsingApis ==
  ASSUME NEW a \in Apis
  PROVE  a \in Parsing <=> a \in ParsingApis
  BY ApiNames DEF Parsing, ParsingApis, SetsNothing

\* The refinement mapping takes the first state to a first state ...
LEMMA ContractInit == Init => Contract!Init
  BY DEF Init, Contract!Init, Inside

\* ... and every step to a step of the contract, or to none: the operations
\* within a call are invisible, the return statement is the answer.
LEMMA ContractStep ==
  ASSUME IndInv, [Next]_vars
  PROVE  [Contract!Next]_(Contract!vars)
<1>1. ASSUME NEW a \in Apis, NEW q \in Inputs, NEW o \in Options,
             CallApi(a, q, o)
      PROVE  Contract!Ask(a, q, o)
  BY <1>1 DEF CallApi, Contract!Ask, Contract!InFlux, Inside
<1>2. ASSUME LibraryStep, ~Return
      PROVE  UNCHANGED Contract!vars
  <2>1. at \in {"running", "throwing"} /\ at' \in {"running", "throwing"}
    BY <1>2 DEF LibraryStep, Enter, Exit, TryBegin, TryEnd, SetSettings,
      ResetSettings, Succeed, Throw, CatchReport, CatchSwallow, CatchRethrow,
      Allocate, Release, AssignResult, CheckError, Running
  <2>2. UNCHANGED call
    BY <1>2 DEF LibraryStep, Enter, Exit, TryBegin, TryEnd, SetSettings,
      ResetSettings, Succeed, Throw, CatchReport, CatchSwallow, CatchRethrow,
      Allocate, Release, AssignResult, CheckError
  <2>3. api \in Parsing \/ UNCHANGED settings
    <3>1. CASE SetSettings \/ ResetSettings
      <4>1. Sound(api, pc, handlers, known, input, Counts, settings)
        BY <3>1, RunningIsSound DEF SetSettings, ResetSettings, Running
      <4>2. api \in ParsingApis
        BY <3>1, <4>1 DEF Sound, SetSettings, ResetSettings, Running, Instruction
      <4> QED BY <4>2, ParsingIsParsingApis DEF IndInv
    <3>2. CASE ~(SetSettings \/ ResetSettings)
      BY <1>2, <3>2 DEF LibraryStep, Enter, Exit, TryBegin, TryEnd, Succeed,
        Throw, CatchReport, CatchSwallow, CatchRethrow, Allocate, Release,
        AssignResult, CheckError
    <3> QED BY <3>1, <3>2
  <2> QED BY <2>1, <2>2, <2>3 DEF Contract!vars, Inside, call
<1>3. ASSUME Return
      PROVE  Contract!Answer
  <2>1. Returns(api, pc, handlers, known, input, Counts, settings)
    <3>1. Sound(api, pc, handlers, known, input, Counts, settings)
      BY <1>3, RunningIsSound DEF Return, Running
    <3> QED BY <1>3, <3>1 DEF Sound, Return, Running, Instruction
  <2>2. api \in Parsing <=> api \in ParsingApis
    BY ParsingIsParsingApis DEF IndInv
  <2>3. at = "running" /\ at' = "returned" /\ UNCHANGED <<call, known, settings>>
    BY <1>3 DEF Return, Running
  <2>4. Counts = IF api \in Parsing THEN options ELSE settings
    BY <2>2 DEF Counts
  <2>5. known \intersect {"error", "payload"} = Answered(api, input, Counts)
    BY <2>1 DEF Returns
  <2>6. api \in Parsing =>
          settings = IF Parses(input, options) THEN Defaults ELSE options
    BY <2>1, <2>2, <2>4 DEF Returns
  <2> QED
    BY <2>2, <2>3, <2>4, <2>5, <2>6
    DEF Contract!Answer, Contract!Effective, Inside, Answered, call
<1>4. ASSUME FreeResult
      PROVE  Contract!Discard
  BY <1>4 DEF FreeResult, Contract!Discard, Inside, call
<1>5. ASSUME UNCHANGED vars
      PROVE  UNCHANGED Contract!vars
  BY <1>5 DEF vars, Contract!vars, Inside
<1> QED BY <1>1, <1>2, <1>3, <1>4, <1>5 DEF Next, Contract!Next, LibraryStep

\* The library implements ApiContract, its fairness left aside: every call is
\* answered by an error or a payload as its input and the settings that count
\* for it determine, and leaves the defaults behind or, after a parse that
\* failed, its options.
THEOREM LibraryKeepsContract ==
  Spec => Contract!Init /\ [][Contract!Next]_(Contract!vars)
<1>1. IndInv /\ [Next]_vars => [Contract!Next]_(Contract!vars)
  BY ContractStep
<1> QED BY <1>1, ContractInit, CallsFollowTheOutline, PTL DEF Spec
====
