----------------------------- MODULE MCApiCall -----------------------------
(* ApiCall on seven inputs, one for each way a call can go. *)
EXTENDS ApiCall

MCInputs == {"plain", "syntax_error", "backslash", "deep", "odd_node", "huge",
             "bad_function"}

\* "backslash" is a string constant with \' in it: it ends where it should only
\* with standard_conforming_strings off and backslash_quote not off.
MCScans(q, s) ==
  q = "backslash" => /\ "standard_conforming_strings" \in s
                     /\ "backslash_quote" \notin s
MCParses(q, s) == q # "syntax_error" /\ MCScans(q, s)
MCWalkError(q) ==
  CASE q = "deep" -> "stack" [] q = "odd_node" -> "unknown" [] OTHER -> "none"
MCEncodes(q) == q # "huge"
MCCompiles(q) == q # "bad_function"

AllOptions == SUBSET Settings
AllApis == DOMAIN Programs
=============================================================================
