---------------------------- MODULE ApiContract ----------------------------
(***************************************************************************)
(* What a thread that calls libpg_query may rely on, call after call: a    *)
(* call is answered, with an error exactly if its input fails under the    *)
(* scanner settings that count for it, and the next call finds settings    *)
(* that are the defaults or the options of the last parse that failed.     *)
(* No operation within a call is visible.                                  *)
(***************************************************************************)
CONSTANTS
  Apis, Inputs, Options,
  Defaults,        \* the settings a thread starts with
  Parsing,         \* the functions that parse with pg_query_raw_parse
  TakesOptions,    \* those of them that have parser options
  Partial,         \* functions that may return a result next to an error
  Parses(_, _),    \* is an input parsed under these settings?
  Fails(_, _, _)   \* does a function report an error for an input, under settings?

VARIABLES
  phase,           \* "idle", "busy", "answered"
  api, input, options,
  mode,            \* the scanner settings, while no call changes them
  answer           \* what the result holds: an error, a payload

vars == <<phase, api, input, options, mode, answer>>

InFlux == "in flux"

Init ==
  /\ phase = "idle" /\ api \in Apis /\ input \in Inputs /\ options \in Options
  /\ mode = Defaults
  /\ answer = {}

Ask(a, q, o) ==
  /\ phase = "idle"
  /\ a \in TakesOptions \/ o = Defaults
  /\ phase' = "busy" /\ api' = a /\ input' = q /\ options' = o
  /\ mode' = IF a \in Parsing THEN InFlux ELSE mode
  /\ answer' = {}

\* The settings that the input of the call is read under.
Effective == IF api \in Parsing THEN options ELSE mode

Answer ==
  /\ phase = "busy"
  /\ phase' = "answered"
  /\ answer' = IF ~Fails(api, input, Effective) THEN {"payload"}
               ELSE IF api \in Partial /\ Parses(input, Effective)
                 THEN {"payload", "error"}
                 ELSE {"error"}
  /\ mode' = IF api \notin Parsing THEN mode
             ELSE IF Parses(input, options) THEN Defaults ELSE options
  /\ UNCHANGED <<api, input, options>>

Discard ==
  /\ phase = "answered"
  /\ phase' = "idle" /\ answer' = {}
  /\ UNCHANGED <<api, input, options, mode>>

Next == (\E a \in Apis, q \in Inputs, o \in Options : Ask(a, q, o))
          \/ Answer \/ Discard

Spec == Init /\ [][Next]_vars /\ WF_vars(Answer)
=============================================================================
