------------------------------ MODULE MCSplit ------------------------------
(* Split, for every input of a few tokens, each followed by one blank. *)
EXTENDS Split

UpTo5 == UNION {[1..k -> Tokens] : k \in 0..5}

TwoApart(i) == 2 * (i - 1)
=============================================================================
