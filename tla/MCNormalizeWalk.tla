-------------------------- MODULE MCNormalizeWalk --------------------------
(* NormalizeWalk, for small queries. *)
EXTENDS NormalizeWalk, TLC

ThreeKinds == "plain" :> "none" @@ "values" :> "bare" @@ "sub" :> "select"
=============================================================================
