------------------------- MODULE MCMessageRecorder -------------------------
(***************************************************************************)
(* MessageRecorder for TLC: small messages, one as big as the limit, one   *)
(* with a context that makes its header too long for a record and perhaps  *)
(* for its buffer; no limit, one that two small messages do not reach and  *)
(* three do, and the limit that wraps to zero.                             *)
(***************************************************************************)
EXTENDS MessageRecorder, TLC

CONSTANTS s1, s2, s3, huge, wide

MCMsgs       == {s1, s2, s3, huge, wide}
MCLong       == {wide}
MCLimits     == {0, 3, 4}
MCSize       == s1 :> 1 @@ s2 :> 1 @@ s3 :> 1 @@ huge :> 3 @@ wide :> 1

(* The small messages differ in nothing.                                   *)
MCSymmetry   == Permutations({s1, s2, s3})
=============================================================================
