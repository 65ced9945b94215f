---------------------------- MODULE MCCommandPort ----------------------------
(***************************************************************************)
(* CommandPort for TLC: a request with a payload, one without, one that    *)
(* needs a larger buffer and one without a valid header.  Of the sizes     *)
(* misplaced bytes may yield, 15 makes the total wrap around.              *)
(***************************************************************************)
EXTENDS CommandPort, TLC

CONSTANTS query, empty, large, invalid

MCRequests    == {query, empty, large, invalid}
MCInvalid     == {invalid}
MCHeaderSize  == query :> 1 @@ empty :> 2 @@ large :> 1 @@ invalid :> 1
MCPayloadSize == query :> 2 @@ empty :> 0 @@ large :> 6 @@ invalid :> 0
MCGarbage     == {0, 1, 7, 15}
=============================================================================
