------------------------- MODULE MCIndependentParts -------------------------
(***************************************************************************)
(* IndependentParts for TLC.  A read of the FIFO takes 3 bytes and lines   *)
(* have up to 5 where 4 fit; a frame of an application has a header of 2   *)
(* bytes in a buffer of 5, and payloads that are empty, fit, just do not   *)
(* fit, and fill the buffer even alone, so that the terminator takes the   *)
(* counter of the bytes from 7 to 4; two messages of the bus wait, and     *)
(* four numbers tell them and the last one forwarded apart.  An unsigned   *)
(* char has 4 values, so that a header of 5 bytes has a length that wraps  *)
(* and one of 3 does not fit its buffer; the last frame of the host does   *)
(* not parse.  Two processes may have two pids, or the same one after      *)
(* another.                                                                *)
(***************************************************************************)
EXTENDS IndependentParts

MCTypes == {"agent", "other"}
MCPayloads == {0, 2, 3, 6}

MCHostFrames == << [header |-> 2, payload |-> 2, parses |-> TRUE],
                   [header |-> 1, payload |-> 0, parses |-> TRUE],
                   [header |-> 3, payload |-> 1, parses |-> TRUE],
                   [header |-> 2, payload |-> 1, parses |-> FALSE] >>

MCAgentFrames == << [header |-> 2, payload |-> 3],
                    [header |-> 1, payload |-> 0],
                    [header |-> 5, payload |-> 1],
                    [header |-> 2, payload |-> 1],
                    [header |-> 3, payload |-> 1] >>

MCPids == 1..2
MCTids == 1..2
MCConfigured == {1}
MCWatched == {2}
=============================================================================
