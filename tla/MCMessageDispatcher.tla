------------------------ MODULE MCMessageDispatcher ------------------------
(***************************************************************************)
(* MessageDispatcher for TLC: the thread that holds mMsgMutex and the      *)
(* event loop as callers, a few messages of which some are urgent, and a   *)
(* retry limit small enough to be reached.                                 *)
(***************************************************************************)
EXTENDS MessageDispatcher

CONSTANTS plugin, loop, m1, m2, u1

MCThreads == {plugin, loop}
MCMsgs    == {m1, m2, u1}
MCUrgent  == {u1}
=============================================================================
