---------------------------- MODULE MCAppStats ----------------------------
(***************************************************************************)
(* AppStats for TLC: three connections to a collector whose table has two  *)
(* slots, so that it has gaps, reused descriptors and no room.  The first  *)
(* of them may be reset.                                                   *)
(***************************************************************************)
EXTENDS AppStats
=============================================================================
