----------------------------- MODULE MCRuntime -----------------------------
(***************************************************************************)
(* Runtime for TLC: two plugins, two connections one after the other, and  *)
(* a message from a host.                                                  *)
(***************************************************************************)
EXTENDS Runtime
=============================================================================
