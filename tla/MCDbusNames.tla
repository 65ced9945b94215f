--------------------------- MODULE MCDbusNames ---------------------------
(***************************************************************************)
(* DbusNames for TLC: two connections that come and go, and two names that *)
(* pass between them.                                                      *)
(***************************************************************************)
EXTENDS DbusNames, TLC

CONSTANTS c1, c2, n1, n2

MCConns == {c1, c2}
MCNames == {n1, n2}
MCSymmetry == Permutations(MCConns) \cup Permutations(MCNames)
=============================================================================
