----------------------- MODULE MCConnectionLifecycle -----------------------
(***************************************************************************)
(* ConnectionLifecycle for TLC: successive connections and a plugin        *)
(* thread.                                                                 *)
(***************************************************************************)
EXTENDS ConnectionLifecycle

CONSTANTS h1, h2, h3, p1

MCHosts   == {h1, h2}
MCHosts3  == {h1, h2, h3}
MCPlugins == {p1}
=============================================================================
