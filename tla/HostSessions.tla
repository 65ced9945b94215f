---------------------------- MODULE HostSessions ----------------------------
(***************************************************************************)
(* What the agent promises the plugins about host connections: sessions    *)
(* come one at a time, a host is served once per connection, and a session *)
(* ends only after its own connection was found broken - never because of  *)
(* a late report about an earlier one.  ConnectionLifecycle implements it. *)
(***************************************************************************)
CONSTANTS Hosts,     \* one element per connection a host opens
          None

VARIABLES session,   \* the host between onConnectionEstablished and
                     \* onConnectionLost, or None
          broken,    \* connections reported closed
          served     \* connections whose session has begun

hsVars == <<session, broken, served>>

HSInit == /\ session = None
          /\ broken = {}
          /\ served = {}

Break(h) == /\ broken' = broken \cup {h}
            /\ UNCHANGED <<session, served>>

Establish(h) == /\ session = None
                /\ h \notin served
                /\ session' = h
                /\ served' = served \cup {h}
                /\ UNCHANGED broken

Lose == /\ session # None
        /\ session \in broken
        /\ session' = None
        /\ UNCHANGED <<broken, served>>

HSNext == \/ \E h \in Hosts : Break(h) \/ Establish(h)
          \/ Lose

HSSafe == HSInit /\ [][HSNext]_hsVars

(* A broken session does not go on for ever.                               *)
HSSpec == HSSafe /\ WF_hsVars(Lose)
=============================================================================
