-------------------------- MODULE IndependentParts --------------------------
(***************************************************************************)
(* The parts of the agent that make messages of what others write or tell: *)
(* the two directions of the connection to the host, the plugins that read *)
(* what applications write, the D-Bus monitor and the resource monitor.    *)
(* Each has threads of its own and shares nothing with the others, so a    *)
(* behaviour is one of one part: `kind` says of which.                     *)
(***************************************************************************)
EXTENDS JsonReader, LogReader, SocketReader, DbusMonitor, HostStream,
        ResourceMonitor

VARIABLE kind

vars == <<kind, jVars, lVars, sVars, dVars, inVars, outVars, rVars>>

-----------------------------------------------------------------------------
Kinds == {"json", "log", "socket", "dbus", "receiver", "sender", "resource"}

(* What a part may start with is fixed where another one is looked at.     *)
Init == /\ kind \in Kinds
        /\ JsonInit
        /\ LogInit
        /\ kind = "log" \/ dateFirst
        /\ SocketInit
        /\ DbusInit
        /\ HostInit
        /\ ResourceInit

OfJson(A) ==
    /\ kind = "json" /\ A
    /\ UNCHANGED <<kind, lVars, sVars, dVars, inVars, outVars, rVars>>

OfLog(A) ==
    /\ kind = "log" /\ A
    /\ UNCHANGED <<kind, jVars, sVars, dVars, inVars, outVars, rVars>>

OfSocket(A) ==
    /\ kind = "socket" /\ A
    /\ UNCHANGED <<kind, jVars, lVars, dVars, inVars, outVars, rVars>>

OfDbus(A) ==
    /\ kind = "dbus" /\ A
    /\ UNCHANGED <<kind, jVars, lVars, sVars, inVars, outVars, rVars>>

OfReceiver(A) ==
    /\ kind = "receiver" /\ A
    /\ UNCHANGED <<kind, jVars, lVars, sVars, dVars, rVars>>

OfSender(A) ==
    /\ kind = "sender" /\ A
    /\ UNCHANGED <<kind, jVars, lVars, sVars, dVars, rVars>>

OfResource(A) ==
    /\ kind = "resource" /\ A
    /\ UNCHANGED <<kind, jVars, lVars, sVars, dVars, inVars, outVars>>

Next == \/ OfJson(JsonNext)
        \/ OfLog(LogNext)
        \/ OfSocket(SocketNext)
        \/ OfDbus(DbusNext)
        \/ OfReceiver(ReceiverNext)
        \/ OfSender(SenderNext)
        \/ OfResource(ResourceNext)

(* The threads run.  What applications write and when anybody stops a      *)
(* plugin is open, but for one thing: a bus is never silent for ever.      *)
Fairness ==
    /\ WF_vars(OfLog(LogRead))
    /\ WF_vars(OfDbus(~crashed /\ ProducerStep))
    /\ WF_vars(OfDbus(~crashed /\ PushMessageToQueue))
    /\ WF_vars(OfDbus(~crashed /\ ConsumerStep))
    /\ WF_vars(OfDbus(~crashed /\ MainStep))

Spec == Init /\ [][Next]_vars /\ Fairness
=============================================================================
