---------------------------- MODULE DbusMonitor ----------------------------
(***************************************************************************)
(* The threads of the D-Bus monitor plugin and the data pool between them: *)
(* CDBusProducer captures the messages of a bus, CDBusConsumer forwards    *)
(* them to the plugin's sender, CDBusHandler starts and stops both from    *)
(* the main thread.  What the consumer makes of a message is DbusNames.    *)
(*                                                                         *)
(* Captured messages are numbered modulo Numbers, so that the bus never    *)
(* runs out of them.  The connection's pointer in the producer is not      *)
(* initialised by its constructor ("garbage"): closing it before the       *)
(* producer's thread has assigned it ends the process or not.              *)
(***************************************************************************)
EXTENDS Naturals, Sequences

CONSTANTS MaxQueue,   \* bound: captured messages waiting in mDbusQueue
          Numbers,    \* messages are numbered modulo this
          None

ASSUME DbusAssumption == /\ MaxQueue \in Nat \ {0}
                         /\ Numbers \in Nat
                         /\ Numbers > MaxQueue + 1
                         /\ None \notin Nat

VARIABLES
    producer,      \* where the producer's thread is
    consumer,      \* where the consumer's thread is
    main,          \* where CDBusHandler::start or stop is
    dbusconnection,  \* the producer's pointer
    mDBusconnection, \* the pool's pointer
    second,        \* mSecondconnection, for the consumer's queries
    established,   \* the auto-reset event mWaitConnection
    populated,     \* the auto-reset event mWaitPopulateDP
    queue,         \* mDbusQueue
    available,     \* mDbusMessageAvailable
    hand,          \* the message the consumer has popped, or None
    consumerStop,  \* the stop flags of the activities
    producerStop,
    captured,      \* the number of the next message captured
    forwarded,     \* the number of the next message to be forwarded
    crashed

startVars == <<dbusconnection, mDBusconnection, second, established, populated>>
poolVars  == <<queue, available, hand>>
stopVars  == <<consumerStop, producerStop>>
flowVars  == <<captured, forwarded>>

dVars == <<producer, consumer, main, startVars, poolVars, stopVars, flowVars,
          crashed>>

-----------------------------------------------------------------------------
ProducerStates == {"off", "connect", "publish", "waitPopulated", "addRules",
                   "dispatch", "notify", "ended"}

ConsumerStates == {"off", "top", "waitConnection", "populate", "next",
                   "waiting", "pop", "handle", "update", "ended"}

MainStates == {"startProducer", "startConsumer", "running", "stopConsumer",
               "joinConsumer", "cleanUp", "stopProducer", "stopped"}

DbusInit == /\ producer = "off"
        /\ consumer = "off"
        /\ main = "startProducer"
        /\ dbusconnection = "garbage"
        /\ mDBusconnection = "null"
        /\ second = "null"
        /\ established = FALSE
        /\ populated = FALSE
        /\ queue = <<>>
        /\ available = FALSE
        /\ hand = None
        /\ consumerStop = FALSE
        /\ producerStop = FALSE
        /\ captured = 0
        /\ forwarded = 0
        /\ crashed = FALSE

-----------------------------------------------------------------------------
(* CDBusProducer::dbusMonitorTask.                                         *)

(* dbus_bus_get_private, which may fail.                                   *)
Connect ==
    /\ producer = "connect"
    /\ dbusconnection' \in {"open", "null"}
    /\ producer' = "publish"
    /\ UNCHANGED <<consumer, main, mDBusconnection, second, established,
                   populated, poolVars, stopVars, flowVars, crashed>>

(* The pointer is read again, and main may have closed and cleared it.     *)
Publish ==
    /\ producer = "publish"
    /\ mDBusconnection' = dbusconnection
    /\ established' = TRUE
    /\ producer' = IF dbusconnection = "open" THEN "waitPopulated" ELSE "ended"
    /\ UNCHANGED <<consumer, main, dbusconnection, second, populated, poolVars,
                   stopVars, flowVars, crashed>>

WaitDpPopulated ==
    /\ producer = "waitPopulated"
    /\ populated
    /\ populated' = FALSE
    /\ producer' = "addRules"
    /\ UNCHANGED <<consumer, main, dbusconnection, mDBusconnection, second,
                   established, poolVars, stopVars, flowVars, crashed>>

(* dbusMonitorAddMatchRule and dbus_connection_add_filter: one rule that   *)
(* the bus refuses ends the task.                                          *)
AddMatchRules ==
    /\ producer = "addRules"
    /\ producer' \in {"dispatch", "ended"}
    /\ UNCHANGED <<consumer, main, startVars, poolVars, stopVars, flowVars,
                   crashed>>

(* Faulty variant: the newest message first.                               *)
PushFront ==
    /\ producer = "dispatch"
    /\ ~producerStop
    /\ dbusconnection = "open"
    /\ Len(queue) < MaxQueue
    /\ queue' = <<captured>> \o queue
    /\ captured' = (captured + 1) % Numbers
    /\ producer' = "notify"
    /\ UNCHANGED <<consumer, main, startVars, available, hand, stopVars,
                   forwarded, crashed>>

(* dbus_connection_read_write_dispatch calls the filter: handleDbusMessage *)
(* pushes in one critical section and notifies in the next.                *)
PushMessageToQueue ==
    /\ producer = "dispatch"
    /\ ~producerStop
    /\ dbusconnection = "open"
    /\ Len(queue) < MaxQueue
    /\ queue' = Append(queue, captured)
    /\ captured' = (captured + 1) % Numbers
    /\ producer' = "notify"
    /\ UNCHANGED <<consumer, main, startVars, available, hand, stopVars,
                   forwarded, crashed>>

(* notifyMessagesAvailable: a consumer that waits finds the flag raised.   *)
NotifyMessagesAvailable == available' = TRUE

HandleDbusMessageEnds ==
    /\ producer = "notify"
    /\ NotifyMessagesAvailable
    /\ producer' = "dispatch"
    /\ UNCHANGED <<consumer, main, startVars, queue, hand, stopVars, flowVars,
                   crashed>>

ProducerEnds ==
    /\ producer = "dispatch"
    /\ producerStop
    /\ producer' = "ended"
    /\ UNCHANGED <<consumer, main, startVars, poolVars, stopVars, flowVars,
                   crashed>>

ProducerStep == \/ Connect
                \/ Publish
                \/ WaitDpPopulated
                \/ AddMatchRules
                \/ HandleDbusMessageEnds
                \/ ProducerEnds

-----------------------------------------------------------------------------
(* CDBusConsumer::dbusConsumerLoop.                                        *)

OuterLoop ==
    /\ consumer = "top"
    /\ consumer' = IF consumerStop THEN "ended" ELSE "waitConnection"
    /\ UNCHANGED <<producer, main, startVars, poolVars, stopVars, flowVars,
                   crashed>>

(* Without a connection the consumer stops itself.                         *)
WaitConnectionEstablished ==
    /\ consumer = "waitConnection"
    /\ established
    /\ established' = FALSE
    /\ IF mDBusconnection = "null"
         THEN consumerStop' = TRUE /\ consumer' = "top"
         ELSE consumer' = "populate" /\ UNCHANGED consumerStop
    /\ UNCHANGED <<producer, main, dbusconnection, mDBusconnection, second,
                   populated, poolVars, producerStop, flowVars, crashed>>

PopulateDataPool ==
    /\ consumer = "populate"
    /\ populated' = TRUE
    /\ consumer' = "next"
    /\ UNCHANGED <<producer, main, dbusconnection, mDBusconnection, second,
                   established, poolVars, stopVars, flowVars, crashed>>

InnerLoop ==
    /\ consumer = "next"
    /\ consumer' = IF consumerStop THEN "top" ELSE "waiting"
    /\ UNCHANGED <<producer, main, startVars, poolVars, stopVars, flowVars,
                   crashed>>

WaitForMessagesAvailable ==
    /\ consumer = "waiting"
    /\ available
    /\ consumer' = "pop"
    /\ UNCHANGED <<producer, main, startVars, poolVars, stopVars, flowVars,
                   crashed>>

PopMessageFromQueue ==
    /\ consumer = "pop"
    /\ IF queue = <<>>
         THEN UNCHANGED <<queue, hand>>
         ELSE hand' = Head(queue) /\ queue' = Tail(queue)
    /\ consumer' = "handle"
    /\ UNCHANGED <<producer, main, startVars, available, stopVars, flowVars,
                   crashed>>

(* sendApplicationMessage and the deletion of the entry.                   *)
Forward ==
    /\ consumer = "handle"
    /\ hand' = None
    /\ forwarded' = IF hand = None THEN forwarded ELSE (hand + 1) % Numbers
    /\ consumer' = "update"
    /\ UNCHANGED <<producer, main, startVars, queue, available, stopVars,
                   captured, crashed>>

(* Faulty variant: the flag is lowered after each message.                 *)
FlagAlwaysLowered == FALSE

FlagAfterUpdate == available /\ queue # <<>>

UpdateMessageAvailableFlag ==
    /\ consumer = "update"
    /\ available' = FlagAfterUpdate
    /\ consumer' = "next"
    /\ UNCHANGED <<producer, main, startVars, queue, hand, stopVars, flowVars,
                   crashed>>

ConsumerStep == \/ OuterLoop
                \/ WaitConnectionEstablished
                \/ PopulateDataPool
                \/ InnerLoop
                \/ WaitForMessagesAvailable
                \/ PopMessageFromQueue
                \/ Forward
                \/ UpdateMessageAvailableFlag

-----------------------------------------------------------------------------
(* CDBusHandler::start and stop, on the main thread.                       *)

StartProducer ==
    /\ main = "startProducer"
    /\ main' = "startConsumer"
    /\ producer' = "connect"
    /\ UNCHANGED <<consumer, startVars, poolVars, stopVars, flowVars, crashed>>

(* CDBusConsumer::start opens a connection of its own, which may fail.     *)
StartConsumer ==
    /\ main = "startConsumer"
    /\ second' \in {"open", "null"}
    /\ consumer' = "top"
    /\ main' = "running"
    /\ UNCHANGED <<producer, dbusconnection, mDBusconnection, established,
                   populated, poolVars, stopVars, flowVars, crashed>>

(* CDBusHandler::stop notifies the consumer before it tells it to stop.    *)
NotifyConsumer ==
    /\ main = "running"
    /\ NotifyMessagesAvailable
    /\ main' = "stopConsumer"
    /\ UNCHANGED <<producer, consumer, startVars, queue, hand, stopVars,
                   flowVars, crashed>>

(* Faulty variant: the stop flag is forgotten.                             *)
StopConsumerForgotten ==
    /\ main = "stopConsumer"
    /\ main' = "joinConsumer"
    /\ UNCHANGED <<producer, consumer, startVars, poolVars, stopVars, flowVars,
                   crashed>>

StopConsumer ==
    /\ main = "stopConsumer"
    /\ consumerStop' = TRUE
    /\ main' = "joinConsumer"
    /\ UNCHANGED <<producer, consumer, startVars, poolVars, producerStop,
                   flowVars, crashed>>

JoinConsumer ==
    /\ main = "joinConsumer"
    /\ consumer = "ended"
    /\ second' = "null"
    /\ main' = "cleanUp"
    /\ UNCHANGED <<producer, consumer, dbusconnection, mDBusconnection,
                   established, populated, poolVars, stopVars, flowVars,
                   crashed>>

(* CDBusProducer::stop: the filter is removed and the connection closed    *)
(* while the producer's thread may be using it; the pool keeps its copy.   *)
CleanUpDBusConnection ==
    /\ main = "cleanUp"
    /\ IF dbusconnection = "garbage"
         THEN crashed' \in BOOLEAN /\ UNCHANGED dbusconnection
         ELSE dbusconnection' = "null" /\ UNCHANGED crashed
    /\ main' = "stopProducer"
    /\ UNCHANGED <<producer, consumer, mDBusconnection, second, established,
                   populated, poolVars, stopVars, flowVars>>

StopProducer ==
    /\ main = "stopProducer"
    /\ producerStop' = TRUE
    /\ main' = "stopped"
    /\ UNCHANGED <<producer, consumer, startVars, poolVars, consumerStop,
                   flowVars, crashed>>

MainStep == \/ StartProducer
            \/ StartConsumer
            \/ StopConsumer
            \/ JoinConsumer
            \/ CleanUpDBusConnection
            \/ StopProducer

-----------------------------------------------------------------------------
DbusNext == /\ ~crashed
        /\ \/ ProducerStep
           \/ PushMessageToQueue
           \/ ConsumerStep
           \/ MainStep
           \/ NotifyConsumer

-----------------------------------------------------------------------------
MessageNumbers == 0..(Numbers - 1)

(* The types of the variables.                                             *)
TypeOK ==
    /\ producer \in ProducerStates
    /\ consumer \in ConsumerStates
    /\ main \in MainStates
    /\ dbusconnection \in {"garbage", "open", "null"}
    /\ mDBusconnection \in {"open", "null"}
    /\ second \in {"open", "null"}
    /\ established \in BOOLEAN
    /\ populated \in BOOLEAN
    /\ queue \in Seq(MessageNumbers)
    /\ Len(queue) <= MaxQueue
    /\ available \in BOOLEAN
    /\ hand \in MessageNumbers \cup {None}
    /\ consumerStop \in BOOLEAN
    /\ producerStop \in BOOLEAN
    /\ captured \in MessageNumbers
    /\ forwarded \in MessageNumbers
    /\ crashed \in BOOLEAN

(* Between the two critical sections of handleDbusMessage and the three of *)
(* the consumer no wakeup is lost: a consumer that waits for messages with *)
(* the flag down has an empty queue, or the producer is about to notify.   *)
NoLostWakeup ==
    consumer \in {"next", "waiting"} /\ ~available /\ queue # <<>>
        => producer = "notify"

(* The messages in hand and in the queue are the captured ones not yet     *)
(* forwarded, in the order in which the bus delivered them.                *)
InFlight == (IF hand = None THEN <<>> ELSE <<hand>>) \o queue

CapturedInOrder ==
    /\ captured = (forwarded + Len(InFlight)) % Numbers
    /\ \A i \in DOMAIN InFlight : InFlight[i] = (forwarded + i - 1) % Numbers

(* CDBusHandler::stop joins a consumer that may have lowered the flag and  *)
(* waits again; the next message of the bus lets it see the stop request.  *)
(* On a bus that falls silent, or once the producer has given up (the bus  *)
(* refused a rule), stop waits for ever.                                   *)
DbusStopReturns ==
    main = "stopConsumer"
        ~> (main = "stopped" \/ crashed \/ producer = "ended")
=============================================================================
