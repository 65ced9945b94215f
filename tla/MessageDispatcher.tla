------------------------- MODULE MessageDispatcher -------------------------
(***************************************************************************)
(* CCommMsgDispatcher (communicator/src/CMessageDispatcher.cpp): the       *)
(* object that serves one host connection.  Threads call sendMessage; the  *)
(* sender activity empties messageQueue into the socket; the receiver      *)
(* activity reads from the socket; closeConnection stops both.             *)
(*                                                                         *)
(* Atomicity: each section under msgQMutex is one step, and so is each     *)
(* read or write of an activity's stop flag.  The socket is the            *)
(* environment: a write succeeds or fails, a read yields a message, a      *)
(* timeout or the end of the stream, as it likes.                          *)
(*                                                                         *)
(* Who calls.  PluginProxy::sendMessage runs under mMsgMutex, so plugin    *)
(* threads count as one; the event loop calls sendMessage without that     *)
(* mutex.  closeConnection is called by the event loop, after              *)
(* onHostConnectionLost shut the plugin threads out, or by the main        *)
(* thread in ComController::stop, after the plugins were stopped but while *)
(* the event loop still runs.                                              *)
(***************************************************************************)
EXTENDS Naturals, Sequences, FiniteSets

CONSTANTS Threads,    \* the threads that call sendMessage
          EventLoop,  \* the one of them that also closes the connection
          Msgs,       \* the messages handed to sendMessage, each once
          Urgent,     \* those built with urgent = true
          MaxRetries, \* maxRetries, 100 in the code
          None        \* the NULL message

ASSUME DispatcherAssumption ==
    /\ EventLoop \in Threads
    /\ Urgent \subseteq Msgs
    /\ MaxRetries \in Nat \ {0}
    /\ None \notin Msgs

VARIABLES
    messageQueue,      \* the deque of messages to send
    messagesAvailable, \* the predicate of msgQCondition
    caller,            \* where each thread is in sendMessage
    held,              \* the message a thread checked and not yet pushed
    sender,            \* where the sender activity is; "ended" = not running
    msg,               \* the message the sender popped
    retries,           \* transmissions that failed in a row
    senderStopped,     \* senderActivity.isStopped()
    receiver,          \* where the receiver activity is
    receiverStopped,   \* receiverActivity.isStopped()
    closing,           \* progress of closeConnection
    closer,            \* who called closeConnection
    closedNotices,     \* NTFY_SOCKET_CONNECTION_CLOSED_BY_HOST enqueued
    fate,              \* history: what became of each message
    delivered          \* history: the messages written to the socket

callVars     == <<caller, held>>
queueVars    == <<messageQueue, messagesAvailable>>
senderVars   == <<sender, msg, retries>>
receiverVars == <<receiver, receiverStopped>>
closeVars    == <<closing, closer>>
histVars     == <<fate, delivered>>

vars == <<messageQueue, messagesAvailable, caller, held, sender, msg, retries,
          senderStopped, receiver, receiverStopped, closing, closer,
          closedNotices, fate, delivered>>

-----------------------------------------------------------------------------
(* The states of the processes.                                            *)

CallerStates == {"out", "push", "notify"}

SenderStates == {"loop", "wait", "asleep", "pop", "transmit", "update",
                 "ending", "ended"}

ReceiverStates == {"loop", "read", "ending", "ended"}

ClosingStates == {"no", "stopSender", "notify", "joinSender", "clear",
                  "stopReceiver", "joinReceiver", "closed"}

Closers == {"none", "eventLoop", "main"}

Fates == {"new", "live", "sent", "dropped", "discarded"}

SenderRunning == sender # "ended"

(* The dispatcher as its constructor leaves it: both activities started.   *)
Init == /\ messageQueue = <<>>
        /\ messagesAvailable = FALSE
        /\ caller = [t \in Threads |-> "out"]
        /\ held = [t \in Threads |-> None]
        /\ sender = "loop"
        /\ msg = None
        /\ retries = 0
        /\ senderStopped = FALSE
        /\ receiver = "loop"
        /\ receiverStopped = FALSE
        /\ closing = "no"
        /\ closer = "none"
        /\ closedNotices = 0
        /\ fate = [m \in Msgs |-> "new"]
        /\ delivered = <<>>

-----------------------------------------------------------------------------
(* sendMessage.                                                            *)

(* Which threads may still be calling once closeConnection has begun.      *)
MayCall(t) == \/ closer = "none"
              \/ closer = "main" /\ t = EventLoop

(* The check of isValid and isRunning; a refused message is deleted.  The  *)
(* allocation behind isValid may fail.                                     *)
SendMessage(t, m) ==
    /\ caller[t] = "out"
    /\ MayCall(t)
    /\ fate[m] = "new"
    /\ \/ /\ SenderRunning
          /\ caller' = [caller EXCEPT ![t] = "push"]
          /\ held' = [held EXCEPT ![t] = m]
          /\ fate' = [fate EXCEPT ![m] = "live"]
       \/ /\ fate' = [fate EXCEPT ![m] = "discarded"]
          /\ UNCHANGED callVars
    /\ UNCHANGED <<queueVars, senderVars, senderStopped, receiverVars,
                   closeVars, closedNotices, delivered>>

(* Faulty variant: every message goes to the front.                        *)
EnqueueFrontAlways(m) == <<m>> \o messageQueue

(* The queue with m in it: urgent messages go to the front.                *)
Enqueue(m) == IF m \in Urgent THEN <<m>> \o messageQueue
                              ELSE Append(messageQueue, m)

PushMessageToQueue(t) ==
    /\ caller[t] = "push"
    /\ messageQueue' = Enqueue(held[t])
    /\ caller' = [caller EXCEPT ![t] = "notify"]
    /\ held' = [held EXCEPT ![t] = None]
    /\ UNCHANGED <<messagesAvailable, senderVars, senderStopped, receiverVars,
                   closeVars, closedNotices, fate, delivered>>

(* Faulty variant: the flag without the signal.                            *)
RaiseFlagNoSignal == /\ messagesAvailable' = TRUE
                     /\ UNCHANGED sender

(* Raise the flag; the signal wakes the sender if it sleeps.               *)
RaiseFlag == /\ messagesAvailable' = TRUE
             /\ sender' = IF ~messagesAvailable /\ sender = "asleep"
                          THEN "wait" ELSE sender

NotifyMessagesAvailable(t) ==
    /\ caller[t] = "notify"
    /\ RaiseFlag
    /\ caller' = [caller EXCEPT ![t] = "out"]
    /\ UNCHANGED <<messageQueue, held, msg, retries, senderStopped,
                   receiverVars, closeVars, closedNotices, histVars>>

-----------------------------------------------------------------------------
(* runSenderActivity.                                                      *)

SenderUnchanged == UNCHANGED <<callVars, senderStopped, receiverVars,
                               closeVars>>

(* while (!senderActivity.isStopped())                                     *)
SenderLoop ==
    /\ sender = "loop"
    /\ sender' = IF senderStopped THEN "ending" ELSE "wait"
    /\ SenderUnchanged
    /\ UNCHANGED <<queueVars, msg, retries, closedNotices, histVars>>

(* while (!messagesAvailable) msgQCondition.wait(msgQMutex)                *)
WaitForMessagesAvailable ==
    /\ sender = "wait"
    /\ sender' = IF messagesAvailable THEN "pop" ELSE "asleep"
    /\ SenderUnchanged
    /\ UNCHANGED <<queueVars, msg, retries, closedNotices, histVars>>

(* The queue may have been emptied since the flag was raised: NULL then.   *)
PopMessageFromQueue ==
    /\ sender = "pop"
    /\ sender' = "transmit"
    /\ IF messageQueue = <<>>
       THEN UNCHANGED <<msg, messageQueue>>
       ELSE /\ msg' = Head(messageQueue)
            /\ messageQueue' = Tail(messageQueue)
    /\ SenderUnchanged
    /\ UNCHANGED <<messagesAvailable, retries, closedNotices, histVars>>

(* transmitMessage, the retry count and disposeMessage.  A NULL message    *)
(* counts as transmitted.                                                  *)
TransmitMessage ==
    /\ sender = "transmit"
    /\ sender' = "update"
    /\ msg' = None
    /\ \/ /\ msg = None
          /\ retries' = 0
          /\ UNCHANGED <<fate, delivered>>
       \/ /\ msg # None
          /\ retries' = 0
          /\ fate' = [fate EXCEPT ![msg] = "sent"]
          /\ delivered' = Append(delivered, msg)
       \/ /\ msg # None
          /\ retries' = retries + 1
          /\ fate' = [fate EXCEPT ![msg] = "dropped"]
          /\ UNCHANGED delivered
    /\ SenderUnchanged
    /\ UNCHANGED <<queueVars, closedNotices>>

(* Faulty variant: lowers the flag whatever the queue holds.               *)
FlagAlwaysLowered == FALSE

(* updateMessageAvailableFlag lowers the flag only when the queue is empty *)
FlagAfterUpdate == messagesAvailable /\ messageQueue # <<>>

RetryLimitReached == retries = MaxRetries

(* updateMessageAvailableFlag, then the retry limit: give up the           *)
(* connection after MaxRetries failures in a row.                          *)
UpdateMessageAvailableFlag ==
    /\ sender = "update"
    /\ messagesAvailable' = FlagAfterUpdate
    /\ IF RetryLimitReached
       THEN /\ closedNotices' = closedNotices + 1
            /\ retries' = 0
            /\ sender' = "ending"
       ELSE /\ sender' = "loop"
            /\ UNCHANGED <<closedNotices, retries>>
    /\ SenderUnchanged
    /\ UNCHANGED <<messageQueue, msg, histVars>>

(* The activity's run returns; isRunning() turns false only now.           *)
SenderEnds ==
    /\ sender = "ending"
    /\ sender' = "ended"
    /\ SenderUnchanged
    /\ UNCHANGED <<queueVars, msg, retries, closedNotices, histVars>>

SenderStep == \/ SenderLoop
              \/ WaitForMessagesAvailable
              \/ PopMessageFromQueue
              \/ TransmitMessage
              \/ UpdateMessageAvailableFlag
              \/ SenderEnds

-----------------------------------------------------------------------------
(* runReceiverActivity.                                                    *)

ReceiverUnchanged == UNCHANGED <<callVars, queueVars, senderVars,
                                 senderStopped, receiverStopped, closeVars,
                                 histVars>>

ReceiverLoop ==
    /\ receiver = "loop"
    /\ receiver' = IF receiverStopped THEN "ending" ELSE "read"
    /\ ReceiverUnchanged
    /\ UNCHANGED closedNotices

(* A message, a timeout and any other error all continue the loop; the end *)
(* of the stream is reported and ends it.                                  *)
WaitForNextCompleteProtocolMessage ==
    /\ receiver = "read"
    /\ \/ /\ receiver' = "loop"
          /\ UNCHANGED closedNotices
       \/ /\ receiver' = "ending"
          /\ closedNotices' = closedNotices + 1
    /\ ReceiverUnchanged

ReceiverEnds ==
    /\ receiver = "ending"
    /\ receiver' = "ended"
    /\ ReceiverUnchanged
    /\ UNCHANGED closedNotices

ReceiverStep == \/ ReceiverLoop
                \/ WaitForNextCompleteProtocolMessage
                \/ ReceiverEnds

-----------------------------------------------------------------------------
(* closeConnection.                                                        *)

CloseUnchanged == UNCHANGED <<callVars, msg, retries, receiver, closedNotices,
                              closer>>

(* Faulty variant: closes without shutting the threads out.                *)
SomebodyMaySend == TRUE

NobodySends == \A t \in Threads : caller[t] = "out"

(* oConnectionClosedbyClient: a closed notice was dequeued and             *)
(* onHostConnectionLost has run, so no thread is inside sendMessage.       *)
CloseByEventLoop ==
    /\ closing = "no"
    /\ closedNotices > 0
    /\ NobodySends
    /\ closing' = "stopSender"
    /\ closer' = "eventLoop"
    /\ UNCHANGED <<callVars, queueVars, senderVars, senderStopped,
                   receiverVars, closedNotices, histVars>>

(* ComController::stop: the plugins were stopped, the event loop was not.  *)
CloseByMain ==
    /\ closing = "no"
    /\ \A t \in Threads \ {EventLoop} : caller[t] = "out"
    /\ closing' = "stopSender"
    /\ closer' = "main"
    /\ UNCHANGED <<callVars, queueVars, senderVars, senderStopped,
                   receiverVars, closedNotices, histVars>>

(* Faulty variant: the stop request without the notification.              *)
StopSenderUnnotified ==
    /\ closing = "stopSender"
    /\ closing' = "joinSender"
    /\ senderStopped' = TRUE
    /\ CloseUnchanged
    /\ UNCHANGED <<queueVars, sender, receiverStopped, histVars>>

StopSender ==
    /\ closing = "stopSender"
    /\ closing' = "notify"
    /\ senderStopped' = TRUE
    /\ CloseUnchanged
    /\ UNCHANGED <<queueVars, sender, receiverStopped, histVars>>

NotifySender ==
    /\ closing = "notify"
    /\ closing' = "joinSender"
    /\ RaiseFlag
    /\ CloseUnchanged
    /\ UNCHANGED <<messageQueue, senderStopped, receiverStopped, histVars>>

JoinSender ==
    /\ closing = "joinSender"
    /\ sender = "ended"
    /\ closing' = "clear"
    /\ CloseUnchanged
    /\ UNCHANGED <<queueVars, sender, senderStopped, receiverStopped, histVars>>

(* Faulty variant: only the first message is cleared.                      *)
FirstQueued(m) == messageQueue # <<>> /\ messageQueue[1] = m

Queued(m) == \E i \in DOMAIN messageQueue : messageQueue[i] = m

ClearPendingMessages ==
    /\ closing = "clear"
    /\ closing' = "stopReceiver"
    /\ messageQueue' = <<>>
    /\ fate' = [m \in Msgs |-> IF Queued(m) THEN "discarded" ELSE fate[m]]
    /\ CloseUnchanged
    /\ UNCHANGED <<messagesAvailable, sender, senderStopped, receiverStopped,
                   delivered>>

(* Faulty variant: the receiver is joined without being stopped.           *)
StopReceiverForgotten ==
    /\ closing = "stopReceiver"
    /\ closing' = "joinReceiver"
    /\ CloseUnchanged
    /\ UNCHANGED <<queueVars, sender, senderStopped, receiverStopped, histVars>>

StopReceiver ==
    /\ closing = "stopReceiver"
    /\ closing' = "joinReceiver"
    /\ receiverStopped' = TRUE
    /\ CloseUnchanged
    /\ UNCHANGED <<queueVars, sender, senderStopped, histVars>>

(* receiverActivity.wait(), then the socket is shut down.                  *)
JoinReceiver ==
    /\ closing = "joinReceiver"
    /\ receiver = "ended"
    /\ closing' = "closed"
    /\ CloseUnchanged
    /\ UNCHANGED <<queueVars, sender, senderStopped, receiverStopped, histVars>>

CloseStep == \/ StopSender
             \/ NotifySender
             \/ JoinSender
             \/ ClearPendingMessages
             \/ StopReceiver
             \/ JoinReceiver

-----------------------------------------------------------------------------
Next == \/ \E t \in Threads, m \in Msgs : SendMessage(t, m)
        \/ \E t \in Threads : PushMessageToQueue(t) \/ NotifyMessagesAvailable(t)
        \/ SenderStep
        \/ ReceiverStep
        \/ CloseByEventLoop
        \/ CloseByMain
        \/ CloseStep

Spec == Init /\ [][Next]_vars

(* Every thread that can run eventually does.  Nothing is assumed of a     *)
(* thread that has not called sendMessage, of the main thread, or of what  *)
(* a read returns.                                                         *)
FairSpec == /\ Spec
            /\ \A t \in Threads : WF_vars(PushMessageToQueue(t))
            /\ \A t \in Threads : WF_vars(NotifyMessagesAvailable(t))
            /\ WF_vars(SenderStep)
            /\ WF_vars(ReceiverStep)
            /\ WF_vars(CloseByEventLoop)
            /\ WF_vars(CloseStep)

-----------------------------------------------------------------------------
(* Properties.                                                             *)

(* Every variable stays within its type.                                   *)
TypeOK == /\ messageQueue \in Seq(Msgs)
          /\ messagesAvailable \in BOOLEAN
          /\ caller \in [Threads -> CallerStates]
          /\ held \in [Threads -> Msgs \cup {None}]
          /\ sender \in SenderStates
          /\ msg \in Msgs \cup {None}
          /\ retries \in 0..MaxRetries
          /\ senderStopped \in BOOLEAN
          /\ receiver \in ReceiverStates
          /\ receiverStopped \in BOOLEAN
          /\ closing \in ClosingStates
          /\ closer \in Closers
          /\ closedNotices \in Nat
          /\ fate \in [Msgs -> Fates]
          /\ delivered \in Seq(Msgs)

(* The sender never sleeps on work: if it is asleep while messages wait,   *)
(* a thread is between its push and its notify.  Push and notify are two   *)
(* critical sections, and updateMessageAvailableFlag runs between them.    *)
NoLostWakeup ==
    sender = "asleep" /\ messageQueue # <<>> => \E t \in Threads : caller[t] = "notify"

(* Nor does it sleep through a stop request: closeConnection raises the    *)
(* flag after it set the stop flag, and the sender looks at the stop flag  *)
(* after it lowered the other one.  senderActivity.wait() depends on it.   *)
StopIsSeen ==
    sender = "asleep" /\ senderStopped => closing = "notify"

(* A message has one owner - a calling thread, the queue or the sender -   *)
(* until it is deleted, and none after: what is deleted is deleted once.   *)
OneOwner ==
    \A m \in Msgs :
        Cardinality({t \in Threads : held[t] = m})
          + Cardinality({i \in DOMAIN messageQueue : messageQueue[i] = m})
          + (IF msg = m THEN 1 ELSE 0)
        = (IF fate[m] = "live" THEN 1 ELSE 0)

(* After the event loop closed the connection no message is left behind,   *)
(* although sendMessage checks, pushes and notifies in three steps.        *)
NoLeakAfterClose ==
    closing = "closed" /\ closer = "eventLoop" => \A m \in Msgs : fate[m] # "live"

(* A dispatcher reports the end of its connection at most twice, once per  *)
(* activity; ComController relies on the second report finding no handler. *)
AtMostTwoNotices == closedNotices <= 2

(* A message pushed does not stay in the queue for ever: it is sent,       *)
(* dropped or cleared, unless the whole agent is being shut down (the      *)
(* event loop may push after ComController::stop cleared the queue).       *)
QueueDrains ==
    \A m \in Msgs : Queued(m) ~> ~Queued(m) \/ closer = "main"

(* closeConnection returns: neither wait() blocks for ever.                *)
CloseCompletes == closing # "no" ~> closing = "closed"

(* The flag, the condition variable and the stop requests implement the    *)
(* plain queue with its fair worker.                                       *)
OQ == INSTANCE OutboundQueue
        WITH pending <- messageQueue,
             taken <- msg,
             worker <- IF sender \in {"ending", "ended"} THEN "off" ELSE "on"

ImplementsQueue == OQ!OQSpec
=============================================================================
