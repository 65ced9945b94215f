---------------------- MODULE MessageDispatcher_proofs ----------------------
(***************************************************************************)
(* Proofs about MessageDispatcher, for any set of threads and messages and *)
(* any retry limit.                                                        *)
(***************************************************************************)
EXTENDS MessageDispatcher, SequenceTheorems, FiniteSetTheorems, TLAPS

-----------------------------------------------------------------------------
(* The inductive invariant, in parts.                                      *)

(* A thread about to push holds a message; no other thread holds any.      *)
PusherHolds ==
    \A t \in Threads : IF caller[t] = "push" THEN held[t] \in Msgs ELSE held[t] = None

(* The sender holds a message only while it transmits.                     *)
OnlyTransmitHolds == sender # "transmit" => msg = None

(* The retry count reaches the limit only just before it is tested.        *)
RetriesBelow == sender # "update" => retries < MaxRetries

(* Whoever made the queue non-empty has raised the flag or is about to.    *)
FlagCoversQueue ==
    messageQueue # <<>> =>
        messagesAvailable \/ \E t \in Threads : caller[t] = "notify"

(* The sender falls asleep on a lowered flag, and raising it wakes it.     *)
AsleepOnLoweredFlag == sender = "asleep" => ~messagesAvailable

(* A sender past its look at the stop flag will find the other flag raised *)
(* when it has been asked to stop meanwhile.                               *)
FlagCoversStop ==
    senderStopped /\ sender \in {"wait", "asleep"} =>
        messagesAvailable \/ closing = "notify"

(* Each activity reports the end of the connection at most once, when it   *)
(* ends itself.                                                            *)
Done(b) == IF b THEN 1 ELSE 0

NoticesCounted ==
    closedNotices <= Done(sender \in {"ending", "ended"})
                       + Done(receiver \in {"ending", "ended"})

(* From the join of the sender on, it has ended.                           *)
SenderJoined ==
    closing \in {"clear", "stopReceiver", "joinReceiver", "closed"} => sender = "ended"

(* A connection closed by the event loop is closed with the threads out of *)
(* sendMessage, and they stay out.                                         *)
CallersShutOut ==
    /\ closer = "none" <=> closing = "no"
    /\ closer = "eventLoop" => \A t \in Threads : caller[t] = "out"

(* So its queue stays empty once it has been cleared.                      *)
StaysCleared ==
    closer = "eventLoop" /\ closing \in {"stopReceiver", "joinReceiver", "closed"}
        => messageQueue = <<>>

(* A message that was not deleted is in somebody's hands.                  *)
LiveIsHeld ==
    \A m \in Msgs : fate[m] = "live" => \/ \E t \in Threads : held[t] = m
                                        \/ Queued(m)
                                        \/ msg = m

Inv == /\ TypeOK
       /\ PusherHolds
       /\ OnlyTransmitHolds
       /\ RetriesBelow
       /\ FlagCoversQueue
       /\ AsleepOnLoweredFlag
       /\ FlagCoversStop
       /\ NoticesCounted
       /\ SenderJoined
       /\ CallersShutOut
       /\ StaysCleared
       /\ LiveIsHeld

-----------------------------------------------------------------------------
(* The queue with a message in it is a queue of messages.                  *)
LEMMA EnqueueResult ==
    ASSUME messageQueue \in Seq(Msgs), NEW m \in Msgs
    PROVE  Enqueue(m) \in Seq(Msgs)
<1>1. <<m>> \o messageQueue \in Seq(Msgs)
    OBVIOUS
<1>2. Append(messageQueue, m) \in Seq(Msgs)
    OBVIOUS
<1> QED BY <1>1, <1>2 DEF Enqueue

(* It holds that message and those it held before.                         *)
LEMMA EnqueueHolds ==
    ASSUME messageQueue \in Seq(Msgs), NEW m \in Msgs,
           NEW x \in Msgs, Queued(x) \/ m = x
    PROVE  \E i \in DOMAIN Enqueue(m) : Enqueue(m)[i] = x
<1> DEFINE front == <<m>> \o messageQueue
           back  == Append(messageQueue, m)
<1>1. /\ front \in Seq(Msgs) /\ Len(front) = Len(messageQueue) + 1
      /\ front[1] = m
      /\ \A i \in 1..Len(messageQueue) : front[i + 1] = messageQueue[i]
    OBVIOUS
<1>2. /\ back \in Seq(Msgs) /\ Len(back) = Len(messageQueue) + 1
      /\ back[Len(messageQueue) + 1] = m
      /\ \A i \in 1..Len(messageQueue) : back[i] = messageQueue[i]
    OBVIOUS
<1> HIDE DEF front, back
<1>3. CASE m = x
  <2>1. \E i \in DOMAIN front : front[i] = x
      BY <1>1, <1>3
  <2>2. \E i \in DOMAIN back : back[i] = x
      BY <1>2, <1>3
  <2> QED BY <2>1, <2>2 DEF Enqueue, front, back
<1>4. CASE Queued(x)
  <2>1. PICK i \in 1..Len(messageQueue) : messageQueue[i] = x
      BY <1>4 DEF Queued
  <2>2. i + 1 \in DOMAIN front /\ front[i + 1] = x
      BY <1>1, <2>1
  <2>3. i \in DOMAIN back /\ back[i] = x
      BY <1>2, <2>1
  <2> QED BY <2>2, <2>3 DEF Enqueue, front, back
<1> QED BY <1>3, <1>4

(* The constructor leaves the dispatcher in a state of the invariant.      *)
LEMMA InitInv == Init => Inv
<1> SUFFICES ASSUME Init PROVE Inv
    OBVIOUS
<1> USE DEF Init
<1>1. TypeOK
  <2>1. <<>> \in Seq(Msgs)
    OBVIOUS
  <2>2. 0 \in 0..MaxRetries
    BY DispatcherAssumption
  <2>3. caller \in [Threads -> CallerStates] /\ fate \in [Msgs -> Fates]
    BY DEF CallerStates, Fates
  <2>4. held \in [Threads -> Msgs \cup {None}]
    OBVIOUS
  <2> QED
    BY <2>1, <2>2, <2>3, <2>4
    DEF TypeOK, SenderStates, ReceiverStates, ClosingStates, Closers
<1>2. RetriesBelow
    BY DispatcherAssumption DEF RetriesBelow
<1>3. NoticesCounted
    BY DEF NoticesCounted, Done
<1>4. PusherHolds /\ OnlyTransmitHolds
    BY DEF PusherHolds, OnlyTransmitHolds
<1>5. FlagCoversQueue /\ AsleepOnLoweredFlag /\ FlagCoversStop
    BY DEF FlagCoversQueue, AsleepOnLoweredFlag, FlagCoversStop
<1>6. SenderJoined /\ CallersShutOut /\ StaysCleared /\ LiveIsHeld
    BY DEF SenderJoined, CallersShutOut, StaysCleared, LiveIsHeld
<1> QED BY <1>1, <1>2, <1>3, <1>4, <1>5, <1>6 DEF Inv

(* Every step keeps it.                                                    *)
LEMMA NextInv == Inv /\ [Next]_vars => Inv'
<1> SUFFICES ASSUME Inv, [Next]_vars PROVE Inv'
    OBVIOUS
<1> USE DEF callVars, queueVars, senderVars, receiverVars, closeVars, histVars,
            SenderUnchanged, ReceiverUnchanged, CloseUnchanged
<1>1. ASSUME NEW t \in Threads, NEW m \in Msgs, SendMessage(t, m) PROVE Inv'
  <2> USE <1>1 DEF Inv, SendMessage
  <2>1. TypeOK'
    <3>1. caller' \in [Threads -> CallerStates]
      BY DEF TypeOK, CallerStates
    <3>2. held' \in [Threads -> Msgs \cup {None}]
      BY DEF TypeOK
    <3>3. fate' \in [Msgs -> Fates]
      BY DEF TypeOK, Fates
    <3> QED BY <3>1, <3>2, <3>3 DEF TypeOK
  <2>2. PusherHolds'
    BY DEF PusherHolds, TypeOK
  <2>3. FlagCoversQueue'
    BY DEF FlagCoversQueue, TypeOK
  <2>4. CallersShutOut'
    BY DEF CallersShutOut, MayCall
  <2>5. LiveIsHeld'
    <3> SUFFICES ASSUME NEW x \in Msgs, fate'[x] = "live"
                 PROVE  (\E u \in Threads : held'[u] = x) \/ Queued(x)' \/ msg' = x
        BY DEF LiveIsHeld
    <3>1. held[t] = None /\ x # None
        BY DispatcherAssumption DEF PusherHolds
    <3>2. CASE fate[x] = "live"
      <4>1. \A u \in Threads : held[u] = x => held'[u] = x
          BY <3>1 DEF TypeOK
      <4> QED BY <3>2, <4>1 DEF LiveIsHeld, Queued
    <3>3. CASE fate[x] # "live"
      <4>1. x = m /\ held'[t] = m
          BY <3>3 DEF TypeOK
      <4> QED BY <4>1
    <3> QED BY <3>2, <3>3
  <2>6. OnlyTransmitHolds' /\ RetriesBelow' /\ AsleepOnLoweredFlag' /\
        FlagCoversStop' /\ NoticesCounted' /\ SenderJoined' /\ StaysCleared'
    BY DEF OnlyTransmitHolds, RetriesBelow, AsleepOnLoweredFlag,
       FlagCoversStop, NoticesCounted, SenderJoined, StaysCleared, Done
  <2> QED BY <2>1, <2>2, <2>3, <2>4, <2>5, <2>6
<1>2. ASSUME NEW t \in Threads, PushMessageToQueue(t) PROVE Inv'
  <2> USE <1>2 DEF Inv, PushMessageToQueue
  <2>1. TypeOK'
    <3>1. held[t] \in Msgs
      BY DEF PusherHolds
    <3>2. messageQueue' \in Seq(Msgs)
      BY <3>1, EnqueueResult DEF TypeOK
    <3>3. caller' \in [Threads -> CallerStates]
      BY DEF TypeOK, CallerStates
    <3>4. held' \in [Threads -> Msgs \cup {None}]
      BY DEF TypeOK
    <3> QED BY <3>2, <3>3, <3>4 DEF TypeOK
  <2>2. PusherHolds'
    BY DEF PusherHolds, TypeOK
  <2>3. FlagCoversQueue'
    BY DEF FlagCoversQueue, TypeOK
  <2>4. CallersShutOut'
    BY DEF CallersShutOut
  <2>5. StaysCleared'
    BY DEF StaysCleared, CallersShutOut
  <2>6. LiveIsHeld'
    <3> SUFFICES ASSUME NEW x \in Msgs, fate[x] = "live"
                 PROVE  (\E u \in Threads : held'[u] = x) \/ Queued(x)' \/ msg' = x
        BY DEF LiveIsHeld
    <3>1. held[t] \in Msgs
        BY DEF PusherHolds
    <3>2. CASE Queued(x) \/ held[t] = x
        BY <3>1, <3>2, EnqueueHolds DEF TypeOK, Queued
    <3>3. ASSUME NEW u \in Threads, held[u] = x, held[t] # x
          PROVE  held'[u] = x
        BY <3>3 DEF TypeOK
    <3> QED BY <3>2, <3>3 DEF LiveIsHeld
  <2>7. OnlyTransmitHolds' /\ RetriesBelow' /\ AsleepOnLoweredFlag' /\
        FlagCoversStop' /\ NoticesCounted' /\ SenderJoined'
    BY DEF OnlyTransmitHolds, RetriesBelow, AsleepOnLoweredFlag,
       FlagCoversStop, NoticesCounted, SenderJoined, Done
  <2> QED BY <2>1, <2>2, <2>3, <2>4, <2>5, <2>6, <2>7
<1>3. ASSUME NEW t \in Threads, NotifyMessagesAvailable(t) PROVE Inv'
  <2> USE <1>3 DEF Inv, NotifyMessagesAvailable, RaiseFlag
  <2>1. TypeOK'
    BY DEF TypeOK, CallerStates, SenderStates
  <2>2. PusherHolds'
    BY DEF PusherHolds
  <2>3. OnlyTransmitHolds'
    BY DEF OnlyTransmitHolds
  <2>4. RetriesBelow'
    BY DEF RetriesBelow
  <2>5. FlagCoversQueue'
    BY DEF FlagCoversQueue
  <2>6. AsleepOnLoweredFlag'
    BY DEF AsleepOnLoweredFlag
  <2>7. FlagCoversStop'
    BY DEF FlagCoversStop
  <2>8. NoticesCounted'
    BY DEF NoticesCounted, Done
  <2>9. SenderJoined'
    BY DEF SenderJoined
  <2>10. CallersShutOut'
    BY DEF CallersShutOut
  <2>11. StaysCleared' /\ LiveIsHeld'
    BY DEF StaysCleared, LiveIsHeld, Queued
  <2> QED BY <2>1, <2>2, <2>3, <2>4, <2>5, <2>6, <2>7, <2>8, <2>9, <2>10, <2>11
<1>4. CASE SenderLoop
  <2> USE <1>4 DEF Inv, SenderLoop
  <2>1. TypeOK'
    BY DEF TypeOK, SenderStates
  <2>2. OnlyTransmitHolds'
    BY DEF OnlyTransmitHolds
  <2>3. RetriesBelow'
    BY DEF RetriesBelow
  <2>4. AsleepOnLoweredFlag'
    BY DEF AsleepOnLoweredFlag
  <2>5. FlagCoversStop'
    BY DEF FlagCoversStop
  <2>6. NoticesCounted'
    BY DEF NoticesCounted, Done, TypeOK
  <2>7. SenderJoined'
    BY DEF SenderJoined
  <2>8. PusherHolds' /\ FlagCoversQueue' /\ CallersShutOut' /\ StaysCleared'
        /\ LiveIsHeld'
    BY DEF PusherHolds, FlagCoversQueue, CallersShutOut, StaysCleared,
       LiveIsHeld, Queued
  <2> QED BY <2>1, <2>2, <2>3, <2>4, <2>5, <2>6, <2>7, <2>8
<1>5. CASE WaitForMessagesAvailable
  <2> USE <1>5 DEF Inv, WaitForMessagesAvailable
  <2>1. TypeOK'
    BY DEF TypeOK, SenderStates
  <2>2. OnlyTransmitHolds'
    BY DEF OnlyTransmitHolds
  <2>3. RetriesBelow'
    BY DEF RetriesBelow
  <2>4. AsleepOnLoweredFlag'
    BY DEF AsleepOnLoweredFlag
  <2>5. FlagCoversStop'
    BY DEF FlagCoversStop
  <2>6. NoticesCounted'
    BY DEF NoticesCounted, Done
  <2>7. SenderJoined'
    BY DEF SenderJoined
  <2>8. PusherHolds' /\ FlagCoversQueue' /\ CallersShutOut' /\ StaysCleared'
        /\ LiveIsHeld'
    BY DEF PusherHolds, FlagCoversQueue, CallersShutOut, StaysCleared,
       LiveIsHeld, Queued
  <2> QED BY <2>1, <2>2, <2>3, <2>4, <2>5, <2>6, <2>7, <2>8
<1>6. CASE PopMessageFromQueue
  <2> USE <1>6 DEF Inv, PopMessageFromQueue
  <2>1. TypeOK'
    <3>1. messageQueue' \in Seq(Msgs) /\ msg' \in Msgs \cup {None}
      <4>1. CASE messageQueue = <<>>
        BY <4>1 DEF TypeOK
      <4>2. CASE messageQueue # <<>>
        <5>1. Head(messageQueue) \in Msgs /\ Tail(messageQueue) \in Seq(Msgs)
          BY <4>2, HeadTailProperties DEF TypeOK
        <5> QED BY <4>2, <5>1 DEF TypeOK
      <4> QED BY <4>1, <4>2
    <3> QED BY <3>1 DEF TypeOK, SenderStates
  <2>2. OnlyTransmitHolds'
    BY DEF OnlyTransmitHolds
  <2>3. RetriesBelow'
    BY DEF RetriesBelow
  <2>4. FlagCoversQueue'
    BY DEF FlagCoversQueue
  <2>5. AsleepOnLoweredFlag'
    BY DEF AsleepOnLoweredFlag
  <2>6. FlagCoversStop'
    BY DEF FlagCoversStop
  <2>7. NoticesCounted'
    BY DEF NoticesCounted, Done
  <2>8. SenderJoined'
    BY DEF SenderJoined
  <2>9. StaysCleared'
    BY DEF StaysCleared, CallersShutOut
  <2>10. LiveIsHeld'
    <3> SUFFICES ASSUME NEW x \in Msgs, fate[x] = "live"
                 PROVE  (\E u \in Threads : held'[u] = x) \/ Queued(x)' \/ msg' = x
        BY DEF LiveIsHeld
    <3>1. CASE ~Queued(x)
      <4>1. msg # x
          BY DispatcherAssumption DEF OnlyTransmitHolds
      <4> QED BY <3>1, <4>1 DEF LiveIsHeld
    <3>2. CASE Queued(x)
      <4>1. messageQueue # <<>>
          BY <3>2 DEF Queued
      <4>2. PICK i \in 1..Len(messageQueue) : messageQueue[i] = x
          BY <3>2 DEF Queued, TypeOK
      <4>3. CASE i = 1
          BY <4>1, <4>2, <4>3 DEF TypeOK
      <4>4. CASE i # 1
        <5>1. i - 1 \in DOMAIN Tail(messageQueue) /\ Tail(messageQueue)[i - 1] = x
            BY <4>1, <4>2, <4>4, HeadTailProperties DEF TypeOK
        <5> QED BY <4>1, <5>1 DEF Queued
      <4> QED BY <4>3, <4>4
    <3> QED BY <3>1, <3>2
  <2>11. PusherHolds' /\ CallersShutOut'
    BY DEF PusherHolds, CallersShutOut
  <2> QED BY <2>1, <2>2, <2>3, <2>4, <2>5, <2>6, <2>7, <2>8, <2>9, <2>10, <2>11
<1>7. CASE TransmitMessage
  <2> USE <1>7 DEF Inv, TransmitMessage
  <2>1. TypeOK'
    <3>1. retries' \in 0..MaxRetries
      BY DispatcherAssumption DEF TypeOK, RetriesBelow
    <3>2. fate' \in [Msgs -> Fates]
      BY DEF TypeOK, Fates
    <3>3. delivered' \in Seq(Msgs)
      <4>1. msg # None => Append(delivered, msg) \in Seq(Msgs)
        BY DEF TypeOK
      <4> QED BY <4>1 DEF TypeOK
    <3> QED BY <3>1, <3>2, <3>3 DEF TypeOK, SenderStates
  <2>2. OnlyTransmitHolds'
    BY DEF OnlyTransmitHolds
  <2>3. RetriesBelow'
    BY DEF RetriesBelow
  <2>4. AsleepOnLoweredFlag'
    BY DEF AsleepOnLoweredFlag
  <2>5. FlagCoversStop'
    BY DEF FlagCoversStop
  <2>6. NoticesCounted'
    BY DEF NoticesCounted, Done
  <2>7. SenderJoined'
    BY DEF SenderJoined
  <2>8. LiveIsHeld'
    BY DEF LiveIsHeld, Queued, TypeOK
  <2>9. PusherHolds' /\ FlagCoversQueue' /\ CallersShutOut' /\ StaysCleared'
    BY DEF PusherHolds, FlagCoversQueue, CallersShutOut, StaysCleared
  <2> QED BY <2>1, <2>2, <2>3, <2>4, <2>5, <2>6, <2>7, <2>8, <2>9
<1>8. CASE UpdateMessageAvailableFlag
  <2> USE <1>8 DEF Inv, UpdateMessageAvailableFlag, FlagAfterUpdate,
               RetryLimitReached
  <2>1. TypeOK'
    BY DEF TypeOK, SenderStates
  <2>2. OnlyTransmitHolds'
    BY DEF OnlyTransmitHolds
  <2>3. RetriesBelow'
    BY DispatcherAssumption DEF RetriesBelow, TypeOK
  <2>4. FlagCoversQueue'
    BY DEF FlagCoversQueue
  <2>5. AsleepOnLoweredFlag'
    BY DEF AsleepOnLoweredFlag
  <2>6. FlagCoversStop'
    BY DEF FlagCoversStop
  <2>7. NoticesCounted'
    BY DEF NoticesCounted, Done, TypeOK
  <2>8. SenderJoined'
    BY DEF SenderJoined
  <2>9. PusherHolds' /\ CallersShutOut' /\ StaysCleared' /\ LiveIsHeld'
    BY DEF PusherHolds, CallersShutOut, StaysCleared, LiveIsHeld, Queued
  <2> QED BY <2>1, <2>2, <2>3, <2>4, <2>5, <2>6, <2>7, <2>8, <2>9
<1>9. CASE SenderEnds
  <2> USE <1>9 DEF Inv, SenderEnds
  <2>1. TypeOK'
    BY DEF TypeOK, SenderStates
  <2>2. OnlyTransmitHolds'
    BY DEF OnlyTransmitHolds
  <2>3. RetriesBelow'
    BY DEF RetriesBelow
  <2>4. AsleepOnLoweredFlag'
    BY DEF AsleepOnLoweredFlag
  <2>5. FlagCoversStop'
    BY DEF FlagCoversStop
  <2>6. NoticesCounted'
    BY DEF NoticesCounted, Done
  <2>7. SenderJoined'
    BY DEF SenderJoined
  <2>8. PusherHolds' /\ FlagCoversQueue' /\ CallersShutOut' /\ StaysCleared'
        /\ LiveIsHeld'
    BY DEF PusherHolds, FlagCoversQueue, CallersShutOut, StaysCleared,
       LiveIsHeld, Queued
  <2> QED BY <2>1, <2>2, <2>3, <2>4, <2>5, <2>6, <2>7, <2>8
<1>10. CASE ReceiverLoop
  <2> USE <1>10 DEF Inv, ReceiverLoop
  <2>1. TypeOK'
    BY DEF TypeOK, ReceiverStates
  <2>2. NoticesCounted'
    BY DEF NoticesCounted, Done, TypeOK
  <2>3. PusherHolds' /\ OnlyTransmitHolds' /\ RetriesBelow' /\
        FlagCoversQueue' /\ AsleepOnLoweredFlag' /\ FlagCoversStop' /\
        SenderJoined' /\ CallersShutOut' /\ StaysCleared' /\ LiveIsHeld'
    BY DEF PusherHolds, OnlyTransmitHolds, RetriesBelow, FlagCoversQueue,
       AsleepOnLoweredFlag, FlagCoversStop, SenderJoined, CallersShutOut,
       StaysCleared, LiveIsHeld, Queued
  <2> QED BY <2>1, <2>2, <2>3
<1>11. CASE WaitForNextCompleteProtocolMessage
  <2> USE <1>11 DEF Inv, WaitForNextCompleteProtocolMessage
  <2>1. TypeOK'
    BY DEF TypeOK, ReceiverStates
  <2>2. NoticesCounted'
    BY DEF NoticesCounted, Done, TypeOK
  <2>3. PusherHolds' /\ OnlyTransmitHolds' /\ RetriesBelow' /\
        FlagCoversQueue' /\ AsleepOnLoweredFlag' /\ FlagCoversStop' /\
        SenderJoined' /\ CallersShutOut' /\ StaysCleared' /\ LiveIsHeld'
    BY DEF PusherHolds, OnlyTransmitHolds, RetriesBelow, FlagCoversQueue,
       AsleepOnLoweredFlag, FlagCoversStop, SenderJoined, CallersShutOut,
       StaysCleared, LiveIsHeld, Queued
  <2> QED BY <2>1, <2>2, <2>3
<1>12. CASE ReceiverEnds
  <2> USE <1>12 DEF Inv, ReceiverEnds
  <2>1. TypeOK'
    BY DEF TypeOK, ReceiverStates
  <2>2. NoticesCounted'
    BY DEF NoticesCounted, Done
  <2>3. PusherHolds' /\ OnlyTransmitHolds' /\ RetriesBelow' /\
        FlagCoversQueue' /\ AsleepOnLoweredFlag' /\ FlagCoversStop' /\
        SenderJoined' /\ CallersShutOut' /\ StaysCleared' /\ LiveIsHeld'
    BY DEF PusherHolds, OnlyTransmitHolds, RetriesBelow, FlagCoversQueue,
       AsleepOnLoweredFlag, FlagCoversStop, SenderJoined, CallersShutOut,
       StaysCleared, LiveIsHeld, Queued
  <2> QED BY <2>1, <2>2, <2>3
<1>13. CASE CloseByEventLoop
  <2> USE <1>13 DEF Inv, CloseByEventLoop
  <2>1. TypeOK'
    BY DEF TypeOK, ClosingStates, Closers
  <2>2. FlagCoversStop'
    BY DEF FlagCoversStop
  <2>3. SenderJoined'
    BY DEF SenderJoined
  <2>4. CallersShutOut'
    BY DEF CallersShutOut, NobodySends
  <2>5. StaysCleared'
    BY DEF StaysCleared, CallersShutOut
  <2>6. PusherHolds' /\ OnlyTransmitHolds' /\ RetriesBelow' /\
        FlagCoversQueue' /\ AsleepOnLoweredFlag' /\ NoticesCounted' /\
        LiveIsHeld'
    BY DEF PusherHolds, OnlyTransmitHolds, RetriesBelow, FlagCoversQueue,
       AsleepOnLoweredFlag, NoticesCounted, LiveIsHeld, Done, Queued
  <2> QED BY <2>1, <2>2, <2>3, <2>4, <2>5, <2>6
<1>14. CASE CloseByMain
  <2> USE <1>14 DEF Inv, CloseByMain
  <2>1. TypeOK'
    BY DEF TypeOK, ClosingStates, Closers
  <2>2. FlagCoversStop'
    BY DEF FlagCoversStop
  <2>3. SenderJoined'
    BY DEF SenderJoined
  <2>4. CallersShutOut'
    BY DEF CallersShutOut
  <2>5. StaysCleared'
    BY DEF StaysCleared, CallersShutOut
  <2>6. PusherHolds' /\ OnlyTransmitHolds' /\ RetriesBelow' /\
        FlagCoversQueue' /\ AsleepOnLoweredFlag' /\ NoticesCounted' /\
        LiveIsHeld'
    BY DEF PusherHolds, OnlyTransmitHolds, RetriesBelow, FlagCoversQueue,
       AsleepOnLoweredFlag, NoticesCounted, LiveIsHeld, Done, Queued
  <2> QED BY <2>1, <2>2, <2>3, <2>4, <2>5, <2>6
<1>15. CASE StopSender
  <2> USE <1>15 DEF Inv, StopSender
  <2>1. TypeOK'
    BY DEF TypeOK, ClosingStates
  <2>2. FlagCoversStop'
    BY DEF FlagCoversStop
  <2>3. SenderJoined'
    BY DEF SenderJoined
  <2>4. CallersShutOut'
    BY DEF CallersShutOut
  <2>5. StaysCleared'
    BY DEF StaysCleared, CallersShutOut
  <2>6. PusherHolds' /\ OnlyTransmitHolds' /\ RetriesBelow' /\
        FlagCoversQueue' /\ AsleepOnLoweredFlag' /\ NoticesCounted' /\
        LiveIsHeld'
    BY DEF PusherHolds, OnlyTransmitHolds, RetriesBelow, FlagCoversQueue,
       AsleepOnLoweredFlag, NoticesCounted, LiveIsHeld, Done, Queued
  <2> QED BY <2>1, <2>2, <2>3, <2>4, <2>5, <2>6
<1>16. CASE NotifySender
  <2> USE <1>16 DEF Inv, NotifySender, RaiseFlag
  <2>1. TypeOK'
    BY DEF TypeOK, SenderStates, ClosingStates
  <2>2. OnlyTransmitHolds'
    BY DEF OnlyTransmitHolds
  <2>3. RetriesBelow'
    BY DEF RetriesBelow
  <2>4. FlagCoversQueue'
    BY DEF FlagCoversQueue
  <2>5. AsleepOnLoweredFlag'
    BY DEF AsleepOnLoweredFlag
  <2>6. FlagCoversStop'
    BY DEF FlagCoversStop
  <2>7. NoticesCounted'
    BY DEF NoticesCounted, Done
  <2>8. SenderJoined'
    BY DEF SenderJoined
  <2>9. CallersShutOut'
    BY DEF CallersShutOut
  <2>10. StaysCleared'
    BY DEF StaysCleared, CallersShutOut
  <2>11. PusherHolds' /\ LiveIsHeld'
    BY DEF PusherHolds, LiveIsHeld, Queued
  <2> QED BY <2>1, <2>2, <2>3, <2>4, <2>5, <2>6, <2>7, <2>8, <2>9, <2>10, <2>11
<1>17. CASE JoinSender
  <2> USE <1>17 DEF Inv, JoinSender
  <2>1. TypeOK'
    BY DEF TypeOK, ClosingStates
  <2>2. FlagCoversStop'
    BY DEF FlagCoversStop
  <2>3. SenderJoined'
    BY DEF SenderJoined
  <2>4. CallersShutOut'
    BY DEF CallersShutOut
  <2>5. StaysCleared'
    BY DEF StaysCleared, CallersShutOut
  <2>6. PusherHolds' /\ OnlyTransmitHolds' /\ RetriesBelow' /\
        FlagCoversQueue' /\ AsleepOnLoweredFlag' /\ NoticesCounted' /\
        LiveIsHeld'
    BY DEF PusherHolds, OnlyTransmitHolds, RetriesBelow, FlagCoversQueue,
       AsleepOnLoweredFlag, NoticesCounted, LiveIsHeld, Done, Queued
  <2> QED BY <2>1, <2>2, <2>3, <2>4, <2>5, <2>6
<1>18. CASE ClearPendingMessages
  <2> USE <1>18 DEF Inv, ClearPendingMessages
  <2>1. TypeOK'
    BY DEF TypeOK, ClosingStates, Fates
  <2>2. FlagCoversQueue'
    BY DEF FlagCoversQueue
  <2>3. FlagCoversStop'
    BY DEF FlagCoversStop
  <2>4. SenderJoined'
    BY DEF SenderJoined
  <2>5. CallersShutOut'
    BY DEF CallersShutOut
  <2>6. StaysCleared'
    BY DEF StaysCleared, CallersShutOut
  <2>7. LiveIsHeld'
    BY DEF LiveIsHeld, Queued
  <2>8. PusherHolds' /\ OnlyTransmitHolds' /\ RetriesBelow' /\
        AsleepOnLoweredFlag' /\ NoticesCounted'
    BY DEF PusherHolds, OnlyTransmitHolds, RetriesBelow, AsleepOnLoweredFlag,
       NoticesCounted, Done
  <2> QED BY <2>1, <2>2, <2>3, <2>4, <2>5, <2>6, <2>7, <2>8
<1>19. CASE StopReceiver
  <2> USE <1>19 DEF Inv, StopReceiver
  <2>1. TypeOK'
    BY DEF TypeOK, ClosingStates
  <2>2. FlagCoversStop'
    BY DEF FlagCoversStop
  <2>3. SenderJoined'
    BY DEF SenderJoined
  <2>4. CallersShutOut'
    BY DEF CallersShutOut
  <2>5. StaysCleared'
    BY DEF StaysCleared, CallersShutOut
  <2>6. PusherHolds' /\ OnlyTransmitHolds' /\ RetriesBelow' /\
        FlagCoversQueue' /\ AsleepOnLoweredFlag' /\ NoticesCounted' /\
        LiveIsHeld'
    BY DEF PusherHolds, OnlyTransmitHolds, RetriesBelow, FlagCoversQueue,
       AsleepOnLoweredFlag, NoticesCounted, LiveIsHeld, Done, Queued
  <2> QED BY <2>1, <2>2, <2>3, <2>4, <2>5, <2>6
<1>20. CASE JoinReceiver
  <2> USE <1>20 DEF Inv, JoinReceiver
  <2>1. TypeOK'
    BY DEF TypeOK, ClosingStates
  <2>2. FlagCoversStop'
    BY DEF FlagCoversStop
  <2>3. SenderJoined'
    BY DEF SenderJoined
  <2>4. CallersShutOut'
    BY DEF CallersShutOut
  <2>5. StaysCleared'
    BY DEF StaysCleared, CallersShutOut
  <2>6. PusherHolds' /\ OnlyTransmitHolds' /\ RetriesBelow' /\
        FlagCoversQueue' /\ AsleepOnLoweredFlag' /\ NoticesCounted' /\
        LiveIsHeld'
    BY DEF PusherHolds, OnlyTransmitHolds, RetriesBelow, FlagCoversQueue,
       AsleepOnLoweredFlag, NoticesCounted, LiveIsHeld, Done, Queued
  <2> QED BY <2>1, <2>2, <2>3, <2>4, <2>5, <2>6
<1>21. CASE UNCHANGED vars
  BY <1>21 DEF vars, Inv, TypeOK, PusherHolds, OnlyTransmitHolds, RetriesBelow,
    FlagCoversQueue, AsleepOnLoweredFlag, FlagCoversStop, NoticesCounted,
    SenderJoined, CallersShutOut, StaysCleared, LiveIsHeld, Queued
<1> QED
  BY <1>1, <1>2, <1>3, <1>4, <1>5, <1>6, <1>7, <1>8, <1>9, <1>10, <1>11,
     <1>12, <1>13, <1>14, <1>15, <1>16, <1>17, <1>18, <1>19, <1>20, <1>21
  DEF Next, SenderStep, ReceiverStep, CloseStep

-----------------------------------------------------------------------------
(* The theorems.                                                           *)

(* The inductive invariant holds in every behaviour.                       *)
LEMMA SpecInv == Spec => []Inv
BY InitInv, NextInv, PTL DEF Spec

(* Every variable of the dispatcher keeps its type; among them the retry   *)
(* count, which runSenderActivity compares with maxRetries for equality.   *)
THEOREM TypeCorrect == Spec => []TypeOK
<1>1. Inv => TypeOK
    BY DEF Inv
<1> QED BY <1>1, SpecInv, PTL

(* The sender never sleeps while messages wait, unless the thread that     *)
(* pushed the last of them is about to notify it: no interleaving of       *)
(* pushMessageToQueue, notifyMessagesAvailable and                         *)
(* updateMessageAvailableFlag loses a wakeup.                              *)
THEOREM WakeupNeverLost == Spec => []NoLostWakeup
<1>1. Inv => NoLostWakeup
    BY DEF Inv, FlagCoversQueue, AsleepOnLoweredFlag, NoLostWakeup
<1> QED BY <1>1, SpecInv, PTL

(* A sender asked to stop sleeps only until closeConnection's notification *)
(* comes: senderActivity.wait() cannot hang on a sleeping sender.          *)
THEOREM StopAlwaysSeen == Spec => []StopIsSeen
<1>1. Inv => StopIsSeen
    BY DEF Inv, FlagCoversStop, AsleepOnLoweredFlag, StopIsSeen
<1> QED BY <1>1, SpecInv, PTL

(* Each activity reports the end of its connection at most once.           *)
THEOREM NoticesBounded == Spec => []AtMostTwoNotices
<1>1. Inv => AtMostTwoNotices
    BY DEF Inv, TypeOK, NoticesCounted, Done, AtMostTwoNotices
<1> QED BY <1>1, SpecInv, PTL

(* Nothing is left behind by a connection the event loop closed: every     *)
(* message handed to it was sent or deleted, although sendMessage and the  *)
(* clearing of the queue share no critical section.                        *)
THEOREM NothingLeaks == Spec => []NoLeakAfterClose
<1>1. Inv => NoLeakAfterClose
  <2> SUFFICES ASSUME Inv, closing = "closed", closer = "eventLoop",
                      NEW m \in Msgs, fate[m] = "live"
               PROVE  FALSE
      BY DEF NoLeakAfterClose
  <2>1. m # None
      BY DispatcherAssumption
  <2>2. \A t \in Threads : held[t] # m
      BY <2>1 DEF Inv, CallersShutOut, PusherHolds
  <2>3. msg # m
      BY <2>1 DEF Inv, SenderJoined, OnlyTransmitHolds
  <2>4. ~Queued(m)
      BY DEF Inv, StaysCleared, Queued
  <2> QED BY <2>2, <2>3, <2>4 DEF Inv, LiveIsHeld
<1> QED BY <1>1, SpecInv, PTL

(* The three critical sections, the flag, the condition variable and the   *)
(* stop requests implement the queue of OutboundQueue: every step of the   *)
(* dispatcher is a step of the queue or leaves it alone.                   *)
THEOREM QueueImplemented == Spec => OQ!OQSafe
<1>1. Init => OQ!OQInit
    BY DEF Init, OQ!OQInit
<1>2. Inv /\ [Next]_vars => [OQ!OQNext]_(OQ!oqVars)
  <2> SUFFICES ASSUME Inv, [Next]_vars PROVE [OQ!OQNext]_(OQ!oqVars)
      OBVIOUS
  <2> USE DEF OQ!OQNext, OQ!oqVars, callVars, queueVars, senderVars, receiverVars,
              closeVars, histVars, SenderUnchanged, ReceiverUnchanged,
              CloseUnchanged
  <2>1. ASSUME NEW t \in Threads, NEW m \in Msgs, SendMessage(t, m)
        PROVE  UNCHANGED OQ!oqVars
      BY <2>1 DEF SendMessage
  <2>2. ASSUME NEW t \in Threads, PushMessageToQueue(t)
        PROVE  OQ!Accept(held[t]) /\ held[t] \in Msgs
      BY <2>2 DEF PushMessageToQueue, OQ!Accept, Enqueue, Inv, PusherHolds
  <2>3. ASSUME NEW t \in Threads, NotifyMessagesAvailable(t)
        PROVE  UNCHANGED OQ!oqVars
      BY <2>3 DEF NotifyMessagesAvailable, RaiseFlag
  <2>4. CASE SenderLoop
    <3>1. CASE senderStopped
        BY <2>4, <3>1 DEF SenderLoop, OQ!Retire, Inv, OnlyTransmitHolds
    <3>2. CASE ~senderStopped
        BY <2>4, <3>2 DEF SenderLoop
    <3> QED BY <3>1, <3>2
  <2>5. CASE WaitForMessagesAvailable
      BY <2>5 DEF WaitForMessagesAvailable
  <2>6. CASE PopMessageFromQueue
    <3>1. CASE messageQueue = <<>>
        BY <2>6, <3>1 DEF PopMessageFromQueue
    <3>2. CASE messageQueue # <<>>
        BY <2>6, <3>2 DEF PopMessageFromQueue, OQ!Take, Inv, OnlyTransmitHolds
    <3> QED BY <3>1, <3>2
  <2>7. CASE TransmitMessage
    <3>1. CASE msg = None
        BY <2>7, <3>1 DEF TransmitMessage
    <3>2. CASE msg # None
        BY <2>7, <3>2 DEF TransmitMessage, OQ!Finish
    <3> QED BY <3>1, <3>2
  <2>8. CASE UpdateMessageAvailableFlag
    <3>1. CASE RetryLimitReached
        BY <2>8, <3>1 DEF UpdateMessageAvailableFlag, OQ!Retire, Inv,
           OnlyTransmitHolds
    <3>2. CASE ~RetryLimitReached
        BY <2>8, <3>2 DEF UpdateMessageAvailableFlag
    <3> QED BY <3>1, <3>2
  <2>9. CASE SenderEnds
      BY <2>9 DEF SenderEnds
  <2>10. CASE ReceiverStep
      BY <2>10 DEF ReceiverStep, ReceiverLoop,
         WaitForNextCompleteProtocolMessage, ReceiverEnds
  <2>11. CASE CloseByEventLoop \/ CloseByMain
      BY <2>11 DEF CloseByEventLoop, CloseByMain
  <2>12. CASE StopSender \/ JoinSender \/ StopReceiver \/ JoinReceiver
      BY <2>12 DEF StopSender, JoinSender, StopReceiver, JoinReceiver
  <2>13. CASE NotifySender
      BY <2>13 DEF NotifySender, RaiseFlag
  <2>14. CASE ClearPendingMessages
      BY <2>14 DEF ClearPendingMessages, OQ!Discard, Inv, SenderJoined
  <2>15. CASE UNCHANGED vars
      BY <2>15 DEF vars
  <2> QED
      BY <2>1, <2>2, <2>3, <2>4, <2>5, <2>6, <2>7, <2>8, <2>9, <2>10, <2>11,
         <2>12, <2>13, <2>14, <2>15
      DEF Next, SenderStep, CloseStep
<1> QED BY <1>1, <1>2, SpecInv, PTL DEF Spec, OQ!OQSafe

-----------------------------------------------------------------------------
(* That a message has one owner, in terms of places instead of numbers:    *)
(* no two places hold the same message ...                                 *)
HeldOnce ==
    /\ \A t, u \in Threads : held[t] = held[u] /\ held[t] # None => t = u
    /\ \A i, j \in DOMAIN messageQueue : messageQueue[i] = messageQueue[j] => i = j
    /\ \A t \in Threads, i \in DOMAIN messageQueue : held[t] # messageQueue[i]
    /\ \A t \in Threads : held[t] # None => held[t] # msg
    /\ \A i \in DOMAIN messageQueue : messageQueue[i] # msg

(* ... and none holds one that was not handed over or that was deleted.    *)
HeldIsLive ==
    /\ \A t \in Threads : held[t] # None => fate[held[t]] = "live"
    /\ \A i \in DOMAIN messageQueue : fate[messageQueue[i]] = "live"
    /\ msg # None => fate[msg] = "live"

Owners == HeldOnce /\ HeldIsLive

(* A new message makes no two places of the queue equal.                   *)
LEMMA EnqueueOnce ==
    ASSUME messageQueue \in Seq(Msgs), NEW m \in Msgs,
           \A i, j \in DOMAIN messageQueue :
               messageQueue[i] = messageQueue[j] => i = j,
           \A i \in DOMAIN messageQueue : messageQueue[i] # m
    PROVE  /\ \A i, j \in DOMAIN Enqueue(m) : Enqueue(m)[i] = Enqueue(m)[j] => i = j
           /\ \A i \in DOMAIN Enqueue(m) :
                 \/ Enqueue(m)[i] = m
                 \/ \E j \in DOMAIN messageQueue : Enqueue(m)[i] = messageQueue[j]
<1> DEFINE front == <<m>> \o messageQueue
           back  == Append(messageQueue, m)
           n     == Len(messageQueue)
<1>1. /\ DOMAIN front = 1..(n + 1)
      /\ front[1] = m
      /\ \A i \in 2..(n + 1) : i - 1 \in DOMAIN messageQueue
                               /\ front[i] = messageQueue[i - 1]
    OBVIOUS
<1>2. /\ DOMAIN back = 1..(n + 1)
      /\ back[n + 1] = m
      /\ \A i \in 1..n : i \in DOMAIN messageQueue /\ back[i] = messageQueue[i]
    OBVIOUS
<1>3. n \in Nat
    OBVIOUS
<1> HIDE DEF front, back, n
<1>4. /\ \A i, j \in DOMAIN front : front[i] = front[j] => i = j
      /\ \A i \in DOMAIN front :
            front[i] = m \/ \E j \in DOMAIN messageQueue : front[i] = messageQueue[j]
  <2>1. \A i \in 1..(n + 1) : i = 1 \/ i \in 2..(n + 1)
      BY <1>3
  <2>2. \A i, j \in DOMAIN front : front[i] = front[j] => i = j
      BY <1>1, <1>3, <2>1
  <2> QED BY <1>1, <2>1, <2>2
<1>5. /\ \A i, j \in DOMAIN back : back[i] = back[j] => i = j
      /\ \A i \in DOMAIN back :
            back[i] = m \/ \E j \in DOMAIN messageQueue : back[i] = messageQueue[j]
  <2>1. \A i \in 1..(n + 1) : i = n + 1 \/ i \in 1..n
      BY <1>3
  <2> QED BY <1>2, <2>1
<1> QED BY <1>4, <1>5 DEF Enqueue, front, back

LEMMA OwnersNext == Inv /\ Owners /\ [Next]_vars => Owners'
<1> SUFFICES ASSUME Inv, Owners, [Next]_vars PROVE Owners'
    OBVIOUS
<1> USE DEF callVars, queueVars, senderVars, receiverVars, closeVars, histVars,
            SenderUnchanged, ReceiverUnchanged, CloseUnchanged
<1>0. CASE UNCHANGED <<held, messageQueue, msg, fate>>
    BY <1>0 DEF Owners, HeldOnce, HeldIsLive
<1>1. ASSUME NEW t \in Threads, NEW m \in Msgs, SendMessage(t, m) PROVE Owners'
  <2> USE <1>1, DispatcherAssumption DEF Inv, Owners, SendMessage
  <2>1. /\ \A u \in Threads : held[u] # m
        /\ \A i \in DOMAIN messageQueue : messageQueue[i] # m
        /\ msg # m
      BY DEF HeldIsLive
  <2>2. fate \in [Msgs -> Fates] /\ held \in [Threads -> Msgs \cup {None}]
        /\ messageQueue \in Seq(Msgs) /\ msg \in Msgs \cup {None}
      BY DEF TypeOK
  <2>3. HeldOnce'
      BY <2>1, <2>2 DEF HeldOnce
  <2>4. HeldIsLive'
      BY <2>1, <2>2 DEF HeldIsLive
  <2> QED BY <2>3, <2>4
<1>2. ASSUME NEW t \in Threads, PushMessageToQueue(t) PROVE Owners'
  <2> USE <1>2, DispatcherAssumption DEF Inv, Owners, PushMessageToQueue
  <2> DEFINE m == held[t]
  <2>1. m \in Msgs /\ m # None
      BY DEF PusherHolds
  <2>2. /\ \A i, j \in DOMAIN Enqueue(m) : Enqueue(m)[i] = Enqueue(m)[j] => i = j
        /\ \A i \in DOMAIN Enqueue(m) :
              \/ Enqueue(m)[i] = m
              \/ \E j \in DOMAIN messageQueue : Enqueue(m)[i] = messageQueue[j]
      BY <2>1, EnqueueOnce DEF TypeOK, HeldOnce
  <2>3. \A u \in Threads : held'[u] = IF u = t THEN None ELSE held[u]
      BY DEF TypeOK
  <2>4. \A i \in DOMAIN messageQueue : messageQueue[i] \in Msgs
      BY DEF TypeOK
  <2>5. /\ messageQueue' = Enqueue(m) /\ msg' = msg /\ fate' = fate
      OBVIOUS
  <2> HIDE <1>2
  <2>6. HeldOnce'
      BY <2>1, <2>2, <2>3, <2>4, <2>5 DEF HeldOnce
  <2>7. HeldIsLive'
      BY <2>1, <2>2, <2>3, <2>5 DEF HeldIsLive
  <2> QED BY <2>6, <2>7
<1>3. CASE PopMessageFromQueue
  <2> USE <1>3, DispatcherAssumption DEF Inv, Owners, PopMessageFromQueue
  <2>1. CASE messageQueue = <<>>
      BY <1>0, <2>1
  <2>2. CASE messageQueue # <<>>
    <3>1. /\ 1 \in DOMAIN messageQueue
          /\ msg' = messageQueue[1]
          /\ held' = held /\ fate' = fate
          /\ \A i \in DOMAIN messageQueue' :
                /\ i + 1 \in DOMAIN messageQueue /\ i \in Nat \ {0}
                /\ messageQueue'[i] = messageQueue[i + 1]
        BY <2>2, HeadTailProperties DEF TypeOK
    <3> HIDE <1>3
    <3>2. HeldOnce'
        BY <3>1 DEF HeldOnce
    <3>3. HeldIsLive'
        BY <3>1 DEF HeldIsLive
    <3> QED BY <3>2, <3>3
  <2> QED BY <2>1, <2>2
<1>4. CASE TransmitMessage
  <2> USE <1>4 DEF Inv, Owners, TransmitMessage
  <2>1. HeldOnce'
      BY DispatcherAssumption DEF HeldOnce, TypeOK
  <2>2. HeldIsLive'
      BY DEF HeldIsLive, HeldOnce, TypeOK
  <2> QED BY <2>1, <2>2
<1>5. CASE ClearPendingMessages
  <2> USE <1>5 DEF Inv, Owners, ClearPendingMessages
  <2>1. HeldOnce'
      BY DEF HeldOnce
  <2>2. HeldIsLive'
      BY DEF HeldIsLive, HeldOnce, TypeOK, Queued
  <2> QED BY <2>1, <2>2
<1>6. CASE \E t \in Threads : NotifyMessagesAvailable(t)
    BY <1>0, <1>6 DEF NotifyMessagesAvailable
<1>7. CASE SenderLoop \/ WaitForMessagesAvailable \/ UpdateMessageAvailableFlag
           \/ SenderEnds
    BY <1>0, <1>7 DEF SenderLoop, WaitForMessagesAvailable,
        UpdateMessageAvailableFlag, SenderEnds
<1>8. CASE ReceiverStep
    BY <1>0, <1>8 DEF ReceiverStep, ReceiverLoop,
        WaitForNextCompleteProtocolMessage, ReceiverEnds
<1>9. CASE CloseByEventLoop \/ CloseByMain
    BY <1>0, <1>9 DEF CloseByEventLoop, CloseByMain
<1>10. CASE StopSender \/ NotifySender \/ JoinSender \/ StopReceiver \/ JoinReceiver
    BY <1>0, <1>10 DEF StopSender, NotifySender, JoinSender, StopReceiver,
        JoinReceiver
<1>11. CASE UNCHANGED vars
    BY <1>0, <1>11 DEF vars
<1> QED BY <1>1, <1>2, <1>3, <1>4, <1>5, <1>6, <1>7, <1>8, <1>9, <1>10, <1>11
            DEF Next, SenderStep, CloseStep

(* Places that do not repeat a message count it once, or not at all.       *)
LEMMA CountOnce ==
    ASSUME NEW S, \A x, y \in S : x = y
    PROVE  Cardinality(S) = IF S = {} THEN 0 ELSE 1
<1>1. CASE S = {}
    BY <1>1, FS_EmptySet
<1>2. CASE S # {}
  <2>1. PICK x \in S : TRUE
      BY <1>2
  <2>2. S = {x}
      BY <2>1
  <2> QED BY <1>2, <2>2, FS_Singleton
<1> QED BY <1>1, <1>2

LEMMA OwnersCounted == Inv /\ Owners => OneOwner
<1> SUFFICES ASSUME Inv, Owners, NEW m \in Msgs
             PROVE  Cardinality({t \in Threads : held[t] = m})
                      + Cardinality({i \in DOMAIN messageQueue : messageQueue[i] = m})
                      + (IF msg = m THEN 1 ELSE 0)
                    = (IF fate[m] = "live" THEN 1 ELSE 0)
    BY DEF OneOwner
<1> USE DispatcherAssumption DEF Owners
<1> DEFINE H == {t \in Threads : held[t] = m}
           Q == {i \in DOMAIN messageQueue : messageQueue[i] = m}
<1>1. Cardinality(H) = IF H = {} THEN 0 ELSE 1
    BY CountOnce DEF HeldOnce
<1>2. Cardinality(Q) = IF Q = {} THEN 0 ELSE 1
    BY CountOnce DEF HeldOnce
<1>3. /\ H # {} => Q = {} /\ msg # m
      /\ Q # {} => msg # m
    BY DEF HeldOnce
<1>4. H # {} \/ Q # {} \/ msg = m <=> fate[m] = "live"
  <2>1. fate[m] = "live" => H # {} \/ Q # {} \/ msg = m
      BY DEF Inv, LiveIsHeld, Queued
  <2>2. H # {} \/ Q # {} \/ msg = m => fate[m] = "live"
      BY DEF HeldIsLive
  <2> QED BY <2>1, <2>2
<1> HIDE DEF H, Q
<1>5. Cardinality(H) + Cardinality(Q) + (IF msg = m THEN 1 ELSE 0)
        = (IF fate[m] = "live" THEN 1 ELSE 0)
    BY <1>1, <1>2, <1>3, <1>4
<1> QED BY <1>5 DEF H, Q

(* Every message handed to sendMessage is owned by one of the calling      *)
(* thread, the queue and the sender until it is deleted, and by none of    *)
(* them after: nothing is deleted twice or transmitted after its deletion. *)
THEOREM OwnedUntilDeleted == Spec => []OneOwner
<1>1. Init => Owners
    BY DEF Init, Owners, HeldOnce, HeldIsLive
<1>2. Inv /\ Owners => OneOwner
    BY OwnersCounted
<1> QED BY <1>1, <1>2, SpecInv, OwnersNext, PTL DEF Spec
=============================================================================
