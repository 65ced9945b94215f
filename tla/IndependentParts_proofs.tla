----------------------- MODULE IndependentParts_proofs -----------------------
(***************************************************************************)
(* Proofs about the parts that make messages of what others write or tell  *)
(* and about the stream of frames they leave on.                           *)
(* Each part is proved about on its own, with the steps of its module; the *)
(* theorems are about IndependentParts!Spec.                               *)
(***************************************************************************)
EXTENDS IndependentParts, SequenceTheorems, WellFoundedInduction, TLAPS

-----------------------------------------------------------------------------
(* A step of the whole is a step of each part, or leaves the part alone.   *)
LEMMA StepsOfParts ==
    ASSUME [Next]_vars
    PROVE  /\ [JsonNext]_jVars
           /\ [LogNext]_lVars
           /\ [SocketNext]_sVars
           /\ [DbusNext]_dVars
           /\ [ReceiverNext]_inVars
           /\ [SenderNext]_outVars
           /\ [ResourceNext]_rVars
<1>1. CASE UNCHANGED vars
    BY <1>1 DEF vars
<1>2. CASE OfJson(JsonNext) \/ OfLog(LogNext)
    BY <1>2 DEF OfJson, OfLog
<1>3. CASE OfSocket(SocketNext) \/ OfDbus(DbusNext) \/ OfResource(ResourceNext)
    BY <1>3 DEF OfSocket, OfDbus, OfResource
<1>4. CASE OfReceiver(ReceiverNext) \/ OfSender(SenderNext)
    <2>1. ReceiverNext => UNCHANGED outVars
        BY DEF ReceiverNext, HostSends, ReadNBytesFromSocket, ReceiveTimeout
    <2>2. SenderNext => UNCHANGED inVars
        BY DEF SenderNext, TransmitMessageHeader, WriteNBytesToSocket, SendThrows
    <2> QED BY <1>4, <2>1, <2>2 DEF OfReceiver, OfSender
<1> QED BY <1>1, <1>2, <1>3, <1>4 DEF Next


-----------------------------------------------------------------------------
(* The data pool of the D-Bus monitor: no wakeup is lost between producer  *)
(* and consumer, although the message, the flag and the consumer's         *)
(* decision to sleep are in critical sections of their own.                *)

(* While the consumer works on a message the flag stays raised: nobody but *)
(* the consumer lowers it, and only after it has looked at the queue.      *)
RaisedWhileWorking == consumer \in {"pop", "handle", "update"} => available

(* Whoever has put a message into a queue with a lowered flag is about to  *)
(* raise the flag; this holds wherever the consumer is.                    *)
FlagCoversQueue == ~available /\ queue # <<>> => producer = "notify"

(* Nothing is captured before start, and the connection's pointer means    *)
(* something once the producer's task has tried to connect.                *)
BeforeStart ==
    /\ main = "startProducer" => producer = "off"
    /\ producer = "off" => queue = <<>>
    /\ producer \notin {"off", "connect"} => dbusconnection # "garbage"

PoolInv == /\ TypeOK
       /\ RaisedWhileWorking
       /\ FlagCoversQueue
       /\ BeforeStart

-----------------------------------------------------------------------------
(* The capturing thread finds the pool empty and the flag lowered.         *)
LEMMA PoolStarts == DbusInit => PoolInv
<1> SUFFICES ASSUME DbusInit PROVE PoolInv
  OBVIOUS
<1>1. 0 \in MessageNumbers
  BY DbusAssumption DEF MessageNumbers
<1>2. <<>> \in Seq(MessageNumbers) /\ Len(<<>>) <= MaxQueue
  BY DbusAssumption
<1>3. TypeOK
  BY <1>1, <1>2
     DEF DbusInit, TypeOK, ProducerStates, ConsumerStates, MainStates
<1>4. RaisedWhileWorking /\ FlagCoversQueue /\ BeforeStart
  BY DEF DbusInit, RaisedWhileWorking, FlagCoversQueue, BeforeStart
<1> QED
  BY <1>3, <1>4 DEF PoolInv

(* The next number is a number again.                                      *)
LEMMA NextNumber == \A n \in MessageNumbers : (n + 1) % Numbers \in MessageNumbers
<1> SUFFICES ASSUME NEW n \in MessageNumbers
             PROVE  (n + 1) % Numbers \in MessageNumbers
  OBVIOUS
<1>1. n + 1 \in Nat /\ Numbers \in Nat /\ Numbers > 0
  BY DbusAssumption DEF MessageNumbers
<1>2. (n + 1) % Numbers \in 0..(Numbers - 1)
  BY <1>1
<1> QED
  BY <1>2 DEF MessageNumbers

(* The first message of a queue and what follows it.                       *)
LEMMA HeadAndTail ==
  ASSUME TypeOK, queue # <<>>
  PROVE  /\ Head(queue) \in MessageNumbers
         /\ Tail(queue) \in Seq(MessageNumbers)
         /\ Len(Tail(queue)) <= MaxQueue
BY DbusAssumption DEF TypeOK

-----------------------------------------------------------------------------
LEMMA ProducerKeepsPool ==
  PoolInv /\ (ProducerStep \/ PushMessageToQueue) => PoolInv'
<1> SUFFICES ASSUME PoolInv, ProducerStep \/ PushMessageToQueue
             PROVE  PoolInv'
  OBVIOUS
<1> USE DEF PoolInv, RaisedWhileWorking, FlagCoversQueue, BeforeStart, TypeOK,
            startVars, poolVars, stopVars, flowVars
<1>1. CASE Connect
  BY <1>1 DEF Connect, ProducerStates
<1>2. CASE Publish
  BY <1>2 DEF Publish, ProducerStates
<1>3. CASE WaitDpPopulated
  BY <1>3 DEF WaitDpPopulated, ProducerStates
<1>4. CASE AddMatchRules
  BY <1>4 DEF AddMatchRules, ProducerStates
<1>5. CASE HandleDbusMessageEnds
  BY <1>5 DEF HandleDbusMessageEnds, NotifyMessagesAvailable, ProducerStates
<1>6. CASE ProducerEnds
  BY <1>6 DEF ProducerEnds, ProducerStates
<1>7. CASE PushMessageToQueue
  <2>1. captured' \in MessageNumbers
    BY <1>7, NextNumber DEF PushMessageToQueue
  <2>2. queue' \in Seq(MessageNumbers) /\ Len(queue') <= MaxQueue
    BY <1>7, DbusAssumption DEF PushMessageToQueue
  <2> QED
    BY <1>7, <2>1, <2>2 DEF PushMessageToQueue, ProducerStates
<1> QED
  BY <1>1, <1>2, <1>3, <1>4, <1>5, <1>6, <1>7 DEF ProducerStep

LEMMA ConsumerKeepsPool == PoolInv /\ ConsumerStep => PoolInv'
<1> SUFFICES ASSUME PoolInv, ConsumerStep
             PROVE  PoolInv'
  OBVIOUS
<1> USE DEF PoolInv, RaisedWhileWorking, FlagCoversQueue, BeforeStart, TypeOK,
            startVars, poolVars, stopVars, flowVars
<1>1. CASE OuterLoop
  BY <1>1 DEF OuterLoop, ConsumerStates
<1>2. CASE WaitConnectionEstablished
  <2>1. CASE mDBusconnection = "null"
    BY <1>2, <2>1 DEF WaitConnectionEstablished, ConsumerStates
  <2>2. CASE mDBusconnection # "null"
    <3>1. consumer' = "populate"
      BY <1>2, <2>2 DEF WaitConnectionEstablished
    <3>2. TypeOK'
      BY <1>2, <2>2, <3>1 DEF WaitConnectionEstablished, ConsumerStates
    <3>3. RaisedWhileWorking'
      BY <1>2, <2>2, <3>1 DEF WaitConnectionEstablished, ConsumerStates
    <3>4. FlagCoversQueue'
      BY <1>2, <2>2, <3>1 DEF WaitConnectionEstablished, ConsumerStates
    <3>5. BeforeStart'
      BY <1>2, <2>2, <3>1 DEF WaitConnectionEstablished, ConsumerStates
    <3> QED
      BY <3>2, <3>3, <3>4, <3>5
  <2> QED
    BY <2>1, <2>2
<1>3. CASE PopulateDataPool
  BY <1>3 DEF PopulateDataPool, ConsumerStates
<1>4. CASE InnerLoop
  BY <1>4 DEF InnerLoop, ConsumerStates
<1>5. CASE WaitForMessagesAvailable
  BY <1>5 DEF WaitForMessagesAvailable, ConsumerStates
<1>6. CASE PopMessageFromQueue
  <2>1. CASE queue = <<>>
    BY <1>6, <2>1 DEF PopMessageFromQueue, ConsumerStates
  <2>2. CASE queue # <<>>
    BY <1>6, <2>2, HeadAndTail DEF PopMessageFromQueue, ConsumerStates
  <2> QED
    BY <2>1, <2>2
<1>7. CASE Forward
  <2>1. forwarded' \in MessageNumbers
    <3>1. CASE hand = None
      BY <1>7, <3>1 DEF Forward
    <3>2. CASE hand # None
      BY <1>7, <3>2, NextNumber DEF Forward
    <3> QED
      BY <3>1, <3>2
  <2> QED
    BY <1>7, <2>1 DEF Forward, ConsumerStates
<1>8. CASE UpdateMessageAvailableFlag
  <2>1. CASE available /\ queue # <<>>
    <3>1. available' = available
      BY <1>8, <2>1 DEF UpdateMessageAvailableFlag, FlagAfterUpdate
    <3> QED
      BY <1>8, <2>1, <3>1 DEF UpdateMessageAvailableFlag, ConsumerStates
  <2>2. CASE ~(available /\ queue # <<>>)
    <3>1. available' = FALSE
      BY <1>8, <2>2 DEF UpdateMessageAvailableFlag, FlagAfterUpdate
    <3>2. TypeOK'
      BY <1>8, <2>2, <3>1 DEF UpdateMessageAvailableFlag, ConsumerStates
    <3>3. RaisedWhileWorking'
      BY <1>8, <2>2, <3>1 DEF UpdateMessageAvailableFlag, ConsumerStates
    <3>4. FlagCoversQueue'
      BY <1>8, <2>2, <3>1 DEF UpdateMessageAvailableFlag, ConsumerStates
    <3>5. BeforeStart'
      BY <1>8, <2>2, <3>1 DEF UpdateMessageAvailableFlag, ConsumerStates
    <3> QED
      BY <3>2, <3>3, <3>4, <3>5
  <2> QED
    BY <2>1, <2>2
<1> QED
  BY <1>1, <1>2, <1>3, <1>4, <1>5, <1>6, <1>7, <1>8 DEF ConsumerStep

LEMMA MainKeepsPool == PoolInv /\ (MainStep \/ NotifyConsumer) => PoolInv'
<1> SUFFICES ASSUME PoolInv, MainStep \/ NotifyConsumer
             PROVE  PoolInv'
  OBVIOUS
<1> USE DEF PoolInv, RaisedWhileWorking, FlagCoversQueue, BeforeStart, TypeOK,
            startVars, poolVars, stopVars, flowVars
<1>1. CASE StartProducer
  BY <1>1 DEF StartProducer, ProducerStates, MainStates
<1>2. CASE StartConsumer
  BY <1>2 DEF StartConsumer, ConsumerStates, MainStates
<1>3. CASE StopConsumer
  BY <1>3 DEF StopConsumer, MainStates
<1>4. CASE JoinConsumer
  BY <1>4 DEF JoinConsumer, MainStates
<1>5. CASE CleanUpDBusConnection
  BY <1>5 DEF CleanUpDBusConnection, MainStates
<1>6. CASE StopProducer
  BY <1>6 DEF StopProducer, MainStates
<1>7. CASE NotifyConsumer
  BY <1>7 DEF NotifyConsumer, NotifyMessagesAvailable, MainStates
<1> QED
  BY <1>1, <1>2, <1>3, <1>4, <1>5, <1>6, <1>7 DEF MainStep

LEMMA PoolSteps == PoolInv /\ [DbusNext]_dVars => PoolInv'
<1> SUFFICES ASSUME PoolInv, [DbusNext]_dVars
             PROVE  PoolInv'
  OBVIOUS
<1>1. CASE DbusNext
  BY <1>1, ProducerKeepsPool, ConsumerKeepsPool, MainKeepsPool DEF DbusNext
<1>2. CASE UNCHANGED dVars
  BY <1>2 DEF dVars, startVars, poolVars, stopVars, flowVars, PoolInv, TypeOK,
              RaisedWhileWorking, FlagCoversQueue, BeforeStart
<1> QED
  BY <1>1, <1>2

-----------------------------------------------------------------------------
(* The consumer holds a message only while it forwards it, and does not    *)
(* run before start.                                                       *)
HeldWhileHandled ==
    /\ hand # None => consumer = "handle"
    /\ main \in {"startProducer", "startConsumer"} => consumer = "off"

OrderInv == PoolInv /\ HeldWhileHandled /\ CapturedInOrder

(* Numbers wrap around once.                                               *)
LEMMA Wraps ==
  ASSUME NEW x \in Nat, x < Numbers + Numbers
  PROVE  x % Numbers = IF x < Numbers THEN x ELSE x - Numbers
<1>1. Numbers \in Nat \ {0}
  BY DbusAssumption
<1> QED
  BY <1>1

(* A number plus one, taken before and after the remainder.                *)
LEMMA NextOfNumber ==
  ASSUME NEW x \in Nat, x + 1 < Numbers + Numbers
  PROVE  ((x % Numbers) + 1) % Numbers = (x + 1) % Numbers
<1>1. Numbers \in Nat \ {0} /\ Numbers > 1
  BY DbusAssumption
<1>2. x % Numbers = IF x < Numbers THEN x ELSE x - Numbers
  BY <1>1, Wraps
<1>3. (x + 1) % Numbers = IF x + 1 < Numbers THEN x + 1 ELSE x + 1 - Numbers
  BY <1>1, Wraps
<1>4. CASE x < Numbers
  BY <1>2, <1>4
<1>5. CASE x >= Numbers
  <2>1. x - Numbers + 1 \in Nat /\ x - Numbers + 1 < Numbers
    BY <1>1, <1>5
  <2>2. (x - Numbers + 1) % Numbers = x - Numbers + 1
    BY <1>1, <2>1, Wraps
  <2> QED
    BY <1>1, <1>2, <1>3, <1>5, <2>2
<1> QED
  BY <1>1, <1>4, <1>5

(* What is on its way is a sequence, short enough for its numbers to       *)
(* differ.                                                                 *)
LEMMA InFlightTyped ==
  ASSUME TypeOK
  PROVE  /\ InFlight \in Seq(MessageNumbers)
         /\ Len(InFlight) <= MaxQueue + 1
         /\ hand = None => InFlight = queue
         /\ hand # None => /\ InFlight = <<hand>> \o queue
                           /\ Len(InFlight) = 1 + Len(queue)
                           /\ InFlight[1] = hand
                           /\ \A i \in 1..Len(queue) : InFlight[i + 1] = queue[i]
<1>1. queue \in Seq(MessageNumbers) /\ Len(queue) <= MaxQueue /\ MaxQueue \in Nat
  BY DbusAssumption DEF TypeOK
<1>2. CASE hand = None
  <2>1. InFlight = queue
    BY <1>1, <1>2 DEF InFlight
  <2> QED
    BY <1>1, <1>2, <2>1
<1>3. CASE hand # None
  <2>1. hand \in MessageNumbers
    BY <1>3 DEF TypeOK
  <2>2. InFlight = <<hand>> \o queue
    BY <1>3 DEF InFlight
  <2>3. <<hand>> \in Seq(MessageNumbers) /\ Len(<<hand>>) = 1
    BY <2>1
  <2> QED
    BY <1>1, <1>3, <2>1, <2>2, <2>3
<1> QED
  BY <1>2, <1>3

LEMMA PushInOrder ==
  ASSUME OrderInv, PushMessageToQueue
  PROVE  CapturedInOrder'
<1> DEFINE n == Len(InFlight)
<1>1. TypeOK /\ TypeOK'
  BY ProducerKeepsPool DEF OrderInv, PoolInv
<1>2. /\ InFlight \in Seq(MessageNumbers)
      /\ n \in Nat
      /\ n <= MaxQueue + 1
  BY <1>1, InFlightTyped
<1>3. captured \in MessageNumbers /\ forwarded \in Nat /\ forwarded < Numbers
  BY <1>1, DbusAssumption DEF TypeOK, MessageNumbers
<1>4. InFlight' = Append(InFlight, captured)
  <2>1. queue' = Append(queue, captured) /\ hand' = hand
    BY DEF PushMessageToQueue
  <2>2. queue \in Seq(MessageNumbers)
    BY <1>1 DEF TypeOK
  <2>3. CASE hand = None
    BY <1>1, <2>1, <2>2, <2>3, InFlightTyped DEF InFlight
  <2>4. CASE hand # None
    <3>1. hand \in MessageNumbers
      BY <1>1, <2>4 DEF TypeOK
    <3>2. <<hand>> \o Append(queue, captured) = Append(<<hand>> \o queue, captured)
      BY <1>3, <2>2, <3>1
    <3> QED
      BY <2>1, <2>4, <3>2 DEF InFlight
  <2> QED
    BY <2>3, <2>4
<1>5. /\ captured = (forwarded + n) % Numbers
      /\ \A i \in 1..n : InFlight[i] = (forwarded + i - 1) % Numbers
  BY <1>2 DEF OrderInv, CapturedInOrder
<1>6. captured' = (captured + 1) % Numbers /\ forwarded' = forwarded
  BY DEF PushMessageToQueue
<1> HIDE DEF n
<1>7. captured' = (forwarded + (n + 1)) % Numbers
  <2>1. forwarded + n \in Nat /\ forwarded + n + 1 < Numbers + Numbers
    BY <1>2, <1>3, DbusAssumption
  <2>2. (((forwarded + n) % Numbers) + 1) % Numbers = (forwarded + n + 1) % Numbers
    BY <2>1, NextOfNumber
  <2> QED
    BY <1>2, <1>3, <1>5, <1>6, <2>2
<1>8. Len(InFlight') = n + 1 /\ DOMAIN InFlight' = 1..(n + 1)
  BY <1>2, <1>3, <1>4 DEF n
<1>9. ASSUME NEW i \in 1..(n + 1)
      PROVE  InFlight'[i] = (forwarded + i - 1) % Numbers
  <2>1. CASE i = n + 1
    <3>1. InFlight'[n + 1] = captured
      BY <1>2, <1>3, <1>4 DEF n
    <3>2. forwarded + i - 1 = forwarded + n
      BY <1>2, <1>3, <2>1
    <3> QED
      BY <1>5, <2>1, <3>1, <3>2
  <2>2. CASE i # n + 1
    <3>1. i \in 1..n
      BY <1>2, <2>2
    <3>2. InFlight'[i] = InFlight[i]
      BY <1>2, <1>3, <1>4, <3>1 DEF n
    <3> QED
      BY <1>5, <3>1, <3>2
  <2> QED
    BY <2>1, <2>2
<1> QED
  BY <1>6, <1>7, <1>8, <1>9 DEF CapturedInOrder

LEMMA PopInOrder ==
  ASSUME OrderInv, PopMessageFromQueue
  PROVE  CapturedInOrder'
<1>1. hand = None /\ TypeOK
  BY DEF OrderInv, PoolInv, HeldWhileHandled, PopMessageFromQueue
<1>2. UNCHANGED flowVars
  BY DEF PopMessageFromQueue
<1>3. InFlight' = InFlight
  <2>1. CASE queue = <<>>
    BY <2>1 DEF PopMessageFromQueue, InFlight
  <2>2. CASE queue # <<>>
    <3>1. hand' = Head(queue) /\ queue' = Tail(queue)
      BY <2>2 DEF PopMessageFromQueue
    <3>2. queue \in Seq(MessageNumbers)
      BY <1>1 DEF TypeOK
    <3>3. Head(queue) # None
      BY <1>1, <2>2, HeadAndTail, DbusAssumption DEF MessageNumbers
    <3>4. <<Head(queue)>> \o Tail(queue) = queue
      BY <2>2, <3>2
    <3>5. InFlight = queue
      BY <1>1, InFlightTyped
    <3> QED
      BY <3>1, <3>3, <3>4, <3>5 DEF InFlight
  <2> QED
    BY <2>1, <2>2
<1> QED
  BY <1>2, <1>3 DEF OrderInv, CapturedInOrder, flowVars

LEMMA ForwardInOrder ==
  ASSUME OrderInv, Forward
  PROVE  CapturedInOrder'
<1>1. TypeOK /\ TypeOK'
  BY ConsumerKeepsPool DEF OrderInv, PoolInv, ConsumerStep
<1>2. hand' = None /\ queue' = queue /\ captured' = captured
  BY DEF Forward
<1>3. InFlight' = queue
  <2>1. queue \in Seq(MessageNumbers)
    BY <1>1 DEF TypeOK
  <2> QED
    BY <1>2, <2>1 DEF InFlight
<1>4. CASE hand = None
  <2>1. InFlight' = InFlight /\ forwarded' = forwarded
    BY <1>1, <1>3, <1>4, InFlightTyped DEF Forward
  <2> QED
    BY <1>2, <2>1 DEF OrderInv, CapturedInOrder
<1>5. CASE hand # None
  <2> DEFINE n == Len(queue)
  <2>1. /\ queue \in Seq(MessageNumbers)
        /\ n \in Nat
        /\ n <= MaxQueue
        /\ DOMAIN queue = 1..n
    BY <1>1 DEF TypeOK
  <2>2. forwarded \in Nat /\ forwarded < Numbers
    BY <1>1, DbusAssumption DEF TypeOK, MessageNumbers
  <2>3. /\ captured = (forwarded + (n + 1)) % Numbers
        /\ hand = (forwarded + 1 - 1) % Numbers
        /\ \A i \in 1..n : queue[i] = (forwarded + (i + 1) - 1) % Numbers
    <3>1. /\ InFlight \in Seq(MessageNumbers)
          /\ Len(InFlight) = n + 1
          /\ InFlight[1] = hand
          /\ \A i \in 1..n : InFlight[i + 1] = queue[i]
      BY <1>1, <1>5, <2>1, InFlightTyped
    <3>2. DOMAIN InFlight = 1..(n + 1)
      BY <3>1
    <3>3. 1 \in 1..(n + 1) /\ \A i \in 1..n : i + 1 \in 1..(n + 1)
      BY <2>1
    <3> HIDE DEF n
    <3> QED
      BY <3>1, <3>2, <3>3 DEF OrderInv, CapturedInOrder
  <2>4. hand = forwarded
    <3>1. forwarded % Numbers = forwarded
      BY <2>2, DbusAssumption, Wraps
    <3>2. forwarded + 1 - 1 = forwarded
      BY <2>2
    <3> QED
      BY <2>3, <3>1, <3>2
  <2>5. forwarded' = (forwarded + 1) % Numbers
    BY <1>5, <2>4 DEF Forward
  <2> HIDE DEF n
  <2>6. forwarded' = IF forwarded + 1 < Numbers THEN forwarded + 1 ELSE 0
    BY <2>2, <2>5, DbusAssumption, Wraps
  <2>7. ASSUME NEW j \in Nat, j <= MaxQueue
        PROVE  (forwarded' + j) % Numbers = (forwarded + 1 + j) % Numbers
    <3>1. CASE forwarded + 1 < Numbers
      BY <2>6, <3>1
    <3>2. CASE forwarded + 1 = Numbers
      <4>1. forwarded' + j = j /\ forwarded + 1 + j = Numbers + j
        BY <2>6, <2>7, <3>2, DbusAssumption
      <4>2. j % Numbers = j /\ (Numbers + j) % Numbers = j
        <5>1. /\ j < Numbers
              /\ j \in Nat
              /\ Numbers + j \in Nat
              /\ Numbers + j < Numbers + Numbers
              /\ Numbers \in Nat \ {0}
          BY <2>7, DbusAssumption
        <5>2. j % Numbers = j
          BY <5>1, Wraps
        <5>3. (Numbers + j) % Numbers = (Numbers + j) - Numbers
          BY <5>1, Wraps
        <5> QED
          BY <5>1, <5>2, <5>3
      <4> QED
        BY <4>1, <4>2
    <3> QED
      BY <2>2, <3>1, <3>2, DbusAssumption
  <2>8. captured' = (forwarded' + n) % Numbers
    <3>1. forwarded + 1 + n = forwarded + (n + 1)
      BY <2>1, <2>2
    <3> QED
      BY <1>2, <2>1, <2>3, <2>7, <3>1
  <2>9. ASSUME NEW i \in 1..n
        PROVE  queue[i] = (forwarded' + i - 1) % Numbers
    <3>1. i - 1 \in Nat /\ i - 1 <= MaxQueue
      BY <2>1, <2>9, DbusAssumption
    <3>2. (forwarded' + (i - 1)) % Numbers = (forwarded + 1 + (i - 1)) % Numbers
      BY <2>7, <3>1
    <3>3. /\ forwarded' + (i - 1) = forwarded' + i - 1
          /\ forwarded + 1 + (i - 1) = forwarded + (i + 1) - 1
      BY <2>1, <2>2, <2>6
    <3> QED
      BY <2>3, <3>2, <3>3
  <2> QED
    BY <1>3, <2>1, <2>8, <2>9 DEF CapturedInOrder, n
<1> QED
  BY <1>4, <1>5

LEMMA OrderStarts == DbusInit => OrderInv
<1> SUFFICES ASSUME DbusInit PROVE OrderInv
  OBVIOUS
<1>1. InFlight = <<>> /\ captured = 0 /\ forwarded = 0
  BY DEF DbusInit, InFlight
<1>2. 0 % Numbers = 0
  BY DbusAssumption, Wraps
<1>3. CapturedInOrder
  BY <1>1, <1>2 DEF CapturedInOrder
<1>4. HeldWhileHandled
  BY DEF DbusInit, HeldWhileHandled
<1> QED
  BY <1>3, <1>4, PoolStarts DEF OrderInv

LEMMA OrderSteps == OrderInv /\ [DbusNext]_dVars => OrderInv'
<1> SUFFICES ASSUME OrderInv, [DbusNext]_dVars
             PROVE  OrderInv'
  OBVIOUS
<1>1. PoolInv'
  BY PoolSteps DEF OrderInv
<1>2. HeldWhileHandled'
  <2> USE DEF OrderInv, HeldWhileHandled, startVars, poolVars, stopVars, flowVars
  <2>1. CASE ProducerStep \/ PushMessageToQueue
    BY <2>1 DEF ProducerStep, Connect, Publish, WaitDpPopulated, AddMatchRules,
                HandleDbusMessageEnds, ProducerEnds, PushMessageToQueue
  <2>2. CASE ConsumerStep
    BY <2>2 DEF ConsumerStep, OuterLoop, WaitConnectionEstablished,
                PopulateDataPool, InnerLoop, WaitForMessagesAvailable,
                PopMessageFromQueue, Forward, UpdateMessageAvailableFlag
  <2>3. CASE MainStep \/ NotifyConsumer
    BY <2>3 DEF MainStep, StartProducer, StartConsumer, StopConsumer,
                JoinConsumer, CleanUpDBusConnection, StopProducer, NotifyConsumer
  <2> QED
    BY <2>1, <2>2, <2>3 DEF DbusNext, dVars
<1>3. ASSUME UNCHANGED <<queue, hand, flowVars>>
      PROVE  CapturedInOrder'
  BY <1>3 DEF OrderInv, CapturedInOrder, InFlight, flowVars
<1>4. CapturedInOrder'
  <2>1. CASE ProducerStep
    BY <1>3, <2>1
       DEF ProducerStep, Connect, Publish, WaitDpPopulated, AddMatchRules,
           HandleDbusMessageEnds, ProducerEnds, poolVars
  <2>2. CASE ConsumerStep
    BY <1>3, <2>2, PopInOrder, ForwardInOrder
       DEF ConsumerStep, OuterLoop, WaitConnectionEstablished, PopulateDataPool,
           InnerLoop, WaitForMessagesAvailable, UpdateMessageAvailableFlag,
           poolVars
  <2>3. CASE MainStep \/ NotifyConsumer
    BY <1>3, <2>3
       DEF MainStep, StartProducer, StartConsumer, StopConsumer, JoinConsumer,
           CleanUpDBusConnection, StopProducer, NotifyConsumer, poolVars
  <2> QED
    BY <1>3, <2>1, <2>2, <2>3, PushInOrder DEF DbusNext, dVars, poolVars
<1> QED
  BY <1>1, <1>2, <1>4 DEF OrderInv

-----------------------------------------------------------------------------
(* The log reader.                                                         *)

LogTyped == /\ log \in Seq(LineKinds)
            /\ Len(log) <= MaxLog

(* The date kept for undated lines is that of the last dated one among the *)
(* first n, or none.                                                       *)
DateKept(n) ==
    \/ lastValidDate \in LastDated(n)
    \/ lastValidDate = 0 /\ LastDated(n) = {}

(* Until a line is read in pieces the reader, the position it goes back to *)
(* and the lines dispatched stay together.                                 *)
ReaderInStep ==
    \/ severed
    \/ /\ position \in 0..Len(log)
       /\ gpos = position
       /\ lLine.number = position
       /\ DateKept(position)

LogInv == LogTyped /\ ReaderInStep /\ LogLinesInTurn

LEMMA LogStart == LogInit => LogInv
<1> SUFFICES ASSUME LogInit PROVE LogInv
    OBVIOUS
<1>1. log = <<>> /\ Len(log) = 0 /\ log \in Seq(LineKinds)
    BY DEF LogInit
<1>2. LastDated(0) = {}
    BY DEF LastDated
<1> QED
    BY <1>1, <1>2, LogAssumption
       DEF LogInit, LogInv, LogTyped, ReaderInStep, DateKept, LogLinesInTurn

(* A new line changes nothing about those before it.                       *)
LEMMA LogGrows ==
    ASSUME LogInv, AppendLine
    PROVE  LogInv'
<1>1. PICK line \in LineKinds : log' = Append(log, line)
    BY DEF AppendLine
<1>2. /\ LogTyped'
      /\ Len(log') = Len(log) + 1
      /\ \A i \in 1..Len(log) : log'[i] = log[i]
    BY <1>1, LogAssumption DEF LogInv, LogTyped, AppendLine
<1>3. ASSUME NEW n \in 0..Len(log)
      PROVE  LastDated(n)' = LastDated(n)
    <2>1. \A k \in 1..n : k \in 1..Len(log) /\ log'[k] = log[k]
        BY <1>2 DEF LogInv, LogTyped
    <2>2. \A k \in 1..n : \A m \in (k + 1)..n : m \in 1..n
        OBVIOUS
    <2> QED BY <2>1, <2>2 DEF LastDated
<1>4. CASE severed
    BY <1>2, <1>4 DEF AppendLine, LogInv, ReaderInStep, LogLinesInTurn
<1>5. CASE ~severed
    <2>1. PICK p \in 0..Len(log) : p = position
        BY <1>5 DEF LogInv, ReaderInStep
    <2>2. LastDated(p)' = LastDated(p)
        BY <1>3
    <2> QED
        BY <1>2, <1>5, <2>1, <2>2, LogAssumption
           DEF AppendLine, LogInv, LogTyped, ReaderInStep, DateKept,
               LogLinesInTurn
<1> QED BY <1>4, <1>5

(* The line at the position is dispatched, with its date.                  *)
LEMMA LineDispatched ==
    ASSUME LogInv, GetWholeLine
    PROVE  LogInv'
<1> PICK n : n = position + 1
    OBVIOUS
<1>1. LogTyped'
    BY DEF GetWholeLine, LogInv, LogTyped
<1>2. CASE severed
    BY <1>1, <1>2 DEF GetWholeLine, LogInv, ReaderInStep, LogLinesInTurn
<1>3. CASE ~severed
    <2>1. /\ position \in 0..Len(log)
          /\ n \in 1..Len(log)
          /\ lLine.count = position
          /\ DateKept(position)
        BY <1>3 DEF GetWholeLine, LogInv, LogTyped, ReaderInStep,
                    LogLinesInTurn
    <2>2. /\ position' = n
          /\ gpos' = n
          /\ lLine'.number = n
          /\ lLine'.count = n
          /\ lLine'.date = DateOf(n, log[n])
          /\ lastValidDate' = IF log[n] = "dated" THEN n ELSE lastValidDate
          /\ UNCHANGED <<log, dateFirst, severed>>
        BY <2>1 DEF GetWholeLine, Dispatch, PositionAfter
    <2>3. LastDated(n) = IF log[n] = "dated" THEN {n} ELSE LastDated(position)
        <3>1. CASE log[n] = "dated"
            <4>1. n \in LastDated(n)
                BY <2>1, <3>1 DEF LastDated
            <4>2. ASSUME NEW k \in LastDated(n)
                  PROVE  k = n
                BY <2>1, <3>1 DEF LastDated
            <4> QED BY <3>1, <4>1, <4>2
        <3>2. CASE log[n] # "dated"
            <4>1. ASSUME NEW k \in LastDated(n)
                  PROVE  k \in LastDated(position)
                BY <2>1, <3>2 DEF LastDated
            <4>2. ASSUME NEW k \in LastDated(position)
                  PROVE  k \in LastDated(n)
                BY <2>1, <3>2 DEF LastDated
            <4> QED BY <3>2, <4>1, <4>2
        <3> QED BY <3>1, <3>2
    <2>4. LastDated(n)' = LastDated(n)
        BY <2>2 DEF LastDated
    <2>5. DateKept(n)'
        BY <2>1, <2>2, <2>3, <2>4 DEF DateKept
    <2>6. ReaderInStep'
        BY <2>1, <2>2, <2>5 DEF ReaderInStep
    <2>7. LogLinesInTurn'
        BY <2>1, <2>2, <2>3, <2>4 DEF LogLinesInTurn, DateOf, DateKept
    <2> QED BY <1>1, <2>6, <2>7 DEF LogInv
<1> QED BY <1>2, <1>3

LEMMA LogSteps == LogInv /\ [LogNext]_lVars => LogInv'
<1> SUFFICES ASSUME LogInv, [LogNext]_lVars PROVE LogInv'
    OBVIOUS
<1>1. CASE AppendPart
    BY <1>1 DEF AppendPart, LogInv, LogTyped, ReaderInStep, DateKept,
                LogLinesInTurn, LastDated
<1>3. CASE GetPartialLine
    BY <1>3 DEF GetPartialLine, LogInv, LogTyped, ReaderInStep, DateKept,
                LogLinesInTurn, LastDated
<1>6. CASE GetBareLine
    BY <1>6 DEF GetBareLine, LogInv, LogTyped, ReaderInStep, DateKept,
                LogLinesInTurn, LastDated
<1>4. CASE GetNothing
    BY <1>4 DEF GetNothing, LogInv, LogTyped, ReaderInStep, DateKept,
                LogLinesInTurn, LastDated
<1>5. CASE UNCHANGED lVars
    BY <1>5 DEF lVars, LogInv, LogTyped, ReaderInStep, DateKept,
                LogLinesInTurn, LastDated
<1>2. CASE WakeUp
    <2>1. UNCHANGED <<log, gpos, lLine, lastValidDate, dateFirst, severed>>
        BY <1>2 DEF WakeUp
    <2>2. severed \/ position' = position
        BY <1>2 DEF WakeUp, LogInv, ReaderInStep
    <2> QED BY <2>1, <2>2
            DEF LogInv, LogTyped, ReaderInStep, DateKept, LogLinesInTurn,
                LastDated
<1> QED BY <1>1, <1>2, <1>3, <1>4, <1>5, <1>6, LogGrows, LineDispatched
        DEF LogNext, LogRead

-----------------------------------------------------------------------------
(* The receiver of the connection to the host.                             *)

Bytes == Nat \X Nat

HostWire(n) == WireLength(HostFrames[n])

(* The frame whose bytes the receiver takes now, and how many it has.      *)
Turn == Len(fromHost) + 1

PartStart == IF reading = "length" THEN 0
             ELSE IF reading = "header" THEN 1
             ELSE 1 + HostFrames[Turn].header

Taken == PartStart + Len(buffer)

(* Where frame n and those after it stand in the bytes still to come, if   *)
(* so many bytes of n have been taken: frame k begins after byte at[k].    *)
FramesFrom(at, n, taken, bytes) ==
    /\ at \in [n..(fed + 1) -> Int]
    /\ at[n] = 0 - taken
    /\ \A k \in n..fed :
          /\ at[k + 1] = at[k] + HostWire(k)
          /\ \A i \in 1..HostWire(k) :
                at[k] + i >= 1 =>
                   /\ at[k] + i \in 1..Len(bytes)
                   /\ bytes[at[k] + i] = <<k, i>>
    /\ Len(bytes) = at[fed + 1]

FramesAt(at) == FramesFrom(at, Turn, Taken, inbound)

(* The part the receiver waits for is the next one of the frame, and what  *)
(* it has of it is its beginning.                                          *)
PartWanted ==
    /\ reading \in {"length", "header", "payload"}
    /\ wanted = IF reading = "length" THEN 1
                ELSE IF reading = "header" THEN HostFrames[Turn].header
                ELSE HostFrames[Turn].payload
    /\ Len(buffer) < wanted
    /\ buffer = Part(Turn, PartStart + 1, Taken)

HostTyped ==
    /\ fed \in 0..Len(HostFrames)
    /\ inbound \in Seq(Bytes)
    /\ buffer \in Seq(Bytes)
    /\ fromHost \in Seq([header : SUBSET Nat, payload : Seq(Bytes)])
    /\ Turn \in 1..(fed + 1)
    /\ Turn = fed + 1 => reading = "length"

Forwarded(n) ==
    [header |-> IF HostFrames[n].payload = 0 THEN {n} ELSE {},
     payload |-> Payload(n, HostFrames[n])]

HostInv ==
    inDoubt \/ /\ HostTyped
               /\ PartWanted
               /\ \E at : FramesAt(at)
               /\ \A n \in DOMAIN fromHost : fromHost[n] = Forwarded(n)

LEMMA FrameTyped ==
    ASSUME NEW n \in 1..Len(HostFrames)
    PROVE  /\ HostFrames[n].header \in Nat \ {0}
           /\ HostFrames[n].header <= MAX_HEADER_LENGTH
           /\ HostFrames[n].payload \in Nat
           /\ HostFrames[n].parses \in BOOLEAN
           /\ HostWire(n) = 1 + HostFrames[n].header + HostFrames[n].payload
           /\ HostWire(n) \in Nat
<1> DEFINE F == [header : 1..MAX_HEADER_LENGTH, payload : Nat, parses : BOOLEAN]
<1>1. HostFrames \in Seq(F)
    BY HostAssumption
<1> HIDE DEF F
<1>2. HostFrames[n] \in F
    BY <1>1
<1> USE DEF F
<1>3. MAX_HEADER_LENGTH \in Nat
    BY HostAssumption
<1>4. /\ HostFrames[n].header \in 1..MAX_HEADER_LENGTH
      /\ HostFrames[n].payload \in Nat
      /\ HostFrames[n].parses \in BOOLEAN
    BY <1>2
<1> QED BY <1>3, <1>4 DEF HostWire, WireLength

(* A part of a frame, byte by byte.                                        *)
LEMMA PartIsSeq ==
    ASSUME NEW n \in Nat, NEW a \in Nat, NEW b \in Int
    PROVE  Part(n, a, b) \in Seq(Bytes)
<1>1. \A i \in 1..(b - a + 1) : <<n, a + i - 1>> \in Bytes
    BY DEF Bytes
<1>2. CASE b - a + 1 \in Nat
    <2>1. PICK w \in Nat : w = b - a + 1
        BY <1>2
    <2> DEFINE p == [i \in 1..w |-> <<n, a + i - 1>>]
    <2>2. p \in Seq(Bytes)
        BY <1>1, <2>1
    <2> QED BY <2>1, <2>2 DEF Part
<1>3. CASE b - a + 1 \notin Nat
    <2>1. 1..(b - a + 1) = {}
        BY <1>3
    <2>2. Part(n, a, b) = <<>>
        BY <2>1 DEF Part
    <2> QED BY <2>2
<1> QED BY <1>2, <1>3

LEMMA PartLen ==
    ASSUME NEW n, NEW a \in Nat, NEW b \in Int, a <= b + 1
    PROVE  Len(Part(n, a, b)) = b - a + 1
<1>1. PICK w \in Nat : w = b - a + 1
    OBVIOUS
<1>2. Part(n, a, b) = [i \in 1..w |-> <<n, a + i - 1>>]
    BY <1>1 DEF Part
<1>3. Len([i \in 1..w |-> <<n, a + i - 1>>]) = w
    OBVIOUS
<1> QED BY <1>1, <1>2, <1>3

LEMMA HostStarts == HostInit => HostInv
<1> SUFFICES ASSUME HostInit PROVE HostInv
    OBVIOUS
<1>1. /\ fed = 0 /\ inbound = <<>> /\ buffer = <<>> /\ fromHost = <<>>
      /\ reading = "length" /\ wanted = 1
      /\ Turn = 1 /\ Len(inbound) = 0 /\ Len(buffer) = 0
    BY DEF HostInit, Turn
<1>2. HostTyped
    <2>1. Len(HostFrames) \in Nat
        BY HostAssumption
    <2> QED BY <1>1, <2>1 DEF HostTyped
<1>3. PartStart = 0 /\ Taken = 0
    BY <1>1 DEF PartStart, Taken
<1>4. PartWanted
    <2>1. Part(1, 1, 0) = <<>>
        BY DEF Part
    <2> QED BY <1>1, <1>3, <2>1 DEF PartWanted
<1>5. \E at : FramesAt(at)
    <2>1. PICK at : at = [k \in 1..1 |-> 0]
        OBVIOUS
    <2>2. at \in [1..1 -> Int] /\ at[1] = 0
        BY <2>1
    <2>3. 0 - Taken = 0 /\ fed + 1 = 1
        BY <1>1, <1>3
    <2>4. Turn..fed = {} /\ Turn..(fed + 1) = 1..1
        BY <1>1
    <2> QED BY <1>1, <2>2, <2>3, <2>4 DEF FramesAt, FramesFrom
<1> QED BY <1>1, <1>2, <1>4, <1>5 DEF HostInv

(* One more frame behind those on their way.                               *)
LEMMA HostKeepsTurn ==
    ASSUME HostInv, HostSends
    PROVE  HostInv'
<1>1. CASE inDoubt
    BY <1>1 DEF HostSends, HostInv
<1>2. CASE ~inDoubt
    <2>1. /\ HostTyped
          /\ PartWanted
          /\ \A n \in DOMAIN fromHost : fromHost[n] = Forwarded(n)
        BY <1>2 DEF HostInv
    <2>2. PICK at : FramesAt(at)
        BY <1>2 DEF HostInv
    <2>3. PICK f : f = fed + 1
        OBVIOUS
    <2>4. PICK len : len = Len(inbound)
        OBVIOUS
    <2>5. /\ fed' = f
          /\ f \in 1..Len(HostFrames)
          /\ fed = f - 1
          /\ inbound' = inbound \o Part(f, 1, HostWire(f))
          /\ UNCHANGED <<reading, wanted, buffer, fromHost, inDoubt>>
        BY <2>1, <2>3, HostAssumption DEF HostSends, HostTyped, Wire, HostWire
    <2>6. HostWire(f) \in Nat
        BY <2>5, FrameTyped
    <2>7. /\ Part(f, 1, HostWire(f)) \in Seq(Bytes)
          /\ Len(Part(f, 1, HostWire(f))) = HostWire(f)
          /\ \A i \in 1..HostWire(f) : Part(f, 1, HostWire(f))[i] = <<f, i>>
        <3>1. PICK w \in Nat : w = HostWire(f)
            BY <2>6
        <3>2. w = w - 1 + 1 /\ w \in Int /\ 1 \in Nat /\ f \in Nat
            BY <2>5
        <3>3. Part(f, 1, w) \in Seq(Bytes)
            BY <3>2, PartIsSeq
        <3>4. Len(Part(f, 1, w)) = w
            BY <3>2, PartLen
        <3>5. \A i \in 1..w : Part(f, 1, w)[i] = <<f, i>>
            BY <3>2 DEF Part
        <3> QED BY <3>1, <3>3, <3>4, <3>5
    <2>8. /\ inbound' \in Seq(Bytes)
          /\ len \in Nat
          /\ Len(inbound') = len + HostWire(f)
          /\ \A j \in 1..len : inbound'[j] = inbound[j]
          /\ \A i \in 1..HostWire(f) : inbound'[len + i] = <<f, i>>
        BY <2>1, <2>4, <2>5, <2>6, <2>7 DEF HostTyped
    <2>9. UNCHANGED <<Turn, PartStart, Taken>>
        BY <2>5 DEF Turn, PartStart, Taken
    <2>10. HostTyped' /\ PartWanted'
        BY <2>1, <2>5, <2>8, <2>9 DEF HostTyped, PartWanted
    <2>11. PICK t : t = Turn
        OBVIOUS
    <2>12. t \in 1..f
        BY <2>1, <2>3, <2>5, <2>11 DEF HostTyped
    <2>13. PICK at2 : at2 = [k \in t..(f + 1) |->
                                IF k = f + 1 THEN len + HostWire(f) ELSE at[k]]
        OBVIOUS
    <2>14. /\ at \in [t..f -> Int]
           /\ at[t] = 0 - Taken
           /\ at[f] = len
           /\ \A k \in t..(f - 1) :
                 /\ at[k + 1] = at[k] + HostWire(k)
                 /\ \A i \in 1..HostWire(k) :
                       at[k] + i >= 1 => /\ at[k] + i \in 1..len
                                         /\ inbound[at[k] + i] = <<k, i>>
        BY <2>2, <2>4, <2>3, <2>5, <2>11 DEF FramesAt, FramesFrom
    <2>15. /\ at2 \in [t..(f + 1) -> Int]
           /\ at2[t] = at[t]
           /\ at2[f + 1] = len + HostWire(f)
           /\ at2[f] = len
           /\ \A k \in t..(f - 1) : at2[k] = at[k] /\ at2[k + 1] = at[k + 1]
        BY <2>5, <2>6, <2>8, <2>12, <2>13, <2>14
    <2>16. ASSUME NEW k \in t..f
           PROVE  /\ at2[k + 1] = at2[k] + HostWire(k)
                  /\ \A i \in 1..HostWire(k) :
                        at2[k] + i >= 1 =>
                           /\ at2[k] + i \in 1..(len + HostWire(f))
                           /\ inbound'[at2[k] + i] = <<k, i>>
        <3>1. CASE k = f
            BY <2>6, <2>8, <2>15, <3>1
        <3>2. CASE k # f
            <4>1. k \in t..(f - 1)
                BY <2>5, <2>12, <3>2
            <4>2. /\ at2[k + 1] = at2[k] + HostWire(k)
                  /\ at2[k] = at[k]
                BY <2>14, <2>15, <4>1
            <4>3. ASSUME NEW i \in 1..HostWire(k), at[k] + i >= 1
                  PROVE  /\ at[k] + i \in 1..(len + HostWire(f))
                         /\ inbound'[at[k] + i] = <<k, i>>
                <5>1. at[k] + i \in 1..len /\ inbound[at[k] + i] = <<k, i>>
                    BY <2>14, <4>1, <4>3
                <5> QED BY <2>6, <2>8, <5>1
            <4> QED BY <4>2, <4>3
        <3> QED BY <3>1, <3>2
    <2>17. FramesAt(at2)'
        <3>1. Turn' = t /\ Taken' = Taken /\ fed' = f /\ Len(inbound') = len + HostWire(f)
            BY <2>5, <2>8, <2>9, <2>11
        <3>2. \A k \in t..f : HostWire(k)' = HostWire(k)
            BY DEF HostWire, WireLength
        <3> QED BY <2>14, <2>15, <2>16, <3>1, <3>2 DEF FramesAt, FramesFrom
    <2>18. \A n \in DOMAIN fromHost : Forwarded(n)' = Forwarded(n)
        BY DEF Forwarded, Payload, Part, WireLength
    <2> QED BY <2>1, <2>5, <2>10, <2>17, <2>18 DEF HostInv
<1> QED BY <1>1, <1>2

(* A sequence is the function of its elements.                            *)
LEMMA SeqElements ==
    ASSUME NEW S, NEW s \in Seq(S)
    PROVE  s = [i \in 1..Len(s) |-> s[i]]
OBVIOUS

(* A read takes bytes of the frame whose turn it is, behind those that the *)
(* buffer has, and leaves the rest.                                        *)
LEMMA BytesTaken ==
    ASSUME HostInv, ~inDoubt, NEW count \in 1..Len(inbound), count <= Missing,
           NEW bytes, bytes = buffer \o SubSeq(inbound, 1, count),
           NEW left, left = SubSeq(inbound, count + 1, Len(inbound))
    PROVE  /\ Turn \in 1..fed
           /\ left \in Seq(Bytes)
           /\ bytes \in Seq(Bytes)
           /\ Len(bytes) = Len(buffer) + count
           /\ Len(bytes) <= wanted
           /\ bytes = Part(Turn, PartStart + 1, Taken + count)
           /\ \E at : FramesFrom(at, Turn, Taken + count, left)
<1> PICK n : n = Turn
    OBVIOUS
<1>1. /\ HostTyped
      /\ PartWanted
    BY DEF HostInv
<1>2. PICK at : FramesFrom(at, n, Taken, inbound)
    BY DEF HostInv, FramesAt
<1>3. PICK len : len = Len(inbound)
    OBVIOUS
<1>4. /\ fed \in 0..Len(HostFrames)
      /\ Len(HostFrames) \in Nat
      /\ n \in 1..(fed + 1)
      /\ len \in Nat
      /\ count \in 1..len
      /\ Len(buffer) \in Nat
    <2>1. /\ fed \in 0..Len(HostFrames)
          /\ n \in 1..(fed + 1)
          /\ inbound \in Seq(Bytes)
          /\ buffer \in Seq(Bytes)
        BY <1>1 DEF HostTyped
    <2>2. Len(HostFrames) \in Nat
        BY HostAssumption, LenProperties
    <2>3. len \in Nat /\ Len(buffer) \in Nat
        BY <1>3, <2>1, LenProperties
    <2>4. count \in 1..len
        BY <1>3
    <2> QED BY <2>1, <2>2, <2>3, <2>4
<1>5. n \in 1..fed
    <2>1. SUFFICES ASSUME n = fed + 1
                   PROVE  FALSE
        BY <1>4
    <2>2. reading = "length"
        BY <1>1, <2>1 DEF HostTyped
    <2>3. Taken = 0
        BY <1>1, <1>4, <2>2 DEF PartWanted, Taken, PartStart
    <2>4. len = 0
        BY <1>2, <1>3, <2>1, <2>3 DEF FramesFrom
    <2> QED BY <1>4, <2>4
<1>6. /\ HostFrames[n].header \in Nat \ {0}
      /\ HostFrames[n].payload \in Nat
      /\ HostWire(n) = 1 + HostFrames[n].header + HostFrames[n].payload
      /\ HostWire(n) \in Nat
    BY <1>4, <1>5, FrameTyped
<1>7. /\ wanted \in Nat
      /\ PartStart \in Nat
      /\ PartStart + wanted <= HostWire(n)
      /\ Len(buffer) + count <= wanted
      /\ Taken = PartStart + Len(buffer)
      /\ Taken \in Nat
    <2>1. /\ wanted \in Nat
          /\ PartStart \in Nat
          /\ PartStart + wanted <= HostWire(n)
        <3>1. PICK h \in Nat : h = HostFrames[n].header
            BY <1>6
        <3>2. PICK p \in Nat : p = HostFrames[n].payload
            BY <1>6
        <3>3. PICK w \in Nat : w = HostWire(n)
            BY <1>6
        <3>4. w = 1 + h + p
            BY <1>6, <3>1, <3>2, <3>3
        <3>5. \/ wanted = 1 /\ PartStart = 0
              \/ wanted = h /\ PartStart = 1
              \/ wanted = p /\ PartStart = 1 + h
            <4>1. CASE reading = "length"
                BY <1>1, <4>1 DEF PartWanted, PartStart
            <4>2. CASE reading = "header"
                BY <1>1, <3>1, <4>2 DEF PartWanted, PartStart
            <4>3. CASE reading = "payload"
                BY <1>1, <3>1, <3>2, <4>3 DEF PartWanted, PartStart
            <4> QED BY <1>1, <4>1, <4>2, <4>3 DEF PartWanted
        <3>6. wanted \in Nat /\ PartStart \in Nat /\ PartStart + wanted <= w
            BY <3>4, <3>5
        <3> QED BY <3>3, <3>6
    <2>2. Len(buffer) + count <= wanted
        BY <1>4, <2>1 DEF Missing
    <2> QED BY <1>4, <2>1, <2>2 DEF Taken
<1>12. PICK b \in Nat, tk \in Nat, ps \in Nat, w \in Nat, f \in Nat :
         /\ b = Len(buffer) /\ tk = Taken /\ ps = PartStart
         /\ w = HostWire(n) /\ f = fed
         /\ tk = ps + b
         /\ tk + count <= w
    <2>1. HostWire(n) \in Nat
        BY <1>6
    <2>3. fed \in Nat
        BY <1>4
    <2>2. Taken + count <= HostWire(n)
        BY <1>4, <1>7, <2>1
    <2> QED BY <1>4, <1>7, <2>1, <2>2, <2>3
<1>8. /\ left \in Seq(Bytes)
      /\ Len(left) = len - count
      /\ \A j \in 1..(len - count) : left[j] = inbound[j + count]
    <2>1. inbound \in Seq(Bytes)
        BY <1>1 DEF HostTyped
    <2> QED BY <1>3, <1>4, <2>1
<1>9. /\ bytes \in Seq(Bytes)
      /\ Len(bytes) = Len(buffer) + count
      /\ \A j \in 1..Len(buffer) : bytes[j] = buffer[j]
      /\ \A j \in 1..count : bytes[Len(buffer) + j] = inbound[j]
    <2> DEFINE got == SubSeq(inbound, 1, count)
    <2>1. inbound \in Seq(Bytes) /\ buffer \in Seq(Bytes)
        BY <1>1 DEF HostTyped
    <2>2. /\ got \in Seq(Bytes)
          /\ Len(got) = count
          /\ \A j \in 1..count : got[j] = inbound[j]
        BY <1>3, <1>4, <2>1
    <2>3. bytes = buffer \o got
        OBVIOUS
    <2> HIDE DEF got
    <2> QED BY <1>4, <2>1, <2>2, <2>3
<1>10. bytes = Part(n, PartStart + 1, Taken + count)
    <2>12. PICK c \in Nat : c = count
        BY <1>4
    <2>13. PICK from \in Nat : from = ps + 1
        OBVIOUS
    <2>14. PICK to \in Int : to = tk + c
        OBVIOUS
    <2>15. PICK m \in Nat : m = b + c
        OBVIOUS
    <2>1. from = ps + 1 /\ to = tk + count /\ m = b + count /\ c = count
        BY <2>12, <2>13, <2>14, <2>15
    <2>2. m = to - from + 1
        BY <1>12, <2>13, <2>14, <2>15
    <2>16. b = tk - from + 1
        BY <1>12, <2>13
    <2>17. tk \in Int
        OBVIOUS
    <2>18. n \in Nat
        BY <1>4
    <2>3. Part(n, from, to) = [i \in 1..m |-> <<n, from + i - 1>>]
        BY <2>2 DEF Part
    <2>4. \A i \in 1..b : Part(n, from, tk)[i] = <<n, from + i - 1>>
        BY <2>16 DEF Part
    <2>5. buffer = Part(n, from, tk)
        BY <1>1, <1>12, <2>1 DEF PartWanted
    <2>6. \A k \in 1..b : bytes[k] = buffer[k]
        BY <1>9, <1>12
    <2>7. \A k \in 1..c : bytes[b + k] = inbound[k]
        BY <1>9, <1>12, <2>1
    <2>8. ASSUME NEW k \in 1..c
          PROVE  inbound[k] = <<n, tk + k>>
        <3>1. tk + k \in 1..w
            BY <1>12, <2>1
        <3>2. at[n] = 0 - tk /\ n \in n..fed
            BY <1>2, <1>12, <1>4, <1>5 DEF FramesFrom
        <3>3. at[n] + (tk + k) = k /\ k >= 1
            BY <2>1, <3>2
        <3>4. inbound[at[n] + (tk + k)] = <<n, tk + k>>
            BY <1>2, <1>12, <3>1, <3>2, <3>3 DEF FramesFrom
        <3> QED BY <3>3, <3>4
    <2>9. ASSUME NEW i \in 1..m
          PROVE  bytes[i] = <<n, from + i - 1>>
        <3>1. CASE i \in 1..b
            BY <2>4, <2>5, <2>6, <3>1
        <3>2. CASE i \notin 1..b
            <4>1. PICK k \in 1..c : i = b + k
                <5>1. i - b \in 1..c /\ i = b + (i - b)
                    BY <2>1, <3>2
                <5> QED BY <5>1
            <4>2. tk + k = from + i - 1
                BY <1>12, <2>1, <4>1
            <4> QED BY <2>7, <2>8, <4>1, <4>2
        <3> QED BY <3>1, <3>2
    <2>10. Len(bytes) = m
        BY <1>9, <1>12, <2>1
    <2>11. bytes = Part(n, from, to)
        <3>1. bytes = [i \in 1..m |-> bytes[i]]
            <4>1. bytes \in Seq(Bytes)
                BY <1>9
            <4>2. bytes = [i \in 1..Len(bytes) |-> bytes[i]]
                BY <4>1, SeqElements
            <4> QED BY <2>10, <4>2
        <3> QED BY <2>3, <2>9, <3>1
    <2> QED BY <1>12, <2>1, <2>11
<1>11. \E a : FramesFrom(a, n, Taken + count, left)
    <2>1. PICK a : a = [k \in n..(f + 1) |-> at[k] - count]
        OBVIOUS
    <2>2. /\ at \in [n..(f + 1) -> Int]
          /\ at[n] = 0 - tk
          /\ at[f + 1] = len
          /\ \A k \in n..f :
                /\ at[k + 1] = at[k] + HostWire(k)
                /\ \A i \in 1..HostWire(k) :
                      at[k] + i >= 1 => /\ at[k] + i \in 1..len
                                        /\ inbound[at[k] + i] = <<k, i>>
        BY <1>2, <1>3, <1>12 DEF FramesFrom
    <2>3. /\ n \in Nat /\ n <= f /\ count \in Nat
          /\ \A k \in n..f : k \in n..(f + 1) /\ k + 1 \in n..(f + 1)
          /\ n \in n..(f + 1) /\ f + 1 \in n..(f + 1)
        BY <1>4, <1>5, <1>12
    <2>4. /\ a \in [n..(f + 1) -> Int]
          /\ a[n] = 0 - (tk + count)
          /\ a[f + 1] = len - count
        BY <2>1, <2>2, <2>3
    <2>5. \A k \in n..(f + 1) : at[k] \in Int /\ a[k] = at[k] - count
        BY <2>1, <2>2
    <2>6. ASSUME NEW k \in n..f
          PROVE  /\ a[k + 1] = a[k] + HostWire(k)
                 /\ \A i \in 1..HostWire(k) :
                       a[k] + i >= 1 => /\ a[k] + i \in 1..(len - count)
                                        /\ left[a[k] + i] = <<k, i>>
        <3>1. PICK u \in Nat : u = HostWire(k)
            <4>1. k \in 1..Len(HostFrames)
                BY <1>4, <1>12, <2>3
            <4> QED BY <4>1, FrameTyped
        <3>2. /\ at[k + 1] = at[k] + u
              /\ a[k] = at[k] - count /\ a[k + 1] = at[k + 1] - count
              /\ at[k] \in Int
            BY <2>2, <2>3, <2>5, <3>1
        <3>3. a[k + 1] = a[k] + u
            BY <2>3, <3>2
        <3>4. ASSUME NEW i \in 1..u, a[k] + i >= 1
              PROVE  /\ a[k] + i \in 1..(len - count)
                     /\ left[a[k] + i] = <<k, i>>
            <4>1. PICK j \in Nat : j = a[k] + i /\ j >= 1 /\ at[k] + i = j + count
                BY <2>3, <3>2, <3>4
            <4>2. j + count >= 1
                BY <2>3, <4>1
            <4>3. at[k] + i \in 1..len /\ inbound[at[k] + i] = <<k, i>>
                BY <2>2, <3>1, <4>1, <4>2
            <4>4. j \in 1..(len - count)
                <5>1. j + count \in 1..len
                    BY <4>1, <4>3
                <5> QED BY <1>4, <2>3, <4>1, <5>1
            <4>5. left[j] = inbound[j + count]
                BY <1>8, <4>4
            <4> QED BY <4>1, <4>3, <4>4, <4>5
        <3> QED BY <3>1, <3>3, <3>4
    <2> QED BY <1>8, <1>12, <2>4, <2>6 DEF FramesFrom
<1> QED BY <1>5, <1>7, <1>8, <1>9, <1>10, <1>11


LEMMA EmptyPart ==
    ASSUME NEW n, NEW from \in Int, NEW to \in Int, from = to + 1
    PROVE  Part(n, from, to) = <<>>
<1>1. 1..(to - from + 1) = {}
    OBVIOUS
<1> QED BY <1>1 DEF Part

LEMMA ForwardedTyped ==
    ASSUME NEW n \in 1..Len(HostFrames)
    PROVE  Forwarded(n) \in [header : SUBSET Nat, payload : Seq(Bytes)]
<1>1. Len(HostFrames) \in Nat
    BY HostAssumption
<1>2. PICK h \in Nat : h = HostFrames[n].header
    BY FrameTyped
<1>3. PICK p \in Nat : p = HostFrames[n].payload
    BY FrameTyped
<1>4. PICK from \in Nat, to \in Int : from = 2 + h /\ to = 1 + h + p
    OBVIOUS
<1>5. p = to - from + 1 /\ n \in Nat
    BY <1>1, <1>4
<1>6. Part(n, from, to) \in Seq(Bytes)
    BY <1>5, PartIsSeq
<1>7. Payload(n, HostFrames[n]) = Part(n, from, to)
    BY <1>2, <1>3, <1>4 DEF Payload, WireLength
<1>8. (IF HostFrames[n].payload = 0 THEN {n} ELSE {}) \in SUBSET Nat
    BY <1>5
<1> QED BY <1>6, <1>7, <1>8 DEF Forwarded

(* The next state has more of the same frame, and the same frames.         *)
LEMMA HostContinues ==
    ASSUME HostInv, ~inDoubt, Turn \in 1..fed,
           inDoubt' = inDoubt, fed' = fed, fromHost' = fromHost,
           inbound' \in Seq(Bytes), buffer' \in Seq(Bytes), PartWanted',
           NEW at, FramesFrom(at, Turn, Taken', inbound')
    PROVE  HostInv'
<1>1. /\ HostTyped
      /\ \A n \in DOMAIN fromHost : fromHost[n] = Forwarded(n)
    BY DEF HostInv
<1>2. Turn' = Turn
    BY DEF Turn
<1>3. FramesAt(at)'
    BY <1>2 DEF FramesAt, FramesFrom, HostWire, WireLength
<1>4. HostTyped'
    <2>1. fed \in Nat
        BY <1>1, HostAssumption DEF HostTyped
    <2> QED BY <1>1, <1>2, <2>1 DEF HostTyped
<1>5. \A n : Forwarded(n)' = Forwarded(n)
    BY DEF Forwarded, Payload, Part, WireLength
<1> QED BY <1>1, <1>3, <1>4, <1>5 DEF HostInv

(* The frame is complete and forwarded: the turn of the next one comes.    *)
LEMMA FrameDone ==
    ASSUME HostInv, ~inDoubt, Turn \in 1..fed,
           inDoubt' = inDoubt, fed' = fed,
           fromHost' = Append(fromHost, Forwarded(Turn)),
           inbound' \in Seq(Bytes),
           reading' = "length", wanted' = 1, buffer' = <<>>,
           NEW at, FramesFrom(at, Turn, HostWire(Turn), inbound')
    PROVE  HostInv'
<1> PICK n : n = Turn
    OBVIOUS
<1> PICK m : m = n + 1
    OBVIOUS
<1>1. /\ HostTyped
      /\ \A k \in DOMAIN fromHost : fromHost[k] = Forwarded(k)
    BY DEF HostInv
<1>2. /\ n \in 1..Len(HostFrames)
      /\ n \in 1..fed
      /\ fed \in Nat
      /\ m \in Nat /\ m <= fed + 1 /\ m = n + 1
    BY <1>1, HostAssumption DEF HostTyped
<1> DEFINE R == [header : SUBSET Nat, payload : Seq(Bytes)]
<1>3. Forwarded(n) \in R
    BY <1>2, ForwardedTyped
<1>4. /\ fromHost' \in Seq(R)
      /\ Len(fromHost') = n
      /\ fromHost'[n] = Forwarded(n)
      /\ \A k \in 1..n : k # n => k \in DOMAIN fromHost /\ fromHost'[k] = fromHost[k]
      /\ DOMAIN fromHost' = 1..n
    <2>1. fromHost \in Seq(R) /\ Len(fromHost) \in Nat
        BY <1>1 DEF HostTyped
    <2>2. n = Len(fromHost) + 1
        BY DEF Turn
    <2> HIDE DEF R
    <2> QED BY <1>3, <2>1, <2>2
<1>5. /\ Turn' = m
      /\ Taken' = 0
    BY <1>2, <1>4 DEF Turn, Taken, PartStart
<1>6. HostTyped'
    <2>1. <<>> \in Seq(Bytes)
        OBVIOUS
    <2> QED BY <1>1, <1>2, <1>4, <1>5, <2>1 DEF HostTyped
<1>7. PartWanted'
    <2>1. Part(m, 1, 0) = <<>>
        BY DEF Part
    <2>2. PartStart' = 0 /\ Len(buffer') = 0
        BY DEF PartStart
    <2> QED BY <1>5, <2>1, <2>2 DEF PartWanted, Part
<1>8. \E a : FramesAt(a)'
    <2>1. PICK a : a = [k \in m..(fed + 1) |-> at[k]]
        OBVIOUS
    <2>2. PICK f \in Nat : f = fed
        BY <1>2
    <2>3. HostWire(n) \in Nat
        BY <1>2, FrameTyped
    <2>4. /\ at \in [n..(f + 1) -> Int]
          /\ at[n] = 0 - HostWire(n)
          /\ \A k \in n..f :
                /\ at[k + 1] = at[k] + HostWire(k)
                /\ \A i \in 1..HostWire(k) :
                      at[k] + i >= 1 => /\ at[k] + i \in 1..Len(inbound')
                                        /\ inbound'[at[k] + i] = <<k, i>>
          /\ Len(inbound') = at[f + 1]
        BY <2>2 DEF FramesFrom
    <2>5. at[m] = 0
        <3>1. n \in n..f
            BY <1>2, <2>2
        <3>2. at[m] = at[n] + HostWire(n)
            BY <1>2, <2>4, <3>1
        <3> QED BY <2>3, <2>4, <3>2
    <2>6. \A k \in m..(f + 1) : a[k] = at[k] /\ at[k] \in Int
        BY <1>2, <2>1, <2>2, <2>4
    <2>7. /\ a \in [m..(f + 1) -> Int]
          /\ a[m] = 0
          /\ a[f + 1] = at[f + 1]
        BY <1>2, <2>1, <2>2, <2>5, <2>6
    <2>8. \A k \in m..f : k \in n..f /\ k \in m..(f + 1) /\ k + 1 \in m..(f + 1)
        BY <1>2, <2>2
    <2>9. \A k \in m..f : a[k] = at[k] /\ a[k + 1] = at[k + 1]
        BY <2>6, <2>8
    <2>10. \A k \in m..f :
              /\ a[k + 1] = a[k] + HostWire(k)
              /\ \A i \in 1..HostWire(k) :
                    a[k] + i >= 1 => /\ a[k] + i \in 1..Len(inbound')
                                     /\ inbound'[a[k] + i] = <<k, i>>
        BY <2>4, <2>8, <2>9
    <2>11. 0 - 0 = 0
        OBVIOUS
    <2>12. fed' = f /\ \A k : HostWire(k)' = HostWire(k)
        BY <2>2 DEF HostWire, WireLength
    <2>13. Len(inbound') = a[f + 1]
        BY <2>4, <2>7
    <2>14. FramesAt(a)'
        BY <1>5, <2>7, <2>10, <2>11, <2>12, <2>13 DEF FramesAt, FramesFrom
    <2> QED BY <2>14
<1>9. \A k : Forwarded(k)' = Forwarded(k)
    BY DEF Forwarded, Payload, Part, WireLength
<1>10. \A k \in DOMAIN fromHost' : fromHost'[k] = Forwarded(k)
    BY <1>1, <1>4
<1> QED BY <1>6, <1>7, <1>8, <1>9, <1>10 DEF HostInv

LEMMA HostUnchanged ==
    ASSUME HostInv, inDoubt => inDoubt',
           UNCHANGED <<inbound, fed, reading, wanted, buffer, fromHost>>
    PROVE  HostInv'
<1>1. UNCHANGED <<inbound, fed, reading, wanted, buffer, fromHost>>
    OBVIOUS
<1>2. UNCHANGED <<Turn, PartStart, Taken>>
    BY <1>1 DEF Turn, PartStart, Taken
<1>3. HostTyped => HostTyped'
    BY <1>1, <1>2 DEF HostTyped
<1>4. PartWanted => PartWanted'
    BY <1>1, <1>2 DEF PartWanted, Part
<1>5. \A at : FramesAt(at) => FramesAt(at)'
    BY <1>1, <1>2 DEF FramesAt, FramesFrom, HostWire, WireLength
<1>6. \A n : Forwarded(n)' = Forwarded(n)
    BY DEF Forwarded, Payload, Part, WireLength
<1> QED BY <1>1, <1>3, <1>4, <1>5, <1>6 DEF HostInv

(* A whole header belongs to one frame.                                    *)
LEMMA HeaderKnown ==
    ASSUME NEW n \in 1..Len(HostFrames), NEW bytes,
           bytes = Header(n, HostFrames[n])
    PROVE  HeaderOf(bytes) = {n}
<1>1. Len(HostFrames) \in Nat /\ DOMAIN HostFrames = 1..Len(HostFrames)
    BY HostAssumption
<1>2. ASSUME NEW k \in 1..Len(HostFrames)
      PROVE  Header(k, HostFrames[k])[1] = <<k, 2>>
    <2>1. PICK h \in Nat : h = HostFrames[k].header /\ h >= 1
        BY FrameTyped
    <2>2. 1 \in 1..(1 + h - 2 + 1)
        BY <2>1
    <2>3. Header(k, HostFrames[k]) = [i \in 1..(1 + h - 2 + 1) |-> <<k, 2 + i - 1>>]
        BY <2>1 DEF Header, Part
    <2> QED BY <2>2, <2>3
<1>3. ASSUME NEW k \in 1..Len(HostFrames), bytes = Header(k, HostFrames[k])
      PROVE  k = n
    <2>1. <<k, 2>> = <<n, 2>>
        BY <1>2, <1>3
    <2> QED BY <2>1
<1> QED BY <1>1, <1>3 DEF HeaderOf

LEMMA HostReads ==
    ASSUME HostInv, ReadNBytesFromSocket
    PROVE  HostInv'
<1>1. CASE inDoubt
    BY <1>1 DEF ReadNBytesFromSocket, PartReceived, HostInv
<1>2. CASE ~inDoubt
    <2>1. PICK count \in 1..Len(inbound) :
             /\ count <= Missing
             /\ inbound' = SubSeq(inbound, count + 1, Len(inbound))
             /\ IF Len(buffer \o SubSeq(inbound, 1, count)) >= wanted
                  THEN PartReceived(buffer \o SubSeq(inbound, 1, count))
                  ELSE /\ buffer' = buffer \o SubSeq(inbound, 1, count)
                       /\ UNCHANGED <<reading, wanted, fromHost, inDoubt>>
             /\ fed' = fed
        BY DEF ReadNBytesFromSocket
    <2>2. PICK bytes : bytes = buffer \o SubSeq(inbound, 1, count)
        OBVIOUS
    <2>3. PICK n : n = Turn
        OBVIOUS
    <2>4. /\ n \in 1..fed
          /\ inbound' \in Seq(Bytes)
          /\ bytes \in Seq(Bytes)
          /\ Len(bytes) = Len(buffer) + count
          /\ Len(bytes) <= wanted
          /\ bytes = Part(n, PartStart + 1, Taken + count)
        BY <1>2, <2>1, <2>2, <2>3, BytesTaken
    <2>5. PICK at : FramesFrom(at, n, Taken + count, inbound')
        BY <1>2, <2>1, <2>2, <2>3, BytesTaken
    <2>6. HostTyped /\ PartWanted
        BY <1>2 DEF HostInv
    <2>7. /\ n \in 1..Len(HostFrames)
          /\ n \in Nat
          /\ count \in Nat
          /\ Len(buffer) \in Nat
        <3>1. fed \in 0..Len(HostFrames) /\ buffer \in Seq(Bytes)
            BY <2>6 DEF HostTyped
        <3>2. Len(HostFrames) \in Nat
            BY HostAssumption, LenProperties
        <3>3. n \in 1..Len(HostFrames) /\ n \in Nat
            BY <2>4, <3>1, <3>2
        <3>4. Len(inbound) \in Nat
            BY <2>6, LenProperties DEF HostTyped
        <3>5. count \in Nat
            BY <2>1, <3>4
        <3>6. Len(buffer) \in Nat
            BY <3>1, LenProperties
        <3> QED BY <3>3, <3>5, <3>6
    <2>8. PICK h \in Nat : h = HostFrames[n].header /\ h >= 1
        BY <2>7, FrameTyped
    <2>9. PICK p \in Nat : p = HostFrames[n].payload
        BY <2>7, FrameTyped
    <2>10. HostWire(n) = 1 + h + p
        BY <2>7, <2>8, <2>9, FrameTyped
    <2>11. CASE Len(bytes) < wanted
        <3>1. wanted \in Nat
            BY <2>3, <2>6, <2>8, <2>9 DEF PartWanted
        <3>2. ~(Len(bytes) >= wanted)
            BY <2>4, <2>7, <2>11, <3>1
        <3>3. /\ buffer' = bytes
              /\ UNCHANGED <<reading, wanted, fromHost, inDoubt>>
            BY <2>1, <2>2, <3>2
        <3>4. /\ Turn' = n
              /\ PartStart' = PartStart
              /\ PartStart \in Int
            BY <2>3, <2>8, <3>3 DEF Turn, PartStart
        <3>5. Taken' = Taken + count
            BY <2>4, <2>7, <3>3, <3>4 DEF Taken
        <3>6. \A from, to : Part(n, from, to)' = Part(n, from, to)
            BY DEF Part
        <3>7. PartWanted'
            BY <2>3, <2>4, <2>6, <2>11, <3>3, <3>4, <3>5, <3>6 DEF PartWanted
        <3> QED BY <1>2, <2>1, <2>3, <2>4, <2>5, <3>3, <3>5, <3>7, HostContinues
    <2>12. CASE ~(Len(bytes) < wanted)
        <3>1. wanted \in Nat
            BY <2>3, <2>6, <2>8, <2>9 DEF PartWanted
        <3>2. Len(bytes) = wanted /\ Len(bytes) >= wanted
            BY <2>4, <2>7, <2>12, <3>1
        <3>3. PartReceived(bytes)
            BY <2>1, <2>2, <3>2
        <3>4. Taken + count = PartStart + wanted
            <4>1. PartStart \in Int
                BY <2>3, <2>8 DEF PartStart
            <4> QED BY <2>4, <2>7, <3>1, <3>2, <4>1 DEF Taken
        <3>5. Turn' = n \/ fromHost' # fromHost
            BY <2>3 DEF Turn
        <3>6. CASE reading = "length"
            <4>1. wanted = 1 /\ PartStart = 0 /\ Taken + count = 1
                BY <2>6, <3>4, <3>6 DEF PartWanted, PartStart
            <4>2. bytes[1] = <<n, 1>>
                BY <2>4, <4>1 DEF Part
            <4>3. LengthIn(bytes[1]) = {h}
                BY <2>8, <4>2 DEF LengthIn
            <4>4. WaitFor("header", h) /\ UNCHANGED <<fromHost, inDoubt>>
                BY <2>8, <3>3, <3>6, <4>3 DEF PartReceived
            <4>5. /\ reading' = "header" /\ wanted' = h /\ buffer' = <<>>
                  /\ Turn' = n /\ PartStart' = 1 /\ Taken' = 1
                BY <2>3, <4>4 DEF WaitFor, Turn, PartStart, Taken
            <4>6. PartWanted'
                <5>1. Part(n, 2, 1) = <<>>
                    BY DEF Part
                <5>2. Len(buffer') = 0 /\ HostFrames'[n].header = h
                    BY <2>8, <4>5
                <5> QED BY <2>8, <4>5, <5>1, <5>2 DEF PartWanted, Part
            <4> QED BY <1>2, <2>1, <2>3, <2>4, <2>5, <4>1, <4>4, <4>5, <4>6,
                       HostContinues
        <3>7. CASE reading = "header"
            <4>1. wanted = h /\ PartStart = 1 /\ Taken + count = 1 + h
                BY <2>3, <2>6, <2>8, <3>4, <3>7 DEF PartWanted, PartStart
            <4>2. bytes = Header(n, HostFrames[n])
                BY <2>4, <2>8, <4>1 DEF Header
            <4>3. HeaderOf(bytes) = {n}
                BY <2>7, <4>2, HeaderKnown
            <4>4. CASE inDoubt'
                BY <4>4 DEF HostInv
            <4>5. CASE ~inDoubt'
                <5>1. PICK length \in Parses(bytes) :
                         IF length > 0
                           THEN /\ WaitFor("payload", length)
                                /\ UNCHANGED fromHost
                           ELSE /\ WaitFor("length", 1)
                                /\ ForwardFrame(HeaderOf(bytes), <<>>)
                    BY <3>3, <3>7, <4>5 DEF PartReceived
                <5>2. length = p
                    BY <2>9, <4>3, <5>1 DEF Parses
                <5>3. inDoubt' = inDoubt
                    BY <3>3, <3>7, <4>5 DEF PartReceived
                <5>4. CASE p > 0
                    <6>1. WaitFor("payload", p) /\ UNCHANGED fromHost
                        BY <5>1, <5>2, <5>4
                    <6>2. /\ reading' = "payload" /\ wanted' = p /\ buffer' = <<>>
                          /\ Turn' = n /\ PartStart' = 1 + h /\ Taken' = 1 + h
                        BY <2>3, <2>8, <6>1 DEF WaitFor, Turn, PartStart, Taken
                    <6>3. PartWanted'
                        <7>1. Part(n, 1 + h + 1, 1 + h) = <<>>
                            BY <2>8 DEF Part
                        <7>2. Len(buffer') = 0 /\ HostFrames'[n].payload = p
                            BY <2>9, <6>2
                        <7> QED BY <2>9, <5>4, <6>2, <7>1, <7>2 DEF PartWanted, Part
                    <6> QED BY <1>2, <2>1, <2>3, <2>4, <2>5, <4>1, <5>3, <6>1, <6>2,
                               <6>3, HostContinues
                <5>5. CASE ~(p > 0)
                    <6>1. /\ WaitFor("length", 1)
                          /\ fromHost' = Append(fromHost,
                                             [header |-> {n}, payload |-> <<>>])
                        BY <4>3, <5>1, <5>2, <5>5 DEF ForwardFrame
                    <6>2. p = 0
                        BY <5>5
                    <6>3. Payload(n, HostFrames[n]) = <<>>
                        <7>1. Part(n, 2 + h, 1 + h + 0) = <<>>
                            BY <2>8 DEF Part
                        <7> QED BY <2>8, <2>9, <6>2, <7>1 DEF Payload, WireLength
                    <6>4. Forwarded(n) = [header |-> {n}, payload |-> <<>>]
                        BY <2>9, <6>2, <6>3 DEF Forwarded
                    <6>5. HostWire(n) = Taken + count
                        BY <2>8, <2>10, <4>1, <6>2
                    <6>6. FramesFrom(at, n, HostWire(n), inbound')
                        BY <2>5, <6>5
                    <6>7. /\ reading' = "length" /\ wanted' = 1 /\ buffer' = <<>>
                          /\ fromHost' = Append(fromHost, Forwarded(n))
                        BY <6>1, <6>4 DEF WaitFor
                    <6> QED BY <1>2, <2>1, <2>3, <2>4, <5>3, <6>6, <6>7, FrameDone
                <5> QED BY <5>4, <5>5
            <4> QED BY <4>4, <4>5
        <3>8. CASE reading = "payload"
            <4>1. /\ wanted = p /\ PartStart = 1 + h /\ Taken + count = 1 + h + p
                BY <2>3, <2>6, <2>8, <2>9, <3>4, <3>8 DEF PartWanted, PartStart
            <4>2. p # 0
                <5>1. Len(buffer) < wanted
                    BY <2>6 DEF PartWanted
                <5> QED BY <2>7, <4>1, <5>1
            <4>3. bytes = Payload(n, HostFrames[n])
                <5>1. bytes = Part(n, 1 + h + 1, 1 + h + p) /\ 1 + h + 1 = 2 + h
                    BY <2>4, <2>8, <4>1
                <5>2. Payload(n, HostFrames[n]) = Part(n, 2 + h, 1 + h + p)
                    BY <2>8, <2>9 DEF Payload, WireLength
                <5> QED BY <5>1, <5>2
            <4>4. /\ WaitFor("length", 1)
                  /\ fromHost' = Append(fromHost, [header |-> {}, payload |-> bytes])
                  /\ inDoubt' = inDoubt
                BY <3>3, <3>8 DEF PartReceived, ForwardFrame
            <4>5. Forwarded(n) = [header |-> {}, payload |-> bytes]
                BY <2>9, <4>2, <4>3 DEF Forwarded
            <4>6. FramesFrom(at, n, HostWire(n), inbound')
                BY <2>5, <2>10, <4>1
            <4>7. /\ reading' = "length" /\ wanted' = 1 /\ buffer' = <<>>
                  /\ fromHost' = Append(fromHost, Forwarded(n))
                BY <4>4, <4>5 DEF WaitFor
            <4> QED BY <1>2, <2>1, <2>3, <2>4, <4>4, <4>6, <4>7, FrameDone
        <3> QED BY <2>6, <3>6, <3>7, <3>8 DEF PartWanted
    <2> QED BY <2>11, <2>12
<1> QED BY <1>1, <1>2

(* A timeout while nothing of a frame was read changes nothing.            *)
LEMMA HostTimesOut ==
    ASSUME HostInv, ReceiveTimeout
    PROVE  HostInv'
<1>1. CASE inDoubt'
    BY <1>1 DEF HostInv
<1>2. CASE ~inDoubt'
    <2>1. ~inDoubt /\ reading = "length"
        BY <1>2 DEF ReceiveTimeout
    <2>2. wanted = 1 /\ buffer = <<>>
        <3>1. PartWanted /\ HostTyped
            BY <2>1 DEF HostInv
        <3>2. wanted = 1 /\ Len(buffer) < 1 /\ buffer \in Seq(Bytes)
            BY <2>1, <3>1 DEF PartWanted, HostTyped
        <3> QED BY <3>2
    <2>3. /\ UNCHANGED <<inbound, fed, fromHost>>
          /\ reading' = "length" /\ wanted' = 1 /\ buffer' = <<>>
        BY DEF ReceiveTimeout, WaitFor
    <2>4. UNCHANGED <<inbound, fed, reading, wanted, buffer, fromHost>>
        BY <2>1, <2>2, <2>3
    <2> QED BY <2>1, <2>4, HostUnchanged
<1> QED BY <1>1, <1>2

LEMMA HostSteps ==
    ASSUME HostInv, [ReceiverNext]_inVars
    PROVE  HostInv'
BY HostKeepsTurn, HostReads, HostTimesOut, HostUnchanged
    DEF ReceiverNext, inVars

LEMMA HostFramesTold == HostInv => HostFramesInTurn
<1>1. ASSUME HostInv, ~inDoubt
      PROVE  Len(fromHost) <= fed
    <2>1. HostTyped
        BY <1>1 DEF HostInv
    <2> QED BY <2>1, HostAssumption DEF HostTyped, Turn
<1>2. ASSUME HostInv, ~inDoubt
      PROVE  \A n \in DOMAIN fromHost : fromHost[n] = Forwarded(n)
    BY <1>2 DEF HostInv
<1> QED BY <1>1, <1>2 DEF HostFramesInTurn, Forwarded

-----------------------------------------------------------------------------
(* The walk of the resource monitor through /proc.                         *)

Ids == Nat \X Nat

Figures == [of : Ids, scaled : Nat]

Fields == [pid : Nat, name : Ids, spelled : Spellings,
           time : Figures, rss : Figures]

Buffers == [file : {"none", "cpu", "stat", "statm"}, id : Nat, of : Ids]

MonitorTyped ==
    /\ process \in [Pids -> 0..MaxStarts]
    /\ threads \in [Pids -> SUBSET Tids]
    /\ spelling \in [1..MaxStarts -> Spellings]
    /\ started \in 0..MaxStarts
    /\ scan \in {"tick", "readdir", "stat", "statm", "statUnread", "send"}
    /\ level \in Levels
    /\ entry \in [Levels -> Nat]
    /\ info \in [Levels -> Fields]
    /\ gFileDataBuffer \in Buffers
    /\ gFileDataBuffer.file = "stat" => gFileDataBuffer.of[1] \in 1..MaxStarts

(* What has been there since the walk began is there, and so is the        *)
(* process of each such thread.                                            *)
SinceExists ==
    /\ since \subseteq Existing
    /\ \A task \in since : <<task[1], 0>> \in since

(* Which entries of which directory the walk is at.                        *)
WalkAt ==
    /\ scan = "tick" => /\ since = {} /\ report = {}
                        /\ level = "process" /\ entry["process"] = 0
    /\ level = "process" => entry["thread"] = 0
    /\ level = "thread" => /\ info["process"].pid = entry["process"]
                           /\ entry["process"] \in Pids
                           /\ scan # "send"
    /\ scan \in {"stat", "statm", "statUnread"} => entry[level] \in Entries
    /\ scan = "send" => \A p \in Pids : p > entry["process"] => <<p, 0>> \notin since

(* The task whose files are read.                                          *)
Here == <<entry["process"], IF level = "process" THEN 0 ELSE entry["thread"]>>

(* The file stat of the current entry was read, or it is not there any     *)
(* more.                                                                   *)
StatTold ==
    LET f == info[level] IN
    /\ scan = "statUnread" => Here \notin since
    /\ scan = "statm" =>
          /\ f.pid = entry[level]
          /\ f.spelled = "plain" =>
                /\ f.time = [of |-> f.name, scaled |-> 1]
                /\ f.name[2] = Here[2]
                /\ Here \in since => f.name[1] = process[Here[1]]

EntryTrue(e) ==
    LET f == e.fields IN
    /\ f.pid = IF e.task[2] = 0 THEN e.task[1] ELSE e.task[2]
    /\ f.rss.scaled = 1
    /\ f.rss.of[2] = e.task[2]
    /\ f.spelled = "plain" =>
          /\ f.time = [of |-> f.name, scaled |-> 1]
          /\ f.name[2] = e.task[2]
    /\ e.task \in since =>
          /\ f.rss.of[1] = process[e.task[1]]
          /\ f.spelled = "plain" => f.name[1] = process[e.task[1]]

Reported(task) == \E e \in report : e.task = task

(* Nothing that was there all the time was passed over.                    *)
BehindWalk ==
    /\ \A p \in Pids :
          /\ \/ p < entry["process"]
             \/ p = entry["process"] /\ (level = "thread" \/ scan \in {"readdir", "send"})
          /\ <<p, 0>> \in since
          => Reported(<<p, 0>>)
    /\ \A p \in Pids, t \in Tids :
          /\ \/ p < entry["process"]
             \/ /\ p = entry["process"]
                /\ \/ level = "process" /\ scan \in {"readdir", "send"}
                   \/ level = "thread" /\ t < entry["thread"]
                   \/ level = "thread" /\ t = entry["thread"] /\ scan = "readdir"
          /\ p \in observedProcesses
          /\ <<p, t>> \in since
          => Reported(<<p, t>>)

MonitorInv == /\ MonitorTyped
              /\ SinceExists
              /\ WalkAt
              /\ StatTold
              /\ \A e \in report : EntryTrue(e)
              /\ BehindWalk

LEMMA ExistingTasks ==
    \A task : task \in Existing <=>
        \E p \in Pids, t \in Tids \cup {0} :
           task = <<p, t>> /\ process[p] # 0 /\ (t = 0 \/ t \in threads[p])
<1>1. \A task : task \in Tasks <=>
         \E p \in Pids, t \in Tids \cup {0} : task = <<p, t>> /\ process[p] # 0
    BY DEF Tasks
<1> QED BY <1>1 DEF Existing

LEMMA MonitorStarts == ResourceInit => MonitorInv
<1> SUFFICES ASSUME ResourceInit PROVE MonitorInv
    OBVIOUS
<1>1. NoInfo \in Fields
    BY DEF NoInfo, Fields, Number, Nobody, Figures, Ids, Spellings
<1>2. MonitorTyped
    BY <1>1, MonitorAssumption
    DEF ResourceInit, MonitorTyped, Spellings, Levels, Buffers, Ids, Nobody
<1>3. since = {} /\ report = {} /\ scan = "tick" /\ level = "process"
      /\ entry = [l \in Levels |-> 0]
    BY DEF ResourceInit
<1>4. SinceExists /\ WalkAt /\ StatTold
    BY <1>3 DEF SinceExists, WalkAt, StatTold, Levels
<1>5. BehindWalk
    BY <1>3 DEF BehindWalk
<1> QED BY <1>2, <1>3, <1>4, <1>5 DEF MonitorInv

(* Processes and threads come and go: what stays in since stays what it    *)
(* was.                                                                    *)
LEMMA SystemKeepsMonitor ==
    ASSUME MonitorInv, System
    PROVE  MonitorInv'
<1>1. /\ MonitorTyped /\ SinceExists /\ WalkAt /\ StatTold /\ BehindWalk
      /\ \A e \in report : EntryTrue(e)
    BY DEF MonitorInv
<1>2. /\ since' = since \cap Existing'
      /\ UNCHANGED <<scan, level, entry, info, gFileDataBuffer,
                     observedProcesses, report>>
    BY DEF System
<1>3. PICK p \in Pids : ProcessStarts(p) \/ ProcessExits(p) \/ ThreadExits(p)
    BY DEF System
<1>4. /\ process' \in [Pids -> 0..MaxStarts]
      /\ threads' \in [Pids -> SUBSET Tids]
      /\ spelling' \in [1..MaxStarts -> Spellings]
      /\ started' \in 0..MaxStarts
    <2>1. CASE ProcessStarts(p)
        <3>1. started + 1 \in 0..MaxStarts
            BY <1>1, <2>1, MonitorAssumption DEF MonitorTyped, ProcessStarts
        <3> QED BY <1>1, <2>1, <3>1, MonitorAssumption DEF MonitorTyped, ProcessStarts
    <2>2. CASE ProcessExits(p)
        BY <1>1, <2>2, MonitorAssumption DEF MonitorTyped, ProcessExits
    <2>3. CASE ThreadExits(p)
        BY <1>1, <2>3, MonitorAssumption DEF MonitorTyped, ThreadExits
    <2> QED BY <1>3, <2>1, <2>2, <2>3
<1>5. MonitorTyped'
    BY <1>1, <1>2, <1>4 DEF MonitorTyped, Fields, Buffers
<1>6. \A task : task \in Existing' <=>
         \E q \in Pids, t \in Tids \cup {0} :
            task = <<q, t>> /\ process'[q] # 0 /\ (t = 0 \/ t \in threads'[q])
    <2>1. \A task : task \in Tasks' <=>
             \E q \in Pids, t \in Tids \cup {0} : task = <<q, t>> /\ process'[q] # 0
        BY DEF Tasks
    <2> QED BY <2>1 DEF Existing
<1>7. ASSUME NEW task \in since'
      PROVE  /\ task \in since
             /\ process'[task[1]] = process[task[1]]
             /\ <<task[1], 0>> \in since'
    <2>1. task \in since /\ task \in Existing /\ task \in Existing'
        BY <1>1, <1>2, <1>7 DEF SinceExists
    <2>2. PICK q \in Pids, t \in Tids \cup {0} :
             task = <<q, t>> /\ process'[q] # 0 /\ (t = 0 \/ t \in threads'[q])
        BY <1>6, <2>1
    <2>3. process[q] # 0
        BY <2>1, <2>2, ExistingTasks
    <2>4. process'[q] = process[q]
        <3>1. CASE ProcessStarts(p)
            BY <1>1, <2>3, <3>1 DEF ProcessStarts, MonitorTyped
        <3>2. CASE ProcessExits(p)
            BY <1>1, <2>2, <3>2 DEF ProcessExits, MonitorTyped
        <3>3. CASE ThreadExits(p)
            BY <3>3 DEF ThreadExits
        <3> QED BY <1>3, <3>1, <3>2, <3>3
    <2>5. <<q, 0>> \in since
        BY <1>1, <2>1, <2>2 DEF SinceExists
    <2>6. <<q, 0>> \in Existing'
        BY <1>6, <2>2
    <2> QED BY <1>2, <2>1, <2>2, <2>4, <2>5, <2>6
<1>8. SinceExists'
    BY <1>2, <1>7 DEF SinceExists
<1>9. Here' = Here
    BY <1>2 DEF Here
<1>10. WalkAt'
    BY <1>1, <1>2, <1>7 DEF WalkAt, Entries
<1>11. StatTold'
    BY <1>1, <1>2, <1>7, <1>9 DEF StatTold
<1>12. \A e \in report' : EntryTrue(e)'
    BY <1>1, <1>2, <1>7 DEF EntryTrue
<1>13. BehindWalk'
    BY <1>1, <1>2, <1>7 DEF BehindWalk, Reported
<1> QED BY <1>5, <1>8, <1>10, <1>11, <1>12, <1>13 DEF MonitorInv

(* The timer begins a walk, and its message ends it.                       *)
LEMMA TickKeepsMonitor ==
    ASSUME MonitorInv, Tick
    PROVE  MonitorInv'
<1>1. /\ MonitorTyped /\ SinceExists /\ WalkAt /\ StatTold /\ BehindWalk
    BY DEF MonitorInv
<1>2. /\ scan = "tick" /\ scan' = "readdir" /\ since' = Existing
      /\ UNCHANGED <<process, threads, spelling, started, level, entry, info,
                     gFileDataBuffer, observedProcesses, report>>
    BY DEF Tick, envVars
<1>3. report = {} /\ level = "process" /\ entry["process"] = 0
    BY <1>1, <1>2 DEF WalkAt
<1>4. Existing' = Existing
    BY <1>2 DEF Existing, Tasks
<1>5. MonitorTyped'
    BY <1>1, <1>2 DEF MonitorTyped, Fields, Buffers
<1>6. SinceExists'
    <2>1. \A task \in Existing : <<task[1], 0>> \in Existing
        BY ExistingTasks
    <2> QED BY <1>2, <1>4, <2>1 DEF SinceExists
<1>7. WalkAt' /\ StatTold' /\ \A e \in report' : EntryTrue(e)'
    BY <1>1, <1>2, <1>3 DEF WalkAt, StatTold
<1>8. BehindWalk'
    BY <1>2, <1>3, MonitorAssumption DEF BehindWalk
<1> QED BY <1>5, <1>6, <1>7, <1>8 DEF MonitorInv

LEMMA SendKeepsMonitor ==
    ASSUME MonitorInv, SendResourceMonitorMessage
    PROVE  MonitorInv'
<1>1. MonitorTyped /\ WalkAt
    BY DEF MonitorInv
<1>2. /\ scan' = "tick" /\ since' = {} /\ report' = {}
      /\ entry' = [l \in Levels |-> 0]
      /\ info' = [l \in Levels |-> NoInfo]
      /\ gFileDataBuffer' = [file |-> "cpu", id |-> 0, of |-> Nobody]
      /\ UNCHANGED <<process, threads, spelling, started, level>>
    BY DEF SendResourceMonitorMessage, Locals, envVars
<1>3. level = "process"
    BY <1>1 DEF SendResourceMonitorMessage, WalkAt, MonitorTyped, Levels
<1>4. NoInfo \in Fields
    BY DEF NoInfo, Fields, Number, Nobody, Figures, Ids, Spellings
<1>5. MonitorTyped'
    BY <1>1, <1>2, <1>4 DEF MonitorTyped, Levels, Buffers, Ids, Nobody
<1>6. SinceExists' /\ WalkAt' /\ StatTold'
    BY <1>2, <1>3 DEF SinceExists, WalkAt, StatTold, Levels
<1>7. BehindWalk'
    BY <1>2 DEF BehindWalk
<1> QED BY <1>2, <1>5, <1>6, <1>7 DEF MonitorInv

(* readdir gives an entry and passes over none that was there all along.   *)
LEMMA NextEntryKeepsMonitor ==
    ASSUME MonitorInv, NextEntry
    PROVE  MonitorInv'
<1>1. /\ MonitorTyped /\ SinceExists /\ WalkAt /\ StatTold /\ BehindWalk
      /\ \A e \in report : EntryTrue(e)
    BY DEF MonitorInv
<1>2. PICK e \in Entries : /\ e > entry[level]
                           /\ NotPassedOver(e)
                           /\ entry' = [entry EXCEPT ![level] = e]
    BY DEF NextEntry
<1>3. /\ scan = "readdir" /\ scan' = "stat"
      /\ UNCHANGED <<process, threads, spelling, started, since, level, info,
                     gFileDataBuffer, observedProcesses, report>>
    BY DEF NextEntry, envVars
<1>4. level \in {"process", "thread"} /\ e \in Nat /\ Entries' = Entries
    BY <1>1, <1>3, MonitorAssumption DEF MonitorTyped, Levels, Entries
<1>5. MonitorTyped'
    BY <1>1, <1>2, <1>3, <1>4 DEF MonitorTyped, Levels, Fields, Buffers
<1>6. /\ entry \in [{"process", "thread"} -> Nat]
      /\ entry'[level] = e
      /\ level = "thread" => entry'["process"] = entry["process"]
      /\ level = "process" => entry'["thread"] = entry["thread"]
    BY <1>1, <1>2, <1>4 DEF MonitorTyped, Levels
<1>7. SinceExists'
    BY <1>1, <1>3 DEF SinceExists, Existing, Tasks
<1>8. WalkAt'
    BY <1>1, <1>2, <1>3, <1>4, <1>6 DEF WalkAt
<1>9. StatTold' /\ \A r \in report' : EntryTrue(r)'
    BY <1>1, <1>3 DEF StatTold, EntryTrue
<1>10. ASSUME NEW x \in Entries, x < e, TaskAt(x) \in since
       PROVE  x <= entry[level]
    BY <1>2, <1>4, <1>6, <1>10, MonitorAssumption DEF NotPassedOver, Entries
<1>11. BehindWalk'
    <2>1. CASE level = "process"
        <3>1. ASSUME NEW p \in Pids, p < e, <<p, 0>> \in since
              PROVE  p <= entry["process"]
            BY <1>10, <2>1, <3>1 DEF Entries, TaskAt
        <3>2. ASSUME NEW p \in Pids, p < e, <<p, 0>> \in since
              PROVE  p < entry["process"] \/ p = entry["process"]
            BY <1>6, <3>1, <3>2, MonitorAssumption
        <3>3. ASSUME NEW p \in Pids, NEW t, <<p, t>> \in since
              PROVE  <<p, 0>> \in since
            BY <1>1, <3>3 DEF SinceExists
        <3> QED BY <1>1, <1>3, <1>6, <2>1, <3>2, <3>3 DEF BehindWalk, Reported
    <2>2. CASE level = "thread"
        <3>1. info["process"].pid = entry["process"]
            BY <1>1, <2>2 DEF WalkAt
        <3>2. ASSUME NEW t \in Tids, t < e, <<entry["process"], t>> \in since
              PROVE  t < entry["thread"] \/ t = entry["thread"]
            <4>1. t <= entry["thread"]
                BY <1>10, <2>2, <3>1, <3>2 DEF Entries, TaskAt
            <4> QED BY <1>6, <4>1, MonitorAssumption
        <3> QED BY <1>1, <1>3, <1>6, <2>2, <3>2 DEF BehindWalk, Reported
    <2> QED BY <1>4, <2>1, <2>2
<1> QED BY <1>5, <1>7, <1>8, <1>9, <1>11 DEF MonitorInv

(* The directory is at its end.                                            *)
LEMMA EndOfDirectoryKeepsMonitor ==
    ASSUME MonitorInv, EndOfDirectory
    PROVE  MonitorInv'
<1>1. /\ MonitorTyped /\ SinceExists /\ WalkAt /\ StatTold /\ BehindWalk
      /\ \A e \in report : EntryTrue(e)
    BY DEF MonitorInv
<1>2. /\ scan = "readdir"
      /\ \A e \in Entries : e > entry[level] => TaskAt(e) \notin since
      /\ UNCHANGED <<process, threads, spelling, started, since,
                     gFileDataBuffer, observedProcesses, report>>
    BY DEF EndOfDirectory, envVars
<1>3. /\ level \in {"process", "thread"}
      /\ entry \in [{"process", "thread"} -> Nat]
    BY <1>1 DEF MonitorTyped, Levels
<1>4. SinceExists'
    BY <1>1, <1>2 DEF SinceExists, Existing, Tasks
<1>5. \A e \in report' : EntryTrue(e)'
    BY <1>1, <1>2 DEF EntryTrue
<1>6. CASE level = "thread"
    <2>1. /\ level' = "process"
          /\ info' = [info EXCEPT !["thread"] = NoInfo]
          /\ entry' = [entry EXCEPT !["thread"] = 0]
          /\ scan' = scan
        BY <1>6 DEF EndOfDirectory
    <2>2. NoInfo \in Fields
        BY DEF NoInfo, Fields, Number, Nobody, Figures, Ids, Spellings
    <2>3. MonitorTyped'
        BY <1>1, <1>2, <2>1, <2>2 DEF MonitorTyped, Levels, Buffers
    <2>4. entry'["process"] = entry["process"] /\ entry'["thread"] = 0
        BY <1>3, <2>1
    <2>5. WalkAt' /\ StatTold'
        BY <1>1, <1>2, <2>1, <2>4 DEF WalkAt, StatTold
    <2>6. info["process"].pid = entry["process"]
        BY <1>1, <1>6 DEF WalkAt
    <2>7. ASSUME NEW t \in Tids, <<entry["process"], t>> \in since
          PROVE  t < entry["thread"] \/ t = entry["thread"]
        <3>1. ~(t > entry["thread"])
            BY <1>2, <1>6, <2>6, <2>7 DEF Entries, TaskAt
        <3> QED BY <1>3, <3>1, MonitorAssumption
    <2>8. BehindWalk'
        BY <1>1, <1>2, <1>6, <2>1, <2>4, <2>7 DEF BehindWalk, Reported
    <2> QED BY <1>4, <1>5, <2>3, <2>5, <2>8 DEF MonitorInv
<1>7. CASE level = "process"
    <2>1. scan' = "send" /\ UNCHANGED <<level, info, entry>>
        BY <1>7 DEF EndOfDirectory
    <2>2. MonitorTyped'
        BY <1>1, <1>2, <2>1 DEF MonitorTyped, Fields, Buffers
    <2>3. \A p \in Pids : p > entry["process"] => <<p, 0>> \notin since
        BY <1>2, <1>7 DEF Entries, TaskAt
    <2>4. WalkAt' /\ StatTold'
        BY <1>1, <1>2, <1>7, <2>1, <2>3 DEF WalkAt, StatTold
    <2>5. BehindWalk'
        BY <1>1, <1>2, <1>7, <2>1 DEF BehindWalk, Reported
    <2> QED BY <1>4, <1>5, <2>2, <2>4, <2>5 DEF MonitorInv
<1> QED BY <1>3, <1>6, <1>7

LEMMA FieldsOf ==
    ASSUME NEW a \in Nat, NEW b \in Ids, NEW c \in Spellings,
           NEW d \in Figures, NEW e \in Figures
    PROVE  [pid |-> a, name |-> b, spelled |-> c, time |-> d, rss |-> e] \in Fields
BY DEF Fields

(* What sscanf of a file stat leaves, with the times scaled.               *)
LEMMA ScanStatGives ==
    ASSUME NEW old \in Fields, NEW data \in Buffers,
           data.file = "stat" => data.of[1] \in 1..MaxStarts,
           spelling \in [1..MaxStarts -> Spellings],
           NEW f, f = [ScanStat(old, data) EXCEPT !.time = Scale(@)]
    PROVE  /\ f \in Fields
           /\ data.file = "stat" =>
                 /\ f.pid = data.id
                 /\ f.spelled = "plain" => /\ f.name = data.of
                                           /\ f.time = [of |-> f.name, scaled |-> 1]
<1>1. /\ old = [pid |-> old.pid, name |-> old.name, spelled |-> old.spelled,
                time |-> old.time, rss |-> old.rss]
      /\ old.pid \in Nat /\ old.name \in Ids /\ old.spelled \in Spellings
      /\ old.time \in Figures /\ old.rss \in Figures
    BY DEF Fields
<1>2. data.id \in Nat /\ data.of \in Ids
    BY DEF Buffers
<1>3. \A figure \in Figures :
         /\ Scale(figure) \in Figures
         /\ Scale(figure).of = figure.of
         /\ Scale(figure).scaled = figure.scaled + 1
    BY DEF Figures, Scale
<1>4. CASE data.file # "stat"
    <2>1. f = [old EXCEPT !.time = Scale(@)]
        BY <1>4 DEF ScanStat
    <2> QED BY <1>1, <1>3, <1>4, <2>1 DEF Fields
<1>5. CASE data.file = "stat"
    <2>1. PICK spelled \in Spellings : spelled = spelling[data.of[1]]
        BY <1>5
    <2>2. CASE spelled \in {"blank", "bracket"}
        <3>1. \/ f = [old EXCEPT !.pid = data.id, !.spelled = spelled,
                                 !.time = Scale(@)]
              \/ f = [old EXCEPT !.pid = data.id, !.spelled = spelled,
                                 !.name = data.of, !.time = Scale(@)]
            BY <1>1, <1>5, <2>1, <2>2 DEF ScanStat
        <3> QED BY <1>1, <1>2, <1>3, <2>2, <3>1 DEF Fields
    <2>3. CASE spelled = "plain"
        <3>1. Number(data.of) \in Figures
            BY <1>2 DEF Number, Figures
        <3>2. f = [old EXCEPT !.pid = data.id, !.spelled = spelled,
                              !.name = data.of,
                              !.time = Scale(Number(data.of))]
            BY <1>1, <1>5, <2>1, <2>3 DEF ScanStat
        <3>3. Scale(Number(data.of)) = [of |-> data.of, scaled |-> 1]
            BY DEF Number, Scale
        <3>4. PICK figure \in Figures : figure = [of |-> data.of, scaled |-> 1]
            BY <1>3, <3>1, <3>3
        <3>5. f = [pid |-> data.id, name |-> data.of, spelled |-> spelled,
                   time |-> figure, rss |-> old.rss]
            BY <1>1, <3>2, <3>3, <3>4
        <3>6. old.rss \in Figures
            BY <1>1
        <3>7. f \in Fields
            <4>1. [pid |-> data.id, name |-> data.of, spelled |-> spelled,
                   time |-> figure, rss |-> old.rss] \in Fields
                BY <1>2, <3>6, FieldsOf, Zenon
            <4> QED BY <3>5, <4>1, Zenon
        <3> QED BY <2>3, <3>4, <3>5, <3>7
    <2> QED BY <2>1, <2>2, <2>3 DEF Spellings
<1> QED BY <1>4, <1>5

LEMMA HereIsRead ==
    ASSUME MonitorInv, scan \in {"stat", "statm", "statUnread"}
    PROVE  /\ TaskAt(entry[level]) = Here
           /\ Here[1] = entry["process"]
           /\ Here[2] = IF level = "process" THEN 0 ELSE entry["thread"]
           /\ entry["process"] \in Pids
           /\ level = "thread" => entry["thread"] \in Tids
           /\ level \in {"process", "thread"}
           /\ Here \in since => Read
           /\ Read => process[Here[1]] \in 1..MaxStarts
<1>1. MonitorTyped /\ WalkAt /\ SinceExists
    BY DEF MonitorInv
<1>2. level \in {"process", "thread"}
    BY <1>1 DEF MonitorTyped, Levels
<1>3. TaskAt(entry[level]) = Here
    BY <1>1, <1>2 DEF WalkAt, TaskAt, Here
<1>4. entry[level] \in Entries
    BY <1>1 DEF WalkAt
<1>5. entry["process"] \in Pids /\ (level = "thread" => entry["thread"] \in Tids)
    BY <1>1, <1>2, <1>4 DEF WalkAt, Entries
<1>6. Here \in since => Read
    BY <1>1, <1>3 DEF SinceExists, Read
<1>7. Read => process[Here[1]] \in 1..MaxStarts
    <2>1. Read => process[Here[1]] # 0
        BY <1>3, ExistingTasks DEF Read, Here
    <2>2. Here[1] = entry["process"]
        BY DEF Here
    <2>3. process[entry["process"]] \in 0..MaxStarts
        BY <1>1, <1>5 DEF MonitorTyped
    <2> QED BY <2>1, <2>2, <2>3, MonitorAssumption
<1> QED BY <1>2, <1>3, <1>5, <1>6, <1>7 DEF Here

LEMMA ReadStatKeepsMonitor ==
    ASSUME MonitorInv, ReadStat
    PROVE  MonitorInv'
<1>1. /\ MonitorTyped /\ SinceExists /\ WalkAt /\ StatTold /\ BehindWalk
      /\ \A e \in report : EntryTrue(e)
    BY DEF MonitorInv
<1>2. /\ scan = "stat"
      /\ scan' = IF Read THEN "statm" ELSE "statUnread"
      /\ UNCHANGED <<process, threads, spelling, started, since, level, entry,
                     observedProcesses, report>>
    BY DEF ReadStat, envVars
<1>3. PICK f : /\ f = [ScanStat(info[level], gFileDataBuffer') EXCEPT !.time = Scale(@)]
               /\ info' = [info EXCEPT ![level] = f]
    BY DEF ReadStat
<1>4. /\ Read => gFileDataBuffer' = [file |-> "stat", id |-> entry[level],
                                     of |-> <<process[Here[1]], Here[2]>>]
      /\ ~Read => gFileDataBuffer' = gFileDataBuffer
    BY <1>2, HereIsRead DEF ReadStat, ReadProcEntry
<1>5. level \in {"process", "thread"} /\ entry[level] \in Nat /\ Here[2] \in Nat
    BY <1>1, <1>2, HereIsRead DEF MonitorTyped, Levels
<1>6. /\ gFileDataBuffer' \in Buffers
      /\ gFileDataBuffer'.file = "stat" => gFileDataBuffer'.of[1] \in 1..MaxStarts
    <2>1. CASE Read
        <3>1. process[Here[1]] \in 1..MaxStarts /\ process[Here[1]] \in Nat
            BY <1>2, <2>1, HereIsRead, MonitorAssumption
        <3> QED BY <1>4, <1>5, <2>1, <3>1 DEF Buffers, Ids
    <2>2. CASE ~Read
        BY <1>1, <1>4, <2>2 DEF MonitorTyped
    <2> QED BY <2>1, <2>2
<1>7. /\ f \in Fields
      /\ Read =>
            /\ f.pid = entry[level]
            /\ f.spelled = "plain" =>
                  /\ f.name = <<process[Here[1]], Here[2]>>
                  /\ f.time = [of |-> f.name, scaled |-> 1]
    <2>1. info[level] \in Fields /\ spelling \in [1..MaxStarts -> Spellings]
        BY <1>1, <1>5 DEF MonitorTyped, Levels
    <2>2. PICK data : data = gFileDataBuffer'
        OBVIOUS
    <2>3. /\ f \in Fields
          /\ data.file = "stat" =>
                /\ f.pid = data.id
                /\ f.spelled = "plain" => /\ f.name = data.of
                                          /\ f.time = [of |-> f.name, scaled |-> 1]
        <3>1. data \in Buffers
            BY <1>6, <2>2
        <3>2. data.file = "stat" => data.of[1] \in 1..MaxStarts
            BY <1>6, <2>2
        <3>3. PICK old \in Fields : old = info[level]
            BY <2>1
        <3>4. f = [ScanStat(old, data) EXCEPT !.time = Scale(@)]
            BY <1>3, <2>2, <3>3
        <3>5. spelling \in [1..MaxStarts -> Spellings]
            BY <2>1
        <3>6. f \in Fields
            BY <3>1, <3>2, <3>4, <3>5, ScanStatGives
        <3>7. data.file = "stat" =>
                 /\ f.pid = data.id
                 /\ f.spelled = "plain" =>
                       /\ f.name = data.of
                       /\ f.time = [of |-> f.name, scaled |-> 1]
            BY <3>1, <3>2, <3>4, <3>5, ScanStatGives
        <3> QED BY <3>6, <3>7
    <2> QED BY <1>4, <2>2, <2>3
<1>8. MonitorTyped'
    BY <1>1, <1>2, <1>3, <1>6, <1>7 DEF MonitorTyped, Levels
<1>9. info'[level] = f /\ (level = "thread" => info'["process"] = info["process"])
    BY <1>1, <1>3, <1>5 DEF MonitorTyped, Levels
<1>10. SinceExists'
    BY <1>1, <1>2 DEF SinceExists, Existing, Tasks
<1>11. WalkAt'
    BY <1>1, <1>2, <1>9 DEF WalkAt, Entries
<1>12. StatTold'
    <2>1. Here' = Here
        BY <1>2 DEF Here
    <2>2. CASE Read
        BY <1>2, <1>7, <1>9, <2>1, <2>2 DEF StatTold
    <2>3. CASE ~Read
        BY <1>2, <2>1, <2>3, HereIsRead DEF StatTold
    <2> QED BY <2>2, <2>3
<1>13. \A e \in report' : EntryTrue(e)'
    BY <1>1, <1>2 DEF EntryTrue
<1>14. BehindWalk'
    BY <1>1, <1>2 DEF BehindWalk, Reported
<1> QED BY <1>8, <1>10, <1>11, <1>12, <1>13, <1>14 DEF MonitorInv

LEMMA ReadStatmKeepsMonitor ==
    ASSUME MonitorInv, ReadStatm
    PROVE  MonitorInv'
<1>1. /\ MonitorTyped /\ SinceExists /\ WalkAt /\ StatTold /\ BehindWalk
      /\ \A e \in report : EntryTrue(e)
    BY DEF MonitorInv
<1>2. /\ scan \in {"statm", "statUnread"}
      /\ scan' = "readdir"
      /\ UNCHANGED <<process, threads, spelling, started, since>>
    BY DEF ReadStatm, envVars
<1>3. PICK f : f = [ScanStatm(info[level], gFileDataBuffer') EXCEPT !.rss = Scale(@)]
    OBVIOUS
<1>4. IF StatRead /\ Read
        THEN Report(f)
        ELSE /\ info' = [info EXCEPT ![level] = f]
             /\ UNCHANGED <<report, observedProcesses, level, entry>>
    BY <1>3 DEF ReadStatm
<1>5. /\ level \in {"process", "thread"}
      /\ entry \in [{"process", "thread"} -> Nat]
      /\ info[level] \in Fields
      /\ entry[level] \in Nat /\ Here[2] \in Nat
    BY <1>1, <1>2, HereIsRead DEF MonitorTyped, Levels
<1>6. /\ StatRead /\ Read =>
            gFileDataBuffer' = [file |-> "statm", id |-> entry[level],
                                of |-> <<process[Here[1]], Here[2]>>]
      /\ ~(StatRead /\ Read) => gFileDataBuffer' = gFileDataBuffer
    BY <1>2, HereIsRead DEF ReadStatm, ReadProcEntry
<1>7. /\ gFileDataBuffer' \in Buffers
      /\ gFileDataBuffer'.file = "stat" => gFileDataBuffer'.of[1] \in 1..MaxStarts
    <2>1. CASE StatRead /\ Read
        <3>1. process[Here[1]] \in Nat
            BY <1>2, <2>1, HereIsRead, MonitorAssumption
        <3> QED BY <1>5, <1>6, <2>1, <3>1 DEF Buffers, Ids
    <2>2. CASE ~(StatRead /\ Read)
        BY <1>1, <1>6, <2>2 DEF MonitorTyped
    <2> QED BY <2>1, <2>2
<1>8. /\ f \in Fields
      /\ f.pid = info[level].pid
      /\ f.spelled = info[level].spelled
      /\ f.name = info[level].name
      /\ f.time = info[level].time
      /\ StatRead /\ Read =>
            f.rss = [of |-> <<process[Here[1]], Here[2]>>, scaled |-> 1]
    <2>1. PICK old \in Fields : old = info[level]
        BY <1>5
    <2>2. PICK data \in Buffers : data = gFileDataBuffer'
        BY <1>7
    <2>3. /\ Number(data.of) \in Figures
          /\ old.rss \in Figures
          /\ \A figure \in Figures : Scale(figure) \in Figures
        BY DEF Number, Figures, Fields, Buffers, Scale
    <2>4. CASE data.file = "statm"
        <3>1. f = [old EXCEPT !.rss = Scale(Number(data.of))]
            BY <1>3, <2>1, <2>2, <2>4 DEF ScanStatm, Fields
        <3>2. Scale(Number(data.of)) = [of |-> data.of, scaled |-> 1]
            BY DEF Number, Scale
        <3> QED BY <1>6, <2>1, <2>2, <2>3, <3>1, <3>2 DEF Fields
    <2>5. CASE data.file # "statm"
        <3>1. f = [old EXCEPT !.rss = Scale(@)]
            BY <1>3, <2>1, <2>2, <2>5 DEF ScanStatm
        <3> QED BY <1>6, <2>1, <2>2, <2>3, <2>5, <3>1 DEF Fields
    <2> QED BY <2>4, <2>5
<1>9. /\ info' = [info EXCEPT ![level] = f]
      /\ entry' = entry
    BY <1>4 DEF Report
<1>10. SinceExists'
    BY <1>1, <1>2 DEF SinceExists, Existing, Tasks
<1>11. MonitorTyped'
    <2>1. level' \in Levels
        BY <1>1, <1>4 DEF Report, MonitorTyped, Levels
    <2> QED BY <1>1, <1>2, <1>7, <1>8, <1>9, <2>1 DEF MonitorTyped
<1>12. StatTold'
    BY <1>2 DEF StatTold
<1>13. \A p \in Pids : \A t : <<p, t>> \in since => <<p, 0>> \in since
    BY <1>1 DEF SinceExists
<1>14. /\ info'[level] = f
       /\ level = "thread" => info'["process"] = info["process"]
    BY <1>1, <1>5, <1>9 DEF MonitorTyped, Levels
<1>15. entry["process"] \in Pids /\ \A p \in Pids : p \in Nat /\ p # 0
    BY <1>2, HereIsRead, MonitorAssumption
<1>16. CASE ~(StatRead /\ Read)
    <2>1. UNCHANGED <<report, observedProcesses, level, entry>>
        BY <1>4, <1>16
    <2>2. Here \notin since
        BY <1>1, <1>2, <1>16, HereIsRead DEF StatTold, StatRead
    <2>3. WalkAt'
        BY <1>1, <1>2, <1>5, <1>14, <2>1 DEF WalkAt
    <2>4. \A e \in report' : EntryTrue(e)'
        BY <1>1, <1>2, <2>1 DEF EntryTrue
    <2>5. BehindWalk'
        <3>1. CASE level = "process"
            <4>1. <<entry["process"], 0>> \notin since
                BY <2>2, <3>1 DEF Here
            <4>2. \A t : <<entry["process"], t>> \notin since
                BY <1>13, <1>15, <4>1
            <4> QED BY <1>1, <1>2, <2>1, <3>1, <4>1, <4>2 DEF BehindWalk, Reported
        <3>2. CASE level = "thread"
            <4>1. <<entry["process"], entry["thread"]>> \notin since
                BY <2>2, <3>2 DEF Here
            <4> QED BY <1>1, <1>2, <2>1, <3>2, <4>1 DEF BehindWalk, Reported
        <3> QED BY <1>5, <3>1, <3>2
    <2> QED BY <1>10, <1>11, <1>12, <2>3, <2>4, <2>5 DEF MonitorInv
<1>17. CASE StatRead /\ Read
    <2>1. Report(f)
        BY <1>4, <1>17
    <2>2. /\ report' = report \cup {[task |-> Here, fields |-> f]}
          /\ observedProcesses' = IF level = "process" THEN Observe(f)
                                                       ELSE observedProcesses
          /\ level' = IF level = "process" /\ f.pid \in observedProcesses'
                        THEN "thread" ELSE level
        BY <1>2, <2>1, HereIsRead DEF Report
    <2>3. /\ f.pid = entry[level]
          /\ f.spelled = "plain" =>
                /\ f.time = [of |-> f.name, scaled |-> 1]
                /\ f.name[2] = Here[2]
                /\ Here \in since => f.name[1] = process[Here[1]]
        BY <1>1, <1>8, <1>17 DEF StatTold, StatRead
    <2>4. f.pid = IF Here[2] = 0 THEN Here[1] ELSE Here[2]
        BY <1>2, <2>3, HereIsRead, MonitorAssumption
    <2>5. ASSUME NEW e \in report'
          PROVE  EntryTrue(e)'
        <3>1. CASE e \in report
            BY <1>1, <1>2, <3>1 DEF EntryTrue
        <3>2. CASE e = [task |-> Here, fields |-> f]
            <4>1. e.task = Here /\ e.fields = f
                BY <3>2
            <4>2. f.rss.scaled = 1 /\ f.rss.of = <<process[Here[1]], Here[2]>>
                BY <1>8, <1>17
            <4> QED BY <1>2, <2>3, <2>4, <4>1, <4>2 DEF EntryTrue
        <3> QED BY <2>2, <3>1, <3>2
    <2>9. PICK here : here = Here
        OBVIOUS
    <2>6. /\ Reported(here)'
          /\ \A task : Reported(task) => Reported(task)'
        <3>1. PICK e : e = [task |-> here, fields |-> f]
            OBVIOUS
        <3>2. report' = report \cup {e} /\ e.task = here
            BY <2>2, <2>9, <3>1
        <3> QED BY <3>2 DEF Reported
    <2>7. CASE level = "process"
        <3>1. f.pid = entry["process"] /\ Here = <<entry["process"], 0>>
            BY <2>3, <2>7 DEF Here
        <3>2. \A p : p \in observedProcesses' =>
                        p \in observedProcesses \/ p = entry["process"]
            BY <2>2, <3>1 DEF Observe
        <3>3. entry["thread"] = 0
            BY <1>1, <2>7 DEF WalkAt
        <3>4. WalkAt'
            BY <1>1, <1>2, <1>9, <1>14, <1>15, <2>2, <2>7, <3>1 DEF WalkAt
        <3>5. level' = "process" => entry["process"] \notin observedProcesses'
            BY <2>2, <2>7, <3>1
        <3>6. \A t \in Tids : t \in Nat /\ t # 0 /\ ~(t < 0)
            BY MonitorAssumption
        <3>7. \A p \in Pids : p < entry["process"] => p # entry["process"]
            BY <1>15
        <3>8. BehindWalk'
            <4>1. ASSUME NEW p \in Pids, <<p, 0>> \in since,
                         p < entry["process"] \/ p = entry["process"]
                  PROVE  Reported(<<p, 0>>)'
                BY <1>1, <2>6, <2>9, <3>1, <4>1 DEF BehindWalk
            <4>2. ASSUME NEW p \in Pids, NEW t \in Tids, <<p, t>> \in since,
                         p < entry["process"], p \in observedProcesses'
                  PROVE  Reported(<<p, t>>)'
                <5>1. p \in observedProcesses
                    BY <3>2, <3>7, <4>2
                <5>2. Reported(<<p, t>>)
                    BY <1>1, <4>2, <5>1 DEF BehindWalk
                <5> QED BY <2>6, <5>2
            <4> QED BY <1>2, <1>9, <3>3, <3>5, <3>6, <4>1, <4>2 DEF BehindWalk
        <3> QED BY <1>10, <1>11, <1>12, <2>5, <3>4, <3>8 DEF MonitorInv
    <2>8. CASE level = "thread"
        <3>1. Here = <<entry["process"], entry["thread"]>>
            BY <2>8 DEF Here
        <3>2. level' = "thread" /\ observedProcesses' = observedProcesses
            BY <2>2, <2>8
        <3>3. WalkAt'
            BY <1>1, <1>2, <1>9, <1>14, <2>8, <3>2 DEF WalkAt
        <3>4. BehindWalk'
            <4>1. ASSUME NEW p \in Pids, <<p, 0>> \in since,
                         p < entry["process"] \/ p = entry["process"]
                  PROVE  Reported(<<p, 0>>)'
                BY <1>1, <2>6, <2>8, <4>1 DEF BehindWalk
            <4>2. ASSUME NEW p \in Pids, NEW t \in Tids, <<p, t>> \in since,
                         p \in observedProcesses,
                         \/ p < entry["process"]
                         \/ p = entry["process"] /\ t < entry["thread"]
                         \/ p = entry["process"] /\ t = entry["thread"]
                  PROVE  Reported(<<p, t>>)'
                BY <1>1, <2>6, <2>8, <2>9, <3>1, <4>2 DEF BehindWalk
            <4> QED BY <1>2, <1>9, <3>2, <4>1, <4>2 DEF BehindWalk
        <3> QED BY <1>10, <1>11, <1>12, <2>5, <3>3, <3>4 DEF MonitorInv
    <2> QED BY <1>5, <2>7, <2>8
<1> QED BY <1>16, <1>17

LEMMA MonitorSteps ==
    ASSUME MonitorInv, [ResourceNext]_rVars
    PROVE  MonitorInv'
<1>1. CASE UNCHANGED rVars
    <2>1. UNCHANGED <<process, threads, spelling, started, since, scan, level,
                      entry, info, gFileDataBuffer, observedProcesses, report>>
        BY <1>1 DEF rVars, envVars
    <2>2. /\ MonitorTyped => MonitorTyped'
          /\ WalkAt => WalkAt'
          /\ StatTold => StatTold'
        BY <2>1 DEF MonitorTyped, Fields, Buffers, WalkAt, Entries, StatTold, Here
    <2>3. SinceExists => SinceExists'
        BY <2>1 DEF SinceExists, Existing, Tasks
    <2>4. \A e : EntryTrue(e) => EntryTrue(e)'
        BY <2>1 DEF EntryTrue
    <2>5. BehindWalk => BehindWalk'
        BY <2>1 DEF BehindWalk, Reported
    <2> QED BY <2>1, <2>2, <2>3, <2>4, <2>5 DEF MonitorInv
<1> QED BY <1>1, SystemKeepsMonitor, TickKeepsMonitor, NextEntryKeepsMonitor,
           ReadStatKeepsMonitor, ReadStatmKeepsMonitor,
           EndOfDirectoryKeepsMonitor, SendKeepsMonitor DEF ResourceNext

LEMMA SampleTold == MonitorInv => SampleTrue
<1> SUFFICES ASSUME MonitorInv, scan = "send" PROVE SampleTrue
    BY DEF SampleTrue
<1>1. MonitorTyped /\ SinceExists /\ WalkAt /\ BehindWalk
    BY DEF MonitorInv
<1>2. ASSUME NEW task \in since, task[2] = 0 \/ task[1] \in observedProcesses
      PROVE  Reported(task)
    <2>1. PICK p \in Pids, t \in Tids \cup {0} : task = <<p, t>>
        BY <1>1, ExistingTasks DEF SinceExists
    <2>2. <<p, 0>> \in since
        BY <1>1, <2>1 DEF SinceExists
    <2>3. ~(p > entry["process"])
        BY <1>1, <2>2 DEF WalkAt
    <2>4. p < entry["process"] \/ p = entry["process"]
        BY <1>1, <2>3, MonitorAssumption DEF MonitorTyped, Levels
    <2>5. level = "process"
        BY <1>1 DEF WalkAt, MonitorTyped, Levels
    <2> QED BY <1>1, <1>2, <2>1, <2>4, <2>5 DEF BehindWalk
<1>3. \A e \in report : EntryTrue(e)
    BY DEF MonitorInv
<1> QED BY <1>2, <1>3 DEF SampleTrue, Reported, EntryTrue
-----------------------------------------------------------------------------
(* The lines of the FIFO.                                                  *)

(* What was read or waits in the FIFO, behind the bytes that msg took.     *)
Pending == Len(jBuf) - bufPos

ToCome == Pending + Len(jPipe)

ByteAt(x) == IF x <= Pending THEN jBuf[bufPos + x] ELSE jPipe[x - Pending]

NextLine == jLine.number + 1

LineByte(k, i) == IF i <= jLengths[k] THEN <<k, i>> ELSE End

(* Where the next line and those after it stand in these bytes: line k     *)
(* begins after byte at[k], and msg has what comes before byte 1.          *)
LinesAt(at) ==
    /\ at \in [NextLine..(Len(jLengths) + 1) -> Int]
    /\ at[NextLine] = 0 - msgPos
    /\ \A k \in NextLine..Len(jLengths) :
          /\ at[k + 1] = at[k] + jLengths[k] + 1
          /\ \A i \in 1..(jLengths[k] + 1) :
                at[k] + i >= 1 => /\ at[k] + i <= ToCome
                                  /\ ByteAt(at[k] + i) = LineByte(k, i)
    /\ ToCome = at[Len(jLengths) + 1]

JsonTyped ==
    /\ jLengths \in Seq(Nat)
    /\ jPipe \in Seq(Bytes)
    /\ jBuf \in Seq(Bytes)
    /\ bufPos \in 0..Len(jBuf)
    /\ msg \in [1..MSG_SIZE -> Bytes]
    /\ msgPos \in 0..MSG_SIZE
    /\ jLine.number \in 0..Len(jLengths)

(* What msg holds is the beginning of the next line; it holds something    *)
(* only until the first line of a read has ended.                          *)
BeginningKept ==
    /\ \A i \in 1..msgPos : msg[i] = <<NextLine, i>>
    /\ NextLine <= Len(jLengths) => msgPos <= jLengths[NextLine]
    /\ bufPos # 0 => msgPos = 0

LastLineWhole ==
    LET n == jLine.number IN
    jLine.first => /\ n # 0
                   /\ jLengths[n] < MSG_SIZE
                      => jLine.content = Line(n, jLengths[n])

JsonInv ==
    jCut \/ /\ JsonTyped
            /\ \E at : LinesAt(at)
            /\ BeginningKept
            /\ LastLineWhole

LEMMA JsonStarts == JsonInit => JsonInv
<1> SUFFICES ASSUME JsonInit PROVE JsonInv
    OBVIOUS
<1>1. /\ jLengths = <<>> /\ jPipe = <<>> /\ jBuf = <<>> /\ bufPos = 0
      /\ msgPos = 0 /\ jLine.number = 0 /\ ~jLine.first
      /\ msg = [i \in 1..MSG_SIZE |-> Junk]
      /\ Len(jLengths) = 0 /\ Len(jPipe) = 0 /\ Len(jBuf) = 0
    BY DEF JsonInit
<1>2. JsonTyped
    BY <1>1, JsonAssumption DEF JsonTyped, Junk, Bytes
<1>3. NextLine = 1 /\ ToCome = 0
    BY <1>1 DEF NextLine, ToCome, Pending
<1>4. \E at : LinesAt(at)
    <2>1. PICK at : at = [k \in 1..1 |-> 0]
        OBVIOUS
    <2>2. at \in [1..1 -> Int] /\ at[1] = 0
        BY <2>1
    <2>3. NextLine..Len(jLengths) = {} /\ NextLine..(Len(jLengths) + 1) = 1..1
        BY <1>1, <1>3
    <2>4. 0 - msgPos = 0
        BY <1>1
    <2> QED BY <1>1, <1>3, <2>2, <2>3, <2>4 DEF LinesAt
<1>5. BeginningKept
    BY <1>1, <1>3 DEF BeginningKept
<1>6. LastLineWhole
    BY <1>1 DEF LastLineWhole
<1> QED BY <1>2, <1>4, <1>5, <1>6 DEF JsonInv

LEMMA CountsTyped ==
    ASSUME JsonTyped
    PROVE  /\ NextLine \in Nat \ {0}
           /\ Pending \in Nat
           /\ msgPos \in Nat
           /\ Len(jLengths) + 1 \in Nat
           /\ Len(jPipe) \in Nat
<1>1. jLine.number \in Nat
    BY DEF JsonTyped
<1>2. Len(jBuf) - bufPos \in Nat
    <2>1. Len(jBuf) \in Nat /\ bufPos \in 0..Len(jBuf)
        BY DEF JsonTyped
    <2> QED BY <2>1
<1>3. msgPos \in Nat
    BY JsonAssumption DEF JsonTyped
<1>4. Len(jLengths) \in Nat /\ Len(jPipe) \in Nat
    BY DEF JsonTyped
<1> QED BY <1>1, <1>2, <1>3, <1>4 DEF NextLine, Pending

(* The bytes of the read that were not looked at begin with the rest of    *)
(* the next line, up to its newline if it is among them.                   *)
LEMMA LineStands ==
    ASSUME JsonTyped, NEW at, LinesAt(at), BeginningKept, Pending # 0
    PROVE  /\ NextLine \in 1..Len(jLengths)
           /\ jLengths[NextLine] \in Nat
           /\ msgPos <= jLengths[NextLine]
           /\ \A x \in 1..Pending :
                 /\ x <= jLengths[NextLine] - msgPos
                       => jBuf[bufPos + x] = <<NextLine, msgPos + x>>
                 /\ x = jLengths[NextLine] + 1 - msgPos => jBuf[bufPos + x] = End
<1>1. PICK n \in Nat \ {0}, p \in Nat, m \in Nat :
          n = NextLine /\ p = Pending /\ m = msgPos
    BY CountsTyped
<1>2. n \in 1..Len(jLengths)
    <2>1. n <= Len(jLengths) + 1
        BY <1>1 DEF JsonTyped, NextLine
    <2>2. ToCome = p + Len(jPipe) /\ Len(jPipe) \in Nat
        BY <1>1 DEF ToCome, JsonTyped
    <2>3. n # Len(jLengths) + 1
        <3>1. SUFFICES ASSUME n = Len(jLengths) + 1 PROVE FALSE
            OBVIOUS
        <3>2. ToCome = 0 - m
            BY <1>1, <3>1 DEF LinesAt
        <3> QED BY <1>1, <2>2, <3>2
    <2> QED BY <2>1, <2>3 DEF JsonTyped
<1>3. PICK l \in Nat : l = jLengths[n]
    BY <1>2 DEF JsonTyped
<1>4. m <= l
    BY <1>1, <1>2, <1>3 DEF BeginningKept
<1>5. ASSUME NEW x \in 1..p, x <= l + 1 - m
      PROVE  jBuf[bufPos + x] = LineByte(n, m + x)
    <2>1. at[n] = 0 - m
        BY <1>1 DEF LinesAt
    <2>2. n \in NextLine..Len(jLengths)
        BY <1>1, <1>2 DEF JsonTyped
    <2>3. m + x \in 1..(jLengths[n] + 1)
        BY <1>3, <1>5
    <2>4. at[n] + (m + x) = x /\ x >= 1
        BY <1>5, <2>1
    <2>5. at[n] + (m + x) >= 1 => ByteAt(at[n] + (m + x)) = LineByte(n, m + x)
        BY <2>2, <2>3 DEF LinesAt
    <2>6. ByteAt(x) = LineByte(n, m + x)
        BY <2>4, <2>5
    <2>7. ByteAt(x) = jBuf[bufPos + x]
        BY <1>1, <1>5 DEF ByteAt
    <2> QED BY <2>6, <2>7
<1>6. ASSUME NEW x \in 1..p
      PROVE  /\ x <= l - m => jBuf[bufPos + x] = <<n, m + x>>
             /\ x = l + 1 - m => jBuf[bufPos + x] = End
    <2>1. x <= l - m => x <= l + 1 - m /\ m + x <= l
        BY <1>4
    <2>2. x = l + 1 - m => x <= l + 1 - m /\ ~(m + x <= l)
        BY <1>4
    <2> QED BY <1>3, <1>5, <1>6, <2>1, <2>2 DEF LineByte
<1> QED BY <1>1, <1>2, <1>3, <1>4, <1>6

(* One more line behind those on their way.                                *)
LEMMA WriteKeepsLines ==
    ASSUME JsonInv, WriteLine
    PROVE  JsonInv'
<1>1. CASE jCut
    BY <1>1 DEF WriteLine, JsonInv
<1>2. CASE ~jCut
    <2>1. JsonTyped /\ BeginningKept /\ LastLineWhole
        BY <1>2 DEF JsonInv
    <2>2. PICK at : LinesAt(at)
        BY <1>2 DEF JsonInv
    <2>3. PICK l \in 0..MaxLength :
             /\ jLengths' = Append(jLengths, l)
             /\ jPipe' = Append(jPipe \o Line(Len(jLengths) + 1, l), End)
        BY DEF WriteLine
    <2>4. /\ UNCHANGED <<jBuf, bufPos, msg, msgPos, jLine, jCut>>
          /\ l \in Nat
        <3>1. l \in Nat
            BY JsonAssumption
        <3> QED BY <3>1 DEF WriteLine
    <2>5. PICK f \in Nat, len \in Nat, q \in Nat, n \in Nat \ {0} :
             f = Len(jLengths) + 1 /\ len = Len(jPipe) /\ q = Pending /\ n = NextLine
        BY <2>1, CountsTyped
    <2>6. /\ jLengths' \in Seq(Nat)
          /\ Len(jLengths') = f
          /\ jLengths'[f] = l
          /\ \A k \in 1..(f - 1) : jLengths'[k] = jLengths[k]
          /\ n \in 1..f
          /\ Len(jLengths) = f - 1
        BY <2>1, <2>3, <2>4, <2>5 DEF JsonTyped, NextLine
    <2>7. /\ jPipe' \in Seq(Bytes)
          /\ Len(jPipe') = len + l + 1
          /\ \A i \in 1..len : jPipe'[i] = jPipe[i]
          /\ \A i \in 1..l : jPipe'[len + i] = <<f, i>>
          /\ jPipe'[len + l + 1] = End
        <3>1. PICK w : w = [i \in 1..l |-> <<f, i>>]
            OBVIOUS
        <3>2. \A i \in 1..l : <<f, i>> \in Bytes
            BY <2>4 DEF Bytes
        <3>3. w \in Seq(Bytes) /\ Len(w) = l /\ \A i \in 1..l : w[i] = <<f, i>>
            BY <2>4, <3>1, <3>2
        <3>4. End \in Bytes
            BY DEF End, Bytes
        <3>5. jPipe' = Append(jPipe \o w, End)
            BY <2>3, <2>5, <3>1 DEF Line
        <3>6. PICK s : s = jPipe \o w
            OBVIOUS
        <3>7. /\ s \in Seq(Bytes)
              /\ Len(s) = len + l
              /\ \A i \in 1..len : s[i] = jPipe[i]
              /\ \A i \in 1..l : s[len + i] = <<f, i>>
            <4>1. jPipe \in Seq(Bytes) /\ Len(jPipe) = len
                BY <2>1, <2>5 DEF JsonTyped
            <4>2. w \in Seq(Bytes) /\ Len(w) = l
                BY <3>3
            <4>3. s \in Seq(Bytes) /\ Len(s) = len + l
                <5>1. jPipe \o w \in Seq(Bytes)
                    BY <4>1, <4>2
                <5>2. Len(jPipe \o w) = Len(jPipe) + Len(w)
                    BY <4>1, <4>2
                <5> QED BY <3>6, <4>1, <4>2, <5>1, <5>2
            <4>4. \A i \in 1..len : s[i] = jPipe[i]
                BY <3>6, <4>1, <4>2
            <4>5. \A i \in 1..l : s[len + i] = w[i]
                BY <3>6, <4>1, <4>2
            <4> QED BY <3>3, <4>3, <4>4, <4>5
        <3>8. /\ jPipe' \in Seq(Bytes)
              /\ Len(jPipe') = len + l + 1
              /\ jPipe'[len + l + 1] = End
              /\ \A i \in 1..(len + l) : jPipe'[i] = s[i]
            BY <2>4, <3>4, <3>5, <3>6, <3>7
        <3>9. \A i \in 1..len : i \in 1..(len + l)
            BY <2>4
        <3>10. \A i \in 1..l : len + i \in 1..(len + l)
            BY <2>4
        <3> QED BY <3>7, <3>8, <3>9, <3>10
    <2>8. UNCHANGED <<Pending, NextLine>>
        BY <2>4 DEF Pending, NextLine
    <2>9. JsonTyped'
        BY <2>1, <2>4, <2>6, <2>7 DEF JsonTyped
    <2>10. /\ at \in [n..f -> Int]
           /\ at[n] = 0 - msgPos
           /\ at[f] = q + len
           /\ \A k \in n..(f - 1) :
                 /\ at[k + 1] = at[k] + jLengths[k] + 1
                 /\ \A i \in 1..(jLengths[k] + 1) :
                       at[k] + i >= 1 => /\ at[k] + i <= q + len
                                         /\ ByteAt(at[k] + i) = LineByte(k, i)
        BY <2>2, <2>5, <2>6 DEF LinesAt, ToCome
    <2>11. PICK at2 : at2 = [k \in n..(f + 1) |->
                                IF k = f + 1 THEN q + len + l + 1 ELSE at[k]]
        OBVIOUS
    <2>12. /\ at2 \in [n..(f + 1) -> Int]
           /\ at2[n] = 0 - msgPos
           /\ at2[f + 1] = q + len + l + 1
           /\ at2[f] = q + len
           /\ \A k \in n..(f - 1) : at2[k] = at[k] /\ at2[k + 1] = at[k + 1]
        BY <2>4, <2>6, <2>10, <2>11
    <2>13. \A x \in 1..(q + len) : ByteAt(x)' = ByteAt(x)
        <3>1. ASSUME NEW x \in 1..(q + len)
              PROVE  (IF x <= q THEN jBuf[bufPos + x] ELSE jPipe'[x - q])
                        = (IF x <= q THEN jBuf[bufPos + x] ELSE jPipe[x - q])
            <4>1. ~(x <= q) => x - q \in 1..len
                OBVIOUS
            <4> QED BY <2>7, <4>1
        <3> QED BY <2>4, <2>5, <2>8, <3>1 DEF ByteAt
    <2>14. \A i \in 1..(l + 1) : ByteAt(q + len + i)' = LineByte(f, i)'
        <3>1. ASSUME NEW i \in 1..(l + 1)
              PROVE  (IF q + len + i <= q THEN jBuf[bufPos + (q + len + i)]
                                          ELSE jPipe'[q + len + i - q])
                        = (IF i <= l THEN <<f, i>> ELSE End)
            <4>1. ~(q + len + i <= q) /\ q + len + i - q = len + i
                BY <2>4
            <4>2. ~(i <= l) => i = l + 1
                BY <2>4
            <4>3. i <= l => i \in 1..l
                BY <2>4
            <4>4. jPipe'[len + i] = (IF i <= l THEN <<f, i>> ELSE End)
                <5>1. CASE i <= l
                    BY <2>7, <4>3, <5>1
                <5>2. CASE ~(i <= l)
                    <6>1. len + i = len + l + 1
                        BY <2>4, <4>2, <5>2
                    <6> QED BY <2>7, <5>2, <6>1
                <5> QED BY <5>1, <5>2
            <4> QED BY <4>1, <4>4
        <3>2. \A i \in 1..(l + 1) : LineByte(f, i)' = IF i <= l THEN <<f, i>> ELSE End
            BY <2>6 DEF LineByte
        <3>3. \A i \in 1..(l + 1) :
                 ByteAt(q + len + i)'
                    = IF q + len + i <= q THEN jBuf[bufPos + (q + len + i)]
                                          ELSE jPipe'[q + len + i - q]
            BY <2>4, <2>5, <2>8 DEF ByteAt
        <3> QED BY <3>1, <3>2, <3>3
    <2>15. ASSUME NEW k \in n..f
           PROVE  /\ at2[k + 1] = at2[k] + jLengths'[k] + 1
                  /\ \A i \in 1..(jLengths'[k] + 1) :
                        at2[k] + i >= 1 =>
                           /\ at2[k] + i <= q + len + l + 1
                           /\ ByteAt(at2[k] + i)' = LineByte(k, i)'
        <3>1. CASE k = f
            <4>1. /\ jLengths'[k] = l /\ at2[k] = q + len
                  /\ at2[k + 1] = q + len + l + 1
                BY <2>6, <2>12, <3>1
            <4>2. ASSUME NEW i \in 1..(l + 1)
                  PROVE  /\ q + len + i <= q + len + l + 1
                         /\ ByteAt(q + len + i)' = LineByte(k, i)'
                BY <2>4, <2>14, <3>1
            <4> QED BY <2>4, <4>1, <4>2
        <3>2. CASE k # f
            <4>1. k \in n..(f - 1) /\ k \in 1..(f - 1)
                BY <2>6, <3>2
            <4>2. /\ at2[k + 1] = at2[k] + jLengths'[k] + 1
                  /\ at2[k] = at[k]
                  /\ jLengths'[k] = jLengths[k]
                  /\ at[k] \in Int
                BY <2>6, <2>10, <2>12, <4>1
            <4>3. ASSUME NEW i \in 1..(jLengths[k] + 1), at[k] + i >= 1
                  PROVE  /\ at[k] + i <= q + len + l + 1
                         /\ ByteAt(at[k] + i)' = LineByte(k, i)'
                <5>1. at[k] + i <= q + len /\ ByteAt(at[k] + i) = LineByte(k, i)
                    BY <2>10, <4>1, <4>3
                <5>2. at[k] + i \in 1..(q + len)
                    BY <4>2, <4>3, <5>1
                <5>3. LineByte(k, i)' = LineByte(k, i)
                    BY <4>2 DEF LineByte
                <5> QED BY <2>4, <2>13, <5>1, <5>2, <5>3
            <4> QED BY <4>2, <4>3
        <3> QED BY <3>1, <3>2
    <2>16. LinesAt(at2)'
        <3>1. ToCome' = q + len + l + 1
            BY <2>4, <2>5, <2>7, <2>8 DEF ToCome
        <3> QED BY <2>4, <2>5, <2>6, <2>8, <2>12, <2>15, <3>1 DEF LinesAt
    <2>17. BeginningKept'
        <3>1. n <= f => msgPos <= jLengths'[n]
            <4>1. n = f => msgPos = 0
                BY <2>1, <2>10 DEF JsonTyped
            <4>2. n # f => n <= Len(jLengths) /\ jLengths'[n] = jLengths[n]
                BY <2>6
            <4> QED BY <2>1, <2>4, <2>5, <2>6, <4>1, <4>2 DEF BeginningKept
        <3> QED BY <2>1, <2>4, <2>5, <2>6, <2>8, <3>1 DEF BeginningKept
    <2>18. LastLineWhole'
        <3>1. jLine.number # 0 => jLengths'[jLine.number] = jLengths[jLine.number]
            <4>1. jLine.number \in 0..(f - 1)
                BY <2>1, <2>6 DEF JsonTyped
            <4>2. jLine.number # 0 => jLine.number \in 1..(f - 1)
                BY <4>1
            <4> QED BY <2>6, <4>2
        <3> QED BY <2>1, <2>4, <3>1 DEF LastLineWhole, Line
    <2> QED BY <2>9, <2>16, <2>17, <2>18 DEF JsonInv
<1> QED BY <1>1, <1>2

(* A read moves bytes from the FIFO to the buffer and loses none.          *)
LEMMA ReadKeepsLines ==
    ASSUME JsonInv, ReadPipe
    PROVE  JsonInv'
<1>1. CASE jCut
    BY <1>1 DEF ReadPipe, JsonInv
<1>2. CASE ~jCut
    <2>1. JsonTyped /\ BeginningKept /\ LastLineWhole
        BY <1>2 DEF JsonInv
    <2>2. PICK at : LinesAt(at)
        BY <1>2 DEF JsonInv
    <2>3. PICK c \in 1..READ_SIZE :
             /\ c <= Len(jPipe)
             /\ jBuf' = SubSeq(jPipe, 1, c)
             /\ jPipe' = SubSeq(jPipe, c + 1, Len(jPipe))
        BY DEF ReadPipe
    <2>4. /\ jBuf = <<>> /\ bufPos' = 0
          /\ UNCHANGED <<jLengths, msg, msgPos, jLine, jCut>>
        BY DEF ReadPipe
    <2>5. PICK len \in Nat : len = Len(jPipe)
        BY <2>1, CountsTyped
    <2>6. jPipe \in Seq(Bytes)
        BY <2>1 DEF JsonTyped
    <2>7. c \in 1..len
        BY <2>3, <2>5
    <2>8. /\ jBuf' \in Seq(Bytes)
          /\ Len(jBuf') = c
          /\ \A i \in 1..c : jBuf'[i] = jPipe[i]
        BY <2>3, <2>5, <2>6, <2>7
    <2>9. /\ jPipe' \in Seq(Bytes)
          /\ Len(jPipe') = len - c
          /\ \A i \in 1..(len - c) : jPipe'[i] = jPipe[c + i]
        <3>1. PICK d \in 1..(len + 1) : d = c + 1
            BY <2>7
        <3>2. jPipe' = SubSeq(jPipe, d, len)
            BY <2>3, <2>5, <3>1
        <3>3. SubSeq(jPipe, d, len) \in Seq(Bytes)
            BY <2>5, <2>6
        <3>4. Len(SubSeq(jPipe, d, len)) = len - c
            BY <2>5, <2>6, <2>7, <3>1
        <3>5. \A i \in 1..(len - c) : SubSeq(jPipe, d, len)[i] = jPipe[c + i]
            BY <2>5, <2>6, <2>7, <3>1
        <3> QED BY <3>2, <3>3, <3>4, <3>5
    <2>10. bufPos = 0 /\ Len(jBuf) = 0
        BY <2>1, <2>4 DEF JsonTyped
    <2>11. /\ Pending = 0 /\ Pending' = c
           /\ ToCome = len /\ ToCome' = len
        BY <2>4, <2>5, <2>7, <2>8, <2>9, <2>10 DEF Pending, ToCome
    <2>12. NextLine' = NextLine
        BY <2>4 DEF NextLine
    <2>13. JsonTyped'
        BY <2>1, <2>4, <2>7, <2>8, <2>9 DEF JsonTyped
    <2>14. \A x \in 1..len : ByteAt(x)' = ByteAt(x)
        <3>1. ASSUME NEW x \in 1..len
              PROVE  (IF x <= c THEN jBuf'[0 + x] ELSE jPipe'[x - c]) = jPipe[x - 0]
            <4>1. x - 0 = x /\ 0 + x = x
                BY <2>5
            <4>2. CASE x <= c
                <5>1. x \in 1..c
                    BY <2>7, <4>2
                <5> QED BY <2>8, <4>1, <4>2, <5>1
            <4>3. CASE ~(x <= c)
                <5>1. x - c \in 1..(len - c) /\ c + (x - c) = x
                    BY <2>5, <2>7, <4>3
                <5> QED BY <2>9, <4>1, <4>3, <5>1
            <4> QED BY <4>2, <4>3
        <3> QED BY <2>4, <2>5, <2>11, <3>1 DEF ByteAt
    <2>15. LinesAt(at)'
        <3>1. ASSUME NEW k \in NextLine..Len(jLengths), NEW i \in 1..(jLengths[k] + 1),
                     at[k] + i >= 1
              PROVE  at[k] + i <= len /\ ByteAt(at[k] + i)' = LineByte(k, i)'
            <4>1. at[k] + i <= len /\ ByteAt(at[k] + i) = LineByte(k, i)
                BY <2>2, <2>11, <3>1 DEF LinesAt
            <4>2. at[k] + i \in Int
                <5>1. /\ at \in [NextLine..(Len(jLengths) + 1) -> Int]
                      /\ k \in NextLine..(Len(jLengths) + 1)
                    BY <2>1, <2>2, CountsTyped DEF LinesAt
                <5>2. jLengths[k] + 1 \in Nat
                    <6>1. k \in 1..Len(jLengths)
                        BY <2>1, CountsTyped
                    <6> QED BY <2>1, <6>1 DEF JsonTyped
                <5> QED BY <5>1, <5>2
            <4>3. at[k] + i \in 1..len
                BY <2>5, <3>1, <4>1, <4>2
            <4>4. LineByte(k, i)' = LineByte(k, i)
                BY <2>4 DEF LineByte
            <4> QED BY <2>14, <4>1, <4>3, <4>4
        <3> QED BY <2>2, <2>4, <2>11, <2>12, <3>1 DEF LinesAt
    <2>16. BeginningKept' /\ LastLineWhole'
        BY <2>1, <2>4, <2>12 DEF BeginningKept, LastLineWhole
    <2> QED BY <2>13, <2>15, <2>16 DEF JsonInv
<1> QED BY <1>1, <1>2

(* The bytes before the first terminator.                                  *)
LEMMA StringUpTo ==
    ASSUME NEW array \in [1..MSG_SIZE -> Bytes], NEW l \in Nat, l < MSG_SIZE,
           array[l + 1] = Zero, \A i \in 1..l : array[i] # Zero
    PROVE  StringIn(array) = SubSeq(array, 1, l)
<1> DEFINE zeros == {i \in 1..MSG_SIZE : array[i] = Zero}
<1>1. l + 1 \in zeros
    BY JsonAssumption
<1>2. \A k \in zeros : l + 1 <= k
    <2>1. ASSUME NEW k \in zeros PROVE ~(k <= l)
        BY JsonAssumption
    <2> QED BY <2>1, JsonAssumption
<1>3. \A i \in zeros : (\A k \in zeros : i <= k) => i = l + 1
    BY <1>1, <1>2, JsonAssumption
<1>4. First(zeros) = l + 1
    <2> HIDE DEF zeros
    <2> QED BY <1>1, <1>2, <1>3 DEF First
<1>5. l + 1 - 1 = l
    OBVIOUS
<1>6. PICK c : c = First(zeros)
    OBVIOUS
<1>7. StringIn(array) = SubSeq(array, 1, c - 1)
    BY <1>6, Zenon DEF StringIn
<1>8. c = l + 1
    BY <1>4, <1>6, Zenon
<1> QED BY <1>5, <1>7, <1>8

(* A line is told apart from the next one by its newline, which is the     *)
(* first there is; what msg keeps of it is its beginning.                  *)
LEMMA DispatchKeepsLines ==
    ASSUME JsonInv, DispatchLine
    PROVE  JsonInv'
<1>1. CASE jCut
    BY <1>1 DEF DispatchLine, JsonInv
<1>2. CASE ~jCut
    <2>1. JsonTyped /\ BeginningKept /\ LastLineWhole
        BY <1>2 DEF JsonInv
    <2>2. PICK at : LinesAt(at)
        BY <1>2 DEF JsonInv
    <2>3. PICK b \in Nat, m \in Nat, len \in Nat, n \in Nat \ {0}, q \in Nat :
             /\ b = bufPos /\ m = msgPos /\ len = Len(jBuf) /\ n = NextLine
             /\ q = Pending
        <3>1. bufPos \in Nat /\ Len(jBuf) \in Nat
            BY <2>1 DEF JsonTyped
        <3> QED BY <2>1, <3>1, CountsTyped
    <2>4. q = len - b /\ b <= len /\ jBuf \in Seq(Bytes) /\ m <= MSG_SIZE
        BY <2>1, <2>3 DEF JsonTyped, Pending
    <2>5. PICK y \in Newlines : TRUE
        BY DEF DispatchLine
    <2>6. y \in (b + 1)..len /\ jBuf[y] = End
        BY <2>3, <2>5 DEF Newlines
    <2>7. q # 0
        BY <2>4, <2>6
    <2>8. /\ n \in 1..Len(jLengths)
          /\ jLengths[n] \in Nat
          /\ m <= jLengths[n]
          /\ \A x \in 1..q :
                /\ x <= jLengths[n] - m => jBuf[b + x] = <<n, m + x>>
                /\ x = jLengths[n] + 1 - m => jBuf[b + x] = End
        BY <2>1, <2>2, <2>3, <2>7, LineStands
    <2>9. PICK l \in Nat : l = jLengths[n]
        BY <2>8
    <2>10. PICK p \in Nat : p = l + 1 - m
        BY <2>8, <2>9
    <2>11. p \in 1..q
        <3>1. SUFFICES ASSUME ~(p <= q) PROVE FALSE
            BY <2>8, <2>9, <2>10
        <3>2. y - b \in 1..q /\ y - b <= l - m /\ b + (y - b) = y
            BY <2>4, <2>6, <2>10, <3>1
        <3>3. jBuf[y] = <<n, m + (y - b)>>
            BY <2>8, <2>9, <3>2
        <3> QED BY <2>6, <3>3 DEF End
    <2>12. b + p \in Newlines
        <3>1. b + p \in (b + 1)..len
            BY <2>4, <2>11
        <3>2. p = jLengths[n] + 1 - m
            BY <2>9, <2>10
        <3>3. jBuf[b + p] = End
            BY <2>8, <2>11, <3>2
        <3> QED BY <2>3, <3>1, <3>3 DEF Newlines
    <2>13. \A z \in Newlines : b + p <= z
        <3>1. ASSUME NEW z \in Newlines, ~(b + p <= z)
              PROVE  FALSE
            <4>1. z \in (b + 1)..len /\ jBuf[z] = End
                BY <2>3, <3>1 DEF Newlines
            <4>2. z - b \in 1..q /\ z - b <= l - m /\ b + (z - b) = z
                BY <2>4, <2>10, <3>1, <4>1
            <4>3. jBuf[z] = <<n, m + (z - b)>>
                BY <2>8, <2>9, <4>2
            <4> QED BY <4>1, <4>3 DEF End
        <3> QED BY <3>1
    <2>14. First(Newlines) = b + p
        <3>1. \A x \in Newlines : x \in Nat
            BY <2>3 DEF Newlines
        <3>2. \A x \in Newlines : (\A z \in Newlines : x <= z) => x = b + p
            BY <2>12, <2>13, <3>1
        <3> QED BY <2>12, <2>13, <3>2 DEF First
    <2>15. PICK array :
              array = [Copied(SubSeq(jBuf, b + 1, b + p - 1)) EXCEPT ![m + (b + p)] = Zero]
        OBVIOUS
    <2>16. /\ msg' = array
           /\ jLine' = [number |-> jLine.number + 1, content |-> StringIn(array),
                        first |-> b = 0]
           /\ bufPos' = b + p
           /\ msgPos' = 0
           /\ UNCHANGED <<jLengths, jPipe, jBuf, jCut>>
        <3>1. PICK i : i = First(Newlines)
            OBVIOUS
        <3>2. /\ msg' = [Copied(SubSeq(jBuf, b + 1, i - 1)) EXCEPT ![m + i] = Zero]
              /\ jLine' = [number |-> jLine.number + 1,
                           content |-> StringIn([Copied(SubSeq(jBuf, b + 1, i - 1))
                                                   EXCEPT ![m + i] = Zero]),
                           first |-> b = 0]
              /\ bufPos' = i
            BY <2>3, <3>1 DEF DispatchLine
        <3>3. msgPos' = 0 /\ UNCHANGED <<jLengths, jPipe, jBuf, jCut>>
            BY DEF DispatchLine, MsgPosAfterLine
        <3>4. i = b + p
            BY <2>14, <3>1
        <3> QED BY <2>15, <3>2, <3>3, <3>4
    <2>17. PICK copy : copy = Copied(SubSeq(jBuf, b + 1, b + p - 1))
        OBVIOUS
    <2>18. /\ copy \in [1..MSG_SIZE -> Bytes]
           /\ \A i \in 1..MSG_SIZE : i <= l => copy[i] = <<n, i>>
        <3>1. PICK kept : kept = SubSeq(jBuf, b + 1, b + p - 1)
            OBVIOUS
        <3>2. /\ Len(kept) = p - 1
              /\ \A x \in 1..(p - 1) : kept[x] = jBuf[b + x]
              /\ \A x \in 1..(p - 1) : kept[x] \in Bytes
            <4>1. /\ b + 1 \in 1..(len + 1) /\ b + p - 1 \in 0..len
                  /\ b + p - 1 - (b + 1) + 1 = p - 1 /\ p - 1 \in Nat
                BY <2>4, <2>11
            <4>2. /\ kept \in Seq(Bytes)
                  /\ Len(kept) = p - 1
                  /\ \A x \in 1..(p - 1) : kept[x] = jBuf[b + x]
                <5>1. PICK from \in Nat, to \in Nat : from = b + 1 /\ to = b + p - 1
                    BY <4>1
                <5>2. from \in 1..(len + 1) /\ to \in 0..len /\ to - from + 1 = p - 1
                    BY <4>1, <5>1
                <5>3. kept = SubSeq(jBuf, from, to)
                    BY <3>1, <5>1
                <5>4. Len(jBuf) = len /\ jBuf \in Seq(Bytes)
                    BY <2>3, <2>4
                <5>5. kept \in Seq(Bytes) /\ Len(kept) = p - 1
                    BY <4>1, <5>2, <5>3, <5>4
                <5>6. ASSUME NEW x \in 1..(p - 1)
                      PROVE  kept[x] = jBuf[b + x]
                    <6>1. kept[x] = jBuf[from + x - 1]
                        BY <4>1, <5>2, <5>3, <5>4
                    <6>2. from + x - 1 = b + x
                        BY <5>1
                    <6> QED BY <6>1, <6>2
                <5> QED BY <5>5, <5>6
            <4>3. \A x \in 1..(p - 1) : kept[x] \in Bytes
                BY <4>2
            <4> QED BY <4>2, <4>3
        <3>3. copy = [i \in 1..MSG_SIZE |->
                         IF i \in m + 1 .. m + (p - 1) THEN kept[i - m] ELSE msg[i]]
            BY <2>3, <2>17, <3>1, <3>2 DEF Copied
        <3>4. \A i \in 1..MSG_SIZE : i \in m + 1 .. m + (p - 1) => i - m \in 1..(p - 1)
            BY <2>11
        <3>5. msg \in [1..MSG_SIZE -> Bytes]
            BY <2>1 DEF JsonTyped
        <3>6. copy \in [1..MSG_SIZE -> Bytes]
            BY <3>2, <3>3, <3>4, <3>5
        <3>7. ASSUME NEW i \in 1..MSG_SIZE, i <= l
              PROVE  copy[i] = <<n, i>>
            <4>1. CASE i <= m
                <5>1. ~(i \in m + 1 .. m + (p - 1)) /\ i \in 1..m
                    BY <4>1, JsonAssumption
                <5>2. msg[i] = <<n, i>>
                    BY <2>1, <2>3, <5>1 DEF BeginningKept
                <5> QED BY <3>3, <5>1, <5>2
            <4>2. CASE ~(i <= m)
                <5>1. /\ i \in m + 1 .. m + (p - 1) /\ i - m \in 1..(p - 1)
                      /\ i - m \in 1..q /\ i - m <= l - m /\ m + (i - m) = i
                    BY <2>10, <2>11, <3>7, <4>2, JsonAssumption
                <5>2. copy[i] = jBuf[b + (i - m)]
                    BY <3>2, <3>3, <5>1
                <5>3. jBuf[b + (i - m)] = <<n, i>>
                    BY <2>8, <2>9, <5>1
                <5> QED BY <5>2, <5>3
            <4> QED BY <4>1, <4>2
        <3> QED BY <3>6, <3>7
    <2>19. array \in [1..MSG_SIZE -> Bytes]
        <3>1. Zero \in Bytes
            BY DEF Zero, Bytes
        <3>2. array = [copy EXCEPT ![m + (b + p)] = Zero]
            BY <2>15, <2>17
        <3> QED BY <2>18, <3>1, <3>2
    <2>20. NextLine' = n + 1 /\ jLine'.number = n /\ n <= Len(jLengths)
        BY <2>3, <2>8, <2>16 DEF NextLine
    <2>21. JsonTyped'
        <3>1. b + p \in 0..len
            BY <2>4, <2>11
        <3>2. n \in 0..Len(jLengths)
            BY <2>8
        <3> QED BY <2>1, <2>3, <2>16, <2>19, <2>20, <3>1, <3>2, JsonAssumption DEF JsonTyped
    <2>22. LastLineWhole'
        <3>1. SUFFICES ASSUME b = 0, l < MSG_SIZE
                       PROVE  StringIn(array) = Line(n, l)
            BY <2>3, <2>9, <2>16, <2>20 DEF LastLineWhole
        <3>2. m + (b + p) = l + 1 /\ l + 1 \in 1..MSG_SIZE
            BY <2>10, <3>1, JsonAssumption
        <3>3. array = [copy EXCEPT ![l + 1] = Zero]
            BY <2>15, <2>17, <3>2
        <3>4. array[l + 1] = Zero
            BY <2>18, <3>2, <3>3
        <3>5. \A i \in 1..l : array[i] = <<n, i>>
            <4>1. ASSUME NEW i \in 1..l
                  PROVE  array[i] = <<n, i>>
                <5>1. i \in 1..MSG_SIZE /\ i <= l /\ i # l + 1
                    BY <3>1, JsonAssumption
                <5> QED BY <2>18, <3>3, <5>1
            <4> QED BY <4>1
        <3>6. \A i \in 1..l : array[i] # Zero
            BY <3>5 DEF Zero
        <3>7. StringIn(array) = SubSeq(array, 1, l)
            BY <2>19, <3>1, <3>4, <3>6, StringUpTo
        <3>8. SubSeq(array, 1, l) = [i \in 1..l |-> array[i]]
            <4>1. array \in Seq(Bytes) /\ Len(array) = MSG_SIZE
                BY <2>19, JsonAssumption
            <4> QED BY <3>1, <4>1
        <3> QED BY <3>5, <3>7, <3>8 DEF Line
    <2>23. PICK f \in Nat, o \in Nat : f = Len(jLengths) + 1 /\ o = Len(jPipe)
        BY <2>1, CountsTyped
    <2>24. n \in 1..(f - 1) /\ n..Len(jLengths) = n..(f - 1)
        BY <2>1, <2>8, <2>23 DEF JsonTyped
    <2>25. /\ at \in [n..f -> Int]
           /\ at[n] = 0 - m
           /\ at[f] = q + o
           /\ \A k \in n..(f - 1) :
                 /\ at[k + 1] = at[k] + jLengths[k] + 1
                 /\ \A i \in 1..(jLengths[k] + 1) :
                       at[k] + i >= 1 => /\ at[k] + i <= q + o
                                         /\ ByteAt(at[k] + i) = LineByte(k, i)
        BY <2>2, <2>3, <2>23, <2>24 DEF LinesAt, ToCome
    <2>26. PICK at2 : at2 = [k \in (n + 1)..f |-> at[k] - p]
        OBVIOUS
    <2>27. /\ at2 \in [(n + 1)..f -> Int]
           /\ at2[n + 1] = 0
           /\ at2[f] = q + o - p
           /\ \A k \in (n + 1)..f : at2[k] = at[k] - p
        <3>1. at[n + 1] = p
            BY <2>9, <2>10, <2>24, <2>25
        <3>2. \A k \in (n + 1)..f : k \in n..f
            OBVIOUS
        <3>3. n + 1 \in (n + 1)..f /\ f \in (n + 1)..f
            BY <2>24
        <3> QED BY <2>25, <2>26, <3>1, <3>2, <3>3
    <2>28. Pending' = q - p /\ ToCome' = q + o - p
        BY <2>3, <2>4, <2>16, <2>23 DEF Pending, ToCome
    <2>29. ASSUME NEW x \in Int, x >= 1
           PROVE  ByteAt(x)' = ByteAt(x + p)
        <3>1. (IF x <= q - p THEN jBuf[b + p + x] ELSE jPipe[x - (q - p)])
                = (IF x + p <= q THEN jBuf[b + (x + p)] ELSE jPipe[x + p - q])
            <4>1. x <= q - p <=> x + p <= q
                OBVIOUS
            <4>2. b + p + x = b + (x + p) /\ x - (q - p) = x + p - q
                OBVIOUS
            <4> QED BY <4>1, <4>2
        <3> QED BY <2>3, <2>16, <2>28, <3>1 DEF ByteAt
    <2>30. ASSUME NEW k \in (n + 1)..(f - 1)
           PROVE  /\ at2[k + 1] = at2[k] + jLengths[k] + 1
                  /\ \A i \in 1..(jLengths[k] + 1) :
                        at2[k] + i >= 1 => /\ at2[k] + i <= q + o - p
                                           /\ ByteAt(at2[k] + i)' = LineByte(k, i)'
        <3>1. /\ k \in n..(f - 1) /\ k \in n..f /\ k \in (n + 1)..f
              /\ k + 1 \in (n + 1)..f /\ k \in 1..(f - 1)
            BY <2>24
        <3>2. at[k] \in Int /\ at2[k] = at[k] - p /\ at2[k + 1] = at[k + 1] - p
            BY <2>25, <2>27, <3>1
        <3>3. jLengths[k] \in Nat
            BY <2>1, <2>23, <3>1 DEF JsonTyped
        <3>4. ASSUME NEW i \in 1..(jLengths[k] + 1), at2[k] + i >= 1
              PROVE  /\ at2[k] + i <= q + o - p
                     /\ ByteAt(at2[k] + i)' = LineByte(k, i)'
            <4>1. /\ at2[k] + i \in Int
                  /\ at2[k] + i + p = at[k] + i
                  /\ at[k] + i >= 1
                BY <3>2, <3>3, <3>4
            <4>2. at[k] + i <= q + o /\ ByteAt(at[k] + i) = LineByte(k, i)
                BY <2>25, <3>1, <4>1
            <4>3. ByteAt(at2[k] + i)' = ByteAt(at[k] + i)
                <5>1. PICK x \in Int : x = at2[k] + i
                    BY <4>1
                <5>2. ByteAt(x)' = ByteAt(x + p)
                    BY <2>29, <3>4, <5>1
                <5> QED BY <4>1, <5>1, <5>2
            <4>4. LineByte(k, i)' = LineByte(k, i)
                BY <2>16 DEF LineByte
            <4> QED BY <4>1, <4>2, <4>3, <4>4
        <3>5. at[k + 1] = at[k] + jLengths[k] + 1
            BY <2>25, <3>1
        <3>6. at2[k + 1] = at2[k] + jLengths[k] + 1
            BY <3>2, <3>3, <3>5
        <3> QED BY <3>4, <3>6
    <2>31. LinesAt(at2)'
        <3>1. 0 - 0 = 0 /\ Len(jLengths) = f - 1
            BY <2>1, <2>23 DEF JsonTyped
        <3> QED BY <2>16, <2>20, <2>23, <2>27, <2>28, <2>30, <3>1 DEF LinesAt
    <2>32. BeginningKept'
        <3>1. n + 1 <= Len(jLengths) => 0 <= jLengths[n + 1]
            BY <2>1 DEF JsonTyped
        <3> QED BY <2>16, <2>20, <3>1 DEF BeginningKept
    <2> QED BY <2>21, <2>22, <2>31, <2>32 DEF JsonInv
<1> QED BY <1>1, <1>2

(* The bytes behind the last newline of a read are kept behind what msg    *)
(* has of their line, or the line is cut.                                  *)
LEMMA RestKeepsLines ==
    ASSUME JsonInv, KeepRest
    PROVE  JsonInv'
<1>1. CASE jCut
    BY <1>1 DEF KeepRest, JsonInv
<1>2. CASE jCut'
    BY <1>2 DEF JsonInv
<1>3. CASE ~jCut /\ ~jCut'
    <2>1. JsonTyped /\ BeginningKept /\ LastLineWhole
        BY <1>3 DEF JsonInv
    <2>2. PICK at : LinesAt(at)
        BY <1>3 DEF JsonInv
    <2>3. PICK b \in Nat, m \in Nat, len \in Nat, n \in Nat \ {0}, q \in Nat :
             /\ b = bufPos /\ m = msgPos /\ len = Len(jBuf) /\ n = NextLine
             /\ q = Pending
        <3>1. bufPos \in Nat /\ Len(jBuf) \in Nat
            BY <2>1 DEF JsonTyped
        <3> QED BY <2>1, <3>1, CountsTyped
    <2>4. q = len - b /\ b <= len /\ jBuf \in Seq(Bytes) /\ m <= MSG_SIZE
        BY <2>1, <2>3 DEF JsonTyped, Pending
    <2>5. PICK kept : kept = SubSeq(jBuf, b + 1, len)
        OBVIOUS
    <2>6. /\ kept \in Seq(Bytes)
          /\ Len(kept) = q
          /\ \A x \in 1..q : kept[x] = jBuf[b + x]
        BY <2>3, <2>4, <2>5
    <2>7. /\ msg' = Copied(kept)
          /\ m + q <= MSG_SIZE
          /\ msgPos' = m + q
          /\ jBuf' = <<>> /\ bufPos' = 0
          /\ UNCHANGED <<jLengths, jPipe, jLine>>
        <3>1. /\ msg' = Copied(kept)
              /\ IF m + Len(kept) > MSG_SIZE
                   THEN msgPos' = 0 /\ jCut' = TRUE
                   ELSE msgPos' = m + Len(kept) /\ jCut' = jCut
              /\ jBuf' = <<>> /\ bufPos' = 0
              /\ UNCHANGED <<jLengths, jPipe, jLine>>
            BY <2>3, <2>5 DEF KeepRest
        <3> QED BY <1>3, <2>6, <3>1, JsonAssumption
    <2>8. \/ q = 0
          \/ /\ n \in 1..Len(jLengths)
             /\ jLengths[n] \in Nat
             /\ m + q <= jLengths[n]
             /\ \A x \in 1..q : kept[x] = <<n, m + x>>
        <3>1. SUFFICES ASSUME q # 0
                       PROVE  /\ n \in 1..Len(jLengths)
                              /\ jLengths[n] \in Nat
                              /\ m + q <= jLengths[n]
                              /\ \A x \in 1..q : kept[x] = <<n, m + x>>
            OBVIOUS
        <3>2. /\ n \in 1..Len(jLengths)
              /\ jLengths[n] \in Nat
              /\ m <= jLengths[n]
              /\ \A x \in 1..q :
                    /\ x <= jLengths[n] - m => jBuf[b + x] = <<n, m + x>>
                    /\ x = jLengths[n] + 1 - m => jBuf[b + x] = End
            BY <2>1, <2>2, <2>3, <3>1, LineStands
        <3>3. PICK l \in Nat : l = jLengths[n]
            BY <3>2
        <3>4. m + q <= l
            <4>1. SUFFICES ASSUME ~(m + q <= l) PROVE FALSE
                OBVIOUS
            <4>2. PICK p \in 1..q : p = l + 1 - m
                BY <3>2, <3>3, <4>1
            <4>3. jBuf[b + p] = End
                BY <3>2, <3>3, <4>2
            <4>4. b + p \in (b + 1)..len
                BY <2>4, <4>2
            <4>5. b + p \in Newlines
                BY <2>3, <4>3, <4>4 DEF Newlines
            <4> QED BY <4>5 DEF KeepRest
        <3>5. ASSUME NEW x \in 1..q
              PROVE  kept[x] = <<n, m + x>>
            <4>1. x <= l - m
                BY <3>4
            <4> QED BY <2>6, <3>2, <3>3, <4>1
        <3> QED BY <3>2, <3>3, <3>4, <3>5
    <2>9. /\ msg' \in [1..MSG_SIZE -> Bytes]
          /\ \A i \in 1..(m + q) : msg'[i] = <<n, i>>
        <3>1. msg' = [i \in 1..MSG_SIZE |->
                         IF i \in m + 1 .. m + q THEN kept[i - m] ELSE msg[i]]
            BY <2>3, <2>6, <2>7 DEF Copied
        <3>2. \A x \in 1..q : kept[x] \in Bytes
            BY <2>6
        <3>3. \A i \in 1..MSG_SIZE : i \in m + 1 .. m + q => i - m \in 1..q
            OBVIOUS
        <3>4. msg \in [1..MSG_SIZE -> Bytes]
            BY <2>1 DEF JsonTyped
        <3>5. msg' \in [1..MSG_SIZE -> Bytes]
            BY <3>1, <3>2, <3>3, <3>4
        <3>6. ASSUME NEW i \in 1..(m + q)
              PROVE  msg'[i] = <<n, i>>
            <4>1. i \in 1..MSG_SIZE
                BY <2>7, JsonAssumption
            <4>2. CASE i <= m
                <5>1. i \in 1..m /\ ~(i \in m + 1 .. m + q)
                    BY <4>2
                <5>2. msg[i] = <<n, i>>
                    BY <2>1, <2>3, <5>1 DEF BeginningKept
                <5> QED BY <3>1, <4>1, <5>1, <5>2
            <4>3. CASE ~(i <= m)
                <5>1. i \in m + 1 .. m + q /\ i - m \in 1..q /\ m + (i - m) = i /\ q # 0
                    BY <4>3
                <5>2. kept[i - m] = <<n, m + (i - m)>>
                    BY <2>8, <5>1
                <5>3. msg'[i] = kept[i - m]
                    BY <3>1, <4>1, <5>1
                <5> QED BY <5>1, <5>2, <5>3
            <4> QED BY <4>2, <4>3
        <3> QED BY <3>5, <3>6
    <2>10. NextLine' = n
        BY <2>3, <2>7 DEF NextLine
    <2>11. JsonTyped'
        <3>1. m + q \in 0..MSG_SIZE
            BY <2>7, JsonAssumption
        <3>2. <<>> \in Seq(Bytes) /\ 0 \in 0..Len(<<>>)
            OBVIOUS
        <3> QED BY <2>1, <2>7, <2>9, <3>1, <3>2 DEF JsonTyped
    <2>12. BeginningKept'
        <3>1. n <= Len(jLengths) => m + q <= jLengths[n]
            <4>1. CASE q = 0
                BY <2>1, <2>3, <4>1 DEF BeginningKept
            <4>2. CASE q # 0
                BY <2>8, <4>2
            <4> QED BY <4>1, <4>2
        <3> QED BY <2>7, <2>9, <2>10, <3>1 DEF BeginningKept
    <2>13. LastLineWhole'
        BY <2>1, <2>7 DEF LastLineWhole
    <2>14. PICK f \in Nat, o \in Nat : f = Len(jLengths) + 1 /\ o = Len(jPipe)
        BY <2>1, CountsTyped
    <2>15. n \in 1..f /\ Len(jLengths) = f - 1
        BY <2>1, <2>3, <2>14 DEF JsonTyped, NextLine
    <2>16. /\ at \in [n..f -> Int]
           /\ at[n] = 0 - m
           /\ at[f] = q + o
           /\ \A k \in n..(f - 1) :
                 /\ at[k + 1] = at[k] + jLengths[k] + 1
                 /\ \A i \in 1..(jLengths[k] + 1) :
                       at[k] + i >= 1 => /\ at[k] + i <= q + o
                                         /\ ByteAt(at[k] + i) = LineByte(k, i)
        BY <2>2, <2>3, <2>14, <2>15 DEF LinesAt, ToCome
    <2>17. PICK at2 : at2 = [k \in n..f |-> at[k] - q]
        OBVIOUS
    <2>18. /\ at2 \in [n..f -> Int]
           /\ at2[n] = 0 - (m + q)
           /\ at2[f] = o
           /\ \A k \in n..f : at2[k] = at[k] - q
        <3>1. n \in n..f /\ f \in n..f
            BY <2>15
        <3> QED BY <2>16, <2>17, <3>1
    <2>19. Pending' = 0 /\ ToCome' = o
        <3>1. Len(<<>>) - 0 = 0 /\ 0 + o = o
            OBVIOUS
        <3> QED BY <2>7, <2>14, <3>1 DEF Pending, ToCome
    <2>20. ASSUME NEW x \in Int, x >= 1
           PROVE  ByteAt(x)' = ByteAt(x + q)
        <3>1. ~(x <= 0) /\ ~(x + q <= q) /\ x - 0 = x /\ x + q - q = x
            BY <2>20
        <3>2. (IF x <= 0 THEN jBuf'[bufPos' + x] ELSE jPipe[x - 0])
                = (IF x + q <= q THEN jBuf[bufPos + (x + q)] ELSE jPipe[x + q - q])
            BY <3>1
        <3> QED BY <2>3, <2>7, <2>19, <3>2 DEF ByteAt
    <2>21. ASSUME NEW k \in n..(f - 1)
           PROVE  /\ at2[k + 1] = at2[k] + jLengths[k] + 1
                  /\ \A i \in 1..(jLengths[k] + 1) :
                        at2[k] + i >= 1 => /\ at2[k] + i <= o
                                           /\ ByteAt(at2[k] + i)' = LineByte(k, i)'
        <3>1. k \in n..f /\ k + 1 \in n..f /\ k \in 1..(f - 1)
            BY <2>15
        <3>2. at[k] \in Int /\ at2[k] = at[k] - q /\ at2[k + 1] = at[k + 1] - q
            BY <2>16, <2>18, <3>1
        <3>3. jLengths[k] \in Nat
            <4>1. jLengths \in Seq(Nat)
                BY <2>1 DEF JsonTyped
            <4>2. k \in 1..Len(jLengths)
                BY <2>15, <3>1
            <4> QED BY <4>1, <4>2, ElementOfSeq
        <3>4. ASSUME NEW i \in 1..(jLengths[k] + 1), at2[k] + i >= 1
              PROVE  /\ at2[k] + i <= o
                     /\ ByteAt(at2[k] + i)' = LineByte(k, i)'
            <4>1. /\ at2[k] + i \in Int
                  /\ at2[k] + i + q = at[k] + i
                  /\ at[k] + i >= 1
                BY <3>2, <3>3, <3>4
            <4>2. at[k] + i <= q + o /\ ByteAt(at[k] + i) = LineByte(k, i)
                BY <2>16, <4>1
            <4>3. ByteAt(at2[k] + i)' = ByteAt(at[k] + i)
                <5>1. PICK x \in Int : x = at2[k] + i
                    BY <4>1
                <5>2. ByteAt(x)' = ByteAt(x + q)
                    BY <2>20, <3>4, <5>1
                <5> QED BY <4>1, <5>1, <5>2
            <4>4. LineByte(k, i)' = LineByte(k, i)
                BY <2>7 DEF LineByte
            <4> QED BY <4>1, <4>2, <4>3, <4>4
        <3>5. at[k + 1] = at[k] + jLengths[k] + 1
            BY <2>16, <3>1
        <3>6. at2[k + 1] = at2[k] + jLengths[k] + 1
            BY <3>2, <3>3, <3>5
        <3> QED BY <3>4, <3>6
    <2>22. LinesAt(at2)'
        BY <2>7, <2>10, <2>14, <2>15, <2>18, <2>19, <2>21 DEF LinesAt
    <2> QED BY <2>11, <2>12, <2>13, <2>22 DEF JsonInv
<1> QED BY <1>1, <1>2, <1>3

LEMMA JsonSteps == JsonInv /\ [JsonNext]_jVars => JsonInv'
<1> SUFFICES ASSUME JsonInv, [JsonNext]_jVars PROVE JsonInv'
    OBVIOUS
<1>1. CASE UNCHANGED jVars
    <2>1. /\ UNCHANGED <<jLengths, jPipe, jBuf, bufPos, msg, msgPos, jLine, jCut>>
          /\ UNCHANGED <<Pending, ToCome, NextLine>>
        BY <1>1 DEF jVars, Pending, ToCome, NextLine
    <2>2. \A at : LinesAt(at) => LinesAt(at)'
        BY <2>1 DEF LinesAt, ByteAt, LineByte
    <2> QED BY <2>1, <2>2 DEF JsonInv, JsonTyped, BeginningKept, LastLineWhole
<1>2. CASE DispatchOverrun
    <2>1. /\ UNCHANGED <<jLengths, jPipe, jBuf, bufPos, msg, msgPos, jLine, jCut>>
          /\ UNCHANGED <<Pending, ToCome, NextLine>>
        BY <1>2 DEF DispatchOverrun, Pending, ToCome, NextLine
    <2>2. \A at : LinesAt(at) => LinesAt(at)'
        BY <2>1 DEF LinesAt, ByteAt, LineByte
    <2> QED BY <2>1, <2>2 DEF JsonInv, JsonTyped, BeginningKept, LastLineWhole
<1> QED BY <1>1, <1>2, WriteKeepsLines, ReadKeepsLines, DispatchKeepsLines,
           RestKeepsLines DEF JsonNext

LEMMA LinesTold == JsonInv => FirstLinesWhole
BY DEF JsonInv, LastLineWhole, FirstLinesWhole
-----------------------------------------------------------------------------
(* The frames of an application.                                           *)

Frames == [length : Payloads, type : MessageTypes, parses : BOOLEAN]

AllParse == \A k \in DOMAIN frames : frames[k].parses

FrameSize(k) == HEADER_LENGTH_SIZE + frames[k].length

(* The frame whose bytes the reader takes now.                             *)
NextFrame == sLine.number + 1

(* Where it and those after it stand in the bytes still to come: frame k   *)
(* begins after byte at[k].                                                *)
StreamAt(at) ==
    /\ at \in [NextFrame..(Len(frames) + 1) -> Int]
    /\ at[NextFrame] = 0 - bytesAlreadyReceived
    /\ \A k \in NextFrame..Len(frames) :
          /\ at[k + 1] = at[k] + FrameSize(k)
          /\ \A i \in 1..FrameSize(k) :
                at[k] + i >= 1 => /\ at[k] + i <= Len(stream)
                                  /\ stream[at[k] + i] = <<k, i>>
    /\ Len(stream) = at[Len(frames) + 1]

SocketTyped ==
    /\ frames \in Seq(Frames)
    /\ stream \in Seq(Bytes)
    /\ payloadbuffer \in [1..BUFFER_SIZE -> Bytes]
    /\ bytesAlreadyReceived \in Nat
    /\ sLine.number \in 0..Len(frames)

(* A header is extracted with its last byte, and a frame dispatched with   *)
(* its last byte; so a length is known just when there is a payload of     *)
(* which something is missing.                                             *)
HeaderOrPayload ==
    \/ /\ payloadLength = 0
       /\ expectedAmountOfBytes = HEADER_LENGTH_SIZE
       /\ bytesAlreadyReceived < HEADER_LENGTH_SIZE
    \/ /\ NextFrame <= Len(frames)
       /\ payloadLength = frames[NextFrame].length
       /\ payloadLength # 0
       /\ expectedAmountOfBytes = FrameSize(NextFrame)
       /\ messageIdentifier = frames[NextFrame].type
       /\ bytesAlreadyReceived >= HEADER_LENGTH_SIZE
       /\ bytesAlreadyReceived < expectedAmountOfBytes

(* Of a frame that fits, the buffer has what was received.                 *)
BufferHasFrame ==
    expectedAmountOfBytes < BUFFER_SIZE =>
        \A i \in 1..bytesAlreadyReceived : payloadbuffer[i] = <<NextFrame, i>>

FrameTold ==
    LET n == sLine.number IN
    n > 0 => /\ sLine.type = frames[n].type
             /\ frames[n].length > 0 /\ FrameSize(n) < BUFFER_SIZE
                => sLine.data = BytesOf(n, HEADER_LENGTH_SIZE + 1, FrameSize(n))

SocketInv ==
    /\ frames \in Seq(Frames)
    /\ AllParse /\ ~overrun => /\ SocketTyped
                               /\ \E at : StreamAt(at)
                               /\ HeaderOrPayload
                               /\ BufferHasFrame
                               /\ FrameTold

LEMMA FrameSizes ==
    ASSUME SocketTyped, NEW k \in 1..Len(frames)
    PROVE  /\ frames[k].length \in Nat
           /\ FrameSize(k) = HEADER_LENGTH_SIZE + frames[k].length
           /\ FrameSize(k) \in Nat
           /\ HEADER_LENGTH_SIZE <= FrameSize(k)
<1>1. frames \in Seq(Frames)
    BY DEF SocketTyped
<1>2. frames[k] \in Frames
    BY <1>1
<1>3. frames[k].length \in Payloads
    BY <1>2 DEF Frames
<1>4. frames[k].length \in Nat /\ HEADER_LENGTH_SIZE \in Nat
    BY <1>3, SocketAssumption
<1>5. FrameSize(k) = HEADER_LENGTH_SIZE + frames[k].length
    BY DEF FrameSize
<1> QED BY <1>4, <1>5

LEMMA FrameCounts ==
    ASSUME SocketTyped
    PROVE  /\ NextFrame \in Nat \ {0}
           /\ NextFrame \in 1..(Len(frames) + 1)
           /\ Len(frames) \in Nat
           /\ Len(stream) \in Nat
           /\ bytesAlreadyReceived \in Nat
           /\ sLine.number \in Nat
<1>1. Len(frames) \in Nat /\ Len(stream) \in Nat
    BY DEF SocketTyped
<1>2. sLine.number \in 0..Len(frames) /\ bytesAlreadyReceived \in Nat
    BY DEF SocketTyped
<1> QED BY <1>1, <1>2 DEF NextFrame

LEMMA SocketStarts == SocketInit => SocketInv
<1> SUFFICES ASSUME SocketInit PROVE SocketInv
    OBVIOUS
<1>1. /\ frames = <<>> /\ stream = <<>> /\ bytesAlreadyReceived = 0
      /\ payloadLength = 0 /\ expectedAmountOfBytes = HEADER_LENGTH_SIZE
      /\ payloadbuffer = [i \in 1..BUFFER_SIZE |-> Unset]
      /\ sLine.number = 0
      /\ Len(frames) = 0 /\ Len(stream) = 0
    BY DEF SocketInit
<1>2. SocketTyped
    BY <1>1 DEF SocketTyped, Unset, Bytes
<1>3. NextFrame = 1
    BY <1>1 DEF NextFrame
<1>4. \E at : StreamAt(at)
    <2>1. PICK at : at = [k \in 1..1 |-> 0]
        OBVIOUS
    <2>2. at \in [1..1 -> Int] /\ at[1] = 0
        BY <2>1
    <2>3. NextFrame..Len(frames) = {} /\ NextFrame..(Len(frames) + 1) = 1..1
        BY <1>1, <1>3
    <2> QED BY <1>1, <1>3, <2>2, <2>3 DEF StreamAt
<1>5. HeaderOrPayload
    BY <1>1, SocketAssumption DEF HeaderOrPayload
<1>6. BufferHasFrame /\ FrameTold
    BY <1>1 DEF BufferHasFrame, FrameTold
<1> QED BY <1>2, <1>4, <1>5, <1>6 DEF SocketInv, SocketTyped

(* One more frame behind those on their way.                               *)
LEMMA SendFrameKeeps ==
    ASSUME SocketInv, SendFrame
    PROVE  SocketInv'
<1>1. PICK w \in Payloads, new \in Frames :
         /\ new.length = w
         /\ frames' = Append(frames, new)
         /\ stream' = stream \o BytesOf(Len(frames) + 1, 1, HEADER_LENGTH_SIZE + w)
    <2>1. PICK w \in Payloads, type \in MessageTypes, parses \in BOOLEAN :
             /\ frames' = Append(frames, [length |-> w, type |-> type, parses |-> parses])
             /\ stream' = stream \o BytesOf(Len(frames) + 1, 1, HEADER_LENGTH_SIZE + w)
        BY DEF SendFrame
    <2>2. PICK new : new = [length |-> w, type |-> type, parses |-> parses]
        OBVIOUS
    <2>3. new \in Frames /\ new.length = w
        BY <2>2 DEF Frames
    <2> QED BY <2>1, <2>2, <2>3
<1>2. UNCHANGED <<payloadbuffer, bytesAlreadyReceived, payloadLength,
                  expectedAmountOfBytes, messageIdentifier, sLine, overrun>>
    BY DEF SendFrame
<1>3. PICK f \in Nat \ {0} : f = Len(frames) + 1
    <2>1. Len(frames) + 1 \in Nat \ {0}
        BY DEF SocketInv
    <2> QED BY <2>1
<1>4. /\ frames' \in Seq(Frames)
      /\ Len(frames') = f
      /\ frames'[f] = new
      /\ \A k \in 1..(f - 1) : frames'[k] = frames[k]
      /\ DOMAIN frames = 1..(f - 1) /\ Len(frames) = f - 1
      /\ DOMAIN frames' = 1..f
    BY <1>1, <1>3 DEF SocketInv
<1>5. SUFFICES ASSUME AllParse, ~overrun
               PROVE  SocketTyped' /\ (\E at : StreamAt(at)') /\ HeaderOrPayload'
                         /\ BufferHasFrame' /\ FrameTold'
    <2>1. \A k \in 1..(f - 1) : k \in 1..f
        OBVIOUS
    <2>2. AllParse' => AllParse
        BY <1>4, <2>1 DEF AllParse
    <2> QED BY <1>2, <1>4, <1>5, <2>2 DEF SocketInv
<1>6. SocketTyped /\ HeaderOrPayload /\ BufferHasFrame /\ FrameTold
    BY <1>5 DEF SocketInv
<1>7. PICK at : StreamAt(at)
    BY <1>5 DEF SocketInv
<1>8. PICK size \in Nat, len \in Nat, n \in Nat \ {0}, r \in Nat :
         /\ size = HEADER_LENGTH_SIZE + w /\ len = Len(stream) /\ n = NextFrame
         /\ r = bytesAlreadyReceived
    <2>1. HEADER_LENGTH_SIZE + w \in Nat
        BY SocketAssumption
    <2> QED BY <1>6, <2>1, FrameCounts
<1>9. n \in 1..f
    BY <1>3, <1>6, <1>8, FrameCounts
<1>10. /\ stream' \in Seq(Bytes)
       /\ Len(stream') = len + size
       /\ \A j \in 1..len : stream'[j] = stream[j]
       /\ \A i \in 1..size : stream'[len + i] = <<f, i>>
    <2>1. PICK b : b = [i \in 1..size |-> <<f, i>>]
        OBVIOUS
    <2>2. b \in Seq(Bytes) /\ Len(b) = size
        <3>1. \A i \in 1..size : <<f, i>> \in Bytes
            BY DEF Bytes
        <3> QED BY <2>1, <3>1
    <2>3. BytesOf(f, 1, size) = b
        <3>1. size - 1 + 1 = size /\ \A i \in 1..size : 1 + i - 1 = i
            OBVIOUS
        <3> QED BY <2>1, <3>1 DEF BytesOf
    <2>4. stream' = stream \o b
        BY <1>1, <1>3, <1>8, <2>3
    <2>5. stream \in Seq(Bytes) /\ Len(stream) = len
        BY <1>6, <1>8 DEF SocketTyped
    <2>6. stream' \in Seq(Bytes) /\ Len(stream') = len + size
        <3>1. stream \o b \in Seq(Bytes) /\ Len(stream \o b) = Len(stream) + Len(b)
            BY <2>2, <2>5
        <3> QED BY <2>2, <2>4, <2>5, <3>1
    <2>7. \A j \in 1..len : stream'[j] = stream[j]
        BY <2>2, <2>4, <2>5
    <2>8. \A i \in 1..size : stream'[len + i] = b[i]
        <3>1. \A i \in 1..Len(b) : (stream \o b)[Len(stream) + i] = b[i]
            BY <2>2, <2>5
        <3> QED BY <2>2, <2>4, <2>5, <3>1
    <2> QED BY <2>1, <2>6, <2>7, <2>8
<1>11. NextFrame' = n
    BY <1>2, <1>8 DEF NextFrame
<1>12. SocketTyped'
    <2>1. \A k \in 0..(f - 1) : k \in 0..f
        OBVIOUS
    <2> QED BY <1>2, <1>4, <1>6, <1>10, <2>1 DEF SocketTyped
<1>13. ASSUME NEW k \in 1..(f - 1)
       PROVE  FrameSize(k)' = FrameSize(k) /\ FrameSize(k) \in Nat
    <2>1. k \in 1..Len(frames)
        BY <1>4
    <2> QED BY <1>4, <1>6, <2>1, FrameSizes DEF FrameSize
<1>14. FrameSize(f)' = size
    BY <1>1, <1>4, <1>8 DEF FrameSize
<1>15. \E at2 : StreamAt(at2)'
    <2>1. /\ at \in [n..f -> Int]
          /\ at[n] = 0 - r
          /\ at[f] = len
          /\ \A k \in n..(f - 1) :
                /\ at[k + 1] = at[k] + FrameSize(k)
                /\ \A i \in 1..FrameSize(k) :
                      at[k] + i >= 1 => /\ at[k] + i <= len
                                        /\ stream[at[k] + i] = <<k, i>>
        BY <1>3, <1>4, <1>7, <1>8 DEF StreamAt
    <2>2. PICK at2 : at2 = [k \in n..(f + 1) |-> IF k = f + 1 THEN len + size ELSE at[k]]
        OBVIOUS
    <2>3. /\ at2 \in [n..(f + 1) -> Int]
          /\ at2[n] = 0 - r
          /\ at2[f + 1] = len + size
          /\ at2[f] = len
          /\ \A k \in n..(f - 1) : at2[k] = at[k] /\ at2[k + 1] = at[k + 1]
        BY <1>9, <2>1, <2>2
    <2>4. ASSUME NEW k \in n..f
          PROVE  /\ at2[k + 1] = at2[k] + FrameSize(k)'
                 /\ \A i \in 1..FrameSize(k)' :
                       at2[k] + i >= 1 => /\ at2[k] + i <= len + size
                                          /\ stream'[at2[k] + i] = <<k, i>>
        <3>1. CASE k = f
            BY <1>10, <1>14, <2>3, <3>1
        <3>2. CASE k # f
            <4>1. k \in n..(f - 1) /\ k \in 1..(f - 1) /\ k \in n..f
                BY <1>9, <3>2
            <4>2. /\ at2[k + 1] = at2[k] + FrameSize(k)
                  /\ at2[k] = at[k] /\ at[k] \in Int
                  /\ FrameSize(k)' = FrameSize(k) /\ FrameSize(k) \in Nat
                BY <1>13, <2>1, <2>3, <4>1
            <4>3. ASSUME NEW i \in 1..FrameSize(k), at[k] + i >= 1
                  PROVE  at[k] + i <= len + size /\ stream'[at[k] + i] = <<k, i>>
                <5>1. at[k] + i <= len /\ stream[at[k] + i] = <<k, i>>
                    BY <2>1, <4>1, <4>3
                <5>2. at[k] + i \in 1..len
                    BY <4>2, <4>3, <5>1
                <5> QED BY <1>10, <5>1, <5>2
            <4> QED BY <4>2, <4>3
        <3> QED BY <3>1, <3>2
    <2>5. /\ Len(frames') = f /\ Len(stream') = len + size
          /\ bytesAlreadyReceived' = r /\ NextFrame' = n
        BY <1>2, <1>4, <1>8, <1>10, <1>11
    <2>6. StreamAt(at2)'
        BY <2>3, <2>4, <2>5 DEF StreamAt
    <2> QED BY <2>6
<1>16. n <= Len(frames) => /\ n <= Len(frames')
                           /\ frames'[n] = frames[n]
                           /\ FrameSize(n)' = FrameSize(n)
    <2>1. n <= Len(frames) => n \in 1..(f - 1) /\ n <= f
        BY <1>4, <1>9
    <2> QED BY <1>4, <1>13, <2>1
<1>17. HeaderOrPayload'
    BY <1>2, <1>6, <1>8, <1>11, <1>16 DEF HeaderOrPayload
<1>18. BufferHasFrame'
    BY <1>2, <1>6, <1>8, <1>11 DEF BufferHasFrame
<1>19. FrameTold'
    <2>1. sLine.number > 0 => sLine.number \in 1..(f - 1)
        BY <1>4, <1>6 DEF SocketTyped
    <2>2. sLine.number > 0 => /\ frames'[sLine.number] = frames[sLine.number]
                              /\ FrameSize(sLine.number)' = FrameSize(sLine.number)
        <3>1. PICK m : m = sLine.number
            OBVIOUS
        <3>2. m > 0 => frames'[m] = frames[m]
            BY <1>4, <2>1, <3>1
        <3> QED BY <1>2, <3>1, <3>2 DEF FrameSize
    <2> QED BY <1>2, <1>6, <2>2 DEF FrameTold, BytesOf
<1> QED BY <1>12, <1>15, <1>17, <1>18, <1>19

(* Whatever there is to read begins with the rest of the next frame.       *)
LEMMA FrameStands ==
    ASSUME SocketTyped, NEW at, StreamAt(at), NEW count \in 1..Len(stream)
    PROVE  /\ NextFrame \in 1..Len(frames)
           /\ bytesAlreadyReceived + count <= FrameSize(NextFrame) =>
                 \A j \in 1..count :
                    stream[j] = <<NextFrame, bytesAlreadyReceived + j>>
<1>1. PICK n \in Nat \ {0}, r \in Nat, f \in Nat, len \in Nat :
         /\ n = NextFrame /\ r = bytesAlreadyReceived /\ f = Len(frames)
         /\ len = Len(stream)
    BY FrameCounts
<1>2. n \in 1..(f + 1)
    BY <1>1, FrameCounts
<1>3. /\ at[n] = 0 - r
      /\ at[f + 1] = len
      /\ \A k \in n..f : \A i \in 1..FrameSize(k) :
            at[k] + i >= 1 => stream[at[k] + i] = <<k, i>>
    BY <1>1 DEF StreamAt
<1>4. n \in 1..f
    <2>1. n # f + 1
        BY <1>1, <1>3
    <2> QED BY <1>2, <2>1
<1>5. ASSUME r + count <= FrameSize(n), NEW j \in 1..count
      PROVE  stream[j] = <<n, r + j>>
    <2>1. FrameSize(n) \in Nat
        BY <1>1, <1>4, FrameSizes
    <2>2. r + j \in 1..FrameSize(n) /\ at[n] + (r + j) = j /\ j >= 1 /\ n \in n..f
        BY <1>1, <1>3, <1>4, <1>5, <2>1
    <2>3. at[n] + (r + j) >= 1 => stream[at[n] + (r + j)] = <<n, r + j>>
        BY <1>3, <2>2
    <2> QED BY <2>2, <2>3
<1> QED BY <1>1, <1>4, <1>5

(* A read leaves the rest of the frame, or the frames after it.            *)
LEMMA BytesMove ==
    ASSUME SocketTyped, NEW at, StreamAt(at), NEW count \in 1..Len(stream),
           bytesAlreadyReceived + count <= FrameSize(NextFrame),
           stream' = SubSeq(stream, count + 1, Len(stream)), frames' = frames,
           \/ /\ NextFrame' = NextFrame
              /\ bytesAlreadyReceived' = bytesAlreadyReceived + count
           \/ /\ NextFrame' = NextFrame + 1
              /\ bytesAlreadyReceived' = 0
              /\ bytesAlreadyReceived + count = FrameSize(NextFrame)
    PROVE  /\ stream' \in Seq(Bytes)
           /\ \E at2 : StreamAt(at2)'
<1>1. PICK n \in Nat \ {0}, r \in Nat, f \in Nat, len \in Nat :
         /\ n = NextFrame /\ r = bytesAlreadyReceived /\ f = Len(frames)
         /\ len = Len(stream)
    BY FrameCounts
<1>2. n \in 1..f
    BY <1>1, FrameStands
<1>3. PICK size \in Nat : size = FrameSize(n)
    BY <1>1, <1>2, FrameSizes
<1>4. PICK next \in Nat, left \in Nat : next = NextFrame' /\ left = bytesAlreadyReceived'
    <2>1. n + 1 \in Nat /\ r + count \in Nat
        BY <1>1
    <2> QED BY <1>1, <2>1
<1>5. \/ next = n /\ left = r + count
      \/ next = n + 1 /\ left = 0 /\ r + count = size
    BY <1>1, <1>3, <1>4
<1>6. /\ stream' \in Seq(Bytes)
      /\ Len(stream') = len - count
      /\ \A j \in 1..(len - count) : stream'[j] = stream[j + count]
    <2>1. stream \in Seq(Bytes) /\ stream' = SubSeq(stream, count + 1, len)
        BY <1>1 DEF SocketTyped
    <2> QED BY <1>1, <2>1
<1>7. /\ at \in [n..(f + 1) -> Int]
      /\ at[n] = 0 - r
      /\ at[f + 1] = len
      /\ \A k \in n..f :
            /\ at[k + 1] = at[k] + FrameSize(k)
            /\ \A i \in 1..FrameSize(k) :
                  at[k] + i >= 1 => /\ at[k] + i <= len
                                    /\ stream[at[k] + i] = <<k, i>>
    BY <1>1 DEF StreamAt
<1>8. PICK at2 : at2 = [k \in next..(f + 1) |-> at[k] - count]
    OBVIOUS
<1>9. next \in n..(f + 1)
    BY <1>2, <1>5
<1>10. /\ at2 \in [next..(f + 1) -> Int]
       /\ at2[next] = 0 - left
       /\ at2[f + 1] = len - count
       /\ \A k \in next..(f + 1) : at2[k] = at[k] - count
    <2>1. \A k \in next..(f + 1) : k \in n..(f + 1)
        BY <1>9
    <2>2. \A k \in next..(f + 1) : at2[k] = at[k] - count
        BY <1>8
    <2>3. at2 \in [next..(f + 1) -> Int]
        BY <1>1, <1>7, <1>8, <2>1
    <2>4. next \in next..(f + 1) /\ f + 1 \in next..(f + 1)
        BY <1>9
    <2>5. at2[next] = 0 - left
        <3>1. CASE next = n /\ left = r + count
            BY <1>1, <1>7, <2>2, <2>4, <3>1
        <3>2. CASE next = n + 1 /\ left = 0 /\ r + count = size
            <4>1. at[n + 1] = at[n] + size
                BY <1>2, <1>3, <1>7
            <4>2. at2[next] = at[n + 1] - count
                BY <2>2, <2>4, <3>2
            <4> QED BY <1>1, <1>3, <1>7, <3>2, <4>1, <4>2
        <3> QED BY <1>5, <3>1, <3>2
    <2> QED BY <1>7, <2>2, <2>3, <2>4, <2>5
<1>11. ASSUME NEW k \in next..f
       PROVE  /\ at2[k + 1] = at2[k] + FrameSize(k)
              /\ \A i \in 1..FrameSize(k) :
                    at2[k] + i >= 1 => /\ at2[k] + i <= len - count
                                       /\ stream'[at2[k] + i] = <<k, i>>
    <2>1. /\ k \in n..f /\ k \in 1..f /\ k \in next..(f + 1)
          /\ k + 1 \in next..(f + 1) /\ k \in n..(f + 1)
        BY <1>2, <1>9
    <2>2. at2[k] = at[k] - count /\ at2[k + 1] = at[k + 1] - count /\ at[k] \in Int
        BY <1>7, <1>10, <2>1
    <2>3. FrameSize(k) \in Nat
        BY <1>1, <2>1, FrameSizes
    <2>4. at2[k + 1] = at2[k] + FrameSize(k)
        <3>1. at[k + 1] = at[k] + FrameSize(k)
            BY <1>7, <2>1
        <3> QED BY <1>1, <2>2, <2>3, <3>1
    <2>5. ASSUME NEW i \in 1..FrameSize(k), at2[k] + i >= 1
          PROVE  at2[k] + i <= len - count /\ stream'[at2[k] + i] = <<k, i>>
        <3>1. at[k] + i >= 1 /\ at[k] + i \in Int
            BY <1>1, <2>2, <2>3, <2>5
        <3>2. at[k] + i <= len /\ stream[at[k] + i] = <<k, i>>
            BY <1>7, <2>1, <3>1
        <3>3. PICK x \in Int : x = at[k] + i
            BY <3>1
        <3>4. at2[k] + i = x - count
            <4>1. at[k] \in Int /\ at2[k] = at[k] - count /\ count \in Nat /\ i \in Nat
                BY <1>1, <2>2, <2>3
            <4>2. PICK z \in Int : z = at[k]
                BY <4>1
            <4> QED BY <3>3, <4>1, <4>2
        <3>5. x - count \in 1..(len - count) /\ x - count + count = x
            <4>1. x <= len
                BY <3>2, <3>3
            <4>2. x - count >= 1
                BY <2>5, <3>4
            <4> QED BY <1>1, <4>1, <4>2
        <3>6. stream'[x - count] = stream[x - count + count]
            BY <1>6, <3>5
        <3>7. stream'[x - count] = <<k, i>>
            BY <3>2, <3>3, <3>5, <3>6
        <3>8. PICK y : y = x - count
            OBVIOUS
        <3>9. y \in 1..(len - count) /\ stream'[y] = <<k, i>> /\ at2[k] + i = y
            BY <3>4, <3>5, <3>7, <3>8
        <3>10. y <= len - count
            BY <3>9
        <3> QED BY <3>9, <3>10
    <2> QED BY <2>4, <2>5
<1>12. \A k \in next..f : FrameSize(k)' = FrameSize(k)
    BY DEF FrameSize
<1>13. StreamAt(at2)'
    <2>1. /\ at2 \in [NextFrame'..(Len(frames') + 1) -> Int]
          /\ at2[NextFrame'] = 0 - bytesAlreadyReceived'
          /\ Len(stream') = at2[Len(frames') + 1]
        BY <1>1, <1>4, <1>6, <1>10
    <2>2. \A k \in NextFrame'..Len(frames') :
             /\ at2[k + 1] = at2[k] + FrameSize(k)'
             /\ \A i \in 1..FrameSize(k)' :
                   at2[k] + i >= 1 => /\ at2[k] + i <= Len(stream')
                                      /\ stream'[at2[k] + i] = <<k, i>>
        BY <1>1, <1>4, <1>6, <1>11, <1>12
    <2> QED BY <2>1, <2>2 DEF StreamAt
<1> QED BY <1>6, <1>13

(* The string up to the first terminator.                                  *)
LEMMA StringBetween ==
    ASSUME NEW b \in [1..BUFFER_SIZE -> Bytes],
           NEW from \in Nat \ {0}, NEW end \in from..BUFFER_SIZE,
           b[end] = Nul, \A i \in from..(end - 1) : b[i] # Nul
    PROVE  StringFrom(b, from) = SubSeq(b, from, end - 1)
<1> DEFINE ends == {i \in from..BUFFER_SIZE : b[i] = Nul}
<1>1. end \in ends /\ end \in Nat
    BY SocketAssumption
<1>2. \A k \in ends : end <= k
    <2>1. ASSUME NEW k \in ends, ~(end <= k) PROVE FALSE
        <3>1. k \in from..(end - 1) /\ b[k] = Nul
            BY <2>1, SocketAssumption
        <3> QED BY <3>1
    <2> QED BY <2>1
<1>3. \A i \in ends : i \in Nat
    BY SocketAssumption
<1>4. \A i \in ends : (\A k \in ends : i <= k) => i = end
    <2> HIDE DEF ends
    <2> QED BY <1>1, <1>2, <1>3
<1>5. PICK c : c = CHOOSE i \in ends : \A k \in ends : i <= k
    OBVIOUS
<1>6. c = end
    <2> HIDE DEF ends
    <2> QED BY <1>1, <1>2, <1>4, <1>5
<1>7. StringFrom(b, from) = SubSeq(b, from, c - 1)
    <2>1. ends # {}
        BY <1>1
    <2> QED BY <1>5, <2>1, Zenon DEF StringFrom
<1> QED BY <1>6, <1>7

(* The bytes of a header are those of one frame only.                      *)
LEMMA HeaderFound ==
    ASSUME NEW b \in [1..BUFFER_SIZE -> Bytes], NEW n \in DOMAIN frames,
           frames[n].parses,
           \A i \in 1..HEADER_LENGTH_SIZE : b[i] = <<n, i>>
    PROVE  HeaderIn(b) = {n}
<1> DEFINE head == SubSeq(b, 1, HEADER_LENGTH_SIZE)
<1>1. PICK h \in Nat : h = HEADER_LENGTH_SIZE /\ h >= 1 /\ h <= BUFFER_SIZE
    BY SocketAssumption
<1>2. head = [i \in 1..h |-> b[i]]
    <2>1. b \in Seq(Bytes) /\ Len(b) = BUFFER_SIZE
        BY SocketAssumption
    <2> QED BY <1>1, <2>1, SocketAssumption
<1>3. \A k : BytesOf(k, 1, HEADER_LENGTH_SIZE) = [i \in 1..h |-> <<k, i>>]
    <2>1. h - 1 + 1 = h /\ \A i \in 1..h : 1 + i - 1 = i
        OBVIOUS
    <2> QED BY <1>1, <2>1 DEF BytesOf
<1>4. head = BytesOf(n, 1, HEADER_LENGTH_SIZE)
    <2>1. \A i \in 1..h : b[i] = <<n, i>>
        BY <1>1
    <2>2. [i \in 1..h |-> b[i]] = [i \in 1..h |-> <<n, i>>]
        BY <2>1
    <2> QED BY <1>2, <1>3, <2>2
<1>5. ASSUME NEW k, head = BytesOf(k, 1, HEADER_LENGTH_SIZE)
      PROVE  k = n
    <2>1. [i \in 1..h |-> <<k, i>>] = [i \in 1..h |-> <<n, i>>]
        BY <1>3, <1>4, <1>5
    <2>2. 1 \in 1..h
        BY <1>1
    <2>3. <<k, 1>> = <<n, 1>>
        BY <2>1, <2>2
    <2> QED BY <2>3
<1> HIDE DEF head
<1>6. \A k \in DOMAIN frames :
          frames[k].parses /\ head = BytesOf(k, 1, HEADER_LENGTH_SIZE) <=> k = n
    BY <1>4, <1>5
<1>7. HeaderIn(b) = {k \in DOMAIN frames : k = n}
    BY <1>6, Zenon DEF HeaderIn, head
<1> QED BY <1>7

(* A read puts its bytes where the frame goes on, if the frame fits.       *)
LEMMA BytesBuffered ==
    ASSUME SocketTyped, HeaderOrPayload, BufferHasFrame, NEW at, StreamAt(at),
           NEW count \in 1..Len(stream),
           bytesAlreadyReceived + count <= expectedAmountOfBytes,
           NEW from \in Nat,
           expectedAmountOfBytes < BUFFER_SIZE => from = bytesAlreadyReceived,
           payloadbuffer' =
              [i \in 1..BUFFER_SIZE |->
                  IF i = from + count + 1 THEN Nul
                  ELSE IF i \in from + 1 .. from + count
                  THEN stream[i - from] ELSE payloadbuffer[i]]
    PROVE  /\ NextFrame \in 1..Len(frames)
           /\ expectedAmountOfBytes <= FrameSize(NextFrame)
           /\ expectedAmountOfBytes \in Nat
           /\ payloadbuffer' \in [1..BUFFER_SIZE -> Bytes]
           /\ expectedAmountOfBytes < BUFFER_SIZE =>
                 /\ \A i \in 1..(bytesAlreadyReceived + count) :
                       payloadbuffer'[i] = <<NextFrame, i>>
                 /\ payloadbuffer'[bytesAlreadyReceived + count + 1] = Nul
<1>1. PICK n \in Nat \ {0}, r \in Nat, f \in Nat, len \in Nat :
         /\ n = NextFrame /\ r = bytesAlreadyReceived /\ f = Len(frames)
         /\ len = Len(stream)
    BY FrameCounts
<1>2. n \in 1..f
    BY <1>1, FrameStands
<1>3. PICK size \in Nat : size = FrameSize(n) /\ HEADER_LENGTH_SIZE <= size
    BY <1>1, <1>2, FrameSizes
<1>4. PICK e \in Nat : e = expectedAmountOfBytes /\ e <= size
    <2>1. HEADER_LENGTH_SIZE \in Nat
        BY SocketAssumption
    <2> QED BY <1>1, <1>3, <2>1 DEF HeaderOrPayload
<1>5. \A j \in 1..count : stream[j] = <<n, r + j>>
    <2>1. r + count <= size
        BY <1>1, <1>3, <1>4
    <2> QED BY <1>1, <1>3, <2>1, FrameStands
<1>6. payloadbuffer' \in [1..BUFFER_SIZE -> Bytes]
    <2>1. ASSUME NEW i \in 1..BUFFER_SIZE
          PROVE  (IF i = from + count + 1 THEN Nul
                  ELSE IF i \in from + 1 .. from + count
                  THEN stream[i - from] ELSE payloadbuffer[i]) \in Bytes
        <3>1. Nul \in Bytes
            BY DEF Nul, Bytes
        <3>2. payloadbuffer[i] \in Bytes
            BY DEF SocketTyped
        <3>3. ASSUME i \in from + 1 .. from + count
              PROVE  stream[i - from] \in Bytes
            <4>1. i - from \in 1..count
                BY <1>1, <3>3
            <4>2. stream[i - from] = <<n, r + (i - from)>>
                BY <1>5, <4>1
            <4> QED BY <1>1, <4>1, <4>2 DEF Bytes
        <3> QED BY <3>1, <3>2, <3>3
    <2> QED BY <2>1
<1>7. ASSUME e < BUFFER_SIZE
      PROVE  /\ \A i \in 1..(r + count) : payloadbuffer'[i] = <<n, i>>
             /\ payloadbuffer'[r + count + 1] = Nul
    <2>1. r + count + 1 \in 1..BUFFER_SIZE /\ from = r
        BY <1>1, <1>4, <1>7, SocketAssumption
    <2>2. ASSUME NEW i \in 1..(r + count)
          PROVE  payloadbuffer'[i] = <<n, i>>
        <3>1. i \in 1..BUFFER_SIZE /\ i # r + count + 1
            BY <1>1, <2>1, SocketAssumption
        <3>2. payloadbuffer'[i] = IF i \in r + 1 .. r + count
                                    THEN stream[i - r] ELSE payloadbuffer[i]
            BY <2>1, <3>1
        <3>3. CASE i <= r
            <4>1. ~(i \in r + 1 .. r + count) /\ i \in 1..r
                BY <1>1, <3>3
            <4>2. payloadbuffer[i] = <<n, i>>
                BY <1>1, <1>4, <1>7, <4>1 DEF BufferHasFrame
            <4> QED BY <3>2, <4>1, <4>2
        <3>4. CASE ~(i <= r)
            <4>1. i \in r + 1 .. r + count /\ i - r \in 1..count /\ r + (i - r) = i
                BY <1>1, <3>4
            <4>2. stream[i - r] = <<n, r + (i - r)>>
                BY <1>5, <4>1
            <4> QED BY <3>2, <4>1, <4>2
        <3> QED BY <3>3, <3>4
    <2> QED BY <2>1, <2>2
<1> QED BY <1>1, <1>2, <1>3, <1>4, <1>6, <1>7

(* The last byte of a frame makes a message of it.                         *)
LEMMA FrameDispatched ==
    ASSUME SocketInv, AllParse, ~overrun, NEW at, StreamAt(at),
           NEW count \in 1..Len(stream),
           bytesAlreadyReceived + count = FrameSize(NextFrame),
           stream' = SubSeq(stream, count + 1, Len(stream)), frames' = frames,
           payloadbuffer' \in [1..BUFFER_SIZE -> Bytes],
           FrameSize(NextFrame) < BUFFER_SIZE =>
              /\ \A i \in 1..FrameSize(NextFrame) :
                    payloadbuffer'[i] = <<NextFrame, i>>
              /\ payloadbuffer'[FrameSize(NextFrame) + 1] = Nul,
           sLine' = [number |-> sLine.number + 1,
                     type |-> frames[NextFrame].type,
                     data |-> StringFrom(payloadbuffer',
                                 IF frames[NextFrame].length > 0
                                   THEN HEADER_LENGTH_SIZE + 1 ELSE 1)],
           ResetCounters
    PROVE  SocketInv'
<1>1. SocketTyped
    BY DEF SocketInv
<1>2. PICK n \in Nat \ {0}, f \in Nat :
         n = NextFrame /\ f = Len(frames) /\ n = sLine.number + 1
    BY <1>1, FrameCounts DEF NextFrame
<1>3. n \in 1..f
    BY <1>1, <1>2, FrameStands
<1>4. /\ bytesAlreadyReceived' = 0 /\ payloadLength' = 0
      /\ expectedAmountOfBytes' = HEADER_LENGTH_SIZE
    BY DEF ResetCounters
<1>5. sLine'.number = n /\ sLine'.type = frames[n].type
    BY <1>2
<1>6. NextFrame' = NextFrame + 1
    BY <1>2, <1>5 DEF NextFrame
<1>7. stream' \in Seq(Bytes) /\ \E at2 : StreamAt(at2)'
    <2>1. bytesAlreadyReceived + count <= FrameSize(NextFrame)
        BY <1>1, <1>2, <1>3, FrameSizes
    <2> QED BY <1>1, <1>4, <1>6, <2>1, BytesMove
<1>8. SocketTyped'
    <2>1. n \in 0..f
        BY <1>3
    <2> QED BY <1>1, <1>2, <1>4, <1>5, <1>7, <2>1 DEF SocketTyped
<1>9. HeaderOrPayload' /\ BufferHasFrame'
    BY <1>4, SocketAssumption DEF HeaderOrPayload, BufferHasFrame
<1>10. FrameTold'
    <2>1. PICK size \in Nat, h \in Nat \ {0} :
             /\ size = FrameSize(n) /\ h = HEADER_LENGTH_SIZE
             /\ size = h + frames[n].length
        BY <1>1, <1>2, <1>3, FrameSizes, SocketAssumption
    <2>2. FrameSize(n)' = size
        BY <2>1 DEF FrameSize
    <2>3. SUFFICES ASSUME frames[n].length > 0, size < BUFFER_SIZE
                   PROVE  sLine'.data = BytesOf(n, h + 1, size)
        BY <1>5, <2>1, <2>2 DEF FrameTold
    <2>4. PICK b : b = payloadbuffer'
        OBVIOUS
    <2>5. /\ b \in [1..BUFFER_SIZE -> Bytes]
          /\ \A i \in 1..size : b[i] = <<n, i>>
          /\ b[size + 1] = Nul
        BY <1>2, <2>1, <2>3, <2>4
    <2>6. sLine'.data = StringFrom(b, h + 1)
        BY <1>2, <2>1, <2>3, <2>4
    <2>7. PICK from \in Nat \ {0}, end \in Nat :
             from = h + 1 /\ end = size + 1
        <3>1. h + 1 \in Nat \ {0} /\ size + 1 \in Nat
            BY <2>1
        <3> QED BY <3>1
    <2>8. end \in from..BUFFER_SIZE /\ end - 1 = size /\ BUFFER_SIZE \in Nat
        <3>1. frames[n].length \in Nat
            BY <1>1, <1>2, <1>3, FrameSizes
        <3>2. from <= end
            <4>1. h \in Nat /\ size \in Nat /\ h <= size
                BY <2>1, <2>3, <3>1
            <4> QED BY <2>7, <4>1
        <3>3. end <= BUFFER_SIZE /\ BUFFER_SIZE \in Nat
            BY <2>3, <2>7, SocketAssumption
        <3> QED BY <2>7, <3>2, <3>3
    <2>9. \A i \in from..(end - 1) : b[i] # Nul
        <3>1. ASSUME NEW i \in from..(end - 1)
              PROVE  b[i] # Nul
            <4>1. i \in 1..size
                BY <2>8
            <4>2. b[i] = <<n, i>>
                BY <2>5, <4>1
            <4> QED BY <4>2 DEF Nul
        <3> QED BY <3>1
    <2>10. StringFrom(b, from) = SubSeq(b, from, end - 1)
        <3>1. b[end] = Nul
            BY <2>5, <2>7
        <3> QED BY <2>5, <2>8, <2>9, <3>1, StringBetween
    <2>11. SubSeq(b, from, size) = BytesOf(n, from, size)
        <3>1. b \in Seq(Bytes) /\ Len(b) = BUFFER_SIZE
            <4>1. PICK m \in Nat : m = BUFFER_SIZE
                BY <2>8
            <4>2. b \in [1..m -> Bytes]
                BY <2>5, <4>1
            <4>3. b \in Seq(Bytes)
                BY <4>2
            <4>4. Len(b) = m
                BY <4>2
            <4> QED BY <4>1, <4>3, <4>4
        <3>2. from \in 1..(Len(b) + 1) /\ size \in 0..Len(b)
            BY <2>7, <2>8, <3>1
        <3>3. SubSeq(b, from, size) = [i \in 1..(size - from + 1) |-> b[from + i - 1]]
            BY <3>1, <3>2
        <3>4. \A i \in 1..(size - from + 1) : from + i - 1 \in 1..size
            OBVIOUS
        <3>5. \A i \in 1..(size - from + 1) : b[from + i - 1] = <<n, from + i - 1>>
            BY <2>5, <3>4
        <3> QED BY <3>3, <3>5 DEF BytesOf
    <2> QED BY <2>6, <2>7, <2>8, <2>10, <2>11
<1> QED BY <1>7, <1>8, <1>9, <1>10 DEF SocketInv, SocketTyped

(* A frame of which something is still missing goes on.                    *)
LEMMA FrameGoesOn ==
    ASSUME SocketInv, AllParse, ~overrun, NEW at, StreamAt(at),
           NEW count \in 1..Len(stream),
           bytesAlreadyReceived + count <= FrameSize(NextFrame),
           stream' = SubSeq(stream, count + 1, Len(stream)),
           UNCHANGED <<frames, sLine>>,
           bytesAlreadyReceived' = bytesAlreadyReceived + count,
           payloadbuffer' \in [1..BUFFER_SIZE -> Bytes],
           HeaderOrPayload', BufferHasFrame'
    PROVE  SocketInv'
<1>1. SocketTyped /\ FrameTold
    BY DEF SocketInv
<1>2. NextFrame' = NextFrame
    BY DEF NextFrame
<1>3. stream' \in Seq(Bytes) /\ \E at2 : StreamAt(at2)'
    BY <1>1, <1>2, BytesMove
<1>4. SocketTyped'
    <2>1. bytesAlreadyReceived + count \in Nat
        BY <1>1, FrameCounts
    <2> QED BY <1>1, <1>3, <2>1 DEF SocketTyped
<1>5. FrameTold'
    BY <1>1 DEF FrameTold, FrameSize, BytesOf
<1> QED BY <1>3, <1>4, <1>5 DEF SocketInv, SocketTyped

LEMMA ReadKeepsFrames ==
    ASSUME SocketInv, OnSocketReadable
    PROVE  SocketInv'
<1>1. frames' = frames
    BY DEF OnSocketReadable
<1>2. CASE ~AllParse \/ overrun'
    BY <1>1, <1>2 DEF SocketInv, AllParse
<1>3. CASE AllParse /\ ~overrun'
    <2>0. ~overrun
        BY <1>3 DEF OnSocketReadable
    <2>1. SocketTyped /\ HeaderOrPayload /\ BufferHasFrame
        BY <1>3, <2>0 DEF SocketInv
    <2>2. PICK at : StreamAt(at)
        BY <1>3, <2>0 DEF SocketInv
    <2>3. PICK n \in Nat \ {0}, r \in Nat, h \in Nat \ {0} :
             n = NextFrame /\ r = bytesAlreadyReceived /\ h = HEADER_LENGTH_SIZE
        BY <2>1, FrameCounts, SocketAssumption
    <2>4. PICK e \in Nat : e = expectedAmountOfBytes
        <3>1. NextFrame <= Len(frames) => FrameSize(NextFrame) \in Nat
            <4>1. NextFrame <= Len(frames) => NextFrame \in 1..Len(frames)
                BY <2>1, FrameCounts
            <4> QED BY <2>1, <4>1, FrameSizes
        <3> QED BY <2>1, <2>3, <3>1 DEF HeaderOrPayload
    <2>5. PICK from \in Nat, room \in Int :
             /\ from = IF e >= BUFFER_SIZE THEN 0 ELSE r
             /\ room = IF e >= BUFFER_SIZE /\ e - r > BUFFER_SIZE THEN BUFFER_SIZE ELSE e - r
        <3>1. (IF e >= BUFFER_SIZE THEN 0 ELSE r) \in Nat
            OBVIOUS
        <3>2. (IF e >= BUFFER_SIZE /\ e - r > BUFFER_SIZE THEN BUFFER_SIZE ELSE e - r) \in Int
            BY SocketAssumption
        <3> QED BY <3>1, <3>2
    <2>6. PICK count \in 1..Len(stream) :
             /\ count <= room
             /\ stream' = SubSeq(stream, count + 1, Len(stream))
             /\ payloadbuffer' =
                   [i \in 1..BUFFER_SIZE |->
                       IF i = from + count + 1 THEN Nul
                       ELSE IF i \in from + 1 .. from + count
                       THEN stream[i - from] ELSE payloadbuffer[i]]
             /\ ExtractAndDispatch(r + count, payloadbuffer')
        <3>1. PICK count \in 1..Len(stream) :
                 /\ count <= room
                 /\ stream' = SubSeq(stream, count + 1, Len(stream))
                 /\ payloadbuffer' =
                       [i \in 1..BUFFER_SIZE |->
                           IF i = from + count + 1 THEN Nul
                           ELSE IF i \in from + 1 .. from + count
                           THEN stream[i - from] ELSE payloadbuffer[i]]
                 /\ overrun' = (overrun \/ from + count = BUFFER_SIZE)
                 /\ \E received \in Counted(r + count, from + count = BUFFER_SIZE) :
                       ExtractAndDispatch(received, payloadbuffer')
            BY <2>3, <2>4, <2>5 DEF OnSocketReadable
        <3>2. Counted(r + count, from + count = BUFFER_SIZE) = {r + count}
            BY <1>3, <3>1 DEF Counted
        <3> QED BY <3>1, <3>2
    <2>7. PICK got \in Nat : got = r + count /\ got <= e
        <3>1. count <= e - r
            BY <2>3, <2>4, <2>5, <2>6, SocketAssumption
        <3>2. count \in Nat
            BY <2>1, FrameCounts
        <3> QED BY <3>1, <3>2
    <2>8. e < BUFFER_SIZE => from = r
        BY <2>5, SocketAssumption
    <2>9. /\ n \in 1..Len(frames)
          /\ e <= FrameSize(n)
          /\ payloadbuffer' \in [1..BUFFER_SIZE -> Bytes]
          /\ e < BUFFER_SIZE => /\ \A i \in 1..got : payloadbuffer'[i] = <<n, i>>
                                /\ payloadbuffer'[got + 1] = Nul
        BY <2>1, <2>2, <2>3, <2>4, <2>6, <2>7, <2>8, BytesBuffered
    <2>10. PICK size \in Nat, w \in Nat :
              size = FrameSize(n) /\ w = frames[n].length /\ size = h + w
        BY <2>1, <2>3, <2>9, FrameSizes
    <2>11. n \in DOMAIN frames /\ frames[n].parses
        BY <1>3, <2>1, <2>9 DEF AllParse, SocketTyped
    <2>12. NextFrame = n /\ (sLine' = sLine => NextFrame' = n)
        BY <2>3 DEF NextFrame
    <2>13. h < BUFFER_SIZE
        BY <2>3, SocketAssumption
    (* Something is missing, and what is known of the frame stays.         *)
    <2>14. ASSUME got < size, sLine' = sLine, bytesAlreadyReceived' = got,
                  HeaderOrPayload', expectedAmountOfBytes' \in {e, size},
                  size < BUFFER_SIZE => e < BUFFER_SIZE,
                  expectedAmountOfBytes' = e \/ e = h
           PROVE  SocketInv'
        <3>1. BufferHasFrame'
            <4>1. ASSUME expectedAmountOfBytes' < BUFFER_SIZE
                  PROVE  e < BUFFER_SIZE
                BY <2>14, <4>1
            <4> QED BY <2>9, <2>12, <2>14, <4>1 DEF BufferHasFrame
        <3>2. bytesAlreadyReceived + count <= FrameSize(NextFrame)
            BY <2>3, <2>7, <2>9, <2>10
        <3> QED BY <1>1, <1>3, <2>0, <2>2, <2>3, <2>6, <2>7, <2>9, <2>14, <3>1,
                   <3>2, FrameGoesOn
    (* Nothing is missing.                                                 *)
    <2>15. ASSUME got = size, e = size, ResetCounters,
                  sLine' = [number |-> sLine.number + 1, type |-> frames[n].type,
                            data |-> StringFrom(payloadbuffer',
                                        IF w > 0 THEN HEADER_LENGTH_SIZE + 1 ELSE 1)]
           PROVE  SocketInv'
        <3>1. bytesAlreadyReceived + count = FrameSize(NextFrame)
            BY <2>3, <2>7, <2>10, <2>15
        <3>2. FrameSize(NextFrame) < BUFFER_SIZE =>
                 /\ \A i \in 1..FrameSize(NextFrame) :
                       payloadbuffer'[i] = <<NextFrame, i>>
                 /\ payloadbuffer'[FrameSize(NextFrame) + 1] = Nul
            BY <2>3, <2>9, <2>10, <2>15
        <3> QED BY <1>1, <1>3, <2>0, <2>2, <2>3, <2>6, <2>9, <2>10, <2>15, <3>1,
                   <3>2, FrameDispatched
    <2>16. CASE payloadLength = 0 /\ got < h
        <3>1. e = h
            BY <2>1, <2>3, <2>4, <2>16 DEF HeaderOrPayload
        <3>2. /\ sLine' = sLine /\ bytesAlreadyReceived' = got
              /\ payloadLength' = 0 /\ expectedAmountOfBytes' = e
            <4>1. ~(got >= h) /\ ~(got >= e)
                BY <2>16, <3>1
            <4> QED BY <2>3, <2>4, <2>6, <2>7, <2>16, <4>1
                    DEF ExtractAndDispatch, DispatchMessage
        <3>3. HeaderOrPayload'
            BY <2>3, <2>16, <3>1, <3>2 DEF HeaderOrPayload
        <3>4. got < size
            BY <2>10, <2>16
        <3> QED BY <2>13, <2>14, <3>1, <3>2, <3>3, <3>4
    <2>17. CASE payloadLength = 0 /\ ~(got < h)
        <3>1. e = h /\ got = h
            <4>1. e = h
                BY <2>1, <2>3, <2>4, <2>17 DEF HeaderOrPayload
            <4> QED BY <2>7, <2>17, <4>1
        <3>2. HeaderIn(payloadbuffer') = {n}
            <4>1. PICK b \in [1..BUFFER_SIZE -> Bytes] : b = payloadbuffer'
                BY <2>9
            <4>2. \A i \in 1..HEADER_LENGTH_SIZE : b[i] = <<n, i>>
                BY <2>3, <2>9, <2>13, <3>1, <4>1
            <4>3. HeaderIn(b) = {n}
                BY <2>11, <4>2, HeaderFound
            <4> QED BY <4>1, <4>3
        <3>3. /\ DispatchMessage(got, e + w, w, frames[n].type, payloadbuffer')
              /\ messageIdentifier' = frames[n].type
            <4>1. got >= h
                BY <2>17
            <4> QED BY <2>3, <2>4, <2>6, <2>7, <2>10, <2>17, <3>2, <4>1
                    DEF ExtractAndDispatch
        <3>4. CASE w = 0
            <4>1. got >= e + w /\ got = size /\ e = size
                BY <2>10, <3>1, <3>4
            <4>2. /\ sLine' = [number |-> sLine.number + 1, type |-> frames[n].type,
                               data |-> StringFrom(payloadbuffer',
                                           IF w > 0 THEN HEADER_LENGTH_SIZE + 1 ELSE 1)]
                  /\ ResetCounters
                BY <3>3, <4>1 DEF DispatchMessage
            <4> QED BY <2>15, <4>1, <4>2
        <3>5. CASE w # 0
            <4>1. ~(got >= e + w) /\ got < size /\ e + w = size
                BY <2>10, <3>1, <3>5
            <4>2. /\ sLine' = sLine /\ bytesAlreadyReceived' = got
                  /\ payloadLength' = w /\ expectedAmountOfBytes' = size
                BY <3>3, <4>1 DEF DispatchMessage
            <4>3. FrameSize(n)' = size
                BY <1>1, <2>10 DEF FrameSize
            <4>4. HeaderOrPayload'
                <5>1. n <= Len(frames) /\ got >= h
                    BY <2>9, <2>17
                <5> QED BY <1>1, <2>3, <2>10, <2>12, <3>3, <3>5, <4>1, <4>2, <4>3, <5>1
                        DEF HeaderOrPayload
            <4> QED BY <2>13, <2>14, <3>1, <4>1, <4>2, <4>4
        <3> QED BY <3>4, <3>5
    <2>18. CASE payloadLength # 0
        <3>1. /\ payloadLength = w /\ e = size /\ messageIdentifier = frames[n].type
              /\ r >= h /\ w # 0
            BY <2>1, <2>3, <2>4, <2>10, <2>18 DEF HeaderOrPayload
        <3>2. /\ DispatchMessage(got, e, w, frames[n].type, payloadbuffer')
              /\ messageIdentifier' = frames[n].type
            BY <2>4, <2>6, <2>7, <2>18, <3>1 DEF ExtractAndDispatch
        <3>3. CASE got = e
            <4>1. got >= e /\ got = size
                BY <3>1, <3>3
            <4>2. /\ sLine' = [number |-> sLine.number + 1, type |-> frames[n].type,
                               data |-> StringFrom(payloadbuffer',
                                           IF w > 0 THEN HEADER_LENGTH_SIZE + 1 ELSE 1)]
                  /\ ResetCounters
                BY <3>2, <4>1 DEF DispatchMessage
            <4> QED BY <2>15, <3>1, <4>1, <4>2
        <3>4. CASE got # e
            <4>1. ~(got >= e) /\ got < size /\ got >= h
                BY <2>7, <3>1, <3>4
            <4>2. /\ sLine' = sLine /\ bytesAlreadyReceived' = got
                  /\ payloadLength' = w /\ expectedAmountOfBytes' = e
                BY <3>2, <4>1 DEF DispatchMessage
            <4>3. FrameSize(n)' = size
                BY <1>1, <2>10 DEF FrameSize
            <4>4. HeaderOrPayload'
                <5>1. n <= Len(frames)
                    BY <2>9
                <5> QED BY <1>1, <2>3, <2>10, <2>12, <3>1, <3>2, <4>1, <4>2, <4>3, <5>1
                        DEF HeaderOrPayload
            <4> QED BY <2>14, <3>1, <4>1, <4>2, <4>4
        <3> QED BY <3>3, <3>4
    <2> QED BY <2>16, <2>17, <2>18
<1> QED BY <1>2, <1>3

LEMMA SocketSteps == SocketInv /\ [SocketNext]_sVars => SocketInv'
<1> SUFFICES ASSUME SocketInv, [SocketNext]_sVars PROVE SocketInv'
    OBVIOUS
<1>1. CASE UNCHANGED sVars
    <2>1. /\ UNCHANGED <<frames, stream, payloadbuffer, bytesAlreadyReceived,
                         payloadLength, expectedAmountOfBytes, messageIdentifier,
                         sLine, overrun, NextFrame>>
          /\ \A k : FrameSize(k)' = FrameSize(k)
        BY <1>1 DEF sVars, NextFrame, FrameSize
    <2>2. \A at : StreamAt(at) => StreamAt(at)'
        BY <2>1 DEF StreamAt
    <2>3. FrameTold => FrameTold'
        BY <2>1 DEF FrameTold, FrameSize, BytesOf
    <2>4. SocketTyped => SocketTyped'
        BY <2>1 DEF SocketTyped
    <2>5. (HeaderOrPayload => HeaderOrPayload') /\ (BufferHasFrame => BufferHasFrame')
        BY <2>1 DEF HeaderOrPayload, BufferHasFrame, FrameSize
    <2>6. AllParse' = AllParse
        BY <2>1 DEF AllParse
    <2> QED BY <2>1, <2>2, <2>3, <2>4, <2>5, <2>6 DEF SocketInv
<1> QED BY <1>1, SendFrameKeeps, ReadKeepsFrames DEF SocketNext

LEMMA FramesTold == SocketInv => FramesWhole
<1> SUFFICES ASSUME SocketInv, AllParse, ~overrun, sLine.number > 0
             PROVE  FramesWhole
    BY DEF FramesWhole, AllParse
<1>1. FrameTold /\ sLine.number \in 0..Len(frames) /\ Len(frames) \in Nat
    BY DEF SocketInv, SocketTyped
<1>2. sLine.number <= Len(frames)
    BY <1>1
<1> QED BY <1>1, <1>2 DEF FramesWhole, FrameTold, FrameSize

-----------------------------------------------------------------------------
(* Sequences of sequences, joined, for the frames that reached the host.   *)

(* Induction, with a set in place of a predicate.                          *)
LEMMA Induction ==
    ASSUME NEW S, 0 \in S, \A n \in Nat : n \in S => n + 1 \in S
    PROVE  Nat \subseteq S
<1> SUFFICES ASSUME Nat \ S # {} PROVE FALSE
    OBVIOUS
<1>1. PICK x \in Nat \ S : \A y \in Nat \ S : ~(<<y, x>> \in OpToRel(<, Nat))
    <2>1. Nat \ S \subseteq Nat
        OBVIOUS
    <2> QED BY <2>1, NatLessThanWellFounded, WFMin
<1>2. PICK y \in Nat : x = y + 1
    <2>1. x # 0 /\ x \in Nat
        OBVIOUS
    <2>2. x - 1 \in Nat /\ x = x - 1 + 1
        BY <2>1
    <2> QED BY <2>2
<1>3. <<y, x>> \in OpToRel(<, Nat)
    BY <1>2 DEF OpToRel
<1>4. y \in S
    BY <1>1, <1>3, Zenon
<1> QED BY <1>2, <1>4

(* The beginnings of a sequence of sequences, joined.                      *)
Joined(f, s, n) ==
    f = [i \in 1..n |-> IF i = 1 THEN s[i] ELSE f[i - 1] \o s[i]]

LEMMA JoinedExists ==
    ASSUME NEW s, NEW n \in Nat
    PROVE  \E f : Joined(f, s, n)
<1> DEFINE S == {k \in Nat : \E f : Joined(f, s, k)}
<1>1. 0 \in S
    <2>1. PICK f : f = [i \in 1..0 |-> s[i]]
        OBVIOUS
    <2>2. 1..0 = {}
        OBVIOUS
    <2>3. Joined(f, s, 0)
        BY <2>1, <2>2 DEF Joined
    <2> QED BY <2>3
<1>2. ASSUME NEW k \in Nat, k \in S
      PROVE  k + 1 \in S
    <2>1. PICK f : Joined(f, s, k)
        BY <1>2
    <2>2. PICK g : g = [i \in 1..(k + 1) |-> IF i = 1 THEN s[i] ELSE f[i - 1] \o s[i]]
        OBVIOUS
    <2>3. ASSUME NEW i \in 1..(k + 1), i # 1
          PROVE  g[i - 1] = f[i - 1]
        <3>1. i - 1 \in 1..k /\ i - 1 \in 1..(k + 1)
            BY <2>3
        <3>2. f[i - 1] = IF i - 1 = 1 THEN s[i - 1] ELSE f[i - 1 - 1] \o s[i - 1]
            BY <2>1, <3>1 DEF Joined
        <3>3. g[i - 1] = IF i - 1 = 1 THEN s[i - 1] ELSE f[i - 1 - 1] \o s[i - 1]
            BY <2>2, <3>1
        <3> QED BY <3>2, <3>3
    <2>4. Joined(g, s, k + 1)
        BY <2>2, <2>3 DEF Joined
    <2> QED BY <2>4
<1>3. Nat \subseteq S
    <2> HIDE DEF S
    <2> QED BY <1>1, <1>2, Induction
<1> QED BY <1>3

LEMMA FlattenIsJoined ==
    ASSUME NEW s, Len(s) \in Nat \ {0}
    PROVE  \E f : Joined(f, s, Len(s)) /\ FlattenSeq(s) = f[Len(s)]
<1> DEFINE flatten[i \in 1..Len(s)] ==
              IF i = 1 THEN s[i] ELSE flatten[i - 1] \o s[i]
<1>1. flatten = CHOOSE f : Joined(f, s, Len(s))
    BY DEF Joined
<1>2. Joined(flatten, s, Len(s))
    <2>1. \E f : Joined(f, s, Len(s))
        BY JoinedExists
    <2> HIDE DEF flatten
    <2> QED BY <1>1, <2>1, Zenon
<1>3. FlattenSeq(s) = flatten[Len(s)]
    BY DEF FlattenSeq
<1> HIDE DEF flatten
<1> QED BY <1>2, <1>3

LEMMA JoinedAt ==
    ASSUME NEW f, NEW s, NEW n, Joined(f, s, n), NEW i \in 1..n
    PROVE  f[i] = IF i = 1 THEN s[i] ELSE f[i - 1] \o s[i]
<1> DEFINE F(j) == IF j = 1 THEN s[j] ELSE f[j - 1] \o s[j]
<1>1. f = [j \in 1..n |-> F(j)]
    BY DEF Joined
<1> HIDE DEF F
<1>2. f[i] = F(i)
    BY <1>1
<1> QED BY <1>2 DEF F

LEMMA FlattenEmpty == FlattenSeq(<<>>) = <<>>
BY DEF FlattenSeq

(* One more sequence is joined after the others.                           *)
LEMMA FlattenAppend ==
    ASSUME NEW S, NEW s \in Seq(Seq(S)), NEW x \in Seq(S)
    PROVE  FlattenSeq(Append(s, x)) = FlattenSeq(s) \o x
<1> DEFINE t == Append(s, x)
           n == Len(s)
<1>1. /\ n \in Nat /\ Len(t) = n + 1 /\ Len(t) \in Nat \ {0}
      /\ t[n + 1] = x
      /\ \A i \in 1..n : t[i] = s[i]
    BY AppendProperties, LenProperties
<1> HIDE DEF t
<1>2. PICK g : Joined(g, t, n + 1) /\ FlattenSeq(t) = g[n + 1]
    BY <1>1, FlattenIsJoined
<1>3. g[n + 1] = IF n + 1 = 1 THEN t[n + 1] ELSE g[n + 1 - 1] \o t[n + 1]
    <2>1. n + 1 \in 1..(n + 1)
        BY <1>1
    <2> QED BY <1>2, <2>1, JoinedAt
<1>4. CASE n = 0
    <2>1. s = <<>>
        BY <1>4, EmptySeq
    <2>2. FlattenSeq(s) = <<>>
        BY <2>1, FlattenEmpty
    <2>3. FlattenSeq(t) = x
        BY <1>1, <1>2, <1>3, <1>4
    <2> QED BY <2>2, <2>3, ConcatEmptySeq DEF t
<1>5. CASE n # 0
    <2>1. PICK f : Joined(f, s, n) /\ FlattenSeq(s) = f[n]
        BY <1>1, <1>5, FlattenIsJoined
    (* There is only one way to join, whatever is joined after.            *)
    <2> DEFINE A == {k \in Nat : k \in 1..n => f[k] = g[k]}
    <2>2. Nat \subseteq A
        <3>1. 0 \in A
            OBVIOUS
        <3>2. ASSUME NEW k \in Nat, k \in A
              PROVE  k + 1 \in A
            <4>1. CASE k + 1 \notin 1..n
                BY <4>1
            <4>2. CASE k + 1 \in 1..n
                <5>1. /\ k + 1 \in 1..(n + 1) /\ k + 1 - 1 = k
                      /\ s[k + 1] = t[k + 1]
                    BY <1>1, <4>2
                <5>2. f[k + 1] = IF k + 1 = 1 THEN s[k + 1]
                                              ELSE f[k + 1 - 1] \o s[k + 1]
                    BY <2>1, <4>2, JoinedAt
                <5>3. g[k + 1] = IF k + 1 = 1 THEN t[k + 1]
                                              ELSE g[k + 1 - 1] \o t[k + 1]
                    <6>1. PICK m \in Nat : m = n + 1
                        BY <1>1
                    <6>2. PICK j \in 1..m : j = k + 1
                        BY <5>1, <6>1
                    <6>3. Joined(g, t, m)
                        BY <1>2, <6>1
                    <6>4. g[j] = IF j = 1 THEN t[j] ELSE g[j - 1] \o t[j]
                        BY <6>3, JoinedAt
                    <6> QED BY <6>2, <6>4
                <5>4. k + 1 = 1 \/ f[k] = g[k]
                    BY <1>1, <3>2, <4>2
                <5>5. f[k + 1] = g[k + 1]
                    BY <5>1, <5>2, <5>3, <5>4
                <5> QED BY <5>5
            <4> QED BY <4>1, <4>2
        <3> HIDE DEF A
        <3> QED BY <3>1, <3>2, Induction
    <2>3. f[n] = g[n]
        <3>1. n \in A /\ n \in 1..n
            BY <1>1, <1>5, <2>2
        <3> QED BY <3>1
    <2> QED BY <1>1, <1>2, <1>3, <1>5, <2>1, <2>3 DEF t
<1> QED BY <1>4, <1>5

LEMMA FlattenType ==
    ASSUME NEW S, NEW s \in Seq(Seq(S))
    PROVE  FlattenSeq(s) \in Seq(S)
<1> DEFINE T == {k \in Nat : \A t \in Seq(Seq(S)) : Len(t) = k => FlattenSeq(t) \in Seq(S)}
<1>1. 0 \in T
    <2> SUFFICES ASSUME NEW t \in Seq(Seq(S)), Len(t) = 0
                 PROVE  FlattenSeq(t) \in Seq(S)
        OBVIOUS
    <2>1. t = <<>>
        BY EmptySeq
    <2> QED BY <2>1, FlattenEmpty, EmptySeq
<1>2. ASSUME NEW k \in Nat, k \in T
      PROVE  k + 1 \in T
    <2> SUFFICES ASSUME NEW t \in Seq(Seq(S)), Len(t) = k + 1
                 PROVE  FlattenSeq(t) \in Seq(S)
        OBVIOUS
    <2>1. t # <<>>
        BY EmptySeq
    <2>2. PICK u \in Seq(Seq(S)), x \in Seq(S) : t = Append(u, x)
        BY <2>1, SequenceEmptyOrAppend
    <2>3. Len(u) = k
        BY <2>2, AppendProperties, LenProperties
    <2>4. FlattenSeq(u) \in Seq(S)
        BY <1>2, <2>3
    <2> QED BY <2>2, <2>4, FlattenAppend, ConcatProperties
<1>3. Nat \subseteq T
    <2> HIDE DEF T
    <2> QED BY <1>1, <1>2, Induction
<1> QED BY <1>3, LenProperties

-----------------------------------------------------------------------------
(* The frames for the host: what reached it and what is missing of the     *)
(* current message are the messages transmitted and the current one.  What *)
(* is still to write of a header or a payload is always the end of it, so  *)
(* a write that throws has left nothing behind only before the first byte  *)
(* of the header.                                                          *)
AgentWire(n) == Wire(n, AgentFrames[n])

AgentPayload(n) == Payload(n, AgentFrames[n])

Transmitted(messages) ==
    FlattenSeq([k \in DOMAIN messages |-> AgentWire(messages[k])])

ToWrite(part, bytes, n) ==
    IF part = "header" THEN bytes \o AgentPayload(n) ELSE bytes

Started(part, n) == IF part = "no" THEN <<>> ELSE AgentWire(n)

AgentTypes ==
    /\ writing \in {"no", "header", "payload"}
    /\ current \in 0..Len(AgentFrames)
    /\ outbound \in Seq(Bytes)
    /\ complete \in Seq(1..Len(AgentFrames))

(* The bytes are the end of that part of the n-th message. *)
EndOf(part, n, bytes) ==
    \/ /\ part = "no"
       /\ bytes = <<>>
    \/ /\ part = "header"
       /\ n \in 1..Len(AgentFrames)
       /\ \E k \in 1..(1 + AgentFrames[n].header) :
             bytes = Part(n, k, 1 + AgentFrames[n].header)
    \/ /\ part = "payload"
       /\ n \in 1..Len(AgentFrames)
       /\ \E k \in (2 + AgentFrames[n].header)..WireLength(AgentFrames[n]) :
             bytes = Part(n, k, WireLength(AgentFrames[n]))

AgentInv ==
    /\ AgentTypes
    /\ EndOf(writing, current, rest)
    /\ ~torn /\ ~corrupted =>
          outbound \o ToWrite(writing, rest, current)
             = Transmitted(complete) \o Started(writing, current)

LEMMA AgentFrameType ==
    ASSUME NEW n \in 1..Len(AgentFrames)
    PROVE  /\ AgentFrames[n].header \in Nat \ {0}
           /\ AgentFrames[n].payload \in Nat
<1> DEFINE F == [header : Nat \ {0}, payload : Nat]
<1>1. AgentFrames \in Seq(F)
    BY HostAssumption
<1> HIDE DEF F
<1>2. AgentFrames[n] \in F
    BY <1>1, ElementOfSeq
<1> QED BY <1>2 DEF F

LEMMA WireJoin ==
    ASSUME NEW n \in Nat, NEW b \in Nat, NEW c \in Nat, b <= c
    PROVE  Part(n, 1, b) \o Part(n, b + 1, c) = Part(n, 1, c)
<1>a. PICK a \in Nat : a = 1
    OBVIOUS
<1>d. PICK d \in Nat : d = b + 1
    OBVIOUS
<1> DEFINE P == Part(n, a, b)
           Q == Part(n, d, c)
           R == Part(n, a, c)
<1>1. /\ P \in Seq(Bytes) /\ Len(P) = b - a + 1
      /\ \A i \in 1..(b - a + 1) : P[i] = <<n, a + i - 1>>
    <2>1. a <= b + 1
        BY <1>a
    <2>2. Part(n, a, b) \in Seq(Bytes)
        BY PartIsSeq
    <2>3. Len(Part(n, a, b)) = b - a + 1
        BY <2>1, PartLen
    <2>4. \A i \in 1..(b - a + 1) : Part(n, a, b)[i] = <<n, a + i - 1>>
        BY DEF Part
    <2> QED BY <2>2, <2>3, <2>4
<1>2. /\ Q \in Seq(Bytes) /\ Len(Q) = c - b
      /\ \A i \in 1..(c - b) : Q[i] = <<n, b + i>>
    <2>2. d <= c + 1 /\ c - d + 1 = c - b
        BY <1>d
    <2>3. Part(n, d, c) \in Seq(Bytes)
        BY PartIsSeq
    <2>5. Len(Part(n, d, c)) = c - b
        BY <2>2, PartLen
    <2>4. \A i \in 1..(c - b) : Part(n, d, c)[i] = <<n, b + i>>
        BY <1>d, <2>2 DEF Part
    <2> QED BY <2>3, <2>4, <2>5
<1>3. /\ R \in Seq(Bytes) /\ Len(R) = c - a + 1
      /\ \A i \in 1..(c - a + 1) : R[i] = <<n, a + i - 1>>
    <2>1. a <= c + 1
        BY <1>a
    <2> HIDE DEF P, Q
    <2> QED BY <2>1, PartIsSeq, PartLen DEF Part
<1> HIDE DEF P, Q, R
<1>4. /\ P \o Q \in Seq(Bytes)
      /\ Len(P \o Q) = Len(P) + Len(Q)
      /\ \A i \in 1..(Len(P) + Len(Q)) :
            (P \o Q)[i] = IF i <= Len(P) THEN P[i] ELSE Q[i - Len(P)]
    BY <1>1, <1>2, ConcatProperties
<1>5. Len(P) + Len(Q) = c - a + 1
    BY <1>1, <1>2
<1>6. ASSUME NEW i \in 1..(c - a + 1)
      PROVE  (P \o Q)[i] = R[i]
    <2>1. CASE i <= b - a + 1
        <3>1. i \in 1..(b - a + 1)
            BY <2>1
        <3> QED BY <1>1, <1>3, <1>4, <1>5, <2>1, <3>1
    <2>2. CASE i > b - a + 1
        <3>1. PICK j \in 1..(c - b) : j = i - (b - a + 1)
            BY <2>2
        <3>2. (P \o Q)[i] = Q[j]
            BY <1>1, <1>4, <1>5, <2>2, <3>1
        <3>3. b + j = a + i - 1
            BY <3>1
        <3>4. R[i] = <<n, a + i - 1>> /\ Q[j] = <<n, b + j>>
            BY <1>2, <1>3
        <3>5. (P \o Q)[i] = <<n, b + j>>
            BY <3>2, <3>4
        <3>6. (P \o Q)[i] = <<n, a + i - 1>>
            BY <3>3, <3>5
        <3> QED BY <3>4, <3>6
    <2>3. i <= b - a + 1 \/ i > b - a + 1
        OBVIOUS
    <2> QED BY <2>1, <2>2, <2>3, Zenon
<1>7. P \o Q = R
    BY <1>3, <1>4, <1>5, <1>6, SeqEqual
<1>8. Part(n, a, b) \o Part(n, d, c) = Part(n, a, c)
    BY <1>7 DEF P, Q, R
<1> QED BY <1>a, <1>d, <1>8

LEMMA WireType ==
    ASSUME NEW n \in 1..Len(AgentFrames)
    PROVE  /\ AgentWire(n) \in Seq(Bytes)
           /\ AgentPayload(n) \in Seq(Bytes)
           /\ Part(n, 1, 1 + AgentFrames[n].header) \o AgentPayload(n)
                 = AgentWire(n)
           /\ AgentPayload(n) = <<>> <=> AgentFrames[n].payload = 0
<1>1. PICK h \in Nat : h = AgentFrames[n].header
    BY AgentFrameType
<1>2. PICK p \in Nat : p = AgentFrames[n].payload
    BY AgentFrameType
<1>3. PICK w \in Nat : w = 1 + h + p
    OBVIOUS
<1>4. PICK b \in Nat : b = 1 + h
    OBVIOUS
<1>5. AgentWire(n) = Part(n, 1, w)
    BY <1>1, <1>2, <1>3 DEF AgentWire, Wire, WireLength
<1>6. AgentPayload(n) = Part(n, b + 1, w)
    <2>1. b + 1 = 2 + h
        BY <1>4
    <2> QED BY <1>1, <1>2, <1>3, <2>1 DEF AgentPayload, Payload, WireLength
<1>7. n \in Nat /\ 1 <= b + 1 /\ b <= w /\ b + 1 \in Nat /\ 1 <= w + 1
    BY <1>3, <1>4
<1>8. AgentWire(n) \in Seq(Bytes)
    <2>1. Part(n, 1, w) \in Seq(Bytes)
        BY <1>7, PartIsSeq
    <2> QED BY <1>5, <2>1
<1>9. AgentPayload(n) \in Seq(Bytes) /\ Len(AgentPayload(n)) = w - (b + 1) + 1
    <2>1. PICK a \in Nat : a = b + 1
        BY <1>7
    <2>2. a <= w + 1
        BY <1>7, <2>1
    <2>3. Part(n, a, w) \in Seq(Bytes)
        BY <1>7, PartIsSeq
    <2>4. Len(Part(n, a, w)) = w - a + 1
        BY <2>2, PartLen
    <2> QED BY <1>6, <2>1, <2>3, <2>4
<1>10. Part(n, 1, b) \o AgentPayload(n) = AgentWire(n)
    <2>1. Part(n, 1, b) \o Part(n, b + 1, w) = Part(n, 1, w)
        BY <1>7, WireJoin
    <2> QED BY <1>5, <1>6, <2>1
<1>11. AgentPayload(n) = <<>> <=> p = 0
    <2>1. Len(AgentPayload(n)) = p
        BY <1>3, <1>4, <1>9
    <2> QED BY <1>9, <2>1, EmptySeq
<1> QED BY <1>1, <1>2, <1>4, <1>8, <1>9, <1>10, <1>11

(* A message more is its frame more.                                       *)
LEMMA TransmittedAppend ==
    ASSUME NEW c \in Seq(1..Len(AgentFrames)), NEW n \in 1..Len(AgentFrames)
    PROVE  /\ Transmitted(c) \in Seq(Bytes)
           /\ Transmitted(Append(c, n)) = Transmitted(c) \o AgentWire(n)
<1> DEFINE Wires(m) == [k \in DOMAIN m |-> AgentWire(m[k])]
           d == Append(c, n)
<1>1. \A i \in 1..Len(AgentFrames) : AgentWire(i) \in Seq(Bytes)
    BY WireType
<1>2. /\ Len(c) \in Nat /\ DOMAIN c = 1..Len(c)
      /\ \A i \in 1..Len(c) : c[i] \in 1..Len(AgentFrames)
    BY LenProperties, ElementOfSeq
<1>3. /\ d \in Seq(1..Len(AgentFrames)) /\ Len(d) = Len(c) + 1
      /\ d[Len(c) + 1] = n /\ \A i \in 1..Len(c) : d[i] = c[i]
      /\ DOMAIN d = 1..(Len(c) + 1)
    BY AppendProperties, LenProperties
<1> HIDE DEF d
<1>4. PICK l \in Nat : l = Len(c)
    BY <1>2
<1> DEFINE W == Wires(c)
           V == Wires(d)
<1>5. W = [k \in 1..l |-> AgentWire(c[k])] /\ V = [k \in 1..(l + 1) |-> AgentWire(d[k])]
    BY <1>2, <1>3, <1>4
<1> HIDE DEF W, V
<1>6. W \in Seq(Seq(Bytes)) /\ Len(W) = l
    BY <1>1, <1>2, <1>4, <1>5
<1>7. V \in Seq(Seq(Bytes)) /\ Len(V) = l + 1
    <2>1. \A k \in 1..(l + 1) : d[k] \in 1..Len(AgentFrames)
        BY <1>3, <1>4, ElementOfSeq
    <2> QED BY <1>1, <1>5, <2>1
<1>8. AgentWire(n) \in Seq(Bytes)
    BY <1>1
<1> DEFINE A == Append(W, AgentWire(n))
<1>9. /\ A \in Seq(Seq(Bytes)) /\ Len(A) = l + 1
      /\ A[l + 1] = AgentWire(n) /\ \A i \in 1..l : A[i] = W[i]
    BY <1>6, <1>8, AppendProperties
<1> HIDE DEF A
<1>10. \A i \in 1..(l + 1) : V[i] = A[i]
    <2> TAKE i \in 1..(l + 1)
    <2>1. CASE i = l + 1
        BY <1>3, <1>4, <1>5, <1>9, <2>1
    <2>2. CASE i # l + 1
        <3>1. i \in 1..l
            BY <2>2
        <3>2. V[i] = AgentWire(d[i]) /\ W[i] = AgentWire(c[i])
            BY <1>5, <3>1
        <3> QED BY <1>3, <1>4, <1>9, <3>1, <3>2
    <2> QED BY <2>1, <2>2
<1>11. V = A
    BY <1>7, <1>9, <1>10, SeqEqual
<1>12. FlattenSeq(V) = FlattenSeq(W) \o AgentWire(n)
    BY <1>6, <1>8, <1>11, FlattenAppend DEF A
<1>13. FlattenSeq(W) \in Seq(Bytes)
    BY <1>6, FlattenType
<1>14. Transmitted(c) = FlattenSeq(W) /\ Transmitted(Append(c, n)) = FlattenSeq(V)
    BY DEF Transmitted, W, V, d
<1> QED BY <1>12, <1>13, <1>14

LEMMA AgentStarts == HostInit => AgentInv
<1> SUFFICES ASSUME HostInit PROVE AgentInv
    OBVIOUS
<1>1. /\ writing = "no" /\ current = 0 /\ rest = <<>>
      /\ outbound = <<>> /\ complete = <<>>
    BY DEF HostInit
<1>2. Len(AgentFrames) \in Nat
    <2>1. AgentFrames \in Seq([header : Nat \ {0}, payload : Nat])
        BY HostAssumption
    <2> QED BY <2>1, LenProperties
<1>3. <<>> \in Seq(Bytes) /\ <<>> \in Seq(1..Len(AgentFrames))
    BY EmptySeq
<1>4. AgentTypes
    BY <1>1, <1>2, <1>3 DEF AgentTypes
<1>5. Transmitted(<<>>) = <<>>
    <2>1. [k \in DOMAIN <<>> |-> AgentWire(<<>>[k])] = <<>>
        OBVIOUS
    <2> QED BY <2>1, FlattenEmpty DEF Transmitted
<1>6. /\ outbound \o ToWrite(writing, rest, current) = <<>>
      /\ Transmitted(complete) \o Started(writing, current) = <<>>
    BY <1>1, <1>3, <1>5, ConcatEmptySeq DEF ToWrite, Started
<1> QED BY <1>1, <1>4, <1>6 DEF AgentInv, EndOf

(* What is left to write, with what follows it, is a sequence of bytes.    *)
LEMMA EndType ==
    ASSUME NEW part, NEW n \in 0..Len(AgentFrames), NEW bytes,
           EndOf(part, n, bytes), part # "no"
    PROVE  /\ n \in 1..Len(AgentFrames)
           /\ bytes \in Seq(Bytes)
           /\ ToWrite(part, bytes, n) \in Seq(Bytes)
<1>1. n \in 1..Len(AgentFrames)
    BY DEF EndOf
<1>2. PICK h \in Nat : h = AgentFrames[n].header
    BY <1>1, AgentFrameType
<1>3. PICK p \in Nat : p = AgentFrames[n].payload
    BY <1>1, AgentFrameType
<1>4. PICK e \in Nat : \E k \in 1..e : bytes = Part(n, k, e)
    <2>1. CASE part = "header"
        <3>1. PICK k \in 1..(1 + h) : bytes = Part(n, k, 1 + h)
            BY <1>2, <2>1 DEF EndOf
        <3>2. 1 + h \in Nat
            OBVIOUS
        <3> QED BY <3>1, <3>2
    <2>2. CASE part = "payload"
        <3>1. PICK w \in Nat : w = 1 + h + p
            OBVIOUS
        <3>2. WireLength(AgentFrames[n]) = w
            BY <1>2, <1>3, <3>1 DEF WireLength
        <3>3. PICK k \in (2 + h)..w : bytes = Part(n, k, w)
            BY <1>2, <2>2, <3>2 DEF EndOf
        <3>4. k \in 1..w
            BY <3>3
        <3> QED BY <3>1, <3>3, <3>4
    <2> QED BY <2>1, <2>2 DEF EndOf
<1>5. PICK k \in 1..e : bytes = Part(n, k, e)
    BY <1>4
<1>6. bytes \in Seq(Bytes)
    <2>1. n \in Nat /\ k \in Nat /\ k <= e + 1
        BY <1>1, <1>5
    <2>2. Part(n, k, e) \in Seq(Bytes)
        BY <2>1, PartIsSeq
    <2> QED BY <1>5, <2>2
<1>7. ToWrite(part, bytes, n) \in Seq(Bytes)
    <2>1. AgentPayload(n) \in Seq(Bytes)
        BY <1>1, WireType
    <2>2. bytes \o AgentPayload(n) \in Seq(Bytes)
        BY <1>6, <2>1, ConcatProperties
    <2> QED BY <1>6, <2>2 DEF ToWrite
<1> QED BY <1>1, <1>6, <1>7

LEMMA ModLess ==
    ASSUME NEW h \in Nat, NEW b \in Nat \ {0}, h % b >= h
    PROVE  h % b = h
<1>1. h % b \in 0..(b - 1)
    OBVIOUS
<1>2. h < b
    <2> SUFFICES ASSUME h >= b PROVE FALSE
        BY <1>1
    <2> QED BY <1>1
<1> QED BY <1>2

(* The first byte of a part.                                               *)
LEMMA PartFirst ==
    ASSUME NEW n \in Nat, NEW e \in Nat, NEW k \in 1..e
    PROVE  Part(n, k, e)[1] = <<n, k>>
<1>1. 1 \in 1..(e - k + 1) /\ k + 1 - 1 = k
    OBVIOUS
<1> QED BY <1>1 DEF Part

LEMMA TransmitHeaderStep ==
    ASSUME AgentInv, TransmitMessageHeader
    PROVE  AgentInv'
<1> DEFINE n == current + 1
<1>1. /\ writing = "no" /\ rest = <<>> /\ current' = n
      /\ outbound' = outbound /\ complete' = complete /\ torn' = torn
    BY DEF TransmitMessageHeader, AgentInv, EndOf
<1>2. n \in 1..Len(AgentFrames)
    BY DEF TransmitMessageHeader, AgentInv, AgentTypes
<1>3. AgentTypes /\ outbound \in Seq(Bytes) /\ Transmitted(complete) \in Seq(Bytes)
    <2>1. complete \in Seq(1..Len(AgentFrames)) /\ outbound \in Seq(Bytes)
        BY DEF AgentInv, AgentTypes
    <2>2. Transmitted(complete) \in Seq(Bytes)
        BY <1>2, <2>1, TransmittedAppend
    <2> QED BY <2>1, <2>2 DEF AgentInv
<1>4. ~torn /\ ~corrupted => outbound = Transmitted(complete)
    BY <1>1, <1>3, ConcatEmptySeq DEF AgentInv, ToWrite, Started
<1> HIDE DEF n
<1>5. CASE Serializes(n)
    <2>1. PICK h \in Nat : h = AgentFrames[n].header
        BY <1>2, AgentFrameType
    <2>2. HeaderLength(n) = h
        <3>1. h % BYTE >= h
            BY <1>5, <2>1 DEF Serializes, HeaderLength
        <3>2. BYTE \in Nat \ {0}
            BY HostAssumption
        <3> QED BY <2>1, <3>1, <3>2, ModLess DEF HeaderLength
    <2>3. /\ writing' = "header" /\ rest' = Part(n, 1, 1 + h)
          /\ corrupted => corrupted'
        BY <1>1, <1>5, <2>2 DEF TransmitMessageHeader
    <2>4. AgentTypes'
        BY <1>1, <1>2, <1>3, <2>3 DEF AgentTypes
    <2>5. EndOf(writing', current', rest')
        BY <1>1, <1>2, <2>1, <2>3 DEF EndOf
    <2>6. ToWrite(writing', rest', current') = AgentWire(n)
        BY <1>1, <1>2, <2>1, <2>3, WireType DEF ToWrite
    <2>7. Started(writing', current') = AgentWire(n)
        BY <1>1, <2>3 DEF Started
    <2>8. ~torn' /\ ~corrupted' =>
             outbound' \o ToWrite(writing', rest', current')
                = Transmitted(complete') \o Started(writing', current')
        BY <1>1, <1>4, <2>3, <2>6, <2>7
    <2> QED BY <2>4, <2>5, <2>8 DEF AgentInv
<1>6. CASE ~Serializes(n)
    <2>1. writing' = "no" /\ rest' = <<>> /\ corrupted' = corrupted
        BY <1>1, <1>6 DEF TransmitMessageHeader, GiveUp
    <2>2. AgentTypes'
        BY <1>1, <1>2, <1>3, <2>1 DEF AgentTypes
    <2>3. EndOf(writing', current', rest')
        BY <2>1 DEF EndOf
    <2>4. ToWrite(writing', rest', current') = <<>> /\ Started(writing', current') = <<>>
        BY <2>1 DEF ToWrite, Started
    <2>5. ~torn' /\ ~corrupted' =>
             outbound' \o ToWrite(writing', rest', current')
                = Transmitted(complete') \o Started(writing', current')
        BY <1>1, <1>4, <2>1, <2>4
    <2> QED BY <2>2, <2>3, <2>5 DEF AgentInv
<1> QED BY <1>5, <1>6

(* A message given up before its first byte leaves nothing behind.         *)
LEMMA SendThrowsStep ==
    ASSUME AgentInv, SendThrows
    PROVE  AgentInv'
<1> DEFINE n == current
<1>1. /\ writing # "no" /\ writing' = "no" /\ rest' = <<>>
      /\ current' = current /\ outbound' = outbound /\ complete' = complete
      /\ corrupted' = corrupted /\ torn' = (torn \/ rest[1] # <<n, 1>>)
    BY DEF SendThrows, WriteFails, GiveUp
<1>2. /\ n \in 0..Len(AgentFrames) /\ EndOf(writing, n, rest)
      /\ outbound \in Seq(Bytes) /\ complete \in Seq(1..Len(AgentFrames))
    BY DEF AgentInv, AgentTypes
<1>3. n \in 1..Len(AgentFrames)
    BY <1>1, <1>2, EndType
<1>4. AgentTypes'
    BY <1>1 DEF AgentInv, AgentTypes
<1>5. EndOf(writing', current', rest')
    BY <1>1 DEF EndOf
<1>6. Transmitted(complete) \in Seq(Bytes) /\ AgentWire(n) \in Seq(Bytes)
    BY <1>2, <1>3, TransmittedAppend, WireType
<1>7. PICK h \in Nat : h = AgentFrames[n].header
    BY <1>3, AgentFrameType
<1>8. PICK p \in Nat : p = AgentFrames[n].payload
    BY <1>3, AgentFrameType
<1>9. ASSUME rest[1] = <<n, 1>>
      PROVE  writing = "header" /\ rest = Part(n, 1, 1 + h)
    <2>1. CASE writing = "header"
        <3>1. PICK e \in Nat : e = 1 + h
            OBVIOUS
        <3>2. PICK k \in 1..e : rest = Part(n, k, e)
            BY <1>2, <1>7, <2>1, <3>1 DEF EndOf
        <3>3. rest[1] = <<n, k>>
            <4>1. n \in Nat /\ k \in 1..e
                BY <1>3, <3>2
            <4> HIDE DEF n
            <4> QED BY <3>2, <4>1, PartFirst
        <3> QED BY <1>9, <2>1, <3>1, <3>2, <3>3
    <2>2. CASE writing = "payload"
        <3>1. PICK e \in Nat : e = 1 + h + p
            OBVIOUS
        <3>2. WireLength(AgentFrames[n]) = e
            BY <1>7, <1>8, <3>1 DEF WireLength
        <3>3. PICK k \in (2 + h)..e : rest = Part(n, k, e)
            BY <1>2, <1>7, <2>2, <3>2 DEF EndOf
        <3>4. rest[1] = <<n, k>>
            <4>1. n \in Nat /\ k \in 1..e
                BY <1>3, <3>3
            <4> HIDE DEF n
            <4> QED BY <3>3, <4>1, PartFirst
        <3>5. k # 1
            BY <3>3
        <3> QED BY <1>9, <3>4, <3>5
    <2> QED BY <1>1, <1>2, <2>1, <2>2 DEF EndOf
<1>10. ASSUME ~torn', ~corrupted'
       PROVE  outbound = Transmitted(complete)
    <2>1. ~torn /\ ~corrupted /\ rest[1] = <<n, 1>>
        BY <1>1, <1>10
    <2>2. ToWrite(writing, rest, current) = AgentWire(n)
        BY <1>3, <1>7, <1>9, <2>1, WireType DEF ToWrite
    <2>3. Started(writing, current) = AgentWire(n)
        BY <1>1 DEF Started
    <2>4. outbound \o AgentWire(n) = Transmitted(complete) \o AgentWire(n)
        BY <2>1, <2>2, <2>3 DEF AgentInv
    <2> HIDE DEF n
    <2> QED BY <1>2, <1>6, <2>4, ConcatSimplifications
<1>11. ToWrite(writing', rest', current') = <<>> /\ Started(writing', current') = <<>>
    BY <1>1 DEF ToWrite, Started
<1>12. ~torn' /\ ~corrupted' =>
          outbound' \o ToWrite(writing', rest', current')
             = Transmitted(complete') \o Started(writing', current')
    BY <1>1, <1>10, <1>11
<1> QED BY <1>4, <1>5, <1>12 DEF AgentInv

(* The end of a part, without some of its bytes, is the end of it.         *)
LEMMA EndShorter ==
    ASSUME NEW part, NEW n \in 1..Len(AgentFrames), NEW bytes,
           EndOf(part, n, bytes), part # "no",
           NEW count \in 1..Len(bytes), count # Len(bytes)
    PROVE  EndOf(part, n, SubSeq(bytes, count + 1, Len(bytes)))
<1>1. PICK h \in Nat : h = AgentFrames[n].header
    BY AgentFrameType
<1>2. PICK p \in Nat : p = AgentFrames[n].payload
    BY AgentFrameType
<1>3. ASSUME NEW e \in Nat, NEW k \in 1..e, bytes = Part(n, k, e)
      PROVE  /\ k + count \in Nat /\ k + count <= e
             /\ SubSeq(bytes, count + 1, Len(bytes)) = Part(n, k + count, e)
    <2>1. n \in Nat /\ k \in Nat /\ k <= e + 1
        OBVIOUS
    <2>2. /\ bytes \in Seq(Bytes) /\ Len(bytes) = e - k + 1
          /\ \A i \in 1..(e - k + 1) : bytes[i] = <<n, k + i - 1>>
        <3>1. Part(n, k, e) \in Seq(Bytes)
            BY <2>1, PartIsSeq
        <3>2. Len(Part(n, k, e)) = e - k + 1
            BY <2>1, PartLen
        <3>3. \A i \in 1..(e - k + 1) : Part(n, k, e)[i] = <<n, k + i - 1>>
            BY DEF Part
        <3> QED BY <1>3, <3>1, <3>2, <3>3
    <2>3. PICK l \in Nat : l = e - k + 1
        BY <2>1
    <2>4. PICK f \in 2..l : f = count + 1
        BY <2>2, <2>3
    <2>5. PICK m \in Nat : m = k + count
        BY <2>2, <2>3
    <2>6. m <= e /\ m <= e + 1 /\ e - m + 1 = l - f + 1
        BY <2>2, <2>3, <2>4, <2>5
    <2> DEFINE Q == SubSeq(bytes, f, l)
               R == Part(n, m, e)
    <2>7. /\ Q \in Seq(Bytes) /\ Len(Q) = l - f + 1
          /\ \A i \in 1..(l - f + 1) : Q[i] = bytes[f + i - 1]
        <3>1. \A i \in f..l : bytes[i] \in Bytes
            BY <2>2, <2>3, <2>4, ElementOfSeq
        <3>2. f \in Int /\ l \in Int /\ f <= l
            BY <2>4
        <3> HIDE DEF R
        <3> QED BY <3>1, <3>2, SubSeqProperties
    <2>8. /\ R \in Seq(Bytes) /\ Len(R) = e - m + 1
          /\ \A i \in 1..(e - m + 1) : R[i] = <<n, m + i - 1>>
        <3>1. n \in Nat /\ m \in Nat /\ e \in Nat /\ m <= e + 1
            BY <2>1, <2>6
        <3>2. Part(n, m, e) \in Seq(Bytes)
            BY <3>1, PartIsSeq
        <3>3. Len(Part(n, m, e)) = e - m + 1
            BY <3>1, PartLen
        <3>4. \A i \in 1..(e - m + 1) : Part(n, m, e)[i] = <<n, m + i - 1>>
            BY DEF Part
        <3> QED BY <3>2, <3>3, <3>4
    <2> HIDE DEF Q, R
    <2>9. \A i \in 1..(l - f + 1) : Q[i] = R[i]
        <3> TAKE i \in 1..(l - f + 1)
        <3>1. PICK j \in 1..l : j = f + i - 1
            BY <2>4
        <3>2. Q[i] = bytes[j] /\ bytes[j] = <<n, k + j - 1>>
            BY <2>2, <2>3, <2>7, <3>1
        <3>3. k + j - 1 = m + i - 1
            BY <2>4, <2>5, <3>1
        <3> QED BY <2>6, <2>8, <3>2, <3>3
    <2>10. Q = R
        BY <2>6, <2>7, <2>8, <2>9, SeqEqual
    <2>11. SubSeq(bytes, count + 1, Len(bytes)) = Q
        BY <2>2, <2>3, <2>4 DEF Q
    <2> QED BY <2>5, <2>6, <2>10, <2>11 DEF R
<1>4. CASE part = "header"
    <2>1. PICK e \in Nat : e = 1 + h
        OBVIOUS
    <2>2. PICK k \in 1..e : bytes = Part(n, k, e)
        BY <1>1, <1>4, <2>1 DEF EndOf
    <2>3. PICK m \in 1..e : SubSeq(bytes, count + 1, Len(bytes)) = Part(n, m, e)
        <3>1. /\ k + count \in Nat /\ k + count <= e
              /\ SubSeq(bytes, count + 1, Len(bytes)) = Part(n, k + count, e)
            BY <1>3, <2>2
        <3>2. k + count \in 1..e
            BY <2>2, <3>1
        <3> QED BY <3>1, <3>2
    <2> QED BY <1>1, <1>4, <2>1, <2>3 DEF EndOf
<1>5. CASE part = "payload"
    <2>1. PICK e \in Nat : e = 1 + h + p
        OBVIOUS
    <2>2. WireLength(AgentFrames[n]) = e
        BY <1>1, <1>2, <2>1 DEF WireLength
    <2>3. PICK k \in (2 + h)..e : bytes = Part(n, k, e)
        BY <1>1, <1>5, <2>2 DEF EndOf
    <2>4. PICK m \in (2 + h)..e : SubSeq(bytes, count + 1, Len(bytes)) = Part(n, m, e)
        <3>1. k \in 1..e
            BY <2>3
        <3>2. /\ k + count \in Nat /\ k + count <= e
              /\ SubSeq(bytes, count + 1, Len(bytes)) = Part(n, k + count, e)
            BY <1>3, <2>3, <3>1
        <3>3. k + count \in (2 + h)..e
            <4>1. count \in Nat
                OBVIOUS
            <4> QED BY <2>3, <3>2, <4>1
        <3> QED BY <3>2, <3>3
    <2> QED BY <1>1, <1>5, <2>2, <2>4 DEF EndOf
<1> QED BY <1>4, <1>5 DEF EndOf

(* The payload, if there is one, is the end of itself.                     *)
LEMMA PayloadIsEnd ==
    ASSUME NEW n \in 1..Len(AgentFrames), AgentPayload(n) # <<>>
    PROVE  EndOf("payload", n, AgentPayload(n))
<1>1. PICK h \in Nat : h = AgentFrames[n].header
    BY AgentFrameType
<1>2. PICK p \in Nat \ {0} : p = AgentFrames[n].payload
    BY AgentFrameType, WireType
<1>3. WireLength(AgentFrames[n]) = 1 + h + p
    BY <1>1, <1>2 DEF WireLength
<1>4. AgentPayload(n) = Part(n, 2 + h, 1 + h + p)
    BY <1>1, <1>3 DEF AgentPayload, Payload
<1>5. 2 + h \in (2 + h)..(1 + h + p)
    BY <1>2
<1> QED BY <1>1, <1>3, <1>4, <1>5 DEF EndOf

LEMMA OutAssociative ==
    ASSUME NEW a \in Seq(Bytes), NEW b \in Seq(Bytes), NEW c \in Seq(Bytes)
    PROVE  (a \o b) \o c = a \o (b \o c)
<1> HIDE DEF Bytes
<1> QED BY ConcatAssociative

LEMMA WriteStep ==
    ASSUME AgentInv, WriteNBytesToSocket
    PROVE  AgentInv'
<1> DEFINE n == current
<1>1. writing # "no" /\ current' = current /\ corrupted' = corrupted
    BY DEF WriteNBytesToSocket
<1>2. /\ n \in 0..Len(AgentFrames) /\ EndOf(writing, n, rest)
      /\ writing \in {"no", "header", "payload"}
      /\ outbound \in Seq(Bytes) /\ complete \in Seq(1..Len(AgentFrames))
    BY DEF AgentInv, AgentTypes
<1>3. /\ n \in 1..Len(AgentFrames) /\ rest \in Seq(Bytes)
      /\ ToWrite(writing, rest, n) \in Seq(Bytes)
    BY <1>1, <1>2, EndType
<1>4. /\ Transmitted(complete) \in Seq(Bytes)
      /\ Transmitted(Append(complete, n)) = Transmitted(complete) \o AgentWire(n)
      /\ Append(complete, n) \in Seq(1..Len(AgentFrames))
    BY <1>2, <1>3, TransmittedAppend, AppendProperties
<1>5. AgentWire(n) \in Seq(Bytes) /\ AgentPayload(n) \in Seq(Bytes)
    BY <1>3, WireType
<1>6. ~torn /\ ~corrupted =>
         outbound \o ToWrite(writing, rest, n) = Transmitted(complete) \o AgentWire(n)
    BY <1>1 DEF AgentInv, Started
<1>7. PICK count \in 1..Len(rest) :
          /\ outbound' = outbound \o SubSeq(rest, 1, count)
          /\ IF turn > MaxTurns
               THEN WriteFails /\ torn' = TRUE
               ELSE /\ IF count = Len(rest)
                         THEN TransmitMessagePayload
                         ELSE /\ rest' = SubSeq(rest, count + 1, Len(rest))
                              /\ turn' = turn + 1
                              /\ UNCHANGED <<writing, complete>>
                    /\ UNCHANGED torn
    BY DEF WriteNBytesToSocket
<1>8. Len(rest) \in Nat
    BY <1>3, LenProperties
<1>9. PICK l \in Nat : l = Len(rest)
    BY <1>8
<1>10. PICK first \in Seq(Bytes) : first = SubSeq(rest, 1, count)
    <2>1. \A i \in 1..count : rest[i] \in Bytes
        BY <1>3, <1>7, <1>8, ElementOfSeq
    <2>2. count \in Int
        BY <1>7
    <2>3. SubSeq(rest, 1, count) \in Seq(Bytes)
        BY <2>1, <2>2, SubSeqProperties
    <2> QED BY <2>3
<1>11. outbound' = outbound \o first /\ outbound' \in Seq(Bytes)
    BY <1>2, <1>7, <1>10, ConcatProperties
<1> HIDE DEF n
<1>12. CASE turn > MaxTurns
    <2>1. /\ writing' = "no" /\ rest' = <<>> /\ complete' = complete
          /\ torn' = TRUE
        BY <1>7, <1>12 DEF WriteFails, GiveUp
    <2>2. AgentTypes'
        BY <1>1, <1>2, <1>11, <2>1 DEF AgentTypes, n
    <2> QED BY <2>1, <2>2 DEF AgentInv, EndOf
<1>13. CASE ~(turn > MaxTurns) /\ count # l
    <2>1. /\ rest' = SubSeq(rest, count + 1, Len(rest)) /\ writing' = writing
          /\ complete' = complete /\ torn' = torn
        BY <1>7, <1>9, <1>13
    <2>2. AgentTypes'
        BY <1>1, <1>2, <1>11, <2>1 DEF AgentTypes, n
    <2>3. EndOf(writing', n, rest')
        BY <1>1, <1>2, <1>3, <1>7, <1>9, <1>13, <2>1, EndShorter
    <2>4. rest' \in Seq(Bytes)
        BY <1>1, <1>3, <2>1, <2>3, EndType
    <2>5. first \o rest' = rest
        <3>1. PICK f \in Nat : f = count + 1
            BY <1>7
        <3>2. /\ 1 \in 1..(Len(rest) + 1) /\ count \in (1 - 1)..Len(rest)
              /\ Len(rest) \in count..Len(rest)
            BY <1>7, <1>8
        <3>3. SubSeq(rest, 1, count) \o SubSeq(rest, count + 1, Len(rest))
                 = SubSeq(rest, 1, Len(rest))
            BY <1>3, <3>2, ConcatAdjacentSubSeq
        <3>4. SubSeq(rest, 1, Len(rest)) = rest
            BY <1>3, SubSeqFull
        <3> QED BY <1>10, <2>1, <3>3, <3>4
    <2>6. first \o ToWrite(writing, rest', n) = ToWrite(writing, rest, n)
        <3>1. first \o (rest' \o AgentPayload(n)) = rest \o AgentPayload(n)
            <4>1. (first \o rest') \o AgentPayload(n) = first \o (rest' \o AgentPayload(n))
                BY <1>5, <1>10, <2>4, OutAssociative
            <4> QED BY <2>5, <4>1
        <3> QED BY <2>5, <3>1 DEF ToWrite
    <2>7. outbound' \o ToWrite(writing', rest', n)
             = outbound \o ToWrite(writing, rest, n)
        <3>1. ToWrite(writing, rest', n) \in Seq(Bytes)
            <4>1. rest' \o AgentPayload(n) \in Seq(Bytes)
                BY <1>5, <2>4, ConcatProperties
            <4> QED BY <2>4, <4>1 DEF ToWrite
        <3>2. (outbound \o first) \o ToWrite(writing, rest', n)
                 = outbound \o (first \o ToWrite(writing, rest', n))
            BY <1>2, <1>10, <3>1, OutAssociative
        <3> QED BY <1>11, <2>1, <2>6, <3>2
    <2>8. Started(writing', n) = AgentWire(n)
        BY <1>1, <2>1 DEF Started
    <2>9. ~torn' /\ ~corrupted' =>
             outbound' \o ToWrite(writing', rest', current')
                = Transmitted(complete') \o Started(writing', current')
        BY <1>1, <1>6, <2>1, <2>7, <2>8 DEF n
    <2>10. EndOf(writing', current', rest')
        BY <1>1, <2>3 DEF n
    <2> QED BY <2>2, <2>9, <2>10 DEF AgentInv
<1>14. CASE ~(turn > MaxTurns) /\ count = l
    <2>1. TransmitMessagePayload /\ torn' = torn
        BY <1>7, <1>9, <1>14
    <2>2. first = rest
        BY <1>3, <1>9, <1>10, <1>14, SubSeqFull
    <2>3. CASE writing = "header" /\ AgentPayload(n) # <<>>
        <3>1. /\ writing' = "payload" /\ rest' = AgentPayload(n)
              /\ complete' = complete
            BY <2>1, <2>3 DEF TransmitMessagePayload, AgentPayload, n
        <3>2. AgentTypes'
            BY <1>1, <1>2, <1>11, <3>1 DEF AgentTypes, n
        <3>3. EndOf(writing', current', rest')
            BY <1>1, <1>3, <2>3, <3>1, PayloadIsEnd DEF n
        <3>4. ToWrite(writing', rest', n) = AgentPayload(n)
            BY <3>1 DEF ToWrite
        <3>5. ToWrite(writing, rest, n) = rest \o AgentPayload(n)
            BY <2>3 DEF ToWrite
        <3>6. (outbound \o rest) \o AgentPayload(n) = outbound \o (rest \o AgentPayload(n))
            <4>1. PICK o \in Seq(Bytes) : o = outbound
                BY <1>2
            <4>2. PICK r \in Seq(Bytes) : r = rest
                BY <1>3
            <4>3. PICK p \in Seq(Bytes) : p = AgentPayload(n)
                BY <1>5
            <4>4. (o \o r) \o p = o \o (r \o p)
                BY OutAssociative
            <4> QED BY <4>1, <4>2, <4>3, <4>4
        <3>7. Started(writing', n) = AgentWire(n)
            BY <3>1 DEF Started
        <3>8. ~torn' /\ ~corrupted' =>
                 outbound' \o ToWrite(writing', rest', current')
                    = Transmitted(complete') \o Started(writing', current')
            BY <1>1, <1>6, <1>11, <2>1, <2>2, <3>1, <3>4, <3>5, <3>6, <3>7 DEF n
        <3> QED BY <3>2, <3>3, <3>8 DEF AgentInv
    <2>4. CASE ~(writing = "header" /\ AgentPayload(n) # <<>>)
        <3>1. /\ writing' = "no" /\ rest' = <<>>
              /\ complete' = Append(complete, n)
            BY <2>1, <2>4 DEF TransmitMessagePayload, GiveUp, AgentPayload, n
        <3>2. AgentTypes'
            BY <1>1, <1>2, <1>4, <1>11, <3>1 DEF AgentTypes, n
        <3>3. EndOf(writing', current', rest')
            BY <3>1 DEF EndOf
        <3>4. ToWrite(writing, rest, n) = rest
            <4>1. rest \o <<>> = rest
                BY <1>3, ConcatEmptySeq
            <4> QED BY <2>4, <4>1 DEF ToWrite
        <3>5. ToWrite(writing', rest', current') = <<>> /\ Started(writing', current') = <<>>
            BY <3>1 DEF ToWrite, Started
        <3>6. outbound' \o <<>> = outbound'
            BY <1>11, ConcatEmptySeq
        <3>7. Transmitted(complete') \in Seq(Bytes)
            BY <1>4, <1>5, <3>1, ConcatProperties
        <3>8. Transmitted(complete') \o <<>> = Transmitted(complete')
            BY <3>7, ConcatEmptySeq
        <3>9. ~torn' /\ ~corrupted' =>
                 outbound' \o ToWrite(writing', rest', current')
                    = Transmitted(complete') \o Started(writing', current')
            BY <1>1, <1>4, <1>6, <1>11, <2>1, <2>2, <3>1, <3>4, <3>5, <3>6, <3>8
        <3> QED BY <3>2, <3>3, <3>9 DEF AgentInv
    <2> QED BY <2>3, <2>4
<1> QED BY <1>12, <1>13, <1>14

LEMMA AgentSteps == AgentInv /\ [SenderNext]_outVars => AgentInv'
<1> SUFFICES ASSUME AgentInv, [SenderNext]_outVars
             PROVE  AgentInv'
    OBVIOUS
<1>1. CASE TransmitMessageHeader
    BY <1>1, TransmitHeaderStep
<1>2. CASE WriteNBytesToSocket
    BY <1>2, WriteStep
<1>3. CASE SendThrows
    BY <1>3, SendThrowsStep
<1>4. CASE UNCHANGED outVars
    BY <1>4 DEF outVars, AgentInv, AgentTypes
<1> QED BY <1>1, <1>2, <1>3, <1>4 DEF SenderNext

LEMMA AgentFramesTold == AgentInv => AgentFramesInTurn
<1> SUFFICES ASSUME AgentInv, ~torn, ~corrupted
             PROVE  outbound \o ToWrite(writing, rest, current)
                       = Transmitted(complete) \o Started(writing, current)
    BY DEF AgentFramesInTurn, ToWrite, Transmitted, Started, AgentWire, AgentPayload
<1> QED BY DEF AgentInv
-----------------------------------------------------------------------------
(* Log lines are dispatched one after the other, with the date of the last *)
(* dated one, for a log of any length and wherever its end is met.         *)
THEOREM LogAlwaysInTurn == Spec => []LogLinesInTurn
<1>1. Init => LogInv
    BY LogStart DEF Init
<1>2. LogInv /\ [Next]_vars => LogInv'
    BY StepsOfParts, LogSteps
<1>3. LogInv => LogLinesInTurn
    BY DEF LogInv
<1> QED BY <1>1, <1>2, <1>3, PTL DEF Spec

(* The plugins get the frames of the host, whole and in turn, however many *)
(* and however long they are and wherever TCP cuts them, until a timeout   *)
(* falls within a frame or a header does not parse.                        *)
THEOREM HostFramesAlwaysInTurn == Spec => []HostFramesInTurn
<1>1. Init => HostInv
    BY HostStarts DEF Init
<1>2. HostInv /\ [Next]_vars => HostInv'
    BY StepsOfParts, HostSteps
<1>3. HostInv => HostFramesInTurn
    BY HostFramesTold
<1> QED BY <1>1, <1>2, <1>3, PTL DEF Spec

(* The pool and the flags of its threads keep their types, for a queue of  *)
(* any length.                                                             *)
THEOREM PoolTypeCorrect == Spec => []TypeOK
<1>1. Init => PoolInv
    BY PoolStarts DEF Init
<1>2. PoolInv /\ [Next]_vars => PoolInv'
    BY StepsOfParts, PoolSteps
<1>3. PoolInv => TypeOK
    BY DEF PoolInv
<1> QED BY <1>1, <1>2, <1>3, PTL DEF Spec

(* A consumer that is about to sleep, or sleeps, leaves no message behind  *)
(* that nobody is going to tell it of.                                     *)
THEOREM PoolWakeupNeverLost == Spec => []NoLostWakeup
<1>1. Init => PoolInv
    BY PoolStarts DEF Init
<1>2. PoolInv /\ [Next]_vars => PoolInv'
    BY StepsOfParts, PoolSteps
<1>3. PoolInv => NoLostWakeup
    BY DEF PoolInv, FlagCoversQueue, NoLostWakeup
<1> QED BY <1>1, <1>2, <1>3, PTL DEF Spec

(* The consumer forwards what the producer captured, each message once and *)
(* in order, for a queue of any length.                                    *)
THEOREM AlwaysCapturedInOrder == Spec => []CapturedInOrder
<1>1. Init => OrderInv
    BY OrderStarts DEF Init
<1>2. OrderInv /\ [Next]_vars => OrderInv'
    BY StepsOfParts, OrderSteps
<1>3. OrderInv => CapturedInOrder
    BY DEF OrderInv
<1> QED BY <1>1, <1>2, <1>3, PTL DEF Spec

(* Each sample has all that was there while it was taken, under its own id *)
(* and with its own figures, for any number of processes, threads and      *)
(* samples and whoever comes and goes between two reads.                   *)
THEOREM SampleAlwaysTrue == Spec => []SampleTrue
<1>1. Init => MonitorInv
    BY MonitorStarts DEF Init
<1>2. MonitorInv /\ [Next]_vars => MonitorInv'
    BY StepsOfParts, MonitorSteps
<1>3. MonitorInv => SampleTrue
    BY SampleTold
<1> QED BY <1>1, <1>2, <1>3, PTL DEF Spec

(* However the FIFO is cut into reads and whatever msg held before, a line *)
(* that is the first to end in its read comes out whole, for lines, reads  *)
(* and an array of any length, until a line was cut.                       *)
THEOREM FirstLinesAlwaysWhole == Spec => []FirstLinesWhole
<1>1. Init => JsonInv
    BY JsonStarts DEF Init
<1>2. JsonInv /\ [Next]_vars => JsonInv'
    BY StepsOfParts, JsonSteps
<1>3. JsonInv => FirstLinesWhole
    BY LinesTold
<1> QED BY <1>1, <1>2, <1>3, PTL DEF Spec

(* However the stream of an application is cut into reads, each frame that *)
(* fits and has a payload comes out once, in its turn, whole, for frames   *)
(* of any number and length and a buffer of any size, while all headers    *)
(* parse.                                                                  *)
THEOREM FramesAlwaysWhole == Spec => []FramesWhole
<1>1. Init => SocketInv
    BY SocketStarts DEF Init
<1>2. SocketInv /\ [Next]_vars => SocketInv'
    BY StepsOfParts, SocketSteps
<1>3. SocketInv => FramesWhole
    BY FramesTold
<1> QED BY <1>1, <1>2, <1>3, PTL DEF Spec

(* Whatever is cut short or refused, what reached the host is the frames   *)
(* of the messages transmitted, whole and in their order, and the          *)
(* beginning of the current one, for messages of any number and length,    *)
(* until a write failed within a frame or a header overran its buffer.     *)
THEOREM AgentFramesAlwaysInTurn == Spec => []AgentFramesInTurn
<1>1. Init => AgentInv
    BY AgentStarts DEF Init
<1>2. AgentInv /\ [Next]_vars => AgentInv'
    BY StepsOfParts, AgentSteps
<1>3. AgentInv => AgentFramesInTurn
    BY AgentFramesTold
<1> QED BY <1>1, <1>2, <1>3, PTL DEF Spec
=============================================================================
