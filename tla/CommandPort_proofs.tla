-------------------------- MODULE CommandPort_proofs --------------------------
(***************************************************************************)
(* Proofs about CommandPort, for requests of any number and size, a buffer *)
(* of any size, any portions and any reading of misplaced bytes.           *)
(***************************************************************************)
EXTENDS CommandPort, SequenceTheorems, TLAPS

-----------------------------------------------------------------------------
(* The inductive invariant, in parts.                                      *)

(* A request being received is not complete, or it would be dispatched.    *)
Incomplete == payloadbuffer # <<>> => Len(payloadbuffer) < total

(* An empty buffer remembers nothing of earlier requests but a total.      *)
Forgotten == payloadbuffer = <<>> => headerLength = 0 /\ payloadLength = 0

(* The buffer never shrinks below its first size.                          *)
RoomForMore == payloadbufferSize >= BUFFER_SIZE

Inv == /\ TypeOK
       /\ Incomplete
       /\ Forgotten
       /\ RoomForMore

-----------------------------------------------------------------------------
(* The bytes of a request are bytes.                                       *)
LEMMA BytesType ==
    ASSUME NEW r \in Requests
    PROVE  /\ WireSize(r) \in Nat
           /\ WireSize(r) > HeaderSize[r] + Prefix
           /\ Bytes(r) \in Seq(ByteTypes)
<1>1. HeaderSize[r] \in Nat /\ PayloadSize[r] \in Nat
    BY CommandPortAssumption
<1>2. WireSize(r) \in Nat /\ WireSize(r) > HeaderSize[r] + Prefix
    BY <1>1 DEF WireSize, Prefix, HEADER_LENGTH_SIZE, DELIMITATOR_SIZE
<1>3. \A i \in 1..WireSize(r) : [request |-> r, at |-> i] \in ByteTypes
    BY <1>2 DEF ByteTypes
<1>4. Bytes(r) \in Seq(ByteTypes)
    BY <1>2, <1>3 DEF Bytes
<1> QED BY <1>2, <1>4

(* What an unsigned number keeps of a natural one.                         *)
LEMMA Unsigned ==
    ASSUME NEW x \in Nat
    PROVE  x % WORD \in Nat /\ (x < WORD => x % WORD = x)
BY CommandPortAssumption

(* A read splits what is on the wire between the buffer and the rest.      *)
LEMMA ReadSplits ==
    ASSUME TypeOK, NEW n \in 1..Len(wire), n <= Room
    PROVE  LET b == payloadbuffer \o SubSeq(wire, 1, n)
           IN  /\ b \in Seq(ByteTypes)
               /\ b # <<>>
               /\ Len(b) = Len(payloadbuffer) + n
               /\ Len(b) <= payloadbufferSize
               /\ payloadbuffer = <<>> => b[1] = wire[1]
               /\ SubSeq(wire, n + 1, Len(wire)) \in Seq(ByteTypes)
               /\ Len(SubSeq(wire, n + 1, Len(wire))) = Len(wire) - n
<1> DEFINE s == SubSeq(wire, 1, n)
<1>1. wire \in Seq(ByteTypes) /\ payloadbuffer \in Seq(ByteTypes)
    BY DEF TypeOK
<1>2. s \in Seq(ByteTypes) /\ Len(s) = n /\ s[1] = wire[1]
    BY <1>1
<1>3. /\ SubSeq(wire, n + 1, Len(wire)) \in Seq(ByteTypes)
      /\ Len(SubSeq(wire, n + 1, Len(wire))) = Len(wire) - n
    BY <1>1
<1> HIDE DEF s
<1>4. payloadbuffer \o s \in Seq(ByteTypes) /\ Len(payloadbuffer \o s) = Len(payloadbuffer) + n
    BY <1>1, <1>2
<1>5. Len(payloadbuffer) + n <= payloadbufferSize
    BY <1>1 DEF Room, TypeOK
<1>6. payloadbuffer = <<>> => (payloadbuffer \o s)[1] = wire[1]
    BY <1>1, <1>2
<1>7. payloadbuffer \o s # <<>>
    BY <1>1, <1>4
<1> QED BY <1>3, <1>4, <1>5, <1>6, <1>7 DEF s

(* A buffer that holds bytes begins with one of some request.              *)
LEMMA FirstByte ==
    ASSUME NEW b \in Seq(ByteTypes), b # <<>>
    PROVE  b[1].request \in Requests
<1>1. 1 \in 1..Len(b)
    OBVIOUS
<1>2. b[1] \in ByteTypes
    BY <1>1
<1> QED BY <1>2 DEF ByteTypes

(* sscanf finds sizes.                                                     *)
LEMMA SizesFound ==
    ASSUME TypeOK, NEW b \in Seq(ByteTypes), b # <<>>
    PROVE  HeaderLengths(b) \subseteq Nat /\ PayloadLengths(b) \subseteq Nat
<1>1. b[1].request \in Requests
    BY FirstByte
<1>2. HeaderSize[b[1].request] \in Nat /\ PayloadSize[b[1].request] \in Nat
    BY <1>1, CommandPortAssumption
<1>3. headerLength \in Nat /\ Garbage \subseteq Nat
    BY CommandPortAssumption DEF TypeOK
<1> QED BY <1>1, <1>2, <1>3 DEF HeaderLengths, PayloadLengths

(* The counters start afresh.                                              *)
LEMMA ResetResult ==
    ASSUME TypeOK, RoomForMore, ResetCounters
    PROVE  /\ payloadbuffer' = <<>> /\ payloadbuffer' \in Seq(ByteTypes)
           /\ Len(payloadbuffer') = 0
           /\ payloadbufferSize' \in Nat /\ payloadbufferSize' >= BUFFER_SIZE
           /\ headerLength' = 0 /\ payloadLength' = 0
BY CommandPortAssumption DEF TypeOK, RoomForMore, ResetCounters

(* What dispatchMessage leaves behind, but for the wire.                   *)
LEMMA DispatchResult ==
    ASSUME TypeOK, RoomForMore,
           NEW b \in Seq(ByteTypes), b # <<>>,
           NEW h \in Nat, NEW l \in Nat, NEW t \in Nat, NEW size \in Nat,
           NEW filled, size >= BUFFER_SIZE, Len(b) <= size \/ Complete(b, t),
           DispatchMessage(b, h, l, t, size, filled)
    PROVE  /\ payloadbuffer' \in Seq(ByteTypes)
           /\ payloadbufferSize' \in Nat
           /\ Len(payloadbuffer') <= payloadbufferSize'
           /\ headerLength' \in Nat /\ payloadLength' \in Nat /\ total' \in Nat
           /\ undefined' \in BOOLEAN
           /\ dispatched' \in Seq(Requests \cup {Fragment})
           /\ Incomplete' /\ Forgotten' /\ RoomForMore'
<1>0. undefined' \in BOOLEAN
    BY DEF DispatchMessage, Touches
<1>1. CASE Complete(b, t)
    <2>1. /\ dispatched' = Append(dispatched, Contents(b, h, l))
          /\ ResetCounters
          /\ total' = 0
        BY <1>1 DEF DispatchMessage
    <2>2. Contents(b, h, l) \in Requests \cup {Fragment}
        BY FirstByte DEF Contents
    <2>3. dispatched' \in Seq(Requests \cup {Fragment})
        BY <2>1, <2>2 DEF TypeOK
    <2>4. Incomplete' /\ Forgotten' /\ RoomForMore'
        BY <2>1, ResetResult DEF Incomplete, Forgotten, RoomForMore
    <2> QED BY <1>0, <2>1, <2>3, <2>4, ResetResult
<1>2. CASE ~Complete(b, t)
    <2>1. /\ payloadbuffer' = b
          /\ payloadbufferSize' = size
          /\ headerLength' = h
          /\ payloadLength' = l
          /\ total' = t
          /\ dispatched' = dispatched
        BY <1>2 DEF DispatchMessage
    <2>2. Len(b) < t
        BY <1>2 DEF Complete
    <2>3. Incomplete' /\ Forgotten' /\ RoomForMore'
        BY <2>1, <2>2 DEF Incomplete, Forgotten, RoomForMore
    <2> QED BY <1>0, <1>2, <2>1, <2>3 DEF TypeOK
<1> QED BY <1>1, <1>2

(* The invariant holds of a new connection.                                *)
LEMMA InitInv == Init => Inv
<1> SUFFICES ASSUME Init
             PROVE  Inv
    OBVIOUS
<1>1. undefined \in BOOLEAN
    BY DEF Init
<1>2. /\ wire \in Seq(ByteTypes)
      /\ payloadbuffer \in Seq(ByteTypes)
      /\ dispatched \in Seq(Requests \cup {Fragment})
    BY DEF Init
<1>3. /\ payloadbufferSize \in Nat
      /\ Len(payloadbuffer) <= payloadbufferSize
      /\ RoomForMore
    BY CommandPortAssumption DEF Init, RoomForMore
<1>4. headerLength \in Nat /\ payloadLength \in Nat /\ total \in Nat /\ unsent \subseteq Requests
    BY DEF Init
<1>5. Incomplete /\ Forgotten
    BY DEF Init, Incomplete, Forgotten
<1> QED BY <1>1, <1>2, <1>3, <1>4, <1>5 DEF Inv, TypeOK

(* Every step keeps it.                                                    *)
LEMMA NextInv == Inv /\ [Next]_vars => Inv'
<1> SUFFICES ASSUME Inv, [Next]_vars
             PROVE  Inv'
    OBVIOUS
<1> USE DEF Inv
<1>1. ASSUME NEW r \in Requests, ClientSends(r)
      PROVE  Inv'
    <2>1. wire' \in Seq(ByteTypes)
        BY <1>1, BytesType DEF ClientSends, TypeOK
    <2> QED BY <1>1, <2>1 DEF ClientSends, TypeOK, Incomplete, Forgotten, RoomForMore
<1>2. ASSUME NEW n \in 1..Len(wire), OnSocketReadable(n)
      PROVE  Inv'
    <2> DEFINE b == payloadbuffer \o SubSeq(wire, 1, n)
    <2>1. /\ b \in Seq(ByteTypes)
          /\ b # <<>>
          /\ Len(b) <= payloadbufferSize
          /\ wire' \in Seq(ByteTypes)
          /\ unsent' = unsent
        BY <1>2, ReadSplits DEF OnSocketReadable
    <2>2. PICK h \in HeaderLengths(b) : ExtractHeaderContent(b, h)
        BY <1>2 DEF OnSocketReadable
    <2> HIDE DEF b
    <2>3. h \in Nat
        BY <2>1, <2>2, SizesFound
    <2>4. CASE DispatchMessage(b, h, payloadLength, total, payloadbufferSize, Filled(b))
        <3>1. /\ payloadLength \in Nat
              /\ total \in Nat
              /\ payloadbufferSize \in Nat
              /\ payloadbufferSize >= BUFFER_SIZE
            BY DEF TypeOK, RoomForMore
        <3> QED BY <2>1, <2>3, <2>4, <3>1, DispatchResult DEF TypeOK
    <2>5. CASE /\ ResetCounters
               /\ total' = Prefix
               /\ Touches(Filled(b))
               /\ dispatched' = dispatched
        <3>1. Incomplete' /\ Forgotten' /\ RoomForMore'
            BY <2>5, ResetResult DEF Incomplete, Forgotten, RoomForMore
        <3>2. Prefix \in Nat
            BY DEF Prefix, HEADER_LENGTH_SIZE, DELIMITATOR_SIZE
        <3>3. undefined' \in BOOLEAN
            BY <2>5 DEF Touches
        <3> QED BY <2>1, <2>5, <3>1, <3>2, <3>3, ResetResult DEF TypeOK
    <2>6. ASSUME NEW l \in PayloadLengths(b), NEW size \in Sizes(Total(h, l)),
                 DispatchMessage(b, h, l, Total(h, l), size, Filled(b))
          PROVE  Inv'
        <3>1. l \in Nat
            BY <2>1, SizesFound
        <3>2. Total(h, l) \in Nat
            <4>1. Prefix + h + l \in Nat
                BY <2>3, <3>1 DEF Prefix, HEADER_LENGTH_SIZE, DELIMITATOR_SIZE
            <4> QED BY <4>1, Unsigned DEF Total
        <3>3. size \in Nat /\ size >= BUFFER_SIZE
            BY <3>2, CommandPortAssumption DEF Sizes, TypeOK, RoomForMore
        <3>4. Len(b) <= size \/ Complete(b, Total(h, l))
            BY <2>1, <3>2 DEF Sizes, Complete, TypeOK
        <3> QED BY <2>1, <2>3, <2>6, <3>1, <3>2, <3>3, <3>4, DispatchResult DEF TypeOK
    <2> QED BY <2>2, <2>4, <2>5, <2>6 DEF ExtractHeaderContent
<1>3. CASE ConnectionClosed
    BY <1>3, CommandPortAssumption
       DEF ConnectionClosed, TypeOK, Incomplete, Forgotten, RoomForMore
<1>4. CASE UNCHANGED vars
    BY <1>4 DEF vars, TypeOK, Incomplete, Forgotten, RoomForMore
<1> QED BY <1>1, <1>2, <1>3, <1>4 DEF Next

(* The inductive invariant holds in every behaviour.                       *)
LEMMA SpecInv == Spec => []Inv
BY InitInv, NextInv, PTL DEF Spec

-----------------------------------------------------------------------------
(* The theorems.                                                           *)

(* The bytes received fit the buffer, and every variable keeps its type.   *)
THEOREM TypeCorrect == Spec => []TypeOK
<1>1. Inv => TypeOK
    BY DEF Inv
<1> QED BY <1>1, SpecInv, PTL

(* The buffer is never full while its request may still be received.       *)
THEOREM RoomToReceive == Spec => []NeverFull
<1>1. Inv => NeverFull
    BY CommandPortAssumption DEF Inv, TypeOK, Incomplete, RoomForMore, NeverFull
<1> QED BY <1>1, SpecInv, PTL

(* Whatever was received before, a request that arrives whole at an empty  *)
(* buffer is dispatched, unless the terminator after it does harm:         *)
(* resetCounters leaves nothing behind that could spoil it, not even the   *)
(* total a rejected header leaves.                                         *)
THEOREM ResynchronisesOnWholeRequests == Spec => WholeRequestUnderstood
<1> DEFINE Understood == \A r \in Requests \ Invalid :
                            ReadsWhole(r) => undefined' \/ dispatched' = Append(dispatched, r)
<1>1. Inv /\ [Next]_vars => [Understood]_vars
    <2> SUFFICES ASSUME Inv, Next, NEW r \in Requests \ Invalid, ReadsWhole(r)
                 PROVE  dispatched' = Append(dispatched, r)
        OBVIOUS
    <2>1. /\ WireSize(r) \in Nat
          /\ WireSize(r) > HeaderSize[r] + Prefix
          /\ wire \in Seq(ByteTypes)
          /\ headerLength = 0 /\ payloadLength = 0
          /\ HeaderSize[r] \in Nat \ {0} /\ PayloadSize[r] \in Nat
        BY BytesType, CommandPortAssumption DEF Inv, TypeOK, Forgotten, ReadsWhole
    <2>2. WireSize(r) > 0 /\ Prefix = 3
        BY <2>1 DEF Prefix, HEADER_LENGTH_SIZE, DELIMITATOR_SIZE
    <2>3. PICK n \in 1..Len(wire) : OnSocketReadable(n)
        <3>1. ~ \E q \in Requests : ClientSends(q)
            <4>1. ASSUME NEW q \in Requests, ClientSends(q)
                  PROVE  FALSE
                <5>1. wire' = wire \o Bytes(q) /\ Bytes(q) \in Seq(ByteTypes)
                    BY <4>1, BytesType DEF ClientSends
                <5>2. Len(wire') = Len(wire) + Len(Bytes(q))
                    BY <2>1, <5>1
                <5> QED BY <2>1, <2>2, <5>1, <5>2 DEF ReadsWhole
            <4> QED BY <4>1
        <3>2. ~ConnectionClosed
            BY DEF ConnectionClosed, ReadsWhole
        <3> QED BY <3>1, <3>2 DEF Next
    <2> DEFINE b == payloadbuffer \o SubSeq(wire, 1, n)
    <2>4. /\ b \in Seq(ByteTypes)
          /\ Len(b) = n
          /\ b[1] = wire[1]
          /\ Len(wire') = Len(wire) - n
        BY <2>3, ReadSplits DEF Inv, OnSocketReadable, ReadsWhole
    <2>5. PICK h \in HeaderLengths(b) : ExtractHeaderContent(b, h)
        BY <2>3 DEF OnSocketReadable
    <2> HIDE DEF b
    <2>6. Len(b) >= WireSize(r)
        BY <2>1, <2>4 DEF ReadsWhole
    <2>7. b[1] = [request |-> r, at |-> 1] /\ Aligned(b)
        BY <2>1, <2>4 DEF ReadsWhole, Aligned
    <2>8. h = HeaderSize[r]
        BY <2>1, <2>2, <2>5, <2>6, <2>7 DEF HeaderLengths, HEADER_LENGTH_SIZE
    <2>9. HeaderComplete(b, h) /\ ~MayBeRejected(b)
        BY <2>1, <2>2, <2>4, <2>6, <2>7, <2>8 DEF HeaderComplete, MayBeRejected
    <2>10. PayloadLengths(b) = {PayloadSize[r]}
        BY <2>7 DEF PayloadLengths
    <2>11. PICK size \in Sizes(Total(h, PayloadSize[r])) :
              DispatchMessage(b, h, PayloadSize[r], Total(h, PayloadSize[r]), size, Filled(b))
        BY <2>5, <2>9, <2>10 DEF ExtractHeaderContent
    <2>12. Complete(b, Total(h, PayloadSize[r]))
        <3>1. /\ Prefix + h + PayloadSize[r] \in Nat
              /\ Prefix + h + PayloadSize[r] < WORD
            BY <2>1, <2>2, <2>8, CommandPortAssumption
        <3>2. Total(h, PayloadSize[r]) = Prefix + h + PayloadSize[r]
            BY <3>1, Unsigned DEF Total
        <3> QED BY <2>1, <2>2, <2>4, <2>6, <2>8, <3>2
                DEF Complete, WireSize, DELIMITATOR_SIZE
    <2>13. Contents(b, h, PayloadSize[r]) = r
        BY <2>6, <2>7, <2>8 DEF Contents
    <2> QED BY <2>11, <2>12, <2>13 DEF DispatchMessage
<1> QED BY <1>1, SpecInv, PTL DEF Spec, WholeRequestUnderstood
=============================================================================
