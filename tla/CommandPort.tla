----------------------------- MODULE CommandPort -----------------------------
(***************************************************************************)
(* CCommanControlServer: how a connection of the command port cuts the     *)
(* byte stream of its client into requests.  A request is two hexadecimal  *)
(* digits (the size of the header), a delimiter, the header (which tells   *)
(* the size of the payload), a delimiter and the payload.                  *)
(*                                                                         *)
(* TCP hands over the bytes in portions of its own choice: each step of    *)
(* onSocketReadable takes some of those sent.  A byte is its request and   *)
(* its place in it; what sscanf makes of bytes that do not begin with a    *)
(* request is left open.  malloc in the constructor succeeds; realloc may  *)
(* fail.                                                                   *)
(*                                                                         *)
(* A terminator is written after the bytes received: one past the buffer   *)
(* when a read fills it.  The memory manager may have left room there, or  *)
(* it is somebody else's byte: the behaviour then ends, undefined.         *)
(***************************************************************************)
EXTENDS Naturals, Sequences

CONSTANTS Requests,    \* the requests clients send, each once
          Invalid,     \* those whose header lacks the length or the type
          HeaderSize,  \* the size of each request's header
          PayloadSize, \* and of its payload
          Garbage,     \* sizes that sscanf may read from misplaced bytes
          BUFFER_SIZE,
          WORD         \* unsigned sizes are numbers below WORD

ASSUME CommandPortAssumption ==
    /\ Invalid \subseteq Requests
    /\ HeaderSize \in [Requests -> Nat \ {0}]
    /\ PayloadSize \in [Requests -> Nat]
    /\ Garbage \subseteq Nat
    /\ 0 \in Garbage
    /\ "fragment" \notin Requests
    /\ BUFFER_SIZE \in Nat \ {0}
    /\ WORD \in Nat \ {0}
    /\ \A r \in Requests : HeaderSize[r] + PayloadSize[r] + 3 < WORD

VARIABLES
    wire,              \* bytes sent and not yet read
    payloadbuffer,     \* the bytes received, bytesAlreadyReceived of them
    payloadbufferSize,
    headerLength,
    payloadLength,
    total,             \* totalAmountOfbytes
    undefined,         \* history: memory outside the buffer was touched, and
                       \* was not free for it
    unsent,            \* the requests not yet sent
    dispatched         \* history: requests enqueued as events; the parts of
                       \* requests that were taken for one count as Fragment

vars == <<wire, payloadbuffer, payloadbufferSize, headerLength, payloadLength,
          total, undefined, unsent, dispatched>>

-----------------------------------------------------------------------------
HEADER_LENGTH_SIZE == 2
DELIMITATOR_SIZE   == 1

Prefix == HEADER_LENGTH_SIZE + DELIMITATOR_SIZE

(* The size of request r on the wire, and its bytes.                       *)
WireSize(r) == Prefix + HeaderSize[r] + DELIMITATOR_SIZE + PayloadSize[r]

Bytes(r) == [i \in 1..WireSize(r) |-> [request |-> r, at |-> i]]

Fragment == "fragment"

Init == /\ wire = <<>>
        /\ payloadbuffer = <<>>
        /\ payloadbufferSize = BUFFER_SIZE
        /\ headerLength = 0
        /\ payloadLength = 0
        /\ total = 0
        /\ undefined = FALSE
        /\ unsent = Requests
        /\ dispatched = <<>>

ClientSends(r) ==
    /\ r \in unsent
    /\ wire' = wire \o Bytes(r)
    /\ unsent' = unsent \ {r}
    /\ UNCHANGED <<payloadbuffer, payloadbufferSize, headerLength,
                   payloadLength, total, undefined, dispatched>>

-----------------------------------------------------------------------------
(* What sscanf finds in the buffer b.                                      *)

Aligned(b) == b[1].at = 1

HeaderLengths(b) ==
    IF Len(b) > HEADER_LENGTH_SIZE /\ headerLength = 0
    THEN IF Aligned(b) THEN {HeaderSize[b[1].request]} ELSE Garbage
    ELSE {headerLength}

HeaderComplete(b, h) == Len(b) > Prefix + h /\ payloadLength = 0

MayBeRejected(b) == ~Aligned(b) \/ b[1].request \in Invalid

PayloadLengths(b) ==
    IF ~Aligned(b) THEN Garbage
    ELSE {PayloadSize[r] : r \in {b[1].request} \ Invalid}

(* Faulty variant: the length of the last header survives.                 *)
ResetAllButHeaderLength == /\ payloadbuffer' = <<>>
                           /\ payloadbufferSize' \in {BUFFER_SIZE, payloadbufferSize}
                           /\ payloadLength' = 0
                           /\ UNCHANGED headerLength

(* resetCounters, but for the total.  Shrinking the buffer may fail.       *)
ResetCounters == /\ payloadbuffer' = <<>>
                 /\ payloadbufferSize' \in {BUFFER_SIZE, payloadbufferSize}
                 /\ headerLength' = 0
                 /\ payloadLength' = 0

(* What is dispatched: the request, if the buffer holds all of it and the  *)
(* payload is looked for in the right place.                               *)
Contents(b, h, l) ==
    LET r == b[1].request
    IN  IF /\ Aligned(b)
           /\ Len(b) >= WireSize(r)
           /\ h = HeaderSize[r]
           /\ l = PayloadSize[r]
        THEN r ELSE Fragment

(* Faulty variant: a request is complete only with a byte to spare.        *)
CompleteTooLate(b, t) == Len(b) > t + DELIMITATOR_SIZE

(* The total leaves out the second delimiter; it is 0 without a header.    *)
Complete(b, t) == Len(b) >= t

(* Part of the payload of length l lies outside a buffer of this size.     *)
PayloadOutside(h, l, size) == Prefix + h + DELIMITATOR_SIZE + l > size

(* Memory outside the buffer is touched or not.                            *)
Touches(outside) == undefined' \in IF outside THEN BOOLEAN ELSE {FALSE}

(* dispatchMessage, on the buffer b and the values found in it.  filled:   *)
(* the read before has filled the buffer.                                  *)
DispatchMessage(b, h, l, t, size, filled) ==
    \/ /\ Complete(b, t)
       /\ dispatched' = Append(dispatched, Contents(b, h, l))
       /\ ResetCounters
       /\ total' = 0
       /\ Touches(filled \/ PayloadOutside(h, l, size))
    \/ /\ ~Complete(b, t)
       /\ payloadbuffer' = b
       /\ payloadbufferSize' = size
       /\ headerLength' = h
       /\ payloadLength' = l
       /\ total' = t
       /\ Touches(filled)
       /\ UNCHANGED dispatched

(* The total of a request, an unsigned number.                             *)
Total(h, l) == (Prefix + h + l) % WORD

(* The buffer for a total of t.  Growing it may fail.                      *)
Sizes(t) == IF t > BUFFER_SIZE THEN {t, payloadbufferSize} ELSE {payloadbufferSize}

(* The terminator after the buffer's contents b lies outside.              *)
Filled(b) == Len(b) >= payloadbufferSize

(* extractHeaderContent and dispatchMessage.  A header without length and  *)
(* type resets all but the total, which is computed after the reset.       *)
ExtractHeaderContent(b, h) ==
    \/ /\ ~HeaderComplete(b, h)
       /\ DispatchMessage(b, h, payloadLength, total, payloadbufferSize, Filled(b))
    \/ /\ HeaderComplete(b, h)
       /\ MayBeRejected(b)
       /\ ResetCounters
       /\ total' = Prefix
       /\ Touches(Filled(b))
       /\ UNCHANGED dispatched
    \/ /\ HeaderComplete(b, h)
       /\ \E l \in PayloadLengths(b) :
             \E size \in Sizes(Total(h, l)) :
                DispatchMessage(b, h, l, Total(h, l), size, Filled(b))

(* Faulty variant: a read may fill more than the buffer has room for.      *)
RoomIgnored == Len(wire)

Room == payloadbufferSize - Len(payloadbuffer)

(* onSocketReadable, when n bytes arrive.  (On a blocking socket Poco      *)
(* reports a failed read with an exception, never with count < 0.)         *)
OnSocketReadable(n) ==
    /\ n <= Room
    /\ wire' = SubSeq(wire, n + 1, Len(wire))
    /\ LET b == payloadbuffer \o SubSeq(wire, 1, n)
       IN  \E h \in HeaderLengths(b) : ExtractHeaderContent(b, h)
    /\ UNCHANGED unsent

(* The client has closed its end: the object is deleted.  The next client  *)
(* gets a new one.                                                         *)
ConnectionClosed ==
    /\ wire = <<>>
    /\ payloadbuffer' = <<>>
    /\ payloadbufferSize' = BUFFER_SIZE
    /\ headerLength' = 0
    /\ payloadLength' = 0
    /\ total' = 0
    /\ UNCHANGED <<wire, undefined, unsent, dispatched>>

Next == /\ ~undefined
        /\ \/ \E r \in Requests : ClientSends(r)
           \/ \E n \in 1..Len(wire) : OnSocketReadable(n)
           \/ ConnectionClosed

Spec == Init /\ [][Next]_vars

-----------------------------------------------------------------------------
(* Properties.                                                             *)

ByteTypes == [request : Requests, at : Nat]

(* Every variable stays within its type, and the bytes received within the *)
(* buffer, which grows and shrinks meanwhile.  The terminator after them   *)
(* is not claimed to: see undefined.                                       *)
TypeOK == /\ wire \in Seq(ByteTypes)
          /\ payloadbuffer \in Seq(ByteTypes)
          /\ payloadbufferSize \in Nat
          /\ Len(payloadbuffer) <= payloadbufferSize
          /\ headerLength \in Nat
          /\ payloadLength \in Nat
          /\ total \in Nat
          /\ undefined \in BOOLEAN
          /\ unsent \subseteq Requests
          /\ dispatched \in Seq(Requests \cup {Fragment})

(* The buffer never stays full: a full buffer takes no more bytes, and the *)
(* reactor would spin on the socket for ever.  Only a buffer that could    *)
(* not be grown for the request being received fills up.                   *)
NeverFull == Len(payloadbuffer) < payloadbufferSize \/ total > payloadbufferSize

(* The step reads all of r, and perhaps more, into an empty buffer.        *)
ReadsWhole(r) == /\ payloadbuffer = <<>>
                 /\ wire # <<>>
                 /\ Head(wire) = [request |-> r, at |-> 1]
                 /\ Len(wire') + WireSize(r) <= Len(wire)

(* After whatever mess of fragments, rejected headers and dropped bytes, a *)
(* client that waits for an empty buffer is understood again: a request    *)
(* that arrives whole is dispatched, or it fills the buffer and its        *)
(* terminator does harm.                                                   *)
WholeRequestUnderstood ==
    [][\A r \in Requests \ Invalid :
          ReadsWhole(r) => undefined' \/ dispatched' = Append(dispatched, r)]_vars

(* A plugin is told of each message a client sends it                      *)
(* (TargetAgentPluginInterface.h).                                         *)
RequestsReachPlugins ==
    wire = <<>> /\ payloadbuffer = <<>> =>
        \A r \in Requests \ (Invalid \cup unsent) :
            \E i \in DOMAIN dispatched : dispatched[i] = r
=============================================================================
