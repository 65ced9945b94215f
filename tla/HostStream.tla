----------------------------- MODULE HostStream -----------------------------
(***************************************************************************)
(* The frames of one host connection, in both directions.  A frame is a    *)
(* byte with the length of its header, the header, which holds the length  *)
(* of the payload, and the payload.  TCP cuts the stream anywhere, a read  *)
(* may time out and a write may fail at any byte.  Which thread sends and  *)
(* when the connection is closed are the matter of MessageDispatcher.      *)
(*                                                                         *)
(* A byte is <<n, i>>: byte i of the n-th frame of its direction.          *)
(***************************************************************************)
EXTENDS Integers, Sequences, SequencesExt


CONSTANTS BYTE,               \* values of an unsigned char
          MAX_HEADER_LENGTH,
          MaxTurns,           \* writeNBytesToSocket: 100
          HostFrames,         \* bound: the frames of the host, as a sequence
          AgentFrames         \* bound: the messages sent to the host

ASSUME HostAssumption ==
    /\ BYTE \in Nat /\ MAX_HEADER_LENGTH \in 1..BYTE /\ MaxTurns \in Nat
    /\ HostFrames \in Seq([header : 1..MAX_HEADER_LENGTH, payload : Nat,
                           parses : BOOLEAN])
    /\ AgentFrames \in Seq([header : Nat \ {0}, payload : Nat])

VARIABLES
    inbound,      \* the bytes of the host not yet received
    fed,          \* how many of HostFrames the host has sent
    reading,      \* which part of a frame the receiver waits for
    wanted,       \* readNBytesFromSocket: N
    buffer,       \* readNBytesFromSocket: what it has of them
    fromHost,     \* history: the frames forwarded, header and payload
    inDoubt,      \* history: the receiver may have lost the frames
    writing,      \* which part of a frame the sender writes
    current,      \* the message being transmitted, of AgentFrames
    rest,         \* writeNBytesToSocket: the bytes still to write
    turn,
    outbound,     \* the bytes that reached the host
    complete,     \* history: the messages transmitted, in their order
    torn,         \* history: a frame was given up after some of its bytes
    corrupted     \* the sender's stack was overwritten

inVars == <<inbound, fed, reading, wanted, buffer, fromHost, inDoubt>>
outVars == <<writing, current, rest, turn, outbound, complete, torn, corrupted>>

-----------------------------------------------------------------------------
Part(n, from, to) == [i \in 1..(to - from + 1) |-> <<n, from + i - 1>>]

WireLength(frame) == 1 + frame.header + frame.payload

Wire(n, frame) == Part(n, 1, WireLength(frame))

Header(n, frame) == Part(n, 2, 1 + frame.header)

Payload(n, frame) == Part(n, 2 + frame.header, WireLength(frame))

HostInit ==
    /\ inbound = <<>> /\ fed = 0
    /\ reading = "length" /\ wanted = 1 /\ buffer = <<>>
    /\ fromHost = <<>> /\ inDoubt = FALSE
    /\ writing = "no" /\ current = 0 /\ rest = <<>> /\ turn = 0
    /\ outbound = <<>> /\ complete = <<>> /\ torn = FALSE /\ corrupted = FALSE

-----------------------------------------------------------------------------
(* The receiver.                                                           *)

HostSends ==
    /\ fed < Len(HostFrames)
    /\ fed' = fed + 1
    /\ inbound' = inbound \o Wire(fed + 1, HostFrames[fed + 1])
    /\ UNCHANGED <<reading, wanted, buffer, fromHost, inDoubt, outVars>>

WaitFor(part, N) == reading' = part /\ wanted' = N /\ buffer' = <<>>

(* A byte that is not the first of a frame reads as some length, of which  *)
(* those beyond the buffer for headers are left out.                       *)
LengthIn(byte) == IF byte[2] = 1 THEN {HostFrames[byte[1]].header}
                                 ELSE 0..MAX_HEADER_LENGTH

(* The frames whose whole header this is.                                  *)
HeaderOf(bytes) == {n \in DOMAIN HostFrames :
                       bytes = Header(n, HostFrames[n])}

(* ParseFromArray, with the length of the payload: bytes from anywhere may *)
(* look like a header, with any length.                                    *)
Parses(bytes) ==
    IF HeaderOf(bytes) = {} THEN {HostFrames[n].payload : n \in DOMAIN HostFrames}
    ELSE {HostFrames[n].payload : n \in {k \in HeaderOf(bytes) :
                                            HostFrames[k].parses}}

MayNotParse(bytes) == \A n \in HeaderOf(bytes) : ~HostFrames[n].parses

ForwardFrame(header, payload) ==
    fromHost' = Append(fromHost, [header |-> header, payload |-> payload])

(* All N bytes of a part are there: waitForProtocolMessageHeader and       *)
(* waitForProtocolMessagePayload go on with the next one.                  *)
PartReceived(bytes) ==
    \/ /\ reading = "length"
       /\ \E length \in LengthIn(bytes[1]) :
             IF length = 0 THEN WaitFor("length", 1)
                           ELSE WaitFor("header", length)
       /\ UNCHANGED <<fromHost, inDoubt>>
    \/ /\ reading = "header"
       /\ MayNotParse(bytes)
       /\ WaitFor("length", 1)
       /\ inDoubt' = TRUE
       /\ UNCHANGED fromHost
    \/ /\ reading = "header"
       /\ \E length \in Parses(bytes) :
             IF length > 0
               THEN WaitFor("payload", length) /\ UNCHANGED fromHost
               ELSE WaitFor("length", 1) /\ ForwardFrame(HeaderOf(bytes), <<>>)
       /\ UNCHANGED inDoubt
    \/ /\ reading = "payload"
       /\ WaitFor("length", 1)
       /\ ForwardFrame({}, bytes)
       /\ UNCHANGED inDoubt

(* Faulty variant: asks for N bytes after a part of them came.             *)
MissingIgnored == wanted

Missing == wanted - Len(buffer)

(* One receiveBytes of readNBytesFromSocket.                               *)
ReadNBytesFromSocket ==
    \E count \in 1..Len(inbound) :
       LET bytes == buffer \o SubSeq(inbound, 1, count) IN
       /\ count <= Missing
       /\ inbound' = SubSeq(inbound, count + 1, Len(inbound))
       /\ IF Len(bytes) >= wanted
            THEN PartReceived(bytes)
            ELSE /\ buffer' = bytes
                 /\ UNCHANGED <<reading, wanted, fromHost, inDoubt>>
       /\ UNCHANGED <<fed, outVars>>

(* A timeout drops what was read of a frame.                               *)
ReceiveTimeout ==
    /\ inbound = <<>>
    /\ WaitFor("length", 1)
    /\ inDoubt' = (inDoubt \/ reading # "length")
    /\ UNCHANGED <<inbound, fed, fromHost, outVars>>

-----------------------------------------------------------------------------
(* The sender.                                                             *)

(* The length of the serialised header is kept in an unsigned char, and    *)
(* SerializeToArray refuses a length that is less than it needs.           *)
HeaderLength(n) == AgentFrames[n].header % BYTE

Serializes(n) == HeaderLength(n) >= AgentFrames[n].header

GiveUp == /\ writing' = "no"
          /\ rest' = <<>>
          /\ turn' = 0

(* transmitMessageHeader up to its write; a message whose header does not  *)
(* serialise is dropped before any byte of it.                             *)
TransmitMessageHeader ==
    /\ writing = "no"
    /\ current < Len(AgentFrames)
    /\ current' = current + 1
    /\ IF Serializes(current')
         THEN /\ writing' = "header"
              /\ rest' = Part(current', 1, 1 + HeaderLength(current'))
              /\ turn' = 0
              /\ corrupted' = (corrupted
                               \/ 1 + HeaderLength(current') > MAX_HEADER_LENGTH)
         ELSE GiveUp /\ UNCHANGED corrupted
    /\ UNCHANGED <<inVars, outbound, complete, torn>>

(* Faulty variant: the payload is sent whatever became of the header.      *)
WriteFailsGoesOn ==
    /\ IF writing = "header"
         THEN /\ writing' = "payload"
              /\ rest' = Payload(current, AgentFrames[current])
              /\ turn' = 0
         ELSE GiveUp
    /\ UNCHANGED complete

(* transmitMessage after a failed write: the message is dropped.           *)
WriteFails == GiveUp /\ UNCHANGED complete

(* transmitMessagePayload; nothing is written of an empty one.             *)
TransmitMessagePayload ==
    LET payload == Payload(current, AgentFrames[current]) IN
    IF writing = "header" /\ payload # <<>>
      THEN /\ writing' = "payload"
           /\ rest' = payload
           /\ turn' = 0
           /\ UNCHANGED complete
      ELSE GiveUp /\ complete' = Append(complete, current)

(* One sendBytes of writeNBytesToSocket; the limit of turns is looked at   *)
(* after the bytes are gone.                                               *)
WriteNBytesToSocket ==
    /\ writing # "no"
    /\ \E count \in 1..Len(rest) :
          /\ outbound' = outbound \o SubSeq(rest, 1, count)
          /\ IF turn > MaxTurns
               THEN WriteFails /\ torn' = TRUE
               ELSE /\ IF count = Len(rest)
                         THEN TransmitMessagePayload
                         ELSE /\ rest' = SubSeq(rest, count + 1, Len(rest))
                              /\ turn' = turn + 1
                              /\ UNCHANGED <<writing, complete>>
                    /\ UNCHANGED torn
    /\ UNCHANGED <<inVars, current, corrupted>>

(* sendBytes throws; it is not the end of the connection.                  *)
SendThrows ==
    /\ writing # "no"
    /\ WriteFails
    /\ torn' = (torn \/ rest[1] # <<current, 1>>)
    /\ UNCHANGED <<inVars, current, outbound, corrupted>>

ReceiverNext == HostSends \/ ReadNBytesFromSocket \/ ReceiveTimeout

SenderNext == /\ ~corrupted
              /\ TransmitMessageHeader \/ WriteNBytesToSocket \/ SendThrows

-----------------------------------------------------------------------------
(* What the plugins get is what the host sent, frame by frame and in turn, *)
(* however the stream is cut into reads and whatever timeouts fall between *)
(* two frames.  Only a timeout within a frame or a header that does not    *)
(* parse ends this: waitForProtocolMessageHeader starts each frame where   *)
(* the last one ended.                                                     *)
HostFramesInTurn ==
    ~inDoubt =>
       /\ Len(fromHost) <= fed
       /\ \A n \in DOMAIN fromHost :
             fromHost[n] =
                [header |-> IF HostFrames[n].payload = 0 THEN {n} ELSE {},
                 payload |-> Payload(n, HostFrames[n])]

(* What reached the host is one whole frame for each message transmitted,  *)
(* and the beginning of the current one: a message whose header cannot be  *)
(* serialised, or whose first write throws, leaves nothing on the stream.  *)
(* Only a write that fails within a frame ends this, since transmitMessage *)
(* drops the rest of it, and so does a header longer than its buffer.      *)
AgentFramesInTurn ==
    LET whole == FlattenSeq([k \in DOMAIN complete |->
                                Wire(complete[k], AgentFrames[complete[k]])])
        missing == IF writing = "header"
                     THEN rest \o Payload(current, AgentFrames[current])
                     ELSE rest
    IN  ~torn /\ ~corrupted =>
           outbound \o missing =
              whole \o (IF writing = "no" THEN <<>>
                        ELSE Wire(current, AgentFrames[current]))
=============================================================================
