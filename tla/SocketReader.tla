---------------------------- MODULE SocketReader ----------------------------
(***************************************************************************)
(* CSocketReaderServer: an application sends frames over TCP, a header in  *)
(* text format of fixed length with the type and length of the payload,    *)
(* then the payload.  The reader is called while there is something to     *)
(* read and takes any part of it; a complete frame goes to the host.       *)
(*                                                                         *)
(* A byte is <<n, i>>: byte i of frame n; Unset is what an element holds   *)
(* that was never written.  Indices of payloadbuffer are those of the code *)
(* plus one.  A terminator is written after what was read, so after a read *)
(* that fills the buffer it lies outside; there is bytesAlreadyReceived,   *)
(* which loses its low byte, unless the compiler keeps it in a register.   *)
(***************************************************************************)
EXTENDS Naturals, Sequences

CONSTANTS HEADER_LENGTH_SIZE,
          BUFFER_SIZE,
          LOW_BYTE,       \* values of the low byte of a counter: 256
          MessageTypes,   \* values of Header.messageType
          TARGET_AGENT_MESSAGE,
          Payloads,       \* bound: lengths of payloads
          MaxFrames       \* bound: frames sent

ASSUME SocketAssumption == /\ HEADER_LENGTH_SIZE \in Nat \ {0}
                           /\ BUFFER_SIZE \in Nat
                           /\ BUFFER_SIZE > HEADER_LENGTH_SIZE
                           /\ LOW_BYTE \in Nat \ {0}
                           /\ Payloads \subseteq Nat
                           /\ TARGET_AGENT_MESSAGE \in MessageTypes

VARIABLES
    frames,          \* the frames sent
    stream,          \* the bytes not yet received
    payloadbuffer,
    bytesAlreadyReceived,
    payloadLength,
    expectedAmountOfBytes,
    messageIdentifier,
    sLine,           \* history: the message last dispatched
    overrun          \* history: a terminator was written after the buffer

sVars == <<frames, stream, payloadbuffer, bytesAlreadyReceived, payloadLength,
           expectedAmountOfBytes, messageIdentifier, sLine, overrun>>

-----------------------------------------------------------------------------
Nul    == <<0, 0>>
Unset  == <<0, 1>>
Beyond == <<0, 2>>   \* what follows the buffer in memory

BytesOf(n, from, to) == [i \in 1..(to - from + 1) |-> <<n, from + i - 1>>]

SocketInit ==
    /\ frames = <<>>
    /\ stream = <<>>
    /\ payloadbuffer = [i \in 1..BUFFER_SIZE |-> Unset]
    /\ bytesAlreadyReceived = 0
    /\ payloadLength = 0
    /\ expectedAmountOfBytes = HEADER_LENGTH_SIZE
    /\ messageIdentifier = TARGET_AGENT_MESSAGE
    /\ sLine = [number |-> 0, type |-> TARGET_AGENT_MESSAGE, data |-> <<>>]
    /\ overrun = FALSE

(* A client; the header of a frame may be one that does not parse.         *)
SendFrame ==
    /\ Len(frames) < MaxFrames
    /\ \E length \in Payloads, type \in MessageTypes, parses \in BOOLEAN :
          /\ frames' = Append(frames, [length |-> length, type |-> type,
                                       parses |-> parses])
          /\ stream' = stream \o BytesOf(Len(frames) + 1, 1,
                                         HEADER_LENGTH_SIZE + length)
    /\ UNCHANGED <<payloadbuffer, bytesAlreadyReceived, payloadLength,
                   expectedAmountOfBytes, messageIdentifier, sLine, overrun>>

-----------------------------------------------------------------------------
(* Text that is not one whole header does not parse.                       *)
HeaderIn(buffer) ==
    {n \in DOMAIN frames :
        /\ frames[n].parses
        /\ SubSeq(buffer, 1, HEADER_LENGTH_SIZE)
              = BytesOf(n, 1, HEADER_LENGTH_SIZE)}

(* The string that starts at a position of the buffer.                     *)
StringFrom(buffer, from) ==
    LET ends == {i \in from..BUFFER_SIZE : buffer[i] = Nul}
    IN  IF ends = {}
          THEN Append(SubSeq(buffer, from, BUFFER_SIZE), Beyond)
          ELSE SubSeq(buffer, from,
                      (CHOOSE i \in ends : \A k \in ends : i <= k) - 1)

(* Faulty variant: the payload length of the last frame is kept.           *)
ResetAllButLength == /\ bytesAlreadyReceived' = 0
                     /\ expectedAmountOfBytes' = HEADER_LENGTH_SIZE
                     /\ payloadLength' \in {payloadLength, 0}

ResetCounters == /\ bytesAlreadyReceived' = 0
                 /\ payloadLength' = 0
                 /\ expectedAmountOfBytes' = HEADER_LENGTH_SIZE

(* The message with the payload, or with the header if there is none.      *)
DispatchMessage(received, expected, length, type, buffer) ==
    IF received >= expected
      THEN /\ sLine' = [number |-> sLine.number + 1,
                        type |-> type,
                        data |-> StringFrom(buffer,
                                   IF length > 0 THEN HEADER_LENGTH_SIZE + 1
                                                 ELSE 1)]
           /\ ResetCounters
      ELSE /\ bytesAlreadyReceived' = received
           /\ payloadLength' = length
           /\ expectedAmountOfBytes' = expected
           /\ UNCHANGED sLine

(* extractHeaderContent, tried with every read until a length is known.    *)
ExtractAndDispatch(received, buffer) ==
    LET header == IF received >= HEADER_LENGTH_SIZE /\ payloadLength = 0
                    THEN HeaderIn(buffer) ELSE {}
    IN  IF header = {}
          THEN /\ DispatchMessage(received, expectedAmountOfBytes,
                                  payloadLength, messageIdentifier, buffer)
               /\ UNCHANGED messageIdentifier
          ELSE \E n \in header :
               /\ DispatchMessage(received,
                                  expectedAmountOfBytes + frames[n].length,
                                  frames[n].length, frames[n].type, buffer)
               /\ messageIdentifier' = frames[n].type

(* What the counter of the bytes may be when the terminator is written.    *)
Counted(received, outside) ==
    IF outside THEN {received, received - (received % LOW_BYTE)} ELSE {received}

(* The part of a frame that does not fit overwrites what came before it.   *)
(* (Poco reports a failed read with an exception, never with count < 0.)   *)
OnSocketReadable ==
    LET tooLong == expectedAmountOfBytes >= BUFFER_SIZE
        position == IF tooLong THEN 0 ELSE bytesAlreadyReceived
        missing == expectedAmountOfBytes - bytesAlreadyReceived
        room == IF tooLong /\ missing > BUFFER_SIZE THEN BUFFER_SIZE ELSE missing
    IN  \E count \in 1..Len(stream) :
          /\ count <= room
          /\ stream' = SubSeq(stream, count + 1, Len(stream))
          /\ payloadbuffer' =
                [i \in 1..BUFFER_SIZE |->
                    IF i = position + count + 1 THEN Nul
                    ELSE IF i \in position + 1 .. position + count
                    THEN stream[i - position] ELSE payloadbuffer[i]]
          /\ LET outside == position + count = BUFFER_SIZE
             IN  /\ overrun' = (overrun \/ outside)
                 /\ \E received \in Counted(bytesAlreadyReceived + count, outside) :
                       ExtractAndDispatch(received, payloadbuffer')
          /\ UNCHANGED frames

SocketNext == SendFrame \/ OnSocketReadable

-----------------------------------------------------------------------------
(* However the stream is cut into reads, each frame that fits into the     *)
(* buffer and has a payload comes out once, in its turn, with its type and *)
(* its payload, also after a frame that was too long or empty - as long as *)
(* no frame had a header that does not parse, and no read of a frame that  *)
(* was too long filled the buffer: from then on nothing is claimed.        *)
FramesWhole ==
    LET n == sLine.number IN
    /\ n > 0
    /\ ~overrun
    /\ \A k \in DOMAIN frames : frames[k].parses
    => /\ n <= Len(frames)
       /\ sLine.type = frames[n].type
       /\ frames[n].length > 0
          /\ HEADER_LENGTH_SIZE + frames[n].length < BUFFER_SIZE
          => sLine.data = BytesOf(n, HEADER_LENGTH_SIZE + 1,
                                  HEADER_LENGTH_SIZE + frames[n].length)
=============================================================================
