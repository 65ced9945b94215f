---------------------------- MODULE JsonReader ----------------------------
(***************************************************************************)
(* CjsonapiPlugin::run: lines that applications write to a FIFO are read   *)
(* in portions and dispatched one by one.  `msg` collects a line across    *)
(* reads; it is an array that keeps what earlier lines left in it.         *)
(*                                                                         *)
(* A line is copied to msg without a look at the room left there: if the   *)
(* line does not fit, other variables are overwritten and the behaviour    *)
(* ends, undefined.                                                        *)
(*                                                                         *)
(* Byte i of line n is <<n, i>>; End is the newline, Zero the terminator   *)
(* and Junk what the array held before it was written.  Indices are those  *)
(* of the code plus one.                                                   *)
(***************************************************************************)
EXTENDS Naturals, Sequences

CONSTANTS READ_SIZE,   \* bytes of a read: 1024
          MSG_SIZE,    \* bytes of msg: 4096
          MaxLines,    \* bound: lines written
          MaxLength    \* bound: bytes of a line

ASSUME JsonAssumption == /\ MSG_SIZE \in Nat
                         /\ MaxLength \in Nat
                         /\ READ_SIZE \in 0..MSG_SIZE

VARIABLES
    jLengths,   \* the lengths of the lines written
    jPipe,      \* the bytes in the FIFO
    jBuf,       \* buf: the bytes of the current read
    bufPos,     \* in jBuf, where the next line starts
    msg, msgPos,
    jLine,      \* history: the line last dispatched, its content, and
                \* whether its newline was the first of the read
    jCut,       \* history: a line was cut
    jOverrun    \* history: something was written past the end of msg

jVars == <<jLengths, jPipe, jBuf, bufPos, msg, msgPos, jLine, jCut, jOverrun>>

-----------------------------------------------------------------------------
End  == <<0, 1>>
Zero == <<0, 0>>
Junk == <<0, 2>>

Line(n, length) == [i \in 1..length |-> <<n, i>>]

JsonInit == /\ jLengths = <<>>
            /\ jPipe = <<>>
            /\ jBuf = <<>>
            /\ bufPos = 0
            /\ msg = [i \in 1..MSG_SIZE |-> Junk]
            /\ msgPos = 0
            /\ jLine = [number |-> 0, content |-> <<>>, first |-> FALSE]
            /\ jCut = FALSE
            /\ jOverrun = FALSE

(* An application; lines of at most PIPE_BUF bytes are written atomically. *)
WriteLine ==
    /\ Len(jLengths) < MaxLines
    /\ \E length \in 0..MaxLength :
          /\ jLengths' = Append(jLengths, length)
          /\ jPipe' = Append(jPipe \o Line(Len(jLengths) + 1, length), End)
    /\ UNCHANGED <<jBuf, bufPos, msg, msgPos, jLine, jCut, jOverrun>>

(* The non-blocking read, when there is something to read.                 *)
ReadPipe ==
    /\ jBuf = <<>>
    /\ \E count \in 1..READ_SIZE :
          /\ count = READ_SIZE \/ count = Len(jPipe)
          /\ count <= Len(jPipe)
          /\ jBuf' = SubSeq(jPipe, 1, count)
          /\ jPipe' = SubSeq(jPipe, count + 1, Len(jPipe))
    /\ bufPos' = 0
    /\ UNCHANGED <<jLengths, msg, msgPos, jLine, jCut, jOverrun>>

-----------------------------------------------------------------------------
(* What memcpy leaves in msg; bytes for which there is no room are, at the *)
(* end of a read, not copied (KeepRest), and else DispatchOverrun.         *)
Copied(bytes) ==
    [i \in 1..MSG_SIZE |->
        IF i \in msgPos + 1 .. msgPos + Len(bytes)
          THEN bytes[i - msgPos] ELSE msg[i]]

First(positions) == CHOOSE i \in positions : \A k \in positions : i <= k

(* The bytes before the first terminator of the array.                     *)
StringIn(array) ==
    LET zeros == {i \in 1..MSG_SIZE : array[i] = Zero}
    IN  SubSeq(array, 1, First(zeros) - 1)

Newlines == {i \in (bufPos + 1)..Len(jBuf) : jBuf[i] = End}

(* Faulty variant: msgPos keeps its value after a line.                    *)
MsgPosKept == msgPos

MsgPosAfterLine == 0

(* The terminator is put msgPos + i bytes from the start, which is the end *)
(* of the line only if the line begins where the read begins.              *)
DispatchLine ==
    /\ Newlines # {}
    /\ LET i == First(Newlines)
           array == [Copied(SubSeq(jBuf, bufPos + 1, i - 1)) EXCEPT ![msgPos + i] = Zero]
       IN  /\ msgPos + i <= MSG_SIZE
           /\ msg' = array
           /\ jLine' = [number |-> jLine.number + 1,
                        content |-> StringIn(array),
                        first |-> bufPos = 0]
           /\ bufPos' = i
    /\ msgPos' = MsgPosAfterLine
    /\ UNCHANGED <<jLengths, jPipe, jBuf, jCut, jOverrun>>

(* There is no room in msg for the line and its terminator.                *)
DispatchOverrun ==
    /\ Newlines # {}
    /\ msgPos + First(Newlines) > MSG_SIZE
    /\ jOverrun' = TRUE
    /\ UNCHANGED <<jLengths, jPipe, jBuf, bufPos, msg, msgPos, jLine, jCut>>

(* The bytes after the last newline wait in msg; if there is no room for   *)
(* all of them, the line is dispatched as far as it goes, without a        *)
(* terminator, with whatever follows msg in memory.                        *)
KeepRest ==
    /\ jBuf # <<>>
    /\ Newlines = {}
    /\ LET rest == SubSeq(jBuf, bufPos + 1, Len(jBuf))
       IN  /\ msg' = Copied(rest)
           /\ IF msgPos + Len(rest) > MSG_SIZE
                THEN msgPos' = 0 /\ jCut' = TRUE
                ELSE /\ msgPos' = msgPos + Len(rest)
                     /\ UNCHANGED jCut
    /\ jBuf' = <<>>
    /\ bufPos' = 0
    /\ UNCHANGED <<jLengths, jPipe, jLine, jOverrun>>

JsonNext == \/ WriteLine
            \/ /\ ~jOverrun
               /\ ReadPipe \/ DispatchLine \/ DispatchOverrun \/ KeepRest

-----------------------------------------------------------------------------
(* A line shorter than msg that is the first to end in its read comes out  *)
(* as it was written, in its turn, whatever reads its bytes came in and    *)
(* whatever earlier lines left in msg - until a line that is too long has  *)
(* been cut, or has made the reader overrun msg.  (The second line to end  *)
(* in one read is damaged unless it is as long as the one before it.)      *)
FirstLinesWhole ==
    LET n == jLine.number IN
    jLine.first /\ ~jCut /\ jLengths[n] < MSG_SIZE
        => jLine.content = Line(n, jLengths[n])
=============================================================================
