----------------------------- MODULE LogReader -----------------------------
(***************************************************************************)
(* log4jReader::runActivity: a log file is read line by line; at its end   *)
(* the reader sleeps, and goes back to the position after the last line.   *)
(* An application appends to the file, a whole line or a part of one at a  *)
(* time.                                                                   *)
(*                                                                         *)
(* A line without a newline can still be read at the end of the file, but  *)
(* it sets eofbit, with which tellg fails: gpos becomes -1, seekg(-1) sets *)
(* failbit, and resetEof clears a stream only if eofbit is set.            *)
(*                                                                         *)
(* In `*msgIterator+*(++msgIterator)` either operand may be evaluated      *)
(* first: `dateFirst` says what the compiler chose.                        *)
(*                                                                         *)
(* After the date and the time the log level is taken from the third word  *)
(* of the line: in a line that has none, or in the beginning of a line     *)
(* that has none yet, the reader goes past the end of the words, and on    *)
(* until it crashes.                                                       *)
(***************************************************************************)
EXTENDS Naturals, Sequences

CONSTANTS MaxLog   \* bound: lines of the log file

ASSUME LogAssumption == MaxLog \in Nat

VARIABLES
    log,           \* the lines that end with a newline, each of a kind
    partial,       \* the file goes on with the beginning of a line
    gpos,          \* lines before the position, or -1 in the code: Lost
    position,      \* lines before the position of the stream
    eofbit, failbit,
    asleep,        \* in Thread::sleep
    lastValidDate, \* the line the date was taken from, or 0
    dateFirst,
    pastEnd,       \* the reader has gone past the end of a line's words
    lLine,         \* history: the line last dispatched, its date, and how
                   \* many were dispatched
    severed        \* history: a line was read before its newline was there

lVars == <<log, partial, gpos, position, eofbit, failbit, asleep,
           lastValidDate, dateFirst, pastEnd, lLine, severed>>

-----------------------------------------------------------------------------
Lost == MaxLog + 1

(* A line without a date, one with a date and more, one with only a date.  *)
LineKinds == {"plain", "dated", "bare"}

Now == MaxLog + 1   \* the time of reading instead of the date of a line

LogInit == /\ log = <<>>
           /\ partial = FALSE
           /\ gpos = 0
           /\ position = 0
           /\ eofbit = FALSE
           /\ failbit = FALSE
           /\ asleep = FALSE
           /\ lastValidDate = 0
           /\ dateFirst \in BOOLEAN
           /\ pastEnd = FALSE
           /\ lLine = [number |-> 0, date |-> 0, count |-> 0]
           /\ severed = FALSE

AppendLine ==
    /\ Len(log) < MaxLog
    /\ \E line \in LineKinds : log' = Append(log, line)
    /\ partial' = FALSE
    /\ UNCHANGED <<gpos, position, eofbit, failbit, asleep, lastValidDate,
                   dateFirst, pastEnd, lLine, severed>>

AppendPart ==
    /\ Len(log) < MaxLog
    /\ ~partial
    /\ partial' = TRUE
    /\ UNCHANGED <<log, gpos, position, eofbit, failbit, asleep, lastValidDate,
                   dateFirst, pastEnd, lLine, severed>>

-----------------------------------------------------------------------------
(* tryParseDateTime: a line without a date has that of the last one with a *)
(* date; if this cannot be parsed again, because the time was taken twice, *)
(* the time of reading.                                                    *)
DateOf(n, line) ==
    IF line = "dated" THEN n
    ELSE IF lastValidDate = 0 THEN 0
    ELSE IF dateFirst THEN lastValidDate ELSE Now

(* Faulty variant: the position before the line.                           *)
PositionBefore(n) == n - 1

PositionAfter(n) == n

Dispatch(n, line) ==
    /\ lLine' = [number |-> n, date |-> DateOf(n, line),
                 count |-> lLine.count + 1]
    /\ lastValidDate' = IF line = "dated" THEN n ELSE lastValidDate

Good == ~asleep /\ ~eofbit /\ ~failbit

GetWholeLine ==
    /\ Good
    /\ position < Len(log)
    /\ log[position + 1] # "bare"
    /\ position' = position + 1
    /\ gpos' = PositionAfter(position + 1)
    /\ Dispatch(position + 1, log[position + 1])
    /\ UNCHANGED <<log, partial, eofbit, failbit, asleep, dateFirst, pastEnd,
                   severed>>

GetPartialLine ==
    /\ Good
    /\ position = Len(log)
    /\ partial
    /\ \E line \in {"plain", "dated"} : Dispatch(position + 1, line)
    /\ eofbit' = TRUE
    /\ failbit' = TRUE
    /\ gpos' = Lost
    /\ severed' = TRUE
    /\ UNCHANGED <<log, partial, position, asleep, dateFirst, pastEnd>>

(* The line, or the part of it that is there, ends with the date.          *)
GetBareLine ==
    /\ Good
    /\ \/ position < Len(log) /\ log[position + 1] = "bare"
       \/ position = Len(log) /\ partial
    /\ pastEnd' = TRUE
    /\ UNCHANGED <<log, partial, gpos, position, eofbit, failbit, asleep,
                   lastValidDate, dateFirst, lLine, severed>>

(* getline fails at the end of the file, or at once.                       *)
GetNothing ==
    /\ ~asleep
    /\ \/ eofbit \/ failbit
       \/ position = Len(log) /\ ~partial
    /\ IF eofbit \/ failbit
         THEN failbit' = TRUE /\ UNCHANGED eofbit
         ELSE eofbit' = TRUE /\ failbit' = TRUE
    /\ asleep' = TRUE
    /\ UNCHANGED <<log, partial, gpos, position, lastValidDate, dateFirst,
                   pastEnd, lLine, severed>>

(* Faulty variant: the stream is not cleared.                              *)
WakeUpUncleared ==
    /\ asleep
    /\ asleep' = FALSE
    /\ UNCHANGED <<log, partial, gpos, position, eofbit, failbit,
                   lastValidDate, dateFirst, pastEnd, lLine, severed>>

(* resetEof and seekg.                                                     *)
WakeUp ==
    /\ asleep
    /\ asleep' = FALSE
    /\ eofbit' = FALSE
    /\ IF eofbit /\ gpos # Lost
         THEN failbit' = FALSE /\ position' = gpos
         ELSE failbit' = (failbit \/ gpos = Lost) /\ UNCHANGED position
    /\ UNCHANGED <<log, partial, gpos, lastValidDate, dateFirst, pastEnd,
                   lLine, severed>>

LogRead == /\ ~pastEnd
           /\ \/ GetWholeLine \/ GetPartialLine \/ GetBareLine
              \/ GetNothing \/ WakeUp

LogNext == AppendLine \/ AppendPart \/ LogRead

-----------------------------------------------------------------------------
LastDated(n) ==
    {k \in 1..n : /\ log[k] = "dated"
                  /\ \A m \in (k + 1)..n : log[m] # "dated"}

(* As long as no line is read in pieces, lines are dispatched one after    *)
(* the other, none left out and none twice, wherever the reader met the    *)
(* end of the file; and the date of a line is that of the last dated one   *)
(* up to it, or none if there is none, or openly the time of reading.      *)
LogLinesInTurn ==
    \/ severed
    \/ /\ lLine.count = lLine.number
       /\ \/ lLine.date \in LastDated(lLine.number)
          \/ lLine.date = 0 /\ LastDated(lLine.number) = {}
          \/ lLine.date = Now /\ ~dateFirst

(* Every line is dispatched, unless one was read in pieces, or one with a  *)
(* date and nothing more put an end to the reader.                         *)
LogLinesDispatched ==
    \A n \in 1..MaxLog :
        Len(log) = n ~> (lLine.number >= n \/ severed \/ pastEnd)
=============================================================================
