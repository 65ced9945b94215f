-------------------------- MODULE MessageRecorder --------------------------
(***************************************************************************)
(* What PluginProxy::sendMessage does with a plugin's message: record it,  *)
(* pass it to the connected host, or both - and what the recorder replays  *)
(* when the next host connects.  COfflineRecorder (recorder on) keeps      *)
(* every file and remembers where the last host left; CBufferingHandler    *)
(* (recorder off) keeps one temporary file that it deletes after replay.   *)
(*                                                                         *)
(* mMsgMutex makes each PluginProxy handler one step, except that the      *)
(* plugins' callbacks inside onHostConnectionEstablished and               *)
(* onHostConnectionLost send messages themselves (the mutex is recursive), *)
(* and that the main thread calls stopRecording without that mutex.        *)
(*                                                                         *)
(* A record begins with a header that carries the message's context, and   *)
(* the length of the header in one byte: a longer header is not recorded,  *)
(* nor its message.  By then it was serialized into a static buffer; when  *)
(* it does not fit there, other data is overwritten and the behaviour is   *)
(* undefined.                                                              *)
(*                                                                         *)
(* Sizes and positions count units of a message, not bytes.  Left out:     *)
(* I/O errors of the disk.                                                 *)
(***************************************************************************)
EXTENDS Integers, Sequences, SequencesExt

CONSTANTS Msgs,           \* the messages plugins send, each once
          Size,           \* the size of each message
          LongHeaders,    \* those with a header of MAX_HEADER_SIZE or more
          Overrunning,    \* those with a header longer than mHeaderBuffer
          Limits,         \* the file size limits configured, 0 = none
          LimitWrap,      \* where limit * 1024 * 1024 wraps, 4096 in the code
          MaxConnections  \* bound: host connections

ASSUME RecorderAssumption ==
    /\ Size \in [Msgs -> Nat \ {0}]
    /\ Overrunning \subseteq LongHeaders
    /\ Limits \subseteq Nat
    /\ LimitWrap \in Nat \ {0}
    /\ MaxConnections \in Nat

VARIABLES
    recorderOn,  \* isRecorderOn(), read at the start
    fileLimit,   \* getFileSizeLimit()
    files,       \* the contents of mFileHandles, oldest first
    capacity,    \* the capacity of that vector
    stream,      \* mFileStream is "open" or "closed"
    present,     \* the last file exists on disk
    bytes,       \* mCrtAmountOfBytes
    offset,      \* lastPosition.first, messages before it in its file
    position,    \* lastPosition.second, the index it was taken at
    stale,       \* lastPosition.second was invalidated by a push_back
    connected,   \* mConnectionEstablished
    loop,        \* the event loop's place in a PluginProxy handler
    connections, \* connections so far
    status,      \* "stopped" after stopRecording; "failed" after an exception
                 \* nothing catches; "undefined" after a use of a dead
                 \* iterator; "overrun" after a header overran its buffer
    told,        \* history: messages sent by plugins, and in which phase
    handed       \* history: messages passed to a host's dispatcher

configVars   == <<recorderOn, fileLimit>>
fileVars     == <<files, capacity, stale>>
streamVars   == <<stream, present, bytes>>
positionVars == <<offset, position>>
proxyVars    == <<connected, loop, connections>>

vars == <<recorderOn, fileLimit, files, capacity, stream, present, bytes,
          offset, position, stale, connected, loop, connections, status,
          told, handed>>

-----------------------------------------------------------------------------
(* The constructor of either recorder starts recording.                    *)
Init == /\ recorderOn \in BOOLEAN
        /\ fileLimit \in Limits
        /\ files = << <<>> >>
        /\ capacity = 1
        /\ stream = "open"
        /\ present = TRUE
        /\ bytes = 0
        /\ offset = 0
        /\ position = 1
        /\ stale = TRUE
        /\ connected = FALSE
        /\ loop = "idle"
        /\ connections = 0
        /\ status = "ok"
        /\ told = <<>>
        /\ handed = <<>>

-----------------------------------------------------------------------------
(* CMessageRecorder.                                                       *)

(* isFileSizeLimitReached: the limit in bytes is an unsigned 32-bit value. *)
LimitReached(n) == recorderOn /\ fileLimit # 0 /\ n >= fileLimit % LimitWrap

(* mFileHandles.push_back.  A full vector moves, and iterators die.        *)
PushFile(file) ==
    /\ files' = Append(files, file)
    /\ IF Len(files) = capacity
       THEN capacity' = 2 * capacity /\ stale' = TRUE
       ELSE UNCHANGED <<capacity, stale>>

(* The counter after the second attempt, made on a fresh file.             *)
BytesOnFreshFile(m) == IF LimitReached(Size[m]) THEN 0 ELSE Size[m]

(* Faulty variant: the message that found the file full is not repeated.   *)
FreshFileEmpty(m) == <<>>

(* The fresh file: a message beyond the limit is not written there either. *)
FreshFile(m) == IF LimitReached(Size[m]) THEN <<>> ELSE <<m>>

(* Faulty variant: the message that reaches the limit is still written.    *)
FitsTooMuch(m) == ~LimitReached(bytes + Size[m] - 1)

Fits(m) == ~LimitReached(bytes + Size[m])

(* recordMessage, and the rotation of files in it.                         *)
RecordMessage(m) ==
    \/ /\ stream = "closed" \/ ~present
       /\ UNCHANGED <<fileVars, bytes, status>>
    \/ /\ stream = "open" /\ present
       /\ m \in LongHeaders
       /\ status' \in IF m \in Overrunning THEN {status, "overrun"} ELSE {status}
       /\ UNCHANGED <<fileVars, bytes>>
    \/ /\ stream = "open" /\ present
       /\ m \notin LongHeaders /\ Fits(m)
       /\ files' = [files EXCEPT ![Len(files)] = Append(@, m)]
       /\ bytes' = bytes + Size[m]
       /\ UNCHANGED <<capacity, stale, status>>
    \/ /\ stream = "open" /\ present
       /\ m \notin LongHeaders /\ ~Fits(m)
       /\ PushFile(FreshFile(m))
       /\ bytes' = BytesOnFreshFile(m)
       /\ UNCHANGED status

(* Faulty variant: the files are read from the newest to the oldest.       *)
UnsentNewestFirst == FlattenSeq(Reverse(files))

(* Faulty variant: only the file being written is read.                    *)
UnsentLastFileOnly == SubSeq(Last(files), offset + 1, Len(Last(files)))

(* What sendBufferedData reads: from lastPosition on, or everything when   *)
(* lastPosition.first is 0.                                                *)
Unsent == IF offset = 0
          THEN FlattenSeq(files)
          ELSE SubSeq(files[position], offset + 1, Len(files[position]))
                 \o FlattenSeq(SubSeq(files, position + 1, Len(files)))

(* A zero position that stands for an empty later file, not for "nothing   *)
(* sent yet": the replay then starts over with the first file.             *)
Rewinds == recorderOn /\ offset = 0 /\ position > 1

(* deserialzeMessage rebuilds a message from its record, but for its       *)
(* context.                                                                *)
Replayed(m) == [msg |-> m, connection |-> connections + 1,
                from |-> IF Rewinds THEN "rewind" ELSE "replay"]

Replay == handed' = handed \o [i \in DOMAIN Unsent |-> Replayed(Unsent[i])]

(* CBufferingHandler erases the file it replayed.                          *)
BufferErased == Front(files)

SendBufferedData ==
    \/ /\ stream = "closed"
       /\ status' = "failed"
       /\ UNCHANGED <<fileVars, streamVars, handed>>
    \/ /\ stream = "open"
       /\ offset # 0 /\ stale
       /\ status' = "undefined"
       /\ UNCHANGED <<fileVars, streamVars, handed>>
    \/ /\ stream = "open"
       /\ ~(offset # 0 /\ stale)
       /\ Replay
       /\ IF recorderOn
          THEN UNCHANGED <<files, streamVars>>
          ELSE /\ files' = BufferErased
               /\ stream' = "closed"
               /\ present' = FALSE
               /\ bytes' = 0
       /\ UNCHANGED <<capacity, stale, status>>

(* Faulty variant: the position of the previous loss is kept.              *)
OffsetKept == offset

(* getCurentPosition; -1 when the stream was closed by stopRecording.      *)
CurrentPosition == IF stream = "open" THEN Len(Last(files)) ELSE -1

ResumeBuffering ==
    \/ /\ recorderOn
       /\ offset' = CurrentPosition
       /\ position' = Len(files)
       /\ stale' = FALSE
       /\ UNCHANGED <<files, capacity, streamVars>>
    \/ /\ ~recorderOn
       /\ PushFile(<<>>)
       /\ stream' = "open"
       /\ present' = TRUE
       /\ UNCHANGED <<positionVars, bytes>>

-----------------------------------------------------------------------------
(* PluginProxy.                                                            *)

(* dispatchToRecorder                                                      *)
DispatchToRecorder == ~connected \/ recorderOn

Live(m) == [msg |-> m, connection |-> connections,
            from |-> IF loop = "losing" THEN "losing" ELSE "live"]

(* sendMessage, by a plugin's thread, or by the event loop in a callback.  *)
SendMessage(m) ==
    /\ \A i \in DOMAIN told : told[i].msg # m
    /\ told' = Append(told, [msg |-> m, phase |-> loop, connected |-> connected])
    /\ IF DispatchToRecorder
       THEN RecordMessage(m)
       ELSE UNCHANGED <<fileVars, bytes, status>>
    /\ handed' = IF connected THEN Append(handed, Live(m)) ELSE handed
    /\ UNCHANGED <<configVars, stream, present, positionVars, proxyVars>>

OnHostConnectionEstablished ==
    /\ loop = "idle"
    /\ ~connected
    /\ connections < MaxConnections
    /\ connected' = TRUE
    /\ connections' = connections + 1
    /\ loop' = "announcing"
    /\ SendBufferedData
    /\ UNCHANGED <<configVars, positionVars, told>>

OnHostConnectionLost ==
    /\ loop = "idle"
    /\ connected
    /\ loop' = "losing"
    /\ ResumeBuffering
    /\ UNCHANGED <<configVars, connected, connections, status, told, handed>>

(* The callbacks are through and mMsgMutex is released.                    *)
HandlerDone ==
    /\ loop # "idle"
    /\ connected' = (loop = "announcing")
    /\ loop' = "idle"
    /\ UNCHANGED <<configVars, fileVars, streamVars, positionVars, connections,
                   status, told, handed>>

(* CTargetAgentRuntime::shutdown stops the recorder before the plugins and *)
(* without mMsgMutex.  Closing a closed stream throws.                     *)
StopRecording ==
    /\ status = "ok"
    /\ IF stream = "closed"
       THEN /\ status' = "failed"
            /\ UNCHANGED streamVars
       ELSE /\ status' = "stopped"
            /\ stream' = "closed"
            /\ present' = recorderOn
            /\ bytes' = 0
    /\ UNCHANGED <<configVars, fileVars, positionVars, proxyVars, told, handed>>

Step == \/ \E m \in Msgs : SendMessage(m)
        \/ OnHostConnectionEstablished
        \/ OnHostConnectionLost
        \/ HandlerDone
        \/ StopRecording

Next == status \in {"ok", "stopped"} /\ Step

Spec == Init /\ [][Next]_vars

-----------------------------------------------------------------------------
(* Properties.                                                             *)

(* A message that a file of the configured size can hold, header and all.  *)
Recordable(m) ==
    m \notin LongHeaders /\ (recorderOn /\ fileLimit # 0 => Size[m] < fileLimit)

(* The limit in bytes is what was configured, in megabytes.                *)
LimitHonoured == recorderOn => fileLimit < LimitWrap

(* What the plugins sent and a file can hold, in the order of sending.     *)
RecordableSent ==
    FlattenSeq([k \in DOMAIN told |->
                   IF Recordable(told[k].msg) THEN <<told[k].msg>> ELSE <<>>])

(* With the recorder on, the files hold exactly what the plugins sent, in  *)
(* order, whatever rotations, replays and reconnections came between; only *)
(* a message as big as the limit, or whose header with its context is too  *)
(* long, is missing.  This is claimed of limits that do not wrap, and as   *)
(* long as no header overran its buffer.                                   *)
RecordedInOrder ==
    recorderOn /\ LimitHonoured /\ status = "ok" => FlattenSeq(files) = RecordableSent

SizeOf(file) ==
    LET size[k \in 0..Len(file)] ==
            IF k = 0 THEN 0 ELSE size[k - 1] + Size[file[k]]
    IN  size[Len(file)]

(* No file reaches the configured size.                                    *)
FilesWithinLimit ==
    \A i \in DOMAIN files :
        SizeOf(files[i]) = 0 \/ ~LimitReached(SizeOf(files[i]))

(* The plugins' order of m, over all connections.                          *)
Turn(m) == CHOOSE k \in DOMAIN told : told[k].msg = m

(* A host gets what it gets in the order the plugins sent it: the replay   *)
(* first, no live message before or amid it.                               *)
HandedInOrder ==
    \A i, j \in DOMAIN handed :
        i < j /\ handed[i].connection = handed[j].connection
            => Turn(handed[i].msg) < Turn(handed[j].msg)

(* Nothing is replayed to a host that another host had already been given, *)
(* except what was said into a connection already lost and what a position *)
(* of zero repeats.                                                        *)
NoneHandedTwice ==
    \A i, j \in DOMAIN handed :
        i < j /\ handed[i].msg = handed[j].msg
            => handed[i].from = "losing" \/ handed[j].from = "rewind"

GivenToLiveHost(m) == \E i \in DOMAIN handed : handed[i].msg = m /\ handed[i].from # "losing"

(* Once a host is connected it has all that was sent while none was and    *)
(* can be recorded: no message stays behind in the buffer.  With the       *)
(* recorder on, that includes what the plugins sent in onConnectionLost.   *)
(* Again for limits that do not wrap, and until a header overruns.         *)
NothingLeftBehind ==
    LimitHonoured /\ status = "ok" /\ connected /\ loop # "losing" =>
        \A i \in DOMAIN told :
            /\ ~told[i].connected \/ (recorderOn /\ told[i].phase = "losing")
            /\ Recordable(told[i].msg)
            => GivenToLiveHost(told[i].msg)

(* The plugin interface asks for metadata in onConnectionLost in every     *)
(* configuration (TargetAgentPluginInterface.h).                           *)
MetadataReachesNextHost ==
    LimitHonoured /\ status = "ok" /\ connected /\ loop # "losing" =>
        \A i \in DOMAIN told :
            told[i].phase = "losing" /\ Recordable(told[i].msg) => GivenToLiveHost(told[i].msg)

(* The guide says data is buffered until the connection is established:    *)
(* the position to replay from must still be usable then.                  *)
PositionUsable == status # "undefined"
=============================================================================
