----------------------------- MODULE AppStats -----------------------------
(***************************************************************************)
(* The Linux application statistics plugin: applications connect to        *)
(* CThreadStatsCollector, which asks them for statistics - periodically,   *)
(* and when the host triggers it - and forwards what they send.  One       *)
(* thread (mainReceiverLoop) keeps the table of client sockets; another    *)
(* (mainSenderLoop) and the event loop of the agent send the query to a    *)
(* copy of the table.  A new resolution stops the collector and starts     *)
(* another.                                                                *)
(*                                                                         *)
(* Descriptors are small numbers, as the kernel hands them out: the lowest *)
(* one that is free.  Slots of the table that are free hold 0.  What a     *)
(* client sends is nothing, a whole message, the beginning of one, or the  *)
(* end of the connection, orderly or by a reset.  A client that does not   *)
(* read lets the kernel's buffers fill, and the next send to it blocks.    *)
(* Clients are numbered in the order in which they connect; the connection *)
(* that wakes the receiver has the last number.                            *)
(***************************************************************************)
EXTENDS Naturals, FiniteSets

CONSTANTS MaxConnections,    \* bound: connections opened to one collector
          SOCKET_LIST_SIZE,  \* slots of the table
          Abrupt             \* bound: clients whose connection may be reset

ASSUME StatsAssumption == /\ MaxConnections \in Nat
                          /\ SOCKET_LIST_SIZE \in Nat \ {0}
                          /\ Abrupt \subseteq Nat

VARIABLES
    input,       \* what each client has sent and nobody has read, or "gone"
    backlog,     \* connections not accepted yet
    file,        \* the client behind each open descriptor
    mSocketList, \* the table
    mNrOfConnections,
    receiver,    \* where mainReceiverLoop is
    readfds,     \* descriptors select reported
    idx,         \* the slot it looks at
    undefined,   \* history: a byte before its buffer was overwritten, and
                 \* somebody minds
    sender,      \* where the sending of a query is
    copy,        \* the copied table and the copied count
    at,          \* the slot of the copy it sends to
    stuck,       \* the client its send waits for, or 0
    asked,       \* history: clients this query was sent to
    due,         \* history: clients in the table at the copy, and connected
                 \* ever since
    rate,        \* mSamplingRate: a timer of 0 never expires
    task,        \* mainSenderLoop: "loop", "wait", "query", "ended"
    trigger,     \* the event loop: "idle", "query", or a step of stop
    stopped      \* the activities told to stop

netVars   == <<input, backlog>>
tableVars == <<file, mSocketList, mNrOfConnections>>
recvVars  == <<receiver, readfds, idx, undefined>>
queryVars == <<sender, copy, at, stuck, asked, due>>
ctlVars   == <<rate, task, trigger, stopped>>
vars == <<netVars, tableVars, recvVars, queryVars, ctlVars>>

-----------------------------------------------------------------------------
POSITION_FREE == 0

Clients == 1..MaxConnections

Wakeup == MaxConnections + 1

Slots == 1..SOCKET_LIST_SIZE

Descriptors == 1..MaxConnections

Master == MaxConnections + 1

InTable == {s \in Slots : mSocketList[s] # POSITION_FREE}

NoCopy == [list |-> [s \in Slots |-> POSITION_FREE], nr |-> 0]

Connected(c) == \E d \in DOMAIN file : file[d] = c

Init == /\ input = [c \in Clients |-> "none"]
        /\ backlog = {}
        /\ file = [d \in {} |-> 0]
        /\ mSocketList = [s \in Slots |-> POSITION_FREE]
        /\ mNrOfConnections = 0
        /\ receiver = "loop"
        /\ readfds = {}
        /\ idx = 1
        /\ undefined = FALSE
        /\ sender = "idle"
        /\ copy = NoCopy
        /\ at = 1
        /\ stuck = 0
        /\ asked = {}
        /\ due = {}
        /\ rate \in {0, 1}
        /\ task = "loop"
        /\ trigger = "idle"
        /\ stopped = {}

-----------------------------------------------------------------------------
(* The clients.                                                            *)

ClientConnects(c) ==
    /\ input[c] = "none"
    /\ ~Connected(c)
    /\ c \notin backlog
    /\ \A b \in 1..(c - 1) :
          Connected(b) \/ b \in backlog \/ input[b] = "gone"
    /\ backlog' = backlog \cup {c}
    /\ UNCHANGED <<input, tableVars, recvVars, queryVars, ctlVars>>

Ended(c) == input[c] \in {"closed", "reset", "gone"}

(* A message, its beginning first, and the end of the connection; a reset  *)
(* discards what was not read.                                             *)
ClientSends(c) ==
    /\ c \in backlog \/ Connected(c)
    /\ \/ input[c] = "none" /\ input' = [input EXCEPT ![c] = "begun"]
       \/ input[c] = "begun" /\ input' = [input EXCEPT ![c] = "whole"]
       \/ input[c] \in {"none", "begun"}
            /\ input' = [input EXCEPT ![c] = "closed"]
       \/ c \in Abrupt /\ input[c] \in {"none", "begun", "whole"}
            /\ input' = [input EXCEPT ![c] = "reset"]
    /\ due' = {d \in due : ~Ended(d)'}
    /\ UNCHANGED <<backlog, tableVars, recvVars, sender, copy, at, stuck,
                   asked, ctlVars>>

-----------------------------------------------------------------------------
(* mainReceiverLoop.                                                       *)

Readable == {d \in DOMAIN file : input[file[d]] \notin {"none", "gone"}}
              \cup (IF backlog = {} THEN {} ELSE {Master})

ReceiverLoop ==
    /\ receiver = "loop"
    /\ receiver' = IF "receiver" \in stopped THEN "ended" ELSE "select"
    /\ UNCHANGED <<netVars, tableVars, readfds, idx, undefined, queryVars,
                   ctlVars>>

(* waitForEventOnSocket: select on the listening socket and on the table.  *)
WaitForEventOnSocket ==
    /\ receiver = "select"
    /\ LET watched == {mSocketList[s] : s \in InTable} \cup {Master} IN
         /\ Readable \cap watched # {}
         /\ readfds' = Readable \cap watched
    /\ receiver' = IF "receiver" \in stopped THEN "ended" ELSE "accept"
    /\ UNCHANGED <<netVars, tableVars, idx, undefined, queryVars, ctlVars>>

FirstFree == {s \in Slots : /\ mSocketList[s] = POSITION_FREE
                            /\ \A t \in 1..(s - 1) : t \in InTable}

First(S) == CHOOSE n \in S : \A m \in S : n <= m

LowestFree == First(Descriptors \ DOMAIN file)

(* handleNewConnection: a client for which there is no slot stays          *)
(* connected, and nobody ever reads from it or asks it.                    *)
HandleNewConnection ==
    /\ receiver = "accept"
    /\ IF Master \in readfds
         THEN LET c == First(backlog)
                  d == LowestFree IN
                /\ backlog' = backlog \ {c}
                /\ IF c = Wakeup
                     THEN UNCHANGED tableVars
                     ELSE /\ file' = [x \in DOMAIN file \cup {d} |->
                                        IF x = d THEN c ELSE file[x]]
                          /\ mSocketList' = [s \in Slots |->
                               IF s \in FirstFree THEN d ELSE mSocketList[s]]
                          /\ mNrOfConnections' =
                               mNrOfConnections + Cardinality(FirstFree)
         ELSE UNCHANGED <<backlog, tableVars>>
    /\ receiver' = "scan"
    /\ idx' = 1
    /\ UNCHANGED <<input, readfds, undefined, queryVars, ctlVars>>

NextSlot == IF idx = SOCKET_LIST_SIZE
              THEN receiver' = "loop" /\ idx' = 1 /\ readfds' = {}
              ELSE receiver' = "scan" /\ idx' = idx + 1 /\ UNCHANGED readfds

Signalled == idx \in InTable /\ mSocketList[idx] \in readfds

Peer == file[mSocketList[idx]]

SkipSlot ==
    /\ receiver = "scan"
    /\ ~Signalled
    /\ NextSlot
    /\ UNCHANGED <<netVars, tableVars, undefined, queryVars, ctlVars>>

(* Faulty variant: the slot is left as it is.                              *)
CloseDescriptorOnly ==
    /\ file' = [d \in DOMAIN file \ {mSocketList[idx]} |-> file[d]]
    /\ mNrOfConnections' = mNrOfConnections - 1
    /\ UNCHANGED mSocketList

(* The descriptor is free for the next client, although a copy of the      *)
(* table may still hold it.                                                *)
CloseSlot ==
    /\ file' = [d \in DOMAIN file \ {mSocketList[idx]} |-> file[d]]
    /\ mSocketList' = [mSocketList EXCEPT ![idx] = POSITION_FREE]
    /\ mNrOfConnections' = mNrOfConnections - 1

HandleConnectionClosed ==
    /\ receiver = "scan"
    /\ Signalled
    /\ input[Peer] = "closed"
    /\ CloseSlot
    /\ input' = [input EXCEPT ![Peer] = "gone"]
    /\ NextSlot
    /\ UNCHANGED <<backlog, undefined, queryVars, ctlVars>>

(* processMessage reads the start flag, then blocks until the client has   *)
(* sent the rest or is gone.                                               *)
ProcessMessage ==
    /\ receiver = "scan"
    /\ Signalled
    /\ input[Peer] \in {"whole", "begun"}
    /\ receiver' = "reading"
    /\ UNCHANGED <<netVars, tableVars, readfds, idx, undefined, queryVars,
                   ctlVars>>

(* After a reset the read returns -1, the terminator goes before the       *)
(* buffer, and the first byte left there from before decides what follows. *)
(* The next read finds the end of the connection.                          *)
ProcessFailedRead ==
    /\ receiver = "scan"
    /\ Signalled
    /\ input[Peer] = "reset"
    /\ input' = [input EXCEPT ![Peer] = "closed"]
    /\ undefined' \in BOOLEAN
    /\ \/ NextSlot
       \/ receiver' = "reading" /\ UNCHANGED <<readfds, idx>>
    /\ UNCHANGED <<backlog, tableVars, queryVars, ctlVars>>

SendRawTMessage ==
    /\ receiver = "reading"
    /\ input[Peer] \in {"whole", "closed"}
    /\ input' = IF input[Peer] = "whole"
                  THEN [input EXCEPT ![Peer] = "none"] ELSE input
    /\ NextSlot
    /\ UNCHANGED <<backlog, tableVars, undefined, queryVars, ctlVars>>

(* The rest of the message is lost in a reset, or its length is negative   *)
(* (two digits, of which sscanf takes a sign): the read returns -1.  If it *)
(* is that of the contents, an exception of set_trace ends the receiver.   *)
ReadFails ==
    /\ receiver = "reading"
    /\ input[Peer] \in {"whole", "reset"}
    /\ input' = [input EXCEPT ![Peer] = IF @ = "reset" THEN "closed" ELSE "none"]
    /\ \/ input[Peer] = "reset" /\ NextSlot
       \/ receiver' = "ended" /\ UNCHANGED <<readfds, idx>>
    /\ UNCHANGED <<backlog, tableVars, undefined, queryVars, ctlVars>>

ReceiverStep == \/ ReceiverLoop
                \/ WaitForEventOnSocket
                \/ HandleNewConnection
                \/ SkipSlot
                \/ HandleConnectionClosed
                \/ ProcessMessage
                \/ ProcessFailedRead
                \/ SendRawTMessage
                \/ ReadFails

-----------------------------------------------------------------------------
(* sendQuery, under mSingleWritterMutex: for mainSenderLoop or the event   *)
(* loop, whichever has its state at "query".                               *)

RetrieveCurrentSocketList ==
    /\ sender = "idle"
    /\ task = "query" \/ trigger = "query"
    /\ copy' = [list |-> mSocketList, nr |-> mNrOfConnections]
    /\ at' = 1
    /\ asked' = {}
    /\ due' = {c \in Clients : /\ \E s \in InTable : file[mSocketList[s]] = c
                               /\ ~Ended(c)}
    /\ sender' = "sending"
    /\ UNCHANGED <<netVars, tableVars, recvVars, stuck, ctlVars>>

(* Faulty variant: the last client is left out.                            *)
LastClientSkipped == copy.nr - 1

(* The loop runs over as many slots as there are clients, not over all.    *)
SlotsToAsk == copy.nr

(* The clients behind the slot: none if the descriptor has been closed     *)
(* since, and perhaps another one than when the copy was made.             *)
Behind(slot) == {file[d] : d \in {copy.list[slot]} \cap DOMAIN file}

NextOfCopy == /\ at' = at + 1
              /\ UNCHANGED <<netVars, tableVars, recvVars, sender, copy, due,
                             ctlVars>>

SendToSlot ==
    /\ sender = "sending"
    /\ at <= SlotsToAsk
    /\ stuck = 0
    /\ asked' = asked \cup Behind(at)
    /\ UNCHANGED stuck
    /\ NextOfCopy

(* The buffers of a client that does not read are full: send blocks ...    *)
SendBlocks ==
    /\ sender = "sending"
    /\ at <= SlotsToAsk
    /\ stuck = 0
    /\ stuck' \in {c \in Behind(at) : ~Ended(c)}
    /\ UNCHANGED <<netVars, tableVars, recvVars, sender, copy, at, asked, due,
                   ctlVars>>

(* ... until the client reads, if it ever does, or ends its connection.    *)
ClientReads ==
    /\ stuck # 0
    /\ asked' = asked \cup {stuck}
    /\ stuck' = 0
    /\ NextOfCopy

SendFails ==
    /\ stuck # 0
    /\ Ended(stuck)
    /\ stuck' = 0
    /\ UNCHANGED asked
    /\ NextOfCopy

AllAsked == sender = "sending" /\ at > SlotsToAsk

QuerySent ==
    /\ AllAsked
    /\ sender' = "idle"
    /\ copy' = NoCopy
    /\ at' = 1
    /\ asked' = {}
    /\ due' = {}
    /\ \/ task = "query" /\ task' = "loop" /\ UNCHANGED trigger
       \/ trigger = "query" /\ trigger' = "idle" /\ UNCHANGED task
    /\ UNCHANGED <<netVars, tableVars, recvVars, stuck, rate, stopped>>

SenderStep == \/ RetrieveCurrentSocketList \/ SendToSlot \/ SendFails
              \/ QuerySent

(* mainSenderLoop between two queries: read blocks until the timer expires.*)
SenderLoop ==
    /\ task = "loop"
    /\ task' = IF "sender" \in stopped THEN "ended" ELSE "wait"
    /\ UNCHANGED <<netVars, tableVars, recvVars, queryVars, rate, trigger,
                   stopped>>

WaitTimerTrigger ==
    /\ task = "wait"
    /\ rate > 0
    /\ task' = "query"
    /\ UNCHANGED <<netVars, tableVars, recvVars, queryVars, rate, trigger,
                   stopped>>

-----------------------------------------------------------------------------
(* onMessageReceived, on the event loop of the agent.                      *)

TriggerQuery ==
    /\ trigger = "idle"
    /\ trigger' = "query"
    /\ UNCHANGED <<netVars, tableVars, recvVars, queryVars, rate, task,
                   stopped>>

(* CThreadStatsCollector::stop: the wakeup is a connection of its own.     *)
StopAcceptor ==
    /\ trigger = "idle"
    /\ stopped' = {"receiver"}
    /\ trigger' = "wakeup"
    /\ UNCHANGED <<netVars, tableVars, recvVars, queryVars, rate, task>>

(* Faulty variant: nobody wakes the acceptor.                              *)
NoWakeupEvent ==
    /\ trigger = "wakeup"
    /\ trigger' = "joinReceiver"
    /\ UNCHANGED <<netVars, tableVars, recvVars, queryVars, rate, task,
                   stopped>>

SendWakeupEvent ==
    /\ trigger = "wakeup"
    /\ backlog' = backlog \cup {Wakeup}
    /\ trigger' = "joinReceiver"
    /\ UNCHANGED <<input, tableVars, recvVars, queryVars, rate, task, stopped>>

JoinAcceptor ==
    /\ trigger = "joinReceiver"
    /\ receiver = "ended"
    /\ stopped' = {"receiver", "sender"}
    /\ trigger' = "joinSender"
    /\ UNCHANGED <<netVars, tableVars, recvVars, queryVars, rate, task>>

(* wakeupEvent makes later reads of the timer non-blocking; a read that    *)
(* blocks already ends with the next expiry.  deinitialize closes the      *)
(* sockets, and a new collector starts with the resolution asked for.      *)
SetResolution ==
    /\ trigger = "joinSender"
    /\ task = "ended"
    /\ rate' \in {0, 1}
    /\ input' = [c \in Clients |-> "none"]
    /\ backlog' = {}
    /\ file' = [d \in DOMAIN file \ {mSocketList[s] : s \in Slots} |-> file[d]]
    /\ mSocketList' = [s \in Slots |-> POSITION_FREE]
    /\ mNrOfConnections' = 0
    /\ receiver' = "loop"
    /\ readfds' = {}
    /\ idx' = 1
    /\ task' = "loop"
    /\ trigger' = "idle"
    /\ stopped' = {}
    /\ UNCHANGED <<undefined, queryVars>>

StopStep == SendWakeupEvent \/ JoinAcceptor \/ SetResolution

-----------------------------------------------------------------------------
Next == /\ ~undefined
        /\ \/ \E c \in Clients : ClientConnects(c) \/ ClientSends(c)
           \/ ReceiverStep
           \/ SenderStep \/ SendBlocks \/ ClientReads
           \/ SenderLoop
           \/ WaitTimerTrigger
           \/ TriggerQuery
           \/ StopAcceptor
           \/ StopStep

Spec == Init /\ [][Next]_vars

Alive(A) == ~undefined /\ A

(* The threads run and the timer expires; clients need not read.           *)
FairSpec == /\ Spec
            /\ WF_vars(Alive(ReceiverStep))
            /\ WF_vars(Alive(SenderStep))
            /\ WF_vars(Alive(SenderLoop \/ WaitTimerTrigger))
            /\ WF_vars(Alive(StopStep))

-----------------------------------------------------------------------------
(* The table against the kernel: the occupied slots hold different         *)
(* descriptors, all open, and there are as many of them as counted.        *)
TableConsistent ==
    /\ mSocketList \in [Slots -> Descriptors \cup {POSITION_FREE}]
    /\ mNrOfConnections = Cardinality(InTable)
    /\ \A s, t \in InTable : mSocketList[s] = mSocketList[t] => s = t
    /\ \A s \in InTable : mSocketList[s] \in DOMAIN file

(* A copy without a free slot before an occupied one.                      *)
Dense == \A s \in Slots : copy.list[s] # POSITION_FREE <=> s <= copy.nr

(* A query that has been sent reached every client that was in the table   *)
(* and stayed connected, provided that the copied table had no gap: a gap  *)
(* left by a client that has gone hides the last ones from the query.      *)
EveryClientAsked == AllAsked /\ Dense => due \subseteq asked

(* stop ends, unless the timer is disarmed, the receiver waits for ever    *)
(* for the rest of a client's message, or the sender for a client that     *)
(* does not read.                                                          *)
StopReturns ==
    trigger = "wakeup"
        ~> \/ trigger = "idle" \/ rate = 0 \/ undefined
           \/ [](receiver = "reading")
           \/ [](stuck # 0)
=============================================================================
