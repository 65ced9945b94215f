-------------------------- MODULE AppStats_proofs --------------------------
(***************************************************************************)
(* Proof about the statistics collector's table, for any number of         *)
(* connections and slots: accepts, closes, reused descriptors and restarts *)
(* of the collector leave the table in step with the kernel and with the   *)
(* count beside it.                                                        *)
(***************************************************************************)
EXTENDS AppStats, FiniteSetTheorems, WellFoundedInduction, TLAPS

-----------------------------------------------------------------------------
(* The inductive invariant, in parts.                                      *)

(* A descriptor is open for one client, and no client has two.             *)
FileInjective ==
    /\ DOMAIN file \subseteq Descriptors
    /\ \A d \in DOMAIN file : file[d] \in Clients
    /\ \A d, e \in DOMAIN file : file[d] = file[e] => d = e

(* Who waits to be accepted has no descriptor yet.                         *)
BacklogWaits ==
    /\ backlog \subseteq Clients \cup {Wakeup}
    /\ \A c \in backlog : ~Connected(c)

(* Who made select return is still there when the receiver accepts.        *)
SomeoneToAccept ==
    receiver = "accept" /\ Master \in readfds => backlog # {}

Inv == /\ FileInjective
       /\ BacklogWaits
       /\ SomeoneToAccept
       /\ TableConsistent

LEMMA NumbersNat ==
    /\ MaxConnections \in Nat
    /\ SOCKET_LIST_SIZE \in Nat \ {0}
    /\ Slots \subseteq Nat
    /\ Clients \subseteq Nat
    /\ Descriptors \subseteq Nat \ {0}
    /\ Wakeup \in Nat \ Clients
    /\ Master \in Nat \ Descriptors
BY StatsAssumption DEF Slots, Clients, Descriptors, Wakeup, Master

-----------------------------------------------------------------------------
(* The lowest number of a set is one of the set.                           *)
LEMMA FirstIn ==
    ASSUME NEW S \in SUBSET Nat, S # {}
    PROVE  First(S) \in S
<1>1. PICK x \in S : \A y \in S : ~(<<y, x>> \in OpToRel(<, Nat))
    BY NatLessThanWellFounded, WFMin
<1>2. ASSUME NEW y \in S
      PROVE  x <= y
    <2>1. y < x => <<y, x>> \in OpToRel(<, Nat)
        BY DEF OpToRel
    <2>2. ~(y < x)
        BY <1>1, <2>1, Zenon
    <2> QED BY <2>2
<1> QED BY <1>2 DEF First

(* The occupied slots can be counted.                                      *)
LEMMA InTableFinite ==
    /\ IsFiniteSet(InTable)
    /\ Cardinality(InTable) \in Nat
<1>1. IsFiniteSet(1..SOCKET_LIST_SIZE)
    BY FS_Interval, NumbersNat
<1>2. InTable \in SUBSET (1..SOCKET_LIST_SIZE)
    BY DEF InTable, Slots
<1>3. IsFiniteSet(InTable)
    BY <1>1, <1>2, FS_Subset
<1> QED BY <1>3, FS_CardinalityType

(* While a client waits, the kernel has a descriptor for it.               *)
LEMMA DescriptorLeft ==
    ASSUME FileInjective, NEW c \in Clients, ~Connected(c)
    PROVE  LowestFree \in Descriptors \ DOMAIN file
<1>1. Descriptors \ DOMAIN file # {}
    <2>1. SUFFICES ASSUME DOMAIN file = Descriptors
                   PROVE  FALSE
        BY DEF FileInjective
    <2> DEFINE f == [d \in Descriptors |-> file[d]]
               T == Clients \ {c}
    <2>2. f \in [Descriptors -> T]
        BY <2>1 DEF FileInjective, Connected
    <2>3. /\ IsFiniteSet(Descriptors) /\ Cardinality(Descriptors) = MaxConnections
          /\ IsFiniteSet(Clients) /\ Cardinality(Clients) = MaxConnections
        BY FS_Interval, NumbersNat DEF Clients, Descriptors
    <2>4. IsFiniteSet(T) /\ Cardinality(T) = MaxConnections - 1
        BY <2>3, FS_RemoveElement
    <2>5. Cardinality(T) < Cardinality(Descriptors)
        BY <2>3, <2>4, NumbersNat
    <2> HIDE DEF f, T
    <2>6. \E d, e \in Descriptors : d # e /\ f[d] = f[e]
        BY <2>2, <2>3, <2>4, <2>5, FS_PigeonHole
    <2> QED BY <2>1, <2>6 DEF f, FileInjective
<1> QED BY <1>1, FirstIn, NumbersNat DEF LowestFree

(* At most one slot is the first free one.                                 *)
LEMMA OneFirstFree ==
    \/ FirstFree = {}
    \/ \E s \in Slots : FirstFree = {s} /\ s \notin InTable
<1>1. \A s, t \in FirstFree : s = t
    <2>1. SUFFICES ASSUME NEW s \in FirstFree, NEW t \in FirstFree, s < t
                   PROVE  FALSE
        BY NumbersNat DEF FirstFree
    <2>2. s \in 1..(t - 1)
        BY <2>1, NumbersNat DEF FirstFree, Slots
    <2> QED BY <2>1, <2>2 DEF FirstFree, InTable
<1>2. \A s \in FirstFree : s \in Slots /\ s \notin InTable
    BY DEF FirstFree, InTable
<1> QED BY <1>1, <1>2

-----------------------------------------------------------------------------
LEMMA InitInv == Init => Inv
<1> SUFFICES ASSUME Init PROVE Inv
    OBVIOUS
<1>1. InTable = {}
    BY DEF Init, InTable
<1>2. TableConsistent
    BY <1>1, FS_EmptySet DEF Init, TableConsistent
<1> QED BY <1>2 DEF Inv, Init, FileInjective, BacklogWaits, SomeoneToAccept

(* A connection accepted: its descriptor is new, and fills a slot that was *)
(* free, if there is one.                                                  *)
LEMMA AcceptKeepsInv == Inv /\ HandleNewConnection => Inv'
<1> SUFFICES ASSUME Inv, HandleNewConnection PROVE Inv'
    OBVIOUS
<1> USE NumbersNat
<1>1. SomeoneToAccept'
    BY DEF HandleNewConnection, SomeoneToAccept
<1>2. CASE Master \notin readfds
    BY <1>1, <1>2 DEF HandleNewConnection, tableVars, Inv, FileInjective,
        BacklogWaits, Connected, TableConsistent, InTable
<1>3. CASE Master \in readfds
    <2> DEFINE c == First(backlog)
               d == LowestFree
    <2>1. c \in backlog
        <3>1. backlog # {} /\ backlog \in SUBSET Nat
            BY <1>3 DEF HandleNewConnection, Inv, SomeoneToAccept, BacklogWaits
        <3> QED BY <3>1, FirstIn
    <2>2. backlog' = backlog \ {c}
        BY <1>3 DEF HandleNewConnection
    <2>3. CASE c = Wakeup
        <3>1. UNCHANGED tableVars
            BY <1>3, <2>3 DEF HandleNewConnection
        <3> QED BY <1>1, <2>2, <3>1 DEF tableVars, Inv, FileInjective,
                    BacklogWaits, Connected, TableConsistent, InTable
    <2>4. CASE c # Wakeup
        <3>1. c \in Clients /\ ~Connected(c)
            BY <2>1, <2>4 DEF Inv, BacklogWaits
        <3>2. d \in Descriptors \ DOMAIN file
            BY <3>1, DescriptorLeft DEF Inv
        <3>3. /\ file' = [x \in DOMAIN file \cup {d} |->
                            IF x = d THEN c ELSE file[x]]
              /\ mSocketList' = [s \in Slots |->
                                   IF s \in FirstFree THEN d ELSE mSocketList[s]]
              /\ mNrOfConnections' = mNrOfConnections + Cardinality(FirstFree)
            BY <1>3, <2>4 DEF HandleNewConnection
        <3> HIDE DEF c, d
        <3>4. FileInjective'
            BY <3>1, <3>2, <3>3 DEF Inv, FileInjective, Connected
        <3>5. BacklogWaits'
            BY <2>2, <3>1, <3>2, <3>3 DEF Inv, BacklogWaits, Connected
        <3>6. TableConsistent'
            <4>1. InTable' = InTable \cup FirstFree
                BY <3>2, <3>3 DEF InTable, FirstFree, POSITION_FREE
            <4>2. mNrOfConnections' = Cardinality(InTable')
                <5>1. CASE FirstFree = {}
                    BY <3>3, <4>1, <5>1, FS_EmptySet, InTableFinite
                        DEF Inv, TableConsistent
                <5>2. ASSUME NEW s \in Slots, FirstFree = {s}, s \notin InTable
                      PROVE  mNrOfConnections' = Cardinality(InTable')
                    <6>1. Cardinality(InTable \cup {s}) = Cardinality(InTable) + 1
                        BY <5>2, InTableFinite, FS_AddElement
                    <6>2. Cardinality({s}) = 1
                        BY FS_Singleton
                    <6> QED BY <3>3, <4>1, <5>2, <6>1, <6>2
                                DEF Inv, TableConsistent
                <5> QED BY <5>1, <5>2, OneFirstFree
            <4>3. \A s \in InTable : mSocketList[s] \in DOMAIN file
                BY DEF Inv, TableConsistent
            <4>4. \A s, t \in InTable' : mSocketList'[s] = mSocketList'[t] => s = t
                BY <3>2, <3>3, <4>1, <4>3, OneFirstFree
                    DEF Inv, TableConsistent, InTable
            <4>5. \A s \in InTable' : mSocketList'[s] \in DOMAIN file'
                BY <3>3, <4>1, <4>3 DEF InTable, FirstFree
            <4>6. mSocketList' \in [Slots -> Descriptors \cup {POSITION_FREE}]
                BY <3>2, <3>3 DEF Inv, TableConsistent
            <4> QED BY <4>2, <4>4, <4>5, <4>6 DEF TableConsistent
        <3> QED BY <1>1, <3>4, <3>5, <3>6 DEF Inv
    <2> QED BY <2>3, <2>4
<1> QED BY <1>2, <1>3

(* A connection closed: its slot is free again, with its descriptor.       *)
LEMMA CloseKeepsInv == Inv /\ HandleConnectionClosed => Inv'
<1> SUFFICES ASSUME Inv, HandleConnectionClosed PROVE Inv'
    OBVIOUS
<1> USE NumbersNat
<1> DEFINE d == mSocketList[idx]
<1>1. /\ idx \in InTable
      /\ file' = [x \in DOMAIN file \ {d} |-> file[x]]
      /\ mSocketList' = [mSocketList EXCEPT ![idx] = POSITION_FREE]
      /\ mNrOfConnections' = mNrOfConnections - 1
      /\ backlog' = backlog
      /\ receiver' # "accept"
    BY DEF HandleConnectionClosed, CloseSlot, Signalled, NextSlot
<1>2. FileInjective'
    BY <1>1 DEF Inv, FileInjective
<1>3. BacklogWaits'
    BY <1>1 DEF Inv, BacklogWaits, Connected
<1>4. TableConsistent'
    <2>1. InTable' = InTable \ {idx}
        BY <1>1 DEF Inv, TableConsistent, InTable
    <2>2. mNrOfConnections' = Cardinality(InTable')
        BY <1>1, <2>1, InTableFinite, FS_RemoveElement DEF Inv, TableConsistent
    <2>3. \A s \in InTable' : s \in InTable /\ mSocketList'[s] = mSocketList[s]
        BY <1>1, <2>1 DEF Inv, TableConsistent, InTable
    <2>4. \A s \in InTable' : mSocketList[s] # d
        BY <1>1, <2>1 DEF Inv, TableConsistent
    <2>5. \A s \in InTable' : mSocketList'[s] \in DOMAIN file'
        BY <1>1, <2>3, <2>4 DEF Inv, TableConsistent
    <2>6. \A s, t \in InTable' : mSocketList'[s] = mSocketList'[t] => s = t
        BY <2>3 DEF Inv, TableConsistent
    <2>7. mSocketList' \in [Slots -> Descriptors \cup {POSITION_FREE}]
        BY <1>1 DEF Inv, TableConsistent
    <2> QED BY <2>2, <2>5, <2>6, <2>7 DEF TableConsistent
<1> QED BY <1>1, <1>2, <1>3, <1>4 DEF Inv, SomeoneToAccept

(* A new collector begins with an empty table; connections that never had  *)
(* a slot keep their descriptor.                                           *)
LEMMA RestartKeepsInv == Inv /\ SetResolution => Inv'
<1> SUFFICES ASSUME Inv, SetResolution PROVE Inv'
    OBVIOUS
<1> USE NumbersNat
<1>1. InTable' = {}
    BY DEF SetResolution, InTable
<1>2. TableConsistent'
    BY <1>1, FS_EmptySet DEF SetResolution, TableConsistent
<1> QED BY <1>2 DEF SetResolution, Inv, FileInjective, BacklogWaits,
            SomeoneToAccept

(* Every other step leaves the table and the descriptors alone.            *)
LEMMA OthersKeepInv ==
    ASSUME Inv, UNCHANGED tableVars,
           backlog' = backlog \/ backlog' = backlog \cup {Wakeup}
              \/ \E c \in Clients : ~Connected(c) /\ backlog' = backlog \cup {c},
           SomeoneToAccept'
    PROVE  Inv'
<1>1. FileInjective' /\ TableConsistent'
    BY DEF tableVars, Inv, FileInjective, TableConsistent, InTable
<1>2. BacklogWaits'
    BY NumbersNat DEF tableVars, Inv, FileInjective, BacklogWaits, Connected
<1> QED BY <1>1, <1>2 DEF Inv

LEMMA NextInv == Inv /\ [Next]_vars => Inv'
<1> SUFFICES ASSUME Inv, [Next]_vars PROVE Inv'
    OBVIOUS
<1> USE OthersKeepInv
<1> USE DEF Inv, SomeoneToAccept, netVars, recvVars
<1>1. ASSUME NEW c \in Clients, ClientConnects(c)
      PROVE  Inv'
    BY <1>1 DEF ClientConnects
<1>2. ASSUME NEW c \in Clients, ClientSends(c)
      PROVE  Inv'
    BY <1>2 DEF ClientSends
<1>3. CASE ReceiverLoop
    BY <1>3 DEF ReceiverLoop
<1>4. CASE WaitForEventOnSocket
    BY <1>4, NumbersNat DEF WaitForEventOnSocket, Readable, FileInjective
<1>5. CASE \/ SkipSlot \/ ProcessMessage \/ ProcessFailedRead
           \/ SendRawTMessage \/ ReadFails
    BY <1>5 DEF SkipSlot, ProcessMessage, ProcessFailedRead, SendRawTMessage,
        ReadFails, NextSlot
<1>6. CASE \/ SenderStep \/ SendBlocks \/ ClientReads
           \/ SenderLoop \/ WaitTimerTrigger
    BY <1>6 DEF SenderStep, SenderLoop, WaitTimerTrigger,
        RetrieveCurrentSocketList, SendToSlot, SendBlocks, ClientReads,
        SendFails, NextOfCopy, QuerySent
<1>7. CASE TriggerQuery \/ StopAcceptor \/ SendWakeupEvent \/ JoinAcceptor
    BY <1>7 DEF TriggerQuery, StopAcceptor, SendWakeupEvent, JoinAcceptor
<1>8. CASE UNCHANGED vars
    BY <1>8 DEF vars
<1> QED BY <1>1, <1>2, <1>3, <1>4, <1>5, <1>6, <1>7, <1>8,
            AcceptKeepsInv, CloseKeepsInv, RestartKeepsInv
            DEF Next, ReceiverStep, StopStep

LEMMA InvHolds == Spec => []Inv
BY InitInv, NextInv, PTL DEF Spec

-----------------------------------------------------------------------------
(* The query, against what happens to the table meanwhile.                 *)

EndStates == {"closed", "reset", "gone"}

(* A client that is still due has been in the copy from the beginning, its *)
(* descriptor is still its own, once its slot has been passed it has been  *)
(* asked, and a send that blocks at its slot waits for it and nobody else. *)
DueInCopy ==
    \A c \in due :
        /\ input[c] \notin EndStates
        /\ \E s \in Slots :
              /\ copy.list[s] # POSITION_FREE
              /\ copy.list[s] \in DOMAIN file
              /\ file[copy.list[s]] = c
              /\ s < at => c \in asked
              /\ s = at => stuck \in {0, c}

(* Nobody stops a thread in the middle of its query.                       *)
QueryRunning ==
    /\ sender # "sending" => due = {}
    /\ sender = "sending" => task = "query" \/ trigger = "query"

(* A send that blocks is one of the query's.                               *)
StuckInQuery == stuck # 0 => sender = "sending" /\ at <= copy.nr

InputStates == {"none", "begun", "whole", "closed", "reset", "gone"}

QueryInv == /\ Inv
            /\ input \in [Clients -> InputStates]
            /\ at \in Nat
            /\ copy.nr \in Nat
            /\ due \subseteq Clients
            /\ DueInCopy
            /\ QueryRunning
            /\ StuckInQuery

LEMMA InitQuery == Init => QueryInv
BY InitInv DEF Init, QueryInv, DueInCopy, QueryRunning, StuckInQuery, NoCopy,
               InputStates

(* The query begins: whoever is due has a slot in the table.               *)
LEMMA CopyKnowsDue ==
    ASSUME QueryInv, ~undefined, RetrieveCurrentSocketList
    PROVE  QueryInv'
<1>1. Inv'
    BY NextInv DEF QueryInv, Next, SenderStep
<1>2. /\ copy'.list = mSocketList
      /\ copy'.nr = mNrOfConnections
      /\ at' = 1
      /\ due' = {c \in Clients : /\ \E s \in InTable : file[mSocketList[s]] = c
                                 /\ input[c] \notin EndStates}
      /\ UNCHANGED <<netVars, tableVars, ctlVars>>
      /\ stuck = 0 /\ stuck' = 0
    BY DEF RetrieveCurrentSocketList, Ended, EndStates, QueryInv, StuckInQuery
<1>3. DueInCopy'
    <2>1. SUFFICES ASSUME NEW c \in due'
                   PROVE  /\ input'[c] \notin EndStates
                          /\ \E s \in Slots :
                                /\ copy'.list[s] # POSITION_FREE
                                /\ copy'.list[s] \in DOMAIN file'
                                /\ file'[copy'.list[s]] = c
                                /\ s < at' => c \in asked'
                                /\ s = at' => stuck' \in {0, c}
        BY DEF DueInCopy
    <2>2. PICK s \in InTable : file[mSocketList[s]] = c
        BY <1>2
    <2>3. s \in Slots /\ mSocketList[s] # POSITION_FREE
        BY DEF InTable
    <2>4. mSocketList[s] \in DOMAIN file
        BY <2>2 DEF QueryInv, Inv, TableConsistent
    <2>5. ~(s < at')
        BY <1>2, <2>3, NumbersNat DEF Slots
    <2> QED BY <1>2, <2>2, <2>3, <2>4, <2>5 DEF netVars, tableVars
<1>4. QueryRunning'
    BY DEF RetrieveCurrentSocketList, QueryRunning, ctlVars
<1>5. mNrOfConnections \in Nat
    BY InTableFinite DEF QueryInv, Inv, TableConsistent
<1> QED BY <1>1, <1>2, <1>3, <1>4, <1>5 DEF QueryInv, StuckInQuery, netVars

(* One more slot has been passed: its client has been asked, or is due no  *)
(* longer.                                                                 *)
LEMMA SlotPassed ==
    ASSUME QueryInv, ~undefined, SendToSlot \/ ClientReads \/ SendFails
    PROVE  QueryInv'
<1>1. Inv'
    BY NextInv DEF QueryInv, Next, SenderStep
<1>2. /\ asked \subseteq asked'
      /\ at' = at + 1
      /\ stuck' = 0
      /\ UNCHANGED <<netVars, tableVars, copy, due, sender, ctlVars>>
    BY DEF SendToSlot, ClientReads, SendFails, NextOfCopy
<1>3. ASSUME NEW c \in due,
             copy.list[at] \in DOMAIN file,
             file[copy.list[at]] = c,
             stuck \in {0, c}
      PROVE  c \in asked'
    <2>1. CASE SendToSlot
        BY <1>3, <2>1 DEF SendToSlot, Behind
    <2>2. CASE ClientReads
        BY <1>3, <2>2 DEF ClientReads
    <2>3. ~SendFails
        BY <1>3 DEF SendFails, Ended, EndStates, QueryInv, DueInCopy
    <2> QED BY <2>1, <2>2, <2>3
<1>4. DueInCopy'
    <2>1. ASSUME NEW c \in due, NEW s \in Slots,
                 copy.list[s] # POSITION_FREE,
                 copy.list[s] \in DOMAIN file,
                 file[copy.list[s]] = c,
                 s < at => c \in asked,
                 s = at => stuck \in {0, c},
                 s < at + 1
          PROVE  c \in asked'
        <3>1. CASE s < at
            BY <1>2, <2>1, <3>1
        <3>2. CASE s = at
            BY <1>3, <2>1, <3>2
        <3> QED BY <2>1, <3>1, <3>2, NumbersNat DEF QueryInv
    <2>2. \A c \in due' : input'[c] \notin EndStates
        BY <1>2 DEF QueryInv, DueInCopy, netVars
    <2> QED BY <1>2, <2>1, <2>2 DEF QueryInv, DueInCopy, netVars, tableVars
<1>5. QueryRunning'
    BY <1>2 DEF QueryInv, QueryRunning, ctlVars
<1> QED BY <1>1, <1>2, <1>4, <1>5 DEF QueryInv, StuckInQuery, netVars

(* The send blocks, on whoever is behind the slot.                         *)
LEMMA BlockKeepsQuery ==
    ASSUME QueryInv, ~undefined, SendBlocks
    PROVE  QueryInv'
<1>1. Inv'
    BY NextInv DEF QueryInv, Next
<1>2. /\ sender = "sending" /\ at <= copy.nr
      /\ stuck = 0 /\ stuck' \in Behind(at)
      /\ UNCHANGED <<netVars, tableVars, copy, due, at, asked, sender, ctlVars>>
    BY DEF SendBlocks, SlotsToAsk
<1>3. DueInCopy'
    <2>1. ASSUME NEW c \in due, copy.list[at] \in DOMAIN file,
                 file[copy.list[at]] = c
          PROVE  stuck' = c
        BY <1>2, <2>1 DEF Behind
    <2> QED BY <1>2, <2>1 DEF QueryInv, DueInCopy, netVars, tableVars
<1>4. QueryRunning' /\ StuckInQuery'
    BY <1>2 DEF QueryInv, QueryRunning, StuckInQuery, ctlVars
<1> QED BY <1>1, <1>2, <1>3, <1>4 DEF QueryInv, netVars

(* A step that leaves the query, and whoever it is for, alone.             *)
LEMMA QueryLeftAlone ==
    ASSUME QueryInv, Inv', UNCHANGED <<sender, copy, at, stuck, asked>>,
           due' \subseteq due,
           input' \in [Clients -> InputStates],
           \A c \in due' : /\ input'[c] \notin EndStates
                           /\ \A d \in DOMAIN file : file[d] = c =>
                                 d \in DOMAIN file' /\ file'[d] = c,
           sender = "sending" => task' = "query" \/ trigger' = "query"
    PROVE  QueryInv'
<1>1. DueInCopy'
    BY DEF QueryInv, DueInCopy
<1>2. QueryRunning'
    BY DEF QueryInv, QueryRunning
<1>3. StuckInQuery'
    BY DEF QueryInv, StuckInQuery
<1> QED BY <1>1, <1>2, <1>3 DEF QueryInv

LEMMA ClientsKeepQuery ==
    ASSUME QueryInv, ~undefined, NEW c \in Clients, ClientConnects(c) \/ ClientSends(c)
    PROVE  QueryInv'
<1>1. Inv'
    BY NextInv DEF QueryInv, Next
<1>2. CASE ClientConnects(c)
    BY <1>1, <1>2, QueryLeftAlone
       DEF ClientConnects, QueryInv, DueInCopy, QueryRunning, queryVars,
           tableVars, ctlVars
<1>3. CASE ClientSends(c)
    <2>1. /\ due' \subseteq due
          /\ \A d \in due' : input'[d] \notin EndStates
          /\ UNCHANGED <<file, sender, copy, at, stuck, asked, task, trigger>>
        BY <1>3 DEF ClientSends, Ended, EndStates, tableVars, ctlVars
    <2>2. input' \in [Clients -> InputStates]
        BY <1>3 DEF ClientSends, QueryInv, InputStates
    <2> QED BY <1>1, <2>1, <2>2, QueryLeftAlone DEF QueryInv, QueryRunning
<1> QED BY <1>2, <1>3

(* The receiver closes only connections whose end it has read, and hands   *)
(* no open descriptor to a new client.                                     *)
LEMMA ReceiverKeepsQuery ==
    ASSUME QueryInv, ~undefined, ReceiverStep
    PROVE  QueryInv'
<1>1. Inv'
    BY NextInv DEF QueryInv, Next
<1>2. UNCHANGED <<queryVars, ctlVars>>
    BY DEF ReceiverStep, ReceiverLoop, WaitForEventOnSocket, SkipSlot,
           HandleNewConnection, HandleConnectionClosed, ProcessMessage,
           ProcessFailedRead, SendRawTMessage, ReadFails
<1>3. ASSUME input' \in [Clients -> InputStates],
             \A c \in due : /\ input'[c] \notin EndStates
                            /\ \A d \in DOMAIN file : file[d] = c =>
                                  d \in DOMAIN file' /\ file'[d] = c
      PROVE  QueryInv'
    BY <1>1, <1>2, <1>3, QueryLeftAlone
       DEF queryVars, ctlVars, QueryInv, QueryRunning
<1>4. ASSUME NEW c \in due
      PROVE  input[c] \notin EndStates
    BY DEF QueryInv, DueInCopy
<1>5. CASE ReceiverLoop \/ WaitForEventOnSocket \/ SkipSlot \/ ProcessMessage
    <2>1. UNCHANGED <<input, file>>
        BY <1>5 DEF ReceiverLoop, WaitForEventOnSocket, SkipSlot,
                    ProcessMessage, netVars, tableVars
    <2> QED BY <1>3, <1>4, <2>1 DEF QueryInv
<1>6. CASE HandleNewConnection
    <2>1. input' = input
        BY <1>6 DEF HandleNewConnection
    <2>2. ASSUME NEW e \in DOMAIN file
          PROVE  e \in DOMAIN file' /\ file'[e] = file[e]
        <3> DEFINE c == First(backlog)
                   d == LowestFree
        <3>1. CASE UNCHANGED file
            BY <3>1
        <3>2. CASE Master \in readfds /\ c # Wakeup
            <4>1. c \in backlog
                <5>1. backlog # {} /\ backlog \in SUBSET Nat
                    BY <1>6, <3>2, NumbersNat
                       DEF HandleNewConnection, QueryInv, Inv, SomeoneToAccept,
                           BacklogWaits
                <5> QED BY <5>1, FirstIn
            <4>2. c \in Clients /\ ~Connected(c)
                BY <3>2, <4>1 DEF QueryInv, Inv, BacklogWaits
            <4>3. d \notin DOMAIN file
                BY <4>2, DescriptorLeft DEF QueryInv, Inv
            <4>4. file' = [x \in DOMAIN file \cup {d} |->
                             IF x = d THEN c ELSE file[x]]
                BY <1>6, <3>2 DEF HandleNewConnection
            <4> HIDE DEF c, d
            <4> QED BY <2>2, <4>3, <4>4
        <3> QED BY <1>6, <3>1, <3>2 DEF HandleNewConnection, tableVars
    <2> QED BY <1>3, <1>4, <2>1, <2>2 DEF QueryInv
<1>7. CASE HandleConnectionClosed
    <2>1. /\ input[Peer] = "closed"
          /\ input' = [input EXCEPT ![Peer] = "gone"]
          /\ file' = [d \in DOMAIN file \ {mSocketList[idx]} |-> file[d]]
        BY <1>7 DEF HandleConnectionClosed, CloseSlot
    <2>2. ASSUME NEW c \in due
          PROVE  /\ input'[c] \notin EndStates
                 /\ \A d \in DOMAIN file : file[d] = c =>
                       d \in DOMAIN file' /\ file'[d] = c
        <3>1. input[c] \notin EndStates /\ c \in Clients
            BY <1>4 DEF QueryInv
        <3>2. c # Peer
            BY <2>1, <3>1 DEF EndStates
        <3>3. \A d \in DOMAIN file : file[d] = c => d # mSocketList[idx]
            BY <3>2 DEF Peer
        <3>4. input'[c] = input[c]
            BY <2>1, <3>1, <3>2 DEF QueryInv
        <3> QED BY <2>1, <3>1, <3>3, <3>4
    <2>3. input' \in [Clients -> InputStates]
        BY <2>1 DEF QueryInv, InputStates
    <2> QED BY <1>3, <2>2, <2>3
<1>8. CASE ProcessFailedRead \/ SendRawTMessage \/ ReadFails
    <2>1. /\ file' = file
          /\ \/ input' = input
             \/ input' = [input EXCEPT ![Peer] = "none"]
             \/ /\ input' = [input EXCEPT ![Peer] = "closed"]
                /\ input[Peer] = "reset"
        BY <1>8 DEF ProcessFailedRead, SendRawTMessage, ReadFails, tableVars
    <2>2. /\ input' \in [Clients -> InputStates]
          /\ \A c \in Clients : input'[c] # input[c] =>
                input'[c] = "none" \/ input[c] = "reset"
        BY <2>1 DEF QueryInv, InputStates
    <2>3. \A c \in due : input'[c] \notin EndStates
        BY <1>4, <2>2 DEF QueryInv, EndStates
    <2> QED BY <1>3, <2>1, <2>2, <2>3
<1> QED BY <1>5, <1>6, <1>7, <1>8 DEF ReceiverStep

LEMMA NextQuery == QueryInv /\ [Next]_vars => QueryInv'
<1> SUFFICES ASSUME QueryInv, [Next]_vars PROVE QueryInv'
    OBVIOUS
<1>1. Inv'
    BY NextInv DEF QueryInv
<1>2. CASE QuerySent
    BY <1>1, <1>2
       DEF QuerySent, AllAsked, SlotsToAsk, QueryInv, DueInCopy, QueryRunning,
           StuckInQuery, netVars, NoCopy
<1>3. CASE \/ SenderLoop \/ WaitTimerTrigger \/ TriggerQuery \/ StopAcceptor
           \/ SendWakeupEvent \/ JoinAcceptor \/ UNCHANGED vars
    <2>1. /\ UNCHANGED <<input, file, queryVars>>
          /\ \/ task' = task \/ task # "query"
          /\ \/ trigger' = trigger \/ trigger # "query"
        BY <1>3 DEF SenderLoop, WaitTimerTrigger, TriggerQuery, StopAcceptor,
                    SendWakeupEvent, JoinAcceptor, vars, netVars, tableVars,
                    ctlVars
    <2>2. sender = "sending" => task' = "query" \/ trigger' = "query"
        BY <1>3 DEF SenderLoop, WaitTimerTrigger, TriggerQuery, StopAcceptor,
                    SendWakeupEvent, JoinAcceptor, vars, ctlVars, QueryInv,
                    QueryRunning
    <2> QED BY <1>1, <2>1, <2>2, QueryLeftAlone
            DEF QueryInv, DueInCopy, queryVars
<1>4. CASE SetResolution
    <2>1. sender # "sending"
        BY <1>4 DEF SetResolution, QueryInv, QueryRunning
    <2>2. due = {} /\ UNCHANGED queryVars /\ input' \in [Clients -> InputStates]
        BY <1>4, <2>1 DEF SetResolution, QueryInv, QueryRunning, InputStates
    <2> QED BY <1>1, <2>1, <2>2
            DEF QueryInv, DueInCopy, QueryRunning, StuckInQuery, queryVars
<1> QED BY <1>2, <1>3, <1>4, CopyKnowsDue, SlotPassed, BlockKeepsQuery,
           ClientsKeepQuery, ReceiverKeepsQuery
        DEF Next, SenderStep, StopStep

-----------------------------------------------------------------------------
(* However clients come and go, the slots of mSocketList that are not free *)
(* hold different descriptors, all open, as many as mNrOfConnections says. *)
THEOREM TableInStep == Spec => []TableConsistent
<1>1. Inv => TableConsistent
    BY DEF Inv
<1> QED BY <1>1, InvHolds, PTL

(* A query that has been sent over a table without gaps has reached every  *)
(* client that was in the table and is still connected, although its       *)
(* descriptors may have been closed and handed out again meanwhile.        *)
THEOREM QueryReachesAll == Spec => []EveryClientAsked
<1>1. QueryInv => EveryClientAsked
    <2>1. SUFFICES ASSUME QueryInv, AllAsked, Dense, NEW c \in due
                   PROVE  c \in asked
        BY DEF EveryClientAsked
    <2>2. PICK s \in Slots : /\ copy.list[s] # POSITION_FREE
                             /\ s < at => c \in asked
        BY <2>1 DEF QueryInv, DueInCopy
    <2>3. s <= copy.nr /\ at > copy.nr
        BY <2>1, <2>2 DEF Dense, AllAsked, SlotsToAsk
    <2>4. s < at
        BY <2>1, <2>3, NumbersNat DEF QueryInv
    <2> QED BY <2>2, <2>4
<1> QED BY <1>1, InitQuery, NextQuery, PTL DEF Spec
=============================================================================
