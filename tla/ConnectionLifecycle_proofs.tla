--------------------- MODULE ConnectionLifecycle_proofs ---------------------
(***************************************************************************)
(* Proofs about ConnectionLifecycle, for any set of hosts and plugins and  *)
(* any number of heartbeats.                                               *)
(***************************************************************************)
EXTENDS ConnectionLifecycle, SequenceTheorems, TLAPS

-----------------------------------------------------------------------------
(* The inductive invariant, in parts.                                      *)

(* mMsgMutex: a plugin thread holds it exactly while it is in sendMessage, *)
(* the event loop exactly while its callbacks run.                         *)
MutexHeld ==
    /\ \A p \in Plugins : plugin[p] # "out" <=> owner = p
    /\ owner = "loop" <=> loop \in {"announcing", "losing"}

(* What a plugin thread saw under the mutex stays true while it holds it.  *)
SendingConnected == \A p \in Plugins : plugin[p] = "sending" => connected

(* The plugins are connected only to a handler that is not torn down.      *)
ConnectedToHandler ==
    /\ connected => handler # None /\ loop \in {"idle", "announcing", "lose", "losing"}
    /\ loop \notin {"idle", "signal"} => handler # None
    /\ loop = "signal" => handler = None

(* The activities exist with the dispatcher.                               *)
ActivitiesOfHandler ==
    /\ sender = "off" <=> handler = None
    /\ receiver = "off" <=> handler = None

IsNew(i) == events[i].kind = "new"

(* No connection is served, being set up or torn down, or announced.       *)
NobodyServed ==
    /\ handler = None
    /\ loop = "idle"
    /\ \A i \in DOMAIN events : ~IsNew(i)

(* One connection at a time: the server goes on to the next one only when  *)
(* the last is gone, and a true predicate it waits for tells it so.        *)
OneAtATime ==
    /\ server \in {"accept", "announce"} => NobodyServed
    /\ server = "waiting" /\ predicate => NobodyServed
    /\ \A i \in DOMAIN events : IsNew(i) => handler = None /\ loop = "idle"
    /\ \A i, j \in DOMAIN events : IsNew(i) /\ IsNew(j) => i = j

(* The dispatcher works on the server's stream socket.                     *)
HandlerOnSocket ==
    /\ handler # None => handler = socket
    /\ server # "accept" \/ (\E i \in DOMAIN events : IsNew(i)) => socket # None

(* An event of a connection, other than its announcement.                  *)
Anonymous(i) == events[i].kind = "heartbeat" /\ events[i].host = None

(* The queue holds no event of a connection other than the one served ...  *)
EventsOfHandler ==
    handler # None => \A i \in DOMAIN events :
                          ~IsNew(i) => Anonymous(i) \/ events[i].host = handler

(* ... because all that was said of earlier ones stands before the         *)
(* announcement of the next.                                               *)
NothingAfterNew ==
    \A i, j \in DOMAIN events : IsNew(i) /\ i < j => Anonymous(j)

(* What was reported closed.                                               *)
ClosedReported ==
    /\ \A i \in DOMAIN events : events[i].kind = "closed" => events[i].host \in reported
    /\ loop \in {"lose", "losing"} => handler \in reported

(* A connection is served once.                                            *)
NotYetServed ==
    /\ \A h \in backlog : h \notin served /\ h # socket
    /\ server = "announce" \/ loop = "establish" \/ (\E i \in DOMAIN events : IsNew(i))
          => socket \notin served

Inv == /\ TypeOK
       /\ MutexHeld
       /\ SendingConnected
       /\ ConnectedToHandler
       /\ ActivitiesOfHandler
       /\ OneAtATime
       /\ HandlerOnSocket
       /\ EventsOfHandler
       /\ NothingAfterNew
       /\ ClosedReported
       /\ NotYetServed

-----------------------------------------------------------------------------
(* An event enqueued.                                                      *)
LEMMA AppendEvent ==
    ASSUME NEW s \in Seq(Events), NEW e \in Events
    PROVE  /\ Append(s, e) \in Seq(Events)
           /\ DOMAIN s = 1..Len(s) /\ DOMAIN Append(s, e) = 1..(Len(s) + 1)
           /\ \A i \in 1..Len(s) : Append(s, e)[i] = s[i]
           /\ Append(s, e)[Len(s) + 1] = e
OBVIOUS

(* An event dequeued.                                                      *)
LEMMA TailEvents ==
    ASSUME NEW s \in Seq(Events), s # <<>>
    PROVE  /\ Tail(s) \in Seq(Events)
           /\ 1 \in DOMAIN s /\ Head(s) = s[1]
           /\ \A i \in DOMAIN Tail(s) : i + 1 \in DOMAIN s /\ Tail(s)[i] = s[i + 1]
           /\ DOMAIN Tail(s) \subseteq Nat
<1>1. Len(s) \in Nat /\ Len(s) # 0
    BY EmptySeq
<1>2. Tail(s) \in Seq(Events) /\ Len(Tail(s)) = Len(s) - 1
    BY HeadTailProperties
<1>3. \A i \in 1..Len(Tail(s)) : Tail(s)[i] = s[i + 1]
    BY HeadTailProperties
<1>4. DOMAIN Tail(s) = 1..(Len(s) - 1) /\ DOMAIN s = 1..Len(s)
    BY <1>2
<1> QED BY <1>1, <1>2, <1>3, <1>4

(* The invariant holds when the agent starts, before any host connects.    *)
LEMMA InitInv == Init => Inv
<1> SUFFICES ASSUME Init PROVE Inv
    OBVIOUS
<1> USE DEF Init
<1>1. TypeOK
  <2>1. events \in Seq(Events) /\ plugin \in [Plugins -> PluginStates]
      BY DEF PluginStates
  <2>2. heartbeats \in 0..MaxHeartbeats
      BY LifecycleAssumption
  <2> QED
      BY <2>1, <2>2 DEF TypeOK, ServerStates, ActivityStates, LoopStates
<1>2. MutexHeld /\ SendingConnected
    BY LifecycleAssumption DEF MutexHeld, SendingConnected
<1>3. ConnectedToHandler /\ ActivitiesOfHandler
    BY DEF ConnectedToHandler, ActivitiesOfHandler
<1>4. OneAtATime /\ HandlerOnSocket
    BY DEF OneAtATime, HandlerOnSocket, NobodyServed
<1>5. EventsOfHandler /\ NothingAfterNew /\ ClosedReported /\ NotYetServed
    BY DEF EventsOfHandler, NothingAfterNew, ClosedReported, NotYetServed
<1> QED BY <1>1, <1>2, <1>3, <1>4, <1>5 DEF Inv

(* Every step keeps it.                                                    *)
LEMMA NextInv == Inv /\ [Next]_vars => Inv'
<1> SUFFICES ASSUME Inv, [Next]_vars PROVE Inv'
    OBVIOUS
<1> USE DEF netVars, serverVars, handlerVars, proxyVars, histVars,
            ActivityUnchanged, LoopUnchanged, CloseUnchanged, PluginUnchanged
<1>1. ASSUME NEW h \in Hosts, HostConnects(h) PROVE Inv'
  <2> USE <1>1 DEF Inv, HostConnects, Known
  <2>1. TypeOK'
    BY DEF TypeOK
  <2>2. NotYetServed'
    BY DEF NotYetServed, IsNew
  <2>3. MutexHeld' /\ SendingConnected' /\ ConnectedToHandler' /\
        ActivitiesOfHandler' /\ OneAtATime' /\ HandlerOnSocket' /\
        EventsOfHandler' /\ NothingAfterNew' /\ ClosedReported'
    BY DEF MutexHeld, SendingConnected, ConnectedToHandler,
       ActivitiesOfHandler, OneAtATime, HandlerOnSocket, EventsOfHandler,
       NothingAfterNew, ClosedReported, IsNew, Anonymous, NobodyServed
  <2> QED BY <2>1, <2>2, <2>3
<1>2. ASSUME NEW h \in Hosts, HostHangsUp(h) PROVE Inv'
  <2> USE <1>2 DEF Inv, HostHangsUp
  <2>1. TypeOK'
    BY DEF TypeOK
  <2>2. MutexHeld' /\ SendingConnected' /\ ConnectedToHandler' /\
        ActivitiesOfHandler' /\ OneAtATime' /\ HandlerOnSocket' /\
        EventsOfHandler' /\ NothingAfterNew' /\ ClosedReported' /\
        NotYetServed'
    BY DEF MutexHeld, SendingConnected, ConnectedToHandler,
       ActivitiesOfHandler, OneAtATime, HandlerOnSocket, EventsOfHandler,
       NothingAfterNew, ClosedReported, NotYetServed, IsNew, Anonymous,
       NobodyServed
  <2> QED BY <2>1, <2>2
<1>3. CASE AcceptConnection
  <2> USE <1>3 DEF Inv, AcceptConnection
  <2>1. TypeOK'
    BY DEF TypeOK, ServerStates
  <2>2. OneAtATime'
    BY DEF OneAtATime, NobodyServed, IsNew
  <2>3. HandlerOnSocket'
    BY LifecycleAssumption DEF HandlerOnSocket, IsNew, TypeOK, OneAtATime,
       NobodyServed
  <2>4. NotYetServed'
    BY DEF NotYetServed, IsNew
  <2>5. MutexHeld' /\ SendingConnected' /\ ConnectedToHandler' /\
        ActivitiesOfHandler' /\ EventsOfHandler' /\ NothingAfterNew' /\
        ClosedReported'
    BY DEF MutexHeld, SendingConnected, ConnectedToHandler,
       ActivitiesOfHandler, EventsOfHandler, NothingAfterNew, ClosedReported,
       IsNew, Anonymous
  <2> QED BY <2>1, <2>2, <2>3, <2>4, <2>5
<1>4. CASE NotifyNewHostConnection
  <2> USE <1>4 DEF Inv, NotifyNewHostConnection
  <2>1. Ev("new", socket) \in Events
    BY LifecycleAssumption DEF TypeOK, Ev, Events, HandlerOnSocket
  <2>2. /\ events' \in Seq(Events)
        /\ DOMAIN events = 1..Len(events) /\ DOMAIN events' = 1..(Len(events) + 1)
        /\ \A i \in 1..Len(events) : events'[i] = events[i]
        /\ events'[Len(events) + 1] = Ev("new", socket)
    BY <2>1, AppendEvent DEF TypeOK
  <2>3. TypeOK'
    BY <2>2 DEF TypeOK, ServerStates
  <2>4. OneAtATime'
    BY <2>2 DEF OneAtATime, NobodyServed, IsNew, Ev
  <2>5. HandlerOnSocket'
    BY <2>2 DEF HandlerOnSocket, IsNew, Ev
  <2>6. EventsOfHandler'
    BY <2>2 DEF EventsOfHandler, IsNew, Anonymous, Ev
  <2>7. NothingAfterNew'
    <3>1. \A i \in 1..Len(events) : ~IsNew(i)
      BY <2>2 DEF OneAtATime, NobodyServed
    <3>2. \A i \in 1..Len(events) : ~IsNew(i)'
      BY <2>2, <3>1 DEF IsNew
    <3> QED BY <2>2, <3>2 DEF NothingAfterNew
  <2>8. ClosedReported'
    BY <2>2 DEF ClosedReported, Ev
  <2>9. NotYetServed'
    BY <2>2 DEF NotYetServed, IsNew, Ev
  <2>10. MutexHeld' /\ SendingConnected' /\ ConnectedToHandler' /\
        ActivitiesOfHandler'
    BY DEF MutexHeld, SendingConnected, ConnectedToHandler,
       ActivitiesOfHandler
  <2> QED BY <2>1, <2>2, <2>3, <2>4, <2>5, <2>6, <2>7, <2>8, <2>9, <2>10
<1>5. CASE WaitForCurrentConnectionExpires
  <2> USE <1>5 DEF Inv, WaitForCurrentConnectionExpires
  <2>1. TypeOK'
    BY DEF TypeOK, ServerStates
  <2>2. OneAtATime'
    BY DEF OneAtATime, NobodyServed, IsNew
  <2>3. HandlerOnSocket'
    BY DEF HandlerOnSocket, IsNew
  <2>4. NotYetServed'
    BY DEF NotYetServed, IsNew
  <2>5. MutexHeld' /\ SendingConnected' /\ ConnectedToHandler' /\
        ActivitiesOfHandler' /\ EventsOfHandler' /\ NothingAfterNew' /\
        ClosedReported'
    BY DEF MutexHeld, SendingConnected, ConnectedToHandler,
       ActivitiesOfHandler, EventsOfHandler, NothingAfterNew, ClosedReported,
       IsNew, Anonymous
  <2> QED BY <2>1, <2>2, <2>3, <2>4, <2>5
<1>6. CASE ServerWakes
  <2> USE <1>6 DEF Inv, ServerWakes
  <2>1. TypeOK'
    BY DEF TypeOK, ServerStates
  <2>2. OneAtATime'
    BY DEF OneAtATime, NobodyServed, IsNew
  <2>3. HandlerOnSocket'
    BY DEF HandlerOnSocket, IsNew
  <2>4. NotYetServed'
    BY DEF NotYetServed, IsNew
  <2>5. MutexHeld' /\ SendingConnected' /\ ConnectedToHandler' /\
        ActivitiesOfHandler' /\ EventsOfHandler' /\ NothingAfterNew' /\
        ClosedReported'
    BY DEF MutexHeld, SendingConnected, ConnectedToHandler,
       ActivitiesOfHandler, EventsOfHandler, NothingAfterNew, ClosedReported,
       IsNew, Anonymous
  <2> QED BY <2>1, <2>2, <2>3, <2>4, <2>5
<1>7. CASE SenderGivesUp
  <2> USE <1>7 DEF Inv, SenderGivesUp, ReportClosed, Alive
  <2>1. Ev("closed", handler) \in Events
    BY LifecycleAssumption DEF TypeOK, Ev, Events
  <2>2. /\ events' \in Seq(Events)
        /\ DOMAIN events = 1..Len(events) /\ DOMAIN events' = 1..(Len(events) + 1)
        /\ \A i \in 1..Len(events) : events'[i] = events[i]
        /\ events'[Len(events) + 1] = Ev("closed", handler)
    BY <2>1, AppendEvent DEF TypeOK
  <2>3. TypeOK'
    <3>1. handler \in Hosts
      BY DEF TypeOK, ActivitiesOfHandler
    <3> QED BY <2>2, <3>1 DEF TypeOK, ActivityStates
  <2>4. ActivitiesOfHandler'
    BY DEF ActivitiesOfHandler
  <2>5. OneAtATime'
    BY <2>2 DEF OneAtATime, NobodyServed, IsNew, Ev
  <2>6. HandlerOnSocket'
    BY <2>2 DEF HandlerOnSocket, IsNew, Ev
  <2>7. EventsOfHandler'
    BY <2>2 DEF EventsOfHandler, IsNew, Anonymous, Ev
  <2>8. NothingAfterNew'
    BY <2>2 DEF NothingAfterNew, IsNew, Anonymous, TypeOK, OneAtATime,
       ActivitiesOfHandler, Ev
  <2>9. ClosedReported'
    BY <2>2 DEF ClosedReported, Ev
  <2>10. NotYetServed'
    BY <2>2 DEF NotYetServed, IsNew, Ev
  <2>11. MutexHeld' /\ SendingConnected' /\ ConnectedToHandler'
    BY DEF MutexHeld, SendingConnected, ConnectedToHandler
  <2> QED BY <2>1, <2>2, <2>3, <2>4, <2>5, <2>6, <2>7, <2>8, <2>9, <2>10,
     <2>11
<1>8. CASE ReceiverFindsPeerClosed
  <2> USE <1>8 DEF Inv, ReceiverFindsPeerClosed, ReportClosed, Alive
  <2>1. Ev("closed", handler) \in Events
    BY LifecycleAssumption DEF TypeOK, Ev, Events
  <2>2. /\ events' \in Seq(Events)
        /\ DOMAIN events = 1..Len(events) /\ DOMAIN events' = 1..(Len(events) + 1)
        /\ \A i \in 1..Len(events) : events'[i] = events[i]
        /\ events'[Len(events) + 1] = Ev("closed", handler)
    BY <2>1, AppendEvent DEF TypeOK
  <2>3. TypeOK'
    BY <2>2 DEF TypeOK, ActivityStates
  <2>4. ActivitiesOfHandler'
    BY DEF ActivitiesOfHandler
  <2>5. OneAtATime'
    BY <2>2 DEF OneAtATime, NobodyServed, IsNew, Ev
  <2>6. HandlerOnSocket'
    BY <2>2 DEF HandlerOnSocket, IsNew, Ev
  <2>7. EventsOfHandler'
    BY <2>2 DEF EventsOfHandler, IsNew, Anonymous, Ev
  <2>8. NothingAfterNew'
    BY <2>2 DEF NothingAfterNew, IsNew, Anonymous, TypeOK, OneAtATime,
       ActivitiesOfHandler, Ev
  <2>9. ClosedReported'
    BY <2>2 DEF ClosedReported, Ev
  <2>10. NotYetServed'
    BY <2>2 DEF NotYetServed, IsNew, Ev
  <2>11. MutexHeld' /\ SendingConnected' /\ ConnectedToHandler'
    BY DEF MutexHeld, SendingConnected, ConnectedToHandler
  <2> QED BY <2>1, <2>2, <2>3, <2>4, <2>5, <2>6, <2>7, <2>8, <2>9, <2>10,
     <2>11
<1>9. CASE ReceiverForwardsHeartbeat
  <2> USE <1>9 DEF Inv, ReceiverForwardsHeartbeat, Alive
  <2>1. Ev("heartbeat", handler) \in Events
    BY LifecycleAssumption DEF TypeOK, Ev, Events
  <2>2. /\ events' \in Seq(Events)
        /\ DOMAIN events = 1..Len(events) /\ DOMAIN events' = 1..(Len(events) + 1)
        /\ \A i \in 1..Len(events) : events'[i] = events[i]
        /\ events'[Len(events) + 1] = Ev("heartbeat", handler)
    BY <2>1, AppendEvent DEF TypeOK
  <2>3. TypeOK'
    BY <2>2, LifecycleAssumption DEF TypeOK
  <2>4. OneAtATime'
    BY <2>2 DEF OneAtATime, NobodyServed, IsNew, Ev
  <2>5. HandlerOnSocket'
    BY <2>2 DEF HandlerOnSocket, IsNew, Ev
  <2>6. EventsOfHandler'
    BY <2>2 DEF EventsOfHandler, IsNew, Anonymous, Ev
  <2>7. NothingAfterNew'
    BY <2>2 DEF NothingAfterNew, IsNew, Anonymous, TypeOK, OneAtATime,
       ActivitiesOfHandler, Ev
  <2>8. ClosedReported'
    BY <2>2 DEF ClosedReported, Ev
  <2>9. NotYetServed'
    BY <2>2 DEF NotYetServed, IsNew, Ev
  <2>10. MutexHeld' /\ SendingConnected' /\ ConnectedToHandler' /\
        ActivitiesOfHandler'
    BY DEF MutexHeld, SendingConnected, ConnectedToHandler,
       ActivitiesOfHandler
  <2> QED BY <2>1, <2>2, <2>3, <2>4, <2>5, <2>6, <2>7, <2>8, <2>9, <2>10
<1>10. CASE CommandPortHeartbeat
  <2> USE <1>10 DEF Inv, CommandPortHeartbeat
  <2>1. Ev("heartbeat", None) \in Events
    BY LifecycleAssumption DEF TypeOK, Ev, Events
  <2>2. /\ events' \in Seq(Events)
        /\ DOMAIN events = 1..Len(events) /\ DOMAIN events' = 1..(Len(events) + 1)
        /\ \A i \in 1..Len(events) : events'[i] = events[i]
        /\ events'[Len(events) + 1] = Ev("heartbeat", None)
    BY <2>1, AppendEvent DEF TypeOK
  <2>3. TypeOK'
    BY <2>2, LifecycleAssumption DEF TypeOK
  <2>4. OneAtATime'
    BY <2>2 DEF OneAtATime, NobodyServed, IsNew, Ev
  <2>5. HandlerOnSocket'
    BY <2>2 DEF HandlerOnSocket, IsNew, Ev
  <2>6. EventsOfHandler'
    BY <2>2 DEF EventsOfHandler, IsNew, Anonymous, Ev
  <2>7. NothingAfterNew'
    BY <2>2 DEF NothingAfterNew, IsNew, Anonymous, Ev
  <2>8. ClosedReported'
    BY <2>2 DEF ClosedReported, Ev
  <2>9. NotYetServed'
    BY <2>2 DEF NotYetServed, IsNew, Ev
  <2>10. MutexHeld' /\ SendingConnected' /\ ConnectedToHandler' /\
        ActivitiesOfHandler'
    BY DEF MutexHeld, SendingConnected, ConnectedToHandler,
       ActivitiesOfHandler
  <2> QED BY <2>1, <2>2, <2>3, <2>4, <2>5, <2>6, <2>7, <2>8, <2>9, <2>10
<1>11. CASE SenderEnds
  <2> USE <1>11 DEF Inv, SenderEnds
  <2>1. TypeOK'
    BY DEF TypeOK, ActivityStates
  <2>2. ActivitiesOfHandler'
    BY DEF ActivitiesOfHandler
  <2>3. MutexHeld' /\ SendingConnected' /\ ConnectedToHandler' /\ OneAtATime'
        /\ HandlerOnSocket' /\ EventsOfHandler' /\ NothingAfterNew' /\
        ClosedReported' /\ NotYetServed'
    BY DEF MutexHeld, SendingConnected, ConnectedToHandler, OneAtATime,
       HandlerOnSocket, EventsOfHandler, NothingAfterNew, ClosedReported,
       NotYetServed, IsNew, Anonymous, NobodyServed
  <2> QED BY <2>1, <2>2, <2>3
<1>12. CASE ReceiverEnds
  <2> USE <1>12 DEF Inv, ReceiverEnds
  <2>1. TypeOK'
    BY DEF TypeOK, ActivityStates
  <2>2. ActivitiesOfHandler'
    BY DEF ActivitiesOfHandler
  <2>3. MutexHeld' /\ SendingConnected' /\ ConnectedToHandler' /\ OneAtATime'
        /\ HandlerOnSocket' /\ EventsOfHandler' /\ NothingAfterNew' /\
        ClosedReported' /\ NotYetServed'
    BY DEF MutexHeld, SendingConnected, ConnectedToHandler, OneAtATime,
       HandlerOnSocket, EventsOfHandler, NothingAfterNew, ClosedReported,
       NotYetServed, IsNew, Anonymous, NobodyServed
  <2> QED BY <2>1, <2>2, <2>3
<1>13. CASE OnClientConnected
  <2> USE <1>13 DEF Inv, OnClientConnected, Dequeue
  <2>1. /\ events' \in Seq(Events)
        /\ 1 \in DOMAIN events /\ Head(events) = events[1]
        /\ \A i \in DOMAIN events' : i + 1 \in DOMAIN events /\ events'[i] = events[i + 1]
        /\ DOMAIN events' \subseteq Nat
    BY TailEvents DEF TypeOK
  <2>2. TypeOK'
    BY <2>1 DEF TypeOK, ActivityStates, LoopStates
  <2>3. MutexHeld'
    BY DEF MutexHeld
  <2>4. ConnectedToHandler'
    BY DEF ConnectedToHandler, TypeOK, OneAtATime, HandlerOnSocket,
       NobodyServed, IsNew, MutexHeld
  <2>5. ActivitiesOfHandler'
    BY DEF ActivitiesOfHandler, TypeOK, ConnectedToHandler, HandlerOnSocket,
       IsNew
  <2>6. OneAtATime'
    BY <2>1 DEF OneAtATime, NobodyServed, IsNew
  <2>7. HandlerOnSocket'
    BY <2>1 DEF HandlerOnSocket, IsNew
  <2>8. EventsOfHandler'
    BY <2>1 DEF EventsOfHandler, IsNew, Anonymous, TypeOK, NothingAfterNew,
       OneAtATime, ActivitiesOfHandler
  <2>9. NothingAfterNew'
    BY <2>1 DEF NothingAfterNew, IsNew, Anonymous
  <2>10. ClosedReported'
    BY <2>1 DEF ClosedReported
  <2>11. NotYetServed'
    BY <2>1 DEF NotYetServed, IsNew
  <2>12. SendingConnected'
    BY DEF SendingConnected
  <2> QED BY <2>1, <2>2, <2>3, <2>4, <2>5, <2>6, <2>7, <2>8, <2>9, <2>10,
     <2>11, <2>12
<1>14. CASE OnHostConnectionEstablished
  <2> USE <1>14 DEF Inv, OnHostConnectionEstablished
  <2>1. TypeOK'
    <3>1. handler \in Hosts
      BY DEF TypeOK, ConnectedToHandler
    <3> QED BY <3>1 DEF TypeOK, LoopStates
  <2>2. MutexHeld'
    BY LifecycleAssumption DEF MutexHeld, TypeOK
  <2>3. SendingConnected'
    BY DEF SendingConnected
  <2>4. ConnectedToHandler'
    BY DEF ConnectedToHandler
  <2>5. OneAtATime'
    BY DEF OneAtATime, NobodyServed, IsNew
  <2>6. ClosedReported'
    BY DEF ClosedReported
  <2>7. NotYetServed'
    BY DEF NotYetServed, IsNew, TypeOK, OneAtATime, HandlerOnSocket,
       NobodyServed, ConnectedToHandler
  <2>8. ActivitiesOfHandler' /\ HandlerOnSocket' /\ EventsOfHandler' /\
        NothingAfterNew'
    BY DEF ActivitiesOfHandler, HandlerOnSocket, EventsOfHandler,
       NothingAfterNew, IsNew, Anonymous
  <2> QED BY <2>1, <2>2, <2>3, <2>4, <2>5, <2>6, <2>7, <2>8
<1>15. CASE EstablishedDone
  <2> USE <1>15 DEF Inv, EstablishedDone
  <2>1. TypeOK'
    BY DEF TypeOK, LoopStates
  <2>2. MutexHeld'
    BY LifecycleAssumption DEF MutexHeld, TypeOK, ConnectedToHandler
  <2>3. ConnectedToHandler'
    BY DEF ConnectedToHandler
  <2>4. OneAtATime'
    BY DEF OneAtATime, NobodyServed, IsNew
  <2>5. ClosedReported'
    BY DEF ClosedReported
  <2>6. NotYetServed'
    BY DEF NotYetServed, IsNew
  <2>7. SendingConnected' /\ ActivitiesOfHandler' /\ HandlerOnSocket' /\
        EventsOfHandler' /\ NothingAfterNew'
    BY DEF SendingConnected, ActivitiesOfHandler, HandlerOnSocket,
       EventsOfHandler, NothingAfterNew, IsNew, Anonymous
  <2> QED BY <2>1, <2>2, <2>3, <2>4, <2>5, <2>6, <2>7
<1>16. CASE OConnectionClosedbyClient
  <2> USE <1>16 DEF Inv, OConnectionClosedbyClient, Dequeue
  <2>1. /\ events' \in Seq(Events)
        /\ 1 \in DOMAIN events /\ Head(events) = events[1]
        /\ \A i \in DOMAIN events' : i + 1 \in DOMAIN events /\ events'[i] = events[i + 1]
        /\ DOMAIN events' \subseteq Nat
    BY TailEvents DEF TypeOK
  <2>2. TypeOK'
    BY <2>1 DEF TypeOK, LoopStates
  <2>3. MutexHeld'
    BY DEF MutexHeld
  <2>4. ConnectedToHandler'
    BY DEF ConnectedToHandler
  <2>5. OneAtATime'
    BY <2>1 DEF OneAtATime, NobodyServed, IsNew
  <2>6. HandlerOnSocket'
    BY <2>1 DEF HandlerOnSocket, IsNew
  <2>7. EventsOfHandler'
    BY <2>1 DEF EventsOfHandler, IsNew, Anonymous
  <2>8. NothingAfterNew'
    BY <2>1 DEF NothingAfterNew, IsNew, Anonymous
  <2>9. ClosedReported'
    <3>1. \A i \in DOMAIN events' : events'[i].kind = "closed" => events'[i].host \in reported
      BY <2>1 DEF ClosedReported
    <3>2. handler # None => handler \in reported
      BY <2>1 DEF EventsOfHandler, ClosedReported, IsNew, Anonymous
    <3> QED BY <3>1, <3>2 DEF ClosedReported
  <2>10. NotYetServed'
    BY <2>1 DEF NotYetServed, IsNew
  <2>11. SendingConnected' /\ ActivitiesOfHandler'
    BY DEF SendingConnected, ActivitiesOfHandler
  <2> QED BY <2>1, <2>2, <2>3, <2>4, <2>5, <2>6, <2>7, <2>8, <2>9, <2>10,
     <2>11
<1>17. CASE OnHostConnectionLost
  <2> USE <1>17 DEF Inv, OnHostConnectionLost
  <2>1. TypeOK'
    BY DEF TypeOK, LoopStates
  <2>2. MutexHeld'
    BY LifecycleAssumption DEF MutexHeld, TypeOK
  <2>3. ConnectedToHandler'
    BY DEF ConnectedToHandler
  <2>4. OneAtATime'
    BY DEF OneAtATime, NobodyServed, IsNew
  <2>5. ClosedReported'
    BY DEF ClosedReported
  <2>6. NotYetServed'
    BY DEF NotYetServed, IsNew
  <2>7. SendingConnected' /\ ActivitiesOfHandler' /\ HandlerOnSocket' /\
        EventsOfHandler' /\ NothingAfterNew'
    BY DEF SendingConnected, ActivitiesOfHandler, HandlerOnSocket,
       EventsOfHandler, NothingAfterNew, IsNew, Anonymous
  <2> QED BY <2>1, <2>2, <2>3, <2>4, <2>5, <2>6, <2>7
<1>18. CASE LostDone
  <2> USE <1>18 DEF Inv, LostDone
  <2>1. TypeOK'
    BY DEF TypeOK, LoopStates
  <2>2. MutexHeld'
    BY LifecycleAssumption DEF MutexHeld, TypeOK, ConnectedToHandler
  <2>3. SendingConnected'
    BY LifecycleAssumption DEF SendingConnected, TypeOK, MutexHeld
  <2>4. ConnectedToHandler'
    BY DEF ConnectedToHandler
  <2>5. OneAtATime'
    BY DEF OneAtATime, NobodyServed, IsNew
  <2>6. ClosedReported'
    BY DEF ClosedReported
  <2>7. NotYetServed'
    BY DEF NotYetServed, IsNew
  <2>8. ActivitiesOfHandler' /\ HandlerOnSocket' /\ EventsOfHandler' /\
        NothingAfterNew'
    BY DEF ActivitiesOfHandler, HandlerOnSocket, EventsOfHandler,
       NothingAfterNew, IsNew, Anonymous
  <2> QED BY <2>1, <2>2, <2>3, <2>4, <2>5, <2>6, <2>7, <2>8
<1>19. CASE StopSender
  <2> USE <1>19 DEF Inv, StopSender, Stopped
  <2>1. TypeOK'
    BY DEF TypeOK, ActivityStates, LoopStates
  <2>2. MutexHeld'
    BY DEF MutexHeld
  <2>3. ConnectedToHandler'
    BY DEF ConnectedToHandler
  <2>4. ActivitiesOfHandler'
    BY DEF ActivitiesOfHandler
  <2>5. OneAtATime'
    BY DEF OneAtATime, NobodyServed, IsNew
  <2>6. ClosedReported'
    BY DEF ClosedReported
  <2>7. NotYetServed'
    BY DEF NotYetServed, IsNew
  <2>8. SendingConnected' /\ HandlerOnSocket' /\ EventsOfHandler' /\
        NothingAfterNew'
    BY DEF SendingConnected, HandlerOnSocket, EventsOfHandler,
       NothingAfterNew, IsNew, Anonymous
  <2> QED BY <2>1, <2>2, <2>3, <2>4, <2>5, <2>6, <2>7, <2>8
<1>20. CASE JoinSender
  <2> USE <1>20 DEF Inv, JoinSender
  <2>1. TypeOK'
    BY DEF TypeOK, LoopStates
  <2>2. MutexHeld'
    BY DEF MutexHeld
  <2>3. ConnectedToHandler'
    BY DEF ConnectedToHandler
  <2>4. OneAtATime'
    BY DEF OneAtATime, NobodyServed, IsNew
  <2>5. ClosedReported'
    BY DEF ClosedReported
  <2>6. NotYetServed'
    BY DEF NotYetServed, IsNew
  <2>7. SendingConnected' /\ ActivitiesOfHandler' /\ HandlerOnSocket' /\
        EventsOfHandler' /\ NothingAfterNew'
    BY DEF SendingConnected, ActivitiesOfHandler, HandlerOnSocket,
       EventsOfHandler, NothingAfterNew, IsNew, Anonymous
  <2> QED BY <2>1, <2>2, <2>3, <2>4, <2>5, <2>6, <2>7
<1>21. CASE StopReceiver
  <2> USE <1>21 DEF Inv, StopReceiver, Stopped
  <2>1. TypeOK'
    BY DEF TypeOK, ActivityStates, LoopStates
  <2>2. MutexHeld'
    BY DEF MutexHeld
  <2>3. ConnectedToHandler'
    BY DEF ConnectedToHandler
  <2>4. ActivitiesOfHandler'
    BY DEF ActivitiesOfHandler
  <2>5. OneAtATime'
    BY DEF OneAtATime, NobodyServed, IsNew
  <2>6. ClosedReported'
    BY DEF ClosedReported
  <2>7. NotYetServed'
    BY DEF NotYetServed, IsNew
  <2>8. SendingConnected' /\ HandlerOnSocket' /\ EventsOfHandler' /\
        NothingAfterNew'
    BY DEF SendingConnected, HandlerOnSocket, EventsOfHandler,
       NothingAfterNew, IsNew, Anonymous
  <2> QED BY <2>1, <2>2, <2>3, <2>4, <2>5, <2>6, <2>7, <2>8
<1>22. CASE JoinReceiver
  <2> USE <1>22 DEF Inv, JoinReceiver
  <2>1. TypeOK'
    BY DEF TypeOK, LoopStates
  <2>2. MutexHeld'
    BY DEF MutexHeld
  <2>3. ConnectedToHandler'
    BY DEF ConnectedToHandler
  <2>4. OneAtATime'
    BY DEF OneAtATime, NobodyServed, IsNew
  <2>5. ClosedReported'
    BY DEF ClosedReported
  <2>6. NotYetServed'
    BY DEF NotYetServed, IsNew
  <2>7. SendingConnected' /\ ActivitiesOfHandler' /\ HandlerOnSocket' /\
        EventsOfHandler' /\ NothingAfterNew'
    BY DEF SendingConnected, ActivitiesOfHandler, HandlerOnSocket,
       EventsOfHandler, NothingAfterNew, IsNew, Anonymous
  <2> QED BY <2>1, <2>2, <2>3, <2>4, <2>5, <2>6, <2>7
<1>23. CASE DeleteHandler
  <2> USE <1>23 DEF Inv, DeleteHandler
  <2>1. TypeOK'
    BY DEF TypeOK, ActivityStates, LoopStates
  <2>2. MutexHeld'
    BY DEF MutexHeld
  <2>3. ConnectedToHandler'
    BY DEF ConnectedToHandler
  <2>4. ActivitiesOfHandler'
    BY DEF ActivitiesOfHandler
  <2>5. OneAtATime'
    BY DEF OneAtATime, NobodyServed, IsNew
  <2>6. HandlerOnSocket'
    BY DEF HandlerOnSocket, IsNew
  <2>7. EventsOfHandler'
    BY DEF EventsOfHandler, IsNew, Anonymous
  <2>8. ClosedReported'
    BY DEF ClosedReported
  <2>9. NotYetServed'
    BY DEF NotYetServed, IsNew
  <2>10. SendingConnected' /\ NothingAfterNew'
    BY DEF SendingConnected, NothingAfterNew, IsNew, Anonymous
  <2> QED BY <2>1, <2>2, <2>3, <2>4, <2>5, <2>6, <2>7, <2>8, <2>9, <2>10
<1>24. CASE SignalNextServerRun
  <2> USE <1>24 DEF Inv, SignalNextServerRun
  <2>1. TypeOK'
    BY DEF TypeOK, LoopStates
  <2>2. MutexHeld'
    BY DEF MutexHeld
  <2>3. ConnectedToHandler'
    BY DEF ConnectedToHandler
  <2>4. OneAtATime'
    BY DEF OneAtATime, NobodyServed, IsNew, TypeOK, ConnectedToHandler
  <2>5. ClosedReported'
    BY DEF ClosedReported
  <2>6. NotYetServed'
    BY DEF NotYetServed, IsNew
  <2>7. SendingConnected' /\ ActivitiesOfHandler' /\ HandlerOnSocket' /\
        EventsOfHandler' /\ NothingAfterNew'
    BY DEF SendingConnected, ActivitiesOfHandler, HandlerOnSocket,
       EventsOfHandler, NothingAfterNew, IsNew, Anonymous
  <2> QED BY <2>1, <2>2, <2>3, <2>4, <2>5, <2>6, <2>7
<1>25. CASE SendHeartbeatResponse
  <2> USE <1>25 DEF Inv, SendHeartbeatResponse, Dequeue
  <2>1. /\ events' \in Seq(Events)
        /\ 1 \in DOMAIN events /\ Head(events) = events[1]
        /\ \A i \in DOMAIN events' : i + 1 \in DOMAIN events /\ events'[i] = events[i + 1]
        /\ DOMAIN events' \subseteq Nat
    BY TailEvents DEF TypeOK
  <2>2. TypeOK'
    BY <2>1 DEF TypeOK
  <2>3. OneAtATime'
    BY <2>1 DEF OneAtATime, NobodyServed, IsNew
  <2>4. HandlerOnSocket'
    BY <2>1 DEF HandlerOnSocket, IsNew
  <2>5. EventsOfHandler'
    BY <2>1 DEF EventsOfHandler, IsNew, Anonymous
  <2>6. NothingAfterNew'
    BY <2>1 DEF NothingAfterNew, IsNew, Anonymous
  <2>7. ClosedReported'
    BY <2>1 DEF ClosedReported
  <2>8. NotYetServed'
    BY <2>1 DEF NotYetServed, IsNew
  <2>9. MutexHeld' /\ SendingConnected' /\ ConnectedToHandler' /\
        ActivitiesOfHandler'
    BY DEF MutexHeld, SendingConnected, ConnectedToHandler,
       ActivitiesOfHandler
  <2> QED BY <2>1, <2>2, <2>3, <2>4, <2>5, <2>6, <2>7, <2>8, <2>9
<1>26. ASSUME NEW p \in Plugins, PluginSendMessage(p) PROVE Inv'
  <2> USE <1>26 DEF Inv, PluginSendMessage
  <2>1. TypeOK'
    BY DEF TypeOK, PluginStates
  <2>2. MutexHeld'
    <3>1. owner' = p /\ p # "loop"
      BY LifecycleAssumption
    <3>2. plugin'[p] # "out"
      BY DEF TypeOK
    <3>3. ASSUME NEW q \in Plugins, q # p
          PROVE  plugin'[q] = "out"
      BY <3>3, LifecycleAssumption DEF MutexHeld, TypeOK
    <3> QED BY <3>1, <3>2, <3>3, LifecycleAssumption DEF MutexHeld
  <2>3. SendingConnected'
    BY DEF SendingConnected
  <2>4. ConnectedToHandler' /\ ActivitiesOfHandler' /\ OneAtATime' /\
        HandlerOnSocket' /\ EventsOfHandler' /\ NothingAfterNew' /\
        ClosedReported' /\ NotYetServed'
    BY DEF ConnectedToHandler, ActivitiesOfHandler, OneAtATime,
       HandlerOnSocket, EventsOfHandler, NothingAfterNew, ClosedReported,
       NotYetServed, IsNew, Anonymous, NobodyServed
  <2> QED BY <2>1, <2>2, <2>3, <2>4
<1>27. ASSUME NEW p \in Plugins, PluginDone(p) PROVE Inv'
  <2> USE <1>27 DEF Inv, PluginDone
  <2>1. TypeOK'
    BY DEF TypeOK, PluginStates
  <2>2. MutexHeld'
    <3>1. owner = p /\ p # "loop"
      BY LifecycleAssumption DEF MutexHeld
    <3>2. \A q \in Plugins : plugin'[q] = "out"
      BY <3>1 DEF MutexHeld, TypeOK
    <3> QED BY <3>1, <3>2, LifecycleAssumption DEF MutexHeld
  <2>3. SendingConnected'
    BY DEF SendingConnected
  <2>4. ConnectedToHandler' /\ ActivitiesOfHandler' /\ OneAtATime' /\
        HandlerOnSocket' /\ EventsOfHandler' /\ NothingAfterNew' /\
        ClosedReported' /\ NotYetServed'
    BY DEF ConnectedToHandler, ActivitiesOfHandler, OneAtATime,
       HandlerOnSocket, EventsOfHandler, NothingAfterNew, ClosedReported,
       NotYetServed, IsNew, Anonymous, NobodyServed
  <2> QED BY <2>1, <2>2, <2>3, <2>4
<1>28. CASE UNCHANGED vars
    BY <1>28 DEF vars, Inv, TypeOK, MutexHeld, SendingConnected,
       ConnectedToHandler, ActivitiesOfHandler, OneAtATime, HandlerOnSocket,
       EventsOfHandler, NothingAfterNew, ClosedReported, NotYetServed, IsNew,
       Anonymous, NobodyServed
<1> QED
    BY <1>1, <1>2, <1>3, <1>4, <1>5, <1>6, <1>7, <1>8, <1>9, <1>10, <1>11,
       <1>12, <1>13, <1>14, <1>15, <1>16, <1>17, <1>18, <1>19, <1>20, <1>21,
       <1>22, <1>23, <1>24, <1>25, <1>26, <1>27, <1>28
    DEF Next, Step, ServerStep, LoopStep

-----------------------------------------------------------------------------
(* The theorems.                                                           *)

(* The inductive invariant holds in every behaviour.                       *)
LEMMA SpecInv == Spec => []Inv
BY InitInv, NextInv, PTL DEF Spec

(* Every variable keeps its type.                                          *)
THEOREM TypeCorrect == Spec => []TypeOK
<1>1. Inv => TypeOK
    BY DEF Inv
<1> QED BY <1>1, SpecInv, PTL

(* No plugin thread is inside CCommMsgDispatcher::sendMessage when the     *)
(* event loop stops, joins and deletes the dispatcher.                     *)
THEOREM NoSendIntoDeleted == Spec => []NoSendIntoClosing
<1>1. Inv => NoSendIntoClosing
    BY DEF Inv, NoSendIntoClosing, SendingConnected, ConnectedToHandler, TearingDown
<1> QED BY <1>1, SpecInv, PTL

(* onClientConnected never overwrites a dispatcher.                        *)
THEOREM HandlerNeverOverwritten == Spec => []NewFindsNoHandler
<1>1. Inv => NewFindsNoHandler
  <2> SUFFICES ASSUME Inv, events # <<>>, Head(events).kind = "new"
               PROVE  handler = None
      BY DEF NewFindsNoHandler
  <2>1. 1 \in DOMAIN events /\ Head(events) = events[1]
      BY TailEvents DEF Inv, TypeOK
  <2> QED BY <2>1 DEF Inv, OneAtATime, IsNew
<1> QED BY <1>1, SpecInv, PTL

(* The server's mSocket is assigned only while no dispatcher uses it, or   *)
(* is about to: the handshake over eventQueue and the predicate serialises *)
(* the connections, wherever the lost signal leaves the server.            *)
THEOREM SocketStable == Spec => []SocketNotReplacedInUse
<1>1. Inv => SocketNotReplacedInUse
    BY DEF Inv, OneAtATime, NobodyServed, IsNew, SocketNotReplacedInUse
<1> QED BY <1>1, SpecInv, PTL

(* A CLOSED notification, which names no connection, never ends another    *)
(* connection than the one it was about, however late it is handled.       *)
THEOREM ClosedIsOwn == Spec => []ClosedEndsOwnConnection
<1>1. Inv => ClosedEndsOwnConnection
  <2> SUFFICES ASSUME Inv, events # <<>>, Head(events).kind = "closed", handler # None
               PROVE  handler = Head(events).host
      BY DEF ClosedEndsOwnConnection
  <2>1. 1 \in DOMAIN events /\ Head(events) = events[1]
      BY TailEvents DEF Inv, TypeOK
  <2> QED BY <2>1 DEF Inv, EventsOfHandler, IsNew, Anonymous
<1> QED BY <1>1, SpecInv, PTL

(* Nor is the answer to a heartbeat ever sent to a later host.             *)
THEOREM HeartbeatIsOwn == Spec => []HeartbeatAnsweredToAsker
<1>1. Inv => HeartbeatAnsweredToAsker
  <2> SUFFICES ASSUME Inv, events # <<>>, Head(events).kind = "heartbeat",
                      Head(events).host # None, handler # None
               PROVE  handler = Head(events).host
      BY DEF HeartbeatAnsweredToAsker
  <2>1. 1 \in DOMAIN events /\ Head(events) = events[1]
      BY TailEvents DEF Inv, TypeOK
  <2> QED BY <2>1 DEF Inv, EventsOfHandler, IsNew, Anonymous
<1> QED BY <1>1, SpecInv, PTL

(* The server, the event loop, the dispatcher and the proxy implement the  *)
(* sessions of HostSessions: one at a time, each connection served once,   *)
(* each ended only after it was found broken.                              *)
THEOREM SessionsImplemented == Spec => HS!HSSafe
<1>1. Init => HS!HSInit
    BY DEF Init, HS!HSInit
<1>2. Inv /\ [Next]_vars => [HS!HSNext]_(HS!hsVars)
  <2> SUFFICES ASSUME Inv, [Next]_vars PROVE [HS!HSNext]_(HS!hsVars)
      OBVIOUS
  <2> USE DEF HS!HSNext, HS!hsVars, netVars, serverVars, handlerVars, proxyVars,
              histVars, ActivityUnchanged, LoopUnchanged, CloseUnchanged,
              PluginUnchanged
  <2>1. CASE SenderGivesUp \/ ReceiverFindsPeerClosed
    <3>1. handler \in Hosts
        BY <2>1 DEF Inv, TypeOK, ActivitiesOfHandler, SenderGivesUp,
           ReceiverFindsPeerClosed, Alive
    <3>2. HS!Break(handler)
        BY <2>1 DEF SenderGivesUp, ReceiverFindsPeerClosed, ReportClosed, HS!Break
    <3> QED BY <3>1, <3>2
  <2>2. CASE OnHostConnectionEstablished
    <3>1. handler \in Hosts /\ handler \notin served
        BY <2>2 DEF Inv, TypeOK, ConnectedToHandler, HandlerOnSocket, NotYetServed,
           OnHostConnectionEstablished
    <3>2. HS!Establish(handler)
        BY <2>2, <3>1 DEF OnHostConnectionEstablished, HS!Establish, Inv,
           ConnectedToHandler
    <3> QED BY <3>1, <3>2
  <2>3. CASE LostDone
    <3>1. handler # None /\ handler \in reported
        BY <2>3 DEF LostDone, Inv, ConnectedToHandler, ClosedReported
    <3>2. CASE connected
        BY <2>3, <3>1, <3>2 DEF LostDone, HS!Lose
    <3>3. CASE ~connected
        BY <2>3, <3>3 DEF LostDone
    <3> QED BY <3>2, <3>3
  <2>4. CASE OnClientConnected
    <3>1. ~connected
      <4>1. 1 \in DOMAIN events /\ Head(events) = events[1]
          BY <2>4, TailEvents DEF OnClientConnected, Dequeue, Inv, TypeOK
      <4> QED
          BY <2>4, <4>1 DEF OnClientConnected, Dequeue, Inv, OneAtATime, IsNew,
             ConnectedToHandler
    <3> QED BY <2>4, <3>1 DEF OnClientConnected
  <2>5. CASE DeleteHandler
      BY <2>5 DEF DeleteHandler, Inv, ConnectedToHandler
  <2>6. ASSUME NEW h \in Hosts, HostConnects(h) \/ HostHangsUp(h)
        PROVE  UNCHANGED HS!hsVars
      BY <2>6 DEF HostConnects, HostHangsUp
  <2>7. CASE ServerStep
      BY <2>7 DEF ServerStep, AcceptConnection, NotifyNewHostConnection,
         WaitForCurrentConnectionExpires, ServerWakes
  <2>8. CASE SenderEnds \/ ReceiverEnds \/ ReceiverForwardsHeartbeat
             \/ CommandPortHeartbeat
      BY <2>8 DEF SenderEnds, ReceiverEnds, ReceiverForwardsHeartbeat,
         CommandPortHeartbeat
  <2>9. CASE EstablishedDone \/ OConnectionClosedbyClient \/ OnHostConnectionLost
      BY <2>9 DEF EstablishedDone, OConnectionClosedbyClient, OnHostConnectionLost
  <2>10. CASE StopSender \/ JoinSender \/ StopReceiver \/ JoinReceiver
      BY <2>10 DEF StopSender, JoinSender, StopReceiver, JoinReceiver
  <2>11. CASE SignalNextServerRun \/ SendHeartbeatResponse
      BY <2>11 DEF SignalNextServerRun, SendHeartbeatResponse
  <2>12. ASSUME NEW p \in Plugins, PluginSendMessage(p) \/ PluginDone(p)
         PROVE  UNCHANGED HS!hsVars
      BY <2>12 DEF PluginSendMessage, PluginDone
  <2>13. CASE UNCHANGED vars
      BY <2>13 DEF vars
  <2> QED
      BY <2>1, <2>2, <2>3, <2>4, <2>5, <2>6, <2>7, <2>8, <2>9, <2>10, <2>11,
         <2>12, <2>13
      DEF Next, Step, LoopStep
<1> QED BY <1>1, <1>2, SpecInv, PTL DEF Spec, HS!HSSafe
=============================================================================
