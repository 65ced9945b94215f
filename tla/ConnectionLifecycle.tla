------------------------ MODULE ConnectionLifecycle ------------------------
(***************************************************************************)
(* How a host connection begins and ends: CComServer accepts it,           *)
(* ComController's event loop creates and deletes the CCommMsgDispatcher   *)
(* that serves it, PluginProxy tells the plugins and gates their messages. *)
(* The threads are the server activity, the event loop, the dispatcher's   *)
(* two activities, the reactor of the command port and the plugin threads. *)
(*                                                                         *)
(* The dispatcher is reduced to its life cycle; MessageDispatcher has the  *)
(* rest.  Its closeConnection is three steps here: stop and join the       *)
(* sender, stop and join the receiver, delete.  Each activity may still    *)
(* report the end of the connection until it has ended.                    *)
(*                                                                         *)
(* A call through a NULL messageHandler ends the process: `crashed`.       *)
(* Not here: ComController::stop and the end of the process.               *)
(***************************************************************************)
EXTENDS Naturals, Sequences

CONSTANTS Hosts,         \* one element per connection a host opens
          Plugins,       \* the threads of the plugins
          MaxHeartbeats, \* bound: heartbeat requests sent to the agent
          None

ASSUME LifecycleAssumption ==
    /\ None \notin Hosts \cup Plugins \cup {"loop"}
    /\ "loop" \notin Plugins
    /\ MaxHeartbeats \in Nat

VARIABLES
    backlog,     \* connections waiting to be accepted
    hung,        \* hosts that closed their end
    server,      \* where the server activity is
    socket,      \* CComServer::mSocket
    predicate,   \* connectionPredicate
    events,      \* eventQueue
    handler,     \* messageHandler: the connection it was made for, or None
    sender,      \* the dispatcher's sender activity
    receiver,    \* the dispatcher's receiver activity
    loop,        \* where the event loop is in its handler
    owner,       \* who holds mMsgMutex: a plugin, "loop" or None
    connected,   \* mConnectionEstablished
    plugin,      \* where each plugin thread is in PluginProxy::sendMessage
    heartbeats,  \* heartbeat requests sent so far
    crashed,     \* the agent died
    reported,    \* history: connections a dispatcher reported closed
    served       \* history: connections announced to the plugins

netVars    == <<backlog, hung>>
serverVars == <<server, socket, predicate>>
handlerVars == <<handler, sender, receiver>>
proxyVars  == <<owner, connected, plugin>>
histVars   == <<reported, served>>

vars == <<backlog, hung, server, socket, predicate, events, handler, sender,
          receiver, loop, owner, connected, plugin, heartbeats, crashed,
          reported, served>>

-----------------------------------------------------------------------------
ServerStates == {"accept", "announce", "park", "waiting"}

ActivityStates == {"off", "running", "stopping", "ended"}

LoopStates == {"idle", "establish", "announcing", "lose", "losing",
               "stopSender", "joinSender", "stopReceiver", "joinReceiver",
               "delete", "signal"}

PluginStates == {"out", "inside", "sending"}

Ev(k, h) == [kind |-> k, host |-> h]

(* NEW and CLOSED carry no payload in the code; `host` is a history value. *)
Events == [kind : {"new", "closed", "heartbeat"}, host : Hosts \cup {None}]

Init == /\ backlog = {}
        /\ hung = {}
        /\ server = "accept"
        /\ socket = None
        /\ predicate = FALSE
        /\ events = <<>>
        /\ handler = None
        /\ sender = "off"
        /\ receiver = "off"
        /\ loop = "idle"
        /\ owner = None
        /\ connected = FALSE
        /\ plugin = [p \in Plugins |-> "out"]
        /\ heartbeats = 0
        /\ crashed = FALSE
        /\ reported = {}
        /\ served = {}

-----------------------------------------------------------------------------
(* The hosts.                                                              *)

Known == backlog \cup hung \cup served \cup reported \cup {socket}
           \cup {events[i].host : i \in DOMAIN events}

HostConnects(h) ==
    /\ h \notin Known
    /\ backlog' = backlog \cup {h}
    /\ UNCHANGED <<hung, serverVars, events, handlerVars, loop, proxyVars,
                   heartbeats, crashed, histVars>>

HostHangsUp(h) ==
    /\ h \in Known \ hung
    /\ hung' = hung \cup {h}
    /\ UNCHANGED <<backlog, serverVars, events, handlerVars, loop, proxyVars,
                   heartbeats, crashed, histVars>>

-----------------------------------------------------------------------------
(* CComServer::runComServer.                                               *)

(* acceptConnection and setStreamSocket.                                   *)
AcceptConnection ==
    /\ server = "accept"
    /\ \E h \in backlog : /\ socket' = h
                          /\ backlog' = backlog \ {h}
    /\ server' = "announce"
    /\ UNCHANGED <<hung, predicate, events, handlerVars, loop, proxyVars,
                   heartbeats, crashed, histVars>>

NotifyNewHostConnection ==
    /\ server = "announce"
    /\ events' = Append(events, Ev("new", socket))
    /\ server' = "park"
    /\ UNCHANGED <<netVars, socket, predicate, handlerVars, loop, proxyVars,
                   heartbeats, crashed, histVars>>

(* waitForCurrentConnectionExpires clears the predicate before it waits:   *)
(* a signal that came first is forgotten.                                  *)
WaitForCurrentConnectionExpires ==
    /\ server = "park"
    /\ predicate' = FALSE
    /\ server' = "waiting"
    /\ UNCHANGED <<netVars, socket, events, handlerVars, loop, proxyVars,
                   heartbeats, crashed, histVars>>

(* Faulty variant: a wait that is not repeated until the predicate holds.  *)
ServerWakesSpuriously ==
    /\ server = "waiting"
    /\ server' = "accept"
    /\ UNCHANGED <<netVars, socket, predicate, events, handlerVars, loop,
                   proxyVars, heartbeats, crashed, histVars>>

ServerWakes ==
    /\ server = "waiting"
    /\ predicate
    /\ server' = "accept"
    /\ UNCHANGED <<netVars, socket, predicate, events, handlerVars, loop,
                   proxyVars, heartbeats, crashed, histVars>>

ServerStep == \/ AcceptConnection
              \/ NotifyNewHostConnection
              \/ WaitForCurrentConnectionExpires
              \/ ServerWakes

-----------------------------------------------------------------------------
(* The dispatcher's activities and the command port.                       *)

ActivityUnchanged == UNCHANGED <<netVars, serverVars, handler, loop,
                                 proxyVars, crashed, served>>

Alive == {"running", "stopping"}

(* Report the end of the connection to the event loop.                     *)
ReportClosed == /\ events' = Append(events, Ev("closed", handler))
                /\ reported' = reported \cup {handler}

(* maxRetries writes failed in a row.                                      *)
SenderGivesUp ==
    /\ sender \in Alive
    /\ sender' = "ended"
    /\ ReportClosed
    /\ ActivityUnchanged
    /\ UNCHANGED <<receiver, heartbeats>>

(* The receiver reads the end of the stream.                               *)
ReceiverFindsPeerClosed ==
    /\ receiver \in Alive
    /\ handler \in hung
    /\ receiver' = "ended"
    /\ ReportClosed
    /\ ActivityUnchanged
    /\ UNCHANGED <<sender, heartbeats>>

(* A heartbeat request over the streaming connection.                      *)
ReceiverForwardsHeartbeat ==
    /\ receiver \in Alive
    /\ heartbeats < MaxHeartbeats
    /\ heartbeats' = heartbeats + 1
    /\ events' = Append(events, Ev("heartbeat", handler))
    /\ ActivityUnchanged
    /\ UNCHANGED <<sender, receiver, reported>>

(* CCommanControlServer::dispatchMessage, on the reactor thread, for a     *)
(* heartbeat request on the command port: no streaming host is involved.   *)
CommandPortHeartbeat ==
    /\ heartbeats < MaxHeartbeats
    /\ heartbeats' = heartbeats + 1
    /\ events' = Append(events, Ev("heartbeat", None))
    /\ ActivityUnchanged
    /\ UNCHANGED <<sender, receiver, reported>>

SenderEnds ==
    /\ sender = "stopping"
    /\ sender' = "ended"
    /\ ActivityUnchanged
    /\ UNCHANGED <<events, receiver, heartbeats, reported>>

ReceiverEnds ==
    /\ receiver = "stopping"
    /\ receiver' = "ended"
    /\ ActivityUnchanged
    /\ UNCHANGED <<events, sender, heartbeats, reported>>

-----------------------------------------------------------------------------
(* ComController::runEventLoop.                                            *)

LoopUnchanged == UNCHANGED <<netVars, server, socket, plugin, heartbeats,
                             reported>>

Dequeue(kind) == /\ loop = "idle"
                 /\ events # <<>>
                 /\ Head(events).kind = kind
                 /\ events' = Tail(events)

(* onClientConnected: the dispatcher is built on the current stream socket *)
(* and its activities start; the calibration message is sent.              *)
OnClientConnected ==
    /\ Dequeue("new")
    /\ handler' = socket
    /\ sender' = "running"
    /\ receiver' = "running"
    /\ loop' = "establish"
    /\ LoopUnchanged
    /\ UNCHANGED <<predicate, owner, connected, crashed, served>>

(* PluginProxy::onHostConnectionEstablished, up to its callbacks.          *)
OnHostConnectionEstablished ==
    /\ loop = "establish"
    /\ owner = None
    /\ owner' = "loop"
    /\ connected' = TRUE
    /\ served' = served \cup {handler}
    /\ loop' = "announcing"
    /\ LoopUnchanged
    /\ UNCHANGED <<predicate, events, handlerVars, crashed>>

(* The buffered data and the callbacks are through, the mutex is released. *)
EstablishedDone ==
    /\ loop = "announcing"
    /\ owner' = None
    /\ loop' = "idle"
    /\ LoopUnchanged
    /\ UNCHANGED <<predicate, events, handlerVars, connected, crashed, served>>

(* oConnectionClosedbyClient without a handler does nothing.               *)
OConnectionClosedbyClient ==
    /\ Dequeue("closed")
    /\ loop' = IF handler = None THEN "idle" ELSE "lose"
    /\ LoopUnchanged
    /\ UNCHANGED <<predicate, handlerVars, owner, connected, crashed, served>>

(* PluginProxy::onHostConnectionLost takes the mutex for its callbacks.    *)
OnHostConnectionLost ==
    /\ loop = "lose"
    /\ owner = None
    /\ owner' = "loop"
    /\ loop' = "losing"
    /\ LoopUnchanged
    /\ UNCHANGED <<predicate, events, handlerVars, connected, crashed, served>>

(* Faulty variant: mConnectionEstablished stays set.                       *)
LostDoneStillConnected ==
    /\ loop = "losing"
    /\ owner' = None
    /\ loop' = "stopSender"
    /\ LoopUnchanged
    /\ UNCHANGED <<predicate, events, handlerVars, connected, crashed, served>>

(* mConnectionEstablished = false; mMsgMutex.unlock()                      *)
LostDone ==
    /\ loop = "losing"
    /\ connected' = FALSE
    /\ owner' = None
    /\ loop' = "stopSender"
    /\ LoopUnchanged
    /\ UNCHANGED <<predicate, events, handlerVars, crashed, served>>

(* Faulty variant: the stop request is not made.                           *)
NotStopped(activity) == activity

Stopped(activity) == IF activity = "running" THEN "stopping" ELSE activity

CloseUnchanged == UNCHANGED <<predicate, events, handler, owner, connected,
                              crashed, served>>

(* Faulty variant: the server is signalled before the activities ended.    *)
StopSenderSignalsFirst ==
    /\ loop = "stopSender"
    /\ sender' = Stopped(sender)
    /\ predicate' = TRUE
    /\ loop' = "joinSender"
    /\ LoopUnchanged
    /\ UNCHANGED <<events, handler, receiver, owner, connected, crashed, served>>

(* closeConnection: stop and join one activity, then the other.            *)
StopSender == /\ loop = "stopSender"
              /\ sender' = Stopped(sender)
              /\ loop' = "joinSender"
              /\ LoopUnchanged /\ CloseUnchanged
              /\ UNCHANGED receiver

JoinSender == /\ loop = "joinSender"
              /\ sender = "ended"
              /\ loop' = "stopReceiver"
              /\ LoopUnchanged /\ CloseUnchanged
              /\ UNCHANGED <<sender, receiver>>

StopReceiver == /\ loop = "stopReceiver"
                /\ receiver' = Stopped(receiver)
                /\ loop' = "joinReceiver"
                /\ LoopUnchanged /\ CloseUnchanged
                /\ UNCHANGED sender

JoinReceiver == /\ loop = "joinReceiver"
                /\ receiver = "ended"
                /\ loop' = "delete"
                /\ LoopUnchanged /\ CloseUnchanged
                /\ UNCHANGED <<sender, receiver>>

(* delete messageHandler; messageHandler = NULL                            *)
DeleteHandler ==
    /\ loop = "delete"
    /\ handler' = None
    /\ sender' = "off"
    /\ receiver' = "off"
    /\ loop' = "signal"
    /\ LoopUnchanged
    /\ UNCHANGED <<predicate, events, owner, connected, crashed, served>>

SignalNextServerRun ==
    /\ loop = "signal"
    /\ predicate' = TRUE
    /\ loop' = "idle"
    /\ LoopUnchanged
    /\ UNCHANGED <<events, handlerVars, owner, connected, crashed, served>>

(* onMessageReceived for a heartbeat request: the reply goes through       *)
(* messageHandler, which nothing checks.                                   *)
SendHeartbeatResponse ==
    /\ Dequeue("heartbeat")
    /\ crashed' = (handler = None)
    /\ LoopUnchanged
    /\ UNCHANGED <<predicate, handlerVars, loop, owner, connected, served>>

LoopStep == \/ OnClientConnected \/ EstablishedDone
            \/ OConnectionClosedbyClient \/ LostDone
            \/ StopSender \/ JoinSender \/ StopReceiver \/ JoinReceiver
            \/ DeleteHandler \/ SignalNextServerRun
            \/ SendHeartbeatResponse

-----------------------------------------------------------------------------
(* PluginProxy::sendMessage.                                               *)

PluginUnchanged == UNCHANGED <<netVars, serverVars, events, handlerVars, loop,
                               connected, heartbeats, crashed, histVars>>

(* Under mMsgMutex: record, and pass on to the handler if connected.       *)
PluginSendMessage(p) ==
    /\ plugin[p] = "out"
    /\ owner = None
    /\ owner' = p
    /\ plugin' = [plugin EXCEPT ![p] = IF connected THEN "sending" ELSE "inside"]
    /\ PluginUnchanged

PluginDone(p) ==
    /\ plugin[p] # "out"
    /\ plugin' = [plugin EXCEPT ![p] = "out"]
    /\ owner' = None
    /\ PluginUnchanged

-----------------------------------------------------------------------------
Step == \/ \E h \in Hosts : HostConnects(h) \/ HostHangsUp(h)
        \/ ServerStep
        \/ SenderGivesUp \/ SenderEnds
        \/ ReceiverFindsPeerClosed \/ ReceiverForwardsHeartbeat \/ ReceiverEnds
        \/ CommandPortHeartbeat
        \/ LoopStep
        \/ OnHostConnectionEstablished \/ OnHostConnectionLost
        \/ \E p \in Plugins : PluginSendMessage(p) \/ PluginDone(p)

Next == ~crashed /\ Step

Spec == Init /\ [][Next]_vars

(* Threads that can run do, and the event loop gets mMsgMutex in the end   *)
(* although plugins keep taking it.  Hosts, and writes that fail, are free *)
(* to do nothing; a stopped activity ends and a hang-up is noticed.        *)
Run(A) == ~crashed /\ A

FairSpec == /\ Spec
            /\ WF_vars(Run(ServerStep))
            /\ WF_vars(Run(LoopStep))
            /\ SF_vars(Run(OnHostConnectionEstablished))
            /\ SF_vars(Run(OnHostConnectionLost))
            /\ WF_vars(Run(SenderEnds))
            /\ WF_vars(Run(ReceiverEnds))
            /\ WF_vars(Run(ReceiverFindsPeerClosed))
            /\ \A p \in Plugins : WF_vars(Run(PluginDone(p)))

-----------------------------------------------------------------------------
(* Properties.                                                             *)

(* Every variable stays within its type.                                   *)
TypeOK == /\ backlog \subseteq Hosts
          /\ hung \subseteq Hosts
          /\ server \in ServerStates
          /\ socket \in Hosts \cup {None}
          /\ predicate \in BOOLEAN
          /\ events \in Seq(Events)
          /\ handler \in Hosts \cup {None}
          /\ sender \in ActivityStates
          /\ receiver \in ActivityStates
          /\ loop \in LoopStates
          /\ owner \in Plugins \cup {"loop", None}
          /\ connected \in BOOLEAN
          /\ plugin \in [Plugins -> PluginStates]
          /\ heartbeats \in 0..MaxHeartbeats
          /\ crashed \in BOOLEAN
          /\ reported \subseteq Hosts
          /\ served \subseteq Hosts

(* Where the handler is being torn down, or gone.                          *)
TearingDown == {"stopSender", "joinSender", "stopReceiver", "joinReceiver",
                "delete", "signal"}

(* No plugin thread is inside the dispatcher while closeConnection runs or *)
(* after it is deleted: mMsgMutex and mConnectionEstablished keep it out,  *)
(* although messageHandler itself is read without any lock.                *)
NoSendIntoClosing ==
    \A p \in Plugins :
        plugin[p] = "sending" => handler # None /\ loop \notin TearingDown

(* onClientConnected never overwrites a live dispatcher, whose threads     *)
(* would run on unowned.                                                   *)
NewFindsNoHandler ==
    loop = "idle" /\ events # <<>> /\ Head(events).kind = "new" => handler = None

(* The server assigns mSocket, which every dispatcher uses by address,     *)
(* only while no dispatcher exists and none is about to be created.        *)
SocketNotReplacedInUse ==
    server = "accept"
        => /\ handler = None
           /\ \A i \in DOMAIN events : events[i].kind # "new"

(* The notifications carry no connection: a late CLOSED is harmless only   *)
(* if it is handled before the next connection's NEW.                      *)
ClosedEndsOwnConnection ==
    loop = "idle" /\ events # <<>> /\ Head(events).kind = "closed"
        => handler \in {None, Head(events).host}

(* A heartbeat over the stream is never answered to a later host.          *)
HeartbeatAnsweredToAsker ==
    loop = "idle" /\ events # <<>> /\ Head(events).kind = "heartbeat"
        => Head(events).host = None \/ handler \in {None, Head(events).host}

(* A connection reported closed is torn down.                              *)
ReportedIsClosed ==
    \A h \in Hosts : h \in reported /\ handler = h ~> handler # h

(* A host that asks for a connection while none is served is accepted.     *)
ClientIsServed ==
    \A h \in Hosts : h \in backlog /\ handler = None
                        ~> h \notin backlog \/ handler # None \/ crashed

(* The plugins see well-formed sessions.                                   *)
HS == INSTANCE HostSessions
        WITH session <- IF connected THEN handler ELSE None,
             broken <- reported

ImplementsSessions == HS!HSSpec
=============================================================================
