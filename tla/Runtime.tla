------------------------------ MODULE Runtime ------------------------------
(***************************************************************************)
(* The life of the process: CTargetAgentRuntime::run builds the parts and  *)
(* starts them, most of its steps may fail, main then waits for a          *)
(* termination request all the same, and shutdown takes the parts down     *)
(* while the event loop, which nobody stops, goes on delivering to the     *)
(* plugins.  Memory and threads are taken to be there when asked for.      *)
(*                                                                         *)
(* ConnectionLifecycle has the threads of a connection in detail, here the *)
(* two activities of a dispatcher are a count.  The use of something that  *)
(* was deleted is undefined: `undefined` says of what, and the process may *)
(* do anything from there on.                                              *)
(***************************************************************************)
EXTENDS Naturals, Sequences, FiniteSets, Functions

CONSTANTS Plugins,
          MaxHosts,     \* bound: connections hosts open
          MaxMessages,  \* bound: messages for plugins
          None

ASSUME RuntimeAssumption == /\ IsFiniteSet(Plugins)
                            /\ MaxHosts \in Nat
                            /\ MaxMessages \in Nat

VARIABLES
    main,         \* the step of main
    failed,       \* the step of run that threw, or None
    isRecorderOn,
    buffering,    \* the recorder has its stream open
    parts,        \* what run has created and shutdown has not deleted
    plugin,       \* what was done to each plugin
    mIsPluginStarted,
    hosts,        \* connections opened so far
    messages,     \* messages sent so far
    backlog,      \* connections waiting to be accepted
    server, predicate, serverStop,
    events,
    handler,      \* messageHandler: "null", "live", "deleted"
    activities,   \* of the dispatcher: how many run
    loop,         \* the event loop; "dead" after an exception of the
                  \* recorder, with mMsgMutex held
    dropped,      \* history: the event loop closed a connection meanwhile
    missed,       \* history: the server's wakeup came before its wait
    called,       \* history: what plugins had been through when called
    undefined

partVars   == <<isRecorderOn, parts, plugin, mIsPluginStarted>>
netVars    == <<hosts, messages, backlog>>
serverVars == <<server, predicate, serverStop>>
loopVars   == <<handler, activities, loop, called, undefined>>

vars == <<main, failed, buffering, partVars, netVars, serverVars, events,
          loopVars, dropped, missed>>

-----------------------------------------------------------------------------
(* Faulty variant: connections are accepted before plugins are started.    *)
StartsEarly == <<"config", "proxy", "controller", "recorder", "load",
                 "setConfig", "startCom", "startPlugins", "wait">>

(* The steps of run, in their order.                                        *)
RunSteps == <<"config", "proxy", "controller", "recorder", "load",
              "setConfig", "startPlugins", "startCom", "wait">>

After(step, steps) ==
    steps[(CHOOSE i \in DOMAIN steps : steps[i] = step) + 1]

Running(step) == main = step /\ main' = After(step, RunSteps)

Init == /\ main = "config"
        /\ failed = None
        /\ isRecorderOn \in BOOLEAN
        /\ buffering = FALSE
        /\ parts = {}
        /\ plugin = [p \in Plugins |-> "none"]
        /\ mIsPluginStarted = FALSE
        /\ hosts = 0
        /\ messages = 0
        /\ backlog = 0
        /\ server = "off"
        /\ predicate = FALSE
        /\ serverStop = FALSE
        /\ events = <<>>
        /\ handler = "null"
        /\ activities = 0
        /\ loop = "off"
        /\ dropped = FALSE
        /\ missed = FALSE
        /\ called = {}
        /\ undefined = None

-----------------------------------------------------------------------------
(* CTargetAgentRuntime::run.                                               *)

RestOfMain == UNCHANGED <<netVars, serverVars, events, loopVars, dropped,
                          missed>>

(* The steps that may throw: the configuration is missing or wrong, the    *)
(* command port, which the constructor of ComController binds, is taken,   *)
(* the recorder cannot open its first file, a plugin throws when it is     *)
(* made, configured or started.  The constructor of PluginProxy and        *)
(* ComController::start do not: the server binds its port in its thread.   *)
MayThrow == {"config", "controller", "recorder", "load", "setConfig",
             "startPlugins"}

(* A Poco::Exception ends run, and main goes on to wait; any other, like   *)
(* that of the recorder's stream, leaves main.  The plugins loaded before  *)
(* the one that throws stay.                                               *)
Fails ==
    /\ main \in MayThrow
    /\ failed' = main
    /\ main' \in {"wait", "ended"}
    /\ plugin' \in IF main = "load" THEN [Plugins -> {"none", "loaded"}] ELSE {plugin}
    /\ UNCHANGED <<buffering, isRecorderOn, parts, mIsPluginStarted>>
    /\ RestOfMain

Configure == /\ Running("config")
             /\ UNCHANGED <<failed, buffering, partVars>>
             /\ RestOfMain

Create(part) == /\ Running(part)
                /\ parts' = parts \cup {part}
                /\ UNCHANGED <<failed, isRecorderOn, plugin, mIsPluginStarted>>
                /\ RestOfMain

CreatePart ==
    \/ /\ Create("proxy") \/ Create("controller")
       /\ UNCHANGED buffering
    \/ /\ Create("recorder")
       /\ buffering' = TRUE

(* A library that does not load, or makes no plugin, is left out.          *)
LoadPlugins ==
    /\ Running("load")
    /\ plugin' \in [Plugins -> {"none", "loaded"}]
    /\ UNCHANGED <<failed, buffering, isRecorderOn, parts, mIsPluginStarted>>
    /\ RestOfMain

(* setPluginsConfig and startPlugins visit the plugins one by one.         *)
SetConfig(p) ==
    /\ main = "setConfig"
    /\ plugin[p] = "loaded"
    /\ plugin' = [plugin EXCEPT ![p] = "configured"]
    /\ UNCHANGED <<main, failed, buffering, isRecorderOn, parts,
                   mIsPluginStarted>>
    /\ RestOfMain

AllConfigured ==
    /\ Running("setConfig")
    /\ \A p \in Plugins : plugin[p] # "loaded"
    /\ UNCHANGED <<failed, buffering, partVars>>
    /\ RestOfMain

StartPlugin(p) ==
    /\ main = "startPlugins"
    /\ plugin[p] = "configured"
    /\ plugin' = [plugin EXCEPT ![p] = "running"]
    /\ UNCHANGED <<main, failed, buffering, isRecorderOn, parts,
                   mIsPluginStarted>>
    /\ RestOfMain

(* Faulty variant: that the plugins run is not remembered.                 *)
AllStartedUnmarked ==
    /\ Running("startPlugins")
    /\ \A p \in Plugins : plugin[p] # "configured"
    /\ UNCHANGED <<failed, buffering, partVars>>
    /\ RestOfMain

AllStarted ==
    /\ Running("startPlugins")
    /\ \A p \in Plugins : plugin[p] # "configured"
    /\ mIsPluginStarted' = TRUE
    /\ UNCHANGED <<failed, buffering, isRecorderOn, parts, plugin>>
    /\ RestOfMain

(* ComController::start runs the event loop, the server and the reactor.   *)
StartCom ==
    /\ Running("startCom")
    /\ loop' = "idle"
    /\ server' = "accept"
    /\ UNCHANGED <<failed, buffering, partVars, netVars, predicate, serverStop, events,
                   handler, activities, called, undefined, dropped, missed>>

-----------------------------------------------------------------------------
(* CTargetAgentRuntime::shutdown.                                          *)

Terminate == /\ main = "wait"
             /\ main' = "stopRecording"
             /\ UNCHANGED <<failed, buffering, partVars>>
             /\ RestOfMain

(* Without a recorder, or with its stream closed, an exception leaves main.*)
StopRecording ==
    /\ main = "stopRecording"
    /\ main' = IF "recorder" \in parts /\ buffering
                 THEN "stopPlugins" ELSE "ended"
    /\ buffering' = FALSE
    /\ UNCHANGED <<failed, partVars>>
    /\ RestOfMain

(* What startPlugins did not complete, stopPlugins does not touch.         *)
StopPlugin(p) ==
    /\ main = "stopPlugins"
    /\ mIsPluginStarted
    /\ plugin[p] = "running"
    /\ plugin' = [plugin EXCEPT ![p] = "stopped"]
    /\ UNCHANGED <<main, failed, buffering, isRecorderOn, parts,
                   mIsPluginStarted>>
    /\ RestOfMain

PluginsStopped ==
    /\ main = "stopPlugins"
    /\ \/ ~mIsPluginStarted
       \/ \A p \in Plugins : plugin[p] # "running"
    /\ mIsPluginStarted' = FALSE
    /\ main' = "stopCom"
    /\ UNCHANGED <<failed, buffering, isRecorderOn, parts, plugin>>
    /\ RestOfMain

RestOfStop == UNCHANGED <<failed, buffering, partVars, netVars>>

(* ComController::stop looks at messageHandler without a lock, and without *)
(* a connection stops nothing.                                             *)
StopCom ==
    /\ main = "stopCom"
    /\ main' = IF handler = "null" THEN "delete" ELSE "close"
    /\ UNCHANGED <<serverVars, events, loopVars, dropped, missed>>
    /\ RestOfStop

(* closeConnection joins the activities.                                   *)
CloseConnection ==
    /\ main = "close"
    /\ main' = "stopServer"
    /\ IF handler = "live"
         THEN activities' = 0 /\ UNCHANGED undefined
         ELSE undefined' = "handler" /\ UNCHANGED activities
    /\ UNCHANGED <<serverVars, events, handler, loop, called, dropped, missed>>
    /\ RestOfStop

WakeUpServer == predicate' = TRUE

(* Faulty variant: the server is not woken.                                *)
ServerLeftAsleep ==
    /\ main = "stopServer"
    /\ main' = "joinServer"
    /\ serverStop' = TRUE
    /\ UNCHANGED <<predicate, server, events, loopVars, dropped, missed>>
    /\ RestOfStop

StopServer ==
    /\ main = "stopServer"
    /\ main' = "joinServer"
    /\ serverStop' = TRUE
    /\ WakeUpServer
    /\ missed' = (missed \/ server = "park")
    /\ UNCHANGED <<server, events, loopVars, dropped>>
    /\ RestOfStop

(* ... and the reactor of the command port.                                *)
JoinServer ==
    /\ main = "joinServer"
    /\ server = "ended"
    /\ main' = "delete"
    /\ UNCHANGED <<serverVars, events, loopVars, dropped, missed>>
    /\ RestOfStop

DeletePluginManager ==
    /\ main = "delete"
    /\ parts' = parts \ {"proxy"}
    /\ main' = "exit"
    /\ UNCHANGED <<failed, buffering, isRecorderOn, plugin, mIsPluginStarted>>
    /\ RestOfMain

Exit == /\ main = "exit"
        /\ main' = "ended"
        /\ UNCHANGED <<failed, buffering, partVars>>
        /\ RestOfMain

MainStep == \/ Configure \/ CreatePart \/ LoadPlugins
            \/ \E p \in Plugins : SetConfig(p) \/ StartPlugin(p) \/ StopPlugin(p)
            \/ AllConfigured \/ AllStarted \/ StartCom
            \/ StopRecording \/ PluginsStopped
            \/ StopCom \/ CloseConnection \/ StopServer \/ JoinServer
            \/ DeletePluginManager \/ Exit

-----------------------------------------------------------------------------
(* The hosts, and CComServer::runComServer.                                *)

RestOfServer == UNCHANGED <<main, failed, buffering, partVars, loopVars,
                            dropped, missed>>

HostConnects ==
    /\ hosts < MaxHosts
    /\ hosts' = hosts + 1
    /\ backlog' = backlog + 1
    /\ UNCHANGED <<messages, serverVars, events>>
    /\ RestOfServer

AcceptConnection ==
    /\ server = "accept"
    /\ backlog > 0
    /\ backlog' = backlog - 1
    /\ server' = "announce"
    /\ UNCHANGED <<hosts, messages, predicate, serverStop, events>>
    /\ RestOfServer

NotifyNewHostConnection ==
    /\ server = "announce"
    /\ events' = Append(events, "new")
    /\ server' = "park"
    /\ UNCHANGED <<netVars, predicate, serverStop>>
    /\ RestOfServer

WaitForCurrentConnectionExpires ==
    /\ server = "park"
    /\ predicate' = FALSE
    /\ server' = "waiting"
    /\ UNCHANGED <<netVars, serverStop, events>>
    /\ RestOfServer

ServerWakes ==
    /\ server = "waiting"
    /\ predicate
    /\ server' = IF serverStop THEN "ended" ELSE "accept"
    /\ UNCHANGED <<netVars, predicate, serverStop, events>>
    /\ RestOfServer

(* The port cannot be bound, or accept fails: the exception ends the thread.*)
ServerFails ==
    /\ server = "accept"
    /\ server' = "ended"
    /\ UNCHANGED <<netVars, predicate, serverStop, events>>
    /\ RestOfServer

ServerStep == \/ AcceptConnection \/ NotifyNewHostConnection
              \/ WaitForCurrentConnectionExpires \/ ServerWakes

-----------------------------------------------------------------------------
(* The dispatcher: either activity may report the end of the connection,   *)
(* the receiver forwards what the host sends to a plugin.                  *)

RestOfDispatcher == UNCHANGED <<main, failed, buffering, partVars, hosts,
                                backlog, serverVars, handler, loop, called,
                                undefined, dropped, missed>>

ConnectionBreaks ==
    /\ activities > 0
    /\ activities' = activities - 1
    /\ events' = Append(events, "closed")
    /\ UNCHANGED messages
    /\ RestOfDispatcher

HostSends ==
    /\ activities > 0
    /\ messages < MaxMessages
    /\ messages' = messages + 1
    /\ events' = Append(events, "message")
    /\ UNCHANGED activities
    /\ RestOfDispatcher

-----------------------------------------------------------------------------
(* ComController::runEventLoop.                                            *)

RestOfLoop == UNCHANGED <<main, failed, partVars, netVars, server, serverStop,
                          missed>>

Dequeue(event) == /\ loop = "idle"
                  /\ events # <<>>
                  /\ Head(events) = event
                  /\ events' = Tail(events)

(* A callback to each plugin of a set, through the plugin manager.         *)
Call(plugins) ==
    IF "proxy" \in parts
      THEN /\ called' = called \cup {plugin[p] : p \in plugins}
           /\ UNCHANGED undefined
      ELSE undefined' = "proxy" /\ UNCHANGED called

Loaded == {p \in Plugins : plugin[p] # "none"}

(* onClientConnected.  sendBufferedData closes the recorder's stream; the  *)
(* buffering handler opens it only when the connection is lost.            *)
OnClientConnected ==
    /\ Dequeue("new")
    /\ handler' = "live"
    /\ activities' = 2
    /\ IF buffering \/ "proxy" \notin parts
         THEN Call(Loaded) /\ UNCHANGED loop
         ELSE loop' = "dead" /\ UNCHANGED <<called, undefined>>
    /\ buffering' = (buffering /\ isRecorderOn)
    /\ UNCHANGED <<predicate, dropped>>
    /\ RestOfLoop

OnMessageReceived ==
    /\ Dequeue("message")
    /\ \E p \in SUBSET Loaded : Cardinality(p) <= 1 /\ Call(p)
    /\ UNCHANGED <<buffering, handler, activities, loop, predicate, dropped>>
    /\ RestOfLoop

(* oConnectionClosedbyClient: callbacks, close, delete, wake the server.   *)
OConnectionClosedbyClient ==
    /\ Dequeue("closed")
    /\ IF handler = "null"
         THEN UNCHANGED <<called, undefined, loop, buffering>>
         ELSE /\ Call(Loaded)
              /\ loop' = "closing"
              /\ buffering' = (buffering \/ ~isRecorderOn)
    /\ UNCHANGED <<handler, activities, predicate, dropped>>
    /\ RestOfLoop

DeleteHandler ==
    /\ loop = "closing"
    /\ handler' = "deleted"
    /\ activities' = 0
    /\ undefined' = IF main = "close" THEN "handler" ELSE undefined
    /\ dropped' = (dropped \/ main \notin Range(RunSteps))
    /\ loop' = "deleted"
    /\ UNCHANGED <<buffering, events, called, predicate>>
    /\ RestOfLoop

SignalNextServerRun ==
    /\ loop = "deleted"
    /\ handler' = "null"
    /\ WakeUpServer
    /\ loop' = "idle"
    /\ UNCHANGED <<buffering, events, activities, called, undefined, dropped>>
    /\ RestOfLoop

LoopStep == \/ OnClientConnected \/ OnMessageReceived
            \/ OConnectionClosedbyClient \/ DeleteHandler
            \/ SignalNextServerRun

-----------------------------------------------------------------------------
Next == /\ main # "ended"
        /\ undefined = None
        /\ \/ MainStep \/ Fails \/ Terminate
           \/ HostConnects \/ ServerStep \/ ServerFails
           \/ ConnectionBreaks \/ HostSends
           \/ LoopStep

Alive(A) == main # "ended" /\ undefined = None /\ A

(* Threads run; hosts do what they want, and nobody need ask to terminate. *)
Spec == /\ Init
        /\ [][Next]_vars
        /\ WF_vars(Alive(MainStep))
        /\ WF_vars(Alive(ServerStep))
        /\ WF_vars(Alive(LoopStep))

-----------------------------------------------------------------------------
(* The plugin manager is deleted only when no plugin can call it any more, *)
(* whatever step of run failed - except startPlugin itself: the plugins    *)
(* started before it are never stopped.                                    *)
RunningPluginsHaveManager ==
    (\E p \in Plugins : plugin[p] = "running") /\ failed # "startPlugins"
        => "proxy" \in parts

(* A plugin is called only after it was configured and started, although   *)
(* hosts connect as soon as they can and the calls come from another       *)
(* thread.  (It is also called after it was stopped.)                      *)
PluginsReadyWhenCalled == called \subseteq {"running", "stopped"}

(* shutdown ends, if the event loop closes no connection while it goes on, *)
(* if the connection is not so young that the server does not wait for its *)
(* end yet, and if no host connects to a recorder that was stopped.        *)
ShutdownEnds ==
    main = "stopRecording"
        ~> \/ main = "ended" \/ undefined # None
           \/ missed \/ loop = "dead"
           \/ dropped
=============================================================================
