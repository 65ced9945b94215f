--------------------------- MODULE Runtime_proofs ---------------------------
(***************************************************************************)
(* Proofs about the start and the shutdown of the process, for any set of  *)
(* plugins, hosts and messages: whatever step of run fails, plugins are    *)
(* called only once they are ready, and outlive their manager only if one  *)
(* of them failed to start.                                                *)
(***************************************************************************)
EXTENDS Runtime, TLAPS

-----------------------------------------------------------------------------
(* The inductive invariant, in parts.                                      *)

PluginStates == {"none", "loaded", "configured", "running", "stopped"}

PluginsTyped == plugin \in [Plugins -> PluginStates]

(* Steps of run before anything can call a plugin.                         *)
Starting == {"config", "proxy", "controller", "recorder", "load",
             "setConfig", "startPlugins", "startCom"}

QuietWhileStarting == main \in Starting => loop = "off"

(* What the plugins have been through at each step of run.                 *)
PluginsSoFar ==
    /\ main \in {"config", "proxy", "controller", "recorder", "load"}
          => \A p \in Plugins : plugin[p] = "none"
    /\ main = "setConfig"
          => \A p \in Plugins : plugin[p] \in {"none", "loaded", "configured"}
    /\ main = "startPlugins"
          => \A p \in Plugins : plugin[p] \in {"none", "configured", "running"}
    /\ main = "startCom"
          => \A p \in Plugins : plugin[p] \in {"none", "running"}

(* Once the event loop runs, every plugin that was loaded is or was        *)
(* running.                                                                *)
ReadyWhenLoopRuns ==
    loop # "off" => \A p \in Plugins : plugin[p] \in {"none", "running", "stopped"}

(* run has created the manager before it comes to a plugin.                *)
ManagerFirst ==
    main \in Starting \ {"config", "proxy"} => "proxy" \in parts

(* What runs will be stopped, unless startPlugins was interrupted.         *)
RunningRemembered ==
    /\ main = "startCom" => mIsPluginStarted
    /\ main \in {"wait", "stopRecording", "stopPlugins"}
         => \/ failed = "startPlugins" \/ mIsPluginStarted
            \/ \A p \in Plugins : plugin[p] # "running"

(* stopPlugins comes before the manager is deleted.                        *)
StoppedBeforeDelete ==
    main \in {"stopCom", "close", "stopServer", "joinServer", "delete", "exit"}
      => \/ failed = "startPlugins"
         \/ \A p \in Plugins : plugin[p] # "running"

MainStates == Starting \cup {"wait", "stopRecording", "stopPlugins", "stopCom",
                             "close", "stopServer", "joinServer", "delete",
                             "exit", "ended"}

Inv == /\ main \in MainStates
       /\ PluginsTyped
       /\ QuietWhileStarting
       /\ PluginsSoFar
       /\ ReadyWhenLoopRuns
       /\ ManagerFirst
       /\ RunningRemembered
       /\ StoppedBeforeDelete
       /\ RunningPluginsHaveManager
       /\ PluginsReadyWhenCalled

-----------------------------------------------------------------------------
(* The steps of run follow each other in their order.                      *)
LEMMA StepAfter ==
    ASSUME NEW i \in 1..8
    PROVE  After(RunSteps[i], RunSteps) = RunSteps[i + 1]
<1> DEFINE j == CHOOSE k \in DOMAIN RunSteps : RunSteps[k] = RunSteps[i]
<1>1. DOMAIN RunSteps = 1..9
    BY DEF RunSteps
<1>2. j \in 1..9 /\ RunSteps[j] = RunSteps[i]
    BY <1>1
<1>3. j = i
    BY <1>2 DEF RunSteps
<1> QED BY <1>3 DEF After

LEMMA RunOrder ==
    /\ After("config", RunSteps) = "proxy"
    /\ After("proxy", RunSteps) = "controller"
    /\ After("controller", RunSteps) = "recorder"
    /\ After("recorder", RunSteps) = "load"
    /\ After("load", RunSteps) = "setConfig"
    /\ After("setConfig", RunSteps) = "startPlugins"
    /\ After("startPlugins", RunSteps) = "startCom"
    /\ After("startCom", RunSteps) = "wait"
<1>1. \A i \in 1..8 : After(RunSteps[i], RunSteps) = RunSteps[i + 1]
    BY StepAfter
<1>2. /\ RunSteps[1] = "config" /\ RunSteps[2] = "proxy"
      /\ RunSteps[3] = "controller" /\ RunSteps[4] = "recorder"
      /\ RunSteps[5] = "load" /\ RunSteps[6] = "setConfig"
      /\ RunSteps[7] = "startPlugins" /\ RunSteps[8] = "startCom"
      /\ RunSteps[9] = "wait"
    BY DEF RunSteps
<1> QED BY <1>1, <1>2

-----------------------------------------------------------------------------
LEMMA InitInv == Init => Inv
BY DEF Init, Inv, MainStates, Starting, PluginsTyped, PluginStates,
       QuietWhileStarting, PluginsSoFar, ReadyWhenLoopRuns, ManagerFirst,
       RunningRemembered, StoppedBeforeDelete, RunningPluginsHaveManager,
       PluginsReadyWhenCalled

(* Steps that leave alone what the invariant is about.                     *)
LEMMA Untouched ==
    ASSUME Inv, UNCHANGED <<main, failed, partVars, loop, called>>
    PROVE  Inv'
BY DEF Inv, MainStates, Starting, PluginsTyped, PluginStates,
       QuietWhileStarting, PluginsSoFar, ReadyWhenLoopRuns, ManagerFirst,
       RunningRemembered, StoppedBeforeDelete, RunningPluginsHaveManager,
       PluginsReadyWhenCalled, partVars

(* run: each step that goes on, and each that fails.                       *)
LEMMA RunKeepsInv ==
    ASSUME Inv,
           \/ Configure \/ CreatePart \/ LoadPlugins
           \/ \E p \in Plugins : SetConfig(p) \/ StartPlugin(p)
           \/ AllConfigured \/ AllStarted \/ StartCom \/ Fails \/ Terminate
    PROVE  Inv'
<1> USE DEF Inv, MainStates, Starting, PluginsTyped, PluginStates,
            QuietWhileStarting, PluginsSoFar, ReadyWhenLoopRuns, ManagerFirst,
            RunningRemembered, StoppedBeforeDelete, RunningPluginsHaveManager,
            PluginsReadyWhenCalled, RestOfMain, loopVars, partVars
<1>1. CASE Configure
    BY <1>1, RunOrder DEF Configure, Running
<1>2. CASE CreatePart
    BY <1>2, RunOrder DEF CreatePart, Create, Running
<1>3. CASE LoadPlugins
    BY <1>3, RunOrder DEF LoadPlugins, Running
<1>4. ASSUME NEW p \in Plugins, SetConfig(p) PROVE Inv'
    BY <1>4 DEF SetConfig
<1>5. ASSUME NEW p \in Plugins, StartPlugin(p) PROVE Inv'
    BY <1>5 DEF StartPlugin
<1>6. CASE AllConfigured
    BY <1>6, RunOrder DEF AllConfigured, Running
<1>7. CASE AllStarted
    BY <1>7, RunOrder DEF AllStarted, Running
<1>8. CASE StartCom
    BY <1>8, RunOrder DEF StartCom, Running
<1>9. CASE Fails
    BY <1>9 DEF Fails, MayThrow
<1>10. CASE Terminate
    BY <1>10 DEF Terminate
<1> QED BY <1>1, <1>2, <1>3, <1>4, <1>5, <1>6, <1>7, <1>8, <1>9, <1>10

(* shutdown.                                                               *)
LEMMA ShutdownKeepsInv ==
    ASSUME Inv,
           \/ StopRecording
           \/ \E p \in Plugins : StopPlugin(p)
           \/ PluginsStopped \/ StopCom \/ CloseConnection \/ StopServer
           \/ JoinServer \/ DeletePluginManager \/ Exit
    PROVE  Inv'
<1> USE DEF Inv, MainStates, Starting, PluginsTyped, PluginStates,
            QuietWhileStarting, PluginsSoFar, ReadyWhenLoopRuns, ManagerFirst,
            RunningRemembered, StoppedBeforeDelete, RunningPluginsHaveManager,
            PluginsReadyWhenCalled, RestOfMain, RestOfStop, loopVars, partVars
<1>1. CASE StopRecording
    BY <1>1 DEF StopRecording
<1>2. ASSUME NEW p \in Plugins, StopPlugin(p) PROVE Inv'
    BY <1>2 DEF StopPlugin
<1>3. CASE PluginsStopped
    BY <1>3 DEF PluginsStopped
<1>4. CASE StopCom
    BY <1>4 DEF StopCom
<1>5. CASE CloseConnection
    BY <1>5 DEF CloseConnection
<1>6. CASE StopServer
    BY <1>6 DEF StopServer
<1>7. CASE JoinServer
    BY <1>7 DEF JoinServer
<1>8. CASE DeletePluginManager
    BY <1>8 DEF DeletePluginManager
<1>9. CASE Exit
    BY <1>9 DEF Exit
<1> QED BY <1>1, <1>2, <1>3, <1>4, <1>5, <1>6, <1>7, <1>8, <1>9

(* A callback, made by a running event loop, meets ready plugins only.     *)
LEMMA CallsReady ==
    ASSUME Inv, loop # "off", NEW S \in SUBSET Loaded, Call(S)
    PROVE  called' \subseteq {"running", "stopped"}
<1>1. \A p \in S : plugin[p] \in {"running", "stopped"}
    BY DEF Inv, ReadyWhenLoopRuns, Loaded
<1> QED BY <1>1 DEF Call, Inv, PluginsReadyWhenCalled

(* The event loop.                                                         *)
LEMMA LoopKeepsInv ==
    ASSUME Inv, LoopStep
    PROVE  Inv'
<1>1. loop # "off" /\ loop' # "off"
    BY DEF LoopStep, OnClientConnected, OnMessageReceived,
           OConnectionClosedbyClient, DeleteHandler, SignalNextServerRun,
           Dequeue
<1>2. UNCHANGED <<main, failed, partVars>>
    BY DEF LoopStep, OnClientConnected, OnMessageReceived,
           OConnectionClosedbyClient, DeleteHandler, SignalNextServerRun,
           RestOfLoop
<1>3. called' \subseteq {"running", "stopped"}
    <2>1. CASE OnClientConnected
        BY <1>1, <2>1, CallsReady
           DEF OnClientConnected, Inv, PluginsReadyWhenCalled
    <2>2. CASE OnMessageReceived
        BY <1>1, <2>2, CallsReady DEF OnMessageReceived
    <2>3. CASE OConnectionClosedbyClient
        BY <1>1, <2>3, CallsReady
           DEF OConnectionClosedbyClient, Inv, PluginsReadyWhenCalled
    <2>4. CASE DeleteHandler \/ SignalNextServerRun
        BY <2>4 DEF DeleteHandler, SignalNextServerRun, Inv,
                    PluginsReadyWhenCalled
    <2> QED BY <2>1, <2>2, <2>3, <2>4 DEF LoopStep
<1> QED
    BY <1>1, <1>2, <1>3
       DEF Inv, MainStates, Starting, PluginsTyped, PluginStates,
           QuietWhileStarting, PluginsSoFar, ReadyWhenLoopRuns, ManagerFirst,
           RunningRemembered, StoppedBeforeDelete, RunningPluginsHaveManager,
           PluginsReadyWhenCalled, partVars

LEMMA NextInv == Inv /\ [Next]_vars => Inv'
<1> SUFFICES ASSUME Inv, [Next]_vars PROVE Inv'
    OBVIOUS
<1>1. CASE MainStep \/ Fails \/ Terminate
    BY <1>1, RunKeepsInv, ShutdownKeepsInv DEF MainStep
<1>2. CASE HostConnects \/ ServerStep \/ ServerFails
    BY <1>2, Untouched
       DEF HostConnects, ServerStep, ServerFails, AcceptConnection, NotifyNewHostConnection,
           WaitForCurrentConnectionExpires, ServerWakes, RestOfServer, loopVars
<1>3. CASE ConnectionBreaks \/ HostSends
    BY <1>3, Untouched DEF ConnectionBreaks, HostSends, RestOfDispatcher
<1>4. CASE LoopStep
    BY <1>4, LoopKeepsInv
<1>5. CASE UNCHANGED vars
    BY <1>5, Untouched DEF vars, loopVars, partVars
<1> QED BY <1>1, <1>2, <1>3, <1>4, <1>5 DEF Next

LEMMA InvHolds == Spec => []Inv
BY InitInv, NextInv, PTL DEF Spec

-----------------------------------------------------------------------------
(* No plugin runs without the manager it calls, whichever step of run      *)
(* failed, unless it was startPlugin of another one.                       *)
THEOREM ManagerOutlivesPlugins == Spec => []RunningPluginsHaveManager
<1>1. Inv => RunningPluginsHaveManager
    BY DEF Inv
<1> QED BY <1>1, InvHolds, PTL

(* The event loop calls plugins only after they were configured and        *)
(* started, however early hosts connect.                                   *)
THEOREM CalledWhenReady == Spec => []PluginsReadyWhenCalled
<1>1. Inv => PluginsReadyWhenCalled
    BY DEF Inv
<1> QED BY <1>1, InvHolds, PTL
=============================================================================
