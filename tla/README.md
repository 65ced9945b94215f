# TLA+ verification of the Solys target agent

The target agent runs on an embedded device. Plugins collect traces there, the
agent frames them and sends them to one host (the tool on a developer's desk),
or records them while no host is connected. This directory holds TLA+ models of
the agent's core, TLC configurations that check them on small instances, and
proofs of the most important results for every instance, checked by TLAPS.

    tlc -workers 2 -config MCMessageDispatcher.cfg MCMessageDispatcher.tla
    tlapm MessageDispatcher_proofs.tla

Paths below are relative to `src/target-agent/modules/` unless they begin with
`src/`. Every definition that models code is listed with its lines in
`PROJECT.json` ("map").

## 1. Inventory

### Components

| Component | Source | State | Operations |
|---|---|---|---|
| Message dispatcher, one per host connection | `communicator/src/CMessageDispatcher.cpp` | `messageQueue`, `messagesAvailable`, the stop flags of two activities, the retry count | `sendMessage` (any thread), the sender and the receiver activity, `closeConnection` |
| Connection server | `communicator/src/CComServer.cpp` | `mSocket`, `connectionPredicate` | accept, announce, wait until the connection has expired, `signalNextServerRun`, `stop` |
| Communication controller | `communicator/src/CComController.cpp` | `eventQueue`, `messageHandler` | the event loop: new connection, lost connection, message from a host, heartbeat; `start`, `stop`, `sendMessage` |
| Plugin proxy | `plugin-provider/src/plugin_provider.cpp` | `mConnectionEstablished`, `mMsgMutex`, the plugins | `sendMessage`, `onHostConnectionEstablished`, `onHostConnectionLost`, routing of requests, start and stop of the plugins |
| Message recorder | `message-recorder/src/*.cpp` | `mFileHandles`, `mFileStream`, `mCrtAmountOfBytes`, `lastPosition` | `recordMessage` with rotation, `sendBufferedData`, `resumeBuffering`, `stopRecording` |
| Command port | `communicator/src/CommandControlServer.cpp` | a buffer, its size, the lengths found so far, for each connection | `onSocketReadable`: cut the stream into requests and enqueue them |
| Runtime and main | `target-agent-runtime/src/CMediator.cpp` | the parts above | `run`, `shutdown` |
| Logger, configuration, timestamps, protocol messages | `logger`, `config-provider`, `plugin-provider` | a socket client; constants; a clock; a message | |
| D-Bus monitor | `src/plugins/dbus-monitor-plugin` | `CDataPool`: a queue with a flag, two events, two maps of names and services | producer (captures), consumer (keeps the maps, forwards), `start`, `stop` |
| Application statistics | `src/plugins/linux-app-stats-plugin` | the table of client sockets, a timer; `stop` wakes the receiver with a TCP connection of its own | receiver, periodic query, change of the rate, `stop` |
| Readers | `src/plugins/{jsonapi,log4j,socket-reader}-plugin` | a buffer and counters, or a position in a file | one loop or handler each, from bytes to messages |
| Resource monitor | `src/plugins/resource-monitor-plugin` | a static file buffer, the observed processes | a walk through `/proc` with every tick |
| Other plugins | `src/plugins/{dbusCmdCtrl,dlt-monitor,networkPacketSniffer}*`, `resource-monitor_win7` | | wrappers of libraries |

### How they interact

Plugins call `PluginProxy::sendMessage` on their own threads. Under `mMsgMutex`
it records the message and, if a host is connected, passes it to
`ComController::sendMessage`, which hands it to the dispatcher's queue without
a further lock. The dispatcher's sender activity writes it to the socket.

The server activity accepts a host, enqueues `NEW` and waits. The event loop
dequeues it, creates the dispatcher on the server's socket and tells the plugin
proxy, which replays what was recorded and calls every plugin. When the sender
has failed too often, or the receiver reads the end of the stream, it enqueues
`CLOSED`. The event loop then tells the plugins, stops and joins both
activities, deletes the dispatcher and signals the server.

The command port has a reactor thread of its own; it enqueues requests for the
same event loop.

Main builds all of this in `run`, waits for a termination request and takes it
down in `shutdown`. Nobody stops the event loop: it delivers to the plugins
until the process ends.

Apart from the two calls `startPlugin` and `stopPlugin` and the call of
`sendMessage`, a plugin shares nothing with the agent or with other plugins.

### What is hard

- *Interleaving.* A push and its notification are separate critical sections,
  and the flag is lowered in a third; the stop flag is not under the mutex at
  all. `messageHandler` is read on plugin threads and deleted on the event
  loop's.
- *Ordering.* Notifications name no connection, and a broken connection may be
  reported twice. Urgent messages overtake others, recorded ones precede live
  ones.
- *Liveness.* Two joins in `closeConnection`, a wait for a signal in the server,
  a thread in `accept` that the shutdown joins, and joins in the `stop` of two
  plugins, whose threads wait for messages, for clients and for a timer.
- *Staleness.* Caches of names fed by late signals, a copied table of sockets, a
  static buffer that keeps the text of a file read before.
- *Long sequences.* Connect, lose, rotate, reconnect: the recorder's position
  refers to a vector that grows meanwhile.
- *Boundaries.* File limits (with a 32-bit product), buffer sizes, lengths that
  are still zero, TCP's portions. Several parts write behind a buffer, or read
  past an end, at such a boundary; the code is undefined from there on.

### Correctness, component by component

- Dispatcher: no wakeup and no stop request is lost; a message has one owner;
  nothing is leaked; order is kept; closing completes.
- Connections: one at a time; a late report or heartbeat never meets the next
  connection; nobody uses a dispatcher that is torn down; a waiting host is
  served (it is not, see section 4).
- Recorder: the files hold what was sent and can be recorded, in order and
  within their limit; every host gets what it missed of that, once, before
  anything live; metadata reaches the next host (not always, section 4).
- Command port: the bytes received fit the buffer (the terminator after them
  does not always) and it never stays full; a request is forwarded (not always,
  section 4); after any mess the next whole request is understood.
- Framing: in both directions what comes out is what went in, frame by frame.
- Runtime: plugins are called between start and stop only, and never outlive
  their manager; shutdown ends.
- D-Bus monitor: no captured message is slept on or overtaken; a header never
  names a wrong process; `stop` returns.
- Application statistics: the table agrees with the descriptors; a query reaches
  every client; `stop` returns, if the clients read and finish what they send.
- Readers and resource monitor: lines, frames and samples come out whole, in
  turn, with the right date, type or owner.

Where the code writes behind a buffer the models do as well: the behaviour ends,
or a history variable says so from then on, and nothing is claimed of what
follows. Section 4 names each such exemption.

"hazards" in `PROJECT.json` lists each at its line, with the properties that
cover it or the reason why none does.

## 2. Plan

| Step | Modules | State |
|---|---|---|
| 1 | `OutboundQueue` (abstract), `MessageDispatcher`, proofs | done |
| 2 | `HostSessions` (abstract), `ConnectionLifecycle` (server + event loop + plugin proxy + a dispatcher reduced to its life cycle), proofs | done |
| 3 | `MessageRecorder` (both recorders, with the plugin proxy), proofs | done |
| 4 | `CommandPort`, proofs | done |
| 5 | `Runtime`: start and shutdown of the process against the server, the event loop and the plugins; proofs | done |
| 6 | `HostStream`: the bytes of both directions of a connection, proofs | done |
| 7 | `DbusMonitor`, `DbusNames`, proofs | done |
| 8 | `AppStats`, proofs | done |
| 9 | `JsonReader`, `LogReader`, `SocketReader`, `ResourceMonitor`, proofs | done |
| 10 | Recorder and dispatcher composed: what was replayed but not yet written when the connection breaks | open; the product of the two is large |

Every invariant the passing runs check is a theorem too (section 5).

## 3. Modules

### OutboundQueue and MessageDispatcher

`OutboundQueue` is what a connection promises: a queue, a worker that takes
messages from its front and finishes each, urgent messages in front, and a
worker that never idles while something waits.

`MessageDispatcher` is `CCommMsgDispatcher`. Each critical section under
`msgQMutex` is one step, as is each access to a stop flag.

| Model | Code |
|---|---|
| `SendMessage`, `PushMessageToQueue`, `NotifyMessagesAvailable` | the three stages of `sendMessage`: check, push, notify |
| `SenderLoop`, `WaitForMessagesAvailable`, `PopMessageFromQueue`, `TransmitMessage`, `UpdateMessageAvailableFlag`, `SenderEnds` | `runSenderActivity`, with its retry limit |
| `ReceiverLoop`, `WaitForNextCompleteProtocolMessage`, `ReceiverEnds` | `runReceiverActivity` |
| `StopSender`, `NotifySender`, `JoinSender`, `ClearPendingMessages`, `StopReceiver`, `JoinReceiver` | `closeConnection`, in its order |
| `CloseByEventLoop`, `CloseByMain` | its two callers, `oConnectionClosedbyClient` and `ComController::stop` |

A write succeeds or fails, a read yields a message, a timeout or the end of the
stream, as the environment likes; the bytes are in `HostStream`. `Poco::Condition` has no
spurious wakeups in the model; the loop around it would absorb them.
Exceptions from setting a socket timeout, which end an activity without a
notice, are left out.

### HostSessions and ConnectionLifecycle

`HostSessions` is what plugins may rely on: sessions one at a time, each host
served once per connection, a session lost only after its own connection broke,
and then indeed lost.

`ConnectionLifecycle` composes `CComServer`, `ComController` and `PluginProxy`
with a dispatcher reduced to whether its activities run. The notifications
carry no connection in the code; the `host` in an event is a history value that
no action's guard or assignment to the program's state reads. A call through a NULL `messageHandler`
sets `crashed` and ends the behaviour.

| Model | Code |
|---|---|
| `AcceptConnection`, `NotifyNewHostConnection`, `WaitForCurrentConnectionExpires`, `ServerWakes` | `CComServer::runComServer` |
| `OnClientConnected`, `OnHostConnectionEstablished`, `EstablishedDone` | `onClientConnected` and the plugin proxy's part |
| `OConnectionClosedbyClient` … `SignalNextServerRun` | `oConnectionClosedbyClient`, step by step |
| `SendHeartbeatResponse` | `onMessageReceived` for a heartbeat |
| `SenderGivesUp`, `ReceiverFindsPeerClosed`, `ReceiverForwardsHeartbeat`, `CommandPortHeartbeat` | who enqueues events |
| `PluginSendMessage`, `PluginDone` | `PluginProxy::sendMessage` under `mMsgMutex` |

### MessageRecorder

`CMessageRecorder` with its two subclasses (`recorderOn` chooses), and the
handlers of `PluginProxy` that use it. A file is the sequence of the messages in
it. `lastPosition` is `offset` and `position`; `stale` says that a `push_back`
moved the vector its iterator points into (libstdc++ doubles a full vector, so
`capacity` is kept). `status` becomes "failed" when an exception escapes with
mutexes locked or out of the shutdown, and "undefined" when a dead iterator is
used; the behaviour ends there.

A record begins with a header that carries the message's context, of less than
255 bytes. A message with a longer one (`LongHeaders`) is not recorded,
and a header that does not fit its buffer of 256 bytes (`Overrunning`) is
serialised there before its size is looked at (`Serializer.cpp:68`, `70`): the
behaviour ends ("overrun"), or what was overwritten did not matter. Beyond that
the context is left out: `deserialzeMessage` drops it on replay, whatever
happens.

`handed` tells live messages from those sent in
`onConnectionLost` ("losing"), replayed ones, and a replay that starts over
because a zero position stood for an empty later file ("rewind"). Sizes are
units, not bytes; `LimitWrap` is where limit × 1024 × 1024 wraps in 32 bits
(4096 in the code). Disk errors and file names are left out.

### CommandPort

`CCommanControlServer`: `OnSocketReadable(n)` is the handler for n arriving
bytes, with `ExtractHeaderContent`, `DispatchMessage`, `ResetCounters` and both
calls of `realloc`, which may fail. A byte is its request and its place in it,
so the model knows when the buffer begins with a request (`Aligned`); what
`sscanf` reads from other bytes is any of `Garbage`. The order of the code is
kept, including that a rejected header sets the total after the reset, and the
total is computed modulo `WORD`. The first `malloc` succeeds.

The terminator after what was received (`CommandControlServer.cpp:181`) is not
part of the buffer's contents in the model. After a read that fills the buffer
it lies one byte past the allocation: `undefined` becomes true, which ends the
behaviour, or the byte was nobody's. The same holds for a payload whose length
reaches past the buffer. Since the total leaves out the second delimiter, a
request longer than `BUFFER_SIZE` fills the buffer grown for it exactly, and has
its last byte outside: such requests always depend on what is there.

### Runtime

`CTargetAgentRuntime::run` and `shutdown` on the main thread, with the server's
thread and the event loop; the two activities of a dispatcher are a count.

| Model | Code |
|---|---|
| `Configure`, `CreatePart`, `LoadPlugins`, `SetConfig`, `StartPlugin`, `AllStarted`, `StartCom`, `Fails` | `run`; the steps in `MayThrow` may throw; main then waits for a termination request all the same, unless the exception is none of Poco's and ends the process |
| `StopRecording`, `StopPlugin`, `StopCom`, `CloseConnection`, `WakeUpServer`, `StopServer`, `JoinServer`, `DeletePluginManager`, `Exit` | `shutdown` and what it calls |
| `AcceptConnection` … `ServerWakes` | `runComServer` |
| `OnClientConnected`, `OnMessageReceived`, `OConnectionClosedbyClient`, `DeleteHandler`, `SignalNextServerRun` | the handlers of the event loop |

The steps that may throw are the reading of the configuration, the constructor of
`ComController`, which binds the command port, that of the recorder, which opens
a file, and the loading, configuring and starting of plugins. The host's port is
bound by the server's thread, which an exception ends (`ServerFails`).

Using what was deleted sets `undefined` and ends the behaviour. What the code
does there: a closed stream that is closed again throws, so a shutdown with the
recorder off and a host connected aborts; a host that connects after
`stopRecording` kills the event loop with `mMsgMutex` held (`loop` = "dead");
without a connection `ComController::stop` stops nothing; the server is joined
although it may be in `accept`.

### HostStream

The bytes of `CCommMsgDispatcher`: `ReadNBytesFromSocket` and `ReceiveTimeout`
cut what a host sends into frames, `TransmitMessageHeader` and
`WriteNBytesToSocket` write what the agent sends in portions of any size. A byte
is its frame and its place in it. Header lengths are modulo `BYTE`. Frames of a
host whose header is longer than the receiver's buffer are left out.

### DbusMonitor and DbusNames

`DbusMonitor` has the producer, the consumer, `CDataPool` and
`CDBusHandler::start` and `stop`, with each critical section and each event a
step. Closing a connection pointer that was never assigned is undefined
(`crashed`, or not).

`DbusNames` has what the consumer makes of the messages: the bus with its
connections and names, the queue of signals and messages, the two maps, the
queries at the start and for each message, and the header. A query is answered
from the bus as it is then, or times out.

### AppStats

`CThreadStatsCollector` with `CSocketInfo` and `CPeriodicTaskInfo`: the receiver
(select, accept, read, close), the query over a copy of the table, the timer, a
new resolution (`SetResolution`), and `stop`. Descriptors are numbers that the
kernel reuses, lowest first. A connection that finds the table full keeps its
descriptor, and nobody reads from it.

`send` blocks while the buffers of a client that does not read are full
(`SendBlocks`; `stuck` names the client), until it reads (`ClientReads`, which it
need not do) or ends its connection (`SendFails`). A read of -1 is treated as one
that succeeded: `ProcessFailedRead` writes the terminator before the buffer
(`undefined`, or harmless) and goes on with what the buffer held; `ReadFails` is
a message whose contents cannot be read, and the exception of `set_trace` that
ends the receiver. A message's length has two characters, so it is negative or
smaller than the buffer.

### The readers, the resource monitor, and IndependentParts

`JsonReader` (a FIFO cut into lines), `LogReader` (a growing file read by
`getline`, `tellg` and `seekg`), `SocketReader` (headers of a fixed size and
payloads in one buffer) and `ResourceMonitor` (the walk through `/proc` with one
static buffer, while processes come and go). Each knows the origin of every
byte, line or number, and a property compares what comes out with what went in.

Three of them leave their arrays:

- `DispatchOverrun`: `memcpy` takes the first line to end in a read to `msg`
  without a look at the room there (`jsonapiPlugin.cpp:92`). If the line and its
  terminator do not fit, `jOverrun` ends the reader's behaviour.
- `GetBareLine`: a line with a date and a time and nothing more, or the
  beginning of a line that has no more yet, takes the iterator past the tokens
  (`log4jReader.cpp:102`), and the loop at line 116 never meets the end:
  `pastEnd` ends the reader's behaviour.
- `Counted`: the terminator after a read that fills `payloadbuffer`
  (`socket_reader_activity.cpp:105`) falls on `bytesAlreadyReceived`, the next
  member, which loses its low byte (`LOW_BYTE`) unless the compiler writes it
  later. The model goes on with either value, and `overrun` remembers it.

These, `HostStream` and `DbusMonitor` share no state. `IndependentParts` puts
them into one specification in which a behaviour is one of one part (`kind`);
what it shows of a part is what a specification of that part alone would show.

## 4. Runs

| Run | Module | What it shows |
|---|---|---|
| `dispatcher` | `MCMessageDispatcher` | all promises of the dispatcher, and that it implements `OutboundQueue` (safety and fairness) |
| `lifecycle` | `MCConnectionLifecycle` | connections never mix, the dispatcher is never used while torn down, a reported connection is closed; `HostSessions` is implemented |
| `lost_signal` (violation) | `MCConnectionLifecycle` | `ClientIsServed` fails |
| `recorder` | `MCMessageRecorder` | the recorder's promises in both configurations |
| `recorder_metadata`, `recorder_position` (violations) | `MCMessageRecorder` | two promises that fail |
| `command_port` | `MCCommandPort` | the bytes received fit the buffer, which never stays full; whole requests are understood, unless a terminator behind the buffer does harm |
| `command_port_fragment` (violation) | `MCCommandPort` | `RequestsReachPlugins` fails |
| `shutdown` | `MCRuntime` | start and shutdown of the process |
| `independent_parts` | `MCIndependentParts` | framing, readers, D-Bus data pool, resource monitor |
| `dbus_names` | `MCDbusNames` | the tables of names and the headers |
| `app_stats` | `MCAppStats` | the table of sockets, the query, `stop`; clients that reset, do not read, or do not finish |

### Properties

- `NoLostWakeup`, `StopIsSeen`: the sender does not sleep on work or on a stop
  request. `QueueDrains`, `CloseCompletes` are their consequences in time.
- `OneOwner`: what makes each `delete` in the dispatcher right.
- `NoLeakAfterClose`: although a check and the push after it are separate.
  Claimed for a close by the event loop only; `ComController::stop` lets the
  event loop push after the queue was cleared.
- `ImplementsQueue`: among other things the order of messages, across urgent
  ones and failed transmissions.
- `NoSendIntoClosing`, `NewFindsNoHandler`, `SocketNotReplacedInUse`,
  `ClosedEndsOwnConnection`, `HeartbeatAnsweredToAsker`: what keeps successive
  connections apart although nothing in the notifications does.
- `RecordedInOrder`, `FilesWithinLimit`: the files. A message as big as the
  limit is never recorded, by design of `isFileSizeLimitReached`, nor one whose
  header is too long (`Recordable`).
- `HandedInOrder`, `NoneHandedTwice`, `NothingLeftBehind`: what hosts get. What
  was never recorded is not owed to the next host.
- `RecordedInOrder`, `NothingLeftBehind` and `MetadataReachesNextHost` are claimed
  of limits that do not wrap (`LimitHonoured`): with 4096 MB nothing is recorded.
  None of the recorder's is claimed after a header overran its buffer.
- `TypeOK`, `NeverFull`, `WholeRequestUnderstood`: the command port. Not claimed is
  that the terminator lies within the buffer; a whole request may meet harm from
  it instead of being understood.
- `HostFramesInTurn`, `AgentFramesInTurn`: frames in, frames out. Exempt: after
  a timeout within a frame or a header that does not parse (input), after a
  write that failed within a frame or a header that overran its buffer (output);
  neither side can resynchronise then.
- `PluginsReadyWhenCalled`, `RunningPluginsHaveManager`: calls against start,
  stop and deletion. Exempt: plugins started before one whose `startPlugin`
  throws; they are never stopped.
- `ShutdownEnds`: exempt are the orders in which it hangs - the event loop closed
  a connection meanwhile, so that the server is back in `accept` (`dropped`); the
  wakeup came before the server waited (`missed`); the event loop is dead.
- `NoLostWakeup` (of the data pool), `CapturedInOrder`, `DbusStopReturns`: the
  D-Bus monitor's threads. `stop` notifies before it sets the stop flag, so it
  needs a further message of the bus, and a producer that has not given up.
- `NamesLeadToServices`, `HeadersTellTheTruth`: the caches. `exact` says that
  nothing changed between the listing of names and the match rules; otherwise
  stale entries remain.
- `TableConsistent`, `EveryClientAsked`, `StopReturns`: exempt are a gap in the
  copied table, which hides the last clients from the query; a rate of 0, which
  disarms the timer; a client that sends half a message and then nothing; a
  client that does not read, on which `send` (`stats_collector.cpp:136`) waits
  for ever; and what follows a byte written before the buffer.
- `FirstLinesWhole`: only the first line that ends in a read comes out whole for
  certain, since its end is placed with the index into the read buffer; and only
  until a line was cut or overran `msg`.
- `LogLinesInTurn`, `LogLinesDispatched`: exempt once a line was read before its
  newline was written; the position is -1 then and nothing more is read. A line
  with a date alone ends the reader.
- `FramesWhole`: exempt after a header that does not parse, and after a read that
  filled the buffer: with the counter changed, the reader takes bytes of the
  next frame for the end of this one. A frame that was too long but came in
  reads that did not fill the buffer does no harm to the next.
- `SampleTrue`: exempt are times of processes whose name has a bracket in it.

Each has a mutant in `PROJECT.json`: a plausible bug in one definition (kept in
the module as a "faulty variant") that breaks it.

### Disagreements found

1. `ClientIsServed`: `waitForCurrentConnectionExpires` clears the predicate
   before it waits (`CComServer.cpp:94`). When the connection was already lost
   and closed by then, the signal is erased and the server never accepts again.
2. `MetadataReachesNextHost`: with the recorder off, what plugins send in
   `onConnectionLost` goes to the connection just lost.
3. `PositionUsable`: the iterator kept over a rotation may be dead.
4. `RequestsReachPlugins`: the first portion of a split request is dispatched as
   if it were a request, because the total is still zero.

The exemptions above are further behaviour that a reader may find surprising;
nothing in the repository promises otherwise, so no run is made of them.

### Bounds, and why they are enough

- Dispatcher: two callers, the event loop and one thread for all plugins, which
  `mMsgMutex` serialises; three messages, so that an urgent one and two others
  can be in the queue, in the sender and in a caller at once; a limit of 2
  failures, so that it is reached and also reset by a success.
- Life cycle: three connections, so that a connection can have a predecessor and
  a successor with late events of both kinds; one plugin thread (mutex); two
  heartbeats (`MaxHeartbeats`), one for each source or both for one. The lost
  signal needs two connections and no heartbeat.
- Recorder: five messages - three of one unit, which are symmetric, one as big
  as the limit and one whose header overruns - and three connections
  (`MaxConnections`): a loss, a replay, a second loss and a second replay with a
  rotation in between; limits 0 (none), 3 units, and 4, which wraps to 0. The
  vector grows from 1 to 2 to 4, so rotations with and without reallocation
  occur.
- Command port: four requests - with a payload, without, longer than the buffer,
  and invalid - in every order and every division into portions, with a buffer
  of 8 bytes, which reads of several requests fill; garbage lengths 0, 1, 7, and
  15, which makes the total wrap (`WORD` is 16).
- Runtime: two plugins, so that one may be started or stopped and another not
  yet; two hosts, so that one may come after the first was lost or during the
  shutdown; one message.
- Framing: four frames of a host and five of the agent, with and without
  payload, with a header that wraps (bytes have four values), one that overruns
  its buffer and one that does not parse; every division of each into reads and
  writes.
- D-Bus: two messages wait in the pool (`MaxQueue`), numbered modulo 4, so that
  the run has no last message and liveness is not vacuous. For the names, two
  connections and two names with symmetry, and two entries in the queue: a name
  changes hands while its last change is still unread.
- Application statistics: three clients for two slots: a full table, a gap, and
  a descriptor used again. One client (`Abrupt`) may reset its connection.
- Readers: three lines or frames of lengths below, at and beyond the buffer, read
  in parts that fill it or not; a counter whose low byte has four values, so that
  losing it takes some bytes away and leaves others; log lines without a date,
  with one, and with nothing else.
- Resource monitor: two pids and two processes (`MaxStarts`), which have a pid
  each or the same one after the other; two threads; two samples, so that the
  second meets what the first left in the buffer and in the observed set.

`CHECK_DEADLOCK FALSE` in every configuration: the systems may stop. A closed
dispatcher is done; an agent that crashed, or whose hosts are all gone, does
nothing more; the recorder has finitely many messages; a command port with
everything read waits, and one whose buffer could not grow is stuck. The process
of `Runtime` ends; the other parts wait for input, or their plugin was stopped.

### Fairness

`FairSpec` of `MessageDispatcher` and of `ConnectionLifecycle` assume weak
fairness of each running thread: the operating system schedules it. The event
loop gets `mMsgMutex` under strong fairness, since plugin threads take and
release it again and again: this is the operating system's fairness of a
contended mutex. A host that hung up is noticed by the receiver in the end,
since the receive timeout bounds each read. Nothing is assumed of hosts, of
writes that fail, of threads that have not called `sendMessage`, or of the main
thread. The recorder and the command port state no liveness and need none.

`Runtime` assumes that main, the server and the event loop are scheduled as long
as the process lives and nothing undefined has happened; hosts need do nothing,
and nobody need ask for termination. `AppStats` assumes the same of its threads
and that an armed timer expires, and nothing of its clients: a `send` that waits
for one of them need not end. `IndependentParts` assumes it of the log reader
and of the D-Bus monitor's threads, and one thing more: a message comes on the
bus again and again, which any desktop or vehicle bus provides, and without
which `DbusStopReturns` fails (see its hazard).

## 5. Proofs

| Module | Theorems |
|---|---|
| `MessageDispatcher_proofs` | `TypeCorrect`, `WakeupNeverLost`, `StopAlwaysSeen`, `NoticesBounded`, `NothingLeaks`, `QueueImplemented`, `OwnedUntilDeleted` |
| `ConnectionLifecycle_proofs` | `TypeCorrect`, `NoSendIntoDeleted`, `HandlerNeverOverwritten`, `SocketStable`, `ClosedIsOwn`, `HeartbeatIsOwn`, `SessionsImplemented` |
| `CommandPort_proofs` | `TypeCorrect`, `RoomToReceive`, `ResynchronisesOnWholeRequests` |
| `MessageRecorder_proofs` | `AlwaysRecordedInOrder`, `FilesAlwaysWithinLimit`, `AlwaysHandedInOrder`, `NoneEverHandedTwice`, `NothingEverLeftBehind` |
| `DbusNames_proofs` | `NamesAlwaysLead`, `SenderNeverMistaken`, `HeadersAlwaysTrue` |
| `AppStats_proofs` | `TableInStep`, `QueryReachesAll` |
| `Runtime_proofs` | `ManagerOutlivesPlugins`, `CalledWhenReady` |
| `IndependentParts_proofs` | `PoolTypeCorrect`, `PoolWakeupNeverLost`, `AlwaysCapturedInOrder`, `LogAlwaysInTurn`, `HostFramesAlwaysInTurn`, `AgentFramesAlwaysInTurn`, `FirstLinesAlwaysWhole`, `FramesAlwaysWhole`, `SampleAlwaysTrue` |

They hold for every value of the constants under the named assumptions of the
modules (`DispatcherAssumption`, `LifecycleAssumption`, `RecorderAssumption`,
`CommandPortAssumption`, `NamesAssumption`, `StatsAssumption`,
`RuntimeAssumption`, and for the independent parts `DbusAssumption`,
`HostAssumption`, `JsonAssumption`, `LogAssumption`, `MonitorAssumption` and
`SocketAssumption`), which say what kind of thing each constant is and, for the command port and the statistics collector,
that headers, the buffer and the table are not empty.

Each module of proofs defines an inductive invariant as a conjunction of named
parts, proves that it holds initially and is kept, action by action, and derives
the theorems. `StepsOfParts` says that a step of `IndependentParts` is a step of
each part or leaves it alone, so that each part is proved about with its own
steps only.

- Dispatcher. `NoLostWakeup` alone is not inductive: it needs that a non-empty
  queue has its flag raised or a caller about to raise it (`FlagCoversQueue`),
  and that the sender sleeps only on a lowered flag (`AsleepOnLoweredFlag`).
  `StopIsSeen` needs `FlagCoversStop`, for the window between the look at the
  stop flag and the wait. `NoLeakAfterClose` needs that callers are shut out
  (`CallersShutOut`), that the sender has been joined before the queue is
  cleared (`SenderJoined`) and that it stays cleared (`StaysCleared`).
  `AtMostTwoNotices` counts notices against activities that have ended.
  `OneOwner` counts; its inductive form speaks of places instead: no two hold the
  same message (`HeldOnce`), none holds a deleted one (`HeldIsLive`), and by
  `LiveIsHeld` a live one is somewhere.
- Life cycle. Everything rests on `OneAtATime`: the server goes on only when
  nobody is served, so at most one announcement is under way; and on the order
  of the queue, `EventsOfHandler` and `NothingAfterNew`: all that was ever said
  of a connection stands before the announcement of the next. `MutexHeld` and
  `SendingConnected` carry what a plugin thread saw under the mutex.
- Command port. `Incomplete` (what is kept is shorter than the total) with
  `RoomForMore` gives `NeverFull`. `Forgotten` (an empty buffer remembers no
  length) makes a whole request understood; the total alone may survive, and
  that is harmless.
- Recorder (`RecorderInv`). The argument is about two sequences: what the files
  hold together, and what of it the next host will get (`Unsent`). Recording
  appends to both, or to neither when the message is not kept (`Kept`: its header
  is too long, or it is as big as the limit as computed, in 32 bits); whether a
  file was pushed for it makes no difference. `KeptAsConfigured` says that `Kept`
  is `Recordable` for a limit that does not wrap, which is where the promises,
  stated of the configured limit, need `LimitHonoured`. Both are in the order of
  sending (`FilesInv`, `UnsentInv`), nothing in the second was handed to a host
  that could take it, and what was sent while no host was there is in the second
  or with a host (`OwedInv`). A lost connection leaves the second empty, or makes
  it everything again (`Rewinds`), which is the rewind that `NoneHandedTwice`
  exempts. `StreamInv` gives the bounds of the recorder's position while the
  process lives: it names a file, and an offset in that file.
- D-Bus names. `NamesLeadToServices` is inductive as it stands. The sender's half
  of `HeadersTellTheTruth` (`SenderTold`) needs that an entry of a connection
  holds that connection's process or none (`ServicesTrue`) and that signals move
  names between connections only (`QueueTyped`, `OwnersTyped`). The receiver's
  half needs to know who owned what when a message was captured: the queue is a
  diary of the bus (`Diary`), a function that gives the owners after each of its
  entries. Its last value is the bus of now, its first is what the two maps know
  (`CacheRight`), and handling an entry moves them on by one.
- Statistics collector. `TableConsistent` needs that no client has two
  descriptors (`FileInjective`) and that who waits in the backlog has none
  (`BacklogWaits`): then, by the pigeonhole principle, the kernel has a
  descriptor left for it, and it is in no slot. `SomeoneToAccept` keeps the
  receiver from accepting nobody. `EveryClientAsked` needs `DueInCopy`: a client
  still due has its own descriptor in the copy of the table, in a slot that the
  query has yet to reach or has asked - though meanwhile descriptors are closed
  and given to others.
- D-Bus monitor. `NoLostWakeup` looks at a consumer that is about to sleep; the
  inductive form `FlagCoversQueue` holds wherever the consumer is. It needs that
  the flag stays raised while the consumer works (`RaisedWhileWorking`), or the
  lowering could meet a message pushed before, and that the queue is empty
  before the producer starts (`BeforeStart`). `CapturedInOrder` is inductive with
  `HeldWhileHandled`: nobody but a consumer at work holds a message.
- Log reader. `ReaderInStep`: until a line is read in pieces, the position the
  reader goes back to, the position of the stream and the number of lines
  dispatched are the same, and the date kept is that of the last dated line
  before it (`DateKept`).
- Bytes of a host. `HostInv` says where each frame stands in the bytes still to
  come: frame k begins after byte at[k], which is negative for the one of which
  bytes were taken already. The frames follow one another without a gap
  (`FramesFrom`), and the part the receiver waits for is the next one of its
  frame (`PartWanted`); a read moves every at[k] by what it took.
- Bytes for a host (`AgentInv`). `AgentFramesInTurn` is inductive once it is
  known that what is still to be written is the end of the header or of the
  payload of the current message (`EndOf`). A byte written moves from what is
  missing to what reached the host, so the two together stay the frames of the
  messages transmitted and the current one. A write that throws with the first
  byte of the frame still to go leaves the whole frame missing; cancelling it
  leaves the frames transmitted.
- FIFO of the JSON plugin. `JsonInv` says where each line stands behind the bytes
  that `msg` took (`LinesAt`). `msg` holds the beginning of the next line only
  until the first line of a read has ended (`BeginningKept`), which is why no
  more than the first line of a read is promised whole.
- Frames of an application. `SocketInv` says where each frame stands in what was
  and is to be read (`StreamAt`). A header is taken with its last byte and a frame
  dispatched with its last byte, so that a length is known just when a part of a
  payload is missing (`HeaderOrPayload`), and the buffer holds what there is of
  the current frame (`BufferHasFrame`).
- Resource monitor. `MonitorInv` follows the walk: what was there all the time
  and lies behind the walk was reported (`BehindWalk`), the static buffer holds
  what was read for this entry or the entry is gone (`StatTold`), and each figure
  in the sample is its own task's (`EntryTrue`).
- Runtime. `PluginsSoFar` says what the plugins have been through at each step of
  `run`, and `QuietWhileStarting` that nobody can call them before the last, which
  gives `ReadyWhenLoopRuns`. `RunningPluginsHaveManager` needs that the manager
  comes first (`ManagerFirst`), that what runs is known to `shutdown` unless
  `startPlugins` was interrupted (`RunningRemembered`), and that it is stopped
  before the manager goes (`StoppedBeforeDelete`).

`QueueImplemented` and `SessionsImplemented` show that initial states map to
initial states and steps to steps or stutters: the safety parts `OQSafe` and
`HSSafe` of the refinements.

Proved, though no run lists them, are the type invariants of the dispatcher and
of the life cycle and `AtMostTwoNotices` (a dispatcher reports its end at most
twice).

Only model-checked: all liveness (`ShutdownEnds`, `StopReturns`,
`DbusStopReturns` among it) and the fairness part of the two refinements.
Liveness and ENABLED are beyond the proof system at hand, and so is a recursive
operator, which no module that is proved about uses. A theorem of induction that
takes a predicate is too; `Induction` in `MessageRecorder_proofs` and
`IndependentParts_proofs` takes a set instead and rests on the well-foundedness
of the natural numbers. With it the folds over sequences of files and of frames
(`FlattenSeq`, `SizeOf`) are reasoned about: `FlattenAppend` says what appending
a file, or to the last file, does to the whole.

## 6. Not modelled

- Configuration (one file read at the start; its values are constants or initial
  choices), timestamps (a clock), the formatting of logs: no behaviour of their
  own. The logger's socket channel has one client, and its `onWritable` blocks
  the reactor until there is something to log; nothing else depends on it.
- D-Bus commands: one call for one message; the conversion of D-Bus arguments
  into protobuf items, there and in the D-Bus monitor.
- DLT and packet sniffer plugins: one thread each inside the main loop of a
  library that is not in the repository. The sniffer's loop does not return when
  asked to stop, and the DLT thread is cancelled and not joined; what follows
  depends on the libraries.
- The Windows and QNX variants of the resource monitor: the same walk over other
  sources.
- The preload library: loaded into other programs. Its list of threads is walked
  without a lock and through a node just freed; from undefined behaviour at each
  call no property follows.
- Disk errors, allocation failures other than those named, and the names of
  files.

The repository has some 27,000 lines that are not tests, half of them generated by the
protobuf compiler (`gen/*.pb.cc`, `gen/*.pb.h`: accessors, sizes and
serialisation of messages), and about 9,000 written by hand, with licences and
includes. The models cover the parts with state and concurrency; what is left
is conversion, configuration, logging, wrappers and the variants named above, of
which a model would restate the code line by line. That is why the share of
lines covered cannot come near a third of the whole.
