# A TLA+ model of the Mid_napi middleware

Mid_napi is a publish/subscribe middleware for small groups of robots. On every
host a *master* process connects the *node* processes of that host through
shared memory and connects the host with the masters of other hosts over TCP or
over an ultra-wideband (UWB) radio. On top of it the repository has a local
planner, a DGPS node, simulator plugins, a command line tool and an OpenHarmony
application. This directory holds TLA+ models of the parts that decide whether
messages arrive and whether the programs do what they are told, TLC
configurations that check them on small instances, and TLAPS proofs of the
properties that matter most.

Paths below are relative to the repository; `Master/` stands for
`src/src/Master/src/`, `Node/` for `src/src/Node/`, `Port/` for
`src/entry/src/main/cpp/`.

## The system

| Component | Code | State | Operations | Model |
|---|---|---|---|---|
| UWB link | `Master/uwb/UwbHandle.cpp` | send queue, ACK queue, `m_pending_acks`, `m_next_seq`, last number received per source | `send_http_reliable`, slot transmission, receive, `check_timeouts`, heartbeat, `stop` | `UwbLink`, `ReliableSend` |
| UWB time slots | `Master/uwb/UwbTimeslotmanager.cpp` | last slot seen | monitor thread, slot and window arithmetic | `SlotClock` |
| UWB codec | `Master/uwb/UwbFramecodec.cpp`, the serial part of `UwbHandle.cpp` | read buffer | escape, encode, decode, checksum, parse | `UwbText`, `UwbWire` |
| Shared-memory path | `Master/shm/`, `Master/MiddlewareManager.cpp` | `m_nodes`, `m_publishes`, `m_subscribes`, queues and eventfds | register, delete, forward messages | `ShmTopic` |
| Node client | `Node/` | its queues, socket, signal thread | register, create Publisher and Subscriber, publish, leave | `NodeLife`, `ShmTopic` |
| Unix-socket server | `Master/shm/Server.cpp`, `Master/shm/controller/` | one request per connection | POST and DELETE of nodes | `NodeLife`, `ShmTopic` |
| Process launcher | `Master/ProcessManager.cpp` | children, signal set | start, restart on SIGCHLD, end on SIGINT | `NodeLife` |
| Directory | `Master/InterfaceManager.cpp`, `Master/interface/` | `hostlist`, `topic2host` | broadcast of changes, `/new` lists, controllers | `Directory` |
| Routing table | `Master/interface/Map.cpp` | weights, `route` | `setMaxWeight`, `setInitWeight`, `getRoute` | `RouteMap` |
| TCP link | `Master/tcp/TcpHostInterface.cpp`, `Master/interface/HostInterface.cpp` | three flags, queue, two timers, `fail_times` | `send`, six handlers | `TcpLink`, `HostLink` |
| TCP server | `Master/tcp/Server.cpp` | read buffer | read, handle | `Receive*` of `Directory` |
| Local planner | `src/src/LocalPlanner` | path, step, goal, flags, watchdog counters | callbacks, watchdog timer, `plan`, velocity search | `Vehicle`, `DwaSearch` |
| Gazebo plugins | `src/src/Gazebo` | last command, last click | click, update, report | part of `Vehicle` |
| DGPS node | `src/src/Dgps/src/dgps_hmw_node.cpp`, `serial.cpp` | `g_nmea`, `sbuf`, serial device | three threads | `DgpsNode` |
| NTRIP client | `src/src/Dgps/src/ntripclient.cpp` | sockets, `stop`, `error`, `sleeptime` | one attempt over UDP, RTSP or TCP after the other | `NtripClient` |
| Command line tool | `src/src/Util/src/main.cpp` | recordings, node names | echo, pub, play | `ClientCmd` |
| Application | `Port/napi_init.cpp`, `Port/Middleware/src/Util`, `.../Node` | `g_nodes`, `g_threads`, `g_state.messages` | runCommand, stopCommand, callbacks | `AppBridge` |
| Local map, messages, UWB adapters, ArkTS pages, the rest of the port | | | | not modelled, see the end |

**Who runs where.** `main.cpp` runs the master's handlers on one `io_context`
thread, so the handlers of the shared-memory path, the directory, the routing
table and the TCP links never overlap. Beside it run the threads of
`Uwb::Handle` (slot monitor, timeouts, heartbeat) and the launcher's thread.
Node processes run in parallel with the master and share queues and eventfds
with it; a node has a main thread and a signal thread, the planner a second
thread for `plan`, the DGPS node a serial and an NTRIP thread. The application
runs every node on a thread of its own inside one process, next to the thread of
ArkTS.

**How the parts meet.** A node registers with the master over a Unix socket
(`NodeLife`; `ShmTopic`: `AddNode`, `AddPublish`, `AddSubscribe`). The master
tells the other masters (`Directory`: `Add`, `DeleteNode`) through `broadcast`,
which looks up the interface in the routing table (`RouteMap`) and hands the
request to the link (`TcpLink` or `UwbLink`). A link that comes up or fails six
times in a row calls back into `InterfaceManager` (`onNew`, `onFail`), which
changes weights and broadcasts again: the re-entry is part of the actions of
`TcpLink`. `UwbLink` takes from `SlotClock` that the owner of a slot transmits
alone and from `UwbWire` that a frame arrives as written or not at all; `UwbWire` stands on
`UwbText`.
`DgpsNode` contains the actions of `NtripClient`; `Vehicle` composes the click
plugin, the planner and the car, and leaves the choice of a velocity to
`DwaSearch`.

**What is hard.** Two queues and two eventfds on the way of every message; four
threads in one UWB handle; ACKs, retransmissions and heartbeats that share one
sequence number memory; one timer for two operations with handlers that are
already queued when it is cancelled; copies of other hosts' state kept up to
date over connections that break; processes that die without signing off, or
sign off twice; coalesced signals; strings and flags that threads share without
a lock; some forty calls of an NTRIP attempt that can each fail; `INT_MAX - 1`
as the weight of a failed link. `PROJECT.json` lists each hazard at its line.

## Modules

### UwbLink, ReliableSend (`MCUwbLink`, `UwbLinkProofs`)

`UwbLink` has one `Uwb::Handle` per node. An action is what one thread does
between taking and releasing a mutex: `Enqueue` and `Track` are the two halves
of `send_http_reliable`, `TransmitData` and `TransmitAcks` those of
`on_my_slot`, `check_timeouts` one pass of the timeout thread, `StopBegin` and
`StopEnd` the two ends of `stop`. Time is counted in slots. Faults are frames
that fail the checksum, failed serial writes and missed slots. `Prompt` chooses
between an io thread that handles what it has before the slot ends and one that
may lag.

`ReliableSend` is what a caller is promised: a request is refused at once or
later answered by exactly one callback, and success only after delivery.
`PromiseSpec` says `UwbLink` implements it.

### SlotClock (`AlgorithmProofs`)

The monitor thread reads its clock three times: for the slot, for whose slot it
is, for the window (`monitor_thread`, `CheckMine`, `CheckWindow`). Time passes
between the readings, and the clocks differ by up to `MaxSkew`. `MaxDrain` is
how long `on_my_slot` takes, which the code does not bound: it drains both
queues without looking at the remaining time. `ClockAssumption` says that skew
and drain fit in the guard interval (100 ms in the code). `straddled` is a
history variable: the nodes whose readings fell into two slots.

### UwbText, UwbWire (`AlgorithmProofs`)

`UwbText`: a request becomes text and is escaped; the reader unescapes it, finds
the blank line, splits the head and reads the fields, of which `req.set` keeps
one of each name. One character stands for the method; the path and the version
are left out, and so is Content-Length, which `prepare_payload` derives from the
body. `UwbWire`: the text is framed and ended by a line feed; the reader cuts at
line feeds and decodes. Characters are their codes, since the property is about
characters: bodies that contain line ends, backslashes and what looks like a
checksum. Noise changes or swallows one character.

### ShmTopic (`MCShmTopic`, `ShmTopicProofs`)

One topic of one host. `Publish` and `Signal` are the two steps of
`Publisher::publish`; `ReadCompletes`, `BeginRead`, `EndRead` those of the
master's `onEventfdRead`, with `Transfer` for each message, `SubRead` and
`SubPop` those of `Subscriber::onRead`. `AddNode`, `AddPublish`, `AddSubscribe`,
`DeleteNode` are the master's handlers; `Exit` is the exit by signal, `Crash` a
death without DELETE. A message is its source and its number.

### NodeLife (`MCHost`, `NodeLifeProofs`)

`ProcessManager` with its one wait for SIGCHLD and SIGINT (`Manager`), the
programs it starts, and the life of a `Node` in each: `NodeRun` and `NodeUp` are
the constructor, `onSignal` the signal thread, `Destroy` the destructor, `Leave`
the steps in which either of the two closes the socket, connects, writes the
DELETE and reads the answer. Both use `m_socket` without a lock, so each system
call of one may meet a socket the other has closed or connected. `MasterHandles`
is `NodeController`; it takes requests in any order of their connections.
`raced` marks, for the properties, the name of a process that ran `onSignal` and
the destructor at once.

### Directory (`MCDirectory`, `DirectoryProofs`)

Every host's own entries (`reg`), its copies of the others' (`view`) and the
derived `topic2host`. `Connect`, `Write`, `Break` and `Restart` are the life of
connections and masters, `Receive`, `ReceiveCut` and `ReceiveLate` what
`Server::doRead` makes of the bytes that arrive (it clears the buffer, so what
came along with a request is lost). `gap` is a history variable: whether the
receiver has missed something since the last list. Hosts are on one segment:
relaying is left for a later module.

### RouteMap (`AlgorithmProofs`)

`getRoute` loop by loop (`Visit` is one turn of Dijkstra's loop, `Finish` the
walk along the parents) on ints of width `IntMax`, with the changes of weights
in between. `overflow` is a history variable: a sum did not fit. The reference
is `Best`, the shortest paths by number of links.

### TcpLink, HostLink (`TcpLinkProofs`)

`TcpLink` is one `TcpHostInterface`: its flags, its queue, the operations that
are pending or have completed, the timer, and the number of timer handlers that
are queued with success (`fired`). Each handler is one action; the sockets and
timers beneath (`ConnectEnds`, `WriteEnds`, `WritePart`, `TimerExpires`) are
external. `HostLink` is what the directory relies on: FIFO, at most once, one
loss per broken connection, a list after each. `LinkSpec` says `TcpLink`
implements it.

### Vehicle, DwaSearch (`VehicleProofs`)

`Vehicle` has the two threads of the planner: `Callbacks` (paths, sensors, the
watchdog timer, replan requests) and `Plan`, with a step wherever the other
thread may run in between. A place is a position told apart by the goal's
tolerance. The watchdog's counters wrap, as in the code. `DwaSearch` is one
search: `Sample` prices one pair of velocity and yaw rate, `Decides` compares;
velocities are integers, and since every element of a trajectory is the same
object, a trajectory is priced by its end. The reference is the set `Allowed`.

### DgpsNode, NtripClient (`ServicesProofs`)

`NtripClient` is the control flow of `ntrip_client`: one action per stretch of
code between two blocking calls, every call that can fail a choice between its
outcomes. `DgpsNode` adds the serial thread and the timer. Both take lines from
strings the serial thread appends to, and look for the line end without its
lock: a search that meets an append may cut anywhere.

### ClientCmd (`ServicesProofs`)

`topic pub` (with its recording), `topic echo` and `bag play` as processes that
share files and node names.

### AppBridge (`ServicesProofs`)

`runCommand` and `stopCommand` of the application, the nodes they make, their
threads, and the queue through which `SendToArkTS` hands messages to the ArkTS
thread (`OnAsyncMessage`; one wake-up may stand for several messages). The ways
in which the application ends are outcomes (`AppEnds`).

### MCAlgorithms, MCServices

Modules without a common variable are checked together: a variable `part` says
which of them takes steps. `MCAlgorithms` has the seven parts whose properties
are invariants, `MCServices` the three with liveness.

## Runs

Every run ends within three minutes on two workers.

| Run | Module | Result | What it shows |
|---|---|---|---|
| `uwb_loss` | MCUwbLink | holds | `PromiseSpec`, `SuccessMeansDelivered`, `EveryRequestResolved`, types; two requests, two faults, one retransmission |
| `uwb_async` | MCUwbLink | holds | `CallbackOnce`, `BoundedDuplication` (no more deliveries than transmissions) and the inductive invariant `LinkInv`; lagging io threads, heartbeats, broadcast and oversize requests, `stop` |
| `uwb_duplicate` | MCUwbLink | violated | "receive de-duplication" delivers a request twice after a heartbeat, without a fault |
| `uwb_lost_ack` | MCUwbLink | violated | one lost ACK makes all retransmissions useless: duplicates are not acknowledged |
| `shm_order` | MCShmTopic | holds | `Counted`, `InOrder`, `Registered`, `PopFindsMessage`, `QueueBound`, types; queues of one message, restart under the same name, one crash |
| `host` | MCHost | holds | `KeepsItsName`, `NoStaleName`, `ExitLeavesNoChild`, `RestartsTheDead`; signals to programs and master, one kill, the race of the two ways to leave |
| `dir` | MCDirectory | holds | `CopyAgrees`, `NoStrayHost`, `EventuallyAgree`, types; one broken connection or restart, late data |
| `dir_topics` | MCDirectory | violated | `Host::deleteNode` takes the topics of all nodes: a host with a remaining subscriber is cut off |
| `tcp` | TcpLink | holds | `LinkInv`, `LossIsRepaired`, `LinkSpec`, `NeverHangs`, types |
| `services` | MCServices | holds | application: `NodesAgree`, `BridgeProgress`; NTRIP client: `AttemptLeavesNothing`, `HonoursStop`; shared memory: `EndToEnd` |
| `algorithms` | MCAlgorithms | holds | routing: `RouteIsShortest`; command line tool: `RecordAndReplay`; DGPS: `WholeLines`; driving: `WatchdogFresh`, `GoalOnPath`, `StopsHold`; search: `BestIsAllowed`; slots: `SlotsDisjoint`; codec: `WireFaithful` |
| `watchdog` | Vehicle | violated | a silent sensor does not stop the car |

Several properties name an exception, a history variable or a set of outcomes
that marks what the code really lets happen: `raced` (NodeLife, Vehicle),
`straddled` (SlotClock), `hit` on the length (UwbWire), `leaked` (NtripClient),
a recording of the same second (ClientCmd). Everything outside the exception is
claimed; the exceptions are described under "What the models show about the
code".

**Bounds.** UWB: two nodes in three slots (one slot has no owner), sequence
numbers up to 3, one to three retransmissions and one or two faults, enough for
a lost frame, a lost ACK and both. With three nodes, one of which only listens,
the state space is too large for a run; `SuccessCorrect` is proved for any
number of nodes. Shared memory: two or three processes, queues of one message,
so that every queue is full at some time (three in `services`, so that none
is), two messages per publisher, one message from another host, one crash.
Host: two programs with one name, one kill; the rest is bounded by the code,
which waits for signals once. Directory: two hosts, one or two nodes, three
changes (five in `dir_topics`), one fault, which may fall between any two
steps. TCP: three requests, two successful connections, two timer handlers
queued at a time; failures to connect are not bounded, `fail_times` saturates.
Application: three commands, of which two may have one name, two messages in
the queue when a callback begins, so that wake-ups coalesce. NTRIP: three
attempts of every mode, with and without a device. Routing: all maps of four
hosts with weights up to 2, `INT_MAX` scaled to 10, so that sums with a failed
link overflow exactly when the code's do: from distance 2 on. Command line
tool: three users, so that a third is refused whatever the other two do, three
seconds, two messages each. DGPS: three lines of two pieces each, one of them
not for the caster. Driving: two places, two sensors, two paths, watchdog
limits 1, 2 and 3 for 20, 1000 and 1000000. Search: velocities up to 3 and 2
backwards, three samples in each direction, every obstacle and limit. Slots:
two stations in three slots, a little more than two slots of time, skew and
drain of one unit each, with a guard interval of two. Codec: two frames, bodies
chosen to look like escapes, line ends and checksums, one hit.

Deadlock is checked where the system never stops (TCP, UWB) and not where a
bounded number of requests is simply used up or a program ends (`CHECK_DEADLOCK
FALSE`).

**Fairness.** A thread that can run runs, and the `io_context` runs every
handler that is ready (weak fairness of each handler, thread and of `Tick`).
Node processes that are alive serve their eventfds. `dir` assumes that a
connection which is down comes up in the end (it is tried every 60 seconds).
`tcp` assumes nothing of attempts to connect, which may stay unanswered; of a
write it assumes that TCP completes it or gives up (strong, because a write in
parts is again and again between two of them). `host` assumes that
`ProcessManager`, code of a running process, goes on; nothing is assumed of the
programs it starts. In `services` the threads of the nodes and a `stopCommand`
that has begun go on, and the event loop of the ArkTS thread does not pass over
a wake-up for ever (strong, since calls of the user come in between); the NTRIP
thread runs, but nothing makes a caster answer. Faults, crashes, signals and the
user are never fair.

## Proofs

Every theorem holds for all values of the constants under the named assumptions
of the modules and, where one is given, its own hypothesis. Each safety theorem
is shown from an inductive invariant; a property that is not inductive is the
consequence of one that says what is true in the middle of an operation.

- `UwbLinkProofs`: `TypeCorrect`; `CallbackOnceCorrect`, also when numbers wrap;
  `LinkImplementsPromise` (`Spec => PromiseSpec`), `SuccessCorrect` and
  `LinkInvCorrect`, these three for instances in which a node sends no more
  requests than there are numbers: once the counter wraps while requests wait,
  `emplace` keeps the entry of the older request in `m_pending_acks` and the
  callback of the newer one is never called. The invariant: an owed callback is
  in exactly one place (`OwedInv`), numbers in use are those given out
  (`SeqInv`), every frame, queued or on air, stems from a request (`FrameInv`),
  and a request that is owed a callback is being sent or has an entry
  (`OwedIsTracked`). The callback alone is not inductive: an ACK frame has only
  a number, so one has to know that the entry under the number belongs to the
  request that was delivered. `DuplicationCorrect` (`BoundedDuplication`) needs
  no condition on the numbers: what a station has delivered of a request and
  the copies of it that are queued or on air are together paid for by the first
  transmission and the retransmissions its entry has counted (`Paid`), and a
  station queues the data of its own requests only (`OwnData`).
- `AlgorithmProofs`, for `SlotClock`: `SlotsCorrect`, for any number of stations
  and any slot and window that leave room for skew and drain. The invariant `ScInv`: a station
  that transmits ends in time, and what a monitor has read so far places the
  present moment inside its own slot (`Sound`); two stations that both transmit
  then have the same slot number, hence are the same.
- `ShmTopicProofs`: `TypeCorrect`; `CountedCorrect` (the messages in a queue are
  those the eventfd counts, those a reader has already been told of and the one
  whose signal is still to come); `PopCorrect`, from it; `QueueBoundCorrect`,
  the bound of the queues (`LengthBound`) and, with `Counted`, that of the
  eventfds; `InOrderCorrect`, for the whole way of a message at once, since
  order in one queue depends on the queue before it; `RegisteredCorrect`.
- `DirectoryProofs`: `TypeCorrect`, `NoStrayCorrect`; `CopyCorrect`
  (`CopyAgrees`). The invariant `CopyInv`: the requests on the connection and in
  the queue, applied in their order, lead from the copy to the original. Where
  the receiver has missed something, from whatever it has: a list must be among
  them. The steps between the two ends are a function (`Trace`) whose existence
  is kept, so that no recursion is needed.
- `AlgorithmProofs`, for `RouteMap`: `RouteCorrect` (`RouteIsShortest`), for any
  number of hosts, any map and any width of an int in which a failed link is longer than every
  path of working links. The invariant `RouteInv` has a part that holds
  whatever the sums overflow to: parents were visited before their children
  (`Tree`), and ranks fall along them (`Ranks`), so that the walk along the
  parents ends. The other part, `Nearest`, holds until a sum overflows: visited
  hosts are nearer than the others, no link from one of them is a short cut,
  every distance is that over the parent. When the loop has ended no link at all
  is a short cut, so no path is shorter than the difference of the distances
  (`NoWayIsShorter`), and the way along the parents is as short
  (`WayIsShortest`); a connected host is nearer than a failed link is long
  (`ConnectedIsNear`), so its path has none. `Ancestor`, `Best` and `Connected`
  are recursive functions: `Iterates` shows that they exist, and `StepByStep` is
  induction along them, with a set of numbers in the place of a predicate.
- `AlgorithmProofs`, for `UwbText`: `RequestReturns`, for every request with a
  method that the parser knows, names without a colon or a line end, values
  without a line end or spaces at their edges, no name twice, and any body: it
  is read back as it was, and its text has no line feed. `EscapeReturns` is the
  first half, that the pass over the escaped text stands, behind each escaped
  character, where the text itself stands; `HeadSplits` gives the lines of the
  head back (`Glued` says how they lie in the text), `HeadEnds` that the first
  blank line is the one behind the head and not one in the body, `FieldsReturn`
  the fields. These are recursive functions too, with `Iterates` and
  `StepByStep` beneath.
- `TcpLinkProofs`: `TypeCorrect`; `LinkInvCorrect` (`OneOperation`,
  `FreshFailures`, `TimedConnect`, inductive only together: that a failed write
  is the first failure is what keeps the broadcast in `onFail` from starting a
  second operation); `LossCorrect`; `LinkCorrect` (`Spec => LinkSpec`), by
  mapping the request that is being written and the queue to `pending`.
- `VehicleProofs`: `WatchdogCorrect`, `GoalCorrect` and `StopsCorrect`, for any
  places, paths, sensors and limits. `Watched` relates a counter below the limit
  to the true age of the last message, which is what survives the winding back
  of the counter; `PathInv` says at which steps of either thread the goal has to
  be a waypoint already, and that points are there before a thread picks one;
  `StopInv` says at which steps of a turn the goal is still there and at which
  the car has been stopped. `BestIsAllowedCorrect`, for any limits and number of
  samples of the search under the hypothesis `InRange`: every `max_velocity`
  that may be sent is at least the backward limit, and no sample costs as much
  as the first `min_cost`. The invariant `DwInv`: the next sample is one of the
  grid (`SearchInv`), every sample before it that is allowed costs at least
  `min_cost` (`SeenInv`), and the best is an allowed sample of that cost
  (`FoundInv`).
- `NodeLifeProofs`: `ExitCorrect`, `NameKept`, `NoStaleCorrect`, for any number
  of programs, names and crashes. `LaunchInv` follows the launcher's scans and
  waits; `NameInv` follows a name from the POST in the master's inbox to the
  answer of the DELETE: a node that was let in holds its name until its DELETE
  is answered (`HoldsName`), one process has one DELETE under way (`Single`),
  and while only one of the two threads of a process leaves, the socket is its
  own (`Alone`). All of it up to `raced`, which the code does let happen.
- `ServicesProofs`: `NodesAgreeCorrect` for the application (`BridgeInv`: master,
  `g_nodes`, `g_threads` and the threads agree about every name but the one
  `stopCommand` has just taken), and `NoLostWakeUp`, the safety half of
  `BridgeProgress`; `AttemptCorrect` for the NTRIP client (`NtInv`: which socket
  and which part of a session is open at each place of an attempt, and how many
  attempts the pause and the leaked sockets stand for); `ReplayCorrect` for the
  command line tool (`CcInv`: the recording of a publisher that is alone in its
  second is what it sent, `Recorded`, and a replay of it has come as far as its
  last time says, `Replayed`); `WholeLinesCorrect` for the DGPS node. Its
  invariant `DgInv` reads each of the two ways of a piece as one sequence: what
  the string, the serial thread and the kernel hold (`NmeaChain`, `SbufChain`).
  Their pieces are in the receiver's order and come after every line that was
  taken (`Flow`); as long as the device was opened once none is missing
  (`Whole`), and while it is plugged in the last one is the last that was sent
  (`Level`). `DeviceInv` says when a thread may still open the device: at most
  two openings, and only one when no other thread has looked at `isOpen` before
  it. That a cut falls behind the first newline rests on the well-foundedness of
  the numbers (`Least`).

The assumptions of the modules say that bounds and sizes are natural numbers
(where zero would be no instance at all: positive), that every request has a
source and a destination and every program a name, and that the marks for "no
entry" are distinct from what they stand in for. Only `ClockAssumption` (above)
says something the code does not ensure.

Only model-checked:

- every liveness property (fairness and ENABLED are outside the prover):
  `EveryRequestResolved`, `EventuallyAgree`, `NeverHangs`, `RestartsTheDead`,
  `BridgeProgress`, `HonoursStop`, `EndToEnd`;
- `WireFaithful`, the frame around the text: its checksum needs `Bitwise`, which
  a module with a theorem cannot use, and that noise is found out is a matter of
  which characters it hits. What is proved of it is the text (`RequestReturns`).

## Disagreements between code and comments

Four runs are expected to be violated; each is a finding in `PROJECT.json` with
the line of the code and the comment it contradicts: `uwb_duplicate`,
`uwb_lost_ack`, `dir_topics`, `watchdog`.

## What the models show about the code

Nothing in the repository promises the opposite, so these are no findings; they
are what a reader of the properties' exceptions should know.

- Routing: `INT_MAX - 1`, the weight of a failed link, plus 1 is the distance of
  an unreached host, so a host one link of weight 1 behind a failed one drops
  out of the table, while `broadcast` looks up every host without asking
  (`Master/InterfaceManager.cpp:113`). `onNew` broadcasts the list before it
  sets the weight back (`Master/interface/HostInterface.cpp:25`).
- Resources: the pidfd of every Publish and Subscribe is never closed
  (`Master/shm/Publish.cpp:43`); `m_requestQueue` grows while a neighbour is
  away (`Master/tcp/TcpHostInterface.cpp:67`).
- UWB: three readings of the clock may straddle two slots. The checksum does not
  cover the length field, and `decode` ignores what follows the checksum.
- Processes: the wait for signals is not registered again, so only the first
  death of children is repaired; a child that dies before the check `running()`
  ends the master with an exception. When a signal and the destructor meet, two
  DELETEs are sent: the second leaves a null entry in `m_nodes` or takes the
  registration of a successor. A killed process keeps its name registered for
  ever.
- Application: stopping a `--once` publisher, or the play of a bag with one
  message, destroys its `Node`, whose destructor calls `exit(0)`; starting a
  command twice is refused by the master with an exception nobody catches;
  `bag_play` dereferences a message that could not be created.
- NTRIP and DGPS: the end of `ntrip_client` with a serial device destroys a
  joinable thread, which is `std::terminate`, so "STOP" is never announced; a
  blocking `recv` does not see `stop` while the caster is silent; an RTSP
  attempt that fails early leaks its UDP socket; a failed lookup closes a stale
  number again; both threads may open the device; `sbuf` and `g_nmea` are
  unbounded.
- Planner: `points_` is never cleared, so a new path starts with the first point
  of the old one; a stop after a replan request can be overtaken by the drive
  command of a turn that is under way; a limit of 0 means no limit; one below the
  backward limit, with driving backwards allowed, takes the whole window below
  it, since the lower end of the window is cut to the upper one
  (`src/src/LocalPlanner/src/base/BaseGeneratePath.cpp:109`), hence `InRange`;
  only the end of a trajectory is checked against obstacles.
- Command line tool: a second `pub` within a second empties the first one's
  recording before its node is refused.

## Plan

Done: the UWB link with its slots and its codec, the shared-memory path, the
life of processes and nodes, the directory, the routing table, the TCP link, the
driving loop, the DGPS node with its NTRIP client, the command line tool, the
application's bridge.

Left, in this order:

1. `Relay`: requests that pass a third host (`InterfaceRouter::handle`,
   `transfer`, `publish`) over `HostLink` connections and `RouteMap` tables;
   loops while tables differ, lists that take a detour, messages that reach a
   host twice. It composes `Directory` with the abstract `HostLink`.
2. `Timer` of the node library; the port's master where it differs from the
   native one.

## Not modelled

- Local map: the constructor of `GridNode` calls `shared_from_this()` before the
  object is owned, which throws, so the node does not start; its arithmetic on
  point clouds is floating point.
- UWB interfaces (`UwbInterface`, `UwbHostInterface`): adapters that hand a
  request on to `Uwb::Handle`.
- Message definitions: declarations and generated code.
- Read-only queries of the master, the listing commands of the tool, the ArkTS
  pages, NMEA fields: they change no state the properties speak of.
- The rest of the OpenHarmony port repeats `src/src` (the NTRIP client and the
  serial code byte by byte) with TCP in place of the Unix socket.
- Frame transformations, ray casting and the floating-point costs of the
  planner, and the older click plugin `gui_mouse_click_goal`.
