# RCIA Vision 2025: TLA+ models, checks and proofs

This directory models the vision stack of RCIA Vision 2025: the state the
nodes keep between two messages, the decisions they take on it, and what those
decisions promise to the robot. Paths below are relative to the repository.

## 1. The system

One camera frame travels through a pipeline of ROS 2 nodes:

    CameraNode -> ArmorIdentifier -> MathSolverNode -> VisionTrackerNode -> SerialDriverNode -> gimbal MCU
                                                             |
                                                     HeartBeatPublisher -> GuardDog -> tmux

| Part | Source (under `src/`) | State it keeps | Operations |
| --- | --- | --- | --- |
| Camera driver | `rcia_sensor_driver/rcia_camera_driver/src/camera_node.cpp` | camera handle, grabbing flag, reconnect timer | init, cleanup, try_reconnect, frame_callback (SDK thread) |
| Serial driver | `rcia_sensor_driver/rcia_serial_driver/src/` | port list, open descriptor, frame buffers | init_uart, read (1 ms timer), write, publish, broadcast tf |
| Detector and identifier | `rcia_vision_detector/src/` | parameters, last tracker state, selected armor | imageCallback, light and armor matching, classification, PnP, selection |
| Math solver | `rcia_math_solver/src/ba_solver.cpp` | window of at most five poses | Solver, adjust_optimized_data, bundle_adjustment, publish |
| Tracker | `rcia_vision_tracker/src/spinTop_tracker.cpp`, `spinTop_predictor.cpp` | tracker_state, two counters, tracked number, radii, filter state | init, update, handleArmorJump |
| Gimbal control | `rcia_vision_tracker/src/gimbal_control.cpp`, `trajectory_compensator.cpp` | aiming mode, overflow_count_, last_fire_time_ | solve, selectBestArmor, compensation |
| Tracker node | `rcia_vision_tracker/src/vision_tracker_node.cpp` | the above, last serial data, last command | solver_callback, serial_receive_callback |
| Heartbeat | `rcia_vision_tracker/src/guard_dog_publish.cpp` | fps_count_, last_publish_time | refresh, publish_heartbeat |
| Guard | `rcia_vision_guard/src/guard_dog.cpp` | last_heartbeat_time_, pause_, tmux windows | heartbeat_callback, check_heartbeat, restart_vision_node, restart_self |
| Foxglove bridge | `ros2_foxglove_bridge/src/ros2_foxglove_bridge.cpp`, `generic_client.cpp` | channels, subscriptions, services and their clients, client publications, JSON parsers, connection-graph flag | graph thread, subscribe, serviceRequest and its answers, clientAdvertise, clientMessage, destructor |
| Bridge parameters | `ros2_foxglove_bridge/src/parameter_interface.cpp` | subscribed parameters and event subscriptions by node, one mutex | getParams, setParams, subscribeParams, unsubscribeParams, event callback |
| Message definitions | `ros2_foxglove_bridge/src/message_definition_cache.cpp` | a cache | get_full_text |
| Bring-up | `rcia_bringup/` | none | launch files, parameters |

The camera and the identifier share a multi-threaded container; serial driver,
math solver and tracker node share a single-threaded one
(`rcia_bringup/launch/bringup.launch.py`), so the callbacks of those three run
to completion one at a time, and each is one action of a model.

How the parts interact:

* **Messages.** Each arrow of the pipeline is a topic. One image gives one
  identification message, "null" when no armor was found; the solver turns it
  into one message, a null one, or none at all; the tracker answers each message
  it gets with one command for the gimbal.
* **Feedback.** The tracker publishes its state and its last command back to the
  identifier, which copies parts of them into the messages of later frames.
* **Shared data.** The serial driver's data reach the identifier through two
  buffers that change roles (only its debugging output uses them), and the tracker through a copy that the next
  command's time stamp is taken from.
* **Life and death.** The tracker calls the heartbeat at the end of every
  callback, so a heartbeat proves that frames arrive at the end of the pipeline.
  The guard listens to it, kills and restarts the pipeline in a tmux window and
  then replaces itself by a new guard in another window.
* **Beside the pipeline.** The Foxglove bridge shows topics, services and parameters of
  all nodes to websocket clients. Nothing in the pipeline reads what it does, except that
  clients may set parameters, call services and publish. It is the one part with real
  concurrency of its own: a thread that follows the ROS graph, handlers on the server's
  threads, and answers on the executor's.
* **Outside.** The camera's SDK calls back on a thread of its own; the serial
  line is a blocking file descriptor; tmux is reached through `system()`; the websocket
  server and ROS are libraries.

Hard behaviours, and what makes each part correct:

| Part | Hard | Correct when |
| --- | --- | --- |
| Tracker, tracker node | `update()` runs twice per message and may give the target up and adopt another within one callback; counters are never reset by `init()`; a loss bound is recomputed from each frame's pace | a target is followed only after being confirmed, given up in bounded time, never exchanged silently; both radii stay in the clamp and equal to the filter's |
| Gimbal control | throws in the middle of its own updates; keeps its mode and clocks across targets | fire is rationed on every path, the aiming mode changes only for its reason |
| Heartbeat, guard | two generations of guards overlap; a guard kills the window it runs in; results of tmux are ignored | always exactly one acting guard; a stopped pipeline is replaced, a live one left alone |
| Math solver | three vectors kept in step by hand; a jump clears the pose that jumped; a message member is reused | the window is coherent, a steady target is reported |
| Serial driver | short reads, a scan two bytes at a time, failures that leave descriptors open | no frame twice or out of order, and what is not one frame has a lost byte or a byte like a header to blame; the first usable device is used, as configured |
| Camera | six calls that may fail, a foreign thread, a retry timer | no handle lost or used too late, a stream left alone, a camera that stays is connected |
| Identifier, detector | one candidate's number with another's corners; pairs of lights that compete; one message object, one mask and one set of candidates serve all frames | what is published for a frame is of that frame, in the colour asked for, and describes one armor; no light is in two armors |
| Foxglove bridge | a graph thread works on what it read before while clients subscribe, call and publish; a call holds a mutex the thread needs, for up to a second; an answer may be quicker than the note of its request; subscriptions and advertisements fail half way | a topic has one channel and is described by all its definitions; links last until given up or withdrawn; an answer goes to its call, once; no change of the graph is lost; the node ends |
| Bridge parameters | two maps kept in step by hand; a list that is refused or left by an exception in the middle; an event callback without the lock; nodes that do not answer, or lose a parameter meanwhile | what is listened to is what is subscribed; a failing node costs its own parameters only, and an answer is of one moment; the mutex is given back |

`PROJECT.json` lists every hazard at its line with the properties that cover it.

## 2. The modules

    SpinTopTracker   GimbalControl                      TargetEngagement
            \            /                                     ^
             VisionTracker ------------ implements -------------+
             |          \
     MCVisionTracker   VisionTrackerProofs

    LightMatching --> ArmorIdentifier      MCArmorIdentifier, ArmorIdentifierProofs
    BaSolver -- implements --> SteadyReports      MCBaSolver, BaSolverProofs
    Watchdog (HeartBeatPublisher + GuardDog + tmux)      MCWatchdog, WatchdogProofs
    UartTransporter, SerialLink --> SerialDriver         MCSerialDriver, SerialDriverProofs
    CameraDriver      MCCameraDriver, CameraDriverProofs

    DefinitionCache   HashMaps                           TopicLinks
          |         /         \                              ^
     BridgeChannels  BridgeServices  ClientPublications      |
                 \        |         /                        |
                   FoxgloveBridge ----- implements ----------+
          MCFoxgloveBridge   FoxgloveBridgeProofs
    ParameterInterface   MCParameterInterface, ParameterInterfaceProofs

An operator named `Operator_Fault` (or with another word after the underscore) is a
plausible fault of the operator that follows it. It is not part of the model: substituting it for the operator makes
at least one property fail, which shows that the property depends on that line
of the code.

**SpinTopTracker** is the class of the same name as operators on a record:
`state` is `tracker_state`, `det` and `lost` are `detection_count_` and
`lost_count_`, `id` is `tracked_id_` with `armors` the number of armors it
implies, `r` is `target_state(8)`, `r2` is `another_r`, `ekfR` the radius inside
the filter. `InitTarget` is `init()` with `initEkf()`; `Update` is `update()`
with `handleArmorJump()` and the four branches of its state machine, in their
order, then the clamp and `setState()`. The Kalman filter is linear algebra
without branches. What the branches read from it is one *observation* per
update: how far the armor is from where it was predicted (`pos`), by how much it
is turned (`yaw`), and the radius the filter arrives at (`r`).

**GimbalControl** is `solve()` as far as it keeps state: the aiming mode,
`overflow_count_`, and the time since `last_fire_time_`. Where `solve()` may
throw (before or after the mode is advanced) is an input. Aiming, ballistics and
the choice of an armor are not modelled.

**VisionTracker** is `VisionTrackerNode::solver_callback`. The executor runs it to
completion, so each path is one action: `Acquire` (nothing was followed),
`Reacquire` (the first `update()` gives up and the same message is adopted),
`Detect` (after both updates nothing is followed) and `Engage` (a target is
followed, `solve()` runs). Time is the distance between the stamps of two
messages, one of `Gaps`. `hist`, `shots` and `spins` are history variables that
only properties read.

**TargetEngagement** is the abstract specification of the tracker node: at most
one target, acquired first and confirmed later, fire only at a confirmed target,
no exchange of targets without a new acquisition. The refinement maps `target`
to the tracked number unless the state is PATROL, `confirmed` to TRACKING or
TEMP_LOST and `firing` to the fire flag of the last command.

**LightMatching** is `match_light()` with `repeated_light_judgment()`: a recursive
function of the number of pairs of bars considered, from left to right, in which a new pair
joins the accepted ones, takes the place of the first it shares a bar with, or is passed over. The heights and
angles compared are kept, with the term the code computes from the wrong bar. Which
pairs pass the geometric tests is an input.

**ArmorIdentifier** is the node around it. Its callbacks share the default callback
group, so each is an action: `ImageCallback` from the colour split to the message,
`TrackerStateCallback` and `OnSetParameters`. A *scene* is what an image shows in one
colour; `lights` (the mask), `candidates`, `armorIdx`, `msg` and the two control members
are what one frame leaves to the next. The classifier may answer anything and
`solve_pnp()` may fail, which leaves the pose of the message as it was. `image` and
`seen` are what the frame was given, for the properties.

**BaSolver** is `BA_CLASS::Solver` behind `MathSolverNode::solver_callback`: the
three vectors of the window, `g_reproject_rvec`, the reused message and whether
this callback published. The two actions are a frame without and with an armor.
Ceres is external: it may leave any rotation. A translation keeps its x and, as
one number, the coordinates the jump test does not look at.

**SteadyReports** is the solver's abstract specification: of the whole window
only the last place decides whether a detection is passed on.

**Watchdog** holds the heartbeat publisher of each pipeline, the guards and tmux.
A tick is 250 ms, the period of the guard's timer and the length of its sleeps;
the commands a guard gives between two sleeps are one action. `KillVision`,
`SpawnVision` and `RestartSelf` are the parts of `restart_vision_node()` and
`restart_self()` between their sleeps. tmux is external: `new-window` fails
without a session, `kill-window` fails unless its name is unique, a session ends
with its last window.

**UartTransporter** is `openPorts()` over the list of devices, with `open()`,
`setParam()` and `close()`, and then `init_uart()`. A device is absent, of a kind
that opens but cannot be set up, or good. The set of termios flags is one value.

**SerialLink** is the read timer with `InfantryProtocol::receive()`. A byte is
named by its frame and its position in it. The data are raw: which of their bytes equal
HEADER is chosen as a frame is sent (`Send(look)`, kept in `alike`), and the receiver
compares bytes as they come (`IsHeader`). The line is one of three kinds: it delivers
frames whole, cuts the stream anywhere, or loses bytes as well (`Lose`).

**SerialDriver** is the node put together from the two: its constructor runs `init_uart()`
and creates the timer last, so that nothing is read before; without a port `init_uart()` shuts
the node down and the timer never fires. What arrives before the port is open is lost to
the node, and a `setParam()` that succeeds flushes what has arrived, frames cut in two
included.

**CameraDriver** is `CameraNode`: `init_camera()` call by call, the retry timer,
the destructor, and the frame callback on the SDK's thread. The SDK and the
cable are external. The destructor starts between callbacks of the node (`pc = "idle"`),
which the code does not check: the launch never unloads the node, and at the end the executor
has returned before its nodes are destroyed.

**FoxgloveBridge** is the node of that name, put together from three parts that share no
state, and one that they use. `GraphThread` is `rosgraphPollThread()`, one action per read
of the graph and per update, because what was read is used after the graph and the tables
may have changed. The handlers are actions of the server's threads; the tables a handler
changes under one mutex change in one step. The graph event is external: ROS sets it at
every change once it is registered, which the thread does after its first look. `GraphChange`
lets publishers and services of other nodes come and go; a topic or a service is what the
graph says, whoever is behind it. The destructor joins the thread and then stops the server.

* **BridgeChannels**: `updateAdvertisedTopics()`, `subscribe()` with the QoS it derives from
  the publishers known at that moment, `unsubscribe()`. Publishers are endpoints: each has
  a gid, and two of one topic may have the same QoS and count twice. A channel is a number handed out by
  the server, a topic and the description of its type.
* **BridgeServices**: `updateAdvertisedServices()`, `serviceRequest()` and `GenericClient`.
  `serviceRequest()` holds the mutex of the services while it waits for the service, so it
  is cut into `ServiceRequest`, `WaitForService` (found, or the second is over),
  `SendRequest` and `StoreRequest`; the last two hold the client's mutex, which
  `HandleResponse` needs.
* **ClientPublications**: `clientAdvertise()`, `clientUnadvertise()`, `clientMessage()`. The
  message is cut in two at the unlock: the parser of a JSON message is looked up after the
  mutex was given back.
* **DefinitionCache**: `get_full_text()` as an operator from a type to the sequence of types
  whose definitions it joins: a recursive function, against an independent definition
  (`Describes`) of what a text must be. That one knows no order and no recursion: what can be
  reached from a type is the least set of types that holds it and is closed.
* **HashMaps**: erase and emplace, as the standard library has them.

**TopicLinks** is what clients see of the bridge's topics: some are offered, a client may be
linked to an offered one, and a link lasts until it is given up or its topic withdrawn. The
refinement maps `offered` to the topics that have a channel and `links` to the subscriptions.

**ParameterInterface** is the class of that name with the handlers that call it. The mutex
is free when no get or set is at work, so it is not a variable. A get or a set is a record:
what was asked for, which nodes are still being asked, which failed, what came back. An
exception inside a node's thread costs that node (`NodeFails`); one outside, where a client for
a node is made (:203-209, :246-252), leaves the handler without an answer once the threads
already started are waited for (kind "broken"). Of values one thing is state, whether a
parameter has one: `declared`, of which nodes may lose and get those in `Optional`, by a set
or a deletion (`Carry`) or by themselves (`NodeChanges`). The same making of clients leaves a
subscription half done (:288-299). The callback for parameter events takes no lock; `LookUp`
and `Update` are its two halves around the reference it keeps into the map. Erasing the end iterator or reading through a reference
that dangles is undefined; the model lets the process end then (`crashed`).

## 3. What the runs check

| Run | Properties | States | What it shows |
| --- | --- | --- | --- |
| `engage` | TypeOK, CountersMatchState, TrackedIsConfirmed, BlindBounded, GeometryKept, FireSpaced, ModeFollowsSpin, ModeSwitchJustified, ImplementsEngagement | 6,210 | counters, identity and geometry through both updates of a frame; rationing and aiming mode across losses and exceptions; the refinement |
| `loss` | LossIsResolved | 157 | a target that is not seen is given up |
| `window` | WindowCoherent, SteadyIsReported, ImplementsSteadyReports | 29,342 | the window with its real length of five; the refinement |
| `frames` | PublishedIsWhole, NumberIsOfThisFrame, ColorFollowed, FewBarsUnshared | 14,752 | nothing of an earlier frame is published; of three bars at most one pair survives |
| `handover` | OneGuardActs, WindowsSound, HealthyIsLeftAlone, Recovers | 14,918 | any number of restarts and handovers; what beats in time, with no tick to spare, is left alone |
| `ports` | PortSound | 133,479 | the first usable device is used, as configured, while a line is read |
| `stream` | DeliveredIsSent, EveryFrameArrives | 236,270 | a port that is flushed, or is not; short reads, lost bytes, data that look like a header, and resynchronisation: a spoilt delivery has a byte of its own to blame; frames that arrive whole are delivered |
| `camera` | HandleSound, StreamIsLeftAlone, Connects | 122 | failing calls, the foreign thread, the retry timer |
| `channels` | ChannelsSound, ChannelsDescribed, QosFits, ImplementsTopicLinks, EveryTopicAdvertised | 319,932 | two clients and the graph thread: the tables stay consistent, a failed subscription leaves no trace, no change of the graph is lost; the refinement |
| `calls` | AnswersMatch, NoUnknownAnswer, JsonHasParser, EveryServiceAdvertised, ShutdownEnds | 596,062 | calls and answers in any order while services come and go; client publications; the end of the node |
| `parameters` | NodesServed, AnswersWhole, MutexReturned | 953,562 | lists refused or left half way, nodes that fail or change, deletion, exceptions outside the threads, events without the lock |
| `number` | DescribesOneArmor (violated) | | with two armors in view the message has the corners of the nearer one and the number of the last one |

The numbers are distinct states; `engage` looks at ten million steps, because one
frame has many outcomes. `number` is a run that ends with a counterexample, a finding in
`PROJECT.json`. `TypeOK` of a module is an invariant of its run or, more often, only
proved (section 4).

### Disagreements

What the models show of the code against its own comments and docs. The first is the run
`number`; the others follow from a definition of a model and have no run.

* `armor_identify.cpp:323`: the number published is the last candidate's, the corners are
  the nearest one's.
* `spinTop_tracker.hpp:48`: `lost_thres` ("seconds") is compared with a count of updates,
  two per frame: a target is given up after half of `lost_time_thresh`. `tracking_thresh`
  ("frames", line 47) counts updates too, so 5 is passed in the fourth frame.
* `uart_transporter.cpp:97`: parity 0, the default and the shipped value
  (`serial_driver_node.cpp:19`), makes `setParam()` refuse every parameter of the node.
* `guard_dog.cpp:84`: when Vision is the only window, killing it ends the tmux session, no
  window can be created and nothing is restarted. Without a watchdog window the guard
  creates WatchDog1 where its comment (line 113) says WatchDog0. A hung pipeline that was
  started in a terminal is not stopped by its restart.
* `armor_detector.cpp:304`: when the bar two pairs share is the right one of the new pair,
  its height is compared with itself. Four bars may leave two armors on one bar, although
  repeated bars are judged (line 324; scene `crowd` of the instance).
* `ba_solver.cpp:616`: "the distance between the translation vectors" is computed from x.
* `pnp_solver.cpp:62`: a failure is caught inside and the message is published with the
  pose of an earlier frame.
* `infantry_protocol.cpp:28`: 19 bytes are written, the last one 0, where a frame that is
  received has 18; the end byte 0xFF of `protocol.hpp:15` is never written.
* `guard_dog_publish.cpp:33`: beats are rationed by callbacks, the guard waits in seconds. At
  the 30 Hz of `camera_info.yaml` a new pipeline beats after 402 callbacks, 13.4 s, and then
  every 6.7 s: the guard, who waits 5 s, restarts a live pipeline again and again. Which rates
  are fast enough is `BeatsInTime` (section 4).
* `uart_transporter.cpp:157`: `close()` does nothing after a half-opened device, whose
  descriptor stays open.
* `parameter_interface.cpp:299`: the subscription for one node's events is to the events of
  all nodes, and the callback compares names only: a parameter of that name of another
  node is reported as this node's. A list that is refused half way (line 274) leaves an
  entry without a subscription, which no later request repairs.
* `ros2_foxglove_bridge.cpp:125`: the callback groups are created after the server was
  started, whose handlers use them; line 456: a callback that outlives the handler captures
  its locals by reference. A change of the graph before the thread holds its event is seen
  at the next change only.

### Bounds, and why they are enough

* **Tracker.** The observations are one per outcome of the comparisons in
  `update()` and `handleArmorJump()`: a match with a radius below, inside and
  above the clamp, too far, exactly at the yaw bound (the code tests `<` on one
  side and `>` on the other), and turned by a small and a large jump. Two numbers
  suffice because an armor either has the tracked number or has not, and one of
  them is the outpost, whose number of armors differs. `Gaps` = {2, 7} with
  `LostTime` = 6 gives loss bounds of 3 and 0 updates, so a pace may shorten
  the bound below what is already counted; `FireInterval` = 5 lies between the
  paces. `TrackingThresh` = 2 is not reached within the two updates of one frame,
  `TransferThresh` = 2 needs three solves in a row. History counters saturate
  (`RunCap`, `MissCap`, `SpinCap`) just above the largest value a property
  compares them with. `loss` is separate because liveness is costly: it keeps
  the two observations and one spin that the counters tell apart, and a `LostTime` of 14,
  for loss bounds of 7 and 2.
* **ArmorIdentifier.** A scene for each case of `match_light()`: nothing, one armor, two
  armors without a common bar, three bars that all pair with the shared bar on either
  side and the later pair winning or losing, and four bars where the last pair competes
  with two at once. Three answers of the classifier: two numbers to tell apart and one
  that is passed over. A colour the detector does not know is among the parameters.
  `MaxDetection` = 2 instead of 50, with lost counts below and above it.
* **BaSolver.** The window has its real length. The four places are near both
  neighbours, near one, near none.
* **Watchdog.** Durations keep their order, not their ratio: the second between beats is as
  long as a sleep of the constructor, a handover shorter than the timeout. `FpsCycle` = 3 with
  a rate of 2 to 3 callbacks per tick makes an attempt take one tick or two, the first one
  start the clock only, and some ticks bring a beat no guard sees. The instance meets
  `BeatsInTime` (section 4), which TLC evaluates, with no tick to spare: with one less in the
  timeout, or one more in the sleeps, it finds a live pipeline that is restarted. Guards and
  windows are as many as the code has.
* **UartTransporter**, in `ports`. Four devices allow each kind before and after each other;
  the list of the code has six, tried by the same loop. One frame of the least even length
  is sent meanwhile, on each kind of line (`MaxLost` = 0: what is lost does not matter here).
* **SerialLink**, in `stream`. One device, which may be set up with the parameters of the node
  or refuse them, as with the shipped parity. `DataSize` = 4 instead of 16 keeps the length of a
  frame even, which decides whether a scan two bytes at a time finds a header again. Chunks of
  one byte make every cut possible; the initial state says what kind of line it is.
  `Looks`: of a frame's data no byte equals HEADER, or all but the first do, so that the scan
  meets two of them in step or a byte off. `MaxLost` = 1 and `MaxFrames` = 3: a loss
  and data that look like a header, one after the other or in one frame, and two spoilt
  deliveries with nothing lost at all (a data read cut short leaves its rest to the scan);
  `ports` has no data like a header. After the last frame, and without a
  port, nothing more happens, so both configurations say `CHECK_DEADLOCK FALSE`.
* The bridge ends when its node is destroyed, and the parameter interface when undefined
  behaviour has ended the process: their configurations say `CHECK_DEADLOCK FALSE` too. All other runs check deadlock.
* **CameraDriver.** One handle, one frame in the SDK's thread; `MaxOrphans` = 1 is
  only the range of a history variable that a correct driver never increments.
* **FoxgloveBridge.** Two runs, because the channels share no state with services and
  publications but the thread that serves both. `channels` has two clients and one name
  with two types (a topic that is replaced) and a topic that cannot be described;
  four publishers: two of one topic that are alike, transient local, reliable and of an unset
  depth, which only a sum over endpoints tells from one; one of the other type under that
  name, and one of the third topic. Any of them may be there at first. `calls` has two clients
  with one call each, two services, of which one has a type without a complete definition, one client that publishes on two channels in both
  encodings. `MaxAppearances` = 1 bounds how often something appears in the graph;
  everything may vanish, so one thing can be there, go and come back within two looks of
  the thread. The types of the instance have a shared dependency, one that exists as .idl
  only, one whose .msg definition needs it and that falls back to .idl (`mesh`), and a file
  that is short of a part (`half`). Of the capabilities each is given
  alone: they guard disjoint handlers.
* **ParameterInterface.** Two clients, two nodes, of which one has two parameters and may be
  without the second, and a parameter of the bridge's own off the whitelist. `Names`: no name;
  the optional parameter; all three of both nodes, which a node without the optional one may
  refuse, and before or after any of whose nodes an exception may end the request; and one that
  is refused half way.

### Fairness, and why the code justifies it

* VisionTracker: `WF_vars(Next)`. The camera delivers frames and the identifier
  publishes a message for each, "null" when it sees nothing. Nothing is assumed
  about what the messages say: `LossIsResolved` holds for every sequence of them.
* Watchdog: weak fairness of `Tick` (time passes), of the steps of each guard (its
  timer and its sleeps) and of `ComeUp` and `Frame` of a pipeline that is up. There is none
  for `Hang` and `Exit`: pipelines may fail at every moment or never.
* SerialDriver: weak fairness of the constructor (`open()` and `setParam()` return), of
  the receiver (a 1 ms timer, reads that return when bytes are there) and of each way in
  which the line delivers what it has; none for the sender, nor for losses.
* CameraDriver: the timer fires and callbacks return (weak); each SDK call on a
  plugged-in camera succeeds at last, and good frames keep coming (strong, because
  failing attempts disable and enable them again and again).
* FoxgloveBridge: weak fairness of the graph thread, of a service call that is being served
  (its wait ends after a second) and of the destructor; strong fairness of `UpdateServices`,
  which needs a mutex that calls take again and again. None for clients, for the graph,
  nor for the answers: a service may stay silent.
* ParameterInterface: weak fairness of `NodeAnswers` or `NodeFails` together (a node answers
  or the time is over) and of `Finish`. None for clients and events.

## 4. What is proved

`tlapm` checks the eight proof modules to the last leaf. A theorem holds for all values
of the constants that satisfy the assumptions named in the modules.

**VisionTrackerProofs**, from `TrackerAssumption`, `GimbalAssumption` and
`NodeAssumption` (the clamp is not empty and contains the initial radius, thresholds
and paces are natural numbers, paces are positive, a quotient of `LostTime` by a
pace is at most `LostTime`, there is an observation). Any number of robot numbers,
any thresholds, paces, spins and observations.

The invariant `IInv` has three parts. `TargetInv` says what the tracker record may be:
its type, the counters that each state allows, both radii in the clamp and equal to
the filter's, one radius for an outpost, and how the counters relate to the history.
`GunInv` relates the fire clock and `overflow_count_` to what was fired and seen.
`CommandInv` relates the last command to the state. None of the checked invariants is
inductive by itself: that a followed target was confirmed needs the counter's relation
to the frames in DETECTING, and that the radii stay in the clamp needs the radius kept
aside for a jump to be in it as well. The proof that a step keeps `IInv` has one lemma
per action, over one lemma per branch of `update()`; the history is cut off in
`TargetInv` at the bounds it saturates at.

| Theorem | States |
| --- | --- |
| Invariance, TypeCorrect | `Spec => []IInv`, `Spec => []TypeOK` |
| CountersAreFresh | CountersMatchState |
| GeometrySound | GeometryKept (RadiiBounded, FilterInSync, OutpostOneRadius) |
| ConfirmedBeforeTracked | TrackedIsConfirmed |
| BlindnessIsBounded | BlindBounded |
| FireIsRationed | FireSpaced |
| ModeCounterSound, ModeSwitchSound | ModeFollowsSpin, ModeSwitchJustified |
| IdentityKept | IdentityStable |
| Refinement | `Spec => Engagement!Spec` |

**BaSolverProofs**, from `BaAssumption` (integer places, a window of at least two, a
natural bound). The invariant ties the history of the last two detections to the last
entry of the window (`RecentSound`): without it, that the third of three steady
detections is reported does not follow from the window alone, since a jump empties
the window together with the pose that jumped.

| Theorem | States |
| --- | --- |
| Invariance, TypeCorrect | the invariant, TypeOK |
| WindowSound | InStep and WindowCoherent |
| SteadyReported | SteadyIsReported |
| Refinement | `Spec => Reports!Spec` |

**CameraDriverProofs**, from `CameraAssumption`. `HandleSound` is not inductive: after
StartGrabbing the handle grabs and the flag does not say so yet. `StreamIsFlagged` says that
this is the one step in which they differ and that no retry is pending once a stream runs.

**WatchdogProofs**, from `WatchdogAssumption` (durations and rates are natural numbers; a
watchdog runs in its window) and `SessionAssumption` (a session that has Vision has a window
Shell too, unless the first guard runs in the session: the case `guard_dog.cpp:84` of the
disagreements is left out). Any
timing, layout of the session and place of the first guard. Neither property of the handover
is inductive. `IInv` adds that the one guard that waits for its own end is at home, while a
watchdog is gone in the step that makes its successor; that the window Vision is gone when a
new one is made; and that a guard at home has a window that stays, without which `new-window`
would fail and nobody would succeed it.

`HealthyIsKept` is a theorem about time, under the condition `BeatsInTime`:

    MinRate > 0  /\  Second > 0
    StartTicks + AttemptTicks - 1 + BeatTicks  <=  BootTicks + Timeout
    2 * CtorTicks + BeatTicks  <=  Timeout

where `AttemptTicks` is how many ticks 201 callbacks take at most and `BeatTicks`, a second
more, the time from one beat to the next. The first line is the first beat of a new pipeline,
which takes two attempts, against the start of its guard; the second one is the guard that
sleeps twice in its constructor, makes the session in between, and misses the beat just before
it subscribes. Both are tight on the instances tried: with either one tick shorter TLC finds a
live pipeline that is restarted. For the code's 1 s sleeps and 5 s the second one asks for 23 callbacks in each
250 ms, 92 per second (64 where the session is there when the guard starts, which is
not assumed here), and the first one for a pipeline that is up, at this rate, no later
than the guard. The invariant (`TInv`) bounds the time to the next beat of every live pipeline
by what is left of the guard's patience. `DueIn` is that bound, on the callbacks counted, those
of this tick, and the clock of the publisher; it falls by one in a tick (`TickIsDue`), and
a beat sets it to `BeatTicks` (`FrameIsDue`). Then a guard whose patience is over has no live
pipeline, and only `KillVision` ends it (`OnlyKillVision`).

**SerialDriverProofs**, from `UartAssumption` and `SerialAssumption`: a list of devices of any
length, of any kinds and settings; frames of any size, any number of
them, data of any look (`Looks` is any set of sets of places, all of them equal to HEADER included), pieces of any size, any number of lost
bytes. The invariant of the port (`PortInv`) adds that, while devices are
tried, none before the present one works. That of the line (`LinkInv`) says how far the
receiver has read: there is a byte (`Progress`) such that all that was sent after it is on the
wire, in order, or lost, and nothing that was delivered is after it. A spoilt delivery has a
byte to blame that was lost or looks like a header, between the end of the delivery before and
its own last byte (`Delivered`); what is inductive beside it is that a header that was read is a
whole one or came after such a byte (`Synchronized`). That each delivery begins in a later frame is
a matter of distance: a header and the data make a frame's length, so that what ends a delivery
is far enough from its beginning (`Apart`). A flush of what has arrived only moves the receiver on.

**ArmorIdentifierProofs**, from `IdentifierAssumption`: any scenes, images, answers of the
classifier. The invariant adds the fields of the message object that serves all frames. What
`match_light()` yields, pairs that fit and, of three bars, one at most, is proved of the recursive
function itself: that the recursion has a solution (`MatchLightIsRecursive`), and that one pair
more keeps both (`AcceptKeeps`), whatever heights and angles say.

**FoxgloveBridgeProofs**, from `TopicAssumption`, `ServiceAssumption`, `AdvertAssumption` and
`DefinitionAssumption` (finitely many topics, services and types, publishers with a natural
depth; advertisements for types; definitions of types of which none depends on itself): any number of clients, topics, publishers, services and calls
in flight, and any interleaving with the graph thread.

* The invariant of the channels, `CInv`, bounds their numbers by the server's count, from which
  follows that a new channel never takes the place of an old one; the refinement has one
  lemma per operation that clients see, and one for all the others.
* `QosFits` speaks of the sum of the depths of the publishers of a topic. The sum exists and
  bounds each depth and their number by induction over the set of publishers.
* `ChannelsDescribed` speaks of what `get_full_text()` computes for every type and every set of
  files. That the recursion over the dependencies has a solution needs a witness
  (`WalkIsRecursive`); that a walk ends is an induction over pairs of numbers in lexicographic
  order, since each step marks a type as seen or shortens the list (`WalkEnds`). What holds
  during a walk (`Describing`) is that the text, what was seen and what is still to do agree,
  each type once, and that nothing else than what can be reached is in them. At its end the
  text is the least closed set.
* The invariant of the calls, `SInv`, says that a call without an outcome is in one place
  (`OnePlace`: not made, in the handler, or in one entry of one table) and that a request on
  its way is noted under its number, or is about to be with the lock taken that its answer
  needs (`Noted`). Without the second half of `Noted` the answer that overtakes the note would
  refute `NoUnknownAnswer`.
* That a topic or a service is advertised at last is liveness. Its safety half is proved:
  `NoTopicIsMissed` and `NoServiceIsMissed` (stated in this module) say that the graph thread,
  when it has brought the tables up to date and its event is not set, has left what the graph
  has, and that this stays so until the event is set. The invariant, `Fresh`, is that what the
  thread has read and not yet used is what the graph has unless the event is set; it rests on
  the event being cleared before the graph is read, and fails when it is cleared afterwards.
  The services are compared by name only, as the code does, so a service that comes back with
  another type keeps the old one.

**ParameterInterfaceProofs**, from `ParamAssumption`: any clients, nodes, optional parameters and
lists. The invariant adds that a node that failed is not asked again, that only who holds the
mutex asks (`Asking`), and that one holds it (`Alone`): that is why what a get reports of nodes
that did not change by themselves is what they have at one moment, though sets declare and delete.

| Module | Theorem | States |
| --- | --- | --- |
| CameraDriverProofs | TypeCorrect, HandleIsSound, StreamLeftAlone | TypeOK, HandleSound, StreamIsLeftAlone |
| WatchdogProofs | TypeCorrect, OneGuardSuffices, WindowsAreSound, HealthyIsKept | TypeOK, OneGuardActs, WindowsSound, HealthyIsLeftAlone |
| SerialDriverProofs | TypeCorrect, PortIsSound, DeliveriesAreSent | TypeOK, PortSound, DeliveredIsSent |
| ArmorIdentifierProofs | TypeCorrect, WholeIsPublished, NumberIsFresh, ColorIsFollowed, FewBarsAreUnshared | TypeOK, PublishedIsWhole, NumberIsOfThisFrame, ColorFollowed, FewBarsUnshared |
| FoxgloveBridgeProofs | ChannelsAreSound, LinksAreKept, QosIsSound, DescriptionsAreWhole | ChannelsSound, ImplementsTopicLinks, QosFits, ChannelsDescribed |
| FoxgloveBridgeProofs | AnswersAreMatched, AnswersAreKnown, JsonIsParsed | AnswersMatch, NoUnknownAnswer, JsonHasParser |
| FoxgloveBridgeProofs | TypeCorrect, TopicsAreFollowed, ServicesAreFollowed | TypeOK, NoTopicIsMissed, NoServiceIsMissed |
| ParameterInterfaceProofs | TypeCorrect, SubscriptionsServed, AnswersComplete | TypeOK, NodesServed, AnswersWhole |

Each module also proves its invariant (Invariance; the bridge has two, ChannelsInvariance and
CallsInvariance).

The induction theorems of the library take an operator as a parameter, which the provers
cannot instantiate. Where a proof needs induction, over numbers, finite sets or pairs, the
statement is made a set, and the least element outside it (`WFMin` of WellFoundedInduction)
refuted.

Only model-checked: the liveness properties (LossIsResolved, Recovers, EveryFrameArrives,
Connects, EveryTopicAdvertised, EveryServiceAdvertised, ShutdownEnds, MutexReturned), which
are out of the prover's reach. Every other property of a passing run is a theorem.

## 5. What is not modelled

* Image processing, the neural net, PnP, bundle adjustment, the Kalman filter and the
  ballistics: numbers without control. Their results are inputs of the models.
* In the identifier: the serial callback with its two buffers and the target callback,
  which feed only debugging output, and the regions of interest, whose use is commented
  out.
* In the bridge: the websocket server; `fetchAsset()`, which reads a file and keeps nothing;
  `rosMessageHandler()` and the clock, which pass on what they get; the map of the definition
  cache, which two threads change without a lock (undefined behaviour inside the map, with
  no outcome to enumerate); the values of parameters and their conversion
  (`param_utils.cpp`). An exception of the graph thread's first look (:152-153) is outside its
  `try` and would end the process; when the node shuts down before it, `get_topic_names_and_types()`
  may throw one.
* The trajectory compensator: formulas of which most are commented out; the simulation in
  `rcia_vision_utils`, an offline tool.
* Markers, debug topics, drawing, logging; launch files and parameters, which are the
  constants of the models.
* In the tracker node: the tf2 message filter and an exception of its transform.
* In the serial node: a device that is unplugged (every read then throws and is
  logged for ever), and publishing what was received.

## 6. Plan

Done: the tracker with its node and the refinement (the most important behaviour: when
the gun moves and fires), the watchdog, the math solver and its refinement, the serial
driver, the camera, the identifier with the matching of lights, the Foxglove bridge with
its parameter interface, its definitions and the refinement of its channels; proofs of all
safety and action properties of these, and of the refinements.

Next, in this order:

1. `ControlContainer`: serial driver, math solver and tracker on their one executor
   thread, with the blocking read. Property: a silent line does not stop the answers to
   frames; and what the tracker promises behind a solver that keeps some frames to
   itself (composing SteadyReports with TargetEngagement).
2. `BeatsInTime` for each layout by itself: where the session is there from the start the
   guard sleeps once.
3. `GimbalControl`: `selectBestArmor` and the two aims of `solve()`.
4. `LightMatching` against a reference definition over all small sets of bars: which pair
   survives does not depend on the side of the shared bar.
