# A TLA+ verification of the msm8916-common device tree

This directory models the native programs of `android_device_motorola_msm8916-common`:
the GPS HAL with its thread, queue and timer library, its location engine and its
connection to the location daemons; the sensor HAL, the daemon of the compass and the
tools of the sensor hub; the camera wrapper and the light service. Everything is
written from the source under `src/`; the sections below say in words what each
module stands for, and `PROJECT.json` ("map") gives the lines of each definition.

Run a model with `tlc -config <cfg> <module>` and check a proof with
`tlapm <module>`; `PROJECT.json` ("runs") lists which configuration belongs to
which module and what it is expected to show.

## 1. The system

### Inventory

| Part | State it keeps | Operations | Talks to |
| --- | --- | --- | --- |
| `LocThread` (gps/utils/LocThread.cpp) | a reference counted delegate shared with the worker; `mRunnable`, `mJoinable` | `start`, `stop`, destructor; `threadMain` on the worker | its runnable |
| `msg_q`, `linked_list` (gps/utils) | a list of messages, `unblocked`, a mutex, a condition variable | `snd`, `rcv`, `rmv`, `flush`, `unblock`, `destroy` | senders and receivers on any thread |
| `MsgTask` (gps/utils/MsgTask.cpp) | one `msg_q`, one `LocThread` | constructor, `sendMsg`, `run`, `destroy` | the two above; every adapter owns one |
| `LocTimer` with `LocHeap`, `LocSharedLock` (gps/utils) | the client's delegate, a heap of delegates, a timerfd in an epoll set | `start`, `stop`, destructor; three heap messages; the poll thread | a `MsgTask`, the kernel, client callbacks |
| `loc_eng_ni` (gps/loc_api) | two sessions: request, id, response, flag, lock | request handler, `respond`, engine restart, one thread per request | adapter `MsgTask`, framework, modem |
| `loc_eng_agps` (gps/loc_api) | a subscriber list and a four-state machine per data connection | subscribe, unsubscribe, resource events, data call retries | framework, modem, timers, daemon connection |
| `loc_eng`, `LocEngAdapter`, `loc.cpp` (gps/loc_api) | session, mute and engine status, pending aiding data deletion, position mode; configuration, servers, power vote, measurement callback | start, stop, reports, configuration, engine up and down | adapter `MsgTask`, framework, modem |
| `loc_eng_nmea` (gps/loc_api) | the satellites the last fix used, masks and dilutions of precision for the next position | sentences of a satellite report and of a position | `loc_eng`, framework |
| `LocApiBase`, contexts (gps/core) | a table of adapters, an event mask, the client of the modem | add and remove an adapter, open and close, dispatch of modem events | adapters, modem |
| `loc_eng_dmn_conn` (gps/loc_api) | server thread and its flags, pipes | launch, wait, unblock, join; framing of messages; two request handlers | location daemons, `loc_eng_agps` |
| GPS utilities (gps/utils) | none shared | configuration parsing, target detection, logging | files, properties |
| Sensor HAL (sensors/STML0XX) | enabled sensors, delays, pending events, poll fds, one buffer for attribute names | activate, batch, flush, poll | sensor hub driver, compass driver |
| Sensor hub tools (stml0xx.cpp, sensorhub.c) | the firmware of the hub; the mask and parts of its algorithms | boot, bootfactory, reset; open, enable, algo_req | sensor hub driver |
| `akmd` (sensors/8916_ak09912_akmd_6D) | calibration, its file, two threads, `g_stopRequest` | wait, load, measure, join, save | compass driver |
| Camera wrapper (camera) | settings of each camera, the callbacks, the vendor's module | open, close, release, set and get parameters, forwarded calls | vendor module, camera service |
| Light service (light) | the states of three lights, output streams | `setLight` | panel and LED drivers |
| Shims, overlays | none | string conversions, data | |

In the GPS HAL everything above `LocThread` reaches the modem through the same
discipline: HAL calls, modem callbacks and timers only send messages, and one
`MsgTask` worker handles them in order. The shared memory that escapes this
discipline is where the difficult behaviour is: the delegate of a thread, the queue
itself, the timer delegates, the timerfd, the sessions of `loc_eng_ni`, and the
settings of `loc_eng`, which a thread of the framework writes while the worker reads
them for a modem that came back. The sensor HAL and `akmd` share nothing but the
attributes and events of the compass driver; the other parts share nothing.

### What is hard, and what must hold

- **LocThread.** The client and the worker may each be the last to leave, a
  start may fail before, during or after the worker ran, and a detached worker
  outlives its `LocThread`. The delegate must be freed once and by its last
  user; `stop()` must return; a start reported as failed must run nothing.
- **msg_q.** One signal per message with several receivers, spurious wake-ups,
  unblock against waiting receivers. No wake-up may be lost, no message received
  twice, and the queue must be a first in, first out mailbox.
- **MsgTask.** It deletes itself on its worker, whose way out races
  `destroy()`. The task, its queue and its messages must be freed once and in
  order; an accepted message must be handled.
- **LocTimer.** A delegate is known to its client, a message, the heap and the
  expiry in progress; the poll thread disarms the timerfd concurrently with the
  worker that arms it. No delegate may be used after it was deleted or leak; no
  timer may be forgotten by the kernel; a timer ends in one stop or one callback.
- **loc_eng_ni.** A timeout, an answer of the user, an engine restart and the
  next request race for one session, and half of the accesses are outside its
  lock. The modem must get one answer per request, and the one the user gave.
- **loc_eng_agps.** The framework must hold a data connection exactly while an
  active subscriber needs it, over grants, denials and releases that come late.
- **loc_eng.** Start, stop, modem restart, mute and deletion of aiding data
  interleave as messages, and a restarted modem remembers nothing: it must end up
  in the session that is wanted and with the settings that hold now, and what was
  asked of an engine that is on must not be forgotten when it goes off.
- **loc_eng_nmea.** What a position uses was left by an earlier satellite report,
  and the other way round, and reports may be handled after the session they are of:
  nothing may survive a stop that was handled before it, and the sentences of one
  report must agree.
- **Daemon connection.** The launch waits under an `if`; a read may fail in the
  middle of a message; grants and denials cross requests and releases. Calls must
  return, messages must be taken whole and in order, and the daemon must not believe
  in a connection that is gone, which a restart of the modem may take from it.
- **Sensor HAL and akmd.** Sensors share bits, delays, attributes and the buffer for
  their names; one hub record may make two events; the daemon may be killed between
  two steps. What is on must be served, the caller's buffer must do, events must go
  on coming, and the calibration must be kept.
- **Sensor hub tools.** The power may fail while the hub is half written, and any
  ioctl may be refused. The hub must come out of it, the tool must end.
- **Camera, light.** Globals shared by all cameras and written piece by piece;
  three lights and one LED.

`PROJECT.json` ("hazards") has each hazard at its line with the properties that
cover it.

## 2. The modules

    abstract           Mailbox            TimerService
                          ^                    ^
    GPS     LocThread  MsgQueue  LocHeap --> LocTimer    LocEngNi  LocEngAgps  LocEng  LocEngConf  DaemonConn
                 ^        ^
                 +MsgTask-+

    sensors      CompassDriver <-- SensorHal, Akmd <-- Sensors
    the rest     LocThread, MsgQueue, Nmea, CameraWrapper, Light, Stml0xx, SensorHub <-- Parts

    proofs       Threads_proofs (LocThread, MsgQueue)  MsgTask_proofs  LocEngNi_proofs  LocEngAgps_proofs
                 LocEng_proofs  LocEngConf_proofs  Services_proofs (DaemonConn, LocHeap, LocTimer)
                 Parts_proofs (Sensors and Parts)
    for TLC      MCMsgTask MCLocTimer MCLocEngNi MCLocEngAgps MCLocEng MCLocEngConf MCDaemonConn
                 MCSensors MCParts

`MsgTask` instantiates `LocThread` and `MsgQueue` and takes their actions as its
own steps. `MsgQueue` implements `Mailbox`, and `LocTimer` and the `LocEng...` modules
then treat the message task as that mailbox: a sequence of messages that is handled
in order. `LocTimer` implements `TimerService`. `Sensors` composes the HAL and the
daemon around the driver of the compass: each has its own variables, and both
act on those of `CompassDriver`. `Parts` puts the parts that share no state, a thread object
and a queue by themselves among them, under one specification, one at a time, because a
run each would ask nothing more.

Definitions whose name says what is wrong with them (`DestroyDropPreDecrement`,
`SendsBeforeDisarming`, ...) stand before the definition they vary. No
specification uses them: each is a plausible bug of the code that a property of
the module must catch, and `PROJECT.json` ("mutants") pairs them.

### LocThread

A delegate and its worker have the same name. `pc` says where the client and
each worker stand; a step is one read or write of memory both use, or one
critical section of `mMutex`. `Construct` is `new LocThreadDelegate` up to
`pthread_create()`, which may fail (`created`); `CreateTest` is the test of
`isRunning()` in `create()`, at which time the worker may have finished; `Stop`,
`Dtor`, `StopRunnable`, `Join` are `stop()` and the destructor;
`DestroyTest/Drop/Delete` is `destroy()` for either thread; `Entry` to `Reap`
are `threadMain()`. Left out: thread names, scheduling attributes, and the
`tCreator` callback, which does what `pthread_create()` does.

The reads and writes of `mRunnable` without a lock are modelled as atomic: every
interleaving of them is explored, values that are neither the old nor the new
pointer are not.

### MsgQueue

Every function but `msg_q_rcv()` is one critical section and one step.
`msg_q_rcv()` is `Rcv` up to its return or its wait, and `RcvWake` from the end
of each wait; `Spurious` lets a wait end for no reason. `Signal` wakes one
waiter if there is one. `SndNoMemory` is `linked_list_add()` that fails. The list
is a sequence. `fate` records what became of each message. `msg_q_destroy()` is
part of `MsgTask`, its only caller; `msg_q_rmv()` has no caller.

### MsgTask

The owner's place is `opc`: construction, then `destroy()` as unblock, clear,
release, or delete if there is no thread. The worker's `run()` is `Receive`,
`Handled`, `Failed`; `Reap` is `delete runnable`, here `delete` of the task with
the flush and destruction of its queue. `SendMsg` is called by anybody before
`destroy()` and by the `proc()` of a message at any time.

### LocTimer

`start`, `stop`, `Delete` are the clients' calls. `PushProc`, `RemoveProc`,
`ExpireProc` are the `proc()` of the three heap messages; an expiry is split at
each read of memory that clients may write (`ReadClient`, `StopClient`,
`CallbackReturns`, `PopNext`), and the update of the kernel's deadline at
`AddPoll` and `SetTime`. The poll thread goes through four places. A delegate is one of
the `Rankables` of the heap and is used for one `start()`.

`LocHeap` is the tree of `LocHeap.cpp` as pure operators, with its sizes, rotations and
removal of any node. Its recursions are functions over `Nodes`, the finite trees of
`Rankables`, which `NodesOf` builds by their height; each method takes `rank`, which stands
for the data it compares by. `checkTree` is the check of the same name, part of
`TimerTypeOK`, and `HeapIsOne` in `MCLocTimer` runs six pushes, any two removals and all
pops against the set they should leave, in order.

Left out: one of the two containers, the C wrapper `loc_timer_start` and `loc_timer_stop`,
and the end of the poll thread on an `epoll` error. A `LocTimer` is deleted by its own
callback only, as this repository does.

### LocEngNi

`Take` and `Ignore` are `loc_eng_ni_request_handler()`, `Spawn` its end: the
thread and the notification. `ResetFree`, `ResetNullify`, `ResetWake` are
`loc_eng_ni_reset_on_engine_restart()` for each session, split where the code
reads and writes `rawRequest` without the lock. `Loop`, `TimeOut`, `TimedOut`,
`ClearID`, `SendResponse` are the request's thread; `Respond`, `RespondIgnore`,
`RespondAnswer` are `loc_eng_ni_respond()`; `Deliver` is the message to the
modem. `userSaid`, `answers` and `frees` record what happened to a request.
Left out: the mute of a session by a privacy override request, calls before
`loc_eng_ni_init()`, and more than one framework thread: the HAL serialises them.

### LocEngAgps

`mStatePtr` and `sub` are the state and the subscribers of each machine, `msgs` the
queue of the adapter's `MsgTask`. The operators named `Subscribe...`,
`Unsubscribe...`, `Granted`, `Denied`, `ForceReleased`, `Closed` and `EventIgnored`
are the cases of the four `onRsrcEvent()` functions; `Ask` is the test and the
call in `sendRsrcRequest()`, `RequestFails`, `Busy` and `FallBack` what "ds" does when
the data services refuse; `Notify` is `notifyRsrcStatus()` for the modem's two kinds
of subscribers. Each `...Proc` is the `proc()` of a message, `RetryCallback` the
expiry of the retry timer.

The framework and the data services are modelled from how they are called: they
look at what they are asked (`asked`) in order, open a connection or not, close
it, and may lose it at any time. The framework reports a denial to its machines,
the data services only "opened" and "closed". A connection that is already open is
granted again. The modem makes each request under a new handle, may release it
until it was told refused or closed, and forgets its handles when it restarts;
`told`, `answers` and `released` record what it was told and did.

Assumed: a subscriber that was just deleted still compares by its ID in the loop of
`notifySubscribers()`, which goes on with a pointer to it; `retryCallback()` is one
step. Left out: the BIT subscribers of the daemon connection, which are in `DaemonConn`,
WIFI subscribers, which nothing creates, APN and bearer, `mEnforceSingleSubscriber`
(always false), and the destructor.

What the model shows of "ds", and why `AnswersFit` and `CallsAreAnswered`
are about ordinary requests only: a release of an emergency request in the
released state, between two tries, tells the modem "closed" and leaves the
subscriber in the list, so that the retry opens a call nobody wants; after a
fallback the subscriber is in the list of "ds" and in that of "agnss"; and a
request that fails when the machine leaves the releasing state is not
looked at, so that the machine is pending with nothing asked. `PendingIsRequested`
leaves "ds" out for the last of these.

### LocEng

The framework's calls (`loc_eng_start`, `loc_eng_stop`, `loc_eng_set_position_mode`,
`loc_eng_delete_aiding_data`, `loc_eng_cleanup`) become messages, and so do the modem's reports
(`ModemOn`, `ModemOff`, `ModemReport`, `ModemMute`); each disjunct of `MsgTask` is the `proc()`
of one, with all it changes. `mNavigating` and `mFixCriteria` are the adapter's, `modem` is what
the modem does: it restarts (`handleEngineDownEvent`), comes up, and is opened by
`LocSsrMsg`; `handleEngineUpEvent` sends the message whose handler,
`loc_eng_handle_engine_up`, starts the fix again. A position is one of five kinds,
by the way it takes through the handler. `wanted`, `asked` and `shown` record what the
framework wanted and was last shown. `StartAnswers` are the ways `loc_eng_start_handler`
tells apart: PHONE_OFFLINE and INTERNAL (`"offline"`) leave the adapter in a session the modem is
not in, as ENGINE_DOWN does. `deletion` records what became of each kind of aiding data the
framework asked to have deleted: on its way (`asked`), in the field until the engine is off
(`waiting`), overwritten there by a later request (`replaced`), still there when a restart turned the engine
off (`left`), deleted, or asked of a modem that was away (`failed`).

### LocEngConf

`copy` is what the engine keeps of each setting, `holding` the value the message task
has read of one and not yet sent, `outgoing` what a restart still has to send, `msgs` the queue.
`Updated`, `Fixed` and `Servers` are three sorts of settings by the way they are sent:
those of `configuration_update()`, those only the files set, and the servers, which wait
for the AGPS interface. `given` records what the framework last set of each server, which the
copy loses at the first `loc_init`. `behind` records the settings the code does not promise: those
overtaken by an older value, a lock that found the modem away, data availability without an APN, and the
servers the first `loc_init` cleared.

### Nmea

`LocEngReportSv` flags the satellites of a report by the last fix and splits them into
sentences; `LocEngReportPosition` writes the active satellites and the position from the
masks the report left, and clears them (`generate_sv`, `generate_pos`). Neither looks at a
session, and so they come at any time, a position that was queued before a stop after it too;
`StartFix`, `LocEngStopFix` and the restart, `LocEngUp`, begin and end a session, and `fix` records the
last fix handled since the last stop. A sentence is a record
of what it lists and announces. The numbers of GPS and GLONASS are the bits of a mask of 32;
`Nth` is the nth number of a set, by which the loops over a mask and over a list are written.
The loops of GSV share one index: `Stops` says where each sentence leaves it, `StopAfter`
how the next goes on from there.

### DaemonConn

`owner` is whoever launches the server: `launch_thelper`, `thelper_signal_wait` and
`Launched`, then `server_unblock` in two steps and `join_thelper`. The thread is
`proc_init`, `thelper_signal_ready`, `ReadHeader`, `ReadBody` and `proc_post`. The pipe
holds headers and bodies, because a read of one may fail (`Fault`). `Proc` is the message task:
`LocEngReqRelBIT` makes the daemon a subscriber (`subscribeRsrc`, `unsubscribeRsrc`) and
`LocEngReqRelWifi` refuses; `Granted`, `Denied` and `Released` are the events of the
framework. A response carries neither address nor interface: `told` is what a
daemon that asked for one at a time can infer. `loc_eng_handle_engine_up` is what a restart of the
modem does here: it drops the subscribers of all interfaces, leaves their states and tells
nobody; `dropped` records whom, until the next response. A launch may have no thread,
and know it (`pthread_create()`) or not (`create_thread_cb()`, which the launch never asks).

### SensorHal, CompassDriver, Akmd, Sensors

One sensor stands for each group that takes the same way through the HAL: two that
share the accelerometer with it, two magnetic and two orientation sensors, two glance
gestures that share a bit, one sensor of a kind of its own for each list. A
call of the framework computes its writes of attributes at once and then makes them one by
one, each in two steps, the name into `input_sysfs_path` (`Point`) and `WriteAttribute`,
between which `poll()` may put another name there; an attribute whose write met
another name is in `lost`. `poll()` goes through the hub and the
compass with the count of slots left. `Akmd` has `main` and `thread`: the calibration
goes from the file to `prms`, is changed by the thread and saved after the join.

### CameraWrapper, Light, Stml0xx, SensorHub

`CameraWrapper`: `camera_device_open`, `_close`, `camera_release`, `camera_set_callbacks`
(one global at a time), `camera_set_parameters` as far as it allocates and frees the
strings of a camera, and the calls that are forwarded. `Light`: the start of the service and `setLight` for the backlight
and the three lights of the LED, over streams that go bad. `Stml0xx`: the tool's
commands as a sequence of driver calls, with the retry of the download and the wait
for the hub. `SensorHub`: the module's four operations, each with its refusals by the driver.

## 3. The runs

| Run | Question | Result |
| --- | --- | --- |
| `msgtask` | Are task, queue and messages freed once and in order, are accepted messages handled? | holds |
| `loctimer` | Are delegates freed once, is no timer forgotten, is the timer service implemented? | holds |
| `ni` | One answer per request, every payload freed, no session busy for good? | holds |
| `ni_consent` | Is an answer sent to the modem the one the user gave (loc_eng_ni.cpp:105)? | violated |
| `agps` | Does each machine fit its subscribers, does nobody wait for nothing, is every request and release answered? | holds |
| `loceng` | Does the modem end up in the session that is wanted, with its criteria and nothing left behind, across a restart? | holds |
| `loceng_aiding` | Is what was asked for while the engine is on deleted when it is off (loc_eng.cpp:2226-2228)? | violated |
| `locengconf` | Do the settings, the lock and the registration for measurements reach a modem that restarts? | holds |
| `locengconf_servers` | Is a server that is set before `loc_init()` kept and sent (loc_eng.cpp:2688-2690)? | violated |
| `dmnconn` | Are messages taken whole and in order, is what the daemon was told true, do launch and stop return? | holds |
| `sensors` | Are the sensors that are on served across the HAL, the driver and the daemon, is the calibration kept? | holds |
| `parts` | Is a delegate freed exactly once and by its last user, does `stop()` return, does a failed start run nothing? Does the queue implement the mailbox, without a lost wake-up? Do NMEA sentences agree, are settings freed once and callbacks delivered rightly, does the LED show the right light, does the hub recover, do its algorithms follow their parts? | holds |

`PROJECT.json` ("findings") quotes the comments the three violated properties are taken from.

- `ni_consent`: an answer that comes as its request times out is kept in the session
  and sent as the answer to the next request.
- `loceng_aiding`: aiding data waits for the engine to go off, the modem restarts, and the
  restart reports the engine off without a look at the field
  (`loc_eng_handle_engine_down()`). All messages are handled, the engine is off, and nothing was deleted. A
  second request in a session loses the first one likewise.
- `locengconf_servers`: the framework sets a server, calls `loc_init()`, which clears it, and
  initializes the AGPS interface, which finds no server to send.

### Departures the properties allow for

A property that holds says what the code does. Where the code does less than one
would like, the property excepts it by name, and the state is in the model:

- `stop()` may null `mRunnable` before the worker has read it; the worker then leaves
  without deleting the runnable (LocThread.cpp:179, against LocThread.h:75).
- `destroy()` writes `mThread` of a task the unblocked worker may have deleted
  (MsgTask.cpp:69), and `sendMsg()` ignores a queue that refused (MsgTask.cpp:77).
- The expiry of a timer stopped meanwhile pops the next one, whatever its time
  (LocTimer.cpp:367): `TimerService` promises no time.
- An engine restart frees the payload of a request without the lock (loc_eng_ni.cpp:283):
  `SettledOnce` states the single free up to the first restart.
- A grant or denial names a machine and not a request, so that one for a request
  that was released meanwhile is taken for the next (loc_eng_agps.cpp:384).
- A restart of the modem loses the position mode: the adapter's criteria, which are sent
  again, have never had it (loc_eng.cpp:2986); `CriteriaInForce`.
- Aiding data that waits in the one field may be forgotten for a later request, or left there by a
  restart of the modem until the next status: `AidingDeleted` has both by name, and
  `loceng_aiding` shows what the comment would have instead.
- PHONE_OFFLINE and INTERNAL leave the adapter in a session that nobody starts again while the modem
  is up (loc_eng.cpp:2038; `refused` in `SessionFollowsWish` and `StartServed`).
- A setting that changes between the reading and the sending of its old value ends up with
  the old one in the modem, and a server set before the first `loc_init()` never reaches it
  (`behind` in `SettingsReachModem`; `locengconf_servers`).
- A position that is handled after the stop of its session sets the list of used satellites that the stop
  had cleared (loc_eng.cpp:809): the next session shows them until it has a fix of its own, and
  `UsedFollowsFix` is about the last fix handled since the last stop.
- RMC says a position is valid though it has no coordinates (loc_eng_nmea.cpp:383);
  `SentencesAgree` is about satellites and dilution only.
- The wait for the launch is an `if`: a wake-up nobody signalled ends it (`stray` in
  `CallsReturn`). A thread that `create_thread_cb()` did not create is not noticed, and the
  launch waits for it for good (thread_helper.c:319 and 128; excepted there too).
- A restart of the modem drops the subscribers of the interfaces (loc_eng_agps.h:242) and tells
  nobody: a daemon goes on believing in its connection, and an interface stays acquired for
  no one (`dropped` in `ToldWhatHolds`).
- Requests of wifi clients are always refused, releases too (loc_eng.cpp:1292).
- `delay_fusion` is given the delay of the sensor that changed last
  (AkmSensor.cpp:215-217): `CompassServes` bounds the delay of the magnetic sensors only.
- A write of AkmSensor whose buffer `poll()` overwrote goes to another attribute (`lost` in
  `CompassServes` and `Delivered`).
- Closing a camera frees the settings of all, and the callbacks are those of whoever
  set them last (CameraWrapper.cpp:498): `CameraSafe` holds while clients take turns.
- `bootfactory` flashes up to three times and then says it failed, whatever the hub
  does (stml0xx.cpp:317): `HubRecovers` asks nothing of its result.
- When the second ioctl of `algo_req()` is refused, asking again does not mend it
  (sensorhub.c:192; `refused` in `AlgoFollowsParts`).

### Bounds

- `msgtask`: three messages: one in hand, one queued, one sent by the first.
- `loctimer`: two clients, three delegates for as many starts, so that one stops and restarts its
  timer while the other's is in the heap; time 0 to 2, delays 0 and 1, so that a
  timer may be due at once or later than another. The heap alone is checked with six.
- `ni`: two requests, in one session after the other or in both, and one
  restart (`ni_consent` needs none). Everything that carries over from a request to a
  later one passes through the session and needs no third request.
- `agps`: two handles, which share a machine, use one each, or follow one
  another while what was asked for the first is still under way. They are used
  in order, since handles are alike. The modem sends only while fewer than two
  messages are queued; what the program and the framework send is not limited. One
  retry for the four of the code, so that the fallback comes within reach; one
  restart; ordinary requests for "agnss" only, because "internet" is the same
  machine without the fallback.
- `loceng`: four calls (a session that is started, stopped and started again, and a
  deletion of aiding data), one report of the modem and one restart, which may fall
  between any two of them; two modes, both recurrences, five kinds of positions. Of two kinds of aiding
  data the framework asks for both or for one (`Masks`), so that a later request may overwrite part of
  an earlier one. `loceng_aiding` has the same instance.
- `locengconf`: one setting of each sort, two calls, one restart: the change that
  crosses the sending after a restart needs one of each. Calls before the first `loc_init()` are not counted, since
  what they leave is one value of each copy. `locengconf_servers` needs no restart.
- `dmnconn`: four messages, among them a release that fits a request, a second
  address and a wifi client, and one that is too long; two of
  them in each of two launches, and one fault, which may be any; restarts of the modem at any time. A message
  of an unknown type, which the handler drops, is in the model and not in this run. The theorems hold
  for any number.
- `sensors`: four pairs of sensors: one that shares attributes of the compass, one the
  accelerometer, one the bit of a gesture, and one that shares nothing. The second orientation sensor
  would share "enable_fusion" as the second magnetic one shares "enable_mag": what it adds is left to
  the theorems, which hold for any sets. Three calls, room for two events and one for the reader, so that
  the slot kept back and the pending events matter; two delays, one fault.
- `parts`: two delegates, so that a detached worker of an earlier start is
  still running during the next; the state of one delegate never depends on a
  third (and the theorems hold for any number). Three receivers and three messages: one receiver
  can take the message another was woken for while a third sleeps. Five skies and four fixes with none, one sentence, mixed constellations, more
  than a GSA holds and the highest numbers of a mask; two cameras; levels 0, 1 and
  255 over panels coarser, finer and equal to the service's scale; an image of two packets, so
  that it may be half written, three tries and ten looks at the hub as in the code, one failure;
  two algorithms, three sets of parts.

### Fairness

Weak fairness is given to threads the kernel schedules, for steps that cannot
block for good: the client inside a call, a worker, a receiver that was woken, the
poll thread, the message worker, the clock. This assumes that `run()`, `proc()`
and callbacks return, which is the discipline of `MsgTask`. Nothing obliges
anybody to start, stop, send or answer. `FairSpec` of `LocEngNi` also lets a timed
wait end. In `LocEngAgps` the message worker, the retry timer and the framework's
look at what it is asked are weakly fair: the framework must answer, and may
always say no. In `LocEng` and `LocEngConf` a modem that went down comes up again, which
is external. In `DaemonConn` the server's thread and an owner inside a call go on; clients
need not write. In `Sensors` the poller, a call that was begun, and both threads of the daemon
run, the daemon is started again when it was killed (init does), and each of its
kinds of measurement falls due again. The tool in `Stml0xx` goes on while there is
power. Strong fairness is never used.

### What is assumed of the outside

- The framework serializes its calls of the GPS HAL, sets a position mode before each
  session, stops one before it starts the next and before `loc_cleanup()`; it never
  votes for power on its right. The modem forgets all but its non-volatile lock when it
  restarts, and refuses calls without a client. `UlpProxyBase` does nothing, as by default.
- Clients of the daemon connection write no more than `PIPE_BUF` at once, and the AGPS
  interfaces exist before the server. The modem uses none of them there: `LocEngAgps`
  has its requests.
- The sensor framework batches a sensor before it activates it, from one thread, and every
  sensor in use was batched once. The hub accepts the ioctls of the HAL and measures for
  sensors that are read; the compass driver refuses a value meant for another attribute.
- Each camera has one client that makes one call at a time, and the vendor's module opens a
  device once. The light service has one thread.
- The hub comes up from a whole image that is not bad, and from nothing else.

## 4. The proofs

Each theorem below holds of every run, for every value of the constants that its module's
assumption allows. Its proof has an invariant that the first state satisfies and every step
keeps, which TLC checked on the instance of the run before it was proved; what follows says
what that invariant adds to the property, and why it must.

### Threads and queues

**LocThread** (in `Threads_proofs`), for any set of delegates: `TypeCorrect` (the types),
`DelegateSafe` (`RefCountCounts`, `DelegateLifetime`, `DestroyFindsReference`),
and `FailedStartSafe`. The reference count alone is not inductive: a step may
touch a count only if the memory is live, and the memory is live only while a
party is counted. The inductive invariant `IInv` therefore says of each delegate
that it is live exactly while one of four parties (client or worker, holding or
deleting) uses it, that a live one's count is the number of holders, and that a
thread that deletes is alone. `StartInv` follows one delegate through `start()`.

**MsgQueue** (likewise), for any finite set of receivers and any messages:
`QueueTypes`, `MessagesHaveOneOwner`, `NoWakeupIsLost` (by counting woken receivers
against queued messages: `FS_` facts about the cardinality of a set with one
element more or less), and `QueueIsMailbox`, the step simulation of the safety
part of `Mailbox` under the refinement mapping of `MsgQueue`.

**MsgTask_proofs**, for any set of messages: `QueueSafe` (the queue and its messages are
freed by one of the two threads and never used after that) and `TaskUsesQueue`: every step
of a MsgTask is a step of `MsgQueue` or leaves it alone, which makes what `Threads_proofs`
proves of `MsgQueue` true of its queue. The invariant follows who frees what: the worker's `postrun()` if
its `prerun()` was reached, the destructor otherwise, and for that it says which places of the
owner and of the worker can be taken together.

### Location engine

**LocEngNi_proofs**, for any number of requests and restarts: `RequestsSettleOnce`
(`SettledOnce`). A request is in one place (`OnePlace`: its session, the hands of one thread,
one message in the queue, or with the modem), the modem has an answer only to requests
that are in none of the others (`Unanswered`), and a payload is freed when it has left them
(`Freed`). `SessionHasThread`, part of the property, needs in turn that a request between
the two halves of the handler is the last that arrived, and that no thread runs before it
is spawned.

**LocEngAgps_proofs**, for any number of handles, retries and restarts and every set of
machines the program can make: `AgpsTypes`, `StatesFitSubscribers`, `PendingAwaitsAnAnswer`
(`PendingIsRequested`) and `OrdinaryRequestsAnsweredOnce` (the action property `AnswersFit`).
`StateFitsSubscribers` needs three more facts to be inductive: only "ds" has inactive
subscribers (or another machine could reach the releasing state and wait there for
a report that changes nothing), the message of a restart is in the queue only after
a restart (or the lists could be dropped without one), and a denial of the data
services is never in the queue (a type fact, from which the cases of `Notify`
follow). `IInv` is their conjunction with the types. The other two rest on `Calls`: a machine
that waits has its request with the framework or the answer in the queue (`Awaited`), and
a handle that waits for an answer is at one place, a message in the queue or a list of
subscribers, which is why it cannot be answered twice. There is one lemma for each
operator a handler is made of, and `MsgTaskKeeps` and `OthersKeep` put them together, one
step per action.

**LocEng_proofs**, for any modes and kinds of positions and any number of calls, reports and
restarts: `SessionsFollowWishes` (`SessionFollowsWish`), `CriteriaAreInForce`
(`CriteriaInForce`) and `AidingDataDeleted` (`AidingDeleted`). The
properties speak of moments at which the queue is empty; `SessionInv` says what holds while
messages are on their way. Most of its parts have one form: either the last message
of some types says it, or there is none of them and it holds already. So `SessionTold`
(starts and stops against the wish of the framework), `EngineTold` (statuses against
the engine) and `CriteriaFit` (modes against what was asked for). Three more exclude that messages of
two sessions mix: a start finds the session before it stopped (`StartsApart`), a stop that comes
after the criteria of the next session ends nothing (`StopsFit`), and a mode that differs
from the session's in recurrence is replaced before the next start
(`RecurrenceFits`): without it a position could end a periodic session as if it were a single
one. `FixingFits` carries the session into the modem and `WillReopen` over a restart, where it
has no client until the message "up". `AidingFits` says where data that is to be deleted is: asked
for in a message of the queue, or in the field while the engine is shown on; that it leaves the field with
the status that shows the engine off needs of the session's invariant that the engine is
shown on only while it is, or a message that shows it off is still to come.

**LocEngConf_proofs**, for any settings, servers and values and any number of calls and
restarts: `SettingsArrive` (`SettingsReachModem`) and `LockArrives` (`LockFollowsPower`). What
makes them hard is that a setting is read from the copy in one step and sent in another while
the message task may read and send it too. `ConfInv` has, for each setting that the
modem was promised, that its value is still to be read, is held and sent after all that is
queued, is the last that is queued about it, or is in the modem (`Fits`); `HoldingFresh`
adds that a value that is held is the one of the copy, `ServersUnset` that nobody
sends a server that has no address, `InitLocked` that the lock that comes with the engine is always followed
by another. `GivenFits` carries the servers from the copies to what the framework gave: they differ
only of a server that `loc_init()` cleared, whose copy is 0 and which stays `behind` until it is set
again, because nothing reads or sends a server without an address.

**DaemonConn** (in `Services_proofs`), for any requests and addresses and any number
of messages, launches and faults: `DaemonToldWhatHolds` and `MessagesTakenInOrder`
(`HandledInOrder`). `ToldWhatHolds` of one interface is preserved by each
operation on it because every operation but the restart of the modem tells exactly those whose hold it
changes, and the restart records whom it drops
(`EventKeeps`, `SubscribeKeeps`, `UnsubscribeKeeps`); `IInv` adds types, and follows the
requests back to the pipe they were written to (`ServerTypes`), because the message
task can only subscribe an address a client may write. For the order, what was handled, what is
queued and what the pipe still has are one ascending sequence.

### Timers

`Services_proofs` also has the heap and the timers, for any finite set of delegates, any
clients and any times.

**LocHeap**: `HeapPush`, `HeapPop`, `HeapRemove` and `HeapPeek` say what the four methods do to
the data in a heap: a push adds its data, a pop takes out the one that nothing outranks, a
remove takes out the data it is given and nothing else, and all keep the order and the sizes.
That a remove finds its data is not obvious, since the search passes over each subtree whose
root the data outranks: it is the order of the heap that makes nothing of it lie there
(`FindsData`). The argument is an induction over trees, which the library's theorems, with
their operator parameters, do not give: here a set of trees that holds what is below each of
its trees holds them all (`TreeInduction`), from the least number a set of numbers has
(`Least`), which follows from the well-founded order of the natural numbers. A recursive function
satisfies its equation since one that does can be built layer by layer
(`SubtreesDef`, `NodePushDef`, ...). A push may make the tree higher, but a sound tree has as many nodes as
data, all different, and so never more layers than `Nodes` has (`Shallow`): what a push makes is
a tree again.

**LocTimer**: `DelegatesLive` (`DelegateLifetime`) and `TimersRemembered` (`NeverForgotten`)
follow from one invariant, `TimerInv`. `Lives` adds to the first property that the push of a
delegate is queued at most once, before its removal and not while it is in the heap, so that a
removal finds nothing left to come (`Orderly`), and `Stands` what the task has in its hands
at each of its places. The second is about the poll thread, which
disarms the timerfd and takes it out of the epoll set while the task puts it back and arms it,
in any order. What is invariant is `Watched`: when the task has put the fd into the set and is
about to arm it, the fd still is in the set, or the poll thread is about to send the report
that makes the task look again, or that report is queued. `ServiceImplemented` is the step simulation
of `Service!Safe`, the safety part of `TimerService`: the heap, messages, timerfd and epoll set
change nothing a client can see but in the steps that start, stop, fire or return.

### The rest

**Parts_proofs**:

- `UsedIsOfFix` (`UsedFollowsFix`) and `SentencesAreComplete` (`SentencesComplete`), for any skies of
  any length and any fixes. `NmeaInv` adds to both that the adapter keeps used satellites just
  when a fix was handled since the last stop, and those of the last one (`Kept`): nothing that was handled
  before a stop can be shown after it, whatever is reported outside of a session; and that
  the masks a position finds have only numbers of satellites (`Masks`), without which GSA
  could mix the two constellations. The sentences of GSV rest on what `Nth` finds in a finite set of numbers, and on an
  induction over the sentences: before sentence n + 1, the loop has passed 4n satellites of
  its constellation, the first ones, or all of them.
- `AlgosFollowParts`, for any algorithms and parts. `AlgoFollowsParts` is inductive as it
  stands, since `refused` keeps for each algorithm whether a call left its bit undone; without
  it the property fails at the first refusal, which `sensorhub_algo_req()` does not undo.
- `TurnsAreSafe` (`CameraSafe`), for any finite set of cameras. `CameraInv` adds that a
  misuse comes only after two cameras were open at once, and that until then the vendor's devices
  and the clients whose callbacks the wrapper keeps follow the one camera that is open.
- `LightsAreFollowed` (`LightsFollow`), for any levels, panels and failures: the LED and the panel
  show what the copies in the library say, and these are what was asked for, by the
  arithmetic of `rgbToBrightness()` and of its scaling.
- `RunsRecoverTheHub` (`HubRecovers`), for any number of packets and attempts. `StmInv` has what
  is known at each call of `main()` of the hub, of the mode the tool believes it in, of how much
  of the file was written, and of the retries that are left.
- `RoomIsRespected`, `SensorsAreServed` and `CalibrationIsKept`, for any sets of sensors in use,
  delays, intervals and faults, at least two slots for events and one for the reader. The first follows
  from one slot being kept back for a record of the hub that is two events, and from the pending
  events being cut to the slots that are left. The second speaks of moments at which no call is under
  way, so `WritesFit` says of a call that each of its writes still to come brings the value
  that its attribute must have by now, and that only the last may fail the call; `CompassFits`
  that an attribute nobody is about to write, and that was not written astray, has that value
  already (`Settled`); `AkmKnows` and `HubKnows` that what the framework was told is on is
  enabled where it is looked up; `HubFits` that the delay of the accelerometer is at most that
  of each of its users, whose minimum each operation takes over. For the third,
  `CalibrationFits` follows the calibration through the states of `main`: in the file while the
  sensors are off, in `prms` from there to the end of the save, with the thread
  joined before it is saved.

### Assumptions

`ThreadsAssumption`, `QueueAssumption` and `MsgTaskAssumption` only separate names (and
say that the receivers are finite), as `NiAssumption` does for the value `None`.
`AgpsAssumption`: the bounds are natural
numbers and the machines are those `createAgnssNifs()` can make. `HeapAssumption`: the delegates are finitely
many (which does not bound how many: each `start()` takes one and a run has finitely many before any
moment), and `NULL` is none of them and no tree. `TimerAssumption`: times are
natural numbers, and `NULL` is no client. `NmeaAssumption`: the lists of satellites are
sequences, and numbers of GPS and GLONASS lie between 1 and 32, as `GPS_SV_PRN_MIN` to
`GLO_SV_PRN_MAX` (gps_extended_c.h:247-250, less the 64 that NMEA adds to GLONASS) have it and the masks of 32
bits need. `LocEngAssumption`: the recurrences
and the kinds of positions are those the code tells apart, and "INVALID" is no mode.
`LocEngConfAssumption`: what `loc_eng_configuration_update()` sends, what
only the first start sends, and the servers are finite sets that have nothing in common. `DaemonConnAssumption`:
the messages are requests or releases of a sender and the bounds natural numbers.
`SensorHubAssumption`: parts are numbers, and no algorithm has the name of the movement
bits or of the mask. `CameraAssumption`: there is a camera, and finitely many. `LightAssumption`:
a colour is a byte. `Stml0xxAssumption`: there is a packet, and an attempt. `SensorAssumption`: the
delays are below the default of the hub, `poll()` has room for two events and the reader for one;
`AkmdAssumption` and `CallsAssumption`: intervals and bounds are natural numbers. TLC evaluates each in
every run of its module.

### Only model-checked

Liveness is, because the prover handles neither fairness nor `ENABLED`: `StopSettles`,
`DestroyCompletes`, `AcceptedIsHandled`, `RequestSettles`, `CallsAreAnswered`, `StartServed`,
`EventuallyConfigured`, `CallsReturn`, `Delivered`, `RateFollows`, `ToolEnds`, and of the two
refinements what they promise to happen: `ImplementsMailbox` beyond `QueueIsMailbox`, and
`ImplementsService` beyond `ServiceImplemented`, which is `Punctual` of `TimerService`. Every
invariant and every action property of a passing run is stated by a theorem. What
`MCLocEngNi_consent` refutes is, of course, not proved.

## 5. Not modelled

- **GPS utilities**: configuration parsing, target detection, logging: sequential string
  processing and I/O, with no state a step of another actor could disturb.
- **Shims, overlays and configuration**: conversions and data without behaviour.
- **loc_eng**: injections of time, position and XTRA data, certificates and reports that
  are passed through as they are; the zero power position; the ULP proxy, which is
  closed source; the answers to `get_extension()`; the callbacks into the framework, so that
  `loc_cleanup()` taking one away while it is called is a hazard without a property.
- **gps/core**: the table of adapters, which holds one here, and the contexts.
- **Timers**: the C wrapper and the second container.
- **Sensors**: the pipe that wakes `poll()`, the log of a hub that was reset, the values of
  events; of `akmd` the timers of its loop, the arithmetic of the library, the console modes
  and the factory test; a write that fails in `Init_Measure`. Of the hub's tools the commands that
  pass registers, debug and power settings through, and `poll()` and `algo_query()` of the module.
- **Camera**: what the settings say (the fix-ups of parameters), `send_command()`, the
  preview window and `dump()`; `get_parameters()`.
- Formatting everywhere: coordinates, times, checksums, log lines.
