# Verification of logiops

This directory holds TLA+ models of `logid`, the daemon that configures
Logitech HID++ devices, of the D-Bus server in `src/ipcgull` and of the Qt client
in `src/logiops-gui`. The models are checked with TLC on small instances; what
matters most is proved with TLAPS for every value of the constants. Paths below
are relative to the repository's `src/` unless they start with `src/`.

## 1. The system and its components

| Component | Source | State it keeps | Operations |
|---|---|---|---|
| raw I/O | `logid/backend/raw/IOMonitor.cpp`, `RawDevice.cpp` | `_fds`, the yield eventfd and flag, `_run_mutex`, per device descriptor and `_valid` | the `_listen` loop, `add`, `remove`, `_yield`, construction and destruction of a device |
| event handler lists | `logid/backend/EventHandlerList.h` | a list of handlers with marks, `mutex`, `add_mutex` | `add`, `remove`, `run_all`, `cleanup` |
| hotplug | `logid/backend/raw/DeviceMonitor.cpp`, `logid/DeviceManager.cpp` | `_devices`, `_receivers`, nicknames, the tasks of every node | udev events, enumeration, `addDevice`, `removeDevice`, retries |
| worker pool | `logid/util/task.cpp` | the priority queue, the condition variable, `workers_run` | `run_task`, `run_task_after`, `stop_workers`, the worker loop |
| HID++ transport | `logid/backend/hidpp/Device.cpp` | the expected sub ID and address, `_response`, `_send_mutex` | `_init`, `sendReport`, `sendReportNoACK`, `handleEvent`, `responseReport` |
| HID++ 1.0 transport | `logid/backend/hidpp10/Device.cpp` | one response slot per sub ID | `sendReport`, `responseReport`, register access |
| HID++ 2.0 transport | `logid/backend/hidpp20/Device.cpp` | one response slot per low nibble of the feature index | `callFunction`, `callFunctionNoResponse`, `responseReport` |
| receivers and pairing | `logid/backend/hidpp10/Receiver*.cpp`, `logid/Receiver.cpp` | waiters, pairing state, discovery and passkey events, `_devices` | connection events, `waitForDevice`, the pairing sessions, unpairing |
| device and profiles | `logid/Device.cpp`, `features/DeviceStatus.cpp`, `features/DeviceBattery.cpp` | profiles, active profile, awake, battery | `wakeup`, `sleep`, `setProfile`, `clearProfile`, `removeProfile`, `setBattery` |
| features | `logid/features/` | a reference to the active profile's settings, hardware state | `configure`, `setProfile`, D-Bus setters, wheel events |
| buttons, actions, gestures | `logid/features/RemapButton.cpp`, `actions/` | the action of every button, pressed keys, gesture progress | `press`, `move`, `release`, `setAction`, the tasks of actions |
| virtual input | `logid/InputDevice.cpp` | enabled event codes | `pressKey`, `releaseKey`, `moveAxis`, `registerKey` |
| configuration | `logid/Configuration.cpp`, `config/` | the parsed file, libconfig's tree | the constructor, `save`, `checkSaveAuthorized` |
| D-Bus server | `ipcgull/src/` | the node tree, the registry of interfaces, `server_lock` | method calls, property access, signals, adding and dropping interfaces and nodes |
| GUI client | `logiops-gui/` | the device list, shown values, dirty flag, editing models, calls under way | reconnects, live updates, edits, save, restore |

### How they interact

Three kinds of threads share the daemon's state, besides the main thread that
starts and stops it:

- the **I/O thread** (`IOMonitor::_listen`) reads every HID node. A report goes
  to `RawDevice`'s handlers (an event handler list), from there to the HID++
  device of that node, which takes it for an answer (`responseReport`) or runs
  its own event handlers: buttons, wheels, battery broadcasts, connection and
  pairing events of a receiver. Handlers run on this thread and must not wait
  for a device, because nobody else reads the answers;
- the **workers** (`util/task.cpp`) run what takes time: additions and removals
  of nodes, connection events, wakeups, battery notifications, the actions of
  buttons that change profiles, hosts or settings, the start of a Bolt pairing;
- the **dispatcher** (the GLib thread of `ipcgull`) runs the D-Bus methods with
  `server_lock` held; they change profiles, settings and actions, write the
  configuration file and start and stop pairings.

A request to a device is written by any of these threads and answered through
the I/O thread: the caller sleeps on a condition variable of the device with a
timeout. Feature objects keep references into the active profile of
`Configuration`, which two devices of one name share; the dispatcher and
`Device::setProfile` change what they refer to. Everything exported to D-Bus is
a node of `ipcgull`'s tree, and signals are emitted with `server_lock` taken. The
GUI is a client of that interface only: asynchronous calls whose replies arrive
in the order of the bus among the signals of the daemon.

### What is hard

- **Correlation of answers.** A slot per nibble of the feature index, per sub ID
  or one in all; answers that arrive late, never, as an error, for a request
  that nobody waits for; writes that fail after the slot was taken; attempts to
  recognise a node that read the answers to earlier attempts.
- **Lost wakeups.** The condition variables of the slots and of the task queue,
  the eventfd that takes the I/O thread out of `epoll_wait`.
- **Order of tasks.** Addition, removal and retries of one node or of one device
  of a receiver run on different workers; enumeration at start runs beside them;
  pairing sessions are started and stopped while tasks of the last are queued.
- **Lifetimes.** A callback may hold the last reference of the device whose
  events it handles; descriptor numbers are used again; features refer to
  profiles that a client removes; handlers and nodes are removed while others
  walk over their lists.
- **Locks.** Ten kinds of locks are taken in nested order by three kinds of
  threads; transfers are made with locks held, and the I/O thread takes some of
  those locks as well.
- **Lost updates.** Toggles and changes read a device, compute and write without
  a lock, beside setters and reconfigurations; gestures are retuned and actions
  replaced while a button is held.
- **Overtaken answers.** The GUI shows what it has asked for before it is
  granted, and reads back values that are edited meanwhile.
- **Partial failure.** A transfer may fail in the middle of a reconfiguration, a
  constructor after a nickname was taken, a write after the key was stored, a
  save after the file was truncated, an edit of two calls after the first.

`PROJECT.json` lists each of these at the line where it bites.

### What makes each component correct

| Component | Properties |
|---|---|
| transports | one caller per slot; a call returns its own answer, or one that came too late for an earlier call; an answer that arrived in time is returned; calls end; a node is taken for what it is |
| worker pool | a queued task has a worker that will look at it; tasks do not start early; every task runs |
| raw I/O | a thread that yields is heard; a callback never sees a closed device; `add`, `remove` and the monitor's end do not hang |
| event handler lists | no entry is erased under a round; each handler that stays is called once per event; none runs after its removal |
| hotplug | the list of devices follows what is plugged in; nicknames are distinct and given back; retries die out |
| device | the hardware has the settings of the active profile; features agree on the profile and refer to an existing one; operations end |
| locks | no circle of waiting threads; the thread that reads the answers never waits for a thread that waits for an answer |
| receivers | a device that connects is added, one that disconnects is removed; the device that is paired is the one the user was shown; daemon and receiver agree on what goes on |
| buttons, gestures | every press is paired with its release on the same action; keys do not stay down; a gesture goes as far as the pointer; one action per release |
| features | a value that is set is in the profile and in the hardware, within the ranges of the device, whoever else changes it |
| configuration | what was saved is what the next start loads |
| D-Bus server | the bus shows what exists at the path it was made at, from its addition to its removal; a known device can be called |
| GUI | the shown list and values follow the daemon's over hotplug, refusals and restarts; a change is saved or shown as unsaved |

## 2. Modules

| Module | Models |
|---|---|
| `ResponseSlots` | abstract: an array of locks, each carrying at most one answer |
| `Hidpp20Device` | `backend/hidpp20/Device.cpp`; implements `ResponseSlots` (`RS == INSTANCE ResponseSlots`) |
| `Transport` | what the next two share: threads, requests, the wire |
| `HidppDevice` | `backend/hidpp/Device.cpp`: `sendReport`, `handleEvent`, `responseReport` |
| `Hidpp10Device` | `backend/hidpp10/Device.cpp` |
| `VersionProbe` | `backend/hidpp/Device.cpp`: `_init`, `isStable20`; `Root`, `DeviceName`; the attempts of `DeviceManager::addDevice` |
| `TaskQueue` | `util/task.cpp` |
| `IOMonitor` | `backend/raw/IOMonitor.cpp`, the life of a `RawDevice` |
| `EventHandlerList` | `backend/EventHandlerList.h` |
| `DeviceManager` | `DeviceManager.cpp`, `backend/raw/DeviceMonitor.cpp` |
| `BusTree` | `ipcgull/src/node.cpp`, the registry of `server_gdbus.cpp`, how `Device`, `RemapButton` and `Button` put themselves there |
| `ReceiverMonitor` | connection events of `backend/hidpp10/ReceiverMonitor.cpp`, `logid/Receiver.cpp` |
| `ReceiverPairing` | pairing in `backend/hidpp10/ReceiverMonitor.cpp` and `Receiver.cpp` |
| `LogidDevice` | `Device.cpp`, battery and status features |
| `GestureKinds` | `actions/gesture/*.cpp`: the five gestures as operators on records |
| `GestureAction` | `actions/GestureAction.cpp`; uses `GestureKinds` |
| `Wheels` | events of `features/HiresScroll.cpp` and `ThumbWheel.cpp`; uses `GestureKinds` |
| `RemapButton` | `features/RemapButton.cpp`, `actions/KeypressAction.cpp`, `InputDevice.cpp` |
| `Settings` | `features/DPI.cpp`, `SmartShift.cpp`, the mode of `HiresScroll.cpp`, and the actions that change them |
| `ConfigFile` | `Configuration.cpp`, `config/types.h`, `group.h`, `schema.h` |
| `DaemonLocks` | the locks of all operations of the daemon |
| `DaemonConnection` | `logiops-gui/DaemonConnection.cpp`, `DeviceModel.cpp` |
| `DeviceController` | `logiops-gui/DeviceController.cpp`, its factory, `ConfigState.cpp` |
| `ProfilesModel`, `ButtonsModel`, `GestureModel` | the sources of these names in `logiops-gui/` |
| `Hidpp20DeviceProofs` | theorems about `Hidpp20Device`, with its refinement of `ResponseSlots` |
| `HidppDeviceProofs` | theorems about `HidppDevice` and `Hidpp10Device` |
| `ThreadsProofs` | theorems about `TaskQueue`, `IOMonitor` and `EventHandlerList` |
| `DevicesProofs` | theorems about `DeviceManager` and about the pages of the client: `DeviceController`, `ProfilesModel`, `ButtonsModel`, `GestureModel`, and their composition in `MCGui` |
| `ReceiverMonitorProofs` | theorems about `ReceiverMonitor` and `ReceiverPairing` |
| `LogidDeviceProofs` | theorems about `LogidDevice` |
| `InputProofs` | theorems about `GestureAction`, `Wheels`, `RemapButton` and `Settings` |
| `BusProofs` | theorems about `DaemonLocks`, `BusTree` and `DaemonConnection` |

`DaemonLocks` composes the components of the daemon through the locks they share;
the `MC…` modules compose those that run in one TLC run. Components that share no
state are composed as alternatives: a variable `focus` is chosen initially and
says which of them moves (`MCHidppDevices`: `Probe`, `Register`, `Recognise`;
`MCThreads`: `tasks`, `io`, `handlers`; `MCDeviceManager`: `two nodes`, `one node`, `bus`;
`MCReceiver`: `list`, `pairing`; `MCInput`: `gestures`, `wheels`, `buttons`,
`settings`; `MCGui`: `list`, `settings`, `profiles`, `button`, `gesture`, `file`).
Nothing is lost by that, since a step of one changes nothing another reads;
what two of them do share (locks, answers, a device's life) is modelled in
`DaemonLocks` and in the module of the device that has it.

Where a module gives the code's mistake a form (`SendMutexSkipped`,
`SaveBehindOld`, …), the comment starts with "Mutant": that operator is not part of
the specification; it replaces the definition after it to show that a property
would notice.

### How state and actions correspond to the code

**Hidpp20Device.** `feature` and `response` are the two fields of a
`ResponseSlot`. `Call` is the entry of `sendReport` up to `_response_mutex`;
`Sleep`, `SpuriousWakeup` are the wait for a free slot, `Send` and `SendFails`
the rest up to the wait for the answer (one critical section of
`_response_mutex`), `Return` and `Timeout` the two ends of `wait_for`. `Answer`
is `responseReport` on the I/O thread for a report of either kind. The device is
an adversary: it answers a request it has at any time, or never.

**HidppDevice.** `_send_mutex` serialises whole transactions, so the steps are
finer: `Begin` (the mutex and `_sent_sub_id`, written before `_response_mutex`
is taken), `Write`, `WriteFails`, then as above. `Event` is a report the device
sends of its own accord; it may carry any key.

**Hidpp10Device.** Like `Hidpp20Device`, by sub ID, with four slots, and with
`AccessNoResponse` for `setRegisterNoResponse`, whose answer looks like any.

**VersionProbe.** `stage` is the place in the constructor, `asked` the requests
the device has not dealt with, in order, those of ended attempts included. One
thread recognises a node, so that a request and its answer are all there is;
`Reply` and `Refuse` are answers and error reports, `Lose` one that never comes,
`GivesUp` the timeout. The first construction takes the node for HID++ 1.0 or
2.0, the second, as `hidpp20::Device`, reads the name.

**TaskQueue.** `tasks` is the priority queue; `Loop`, `WakeIdle`, `WakeTimed`,
`WaitExpires` are the stretches of `worker()` between two points where it gives
the mutex up. `NotifyOne` picks any waiter, also one that waits for a later
task. `SpuriousWakeup` notifies a waiter without cause.

**IOMonitor.** `run` and `yield` are the two mutexes, `signal` the eventfd,
`fds` the registered descriptors, `batch` what `epoll_wait` returned. Every
lock, unlock and system call of `_listen` and `_yield` that another thread can
see is a step. A device is opened, added, dropped by its owner and destroyed
by whichever thread has the last reference.

**EventHandlerList.** The list is a set of entries, numbered as they are added;
`add` puts them in front, so the numbers fall along the list. The round of the I/O thread and the owners' `add` and `remove` meet through `mutex`
(shared by the round) and `add_mutex`. `remove` erases at once if it gets the
lock, and marks otherwise; `torn` records an insertion that met the cleanup of
the front entry, after which the list may be anything.

**DeviceManager.** A thread runs one job at a time: `Probe`, `Make` and the
insertion are separate steps, because other workers run between them. `nick` is
the nickname an object holds from its construction to its destruction.

**BusTree.** A device walks through its construction and its destruction
(`Construction`, `Destruction`), one step per node, interface and announcement,
in the order of its members; a constructor may throw at each step and unwinds
from there. `registry` maps paths to interfaces as `server::internal` does.
`dispatch` is the main loop with a call under way, which holds the lock of the
server and a reference to a node and to an interface; it gives them up in
`returnInterface` and `returnNode`. A node dies in two steps: when its last reference
goes it is `dying` and not found any more from below or by the dispatcher
(`Expires`: in `dropNode`, on the thread of its device, or in `returnNode`), and its destructor
runs later, once it gets the lock of the hierarchy (`destroyNode`, `returnDestroys`). An
interface that leaves finds its path first (`leaveInterface`) and then waits for the
server (`dropInterface`). `makeChildReads`, `makeChildLinks` split `push_front` on
the list of children, which has no lock. References that `tree_name` or `~node` hold
on a parent while they walk up or link a child are part of the step that takes them.

**ReceiverMonitor.** A report becomes a task (`Report`, on the I/O thread); a
worker starts it (`StartTask`), takes `_devices_change` (`LockDevices`) and ends
`addDevice` by one of its outcomes: the device is known, ignored or without a
link; it answers the probe (`Probe`, `Emplace`), refuses, times out, is not
ready, or fails. `EraseWaiter` is what `_addHandler` does after `addDevice` has
returned. `link` is what the receiver knows of the device; only a device with a
link answers. `wakeup` is taken to return here: its self-deadlock is in
`LogidDevice`. The tasks keep the receiver alive, so `EndTask` of the last one
after `Drop` is its destructor.

**ReceiverPairing.** `pairState`, `discovery`, `ready` are the fields under
`_pair_mutex`; `mode` is what the receiver does; `air` the reports on their way.
`_startPair` and `_stopPair` are calls of the bus up to their transfer,
`MakeTransfer` the transfer, which the receiver may refuse; `TakeReport` is the
I/O thread with a discovery, passkey or status report, `startBoltPairing` the
task that follows a full discovery. Names come in parts, and the parts of several
devices mix.

**LogidDevice.** `ref` is the profile a feature's reference points into, `hw`
what the device has. `reconfigure` is one step per feature. `stateLock` and
`profileLock` are the two locks of the device. The twin is a second device of
the same name, with an active profile and a lock of its own.

**GestureKinds, GestureAction.** A gesture is a record (kind, axis, progress,
threshold, interval, runs). `move` shares an event out between opposite
directions by the signs before and after it, in the order of the code; `release` looks at each gesture twice and not
under the lock of its config, so that `releaseLooks` and `releaseGesture` are
steps of their own.

**Wheels.** A wheel's events turn, restart and press the gestures of its
directions; the thumb wheel also presses and releases the actions of its
sensors. Setters of the bus and profile switches are one step each, because
`_config_mutex` is held throughout.

**RemapButton.** A report is taken in steps, one button after the other, because
a worker or a call can come in between: `pressButton`, `releaseButton`,
`moveButton`. `down` is what the virtual device holds. `setButtonAction`,
`setKeys` are the bus; `setButtonProfile` and `resetAndConfigure` a worker, with
one transfer per control. A report of buttons is taken under `_button_lock`, which
`setProfile` waits for; a report of movement is not, so that a profile switch
comes between `askPressed` and `moveButton` of one button (`Moving`).

**Settings.** An action is a task of two steps: it reads, then `taskWrites`. A
setter of the bus (`setWheel`, `setActive`, `setAutoDisengage`, `setDPI`) writes the
configuration, holding the lock of its feature, and then tells the device
(`configureWrites`), which may fail (`fails`) and leaves the configuration as it was
set. `configureBegins` and `configureWrites` are a reconfiguration as well, feature after
feature, `resets` the reset before it. Numbers of the file are of any size and are cut to
16 bits on their way to a sensor (`SetSensor`); a list longer than the sensors makes the
configuration fail before any of them is told (`Fits`).

**ConfigFile.** `memory` is `*this`, `tree` libconfig's settings, `file` the
file. `Load` is the constructor with the `get` of every type, `SaveDevices` the
`set`. `Save` is everything up to `writeFile` opening the file, `Written` its end;
`Stop` may come in between. What a user may have written by hand is
`Handwritten`: duplicates, entries without names, wrong types, a device without
its profiles.

**DaemonLocks.** An operation is a sequence of steps: take, share, visit (take
and give back) or give back a lock, transfer, prompt. `Under(l, body)` brackets
a sequence with a lock as `std::lock_guard` does a block. A transfer ends only
while the I/O thread is not itself busy; a transfer that fails unwinds the
operation with all its guards. The locks of server and tree are recursive
(`depth`); `AddInterface` and `DropNode` take the two in opposite orders, as
`server::add_interface` and `~node` do.

**The modules of the GUI.** Each has a sequence of calls under way and one of
what the bus brings to the GUI; the bus keeps the order of a sender. The daemon
takes the first call and answers, or refuses; the GUI handles the first
delivery. A handler is one action with everything it calls: the GUI has one
thread. The daemon's side is only what an answer shows of it, and how it fails: a
call may be lost, refused or answered too late, before or after it has changed
something.

**DaemonConnection.** `PropertyRead` is one `gdbus_get_property` of a `GetAll`, each under
the server's lock, and `CallAnswered` puts the reply on the bus later, without it: what
the daemon signals in between is in the mail before the older reply (`overtaken`).

**DeviceController.** `live` is what the profile says, `sensor` what the hardware has:
`GetDPI` answers the first. `TakeWrite`, `TakeProfile` change the profile before the transfer
that may fail (`behind`, `emptied`). `TakeRead` may answer for a SmartShift that is off as
the code encodes it, by 1 (`Answers`).

**ProfilesModel.** `seedProfiles` makes two blocking reads of properties, each of which may
fail: an empty name is shown for it (`stale`).

**ButtonsModel, GestureModel.** Each call of an edit may be refused, fail after it has
destroyed what it replaces, or be answered too late; a probe that is not answered
reads as an absent interface. What the client does not look at (the reply of a
gesture's parameter) or cannot know is named in `misread` and `doubts`.

## 3. Runs

| Run | Instance | Shows |
|---|---|---|
| `hidpp20` | 3 threads, 3 calls; features 1 and 17 share a slot | slots exclude each other and refine `ResponseSlots`; a foreign answer is a late one; a timeout never drops an answer; a call ends when its thread has the slot for itself and no write failed there |
| `hidpp` | 2 threads, 2 keys, 3 calls, 1 event; 2 sub IDs, 2 registers; 6 attempts at one node | calls get their own answers, or late ones; no report is swallowed while nobody waits; every probe ends; a node is taken for what it is |
| `threads` | 2 workers, 3 tasks, delays 0 and 1, time 0..2; 2 owners, 2 descriptors, 2 devices; 2 owners, 4 handlers | no lost wakeup; early starts only by the lost race of `worker()`; a yield is heard; callbacks see open devices; rounds are sound; everybody who waits is served |
| `manager` | 1 worker and the main thread, 1 retry; 2 nodes with 1 plugging and 2 objects, or 1 node with 2 pluggings and 3 objects; 2 devices with 2 button numbers on the bus | nicknames distinct and given back; a ghost only where a removal missed the device that was being made; the bus shows what exists; a known device can be called |
| `device` | 2 workers and the bus, a twin, 2 features besides battery and status, 2 profiles, 3 operations | the hardware ends with the active profile's settings; features share one existing profile; only `wakeup`'s self-deadlock keeps operations from ending |
| `receiver` | 1 device, 2 workers, 1 retry, 3 changes of the link or inputs; 2 devices to pair, names of 1 and 2 parts, 2 calls | an unpaired device does not stay listed; the list follows the link unless a transfer failed or two workers changed the order; what is paired is what was shown; daemon and receiver agree on the session |
| `locks` | 2 workers, the I/O thread, the dispatcher, 3 operations of 18 | without a call from the bus only the destruction of a node deadlocks; the I/O thread waits for a transfer only behind a profile change or a call; everything else ends |
| `input` | 3 layouts of gestures, 3 moves, 1 retuning; 2 wheel layouts, 2 turns, 2 calls; 2 buttons, 3 keys, one of which may be new to the virtual input, 2 profiles, 3 reports, 2 changes; 2 sensors and a third that is not there, 2 configurations, 3 operations | gestures go as far as the pointer; one action per release; wheels start anew; buttons, keys and controls agree; the device has what was asked for and supports |
| `gui` | 2 paths, 2 changes, 1 retry; 3 edits of values, of profiles with 4 names, of a button with 4 types, 2 of them with a parameter, and of a gesture with 3 modes; 6 operations on 6 files | the list, the screen, the rows and the panels tell the truth once all is answered; a clean page is saved; what was saved is loaded |
| `hidpp20_errors` | as `hidpp20`, 2 calls | **violated**: an error for a call outside slot 15 never reaches the caller |
| `device_wakeup` | as `device`, 1 operation | **violated**: a wakeup waits for the lock it holds |
| `receiver_waiter` | as `receiver`, 1 change | **violated**: a device that timed out is not waited for |

Many properties have an exception: a condition under which the code does not do
what one would wish. It is written into the property as a history variable
(`overtaken`, `refused`, `retuned`, `strayed`, `crossed`, `behind`, …) that only
the described event sets, so that the property says precisely what is true; the
exceptions are listed in section 5.

### The bounds, and why they are enough

The bounds count requests, tasks, pluggings, objects, reports, edits and
operations, never steps.

- Transports: two threads meet on one resource and a third is a bystander; the
  third request is the one that finds what a late answer of the first and a
  second call of the same key left behind. Six attempts at a node are those `_addHandler` makes
  (`max_tries`). With a seventh, which only a device behind a receiver can get,
  enough late answers have gathered to pass the stability test.
- `threads`: three tasks are the least number with which one worker waits for
  the later, one runs, and one is queued meanwhile. Two devices suffice for a
  descriptor number that is used again. Four handlers: one in front that is
  erased, one in the middle, one that is being offered, one that comes.
- `locks`: a circle needs one operation per thread in it; three of the four
  threads may be in one.
- `receiver`: the third change of the link comes while the task of the first
  may still wait for its backoff and that of the second runs; a second device
  would share nothing but the lock. In pairing a second session begins before
  or after the end of the first, and the parts of a name can be mixed with
  those of another.
- `manager`: of one node that is plugged in twice more, three objects can be alive
  or under construction at a time, so that a nickname in the middle is given
  back; of two nodes, two. `MaxPlugs` counts pluggings after the initial state,
  in which any set of nodes may be plugged in already. On the bus the second
  device can get the number that the first gives back while it goes.
- `device`: with three operations two of one kind enclose another.
- `input`: an event can leave the origin, stay, turn and cross it; the third report
  is the one that follows a press and a change of the action. `Word = 16` stands
  for 2^16, with the DPI lists scaled down. A third operation on settings comes
  between the two steps of a task and after a setter. Of three keys one is in no
  profile, so that the virtual input is made anew when it is first set.
- `gui`: with three edits two overlap and a third comes after a refusal; two
  changes are a removal and a return. Four names are what a chain of renames needs:
  two to begin with, the new name of the one that is renamed again, and the
  default. Four types of actions let an edit come while the read-back of an earlier
  one has passed its type and still has probes to make; three hide it (`overlap` in
  `RowIsBinding`). Six operations on the file are: a start,
  an addition, an edit, a save, a second edit, a second start or save.

A bound stops new requests, not those under way, so every behaviour ends with a
quiet state: `CHECK_DEADLOCK` is off in every configuration because that end is
one. That threads are not stuck is stated by liveness properties and, in
`DaemonLocks`, by a property about who waits for whom. `Input.cfg` and `Gui.cfg` use
a VIEW: the focus and the variables of the part in focus, which are all that
changes; both check invariants and action properties of steps only.

### Fairness

- A thread that holds a mutex or finds it free goes on (weak fairness of its
  steps): the code has no loop in which a thread takes and gives a mutex for
  ever. Threads of `Hidpp20Device` that sleep for a slot get none beyond that:
  `CallEnds` speaks of threads alone on their slot, since `reset()` frees a slot
  without a notification.
- `DaemonLocks` and `ReceiverMonitor` owe no reports and no calls. In
  `DaemonLocks`, whose operations are bounded, it is enough that some thread goes
  on as long as one can.
- A timed wait ends, because the clock goes on.
- A device owes nothing: answers, events, pluggings, D-Bus calls are never fair.
- A spurious wakeup is never owed. Where it exists beside the genuine wakeups,
  fairness is per action, so that no property rests on it.
- The modules of the GUI, of the input side, of the bus and of pairing state no
  fairness: their properties speak of quiet states and of steps.

## 4. Proofs

TLAPS proves the theorems below for every value of the constants that satisfies
the modules' named assumptions: any number of threads, devices, slots, workers,
names and operations, bounds included. Each safety theorem comes from an
inductive invariant that TLC had checked on the run of the module first: initial
states satisfy it, every step keeps it, and it implies the property. A proof has a
step for each action of the next-state relation, and one below it for each
conjunct that the action can disturb.

| Module, theorem | States |
|---|---|
| **`Hidpp20DeviceProofs`** | |
| `TypeCorrect` | `TypeOK` |
| `OneCallerPerSlot` | `SlotExclusion`: two threads never wait in one slot |
| `AnswersMatchSlots` | `ResponseMatchesSlot`: a slot holds answers to the feature it is taken for |
| `AnswersAreReturned` | `StoredAnswerIsReturned`, an action property: a timeout does not drop an answer |
| `OwnOrLate` | `OwnAnswerOrLate`: a call returns its own answer, or a late one to an earlier call of its feature |
| `SlotsRefinement` | `SlotsImplemented`: the transport implements `ResponseSlots` |
| **`HidppDeviceProofs`** | |
| `ProbesGetAnswers`, `EventsReachHandlers` | `HidppDevice`: `OwnAnswerOrLate`, `EventsNotSwallowed` |
| `RegistersGetAnswers` | `Hidpp10Device`: `OwnAnswerOrStray` |
| `BothTransports` | `AnswersAreOwn`, what the run states of whichever transport is in focus |
| **`ThreadsProofs`** | |
| `NoLostWakeup`, `EarlyStarts` | `TaskQueue`: `QueueAttended` and the action property `EarlyOnlyAfterLostRace` |
| `YieldersAreHeard`, `CallbacksOnOpenDevices` | `IOMonitor`: `YielderIsHeard`, `CallbackOnOpenDevice` |
| `Rounds` | `EventHandlerList`: `RoundIsSound` |
| **`BusProofs`** | |
| `CirclesNeedDispatch`, `ListenerReads` | `DeadlockNeedsDispatch`, `ListenerStalledOnlyBySwitch` |
| `KnownCalls` | `BusTree`: `KnownDevicesAnswer` |
| `ViewTells` | `DaemonConnection`: `ViewTellsTruth`, the list of devices and the screen |
| **`DevicesProofs`** | |
| `Nicknames`, `Ghosts` | `DeviceManager`: `NicknamesFollowDevices`, `GhostOnlyIfMissed` |
| `CleanMeansSaved`, `ValuesShown` | `DeviceController`: `CleanIsSaved`, `ValuesAreDaemons` |
| `ProfilesShown` | `ProfilesModel`: `ProfilesAreDaemons` |
| `RowShown` | `ButtonsModel`: `RowIsBinding` |
| `PanelShown` | `GestureModel`: `PanelIsGesture` |
| `PageShown`, `EditorsShown` | the client as a whole: `PageIsDaemons`, `EditorsTellTruth` |
| **`ReceiverMonitorProofs`** | |
| `UnpairedLeave` | `ReceiverMonitor`: `NoGhost` |
| `SessionsAgree`, `PairedAsShown` | `ReceiverPairing`: `SessionAgrees`, `PairsWhatItShows` |
| **`LogidDeviceProofs`** | |
| `OneProfileForAll`, `HardwareAgrees` | `FeaturesShareProfile`, `HardwareFollowsProfile` |
| **`InputProofs`** | |
| `GesturesGoAsFar`, `ReleasesRunOnce` | `GestureAction`: `AxisIsDistance`, `OneRunPerRelease` |
| `WheelsAreBounded` | `Wheels`: `WheelsAgree` |
| `ButtonsAlwaysAgree` | `RemapButton`: `ButtonsAgree` |
| `SettingsAlwaysAgree` | `Settings`: `SettingsAgree` |
| `SavedLoaded` | `ConfigFile`: the action property `SavedIsLoaded` |

### The invariants, and why they are needed

**`Hidpp20Device`.** `SlotExclusion` needs that a thread that waits has a request at all
(`RequestKnown`) and that its slot's feature is not empty, so that another
thread's `Send`, guarded by an empty slot, cannot take the same one.
`ResponseMatchesSlot` in turn needs `SlotExclusion`: `Send` stores a feature over
whatever response the slot has, so an empty slot must have none. `IInv` is their
conjunction. For `OwnOrLate` every answer, on the wire or in a slot, is traced to
the call that asked for it (`Traced`): that call still waits, or has been given
up; numbers are used once, and a response on the wire is in no slot.
The refinement maps a slot to its `OwnerOf`; `OwnerRule`, a consequence of `IInv`,
says when that is a thread, "free" or "lost", and each action is then one of
`ResponseSlots` or a stutter.

**`HidppDevice`, `Hidpp10Device`.** `ProbeInv`: `_send_mutex` is held by the one
thread in a transaction, the expected key is that thread's, unless a write has
failed, and an answer on the wire is of a request that was written. `RegisterInv`
says the same per slot and sub ID. Without the condition on writes neither is
inductive, and the code is wrong there (section 5).

**`TaskQueue`.** `QueueAttended` is itself inductive with the types and
`WorkersLive`: workers do not end before they are stopped, so the one that
attends to the queue does not go away without passing it on.
**`IOMonitor`.** `IOInv` follows a yield through the two mutexes (`Gate`), says where
callers and listener are (`Phases`), that device and thread numbers are used
once, that one thread adds or removes a descriptor, and which descriptors are
registered (`Registration`). **`EventHandlerList`.** As long as `torn` is "no",
`Sound`: `mutex` is held by whoever iterates, the position is on the list,
handlers that are still to be offered are ahead of it (`DueAhead`), and those
that were removed are marked before they are erased.

**`DaemonLocks`.** The locks have ranks. Each operation is a sequence of scopes; a
small calculus of lemmas (one for a step, for a sequence, for a scope) shows that
each takes its locks in ascending rank, whatever set of alternatives it
chooses from. `LockInv` says that what a thread holds is what its operation has
taken at that place. A circle of waiting threads, none of them the dispatcher,
would then ascend in rank for ever; only `~node`, which takes the hierarchy's
lock before the server's, breaks the order, and it is the exception of the
property.

**`DeviceManager`.** An object is in one place: a thread makes it, or one of the two maps
has it at one path (`OnePlace`), so that a nickname is never given back twice;
this is `NickInv`. `Attended`: a node that is gone and is listed or being added has
its removal queued or under way, unless that removal ran before the addition
was done (`missed`). **`BusTree`.** `KnownInv`: a call is on a node that exists, and
a device that clients know does not go without `DeviceRemoved`, which waits for the
lock that the dispatcher holds during the call.

**`ReceiverMonitor`.** `OwnedHaveLink`: a device that is listed or being made and
has lost its pairing has a removal due, or the receiver is dropped.
**`ReceiverPairing`.** Both proofs argue about the sequence of reports on their way.
`Session`, as long as no session overtook another and no transfer was refused:
where the session is on both sides, and that the report that ends it is still
to come or has not been sent. `ShownInv`: the parts of a name come in order, the
event under construction was filled from the parts that were taken
(`Hearing`, with the set of those taken as a witness), and what the receiver was
told to pair was reported with its whole name.

**`LogidDevice`.** `Profiled`: the profile is changed under `_profile_mutex`; a feature that
does not refer to the profile of the device is still ahead of the thread that
switches; every profile referred to exists. `Written`: unless a transfer has failed
since the last reconfiguration began, a setting is in the hardware or some
thread will still write it.

**`GestureAction`, `Wheels`.** `AxisIsDistance` is inductive with the types, once the
movement along one axis is shown to add the same to pointer and gesture;
`ReleasesRunOnce` needs the order of the looks of a release (`Ordered`): after the
first, no primary look is left that would run a second action.
**`DaemonConnection`.** `ConnInv`. The mail is in the order in which the daemon sent it, so
that of two messages about one path the later one counts: the last word on a
device is that it came or went (`StatusLast`), what an enumeration or a read answers
is true unless something newer follows it (`ReadTrue`, `BatteryTrue`, `ReadLast`), and each row is
true or has its correction behind it (`RowTrue`, `RowOrRead`). What a `GetAll` has read
of a device so far is true, or a signal that is already in the mail marks the reply as
overtaken (`AnswerTrue`). A path may be used
again by another device, a restart of the daemon drops what it was asked and
announces itself by two messages (`Restarts`, `Absence`), and an enumeration that
a row depends on is under way until it is answered or has failed (`Secured`).

**`DeviceController`.** `CleanInv`: of the mail between client and daemon at most one message is a save or its
reply; unless the last change overlapped a save, a pending save comes after every change,
and what is not on disk, but for what a failed clear left, is shown as unsaved or will be
by a reply on its way.
`ValuesInv`: a value is what the daemon tells (`Told`); or a read of it is behind every
write, in the calls or already answered; or the last write under way is of the value
that is shown. The sensor has the nearest to what it was told last (`SensorFollows`).

**`ProfilesModel`.** `ProfileInv`: a profile is removed under way only if the user gave up its name, and,
in a rename, only behind a reply that confirmed the new name
(`RenamesGrounded`, which has what was given up as a part of the bound); the list is what the daemon has, or a refresh is under way
behind the last change (`RowsFollow`).

**`ButtonsModel`.** `ButtonInv`: a row that is wrong is corrected by a read under way or by
one that the reply of a call will start (`RowFollows`). Without an overlapping edit no
change of the type is behind a probe of it (`ProbesBehind`), so that a probe that found
its type tells the truth when its reply arrives; this failed to be inductive until
`overlap` covered every edit made before the last probe of an earlier one is answered.
The parameter last accepted is the daemon's, or the last `SetParam` under way has it, or
the reply that will send that, unless it was not taken (`ParamFollows`).

**`GestureModel`.** `GestureInv`: the mode is the daemon's, or that of the last `SetGesture` under way,
behind which nothing that depends on it was sent (`UnderWay`, `ModeFollows`). Of each
parameter set since, the newest of its kind has the value shown, in the first of these
places that has one: chained to that `SetGesture`, waiting for its probe, answered by the
probe, set; where none has, the daemon's value is it (`ParamsFollow`). An undisturbed
filling has one call under way, and the modes before it are excluded (`SeedsFirst`).
`PageShown` and `EditorsShown` state the last four of `MCGui`, where a step of the client
is a step of each part or leaves it alone (`GuiParts`).

**`RemapButton`.** `ButtonsAgree` speaks of the time between two reports; `ButtonInv` says
what holds within one. What a report has left to do presses what is new and
releases what is missing, each button once (`ReportOK`), so that a button that is
still `Pending` is as it was before the report and every other as after it
(`PressedSoFar`); a report of movement changes no button, whatever profile is switched to
between its moves, and a move that is due is of
an action that is pressed or was replaced. The keys agree at every step. The
order of a report's steps is a ranking of the controls: that each control has one step
(`EachIs`) is proved from the ranks of a finite set (`Ranks`).

**`Settings`.** `SettingsInv`: a setting has strayed, or is what the profile says, or is
still to be written (`ToWrite`): its feature waits for the thread that configures,
or is in what some operation has left. A setter whose transfer fails leaves it
strayed as well. A failed configuration drops the features it
has not begun, so that all of it has strayed; this needs that a worker is past
the feature that it configures. That a sensor is told the nearest value it supports is a
lemma about `getClosestDPI` (`Nearest`): for a list, a least distance exists; for a
range, rounding to a step stays between its bounds.

**`ConfigFile`.** `FileInv`: what is in memory can be saved without loss (`Kept`), and so
can what would be loaded of the file and of libconfig's settings; what the last save
took is what would be loaded of the settings while it writes, and of the file once
it has. Two lemmas about the conversions carry it: whatever is loaded of a file that
a user wrote is `Kept` (`LoadedKept`: names that are missing are gone, wrong elements of
a list are gone for good), and what is `Kept` is what is loaded of its entries
(`KeptLoaded`: each name is in the list once, in whatever order). An edit puts back
what is `Kept`, and an added device stays one.

### Assumptions

Constants are assumed to be what their comments say, as weakly as the proofs
allow: bounds are numbers; markers (`None`, `"free"`, `"lost"`) differ from what they
mark the absence of; threads of different kinds differ. Beyond that:
`WorkersAssumption` (a pool has workers, finitely many), `NumSlotsAssumption` (a
transport has slots), `FeatureAssumption` (a device has features),
`ControlsAssumption` (control numbers are numbers, finitely many),
`DetentAssumption` and `PairingAssumption` (a detent, a block and a name are not
empty), `DevicePathsAssumption` (paths are numbers, finitely many: the rows are
listed in their order), `SectionAssumption` (no name is the mark of a missing one),
`StandardAssumption` and `NamesAssumption` (the default profile
has one of the names, which are finitely many), `ActionTypesAssumption` and
`ModesAssumption` (a client probes at least one type and one mode, in some order; the
types that are probed are not those without an interface, and an empty string is no mode). Some are about the hardware: `SeqNumAssumption`, that the receiver tells the
devices it discovers apart by the number in their reports, the only thing
by which `fillDeviceDiscoveryEvent` does. So is a part of `DpiListsAssumption`: a sensor
reports some values, and the bounds of a range are a number of steps apart
(`getClosestDPI` rounds above the maximum where they are not, section 5); the rest of it,
`SettingsAssumption`, `GivenAssumption` and `HandwrittenAssumption` say of what type lists,
profiles and the entries of a file are. TLC evaluates each on the runs.

### Only model-checked, and why

- Every liveness property: fairness and `ENABLED` are out of the prover's reach.
- `BusShowsTree`, of which `KnownDevicesAnswer` is the part that is proved of the same
  module: its invariant relates paths that lose their beginning to entries of the
  registry, for two devices on the instance of `manager`.
- `NodeRecognised` holds for the six attempts that `_addHandler` makes and not for
  more, so that it is a fact about a bound.

## 5. What the checks found

Stated by runs that TLC refutes:

1. `responseReport` of HID++ 2.0 picks the slot by the feature byte, which is
   0xff in an error report: the caller of an erroneous request times out unless
   its feature index ends in 0xf (`hidpp20_errors`).
2. `wakeup` of a device with a battery waits for its own `_state_lock`
   (`device_wakeup`).
3. `_addHandler` erases the handler that `addDevice` has just installed for a
   device that timed out, so that its next input does not start another attempt
   (`receiver_waiter`).

Seen while modelling, where no text of the repository promises otherwise. Where a
property is named, it states the exception.

**Locks**
- `Enumerate`, called with `server_lock`, waits for `_map_lock`; an addition, which
  emits under `_map_lock`, waits for `server_lock`. The other calls from the bus
  and the locks of profile, buttons, wheel and pairing meet in the same way
  (`DeadlockNeedsDispatch`).
- A device that goes and one that comes, on two workers, deadlock without any
  call: `~node` takes the lock of the tree and then the server's,
  `server::add_interface` the other way round (`TakesNodeApart`).
- A wheel setter holds the wheel's lock during its transfer; a wheel report makes
  the I/O thread wait for it and the transfer time out
  (`ListenerStalledOnlyBySwitch`).

**Transports and recognition**
- A freed slot's waiters are not notified (`hidpp20/Device.cpp:110`), and a failed
  write leaves the slot taken for good (`CallEnds` excludes both).
- After a failed write of the base class the stale key swallows the next report
  that carries it (`EventsNotSwallowed`, `OwnAnswerOrLate` exclude it).
- `hidpp::Device` reads HID++ 2.0 error reports as answers, so that the branch
  for a device that is not ready (`hidpp/Device.cpp:150`) is not reached; only the
  software ID, in `Root.cpp:78`, keeps an error from looking like version 1.0.
- A timeout in the second construction (`DeviceManager.cpp:119`, outside the `try`)
  is not retried.

**Threads**
- A task may start before its time (`EarlyOnlyAfterLostRace`); `stop_workers`
  returns without waiting for a running task.
- `IOMonitor` looks events up by descriptor number after giving up the lock: a
  reused number may make a healthy device invalid (line 106). A monitor that is
  destroyed before its thread begins to listen never ends (`StopEnds`).
- An `add` that meets a cleanup which erases the front of an event handler list
  may lose itself or corrupt the list (`RoundIsSound`).

**Hotplug and the bus**
- A removal that overtakes the addition of its node leaves the device listed
  (`GhostOnlyIfMissed`).
- A nickname is released before the nodes of the features have left the bus: a
  new device may find "interface already exists" and fail, have a button without
  an action, or a registry entry whose object is the old node (`clashed` in
  `BusShowsTree`).
- `make_child` pushes on a list without a lock; `_interfaces` grows without the
  lock under which the dispatcher searches it.
- A node whose last reference the dispatcher gives up is expired before `~node` takes
  the lock of the hierarchy (`server_gdbus.cpp:341-436`, `node.cpp:46-47`). The destructor
  of a node below it, on a worker, finds no parent meanwhile: its children are
  given a dead one, it stays in the parent's list, and its interfaces are looked for at a
  wrong path, so that an entry of the registry stays (`severed` in `BusShowsTree`; a build
  with assertions stops at `node.cpp:59` where such a child is met).
- A call before `DeviceAdded` or after `DeviceRemoved` may run on an object that is
  being destroyed (`KnownDevicesAnswer` is about the time between).
- `object_path_lookup` keeps the path of a removed device until its address is
  used again; `set_managing`'s test for uniqueness never fires.
- When the name on the bus is lost `start()` returns normally, since `!owns_name`
  tests for `NAME_WAITING`; a lost connection is not caught and `reconnect` never
  called.

**Device, profiles, configuration**
- Two devices of one name share their configuration: one's `RemoveProfile` may
  erase the profile that is active on the other, whose features then refer to
  nothing; a setter of one changes the other's profile and not its hardware; the
  map is touched under two different locks (`dangling` and `behind` in
  `LogidDevice`).
- A battery broadcast during the construction of a device calls through an
  interface that is not there yet (phase `crashed`).
- `save()` always fails once `ignore` has an entry: `config/types.h:316` adds a
  group and assigns a number to it. The exception leaves libconfig's tree half
  updated and the file as it was.
- `writeFile` truncates before it writes: a crash in between leaves a file that is
  empty, and read as an empty configuration, or one that does not parse
  (`torn` in `SavedIsLoaded`). A save may serialise a map that a worker inserts in.
- A device of the file without `default_profile` or `profiles` is taken for a bare
  profile; its profiles are lost at the next save. A scalar of the wrong type for
  `dpi` becomes an empty list. Entries without a name, second entries of a name
  and keys the schema does not know are dropped at a save.

**Receivers and pairing**
- Two workers may act on the reports of one device of a receiver in the wrong
  order, and a retry acts on an old report (`disturbed` in `ListFollowsLink`).
- A name whose length is a multiple of 13 never fills the discovery event
  (`Receiver.cpp:333`); a lost first part fills it with an empty name; on Bolt,
  `getDeviceName` reads the first part again for the second (lines 255 to 258).
- A refused `StartPair` leaves `_pair_state` set; a refused transfer leaves
  `FindingPasskey`; the status "off" of an old session ends the next; the task that
  pairs does not look again after `StopPair` (`refused`, `overtaken` in
  `SessionAgrees`).

**Buttons, gestures, wheels**
- An event that crosses the origin of the y axis is shared out with up and down
  swapped (`crossed` in `AxisIsDistance`). `AxisGesture::move` calls `getLowResAxis`
  with the movement in place of the axis; `_axis_remainder` is unused;
  `setMultiplier` multiplies twice; an interval fires once though an event crosses
  several boundaries; `ReleaseGesture::release` reads `_action` without its lock.
- A threshold that is retuned between the two looks of a release may let two
  actions run (`retuned`). `ThresholdGesture::setAction` of an unknown type leaves
  no action; `OnThreshold` cannot be made over the bus.
- A wheel gesture that `SetUp` or `SetDown` has refused stays, with a config that
  is gone; the next call crashes (`HiresScroll.cpp:291`). `ThumbWheel.cpp:205`
  presses its gesture at every event, so that an interval never adds up. The
  action of a thumb sensor that is replaced while held is never released; a
  profile switch neither presses nor fixes gestures (`swapped`).
- Replacing an action, or the profile, while a button is held never releases the
  old action's keys; a new key code makes the virtual device anew, which drops
  the keys that are held; an unknown type of action leaves the control diverted;
  presses of a report come before its releases (`orphaned`, `lost`, `unsettled` in
  `RemapButton`).

**Settings**
- `CycleDPI::press` tests `empty()` the wrong way round (`CycleDPI.cpp:69`);
  `ChangeDPI` wraps modulo 2^16; a DPI range whose bounds are not aligned may be
  rounded above its maximum; SmartShift clips its threshold in the constructor
  only.
- `SetDPI` on another sensor overwrites the first where the configuration has a
  single value; on a sensor that does not exist it makes a list that fails every later
  configuration of the device (`DPI.cpp:94`). A DPI of the file is cut to 16 bits
  (`DPI.cpp:85,98`; `DpiInForce` speaks of values that fit). A setter whose transfer fails
  leaves the new value in the configuration (`DPI.cpp:222`, `SmartShift.cpp:148,172`); toggles read, change and write without a lock and do not update
  `_mode` (`strayed` in `Settings`). `ChangeProfile::setProfile("")` reads an optional
  without a value.

**GUI**
- Removing the active profile is refused and its row comes back; a rename creates
  an empty profile and switches to it. A rename removes the old name once a list
  has the new one; if that list is from before another rename of the new name is
  done (b to c, then a to b, then a switch), both a and b go, against
  `ProfilesModel.cpp:230-232`. `lost` leaves out names that were given up and says so.
- The active and the default profile are read with blocking calls; one that fails
  shows no profile as active or as the default (`stale`).
- `GetDPI` answers the value that was asked for, not the nearest that the sensor
  has (`DPI.cpp:165-188`), so that the read-back after `SetDPI` does not show what
  `DeviceController.cpp:259-260` says; `ValuesAreDaemons` relates the three.
- SmartShift that is off is answered by 1 and read as on (`DeviceController.cpp:168`;
  `unsure`).
- A `ClearProfile` whose transfer fails has emptied the profile (`Device.cpp:298-303`), and
  the client stays clean over a change that is not saved: `ConfigState.cpp:128-129` says
  that a failed clear leaves the state as it was (`emptied` in `CleanIsSaved`).
- The reply to a save clears the dirty flag of a change made meanwhile
  (`overlap` in `CleanIsSaved`).
- The reply to `GetAll` may be older than a signal that comes before it: the row then
  shows a state that the device has left (`overtaken` in `RowsAreDevices`).
- A later successful read does not undo "Offline" (`unread`); if one of two
  enumerations fails "DaemonDown" may stay (`failed`); restoring defaults or
  switching the profile does not refresh the values (`unsure`).
- `SetChange` goes out as an int to a method that takes an int16
  (`ButtonsModel.cpp:188-193`, `ChangeDPI.cpp:35,83`): it is always refused, and the
  row keeps a change the daemon never took (`untaken` in `RowIsBinding`). The read-back
  of an edit that goes on while the next is made has passed the types before its own,
  and the row may end as "None" (`overlap`). A refused
  `SetAction` of a type with a parameter is never reconciled (`refused`), also where it
  failed after the action was replaced, whose parameter is then never sent
  (`halfway`). A read that is not answered in time is taken for an absent interface
  (`unanswered`, also in `PanelIsGesture`).
- Nobody looks at the reply to a gesture's parameter: where `SetAction` throws, the old
  action is gone and the panel shows the new one (`unset`); a refused `SetGesture` has
  destroyed the old gesture (`refused`).

## 6. Plan

The model covers the core logic of daemon, server and client, every module has
its runs, and the safety properties of the runs are proved but for the two that
section 4 names.

## 7. What is not modelled, and why

- Encoding of reports and of the parameters of most HID++ functions: a request is
  identified by its key, its contents do not change the control.
- The other settings of the configuration file go through the same templates as
  the two that are modelled; strings, numbers and comments of the file are
  libconfig's.
- Marshalling of values on D-Bus, introspection, udev rules, polkit's own decision:
  I/O and external services. `save` is modelled with its prompt (`DaemonLocks`) and
  its file (`ConfigFile`).
- Unpairing over the bus, `Reset`, corded devices behind index 0xff, the remaining
  setters of the thumb wheel, names of keys.
- Layout and bindings of QML, packaging, tests.
- Start and end of the process (`logid.cpp`): the parts are modelled as started;
  their shutdown is where a component has one (`StopWorkers`, `Stop`).
- Memory-model effects: a data race is a choice between the values before and
  after, as in the unguarded `_sent_sub_id`, or a state named for it, as `torn` in
  `EventHandlerList`.
