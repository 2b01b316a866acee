# Formal models of smart_car

TLA+ models, TLC configurations and TLAPS proofs for the program in this
repository: a four-wheel car with an STM32F407 (firmware in `small_car_f407`), a
Raspberry Pi that runs ROS 2 (`robot_host`), and a language-model agent
(`llm_agent`, `agent_debug_web`) on top. Paths below are relative to `src/`.

Contents: 1 the system, 2 the models, 3 the runs, 4 fairness, 5 the proofs, 6
disagreements between documents and code, 7 what is not modelled, 8 plan.

## 1. The system

### 1.1 Components that are modelled

| Component | Code | State it keeps | Operations | Talks to |
|---|---|---|---|---|
| Bootloader | `small_car_f407/Bootloader/Src/main.c`, `sha256.c` | metadata sector, application region, session (`g_updating`, `g_next_offset`, manifest, running CRC and hash), boot request word | HELLO, BEGIN, DATA, END, ABORT, BOOT; start-up decision | serial line |
| OTA part of the application | `Core/Modules/Comm/Src/raspi_link.c:409-439` | boot request word | ENTER, INFO | serial line, bootloader (reset) |
| Update script | `small_car_f407/scripts/mcu_ota.py` | phase, sequence number, offset, tries | `enter_bootloader`, `update`, `main` | serial line, user |
| Wheel speed controller, motor driver | `Motor/Src/wheel_speed_controller.c`, `motor.c` | per side: target, ramp, integral, boost timer; enabled; duties | `SetTarget`, `TaskStep`, `Stop`, closed-loop switch | chassis, encoders |
| Control mux, chassis, mixers | `Chassis/Src/control_mux.c`, `chassis.c`, `chassis_manual.c`, `chassis_auto.c` | chassis mode | select, obstacle limit, mixing, mode change | gamepad, host link, ultrasonic, wheels |
| Gamepad state | `Input/Src/gamepad.c` | sticks, connection, activity and its tick | update (USB thread), read (control cycle) | mux |
| Control part of the host link | `raspi_link.c:123-157, 446-537` | last command, its validity and tick | CONTROL, PARAM, timeout | mux |
| Executive | `Core/Src/freertos.c:151-185` | – | the 20 ms cycle | all of the above |
| Task manager | `llm_agent/runtime/task_manager.py` | records, active task, latest task of a session, two pools | submit, cancel, stop, `_run`, `_notify` | runner, callers, listeners |
| Skill runner, tool registry | `runtime/skill_runner.py`, `tools/registry.py` | position in the plan | one tool after another, token checks, timeouts | task manager, tool client |
| Robot tool client | `transport/ros/robot_tool_client.py` | one thread per call | wait for server, send goal, wait, cancel | gateway node (ROS action) |
| Robot tool gateway | `robot_host/ros/robot_tool_gateway/src/robot_tool_gateway_node.cpp` | `active_`, `active_key_`, `completed_steps_` | accept, execute, wait for Nav2, release | client, Nav2 |
| Agent gateway | `llm_agent/gateway/gateway.py` | response cache, locks of sessions | `run` | every entry of the agent |
| Receive ring, frame parser | `raspi_link.c:67-86, 123-135, 225-374` | ring with two indices, parser state, the frame being collected | receive and error interrupts; pop a byte, process a byte | serial line, the control part of the link |
| Ultrasonic sensor | `Sensors/Src/ultrasonic.c` | waiting, capturing, valid, time of the rising edge, distance | trigger, timeout (task), both edges (interrupt) | mux, executive |
| Base node and command safety | `robot_host/ros/small_car_base/ros/base_node.cpp`, `robot_host/core/small_car_base/control/command_safety.cpp` | last velocity and its time, front range | velocity message, command timer, telemetry poll, parameter callback | ROS, serial line |
| Sending side of the host | `robot_host/core/small_car_base/transport/serial_port.cpp`, `protocol/protocol.cpp` | – | write a frame, give it up half way | serial line |

### 1.2 How they interact, and what is hard about it

* **Update.** Script and bootloader exchange framed requests over a serial
  line. The bootloader blocks during flash operations and does not receive; power can fail at any
  flash operation; a request or its answer can be lost; the user can kill the
  script and run it again. Correct means: nothing runs that the build
  machine has not signed, a metadata record is complete only if the image is,
  the script's belief about the flash is true, and repeating the command
  succeeds in the end.
* **Motion.** One task runs the 20 ms cycle; the USB host thread, of the same
  priority, writes the gamepad's fields at any point in between. Commands
  of the gamepad, of the host and of nobody alternate; ramps,
  integrals and boost timers of earlier commands live on. Correct means: nobody
  moves the car with a command that is not current, no state of one mode
  drives the motors in another, and an obstacle takes forward motion away.
* **Tasks.** The runner, the tool client, the ROS gateway and Nav2 each wait
  for the next with a timeout and each can be cancelled. Correct means: at most one
  task is active, its end is final and announced, success reported on top is
  success below, the gateway runs one tool at a time and always comes free.
* **Requests.** Threads with retried requests meet in `AgentGateway.run`,
  which releases the session's lock before it stores the answer.
* **Link.** The receive interrupt fills a ring that the control task empties
  without a lock; the error interrupt sets ring and parser back wherever the task
  is. The host gives frames up half way. Correct means: bytes are lost
  but never made up, repeated or reordered, a frame is handled once, and the
  parser is back in step soon after any damage.
* **Distance.** Edges come in an interrupt, the timeout check runs in the
  task, and the clock both use wraps early. Correct means: a valid sample is
  a true and a recent one, a near object is seen, measuring never stops.
* **Commands of the host.** Velocity messages, a timer with a timeout, the front
  range and a parameter callback that blocks the node share one thread; writes fail
  unseen; the MCU holds a command under a timeout of its own. Correct means: no
  message moves the car for longer than the timeouts add up to, an obstacle the
  host knows of reaches the car, and a command in force is kept up.

The other components are listed with the reason why they are not modelled in
section 7.

## 2. The models

| Module | Code it stands for | Extends / composes |
|---|---|---|
| `OtaInstall` | abstract: a device that holds one signed image or none | – |
| `OtaBootloader` | the bootloader, the application's OTA messages, flash and power | refines `OtaInstall` |
| `OtaUpdate` | the script and its user on a faulty line | extends `OtaBootloader` |
| `WheelSpeed` | the wheel controller and the motor driver | – |
| `MotionControl` | executive, gamepad, host link, mux, chassis | extends `WheelSpeed` |
| `TaskManager` | the task manager with its two pools | – |
| `ToolChain` | runner, client, gateway node, Nav2 (external) | extends `TaskManager` and implements it |
| `AgentGateway` | `run()` with its locks | – |
| `LossyFifo` | abstract: a queue that may lose bytes | – |
| `RaspiRx` | ring, parser, both interrupts of the MCU's UART, frames of the host | refines `LossyFifo` |
| `Ultrasonic` | the sensor's task, its interrupt and the clock | – |
| `HostControl` | base node, command safety, line, the command the MCU holds | – |

Where constants are not plain numbers, an `MC...` module gives them values for TLC.
Every module has a section of *slips*: wrong variants of its definitions, which
no action uses. Each property of a run was checked to fail when one of them
takes the place of the right definition.

**OtaBootloader.** A frame handler is one step up to its first flash
operation; each flash operation after that is a step (`EraseSector`,
`ProgramFirstPart`, `ProgramRest`, `CommitField`), and between any two power may
fail (`PowerLoss`) or, in `WornSpec`, the flash may report an error (`FlashError`). `task` is
the rest of the handler, `ram` the static variables, `meta` and `app` the flash.
A block is one DATA payload; an interrupted program operation leaves it torn, an
interrupted erase leaves garbage, programming over other contents leaves
a mixture. HMAC-SHA256 is an ideal digest, CRC32 any function. `ram.bound` and
`ram.open` are history: the manifest of the BEGIN that opened the session, and
whether the hash contexts are still usable.

**OtaUpdate.** Replaces the free client by the script: one phase per request
(`enterInfo` … `final`), `SendRequest`, then `TakeResponse`, `SkipResponse` (an
answer with another number) or `Timeout`. Faults are counted: lost frames, lost
replies, early timeouts, kills, power loss, flash errors, and a telemetry
frame with the awaited number.

**WheelSpeed.** `TaskStep` is one call with any measurement per side: ramp,
integral, correction, minimum PWM, boost and duty in the order of the code;
`SetTarget`, `Stop` and the switch of the loop come at any time. Division
truncates towards zero as in C. Widths: with the ranges of `chassis_params.c` no
intermediate value leaves 32 bits, so integers are unbounded.

**MotionControl.** `pc` is the position of the control task at the points at
which a preemption can be noticed: asleep, handling frames (`input`), before each read of
`IsGamepadActive`, that is connection, activity, tick and tick of the last activity (`pad`,
`active`, `clock`, `compare`), before the sticks are read
(`sticks`), before the host's command is used (`host`), waiting for the reset
(`ota`). The USB thread writes in the order of `gamepad.c:223-250`. Stored ticks are
kept as ages; ages stop at `TickMod - 1` or, with `TickWraps`, go round.
`seen` is history for the properties.

**TaskManager.** What happens under the lock is one step (`Submit`,
`CancelActive`, `StopLocked`, `Take`, `Finish`); what happens outside is another
(`HandOver`, `ShutdownTasks`, `ShutdownNotices`, `Report`, `Notify`).

**ToolChain.** `call` is the state of the client's thread, `goal` the
gateway's side of the call, `motion` Nav2's. The gateway is free for the next tool before the
handle of the last one has its end (`ReleaseGateway`, `CloseGoal`). Every wait ends with its event or with its
timeout, in either order. Nav2 answers, refuses, arrives, fails or stops at will.

**AgentGateway.** `pc` of a caller: waiting for the session's lock, looking at
the cache again under it, running, storing after the release. A run may raise. A retry may name
another session than the call it repeats.

**RaspiRx.** `TaskStep` is cut where an interrupt makes a difference: between the reads of the two
indices, in either order, for their comparison (`PopLook`, `PopCheck`), before the byte is read
(`PopFetch`), before the tail is read once more (`PopAdvance`), before the new one
is stored (`PopStore`), before the parser's state is read (`Switch`) and before it is
written (`Parse`). `task` holds what the processor has read so far. A byte stands
for a part of a frame (sync, header, parts of the payload, CRC); a part read as a
header by a parser that is out of step tells any length. The CRC is ideal: it
matches the parts of one frame in their order and nothing else. Answers to
damaged frames change no state and are left out. `damaged` and `torn` are history:
frames of which a part was lost, and that the last line error has misled the task
inside `PopRxByte`.

**Ultrasonic.** One unit of time is 10 ms. `TaskStep` is two steps, `StepBegins`
and `StepEnds`, with edges in between; what the task has read before and
after an edge is a choice over the orders (`Expiry`, `waits`). `Elapsed` is the
unsigned difference of microseconds that wrap at 2^32 cycles and not at 2^32. An
object is near, far or absent and may change at any time; without one the echo ends late
or never. An echo during which the object changes (`moved`) ends at any width from that of
a near object on, or never; and one that is only awaited then may stay away. `nearFor` is
history: how long a near object has been there, counted anew when the sensor ignores a
trigger because an echo is still high.

**HostControl.** One unit of time is a period of the command timer. The node's callbacks
are steps of their own; `SetParameters` keeps the node in a callback for any
time. A frame is written, or lost with or without the node noticing, stays on the line
for at most `WireDelay`, and is then the command of the MCU until it is
older than `McuTimeout`. `nearFor` and `calm` are history.

## 3. The runs

| Run | Distinct states | What it shows |
|---|---|---|
| `OtaBootloader` | 1 199 816 | Any client (any frame, in any order, at any time) and power loss at any flash operation. `BootsSignedImage`: what runs is signed and bootable. `CommittedImageIntact`: complete metadata describes the flash. `AppChangesOnlyUnmarked`, `NoOverprogramming`: order of flash operations. The flash reports no errors here; power may fail. |
| `OtaUpdate` | 296 757 | The script with every kind of fault, flash errors included. `EndMeansInstalled`, `AcknowledgedBlocksOnFlash`: what the script believes is on the flash. `EventuallyTargetRuns`: the application asked for runs in the end. `Refines`: the bootloader implements `OtaInstall` under all of it. |
| `WheelSpeed` | 50 438 | `CleanHistory` (no integral is left at a standing start, boost only for pivoting), `PwmFollowsRamp`, `PivotShedsMotion` for any targets and measurements. |
| `MotionControl` | 3 349 460 | Timing: `HostMotionIsCurrent`, `PadMotionIsCurrent`, `PadKeepsChassis` with late ticks and a racing USB thread. |
| `MotionObstacle` | 849 712 | With gains, turn-start boost, unequal sides and a side that lags: `ObstacleNeverApproached`: no decision in front of an obstacle speeds the car up forward. `ForwardMotionEnds`: once the host keeps to one turn rate, decisions come to drive the car forward no longer: the two ramps of the closed loop, and the two duties of the open loop, do not sum up to a forward motion. |
| `TaskManager` | 22 761 | Three tasks, two sessions: ownership, tokens, final ends, nothing lost, every end announced. |
| `ToolChain` | 3 451 159 | Two tasks with one call each: `CompletedMeansArrived`, `OneToolAtATime`. |
| `ToolChainLive` | 446 264 | A task with two calls and one with none, the manager may stop: `FairTaskSpec` (the chain implements the manager with its fairness: the runner really returns), `GatewayComesFree`, `OneLateGoalAtMost`. |
| `AgentGateway` | 16 720 | Five callers, three requests, two sessions, a cache of two: `SessionsAreSerial`, `CacheIsSound`, `EveryCallReturns`. |
| `RaspiRx` | 2 810 429 | `IsLossyFifo`: the ring implements the lossy queue. `HandledInOrder`: frames are handled once and in order. `FramesGetThrough`: a whole frame after enough whole frames is handled, whatever was damaged before. |
| `Ultrasonic` | 4 527 640 | `SampleIsTrue`, `SampleIsFresh`, `NearIsSeen`, `KeepsMeasuring` for prompt, slow, silent and stuck sensors, and objects that come and go also during an echo, over several wraps of the clock. |
| `HostControl` | 361 542 | `MotionIsRecent`, `ObstacleReachesCar`, `CommandHolds`: what reaches the car, and for how long, when writes fail, frames are lost and the node is kept busy. |

**Bounds, and why they are enough.**

* OTA: two application blocks in two sectors are the least with a first, a
  last, a torn and an untouched block, and with sectors that are erased one
  after another; sizes reach one beyond the region. Three signed images (two
  lengths, one not bootable) allow every mix-up of manifest and data. With the
  free client sequence numbers do not matter (one value); the script
  has four (the code 256), so that numbers come round within a behaviour.
  `MaxFaults = 3` lets a request, its repetition and the answer of either be lost;
  `MaxRuns = 8` exceeds what three faults can use up. `DataTries`
  and `Polls` are cut from 5 to 2 and from 10 to 1.
* `WheelSpeed`: a ramp step that can skip zero, gains for which the correction can
  exceed the feed-forward, and unequal scales of the two sides.
* `MotionControl`: timeouts of one tick and ages up to five distinguish
  "current", "at the limit" and "too old"; `MaxLate = 1` and `FramesPerCycle = 1` bound
  preemption and frames in a cycle. PI and boost are off in the run `MotionControl`, whose
  properties are about time. `MotionObstacle` has two speeds, a ramp, a gain, a boost of two
  cycles, one side scaled by 0.7 and sides that move or stand still, so that commands,
  ramps and duties of the two sides all differ.
* `ToolChain`: one session, because two tasks of two sessions differ in
  nothing the tools can see. Two calls in all are enough for a late goal to meet the next.
* `AgentGateway`: three callers of two requests in one session, a request of another
  session that is retried in the first, and a cache smaller than the number of requests,
  so that an answer is evicted while a retry waits.
* `RaspiRx`: three frames, the first of which is long enough to cover a short one
  when its length is trusted; three slots, which hold two bytes, so that the ring fills
  up and comes round inside a frame; two faults, so that an error hits the parser on its
  way back from another.
* `Ultrasonic`: a period of 8, a timeout of 4 and a wrap of 16 keep the order of the
  program's 100 ms, 40 ms and 25.6 s. The step comes after two or three units, so that a
  period really lasts 8 to 10 units and every phase of the wrap meets every phase of the period.
* `HostControl`: timeouts of three and two periods and a delay of one distinguish
  "before", "at" and "after" each limit; two frames on the line. The limits in the
  properties are tight: each fails when it is lowered by one.

**Deadlock** is checked in `OtaBootloader`, `WheelSpeed`, `MotionControl`,
`MotionObstacle`, `RaspiRx`, `Ultrasonic` and `HostControl`. It is off where the system comes to a stop by
itself: when all runs and faults are used up (`OtaUpdate`), when all tasks are over and
announced (`TaskManager`, `ToolChain`, `ToolChainLive`), when all callers have returned
(`AgentGateway`). That
nothing stops too early there is the subject of the liveness properties.

## 4. Fairness

* `OtaUpdate`: the MCU runs its polling loop and its handlers (`McuStep`), the
  script runs its code and its timeouts (`HostStep`), the user repeats
  the command after a failure (`RunScript`, `firmware-update.md:95`). No fault
  has to happen or to stop: their number is bounded.
* `MotionControl`: time passes (`Tick`), the USB thread finishes an update it has
  begun, and the control task is scheduled (FreeRTOS time slicing, equal
  priorities). Nothing is assumed of gamepad, host or sensor. The fairness of
  the cycle is written with `CycleReady`, which is when `Cycle` is enabled, to
  keep TLC from evaluating ENABLED of a step with many choices.
* `TaskManager`: the two pools' threads run, a caller that has recorded a task
  hands it over, and the runner returns. The last is an assumption of this module
  only: `ToolChainLive` shows that the chain satisfies it, because every wait in
  it has a timeout.
* `ToolChain`: threads of runner, client and gateway go on; nothing is assumed of
  Nav2.
* `AgentGateway`: threads are scheduled and `runtime.run` returns or raises. Weak
  fairness per caller suffices, as each calls once and a lock is passed on a finite
  number of times.
* `RaspiRx`: the control task goes on. Nothing is assumed of host, line and errors, so
  that a frame only has to get through if the line delivers it.
* `Ultrasonic`: time passes, edges that are due come (`RiseDue`, `FallDue`), the task
  runs. Nothing is owed by a sensor with no object before it or by an echo the object
  has changed under.

## 5. The proofs

All are for every value of the constants that satisfies the named assumptions of
the module.

| Theorems | Argument |
|---|---|
| `OtaBootloaderProofs`: `TypeCorrect`, `BootSafety`, `CommitSafety`, `EraseOrder`, `ProgrammedOnce`, `Refinement` | `TypeOK` is inductive. `BootSafety` needs only that `MetadataValid` held when the application was started and that its flash is not written while it runs (`AppIsValid`), plus `SigningAssumption`. `CommitSafety`, `EraseOrder` and `ProgrammedOnce` are about a flash without errors (`Spec`), the others about one with errors as well (`WornSpec`). They rest on `UpdateInv`: `CommittedImageIntact` is not inductive, as it says nothing of a half finished handler; `UpdateInv` adds what erasing, programming and committing have reached, and that the running hash is the hash of the flash; so what DATA and END program was erased before. `Refinement` rests on `UncommittedInv` alone: while a session is open the metadata lacks its digest, the field written last, so a valid image never turns into another. |
| `OtaUpdateProofs`: `UpdateTypeCorrect`, `EndInstalls`, `BlocksDelivered`, `UpdateRefines`, `UpdateBootsSigned`, `TargetIsWhatRuns` | For a client of which only its phase and place are known neither invariant of the script is inductive: what it believes depends on every message still on the way. `TypeInv` ties phase, place and retries together. `DeliveryInv` relates the script to the two queues: which requests can be there in which phase (`InboxInv`), that no BEGIN is overtaken by a block (`OrderInv`), that requests of an earlier wish are never heard by the bootloader (`ForeignInv`), what the handler in progress serves (`TaskInv`), which answers can be there (`OutboxInv`), that an open session is the script's and at its place or one block ahead (`TransferInv`), that a second BEGIN of an earlier attempt is handled before the first block counts as delivered (`RewindInv`), that an answer which reports the current block as delivered is right and is the last acknowledgement of a block on its way (`AnswerInv`), and what holds from the acknowledgement of END on (`EndInv`). Flash errors, losses of power, damaged, lost and telemetry frames are all included. No part of it speaks of sequence numbers; TLC confirms it with a single one. `UpdateRefines` uses the bootloader's `UncommittedInv` and its lemma `DeviceStep` for a step of the device. `TargetIsWhatRuns` says what the user gets of it: `DoneMeansStarted` (section 6) fails because the new application may not have been started yet, never because another one runs. |
| `MotionControlProofs`, part 1: `WheelTypeCorrect`, `WheelHistory`, `NoCounterDrive`, `ObstacleShedsMotion` | `WheelInv` = type, no integral at rest, boost only while the sides turn against each other. The lemmas bound `Clamp`, `MoveTowards`, the integral and the correction; `PiSign` is the one that keeps the drive from changing its sign. |
| `MotionControlProofs`, part 2: `MotionTypeCorrect`, `HostMotion`, `PadMotion`, `PadKeeps`, `ObstacleHolds`, `HistoryStaysClean`, `ModesLeaveNothing`, `HostFollowsRamp` | The lemmas of part 1 bound the wheels in the composition too. `CycleLate` bounds the ticks since the cycle began. `HostInv`: the age of the command is that of its frame, and a valid command was a motion command; so whatever the cycle reads is as old as the timeout and the ticks since then allow. `GoneInv` counts the decisions since the gamepad was unplugged: the one under way is the only one it may win. `TouchInv`: the recorded activity is at least as old as the last touch unless the USB thread is about to record it. `KeepInv` does the same for what was read before a preemption, on either side of a wrap. `HostMotion` and `PadMotion` assume `TickWraps = FALSE`: with a wrap they are false (`PadReleases` below; a command that nobody looks at for 49 days is young again). The others hold with a wrap. `ModesInv` carries the history of the wheel controller through changes of mode: `CleanHistory`, and that outside the automatic mode the controller is at rest and a stopped car has no duty (`OneModeAtATime`). |
| `ToolChainProofs`, part 1: `TaskTypeCorrect`, `TaskOwnership`, `TokenCorrect`, `EndsAreFinal`, `AnnouncementsSound`, `NoTaskLost` | `OwnerInv` = type, `OneOwner`, `TokenTellsStatus` and `WorkerRuns` (the task in the worker is running or overruled, which `OneOwner` does not say and `Finish` needs). The others follow from it. |
| `ToolChainProofs`, part 2: `ChainImplementsTasks`, `ToolsAreSerial`, `CompletedTasksArrived`, `LateGoalsBounded` | Every step of the chain is a step of the task manager or leaves it alone, so its theorems hold of the chain. `GateInv`: a goal that executes is the one in the gateway. `ChainInv` = `OwnerInv` with `Begun` (what has not begun has no state), `Truthful` (success above implies success below, layer by layer) and `RunnerInv` (all calls but the current one have succeeded while the runner goes on). `LateInv`: only the last call of a task can still be unsent, and a task with a late goal has sent it. |
| `AgentGatewayProofs`: `SessionsSerial`, `GatewayTypeCorrect`, `CacheCorrect` | `LockInv`: a caller between lock and release is the holder of its session's lock. `CacheInv` = type, one entry for each request, the size, and that every entry answers the request it is kept under, which `CacheIsSound` does not say and the reply of a cached answer needs. Lemmas say what taking an entry out, putting one at the end and trimming leave of that; the room that `Others` makes is what keeps an answer from the cache within the size, as `run` trims only after a store. |
| `RaspiRxProofs`: `RxTypeCorrect`, `RingIsLossyFifo`, `FramesInOrder` | `PayloadInv`: wherever a reset sets the payload index back, index and the one the task still holds are below the length when a byte is stored. `PopInv`: once it has found a byte `PopRxByte` works on the head of the queue unless the pass is torn; with the lemmas on the ring's arithmetic (`QueueShape`, `Stored`, `Popped`) every step is a step of `LossyFifo` or changes nothing in it. `AgeInv` and `OrderInv`: ring, byte in hand and frames handled are in the order of the host; old slots are older than anything still to come, also when an error makes them look new. |
| `HostControlProofs`: `HostTypeCorrect`, `MotionEnds`, `ObstacleEndsForward`, `CommandKept` | `LineInv`: frames on the line are ordered by age, none older than `WireDelay`. `TimelyInv`: what is on the line or in force is no older than its place allows. `CalmInv`: how far the last command has come after so many quiet periods; `CommandHolds` says nothing of frames still on the line. |
| `UltrasonicProofs`: `TypeCorrect`, `DistanceIsTrue`, `DistanceIsFresh`, `NearSeen` | `EchoInv`: while an echo is captured the counter is its width past the rising edge, one wrap at most (`Capture`), because `TaskStep` gives up on it before a second wrap; so the difference of a falling edge is the true width or huge. `FreshInv` follows a valid sample through its three phases: at rest (`Resting`), after the next trigger (`Asking`), while the next echo is captured; each bounds its age by the clocks of the code, none of which is compared with it. `SeenInv` follows the window of `NearIsSeen`, which a wrap, another object and an ignored trigger close: until a measurement of the near object alone has begun the clocks of the sensor are older than the window (`Before`); then it is awaited, measured or done. An echo the object came into ends within `Before`, or the next trigger is ignored. `NearSeen` assumes `TimeToMeasure`, that an echo and the late step after it fit into a period, as 40 ms, 20 ms and a late step fit into the 100 ms of the code. It is needed: with `Timeout + Cycle + Late >= Period` (for example 4, 2, 1 and 7, with `Wrap = 14`) TLC finds `NearIsSeen` violated. |

Every invariant and every action property a run checks, both refinements and the
safety part of `FairTaskSpec` are stated by a theorem. Only model-checked: liveness
(`EventuallyTargetRuns`, `ForwardMotionEnds`, `EveryTaskEnds`, `EveryEndAnnounced`,
`GatewayComesFree`, `EveryCallReturns`, `FramesGetThrough`, `KeepsMeasuring`, and the
fairness part of `FairTaskSpec`), since liveness under fairness and ENABLED are
beyond the prover. There is no recursion in the modules, and no induction over data
is needed: the cache is a sequence from which the place of a request is taken out
(`Without`), not one that is filtered, as filtering is defined by recursion.

The invariants were checked with TLC before they were proved. Those of the script
(`TypeInv` and `DeliveryInv`) hold in 657 478 states with `MaxFaults = 4`, `Polls = 2` and
`MaxRuns = 10`, and in 38 128 with one sequence number, a target that is too long and
`DataTries = 3`.

What the assumptions ask of the constants, beyond their types:

* `EncodingAssumption`: magic number, digests, blocks and sizes are not the contents of
  erased or half written flash. A version or CRC
  may look erased, which is why `EndMeansInstalled` asks for the magic number.
* `UpdateAssumption`: sequence numbers are 0 .. n - 1 for some n, 256 in the code.
* `MotionAssumption`: a cycle is late by no more than the hold time of the
  gamepad (`MaxLate <= PadHold`; 2 s in the code), which `PadMotion` needs: a report whose
  fields the USB thread takes longer than that to write would count as a recent touch when it is not.

## 6. Where documents and code disagree

The following are stated in the modules and are violated. None has a run of its own. To see
a counterexample, put the property in the place of those of the named configuration.

| Property | Configuration | Document | Code |
|---|---|---|---|
| `DataWithinDeclaredImage` | `OtaBootloader` | `robot_host/docs/protocol.md:207`: DATA stays within the declared size | `main.c:276`: a BEGIN that is refused has already overwritten the size of the open session |
| `DoneMeansStarted` | `OtaUpdate` | `mcu_ota.py:297` reports that the new application runs | lost BOOT and lost last query count as success |
| `EndProvesImageValid` | `OtaUpdate` with `Targets <- MCSigned` | `mcu_ota.py:241`: END proves the image valid | END does not look at the vector table |
| `ReversalStartsClean` | `WheelSpeed` | `wheel_speed_controller.c:194`: a reversal starts without the old integral | the integral is cleared once, while the ramp is still in the old direction |
| `BoostEndsOnMotion` | `WheelSpeed` | `wheel_speed_controller.c:268-271`: motion ends the boost | the timer is never cleared by motion |
| `ObstacleStopsCar` | `MotionObstacle` | `system-framework.md:11`: a near obstacle forces a stop | `control_mux.c:37` removes the forward part of a command only; under commands that alternate between straight ahead and a turn the two ramps never shrink together and the car creeps on |
| `PadTakesOver` | `MotionControl` | `system-framework.md:12`: a touch takes over at once | `gamepad.c:94` reads the tick before the activity; a newer activity looks very old for one cycle |
| `PadReleases` | `MotionControl` with `TickWraps = TRUE` | same line: released after two seconds | the activity flag outlives the hold time; after the wrap of the tick the gamepad owns the car again |
| `NoGoalAfterCancel` | `ToolChainLive` | `architecture.md:117`: no action begins after the cancellation | `robot_tool_client.py:34` looks at the token before a wait of up to a second |
| `CancelReachesGateway` | `ToolChainLive` | `architecture.md:116`: the client cancels the action under way | `robot_tool_client.py:97` leaves without cancelling when the goal is still being submitted; the gateway runs it |
| `AnsweredIsNotRunAgain` | `AgentGateway` | `architecture.md:110-111`: a completed request is answered from the cache | `gateway.py:51` stores the answer after the session's lock is released; a retry that takes the lock in between runs the request again |
| `NothingReplayed` | `RaspiRx` | `raspi_link.c:250-253`: after a line error the half frame is thrown away and the parser goes on with the next sync | an error between the first read of an index and the store of the new tail can leave tail beside head, and the old contents of the ring are read again: a frame can be handled twice |
| `AcceptsOnlyAtRest` | `ToolChain` | `robot_host/docs/navigation.md:55`: one motion at a time | `robot_tool_gateway_node.cpp:246` frees the gateway without waiting for Nav2 to stop |
| `StopStops` | `ToolChain` | same line: stop cancels the motion | `:107` refuses stop like any other tool while one is active |

Limits of the results, which follow from the code and not from the models:

* `ForwardMotionEnds` speaks of the ramps, which say where the closed loop drives the car, and not
  of its duties. While the car turns on the spot in front of an obstacle the sum of the two duties
  can stay positive for as long as one side lags, is scaled differently or is boosted
  (`wheel_speed_controller.c:150-172, 281-302`): the correction pushes the forward side harder
  than the other. The sum of the duties in its place is violated in `MotionObstacle`.
* `ObstacleReachesCar` speaks of the range the host knows. The range has no age: when
  the telemetry stops, the last one is used for ever (`command_safety.cpp:63`).
* `NearIsSeen` counts from the coming of the object or from the last trigger that was ignored, and
  that matters: an echo of nothing, late or stuck high, hides a near object that comes while it
  lasts. The next trigger clears `capturing` (`ultrasonic.c:73`), the sensor ignores it, and the
  falling edge is dropped (`:179`); while the echo is high every further trigger is ignored too.
  Without the restart of `nearFor` in `Triggers` TLC finds `NearIsSeen` violated in this way.
* `NearIsSeen` excepts a wrap of the microseconds. They wrap every 25.6 s (2^32 cycles
  at 168 MHz), and an echo under way then is discarded: a near object can go unseen for one
  period. It also excepts slow sensors, whose wait begins with the rising edge of
  the echo before (`ultrasonic.c:113`) and may time out at once. It relies on the period being
  longer than a measurement and a late step (`TimeToMeasure`).
* `IsLossyFifo`, `HandledInOrder` and `FramesGetThrough` except what follows an error inside `PopRxByte`,
  until the next error (`torn`); `NothingReplayed` above says why.

## 7. What is not modelled

* Planned (section 8): servos, encoders, chassis parameters at run time, the chassis
  configuration download, session store, voice client; the host's receiving
  parser and the cache of the last messages.
* Left out: battery, IMU, display and debug output; the USB HID parser; vendored
  drivers and middleware; gimbal, audio and trajectory helpers; odometry path
  node; voice daemon; navigation and description packages; scripts; skills, policy,
  models, providers, configuration and ROS transport of the agent; debug web;
  interfaces. They are input and output, wiring, catalogues or
  external code, and keep no state the properties are about.
* Inside the modelled components: the byte format of frames (in `RaspiRx` a frame is its
  parts, elsewhere it arrives whole, damaged or not at all), the time a hash or a flash operation
  takes, unit conversion of encoder counts, argument validation of tools (one choice), the text
  of results, the decisions of the language model, the recovery request of the base node.
* `MotionControl` takes host frames and `near` as free input: any order
  that `RaspiRx`, `HostControl` and `Ultrasonic` can produce, and more.

Most lines of the repository are vendored (CMSIS, the STM32 HAL, FreeRTOS, USB
libraries): about nine tenths of the C code. The models cover the project's own control logic, which is
a small share of all lines.

## 8. Plan

Order of the work; what is done is marked.

1. Update: `OtaInstall`, `OtaBootloader`, `OtaUpdate` (done); theorems (done).
2. Motion: `WheelSpeed`, `MotionControl` (done); theorems (done).
3. Tasks: `TaskManager`, `ToolChain`, `AgentGateway` (done); theorems (done).
4. Link: `LossyFifo`, `RaspiRx` (done); theorems (done).
5. `Ultrasonic` (done); theorems (done).
6. `HostControl` (done); theorems (done).
7. Chassis configuration download with retries (it reads parameters one by one
   and takes a late answer for that of the attempt under way).
8. Servos (two writers, one cached position), encoders (16-bit differences), chassis
   parameters changed at run time.
9. Session store (runs, events, clear, retries) against an abstract idempotent request
   server; voice client.
10. Theorems: the safety of the runs is proved. Left are stronger statements: that a second
   END or BOOT of the script changes nothing, and that `HostControl`, `RaspiRx` and
   `Ultrasonic` produce no input that `MotionControl` does not allow.
