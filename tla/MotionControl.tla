---------------------------- MODULE MotionControl ----------------------------
(***************************************************************************)
(* Who drives the car: the 20 ms cycle of defaultTask (freertos.c), from   *)
(* the frames of the Raspberry Pi through ControlMux and Chassis to the    *)
(* wheel controller, while the USB host thread, of the same priority,      *)
(* updates the gamepad a field at a time and may be preempted in between.  *)
(*                                                                         *)
(* One tick is one cycle.  A tick counter is represented by the age of the *)
(* event it was stored for: unsigned "now - then" of the code.  Ages       *)
(* either wrap like the 32-bit counter does (TickWraps) or stop at         *)
(* TickMod - 1, which stands for every age short of the wrap.              *)
(***************************************************************************)
EXTENDS WheelSpeed

CONSTANTS
  Reports,         \* gamepad reports: connected, forward, turn, touched
  HostFrames,      \* control frames: kind ("go", "stop", "bad"), forward, turn
  HostTimeout,     \* RASPI_CONTROL_TIMEOUT_MS
  PadHold,         \* GAMEPAD_CONTROL_HOLD_MS
  ManualDeadband, PivotThreshold, AutoDeadband, WheelTrack,
  TickMod,         \* ages are below this
  TickWraps,       \* the behaviour is long enough for the tick counter to wrap
  FramesPerCycle,  \* bound on the frames handled in one cycle
  MaxLate          \* bound on the ticks that pass while a cycle or a USB update runs

ASSUME MotionAssumption ==
  /\ {HostTimeout, PadHold, ManualDeadband, PivotThreshold, AutoDeadband,
      WheelTrack, TickMod, FramesPerCycle, MaxLate} \subseteq Nat
  /\ HostTimeout + MaxLate + 1 < TickMod /\ PadHold + MaxLate + 1 < TickMod
  /\ MaxLate <= PadHold
  /\ TickWraps \in BOOLEAN
  /\ Reports \subseteq [connected : BOOLEAN, forward : Int, turn : Int, touched : BOOLEAN]
  /\ \A r \in Reports :
       /\ r.forward # 0 \/ r.turn # 0 => r.touched
       /\ r.touched => r.connected
  /\ HostFrames \subseteq [kind : {"go", "stop", "bad"}, forward : Int, turn : Int]

VARIABLES
  pad,       \* g_gamepad_state, g_has_control_activity, age of g_last_activity_tick
  usb,       \* the USB thread: next field to write, the report, ticks since it came
  host,      \* g_host_command, g_host_command_valid, age of g_last_control_tick
  near,      \* Ultrasonic_IsObstacleNear()
  mode,      \* g_mode
  pc,        \* where defaultTask is
  late,      \* ticks since the cycle began or, asleep, since it ended
  frames,    \* frames handled in this cycle
  snapshot,  \* age of the tick IsGamepadActive has read
  seen       \* history: what the properties compare the cycle with

padVars   == <<pad, usb>>
motorVars == <<wheel, enabled, pwm, mode>>
motionVars == <<wheelVars, pad, usb, host, near, mode, pc, late, frames, snapshot, seen>>

Ages == 0 .. TickMod - 1
Centred == [connected |-> FALSE, forward |-> 0, turn |-> 0, touched |-> FALSE]
IdleUsb == [pc |-> "idle", report |-> Centred, late |-> 0]

\* The history: the real age of the last touch of the gamepad (when its report
\* arrived or, later, when it was recorded) and of the last accepted control frame;
\* the kind of the last control frame; whether the gamepad owned the chassis
\* when IsGamepadActive read the tick, and whether its activity was recorded again
\* before the comparison; decisions since the gamepad is gone.
History == [touch : Ages, frame : Ages, kind : {"none", "go", "stop", "bad"},
            owned : BOOLEAN, raced : BOOLEAN, gone : 0 .. 2]

MotionTypeOK ==
  /\ TypeOK
  /\ pad \in [connected : BOOLEAN, forward : Int, turn : Int,
              activity : BOOLEAN, age : Ages]
  /\ usb \in [pc : {"idle", "forward", "activity", "tick"},
              report : Reports \cup {Centred}, late : 0 .. MaxLate]
  /\ host \in [valid : BOOLEAN, enabled : BOOLEAN, forward : Int, turn : Int, age : Ages]
  /\ near \in BOOLEAN
  /\ mode \in {"stopped", "manual", "automatic"}
  /\ pc \in {"sleep", "input", "pad", "active", "clock", "compare", "sticks", "host", "ota"}
  /\ late \in 0 .. MaxLate + 1 /\ frames \in 0 .. FramesPerCycle
  /\ snapshot \in Ages /\ seen \in History

MotionInit ==
  /\ WheelInit
  /\ pad = [connected |-> FALSE, forward |-> 0, turn |-> 0, activity |-> FALSE, age |-> 0]
  /\ usb = IdleUsb
  /\ host = [valid |-> FALSE, enabled |-> FALSE, forward |-> 0, turn |-> 0, age |-> 0]
  /\ near = FALSE /\ mode = "stopped"
  /\ pc = "sleep" /\ late = 0 /\ frames = 0 /\ snapshot = 0
  /\ seen = [touch |-> TickMod - 1, frame |-> TickMod - 1, kind |-> "none",
             owned |-> FALSE, raced |-> FALSE, gone |-> 0]

-----------------------------------------------------------------------------
(* Time.  The task is woken when its delay is over; the two threads share  *)
(* the processor tick by tick, so a cycle or an update of the gamepad that *)
(* has begun is over within MaxLate ticks.                                 *)

RealOlder(age) == IF age = TickMod - 1 THEN age ELSE age + 1
Older(age)     == IF TickWraps THEN (age + 1) % TickMod ELSE RealOlder(age)

Tick ==
  /\ late < IF pc = "sleep" THEN 1 ELSE MaxLate
  /\ usb.late < MaxLate
  /\ late' = late + 1
  /\ usb' = [usb EXCEPT !.late = IF usb.pc = "idle" THEN 0 ELSE @ + 1]
  /\ pad' = [pad EXCEPT !.age = Older(@)]
  /\ host' = [host EXCEPT !.age = Older(@)]
  /\ snapshot' = IF pc = "compare" THEN Older(snapshot) ELSE snapshot
  /\ seen' = [seen EXCEPT !.touch = RealOlder(@), !.frame = RealOlder(@)]
  /\ UNCHANGED <<wheelVars, near, mode, pc, frames>>

\* The echo interrupt and the measurement period change the obstacle flag.
Sense ==
  /\ near' = ~near
  /\ UNCHANGED <<wheelVars, padVars, host, mode, pc, late, frames, snapshot, seen>>

-----------------------------------------------------------------------------
(* Gamepad_UpdateFromUsb, in the USB thread.  The connection and the turn  *)
(* are written in one step: the cycle looks at the connection before the   *)
(* sticks and cannot tell the two writes apart.                            *)

UsbReport ==
  /\ usb.pc = "idle"
  /\ \E r \in Reports :
       /\ usb' = [pc |-> "forward", report |-> r, late |-> 0]
       /\ pad' = [pad EXCEPT !.connected = r.connected, !.turn = r.turn]
       /\ seen' = [seen EXCEPT !.gone = IF r.connected THEN 0 ELSE @,
                                !.touch = IF r.touched THEN 0 ELSE @]
  /\ UNCHANGED <<wheelVars, host, near, mode, pc, late, frames, snapshot>>

UsbWrite(now, next, new) ==
  /\ usb.pc = now
  /\ usb' = IF next = "idle" THEN IdleUsb ELSE [usb EXCEPT !.pc = next]
  /\ pad' = new
  /\ UNCHANGED <<wheelVars, host, near, mode, pc, late, frames, snapshot>>

UsbForward ==
  /\ UsbWrite("forward", "activity", [pad EXCEPT !.forward = usb.report.forward])
  /\ UNCHANGED seen

\* Unplugging forgets the activity, a touched control records it.
UsbActivity ==
  /\ UsbWrite("activity", IF usb.report.touched THEN "tick" ELSE "idle",
       [pad EXCEPT !.activity = IF usb.report.connected THEN @ \/ usb.report.touched ELSE FALSE])
  /\ UNCHANGED seen

UsbTick ==
  /\ UsbWrite("tick", "idle", [pad EXCEPT !.age = 0])
  /\ seen' = [seen EXCEPT !.touch = 0, !.raced = @ \/ pc = "compare"]

UsbStep == UsbReport \/ UsbForward \/ UsbActivity \/ UsbTick

-----------------------------------------------------------------------------
(* Faults: what a slip in the definitions below would make of them.  They  *)
(* are used by no definition; the properties tell each from the code.      *)

HeldForever   == TRUE                                         \* no timeout
HeldTooShort  == (pad.age - snapshot) % TickMod < PadHold     \* "<" for "<="
SpokenOnce    == host.valid                                   \* no timeout
LimitedBackward(forward)  == IF near /\ forward < 0 THEN 0 ELSE forward
Unlimited(forward)        == forward

-----------------------------------------------------------------------------
(* The control cycle up to the decision: frames of the Raspberry Pi.       *)

inputVars == <<pad, usb, near, late, snapshot>>

Wake ==
  /\ pc = "sleep" /\ late = 1
  /\ pc' = "input" /\ late' = 0 /\ frames' = 0
  /\ UNCHANGED <<wheelVars, padVars, host, near, mode, snapshot, seen>>

Framed(to) == pc = "input" /\ frames < FramesPerCycle /\ frames' = frames + 1 /\ pc' = to

\* HandleControlCommand: a frame of an unknown mode disables the command
\* without touching its validity or its age.
AfterControl(f) ==
  IF f.kind = "bad"
  THEN [host EXCEPT !.enabled = FALSE, !.forward = 0, !.turn = 0]
  ELSE [valid |-> TRUE, age |-> 0, enabled |-> f.kind = "go",
        forward |-> IF f.kind = "go" THEN f.forward ELSE 0,
        turn    |-> IF f.kind = "go" THEN f.turn ELSE 0]

HandleControl ==
  /\ Framed("input")
  /\ \E f \in HostFrames :
       /\ host' = AfterControl(f)
       /\ seen' = [seen EXCEPT !.kind = f.kind, !.frame = IF f.kind = "bad" THEN @ ELSE 0]
  /\ UNCHANGED <<wheelVars, mode, inputVars>>

HandleParam ==
  /\ Framed("input")
  /\ \E on \in BOOLEAN : SetClosedLoop(on)
  /\ UNCHANGED <<host, mode, seen, inputVars>>

\* OTA_ENTER stops the chassis, waits for the acknowledgement and resets.
OtaEnter ==
  /\ Framed("ota")
  /\ Stop /\ mode' = "stopped"
  /\ UNCHANGED <<host, seen, inputVars>>

Reset ==
  /\ pc = "ota"
  /\ wheel' = AllAtRest /\ enabled' = FALSE /\ closedLoop' = TRUE /\ pwm' = Still
  /\ pad' = [connected |-> FALSE, forward |-> 0, turn |-> 0, activity |-> FALSE, age |-> 0]
  /\ usb' = IdleUsb
  /\ host' = [valid |-> FALSE, enabled |-> FALSE, forward |-> 0, turn |-> 0, age |-> 0]
  /\ near' = FALSE /\ mode' = "stopped"
  /\ pc' = "sleep" /\ late' = 0 /\ frames' = 0 /\ snapshot' = 0
  /\ seen' = [touch |-> TickMod - 1, frame |-> TickMod - 1, kind |-> "none",
              owned |-> FALSE, raced |-> FALSE, gone |-> 0]

InputDone ==
  /\ pc = "input" /\ pc' = "pad"
  /\ UNCHANGED <<wheelVars, host, mode, frames, seen, inputVars>>

-----------------------------------------------------------------------------
(* Gamepad_GetControlCommand.  IsGamepadActive reads the connection, the   *)
(* activity, the tick and the tick of the last activity one after the other. *)

PadRead(what, live, next) ==
  /\ pc = what
  /\ pc' = IF live THEN next ELSE "host"
  /\ UNCHANGED <<wheelVars, padVars, host, near, mode, late, frames, snapshot, seen>>

PadCheck  == PadRead("pad", pad.connected, "active")
PadActive == PadRead("active", pad.activity, "clock")

PadClock ==
  /\ pc = "clock" /\ pc' = "compare" /\ snapshot' = 0
  /\ seen' = [seen EXCEPT !.raced = FALSE,
                           !.owned = pad.connected /\ pad.activity /\ pad.age <= PadHold]
  /\ UNCHANGED <<wheelVars, padVars, host, near, mode, late, frames>>

\* Unsigned difference of the tick that was read and the recorded one.
Held == (pad.age - snapshot) % TickMod <= PadHold

PadCompare ==
  /\ pc = "compare"
  /\ pc' = IF Held THEN "sticks" ELSE "host"
  /\ snapshot' = 0
  /\ UNCHANGED <<wheelVars, padVars, host, near, mode, late, frames, seen>>

-----------------------------------------------------------------------------
(* The decision: the command, the obstacle limit, Chassis_ApplyCommand and *)
(* Chassis_TaskStep.                                                       *)

Limited(forward) == IF near /\ forward > 0 THEN 0 ELSE forward

OutOfBand(x, band) == IF Abs(x) < band THEN 0 ELSE x

\* ChassisManual_Mix: pivot at small forward values, otherwise slow the inner
\* side down, to zero at most.
ManualMix(forwardIn, turnIn) ==
  LET forward == OutOfBand(forwardIn, ManualDeadband)
      turn    == OutOfBand(turnIn, ManualDeadband)
      limit(x) == Clamp(x, -MotorMax, MotorMax)
      inner   == LET x == limit(IF turn > 0 THEN forward - turn ELSE forward + turn)
                 IN  IF x * forward < 0 THEN 0 ELSE x
      outer   == limit(forward)
  IN  [s \in Sides |->
         IF Abs(forward) < PivotThreshold
         THEN IF s = "left" THEN limit(turn) ELSE limit(-turn)
         ELSE IF (s = "right" /\ turn > 0) \/ (s = "left" /\ turn < 0) THEN inner ELSE outer]

\* ChassisAuto_Mix: differential inverse kinematics.
AutoMix(linear, angular) ==
  LET forward == OutOfBand(Clamp(linear, -MaxSpeed, MaxSpeed), AutoDeadband)
      turn    == Quotient(angular * WheelTrack, 2000)
  IN  [s \in Sides |-> Clamp(IF s = "left" THEN forward - turn ELSE forward + turn,
                             -MaxSpeed, MaxSpeed)]

ManualPwm(forward, turn) ==
  LET mix == ManualMix(forward, turn) IN [s \in Sides |-> Drive(mix[s])]

\* Chassis_SetManualVelocity: leaving another mode forgets the wheel controller.
SetManualVelocity(forward, turn) ==
  /\ wheel' = IF mode = "manual" THEN wheel ELSE AllAtRest
  /\ enabled' = (mode = "manual" /\ enabled)
  /\ pwm' = ManualPwm(forward, turn)
  /\ mode' = "manual"
  /\ UNCHANGED closedLoop

\* Chassis_SetAutoVelocity and the controller's step of the same cycle.
SetAutoVelocity(forward, turn) ==
  /\ \E measured \in [Sides -> Measurements] :
       LET ws == Retargeted(wheel, AutoMix(forward, turn)) IN
       IF closedLoop
       THEN wheel' = ClosedLoopWheel(ws, measured) /\ pwm' = ClosedLoopPwm(ws, measured)
       ELSE wheel' = ws /\ pwm' = OpenLoopPwm(ws)
  /\ enabled' = TRUE
  /\ mode' = "automatic"
  /\ UNCHANGED closedLoop

ChassisStop == Stop /\ mode' = "stopped"

Decided ==
  /\ pc' = "sleep" /\ late' = 0 /\ frames' = 0
  /\ seen' = [seen EXCEPT !.gone = IF pad.connected \/ @ = 2 THEN @ ELSE @ + 1,
                           !.owned = FALSE, !.raced = FALSE]
  /\ UNCHANGED <<padVars, near, snapshot>>

DriveByPad ==
  /\ pc = "sticks"
  /\ SetManualVelocity(Limited(pad.forward), pad.turn)
  /\ Decided /\ UNCHANGED host

HostSpeaks == host.valid /\ host.age <= HostTimeout

DriveByHost ==
  /\ pc = "host" /\ HostSpeaks
  /\ IF host.enabled THEN SetAutoVelocity(Limited(host.forward), host.turn)
                     ELSE ChassisStop
  /\ Decided /\ UNCHANGED host

DriveByNobody ==
  /\ pc = "host" /\ ~HostSpeaks
  /\ host' = [host EXCEPT !.valid = FALSE]
  /\ ChassisStop
  /\ Decided

Decide == DriveByPad \/ DriveByHost \/ DriveByNobody

-----------------------------------------------------------------------------
(* The system.  osDelay and the tick interrupt wake the task in time and   *)
(* the scheduler shares the processor among equal priorities: a cycle or   *)
(* an update of the gamepad that has begun goes on.  Nothing is assumed of *)
(* the gamepad, the host or the sensor.  The fairness of Cycle is written  *)
(* out, with CycleReady for ENABLED Cycle.                                 *)

Cycle == Wake \/ InputDone \/ PadCheck \/ PadActive \/ PadClock \/ PadCompare \/ Decide

CycleReady == pc # "ota" /\ (pc = "sleep" => late = 1)

MotionNext == Tick \/ Sense \/ UsbStep \/ HandleControl \/ HandleParam
              \/ OtaEnter \/ Reset \/ Cycle

MotionSpec == MotionInit /\ [][MotionNext]_motionVars
FairMotionSpec ==
  /\ MotionSpec
  /\ WF_motionVars(Tick)
  /\ WF_motionVars(UsbForward \/ UsbActivity \/ UsbTick)
  /\ []<>(~CycleReady) \/ []<><<Cycle>>_motionVars

-----------------------------------------------------------------------------
(* Properties.                                                             *)

\* The car follows the host only while it speaks: the last control frame was a
\* motion command and is at most HostTimeout old when it is acted on, so
\* that a host that falls silent, asks to stop or sends an unknown mode loses the
\* motors within one cycle (RaspiLink_GetControlCommand, HandleControlCommand).
HostMotionIsCurrent ==
  mode = "automatic" =>
    /\ seen.frame <= HostTimeout + 1 + MaxLate
    /\ pc = "sleep" => seen.kind = "go" /\ seen.frame <= HostTimeout + 1

\* Held sticks drive the car no longer than PadHold after their last report,
\* and a gamepad that is unplugged lets go of it by the second decision,
\* whatever the USB thread had written when the decision was taken.
PadMotionIsCurrent ==
  mode = "manual" =>
    /\ seen.gone < 2
    /\ pwm = Still \/ seen.touch <= PadHold + 1 + 2 * MaxLate

\* In front of an obstacle no decision speeds the car up forward: the duties
\* of the gamepad and of the open loop do not add up to forward motion, and
\* the closed loop only ever takes forward motion out of its ramps.
ObstacleNeverApproached ==
  [][Decide /\ near =>
       IF mode' = "automatic" /\ closedLoop
       THEN \/ ForwardMotion(wheel') <= 0
            \/ ForwardMotion(wheel') <= ForwardMotion(wheel)
       ELSE pwm'["left"] + pwm'["right"] <= 0]_motionVars

\* The gamepad keeps the chassis while it is touched: a decision that has found a live
\* gamepad and reads the tick while it is live does not give the car to the host, unless
\* the activity was recorded again before IsGamepadActive compares the two ticks.
PadKeepsChassis ==
  [][Decide /\ seen.owned /\ mode' # "manual" => seen.raced]_motionVars

\* Two promises the code breaks (see the README), of small_car_f407/docs/system-framework.md
\* line 12: the gamepad takes over as soon as it is touched, and it releases
\* control two seconds later.
PadTakesOver == [][Decide /\ seen.owned => mode' = "manual"]_motionVars
PadReleases  == mode = "manual" => seen.touch <= PadHold + 1 + 2 * MaxLate

\* What the car is driven by adds up to forward motion: the ramps of the closed loop,
\* elsewhere the duties.  The closed loop's duties are its ramps' with each side's
\* correction; while one side of a pivot lags, their sum says nothing.
DrivesForward ==
  IF mode = "automatic" /\ closedLoop THEN ForwardMotion(wheel) > 0
                                      ELSE pwm["left"] + pwm["right"] > 0

\* In front of an obstacle that stays, decisions drive the car forward no longer once the
\* host keeps to one turn rate: the ramps come to their end or are discarded,
\* although the host or the gamepad keeps asking for forward speed, the controllers
\* and the loops alternate (a decision of the open loop leaves the ramps where they
\* are) and the two sides are corrected and boosted differently.
ForwardMotionEnds ==
  \A turn \in {f.turn : f \in HostFrames} :
    <>[](near /\ host.turn = turn) => <>[][Decide => ~DrivesForward']_motionVars

\* A third promise the code breaks, of line 11 of that document: the car is forced to stop
\* in front of a near obstacle.  At least its forward motion should come to an end.
ObstacleStopsCar == <>[]near => <>[][Decide => ~DrivesForward']_motionVars

=============================================================================
