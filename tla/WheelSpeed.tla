------------------------------ MODULE WheelSpeed ------------------------------
(***************************************************************************)
(* Motor/Src/wheel_speed_controller.c: the ramp, the PI correction and the *)
(* turn-start boost of the two sides of the car, and the motor driver they *)
(* write to.  The two motors of a side always receive the same speed, so a *)
(* side stands for its pair.                                               *)
(*                                                                         *)
(* Speeds are integers in the units of the code.  With the parameter       *)
(* ranges of chassis_params.c no intermediate value leaves 32 bits and no  *)
(* result leaves 16 bits, so integers are unbounded here; "/" of the code  *)
(* rounds towards zero and is Quotient.                                    *)
(***************************************************************************)
EXTENDS Integers

CONSTANTS
  MaxSpeed,        \* max_linear_speed_mm_s
  MotorMax,        \* MOTOR_MAX_SPEED
  MotorDeadband,   \* MOTOR_SPEED_DEADBAND
  Dt,              \* milliseconds from one TaskStep to the next
  RampStep,        \* change of the ramp in one TaskStep
  Kp, Ki,          \* wheel_speed_kp_x100, wheel_speed_ki_x100
  IntegralLimit,   \* wheel_speed_integral_limit * 1000
  OutputScale,     \* output permille of each side
  PwmMin,          \* wheel_pwm_min
  TurnStartPwm,    \* wheel_turn_start_pwm
  BoostTime,       \* WHEEL_TURN_START_BOOST_MS
  StillBand,       \* a side this slow has not started to turn (5 mm/s)
  Requests,        \* targets asked for by callers, per side
  Measurements     \* speeds the encoders may report, per side

Sides == {"left", "right"}

ASSUME WheelAssumption ==
  /\ {MaxSpeed, MotorMax, Dt, RampStep} \subseteq Nat \ {0}
  /\ {MotorDeadband, Kp, Ki, IntegralLimit, BoostTime, StillBand} \subseteq Nat
  /\ {PwmMin, TurnStartPwm} \subseteq 0 .. MotorMax
  /\ OutputScale \in [Sides -> Nat]
  /\ Requests \subseteq Int /\ Measurements \subseteq Int

VARIABLES
  wheel,        \* g_left and g_right
  enabled,      \* g_enabled
  closedLoop,   \* the parameter wheel_speed_closed_loop_enabled
  pwm           \* signed duty written to the motors of each side

wheelVars == <<wheel, enabled, closedLoop, pwm>>

Abs(x)           == IF x < 0 THEN -x ELSE x
Clamp(x, lo, hi) == IF x < lo THEN lo ELSE IF x > hi THEN hi ELSE x
Quotient(x, n)   == IF x < 0 THEN -((-x) \div n) ELSE x \div n

Speeds == -MaxSpeed .. MaxSpeed
Duties == -MotorMax .. MotorMax
Wheels == [target : Speeds, ramped : Speeds,
           integral : -IntegralLimit .. IntegralLimit, boost : 0 .. BoostTime]

TypeOK ==
  /\ wheel \in [Sides -> Wheels]
  /\ enabled \in BOOLEAN /\ closedLoop \in BOOLEAN
  /\ pwm \in [Sides -> Duties]

AtRest == [target |-> 0, ramped |-> 0, integral |-> 0, boost |-> 0]
AllAtRest == [s \in Sides |-> AtRest]
Still     == [s \in Sides |-> 0]

WheelInit ==
  /\ wheel = AllAtRest /\ enabled = FALSE
  /\ closedLoop = TRUE
  /\ pwm = Still

-----------------------------------------------------------------------------
(* The motor driver: small speeds stop the motor.                          *)

Drive(speed) ==
  LET s == Clamp(speed, -MotorMax, MotorMax)
  IN  IF Abs(s) > MotorDeadband THEN s ELSE 0

AtLeast(output, minimum) ==
  IF output > 0 /\ output < minimum THEN minimum
  ELSE IF output < 0 /\ output > -minimum THEN -minimum
  ELSE output

(* Faults a revision could introduce; no action below uses them.            *)

IntegrateAlways(w, measured) ==
  Clamp(w.integral + (w.ramped - measured) * Dt, -IntegralLimit, IntegralLimit)
PiBothWays(s, target, measured, integral, minimum) ==
  Clamp(AtLeast(Quotient(target * MotorMax, MaxSpeed)
                + Quotient(Kp * (target - measured), 100)
                + Quotient(Ki * integral, 100000), minimum), -MotorMax, MotorMax)
MoveBy(current, target, step) ==
  IF current < target THEN current + step
  ELSE IF current > target THEN current - step ELSE current

(* SetTarget: a target of zero or of another direction forgets the         *)
(* integral and the boost.                                                 *)

Retarget(w, request) ==
  LET t == Clamp(request, -MaxSpeed, MaxSpeed)
      turned == t = 0 \/ (t > 0) # (w.target > 0)
  IN  [target   |-> t,
       ramped   |-> w.ramped,
       integral |-> IF turned THEN 0 ELSE w.integral,
       boost    |-> IF turned THEN 0 ELSE w.boost]

MoveTowards(current, target, step) ==
  IF current < target THEN Clamp(current + step, current, target)
  ELSE IF current > target THEN Clamp(current - step, target, current)
  ELSE current

Ramp(w) == [w EXCEPT !.ramped = MoveTowards(w.ramped, w.target, RampStep)]

\* The sides turn against each other: the car pivots.
CounterRotating(ws) ==
  \/ ws["left"].ramped < 0 /\ ws["right"].ramped > 0
  \/ ws["left"].ramped > 0 /\ ws["right"].ramped < 0

\* The boost of a side for this cycle, and what is left of it for the next.
Boosted(w, measured, pivoting) ==
  IF ~pivoting THEN 0
  ELSE IF w.boost = 0 /\ Abs(measured) <= StillBand THEN BoostTime
  ELSE w.boost
BoostLeft(boost) == IF boost > Dt THEN boost - Dt ELSE 0

\* ApplyPi: the integral, and the output for a given integral.
Integrate(w, measured) ==
  IF w.ramped = 0 THEN 0
  ELSE Clamp(w.integral + (w.ramped - measured) * Dt, -IntegralLimit, IntegralLimit)

PiOutput(s, target, measured, integral, minimum) ==
  LET forward   == Quotient(target * MotorMax, MaxSpeed)
      corrected == forward + Quotient(Kp * (target - measured), 100)
                           + Quotient(Ki * integral, 100000)
      scaled    == Quotient(corrected * OutputScale[s], 1000)
      oneWay    == IF target > 0 THEN Clamp(scaled, 0, MotorMax)
                                 ELSE Clamp(scaled, -MotorMax, 0)
  IN  IF target = 0 THEN 0
      ELSE Clamp(AtLeast(oneWay, minimum), -MotorMax, MotorMax)

-----------------------------------------------------------------------------
(* One closed-loop cycle of both sides.                                    *)

Ramped(ws) == [s \in Sides |-> Ramp(ws[s])]

ClosedLoopWheel(ws, measured) ==
  LET rs == Ramped(ws) IN
  [s \in Sides |->
     [target   |-> rs[s].target,
      ramped   |-> rs[s].ramped,
      integral |-> Integrate(rs[s], measured[s]),
      boost    |-> BoostLeft(Boosted(rs[s], measured[s], CounterRotating(rs)))]]

ClosedLoopPwm(ws, measured) ==
  LET rs == Ramped(ws) IN
  [s \in Sides |->
     LET minimum == IF Boosted(rs[s], measured[s], CounterRotating(rs)) > 0
                    THEN TurnStartPwm ELSE PwmMin
     IN  Drive(PiOutput(s, rs[s].ramped, measured[s],
                        Integrate(rs[s], measured[s]), minimum))]

OpenLoopPwm(ws) ==
  [s \in Sides |-> Drive(Quotient(ws[s].target * MotorMax, MaxSpeed))]

Retargeted(ws, request) == [s \in Sides |-> Retarget(ws[s], request[s])]

SetTarget(request) ==
  /\ wheel' = Retargeted(wheel, request)
  /\ enabled' = TRUE
  /\ UNCHANGED <<closedLoop, pwm>>

TaskStep(measured) ==
  /\ enabled
  /\ IF closedLoop
     THEN /\ wheel' = ClosedLoopWheel(wheel, measured)
          /\ pwm' = ClosedLoopPwm(wheel, measured)
     ELSE /\ wheel' = wheel
          /\ pwm' = OpenLoopPwm(wheel)
  /\ UNCHANGED <<enabled, closedLoop>>

Stop ==
  /\ wheel' = AllAtRest /\ enabled' = FALSE /\ pwm' = Still
  /\ UNCHANGED closedLoop

\* ChassisParams_Set of wheel_speed_closed_loop_enabled.
SetClosedLoop(on) ==
  /\ closedLoop' = on
  /\ UNCHANGED <<wheel, enabled, pwm>>

WheelNext ==
  \/ \E request \in [Sides -> Requests] : SetTarget(request)
  \/ \E measured \in [Sides -> Measurements] : TaskStep(measured)
  \/ Stop
  \/ \E on \in BOOLEAN : SetClosedLoop(on)

WheelSpec == WheelInit /\ [][WheelNext]_wheelVars

-----------------------------------------------------------------------------
(* Properties.                                                             *)

\* A side that is to stand still carries no integral into its next start
\* (ApplyPi: "stopping clears the integral, no history is kept").
StandingStartIsClean == \A s \in Sides : wheel[s].ramped = 0 => wheel[s].integral = 0

\* The stronger start-up PWM is reserved for pivoting: no boost is pending
\* unless the sides turn against each other (comment of TaskStep, line 268).
BoostMeansPivot ==
  \A s \in Sides : wheel[s].boost > 0 => CounterRotating(wheel)

\* Together: integral and boost, the two things a wheel remembers of its past,
\* are gone when that past no longer matters, in whatever order targets,
\* measurements, stops and switches of the loop followed each other.
CleanHistory == StandingStartIsClean /\ BoostMeansPivot

\* The correction may take power away but never drives a side against its
\* ramp, whatever the encoders report and however the target has changed
\* since (comment of ApplyPi: "PI only reduces, it does not brake in reverse").
PwmFollowsRamp ==
  [][closedLoop /\ pwm' # pwm =>
       \A s \in Sides : /\ pwm'[s] > 0 => wheel'[s].ramped > 0
                        /\ pwm'[s] < 0 => wheel'[s].ramped < 0]_wheelVars

ForwardMotion(ws) == ws["left"].ramped + ws["right"].ramped

\* Once the two targets cancel out, which is what remains of any command when
\* an obstacle has taken its forward part away, the ramps never add forward or
\* backward motion again: each side slows down at its own rate and still the
\* sum never grows, nor does it change sign.
PivotShedsMotion ==
  [][wheel["left"].target + wheel["right"].target = 0 =>
       \/ 0 <= ForwardMotion(wheel') /\ ForwardMotion(wheel') <= ForwardMotion(wheel)
       \/ ForwardMotion(wheel) <= ForwardMotion(wheel') /\ ForwardMotion(wheel') <= 0]_wheelVars

\* Two promises the code breaks (see the README).  The comment of SetTarget,
\* line 194: after a change of direction the integral of the old direction is
\* gone, so that a side starts in the new direction with at most the error of
\* that cycle.
ReversalStartsClean ==
  [][\A s \in Sides :
       wheel[s].ramped * wheel'[s].ramped < 0 =>
         \E m \in Measurements :
           wheel'[s].integral = Clamp((wheel'[s].ramped - m) * Dt,
                                      -IntegralLimit, IntegralLimit)]_wheelVars

\* The comment of TaskStep, line 268: motion, once measured, ends the
\* boost at once: a side that gets more than the normal minimum in a cycle in
\* which the boost is not renewed was still when it was measured.
BoostEndsOnMotion ==
  [][enabled /\ closedLoop =>
       \/ wheel'["left"].boost = 0 /\ wheel'["right"].boost = 0
       \/ UNCHANGED pwm /\ ~\E measured \in [Sides -> Measurements] : TaskStep(measured)
       \/ \E measured \in [Sides -> Measurements] :
            /\ TaskStep(measured)
            /\ \A s \in Sides : wheel'[s].boost > 0 => Abs(measured[s]) <= StillBand]_wheelVars

=============================================================================
