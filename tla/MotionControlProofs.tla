------------------------- MODULE MotionControlProofs -------------------------
(***************************************************************************)
(* What WheelSpeed and MotionControl promise for every set of parameters,  *)
(* every speed the encoders may report, every gamepad and host and every   *)
(* delay of the two threads.                                               *)
(***************************************************************************)
EXTENDS MotionControl, TLAPS

(***************************************************************************)
(* Part 1: the wheel controller.                                           *)
(***************************************************************************)

-----------------------------------------------------------------------------
(* The arithmetic of one cycle.                                            *)

\* Clamp stays between its bounds (ClampI16, ClampI32, Motor_ClampSpeed).
LEMMA ClampRange ==
  ASSUME NEW x \in Int, NEW lo \in Int, NEW hi \in Int, lo <= hi
  PROVE  Clamp(x, lo, hi) \in lo .. hi
  BY DEF Clamp

\* Division by a positive number stays an integer.
LEMMA QuotientInt ==
  ASSUME NEW x \in Int, NEW n \in Nat \ {0}
  PROVE  Quotient(x, n) \in Int
  BY DEF Quotient

\* The ramp never leaves the interval between its value and its target.
LEMMA MoveRange ==
  ASSUME NEW x \in Speeds, NEW t \in Speeds
  PROVE  MoveTowards(x, t, RampStep) \in Speeds
  BY WheelAssumption DEF MoveTowards, Clamp, Speeds

\* The motor driver keeps the sign of what it is given, or stops.
LEMMA DriveSign ==
  ASSUME NEW v \in Int
  PROVE  /\ Drive(v) \in Duties
         /\ Drive(v) > 0 => v > 0
         /\ Drive(v) < 0 => v < 0
  BY WheelAssumption DEF Drive, Clamp, Abs, Duties

\* The output of ApplyPi has the sign of its target, or is zero.
LEMMA PiSign ==
  ASSUME NEW s \in Sides, NEW target \in Int, NEW measured \in Int,
         NEW integral \in Int, NEW minimum \in 0 .. MotorMax
  PROVE  LET out == PiOutput(s, target, measured, integral, minimum)
         IN  out \in Duties /\ (out > 0 => target > 0) /\ (out < 0 => target < 0)
<1> DEFINE forward   == Quotient(target * MotorMax, MaxSpeed)
           corrected == forward + Quotient(Kp * (target - measured), 100)
                                + Quotient(Ki * integral, 100000)
           scaled    == Quotient(corrected * OutputScale[s], 1000)
           oneWay    == IF target > 0 THEN Clamp(scaled, 0, MotorMax)
                                      ELSE Clamp(scaled, -MotorMax, 0)
<1>1. corrected \in Int
  <2>1. target * MotorMax \in Int /\ Kp * (target - measured) \in Int /\ Ki * integral \in Int
    BY WheelAssumption
  <2> HIDE DEF forward
  <2>2. forward \in Int
    BY <2>1, QuotientInt, WheelAssumption DEF forward
  <2> QED
    BY <2>1, <2>2, QuotientInt
<1>2. scaled \in Int
  <2> HIDE DEF corrected
  <2>1. OutputScale[s] \in Nat
    BY WheelAssumption
  <2>2. corrected * OutputScale[s] \in Int
    BY <1>1, <2>1
  <2> QED
    BY <2>2, QuotientInt
<1> HIDE DEF scaled
<1>3. /\ oneWay \in Duties
      /\ oneWay > 0 => target > 0
      /\ oneWay < 0 => target <= 0
  BY <1>2, WheelAssumption DEF Clamp, Duties
<1> HIDE DEF oneWay
<1>4. /\ AtLeast(oneWay, minimum) \in Int
      /\ AtLeast(oneWay, minimum) > 0 => oneWay > 0
      /\ AtLeast(oneWay, minimum) < 0 => oneWay < 0
  BY <1>3, WheelAssumption DEF AtLeast, Duties
<1>5. PiOutput(s, target, measured, integral, minimum) =
        IF target = 0 THEN 0 ELSE Clamp(AtLeast(oneWay, minimum), -MotorMax, MotorMax)
  BY DEF PiOutput, oneWay, scaled
<1> QED
  BY <1>3, <1>4, <1>5, WheelAssumption DEF Clamp, Duties

-----------------------------------------------------------------------------
(* One cycle of one side.                                                  *)

LEMMA RampType ==
  ASSUME NEW ws \in [Sides -> Wheels], NEW s \in Sides
  PROVE  /\ Ramped(ws)[s] \in Wheels
         /\ Ramped(ws)[s].target = ws[s].target
         /\ Ramped(ws)[s].ramped = MoveTowards(ws[s].ramped, ws[s].target, RampStep)
<1>1. MoveTowards(ws[s].ramped, ws[s].target, RampStep) \in Speeds
  BY MoveRange DEF Wheels
<1> DEFINE r == MoveTowards(ws[s].ramped, ws[s].target, RampStep)
<1>2. ws[s] \in Wheels /\ Ramped(ws)[s] = [ws[s] EXCEPT !.ramped = r]
  BY DEF Ramped, Ramp
<1> HIDE DEF r
<1>3. r \in Speeds
  BY <1>1 DEF r
<1>4. /\ Ramped(ws)[s] \in Wheels
      /\ Ramped(ws)[s].target = ws[s].target
      /\ Ramped(ws)[s].ramped = r
  BY <1>2, <1>3 DEF Wheels
<1> QED
  BY <1>4 DEF r

LEMMA IntegrateType ==
  ASSUME NEW w \in Wheels, NEW m \in Int
  PROVE  /\ Integrate(w, m) \in -IntegralLimit .. IntegralLimit
         /\ w.ramped = 0 => Integrate(w, m) = 0
<1>1. (w.ramped - m) * Dt \in Int
  BY WheelAssumption DEF Wheels, Speeds
<1>2. w.integral + (w.ramped - m) * Dt \in Int
  BY <1>1, WheelAssumption DEF Wheels
<1>3. Clamp(w.integral + (w.ramped - m) * Dt, -IntegralLimit, IntegralLimit)
        \in -IntegralLimit .. IntegralLimit
  BY <1>2, WheelAssumption DEF Clamp
<1> QED
  BY <1>3, WheelAssumption DEF Integrate

LEMMA BoostType ==
  ASSUME NEW w \in Wheels, NEW m \in Int, NEW pivoting \in BOOLEAN
  PROVE  /\ BoostLeft(Boosted(w, m, pivoting)) \in 0 .. BoostTime
         /\ BoostLeft(Boosted(w, m, pivoting)) > 0 => pivoting
<1>1. Boosted(w, m, pivoting) \in 0 .. BoostTime /\ (Boosted(w, m, pivoting) > 0 => pivoting)
  BY WheelAssumption DEF Boosted, Wheels
<1> QED
  BY <1>1, WheelAssumption DEF BoostLeft

LEMMA RetargetType ==
  ASSUME NEW w \in Wheels, NEW r \in Int
  PROVE  /\ Retarget(w, r) \in Wheels
         /\ Retarget(w, r).ramped = w.ramped
         /\ Retarget(w, r).integral \in {0, w.integral}
         /\ Retarget(w, r).boost \in {0, w.boost}
<1>1. Clamp(r, -MaxSpeed, MaxSpeed) \in Speeds
  BY WheelAssumption DEF Clamp, Speeds
<1>2. /\ w.ramped \in Speeds
      /\ w.integral \in -IntegralLimit .. IntegralLimit
      /\ w.boost \in 0 .. BoostTime
      /\ 0 \in -IntegralLimit .. IntegralLimit /\ 0 \in 0 .. BoostTime
  BY WheelAssumption DEF Wheels
<1> QED
  BY <1>1, <1>2 DEF Retarget, Wheels

-----------------------------------------------------------------------------
(* One closed-loop cycle of both sides.                                    *)

LEMMA CycleWheel ==
  ASSUME NEW ws \in [Sides -> Wheels], NEW measured \in [Sides -> Int]
  PROVE  LET new == ClosedLoopWheel(ws, measured)
         IN  /\ new \in [Sides -> Wheels]
             /\ \A s \in Sides :
                  /\ new[s].target = ws[s].target
                  /\ new[s].ramped = MoveTowards(ws[s].ramped, ws[s].target, RampStep)
                  /\ new[s].ramped = 0 => new[s].integral = 0
                  /\ new[s].boost > 0 => CounterRotating(new)
<1> DEFINE rs  == Ramped(ws)
           new == ClosedLoopWheel(ws, measured)
           b(s) == BoostLeft(Boosted(rs[s], measured[s], CounterRotating(rs)))
           i(s) == Integrate(rs[s], measured[s])
<1>1. ASSUME NEW s \in Sides
      PROVE  /\ rs[s] \in Wheels
             /\ rs[s].target = ws[s].target
             /\ rs[s].ramped = MoveTowards(ws[s].ramped, ws[s].target, RampStep)
  BY RampType
<1>2. CounterRotating(rs) \in BOOLEAN
  BY DEF CounterRotating
<1>3. ASSUME NEW s \in Sides
      PROVE  /\ b(s) \in 0 .. BoostTime /\ (b(s) > 0 => CounterRotating(rs))
             /\ i(s) \in -IntegralLimit .. IntegralLimit
             /\ rs[s].ramped = 0 => i(s) = 0
  <2>1. rs[s] \in Wheels /\ measured[s] \in Int
    BY <1>1
  <2> HIDE DEF rs
  <2> QED
    BY <2>1, <1>2, BoostType, IntegrateType
<1> HIDE DEF rs
<1>4. new = [s \in Sides |-> [target |-> rs[s].target, ramped |-> rs[s].ramped,
                           integral |-> i(s), boost |-> b(s)]]
  BY DEF ClosedLoopWheel, rs
<1> HIDE DEF b, i
<1>5. ASSUME NEW s \in Sides
      PROVE  /\ new[s] \in Wheels
             /\ new[s].target = rs[s].target
             /\ new[s].ramped = rs[s].ramped
             /\ new[s].boost = b(s) /\ new[s].integral = i(s)
  BY <1>1, <1>3, <1>4 DEF Wheels
<1>6. new \in [Sides -> Wheels]
  <2>1. \A s \in Sides : [target |-> rs[s].target, ramped |-> rs[s].ramped,
                           integral |-> i(s), boost |-> b(s)] \in Wheels
    BY <1>4, <1>5
  <2> QED
    BY <1>4, <2>1
<1> HIDE DEF new
<1>7. CounterRotating(rs) => CounterRotating(new)
  BY <1>5 DEF CounterRotating, Sides
<1> QED
  BY <1>1, <1>3, <1>5, <1>6, <1>7 DEF new

LEMMA CyclePwm ==
  ASSUME NEW ws \in [Sides -> Wheels], NEW measured \in [Sides -> Int]
  PROVE  LET out == ClosedLoopPwm(ws, measured)
             new == ClosedLoopWheel(ws, measured)
         IN  /\ out \in [Sides -> Duties]
             /\ \A s \in Sides : /\ out[s] > 0 => new[s].ramped > 0
                                 /\ out[s] < 0 => new[s].ramped < 0
<1> DEFINE rs == Ramped(ws)
           minimum(s) == IF Boosted(rs[s], measured[s], CounterRotating(rs)) > 0
                         THEN TurnStartPwm ELSE PwmMin
           pi(s) == PiOutput(s, rs[s].ramped, measured[s],
                             Integrate(rs[s], measured[s]), minimum(s))
<1>1. ASSUME NEW s \in Sides
      PROVE  /\ rs[s] \in Wheels
             /\ rs[s].ramped = ClosedLoopWheel(ws, measured)[s].ramped
  BY RampType, CycleWheel
<1> HIDE DEF rs
<1>2. ASSUME NEW s \in Sides
      PROVE  /\ pi(s) \in Int
             /\ pi(s) > 0 => rs[s].ramped > 0
             /\ pi(s) < 0 => rs[s].ramped < 0
  <2>1. minimum(s) \in 0 .. MotorMax
    BY WheelAssumption
  <2>2. /\ rs[s].ramped \in Int /\ measured[s] \in Int
        /\ Integrate(rs[s], measured[s]) \in Int
    BY <1>1, IntegrateType, WheelAssumption DEF Wheels, Speeds
  <2> HIDE DEF minimum
  <2>3. pi(s) \in Duties /\ (pi(s) > 0 => rs[s].ramped > 0) /\ (pi(s) < 0 => rs[s].ramped < 0)
    BY <2>1, <2>2, PiSign
  <2> QED
    BY <2>3, WheelAssumption DEF Duties
<1>3. ClosedLoopPwm(ws, measured) = [s \in Sides |-> Drive(pi(s))]
  BY DEF ClosedLoopPwm, rs
<1> HIDE DEF pi
<1> QED
  BY <1>1, <1>2, <1>3, DriveSign

LEMMA OpenPwm ==
  ASSUME NEW ws \in [Sides -> Wheels]
  PROVE  OpenLoopPwm(ws) \in [Sides -> Duties]
<1>1. ASSUME NEW s \in Sides
      PROVE  Drive(Quotient(ws[s].target * MotorMax, MaxSpeed)) \in Duties
  <2>1. ws[s].target * MotorMax \in Int
    BY WheelAssumption DEF Wheels, Speeds
  <2>2. Quotient(ws[s].target * MotorMax, MaxSpeed) \in Int
    BY <2>1, QuotientInt, WheelAssumption
  <2> QED
    BY <2>2, DriveSign
<1> QED
  BY <1>1 DEF OpenLoopPwm

-----------------------------------------------------------------------------
(* The invariant of the controller.                                        *)

WheelInv == TypeOK /\ StandingStartIsClean /\ BoostMeansPivot

LEMMA AtRestType ==
  /\ AllAtRest \in [Sides -> Wheels] /\ Still \in [Sides -> Duties]
  /\ \A s \in Sides : AllAtRest[s].integral = 0 /\ AllAtRest[s].boost = 0
<1>1. AtRest \in Wheels
  BY WheelAssumption DEF AtRest, Wheels, Speeds
<1>2. 0 \in Duties
  BY WheelAssumption DEF Duties
<1>3. AtRest.integral = 0 /\ AtRest.boost = 0
  BY DEF AtRest
<1> QED
  BY <1>1, <1>2, <1>3 DEF AllAtRest, Still

LEMMA WheelInitInv == WheelInit => WheelInv
<1> SUFFICES ASSUME WheelInit PROVE WheelInv
  OBVIOUS
<1>1. TypeOK
  BY AtRestType DEF WheelInit, TypeOK
<1>2. \A s \in Sides : wheel[s].integral = 0 /\ wheel[s].boost = 0
  BY AtRestType DEF WheelInit
<1>3. StandingStartIsClean /\ BoostMeansPivot
  BY <1>2 DEF StandingStartIsClean, BoostMeansPivot
<1> QED
  BY <1>1, <1>3 DEF WheelInv

LEMMA WheelStep == WheelInv /\ [WheelNext]_wheelVars => WheelInv'
<1> SUFFICES ASSUME WheelInv, [WheelNext]_wheelVars PROVE WheelInv'
  OBVIOUS
<1> USE DEF WheelInv
<1>1. ASSUME NEW request \in [Sides -> Requests], SetTarget(request)
      PROVE  WheelInv'
  <2>1. ASSUME NEW s \in Sides
        PROVE  /\ Retarget(wheel[s], request[s]) \in Wheels
               /\ Retarget(wheel[s], request[s]).ramped = wheel[s].ramped
               /\ Retarget(wheel[s], request[s]).integral \in {0, wheel[s].integral}
               /\ Retarget(wheel[s], request[s]).boost \in {0, wheel[s].boost}
    <3>1. wheel[s] \in Wheels /\ request[s] \in Int
      BY WheelAssumption DEF TypeOK
    <3> QED
      BY <3>1, RetargetType
  <2>2. wheel' = [s \in Sides |-> Retarget(wheel[s], request[s])]
    BY <1>1 DEF SetTarget, Retargeted
  <2>3. TypeOK'
    BY <1>1, <2>1, <2>2 DEF SetTarget, TypeOK
  <2>4. StandingStartIsClean'
    BY <2>1, <2>2 DEF StandingStartIsClean
  <2>5. BoostMeansPivot'
    BY <2>1, <2>2 DEF BoostMeansPivot, CounterRotating, Sides
  <2> QED
    BY <2>3, <2>4, <2>5
<1>2. ASSUME NEW measured \in [Sides -> Measurements], TaskStep(measured)
      PROVE  WheelInv'
  <2>1. measured \in [Sides -> Int] /\ wheel \in [Sides -> Wheels]
    BY WheelAssumption DEF TypeOK
  <2>2. CASE closedLoop
    <3>1. /\ wheel' = ClosedLoopWheel(wheel, measured)
          /\ pwm' = ClosedLoopPwm(wheel, measured)
          /\ UNCHANGED <<enabled, closedLoop>>
      BY <1>2, <2>2 DEF TaskStep
    <3>2. TypeOK'
      BY <2>1, <3>1, CycleWheel, CyclePwm DEF TypeOK
    <3>3. StandingStartIsClean' /\ BoostMeansPivot'
      BY <2>1, <3>1, CycleWheel DEF StandingStartIsClean, BoostMeansPivot
    <3> QED
      BY <3>2, <3>3
  <2>3. CASE ~closedLoop
    <3>1. wheel' = wheel /\ pwm' = OpenLoopPwm(wheel) /\ UNCHANGED <<enabled, closedLoop>>
      BY <1>2, <2>3 DEF TaskStep
    <3> QED
      BY <2>1, <3>1, OpenPwm DEF TypeOK, StandingStartIsClean, BoostMeansPivot, CounterRotating
  <2> QED
    BY <2>2, <2>3 DEF TypeOK
<1>3. CASE Stop
  <2>1. TypeOK'
    BY <1>3, AtRestType DEF Stop, TypeOK
  <2>2. \A s \in Sides : wheel'[s].integral = 0 /\ wheel'[s].boost = 0
    BY <1>3, AtRestType DEF Stop
  <2>3. StandingStartIsClean' /\ BoostMeansPivot'
    BY <2>2 DEF StandingStartIsClean, BoostMeansPivot
  <2> QED
    BY <2>1, <2>3
<1>4. ASSUME NEW on \in BOOLEAN, SetClosedLoop(on)
      PROVE  WheelInv'
  BY <1>4 DEF SetClosedLoop, TypeOK, StandingStartIsClean, BoostMeansPivot, CounterRotating
<1>5. CASE UNCHANGED wheelVars
  BY <1>5 DEF wheelVars, TypeOK, StandingStartIsClean, BoostMeansPivot, CounterRotating
<1> QED
  BY <1>1, <1>2, <1>3, <1>4, <1>5 DEF WheelNext

\* Every variable of the controller stays in its type: ramps within the speed
\* limit, integrals within theirs, duties within the motor's range.
THEOREM WheelTypeCorrect == WheelSpec => []TypeOK
<1>1. WheelInv => TypeOK
  BY DEF WheelInv
<1> QED
  BY <1>1, WheelInitInv, WheelStep, PTL DEF WheelSpec

\* A side at rest has no integral and no side keeps the start-up boost once
\* the car has stopped pivoting (ApplyPi and TaskStep).
THEOREM WheelHistory == WheelSpec => []CleanHistory
<1>1. WheelInv => CleanHistory
  BY DEF WheelInv, CleanHistory
<1> QED
  BY <1>1, WheelInitInv, WheelStep, PTL DEF WheelSpec

-----------------------------------------------------------------------------
(* What one step may never do.                                             *)

\* The closed loop never drives a side against its ramp (ApplyPi).
THEOREM NoCounterDrive == WheelSpec => PwmFollowsRamp
<1> DEFINE Follows == closedLoop /\ pwm' # pwm =>
             \A s \in Sides : /\ pwm'[s] > 0 => wheel'[s].ramped > 0
                              /\ pwm'[s] < 0 => wheel'[s].ramped < 0
<1>1. WheelInv /\ [WheelNext]_wheelVars => [Follows]_wheelVars
  <2> SUFFICES ASSUME WheelInv, [WheelNext]_wheelVars, closedLoop, pwm' # pwm
               PROVE  \A s \in Sides : /\ pwm'[s] > 0 => wheel'[s].ramped > 0
                                       /\ pwm'[s] < 0 => wheel'[s].ramped < 0
    OBVIOUS
  <2>1. ASSUME NEW measured \in [Sides -> Measurements], TaskStep(measured)
        PROVE  \A s \in Sides : /\ pwm'[s] > 0 => wheel'[s].ramped > 0
                                /\ pwm'[s] < 0 => wheel'[s].ramped < 0
    <3>1. measured \in [Sides -> Int] /\ wheel \in [Sides -> Wheels]
      BY WheelAssumption DEF WheelInv, TypeOK
    <3>2. wheel' = ClosedLoopWheel(wheel, measured) /\ pwm' = ClosedLoopPwm(wheel, measured)
      BY <2>1 DEF TaskStep
    <3> QED
      BY <3>1, <3>2, CyclePwm
  <2>2. CASE Stop
    BY <2>2 DEF Stop, Still
  <2> QED
    BY <2>1, <2>2 DEF WheelNext, SetTarget, SetClosedLoop, wheelVars
<1> QED
  BY <1>1, WheelInitInv, WheelStep, PTL DEF WheelSpec, PwmFollowsRamp

\* Moving two ramps towards opposite targets never makes the car drive forward
\* or backward more than it does.
LEMMA OppositeTargets ==
  ASSUME NEW l \in Int, NEW r \in Int, NEW t \in Int
  PROVE  LET before == l + r
             after  == MoveTowards(l, t, RampStep) + MoveTowards(r, -t, RampStep)
         IN  \/ 0 <= after /\ after <= before
             \/ before <= after /\ after <= 0
  BY WheelAssumption DEF MoveTowards, Clamp

\* An obstacle takes the forward part of a command away; from then on the
\* ramps only lose forward motion, whatever they were doing.
THEOREM ObstacleShedsMotion == WheelSpec => PivotShedsMotion
<1> DEFINE Sheds ==
      \/ 0 <= ForwardMotion(wheel') /\ ForwardMotion(wheel') <= ForwardMotion(wheel)
      \/ ForwardMotion(wheel) <= ForwardMotion(wheel') /\ ForwardMotion(wheel') <= 0
<1>1. WheelInv /\ [WheelNext]_wheelVars
        => [wheel["left"].target + wheel["right"].target = 0 => Sheds]_wheelVars
  <2> SUFFICES ASSUME WheelInv, [WheelNext]_wheelVars,
                      wheel["left"].target + wheel["right"].target = 0
               PROVE  Sheds
    OBVIOUS
  <2>1. \A s \in Sides : wheel[s] \in Wheels /\ wheel[s].ramped \in Int /\ wheel[s].target \in Int
    BY WheelAssumption DEF WheelInv, TypeOK, Wheels, Speeds
  <2>2. ForwardMotion(wheel) \in Int
    BY <2>1 DEF ForwardMotion, Sides
  <2>3. ASSUME NEW request \in [Sides -> Requests], SetTarget(request)
        PROVE  Sheds
    <3>1. \A s \in Sides : wheel'[s].ramped = wheel[s].ramped
      BY <2>3 DEF SetTarget, Retargeted, Retarget
    <3> QED
      BY <2>2, <3>1 DEF ForwardMotion, Sides
  <2>4. ASSUME NEW measured \in [Sides -> Measurements], TaskStep(measured), closedLoop
        PROVE  Sheds
    <3>1. measured \in [Sides -> Int] /\ wheel \in [Sides -> Wheels]
      BY WheelAssumption DEF WheelInv, TypeOK
    <3>2. \A s \in Sides : wheel'[s].ramped = MoveTowards(wheel[s].ramped, wheel[s].target, RampStep)
      BY <2>4, <3>1, CycleWheel DEF TaskStep
    <3>3. wheel["right"].target = -wheel["left"].target
      BY <2>1 DEF Sides
    <3> QED
      BY <2>1, <3>2, <3>3, OppositeTargets DEF ForwardMotion, Sides
  <2>5. CASE Stop
    BY <2>2, <2>5 DEF Stop, AllAtRest, AtRest, ForwardMotion, Sides
  <2>6. CASE wheel' = wheel
    BY <2>2, <2>6 DEF ForwardMotion
  <2> QED
    BY <2>3, <2>4, <2>5, <2>6 DEF WheelNext, TaskStep, SetClosedLoop, wheelVars
<1> QED
  BY <1>1, WheelInitInv, WheelStep, PTL DEF WheelSpec, PivotShedsMotion

(***************************************************************************)
(* Part 2: who drives the car.                                             *)
(***************************************************************************)

(* The mixers and what the duties of a side add up to.                     *)

LEMMA LimitedInt ==
  ASSUME NEW f \in Int
  PROVE  Limited(f) \in Int /\ (near => Limited(f) <= 0)
  BY DEF Limited

LEMMA OutOfBandInt ==
  ASSUME NEW x \in Int, NEW band \in Nat
  PROVE  /\ OutOfBand(x, band) \in Int
         /\ x <= 0 => OutOfBand(x, band) <= 0
  BY DEF OutOfBand, Abs

LEMMA ManualMixInt ==
  ASSUME NEW f \in Int, NEW t \in Int
  PROVE  \A s \in Sides : ManualMix(f, t)[s] \in Int
<1> DEFINE forward == OutOfBand(f, ManualDeadband)
           turn    == OutOfBand(t, ManualDeadband)
           limit(x) == Clamp(x, -MotorMax, MotorMax)
           x == limit(IF turn > 0 THEN forward - turn ELSE forward + turn)
           inner == IF x * forward < 0 THEN 0 ELSE x
<1>1. forward \in Int /\ turn \in Int
  BY OutOfBandInt, MotionAssumption
<1>2. ManualMix(f, t) = [s \in Sides |->
         IF Abs(forward) < PivotThreshold
         THEN IF s = "left" THEN limit(turn) ELSE limit(-turn)
         ELSE IF (s = "right" /\ turn > 0) \/ (s = "left" /\ turn < 0)
              THEN inner ELSE limit(forward)]
  BY DEF ManualMix
<1> HIDE DEF forward, turn
<1>3. \A y \in Int : limit(y) \in Int
  BY WheelAssumption DEF Clamp
<1> HIDE DEF limit
<1>4. x \in Int
  BY <1>1, <1>3
<1>5. inner \in Int
  BY <1>4
<1> HIDE DEF inner
<1> QED
  BY <1>1, <1>2, <1>3, <1>5

LEMMA ManualPwmType ==
  ASSUME NEW f \in Int, NEW t \in Int
  PROVE  ManualPwm(f, t) \in [Sides -> Duties]
  BY ManualMixInt, DriveSign DEF ManualPwm

LEMMA AutoMixInt ==
  ASSUME NEW f \in Int, NEW t \in Int
  PROVE  \A s \in Sides : AutoMix(f, t)[s] \in Speeds
<1> DEFINE forward == OutOfBand(Clamp(f, -MaxSpeed, MaxSpeed), AutoDeadband)
           turn    == Quotient(t * WheelTrack, 2000)
<1>1. Clamp(f, -MaxSpeed, MaxSpeed) \in Int
  BY WheelAssumption DEF Clamp
<1>2. forward \in Int
  BY <1>1, OutOfBandInt, MotionAssumption
<1>3. turn \in Int
  <2>1. t * WheelTrack \in Int
    BY MotionAssumption
  <2> QED
    BY <2>1, QuotientInt
<1>4. AutoMix(f, t) = [s \in Sides |->
        Clamp(IF s = "left" THEN forward - turn ELSE forward + turn, -MaxSpeed, MaxSpeed)]
  BY DEF AutoMix
<1> HIDE DEF forward, turn
<1> QED
  BY <1>2, <1>3, <1>4, WheelAssumption DEF Clamp, Speeds

-----------------------------------------------------------------------------
(* Types.                                                                  *)

LEMMA ReportInt ==
  \A r \in Reports \cup {Centred} :
    /\ r.connected \in BOOLEAN /\ r.touched \in BOOLEAN
    /\ r.forward \in Int /\ r.turn \in Int
<1>1. Reports \subseteq [connected : BOOLEAN, forward : Int, turn : Int, touched : BOOLEAN]
  BY MotionAssumption
<1>2. Centred \in [connected : BOOLEAN, forward : Int, turn : Int, touched : BOOLEAN]
  BY DEF Centred
<1> QED
  BY <1>1, <1>2

LEMMA OlderType ==
  ASSUME NEW age \in Ages
  PROVE  Older(age) \in Ages /\ RealOlder(age) \in Ages /\ RealOlder(age) <= age + 1
<1>1. TickMod \in Nat /\ TickMod > 1
  BY MotionAssumption
<1>2. RealOlder(age) \in Ages /\ RealOlder(age) <= age + 1
  BY <1>1 DEF RealOlder, Ages
<1>3. (age + 1) % TickMod \in Ages
  BY <1>1 DEF Ages
<1> QED
  BY <1>2, <1>3 DEF Older

LEMMA MotionTypeInit == MotionInit => MotionTypeOK
<1> SUFFICES ASSUME MotionInit PROVE MotionTypeOK
  OBVIOUS
<1>1. TypeOK
  BY WheelInitInv DEF MotionInit, WheelInv
<1>2. 0 \in Ages /\ TickMod - 1 \in Ages
  BY MotionAssumption DEF Ages
<1>3. pad \in [connected : BOOLEAN, forward : Int, turn : Int, activity : BOOLEAN, age : Ages]
  BY <1>2 DEF MotionInit
<1>4. usb \in [pc : {"idle", "forward", "activity", "tick"},
               report : Reports \cup {Centred}, late : 0 .. MaxLate]
  BY MotionAssumption DEF MotionInit, IdleUsb
<1>5. host \in [valid : BOOLEAN, enabled : BOOLEAN, forward : Int, turn : Int, age : Ages]
  BY <1>2 DEF MotionInit
<1>6. seen \in History
  BY <1>2 DEF MotionInit, History
<1>7. late \in 0 .. MaxLate + 1 /\ frames \in 0 .. FramesPerCycle /\ snapshot \in Ages
  BY <1>2, MotionAssumption DEF MotionInit
<1>8. near \in BOOLEAN /\ mode \in {"stopped", "manual", "automatic"}
      /\ pc \in {"sleep", "input", "pad", "active", "clock", "compare", "sticks", "host", "ota"}
  BY DEF MotionInit
<1> QED
  BY <1>1, <1>3, <1>4, <1>5, <1>6, <1>7, <1>8 DEF MotionTypeOK

\* The wheel controller keeps its types under every call of the cycle.
LEMMA StopType == ASSUME TypeOK, Stop PROVE TypeOK'
  BY AtRestType DEF Stop, TypeOK

LEMMA ManualType ==
  ASSUME TypeOK, NEW f \in Int, NEW t \in Int, SetManualVelocity(f, t)
  PROVE  TypeOK'
<1>1. wheel' \in [Sides -> Wheels]
  BY AtRestType DEF SetManualVelocity, TypeOK
<1>2. pwm' \in [Sides -> Duties]
  BY ManualPwmType DEF SetManualVelocity
<1>3. enabled' \in BOOLEAN
  <2>1. (mode = "manual" /\ enabled) \in BOOLEAN
    OBVIOUS
  <2> QED
    BY <2>1 DEF SetManualVelocity
<1>4. closedLoop' \in BOOLEAN
  BY DEF SetManualVelocity, TypeOK
<1> QED
  BY <1>1, <1>2, <1>3, <1>4 DEF TypeOK

LEMMA RetargetedType ==
  ASSUME NEW ws \in [Sides -> Wheels], NEW request, \A s \in Sides : request[s] \in Int
  PROVE  /\ Retargeted(ws, request) \in [Sides -> Wheels]
         /\ \A s \in Sides :
              /\ Retargeted(ws, request)[s].target = Clamp(request[s], -MaxSpeed, MaxSpeed)
              /\ Retargeted(ws, request)[s].ramped = ws[s].ramped
<1>1. \A s \in Sides : Retarget(ws[s], request[s]) \in Wheels
                       /\ Retarget(ws[s], request[s]).ramped = ws[s].ramped
  BY RetargetType
<1>2. \A s \in Sides :
        Retarget(ws[s], request[s]).target = Clamp(request[s], -MaxSpeed, MaxSpeed)
  BY DEF Retarget
<1> QED
  BY <1>1, <1>2 DEF Retargeted

LEMMA AutoType ==
  ASSUME TypeOK, NEW f \in Int, NEW t \in Int, SetAutoVelocity(f, t)
  PROVE  TypeOK'
<1> DEFINE ws == Retargeted(wheel, AutoMix(f, t))
<1>1. ws \in [Sides -> Wheels]
  <2>1. wheel \in [Sides -> Wheels]
    BY DEF TypeOK
  <2>2. \A s \in Sides : AutoMix(f, t)[s] \in Int
    BY AutoMixInt DEF Speeds
  <2> QED
    BY <2>1, <2>2, RetargetedType
<1>2. PICK measured \in [Sides -> Measurements] :
        IF closedLoop
        THEN wheel' = ClosedLoopWheel(ws, measured) /\ pwm' = ClosedLoopPwm(ws, measured)
        ELSE wheel' = ws /\ pwm' = OpenLoopPwm(ws)
  BY DEF SetAutoVelocity
<1> HIDE DEF ws
<1>3. measured \in [Sides -> Int]
  BY WheelAssumption
<1>4. wheel' \in [Sides -> Wheels] /\ pwm' \in [Sides -> Duties]
  BY <1>1, <1>2, <1>3, CycleWheel, CyclePwm, OpenPwm
<1> QED
  BY <1>4 DEF SetAutoVelocity, TypeOK

LEMMA WheelsStayTyped == MotionTypeOK /\ [MotionNext]_motionVars => TypeOK'
<1> SUFFICES ASSUME MotionTypeOK, [MotionNext]_motionVars PROVE TypeOK'
  OBVIOUS
<1>1. TypeOK
  BY DEF MotionTypeOK
<1>2. CASE UNCHANGED wheelVars
  BY <1>1, <1>2 DEF TypeOK, wheelVars
<1>3. ASSUME NEW on \in BOOLEAN, SetClosedLoop(on) PROVE TypeOK'
  BY <1>1, <1>3 DEF TypeOK, SetClosedLoop
<1>4. CASE Stop
  BY <1>1, <1>4, StopType
<1>5. CASE Reset
  <2>1. wheel' \in [Sides -> Wheels] /\ pwm' \in [Sides -> Duties]
    BY <1>5, AtRestType DEF Reset
  <2> QED
    BY <1>5, <2>1 DEF Reset, TypeOK
<1>6. CASE DriveByPad
  <2>1. Limited(pad.forward) \in Int /\ pad.turn \in Int
    BY LimitedInt DEF MotionTypeOK
  <2> QED
    BY <1>1, <1>6, <2>1, ManualType DEF DriveByPad
<1>7. CASE DriveByHost
  <2>1. Limited(host.forward) \in Int /\ host.turn \in Int
    BY LimitedInt DEF MotionTypeOK
  <2>2. SetAutoVelocity(Limited(host.forward), host.turn) \/ ChassisStop
    BY <1>7 DEF DriveByHost
  <2> QED
    BY <1>1, <2>1, <2>2, AutoType, StopType DEF ChassisStop
<1>8. CASE DriveByNobody
  BY <1>1, <1>8, StopType DEF DriveByNobody, ChassisStop
<1> QED
  BY <1>2, <1>3, <1>4, <1>5, <1>6, <1>7, <1>8
  DEF MotionNext, motionVars, Tick, Sense, UsbStep, UsbReport, UsbForward, UsbActivity, UsbTick,
      UsbWrite, HandleControl, HandleParam, OtaEnter, Cycle, Wake, InputDone, PadCheck,
      PadActive, PadRead, PadClock, PadCompare, Decide

PadType  == [connected : BOOLEAN, forward : Int, turn : Int, activity : BOOLEAN, age : Ages]
UsbType  == [pc : {"idle", "forward", "activity", "tick"},
             report : Reports \cup {Centred}, late : 0 .. MaxLate]
HostType == [valid : BOOLEAN, enabled : BOOLEAN, forward : Int, turn : Int, age : Ages]

\* What a field written into one of these records leaves it.
LEMMA PadWrites ==
  ASSUME NEW p \in PadType
  PROVE  /\ \A x \in Int : [p EXCEPT !.forward = x] \in PadType
         /\ \A x \in BOOLEAN : [p EXCEPT !.activity = x] \in PadType
         /\ \A x \in Ages : [p EXCEPT !.age = x] \in PadType
         /\ \A c \in BOOLEAN, x \in Int : [p EXCEPT !.connected = c, !.turn = x] \in PadType
  BY DEF PadType

LEMMA HostWrites ==
  ASSUME NEW h \in HostType
  PROVE  \A x \in BOOLEAN, f, t \in Int :
           [h EXCEPT !.enabled = x, !.forward = f, !.turn = t] \in HostType
  BY DEF HostType

LEMMA SeenWrites ==
  ASSUME NEW h \in History
  PROVE  /\ \A g \in 0 .. 2, a \in Ages : [h EXCEPT !.gone = g, !.touch = a] \in History
         /\ \A a, b \in Ages : [h EXCEPT !.touch = a, !.frame = b] \in History
         /\ \A a \in Ages, x \in BOOLEAN : [h EXCEPT !.touch = a, !.raced = x] \in History
         /\ \A k \in {"none", "go", "stop", "bad"}, a \in Ages :
              [h EXCEPT !.kind = k, !.frame = a] \in History
         /\ \A o, x \in BOOLEAN : [h EXCEPT !.owned = o, !.raced = x] \in History
         /\ \A g \in 0 .. 2, o, x \in BOOLEAN :
              [h EXCEPT !.gone = g, !.owned = o, !.raced = x] \in History
  BY DEF History

LEMMA AgesRange ==
  /\ TickMod \in Nat /\ MaxLate \in Nat
  /\ 0 \in Ages /\ TickMod - 1 \in Ages
  /\ \A age \in Ages : age \in Nat
  BY MotionAssumption DEF Ages

LEMMA UsbStaysTyped ==
  ASSUME MotionTypeOK, UsbStep
  PROVE  pad' \in PadType /\ usb' \in UsbType /\ seen' \in History
<1>0. pad \in PadType /\ usb \in UsbType /\ seen \in History
  BY DEF MotionTypeOK, PadType, UsbType
<1>1. CASE UsbReport
  <2>1. PICK r \in Reports :
          /\ usb' = [pc |-> "forward", report |-> r, late |-> 0]
          /\ pad' = [pad EXCEPT !.connected = r.connected, !.turn = r.turn]
          /\ seen' = [seen EXCEPT !.gone = IF r.connected THEN 0 ELSE @,
                                   !.touch = IF r.touched THEN 0 ELSE @]
    BY <1>1 DEF UsbReport
  <2>2. usb' \in UsbType
    BY <2>1, AgesRange DEF UsbType
  <2>3. pad' \in PadType
    BY <1>0, <2>1, PadWrites, ReportInt
  <2>4. seen' \in History
    <3> DEFINE g == IF r.connected THEN 0 ELSE seen.gone
               a == IF r.touched THEN 0 ELSE seen.touch
    <3>1. g \in 0 .. 2 /\ a \in Ages
      BY <1>0, AgesRange DEF History
    <3>2. seen' = [seen EXCEPT !.gone = g, !.touch = a]
      BY <2>1
    <3> HIDE DEF g, a
    <3> QED
      BY <1>0, <3>1, <3>2, SeenWrites
  <2> QED
    BY <2>2, <2>3, <2>4
<1>2. ASSUME NEW now, NEW next \in {"idle", "activity", "tick"}, NEW new \in PadType,
             UsbWrite(now, next, new)
      PROVE  pad' \in PadType /\ usb' \in UsbType
  BY <1>0, <1>2, AgesRange DEF UsbWrite, UsbType, IdleUsb
<1>3. usb.report.forward \in Int /\ usb.report.connected \in BOOLEAN
      /\ usb.report.touched \in BOOLEAN
  BY <1>0, ReportInt DEF UsbType
<1>4. CASE UsbForward
  <2>1. [pad EXCEPT !.forward = usb.report.forward] \in PadType
    BY <1>0, <1>3, PadWrites
  <2> QED
    BY <1>0, <1>2, <1>4, <2>1 DEF UsbForward
<1>5. CASE UsbActivity
  <2>1. (pad.activity \/ usb.report.touched) \in BOOLEAN
    OBVIOUS
  <2> DEFINE act == IF usb.report.connected THEN pad.activity \/ usb.report.touched ELSE FALSE
  <2>2. act \in BOOLEAN
    BY <2>1
  <2>3. [pad EXCEPT !.activity = act] \in PadType
    <3> HIDE DEF act
    <3> QED
      BY <1>0, <2>2, PadWrites
  <2>4. UsbWrite("activity", IF usb.report.touched THEN "tick" ELSE "idle",
                 [pad EXCEPT !.activity = act]) /\ UNCHANGED seen
    BY <1>5 DEF UsbActivity
  <2> QED
    BY <1>0, <1>2, <2>3, <2>4
<1>6. CASE UsbTick
  <2>1. [pad EXCEPT !.age = 0] \in PadType
    BY <1>0, PadWrites, AgesRange
  <2>2. seen' \in History
    <3>1. (seen.raced \/ pc = "compare") \in BOOLEAN
      OBVIOUS
    <3>2. seen' = [seen EXCEPT !.touch = 0, !.raced = seen.raced \/ pc = "compare"]
      BY <1>6 DEF UsbTick
    <3> QED
      BY <1>0, <3>1, <3>2, AgesRange, SeenWrites
  <2> QED
    BY <1>2, <1>6, <2>1, <2>2 DEF UsbTick
<1> QED
  BY <1>1, <1>4, <1>5, <1>6 DEF UsbStep

LEMMA MotionTypeStep == MotionTypeOK /\ [MotionNext]_motionVars => MotionTypeOK'
<1> SUFFICES ASSUME MotionTypeOK, [MotionNext]_motionVars PROVE MotionTypeOK'
  OBVIOUS
<1>0. pad \in PadType /\ usb \in UsbType /\ host \in HostType /\ seen \in History
  BY DEF MotionTypeOK, PadType, UsbType, HostType
<1> DEFINE Rest == /\ near' \in BOOLEAN
                   /\ mode' \in {"stopped", "manual", "automatic"}
                   /\ pc' \in {"sleep", "input", "pad", "active", "clock", "compare", "sticks", "host", "ota"}
                   /\ late' \in 0 .. MaxLate + 1 /\ frames' \in 0 .. FramesPerCycle
                   /\ snapshot' \in Ages
           Records == pad' \in PadType /\ usb' \in UsbType /\ host' \in HostType
                      /\ seen' \in History
<1>1. TypeOK'
  BY WheelsStayTyped
<1>2. SUFFICES Rest /\ Records
  BY <1>1, <1>2 DEF MotionTypeOK, PadType, UsbType, HostType
<1>3. CASE Tick
  <2>1. Rest
    BY <1>3, OlderType, AgesRange DEF Tick, MotionTypeOK
  <2>2. pad' \in PadType
    <3>1. pad.age \in Ages
      BY <1>0 DEF PadType
    <3> QED
      BY <1>0, <1>3, <3>1, OlderType, PadWrites DEF Tick
  <2>3. usb' \in UsbType
    BY <1>0, <1>3, AgesRange DEF Tick, UsbType
  <2>4. host' \in HostType
    <3>1. Older(host.age) \in Ages
      BY <1>0, OlderType DEF HostType
    <3> QED
      BY <1>0, <1>3, <3>1 DEF Tick, HostType
  <2>5. seen' \in History
    <3>1. RealOlder(seen.touch) \in Ages /\ RealOlder(seen.frame) \in Ages
      BY <1>0, OlderType DEF History
    <3> QED
      BY <1>0, <1>3, <3>1, SeenWrites DEF Tick
  <2> QED
    BY <2>1, <2>2, <2>3, <2>4, <2>5
<1>4. CASE Sense
  <2>1. (~near) \in BOOLEAN
    OBVIOUS
  <2> QED
    BY <1>0, <1>4, <2>1 DEF Sense, padVars, MotionTypeOK
<1>5. CASE UsbStep
  <2>1. Rest /\ host' \in HostType
    BY <1>0, <1>5 DEF UsbStep, UsbReport, UsbForward, UsbActivity, UsbTick, UsbWrite, MotionTypeOK
  <2> QED
    BY <1>5, <2>1, UsbStaysTyped
<1>6. CASE HandleControl
  <2>1. PICK f \in HostFrames :
          /\ host' = AfterControl(f)
          /\ seen' = [seen EXCEPT !.kind = f.kind, !.frame = IF f.kind = "bad" THEN @ ELSE 0]
    BY <1>6 DEF HandleControl
  <2>2. f.kind \in {"go", "stop", "bad"} /\ f.forward \in Int /\ f.turn \in Int
    BY MotionAssumption
  <2>3. host' \in HostType
    <3>1. (f.kind = "go") \in BOOLEAN
      OBVIOUS
    <3>2. [host EXCEPT !.enabled = FALSE, !.forward = 0, !.turn = 0] \in HostType
      <4>1. FALSE \in BOOLEAN /\ 0 \in Int
        OBVIOUS
      <4>2. \A x \in BOOLEAN, d, t \in Int :
              [host EXCEPT !.enabled = x, !.forward = d, !.turn = t] \in HostType
        BY <1>0, HostWrites
      <4> QED
        BY <4>1, <4>2, Zenon
    <3>3. [valid |-> TRUE, age |-> 0, enabled |-> f.kind = "go",
           forward |-> IF f.kind = "go" THEN f.forward ELSE 0,
           turn |-> IF f.kind = "go" THEN f.turn ELSE 0] \in HostType
      BY <2>2, <3>1, AgesRange DEF HostType
    <3> QED
      BY <2>1, <3>2, <3>3 DEF AfterControl
  <2>4. seen' \in History
    <3>1. (IF f.kind = "bad" THEN seen.frame ELSE 0) \in Ages
      BY <1>0, AgesRange DEF History
    <3> QED
      BY <1>0, <2>1, <2>2, <3>1, SeenWrites
  <2>5. Rest /\ pad' \in PadType /\ usb' \in UsbType
    BY <1>0, <1>6, MotionAssumption DEF HandleControl, Framed, inputVars, MotionTypeOK
  <2> QED
    BY <2>3, <2>4, <2>5
<1>7. CASE HandleParam \/ OtaEnter \/ InputDone
  BY <1>0, <1>7, MotionAssumption DEF HandleParam, OtaEnter, InputDone, Framed, inputVars, MotionTypeOK
<1>8. CASE Reset
  <2>1. Rest
    <3>1. near' \in BOOLEAN
      BY <1>8 DEF Reset
    <3>2. late' = 0 /\ frames' = 0 /\ snapshot' = 0 /\ mode' = "stopped" /\ pc' = "sleep"
      BY <1>8 DEF Reset
    <3> QED
      BY <3>1, <3>2, AgesRange, MotionAssumption
  <2>2. pad' \in PadType /\ usb' \in UsbType /\ host' \in HostType
    BY <1>8, AgesRange DEF Reset, PadType, UsbType, HostType, IdleUsb
  <2>3. seen' \in History
    BY <1>8, AgesRange DEF Reset, History
  <2> QED
    BY <2>1, <2>2, <2>3
<1>9. CASE Wake \/ PadCheck \/ PadActive \/ PadCompare
  BY <1>0, <1>9, AgesRange, MotionAssumption
     DEF Wake, PadCheck, PadActive, PadRead, PadCompare, padVars, MotionTypeOK
<1>10. CASE PadClock
  <2>1. (pad.connected /\ pad.activity /\ pad.age <= PadHold) \in BOOLEAN
    OBVIOUS
  <2>2. seen' = [seen EXCEPT !.owned = pad.connected /\ pad.activity /\ pad.age <= PadHold,
                              !.raced = FALSE]
    BY <1>10 DEF PadClock
  <2>3. seen' \in History
    BY <1>0, <2>1, <2>2, SeenWrites
  <2> QED
    BY <1>0, <1>10, <2>3, AgesRange DEF PadClock, padVars, MotionTypeOK
<1>11. CASE Decide
  <2>1. Decided
    BY <1>11 DEF Decide, DriveByPad, DriveByHost, DriveByNobody
  <2>2. mode' \in {"stopped", "manual", "automatic"}
    BY <1>11 DEF Decide, DriveByPad, DriveByHost, DriveByNobody, SetManualVelocity,
                 SetAutoVelocity, ChassisStop
  <2>3. seen' \in History
    <3> DEFINE g == IF pad.connected \/ seen.gone = 2 THEN seen.gone ELSE seen.gone + 1
    <3>1. g \in 0 .. 2
      BY <1>0 DEF History
    <3>2. seen' = [seen EXCEPT !.gone = g, !.owned = FALSE, !.raced = FALSE]
      BY <2>1 DEF Decided
    <3> HIDE DEF g
    <3> QED
      BY <1>0, <3>1, <3>2, SeenWrites
  <2>4. host' \in HostType
    <3>1. host' = host \/ host' = [host EXCEPT !.valid = FALSE]
      BY <1>11 DEF Decide, DriveByPad, DriveByHost, DriveByNobody
    <3> QED
      BY <1>0, <3>1 DEF HostType
  <2> QED
    BY <1>0, <2>1, <2>2, <2>3, <2>4, MotionAssumption DEF Decided, padVars, MotionTypeOK
<1>12. CASE UNCHANGED motionVars
  BY <1>0, <1>12 DEF motionVars, MotionTypeOK
<1> QED
  BY <1>3, <1>4, <1>5, <1>6, <1>7, <1>8, <1>9, <1>10, <1>11, <1>12 DEF MotionNext, Cycle

\* Every field of gamepad, host command and cycle stays in its type, speeds
\* and duties within their limits, wherever the two threads are preempted.
THEOREM MotionTypeCorrect == MotionSpec => []MotionTypeOK
  BY MotionTypeInit, MotionTypeStep, PTL DEF MotionSpec

-----------------------------------------------------------------------------
(* A command of the host is as old as its frame.                           *)

\* A cycle that has begun is over within MaxLate ticks, and sleeps one tick.
CycleLate == late <= IF pc = "sleep" THEN 1 ELSE MaxLate

CycleInv == MotionTypeOK /\ CycleLate

LEMMA CycleInit == MotionInit => CycleInv
  BY MotionTypeInit DEF MotionInit, CycleInv, CycleLate

LEMMA CycleStep == CycleInv /\ [MotionNext]_motionVars => CycleInv'
<1> SUFFICES ASSUME CycleInv, [MotionNext]_motionVars PROVE CycleInv'
  OBVIOUS
<1>1. MotionTypeOK' /\ late \in 0 .. MaxLate + 1
  BY MotionTypeStep DEF CycleInv, MotionTypeOK
<1>2. late' = 0 \/ (pc' = pc /\ late' = late) \/ (pc # "sleep" /\ pc' # "sleep" /\ late' = late)
      \/ Tick
  BY DEF MotionNext, motionVars, Sense, UsbStep, UsbReport, UsbForward, UsbActivity, UsbTick,
         UsbWrite, HandleControl, HandleParam, OtaEnter, Reset, Framed, inputVars, Cycle, Wake,
         InputDone, PadCheck, PadActive, PadRead, PadClock, PadCompare, Decide, DriveByPad, DriveByHost, DriveByNobody, Decided
<1>3. CycleLate'
  BY <1>1, <1>2, AgesRange DEF CycleInv, CycleLate, Tick
<1> QED
  BY <1>1, <1>3 DEF CycleInv

\* The age of the command is the age of its frame, and what enabled it was a
\* motion command; while the host drives, that frame is as old as the time
\* out and the ticks since the decision allow.
HostInv ==
  /\ host.valid => seen.frame = host.age
  /\ host.enabled => seen.kind = "go"
  /\ pc = "ota" => mode = "stopped"
  /\ mode = "automatic" /\ pc = "sleep" => seen.kind = "go" /\ seen.frame <= HostTimeout + late
  /\ mode = "automatic" /\ pc # "sleep" => seen.frame <= HostTimeout + 1 + late

LEMMA HostInit == MotionInit => HostInv
  BY DEF MotionInit, HostInv

LEMMA HostStep ==
  ASSUME TickWraps = FALSE
  PROVE  CycleInv /\ HostInv /\ [MotionNext]_motionVars => HostInv'
<1> SUFFICES ASSUME CycleInv, HostInv, [MotionNext]_motionVars PROVE HostInv'
  OBVIOUS
<1>0. /\ host \in HostType /\ seen \in History /\ pad \in PadType
      /\ late \in Nat /\ seen.frame \in Ages /\ HostTimeout \in Nat /\ CycleLate
  BY MotionAssumption DEF CycleInv, MotionTypeOK, HostType, History, PadType
<1>1. CASE Tick
  <2>1. /\ host' = [host EXCEPT !.age = RealOlder(host.age)]
        /\ seen' = [seen EXCEPT !.touch = RealOlder(seen.touch), !.frame = RealOlder(seen.frame)]
        /\ mode' = mode /\ pc' = pc /\ late' = late + 1
    BY <1>1 DEF Tick, Older
  <2>2. /\ host'.valid = host.valid /\ host'.enabled = host.enabled
        /\ host'.age = RealOlder(host.age)
        /\ seen'.frame = RealOlder(seen.frame) /\ seen'.kind = seen.kind
    BY <1>0, <2>1 DEF HostType, History
  <2>3. RealOlder(seen.frame) <= seen.frame + 1 /\ RealOlder(seen.frame) \in Nat
        /\ seen.frame \in Nat
    BY <1>0, OlderType, AgesRange
  <2> QED
    BY <1>0, <2>1, <2>2, <2>3 DEF HostInv
<1>2. CASE UNCHANGED <<host, pc, late, mode>> /\ seen'.frame = seen.frame /\ seen'.kind = seen.kind
  BY <1>2 DEF HostInv
<1>3. CASE Sense \/ UNCHANGED motionVars
  BY <1>2, <1>3 DEF Sense, motionVars
<1>4. CASE UsbStep
  <2>1. UNCHANGED <<host, pc, late, mode>>
    BY <1>4 DEF UsbStep, UsbReport, UsbForward, UsbActivity, UsbTick, UsbWrite
  <2>2. seen'.frame = seen.frame /\ seen'.kind = seen.kind
    BY <1>0, <1>4 DEF UsbStep, UsbReport, UsbForward, UsbActivity, UsbTick, History
  <2> QED
    BY <1>2, <2>1, <2>2
<1>5. CASE HandleControl
  <2>1. PICK f \in HostFrames :
          /\ host' = AfterControl(f)
          /\ seen' = [seen EXCEPT !.kind = f.kind, !.frame = IF f.kind = "bad" THEN @ ELSE 0]
    BY <1>5 DEF HandleControl
  <2>2. /\ pc = "input" /\ pc' = "input" /\ UNCHANGED <<mode, late>>
    BY <1>5 DEF HandleControl, Framed, inputVars
  <2>3. seen'.kind = f.kind /\ seen'.frame = IF f.kind = "bad" THEN seen.frame ELSE 0
    BY <1>0, <2>1 DEF History
  <2>4. CASE f.kind = "bad"
    <3>1. /\ host'.valid = host.valid /\ host'.enabled = FALSE /\ host'.age = host.age
      BY <1>0, <2>1, <2>4 DEF AfterControl, HostType
    <3> QED
      BY <2>2, <2>3, <2>4, <3>1 DEF HostInv
  <2>5. CASE f.kind # "bad"
    <3>1. host'.age = 0 /\ (host'.enabled => f.kind = "go")
      BY <2>1, <2>5 DEF AfterControl
    <3> QED
      BY <1>0, <2>2, <2>3, <2>5, <3>1 DEF HostInv
  <2> QED
    BY <2>4, <2>5
<1>6. CASE HandleParam \/ OtaEnter \/ InputDone \/ PadCompare
  BY <1>0, <1>6 DEF HandleParam, SetClosedLoop, OtaEnter, InputDone, PadCompare, padVars, wheelVars,
                    Framed, inputVars, HostInv
<1>7. CASE PadCheck \/ PadActive \/ PadClock
  <2>1. /\ UNCHANGED <<host, late, mode>>
        /\ pc \notin {"sleep", "ota"} /\ pc' \notin {"sleep", "ota"}
    BY <1>7 DEF PadCheck, PadActive, PadRead, PadClock
  <2>2. seen'.frame = seen.frame /\ seen'.kind = seen.kind
    BY <1>0, <1>7 DEF PadCheck, PadActive, PadRead, PadClock, History
  <2> QED
    BY <2>1, <2>2 DEF HostInv
<1>8. CASE Reset
  BY <1>8 DEF Reset, HostInv
<1>9. CASE Wake
  BY <1>0, <1>9, AgesRange DEF Wake, HostInv
<1>10. ASSUME Decided
       PROVE  /\ seen'.frame = seen.frame /\ seen'.kind = seen.kind
              /\ pc' = "sleep" /\ late' = 0
  BY <1>0, <1>10 DEF Decided, History
<1>11. CASE DriveByPad
  BY <1>10, <1>11 DEF DriveByPad, SetManualVelocity, HostInv
<1>12. CASE DriveByHost
  <2>1. mode' = "automatic" => host.enabled
    BY <1>12 DEF DriveByHost, ChassisStop
  <2>2. Decided /\ UNCHANGED host /\ host.valid /\ host.age <= HostTimeout
    BY <1>12 DEF DriveByHost, HostSpeaks
  <2> QED
    BY <1>0, <1>10, <2>1, <2>2, AgesRange DEF HostInv
<1>13. CASE DriveByNobody
  <2>1. host'.enabled = host.enabled /\ host'.valid = FALSE
    BY <1>0, <1>13 DEF DriveByNobody, HostType
  <2> QED
    BY <1>10, <1>13, <2>1 DEF DriveByNobody, ChassisStop, HostInv
<1> QED
  BY <1>1, <1>3, <1>4, <1>5, <1>6, <1>7, <1>8, <1>9, <1>11, <1>12, <1>13
  DEF MotionNext, Cycle, Decide

\* Short of a wrap of the tick counter the car follows the host only while
\* its last frame was a motion command that is at most HostTimeout old when it
\* is acted on (RaspiLink_GetControlCommand, ControlMux).
THEOREM HostMotion ==
  ASSUME TickWraps = FALSE
  PROVE  MotionSpec => []HostMotionIsCurrent
<1>1. CycleInv /\ HostInv => HostMotionIsCurrent
  <2> SUFFICES ASSUME CycleInv, HostInv, mode = "automatic"
               PROVE  /\ seen.frame <= HostTimeout + 1 + MaxLate
                      /\ pc = "sleep" => seen.kind = "go" /\ seen.frame <= HostTimeout + 1
    BY DEF HostMotionIsCurrent
  <2>1. late \in Nat /\ seen.frame \in Nat /\ HostTimeout \in Nat /\ MaxLate \in Nat /\ CycleLate
    BY AgesRange, MotionAssumption DEF CycleInv, MotionTypeOK, History
  <2> QED
    BY <2>1 DEF HostInv, CycleLate
<1> QED
  BY <1>1, CycleInit, CycleStep, HostInit, HostStep, PTL DEF MotionSpec

-----------------------------------------------------------------------------
(* The reads of IsGamepadActive.                                           *)

\* The tick that was read ages with the cycle; as long as the activity is not
\* recorded again, a gamepad that was live when the tick was read is live at
\* the comparison, on either side of a wrap of the counter.
KeepInv ==
  /\ snapshot <= late /\ (pc # "compare" => snapshot = 0)
  /\ seen.owned => pc \in {"compare", "sticks", "host"}
  /\ seen.owned /\ pc = "compare" /\ ~seen.raced
       => snapshot <= pad.age /\ pad.age <= snapshot + PadHold
  /\ seen.owned /\ pc = "host" => seen.raced

\* An age that is not near the wrap grows by one.
LEMMA YoungGrowsOlder ==
  ASSUME NEW age \in Ages, age + 1 < TickMod
  PROVE  Older(age) = age + 1 /\ RealOlder(age) = age + 1
<1>1. age \in Nat /\ TickMod \in Nat
  BY AgesRange
<1>2. (age + 1) % TickMod = age + 1
  BY <1>1
<1> QED
  BY <1>1, <1>2 DEF Older, RealOlder

LEMMA KeepInit == MotionInit => KeepInv
  BY DEF MotionInit, KeepInv

LEMMA KeepStep == CycleInv /\ KeepInv /\ [MotionNext]_motionVars => KeepInv'
<1> SUFFICES ASSUME CycleInv, KeepInv, [MotionNext]_motionVars PROVE KeepInv'
  OBVIOUS
<1>0. /\ pad \in PadType /\ seen \in History /\ snapshot \in Ages /\ pad.age \in Ages
      /\ snapshot \in Nat /\ pad.age \in Nat /\ late \in Nat /\ CycleLate
      /\ MaxLate \in Nat /\ PadHold \in Nat /\ TickMod \in Nat /\ PadHold + MaxLate + 1 < TickMod
  BY AgesRange, MotionAssumption DEF CycleInv, MotionTypeOK, PadType
<1>1. CASE Tick
  <2>1. /\ late' = late + 1 /\ pc' = pc
        /\ pc # "sleep" => late < MaxLate
        /\ snapshot' = IF pc = "compare" THEN Older(snapshot) ELSE snapshot
    BY <1>1 DEF Tick
  <2>2. seen'.owned = seen.owned /\ seen'.raced = seen.raced /\ pad'.age = Older(pad.age)
    BY <1>0, <1>1 DEF Tick, History, PadType
  <2>3. pc # "compare" => KeepInv'
    BY <1>0, <2>1, <2>2 DEF KeepInv
  <2>4. ASSUME pc = "compare" PROVE KeepInv'
    <3>1. snapshot' = snapshot + 1
      BY <1>0, <2>1, <2>4, YoungGrowsOlder DEF KeepInv
    <3>2. seen.owned /\ ~seen.raced => pad'.age = pad.age + 1
      BY <1>0, <2>1, <2>2, <2>4, YoungGrowsOlder DEF KeepInv
    <3> QED
      BY <1>0, <2>1, <2>2, <2>4, <3>1, <3>2 DEF KeepInv
  <2> QED
    BY <2>3, <2>4
<1>2. CASE /\ UNCHANGED <<pc, late, snapshot>> /\ pad'.age = pad.age
           /\ seen'.owned = seen.owned /\ seen'.raced = seen.raced
  BY <1>2 DEF KeepInv
<1>3. CASE Sense \/ UNCHANGED motionVars
  BY <1>2, <1>3 DEF Sense, motionVars, padVars
<1>4. CASE UsbReport \/ UsbForward \/ UsbActivity
  <2>1. UNCHANGED <<pc, late, snapshot>>
    BY <1>4 DEF UsbReport, UsbForward, UsbActivity, UsbWrite
  <2>2. seen'.owned = seen.owned /\ seen'.raced = seen.raced
    BY <1>0, <1>4 DEF UsbReport, UsbForward, UsbActivity, History
  <2>3. pad'.age = pad.age
    BY <1>0, <1>4 DEF UsbReport, UsbForward, UsbActivity, UsbWrite, PadType
  <2> QED
    BY <1>2, <2>1, <2>2, <2>3
<1>5. CASE UsbTick
  <2>1. UNCHANGED <<pc, late, snapshot>>
    BY <1>5 DEF UsbTick, UsbWrite
  <2>2. /\ seen'.owned = seen.owned
        /\ seen'.raced = (seen.raced \/ pc = "compare")
    BY <1>0, <1>5 DEF UsbTick, History
  <2> QED
    BY <2>1, <2>2 DEF KeepInv
<1>6. CASE HandleControl
  <2>1. UNCHANGED <<late, snapshot>> /\ pc = "input" /\ pc' = "input"
    BY <1>6 DEF HandleControl, Framed, inputVars
  <2>2. seen'.owned = seen.owned
    BY <1>0, <1>6 DEF HandleControl, History
  <2> QED
    BY <2>1, <2>2 DEF KeepInv
<1>7. CASE HandleParam \/ OtaEnter \/ InputDone \/ Wake \/ PadCheck \/ PadActive
  <2>1. /\ UNCHANGED <<snapshot, seen>> /\ pc \in {"input", "sleep", "pad", "active"}
        /\ pc' \in {"input", "ota", "pad", "active", "clock", "host"}
        /\ late' \in {late, 0}
    BY <1>7 DEF HandleParam, OtaEnter, InputDone, Wake, Framed, inputVars, PadCheck, PadActive, PadRead
  <2> QED
    BY <1>0, <2>1 DEF KeepInv
<1>8. CASE PadClock
  <2>1. pc' = "compare" /\ snapshot' = 0 /\ late' = late /\ pad' = pad
    BY <1>8 DEF PadClock, padVars
  <2>2. seen'.owned = (pad.connected /\ pad.activity /\ pad.age <= PadHold)
    BY <1>0, <1>8 DEF PadClock, History
  <2>3. seen'.owned => pad.age <= PadHold
    BY <2>2, Zenon
  <2>4. pad'.age = pad.age
    BY <2>1
  <2> QED
    BY <1>0, <2>1, <2>3, <2>4 DEF KeepInv
<1>9. CASE PadCompare
  <2>1. /\ pc = "compare" /\ pc' = IF Held THEN "sticks" ELSE "host"
        /\ snapshot' = 0 /\ UNCHANGED <<late, seen>>
    BY <1>9 DEF PadCompare
  <2>2. seen.owned /\ ~seen.raced => Held
    <3> SUFFICES ASSUME seen.owned, ~seen.raced PROVE Held
      OBVIOUS
    <3>1. pad.age - snapshot \in 0 .. PadHold
      BY <1>0, <2>1 DEF KeepInv
    <3>2. (pad.age - snapshot) % TickMod = pad.age - snapshot
      BY <1>0, <3>1
    <3> QED
      BY <1>0, <3>1, <3>2 DEF Held
  <2> QED
    BY <1>0, <2>1, <2>2 DEF KeepInv
<1>10. CASE Decide
  <2>1. Decided /\ pc \in {"sticks", "host"}
    BY <1>10 DEF Decide, DriveByPad, DriveByHost, DriveByNobody
  <2>2. pc' = "sleep" /\ late' = 0 /\ snapshot' = snapshot /\ seen'.owned = FALSE
    BY <1>0, <2>1 DEF Decided, History
  <2> QED
    BY <2>1, <2>2 DEF KeepInv
<1>11. CASE Reset
  BY <1>11 DEF Reset, KeepInv
<1> QED
  BY <1>1, <1>3, <1>4, <1>5, <1>6, <1>7, <1>8, <1>9, <1>10, <1>11
  DEF MotionNext, UsbStep, Cycle

\* A decision that has found a live gamepad and reads the tick while it is live does
\* not give the car away, unless the activity was recorded again before
\* IsGamepadActive compares the two ticks, also when the tick counter wraps.
THEOREM PadKeeps == MotionSpec => PadKeepsChassis
<1>1. CycleInv /\ KeepInv /\ [MotionNext]_motionVars
        => [Decide /\ seen.owned /\ mode' # "manual" => seen.raced]_motionVars
  <2> SUFFICES ASSUME CycleInv, KeepInv, Decide, seen.owned, mode' # "manual"
               PROVE  seen.raced
    OBVIOUS
  <2>1. pc = "host"
    BY DEF Decide, DriveByPad, DriveByHost, DriveByNobody, SetManualVelocity
  <2> QED
    BY <2>1 DEF KeepInv
<1> QED
  BY <1>1, CycleInit, CycleStep, KeepInit, KeepStep, PTL DEF MotionSpec, PadKeepsChassis

-----------------------------------------------------------------------------
(* A gamepad that is gone.                                                 *)

\* Decisions without a gamepad are counted from its last report on; the one
\* that was under way when it was unplugged is the only one it may win.
GoneInv ==
  /\ pad.connected \/ pc \in {"active", "clock", "compare", "sticks"} => seen.gone = 0
  /\ mode = "manual" => seen.gone < 2

LEMMA GoneInit == MotionInit => GoneInv
  BY DEF MotionInit, GoneInv

LEMMA GoneStep == CycleInv /\ GoneInv /\ [MotionNext]_motionVars => GoneInv'
<1> SUFFICES ASSUME CycleInv, GoneInv, [MotionNext]_motionVars PROVE GoneInv'
  OBVIOUS
<1>0. pad \in PadType /\ usb \in UsbType /\ seen \in History /\ seen.gone \in 0 .. 2
  BY DEF CycleInv, MotionTypeOK, PadType, UsbType, History
<1>1. CASE /\ UNCHANGED <<pc, mode>>
           /\ pad'.connected = pad.connected /\ seen'.gone = seen.gone
  BY <1>1 DEF GoneInv
<1>2. CASE Tick \/ Sense \/ UsbForward \/ UsbActivity \/ UsbTick \/ UNCHANGED motionVars
  <2>1. UNCHANGED <<pc, mode>>
    BY <1>2 DEF Tick, Sense, UsbForward, UsbActivity, UsbTick, UsbWrite, motionVars
  <2>2. pad'.connected = pad.connected
    BY <1>0, <1>2 DEF Tick, Sense, UsbForward, UsbActivity, UsbTick, UsbWrite, padVars,
                      motionVars, PadType
  <2>3. seen'.gone = seen.gone
    BY <1>0, <1>2 DEF Tick, Sense, UsbForward, UsbActivity, UsbTick, motionVars, History
  <2> QED
    BY <1>1, <2>1, <2>2, <2>3
<1>3. CASE UsbReport
  <2>1. PICK r \in Reports :
          /\ pad' = [pad EXCEPT !.connected = r.connected, !.turn = r.turn]
          /\ seen' = [seen EXCEPT !.gone = IF r.connected THEN 0 ELSE @,
                                   !.touch = IF r.touched THEN 0 ELSE @]
    BY <1>3 DEF UsbReport
  <2>2. /\ pad'.connected = r.connected
        /\ seen'.gone = IF r.connected THEN 0 ELSE seen.gone
    BY <1>0, <2>1 DEF PadType, History
  <2>3. UNCHANGED <<pc, mode>>
    BY <1>3 DEF UsbReport
  <2> QED
    BY <2>2, <2>3 DEF GoneInv
<1>4. CASE HandleControl
  <2>1. seen'.gone = seen.gone
    BY <1>0, <1>4 DEF HandleControl, History
  <2> QED
    BY <1>1, <1>4, <2>1 DEF HandleControl, Framed, inputVars
<1>5. CASE HandleParam \/ OtaEnter \/ InputDone \/ Wake \/ PadCompare
  BY <1>5 DEF HandleParam, OtaEnter, InputDone, Wake, PadCompare, Framed, inputVars, padVars, GoneInv
<1>6. CASE PadCheck \/ PadActive \/ PadClock
  <2>1. seen'.gone = seen.gone
    BY <1>0, <1>6 DEF PadCheck, PadActive, PadRead, PadClock, History
  <2> QED
    BY <1>6, <2>1 DEF PadCheck, PadActive, PadRead, PadClock, padVars, GoneInv
<1>7. CASE Reset
  BY <1>7 DEF Reset, GoneInv
<1>8. CASE Decide
  <2>1. Decided /\ (mode' = "manual" => pc = "sticks")
    BY <1>8 DEF Decide, DriveByPad, DriveByHost, DriveByNobody, SetAutoVelocity, ChassisStop
  <2>2. /\ seen'.gone = IF pad.connected \/ seen.gone = 2 THEN seen.gone ELSE seen.gone + 1
        /\ pad' = pad /\ pc' = "sleep"
    BY <1>0, <2>1 DEF Decided, padVars, History
  <2>3. pad.connected => seen'.gone = seen.gone
    BY <2>2
  <2> QED
    BY <1>0, <2>1, <2>2, <2>3 DEF GoneInv
<1> QED
  BY <1>2, <1>3, <1>4, <1>5, <1>6, <1>7, <1>8 DEF MotionNext, UsbStep, Cycle

-----------------------------------------------------------------------------
(* A gamepad that is not touched.                                          *)

\* The recorded activity is at least as old as the last touch, unless the USB
\* thread is about to record it; what the comparison and the decision take
\* for a held gamepad was touched that long ago.
TouchInv ==
  /\ usb.pc # "idle" /\ usb.report.touched => seen.touch <= usb.late
  /\ usb.pc = "tick" => usb.report.touched
  /\ pad.activity \/ pc \in {"clock", "compare"} => seen.touch <= pad.age \/ usb.pc = "tick"
  /\ pc = "sticks" => seen.touch <= PadHold + late
  /\ mode = "manual" /\ pc = "sleep" => seen.touch <= PadHold + MaxLate + late
  /\ mode = "manual" /\ pc # "sleep" => seen.touch <= PadHold + MaxLate + 1 + late

LEMMA TouchInit == MotionInit => TouchInv
  BY DEF MotionInit, IdleUsb, TouchInv

\* A gamepad the comparison takes for held was touched PadHold ago, or since
\* the tick was read, or the USB thread is about to record it.
LEMMA HeldTouch ==
  ASSUME CycleInv, KeepInv, TouchInv, pc = "compare", Held
  PROVE  seen.touch <= PadHold + late
<1>1. /\ seen.touch \in Nat /\ pad.age \in Ages /\ pad.age \in Nat /\ snapshot \in Nat
      /\ late \in Nat /\ CycleLate /\ TickMod \in Nat /\ PadHold \in Nat /\ MaxLate \in Nat
      /\ PadHold + MaxLate + 1 < TickMod /\ MaxLate <= PadHold
      /\ usb.late \in 0 .. MaxLate
  BY AgesRange, MotionAssumption DEF CycleInv, MotionTypeOK, PadType, History
<1>2. CASE usb.pc = "tick"
  BY <1>1, <1>2 DEF TouchInv
<1>3. CASE usb.pc # "tick"
  <2>1. seen.touch <= pad.age
    BY <1>3 DEF TouchInv
  <2>2. CASE pad.age < snapshot
    BY <1>1, <2>1, <2>2 DEF KeepInv
  <2>3. CASE snapshot <= pad.age
    <3>1. (pad.age - snapshot) % TickMod = pad.age - snapshot
      BY <1>1, <2>3 DEF Ages
    <3>2. pad.age - snapshot <= PadHold
      BY <3>1 DEF Held
    <3> QED
      BY <1>1, <2>1, <3>2 DEF KeepInv
  <2> QED
    BY <1>1, <2>2, <2>3
<1> QED
  BY <1>2, <1>3

LEMMA TouchStep ==
  ASSUME TickWraps = FALSE
  PROVE  CycleInv /\ KeepInv /\ TouchInv /\ [MotionNext]_motionVars => TouchInv'
<1> SUFFICES ASSUME CycleInv, KeepInv, TouchInv, [MotionNext]_motionVars PROVE TouchInv'
  OBVIOUS
<1>0. /\ pad \in PadType /\ usb \in UsbType /\ seen \in History
      /\ seen.touch \in Ages /\ pad.age \in Ages /\ seen.touch \in Nat /\ pad.age \in Nat
      /\ late \in Nat /\ CycleLate /\ PadHold \in Nat /\ MaxLate \in Nat
      /\ usb.late \in 0 .. MaxLate
  BY AgesRange, MotionAssumption DEF CycleInv, MotionTypeOK, PadType, UsbType, History
<1>1. CASE Tick
  <2>1. /\ late' = late + 1 /\ UNCHANGED <<pc, mode>>
        /\ pad'.activity = pad.activity /\ pad'.age = RealOlder(pad.age)
        /\ seen'.touch = RealOlder(seen.touch)
        /\ usb'.pc = usb.pc /\ usb'.report = usb.report
        /\ usb.pc # "idle" => usb'.late = usb.late + 1
    BY <1>0, <1>1 DEF Tick, Older, PadType, UsbType, History
  <2>2. /\ RealOlder(seen.touch) \in Nat /\ RealOlder(seen.touch) <= seen.touch + 1
        /\ seen.touch <= pad.age => RealOlder(seen.touch) <= RealOlder(pad.age)
    BY <1>0, AgesRange DEF RealOlder, Ages
  <2> QED
    BY <1>0, <2>1, <2>2 DEF TouchInv
<1>2. CASE Sense \/ UNCHANGED motionVars
  BY <1>2 DEF Sense, padVars, motionVars, TouchInv
<1>3. CASE UsbReport
  <2>1. PICK r \in Reports :
          /\ usb' = [pc |-> "forward", report |-> r, late |-> 0]
          /\ pad' = [pad EXCEPT !.connected = r.connected, !.turn = r.turn]
          /\ seen' = [seen EXCEPT !.gone = IF r.connected THEN 0 ELSE @,
                                   !.touch = IF r.touched THEN 0 ELSE @]
    BY <1>3 DEF UsbReport
  <2>2. /\ pad'.activity = pad.activity /\ pad'.age = pad.age
        /\ seen'.touch = IF r.touched THEN 0 ELSE seen.touch
        /\ usb'.pc = "forward" /\ usb'.report = r /\ usb'.late = 0
    BY <1>0, <2>1 DEF PadType, History
  <2>3. UNCHANGED <<pc, mode, late>> /\ usb.pc = "idle"
    BY <1>3 DEF UsbReport
  <2> QED
    BY <1>0, <2>2, <2>3 DEF TouchInv
<1>4. CASE UsbForward
  <2>1. /\ pad'.activity = pad.activity /\ pad'.age = pad.age
        /\ usb'.pc = "activity" /\ usb'.report = usb.report /\ usb'.late = usb.late
    BY <1>0, <1>4 DEF UsbForward, UsbWrite, PadType, UsbType
  <2>2. UNCHANGED <<pc, mode, late, seen>> /\ usb.pc = "forward"
    BY <1>4 DEF UsbForward, UsbWrite
  <2> QED
    BY <2>1, <2>2 DEF TouchInv
<1>5. CASE UsbActivity
  <2>1. UNCHANGED <<pc, mode, late, seen>> /\ usb.pc = "activity"
    BY <1>5 DEF UsbActivity, UsbWrite
  <2>2. CASE usb.report.touched
    <3>1. usb'.pc = "tick" /\ usb'.report = usb.report /\ usb'.late = usb.late
      BY <1>0, <1>5, <2>2 DEF UsbActivity, UsbWrite, UsbType
    <3> QED
      BY <2>1, <2>2, <3>1 DEF TouchInv
  <2>3. CASE ~usb.report.touched
    <3>1. /\ usb'.pc = "idle" /\ pad'.age = pad.age
          /\ pad'.activity => pad.activity
      BY <1>0, <1>5, <2>3 DEF UsbActivity, UsbWrite, IdleUsb, PadType
    <3> QED
      BY <2>1, <3>1 DEF TouchInv
  <2> QED
    BY <2>2, <2>3
<1>6. CASE UsbTick
  <2>1. UNCHANGED <<pc, mode, late>> /\ usb' = IdleUsb
    BY <1>6 DEF UsbTick, UsbWrite
  <2>2. pad'.age = 0 /\ seen'.touch = 0 /\ usb'.pc = "idle"
    BY <1>0, <1>6, <2>1 DEF UsbTick, UsbWrite, PadType, History, IdleUsb
  <2> QED
    BY <1>0, <2>1, <2>2 DEF TouchInv
<1>7. CASE HandleControl
  <2>1. seen'.touch = seen.touch
    BY <1>0, <1>7 DEF HandleControl, History
  <2> QED
    BY <1>7, <2>1 DEF HandleControl, Framed, inputVars, TouchInv
<1>8. CASE HandleParam \/ OtaEnter \/ InputDone
  BY <1>8 DEF HandleParam, OtaEnter, InputDone, Framed, inputVars, TouchInv
<1>9. CASE Wake
  BY <1>0, <1>9 DEF Wake, padVars, TouchInv
<1>10. CASE PadCheck \/ PadActive \/ PadClock
  <2>1. seen'.touch = seen.touch
    BY <1>0, <1>10 DEF PadCheck, PadActive, PadRead, PadClock, History
  <2>2. /\ UNCHANGED <<pad, usb, mode, late>> /\ pc # "sleep" /\ pc' \in {"active", "clock", "compare", "host"}
        /\ pc' \in {"clock", "compare"} => pad.activity \/ pc = "clock"
    BY <1>10 DEF PadCheck, PadActive, PadRead, PadClock, padVars
  <2> QED
    BY <2>1, <2>2 DEF TouchInv
<1>11. CASE PadCompare
  <2>1. /\ UNCHANGED <<pad, usb, mode, late, seen>> /\ pc = "compare" /\ pc' \in {"sticks", "host"}
        /\ pc' = "sticks" => Held
    BY <1>11 DEF PadCompare, padVars
  <2> QED
    BY <2>1, HeldTouch DEF TouchInv
<1>12. CASE Decide
  <2>1. Decided /\ (mode' = "manual" => pc = "sticks")
    BY <1>12 DEF Decide, DriveByPad, DriveByHost, DriveByNobody, SetAutoVelocity, ChassisStop
  <2>2. seen'.touch = seen.touch /\ UNCHANGED <<pad, usb>> /\ pc' = "sleep" /\ late' = 0
    BY <1>0, <2>1 DEF Decided, padVars, History
  <2>3. pc = "sticks" => late <= MaxLate
    BY <1>0 DEF CycleLate
  <2> QED
    BY <1>0, <2>1, <2>2, <2>3 DEF TouchInv
<1>13. CASE Reset
  BY <1>13 DEF Reset, IdleUsb, TouchInv
<1> QED
  BY <1>1, <1>2, <1>3, <1>4, <1>5, <1>6, <1>7, <1>8, <1>9, <1>10, <1>11, <1>12, <1>13
  DEF MotionNext, UsbStep, Cycle

\* Short of a wrap of the tick counter the gamepad moves the car no longer
\* than PadHold after its last touch, and never in a second decision after it
\* was unplugged, whatever the USB thread had written by then.
THEOREM PadMotion ==
  ASSUME TickWraps = FALSE
  PROVE  MotionSpec => []PadMotionIsCurrent
<1>1. CycleInv /\ GoneInv /\ TouchInv => PadMotionIsCurrent
  <2> SUFFICES ASSUME CycleInv, GoneInv, TouchInv, mode = "manual"
               PROVE  seen.gone < 2 /\ seen.touch <= PadHold + 1 + 2 * MaxLate
    BY DEF PadMotionIsCurrent
  <2>1. /\ late \in Nat /\ seen.touch \in Nat /\ PadHold \in Nat /\ MaxLate \in Nat /\ CycleLate
    BY AgesRange, MotionAssumption DEF CycleInv, MotionTypeOK, History
  <2> QED
    BY <2>1 DEF GoneInv, TouchInv, CycleLate
<1> QED
  BY <1>1, CycleInit, CycleStep, KeepInit, KeepStep, GoneInit, GoneStep, TouchInit, TouchStep, PTL
  DEF MotionSpec

-----------------------------------------------------------------------------
(* In front of an obstacle.                                                *)

\* The motor driver treats the two directions alike.
LEMMA DriveOdd ==
  ASSUME NEW v \in Int
  PROVE  Drive(-v) = -Drive(v)
  BY WheelAssumption DEF Drive, Clamp, Abs

LEMMA DriveMonotone ==
  ASSUME NEW v \in Int, NEW w \in Int, v <= w
  PROVE  Drive(v) <= Drive(w)
  BY WheelAssumption DEF Drive, Clamp, Abs

LEMMA DivMonotone ==
  ASSUME NEW a \in Nat, NEW b \in Nat, NEW n \in Nat \ {0}, a <= b
  PROVE  a \div n <= b \div n
<1>1. /\ a \div n \in Nat /\ b \div n \in Nat
      /\ n * (a \div n) <= a /\ b < n * ((b \div n) + 1)
  OBVIOUS
<1> DEFINE p == a \div n
           q == b \div n
<1>2. p \in Nat /\ q \in Nat /\ n * p < n * (q + 1)
  BY <1>1
<1> HIDE DEF p, q
<1>3. p < q + 1
  <2>1. ASSUME q + 1 <= p PROVE n * (q + 1) <= n * p
    BY <1>2, <2>1
  <2> QED
    BY <1>2, <2>1
<1>4. p <= q
  BY <1>2, <1>3
<1> QED
  BY <1>4 DEF p, q

LEMMA QuotientMonotone ==
  ASSUME NEW x \in Int, NEW y \in Int, NEW n \in Nat \ {0}, x <= y
  PROVE  Quotient(x, n) <= Quotient(y, n)
<1>1. CASE 0 <= x
  BY <1>1, DivMonotone DEF Quotient
<1>2. CASE x < 0 /\ y < 0
  <2>1. (-y) \div n <= (-x) \div n
    BY <1>2, DivMonotone
  <2>2. (-y) \div n \in Int /\ (-x) \div n \in Int
    OBVIOUS
  <2> QED
    BY <1>2, <2>1, <2>2 DEF Quotient
<1>3. CASE x < 0 /\ 0 <= y
  <2>1. (-x) \div n \in Nat /\ y \div n \in Nat
    BY <1>3
  <2> QED
    BY <1>3, <2>1 DEF Quotient
<1> QED
  BY <1>1, <1>2, <1>3

LEMMA QuotientOdd ==
  ASSUME NEW x \in Int, NEW n \in Nat \ {0}
  PROVE  Quotient(-x, n) = -Quotient(x, n)
<1>1. Quotient(0, n) = 0
  <2>1. 0 \div n \in Nat /\ n * (0 \div n) <= 0
    OBVIOUS
  <2> DEFINE q == 0 \div n
  <2>2. q \in Nat /\ n * q <= 0
    BY <2>1
  <2> HIDE DEF q
  <2>3. q = 0
    BY <2>2
  <2>4. Quotient(0, n) = 0 \div n
    BY DEF Quotient
  <2> QED
    BY <2>3, <2>4 DEF q
<1>2. \A z \in Int : z \div n \in Int
  OBVIOUS
<1>3. CASE x = 0
  <2>1. -x = x
    <3>1. x <= 0 /\ 0 <= x
      BY <1>3
    <3>2. \A z \in Int : z <= 0 /\ 0 <= z => -z = z
      OBVIOUS
    <3> QED
      BY <3>1, <3>2
  <2>2. Quotient(x, n) = 0
    BY <1>1, <1>3
  <2> QED
    BY <2>1, <2>2
<1>4. CASE x # 0
  BY <1>2, <1>4 DEF Quotient
<1> QED
  BY <1>3, <1>4

\* The duties of an open loop whose targets do not add up to forward motion.
LEMMA OpenLoopSum ==
  ASSUME NEW ws \in [Sides -> Wheels], ws["left"].target + ws["right"].target <= 0
  PROVE  OpenLoopPwm(ws)["left"] + OpenLoopPwm(ws)["right"] <= 0
<1> DEFINE l == ws["left"].target
           r == ws["right"].target
           d(x) == Drive(Quotient(x * MotorMax, MaxSpeed))
<1>1. l \in Int /\ r \in Int
  BY DEF Sides, Wheels, Speeds
<1>2. OpenLoopPwm(ws)["left"] = d(l) /\ OpenLoopPwm(ws)["right"] = d(r)
  BY DEF OpenLoopPwm, Sides
<1> HIDE DEF l, r
<1>3. /\ l * MotorMax \in Int /\ r * MotorMax \in Int /\ -(l * MotorMax) \in Int
      /\ r * MotorMax <= -(l * MotorMax)
  <2>1. MotorMax \in Nat /\ l + r <= 0
    BY WheelAssumption DEF l, r
  <2>2. (l + r) * MotorMax <= 0
    BY <1>1, <2>1
  <2>3. (l + r) * MotorMax = l * MotorMax + r * MotorMax
    BY <1>1, <2>1
  <2>4. l * MotorMax \in Int /\ r * MotorMax \in Int
    BY <1>1, <2>1
  <2> QED
    BY <2>2, <2>3, <2>4
<1> DEFINE a == l * MotorMax
           b == r * MotorMax
<1>4. a \in Int /\ b \in Int /\ -a \in Int /\ b <= -a
  BY <1>3
<1> HIDE DEF a, b
<1>5. /\ Quotient(b, MaxSpeed) <= -Quotient(a, MaxSpeed)
      /\ Quotient(a, MaxSpeed) \in Int /\ Quotient(b, MaxSpeed) \in Int
  BY <1>4, QuotientMonotone, QuotientOdd, QuotientInt, WheelAssumption
<1>6. Drive(Quotient(b, MaxSpeed)) <= -Drive(Quotient(a, MaxSpeed))
  <2>1. -Quotient(a, MaxSpeed) \in Int
    BY <1>5
  <2> QED
    BY <1>5, <2>1, DriveMonotone, DriveOdd
<1>7. Drive(Quotient(a, MaxSpeed)) \in Int /\ Drive(Quotient(b, MaxSpeed)) \in Int
  BY <1>5, DriveSign, WheelAssumption DEF Duties
<1> QED
  BY <1>2, <1>6, <1>7 DEF a, b

\* The duties of sticks that do not point forward.
LEMMA ManualSum ==
  ASSUME NEW f \in Int, NEW t \in Int, f <= 0
  PROVE  ManualPwm(f, t)["left"] + ManualPwm(f, t)["right"] <= 0
<1> DEFINE forward == OutOfBand(f, ManualDeadband)
           turn    == OutOfBand(t, ManualDeadband)
           limit(y) == Clamp(y, -MotorMax, MotorMax)
           x == limit(IF turn > 0 THEN forward - turn ELSE forward + turn)
           inner == IF x * forward < 0 THEN 0 ELSE x
           mix == ManualMix(f, t)
<1>1. forward \in Int /\ turn \in Int /\ forward <= 0
  BY OutOfBandInt, MotionAssumption
<1>2. mix = [s \in Sides |->
         IF Abs(forward) < PivotThreshold
         THEN IF s = "left" THEN limit(turn) ELSE limit(-turn)
         ELSE IF (s = "right" /\ turn > 0) \/ (s = "left" /\ turn < 0)
              THEN inner ELSE limit(forward)]
  BY DEF ManualMix
<1>3. ManualPwm(f, t)["left"] = Drive(mix["left"]) /\ ManualPwm(f, t)["right"] = Drive(mix["right"])
  BY DEF ManualPwm, Sides
<1> HIDE DEF forward, turn
<1>4. \A y \in Int : limit(y) \in Int /\ limit(-y) = -limit(y) /\ (y <= 0 => limit(y) <= 0)
  BY WheelAssumption DEF Clamp
<1>5. x \in Int /\ inner \in Int
  <2>1. (IF turn > 0 THEN forward - turn ELSE forward + turn) \in Int
    BY <1>1
  <2>2. x \in Int
    BY <1>4, <2>1
  <2> HIDE DEF x
  <2> QED
    BY <2>2
<1>6. turn # 0 => inner <= 0
  <2>1. turn # 0 => (IF turn > 0 THEN forward - turn ELSE forward + turn) \in Int
                    /\ (IF turn > 0 THEN forward - turn ELSE forward + turn) <= 0
    BY <1>1
  <2>2. turn # 0 => x <= 0
    BY <1>4, <2>1
  <2> HIDE DEF x
  <2> QED
    BY <1>5, <2>2
<1> HIDE DEF limit, inner, mix
<1>7. CASE Abs(forward) < PivotThreshold
  <2>1. mix["left"] = limit(turn) /\ mix["right"] = -limit(turn) /\ limit(turn) \in Int
    BY <1>1, <1>2, <1>4, <1>7 DEF Sides
  <2>2. Drive(mix["right"]) = -Drive(mix["left"]) /\ Drive(mix["left"]) \in Int
    BY <2>1, DriveOdd, DriveSign, WheelAssumption DEF Duties
  <2> QED
    BY <1>3, <2>2
<1>8. CASE ~(Abs(forward) < PivotThreshold)
  <2>1. ASSUME NEW s \in Sides PROVE mix[s] \in Int /\ mix[s] <= 0
    <3>1. mix[s] = IF (s = "right" /\ turn > 0) \/ (s = "left" /\ turn < 0)
                   THEN inner ELSE limit(forward)
      BY <1>2, <1>8
    <3> QED
      BY <1>1, <1>4, <1>5, <1>6, <3>1
  <2>2. ASSUME NEW s \in Sides PROVE Drive(mix[s]) \in Int /\ Drive(mix[s]) <= 0
    BY <2>1, DriveSign, WheelAssumption DEF Duties
  <2> QED
    BY <1>3, <2>2 DEF Sides
<1> QED
  BY <1>7, <1>8

\* The targets of a host command that does not point forward.
LEMMA AutoSum ==
  ASSUME NEW f \in Int, NEW t \in Int, f <= 0
  PROVE  AutoMix(f, t)["left"] + AutoMix(f, t)["right"] <= 0
<1> DEFINE c       == Clamp(f, -MaxSpeed, MaxSpeed)
           forward == OutOfBand(c, AutoDeadband)
           turn    == Quotient(t * WheelTrack, 2000)
<1>1. c \in Int /\ c <= 0
  BY WheelAssumption DEF Clamp
<1> HIDE DEF c
<1>2. forward \in Int /\ forward <= 0
  BY <1>1, OutOfBandInt, MotionAssumption
<1>3. turn \in Int
  <2>1. t * WheelTrack \in Int
    BY MotionAssumption
  <2> QED
    BY <2>1, QuotientInt
<1>4. /\ AutoMix(f, t)["left"] = Clamp(forward - turn, -MaxSpeed, MaxSpeed)
      /\ AutoMix(f, t)["right"] = Clamp(forward + turn, -MaxSpeed, MaxSpeed)
  BY DEF AutoMix, Sides, c
<1> HIDE DEF forward, turn
<1> QED
  BY <1>2, <1>3, <1>4, WheelAssumption DEF Clamp

\* Moving two ramps towards targets that do not add up to forward motion does
\* not add forward motion.
LEMMA BackwardTargets ==
  ASSUME NEW l \in Int, NEW r \in Int, NEW tl \in Int, NEW tr \in Int, tl + tr <= 0
  PROVE  LET after == MoveTowards(l, tl, RampStep) + MoveTowards(r, tr, RampStep)
         IN  after <= 0 \/ after <= l + r
  BY WheelAssumption DEF MoveTowards, Clamp

\* In front of an obstacle no decision speeds the car up forward, whatever
\* sticks, host, controllers and modes were doing before.
THEOREM ObstacleHolds == MotionSpec => ObstacleNeverApproached
<1> DEFINE Holds ==
      IF mode' = "automatic" /\ closedLoop
      THEN \/ ForwardMotion(wheel') <= 0
           \/ ForwardMotion(wheel') <= ForwardMotion(wheel)
      ELSE pwm'["left"] + pwm'["right"] <= 0
<1>1. MotionTypeOK /\ [MotionNext]_motionVars => [Decide /\ near => Holds]_motionVars
  <2> SUFFICES ASSUME MotionTypeOK, Decide, near PROVE Holds
    OBVIOUS
  <2>1. CASE Stop /\ mode' = "stopped"
    BY <2>1 DEF Stop, Still, Sides
  <2>2. CASE DriveByPad
    <3>1. mode' = "manual" /\ pwm' = ManualPwm(Limited(pad.forward), pad.turn)
      BY <2>2 DEF DriveByPad, SetManualVelocity
    <3>2. Limited(pad.forward) \in Int /\ Limited(pad.forward) <= 0 /\ pad.turn \in Int
      BY LimitedInt DEF MotionTypeOK
    <3> QED
      BY <3>1, <3>2, ManualSum
  <2>3. CASE DriveByHost /\ host.enabled
    <3> DEFINE f  == Limited(host.forward)
               mix == AutoMix(f, host.turn)
               ws == Retargeted(wheel, mix)
    <3>1. f \in Int /\ f <= 0 /\ host.turn \in Int
      BY LimitedInt DEF MotionTypeOK
    <3>2. PICK measured \in [Sides -> Measurements] :
            IF closedLoop
            THEN wheel' = ClosedLoopWheel(ws, measured) /\ pwm' = ClosedLoopPwm(ws, measured)
            ELSE wheel' = ws /\ pwm' = OpenLoopPwm(ws)
      BY <2>3 DEF DriveByHost, SetAutoVelocity
    <3>3. mode' = "automatic"
      BY <2>3 DEF DriveByHost, SetAutoVelocity
    <3> HIDE DEF f
    <3>4. /\ \A s \in Sides : mix[s] \in Speeds /\ mix[s] \in Int
          /\ mix["left"] + mix["right"] <= 0
      BY <3>1, AutoMixInt, AutoSum DEF Speeds
    <3> HIDE DEF mix
    <3>5. /\ ws \in [Sides -> Wheels]
          /\ \A s \in Sides : ws[s].target = mix[s] /\ ws[s].ramped = wheel[s].ramped
      <4>1. wheel \in [Sides -> Wheels]
        BY DEF MotionTypeOK, TypeOK
      <4>2. \A s \in Sides : Clamp(mix[s], -MaxSpeed, MaxSpeed) = mix[s]
        BY <3>4, WheelAssumption DEF Clamp, Speeds
      <4> QED
        BY <3>4, <4>1, <4>2, RetargetedType
    <3> HIDE DEF ws
    <3>6. measured \in [Sides -> Int]
      BY WheelAssumption
    <3>7. CASE closedLoop
      <4>1. \A s \in Sides : wheel'[s].ramped = MoveTowards(wheel[s].ramped, mix[s], RampStep)
        BY <3>2, <3>5, <3>6, <3>7, CycleWheel
      <4>2. \A s \in Sides : wheel[s].ramped \in Int
        BY DEF MotionTypeOK, TypeOK, Wheels, Speeds
      <4>3. ForwardMotion(wheel') <= 0 \/ ForwardMotion(wheel') <= ForwardMotion(wheel)
        BY <3>4, <4>1, <4>2, BackwardTargets DEF ForwardMotion, Sides
      <4> QED
        BY <3>3, <3>7, <4>3
    <3>8. CASE ~closedLoop
      <4>1. pwm' = OpenLoopPwm(ws)
        BY <3>2, <3>8
      <4>2. ws["left"].target + ws["right"].target <= 0
        BY <3>4, <3>5 DEF Sides
      <4> QED
        BY <3>5, <3>8, <4>1, <4>2, OpenLoopSum
    <3> QED
      BY <3>7, <3>8
  <2> QED
    BY <2>1, <2>2, <2>3 DEF Decide, DriveByHost, DriveByNobody, ChassisStop
<1> QED
  BY <1>1, MotionTypeInit, MotionTypeStep, PTL DEF MotionSpec, ObstacleNeverApproached

-----------------------------------------------------------------------------
(* The modes and the wheel controller.                                      *)

\* Whoever drives, the controller holds what the automatic mode needs and
\* nothing of it survives a change of mode, a stop or a reset; a stopped car
\* has no duty (Chassis_SetManualVelocity, Chassis_Stop).
OneModeAtATime ==
  /\ mode # "automatic" => wheel = AllAtRest /\ ~enabled
  /\ mode = "stopped" => pwm = Still

\* New targets leave integral and boost alone or clear them.
LEMMA RetargetedClean ==
  ASSUME TypeOK, CleanHistory, NEW request, \A s \in Sides : request[s] \in Int
  PROVE  /\ \A s \in Sides : Retargeted(wheel, request)[s].ramped = 0
                               => Retargeted(wheel, request)[s].integral = 0
         /\ \A s \in Sides : Retargeted(wheel, request)[s].boost > 0
                               => CounterRotating(Retargeted(wheel, request))
<1>1. \A s \in Sides : /\ Retarget(wheel[s], request[s]).ramped = wheel[s].ramped
                       /\ Retarget(wheel[s], request[s]).integral \in {0, wheel[s].integral}
                       /\ Retarget(wheel[s], request[s]).boost \in {0, wheel[s].boost}
  BY RetargetType DEF TypeOK
<1>2. Retargeted(wheel, request) = [s \in Sides |-> Retarget(wheel[s], request[s])]
  BY DEF Retargeted
<1> QED
  BY <1>1, <1>2 DEF CleanHistory, StandingStartIsClean, BoostMeansPivot, CounterRotating, Sides

LEMMA AtRestClean == wheel' = AllAtRest => CleanHistory'
<1> SUFFICES ASSUME wheel' = AllAtRest PROVE CleanHistory'
  OBVIOUS
<1>1. \A s \in Sides : wheel'[s].integral = 0 /\ wheel'[s].boost = 0
  BY AtRestType
<1> QED
  BY <1>1 DEF CleanHistory, StandingStartIsClean, BoostMeansPivot

LEMMA SameWheelClean == CleanHistory /\ wheel' = wheel => CleanHistory'
BY DEF CleanHistory, StandingStartIsClean, BoostMeansPivot, CounterRotating

LEMMA AutoClean ==
  ASSUME TypeOK, CleanHistory, NEW f \in Int, NEW t \in Int, SetAutoVelocity(f, t)
  PROVE  CleanHistory'
<1> DEFINE ws == Retargeted(wheel, AutoMix(f, t))
<1>1. wheel \in [Sides -> Wheels] /\ \A s \in Sides : AutoMix(f, t)[s] \in Int
  BY AutoMixInt DEF TypeOK, Speeds
<1>2. ws \in [Sides -> Wheels]
  BY <1>1, RetargetedType
<1>3. /\ \A s \in Sides : ws[s].ramped = 0 => ws[s].integral = 0
      /\ \A s \in Sides : ws[s].boost > 0 => CounterRotating(ws)
  BY <1>1, RetargetedClean
<1>4. PICK measured \in [Sides -> Measurements] :
        IF closedLoop
        THEN wheel' = ClosedLoopWheel(ws, measured) /\ pwm' = ClosedLoopPwm(ws, measured)
        ELSE wheel' = ws /\ pwm' = OpenLoopPwm(ws)
  BY DEF SetAutoVelocity
<1> HIDE DEF ws
<1>5. measured \in [Sides -> Int]
  BY WheelAssumption
<1>6. CASE closedLoop
  BY <1>2, <1>4, <1>5, <1>6, CycleWheel DEF CleanHistory, StandingStartIsClean, BoostMeansPivot
<1>7. CASE ~closedLoop
  BY <1>3, <1>4, <1>7 DEF CleanHistory, StandingStartIsClean, BoostMeansPivot
<1> QED
  BY <1>6, <1>7

ModesInv == CleanHistory /\ OneModeAtATime

LEMMA ModesInit == MotionInit => ModesInv
<1> SUFFICES ASSUME MotionInit PROVE ModesInv
  OBVIOUS
<1>1. WheelInv
  BY WheelInitInv DEF MotionInit
<1> QED
  BY <1>1 DEF MotionInit, WheelInit, WheelInv, CleanHistory, ModesInv, OneModeAtATime

LEMMA ModesStep == MotionTypeOK /\ ModesInv /\ [MotionNext]_motionVars => ModesInv'
<1> SUFFICES ASSUME MotionTypeOK, ModesInv, [MotionNext]_motionVars PROVE ModesInv'
  OBVIOUS
<1>1. TypeOK /\ CleanHistory /\ OneModeAtATime
  BY DEF MotionTypeOK, ModesInv
<1>2. CASE UNCHANGED <<wheelVars, mode>>
  BY <1>1, <1>2, SameWheelClean DEF wheelVars, OneModeAtATime, ModesInv
<1>3. ASSUME NEW on \in BOOLEAN, SetClosedLoop(on), UNCHANGED mode PROVE ModesInv'
  BY <1>1, <1>3, SameWheelClean DEF SetClosedLoop, OneModeAtATime, ModesInv
<1>4. CASE ChassisStop
  BY <1>4, AtRestClean DEF ChassisStop, Stop, OneModeAtATime, ModesInv
<1>5. CASE Reset
  BY <1>5, AtRestClean DEF Reset, OneModeAtATime, ModesInv
<1>6. CASE DriveByPad
  <2>1. /\ wheel' = AllAtRest \/ (mode = "manual" /\ wheel' = wheel)
        /\ mode' = "manual" /\ (enabled' => mode = "manual" /\ enabled)
    BY <1>6 DEF DriveByPad, SetManualVelocity
  <2>2. wheel' = AllAtRest /\ ~enabled'
    BY <1>1, <2>1 DEF OneModeAtATime
  <2> QED
    BY <2>1, <2>2, AtRestClean DEF OneModeAtATime, ModesInv
<1>7. CASE DriveByHost
  <2>1. Limited(host.forward) \in Int /\ host.turn \in Int
    BY LimitedInt DEF MotionTypeOK
  <2>2. CASE SetAutoVelocity(Limited(host.forward), host.turn)
    <3>1. mode' = "automatic"
      BY <2>2 DEF SetAutoVelocity
    <3> QED
      BY <1>1, <2>1, <2>2, <3>1, AutoClean DEF OneModeAtATime, ModesInv
  <2> QED
    BY <1>4, <1>7, <2>2 DEF DriveByHost
<1>8. CASE DriveByNobody
  BY <1>4, <1>8 DEF DriveByNobody
<1> QED
  BY <1>2, <1>3, <1>4, <1>5, <1>6, <1>7, <1>8
  DEF MotionNext, motionVars, Tick, Sense, UsbStep, UsbReport, UsbForward, UsbActivity, UsbTick,
      UsbWrite, HandleControl, HandleParam, OtaEnter, ChassisStop, Cycle, Wake, InputDone, PadCheck,
      PadActive, PadRead, PadClock, PadCompare, Decide

\* What WheelHistory says of the controller by itself holds of it in the
\* car, where modes change, parameters are written and the MCU resets: no integral
\* at rest and no boost but in a pivot.
THEOREM HistoryStaysClean == MotionSpec => []CleanHistory
<1>1. ModesInv => CleanHistory
  BY DEF ModesInv
<1> QED
  BY <1>1, MotionTypeInit, MotionTypeStep, ModesInit, ModesStep, PTL DEF MotionSpec

\* A mode leaves nothing behind for the next one.
THEOREM ModesLeaveNothing == MotionSpec => []OneModeAtATime
<1>1. ModesInv => OneModeAtATime
  BY DEF ModesInv
<1> QED
  BY <1>1, MotionTypeInit, MotionTypeStep, ModesInit, ModesStep, PTL DEF MotionSpec

\* The promise of ApplyPi in the car: a decision for the host that runs the
\* closed loop drives no side against its ramp, not even when its target has been
\* changed in the same cycle.
HostNeverCounterDrives ==
  [][Decide /\ mode' = "automatic" /\ closedLoop =>
       \A s \in Sides : /\ pwm'[s] > 0 => wheel'[s].ramped > 0
                        /\ pwm'[s] < 0 => wheel'[s].ramped < 0]_motionVars

THEOREM HostFollowsRamp == MotionSpec => HostNeverCounterDrives
<1> DEFINE Follows == Decide /\ mode' = "automatic" /\ closedLoop =>
             \A s \in Sides : /\ pwm'[s] > 0 => wheel'[s].ramped > 0
                              /\ pwm'[s] < 0 => wheel'[s].ramped < 0
<1>1. MotionTypeOK /\ [MotionNext]_motionVars => [Follows]_motionVars
  <2> SUFFICES ASSUME MotionTypeOK, Decide, mode' = "automatic", closedLoop
               PROVE  \A s \in Sides : /\ pwm'[s] > 0 => wheel'[s].ramped > 0
                                       /\ pwm'[s] < 0 => wheel'[s].ramped < 0
    OBVIOUS
  <2>1. SetAutoVelocity(Limited(host.forward), host.turn)
    BY DEF Decide, DriveByPad, SetManualVelocity, DriveByHost, DriveByNobody, ChassisStop
  <2> DEFINE ws == Retargeted(wheel, AutoMix(Limited(host.forward), host.turn))
  <2>2. ws \in [Sides -> Wheels]
    <3>1. wheel \in [Sides -> Wheels] /\ Limited(host.forward) \in Int /\ host.turn \in Int
      BY LimitedInt DEF MotionTypeOK, TypeOK
    <3>2. \A s \in Sides : AutoMix(Limited(host.forward), host.turn)[s] \in Int
      BY <3>1, AutoMixInt DEF Speeds
    <3> QED
      BY <3>1, <3>2, RetargetedType
  <2>3. PICK measured \in [Sides -> Measurements] :
          wheel' = ClosedLoopWheel(ws, measured) /\ pwm' = ClosedLoopPwm(ws, measured)
    BY <2>1 DEF SetAutoVelocity
  <2> HIDE DEF ws
  <2>4. measured \in [Sides -> Int]
    BY WheelAssumption
  <2> QED
    BY <2>2, <2>3, <2>4, CyclePwm
<1> QED
  BY <1>1, MotionTypeCorrect, PTL DEF MotionSpec, HostNeverCounterDrives

=============================================================================
