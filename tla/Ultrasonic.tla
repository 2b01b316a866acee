----------------------------- MODULE Ultrasonic -----------------------------
(***************************************************************************)
(* small_car_f407 Sensors/Src/ultrasonic.c: TaskStep triggers the sensor   *)
(* and gives up on echoes, an interrupt on both edges of the echo measures *)
(* it.  Microseconds come from the cycle counter divided by its frequency, *)
(* so they wrap long before 2^32: a difference across the wrap is huge.    *)
(*                                                                         *)
(* Time is counted in units of 10 ms.  Edges come between two ticks, at    *)
(* any point of TaskStep.                                                  *)
(***************************************************************************)
EXTENDS Naturals

CONSTANTS
  Wrap,        \* 2^32 / g_cycles_per_us
  Period,      \* ULTRASONIC_TRIGGER_PERIOD_MS
  Timeout,     \* ULTRASONIC_ECHO_TIMEOUT_US
  Cycle, Late, \* TaskStep comes Cycle to Cycle + Late after the last one
  Prompt, Slow,\* how long a prompt and a slow sensor take to raise the echo
  NearWidth, FarWidth  \* echoes of a near and of a far object

ASSUME UltrasonicAssumption ==
  /\ {Wrap, Period, Timeout, Cycle, NearWidth, FarWidth} \subseteq Nat \ {0}
  /\ {Late, Prompt, Slow} \subseteq Nat
  /\ NearWidth < FarWidth /\ FarWidth <= Timeout /\ Prompt < Cycle
  /\ Timeout < Period /\ Period + 2 * (Cycle + Late) < Wrap

VARIABLES
  now,         \* GetMicros()
  sinceStep, sinceTrigger, sinceWrap,   \* time passed since then
  object,      \* what is in front of the car
  moved,       \* it has changed since the measurement under way was triggered
  nearFor,     \* time since a near object came, or since a trigger was ignored
  delay,       \* what the sensor takes at most to raise the echo
  asked, high, \* the sensor owes an echo; time the echo has been high, or Low
  waiting, capturing, valid, rise, distance,  \* g_echo_waiting .. g_distance_mm
  pc, raced,   \* TaskStep inside its timeout check; an edge came within it
  age, truth   \* history: age and true width of the last accepted echo

Low       == Wrap + 3
clocks    == <<now, sinceStep, sinceTrigger, sinceWrap>>
world     == <<object, moved, nearFor, delay>>
state     == <<waiting, capturing, valid, rise, distance>>
sample    == <<age, truth>>
ultraVars == <<clocks, world, asked, high, state, pc, raced, sample>>

Objects   == {"near", "far", "none"}
Horizon   == Period + Cycle + Late + Prompt + NearWidth
MaxAge    == Horizon + Cycle + Late + Timeout + Slow + 1
UpTo(n)   == IF n < Horizon THEN n + 1 ELSE n

Init ==
  /\ now = 0 /\ sinceStep = 0 /\ sinceTrigger = 0 /\ sinceWrap = Horizon
  /\ object \in Objects /\ moved = FALSE /\ nearFor = 0 /\ delay \in {Prompt, Slow}
  /\ asked = FALSE /\ high = Low
  /\ waiting = FALSE /\ capturing = FALSE /\ valid = FALSE
  /\ rise = 0 /\ distance = 0
  /\ pc = "idle" /\ raced = FALSE
  /\ age = 0 /\ truth = 0

-----------------------------------------------------------------------------
\* Slips a revision could make; no action uses them.
ElapsedSigned(t)  == IF now >= t THEN now - t ELSE 0
ExpiredInTheAir   == {capturing /\ now - rise > Timeout}
NeverExpired      == {FALSE}
-----------------------------------------------------------------------------
(* Time and the world.                                                     *)

Huge == Wrap + Timeout
Elapsed(t) == IF now >= t THEN now - t ELSE Huge

\* An echo of an object ends when its width is reached; without an object it ends
\* late or never.  If the object changes under way, no echo may come, or one of any
\* width, and it may never end.
MayFall == IF moved THEN high >= NearWidth
           ELSE CASE object = "near" -> high >= NearWidth
                  [] object = "far"  -> high >= FarWidth
                  [] object = "none" -> high > Timeout
Answers == object # "none" /\ ~moved
RiseDue == Answers /\ asked /\ high = Low /\ sinceTrigger = delay
FallDue == Answers /\ high # Low /\ MayFall
Overdue == sinceStep = Cycle + Late \/ pc # "idle" \/ RiseDue \/ FallDue

Tick ==
  /\ ~Overdue
  /\ now' = (now + 1) % Wrap
  /\ sinceStep' = sinceStep + 1
  /\ sinceTrigger' = UpTo(sinceTrigger)
  /\ sinceWrap' = IF now' = 0 THEN 0 ELSE UpTo(sinceWrap)
  /\ nearFor' = IF object = "near" THEN UpTo(nearFor) ELSE 0
  /\ high' = IF high < Low - 1 THEN high + 1 ELSE high
  /\ age' = (IF ~valid THEN 0 ELSE IF age < MaxAge THEN age + 1 ELSE age)
  /\ truth' = (IF valid THEN truth ELSE 0)
  /\ UNCHANGED <<object, moved, delay, asked, state, pc, raced>>

\* Objects come and go at any time, also while an echo is awaited or high.
ObjectMoves ==
  /\ object' \in Objects \ {object} /\ nearFor' = 0
  /\ moved' = (asked \/ high # Low)
  /\ UNCHANGED <<clocks, delay, asked, high, state, pc, raced, sample>>

-----------------------------------------------------------------------------
(* Ultrasonic_OnEchoEdge.                                                  *)

EchoRises ==
  /\ asked /\ high = Low /\ sinceTrigger <= delay
  /\ asked' = FALSE /\ high' = 0
  /\ rise' = now /\ capturing' = TRUE /\ waiting' = TRUE
  /\ raced' = (pc # "idle")
  /\ UNCHANGED <<clocks, world, valid, distance, pc, sample>>

EchoFalls ==
  /\ high # Low /\ MayFall
  /\ high' = Low /\ moved' = FALSE
  /\ IF ~capturing
     THEN UNCHANGED <<state, sample>>
     ELSE /\ capturing' = FALSE /\ waiting' = FALSE
          /\ valid' = (Elapsed(rise) <= Timeout)
          /\ IF valid' THEN distance' = Elapsed(rise) /\ age' = 0 /\ truth' = high
                       ELSE UNCHANGED <<distance, sample>>
          /\ UNCHANGED rise
  /\ UNCHANGED <<clocks, object, nearFor, delay, asked, pc, raced>>

-----------------------------------------------------------------------------
(* Ultrasonic_TaskStep.                                                    *)

StepBegins ==
  /\ pc = "idle" /\ sinceStep >= Cycle
  /\ pc' = (IF waiting THEN "check" ELSE "trigger")
  /\ raced' = FALSE
  /\ UNCHANGED <<clocks, world, asked, high, state, sample>>

\* Whether the wait is over.  When the rising edge comes within the check the task
\* compares old and new times, or clears one flag before the edge and one after it.
Expiry == IF pc = "trigger" THEN {FALSE}
          ELSE IF raced THEN BOOLEAN ELSE {Elapsed(rise) > Timeout}

\* The next measurement; a sensor whose echo is still high ignores it.
Triggers(w, c) ==
  IF ~w /\ sinceTrigger >= Period
  THEN /\ waiting' = TRUE /\ capturing' = FALSE /\ sinceTrigger' = 0
       /\ asked' = (high = Low) /\ moved' = (moved /\ high # Low)
       /\ nearFor' = IF high = Low THEN nearFor ELSE 0
  ELSE waiting' = w /\ capturing' = c /\ UNCHANGED <<asked, sinceTrigger, moved, nearFor>>

StepEnds ==
  /\ pc # "idle"
  /\ \E expired \in Expiry, waits \in {raced, FALSE} :
       /\ valid' = (valid /\ ~expired)
       /\ Triggers(waiting /\ (waits \/ ~expired), capturing /\ ~expired)
  /\ sinceStep' = 0 /\ pc' = "idle" /\ raced' = FALSE
  /\ UNCHANGED <<now, sinceWrap, object, delay, high, rise, distance, sample>>

-----------------------------------------------------------------------------
Next == Tick \/ ObjectMoves \/ EchoRises \/ EchoFalls \/ StepBegins \/ StepEnds
Spec == Init /\ [][Next]_ultraVars
\* Time passes, edges that are due come, the task runs.
FairSpec == /\ Spec /\ WF_ultraVars(Tick)
            /\ WF_ultraVars((RiseDue \/ FallDue) /\ (EchoRises \/ EchoFalls))
            /\ WF_ultraVars(StepBegins \/ StepEnds)

IsObstacleNear == valid /\ distance < FarWidth

-----------------------------------------------------------------------------
(* Properties.                                                             *)

TypeOK ==
  /\ now \in 0..Wrap - 1 /\ rise \in 0..Wrap - 1
  /\ sinceStep \in 0..Cycle + Late /\ high \in 0..Low
  /\ pc \in {"idle", "check", "trigger"}
  /\ {waiting, capturing, valid, asked, raced, moved} \subseteq BOOLEAN
  /\ distance \in 0..Timeout

\* A valid sample is the width of one echo that did come, within the limit: no stuck
\* or late echo passes for a short one, although the counter wraps under way.
SampleIsTrue == valid => distance = truth /\ truth <= Timeout

\* A sensor that falls silent or gets stuck does not leave its last sample behind for
\* longer than two steps and one echo beyond the period.
SampleIsFresh == valid => age <= Period + 2 * (Cycle + Late) + Timeout + delay - 2

\* With a prompt sensor an object in front of the car is reported near within a period
\* and a measurement of its coming, or of the last trigger that was ignored because an
\* echo was still high, and as long as it stays.  Two things hide it for longer: a wrap
\* of the counter within that time, and an echo that the object did not end, which
\* TaskStep neither waits for nor captures any more but the sensor still holds.
NearIsSeen ==
  nearFor = Horizon /\ sinceWrap = Horizon /\ delay = Prompt => IsObstacleNear

\* Measurements go on, whatever the sensor does.
KeepsMeasuring == []<>(sinceTrigger = 0)

=============================================================================
