--------------------------- MODULE UltrasonicProofs ---------------------------
(* Theorems about Ultrasonic, for every value of the periods, the limits    *)
(* and the wrap of the counter.                                             *)
EXTENDS Ultrasonic, TLAPS

LEMMA Limits ==
  /\ Wrap \in Nat /\ Period \in Nat /\ Timeout \in Nat /\ Cycle \in Nat /\ Late \in Nat
  /\ Wrap > 0 /\ Cycle > 0 /\ NearWidth \in Nat /\ NearWidth > 0 /\ FarWidth \in Nat
  /\ NearWidth < FarWidth /\ FarWidth <= Timeout /\ Timeout < Period
  /\ Period + 2 * (Cycle + Late) < Wrap
  /\ Prompt \in Nat /\ Slow \in Nat /\ Prompt < Cycle
BY UltrasonicAssumption

(* The counter one unit later.                                              *)
LEMMA NextMicros ==
  ASSUME NEW n \in 0..Wrap - 1
  PROVE  (n + 1) % Wrap = IF n + 1 = Wrap THEN 0 ELSE n + 1
BY Limits

-----------------------------------------------------------------------------
(* While an echo is captured, the time since its rising edge is the width   *)
(* it has so far, up to one wrap of the counter, and TaskStep gives up on   *)
(* it before a second wrap.  A step that an edge came into captures it.     *)
Reaches(start, width, end) == end = start + width \/ end + Wrap = start + width

Counts == /\ sinceTrigger \in 0..Horizon /\ age \in Nat /\ truth \in Nat
          /\ object \in Objects /\ delay \in {Prompt, Slow}

Capture ==
  capturing =>
    /\ waiting /\ ~asked /\ high # Low /\ Reaches(rise, high, now)
    /\ high <= Timeout + sinceStep /\ high <= sinceTrigger
    /\ pc = "trigger" => raced

Race == raced => capturing /\ high = 0 /\ pc # "idle"

EchoInv == TypeOK /\ Counts /\ Capture /\ Race /\ SampleIsTrue

(* How old a sample is: after it was taken, after the next trigger, and     *)
(* while the next echo is captured.                                         *)
Reserve == Period + Cycle + Late

Resting ==
  /\ ~asked
  /\ \/ age + truth <= sinceTrigger /\ sinceTrigger < Period + sinceStep
     \/ age <= sinceStep /\ (age + truth <= sinceTrigger \/ sinceTrigger >= Period)

Asking ==
  /\ pc # "trigger"
  /\ age + 2 <= Reserve + sinceStep /\ age + 2 <= Reserve + sinceTrigger
  /\ age + truth + 1 <= Reserve + sinceStep

Fresh ==
  valid =>
    /\ truth > 0
    /\ ~capturing => Reaches(rise, age + truth, now)
    /\ ~waiting => Resting
    /\ waiting /\ ~capturing => Asking
    /\ capturing => age + 2 <= Reserve + delay + high

FreshInv == EchoInv /\ Fresh

-----------------------------------------------------------------------------
(* What the invariant says of the numbers, for the solver.                  *)
LEMMA Numbers ==
  ASSUME EchoInv
  PROVE  /\ now \in Nat /\ now < Wrap /\ rise \in Nat /\ rise < Wrap
         /\ sinceStep \in Nat /\ sinceStep <= Cycle + Late
         /\ high \in Nat /\ high <= Low /\ Low = Wrap + 3 /\ Low \in Nat
         /\ sinceTrigger \in Nat /\ sinceTrigger <= Horizon
         /\ Horizon \in Nat /\ Horizon > Period + Cycle + Late
         /\ UpTo(sinceTrigger) = IF sinceTrigger < Horizon THEN sinceTrigger + 1 ELSE sinceTrigger
         /\ age \in Nat /\ truth \in Nat /\ distance \in Nat /\ delay \in Nat
BY Limits DEF EchoInv, TypeOK, Counts, Low, Horizon, UpTo

LEMMA Flags ==
  ASSUME EchoInv
  PROVE  /\ waiting \in BOOLEAN /\ capturing \in BOOLEAN /\ valid \in BOOLEAN
         /\ asked \in BOOLEAN /\ raced \in BOOLEAN /\ moved \in BOOLEAN /\ pc \in {"idle", "check", "trigger"}
BY DEF EchoInv, TypeOK

LEMMA FreshInit == Init => FreshInv
<1> SUFFICES ASSUME Init PROVE FreshInv
  OBVIOUS
<1>1. TypeOK
  <2>1. 0 \in 0..Wrap - 1 /\ 0 \in 0..Cycle + Late /\ 0 \in 0..Timeout /\ Low \in 0..Low
    BY Limits DEF Low
  <2>2. QED
    BY <2>1 DEF Init, TypeOK
<1>2. Counts
  BY Limits DEF Init, Counts, Horizon
<1>3. Capture /\ Race /\ SampleIsTrue /\ Fresh
  BY DEF Init, Capture, Race, SampleIsTrue, Fresh
<1>4. QED
  BY <1>1, <1>2, <1>3 DEF FreshInv, EchoInv

LEMMA NowTick ==
  ASSUME EchoInv, Tick
  PROVE  now' = IF now + 1 = Wrap THEN 0 ELSE now + 1
BY NextMicros DEF EchoInv, TypeOK, Tick

LEMMA SinceTick ==
  ASSUME EchoInv, Tick, NEW n \in Nat, Reaches(rise, n, now), n + 1 < Wrap
  PROVE  Reaches(rise', n + 1, now')
<1>1. now' = IF now + 1 = Wrap THEN 0 ELSE now + 1
  BY NowTick
<1>2. rise' = rise
  BY DEF Tick, state
<1>3. QED
  BY <1>1, <1>2, Numbers, Limits DEF Reaches

LEMMA TickEcho == EchoInv /\ Tick => EchoInv'
<1> SUFFICES ASSUME EchoInv, Tick PROVE EchoInv'
  OBVIOUS
<1>1. TypeOK'
  BY Numbers, NowTick, Limits DEF EchoInv, TypeOK, Tick, Overdue, state, Low
<1>2. Counts'
  BY Numbers, Limits DEF EchoInv, Counts, Tick, UpTo, Horizon
<1>3. Capture'
  <2> SUFFICES ASSUME capturing PROVE Capture'
    BY DEF Tick, Capture, state
  <2>1. high < Low - 1 /\ high + 1 < Wrap /\ high' = high + 1
    BY Numbers, Limits DEF EchoInv, Capture, Tick, Low
  <2>2. Reaches(rise', high + 1, now')
    <3>1. high \in Nat /\ Reaches(rise, high, now)
      BY Numbers DEF EchoInv, Capture
    <3>2. QED
      BY <2>1, <3>1, SinceTick
  <2>3. sinceStep' = sinceStep + 1 /\ sinceTrigger' = UpTo(sinceTrigger)
    BY DEF Tick
  <2>4. high' <= Timeout + sinceStep' /\ high' <= sinceTrigger'
    <3>1. high <= Timeout + sinceStep /\ high <= sinceTrigger
      BY DEF EchoInv, Capture
    <3>2. QED
      BY <2>1, <2>3, <3>1, Numbers, Limits
  <2>5. pc = "idle"
    BY DEF Tick, Overdue
  <2>6. QED
    <3>1. waiting' /\ ~asked' /\ pc' = "idle"
      BY <2>5 DEF EchoInv, Capture, Tick, state
    <3>2. high' # Low /\ Reaches(rise', high', now')
      BY <2>1, <2>2, Numbers DEF Reaches
    <3>3. QED
      BY <2>4, <3>1, <3>2 DEF Capture
<1>4. Race'
  BY DEF EchoInv, Race, Tick, Overdue
<1>5. SampleIsTrue'
  BY DEF EchoInv, SampleIsTrue, Tick, state
<1>6. QED
  BY <1>1, <1>2, <1>3, <1>4, <1>5 DEF EchoInv

LEMMA MovesEcho == EchoInv /\ ObjectMoves => EchoInv'
BY DEF EchoInv, TypeOK, Counts, Capture, Reaches, Race, SampleIsTrue, ObjectMoves, clocks, state, sample

LEMMA RisesEcho == EchoInv /\ EchoRises => EchoInv'
<1> SUFFICES ASSUME EchoInv, EchoRises PROVE EchoInv'
  OBVIOUS
<1>1. TypeOK'
  <2>1. (pc # "idle") \in BOOLEAN /\ 0 \in 0..Low
    BY Numbers
  <2>2. raced' \in BOOLEAN /\ high' \in 0..Low /\ rise' \in 0..Wrap - 1
    BY <2>1 DEF EchoRises, EchoInv, TypeOK
  <2>3. capturing' \in BOOLEAN /\ waiting' \in BOOLEAN /\ asked' \in BOOLEAN /\ moved' \in BOOLEAN
    BY Flags DEF EchoRises, world
  <2>4. QED
    BY <2>2, <2>3 DEF EchoInv, TypeOK, EchoRises, clocks
<1>2. Counts' /\ SampleIsTrue'
  BY DEF EchoInv, Counts, SampleIsTrue, EchoRises, clocks, world, sample
<1>3. 0 <= Timeout + sinceStep /\ 0 <= sinceTrigger /\ 0 # Low /\ Reaches(now, 0, now)
  BY Numbers, Limits DEF Reaches
<1>4. high' = 0 /\ rise' = now /\ now' = now /\ sinceStep' = sinceStep /\ sinceTrigger' = sinceTrigger
  BY DEF EchoRises, clocks
<1>5. capturing' /\ waiting' /\ ~asked' /\ pc' = pc /\ raced' = (pc # "idle")
  BY DEF EchoRises
<1>6. Capture' /\ Race'
  BY <1>3, <1>4, <1>5 DEF Capture, Race
<1>7. QED
  BY <1>1, <1>2, <1>6 DEF EchoInv

(* A falling edge accepts the true width or nothing.                        *)
LEMMA Accepts ==
  ASSUME EchoInv, capturing
  PROVE  Elapsed(rise) <= Timeout => Elapsed(rise) = high
<1>1. Reaches(rise, high, now) /\ high <= Timeout + sinceStep
  BY DEF EchoInv, Capture
<1>2. high < Wrap
  BY <1>1, Numbers, Limits
<1>3. QED
  BY <1>1, <1>2, Numbers, Limits DEF Elapsed, Huge, Reaches

LEMMA Falls ==
  ASSUME EchoInv, EchoFalls
  PROVE  high > 0 /\ ~raced
<1>1. high > 0
  <2>1. object \in {"near", "far", "none"} /\ MayFall
    BY DEF EchoInv, Counts, Objects, EchoFalls
  <2>2. CASE moved \/ object = "near"
    <3>1. high >= NearWidth
      BY <2>1, <2>2 DEF MayFall
    <3>2. QED
      BY <3>1, Numbers, Limits
  <2>3. CASE ~moved /\ object = "far"
    <3>1. high >= FarWidth
      BY <2>1, <2>3 DEF MayFall
    <3>2. QED
      BY <3>1, Numbers, Limits
  <2>4. CASE ~moved /\ object = "none"
    <3>1. high > Timeout
      BY <2>1, <2>4 DEF MayFall
    <3>2. QED
      BY <3>1, Numbers, Limits
  <2>5. QED
    BY <2>1, <2>2, <2>3, <2>4
<1>2. QED
  BY <1>1, Numbers DEF EchoInv, Race

LEMMA FallsEcho == EchoInv /\ EchoFalls => EchoInv'
<1> SUFFICES ASSUME EchoInv, EchoFalls PROVE EchoInv'
  OBVIOUS
<1>1. CASE ~capturing
  <2>1. /\ UNCHANGED <<clocks, state, sample, object, delay, asked, pc, raced>>
        /\ high' = Low /\ moved' = FALSE
    BY <1>1 DEF EchoFalls
  <2>2. TypeOK'
    <3>1. Low \in 0..Low /\ FALSE \in BOOLEAN
      BY Numbers
    <3>2. QED
      BY <2>1, <3>1 DEF EchoInv, TypeOK, clocks, state
  <2>3. Counts' /\ SampleIsTrue'
    BY <2>1 DEF EchoInv, Counts, SampleIsTrue, clocks, state, sample
  <2>4. Capture' /\ Race'
    BY <1>1, <2>1, Falls DEF Capture, Race, clocks, state
  <2>5. QED
    BY <2>2, <2>3, <2>4 DEF EchoInv
<1>2. CASE capturing
  <2>1. /\ capturing' = FALSE /\ waiting' = FALSE /\ valid' = (Elapsed(rise) <= Timeout) /\ rise' = rise
        /\ high' = Low /\ pc' = pc /\ raced' = raced /\ asked' = asked /\ moved' = FALSE
        /\ now' = now /\ sinceStep' = sinceStep /\ sinceTrigger' = sinceTrigger /\ delay' = delay /\ object' = object
    BY <1>2 DEF EchoFalls, clocks, world
  <2>2. CASE Elapsed(rise) <= Timeout
    <3>1. distance' = high /\ truth' = high /\ age' = 0 /\ high <= Timeout
      BY <1>2, <2>1, <2>2, Accepts DEF EchoFalls
    <3>2. valid' = TRUE
      BY <2>1, <2>2, Zenon
    <3>3. TypeOK'
      <4>1. Low \in 0..Low /\ high \in 0..Low
        BY Numbers
      <4>2. {waiting', capturing', valid', asked', raced', moved'} \subseteq BOOLEAN
        <5>1. waiting' \in BOOLEAN /\ capturing' \in BOOLEAN /\ valid' \in BOOLEAN
          <6>1. waiting' \in BOOLEAN /\ capturing' \in BOOLEAN
            BY <2>1
          <6>2. QED
            BY <3>2, <6>1
        <5>2. asked' \in BOOLEAN /\ raced' \in BOOLEAN /\ moved' \in BOOLEAN
          BY <2>1, Flags
        <5>3. QED
          BY <5>1, <5>2
      <4>3. distance' \in 0..Timeout
        BY <3>1, Numbers, Limits DEF EchoInv, TypeOK
      <4>4. QED
        BY <2>1, <4>1, <4>2, <4>3 DEF EchoInv, TypeOK
    <3>4. Counts' /\ SampleIsTrue'
      BY <2>1, <3>1, <3>2, Numbers DEF EchoInv, Counts, SampleIsTrue
    <3>5. Capture' /\ Race'
      BY <2>1, Falls DEF Capture, Race
    <3>6. QED
      BY <3>3, <3>4, <3>5 DEF EchoInv
  <2>3. CASE ~(Elapsed(rise) <= Timeout)
    <3>1. distance' = distance /\ truth' = truth /\ age' = age
      BY <1>2, <2>1, <2>3 DEF EchoFalls, sample
    <3>2. valid' \in BOOLEAN /\ ~valid'
      <4>1. (Elapsed(rise) <= Timeout) \in BOOLEAN
        OBVIOUS
      <4>2. QED
        BY <4>1, <2>1, <2>3, Zenon
    <3>3. TypeOK'
      <4>1. Low \in 0..Low /\ high \in 0..Low
        BY Numbers
      <4>2. {waiting', capturing', valid', asked', raced', moved'} \subseteq BOOLEAN
        <5>1. waiting' \in BOOLEAN /\ capturing' \in BOOLEAN /\ valid' \in BOOLEAN
          <6>1. waiting' \in BOOLEAN /\ capturing' \in BOOLEAN
            BY <2>1
          <6>2. QED
            BY <3>2, <6>1
        <5>2. asked' \in BOOLEAN /\ raced' \in BOOLEAN /\ moved' \in BOOLEAN
          BY <2>1, Flags
        <5>3. QED
          BY <5>1, <5>2
      <4>3. distance' \in 0..Timeout
        BY <3>1, Numbers, Limits DEF EchoInv, TypeOK
      <4>4. QED
        BY <2>1, <4>1, <4>2, <4>3 DEF EchoInv, TypeOK
    <3>4. Counts' /\ SampleIsTrue'
      BY <2>1, <3>1, <3>2, Numbers DEF EchoInv, Counts, SampleIsTrue
    <3>5. Capture' /\ Race'
      BY <2>1, Falls DEF Capture, Race
    <3>6. QED
      BY <3>3, <3>4, <3>5 DEF EchoInv
  <2>4. QED
    BY <2>2, <2>3
<1>3. QED
  BY <1>1, <1>2

LEMMA BeginsEcho == EchoInv /\ StepBegins => EchoInv'
<1> SUFFICES ASSUME EchoInv, StepBegins PROVE EchoInv'
  OBVIOUS
<1>1. Capture'
  BY DEF EchoInv, Capture, Reaches, StepBegins, clocks, state
<1>2. QED
  BY <1>1 DEF EchoInv, TypeOK, Counts, Race, SampleIsTrue, StepBegins, clocks, world, state, sample

LEMMA Expires ==
  ASSUME NEW expired \in Expiry
  PROVE  /\ expired \in BOOLEAN
         /\ pc # "trigger" /\ ~raced => expired = (Elapsed(rise) > Timeout)
<1>1. (Elapsed(rise) > Timeout) \in BOOLEAN /\ FALSE \in BOOLEAN
  OBVIOUS
<1>2. CASE pc = "trigger"
  BY <1>1, <1>2 DEF Expiry
<1>3. CASE pc # "trigger" /\ raced
  BY <1>3 DEF Expiry
<1>4. CASE pc # "trigger" /\ ~raced
  <2>1. expired = (Elapsed(rise) > Timeout)
    BY <1>4 DEF Expiry
  <2>2. QED
    BY <1>1, <2>1, Zenon
<1>5. QED
  BY <1>2, <1>3, <1>4

LEMMA ElapsedType == EchoInv => Elapsed(rise) \in Nat
BY Numbers, Limits DEF Elapsed, Huge

(* What the end of a step leaves of the wait, of the capture and of the     *)
(* sample.                                                                  *)
LEMMA Ends ==
  ASSUME EchoInv, StepEnds
  PROVE  /\ now' = now /\ rise' = rise /\ high' = high /\ distance' = distance
         /\ age' = age /\ truth' = truth /\ delay' = delay
         /\ sinceStep' = 0 /\ pc' = "idle" /\ ~raced'
         /\ valid' \in BOOLEAN /\ waiting' \in BOOLEAN /\ capturing' \in BOOLEAN /\ asked' \in BOOLEAN
         /\ valid' => valid
         /\ \/ sinceTrigger' = sinceTrigger /\ asked' = asked
            \/ sinceTrigger' = 0 /\ sinceTrigger >= Period /\ waiting' /\ ~capturing'
         /\ capturing' => capturing /\ waiting' /\ sinceTrigger' = sinceTrigger /\ asked' = asked
         /\ capturing' /\ ~raced => Elapsed(rise) <= Timeout
         /\ valid' /\ capturing => capturing'
         /\ valid' /\ waiting => waiting' /\ sinceTrigger' = sinceTrigger /\ asked' = asked
         /\ valid' /\ waiting /\ ~raced /\ pc # "trigger" => Elapsed(rise) <= Timeout
         /\ ~waiting => IF sinceTrigger >= Period THEN waiting' /\ sinceTrigger' = 0
                        ELSE ~waiting' /\ sinceTrigger' = sinceTrigger /\ asked' = asked
<1>1. PICK expired \in Expiry, waits \in {raced, FALSE} :
        /\ valid' = (valid /\ ~expired)
        /\ Triggers(waiting /\ (waits \/ ~expired), capturing /\ ~expired)
  BY DEF StepEnds
<1>2. expired \in BOOLEAN /\ waits \in BOOLEAN
  BY <1>1, Expires, Flags
<1>3. capturing => waiting
  BY DEF EchoInv, Capture
<1>4. pc # "trigger" /\ ~raced /\ ~expired => Elapsed(rise) <= Timeout
  <2>1. SUFFICES ASSUME pc # "trigger", ~raced, ~expired PROVE Elapsed(rise) <= Timeout
    OBVIOUS
  <2>2. expired = (Elapsed(rise) > Timeout)
    BY <1>1, <2>1, Expires
  <2>3. ~(Elapsed(rise) > Timeout)
    BY <2>1, <2>2, Zenon
  <2>4. QED
    BY <2>3, ElapsedType, Limits
<1>5. capturing /\ ~raced => pc # "trigger"
  BY DEF EchoInv, Capture
<1>6. QED
  BY <1>1, <1>2, <1>3, <1>4, <1>5 DEF Triggers, StepEnds, EchoInv, TypeOK, world, sample

(* A trigger that is ignored restarts the time a near object is given.      *)
LEMMA Reports ==
  ASSUME EchoInv, StepEnds
  PROVE  /\ object' = object /\ sinceWrap' = sinceWrap
         /\ \/ UNCHANGED <<moved, nearFor, sinceTrigger>>
            \/ sinceTrigger' = 0 /\ high = Low /\ ~moved' /\ nearFor' = nearFor
            \/ sinceTrigger' = 0 /\ high # Low /\ (moved' <=> moved) /\ nearFor' = 0
         /\ moved' \in BOOLEAN
<1>1. PICK w, c : Triggers(w, c)
  BY DEF StepEnds
<1>2. moved' = moved \/ moved' = (moved /\ high # Low)
  BY <1>1 DEF Triggers
<1>3. moved' \in BOOLEAN
  BY <1>2, Flags
<1>4. QED
  BY <1>1, <1>3, Flags DEF Triggers, StepEnds

LEMMA EndsEcho == EchoInv /\ StepEnds => EchoInv'
<1> SUFFICES ASSUME EchoInv, StepEnds PROVE EchoInv'
  OBVIOUS
<1>1. TypeOK'
  <2>1. 0 \in 0..Cycle + Late
    BY Limits
  <2>2. raced' \in BOOLEAN /\ moved' \in BOOLEAN
    BY Flags, Reports DEF StepEnds
  <2>3. {waiting', capturing', valid', asked', raced', moved'} \subseteq BOOLEAN
    BY <2>2, Ends
  <2>4. QED
    BY <2>1, <2>3, Ends DEF EchoInv, TypeOK
<1>2. Counts' /\ SampleIsTrue'
  <2>1. sinceTrigger' \in 0..Horizon
    BY Ends, Numbers
  <2>2. object' = object
    BY DEF StepEnds
  <2>3. QED
    BY <2>1, <2>2, Ends DEF EchoInv, Counts, SampleIsTrue
<1>3. Capture' /\ Race'
  <2> SUFFICES ASSUME capturing' PROVE Capture'
    BY Ends DEF Capture, Race
  <2>1. capturing /\ waiting' /\ sinceTrigger' = sinceTrigger /\ asked' = asked
    BY Ends
  <2>2. high <= Timeout
    <3>1. CASE raced
      BY <3>1, Limits DEF EchoInv, Race
    <3>2. CASE ~raced
      BY <2>1, <3>2, Ends, Accepts, Numbers, ElapsedType
    <3>3. QED
      BY <3>1, <3>2
  <2>3. high' <= Timeout + sinceStep'
    BY <2>2, Ends, Numbers, Limits
  <2>4. QED
    BY <2>1, <2>3, Ends DEF EchoInv, Capture
<1>4. QED
  BY <1>1, <1>2, <1>3 DEF EchoInv

LEMMA EchoStep == EchoInv /\ [Next]_ultraVars => EchoInv'
<1> SUFFICES ASSUME EchoInv, [Next]_ultraVars PROVE EchoInv'
  OBVIOUS
<1>1. CASE UNCHANGED ultraVars
  BY <1>1 DEF EchoInv, TypeOK, Counts, Capture, Reaches, Race, SampleIsTrue,
              ultraVars, clocks, world, state, sample
<1>2. QED
  BY <1>1, TickEcho, MovesEcho, RisesEcho, FallsEcho, BeginsEcho, EndsEcho DEF Next

(* The parameters of the model keep every flag, clock and counter in its    *)
(* range: in particular a capture is over before the counter wraps twice.   *)
THEOREM TypeCorrect == Spec => []TypeOK
<1>1. Init => EchoInv
  BY FreshInit DEF FreshInv
<1>2. EchoInv => TypeOK
  BY DEF EchoInv
<1>3. QED
  BY <1>1, <1>2, EchoStep, PTL DEF Spec

(* A valid distance is the true width of one echo and within the limit,     *)
(* wherever the wrap of the cycle counter falls and however long the sensor *)
(* is stuck.                                                                *)
THEOREM DistanceIsTrue == Spec => []SampleIsTrue
<1>1. Init => EchoInv
  BY FreshInit DEF FreshInv
<1>2. EchoInv => SampleIsTrue
  BY DEF EchoInv
<1>3. QED
  BY <1>1, <1>2, EchoStep, PTL DEF Spec

-----------------------------------------------------------------------------
(* The age of a sample, action by action.                                   *)
LEMMA Ages ==
  ASSUME FreshInv, valid
  PROVE  /\ age + 2 <= Reserve + Cycle + Late + Timeout + delay
         /\ age < MaxAge
         /\ ~capturing => age + truth < Wrap
<1> USE DEF FreshInv
<1>0. /\ Reserve = Period + Cycle + Late /\ delay <= Prompt + Slow
      /\ MaxAge = Reserve + Prompt + NearWidth + Cycle + Late + Timeout + Slow + 1
  BY Limits DEF EchoInv, Counts, Reserve, MaxAge, Horizon
<1>1. CASE capturing
  <2>1. age + 2 <= Reserve + delay + high /\ high <= Timeout + sinceStep
    BY <1>1 DEF Fresh, EchoInv, Capture
  <2>2. QED
    BY <1>0, <1>1, <2>1, Numbers, Limits
<1>2. CASE ~capturing /\ waiting
  <2>1. age + 2 <= Reserve + sinceStep /\ age + truth + 1 <= Reserve + sinceStep
    BY <1>2 DEF Fresh, Asking
  <2>2. QED
    BY <1>0, <1>2, <2>1, Numbers, Limits
<1>3. CASE ~capturing /\ ~waiting
  <2>1. truth > 0 /\ truth <= Timeout /\ Resting
    BY <1>3 DEF Fresh, EchoInv, SampleIsTrue
  <2>2. QED
    BY <1>0, <1>3, <2>1, Numbers, Limits DEF Resting
<1>4. QED
  BY <1>1, <1>2, <1>3

LEMMA TickFresh == FreshInv /\ Tick => Fresh'
<1> SUFFICES ASSUME FreshInv, Tick, valid PROVE Fresh'
  BY DEF Fresh, Tick, state
<1> USE DEF FreshInv
<1>1. /\ sinceStep' = sinceStep + 1 /\ sinceTrigger' = UpTo(sinceTrigger) /\ sinceStep < Cycle + Late
      /\ age' = age + 1 /\ truth' = truth /\ pc' = pc /\ delay' = delay
      /\ asked' = asked /\ capturing' = capturing /\ waiting' = waiting /\ rise' = rise
  BY Ages, Numbers, Limits DEF Tick, Overdue, state, EchoInv, TypeOK
<1>2. truth > 0
  BY DEF Fresh
<1>3. ASSUME ~capturing PROVE Reaches(rise', age' + truth', now')
  <2>1. age + truth < Wrap
    BY <1>3, Ages
  <2>2. Reaches(rise, age + truth, now)
    BY <1>3 DEF Fresh
  <2>3. now' = IF now + 1 = Wrap THEN 0 ELSE now + 1
    BY NowTick
  <2>4. QED
    BY <1>1, <2>1, <2>2, <2>3, Numbers, Limits DEF Reaches
<1>4. ASSUME ~waiting PROVE Resting'
  <2>1. Resting
    BY <1>4 DEF Fresh
  <2>2. QED
    BY <1>1, <2>1, Numbers, Limits DEF Resting
<1>5. ASSUME waiting, ~capturing PROVE Asking'
  <2>1. Asking
    BY <1>5 DEF Fresh
  <2>2. QED
    BY <1>1, <2>1, Numbers, Limits DEF Asking, Reserve
<1>6. ASSUME capturing PROVE age' + 2 <= Reserve + delay' + high'
  <2>1. age + 2 <= Reserve + delay + high
    BY <1>6 DEF Fresh
  <2>2. high < Low - 1 /\ high' = high + 1
    BY <1>6, Numbers, Limits DEF EchoInv, Capture, Tick, Low
  <2>3. QED
    BY <1>1, <2>1, <2>2, Numbers, Limits DEF Reserve
<1>7. QED
  BY <1>1, <1>2, <1>3, <1>4, <1>5, <1>6 DEF Fresh, Reserve

LEMMA StillFresh == FreshInv /\ (ObjectMoves \/ StepBegins \/ UNCHANGED ultraVars) => Fresh'
<1> SUFFICES ASSUME FreshInv, ObjectMoves \/ StepBegins \/ UNCHANGED ultraVars PROVE Fresh'
  OBVIOUS
<1>1. /\ now' = now /\ rise' = rise /\ high' = high /\ age' = age /\ truth' = truth /\ delay' = delay
      /\ valid' = valid /\ waiting' = waiting /\ capturing' = capturing /\ asked' = asked
      /\ sinceStep' = sinceStep /\ sinceTrigger' = sinceTrigger
      /\ waiting /\ pc # "trigger" => pc' # "trigger"
  BY DEF ObjectMoves, StepBegins, ultraVars, clocks, world, state, sample
<1>2. QED
  BY <1>1 DEF FreshInv, Fresh, Reaches, Resting, Asking, Reserve

LEMMA RisesFresh == FreshInv /\ EchoRises => Fresh'
<1> SUFFICES ASSUME FreshInv, EchoRises, valid PROVE Fresh'
  BY DEF Fresh, EchoRises
<1> USE DEF FreshInv
<1>1. Asking
  BY DEF EchoRises, Fresh, Resting, EchoInv, Capture
<1>2. age + 2 <= Reserve + delay + 0
  BY <1>1, Numbers, Limits DEF Asking, EchoRises, Reserve
<1>3. capturing' /\ waiting' /\ high' = 0 /\ age' = age /\ truth' = truth /\ delay' = delay
  BY DEF EchoRises, world, sample
<1>4. QED
  BY <1>2, <1>3 DEF Fresh, Reserve

LEMMA FallsFresh == FreshInv /\ EchoFalls => Fresh'
<1> SUFFICES ASSUME FreshInv, EchoFalls, valid' PROVE Fresh'
  BY DEF Fresh
<1> USE DEF FreshInv
<1>1. CASE ~capturing
  BY <1>1 DEF Fresh, Reaches, Resting, Asking, Reserve, EchoFalls, clocks, world, state, sample
<1>2. CASE capturing
  <2>1. /\ ~capturing' /\ ~waiting' /\ rise' = rise /\ now' = now /\ asked' = asked
        /\ sinceStep' = sinceStep /\ sinceTrigger' = sinceTrigger /\ age' = 0 /\ truth' = high
    BY <1>2 DEF EchoFalls, clocks
  <2>2. high > 0 /\ ~asked /\ Reaches(rise, high, now) /\ high <= sinceTrigger
    BY <1>2, Falls DEF EchoInv, Capture
  <2>3. Reaches(rise', age' + truth', now') /\ Resting'
    BY <2>1, <2>2, Numbers DEF Reaches, Resting
  <2>4. QED
    BY <2>1, <2>2, <2>3 DEF Fresh
<1>3. QED
  BY <1>1, <1>2

LEMMA EndsFresh == FreshInv /\ StepEnds => Fresh'
<1> SUFFICES ASSUME FreshInv, StepEnds, valid' PROVE Fresh'
  BY DEF Fresh
<1> USE DEF FreshInv
<1>0. /\ now' = now /\ rise' = rise /\ high' = high /\ age' = age /\ truth' = truth /\ delay' = delay
      /\ sinceStep' = 0 /\ pc' = "idle" /\ valid /\ truth > 0
  BY Ends DEF Fresh
<1>1. CASE capturing
  BY <1>0, <1>1, Ends DEF Fresh, Reserve
<1>2. CASE ~capturing /\ waiting
  <2>1. Asking /\ Reaches(rise, age + truth, now) /\ ~raced
    BY <1>0, <1>2 DEF Fresh, EchoInv, Race
  <2>2. Elapsed(rise) <= Timeout
    BY <1>2, <2>1, Ends DEF Asking
  <2>3. age + truth < Wrap
    BY <1>0, <1>2, Ages
  <2>4. age + truth <= Timeout
    BY <2>1, <2>2, <2>3, Numbers, Limits DEF Elapsed, Huge, Reaches
  <2>5. sinceTrigger' = sinceTrigger /\ waiting' /\ ~capturing'
    BY <1>2, Ends
  <2>6. age' + 2 <= Reserve + sinceStep' /\ age' + 2 <= Reserve + sinceTrigger'
    BY <1>0, <2>4, <2>5, Numbers, Limits DEF Reserve
  <2>7. age' + truth' + 1 <= Reserve + sinceStep'
    BY <1>0, <2>4, Numbers, Limits DEF Reserve
  <2>8. QED
    BY <1>0, <2>1, <2>5, <2>6, <2>7 DEF Fresh, Asking, Reserve
<1>3. CASE ~capturing /\ ~waiting
  <2>1. Resting /\ Reaches(rise, age + truth, now) /\ truth <= Timeout /\ ~capturing'
    BY <1>0, <1>3, Ends DEF Fresh, EchoInv, SampleIsTrue
  <2>2. CASE sinceTrigger >= Period
    <3>1. waiting' /\ sinceTrigger' = 0
      BY <1>3, <2>2, Ends
    <3>2. age + 2 <= Reserve /\ age + truth + 1 <= Reserve
      BY <1>0, <2>1, Numbers, Limits DEF Resting, Reserve
    <3>3. QED
      BY <1>0, <2>1, <3>1, <3>2, Numbers, Limits DEF Fresh, Asking, Reserve
  <2>3. CASE ~(sinceTrigger >= Period)
    <3>1. ~waiting' /\ sinceTrigger' = sinceTrigger /\ asked' = asked
      BY <1>3, <2>3, Ends
    <3>2. Resting'
      BY <1>0, <2>1, <2>3, <3>1, Numbers, Limits DEF Resting
    <3>3. QED
      BY <1>0, <2>1, <3>1, <3>2 DEF Fresh
  <2>4. QED
    BY <2>2, <2>3
<1>4. QED
  BY <1>1, <1>2, <1>3

LEMMA FreshStep == FreshInv /\ [Next]_ultraVars => FreshInv'
BY EchoStep, TickFresh, StillFresh, RisesFresh, FallsFresh, EndsFresh DEF FreshInv, Next

(* The sample of a sensor that falls silent or gets stuck is given up after *)
(* a period, two steps, one echo and the sensor's delay at most: the other  *)
(* half of what the obstacle flag relies on.                                *)
THEOREM DistanceIsFresh == Spec => []SampleIsFresh
<1>1. FreshInv => SampleIsFresh
  <2> SUFFICES ASSUME FreshInv, valid
      PROVE  age <= Period + 2 * (Cycle + Late) + Timeout + delay - 2
    BY DEF SampleIsFresh
  <2>1. age + 2 <= Reserve + Cycle + Late + Timeout + delay
    BY Ages
  <2>2. age \in Nat /\ delay \in Nat
    BY Numbers DEF FreshInv
  <2>3. QED
    BY <2>1, <2>2, Limits DEF Reserve
<1>2. QED
  BY <1>1, FreshInit, FreshStep, PTL DEF Spec

-----------------------------------------------------------------------------
(* A near object is seen.  The time it has been there without a wrap of the *)
(* counter or an ignored trigger is the window; the echo of a near object   *)
(* that it has begun with lasts NearWidth.                                  *)
Gap    == Cycle + Late
Window == IF nearFor < sinceWrap THEN nearFor ELSE sinceWrap

WindowInv ==
  /\ nearFor \in 0..Horizon /\ sinceWrap \in 0..Horizon
  /\ sinceStep <= sinceTrigger
  /\ pc # "idle" => sinceStep >= Cycle
  /\ object = "near" /\ high # Low /\ ~moved => high <= NearWidth
  /\ nearFor # 0 => object = "near"

(* A prompt sensor answers before the next step, so no step meets a rising  *)
(* edge; a wait for an answer that will not come ends once the counter has  *)
(* moved away from the last rising edge.                                    *)
Waits(d) == Reaches(rise, d + sinceStep, now) /\ sinceTrigger <= Gap + d + sinceStep

PromptInv ==
  delay = Prompt =>
    /\ ~raced
    /\ pc = "trigger" => ~waiting
    /\ capturing \/ (object = "near" /\ high # Low /\ ~moved) => sinceTrigger <= Prompt + high
    /\ waiting /\ ~capturing => sinceTrigger <= sinceStep \/ \E d \in 0..Timeout : Waits(d)

(* The last trigger came before the window, or else its echo is awaited,    *)
(* being measured, or has been measured.                                    *)
Before ==
  /\ Window <= sinceTrigger
  /\ waiting \/ sinceTrigger < Period \/ Window < Period + sinceStep

Awaited ==
  /\ asked /\ ~moved /\ waiting /\ ~capturing /\ high = Low /\ sinceTrigger <= Prompt
  /\ IsObstacleNear \/ Window < Period + Gap + sinceTrigger

Measured ==
  /\ capturing /\ ~moved /\ rise <= now
  /\ IsObstacleNear \/ Window < Period + Gap + Prompt + high

Done ==
  /\ ~waiting /\ ~asked /\ IsObstacleNear /\ sinceTrigger < Period + sinceStep
  /\ pc = "check" => Elapsed(rise) <= Timeout

WindowSeen ==
  object = "near" /\ delay = Prompt =>
    Before \/ (sinceTrigger < Window /\ (Awaited \/ Measured \/ Done))

SeenInv == EchoInv /\ WindowInv /\ PromptInv /\ WindowSeen

(* An echo that is late may take until the next trigger is due, not longer: *)
(* 40 ms and a step of 20 ms against a period of 100 ms.                    *)
TimeToMeasure == Timeout + Cycle + Late < Period

LEMMA WindowNumbers ==
  ASSUME EchoInv, WindowInv
  PROVE  /\ nearFor \in Nat /\ sinceWrap \in Nat /\ Window \in Nat
         /\ Horizon = Period + Gap + Prompt + NearWidth
         /\ nearFor <= Horizon /\ sinceWrap <= Horizon /\ Window <= Horizon
         /\ Window <= nearFor /\ Window <= sinceWrap
BY Limits DEF WindowInv, Window, Horizon, Gap

LEMMA SeenInit == Init => SeenInv
<1> SUFFICES ASSUME Init PROVE SeenInv
  OBVIOUS
<1>1. EchoInv
  BY FreshInit DEF FreshInv
<1>2. Horizon \in Nat /\ Period > 0 /\ 0 \in 0..Horizon /\ Horizon \in 0..Horizon
  BY Limits DEF Horizon
<1>3. WindowInv
  BY <1>2 DEF Init, WindowInv
<1>4. PromptInv
  BY DEF Init, PromptInv
<1>5. WindowSeen
  BY <1>2, Limits DEF Init, WindowSeen, Before, Window
<1>6. QED
  BY <1>1, <1>3, <1>4, <1>5 DEF SeenInv

LEMMA WindowStep == EchoInv /\ WindowInv /\ [Next]_ultraVars => WindowInv'
<1> SUFFICES ASSUME EchoInv, WindowInv, [Next]_ultraVars PROVE WindowInv'
  OBVIOUS
<1>0. object \in Objects /\ Horizon' = Horizon /\ Low' = Low
  BY DEF EchoInv, Counts, Horizon, Low
<1>1. CASE Tick
  <2>1. nearFor' \in 0..Horizon /\ sinceWrap' \in 0..Horizon
    BY <1>1, WindowNumbers, Numbers DEF Tick, UpTo
  <2>2. sinceStep' <= sinceTrigger' /\ pc' = "idle"
    BY <1>1, Numbers, Limits DEF Tick, Overdue, UpTo, WindowInv
  <2>3. ASSUME object' = "near", high' # Low, ~moved' PROVE high' <= NearWidth
    <3>1. object = "near" /\ ~moved /\ high' = IF high < Low - 1 THEN high + 1 ELSE high
      BY <1>1, <2>3 DEF Tick
    <3>2. high # Low
      BY <2>3, <3>1, Numbers
    <3>3. ~(high >= NearWidth)
      BY <1>1, <3>1, <3>2 DEF Tick, Overdue, FallDue, Answers, MayFall
    <3>4. QED
      BY <3>1, <3>3, Numbers, Limits
  <2>4. nearFor' # 0 => object' = "near"
    BY <1>1 DEF Tick
  <2>5. QED
    BY <2>1, <2>2, <2>3, <2>4 DEF WindowInv
<1>2. CASE ObjectMoves
  <2>1. high # Low => moved'
    BY <1>2 DEF ObjectMoves
  <2>2. QED
    BY <1>2, <2>1, Numbers DEF ObjectMoves, WindowInv, clocks
<1>3. CASE EchoRises
  BY <1>3, Limits DEF EchoRises, WindowInv, clocks, world
<1>4. CASE EchoFalls
  BY <1>4 DEF EchoFalls, WindowInv, clocks
<1>5. CASE StepBegins
  BY <1>5 DEF StepBegins, WindowInv, clocks, world
<1>6. CASE StepEnds
  <2>1. /\ nearFor' \in {0, nearFor} /\ sinceWrap' = sinceWrap /\ object' = object
        /\ high # Low => (moved' <=> moved)
    BY <1>6, Reports
  <2>2. high' = high /\ pc' = "idle" /\ sinceStep' = 0 /\ sinceTrigger' \in {0, sinceTrigger}
    BY <1>6, Ends
  <2>3. sinceStep' <= sinceTrigger'
    BY <2>2, Numbers
  <2>4. 0 \in 0..Horizon
    BY Numbers
  <2>5. QED
    BY <2>1, <2>2, <2>3, <2>4 DEF WindowInv
<1>7. CASE UNCHANGED ultraVars
  BY <1>7 DEF WindowInv, ultraVars, clocks, world, state
<1>8. QED
  BY <1>1, <1>2, <1>3, <1>4, <1>5, <1>6, <1>7 DEF Next

(* A step that goes on waiting has found the wait within its limit.         *)
LEMMA StaysWaiting ==
  ASSUME EchoInv, StepEnds, ~raced, pc = "trigger" => ~waiting,
         waiting, waiting', ~capturing', sinceTrigger' # 0
  PROVE  ~capturing /\ Elapsed(rise) <= Timeout
<1>1. PICK expired \in Expiry, waits \in {raced, FALSE} :
        Triggers(waiting /\ (waits \/ ~expired), capturing /\ ~expired)
  BY DEF StepEnds
<1>2. waits = FALSE /\ expired \in BOOLEAN
  <2>1. raced = FALSE
    BY Flags
  <2>2. QED
    BY <1>1, <2>1, Expires
<1>3. ~expired
  <2> SUFFICES ASSUME expired PROVE FALSE
    BY <1>2
  <2>1. Triggers(FALSE, FALSE)
    <3>1. (waiting /\ (waits \/ ~expired)) = FALSE /\ (capturing /\ ~expired) = FALSE
      BY <1>2
    <3>2. QED
      BY <1>1, <3>1, Zenon
  <2>2. QED
    BY <2>1 DEF Triggers
<1>4. expired = (Elapsed(rise) > Timeout)
  BY <1>1, Expires
<1>5. ~(Elapsed(rise) > Timeout)
  BY <1>3, <1>4, Zenon
<1>6. ~capturing
  <2> SUFFICES ASSUME capturing PROVE FALSE
    OBVIOUS
  <2>1. (waiting /\ (waits \/ ~expired)) = TRUE /\ (capturing /\ ~expired) = TRUE
    BY <1>2, <1>3, Flags
  <2>2. Triggers(TRUE, TRUE)
    BY <1>1, <2>1, Zenon
  <2>3. QED
    BY <2>2 DEF Triggers
<1>7. QED
  BY <1>5, <1>6, ElapsedType, Limits

(* and its last trigger is as long ago as the counter has moved since the   *)
(* last rising edge, and one step more.                                     *)
LEMMA KeepsWaiting ==
  ASSUME EchoInv, Elapsed(rise) <= Timeout,
         sinceTrigger <= sinceStep \/ \E d \in 0..Timeout : Waits(d)
  PROVE  \E d \in Nat : rise + d = now /\ d <= Timeout /\ sinceTrigger <= Gap + d
<1> DEFINE e == now - rise
<1>1. rise <= now /\ e \in Nat /\ e <= Timeout /\ rise + e = now
  BY Numbers, Limits DEF Elapsed, Huge
<1>2. sinceTrigger <= Gap + e
  <2>1. CASE sinceTrigger <= sinceStep
    BY <1>1, <2>1, Numbers, Limits DEF Gap
  <2>2. ASSUME NEW d \in 0..Timeout, Waits(d) PROVE sinceTrigger <= Gap + e
    <3>1. d + sinceStep = e
      BY <1>1, <2>2, Numbers, Limits DEF Waits, Reaches
    <3>2. QED
      BY <2>2, <3>1, Numbers, Limits DEF Waits, Gap
  <2>3. QED
    BY <2>1, <2>2
<1>3. QED
  BY <1>1, <1>2

LEMMA PromptStep == SeenInv /\ [Next]_ultraVars => PromptInv'
<1> SUFFICES ASSUME SeenInv, [Next]_ultraVars, delay' = Prompt PROVE PromptInv'
  BY DEF PromptInv
<1> USE DEF SeenInv
<1>0. delay = Prompt
  BY DEF Next, Tick, ObjectMoves, EchoRises, EchoFalls, StepBegins, StepEnds, ultraVars, world
<1>1. /\ ~raced /\ (pc = "trigger" => ~waiting)
      /\ capturing => sinceTrigger <= Prompt + high
      /\ object = "near" /\ high # Low /\ ~moved => sinceTrigger <= Prompt + high
      /\ waiting /\ ~capturing => sinceTrigger <= sinceStep \/ \E d \in 0..Timeout : Waits(d)
  BY <1>0 DEF PromptInv
<1>2. CASE Tick
  <2>1. /\ sinceStep' = sinceStep + 1 /\ sinceTrigger' = UpTo(sinceTrigger) /\ object' = object
        /\ waiting' = waiting /\ capturing' = capturing /\ ~raced' /\ pc' = "idle"
        /\ sinceStep < Gap
    BY <1>1, <1>2, Numbers, Limits DEF Tick, Overdue, state, EchoInv, TypeOK, Gap
  <2>2. ASSUME capturing' \/ (object' = "near" /\ high' # Low /\ ~moved')
        PROVE  sinceTrigger' <= Prompt + high'
    <3>1. moved' = moved /\ high' = IF high < Low - 1 THEN high + 1 ELSE high
      BY <1>2 DEF Tick
    <3>2. capturing \/ (object = "near" /\ high # Low /\ ~moved /\ high <= NearWidth)
      BY <2>1, <2>2, <3>1, Numbers DEF WindowInv
    <3>3. high < Low - 1 /\ sinceTrigger <= Prompt + high
      BY <1>1, <3>2, Numbers, Limits DEF EchoInv, Capture
    <3>4. QED
      BY <2>1, <3>1, <3>3, Numbers, Limits
  <2>3. ASSUME waiting, ~capturing
        PROVE  sinceTrigger' <= sinceStep' \/ \E d \in 0..Timeout : Waits(d)'
    <3>1. CASE sinceTrigger <= sinceStep
      BY <2>1, <3>1, Numbers
    <3>2. ASSUME NEW d \in 0..Timeout, Waits(d) PROVE Waits(d)'
      <4>1. d + sinceStep \in Nat /\ d + sinceStep + 1 < Wrap /\ Reaches(rise, d + sinceStep, now)
        BY <2>1, <3>2, Numbers, Limits DEF Waits, Gap
      <4>2. Reaches(rise', d + sinceStep + 1, now')
        BY <1>2, <4>1, SinceTick
      <4>3. d + sinceStep' = d + sinceStep + 1
        BY <2>1, Numbers, Limits
      <4>4. sinceTrigger' <= Gap + d + sinceStep'
        BY <2>1, <3>2, Numbers, Limits DEF Waits, Gap
      <4>5. QED
        BY <4>2, <4>3, <4>4 DEF Waits, Gap
    <3>3. QED
      BY <1>1, <2>3, <3>1, <3>2
  <2>4. QED
    BY <2>1, <2>2, <2>3 DEF PromptInv
<1>3. CASE ObjectMoves \/ StepBegins \/ UNCHANGED ultraVars
  <2>1. /\ now' = now /\ rise' = rise /\ high' = high
        /\ waiting' = waiting /\ capturing' = capturing
        /\ sinceStep' = sinceStep /\ sinceTrigger' = sinceTrigger
        /\ ~raced' /\ (pc' = "trigger" => ~waiting)
    BY <1>1, <1>3 DEF ObjectMoves, StepBegins, ultraVars, clocks, world, state, sample
  <2>2. ((moved' <=> moved) /\ object' = object) \/ (high # Low => moved')
    BY <1>3 DEF ObjectMoves, StepBegins, ultraVars, world
  <2>3. \A d : Waits(d) => Waits(d)'
    BY <2>1 DEF Waits, Reaches, Gap
  <2>4. QED
    BY <1>1, <2>1, <2>2, <2>3 DEF PromptInv
<1>4. CASE EchoRises
  <2>1. sinceTrigger <= Prompt /\ pc = "idle"
    BY <1>0, <1>4, Numbers, Limits DEF EchoRises, WindowInv
  <2>2. capturing' /\ high' = 0 /\ sinceTrigger' = sinceTrigger /\ ~raced' /\ pc' = "idle"
    BY <1>4, <2>1 DEF EchoRises, clocks
  <2>3. QED
    BY <2>1, <2>2, Limits DEF PromptInv
<1>5. CASE EchoFalls
  <2>1. /\ high' = Low /\ now' = now /\ sinceStep' = sinceStep /\ sinceTrigger' = sinceTrigger
        /\ ~raced' /\ pc' = pc /\ Low' = Low
    BY <1>1, <1>5 DEF EchoFalls, clocks, Low
  <2>2. CASE capturing
    <3>1. ~waiting' /\ ~capturing'
      BY <1>5, <2>2 DEF EchoFalls
    <3>2. QED
      BY <2>1, <3>1 DEF PromptInv
  <2>3. CASE ~capturing
    <3>1. rise' = rise /\ waiting' = waiting /\ capturing' = capturing
      BY <1>5, <2>3 DEF EchoFalls, state
    <3>2. \A d : Waits(d) => Waits(d)'
      BY <2>1, <3>1 DEF Waits, Reaches, Gap
    <3>3. QED
      BY <1>1, <2>1, <2>3, <3>1, <3>2 DEF PromptInv
  <2>4. QED
    BY <2>2, <2>3
<1>6. CASE StepEnds
  <2>1. /\ now' = now /\ rise' = rise /\ high' = high /\ sinceStep' = 0 /\ pc' = "idle" /\ ~raced'
        /\ sinceTrigger' \in {0, sinceTrigger} /\ object' = object
    BY <1>6, Ends DEF StepEnds, world
  <2>2. capturing' \/ (object' = "near" /\ high' # Low /\ ~moved') => sinceTrigger' <= Prompt + high'
    <3>1. high # Low => (moved' <=> moved)
      BY <1>6, Reports
    <3>2. capturing' => capturing
      BY <1>6, Ends
    <3>3. QED
      BY <1>1, <2>1, <3>1, <3>2, Numbers, Limits
  <2>3. ASSUME waiting', ~capturing'
        PROVE  sinceTrigger' <= sinceStep' \/ \E d \in 0..Timeout : Waits(d)'
    <3>1. CASE sinceTrigger' = 0
      BY <2>1, <3>1
    <3>2. CASE sinceTrigger' # 0
      <4>1. waiting /\ sinceTrigger' = sinceTrigger
        BY <1>6, <2>1, <2>3, <3>2, Ends
      <4>2. ~capturing /\ Elapsed(rise) <= Timeout
        BY <1>1, <1>6, <2>3, <3>2, <4>1, StaysWaiting
      <4>3. PICK d \in Nat : /\ rise + d = now /\ d <= Timeout
                             /\ sinceTrigger <= Gap + d
        BY <1>1, <4>1, <4>2, KeepsWaiting
      <4>4. Waits(d)'
        BY <2>1, <4>1, <4>3, Numbers, Limits DEF Waits, Reaches, Gap
      <4>5. QED
        BY <4>3, <4>4, Limits
    <3>3. QED
      BY <3>1, <3>2
  <2>4. QED
    BY <2>1, <2>2, <2>3 DEF PromptInv
<1>7. QED
  BY <1>2, <1>3, <1>4, <1>5, <1>6 DEF Next

(* The window grows with time and is closed by a wrap, by another object or *)
(* by a trigger that is ignored; anything else leaves it.                   *)
LEMMA WindowGrows ==
  ASSUME EchoInv, WindowInv
  PROVE  /\ Tick /\ object = "near" =>
              Window' = 0 \/ Window' = IF Window < Horizon THEN Window + 1 ELSE Window
         /\ ObjectMoves => Window' = 0
         /\ EchoRises \/ EchoFalls \/ StepBegins \/ UNCHANGED ultraVars
              => Window' = Window /\ object' = object
         /\ StepEnds => /\ object' = object
                        /\ \/ Window' = Window
                           \/ Window' = 0 /\ sinceTrigger' = 0 /\ high # Low
<1>1. Horizon' = Horizon /\ Horizon \in Nat
  BY Numbers DEF Horizon
<1>2. ASSUME Tick, object = "near"
      PROVE  Window' = 0 \/ Window' = IF Window < Horizon THEN Window + 1 ELSE Window
  BY <1>1, <1>2, WindowNumbers, Limits DEF Tick, UpTo, Window
<1>3. ASSUME ObjectMoves PROVE Window' = 0
  BY <1>3, WindowNumbers DEF ObjectMoves, clocks, Window
<1>4. ASSUME EchoRises \/ EchoFalls \/ StepBegins \/ UNCHANGED ultraVars
      PROVE  Window' = Window /\ object' = object
  BY <1>4 DEF EchoRises, EchoFalls, StepBegins, ultraVars, clocks, world, Window
<1>5. ASSUME StepEnds
      PROVE  /\ object' = object
             /\ \/ Window' = Window
                \/ Window' = 0 /\ sinceTrigger' = 0 /\ high # Low
  BY <1>5, Reports, WindowNumbers DEF Window
<1>6. QED
  BY <1>2, <1>3, <1>4, <1>5

(* A near object is answered promptly: while its echo is high, the next     *)
(* trigger is not due; a wait for a disturbed echo ends before the trigger  *)
(* after it.                                                                *)
LEMMA EchoIsEarly ==
  ASSUME SeenInv, TimeToMeasure, delay = Prompt, object = "near"
  PROVE  /\ high # Low /\ ~moved => high <= NearWidth /\ sinceTrigger < Period
         /\ capturing => high # Low /\ sinceTrigger < Period + sinceStep
         /\ ~raced /\ (pc = "trigger" => ~waiting)
         /\ sinceTrigger <= Prompt => pc = "idle"
<1> USE DEF SeenInv
<1>1. /\ high # Low /\ ~moved => high <= NearWidth /\ sinceTrigger <= Prompt + high
      /\ capturing => sinceTrigger <= Prompt + high
      /\ ~raced /\ (pc = "trigger" => ~waiting)
  BY DEF PromptInv, WindowInv
<1>2. high # Low /\ ~moved => sinceTrigger < Period
  BY <1>1, Numbers, Limits DEF TimeToMeasure
<1>3. capturing => high # Low /\ sinceTrigger < Period + sinceStep
  <2>1. capturing => high # Low /\ high <= Timeout + sinceStep
    BY DEF EchoInv, Capture
  <2>2. QED
    BY <1>1, <2>1, Numbers, Limits DEF TimeToMeasure
<1>4. sinceTrigger <= Prompt => pc = "idle"
  BY Numbers, Limits DEF WindowInv
<1>5. QED
  BY <1>1, <1>2, <1>3, <1>4

LEMMA TickSeen == TimeToMeasure /\ SeenInv /\ Tick => WindowSeen'
<1> SUFFICES ASSUME TimeToMeasure, SeenInv, Tick, object' = "near", delay' = Prompt
             PROVE  Before' \/ (sinceTrigger' < Window' /\ (Awaited' \/ Measured' \/ Done'))
  BY DEF WindowSeen
<1> USE DEF SeenInv
<1>0. /\ object = "near" /\ delay = Prompt /\ pc = "idle" /\ pc' = "idle"
      /\ sinceStep' = sinceStep + 1 /\ sinceTrigger' = UpTo(sinceTrigger)
      /\ waiting' = waiting /\ capturing' = capturing /\ asked' = asked /\ rise' = rise
      /\ (IsObstacleNear' <=> IsObstacleNear)
      /\ (high = Low => high' = Low) /\ moved' = moved
      /\ (high # Low /\ ~moved => high < NearWidth /\ high' = high + 1)
      /\ Low' = Low /\ sinceStep < Gap
  <2>1. /\ object = "near" /\ delay = Prompt /\ pc = "idle" /\ pc' = "idle"
        /\ sinceStep' = sinceStep + 1 /\ sinceTrigger' = UpTo(sinceTrigger)
        /\ waiting' = waiting /\ capturing' = capturing /\ asked' = asked /\ rise' = rise
        /\ Low' = Low /\ moved' = moved
    BY DEF Tick, Overdue, state, Low
  <2>2. IsObstacleNear' <=> IsObstacleNear
    BY DEF Tick, state, IsObstacleNear
  <2>3. high' = IF high < Low - 1 THEN high + 1 ELSE high
    BY DEF Tick
  <2>4. high = Low => high' = Low
    BY <2>3, Numbers
  <2>5. high # Low /\ ~moved => high < NearWidth
    <3>1. high # Low /\ ~moved => ~(high >= NearWidth)
      BY <2>1 DEF Tick, Overdue, FallDue, Answers, MayFall
    <3>2. QED
      BY <3>1, Numbers, Limits
  <2>6. high # Low /\ ~moved => high' = high + 1
    BY <2>3, <2>5, Numbers, Limits
  <2>7. sinceStep < Gap
    <3>1. sinceStep # Cycle + Late
      BY DEF Tick, Overdue
    <3>2. QED
      BY <3>1, Numbers, Limits DEF Gap
  <2>8. QED
    BY <2>1, <2>2, <2>4, <2>5, <2>6, <2>7
<1>1. EchoInv' /\ WindowInv'
  BY EchoStep, WindowStep DEF Next
<1>2. CASE Window' = 0
  <2>1. 0 <= sinceTrigger' /\ 0 < Period + sinceStep'
    BY <1>0, Numbers, Limits
  <2>2. QED
    BY <1>2, <2>1 DEF Before
<1>3. CASE Window' # 0
  <2>1. Window' = IF Window < Horizon THEN Window + 1 ELSE Window
    BY <1>0, <1>3, WindowGrows
  <2>2. now' = now + 1
    <3>1. now' = 0 => Window' = 0
      <4>1. sinceWrap' = IF now' = 0 THEN 0 ELSE UpTo(sinceWrap)
        BY DEF Tick
      <4>2. nearFor' \in Nat
        BY <1>0, WindowNumbers, Numbers DEF Tick, UpTo
      <4>3. QED
        BY <4>1, <4>2 DEF Window
    <3>2. QED
      BY <1>3, <3>1, NowTick
  <2>3. CASE Before
    <3>1. Window' <= sinceTrigger'
      BY <1>0, <2>1, <2>3, WindowNumbers, Numbers DEF Before
    <3>2. waiting' \/ sinceTrigger' < Period \/ Window' < Period + sinceStep'
      BY <1>0, <2>1, <2>3, WindowNumbers, Numbers, Limits DEF Before
    <3>3. QED
      BY <3>1, <3>2 DEF Before
  <2>4. CASE sinceTrigger < Window /\ Awaited
    <3>1. sinceTrigger < Prompt /\ sinceTrigger < Horizon
      BY <1>0, <2>4, Numbers, Limits DEF Awaited, Tick, Overdue, RiseDue, Answers, WindowInv
    <3>2. QED
      BY <1>0, <2>1, <2>4, <3>1, WindowNumbers, Numbers, Limits DEF Awaited, Gap
  <2>5. CASE sinceTrigger < Window /\ Measured
    <3>1. high # Low /\ sinceTrigger < Period
      BY <1>0, <2>5, EchoIsEarly DEF Measured
    <3>2. QED
      BY <1>0, <2>1, <2>2, <2>5, <3>1, WindowNumbers, Numbers, Limits DEF Measured, Gap
  <2>6. CASE sinceTrigger < Window /\ Done
    <3>1. sinceTrigger < Period + Gap
      BY <1>0, <2>6, Numbers, Limits DEF Done, Gap
    <3>2. QED
      BY <1>0, <2>1, <2>6, <3>1, WindowNumbers, Numbers, Limits DEF Done, Gap
  <2>7. QED
    BY <1>0, <2>3, <2>4, <2>5, <2>6 DEF WindowSeen
<1>4. QED
  BY <1>2, <1>3

LEMMA RisesSeen == TimeToMeasure /\ SeenInv /\ EchoRises => WindowSeen'
<1> SUFFICES ASSUME TimeToMeasure, SeenInv, EchoRises, object' = "near", delay' = Prompt
             PROVE  Before' \/ (sinceTrigger' < Window' /\ (Awaited' \/ Measured' \/ Done'))
  BY DEF WindowSeen
<1> USE DEF SeenInv
<1>1. /\ object = "near" /\ delay = Prompt /\ Window' = Window
      /\ sinceTrigger <= Prompt /\ asked /\ high = Low /\ high' = 0
      /\ sinceStep' = sinceStep /\ sinceTrigger' = sinceTrigger /\ now' = now
      /\ rise' = now /\ capturing' /\ waiting' /\ (IsObstacleNear' <=> IsObstacleNear)
      /\ moved' = moved
  BY WindowGrows DEF EchoRises, clocks, world, IsObstacleNear
<1>2. CASE Before
  BY <1>1, <1>2, WindowNumbers, Numbers DEF Before
<1>3. CASE sinceTrigger < Window /\ (Awaited \/ Measured \/ Done)
  <2>1. ~moved /\ (IsObstacleNear \/ Window < Period + Gap + sinceTrigger)
    <3>1. ~Measured /\ ~Done
      BY <1>1 DEF Measured, Done, EchoInv, Capture
    <3>2. QED
      BY <1>3, <3>1 DEF Awaited
  <2>2. IsObstacleNear \/ Window < Period + Gap + Prompt + 0
    BY <1>1, <2>1, WindowNumbers, Numbers, Limits DEF Gap
  <2>3. now <= now
    BY Numbers
  <2>4. Measured'
    BY <1>1, <2>1, <2>2, <2>3 DEF Measured, Gap
  <2>5. QED
    BY <1>1, <1>3, <2>4
<1>4. QED
  BY <1>1, <1>2, <1>3 DEF WindowSeen

LEMMA FallsSeen == TimeToMeasure /\ SeenInv /\ EchoFalls => WindowSeen'
<1> SUFFICES ASSUME TimeToMeasure, SeenInv, EchoFalls, object' = "near", delay' = Prompt
             PROVE  Before' \/ (sinceTrigger' < Window' /\ (Awaited' \/ Measured' \/ Done'))
  BY DEF WindowSeen
<1> USE DEF SeenInv
<1>1. /\ object = "near" /\ delay = Prompt /\ Window' = Window
      /\ sinceStep' = sinceStep /\ sinceTrigger' = sinceTrigger /\ now' = now /\ pc' = pc
      /\ high # Low /\ asked' = asked
  BY WindowGrows DEF EchoFalls, clocks
<1>2. ~moved => high <= NearWidth /\ sinceTrigger < Period
  BY <1>1, EchoIsEarly
<1>3. CASE ~capturing
  <2>1. waiting' = waiting /\ rise' = rise /\ (IsObstacleNear' <=> IsObstacleNear)
    BY <1>3 DEF EchoFalls, state, IsObstacleNear
  <2>2. ~Awaited /\ ~Measured
    BY <1>1, <1>3 DEF Awaited, Measured
  <2>3. Done => Done'
    BY <1>1, <2>1 DEF Done, Elapsed, Huge
  <2>4. Before => Before'
    BY <1>1, <2>1 DEF Before
  <2>5. QED
    BY <1>1, <2>2, <2>3, <2>4 DEF WindowSeen
<1>4. CASE capturing
  <2>1. ~waiting' /\ rise' = rise /\ valid' = (Elapsed(rise) <= Timeout)
    BY <1>4 DEF EchoFalls
  <2>2. CASE Before
    <3>1. sinceTrigger < Period + sinceStep
      BY <1>1, <1>4, EchoIsEarly
    <3>2. Window < Period + sinceStep
      BY <2>2, <3>1, WindowNumbers, Numbers, Limits DEF Before
    <3>3. QED
      BY <1>1, <2>2, <3>2 DEF Before
  <2>3. CASE Measured /\ sinceTrigger < Window
    <3>0. high <= NearWidth /\ sinceTrigger < Period
      BY <1>2, <2>3 DEF Measured
    <3>1. Elapsed(rise) = high
      BY <1>4, <2>3, Numbers, Limits DEF Measured, EchoInv, Capture, Reaches, Elapsed
    <3>2. Elapsed(rise) <= Timeout
      BY <3>0, <3>1, Numbers, Limits
    <3>3. valid' /\ distance' = high
      <4>1. valid' = TRUE
        BY <2>1, <3>2, Zenon
      <4>2. QED
        BY <1>4, <4>1, <3>1 DEF EchoFalls
    <3>4. IsObstacleNear'
      BY <3>0, <3>3, Numbers, Limits DEF IsObstacleNear
    <3>5. sinceTrigger' < Period + sinceStep'
      BY <1>1, <3>0, Numbers, Limits
    <3>6. Elapsed(rise)' <= Timeout
      BY <1>1, <2>1, <3>2 DEF Elapsed, Huge
    <3>7. ~asked'
      BY <1>1, <1>4 DEF EchoInv, Capture
    <3>8. QED
      BY <1>1, <2>1, <2>3, <3>4, <3>5, <3>6, <3>7 DEF Done
  <2>4. ~Awaited /\ ~Done
    BY <1>4 DEF Awaited, Done, EchoInv, Capture
  <2>5. QED
    BY <1>1, <2>2, <2>3, <2>4 DEF WindowSeen
<1>5. QED
  BY <1>3, <1>4

LEMMA BeginsSeen == TimeToMeasure /\ SeenInv /\ StepBegins => WindowSeen'
<1> SUFFICES ASSUME TimeToMeasure, SeenInv, StepBegins, object' = "near", delay' = Prompt
             PROVE  Before' \/ (sinceTrigger' < Window' /\ (Awaited' \/ Measured' \/ Done'))
  BY DEF WindowSeen
<1> USE DEF SeenInv
<1>1. /\ object = "near" /\ delay = Prompt /\ Window' = Window
      /\ sinceStep' = sinceStep /\ sinceTrigger' = sinceTrigger /\ now' = now /\ high' = high
      /\ waiting' = waiting /\ capturing' = capturing /\ asked' = asked /\ rise' = rise
      /\ (IsObstacleNear' <=> IsObstacleNear) /\ Low' = Low /\ moved' = moved
      /\ pc' = (IF waiting THEN "check" ELSE "trigger")
  BY WindowGrows DEF StepBegins, clocks, world, state, IsObstacleNear, Low
<1>2. Before => Before'
  BY <1>1 DEF Before
<1>3. Awaited => Awaited'
  BY <1>1 DEF Awaited, Gap
<1>4. Measured => Measured'
  BY <1>1 DEF Measured, Gap
<1>5. Done => Done'
  BY <1>1 DEF Done
<1>6. QED
  BY <1>1, <1>2, <1>3, <1>4, <1>5 DEF WindowSeen

(* The end of a step that finds no wait beyond its limit changes nothing    *)
(* but that it may trigger; that asks for an echo unless one is high.       *)
LEMMA EndsInTime ==
  ASSUME EchoInv, StepEnds, ~raced, pc = "trigger" \/ Elapsed(rise) <= Timeout
  PROVE  /\ valid' <=> valid
         /\ sinceTrigger' = sinceTrigger /\ sinceTrigger > 0
              => (waiting' <=> waiting) /\ (capturing' <=> capturing)
<1>1. PICK expired \in Expiry, waits \in {raced, FALSE} :
        /\ valid' = (valid /\ ~expired)
        /\ Triggers(waiting /\ (waits \/ ~expired), capturing /\ ~expired)
  BY DEF StepEnds
<1>2. expired = FALSE
  <2>1. CASE pc = "trigger"
    BY <1>1, <2>1 DEF Expiry
  <2>2. CASE pc # "trigger"
    <3>1. Elapsed(rise) <= Timeout
      BY <2>2
    <3>2. ~(Elapsed(rise) > Timeout)
      BY <3>1, ElapsedType, Limits
    <3>3. expired = (Elapsed(rise) > Timeout) /\ expired \in BOOLEAN
      BY <1>1, <2>2, Expires
    <3>4. QED
      BY <3>2, <3>3, Zenon
  <2>3. QED
    BY <2>1, <2>2
<1>3. valid' <=> valid
  BY <1>1, <1>2, Flags
<1>4. Triggers(waiting, capturing)
  <2>1. (waiting /\ (waits \/ ~expired)) = waiting /\ (capturing /\ ~expired) = capturing
    BY <1>2, Flags
  <2>2. QED
    BY <1>1, <2>1, Zenon
<1>5. QED
  BY <1>3, <1>4, Limits DEF Triggers

LEMMA EndsTriggering ==
  ASSUME EchoInv, StepEnds, sinceTrigger > 0
  PROVE  /\ sinceTrigger' # sinceTrigger =>
              /\ sinceTrigger' = 0 /\ sinceTrigger >= Period
              /\ waiting' /\ ~capturing' /\ asked' = (high = Low)
         /\ sinceTrigger' = sinceTrigger => asked' = asked /\ (waiting' \/ sinceTrigger < Period)
<1>1. PICK w \in BOOLEAN, c \in BOOLEAN : Triggers(w, c)
  <2>1. PICK expired \in Expiry, waits \in {raced, FALSE} :
          Triggers(waiting /\ (waits \/ ~expired), capturing /\ ~expired)
    BY DEF StepEnds
  <2>2. /\ (waiting /\ (waits \/ ~expired)) \in BOOLEAN
        /\ (capturing /\ ~expired) \in BOOLEAN
    OBVIOUS
  <2>3. QED
    BY <2>1, <2>2, Zenon
<1>2. sinceTrigger \in Nat /\ Period \in Nat
  BY Numbers, Limits
<1>3. CASE ~w /\ sinceTrigger >= Period
  <2>1. waiting' = TRUE /\ capturing' = FALSE /\ asked' = (high = Low) /\ sinceTrigger' = 0
    BY <1>1, <1>3, Zenon DEF Triggers
  <2>2. QED
    BY <1>3, <2>1
<1>4. CASE ~(~w /\ sinceTrigger >= Period)
  <2>1. waiting' = w /\ capturing' = c /\ asked' = asked /\ sinceTrigger' = sinceTrigger
    BY <1>1, <1>4, Zenon DEF Triggers
  <2>2. w \/ sinceTrigger < Period
    BY <1>2, <1>4
  <2>3. QED
    BY <2>1, <2>2
<1>5. QED
  BY <1>3, <1>4

LEMMA EndsSeen == TimeToMeasure /\ SeenInv /\ StepEnds => WindowSeen'
<1> SUFFICES ASSUME TimeToMeasure, SeenInv, StepEnds, object' = "near", delay' = Prompt
             PROVE  Before' \/ (sinceTrigger' < Window' /\ (Awaited' \/ Measured' \/ Done'))
  BY DEF WindowSeen
<1> USE DEF SeenInv
<1>1. /\ object = "near" /\ delay = Prompt
      /\ sinceStep' = 0 /\ now' = now /\ high' = high /\ rise' = rise /\ pc' = "idle"
      /\ distance' = distance /\ Low' = Low
      /\ Window' = Window \/ (Window' = 0 /\ sinceTrigger' = 0 /\ high # Low)
  BY Ends, WindowGrows DEF Low
<1>2. /\ sinceTrigger > Prompt /\ sinceTrigger > 0 /\ ~raced /\ pc # "idle"
  <2>1. pc # "idle"
    BY DEF StepEnds
  <2>2. QED
    BY <1>1, <2>1, EchoIsEarly, Numbers, Limits
<1>3. ~Awaited
  BY <1>2, Numbers, Limits DEF Awaited
<1>4. Done => (IsObstacleNear' <=> IsObstacleNear)
  <2>1. Done => pc = "trigger" \/ Elapsed(rise) <= Timeout
    BY <1>2 DEF Done, EchoInv, TypeOK
  <2>2. Done => (valid' <=> valid)
    BY <1>2, <2>1, EndsInTime
  <2>3. QED
    BY <1>1, <2>2 DEF IsObstacleNear
<1>5. CASE sinceTrigger' # sinceTrigger
  <2>1. sinceTrigger' = 0 /\ sinceTrigger >= Period /\ waiting' /\ ~capturing' /\ asked' = (high = Low)
    BY <1>2, <1>5, EndsTriggering
  <2>3. CASE Window' = 0
    BY <1>1, <2>1, <2>3 DEF Before
  <2>4. CASE Window' # 0
    <3>0. high = Low /\ ~capturing /\ ~moved' /\ Window' = Window
      <4>1. high = Low /\ ~moved' /\ Window' = Window
        BY <1>1, <1>5, <2>1, <2>4, Reports, WindowNumbers DEF Window
      <4>2. QED
        BY <1>1, <4>1, EchoIsEarly
    <3>1. IsObstacleNear' \/ Window < Period + Gap
      <4>1. CASE Before /\ ~waiting
        BY <2>1, <4>1, WindowNumbers, Numbers, Limits DEF Before, Gap
      <4>2. CASE Before /\ waiting
        <5>1. sinceTrigger <= sinceStep \/ \E d \in 0..Timeout : Waits(d)
          BY <1>1, <3>0, <4>2 DEF PromptInv
        <5>2. CASE sinceTrigger <= sinceStep
          BY <4>2, <5>2, WindowNumbers, Numbers, Limits DEF Before, Gap
        <5>3. ASSUME NEW d \in 0..Timeout, Waits(d) PROVE Window < Period + Gap
          BY <4>2, <5>3, WindowNumbers, Numbers, Limits DEF Before, Gap, Waits, TimeToMeasure
        <5>4. QED
          BY <5>1, <5>2, <5>3
      <4>3. CASE Measured
        BY <3>0, <4>3 DEF Measured
      <4>4. CASE Done
        BY <1>4, <4>4 DEF Done
      <4>5. QED
        BY <1>1, <1>3, <4>1, <4>2, <4>3, <4>4 DEF WindowSeen
    <3>2. 0 < Window /\ 0 <= Prompt
      BY <2>4, <3>0, WindowNumbers, Limits
    <3>3. Window' < Period + Gap + sinceTrigger' \/ IsObstacleNear'
      BY <1>1, <2>1, <3>0, <3>1, WindowNumbers, Limits DEF Gap
    <3>4. asked'
      BY <2>1, <3>0
    <3>5. Gap' = Gap
      BY DEF Gap
    <3>6. Awaited'
      BY <1>1, <2>1, <3>0, <3>2, <3>3, <3>4, <3>5 DEF Awaited
    <3>7. QED
      BY <1>1, <2>1, <3>0, <3>2, <3>6
  <2>5. QED
    BY <2>3, <2>4
<1>6. CASE sinceTrigger' = sinceTrigger
  <2>1. /\ asked' = asked /\ (waiting' \/ sinceTrigger < Period)
        /\ Window' = Window /\ (moved' <=> moved)
    <3>1. sinceTrigger' # 0
      BY <1>2, <1>6, Limits, Numbers
    <3>2. QED
      BY <1>1, <1>2, <1>6, <3>1, EndsTriggering, Reports
  <2>2. CASE Before
    BY <1>1, <1>6, <2>1, <2>2 DEF Before
  <2>3. CASE sinceTrigger < Window /\ Measured
    <3>1. high # Low /\ high <= NearWidth /\ Elapsed(rise) = high
      <4>1. high # Low /\ high <= NearWidth
        BY <1>1, <2>3, EchoIsEarly DEF Measured
      <4>2. QED
        BY <2>3, <4>1, Numbers, Limits DEF Measured, EchoInv, Capture, Reaches, Elapsed
    <3>2. Elapsed(rise) <= Timeout
      BY <3>1, Numbers, Limits
    <3>3. (valid' <=> valid) /\ (capturing' <=> capturing)
      BY <1>2, <1>6, <3>2, EndsInTime
    <3>4. IsObstacleNear' <=> IsObstacleNear
      BY <1>1, <3>3 DEF IsObstacleNear
    <3>5. Measured'
      BY <1>1, <2>1, <2>3, <3>3, <3>4 DEF Measured, Gap
    <3>6. QED
      BY <1>6, <2>1, <2>3, <3>5
  <2>4. CASE sinceTrigger < Window /\ Done
    <3>1. ~waiting' /\ sinceTrigger < Period
      BY <1>2, <1>6, <2>4, Ends, Numbers, Limits DEF Done
    <3>2. sinceTrigger' < Period + sinceStep'
      BY <1>1, <1>6, <3>1, Numbers, Limits
    <3>3. Done'
      BY <1>1, <1>4, <2>1, <2>4, <3>1, <3>2 DEF Done
    <3>4. QED
      BY <1>6, <2>1, <2>4, <3>3
  <2>5. QED
    BY <1>1, <1>3, <2>2, <2>3, <2>4 DEF WindowSeen
<1>7. QED
  BY <1>5, <1>6

LEMMA SeenStep == TimeToMeasure /\ SeenInv /\ [Next]_ultraVars => SeenInv'
<1> SUFFICES ASSUME TimeToMeasure, SeenInv, [Next]_ultraVars PROVE SeenInv'
  OBVIOUS
<1>1. EchoInv' /\ WindowInv' /\ PromptInv'
  BY EchoStep, WindowStep, PromptStep DEF SeenInv
<1>2. CASE ObjectMoves
  <2>1. Window' = 0 /\ sinceTrigger' = sinceTrigger /\ sinceStep' = sinceStep
    BY <1>2, WindowGrows DEF SeenInv, ObjectMoves, clocks
  <2>2. Before'
    BY <2>1, Numbers, Limits DEF SeenInv, Before
  <2>3. QED
    BY <1>1, <2>2 DEF SeenInv, WindowSeen
<1>3. CASE UNCHANGED ultraVars
  BY <1>1, <1>3 DEF SeenInv, WindowSeen, Before, Awaited, Measured, Done, Window, Gap,
                    IsObstacleNear, Elapsed, Huge, Low, ultraVars, clocks, world, state
<1>4. QED
  BY <1>1, <1>2, <1>3, TickSeen, RisesSeen, FallsSeen, BeginsSeen, EndsSeen DEF SeenInv, Next

LEMMA SeenInTime ==
  ASSUME TimeToMeasure, SeenInv
  PROVE  NearIsSeen
<1> SUFFICES ASSUME nearFor = Horizon, sinceWrap = Horizon, delay = Prompt
             PROVE  IsObstacleNear
  BY DEF NearIsSeen
<1> USE DEF SeenInv
<1>1. Window = Horizon /\ Horizon = Period + Gap + Prompt + NearWidth
  BY WindowNumbers DEF Window
<1>2. object = "near"
  BY Numbers, Limits DEF WindowInv
<1>3. ~Before
  <2> SUFFICES ASSUME Before PROVE FALSE
    OBVIOUS
  <2>1. CASE ~waiting
    BY <1>1, <2>1, Numbers, Limits DEF Before, Gap
  <2>2. CASE waiting /\ capturing
    BY <1>1, <1>2, <2>2, EchoIsEarly, Numbers, Limits DEF Before, Gap
  <2>3. CASE waiting /\ ~capturing
    <3>1. sinceTrigger <= sinceStep \/ \E d \in 0..Timeout : Waits(d)
      BY <2>3 DEF PromptInv
    <3>2. QED
      BY <1>1, <3>1, Numbers, Limits DEF Before, Gap, Waits, TimeToMeasure
  <2>4. QED
    BY <2>1, <2>2, <2>3
<1>4. CASE Awaited
  BY <1>1, <1>4, Numbers, Limits DEF Awaited, Gap
<1>5. CASE Measured
  <2>1. high <= NearWidth
    BY <1>2, <1>5, EchoIsEarly DEF Measured
  <2>2. QED
    BY <1>1, <1>5, <2>1, Numbers, Limits DEF Measured, Gap
<1>6. CASE Done
  BY <1>6 DEF Done
<1>7. QED
  BY <1>2, <1>3, <1>4, <1>5, <1>6 DEF WindowSeen

(* An object that stays near is reported near as long as it stays, from a   *)
(* period and a measurement after it came, whenever it comes and whenever   *)
(* the trigger, the edges and the checks of TaskStep fall: no timeout check *)
(* throws away the sample of an object that is there, and no trigger is put *)
(* off.  A trigger that the sensor ignores, because an echo that the object *)
(* did not end is still high, restarts that time: while such an echo lasts, *)
(* TaskStep drops its falling edge and the object is not seen.  Needs that  *)
(* a late echo and one step fit into the period; without it the property    *)
(* fails, as small parameters show.                                         *)
THEOREM NearSeen ==
  ASSUME TimeToMeasure
  PROVE  Spec => []NearIsSeen
<1>1. SeenInv /\ [Next]_ultraVars => SeenInv'
  BY SeenStep
<1>2. SeenInv => NearIsSeen
  BY SeenInTime
<1>3. QED
  BY SeenInit, <1>1, <1>2, PTL DEF Spec

=============================================================================
