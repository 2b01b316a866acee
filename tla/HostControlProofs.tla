-------------------------- MODULE HostControlProofs --------------------------
(* Theorems about HostControl, for every value of the timeouts, of the      *)
(* delay of the line and of its length.                                     *)
EXTENDS HostControl, TLAPS

Sent(command, since) == [command |-> command, age |-> 0, since |-> since]

LEMMA Timeouts ==
  CmdTimeout \in Nat /\ McuTimeout \in Nat /\ WireDelay \in Nat /\ WireDelay < McuTimeout
BY HostAssumption

LEMMA FrameFields ==
  ASSUME NEW f \in Frames
  PROVE  /\ f.command \in Commands /\ f.age \in Nat /\ f.since \in Nat
         /\ Older(f).command = f.command
         /\ Older(f).age = f.age + 1 /\ Older(f).since = f.since + 1
         /\ f.age < WireDelay => Older(f) \in Frames
<1>1. f.command \in Commands /\ f.age \in 0..WireDelay /\ f.since \in Nat
  BY DEF Frames
<1>2. f.age < WireDelay => f.age + 1 \in 0..WireDelay
  BY <1>1, Timeouts
<1>3. QED
  BY <1>1, <1>2, Timeouts DEF Frames, Older

LEMMA LineFrames ==
  ASSUME line \in Seq(Frames)
  PROVE  Len(line) \in Nat /\ DOMAIN line = 1..Len(line) /\ \A i \in DOMAIN line : line[i] \in Frames
OBVIOUS

(* What a step does to the line: nothing, or a new frame at its end.        *)
LEMMA SendCases ==
  ASSUME NEW command, NEW since, Send(command, since)
  PROVE  line' = line \/ line' = Append(line, Sent(command, since))
BY DEF Send, Sent

LEMMA AllowedType ==
  ASSUME NEW command \in Velocities PROVE Allowed(command) \in Velocities
BY DEF Allowed, Velocities

(* A frame put on the line, and how the line ages.                          *)
LEMMA AppendFrame ==
  ASSUME NEW f, line \in Seq(Frames), line' = Append(line, f)
  PROVE  /\ DOMAIN line' = 1..Len(line) + 1 /\ DOMAIN line = 1..Len(line)
         /\ \A i \in DOMAIN line : line'[i] = line[i]
         /\ line'[Len(line) + 1] = f
OBVIOUS

LEMMA TakeFrame ==
  ASSUME line \in Seq(Frames), line # <<>>, line' = Tail(line)
  PROVE  /\ DOMAIN line = 1..Len(line) /\ 1 \in DOMAIN line /\ Head(line) = line[1]
         /\ Head(line) \in Frames
         /\ DOMAIN line' = 1..Len(line) - 1
         /\ \A i \in DOMAIN line' : i + 1 \in DOMAIN line /\ line'[i] = line[i + 1]
OBVIOUS

LEMMA AgeLine ==
  ASSUME line \in Seq(Frames), line' = [i \in DOMAIN line |-> Older(line[i])]
  PROVE  /\ DOMAIN line' = DOMAIN line /\ DOMAIN line = 1..Len(line) /\ Len(line) \in Nat
         /\ \A i \in DOMAIN line : /\ line[i] \in Frames
                                   /\ line'[i].command = line[i].command
                                   /\ line'[i].age = line[i].age + 1
                                   /\ line'[i].since = line[i].since + 1
BY LineFrames, FrameFields

-----------------------------------------------------------------------------
(* Type correctness, with the order of the line: what was written earlier   *)
(* is older, so no frame outlasts the head of the line.                     *)
Ordered == \A i, j \in DOMAIN line : i < j => line[j].age <= line[i].age

LineInv == TypeOK /\ Ordered

LEMMA LineInit == Init => LineInv
<1> SUFFICES ASSUME Init PROVE LineInv
  OBVIOUS
<1>1. line = <<>>
  BY DEF Init
<1>2. line \in Seq(Frames) /\ Ordered
  BY <1>1 DEF Ordered
<1>3. safety \in Requests
  BY Timeouts DEF Init, NoCommand, Requests, Velocities
<1>4. mcu \in Held
  BY Timeouts DEF Init, NoControl, Held, Commands
<1>5. nearFor \in 0..MaxNear + 1 /\ calm \in 0..MaxCalm
  BY Timeouts DEF Init, MaxNear, MaxCalm
<1>6. QED
  BY <1>2, <1>3, <1>4, <1>5 DEF Init, LineInv, TypeOK

(* A send keeps type and order of the line.                                 *)
LEMMA SendKeepsLine ==
  ASSUME LineInv, NEW command \in Commands, NEW since \in Nat, Send(command, since)
  PROVE  line' \in Seq(Frames) /\ Ordered'
<1>1. line \in Seq(Frames)
  BY DEF LineInv, TypeOK
<1>2. CASE line' = line
  BY <1>1, <1>2 DEF LineInv, Ordered
<1>3. CASE line' = Append(line, Sent(command, since))
  <2>1. Sent(command, since) \in Frames /\ Sent(command, since).age = 0
    BY Timeouts DEF Sent, Frames
  <2>2. line' \in Seq(Frames)
    BY <1>1, <1>3, <2>1
  <2>3. \A i \in DOMAIN line : line[i].age \in Nat
    BY <1>1, LineFrames, FrameFields
  <2>4. Ordered'
    BY <1>1, <1>3, <2>1, <2>3, AppendFrame DEF LineInv, Ordered
  <2>5. QED
    BY <2>2, <2>4
<1>4. QED
  BY <1>2, <1>3, SendCases

(* Time passes only while the head of the line, and so every frame, is      *)
(* younger than the line's delay.                                           *)
LEMMA YoungLine ==
  ASSUME LineInv, ~Overdue
  PROVE  \A i \in DOMAIN line : line[i].age < WireDelay
<1>1. line \in Seq(Frames)
  BY DEF LineInv, TypeOK
<1>2. ASSUME NEW i \in DOMAIN line PROVE line[i].age < WireDelay
  <2>1. 1 \in DOMAIN line /\ line # <<>> /\ i \in Nat /\ i >= 1 /\ Head(line) = line[1]
    BY <1>1
  <2>2. line[i].age \in Nat /\ line[1].age \in Nat
    BY <1>1, <2>1, LineFrames, FrameFields
  <2>3. line[i].age <= line[1].age
    BY <2>1, <2>2 DEF LineInv, Ordered
  <2>4. line[1].age < WireDelay
    BY <2>1, <2>2, Timeouts DEF Overdue
  <2>5. QED
    BY <2>2, <2>3, <2>4, Timeouts
<1>3. QED
  BY <1>2

LEMMA TickLine ==
  ASSUME LineInv, Tick
  PROVE  line' \in Seq(Frames) /\ Ordered'
<1>1. line \in Seq(Frames)
  BY DEF LineInv, TypeOK
<1>2. line' = [i \in DOMAIN line |-> Older(line[i])]
  BY DEF Tick
<1>3. \A i \in DOMAIN line : line[i].age < WireDelay
  BY YoungLine DEF Tick
<1>4. \A i \in DOMAIN line : Older(line[i]) \in Frames
  BY <1>1, <1>3, LineFrames, FrameFields
<1>5. line' \in Seq(Frames)
  BY <1>1, <1>2, <1>4
<1>6. \A i \in DOMAIN line : line[i].age \in Nat
  BY <1>1, LineFrames, FrameFields
<1>7. Ordered'
  BY <1>1, <1>2, <1>6, AgeLine DEF LineInv, Ordered
<1>8. QED
  BY <1>5, <1>7

LEMMA AgedType ==
  ASSUME NEW c \in Held
  PROVE  Aged(c) \in Held
<1>1. c.command \in Commands /\ c.age \in 0..McuTimeout + 1 /\ c.since \in Nat
  BY DEF Held
<1>2. c.age < McuTimeout => c.age + 1 \in 0..McuTimeout + 1
  BY <1>1, Timeouts
<1>3. NoControl \in Held
  BY Timeouts DEF NoControl, Held, Commands
<1>4. QED
  BY <1>1, <1>2, <1>3 DEF Aged, Older, Held

LEMMA DeliveredType ==
  ASSUME NEW f \in Frames
  PROVE  [f EXCEPT !.age = 0] \in Held
<1>1. PICK c \in Commands, a \in 0..WireDelay, n \in Nat : f = [command |-> c, age |-> a, since |-> n]
  BY DEF Frames
<1>2. [f EXCEPT !.age = 0] = [command |-> c, age |-> 0, since |-> n]
  BY <1>1
<1>3. 0 \in 0..McuTimeout + 1
  BY Timeouts
<1>4. QED
  BY <1>1, <1>2, <1>3 DEF Held

LEMMA LineStep == LineInv /\ [Next]_hostVars => LineInv'
<1> SUFFICES ASSUME LineInv, [Next]_hostVars PROVE LineInv'
  OBVIOUS
<1> USE DEF LineInv
<1>0. line \in Seq(Frames)
  BY DEF TypeOK
<1>1. CASE OnCmdVel
  <2>1. PICK v \in Velocities, valid \in BOOLEAN :
          /\ safety' = [have |-> TRUE, command |-> IF valid THEN v ELSE "zero", since |-> 0]
          /\ Send(Allowed(IF valid THEN v ELSE "zero"), 0)
    BY <1>1 DEF OnCmdVel
  <2>2. (IF valid THEN v ELSE "zero") \in Velocities
    BY DEF Velocities
  <2>3. Allowed(IF valid THEN v ELSE "zero") \in Commands
    BY <2>2, AllowedType DEF Commands
  <2>4. line' \in Seq(Frames) /\ Ordered'
    BY <2>1, <2>3, SendKeepsLine
  <2>5. QED
    BY <1>1, <2>1, <2>2, <2>4, Timeouts DEF OnCmdVel, TypeOK, Requests, MaxCalm
<1>2. CASE MaintainCommand
  <2>1. CASE MaintainActive
    <3>1. Allowed(safety.command) \in Commands /\ safety.since \in Nat
      BY AllowedType, Timeouts DEF TypeOK, Requests, Commands
    <3>2. line' \in Seq(Frames) /\ Ordered'
      BY <2>1, <3>1, SendKeepsLine DEF MaintainActive
    <3>3. QED
      BY <1>2, <2>1, <3>2, Timeouts DEF MaintainCommand, MaintainActive, TypeOK, MaxCalm
  <2>2. CASE MaintainTimedOut
    <3>1. line' \in Seq(Frames) /\ Ordered'
      BY <2>2, SendKeepsLine DEF MaintainTimedOut, Commands
    <3>2. NoCommand \in Requests
      BY Timeouts DEF NoCommand, Requests, Velocities
    <3>3. QED
      BY <1>2, <2>2, <3>1, <3>2, Timeouts DEF MaintainCommand, MaintainTimedOut, TypeOK, MaxCalm
  <2>3. CASE MaintainIdle
    BY <1>2, <2>3 DEF MaintainCommand, MaintainIdle, TypeOK, Ordered
  <2>4. QED
    BY <1>2, <2>1, <2>2, <2>3 DEF MaintainCommand
<1>3. CASE PublishRange
  BY <1>3, Timeouts DEF PublishRange, TypeOK, Ordered, MaxNear, MaxCalm
<1>4. CASE SetParameters
  BY <1>4, Timeouts DEF SetParameters, TypeOK, Ordered, MaxCalm
<1>5. CASE HandleControl
  <2>1. line # <<>> /\ line' = Tail(line)
    BY <1>5 DEF HandleControl
  <2>2. line' \in Seq(Frames) /\ Head(line) \in Frames
    BY <1>0, <2>1
  <2>3. Ordered'
    BY <1>0, <2>1, TakeFrame DEF Ordered
  <2>4. mcu' \in Held
    <3>1. mcu' = [Head(line) EXCEPT !.age = 0]
      BY <1>5 DEF HandleControl
    <3>2. QED
      BY <3>1, <2>2, DeliveredType
  <2>5. QED
    BY <1>5, <2>2, <2>3, <2>4 DEF HandleControl, TypeOK
<1>6. CASE Tick
  <2>1. line' \in Seq(Frames) /\ Ordered'
    BY <1>6, TickLine
  <2>2. mcu' \in Held
    BY <1>6, AgedType DEF Tick, TypeOK
  <2>3. safety' \in Requests
    <3>1. safety.since \in 0..CmdTimeout + 1
      BY DEF TypeOK, Requests
    <3>2. UpTo(safety.since, CmdTimeout + 1) \in 0..CmdTimeout + 1
      BY <3>1, Timeouts DEF UpTo
    <3>3. QED
      BY <1>6, <3>2 DEF Tick, TypeOK, Requests
  <2>4. nearFor' \in 0..MaxNear + 1 /\ calm' \in 0..MaxCalm
    <3>1. UpTo(nearFor, MaxNear + 1) \in 0..MaxNear + 1
      BY Timeouts DEF TypeOK, UpTo, MaxNear
    <3>2. UpTo(calm, MaxCalm) \in 0..MaxCalm
      BY Timeouts DEF TypeOK, UpTo, MaxCalm
    <3>3. 0 \in 0..MaxNear + 1 /\ 0 \in 0..MaxCalm
      BY Timeouts DEF MaxNear, MaxCalm
    <3>4. QED
      BY <1>6, <3>1, <3>2, <3>3 DEF Tick
  <2>5. front' \in {"near", "clear", "invalid"} /\ busy' \in BOOLEAN /\ maintained' \in BOOLEAN
    BY <1>6 DEF Tick, TypeOK
  <2>6. QED
    BY <2>1, <2>2, <2>3, <2>4, <2>5 DEF TypeOK
<1>7. CASE UNCHANGED hostVars
  BY <1>7 DEF hostVars, TypeOK, Ordered
<1>8. QED
  BY <1>1, <1>2, <1>3, <1>4, <1>5, <1>6, <1>7 DEF Next

(* Every reachable state has the declared type, and the line is in order    *)
(* (all of HostControl).                                                    *)
THEOREM HostTypeCorrect == Spec => []LineInv
BY LineInit, LineStep, PTL DEF Spec

-----------------------------------------------------------------------------
(* How old a command can get.  A frame was asked for at most the timeout    *)
(* before it was written, and it asks for forward motion only if no         *)
(* obstacle was known then; on the line and on the car it only ages.        *)
Timely(f, delay) ==
  /\ f.since <= CmdTimeout + delay + f.age
  /\ f.command = "forward" => nearFor <= delay + f.age

TimelyInv ==
  /\ front # "near" => nearFor = 0
  /\ \A i \in DOMAIN line : Timely(line[i], 0)
  /\ mcu.command # "stop" => mcu.age <= McuTimeout /\ Timely(mcu, WireDelay)

LEMMA TimelyInit == Init => TimelyInv
<1> SUFFICES ASSUME Init PROVE TimelyInv
  OBVIOUS
<1>1. line = <<>> /\ mcu.command = "stop" /\ nearFor = 0
  BY DEF Init, NoControl
<1>2. QED
  BY <1>1 DEF TimelyInv

LEMMA SendKeepsTimely ==
  ASSUME LineInv, TimelyInv, NEW command \in Commands, NEW since \in 0..CmdTimeout,
         Send(command, since), command = "forward" => front # "near", UNCHANGED nearFor
  PROVE  \A i \in DOMAIN line' : Timely(line[i], 0)'
<1>1. line \in Seq(Frames) /\ nearFor \in Nat
  BY Timeouts DEF LineInv, TypeOK, MaxNear
<1>2. CASE line' = line
  BY <1>2 DEF TimelyInv, Timely
<1>3. CASE line' = Append(line, Sent(command, since))
  <2>1. Timely(Sent(command, since), 0)
    BY Timeouts DEF Timely, Sent, TimelyInv
  <2>2. \A i \in DOMAIN line' : Timely(line'[i], 0)
    BY <1>1, <1>3, <2>1, AppendFrame DEF TimelyInv
  <2>3. QED
    BY <2>2 DEF Timely
<1>4. QED
  BY <1>2, <1>3, SendCases

LEMMA TimelyStep == LineInv /\ TimelyInv /\ [Next]_hostVars => TimelyInv'
<1> SUFFICES ASSUME LineInv, TimelyInv, [Next]_hostVars PROVE TimelyInv'
  OBVIOUS
<1>0. line \in Seq(Frames) /\ nearFor \in Nat /\ mcu \in Held
  BY Timeouts DEF LineInv, TypeOK, MaxNear
<1>1. CASE OnCmdVel
  <2>1. PICK v \in Velocities, valid \in BOOLEAN : Send(Allowed(IF valid THEN v ELSE "zero"), 0)
    BY <1>1 DEF OnCmdVel
  <2>2. (IF valid THEN v ELSE "zero") \in Velocities
    BY DEF Velocities
  <2>3. Allowed(IF valid THEN v ELSE "zero") \in Commands
    BY <2>2, AllowedType DEF Commands
  <2>4. Allowed(IF valid THEN v ELSE "zero") = "forward" => front # "near"
    BY DEF Allowed
  <2>5. 0 \in 0..CmdTimeout
    BY Timeouts
  <2>6. \A i \in DOMAIN line' : Timely(line[i], 0)'
    BY <1>1, <2>1, <2>3, <2>4, <2>5, SendKeepsTimely DEF OnCmdVel
  <2>7. QED
    BY <1>1, <2>6 DEF OnCmdVel, TimelyInv, Timely
<1>2. CASE MaintainCommand
  <2>1. CASE MaintainActive
    <3>1. Allowed(safety.command) \in Commands /\ safety.since \in 0..CmdTimeout
      BY <2>1, AllowedType, Timeouts
         DEF LineInv, TypeOK, Requests, Commands, MaintainActive, TimedOut
    <3>2. Allowed(safety.command) = "forward" => front # "near"
      BY DEF Allowed
    <3>3. \A i \in DOMAIN line' : Timely(line[i], 0)'
      BY <1>2, <2>1, <3>1, <3>2, SendKeepsTimely DEF MaintainActive, MaintainCommand
    <3>4. QED
      BY <1>2, <3>3 DEF MaintainCommand, TimelyInv, Timely
  <2>2. CASE MaintainTimedOut
    <3>1. "stop" \in Commands /\ 0 \in 0..CmdTimeout
      BY Timeouts DEF Commands
    <3>2. \A i \in DOMAIN line' : Timely(line[i], 0)'
      BY <1>2, <2>2, <3>1, SendKeepsTimely DEF MaintainTimedOut, MaintainCommand
    <3>3. QED
      BY <1>2, <3>2 DEF MaintainCommand, TimelyInv, Timely
  <2>3. CASE MaintainIdle
    BY <1>2, <2>3 DEF MaintainCommand, MaintainIdle, TimelyInv, Timely
  <2>4. QED
    BY <1>2, <2>1, <2>2, <2>3 DEF MaintainCommand
<1>3. CASE PublishRange
  <2>1. \A i \in DOMAIN line : line[i].age \in Nat
    BY <1>0, LineFrames, FrameFields
  <2>2. mcu.age \in Nat
    BY <1>0, Timeouts DEF Held
  <2>3. QED
    BY <1>3, <2>1, <2>2, Timeouts DEF PublishRange, TimelyInv, Timely
<1>4. CASE SetParameters
  BY <1>4 DEF SetParameters, TimelyInv, Timely
<1>5. CASE HandleControl
  <2>1. Timely(Head(line), 0) /\ Head(line) \in Frames
    BY <1>0, <1>5, TakeFrame DEF HandleControl, TimelyInv
  <2>2. \A i \in DOMAIN line' : Timely(line[i], 0)'
    BY <1>0, <1>5, TakeFrame DEF HandleControl, TimelyInv, Timely
  <2>3. mcu' = [command |-> Head(line).command, age |-> 0, since |-> Head(line).since]
    BY <1>5, <2>1 DEF HandleControl, Frames
  <2>4. Head(line).age \in 0..WireDelay /\ Head(line).since \in Nat
    BY <2>1 DEF Frames
  <2>5. Timely(mcu, WireDelay)' /\ mcu'.age <= McuTimeout
    BY <1>0, <1>5, <2>1, <2>3, <2>4, Timeouts DEF Timely, HandleControl
  <2>6. QED
    BY <1>5, <2>2, <2>5 DEF HandleControl, TimelyInv
<1>6. CASE Tick
  <2>1. nearFor' <= nearFor + 1 /\ nearFor' \in Nat /\ (front' # "near" => nearFor' = 0)
    BY <1>0, <1>6 DEF Tick, UpTo
  <2>2. ASSUME NEW i \in DOMAIN line' PROVE Timely(line[i], 0)'
    <3>1. i \in DOMAIN line /\ line[i] \in Frames /\ line'[i] = Older(line[i])
      BY <1>0, <1>6, LineFrames DEF Tick
    <3>2. Timely(line[i], 0)
      BY <3>1 DEF TimelyInv
    <3>3. QED
      BY <1>0, <2>1, <3>1, <3>2, FrameFields, Timeouts DEF Timely
  <2>3. ASSUME mcu'.command # "stop" PROVE mcu'.age <= McuTimeout /\ Timely(mcu, WireDelay)'
    <3>1. mcu' = Older(mcu) /\ mcu.age < McuTimeout
      BY <1>6, <2>3 DEF Tick, Aged, NoControl
    <3>2. mcu'.command = mcu.command /\ mcu'.age = mcu.age + 1 /\ mcu'.since = mcu.since + 1
      BY <3>1 DEF Older
    <3>3. mcu.age \in Nat /\ mcu.since \in Nat
      BY <1>0, Timeouts DEF Held
    <3>4. Timely(mcu, WireDelay)
      BY <2>3, <3>2 DEF TimelyInv
    <3>5. QED
      BY <1>0, <2>1, <3>1, <3>2, <3>3, <3>4, Timeouts DEF Timely
  <2>4. QED
    BY <2>1, <2>2, <2>3 DEF TimelyInv
<1>7. CASE UNCHANGED hostVars
  BY <1>7 DEF hostVars, TimelyInv, Timely
<1>8. QED
  BY <1>1, <1>2, <1>3, <1>4, <1>5, <1>6, <1>7 DEF Next

(* No command outlives its message by more than the three delays together   *)
(* (MaintainCommand, RaspiLink_GetControlCommand), whatever is lost.        *)
THEOREM MotionEnds == Spec => []MotionIsRecent
<1>1. LineInv /\ TimelyInv => MotionIsRecent
  <2> SUFFICES ASSUME LineInv, TimelyInv, InForce \in {"forward", "turn"}
               PROVE  mcu.since <= MaxStale
    BY DEF MotionIsRecent
  <2>1. mcu.age <= McuTimeout /\ mcu.since <= CmdTimeout + WireDelay + mcu.age
    BY DEF InForce, TimelyInv, Timely
  <2>2. mcu.age \in Nat /\ mcu.since \in Nat
    BY Timeouts DEF LineInv, TypeOK, Held
  <2>3. QED
    BY <2>1, <2>2, Timeouts DEF MaxStale
<1>2. QED
  BY <1>1, LineInit, LineStep, TimelyInit, TimelyStep, PTL DEF Spec

(* No forward command outlives the report of an obstacle by more than the   *)
(* line and the MCU can hold it (CommandSafety::Evaluate).                  *)
THEOREM ObstacleEndsForward == Spec => []ObstacleReachesCar
<1>1. LineInv /\ TimelyInv => ObstacleReachesCar
  <2> SUFFICES ASSUME LineInv, TimelyInv, InForce = "forward"
               PROVE  nearFor <= MaxNear
    BY Timeouts DEF ObstacleReachesCar, LineInv, TypeOK, MaxNear
  <2>1. mcu.age <= McuTimeout /\ nearFor <= WireDelay + mcu.age
    BY DEF InForce, TimelyInv, Timely
  <2>2. mcu.age \in Nat /\ nearFor \in Nat
    BY Timeouts DEF LineInv, TypeOK, Held, MaxNear
  <2>3. QED
    BY <2>1, <2>2, Timeouts DEF MaxNear
<1>2. QED
  BY <1>1, LineInit, LineStep, TimelyInit, TimelyStep, PTL DEF Spec

-----------------------------------------------------------------------------
(* The command in force while nothing changes.  Frames younger than the     *)
(* calm carry the command that is wanted, and of every frame sent in that   *)
(* time it is known where it is: still on the line, or handled, and then    *)
(* everything behind it is as young.                                        *)
Wanted == Allowed(safety.command)
SentAges == {d \in 0..calm - 1 : d > 0 \/ maintained}
OnTheLine(d) == \E i \in DOMAIN line : line[i].age = d
Arrived(d)   == /\ mcu.command = Wanted /\ mcu.age <= d
                /\ \A i \in DOMAIN line : line[i].age <= d

CalmInv ==
  safety.have =>
    /\ \A i \in DOMAIN line : line[i].age < calm => line[i].command = Wanted
    /\ ~TimedOut => \A d \in SentAges : OnTheLine(d) \/ Arrived(d)

LEMMA CalmInit == Init => CalmInv
BY DEF Init, NoCommand, CalmInv

(* Nothing is claimed while the calm has just ended.                        *)
LEMMA NoCalm ==
  ASSUME LineInv', calm' = 0
  PROVE  CalmInv'
<1>1. line' \in Seq(Frames) /\ SentAges' = {}
  BY DEF LineInv, TypeOK, SentAges
<1>2. \A i \in DOMAIN line' : line'[i] \in Frames
  BY <1>1
<1>3. \A i \in DOMAIN line' : line'[i].age \in Nat
  BY <1>2, FrameFields
<1>4. QED
  BY <1>1, <1>3 DEF CalmInv

(* A frame with the wanted command joins the line.                          *)
LEMMA CalmSend ==
  ASSUME LineInv, CalmInv, LineInv', MaintainCommand, MaintainActive, calm' # 0
  PROVE  CalmInv'
<1>0. line \in Seq(Frames) /\ calm \in Nat /\ calm' = calm
  BY Timeouts DEF LineInv, TypeOK, MaxCalm, MaintainActive
<1>1. line' = Append(line, Sent(Wanted, safety.since))
  BY <1>0, SendCases DEF MaintainActive, Wanted
<1>2. Wanted' = Wanted /\ UNCHANGED <<mcu, safety>> /\ safety.have /\ ~TimedOut /\ ~TimedOut'
  BY DEF MaintainCommand, MaintainActive, Wanted, Allowed, TimedOut
<1>3. Sent(Wanted, safety.since).command = Wanted /\ Sent(Wanted, safety.since).age = 0
  BY DEF Sent
<1>4. \A i \in DOMAIN line' : line'[i].age < calm' => line'[i].command = Wanted'
  BY <1>0, <1>1, <1>2, <1>3, AppendFrame DEF CalmInv
<1>5. ASSUME NEW d \in SentAges' PROVE OnTheLine(d)' \/ Arrived(d)'
  <2>1. d \in Nat /\ d \in 0..calm - 1
    BY <1>0, <1>5 DEF SentAges
  <2>2. CASE d = 0
    BY <1>0, <1>1, <1>3, <2>2, AppendFrame DEF OnTheLine
  <2>3. CASE d # 0
    <3>1. d \in SentAges
      BY <2>1, <2>3 DEF SentAges
    <3>2. OnTheLine(d) \/ Arrived(d)
      BY <1>2, <3>1 DEF CalmInv
    <3>3. CASE OnTheLine(d)
      BY <1>0, <1>1, <3>3, AppendFrame DEF OnTheLine
    <3>4. CASE Arrived(d)
      BY <1>0, <1>1, <1>2, <1>3, <2>1, <3>4, AppendFrame DEF Arrived
    <3>5. QED
      BY <3>2, <3>3, <3>4
  <2>4. QED
    BY <2>2, <2>3
<1>6. QED
  BY <1>4, <1>5 DEF CalmInv

(* The MCU takes the oldest frame: the right one for every send it settles. *)
LEMMA CalmTake ==
  ASSUME LineInv, CalmInv, HandleControl
  PROVE  CalmInv'
<1>0. line \in Seq(Frames) /\ calm \in Nat /\ line # <<>> /\ line' = Tail(line)
  BY Timeouts DEF LineInv, TypeOK, MaxCalm, HandleControl
<1>1. Wanted' = Wanted /\ UNCHANGED <<safety, calm, maintained>>
  BY DEF HandleControl, Wanted, Allowed
<1>2. mcu'.command = line[1].command /\ mcu'.age = 0 /\ 1 \in DOMAIN line
  BY <1>0, TakeFrame DEF HandleControl, Frames
<1>3. \A i \in DOMAIN line : line[i].age \in Nat
  BY <1>0, LineFrames, FrameFields
<1>4. ASSUME safety.have
      PROVE \A i \in DOMAIN line' : line'[i].age < calm' => line'[i].command = Wanted'
  BY <1>0, <1>1, <1>4, TakeFrame DEF CalmInv
<1>5. ASSUME safety.have, ~TimedOut, NEW d \in SentAges PROVE OnTheLine(d)' \/ Arrived(d)'
  <2>1. d \in Nat /\ d < calm
    BY <1>0, <1>5 DEF SentAges
  <2>2. OnTheLine(d) \/ Arrived(d)
    BY <1>5 DEF CalmInv
  <2>3. CASE line[1].age <= d
    <3>1. mcu'.command = Wanted'
      BY <1>0, <1>1, <1>2, <1>3, <1>5, <2>1, <2>3 DEF CalmInv
    <3>2. \A i \in DOMAIN line : line[i].age <= d
      <4>1. ASSUME NEW i \in DOMAIN line PROVE line[i].age <= line[1].age
        BY <1>0, <1>2, <1>3 DEF LineInv, Ordered
      <4>2. QED
        BY <1>2, <1>3, <2>1, <2>3, <4>1
    <3>3. \A i \in DOMAIN line' : line'[i].age <= d
      BY <1>0, <3>2, TakeFrame
    <3>4. QED
      BY <1>2, <2>1, <3>1, <3>3 DEF Arrived
  <2>4. CASE ~(line[1].age <= d)
    <3>1. PICK i \in DOMAIN line : line[i].age = d
      BY <1>2, <2>2, <2>4 DEF OnTheLine, Arrived
    <3>2. i # 1 /\ i \in 1..Len(line) /\ Len(line) \in Nat
      BY <1>0, <2>1, <2>4, <3>1, LineFrames
    <3>3. i - 1 \in DOMAIN line' /\ line'[i - 1] = line[i]
      BY <1>0, <3>2, TakeFrame
    <3>4. QED
      BY <3>1, <3>3 DEF OnTheLine
  <2>5. QED
    BY <2>3, <2>4
<1>6. SentAges' = SentAges /\ TimedOut' = TimedOut
  BY <1>1 DEF SentAges, TimedOut
<1>7. QED
  BY <1>1, <1>4, <1>5, <1>6 DEF CalmInv

(* A period passes: the frames age with the calm, and nothing that was sent *)
(* longer ago than the delay of the line is still on it.                    *)
LEMMA CalmTick ==
  ASSUME LineInv, CalmInv, Tick, calm' # 0
  PROVE  CalmInv'
<1>0. line \in Seq(Frames) /\ calm \in 0..MaxCalm /\ mcu \in Held /\ MaxCalm = WireDelay + 2
  BY DEF LineInv, TypeOK, MaxCalm
<1>1. line' = [i \in DOMAIN line |-> Older(line[i])]
  BY DEF Tick
<1>2. ~busy /\ maintained /\ ~maintained' /\ calm' = UpTo(calm, MaxCalm)
  BY DEF Tick, Overdue, LineInv, TypeOK
<1>3. safety'.have = safety.have /\ safety'.command = safety.command /\ Wanted' = Wanted
  BY DEF Tick, Wanted, Allowed, LineInv, TypeOK, Requests
<1>4. ~TimedOut' /\ safety.have => ~TimedOut
  BY Timeouts DEF Tick, TimedOut, LineInv, TypeOK, Requests, UpTo
<1>5. \A i \in DOMAIN line : /\ line[i].age \in Nat /\ line[i].age < WireDelay
                             /\ line'[i].age = line[i].age + 1
                             /\ line'[i].command = line[i].command
  BY <1>0, <1>1, AgeLine, LineFrames, FrameFields, YoungLine DEF Tick
<1>6. DOMAIN line' = DOMAIN line
  BY <1>0, <1>1, AgeLine
<1>7. calm' <= calm + 1 /\ calm' \in 0..MaxCalm /\ calm' <= MaxCalm
  BY <1>0, <1>2, Timeouts DEF UpTo
<1>8. ASSUME safety.have
      PROVE \A i \in DOMAIN line' : line'[i].age < calm' => line'[i].command = Wanted'
  BY <1>0, <1>3, <1>5, <1>6, <1>7, <1>8, Timeouts DEF CalmInv
<1>9. ASSUME safety.have, ~TimedOut, NEW d \in SentAges' PROVE OnTheLine(d)' \/ Arrived(d)'
  <2>1. d \in 1..calm' - 1
    BY <1>2, <1>7, <1>9, Timeouts DEF SentAges
  <2>2. d - 1 \in SentAges /\ d - 1 \in Nat /\ d - 1 <= WireDelay
    BY <1>0, <1>2, <1>7, <2>1, Timeouts DEF SentAges
  <2>3. OnTheLine(d - 1) \/ Arrived(d - 1)
    BY <1>9, <2>2 DEF CalmInv
  <2>4. CASE OnTheLine(d - 1)
    BY <1>5, <1>6, <2>1, <2>4 DEF OnTheLine
  <2>5. CASE Arrived(d - 1)
    <3>1. mcu.command = Wanted /\ mcu.age <= d - 1 /\ mcu.age \in Nat
      BY <1>0, <2>5, Timeouts DEF Arrived, Held
    <3>2. mcu' = Older(mcu)
      BY <2>2, <3>1, Timeouts DEF Tick, Aged
    <3>3. mcu'.command = Wanted' /\ mcu'.age <= d
      BY <1>3, <2>1, <2>2, <3>1, <3>2 DEF Older
    <3>4. \A i \in DOMAIN line' : line'[i].age <= d
      BY <1>5, <1>6, <2>1, <2>2, <2>5 DEF Arrived
    <3>5. QED
      BY <3>3, <3>4 DEF Arrived
  <2>6. QED
    BY <2>3, <2>4, <2>5
<1>10. QED
  BY <1>3, <1>4, <1>8, <1>9 DEF CalmInv

LEMMA CalmStep == LineInv /\ CalmInv /\ [Next]_hostVars => CalmInv'
<1> SUFFICES ASSUME LineInv, CalmInv, [Next]_hostVars PROVE CalmInv'
  OBVIOUS
<1>0. LineInv'
  BY LineStep
<1>1. CASE calm' = 0
  BY <1>0, <1>1, NoCalm
<1>2. CASE calm' # 0 /\ MaintainCommand
  <2>1. CASE MaintainActive
    BY <1>0, <1>2, <2>1, CalmSend
  <2>2. CASE MaintainTimedOut
    BY <1>2, <2>2 DEF MaintainTimedOut
  <2>3. CASE MaintainIdle
    BY <2>3 DEF MaintainIdle, CalmInv
  <2>4. QED
    BY <1>2, <2>1, <2>2, <2>3 DEF MaintainCommand
<1>3. CASE HandleControl
  BY <1>3, CalmTake
<1>4. CASE calm' # 0 /\ Tick
  BY <1>4, CalmTick
<1>5. CASE UNCHANGED hostVars
  BY <1>5 DEF hostVars, CalmInv, SentAges, OnTheLine, Arrived, Wanted, Allowed, TimedOut
<1>6. QED
  BY <1>1, <1>2, <1>3, <1>4, <1>5 DEF Next, OnCmdVel, PublishRange, SetParameters

(* While nothing changes, nothing is lost and the node is not kept waiting, *)
(* the last command stays in force until its timeout: the repetitions of    *)
(* MaintainCommand keep ahead of the timeout of the MCU, for every delay of *)
(* the line that is shorter than that timeout.                              *)
THEOREM CommandKept == Spec => []CommandHolds
<1>1. LineInv /\ CalmInv => CommandHolds
  <2> SUFFICES ASSUME LineInv, CalmInv, calm = MaxCalm, safety.have, ~TimedOut
               PROVE  InForce = Wanted
    BY DEF CommandHolds, Wanted
  <2>1. WireDelay + 1 \in SentAges
    BY Timeouts DEF SentAges, MaxCalm
  <2>2. OnTheLine(WireDelay + 1) \/ Arrived(WireDelay + 1)
    BY <2>1 DEF CalmInv
  <2>3. ~OnTheLine(WireDelay + 1)
    <3>1. line \in Seq(Frames)
      BY DEF LineInv, TypeOK
    <3>2. \A i \in DOMAIN line : line[i].age \in 0..WireDelay
      BY <3>1, LineFrames DEF Frames
    <3>3. QED
      BY <3>2, Timeouts DEF OnTheLine
  <2>4. QED
    BY <2>2, <2>3 DEF Arrived, InForce
<1>2. QED
  BY <1>1, LineInit, LineStep, CalmInit, CalmStep, PTL DEF Spec
=============================================================================
