----------------------------- MODULE HostControl -----------------------------
(***************************************************************************)
(* From /cmd_vel to the command in force on the car: the base node of      *)
(* robot_host with its CommandSafety, the serial line, and the command the *)
(* MCU holds under its own timeout (raspi_link.c).  The node has one       *)
(* thread; setting a chassis parameter keeps it from everything else for   *)
(* as long as the MCU does not answer.                                     *)
(*                                                                         *)
(* Time is counted in periods of the command timer.  A frame is handled    *)
(* within WireDelay or lost, and a write that fails may be noticed or not. *)
(***************************************************************************)
EXTENDS Naturals, Sequences

CONSTANTS
  CmdTimeout,  \* cmd_vel_timeout_
  McuTimeout,  \* RASPI_CONTROL_TIMEOUT_MS
  WireDelay,   \* time a frame spends in buffers at most
  LineMax      \* bound on the frames in the buffers

ASSUME HostAssumption ==
  /\ {CmdTimeout, McuTimeout, WireDelay} \subseteq Nat /\ WireDelay < McuTimeout
  /\ LineMax \in Nat \ {0}

Velocities == {"forward", "turn", "zero"}
Commands   == Velocities \cup {"stop"}

VARIABLES
  safety,     \* CommandSafety: have_command_, command_, and the time since received_at_
  front,      \* the range CommandSafety knows: "near", "clear" or "invalid"
  busy,       \* the node is inside OnSetParameters
  maintained, \* MaintainCommand has run in this period
  line,       \* CONTROL frames on their way
  mcu,        \* g_host_command and the time since g_last_control_tick
  nearFor,    \* history: how long the host has known of an obstacle
  calm        \* history: how long nothing has changed, been lost or been kept waiting

hostVars == <<safety, front, busy, maintained, line, mcu, nearFor, calm>>

\* since: the time since the message that asked for the command was taken.
NoCommand == [have |-> FALSE, command |-> "zero", since |-> 0]
NoControl == [command |-> "stop", age |-> McuTimeout + 1, since |-> 0]

\* The longest a message can keep the car moving, an obstacle can be ignored, and a
\* change can take to reach the car.
MaxStale == CmdTimeout + WireDelay + McuTimeout
MaxNear  == WireDelay + McuTimeout
MaxCalm  == WireDelay + 2

Init ==
  /\ safety = NoCommand /\ front = "invalid" /\ busy = FALSE /\ maintained = TRUE
  /\ line = <<>> /\ mcu = NoControl
  /\ nearFor = 0 /\ calm = 0

\* A frame, or the command of one, a period later.
Older(c) == [command |-> c.command, age |-> c.age + 1, since |-> c.since + 1]

-----------------------------------------------------------------------------
\* Slips a revision could make; no action uses them.
NeverTimedOut == FALSE
MaintainOnce  == safety.have /\ safety.since <= CmdTimeout /\ UNCHANGED <<safety, line, calm>>
Unlimited(command) == command
-----------------------------------------------------------------------------
(* CommandSafety::Evaluate.                                                *)

TimedOut == safety.since > CmdTimeout
Allowed(command) == IF front = "near" /\ command = "forward" THEN "zero" ELSE command

-----------------------------------------------------------------------------
(* The base node.                                                          *)

\* A frame is written and arrives, or is lost with or without an error; the request
\* for a recovery of the link that follows an error is not modelled.
Send(command, since) ==
  \/ /\ Len(line) < LineMax
     /\ line' = Append(line, [command |-> command, age |-> 0, since |-> since])
  \/ UNCHANGED line

\* A message whose stamp is missing, too old or from the future counts as a stop.
\* Both forms are sent at once, as far as the range allows.
OnCmdVel ==
  /\ ~busy
  /\ \E v \in Velocities, valid \in BOOLEAN :
       LET command == IF valid THEN v ELSE "zero"
       IN  /\ safety' = [have |-> TRUE, command |-> command, since |-> 0]
           /\ Send(Allowed(command), 0)
  /\ calm' = 0
  /\ UNCHANGED <<front, busy, maintained, mcu, nearFor>>

MaintainActive ==
  /\ safety.have /\ ~TimedOut
  /\ Send(Allowed(safety.command), safety.since)
  /\ calm' = IF line' = line THEN 0 ELSE calm
  /\ UNCHANGED safety

\* One stop when the command has timed out; nobody looks at whether it was written.
MaintainTimedOut ==
  /\ safety.have /\ TimedOut
  /\ safety' = NoCommand
  /\ Send("stop", 0)
  /\ calm' = 0

\* Heartbeats leave the command of the MCU alone.
MaintainIdle == ~safety.have /\ UNCHANGED <<safety, line, calm>>

MaintainCommand ==
  /\ ~busy /\ ~maintained
  /\ maintained' = TRUE
  /\ MaintainActive \/ MaintainTimedOut \/ MaintainIdle
  /\ UNCHANGED <<front, busy, mcu, nearFor>>

\* PollController with a new chassis status.
PublishRange ==
  /\ ~busy
  /\ front' \in {"near", "clear", "invalid"} \ {front}
  /\ nearFor' = 0 /\ calm' = 0
  /\ UNCHANGED <<safety, busy, maintained, line, mcu>>

\* OnSetParameters begins or ends.
SetParameters ==
  /\ busy' = ~busy /\ calm' = 0
  /\ UNCHANGED <<safety, front, maintained, line, mcu, nearFor>>

-----------------------------------------------------------------------------
(* The MCU.                                                                *)

HandleControl ==
  /\ line # <<>>
  /\ mcu' = [Head(line) EXCEPT !.age = 0]
  /\ line' = Tail(line)
  /\ UNCHANGED <<safety, front, busy, maintained, nearFor, calm>>

\* A command older than the timeout is no longer handed to the control cycle.
Aged(c) == IF c.age < McuTimeout THEN Older(c) ELSE NoControl
InForce == mcu.command

-----------------------------------------------------------------------------
(* Time.                                                                   *)

UpTo(n, most) == IF n < most THEN n + 1 ELSE n

\* A free node runs its timer, and frames do not stay on the line.
Overdue == \/ ~busy /\ ~maintained
           \/ line # <<>> /\ Head(line).age >= WireDelay

Tick ==
  /\ ~Overdue
  /\ safety' = IF safety.have THEN [safety EXCEPT !.since = UpTo(@, CmdTimeout + 1)] ELSE safety
  /\ maintained' = FALSE
  /\ line' = [i \in DOMAIN line |-> Older(line[i])]
  /\ mcu' = Aged(mcu)
  /\ nearFor' = IF front = "near" THEN UpTo(nearFor, MaxNear + 1) ELSE 0
  /\ calm' = IF busy THEN 0 ELSE UpTo(calm, MaxCalm)
  /\ UNCHANGED <<front, busy>>

-----------------------------------------------------------------------------
Next == OnCmdVel \/ MaintainCommand \/ PublishRange \/ SetParameters \/ HandleControl \/ Tick
Spec == Init /\ [][Next]_hostVars

-----------------------------------------------------------------------------
(* Properties.                                                             *)

Requests == [have : BOOLEAN, command : Velocities, since : 0..CmdTimeout + 1]
Frames   == [command : Commands, age : 0..WireDelay, since : Nat]
Held     == [command : Commands, age : 0..McuTimeout + 1, since : Nat]

TypeOK ==
  /\ safety \in Requests
  /\ front \in {"near", "clear", "invalid"} /\ busy \in BOOLEAN /\ maintained \in BOOLEAN
  /\ line \in Seq(Frames)
  /\ mcu \in Held
  /\ nearFor \in 0..MaxNear + 1 /\ calm \in 0..MaxCalm

\* deployment.md line 99: the node stops the car when no valid command has come for its
\* timeout, and the MCU has a timeout of its own.  Together they end every motion,
\* whichever writes fail, frames are lost and however long the node is kept busy.
MotionIsRecent == InForce \in {"forward", "turn"} => mcu.since <= MaxStale

\* The host does not drive the car on towards an obstacle it has known of for as long
\* as the line and the MCU can hold a command.
ObstacleReachesCar == nearFor > MaxNear => InForce # "forward"

\* While nothing is lost and the node is not kept waiting the car does what the last
\* message says: the timeout of the MCU does not end a command that is in force.
CommandHolds == calm = MaxCalm /\ safety.have /\ ~TimedOut => InForce = Allowed(safety.command)

=============================================================================
