------------------------------- MODULE RaspiRx -------------------------------
(***************************************************************************)
(* The receive path of small_car_f407 Comm/Src/raspi_link.c: the ring      *)
(* between the UART interrupt and the control task, the frame parser, and  *)
(* the error interrupt that resets both wherever the task is.  The host    *)
(* writes its frames in order and may give one up half way.                *)
(*                                                                         *)
(* A byte stands for a part of a frame: <<f, 1>> is the sync of frame f,   *)
(* <<f, 2>> its header with the length, <<f, Size[f]>> its CRC and what    *)
(* is between them its payload.  The CRC is ideal.  No payload looks like  *)
(* a sync.                                                                 *)
(***************************************************************************)
EXTENDS Naturals, Sequences, FiniteSets

CONSTANTS
  FrameCount,  \* the host writes the frames 1 .. FrameCount
  Size,        \* parts of each frame
  N,           \* slots of the ring
  MaxPayload,  \* longest payload the parser accepts
  MaxFaults    \* bound on line errors and frames given up

Frames    == 1..FrameCount
ASSUME RxAssumption ==
  /\ FrameCount \in Nat /\ N \in Nat \ {0, 1}
  /\ MaxPayload \in Nat /\ MaxFaults \in Nat
  /\ Size \in [Frames -> 3..MaxPayload + 3]

Bytes     == UNION {{<<f, i>> : i \in 1..Size[f]} : f \in Frames}
Nothing   == <<0, 0>>
Slots     == 0..N - 1

VARIABLES
  line,       \* the part the host writes next: <<frame, part>>
  head, tail, \* g_rx_head, g_rx_tail
  ring,       \* g_rx_ring
  parser,     \* g_parser_state and the frame being collected
  task,       \* where the control task is in TaskStep, and its registers
  handled,    \* frames handed to HandleFrame, in order
  faults,     \* line errors and frames given up so far
  taken,      \* history: the byte PopRxByte returned last, unless torn
  damaged,    \* history: frames of which a part was lost before the parser
  torn        \* history: the last line error has misled the task inside PopRxByte

queueVars == <<head, tail, ring>>
history   == <<damaged, torn>>
rxVars    == <<line, queueVars, parser, task, handled, faults, taken, history>>

Doing(at, byte, slot, state, payload) ==
  [at |-> at, byte |-> byte, slot |-> slot, state |-> state, payload |-> payload]
Frame(state, header, length, payload) ==
  [state |-> state, header |-> header, length |-> length, payload |-> payload]
Idle  == Doing("idle", Nothing, 0, "sync", <<>>)
Empty == Frame("sync", Nothing, 0, <<>>)

Init ==
  /\ line = <<1, 1>>
  /\ head = 0 /\ tail = 0 /\ ring = [s \in Slots |-> Nothing]
  /\ parser = Empty /\ task = Idle
  /\ handled = <<>> /\ faults = 0 /\ taken = Nothing
  /\ damaged = {} /\ torn = FALSE

-----------------------------------------------------------------------------
\* Slips a revision could make; no action uses them.
AlwaysRoom     == TRUE
ResetIndex(p)  == [p EXCEPT !.payload = <<>>]
PopUnchecked ==
  /\ task.at \in {"tailRead", "headRead"}
  /\ task' = Doing("fetch", Nothing, 0, "sync", <<>>)
  /\ UNCHANGED <<line, queueVars, parser, handled, faults, taken, history>>

-----------------------------------------------------------------------------
(* The ring, as a queue.                                                   *)

Wrap(i)  == IF i < N THEN i ELSE i - N
Next1(i) == Wrap(i + 1)
Count    == IF head >= tail THEN head - tail ELSE head + N - tail
Queue    == [i \in 1..Count |-> ring[Wrap(tail + (i - 1))]]

-----------------------------------------------------------------------------
(* The host.                                                               *)

NotSent == line[1] <= FrameCount
Following(b) == IF b[2] = Size[b[1]] THEN <<b[1] + 1, 1>> ELSE <<b[1], b[2] + 1>>

\* The write of the rest of a frame fails for good.
GiveUpFrame ==
  /\ NotSent /\ line[2] > 1 /\ faults < MaxFaults
  /\ line' = <<line[1] + 1, 1>>
  /\ faults' = faults + 1
  /\ damaged' = damaged \cup {line[1]}
  /\ UNCHANGED <<queueVars, parser, task, handled, taken, torn>>

-----------------------------------------------------------------------------
(* The interrupts.                                                         *)

HasRoom == Next1(head) # tail

\* A byte arrives; it is dropped when the ring is full.
OnUartRx ==
  /\ NotSent
  /\ line' = Following(line)
  /\ \/ /\ HasRoom
        /\ ring' = [ring EXCEPT ![head] = line]
        /\ head' = Next1(head)
        /\ UNCHANGED damaged
     \/ /\ ~HasRoom
        /\ damaged' = damaged \cup {line[1]}
        /\ UNCHANGED <<head, ring>>
  /\ UNCHANGED <<tail, parser, task, handled, faults, taken, torn>>

Reset(p) == Frame("sync", p.header, p.length, <<>>)

\* Where PopRxByte has found a byte and works on it.
Popping == {"fetch", "advance", "store"}

\* A line error destroys the byte under way, if there is one, and everything
\* received; the frames that were under way are damaged.
OnUartError ==
  /\ faults < MaxFaults
  /\ line' \in {line} \cup (IF NotSent THEN {Following(line)} ELSE {})
  /\ faults' = faults + 1
  /\ head' = 0 /\ tail' = 0
  /\ parser' = Reset(parser)
  /\ damaged' = damaged \cup {f \in Frames : f < line'[1] \/ (f = line'[1] /\ line'[2] > 1)}
  /\ torn' = (task.at \in Popping \/ (torn /\ task.at \in {"switch", "parse"}))
  /\ UNCHANGED <<ring, task, handled, taken>>

-----------------------------------------------------------------------------
(* The control task.                                                       *)

\* The indices are volatile: each use reads them again.  Which of the two is read first
\* for their comparison is left to the compiler.
PopLook ==
  /\ task.at = "idle"
  /\ \/ task' = Doing("tailRead", Nothing, tail, "sync", <<>>)
     \/ task' = Doing("headRead", Nothing, head, "sync", <<>>)
  /\ UNCHANGED <<line, queueVars, parser, handled, faults, taken, history>>

OtherIndex == IF task.at = "tailRead" THEN head ELSE tail

\* An error between the two reads can make an empty ring look as if it had a byte.
PopCheck ==
  /\ task.at \in {"tailRead", "headRead"}
  /\ \/ /\ task.slot # OtherIndex
        /\ task' = Doing("fetch", Nothing, 0, "sync", <<>>)
        /\ torn' = (torn \/ tail = head)
     \/ /\ task.slot = OtherIndex
        /\ task' = Idle /\ torn' = torn
  /\ UNCHANGED <<line, queueVars, parser, handled, faults, taken, damaged>>

PopFetch ==
  /\ task.at = "fetch"
  /\ task' = Doing("advance", ring[tail], 0, "sync", <<>>)
  /\ UNCHANGED <<line, queueVars, parser, handled, faults, taken, history>>

PopAdvance ==
  /\ task.at = "advance"
  /\ task' = Doing("store", task.byte, tail, "sync", <<>>)
  /\ UNCHANGED <<line, queueVars, parser, handled, faults, taken, history>>

PopStore ==
  /\ task.at = "store"
  /\ tail' = Next1(task.slot)
  /\ taken' = (IF torn THEN taken ELSE task.byte)
  /\ task' = Doing("switch", task.byte, 0, "sync", <<>>)
  /\ UNCHANGED <<line, head, ring, parser, handled, faults, history>>

\* The parser's state is read at the top of ProcessByte and written at its end.
Switch ==
  /\ task.at = "switch"
  /\ task' = Doing("parse", task.byte, 0, parser.state, parser.payload)
  /\ UNCHANGED <<line, queueVars, parser, handled, faults, taken, history>>

\* The length a byte tells when it is read as a header: that of its frame, or
\* any, up to one that is too long, if it is no header.
LengthsOf(b) ==
  IF b[2] = 2 /\ b[1] \in Frames THEN {Size[b[1]] - 3} ELSE 0..MaxPayload + 1

Header(b, n) ==
  Frame(IF n > MaxPayload THEN "sync" ELSE IF n = 0 THEN "crc" ELSE "payload", b, n, <<>>)

Payload(p) ==
  Frame(IF Len(p) >= parser.length THEN "crc" ELSE parser.state,
        parser.header, parser.length, p)

\* The CRC matches the parts of one frame in their order.
Whole(p, crc) ==
  \E f \in Frames : /\ parser.header = <<f, 2>> /\ crc = <<f, Size[f]>>
                    /\ p = [i \in 1..Size[f] - 3 |-> <<f, i + 2>>]

Parsed(b, p) ==
  CASE task.state = "sync" ->
         parser' = (IF b[2] = 1 THEN [parser EXCEPT !.state = "header"] ELSE parser)
    [] task.state = "header"  -> \E n \in LengthsOf(b) : parser' = Header(b, n)
    [] task.state = "payload" -> parser' = Payload(Append(p, b))
    [] task.state = "crc"     -> parser' = Reset(parser)

Handled(b) ==
  IF task.state = "crc" /\ Whole(task.payload, b) THEN Append(handled, b[1]) ELSE handled

\* A reset between Switch and Parse may or may not reach the payload index.
Parse ==
  /\ task.at = "parse"
  /\ \E p \in {task.payload, parser.payload} : Parsed(task.byte, p)
  /\ handled' = Handled(task.byte)
  /\ task' = Idle
  /\ UNCHANGED <<line, queueVars, faults, taken, damaged, torn>>

-----------------------------------------------------------------------------
PopRxByte == PopLook \/ PopCheck \/ PopFetch \/ PopAdvance \/ PopStore
TaskStep  == PopRxByte \/ Switch \/ Parse
Next == GiveUpFrame \/ OnUartRx \/ OnUartError \/ TaskStep
Spec == Init /\ [][Next]_rxVars
\* The task runs every cycle; nothing is assumed of host and line.
FairSpec == Spec /\ WF_rxVars(TaskStep)

-----------------------------------------------------------------------------
(* Properties.                                                             *)

\* Indices stay in the ring, and the payload in its array wherever a line error
\* sets its index back.
TypeOK ==
  /\ line \in Bytes \cup {<<FrameCount + 1, 1>>}
  /\ head \in Slots /\ tail \in Slots
  /\ ring \in [Slots -> Bytes \cup {Nothing}]
  /\ parser.state \in {"sync", "header", "payload", "crc"}
  /\ parser.header \in Bytes \cup {Nothing}
  /\ Len(parser.payload) <= MaxPayload
  /\ parser.length \in 0..MaxPayload + 1
  /\ task.at \in {"idle", "tailRead", "headRead", "switch", "parse"} \cup Popping
  /\ task.byte \in Bytes \cup {Nothing} /\ task.slot \in Slots
  /\ faults \in 0..MaxFaults /\ torn \in BOOLEAN

\* The ring is a queue that loses bytes and never makes them up, repeats or
\* reorders them, as long as no line error misleads the task inside PopRxByte.
Fifo == INSTANCE LossyFifo WITH
  queue <- IF torn THEN <<>> ELSE Queue, Capacity <- N - 1
IsLossyFifo == Fifo!Spec

\* raspi_link.c lines 250-253: after a line error what was received is thrown
\* away and the parser goes on with the next sync; no frame is handled twice.
NothingReplayed ==
  \A i, j \in DOMAIN handled : i < j => handled[i] < handled[j]

\* A frame is handled once and in the order of the host, except after an error that
\* misled the task inside PopRxByte.
HandledInOrder ==
  [][handled' # handled /\ ~torn =>
       \A i \in DOMAIN handled : handled[i] < handled'[Len(handled')]]_rxVars

\* After a frame that was cut short, overflowed or hit by an error the parser is
\* back in step before it has passed over more whole frames than the longest
\* frame can cover: a whole frame that follows as many whole ones is handled, except
\* after an error that misled the task inside PopRxByte, until the next error: the indices
\* it leaves behind make old bytes of the ring look new.  (handled only grows, so that
\* "again and again" is "at last".)
Longest   == MaxPayload + 3
MaxMissed == (Longest + 1) \div 3
Clear(f)  == ~torn /\ line[1] > f /\ damaged \cap (f - MaxMissed)..f = {}
FramesGetThrough ==
  \A f \in MaxMissed + 1..FrameCount :
    []<>(Clear(f) => \E i \in DOMAIN handled : handled[i] = f)

=============================================================================
