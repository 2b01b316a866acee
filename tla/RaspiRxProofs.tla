---------------------------- MODULE RaspiRxProofs ----------------------------
(* Theorems about RaspiRx, for every number and size of frames, every size *)
(* of the ring and any number of line errors.                              *)
EXTENDS RaspiRx, SequenceTheorems, TLAPS

Kept    == Bytes \cup {Nothing}
Sent    == Bytes \cup {<<FrameCount + 1, 1>>}
States  == {"sync", "header", "payload", "crc"}
Parsers == [state : States, header : Kept, length : 0..MaxPayload + 1, payload : Seq(Kept)]
Places  == {"idle", "tailRead", "headRead", "switch", "parse"} \cup Popping
Tasks   == [at : Places, byte : Kept, slot : Slots,
            state : States, payload : Seq(Kept)]

-----------------------------------------------------------------------------
(* Types.  The payload fits its array because its index is below the length *)
(* whenever a byte is stored, also after a line error has set it back       *)
(* between the two halves of ProcessByte.                                   *)

FieldInv ==
  /\ line \in Sent
  /\ head \in Slots /\ tail \in Slots
  /\ ring \in [Slots -> Kept]
  /\ parser \in Parsers /\ task \in Tasks
  /\ faults \in 0..MaxFaults /\ torn \in BOOLEAN

Below(p)   == Len(p) < parser.length
PayloadInv ==
  /\ Len(parser.payload) <= MaxPayload
  /\ parser.state = "payload" => parser.length <= MaxPayload /\ Below(parser.payload)
  /\ task.at = "parse" /\ task.state = "payload" =>
       parser.length <= MaxPayload /\ Below(parser.payload) /\ Below(task.payload)

LEMMA Sizes ==
  /\ FrameCount \in Nat /\ N \in Nat /\ N > 1 /\ MaxPayload \in Nat /\ MaxFaults \in Nat
  /\ 0 \in Slots
  /\ \A f \in Frames : Size[f] \in Nat /\ 3 <= Size[f] /\ Size[f] <= MaxPayload + 3
BY RxAssumption DEF Slots

LEMMA ByteParts ==
  ASSUME NEW b
  PROVE  b \in Bytes <=> \E f \in Frames : \E i \in 1..Size[f] : b = <<f, i>>
BY DEF Bytes

LEMMA FollowingSent == ASSUME NEW b \in Bytes PROVE Following(b) \in Sent
<1>f. PICK f \in Frames : \E i \in 1..Size[f] : b = <<f, i>>
  BY ByteParts
<1>1. PICK i \in 1..Size[f] : b = <<f, i>>
  BY <1>f
<1>2. CASE i = Size[f]
  <2>1. Following(b) = <<f + 1, 1>>
    BY <1>1, <1>2 DEF Following
  <2>2. CASE f = FrameCount
    BY <2>1, <2>2 DEF Sent
  <2>3. CASE f # FrameCount
    <3>1. f + 1 \in Frames
      BY <2>3, Sizes DEF Frames
    <3>2. 1 \in 1..Size[f + 1]
      BY <3>1, Sizes
    <3>3. QED
      BY <2>1, <3>1, <3>2, ByteParts DEF Sent
  <2>4. QED
    BY <2>2, <2>3
<1>3. CASE i # Size[f]
  <2>1. Following(b) = <<f, i + 1>> /\ i + 1 \in 1..Size[f]
    BY <1>1, <1>3, Sizes DEF Following
  <2>2. QED
    BY <2>1, ByteParts DEF Sent
<1>4. QED
  BY <1>2, <1>3

LEMMA NotSentByte == ASSUME line \in Sent, NotSent PROVE line \in Bytes
BY Sizes DEF Sent, NotSent

LEMMA GiveUpSent ==
  ASSUME line \in Bytes PROVE <<line[1] + 1, 1>> \in Sent
<1>f. PICK f \in Frames : \E i \in 1..Size[f] : line = <<f, i>>
  BY ByteParts
<1>1. PICK i \in 1..Size[f] : line = <<f, i>>
  BY <1>f
<1>2. <<f, Size[f]>> \in Bytes
  <2>1. Size[f] \in 1..Size[f]
    BY Sizes
  <2>2. QED
    BY <2>1, ByteParts
<1>3. Following(<<f, Size[f]>>) = <<f + 1, 1>>
  BY DEF Following
<1>4. QED
  BY <1>1, <1>2, <1>3, FollowingSent

LEMMA WrapSlot == ASSUME NEW s \in Slots PROVE Next1(s) \in Slots
BY Sizes DEF Slots, Next1, Wrap

LEMMA ResetParser ==
  ASSUME NEW p \in Parsers
  PROVE  /\ Reset(p) \in Parsers /\ Reset(p).state = "sync" /\ Reset(p).payload = <<>>
         /\ Reset(p).length = p.length
BY DEF Parsers, Reset, Frame, States

LEMMA IdleTask == Idle \in Tasks
BY Sizes DEF Tasks, Places, Idle, Doing, Kept, States

LEMMA InitInv == Init => FieldInv /\ PayloadInv
<1> SUFFICES ASSUME Init PROVE FieldInv /\ PayloadInv
  OBVIOUS
<1>1. line \in Sent
  <2>1. CASE FrameCount = 0
    BY <2>1 DEF Init, Sent
  <2>2. CASE FrameCount # 0
    <3>1. 1 \in Frames
      BY <2>2, Sizes DEF Frames
    <3>2. 1 \in 1..Size[1]
      BY <3>1, Sizes
    <3>3. QED
      BY <3>1, <3>2, ByteParts DEF Init, Sent
  <2>3. QED
    BY <2>1, <2>2
<1>2. parser \in Parsers /\ parser.state = "sync" /\ parser.payload = <<>>
  BY Sizes DEF Init, Empty, Frame, Parsers, States, Kept
<1>3. QED
  <2>1. FieldInv
    <3>1. ring \in [Slots -> Kept]
      BY DEF Init, Kept
    <3>2. head \in Slots /\ tail \in Slots /\ faults \in 0..MaxFaults /\ torn \in BOOLEAN
      BY Sizes DEF Init
    <3>3. task \in Tasks
      BY IdleTask DEF Init
    <3>4. QED
      BY <1>1, <1>2, <3>1, <3>2, <3>3 DEF FieldInv
  <2>2. PayloadInv
    BY <1>2, Sizes DEF Init, PayloadInv, Idle, Doing
  <2>3. QED
    BY <2>1, <2>2

-----------------------------------------------------------------------------
(* Every step keeps the types.                                             *)

LEMMA ParserFields ==
  ASSUME FieldInv
  PROVE  /\ parser.state \in States /\ parser.header \in Kept
         /\ parser.length \in Nat /\ parser.length <= MaxPayload + 1
         /\ parser.payload \in Seq(Kept) /\ Len(parser.payload) \in Nat
         /\ task.byte \in Kept /\ task.slot \in Slots /\ task.state \in States
         /\ task.payload \in Seq(Kept) /\ Len(task.payload) \in Nat
<1>1. parser.length \in 0..MaxPayload + 1
  BY DEF FieldInv, Parsers
<1>2. QED
  BY <1>1, Sizes DEF FieldInv, Parsers, Tasks

LEMMA Initials == Nothing \in Kept /\ "sync" \in States /\ <<>> \in Seq(Kept) /\ 0 \in Slots
BY Sizes DEF Kept, States

LEMMA DoingTask ==
  ASSUME NEW at \in Places, NEW byte \in Kept,
         NEW slot \in Slots, NEW state \in States, NEW payload \in Seq(Kept)
  PROVE  /\ Doing(at, byte, slot, state, payload) \in Tasks
         /\ Doing(at, byte, slot, state, payload).at = at
BY DEF Tasks, Doing

LEMMA SwitchTask ==
  ASSUME NEW byte \in Kept
  PROVE  /\ Doing("switch", byte, 0, "sync", <<>>) \in Tasks
         /\ Doing("switch", byte, 0, "sync", <<>>).at = "switch"
BY Initials DEF Tasks, Places, Doing

LEMMA FrameParser ==
  ASSUME NEW state \in States, NEW header \in Kept, NEW length \in 0..MaxPayload + 1,
         NEW payload \in Seq(Kept)
  PROVE  Frame(state, header, length, payload) \in Parsers
BY DEF Parsers, Frame

(* What ProcessByte makes of the parser.                                    *)
LEMMA ParsedType ==
  ASSUME FieldInv, PayloadInv, task.at = "parse",
         NEW p \in {task.payload, parser.payload}, Parsed(task.byte, p)
  PROVE  /\ parser' \in Parsers /\ Len(parser'.payload) <= MaxPayload
         /\ parser'.state = "payload" =>
              parser'.length <= MaxPayload /\ Len(parser'.payload) < parser'.length
<1>0. /\ parser.length \in 0..MaxPayload + 1 /\ parser \in Parsers
      /\ p \in Seq(Kept)
  BY ParserFields, Sizes DEF FieldInv
<1>1. CASE task.state = "sync"
  <2>1. parser' = parser \/ parser' = [parser EXCEPT !.state = "header"]
    BY <1>1 DEF Parsed
  <2>2. CASE parser' = parser
    BY <2>2, <1>0 DEF PayloadInv, Below
  <2>3. CASE parser' = [parser EXCEPT !.state = "header"]
    BY <2>3, <1>0 DEF Parsers, States, PayloadInv
  <2>4. QED
    BY <2>1, <2>2, <2>3
<1>2. CASE task.state = "header"
  <2>1. PICK n \in LengthsOf(task.byte) : parser' = Header(task.byte, n)
    BY <1>2 DEF Parsed
  <2>2. n \in 0..MaxPayload + 1
    BY <2>1, Sizes DEF LengthsOf
  <2> DEFINE state == IF n > MaxPayload THEN "sync" ELSE IF n = 0 THEN "crc" ELSE "payload"
  <2>3. parser' = Frame(state, task.byte, n, <<>>)
    BY <2>1 DEF Header
  <2>4. state \in States /\ (state = "payload" => ~(n > MaxPayload) /\ n # 0)
    BY DEF States
  <2> HIDE DEF state
  <2>5. parser' \in Parsers
    BY <2>2, <2>3, <2>4, FrameParser, ParserFields, Initials
  <2>6. parser'.length = n /\ parser'.payload = <<>> /\ parser'.state = state
    BY <2>3 DEF Frame
  <2>7. QED
    BY <2>2, <2>4, <2>5, <2>6, Sizes
<1>3. CASE task.state = "payload"
  <2>1. parser' = Payload(Append(p, task.byte))
    BY <1>3 DEF Parsed
  <2>2. Append(p, task.byte) \in Seq(Kept) /\ Len(Append(p, task.byte)) = Len(p) + 1
        /\ Len(p) \in Nat /\ Len(p) < parser.length /\ parser.length <= MaxPayload
    BY <1>0, <1>3, ParserFields DEF PayloadInv, Below
  <2>3. parser' \in Parsers
    BY <2>1, <2>2, <1>0, FrameParser, ParserFields DEF Payload, States
  <2>4. /\ parser'.payload = Append(p, task.byte) /\ parser'.length = parser.length
        /\ parser'.state = "payload" => ~(Len(p) + 1 >= parser.length)
    BY <2>1, <2>2 DEF Payload, Frame
  <2>5. QED
    BY <2>2, <2>3, <2>4, <1>0, Sizes
<1>4. CASE task.state = "crc"
  BY <1>4, <1>0, ResetParser, Sizes DEF Parsed
<1>5. QED
  BY <1>1, <1>2, <1>3, <1>4, ParserFields DEF States

LEMMA StepInv == FieldInv /\ PayloadInv /\ [Next]_rxVars => FieldInv' /\ PayloadInv'
<1> SUFFICES ASSUME FieldInv, PayloadInv, [Next]_rxVars PROVE FieldInv' /\ PayloadInv'
  OBVIOUS
<1>1. CASE GiveUpFrame
  <2>1. line' \in Sent
    BY <1>1, NotSentByte, GiveUpSent DEF GiveUpFrame, FieldInv
  <2>2. faults' \in 0..MaxFaults
    BY <1>1, Sizes DEF GiveUpFrame, FieldInv
  <2>3. QED
    BY <1>1, <2>1, <2>2 DEF GiveUpFrame, FieldInv, PayloadInv, Below, queueVars
<1>2. CASE OnUartRx
  <2>1. line \in Bytes /\ line' \in Sent
    BY <1>2, NotSentByte, FollowingSent DEF OnUartRx, FieldInv
  <2>2. head' \in Slots /\ ring' \in [Slots -> Kept]
    BY <1>2, <2>1, WrapSlot DEF OnUartRx, FieldInv, Kept
  <2>3. QED
    BY <1>2, <2>1, <2>2 DEF OnUartRx, FieldInv, PayloadInv, Below
<1>3. CASE OnUartError
  <2>1. line' \in Sent
    BY <1>3, NotSentByte, FollowingSent DEF OnUartError, FieldInv
  <2>2. faults' \in 0..MaxFaults
    BY <1>3, Sizes DEF OnUartError, FieldInv
  <2>3. parser' \in Parsers /\ parser'.state = "sync" /\ parser'.payload = <<>>
        /\ parser'.length = parser.length
    BY <1>3, ResetParser DEF OnUartError, FieldInv
  <2>4. torn' \in BOOLEAN /\ head' \in Slots /\ tail' \in Slots /\ UNCHANGED <<ring, task>>
    BY <1>3, Sizes DEF OnUartError
  <2>5. FieldInv'
    BY <2>1, <2>2, <2>3, <2>4 DEF FieldInv
  <2>6. PayloadInv'
    BY <2>3, <2>4, ParserFields, Sizes DEF PayloadInv, Below
  <2>7. QED
    BY <2>5, <2>6
<1>4. CASE PopLook \/ PopCheck
  <2>1. /\ "tailRead" \in Places /\ "headRead" \in Places /\ "fetch" \in Places
        /\ head \in Slots /\ tail \in Slots /\ torn \in BOOLEAN
    BY DEF Places, Popping, FieldInv
  <2>2. task' \in Tasks /\ task'.at # "parse"
    <3>1. \/ task' = Doing("tailRead", Nothing, tail, "sync", <<>>)
          \/ task' = Doing("headRead", Nothing, head, "sync", <<>>)
          \/ task' = Doing("fetch", Nothing, 0, "sync", <<>>)
          \/ task' = Idle
      BY <1>4 DEF PopLook, PopCheck
    <3>2. CASE task' = Doing("tailRead", Nothing, tail, "sync", <<>>)
      BY <2>1, <3>2, DoingTask, Initials
    <3>3. CASE task' = Doing("headRead", Nothing, head, "sync", <<>>)
      BY <2>1, <3>3, DoingTask, Initials
    <3>4. CASE task' = Doing("fetch", Nothing, 0, "sync", <<>>)
      BY <2>1, <3>4, DoingTask, Initials
    <3>5. CASE task' = Idle
      BY <3>5, IdleTask DEF Idle, Doing
    <3>6. QED
      BY <3>1, <3>2, <3>3, <3>4, <3>5
  <2>3. torn' \in BOOLEAN /\ UNCHANGED <<line, head, tail, ring, parser, faults>>
    BY <1>4, <2>1 DEF PopLook, PopCheck, queueVars, history
  <2>4. QED
    BY <2>2, <2>3 DEF FieldInv, PayloadInv, Below
<1>5. CASE PopFetch \/ PopAdvance
  <2>1. /\ ring[tail] \in Kept /\ tail \in Slots /\ task.byte \in Kept
        /\ "advance" \in Places /\ "store" \in Places
    BY ParserFields DEF FieldInv, Places, Popping
  <2>2. task' \in Tasks /\ task'.at # "parse"
    <3>1. CASE PopFetch
      BY <2>1, <3>1, DoingTask, Initials DEF PopFetch
    <3>2. CASE PopAdvance
      BY <2>1, <3>2, DoingTask, Initials DEF PopAdvance
    <3>3. QED
      BY <1>5, <3>1, <3>2
  <2>3. UNCHANGED <<line, head, tail, ring, parser, faults, torn>>
    BY <1>5 DEF PopFetch, PopAdvance, queueVars, history
  <2>4. QED
    BY <2>2, <2>3 DEF FieldInv, PayloadInv, Below
<1>6. CASE PopStore
  <2>0. task' = Doing("switch", task.byte, 0, "sync", <<>>) /\ task.byte \in Kept
    BY <1>6, ParserFields DEF PopStore
  <2>1. task' \in Tasks /\ task'.at = "switch"
    BY <2>0, SwitchTask
  <2>2. tail' \in Slots
    BY <1>6, ParserFields, WrapSlot DEF PopStore
  <2>3. QED
    BY <1>6, <2>1, <2>2 DEF PopStore, FieldInv, PayloadInv, Below, history
<1>7. CASE Switch
  <2>1. /\ task' \in Tasks /\ task'.at = "parse"
        /\ task'.state = parser.state /\ task'.payload = parser.payload
    BY <1>7, DoingTask, ParserFields, Sizes DEF Switch, Doing, Places
  <2>2. QED
    BY <1>7, <2>1 DEF Switch, FieldInv, PayloadInv, Below, queueVars, history
<1>8. CASE Parse
  <2>1. PICK p \in {task.payload, parser.payload} : Parsed(task.byte, p)
    BY <1>8 DEF Parse
  <2>2. task' = Idle /\ task'.at = "idle"
    BY <1>8 DEF Parse, Idle, Doing
  <2>3. QED
    BY <1>8, <2>1, <2>2, ParsedType, IdleTask DEF Parse, FieldInv, PayloadInv, Below, queueVars
<1>9. CASE UNCHANGED rxVars
  BY <1>9 DEF rxVars, queueVars, history, FieldInv, PayloadInv, Below
<1>10. QED
  BY <1>1, <1>2, <1>3, <1>4, <1>5, <1>6, <1>7, <1>8, <1>9 DEF Next, TaskStep, PopRxByte

(* raspi_link.c lines 281-349: the indices stay inside the ring and the     *)
(* payload index inside the payload, wherever in PopRxByte and ProcessByte  *)
(* line errors set them back.                                               *)
THEOREM RxTypeCorrect == Spec => []TypeOK
<1>1. FieldInv /\ PayloadInv => TypeOK
  <2>1. FieldInv => parser.state \in States /\ parser.header \in Kept
                 /\ parser.length \in 0..MaxPayload + 1
                 /\ task.byte \in Kept /\ task.slot \in Slots
                 /\ task.at \in Places
    BY DEF FieldInv, Parsers, Tasks
  <2>2. QED
    BY <2>1 DEF TypeOK, FieldInv, PayloadInv, Kept, Sent, States, Places
<1>2. QED
  BY <1>1, InitInv, StepInv, PTL DEF Spec

-----------------------------------------------------------------------------
(* The ring as a queue.  The queue is empty exactly if the indices are     *)
(* equal; a byte stored goes to its end, a byte popped was its head.       *)

LEMMA FunctionEqual ==
  ASSUME NEW S, NEW s \in Seq(S), NEW n \in Nat, Len(s) = n, NEW f,
         f = [i \in 1..n |-> f[i]], \A i \in 1..n : f[i] = s[i]
  PROVE  f = s
<1>1. s = [i \in 1..n |-> s[i]]
  OBVIOUS
<1>2. QED
  BY <1>1

LEMMA QueueShape ==
  ASSUME FieldInv
  PROVE  /\ Count \in 0..N - 1 /\ Count \in Nat
         /\ Count = 0 <=> head = tail
         /\ DOMAIN Queue = 1..Count /\ Len(Queue) = Count
         /\ Queue \in Seq(Kept)
         /\ \A i \in 1..Count : Queue[i] = ring[Wrap(tail + (i - 1))]
         /\ \A i \in 1..Count : Wrap(tail + (i - 1)) \in Slots /\ Wrap(tail + (i - 1)) # head
         /\ HasRoom <=> Count < N - 1
<1>1. head \in 0..N - 1 /\ tail \in 0..N - 1 /\ N \in Nat /\ N > 1 /\ ring \in [Slots -> Kept]
  BY Sizes DEF FieldInv, Slots
<1>2. Count \in 0..N - 1 /\ (Count = 0 <=> head = tail)
  BY <1>1 DEF Count
<1>3. \A i \in 1..Count : Wrap(tail + (i - 1)) \in Slots /\ Wrap(tail + (i - 1)) # head
  BY <1>1 DEF Count, Wrap, Slots
<1>4. HasRoom <=> Count < N - 1
  BY <1>1 DEF HasRoom, Next1, Wrap, Count
<1>5. /\ DOMAIN Queue = 1..Count
      /\ \A i \in 1..Count : Queue[i] = ring[Wrap(tail + (i - 1))] /\ Queue[i] \in Kept
  BY <1>1, <1>3 DEF Queue
<1>6. Queue \in Seq(Kept) /\ Len(Queue) = Count
  <2>1. Queue \in [1..Count -> Kept]
    BY <1>5 DEF Queue
  <2>2. QED
    BY <1>2, <2>1
<1>7. QED
  BY <1>1, <1>2, <1>3, <1>4, <1>5, <1>6

LEMMA Stored ==
  ASSUME FieldInv, HasRoom, line \in Bytes, tail' = tail,
         ring' = [ring EXCEPT ![head] = line], head' = Next1(head)
  PROVE  /\ Queue' = Append(Queue, line) /\ Count' = Count + 1
         /\ \A i \in 1..Count : Queue'[i] = Queue[i]
         /\ Queue'[Count + 1] = line
<1>1. head \in 0..N - 1 /\ tail \in 0..N - 1 /\ N \in Nat /\ N > 1 /\ ring \in [Slots -> Kept]
      /\ head \in Slots
  BY Sizes DEF FieldInv, Slots
<1>2. Count' = Count + 1
  BY <1>1 DEF HasRoom, Next1, Wrap, Count
<1>3. Wrap(tail + ((Count + 1) - 1)) = head
  BY <1>1 DEF Wrap, Count
<1>4. Queue' = [i \in 1..Count + 1 |-> ring'[Wrap(tail + (i - 1))]]
  BY <1>2 DEF Queue
<1>5. \A i \in 1..Count : ring'[Wrap(tail + (i - 1))] = Queue[i]
  BY <1>1, QueueShape
<1>6. ring'[Wrap(tail + ((Count + 1) - 1))] = line
  BY <1>1, <1>3
<1>7. /\ Append(Queue, line) \in Seq(Kept) /\ Len(Append(Queue, line)) = Count + 1
      /\ \A i \in 1..Count : Append(Queue, line)[i] = Queue[i]
      /\ Append(Queue, line)[Count + 1] = line
  BY QueueShape, AppendProperties DEF Kept
<1>8. \A i \in 1..Count + 1 : i \in 1..Count \/ i = Count + 1
  BY QueueShape
<1>9. \A i \in 1..Count + 1 : ring'[Wrap(tail + (i - 1))] = Append(Queue, line)[i]
  BY <1>5, <1>6, <1>7, <1>8
<1>10. QED
  <2> DEFINE a == Append(Queue, line)
             q == Queue'
  <2>1. /\ a \in Seq(Kept) /\ Len(a) = Count + 1 /\ Count + 1 \in Nat
        /\ q = [i \in 1..Count + 1 |-> q[i]] /\ \A i \in 1..Count + 1 : q[i] = a[i]
    BY <1>4, <1>7, <1>9, QueueShape
  <2> HIDE DEF a, q
  <2>2. q = a
    BY <2>1, FunctionEqual
  <2>3. QED
    BY <1>2, <1>7, <2>2 DEF a, q

LEMMA Popped ==
  ASSUME FieldInv, tail # head, tail' = Next1(tail), UNCHANGED <<head, ring>>
  PROVE  /\ Queue # <<>> /\ Head(Queue) = ring[tail] /\ Queue' = Tail(Queue)
         /\ Count # 0 /\ Count' = Count - 1 /\ Queue[1] = ring[tail]
         /\ \A i \in 1..Count - 1 : Queue'[i] = Queue[i + 1]
<1>1. head \in 0..N - 1 /\ tail \in 0..N - 1 /\ N \in Nat /\ N > 1
  BY Sizes DEF FieldInv, Slots
<1>2. Count \in Nat /\ Count # 0 /\ Count' = Count - 1
  BY <1>1, QueueShape DEF Next1, Wrap, Count
<1>3. Queue # <<>> /\ Head(Queue) = Queue[1] /\ 1 \in 1..Count /\ Len(Queue) = Count
  BY <1>2, QueueShape
<1>4. Wrap(tail + (1 - 1)) = tail
  BY <1>1 DEF Wrap
<1>5. Head(Queue) = ring[tail]
  BY <1>3, <1>4, QueueShape
<1>6. Queue' = [i \in 1..Count - 1 |-> ring[Wrap(tail' + (i - 1))]]
  BY <1>2 DEF Queue
<1>7. \A i \in 1..Count - 1 : /\ i + 1 \in 1..Count
                              /\ Wrap(tail' + (i - 1)) = Wrap(tail + ((i + 1) - 1))
  BY <1>1, <1>2, QueueShape DEF Next1, Wrap
<1>8. \A i \in 1..Count - 1 : ring[Wrap(tail' + (i - 1))] = Queue[i + 1]
  BY <1>7, QueueShape
<1>9. /\ Tail(Queue) \in Seq(Kept) /\ Len(Tail(Queue)) = Count - 1
      /\ \A i \in 1..Count - 1 : Tail(Queue)[i] = Queue[i + 1]
  BY <1>3, QueueShape, HeadTailProperties
<1>10. \A i \in 1..Count - 1 : ring[Wrap(tail' + (i - 1))] = Tail(Queue)[i]
  BY <1>8, <1>9
<1>11. QED
  <2> DEFINE a == Tail(Queue)
             q == Queue'
  <2>1. /\ a \in Seq(Kept) /\ Len(a) = Count - 1 /\ Count - 1 \in Nat
        /\ q = [i \in 1..Count - 1 |-> q[i]] /\ \A i \in 1..Count - 1 : q[i] = a[i]
    BY <1>2, <1>6, <1>9, <1>10, QueueShape
  <2> HIDE DEF a, q
  <2>2. q = a
    BY <2>1, FunctionEqual
  <2>3. QED
    BY <1>2, <1>3, <1>5, <1>9, <2>2 DEF a, q

-----------------------------------------------------------------------------
(* The refinement of LossyFifo.  While no line error has misled PopRxByte, its *)
(* steps work on a slot that is in the queue and stays its head.              *)

PopInv ==
  ~torn => /\ task.at \in Popping => tail # head
           /\ task.at \in {"advance", "store"} => task.byte = ring[tail]
           /\ task.at = "store" => task.slot = tail

LEMMA SameQueue == ASSUME UNCHANGED <<head, tail, ring>> PROVE Queue' = Queue /\ Count' = Count
BY DEF Queue, Count

LEMMA ErrorEmpties == ASSUME OnUartError PROVE Count' = 0 /\ Queue' = <<>>
<1>1. Count' = 0
  BY DEF OnUartError, Count
<1>2. QED
  BY <1>1 DEF Queue

LEMMA InitPop == Init => PopInv
BY DEF Init, PopInv, Popping, Idle, Doing

LEMMA StepPop == FieldInv /\ PopInv /\ [Next]_rxVars => PopInv'
<1> SUFFICES ASSUME FieldInv, PopInv, [Next]_rxVars PROVE PopInv'
  OBVIOUS
<1>1. CASE OnUartRx
  <2>1. UNCHANGED <<task, torn, tail>>
    BY <1>1 DEF OnUartRx
  <2>2. CASE UNCHANGED <<head, ring>>
    BY <2>1, <2>2 DEF PopInv
  <2>3. CASE HasRoom /\ ring' = [ring EXCEPT ![head] = line] /\ head' = Next1(head)
    <3>1. tail' # head' /\ (tail # head => ring'[tail] = ring[tail])
      BY <2>1, <2>3 DEF HasRoom, FieldInv
    <3>2. QED
      BY <2>1, <3>1 DEF PopInv, Popping
  <2>4. QED
    BY <1>1, <2>2, <2>3 DEF OnUartRx
<1>2. CASE OnUartError
  BY <1>2 DEF OnUartError, PopInv, Popping
<1>3. CASE PopLook \/ PopCheck
  <2>1. UNCHANGED <<head, tail, ring>> /\ torn \in BOOLEAN
    BY <1>3 DEF PopLook, PopCheck, queueVars, FieldInv
  <2>2. task'.at \notin Popping \/ (task'.at = "fetch" /\ torn' = (torn \/ tail = head))
    BY <1>3 DEF PopLook, PopCheck, Popping, Idle, Doing
  <2>3. ~torn' /\ task'.at \in Popping => task'.at = "fetch" /\ tail # head
    BY <2>1, <2>2
  <2>4. QED
    BY <2>1, <2>3 DEF PopInv, Popping
<1>4. CASE PopFetch \/ PopAdvance
  BY <1>4 DEF PopFetch, PopAdvance, PopInv, Popping, Doing, queueVars, history
<1>5. CASE PopStore \/ Switch
  BY <1>5 DEF PopStore, Switch, PopInv, Popping, Doing, queueVars, history
<1>6. CASE Parse
  BY <1>6 DEF Parse, PopInv, Popping, Idle, Doing
<1>7. CASE GiveUpFrame \/ UNCHANGED rxVars
  BY <1>7 DEF GiveUpFrame, PopInv, rxVars, queueVars, history
<1>8. QED
  BY <1>1, <1>2, <1>3, <1>4, <1>5, <1>6, <1>7 DEF Next, TaskStep, PopRxByte

(* raspi_link.c lines 237-291: the ring between interrupt and task is a     *)
(* queue that may lose bytes, and everything at once, and does nothing      *)
(* else, until a line error hits the task between two of its uses of them.  *)
THEOREM RingIsLossyFifo == Spec => IsLossyFifo
<1> DEFINE q == IF torn THEN <<>> ELSE Queue
<1>1. Init => Fifo!Init
  <2>1. Init => Count = 0 /\ ~torn /\ taken = Nothing
    BY DEF Init, Count
  <2>2. Count = 0 => Queue = <<>>
    BY DEF Queue
  <2>3. QED
    BY <2>1, <2>2 DEF Fifo!Init
<1>2. ASSUME FieldInv, PopInv, [Next]_rxVars
      PROVE  [Fifo!Next]_<<q, taken>>
  <2>1. CASE OnUartRx
    <3>1. UNCHANGED <<torn, taken, tail>>
      BY <2>1 DEF OnUartRx
    <3>2. CASE UNCHANGED <<head, ring>>
      BY <3>1, <3>2, SameQueue
    <3>3. CASE HasRoom /\ ring' = [ring EXCEPT ![head] = line] /\ head' = Next1(head)
      <4>1. line \in Bytes
        BY <1>2, <2>1, NotSentByte DEF OnUartRx, FieldInv
      <4>2. Queue' = Append(Queue, line) /\ Len(Queue) < N - 1
        BY <1>2, <3>1, <3>3, <4>1, Stored, QueueShape
      <4>3. CASE torn
        BY <3>1, <4>3
      <4>4. CASE ~torn
        BY <3>1, <4>1, <4>2, <4>4 DEF Fifo!Next, Fifo!Put
      <4>5. QED
        BY <4>3, <4>4
    <3>4. QED
      BY <2>1, <3>2, <3>3 DEF OnUartRx
  <2>2. CASE OnUartError
    <3>1. q' = <<>> /\ taken' = taken
      BY <2>2, ErrorEmpties DEF OnUartError
    <3>2. QED
      BY <3>1 DEF Fifo!Next, Fifo!Clear
  <2>3. CASE PopStore
    <3>1. UNCHANGED <<torn, head, ring>> /\ tail' = Next1(task.slot)
      BY <2>3 DEF PopStore, history
    <3>2. CASE torn
      BY <2>3, <3>1, <3>2 DEF PopStore
    <3>3. CASE ~torn
      <4>1. tail # head /\ task.slot = tail /\ taken' = ring[tail]
        BY <1>2, <2>3, <3>3 DEF PopStore, PopInv, Popping
      <4>2. Queue # <<>> /\ Head(Queue) = ring[tail] /\ Queue' = Tail(Queue)
        BY <1>2, <3>1, <4>1, Popped
      <4>3. QED
        BY <3>1, <3>3, <4>1, <4>2 DEF Fifo!Next, Fifo!Take
    <3>4. QED
      BY <3>2, <3>3
  <2>4. CASE GiveUpFrame \/ PopLook \/ PopFetch \/ PopAdvance \/ Switch \/ Parse
             \/ UNCHANGED rxVars
    <3>1. UNCHANGED <<torn, taken, head, tail, ring>>
      BY <2>4 DEF GiveUpFrame, PopLook, PopFetch, PopAdvance, Switch, Parse, rxVars, queueVars,
                  history
    <3>2. QED
      BY <3>1, SameQueue
  <2>5. CASE PopCheck
    <3>1. UNCHANGED <<taken, head, tail, ring>> /\ (torn' = torn \/ torn' = (torn \/ tail = head))
      BY <2>5 DEF PopCheck, queueVars
    <3>2. torn \in BOOLEAN /\ (tail = head => Queue = <<>>)
      BY <1>2, QueueShape, EmptySeq DEF FieldInv
    <3>3. QED
      BY <3>1, <3>2, SameQueue
  <2>6. QED
    BY <1>2, <2>1, <2>2, <2>3, <2>4, <2>5 DEF Next, TaskStep, PopRxByte
<1>3. Spec => [](FieldInv /\ PayloadInv /\ PopInv)
  BY InitInv, InitPop, StepInv, StepPop, PTL DEF Spec
<1>4. FieldInv /\ PopInv /\ [Next]_rxVars => [Fifo!Next]_<<q, taken>>
  BY <1>2
<1>5. QED
  BY <1>1, <1>3, <1>4, PTL DEF Spec, IsLossyFifo, Fifo!Spec

-----------------------------------------------------------------------------
(* Order.  What is in the ring, in the hands of the task and handled is in *)
(* the order of the host, and everything kept is older than what the host  *)
(* writes next, also when a line error has made old slots look new.        *)

Before(x, y) == x[1] < y[1] \/ (x[1] = y[1] /\ x[2] < y[2])

AgeInv ==
  /\ \A s \in Slots : ring[s] # Nothing => Before(ring[s], line)
  /\ task.byte # Nothing => Before(task.byte, line)
  /\ handled \in Seq(Frames)
  /\ \A i \in DOMAIN handled : handled[i] < line[1]

QueueOrder ==
  /\ \A i \in 1..Count : Queue[i] \in Bytes
  /\ \A i, j \in 1..Count : i < j => Before(Queue[i], Queue[j])
  /\ \A i \in DOMAIN handled : \A k \in 1..Count : handled[i] < Queue[k][1]
ByteOrder ==
  task.at \in {"switch", "parse"} =>
    /\ task.byte \in Bytes
    /\ \A k \in 1..Count : Before(task.byte, Queue[k])
    /\ \A i \in DOMAIN handled : handled[i] < task.byte[1]
OrderInv == ~torn => QueueOrder /\ ByteOrder

LEMMA Parts ==
  ASSUME NEW b \in Sent
  PROVE  /\ b[1] \in Nat /\ b[2] \in Nat /\ b # Nothing
         /\ b[1] \in Frames => b[2] <= Size[b[1]]
         /\ b \in Bytes => b[1] \in Frames
<1>1. CASE b \in Bytes
  <2>f. PICK f \in Frames : \E i \in 1..Size[f] : b = <<f, i>>
    BY <1>1, ByteParts
  <2>1. PICK i \in 1..Size[f] : b = <<f, i>>
    BY <2>f
  <2>2. f \in Nat /\ f # 0 /\ i \in Nat /\ i <= Size[f] /\ b[1] = f /\ b[2] = i
    BY <2>1, Sizes DEF Frames
  <2>3. QED
    BY <2>2 DEF Nothing
<1>2. CASE b = <<FrameCount + 1, 1>>
  <2>1. b[1] = FrameCount + 1 /\ b[2] = 1 /\ FrameCount + 1 \notin Frames
    BY <1>2, Sizes DEF Frames
  <2>2. b \notin Bytes
    BY <2>1, ByteParts
  <2>3. QED
    BY <2>1, <2>2, Sizes DEF Nothing
<1>3. QED
  BY <1>1, <1>2 DEF Sent

LEMMA BeforeTrans ==
  ASSUME NEW a \in Sent, NEW b \in Sent, NEW c \in Sent, Before(a, b), Before(b, c)
  PROVE  Before(a, c) /\ a[1] <= b[1]
BY Parts DEF Before

LEMMA FollowingLater ==
  ASSUME NEW b \in Bytes PROVE Before(b, Following(b)) /\ Before(b, <<b[1] + 1, 1>>)
<1>1. b[1] \in Nat /\ b[2] \in Nat
  BY Parts DEF Sent
<1>2. QED
  BY <1>1 DEF Following, Before

LEMMA LastPart ==
  ASSUME NEW f \in Frames, NEW b \in Sent, Before(<<f, Size[f]>>, b) PROVE f < b[1]
<1>1. f \in Nat /\ Size[f] \in Nat
  BY Sizes DEF Frames
<1>2. QED
  BY <1>1, Parts DEF Before

(* The host only goes on.                                                   *)
LEMMA LineAdvances ==
  ASSUME FieldInv, [Next]_rxVars
  PROVE  line' = line \/ (line \in Bytes /\ line' \in Sent /\ Before(line, line'))
<1>1. NotSent => line \in Bytes
  BY NotSentByte DEF FieldInv
<1>2. line \in Bytes => Following(line) \in Sent /\ <<line[1] + 1, 1>> \in Sent
  BY FollowingSent, GiveUpSent
<1>3. line' = line \/ (NotSent /\ line' \in {Following(line), <<line[1] + 1, 1>>})
  <2>1. CASE GiveUpFrame
    BY <2>1 DEF GiveUpFrame
  <2>2. CASE OnUartRx
    BY <2>2 DEF OnUartRx
  <2>3. CASE OnUartError
    BY <2>3 DEF OnUartError
  <2>4. CASE TaskStep \/ UNCHANGED rxVars
    BY <2>4 DEF TaskStep, PopRxByte, PopLook, PopCheck, PopFetch, PopAdvance, PopStore, Switch,
                Parse, rxVars
  <2>5. QED
    BY <2>1, <2>2, <2>3, <2>4 DEF Next
<1>4. QED
  BY <1>1, <1>2, <1>3, FollowingLater

(* A frame is handled when its last part is parsed.                         *)
LEMMA HandledCases ==
  ASSUME FieldInv, AgeInv, Parse
  PROVE  \/ handled' = handled
         \/ /\ task.byte \in Bytes /\ task.byte[1] \in Frames
            /\ task.byte = <<task.byte[1], Size[task.byte[1]]>>
            /\ handled' = Append(handled, task.byte[1])
<1>1. CASE task.state = "crc" /\ Whole(task.payload, task.byte)
  <2>1. PICK f \in Frames : task.byte = <<f, Size[f]>>
    BY <1>1 DEF Whole
  <2>2. Size[f] \in 1..Size[f]
    BY Sizes
  <2>3. task.byte \in Bytes /\ task.byte[1] = f
    BY <2>1, <2>2, ByteParts
  <2>4. QED
    BY <1>1, <2>1, <2>3 DEF Parse, Handled
<1>2. CASE ~(task.state = "crc" /\ Whole(task.payload, task.byte))
  BY <1>2 DEF Parse, Handled
<1>3. QED
  BY <1>1, <1>2

LEMMA AppendedFrame ==
  ASSUME handled \in Seq(Frames), NEW f \in Frames, handled' = Append(handled, f)
  PROVE  /\ handled' \in Seq(Frames)
         /\ \A i \in DOMAIN handled' : (i \in DOMAIN handled /\ handled'[i] = handled[i])
                                       \/ handled'[i] = f
         /\ handled'[Len(handled')] = f
OBVIOUS

LEMMA FrameNumbers ==
  ASSUME NEW s \in Seq(Frames)
  PROVE  \A i \in DOMAIN s : s[i] \in Frames /\ s[i] \in Nat
<1>1. \A i \in DOMAIN s : s[i] \in Frames
  OBVIOUS
<1>2. QED
  BY <1>1, Sizes DEF Frames

LEMMA InitOrder == Init => AgeInv /\ OrderInv
BY DEF Init, AgeInv, OrderInv, QueueOrder, ByteOrder, Count, Idle, Doing

LEMMA OlderStays ==
  ASSUME FieldInv, [Next]_rxVars, NEW b \in Kept, b # Nothing => Before(b, line)
  PROVE  b # Nothing => Before(b, line')
<1>1. b # Nothing => b \in Sent
  BY DEF Kept, Sent
<1>2. QED
  BY <1>1, LineAdvances, BeforeTrans DEF FieldInv

LEMMA StepAge == FieldInv /\ AgeInv /\ [Next]_rxVars => AgeInv'
<1> SUFFICES ASSUME FieldInv, AgeInv, [Next]_rxVars PROVE AgeInv'
  OBVIOUS
<1>1. ASSUME NEW s \in Slots PROVE ring'[s] # Nothing => Before(ring'[s], line')
  <2>1. ring[s] \in Kept /\ (ring[s] # Nothing => Before(ring[s], line))
    BY DEF FieldInv, AgeInv
  <2>2. CASE ring' = ring
    BY <2>1, <2>2, OlderStays
  <2>3. CASE OnUartRx /\ ring' = [ring EXCEPT ![head] = line]
    <3>1. line' = Following(line) /\ line \in Bytes
      BY <2>3, NotSentByte DEF OnUartRx, FieldInv
    <3>2. CASE s = head
      BY <2>3, <3>1, <3>2, FollowingLater DEF FieldInv
    <3>3. CASE s # head
      BY <2>1, <2>3, <3>3, OlderStays DEF FieldInv
    <3>4. QED
      BY <3>2, <3>3
  <2>4. ring' = ring \/ (OnUartRx /\ ring' = [ring EXCEPT ![head] = line])
    BY DEF Next, TaskStep, PopRxByte, GiveUpFrame, OnUartRx, OnUartError, PopLook, PopCheck,
       PopFetch, PopAdvance, PopStore,
       Switch, Parse, rxVars, queueVars
  <2>5. QED
    BY <2>2, <2>3, <2>4
<1>2. task'.byte # Nothing => Before(task'.byte, line')
  <2>1. CASE task'.byte = Nothing
    BY <2>1
  <2>2. CASE task'.byte = task.byte
    BY <2>2, OlderStays, ParserFields DEF AgeInv
  <2>3. CASE PopFetch
    <3>1. task'.byte = ring[tail] /\ line' = line
      BY <2>3 DEF PopFetch, Doing
    <3>2. QED
      BY <3>1 DEF AgeInv, FieldInv
  <2>4. task'.byte = Nothing \/ task'.byte = task.byte \/ PopFetch
    BY DEF Next, TaskStep, PopRxByte, GiveUpFrame, OnUartRx, OnUartError, PopLook, PopCheck,
       PopAdvance, PopStore,
       Switch, Parse, rxVars, Idle, Doing
  <2>5. QED
    BY <2>1, <2>2, <2>3, <2>4
<1>3. handled' \in Seq(Frames) /\ \A i \in DOMAIN handled' : handled'[i] < line'[1]
  <2>0. line \in Sent /\ handled \in Seq(Frames)
    BY DEF FieldInv, AgeInv
  <2>1. line'[1] \in Nat /\ line[1] \in Nat /\ line[1] <= line'[1]
    BY <2>0, LineAdvances, Parts DEF Before, Sent
  <2>2. CASE handled' = handled
    <3>1. \A i \in DOMAIN handled : handled[i] \in Nat /\ handled[i] < line[1]
      BY <2>0, FrameNumbers DEF AgeInv
    <3>2. QED
      BY <2>0, <2>1, <2>2, <3>1
  <2>3. CASE Parse
    <3>1. CASE handled' = handled
      BY <2>2, <3>1
    <3>2. CASE /\ task.byte \in Bytes /\ task.byte[1] \in Frames
               /\ task.byte = <<task.byte[1], Size[task.byte[1]]>>
               /\ handled' = Append(handled, task.byte[1])
      <4>1. task.byte[1] < line[1]
        BY <2>0, <3>2, LastPart, Parts DEF AgeInv, Sent
      <4>2. \A i \in DOMAIN handled' :
              (i \in DOMAIN handled /\ handled'[i] = handled[i]) \/ handled'[i] = task.byte[1]
        BY <2>0, <3>2, AppendedFrame
      <4>3. handled' \in Seq(Frames)
        BY <2>0, <3>2, AppendedFrame
      <4>4. \A i \in DOMAIN handled' : handled'[i] \in Nat /\ handled'[i] < line[1]
        BY <4>1, <4>2, <4>3, FrameNumbers DEF AgeInv
      <4>5. QED
        BY <2>1, <4>3, <4>4
    <3>3. QED
      BY <2>3, <3>1, <3>2, HandledCases
  <2>4. handled' = handled \/ Parse
    BY DEF Next, TaskStep, PopRxByte, GiveUpFrame, OnUartRx, OnUartError, PopLook, PopCheck,
       PopFetch, PopAdvance, PopStore,
       Switch, rxVars
  <2>5. QED
    BY <2>2, <2>3, <2>4
<1>4. QED
  BY <1>1, <1>2, <1>3 DEF AgeInv

LEMMA SameOrder ==
  ASSUME QueueOrder, UNCHANGED <<head, tail, ring, handled>> PROVE QueueOrder'
BY SameQueue DEF QueueOrder

LEMMA SameByteOrder ==
  ASSUME ByteOrder, UNCHANGED <<head, tail, ring, handled>>,
         task'.at \in {"switch", "parse"} =>
           task.at \in {"switch", "parse"} /\ task'.byte = task.byte
  PROVE  ByteOrder'
BY SameQueue DEF ByteOrder

LEMMA StoredOrder ==
  ASSUME FieldInv, AgeInv, QueueOrder, ByteOrder, HasRoom, line \in Bytes,
         ring' = [ring EXCEPT ![head] = line], head' = Next1(head),
         UNCHANGED <<tail, task, handled>>
  PROVE  QueueOrder' /\ ByteOrder'
<1>1. /\ Count' = Count + 1 /\ Queue'[Count + 1] = line
      /\ \A i \in 1..Count : Queue'[i] = Queue[i]
  BY Stored
<1>2. Count \in Nat
  BY QueueShape
<1>3. \A i \in 1..Count' : i \in 1..Count \/ i = Count + 1
  BY <1>1, <1>2
<1>4. ASSUME NEW i \in 1..Count PROVE Before(Queue[i], line)
  <2>1. Queue[i] \in Bytes /\ Queue[i] # Nothing
    BY Parts DEF QueueOrder, Sent
  <2>2. PICK s \in Slots : Queue[i] = ring[s]
    BY QueueShape
  <2>3. QED
    BY <2>1, <2>2 DEF AgeInv
<1>5. QueueOrder'
  <2>1. \A i \in 1..Count' : Queue'[i] \in Bytes
    BY <1>1, <1>3 DEF QueueOrder
  <2>2. ASSUME NEW i \in 1..Count', NEW j \in 1..Count', i < j
        PROVE  Before(Queue'[i], Queue'[j])
    <3>1. i \in 1..Count
      BY <1>1, <1>2, <2>2
    <3>2. CASE j \in 1..Count
      BY <1>1, <2>2, <3>1, <3>2 DEF QueueOrder
    <3>3. CASE j = Count + 1
      BY <1>1, <1>4, <3>1, <3>3
    <3>4. QED
      BY <1>3, <3>2, <3>3
  <2>3. \A i \in DOMAIN handled : \A k \in 1..Count' : handled[i] < Queue'[k][1]
    BY <1>1, <1>3 DEF QueueOrder, AgeInv
  <2>4. QED
    BY <2>1, <2>2, <2>3 DEF QueueOrder
<1>6. ByteOrder'
  <2>1. SUFFICES ASSUME task.at \in {"switch", "parse"}
                 PROVE  \A k \in 1..Count' : Before(task.byte, Queue'[k])
    BY DEF ByteOrder
  <2>2. Before(task.byte, line)
    BY <2>1, Parts DEF ByteOrder, AgeInv, Sent
  <2>3. QED
    BY <1>1, <1>3, <2>1, <2>2 DEF ByteOrder
<1>7. QED
  BY <1>5, <1>6

LEMMA PoppedOrder ==
  ASSUME FieldInv, QueueOrder, PopStore, tail # head, task.slot = tail, task.byte = ring[tail]
  PROVE  QueueOrder' /\ ByteOrder'
<1>1. /\ Count # 0 /\ Count' = Count - 1 /\ Queue[1] = ring[tail]
      /\ \A i \in 1..Count - 1 : Queue'[i] = Queue[i + 1]
  BY Popped DEF PopStore
<1>2. Count \in Nat /\ 1 \in 1..Count /\ \A i \in 1..Count - 1 : i + 1 \in 1..Count /\ 1 < i + 1
  BY <1>1, QueueShape
<1>3. handled' = handled /\ task'.byte = Queue[1]
  BY <1>1 DEF PopStore, Doing
<1>4. QueueOrder'
  <2>1. ASSUME NEW i \in 1..Count', NEW j \in 1..Count', i < j
        PROVE  Before(Queue'[i], Queue'[j])
    <3>1. i + 1 < j + 1 /\ i \in 1..Count - 1 /\ j \in 1..Count - 1
      BY <1>1, <1>2, <2>1
    <3>2. QED
      BY <1>1, <1>2, <3>1 DEF QueueOrder
  <2>2. QED
    BY <1>1, <1>2, <1>3, <2>1 DEF QueueOrder
<1>5. ByteOrder'
  <2>1. Queue[1] \in Bytes /\ \A i \in DOMAIN handled : handled[i] < Queue[1][1]
    BY <1>2 DEF QueueOrder
  <2>2. \A k \in 1..Count' : Before(Queue[1], Queue'[k])
    BY <1>1, <1>2 DEF QueueOrder
  <2>3. QED
    BY <1>3, <2>1, <2>2 DEF ByteOrder
<1>6. QED
  BY <1>4, <1>5

LEMMA ParsedOrder ==
  ASSUME FieldInv, AgeInv, QueueOrder, ByteOrder, Parse
  PROVE  QueueOrder' /\ ByteOrder'
<1>1. UNCHANGED <<head, tail, ring>> /\ task'.at = "idle" /\ task.at = "parse"
  BY DEF Parse, queueVars, Idle, Doing
<1>2. Queue' = Queue /\ Count' = Count
  BY <1>1, SameQueue
<1>3. ByteOrder'
  BY <1>1 DEF ByteOrder
<1>4. CASE handled' = handled
  BY <1>1, <1>3, <1>4, SameOrder
<1>5. CASE /\ task.byte \in Bytes /\ task.byte[1] \in Frames
           /\ task.byte = <<task.byte[1], Size[task.byte[1]]>>
           /\ handled' = Append(handled, task.byte[1])
  <2>1. \A k \in 1..Count : task.byte[1] < Queue[k][1]
    <3> TAKE k \in 1..Count
    <3>1. Queue[k] \in Sent /\ Before(task.byte, Queue[k])
      BY <1>1 DEF QueueOrder, ByteOrder, Sent
    <3>2. QED
      BY <1>5, <3>1, LastPart
  <2>2. \A i \in DOMAIN handled' :
          (i \in DOMAIN handled /\ handled'[i] = handled[i]) \/ handled'[i] = task.byte[1]
    BY <1>5, AppendedFrame DEF AgeInv
  <2>3. QED
    BY <1>2, <1>3, <2>1, <2>2 DEF QueueOrder
<1>6. QED
  BY <1>4, <1>5, HandledCases

LEMMA StepOrder ==
  FieldInv /\ PopInv /\ AgeInv /\ OrderInv /\ [Next]_rxVars => OrderInv'
<1> SUFFICES ASSUME FieldInv, PopInv, AgeInv, OrderInv, [Next]_rxVars, ~torn'
             PROVE  QueueOrder' /\ ByteOrder'
  BY DEF OrderInv
<1>1. CASE OnUartError
  <2>1. Count' = 0 /\ UNCHANGED <<task, handled>>
    BY <1>1, ErrorEmpties DEF OnUartError
  <2>2. QueueOrder'
    BY <2>1 DEF QueueOrder
  <2>3. task.at \in {"switch", "parse"} => ByteOrder
    BY <1>1 DEF OnUartError, OrderInv
  <2>4. ByteOrder'
    BY <2>1, <2>3 DEF ByteOrder
  <2>5. QED
    BY <2>2, <2>4
<1>2. CASE ~OnUartError
  <2>0. ~torn
    BY <1>2 DEF Next, TaskStep, PopRxByte, GiveUpFrame, OnUartRx, PopLook, PopCheck, PopFetch,
       PopAdvance, PopStore, Switch, Parse, rxVars, history
  <2>1. QueueOrder /\ ByteOrder
    BY <2>0 DEF OrderInv
  <2>2. CASE OnUartRx
    <3>1. UNCHANGED <<tail, task, handled>> /\ line \in Bytes
      BY <2>2, NotSentByte DEF OnUartRx, FieldInv
    <3>2. CASE UNCHANGED <<head, ring>>
      BY <2>1, <3>1, <3>2, SameOrder, SameByteOrder
    <3>3. CASE HasRoom /\ ring' = [ring EXCEPT ![head] = line] /\ head' = Next1(head)
      BY <2>1, <3>1, <3>3, StoredOrder
    <3>4. QED
      BY <2>2, <3>2, <3>3 DEF OnUartRx
  <2>3. CASE PopStore
    BY <2>0, <2>1, <2>3, PoppedOrder DEF PopInv, Popping, PopStore
  <2>4. CASE Parse
    BY <2>1, <2>4, ParsedOrder
  <2>5. CASE GiveUpFrame \/ PopLook \/ PopCheck \/ PopFetch \/ PopAdvance \/ Switch
             \/ UNCHANGED rxVars
    <3>1. UNCHANGED <<head, tail, ring, handled>>
      BY <2>5 DEF GiveUpFrame, PopLook, PopCheck, PopFetch, PopAdvance, Switch, rxVars,
                  queueVars
    <3>2. task'.at \in {"switch", "parse"} =>
            task.at \in {"switch", "parse"} /\ task'.byte = task.byte
      BY <2>5 DEF GiveUpFrame, PopLook, PopCheck, PopFetch, PopAdvance, Switch, rxVars, Idle,
                  Doing
    <3>3. QED
      BY <2>1, <3>1, <3>2, SameOrder, SameByteOrder
  <2>6. QED
    BY <1>2, <2>2, <2>3, <2>4, <2>5 DEF Next, TaskStep, PopRxByte
<1>3. QED
  BY <1>1, <1>2

(* raspi_link.c lines 248-254, 335-347: frames are handled in the order of  *)
(* the host and none twice, whatever was lost, given up or reset before,    *)
(* except after an error inside PopRxByte.                                  *)
THEOREM FramesInOrder == Spec => HandledInOrder
<1>1. Spec => [](FieldInv /\ PayloadInv /\ PopInv /\ AgeInv /\ OrderInv)
  BY InitInv, InitPop, InitOrder, StepInv, StepPop, StepAge, StepOrder, PTL DEF Spec
<1>2. ASSUME FieldInv, AgeInv, OrderInv, [Next]_rxVars, handled' # handled, ~torn
      PROVE  \A i \in DOMAIN handled : handled[i] < handled'[Len(handled')]
  <2>1. Parse
    BY <1>2 DEF Next, TaskStep, PopRxByte, GiveUpFrame, OnUartRx, OnUartError, PopLook, PopCheck,
       PopFetch, PopAdvance, PopStore, Switch, rxVars
  <2>2. handled'[Len(handled')] = task.byte[1]
    BY <1>2, <2>1, HandledCases, AppendedFrame DEF AgeInv
  <2>3. QED
    BY <1>2, <2>1, <2>2 DEF OrderInv, ByteOrder, Parse
<1>3. FieldInv /\ AgeInv /\ OrderInv /\ [Next]_rxVars =>
        [handled' # handled /\ ~torn =>
           \A i \in DOMAIN handled : handled[i] < handled'[Len(handled')]]_rxVars
  BY <1>2
<1>4. QED
  BY <1>1, <1>3, PTL DEF Spec, HandledInOrder

=============================================================================
