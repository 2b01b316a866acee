------------------------------ MODULE LossyFifo ------------------------------
(***************************************************************************)
(* What a receive buffer between an interrupt and a task promises: a byte  *)
(* that arrives is kept or lost, everything kept may be thrown away at     *)
(* once, and what the task takes is the oldest byte that is still there.   *)
(***************************************************************************)
EXTENDS Naturals, Sequences

CONSTANTS Bytes, Capacity, Nothing

VARIABLES queue, taken

Init == queue = <<>> /\ taken = Nothing

Put   == /\ Len(queue) < Capacity
         /\ \E b \in Bytes : queue' = Append(queue, b)
         /\ UNCHANGED taken
Take  == /\ queue # <<>>
         /\ taken' = Head(queue) /\ queue' = Tail(queue)
Clear == /\ queue' = <<>>
         /\ UNCHANGED taken

Next == Put \/ Take \/ Clear
Spec == Init /\ [][Next]_<<queue, taken>>
=============================================================================
