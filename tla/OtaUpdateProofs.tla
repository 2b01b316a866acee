--------------------------- MODULE OtaUpdateProofs ---------------------------
(* Theorems about OtaUpdate: the update script, its line and the bootloader *)
(* together, for every image, every number of tries and every fault.        *)
EXTENDS OtaUpdate, OtaBootloaderProofs, FiniteSetTheorems

-----------------------------------------------------------------------------
(* Queues: what is in one after its head has left it or another entry has   *)
(* joined.                                                                  *)
Elems(s) == {s[i] : i \in DOMAIN s}

LEMMA TailElems ==
  ASSUME NEW T, NEW s \in Seq(T), s # <<>>
  PROVE  /\ Tail(s) \in Seq(T) /\ Elems(Tail(s)) \subseteq Elems(s) /\ Head(s) \in Elems(s)
         /\ Len(s) \in Nat \ {0} /\ DOMAIN s = 1 .. Len(s) /\ Head(s) = s[1]
         /\ DOMAIN Tail(s) = 1 .. Len(s) - 1
         /\ \A i \in 1 .. Len(s) - 1 : Tail(s)[i] = s[i + 1]
<1>1. Len(s) \in Nat \ {0} /\ DOMAIN s = 1 .. Len(s) /\ Head(s) = s[1]
  OBVIOUS
<1>2. /\ Tail(s) \in Seq(T) /\ DOMAIN Tail(s) = 1 .. Len(s) - 1
      /\ \A i \in 1 .. Len(s) - 1 : Tail(s)[i] = s[i + 1]
  OBVIOUS
<1>3. \A i \in 1 .. Len(s) - 1 : i + 1 \in 1 .. Len(s)
  BY <1>1
<1>4. Elems(Tail(s)) \subseteq Elems(s)
  BY <1>1, <1>2, <1>3 DEF Elems
<1>5. Head(s) \in Elems(s)
  BY <1>1 DEF Elems
<1>6. QED
  BY <1>1, <1>2, <1>4, <1>5

LEMMA AppendElems ==
  ASSUME NEW T, NEW s \in Seq(T), NEW x
  PROVE  /\ Elems(Append(s, x)) = Elems(s) \cup {x}
         /\ Len(s) \in Nat /\ DOMAIN s = 1 .. Len(s) /\ DOMAIN Append(s, x) = 1 .. Len(s) + 1
         /\ \A i \in 1 .. Len(s) : Append(s, x)[i] = s[i]
         /\ Append(s, x)[Len(s) + 1] = x
<1>1. s \in Seq(T \cup {x}) /\ x \in T \cup {x}
  OBVIOUS
<1>2. /\ Len(s) \in Nat /\ DOMAIN s = 1 .. Len(s) /\ DOMAIN Append(s, x) = 1 .. Len(s) + 1
      /\ \A i \in 1 .. Len(s) : Append(s, x)[i] = s[i]
      /\ Append(s, x)[Len(s) + 1] = x
  BY <1>1
<1>3. \A e : e \in Elems(Append(s, x)) <=> e \in Elems(s) \/ e = x
  <2>1. ASSUME NEW e, e \in Elems(Append(s, x)) PROVE e \in Elems(s) \/ e = x
    <3>1. PICK i \in 1 .. Len(s) + 1 : e = Append(s, x)[i]
      BY <1>2, <2>1 DEF Elems
    <3>2. i \in 1 .. Len(s) \/ i = Len(s) + 1
      BY <1>2
    <3>3. QED
      BY <1>2, <3>1, <3>2 DEF Elems
  <2>2. ASSUME NEW e, e \in Elems(s) PROVE e \in Elems(Append(s, x))
    <3>1. PICK i \in 1 .. Len(s) : e = s[i]
      BY <1>2, <2>2 DEF Elems
    <3>2. i \in 1 .. Len(s) + 1 /\ e = Append(s, x)[i]
      BY <1>2, <3>1
    <3>3. QED
      BY <1>2, <3>2 DEF Elems
  <2>3. x \in Elems(Append(s, x))
    <3>1. Len(s) + 1 \in 1 .. Len(s) + 1
      BY <1>2
    <3>2. QED
      BY <1>2, <3>1 DEF Elems
  <2>4. QED
    BY <2>1, <2>2, <2>3
<1>4. QED
  BY <1>2, <1>3

LEMMA OwnElems ==
  /\ Elems(<<>>) = {}
  /\ \A T : \A s \in Seq(T) : s \in Seq(Elems(s))
<1>1. Elems(<<>>) = {}
  BY DEF Elems
<1>2. ASSUME NEW T, NEW s \in Seq(T) PROVE s \in Seq(Elems(s))
  <2>1. Len(s) \in Nat /\ DOMAIN s = 1 .. Len(s) /\ s = [i \in 1 .. Len(s) |-> s[i]]
    OBVIOUS
  <2>2. s \in [1 .. Len(s) -> Elems(s)]
    BY <2>1 DEF Elems
  <2>3. QED
    BY <2>1, <2>2
<1>3. QED
  BY <1>1, <1>2

-----------------------------------------------------------------------------
(* The script by itself: its place in the image goes with its phase, and it *)
(* waits only while it runs.                                                *)
HostType == [phase : Phases, seq : Seqs, waiting : BOOLEAN, off : Sizes, tries : Nat]
Searching == {"enterInfo", "enterHello", "enterEnter", "pollInfo", "pollHello"}

HostInv ==
  /\ target \in Targets /\ host \in HostType
  /\ host.tries < IF host.phase = "data" THEN DataTries ELSE Polls
  /\ runs \in 0 .. MaxRuns /\ faults \in 0 .. MaxFaults
  /\ host.waiting => host.phase \notin {"done", "failed"}
  /\ host.phase \in Searching \cup {"begin", "done", "failed"} => host.off = 0
  /\ host.phase = "data" => host.off < target.man.size
  /\ host.phase = "end" => host.off = target.man.size

TypeInv == TypeOK /\ HostInv /\ outbox \in Seq(Elems(outbox))

LEMMA TargetType ==
  ASSUME NEW t \in Targets
  PROVE  /\ t \in Signed /\ t.man \in Manifest /\ t.data \in Seq(Blocks)
         /\ Len(t.data) = t.man.size /\ t.man.size \in Nat \ {0} /\ t.man.size \in Sizes
         /\ \A i \in 1 .. t.man.size : t.data[i] \in Blocks
         /\ Hmac(t.man, t.data) \in Digests
<1>1. /\ t \in Signed /\ t.man \in Manifest /\ t.data \in Seq(Blocks)
      /\ Len(t.data) = t.man.size /\ t.man.size > 0
  BY UpdateAssumption, SigningAssumption
<1>2. t.man.size \in Sizes /\ t.man.size \in Nat
  BY <1>1, GeometryAssumption DEF Manifest, Sizes
<1>3. Hmac(t.man, t.data) \in Digests
  BY <1>1 DEF Digests
<1>4. \A i \in 1 .. t.man.size : t.data[i] \in Blocks
  BY <1>1
<1>5. QED
  BY <1>1, <1>2, <1>3, <1>4

LEMMA SeqNumbers ==
  /\ 0 \in Seqs /\ FinalSeq \in Seqs
  /\ \A s \in Seqs : NextSeq(s) \in Seqs
<1>1. Cardinality(Seqs) \in Nat
  BY UpdateAssumption, FS_CardinalityType
<1> DEFINE c == Cardinality(Seqs)
<1>2. c \in Nat /\ Seqs = 0 .. c - 1 /\ FinalSeq \in Seqs
  BY <1>1, UpdateAssumption
<1> HIDE DEF c
<1>3. c > 0 /\ 0 \in Seqs
  BY <1>2
<1>4. \A s \in Seqs : (s + 1) % c \in 0 .. c - 1
  BY <1>2, <1>3
<1>5. QED
  BY <1>2, <1>3, <1>4 DEF NextSeq, c

LEMMA Limits ==
  /\ DataTries \in Nat /\ DataTries > 0 /\ Polls \in Nat /\ Polls > 0
  /\ MaxRuns \in Nat /\ MaxFaults \in Nat /\ AppBlocks \in Nat /\ AppBlocks > 0
  /\ 0 \in Sizes /\ Sizes = 0 .. AppBlocks + 1
BY UpdateAssumption, GeometryAssumption DEF Sizes

(* The script's records.                                                    *)
LEMMA GoToType ==
  ASSUME host \in HostType, NEW p \in Phases, NEW s \in Seqs
  PROVE  /\ GoTo(p, s) \in HostType
         /\ GoTo(p, s).phase = p /\ GoTo(p, s).off = host.off
         /\ GoTo(p, s).waiting = FALSE /\ GoTo(p, s).tries = 0
BY DEF HostType, GoTo

LEMMA PlacedType ==
  ASSUME host \in HostType, NEW p \in Phases, NEW s \in Seqs, NEW n \in Sizes,
         host' = [GoTo(p, s) EXCEPT !.off = n]
  PROVE  /\ host' \in HostType /\ host'.phase = p /\ host'.off = n
         /\ host'.waiting = FALSE /\ host'.tries = 0
BY DEF HostType, GoTo

LEMMA TriedType ==
  ASSUME host \in HostType, NEW p \in Phases, NEW s \in Seqs, NEW k \in Nat,
         host' = [GoTo(p, s) EXCEPT !.tries = k]
  PROVE  /\ host' \in HostType /\ host'.phase = p /\ host'.off = host.off
         /\ host'.waiting = FALSE /\ host'.tries = k
BY DEF HostType, GoTo

LEMMA StoppedType ==
  /\ Fail \in HostType /\ Fail.phase = "failed" /\ Fail.off = 0 /\ Fail.tries = 0 /\ ~Fail.waiting
  /\ Done \in HostType /\ Done.phase = "done" /\ Done.off = 0 /\ Done.tries = 0 /\ ~Done.waiting
BY SeqNumbers, Limits DEF Fail, Done, NotStarted, HostType, Phases

-----------------------------------------------------------------------------
(* What the script may do once it has a response r or none at all.          *)
IsReply(r, msg, status) == r.kind = "ACK" /\ r.msg = msg /\ r.status = status
Delivers(r) == \/ IsReply(r, "DATA", "OK")
               \/ IsReply(r, "DATA", "RANGE") /\ r.next = host.off + 1

Advances(r) ==
  \/ host.phase = "begin" /\ IsReply(r, "BEGIN", "OK") /\ host'.phase = "data" /\ host'.off = 0
  \/ /\ host.phase = "data" /\ Delivers(r) /\ host'.off = host.off + 1
     /\ \/ host'.phase = "data" /\ host.off + 1 < target.man.size
        \/ host'.phase = "end" /\ host.off + 1 = target.man.size
  \/ host.phase = "end" /\ IsReply(r, "END", "OK") /\ host'.phase = "boot"

Drifts ==
  \/ host'.phase = "failed" /\ host'.off = 0
  \/ host.phase \in Searching /\ host'.phase \in Searching /\ host'.off = 0
  \/ host.phase \in Searching \ {"enterEnter"} /\ host'.phase = "begin" /\ host'.off = 0
  \/ host.phase = "data" /\ host'.phase = "data" /\ host'.off = host.off
  \/ host.phase = "boot" /\ host'.phase = "final"
  \/ host.phase = "final" /\ host'.phase = "done" /\ host'.off = 0

HostMoves == host' \in HostType /\ ~host'.waiting /\
             host'.tries < IF host'.phase = "data" THEN DataTries ELSE Polls

LEMMA StartMoves ==
  ASSUME host \in HostType, StartUpdate
  PROVE  HostMoves /\ host'.phase = "begin" /\ host'.off = 0
<1>1. PICK s \in Seqs : host' = [GoTo("begin", s) EXCEPT !.off = 0]
  BY DEF StartUpdate
<1>2. "begin" \in Phases /\ 0 \in Sizes /\ 0 \in Nat
  BY Limits DEF Phases
<1>3. QED
  BY <1>1, <1>2, PlacedType, Limits DEF HostMoves

LEMMA PollMoves ==
  ASSUME HostInv, host.phase = "pollHello", host' = NextPoll
  PROVE  HostMoves /\ (host'.phase = "pollInfo" \/ host'.phase = "failed") /\ host'.off = 0
<1>1. host \in HostType /\ host.off = 0 /\ host.tries \in Nat /\ host.seq \in Seqs
  BY DEF HostInv, HostType, Searching
<1>2. "pollInfo" \in Phases /\ NextSeq(host.seq) \in Seqs /\ host.tries + 1 \in Nat /\ 0 \in Sizes
  BY <1>1, SeqNumbers, Limits DEF Phases
<1>3. CASE host.tries + 1 < Polls
  <2>1. host' = [GoTo("pollInfo", NextSeq(host.seq)) EXCEPT !.tries = host.tries + 1]
    BY <1>3 DEF NextPoll
  <2>2. /\ host' \in HostType /\ host'.phase = "pollInfo" /\ host'.off = host.off
        /\ host'.waiting = FALSE /\ host'.tries = host.tries + 1
    <3> DEFINE k == host.tries + 1
                s == NextSeq(host.seq)
    <3>1. k \in Nat /\ s \in Seqs /\ host' = [GoTo("pollInfo", s) EXCEPT !.tries = k]
      BY <1>2, <2>1
    <3> HIDE DEF k, s
    <3>2. host'.tries = k /\ host' \in HostType /\ host'.phase = "pollInfo"
          /\ host'.off = host.off /\ host'.waiting = FALSE
      BY <1>1, <1>2, <3>1, TriedType
    <3>3. QED
      BY <3>2 DEF k
  <2>3. QED
    BY <1>1, <1>3, <2>2 DEF HostMoves
<1>4. CASE ~(host.tries + 1 < Polls)
  BY <1>4, StoppedType, Limits DEF NextPoll, HostMoves
<1>5. QED
  BY <1>3, <1>4

LEMMA BlockMoves ==
  ASSUME HostInv, host.phase = "data", host' = AfterBlock
  PROVE  /\ HostMoves /\ host'.off = host.off + 1
         /\ \/ host'.phase = "data" /\ host.off + 1 < target.man.size
            \/ host'.phase = "end" /\ host.off + 1 = target.man.size
<1>1. /\ host \in HostType /\ host.seq \in Seqs /\ host.off \in Nat /\ host.off < target.man.size
      /\ target \in Targets
  BY Limits DEF HostInv, HostType
<1>2. target.man.size \in Nat /\ target.man.size \in Sizes
  BY <1>1, TargetType
<1>3. /\ "data" \in Phases /\ "end" \in Phases /\ NextSeq(host.seq) \in Seqs
      /\ host.off + 1 \in Sizes /\ 0 \in Nat
  BY <1>1, <1>2, SeqNumbers, Limits DEF Phases
<1>4. GoTo("data", NextSeq(host.seq)).off = host.off /\ GoTo("end", NextSeq(host.seq)).off = host.off
  BY <1>1, <1>3, GoToType
<1>5. CASE host.off + 1 < target.man.size
  <2>1. host' = [GoTo("data", NextSeq(host.seq)) EXCEPT !.off = host.off + 1]
    BY <1>4, <1>5 DEF AfterBlock
  <2>2. QED
    BY <1>1, <1>3, <1>5, <2>1, PlacedType, Limits DEF HostMoves
<1>6. CASE ~(host.off + 1 < target.man.size)
  <2>1. host' = [GoTo("end", NextSeq(host.seq)) EXCEPT !.off = host.off + 1]
    BY <1>4, <1>6 DEF AfterBlock
  <2>2. host.off + 1 = target.man.size
    BY <1>1, <1>2, <1>6
  <2>3. QED
    BY <1>1, <1>2, <1>3, <2>1, <2>2, PlacedType, Limits DEF HostMoves
<1>7. QED
  BY <1>5, <1>6

LEMMA RetryMoves ==
  ASSUME HostInv, host.phase = "data", host' = RetryBlock
  PROVE  /\ HostMoves
         /\ \/ host'.phase = "failed" /\ host'.off = 0
            \/ host'.phase = "data" /\ host'.off = host.off
<1>1. host \in HostType /\ host.tries \in Nat
  BY DEF HostInv, HostType
<1>2. CASE host.tries + 1 < DataTries
  <2>1. host' = [host EXCEPT !.waiting = FALSE, !.tries = host.tries + 1]
    BY <1>2 DEF RetryBlock
  <2>2. host.tries + 1 \in Nat
    BY <1>1
  <2>3. /\ host' \in HostType /\ host'.phase = "data" /\ host'.off = host.off
        /\ host'.waiting = FALSE /\ host'.tries = host.tries + 1
    BY <1>1, <2>1, <2>2 DEF HostType
  <2>4. QED
    BY <1>2, <2>3 DEF HostMoves
<1>3. CASE ~(host.tries + 1 < DataTries)
  BY <1>3, StoppedType, Limits DEF RetryBlock, HostMoves
<1>4. QED
  BY <1>2, <1>3

(* A transition to a phase and no other place of the image.                 *)
LEMMA PlainMoves ==
  ASSUME HostInv, NEW p \in Phases, NEW s \in Seqs, host' = GoTo(p, s)
  PROVE  HostMoves /\ host'.phase = p /\ host'.off = host.off
<1>1. host \in HostType
  BY DEF HostInv
<1>2. QED
  BY <1>1, GoToType, Limits DEF HostMoves

LEMMA FailMoves ==
  ASSUME host' = Fail
  PROVE  HostMoves /\ host'.phase = "failed" /\ host'.off = 0
BY StoppedType, Limits DEF HostMoves

LEMMA AcceptMoves ==
  ASSUME HostInv, host.waiting, NEW r, Accept(r)
  PROVE  HostMoves /\ (Advances(r) \/ Drifts)
<1>1. /\ host \in HostType /\ host.seq \in Seqs /\ NextSeq(host.seq) \in Seqs
      /\ host.phase \in Phases \ {"done", "failed"} /\ host.tries \in Nat
      /\ host.tries < DataTries \/ host.tries < Polls
  BY SeqNumbers DEF HostInv, HostType
<1>2. FinalSeq \in Seqs /\ (host.phase \in Searching => host.off = 0)
  BY SeqNumbers DEF HostInv
<1>3. CASE host.phase \in {"enterInfo", "enterEnter"}
  <2>1. \E p \in {"enterHello", "pollInfo"} : host' = GoTo(p, NextSeq(host.seq))
    BY <1>3 DEF Accept
  <2>2. {"enterHello", "pollInfo"} \subseteq Phases /\ {"enterHello", "pollInfo"} \subseteq Searching
    BY DEF Phases, Searching
  <2>3. QED
    BY <1>1, <1>2, <1>3, <2>1, <2>2, PlainMoves DEF Drifts, Searching
<1>4. CASE host.phase = "pollInfo"
  <2>1. host' = [GoTo("pollHello", NextSeq(host.seq)) EXCEPT !.tries = host.tries]
    BY <1>4 DEF Accept
  <2>2. "pollHello" \in Phases /\ 0 \in Sizes /\ host.tries < Polls
    BY <1>4, Limits DEF Phases, HostInv
  <2>3. QED
    BY <1>1, <1>2, <1>4, <2>1, <2>2, TriedType DEF Drifts, Searching, HostMoves
<1>5. CASE host.phase = "enterHello"
  <2>1. StartUpdate \/ host' = GoTo("enterEnter", NextSeq(host.seq))
    BY <1>5 DEF Accept
  <2>2. "enterEnter" \in Phases
    BY DEF Phases
  <2>3. QED
    BY <1>1, <1>2, <1>5, <2>1, <2>2, StartMoves, PlainMoves DEF Drifts, Searching
<1>6. CASE host.phase = "pollHello"
  <2>1. StartUpdate \/ host' = NextPoll
    BY <1>6 DEF Accept
  <2>2. QED
    BY <1>1, <1>6, <2>1, StartMoves, PollMoves DEF Drifts, Searching
<1>7. CASE host.phase = "begin"
  <2>1. host.off = 0 /\ "data" \in Phases
    BY <1>7 DEF HostInv, Phases
  <2>2. \/ host' = Fail
        \/ IsReply(r, "BEGIN", "OK") /\ host' = GoTo("data", NextSeq(host.seq))
    BY <1>7 DEF Accept, IsAck, IsReply
  <2>3. QED
    BY <1>1, <1>7, <2>1, <2>2, PlainMoves, FailMoves DEF Drifts, Advances
<1>8. CASE host.phase = "data"
  <2>1. \/ host' = Fail \/ host' = RetryBlock
        \/ Delivers(r) /\ host' = AfterBlock
    BY <1>8 DEF Accept, IsAck, IsReply, Delivers
  <2>2. QED
    BY <1>8, <2>1, FailMoves, RetryMoves, BlockMoves DEF Drifts, Advances
<1>9. CASE host.phase = "end"
  <2>1. \/ host' = Fail
        \/ IsReply(r, "END", "OK") /\ host' = GoTo("boot", NextSeq(host.seq))
    BY <1>9 DEF Accept, IsAck, IsReply
  <2>2. "boot" \in Phases
    BY DEF Phases
  <2>3. QED
    BY <1>1, <1>9, <2>1, <2>2, PlainMoves, FailMoves DEF Drifts, Advances
<1>10. CASE host.phase = "boot"
  <2>1. host' = Fail \/ host' = GoTo("final", FinalSeq)
    BY <1>10 DEF Accept
  <2>2. "final" \in Phases
    BY DEF Phases
  <2>3. QED
    BY <1>2, <1>10, <2>1, <2>2, PlainMoves, FailMoves DEF Drifts
<1>11. CASE host.phase = "final"
  <2>1. host' = Fail \/ host' = Done
    BY <1>11 DEF Accept
  <2>2. QED
    BY <1>11, <2>1, StoppedType, Limits DEF Drifts, HostMoves
<1>12. QED
  BY <1>1, <1>3, <1>4, <1>5, <1>6, <1>7, <1>8, <1>9, <1>10, <1>11 DEF Phases

(* Giving up is never progress.                                             *)
LEMMA GiveUpMoves ==
  ASSUME HostInv, host.waiting, GiveUp
  PROVE  HostMoves /\ Drifts
<1>1. host \in HostType /\ host.phase \in Phases \ {"done", "failed"}
  BY DEF HostInv, HostType
<1>2. CASE host.phase \in Searching
  <2>1. Accept([kind |-> "none"])
    BY <1>2 DEF GiveUp, Searching
  <2>2. HostMoves /\ (Advances([kind |-> "none"]) \/ Drifts)
    BY <2>1, AcceptMoves
  <2>3. ~Advances([kind |-> "none"])
    BY <1>2 DEF Advances, Searching
  <2>4. QED
    BY <2>2, <2>3
<1>3. CASE host.phase \in {"begin", "end"}
  BY <1>3, FailMoves DEF GiveUp, Drifts
<1>4. CASE host.phase = "data"
  BY <1>4, RetryMoves DEF GiveUp, Drifts
<1>5. CASE host.phase = "boot"
  <2>1. "final" \in Phases /\ FinalSeq \in Seqs
    BY SeqNumbers DEF Phases
  <2>2. host' = GoTo("final", FinalSeq)
    BY <1>5 DEF GiveUp
  <2>3. QED
    BY <1>5, <2>1, <2>2, PlainMoves DEF Drifts
<1>6. CASE host.phase = "final"
  BY <1>6, StoppedType, Limits DEF GiveUp, Drifts, HostMoves
<1>7. QED
  BY <1>1, <1>2, <1>3, <1>4, <1>5, <1>6 DEF Phases, Searching

-----------------------------------------------------------------------------
(* Type correctness.                                                        *)
LEMMA MovesHost ==
  ASSUME HostInv, NEW r, HostMoves, Advances(r) \/ Drifts, UNCHANGED <<target, runs>>,
         faults' \in 0 .. MaxFaults
  PROVE  HostInv'
<1>1. target \in Targets /\ host.off \in Nat
  BY Limits DEF HostInv, HostType
<1>2. target.man.size \in Nat \ {0}
  BY <1>1, TargetType
<1>3. /\ host'.phase \in Searching \cup {"begin", "done", "failed"} => host'.off = 0
      /\ host'.phase = "data" => host'.off < target.man.size
      /\ host'.phase = "end" => host'.off = target.man.size
  <2>1. CASE Advances(r)
    BY <1>1, <1>2, <2>1 DEF Advances, Searching
  <2>2. CASE Drifts
    BY <1>1, <1>2, <2>2 DEF Drifts, Searching, HostInv
  <2>3. QED
    BY <2>1, <2>2
<1>4. QED
  BY <1>3 DEF HostInv, HostMoves

LEMMA RequestIsFrame ==
  ASSUME TypeInv, ~Finished
  PROVE  /\ Request \in Frames
         /\ Request.msg = CASE host.phase \in {"enterInfo", "pollInfo", "final"} -> "INFO"
                            [] host.phase \in {"enterHello", "pollHello"} -> "HELLO"
                            [] host.phase = "enterEnter" -> "ENTER"
                            [] host.phase = "begin" -> "BEGIN"
                            [] host.phase = "data"  -> "DATA"
                            [] host.phase = "end"   -> "END"
                            [] host.phase = "boot"  -> "BOOT"
         /\ host.phase = "begin" =>
              Request.man = target.man /\ Request.sig = Hmac(target.man, target.data)
         /\ host.phase = "data" =>
              Request.off = host.off /\ Request.block = target.data[host.off + 1]
<1> USE DEF TypeInv
<1>1. /\ host.phase \in Phases \ {"done", "failed"} /\ host.seq \in Seqs /\ host.off \in Sizes
      /\ host.off \in Nat /\ target \in Targets
      /\ host.phase = "data" => host.off < target.man.size
  BY Limits DEF HostInv, HostType, Finished
<1>2. \A msg \in PlainMsgs : Plain(msg, host.seq) \in Frames /\ Plain(msg, host.seq).msg = msg
  BY <1>1 DEF Plain, Frame, Frames, PlainFrames
<1>3. CASE host.phase = "begin"
  <2>1. target.man \in Manifest /\ Hmac(target.man, target.data) \in Digests
    BY <1>1, TargetType
  <2>2. Request = Begin(host.seq, target.man, Hmac(target.man, target.data))
    BY <1>3 DEF Request
  <2>3. QED
    BY <1>1, <1>3, <2>1, <2>2 DEF Begin, Frame, Frames, BeginFrames
<1>4. CASE host.phase = "data"
  <2>1. target.data[host.off + 1] \in Blocks
    BY <1>1, <1>4, TargetType
  <2>2. Request = Data(host.seq, host.off, target.data[host.off + 1])
    BY <1>4 DEF Request
  <2>3. QED
    BY <1>1, <1>4, <2>1, <2>2 DEF Data, Frame, Frames, DataFrames
<1>5. CASE host.phase \notin {"begin", "data"}
  <2>1. \E msg \in PlainMsgs : Request = Plain(msg, host.seq) /\
          msg = CASE host.phase \in {"enterInfo", "pollInfo", "final"} -> "INFO"
                  [] host.phase \in {"enterHello", "pollHello"} -> "HELLO"
                  [] host.phase = "enterEnter" -> "ENTER"
                  [] host.phase = "begin" -> "BEGIN"
                  [] host.phase = "data"  -> "DATA"
                  [] host.phase = "end"   -> "END"
                  [] host.phase = "boot"  -> "BOOT"
    BY <1>1, <1>5 DEF Request, Phases, PlainMsgs
  <2>2. QED
    BY <1>2, <1>5, <2>1
<1>6. QED
  BY <1>3, <1>4, <1>5

LEMMA OutboxGrows ==
  ASSUME BootStep \/ AppStep \/ FaultStep \/ FlashError
  PROVE  outbox' = outbox \/ \E r : outbox' = Append(outbox, r)
<1>1. CASE BootStep
  BY <1>1 DEF BootStep, HandleHello, HandleBeginShort, HandleBeginRange, HandleBegin,
      EraseSector, HandleDataState, HandleDataRange, HandleData, ProgramFirstPart, ProgramRest,
      HandleEndState, HandleEndAuth, HandleEnd, CommitField, HandleAbort, HandleBoot,
      HandleUnsupported, Start, Send
<1>2. CASE AppStep
  BY <1>2 DEF AppStep, AppEnter, AppInfo, AppUnsupported, Send
<1>3. CASE FaultStep \/ FlashError
  BY <1>3 DEF FaultStep, LoseFrame, HandleCorrupt, PowerLoss, FlashError, Send
<1>4. QED
  BY <1>1, <1>2, <1>3

(* The steps of the whole system, by what they leave alone.                 *)
McuMoves == (BootStep \/ AppStep \/ FaultStep \/ FlashError) /\ UNCHANGED <<target, host, runs>>

Hears(r) == /\ host.waiting /\ outbox # <<>> /\ r = Head(outbox) /\ Accept(r)
            /\ Received(Tail(outbox))
HostTakes == \/ \E r : Hears(r)
             \/ host.waiting /\ GiveUp /\ Received(outbox)

LEMMA Steps ==
  ASSUME UpdateNext, HostInv
  PROVE  /\ faults' \in 0 .. MaxFaults
         /\ \/ McuMoves
            \/ /\ UNCHANGED <<mode, request, app, meta, ram, task>>
               /\ \/ SendRequest \/ RunScript \/ NewVersion
                  \/ HostTakes /\ UNCHANGED <<target, runs>>
                  \/ outbox # <<>> /\ outbox' = Tail(outbox) /\ UNCHANGED <<inbox, target, host, runs>>
                  \/ AppTelemetry \/ KillScript
<1>1. faults' \in 0 .. MaxFaults
  <2>1. faults \in 0 .. MaxFaults /\ MaxFaults \in Nat
    BY Limits DEF HostInv
  <2>2. faults' = faults \/ (faults < MaxFaults /\ faults' = faults + 1)
    BY DEF UpdateNext, McuStep, HostStep, hostVars, SendRequest, TakeResponse, SkipResponse,
           Timeout, RunScript, NewVersion, Fault
  <2>3. QED
    BY <2>1, <2>2
<1>2. CASE McuStep
  BY <1>1, <1>2 DEF McuStep, McuMoves, hostVars
<1>3. CASE HostStep
  BY <1>1, <1>3 DEF HostStep, SendRequest, TakeResponse, SkipResponse, Timeout, HostTakes, Hears,
                    hostVars, flash
<1>4. CASE RunScript \/ NewVersion
  BY <1>1, <1>4 DEF RunScript, NewVersion, vars, flash
<1>5. CASE Fault
  BY <1>1, <1>5 DEF Fault, McuMoves, AppTelemetry, LoseReply, EarlyTimeout, KillScript, HostTakes,
                    vars, flash
<1>6. QED
  BY <1>2, <1>3, <1>4, <1>5 DEF UpdateNext

LEMMA OutboxStep ==
  ASSUME outbox \in Seq(Elems(outbox)),
         \/ outbox' \in {outbox, <<>>}
         \/ outbox # <<>> /\ outbox' = Tail(outbox)
         \/ \E r : outbox' \in {Append(outbox, r), <<r>>}
  PROVE  outbox' \in Seq(Elems(outbox'))
<1>1. \E T : outbox' \in Seq(T)
  <2>1. CASE outbox' \in {outbox, <<>>} \/ (outbox # <<>> /\ outbox' = Tail(outbox))
    <3>1. <<>> \in Seq(Elems(outbox)) /\ (outbox # <<>> => Tail(outbox) \in Seq(Elems(outbox)))
      BY TailElems
    <3>2. outbox' \in Seq(Elems(outbox))
      BY <2>1, <3>1, Zenon
    <3>3. QED
      BY <3>2
  <2>2. ASSUME NEW r, outbox' \in {Append(outbox, r), <<r>>} PROVE \E T : outbox' \in Seq(T)
    <3>1. outbox \in Seq(Elems(outbox) \cup {r}) /\ r \in Elems(outbox) \cup {r}
      OBVIOUS
    <3>2. /\ Append(outbox, r) \in Seq(Elems(outbox) \cup {r})
          /\ <<r>> \in Seq(Elems(outbox) \cup {r})
      BY <3>1
    <3>3. outbox' \in Seq(Elems(outbox) \cup {r})
      BY <2>2, <3>2, Zenon
    <3>4. QED
      BY <3>3
  <2>3. QED
    BY <2>1, <2>2
<1>2. QED
  BY <1>1, OwnElems

LEMMA UpdateTypeStep == TypeInv /\ [UpdateNext]_allVars => TypeInv'
<1> SUFFICES ASSUME TypeInv, [UpdateNext]_allVars PROVE TypeInv'
  OBVIOUS
<1> USE DEF TypeInv
<1>1. CASE UNCHANGED allVars
  BY <1>1 DEF allVars, vars, hostVars, TypeOK, HostInv, HostType
<1>2. CASE UpdateNext
  <2>0. faults' \in 0 .. MaxFaults
    BY <1>2, Steps
  <2>1. CASE McuMoves
    <3>1. TypeOK'
      BY <2>1, TypeStep DEF McuMoves, WornNext, Next
    <3>2. HostInv'
      BY <2>0, <2>1 DEF HostInv, McuMoves
    <3>3. outbox' \in Seq(Elems(outbox'))
      BY <2>1, OutboxGrows, OutboxStep DEF McuMoves
    <3>4. QED
      BY <3>1, <3>2, <3>3
  <2> DEFINE Still == UNCHANGED <<mode, request, app, meta, ram, task>>
  <2>2. ASSUME Still, inbox' \in Seq(Frames) PROVE TypeOK'
    BY <2>2 DEF TypeOK
  <2>3. CASE Still /\ SendRequest
    <3>1. ~Finished /\ ~host.waiting /\ host' = [host EXCEPT !.waiting = TRUE]
      BY <2>3 DEF SendRequest
    <3>2. inbox' \in Seq(Frames)
      BY <2>3, <3>1, RequestIsFrame DEF SendRequest, TypeOK
    <3>3. HostInv'
      BY <2>0, <2>3, <3>1 DEF HostInv, HostType, Finished, SendRequest
    <3>4. QED
      BY <2>2, <2>3, <3>2, <3>3 DEF SendRequest
  <2>4. CASE Still /\ RunScript
    <3>1. HostMoves /\ host'.phase \in {"enterInfo", "begin"} /\ host'.off = 0
      <4>1. host.off = 0 /\ host \in HostType /\ "enterInfo" \in Phases /\ 0 \in Seqs
        BY <2>4, SeqNumbers DEF RunScript, Finished, HostInv, Phases
      <4>2. host' = GoTo("enterInfo", 0) \/ StartUpdate
        BY <2>4 DEF RunScript
      <4>3. QED
        BY <4>1, <4>2, StartMoves, PlainMoves
    <3>2. runs' \in 0 .. MaxRuns /\ target' = target /\ inbox' = <<>> /\ outbox' = <<>>
      BY <2>4, Limits DEF RunScript, Reopen, HostInv
    <3>3. HostInv'
      BY <2>0, <3>1, <3>2 DEF HostInv, HostMoves
    <3>4. outbox' \in Seq(Elems(outbox'))
      BY <3>2, OutboxStep
    <3>5. QED
      BY <2>2, <2>4, <3>2, <3>3, <3>4
  <2>5. CASE Still /\ NewVersion
    <3>1. host' = Fail /\ target' \in Targets /\ UNCHANGED <<inbox, outbox, runs>>
      BY <2>5 DEF NewVersion, Fail, vars
    <3>2. HostInv'
      BY <2>0, <3>1, FailMoves DEF HostInv, HostMoves, Searching
    <3>3. QED
      BY <2>2, <2>5, <3>1, <3>2, OutboxStep DEF TypeOK
  <2>6. CASE Still /\ HostTakes /\ UNCHANGED <<target, runs>>
    <3>1. /\ inbox' \in {inbox, <<>>}
          /\ outbox' \in {outbox, <<>>} \/ (outbox # <<>> /\ outbox' = Tail(outbox))
      BY <2>6 DEF HostTakes, Hears, Received, Reopen
    <3>2. HostInv'
      <4>1. ASSUME NEW r, Hears(r) PROVE HostInv'
        BY <2>0, <2>6, <4>1, AcceptMoves, MovesHost DEF Hears
      <4>2. CASE host.waiting /\ GiveUp
        BY <2>0, <2>6, <4>2, GiveUpMoves, MovesHost
      <4>3. QED
        BY <2>6, <4>1, <4>2 DEF HostTakes
    <3>3. inbox' \in Seq(Frames)
      <4>1. inbox \in Seq(Frames) /\ <<>> \in Seq(Frames)
        BY DEF TypeOK
      <4>2. QED
        BY <3>1, <4>1, Zenon
    <3>4. outbox' \in Seq(Elems(outbox'))
      BY <3>1, OutboxStep
    <3>5. QED
      BY <2>2, <2>6, <3>2, <3>3, <3>4
  <2>7. CASE /\ Still /\ outbox # <<>> /\ outbox' = Tail(outbox)
             /\ UNCHANGED <<inbox, target, host, runs>>
    <3>1. outbox' \in Seq(Elems(outbox'))
      BY <2>7, OutboxStep
    <3>2. HostInv' /\ inbox' \in Seq(Frames)
      BY <2>0, <2>7 DEF HostInv, TypeOK
    <3>3. QED
      BY <2>2, <2>7, <3>1, <3>2
  <2>8. CASE Still /\ AppTelemetry
    <3>1. outbox' \in Seq(Elems(outbox'))
      BY <2>8, OutboxStep DEF AppTelemetry
    <3>2. HostInv' /\ inbox' \in Seq(Frames)
      BY <2>0, <2>8 DEF HostInv, TypeOK, AppTelemetry
    <3>3. QED
      BY <2>2, <2>8, <3>1, <3>2
  <2>9. CASE Still /\ KillScript
    <3>1. host' = Fail /\ UNCHANGED <<inbox, outbox, target, runs>>
      BY <2>9 DEF KillScript, vars
    <3>2. HostInv'
      BY <2>0, <3>1, FailMoves DEF HostInv, HostMoves, Searching
    <3>3. QED
      BY <2>2, <2>9, <3>1, <3>2 DEF TypeOK
  <2>10. QED
    BY <1>2, <2>1, <2>3, <2>4, <2>5, <2>6, <2>7, <2>8, <2>9, Steps
<1>3. QED
  BY <1>1, <1>2

LEMMA UpdateTypeInit == UpdateInit => TypeInv
<1> SUFFICES ASSUME UpdateInit PROVE TypeInv
  OBVIOUS
<1>1. TypeOK
  BY TypeInit DEF UpdateInit
<1>2. HostInv
  BY StoppedType, Limits DEF UpdateInit, HostInv, Fail, Searching
<1>3. outbox = <<>> /\ <<>> \in Seq({})
  BY DEF UpdateInit, Init
<1>4. QED
  BY <1>1, <1>2, <1>3, OwnElems DEF TypeInv

(* The script, the line and the bootloader keep to their types together:    *)
(* what the script sends is always a frame the bootloader's parser knows,   *)
(* and its place never leaves the image.                                    *)
THEOREM UpdateTypeCorrect == UpdateSpec => []HostTypeOK
<1>1. TypeInv => HostTypeOK
  BY DEF TypeInv, HostInv, HostType, HostTypeOK
<1>2. QED
  BY <1>1, UpdateTypeInit, UpdateTypeStep, PTL DEF UpdateSpec

-----------------------------------------------------------------------------
(* Delivery.  What is on its way between the script and the bootloader, and *)
(* what they have to do with each other because of it.                      *)
Asked(msg)         == \E f \in Elems(inbox) : f.msg = msg
Acked(msg, status) == \E r \in Elems(outbox) : IsReply(r, msg, status)

(* A request for the image the user wants now.                              *)
Ours(f) ==
  /\ f.msg = "BEGIN" => f.man = target.man /\ f.sig = Hmac(target.man, target.data)
  /\ f.msg = "DATA"  => f.off < target.man.size /\ f.block = target.data[f.off + 1]

(* Requests are there in the phases that send them and in later ones.       *)
InboxInv ==
  /\ host.phase \in Searching => ~Asked("BEGIN") /\ ~Asked("DATA") /\ ~Asked("END")
  /\ host.phase = "begin" => ~Asked("DATA") /\ ~Asked("END")
  /\ host.phase = "data" => ~Asked("END")
  /\ host.phase \in {"end", "boot", "final", "done"} => ~Asked("BEGIN")
  /\ Asked("ENTER") => /\ host.phase \in {"enterEnter", "failed"}
                       /\ ~Asked("BEGIN") /\ ~Asked("DATA")
  /\ ~Asked("ABORT")
  /\ host.phase = "data" => \A f \in Elems(inbox) : f.msg = "DATA" => f.off <= host.off
  /\ host.phase = "end"  => \A f \in Elems(inbox) : f.msg = "DATA" => f.off < host.off

OrderInv ==
  \A i, j \in DOMAIN inbox : i < j /\ inbox[j].msg = "BEGIN" => inbox[i].msg \notin {"DATA", "END"}

(* Requests of an earlier wish are never heard by the bootloader.           *)
ForeignInv ==
  \/ \A f \in Elems(inbox) : Ours(f)
  \/ Finished /\ mode # "boot" /\ ~request /\ MetadataValid /\ ~Asked("ENTER")

ModeInv ==
  /\ mode = "app" => MetadataValid
  /\ request => mode = "off"
  /\ mode # "boot" => task = Idle

(* The handler in progress serves a request of the script's phase.          *)
EraseInv ==
  task.op = "erase" =>
    /\ Ours(task.req) /\ target.man.size \in 1 .. AppBlocks
    /\ RamManifest = target.man /\ ram.hmac = Hmac(target.man, target.data)
    /\ task.at > 4 => meta = BlankMeta
    /\ \A i \in AppIndex : SectorOf[i] < task.at => app[i] = Erased
    /\ host.phase \in Searching \cup {"begin", "data", "failed"}
ProgramInv ==
  task.op = "program" =>
    /\ Ours(task.req) /\ task.req.off = ram.next /\ ram.updating
    /\ host.phase \in {"data", "failed"}
    /\ host.phase = "data" => ram.next <= host.off /\ ~Asked("BEGIN")
CommitInv ==
  task.op = "commit" => ram.updating /\ ~ram.open /\ host.phase \in {"end", "failed"}
TaskInv == EraseInv /\ ProgramInv /\ CommitInv

(* Answers that would mean progress come no sooner than they are asked for. *)
OutboxInv ==
  /\ host.phase \in Searching \cup {"begin"} =>
       ~Acked("DATA", "OK") /\ ~Acked("DATA", "RANGE") /\ ~Acked("END", "OK")
  /\ host.phase = "data" => ~Acked("END", "OK")

(* The bootloader's session is one for this image, and the flash holds the  *)
(* blocks it has counted; the next one may have been begun.                 *)
Session ==
  /\ RamManifest = target.man /\ ram.hmac = Hmac(target.man, target.data)
  /\ ram.next <= target.man.size
  /\ \A i \in AppIndex :
       /\ i < ram.next => app[i] = target.data[i + 1]
       /\ i > ram.next => app[i] = Erased
       /\ i = ram.next => \/ app[i] = Erased
                          \/ i < target.man.size /\ app[i] = Torn(target.data[i + 1])
  /\ ram.open => meta = BlankMeta
  /\ task.op = "commit" =>
       /\ ram.next = target.man.size
       /\ \A k \in 1 .. 5 : meta[FieldNames[k]] = IF k < task.at THEN FieldValue(FieldNames[k])
                                                                ELSE Erased

(* From the acknowledgement of BEGIN on, an open session is this one, and   *)
(* it is where the script is or one block ahead.                            *)
Engaged == \/ host.phase \in {"data", "end"}
           \/ host.phase \in Searching \cup {"begin"} /\ Acked("BEGIN", "OK")
TransferInv ==
  Engaged =>
    /\ target.man.size \in 1 .. AppBlocks
    /\ ram.updating => /\ Session /\ ram.next \in {host.off, host.off + 1}
                       /\ host.phase \notin {"data", "end"} => ram.next = 0

(* A second BEGIN, of an earlier run, is handled before the first block.    *)
RewindInv ==
  host.phase = "data" /\ (Asked("BEGIN") \/ task.op = "erase") =>
    /\ host.off = 0 /\ (ram.updating => ram.next = 0)
    /\ \A r \in Elems(outbox) : ~Delivers(r)

(* An answer that reports the block as delivered is right, and there is at  *)
(* most one acknowledgement behind the head of such answers.                *)
AnswerInv ==
  host.phase = "data" =>
    \A i \in DOMAIN outbox :
      /\ IsReply(outbox[i], "DATA", "RANGE") => outbox[i].next \in 0 .. host.off + 1
      /\ Delivers(outbox[i]) =>
           /\ ram.updating => ram.next = host.off + 1
           /\ \A j \in DOMAIN outbox : j > i => ~IsReply(outbox[j], "DATA", "OK")

Installed ==
  /\ meta.magic = Magic /\ meta.hmac = Hmac(target.man, target.data)
  /\ MetaManifest = target.man /\ Prefix(target.man.size) = target.data
Concluded == \/ host.phase \in {"boot", "final", "done"}
             \/ host.phase = "end" /\ Acked("END", "OK")
EndInv == Concluded => Installed /\ ~ram.updating /\ task = Idle

DeliveryInv ==
  /\ InboxInv /\ OrderInv /\ ForeignInv /\ ModeInv /\ TaskInv /\ OutboxInv
  /\ TransferInv /\ RewindInv /\ AnswerInv /\ EndInv

DeviceSame == UNCHANGED <<mode, request, app, meta, ram, task>>

-----------------------------------------------------------------------------
(* Steps of the script.                                                     *)
LEMMA NothingSent ==
  ASSUME inbox = <<>>
  PROVE  OrderInv /\ (\A f \in Elems(inbox) : Ours(f)) /\ (\A msg : ~Asked(msg))
BY OwnElems DEF OrderInv, Asked

LEMMA NothingSaid ==
  ASSUME outbox = <<>>
  PROVE  AnswerInv /\ Elems(outbox) = {} /\ \A msg, status : ~Acked(msg, status)
BY OwnElems DEF AnswerInv, Acked

(* The script transfers no other block than before.                         *)
SamePlace == host'.phase = "data" => host.phase = "data" /\ host'.off = host.off

(* A queue whose head has left it.                                          *)
LEMMA InboxShrinks ==
  ASSUME TypeInv, inbox' = inbox \/ (inbox # <<>> /\ inbox' = Tail(inbox)) \/ inbox' = <<>>
  PROVE  /\ Elems(inbox') \subseteq Elems(inbox) /\ (OrderInv => OrderInv')
         /\ \A msg : Asked(msg)' => Asked(msg)
<1>1. inbox \in Seq(Frames)
  BY DEF TypeInv, TypeOK
<1>2. CASE inbox' = inbox
  BY <1>2 DEF OrderInv, Asked
<1>3. CASE inbox # <<>> /\ inbox' = Tail(inbox)
  <2>1. /\ Elems(inbox') \subseteq Elems(inbox)
        /\ Len(inbox) \in Nat \ {0} /\ DOMAIN inbox = 1 .. Len(inbox)
        /\ DOMAIN inbox' = 1 .. Len(inbox) - 1
        /\ \A i \in 1 .. Len(inbox) - 1 : inbox'[i] = inbox[i + 1]
    BY <1>1, <1>3, TailElems
  <2>2. OrderInv => OrderInv'
    <3> SUFFICES ASSUME OrderInv, NEW i \in 1 .. Len(inbox) - 1, NEW j \in 1 .. Len(inbox) - 1,
                        i < j, inbox'[j].msg = "BEGIN"
                 PROVE  inbox'[i].msg \notin {"DATA", "END"}
      BY <2>1 DEF OrderInv
    <3>1. i + 1 \in DOMAIN inbox /\ j + 1 \in DOMAIN inbox /\ i + 1 < j + 1
      BY <2>1
    <3>2. QED
      BY <2>1, <3>1 DEF OrderInv
  <2>3. QED
    BY <2>1, <2>2 DEF Asked
<1>4. CASE inbox' = <<>>
  <2>1. Elems(inbox') = {} /\ DOMAIN inbox' = {}
    BY <1>4, OwnElems
  <2>2. QED
    BY <2>1 DEF OrderInv, Asked
<1>5. QED
  BY <1>2, <1>3, <1>4

LEMMA OutboxShrinks ==
  ASSUME TypeInv, outbox' = outbox \/ (outbox # <<>> /\ outbox' = Tail(outbox)) \/ outbox' = <<>>
  PROVE  /\ Elems(outbox') \subseteq Elems(outbox)
         /\ \A msg, status : Acked(msg, status)' => Acked(msg, status)
         /\ AnswerInv /\ ram' = ram /\ SamePlace => AnswerInv'
<1>1. outbox \in Seq(Elems(outbox))
  BY DEF TypeInv
<1>2. CASE outbox' = outbox
  BY <1>2 DEF AnswerInv, Acked, Delivers, IsReply, SamePlace
<1>3. CASE outbox # <<>> /\ outbox' = Tail(outbox)
  <2>1. /\ Elems(outbox') \subseteq Elems(outbox)
        /\ Len(outbox) \in Nat \ {0} /\ DOMAIN outbox = 1 .. Len(outbox)
        /\ DOMAIN outbox' = 1 .. Len(outbox) - 1
        /\ \A i \in 1 .. Len(outbox) - 1 : outbox'[i] = outbox[i + 1]
    BY <1>1, <1>3, TailElems
  <2>2. ASSUME ram' = ram, SamePlace, AnswerInv PROVE AnswerInv'
    <3> SUFFICES ASSUME host.phase = "data", host'.off = host.off, NEW i \in 1 .. Len(outbox) - 1
                 PROVE  /\ IsReply(outbox'[i], "DATA", "RANGE") => outbox'[i].next \in 0 .. host.off + 1
                        /\ Delivers(outbox'[i]) =>
                             /\ ram.updating => ram.next = host.off + 1
                             /\ \A j \in 1 .. Len(outbox) - 1 : j > i => ~IsReply(outbox'[j], "DATA", "OK")
      BY <2>1, <2>2 DEF AnswerInv, Delivers, SamePlace
    <3>1. i + 1 \in DOMAIN outbox /\ outbox'[i] = outbox[i + 1]
      BY <2>1
    <3>2. \A j \in 1 .. Len(outbox) - 1 : j > i => j + 1 > i + 1 /\ j + 1 \in DOMAIN outbox
      BY <2>1
    <3>3. QED
      BY <2>1, <2>2, <3>1, <3>2 DEF AnswerInv
  <2>3. QED
    BY <2>1, <2>2 DEF Acked
<1>4. CASE outbox' = <<>>
  <2>1. Elems(outbox') = {} /\ DOMAIN outbox' = {}
    BY <1>4, OwnElems
  <2>2. QED
    BY <2>1 DEF AnswerInv, Acked
<1>5. QED
  BY <1>2, <1>3, <1>4

LEMMA SameDevice ==
  ASSUME DeviceSame, UNCHANGED target
  PROVE  /\ Session' <=> Session
         /\ Installed' <=> Installed
         /\ MetadataValid' <=> MetadataValid
         /\ ModeInv' <=> ModeInv
BY DEF DeviceSame, Session, RamManifest, FieldValue, Installed, MetaManifest, Prefix,
       MetadataValid, ModeInv

LEMMA DeliveryInit == UpdateInit => DeliveryInv
<1> SUFFICES ASSUME UpdateInit PROVE DeliveryInv
  OBVIOUS
<1>1. /\ inbox = <<>> /\ outbox = <<>> /\ mode = "off" /\ request = FALSE /\ task = Idle
      /\ host.phase = "failed"
  BY DEF UpdateInit, Init, NotStarted
<1>2. InboxInv /\ OrderInv /\ ForeignInv /\ ModeInv
  BY <1>1, NothingSent DEF InboxInv, ForeignInv, ModeInv, Searching
<1>3. TaskInv
  BY <1>1 DEF TaskInv, EraseInv, ProgramInv, CommitInv, Idle
<1>4. OutboxInv /\ TransferInv /\ RewindInv /\ AnswerInv /\ EndInv
  BY <1>1, NothingSaid
     DEF OutboxInv, TransferInv, Engaged, RewindInv, EndInv, Concluded, Searching
<1>5. QED
  BY <1>2, <1>3, <1>4 DEF DeliveryInv

(* A step that reports no progress: the script fails, goes on searching,    *)
(* repeats a block or only takes note of an answer.                         *)
LEMMA DriftKeeps ==
  ASSUME TypeInv, DeliveryInv, DeviceSame, UNCHANGED target, Drifts \/ UNCHANGED host,
         inbox' \in {inbox, <<>>},
         outbox' = outbox \/ (outbox # <<>> /\ outbox' = Tail(outbox)) \/ outbox' = <<>>,
         host.phase = "enterEnter" /\ host'.phase \notin {"enterEnter", "failed"} => inbox' = <<>>
  PROVE  DeliveryInv'
<1> USE DEF DeliveryInv
<1>1. /\ Elems(inbox') \subseteq Elems(inbox) /\ OrderInv' /\ \A msg : Asked(msg)' => Asked(msg)
  BY InboxShrinks
<1>2. /\ Elems(outbox') \subseteq Elems(outbox)
      /\ \A msg, status : Acked(msg, status)' => Acked(msg, status)
  BY OutboxShrinks
<1>3. /\ SamePlace
      /\ host'.phase = "failed" \/ (host'.phase = host.phase /\ host'.off = host.off)
           \/ (host.phase \in Searching /\ host'.phase \in Searching /\ host'.off = host.off)
           \/ (/\ host.phase \in Searching \ {"enterEnter"} /\ host'.phase = "begin"
               /\ host'.off = host.off)
           \/ (host.phase = "boot" /\ host'.phase = "final")
           \/ (host.phase = "final" /\ host'.phase = "done")
  BY DEF Drifts, SamePlace, TypeInv, HostInv, Searching
<1>4. AnswerInv'
  BY <1>3, OutboxShrinks DEF DeviceSame
<1>5. UNCHANGED <<mode, request, app, meta, ram, task>>
  BY DEF DeviceSame
<1>6. InboxInv'
  <2>1. Asked("ENTER")' => host'.phase \in {"enterEnter", "failed"}
    <3>1. inbox' = <<>> => ~Asked("ENTER")'
      BY OwnElems DEF Asked
    <3>2. QED
      BY <1>1, <1>3, <3>1 DEF InboxInv, Searching
  <2>2. QED
    BY <1>1, <1>3, <2>1 DEF InboxInv, Searching
<1>7. ForeignInv'
  <2>1. MetadataValid' <=> MetadataValid
    BY SameDevice
  <2>2. Finished => Finished'
    BY <1>3 DEF Finished, Searching
  <2>3. QED
    BY <1>1, <1>5, <2>1, <2>2 DEF ForeignInv, Ours
<1>8. ModeInv'
  BY SameDevice
<1>9. TaskInv'
  <2>1. EraseInv'
    BY <1>3, <1>5 DEF TaskInv, EraseInv, Ours, RamManifest, Searching
  <2>2. ProgramInv'
    BY <1>1, <1>3, <1>5 DEF TaskInv, ProgramInv, Ours, Searching
  <2>3. CommitInv'
    BY <1>3, <1>5 DEF TaskInv, CommitInv, Searching
  <2>4. QED
    BY <2>1, <2>2, <2>3 DEF TaskInv
<1>10. OutboxInv'
  BY <1>2, <1>3 DEF OutboxInv, Searching
<1>11. TransferInv'
  <2>1. Session' <=> Session
    BY SameDevice
  <2>2. Engaged' => Engaged /\ host'.off = host.off /\ (host'.phase \notin {"data", "end"} => host.phase \notin {"data", "end"})
    BY <1>2, <1>3 DEF Engaged, Searching
  <2>3. QED
    BY <1>5, <2>1, <2>2 DEF TransferInv
<1>12. RewindInv'
  BY <1>1, <1>2, <1>3, <1>5 DEF RewindInv, SamePlace, Delivers
<1>13. EndInv'
  <2>1. Concluded' => Concluded
    BY <1>2, <1>3 DEF Concluded, Searching
  <2>2. QED
    BY <1>5, <2>1, SameDevice DEF EndInv
<1>14. QED
  BY <1>1, <1>4, <1>6, <1>7, <1>8, <1>9, <1>10, <1>11, <1>12, <1>13

LEMMA SendKeeps ==
  ASSUME TypeInv, DeliveryInv, DeviceSame, SendRequest
  PROVE  DeliveryInv'
<1> USE DEF DeliveryInv
<1>1. /\ ~Finished /\ UNCHANGED <<outbox, target>> /\ host' = [host EXCEPT !.waiting = TRUE]
      /\ inbox' = inbox \/ inbox' = Append(inbox, Request)
  BY DEF SendRequest
<1>2. /\ host'.phase = host.phase /\ host'.off = host.off
      /\ host.phase \in Phases \ {"done", "failed"} /\ host.off \in Nat
  BY <1>1, Limits DEF TypeInv, HostInv, HostType, Finished
<1>3. UNCHANGED <<mode, request, app, meta, ram, task>>
  BY DEF DeviceSame
<1>4. CASE inbox' = inbox
  <2>1. InboxInv' /\ OrderInv' /\ ForeignInv' /\ ModeInv' /\ TaskInv' /\ OutboxInv'
    BY <1>1, <1>2, <1>3, <1>4, SameDevice
       DEF InboxInv, OrderInv, ForeignInv, TaskInv, EraseInv, ProgramInv, CommitInv, OutboxInv,
           Asked, Acked, Ours, Finished, RamManifest
  <2>2. TransferInv' /\ EndInv'
    BY <1>1, <1>2, <1>3, SameDevice DEF TransferInv, EndInv, Engaged, Concluded, Acked
  <2>3. RewindInv' /\ AnswerInv'
    BY <1>1, <1>2, <1>3, <1>4 DEF RewindInv, AnswerInv, Asked, Delivers
  <2>4. QED
    BY <2>1, <2>2, <2>3
<1>5. CASE inbox' = Append(inbox, Request)
  <2>1. /\ Elems(inbox') = Elems(inbox) \cup {Request}
        /\ Len(inbox) \in Nat /\ DOMAIN inbox = 1 .. Len(inbox) /\ DOMAIN inbox' = 1 .. Len(inbox) + 1
        /\ \A i \in 1 .. Len(inbox) : inbox'[i] = inbox[i]
        /\ inbox'[Len(inbox) + 1] = Request
    BY <1>5, AppendElems DEF TypeInv, TypeOK
  <2>2. /\ Request.msg = "BEGIN" => /\ host.phase = "begin" /\ Request.man = target.man
                                    /\ Request.sig = Hmac(target.man, target.data)
        /\ Request.msg = "DATA"  => /\ host.phase = "data" /\ Request.off = host.off
                                    /\ Request.block = target.data[host.off + 1]
        /\ Request.msg = "ENTER" => host.phase = "enterEnter"
        /\ Request.msg = "END"   => host.phase = "end"
        /\ Request.msg # "ABORT"
        /\ host.phase = "enterEnter" => Request.msg = "ENTER"
    BY <1>1, <1>2, RequestIsFrame DEF Phases
  <2>3. \A msg : Asked(msg)' <=> Asked(msg) \/ Request.msg = msg
    BY <2>1 DEF Asked
  <2>4. InboxInv'
    <3>1. /\ host.phase \in Searching => ~Asked("BEGIN")' /\ ~Asked("DATA")' /\ ~Asked("END")'
          /\ host.phase = "begin" => ~Asked("DATA")' /\ ~Asked("END")'
          /\ host.phase = "data" => ~Asked("END")'
          /\ host.phase \in {"end", "boot", "final", "done"} => ~Asked("BEGIN")'
      BY <2>2, <2>3 DEF InboxInv, Searching
    <3>2. Asked("ENTER")' => /\ host.phase = "enterEnter"
                             /\ ~Asked("BEGIN")' /\ ~Asked("DATA")'
      BY <1>2, <2>2, <2>3 DEF InboxInv, Searching
    <3>3. ~Asked("ABORT")'
      BY <2>2, <2>3 DEF InboxInv
    <3>4. /\ host.phase = "data" => \A f \in Elems(inbox') : f.msg = "DATA" => f.off <= host.off
          /\ host.phase = "end"  => \A f \in Elems(inbox') : f.msg = "DATA" => f.off < host.off
      BY <1>2, <2>1, <2>2 DEF InboxInv
    <3>5. QED
      BY <1>2, <3>1, <3>2, <3>3, <3>4 DEF InboxInv
  <2>5. OrderInv'
    <3> SUFFICES ASSUME NEW i \in 1 .. Len(inbox) + 1, NEW j \in 1 .. Len(inbox) + 1,
                        i < j, inbox'[j].msg = "BEGIN"
                 PROVE  inbox'[i].msg \notin {"DATA", "END"}
      BY <2>1 DEF OrderInv
    <3>1. i \in 1 .. Len(inbox) /\ inbox'[i] = inbox[i] /\ inbox[i] \in Elems(inbox)
      BY <2>1 DEF Elems
    <3>2. CASE j \in 1 .. Len(inbox)
      BY <2>1, <3>1, <3>2 DEF OrderInv
    <3>3. CASE j = Len(inbox) + 1
      <4>1. host.phase = "begin"
        BY <2>1, <2>2, <3>3
      <4>2. ~Asked("DATA") /\ ~Asked("END")
        BY <4>1 DEF InboxInv
      <4>3. QED
        BY <3>1, <4>2 DEF Asked
    <3>4. QED
      BY <2>1, <3>2, <3>3
  <2>6. ForeignInv'
    <3>1. \A f \in Elems(inbox) : Ours(f)
      BY <1>1 DEF ForeignInv
    <3>2. Ours(Request)
      BY <2>2 DEF Ours, TypeInv, HostInv
    <3>3. QED
      BY <1>1, <2>1, <3>1, <3>2 DEF ForeignInv, Ours
  <2>7. ModeInv' /\ OutboxInv'
    BY <1>1, <1>2, SameDevice DEF OutboxInv, Acked
  <2>8. TaskInv'
    BY <1>1, <1>2, <1>3, <2>2, <2>3
       DEF TaskInv, EraseInv, ProgramInv, CommitInv, Ours, RamManifest
  <2>9. TransferInv' /\ EndInv'
    BY <1>1, <1>2, <1>3, SameDevice DEF TransferInv, EndInv, Engaged, Concluded, Acked
  <2>10. RewindInv'
    BY <1>1, <1>2, <1>3, <2>2, <2>3 DEF RewindInv, Delivers
  <2>11. AnswerInv'
    BY <1>1, <1>2, <1>3 DEF AnswerInv, Delivers
  <2>12. QED
    BY <2>4, <2>5, <2>6, <2>7, <2>8, <2>9, <2>10, <2>11
<1>6. QED
  BY <1>1, <1>4, <1>5

(* Progress: the acknowledgement of BEGIN, of a block, of END.              *)
LEMMA AdvanceFrame ==
  ASSUME TypeInv, DeliveryInv, DeviceSame, UNCHANGED <<target, inbox>>,
         outbox # <<>>, outbox' = Tail(outbox)
  PROVE  /\ OrderInv' /\ ModeInv' /\ (\A msg : Asked(msg)' <=> Asked(msg))
         /\ (~Finished => ForeignInv') /\ Elems(inbox') = Elems(inbox)
         /\ Elems(outbox') \subseteq Elems(outbox)
         /\ \A msg, status : Acked(msg, status)' => Acked(msg, status)
         /\ (Session' <=> Session) /\ (Installed' <=> Installed)
         /\ UNCHANGED <<mode, request, app, meta, ram, task>>
<1> USE DEF DeliveryInv
<1>1. /\ Elems(outbox') \subseteq Elems(outbox)
      /\ \A msg, status : Acked(msg, status)' => Acked(msg, status)
  BY OutboxShrinks
<1>2. OrderInv' /\ (\A msg : Asked(msg)' <=> Asked(msg)) /\ Elems(inbox') = Elems(inbox)
  BY DEF OrderInv, Asked
<1>3. ~Finished => ForeignInv'
  BY <1>2 DEF ForeignInv, Ours
<1>4. QED
  BY <1>1, <1>2, <1>3, SameDevice DEF DeviceSame

LEMMA BeginAcknowledged ==
  ASSUME TypeInv, DeliveryInv, DeviceSame, UNCHANGED <<target, inbox>>,
         outbox # <<>>, outbox' = Tail(outbox), host.phase = "begin",
         IsReply(Head(outbox), "BEGIN", "OK"), host'.phase = "data", host'.off = 0
  PROVE  DeliveryInv'
<1> USE DEF DeliveryInv
<1>1. /\ OrderInv' /\ ModeInv' /\ (\A msg : Asked(msg)' <=> Asked(msg)) /\ ForeignInv'
      /\ Elems(inbox') = Elems(inbox) /\ Elems(outbox') \subseteq Elems(outbox)
      /\ \A msg, status : Acked(msg, status)' => Acked(msg, status)
      /\ Session' <=> Session
      /\ UNCHANGED <<mode, request, app, meta, ram, task>>
  BY AdvanceFrame DEF Finished
<1>2. /\ Head(outbox) \in Elems(outbox) /\ Acked("BEGIN", "OK")
      /\ ~Acked("DATA", "OK") /\ ~Acked("DATA", "RANGE") /\ ~Acked("END", "OK")
      /\ ~Asked("DATA") /\ ~Asked("END") /\ ~Asked("ENTER") /\ ~Asked("ABORT")
  BY TailElems DEF TypeInv, Acked, OutboxInv, InboxInv
<1>3. /\ target.man.size \in 1 .. AppBlocks
      /\ ram.updating => Session /\ ram.next = 0
  BY <1>2 DEF TransferInv, Engaged
<1>4. InboxInv'
  BY <1>1, <1>2 DEF InboxInv, Asked, Searching
<1>5. TaskInv'
  BY <1>1 DEF TaskInv, EraseInv, ProgramInv, CommitInv, Ours, RamManifest
<1>6. OutboxInv' /\ EndInv'
  BY <1>1, <1>2 DEF OutboxInv, EndInv, Concluded, Searching
<1>7. TransferInv'
  BY <1>1, <1>3 DEF TransferInv
<1>8. RewindInv'
  BY <1>1, <1>2, <1>3 DEF RewindInv, Delivers, Acked
<1>9. AnswerInv'
  <2>1. \A i \in DOMAIN outbox' : outbox'[i] \in Elems(outbox)
    BY <1>1 DEF Elems
  <2>2. QED
    BY <1>2, <2>1 DEF AnswerInv, Delivers, Acked
<1>10. QED
  BY <1>1, <1>4, <1>5, <1>6, <1>7, <1>8, <1>9

LEMMA BlockAcknowledged ==
  ASSUME TypeInv, DeliveryInv, DeviceSame, UNCHANGED <<target, inbox>>,
         outbox # <<>>, outbox' = Tail(outbox), host.phase = "data",
         Delivers(Head(outbox)), host'.off = host.off + 1, host'.phase \in {"data", "end"}
  PROVE  DeliveryInv'
<1> USE DEF DeliveryInv
<1>1. /\ OrderInv' /\ ModeInv' /\ (\A msg : Asked(msg)' <=> Asked(msg)) /\ ForeignInv'
      /\ Elems(inbox') = Elems(inbox) /\ Elems(outbox') \subseteq Elems(outbox)
      /\ \A msg, status : Acked(msg, status)' => Acked(msg, status)
      /\ Session' <=> Session
      /\ UNCHANGED <<mode, request, app, meta, ram, task>>
  BY AdvanceFrame DEF Finished
<1>2. /\ Head(outbox) \in Elems(outbox) /\ Len(outbox) \in Nat \ {0} /\ Head(outbox) = outbox[1]
      /\ DOMAIN outbox = 1 .. Len(outbox) /\ DOMAIN outbox' = 1 .. Len(outbox) - 1
      /\ \A i \in 1 .. Len(outbox) - 1 : outbox'[i] = outbox[i + 1]
  BY TailElems DEF TypeInv
<1>3. host.off \in Nat /\ ram.next \in Nat /\ \A f \in Elems(inbox) : f.msg = "DATA" => f.off \in Nat
  <2>1. \A f \in Elems(inbox) : f \in Frames
    BY DEF TypeInv, TypeOK, Elems
  <2>2. \A f \in Frames : f.msg = "DATA" => f.off \in Nat
    BY Limits DEF Frames, PlainFrames, PlainMsgs, BeginFrames, DataFrames
  <2>3. QED
    BY <2>1, <2>2, Limits DEF TypeInv, HostInv, HostType, TypeOK, RamType
<1>4. ~Asked("BEGIN") /\ task.op # "erase"
  BY <1>2 DEF RewindInv
<1>5. /\ ram.updating => ram.next = host.off + 1
      /\ \A j \in DOMAIN outbox : j > 1 => ~IsReply(outbox[j], "DATA", "OK")
      /\ \A j \in DOMAIN outbox : IsReply(outbox[j], "DATA", "RANGE") => outbox[j].next \in 0 .. host.off + 1
  <2>1. 1 \in DOMAIN outbox /\ Delivers(outbox[1])
    BY <1>2
  <2>2. QED
    BY <2>1 DEF AnswerInv
<1>6. task.op \notin {"program", "commit"}
  BY <1>3, <1>5 DEF TaskInv, ProgramInv, CommitInv
<1>7. InboxInv'
  BY <1>1, <1>3, <1>4 DEF InboxInv, Searching
<1>8. TaskInv'
  BY <1>1, <1>4, <1>6 DEF TaskInv, EraseInv, ProgramInv, CommitInv
<1>9. OutboxInv' /\ EndInv'
  BY <1>1 DEF OutboxInv, EndInv, Concluded, Searching
<1>10. TransferInv'
  BY <1>1, <1>3, <1>5 DEF TransferInv, Engaged
<1>11. RewindInv'
  BY <1>1, <1>4 DEF RewindInv
<1>12. AnswerInv'
  <2> SUFFICES ASSUME NEW i \in 1 .. Len(outbox) - 1
               PROVE  /\ ~IsReply(outbox'[i], "DATA", "OK")
                      /\ IsReply(outbox'[i], "DATA", "RANGE") =>
                           outbox'[i].next \in 0 .. host'.off + 1 /\ outbox'[i].next # host'.off + 1
    BY <1>2 DEF AnswerInv, Delivers
  <2>1. i + 1 \in DOMAIN outbox /\ i + 1 > 1 /\ outbox'[i] = outbox[i + 1]
    BY <1>2
  <2>2. /\ ~IsReply(outbox'[i], "DATA", "OK")
        /\ IsReply(outbox'[i], "DATA", "RANGE") => outbox'[i].next \in 0 .. host.off + 1
    BY <1>5, <2>1
  <2>3. QED
    BY <1>3, <2>2
<1>13. QED
  BY <1>1, <1>7, <1>8, <1>9, <1>10, <1>11, <1>12

LEMMA EndAcknowledged ==
  ASSUME TypeInv, DeliveryInv, DeviceSame, UNCHANGED <<target, inbox>>,
         outbox # <<>>, outbox' = Tail(outbox), host.phase = "end",
         IsReply(Head(outbox), "END", "OK"), host'.phase = "boot"
  PROVE  DeliveryInv'
<1> USE DEF DeliveryInv
<1>1. /\ OrderInv' /\ ModeInv' /\ (\A msg : Asked(msg)' <=> Asked(msg)) /\ ForeignInv'
      /\ Installed' <=> Installed
      /\ UNCHANGED <<mode, request, app, meta, ram, task>>
  BY AdvanceFrame DEF Finished
<1>2. Installed /\ ~ram.updating /\ task = Idle
  BY TailElems DEF TypeInv, EndInv, Concluded, Acked
<1>3. InboxInv'
  BY <1>1 DEF InboxInv, Searching
<1>4. TaskInv'
  BY <1>1, <1>2 DEF TaskInv, EraseInv, ProgramInv, CommitInv, Idle
<1>5. OutboxInv' /\ TransferInv' /\ RewindInv' /\ AnswerInv'
  BY DEF OutboxInv, TransferInv, Engaged, RewindInv, AnswerInv, Searching
<1>6. EndInv'
  BY <1>1, <1>2 DEF EndInv
<1>7. QED
  BY <1>1, <1>3, <1>4, <1>5, <1>6

LEMMA RunKeeps ==
  ASSUME TypeInv, DeliveryInv, DeviceSame, RunScript
  PROVE  DeliveryInv'
<1> USE DEF DeliveryInv
<1>1. /\ inbox' = <<>> /\ outbox' = <<>> /\ target' = target /\ task.op \in {"idle", "erase"}
      /\ host.phase \in {"done", "failed"}
  BY DEF RunScript, Reopen, Finished
<1>2. host'.phase \in {"enterInfo", "begin"} /\ host'.off = 0
  <2>1. host.off = 0 /\ host \in HostType /\ "enterInfo" \in Phases /\ 0 \in Seqs
    BY <1>1, SeqNumbers DEF TypeInv, HostInv, Phases
  <2>2. host' = GoTo("enterInfo", 0) \/ StartUpdate
    BY DEF RunScript
  <2>3. CASE host' = GoTo("enterInfo", 0)
    BY <2>1, <2>3, GoToType
  <2>4. QED
    BY <2>1, <2>2, <2>3, StartMoves
<1>3. UNCHANGED <<mode, request, app, meta, ram, task>>
  BY DEF DeviceSame
<1>4. OrderInv' /\ (\A f \in Elems(inbox') : Ours(f)') /\ (\A msg : ~Asked(msg)')
  BY <1>1, OwnElems DEF OrderInv, Asked
<1>5. AnswerInv' /\ (\A msg, status : ~Acked(msg, status)') /\ Elems(outbox') = {}
  BY <1>1, OwnElems DEF AnswerInv, Acked
<1>6. InboxInv' /\ ForeignInv' /\ ModeInv'
  BY <1>2, <1>4, <1>1, OwnElems, SameDevice DEF InboxInv, ForeignInv, Searching
<1>7. TaskInv'
  BY <1>1, <1>2, <1>3
     DEF TaskInv, EraseInv, ProgramInv, CommitInv, Ours, RamManifest, Searching
<1>8. OutboxInv' /\ TransferInv' /\ RewindInv' /\ EndInv'
  BY <1>2, <1>5 DEF OutboxInv, TransferInv, Engaged, RewindInv, EndInv, Concluded, Searching
<1>9. QED
  BY <1>4, <1>5, <1>6, <1>7, <1>8

(* A new wish: frames of the old one can only be heard by the application.  *)
LEMMA NewVersionKeeps ==
  ASSUME TypeInv, DeliveryInv, DeviceSame, NewVersion
  PROVE  DeliveryInv'
<1> USE DEF DeliveryInv
<1>1. /\ UNCHANGED <<inbox, outbox>> /\ host'.phase = "failed" /\ mode = "app"
      /\ host.phase \in {"done", "failed"}
  BY DEF NewVersion, vars, Finished, TargetRuns, NotStarted
<1>2. UNCHANGED <<mode, request, app, meta, ram, task>>
  BY DEF DeviceSame
<1>3. MetadataValid /\ ~request /\ task = Idle
  BY <1>1 DEF ModeInv
<1>4. \A msg : Asked(msg)' <=> Asked(msg)
  BY <1>1 DEF Asked
<1>5. InboxInv' /\ OrderInv'
  BY <1>1, <1>4 DEF InboxInv, OrderInv, Searching
<1>6. MetadataValid' /\ ModeInv'
  BY <1>2, <1>3 DEF MetadataValid, ModeInv, MetaManifest, Prefix
<1>7. ForeignInv'
  <2>1. CASE Asked("ENTER")
    <3>1. \A f \in Elems(inbox') : f.msg # "BEGIN" /\ f.msg # "DATA"
      BY <1>1, <2>1 DEF InboxInv, Asked
    <3>2. QED
      BY <3>1 DEF ForeignInv, Ours
  <2>2. CASE ~Asked("ENTER")
    BY <1>1, <1>2, <1>3, <1>4, <1>6, <2>2 DEF ForeignInv, Finished
  <2>3. QED
    BY <2>1, <2>2
<1>8. TaskInv'
  BY <1>2, <1>3 DEF TaskInv, EraseInv, ProgramInv, CommitInv, Idle
<1>9. OutboxInv' /\ TransferInv' /\ RewindInv' /\ AnswerInv' /\ EndInv'
  BY <1>1 DEF OutboxInv, TransferInv, Engaged, RewindInv, AnswerInv, EndInv, Concluded, Searching
<1>10. QED
  BY <1>5, <1>6, <1>7, <1>8, <1>9

LEMMA TelemetryKeeps ==
  ASSUME TypeInv, DeliveryInv, DeviceSame, AppTelemetry
  PROVE  DeliveryInv'
<1> USE DEF DeliveryInv
<1>1. UNCHANGED <<inbox, host, target>> /\ \E r : outbox' = <<r>> /\ r.kind # "ACK"
  BY DEF AppTelemetry
<1>2. UNCHANGED <<mode, request, app, meta, ram, task>>
  BY DEF DeviceSame
<1>3. PICK r : outbox' = <<r>> /\ r.kind # "ACK"
  BY <1>1
<1>4. DOMAIN outbox' = {1} /\ outbox'[1] = r
  BY <1>3
<1>5. /\ \A x \in Elems(outbox') : x.kind # "ACK"
      /\ \A i \in DOMAIN outbox' : outbox'[i].kind # "ACK"
  BY <1>3, <1>4 DEF Elems
<1>6. \A msg, status : ~Acked(msg, status)'
  BY <1>5 DEF Acked, IsReply
<1>7. InboxInv' /\ OrderInv' /\ ForeignInv' /\ ModeInv' /\ TaskInv'
  BY <1>1, <1>2, SameDevice
     DEF InboxInv, OrderInv, ForeignInv, TaskInv, EraseInv, ProgramInv, CommitInv, Asked, Ours,
         Finished, RamManifest
<1>8. OutboxInv' /\ TransferInv' /\ EndInv'
  BY <1>1, <1>2, <1>6, SameDevice DEF OutboxInv, TransferInv, Engaged, EndInv, Concluded
<1>9. RewindInv' /\ AnswerInv'
  BY <1>1, <1>2, <1>5 DEF RewindInv, AnswerInv, Asked, Delivers, IsReply
<1>10. QED
  BY <1>7, <1>8, <1>9

LEMMA HostKeeps ==
  ASSUME TypeInv, DeliveryInv, DeviceSame,
         \/ SendRequest \/ RunScript \/ NewVersion
         \/ HostTakes /\ UNCHANGED <<target, runs>>
         \/ outbox # <<>> /\ outbox' = Tail(outbox) /\ UNCHANGED <<inbox, target, host, runs>>
         \/ AppTelemetry \/ KillScript
  PROVE  DeliveryInv'
<1>1. CASE outbox # <<>> /\ outbox' = Tail(outbox) /\ UNCHANGED <<inbox, target, host, runs>>
  <2>1. inbox' \in {inbox, <<>>} /\ UNCHANGED host /\ UNCHANGED target
    BY <1>1
  <2>2. QED
    BY <1>1, <2>1, DriftKeeps
<1>2. CASE KillScript
  <2>1. /\ host' = Fail /\ inbox' \in {inbox, <<>>} /\ outbox' = outbox /\ UNCHANGED target
    BY <1>2 DEF KillScript, vars
  <2>2. Drifts /\ host'.phase = "failed"
    BY <2>1, StoppedType DEF Drifts
  <2>3. QED
    BY <2>1, <2>2, DriftKeeps
<1>3. ASSUME Drifts, UNCHANGED target, NEW rest, Received(rest),
             rest = outbox \/ (outbox # <<>> /\ rest = Tail(outbox))
      PROVE  DeliveryInv'
  <2>1. CASE host.phase = "enterEnter"
    <3>1. inbox' = <<>> /\ outbox' = <<>>
      BY <1>3, <2>1 DEF Received, Reopen
    <3>2. QED
      BY <1>3, <3>1, DriftKeeps
  <2>2. CASE host.phase # "enterEnter"
    <3>1. inbox' = inbox /\ outbox' = rest
      BY <1>3, <2>2 DEF Received
    <3>2. QED
      BY <1>3, <2>2, <3>1, DriftKeeps
  <2>3. QED
    BY <2>1, <2>2
<1>4. CASE HostTakes /\ UNCHANGED <<target, runs>>
  <2>1. CASE host.waiting /\ GiveUp /\ Received(outbox)
    BY <1>3, <1>4, <2>1, GiveUpMoves DEF TypeInv
  <2>2. ASSUME NEW r, Hears(r) PROVE DeliveryInv'
    <3>1. /\ outbox # <<>> /\ r = Head(outbox) /\ Received(Tail(outbox)) /\ UNCHANGED target
          /\ Advances(r) \/ Drifts
      BY <1>4, <2>2, AcceptMoves DEF Hears, TypeInv
    <3>2. CASE Drifts
      BY <1>3, <3>1, <3>2
    <3>3. CASE Advances(r)
      <4>1. host.phase \in {"begin", "data", "end"} /\ UNCHANGED inbox /\ outbox' = Tail(outbox)
        BY <3>1, <3>3 DEF Advances, Received
      <4>2. CASE host.phase = "begin"
        BY <3>1, <3>3, <4>1, <4>2, BeginAcknowledged DEF Advances
      <4>3. CASE host.phase = "data"
        BY <3>1, <3>3, <4>1, <4>3, BlockAcknowledged DEF Advances
      <4>4. CASE host.phase = "end"
        BY <3>1, <3>3, <4>1, <4>4, EndAcknowledged DEF Advances
      <4>5. QED
        BY <4>1, <4>2, <4>3, <4>4
    <3>4. QED
      BY <3>1, <3>2, <3>3
  <2>3. QED
    BY <1>4, <2>1, <2>2 DEF HostTakes
<1>5. QED
  BY <1>1, <1>2, <1>4, SendKeeps, RunKeeps, NewVersionKeeps, TelemetryKeeps

-----------------------------------------------------------------------------
(* Steps of the MCU.  Most answers claim nothing about the transfer.        *)
Claims(r) == r.kind = "ACK" /\ \/ r.msg \in {"BEGIN", "DATA", "END"} /\ r.status = "OK"
                               \/ r.msg = "DATA" /\ r.status = "RANGE"
Plainly == outbox' = outbox \/ \E r : ~Claims(r) /\ outbox' = Append(outbox, r)
Hearing == inbox' = inbox \/ (inbox # <<>> /\ inbox' = Tail(inbox))

Quiet == DeviceSame /\ Plainly
Reset == /\ ~ram'.updating /\ task' = Idle /\ Plainly
         /\ task = Idle => UNCHANGED <<app, meta>>

LEMMA McuKinds ==
  ASSUME TypeInv, ModeInv, BootStep \/ AppStep \/ FaultStep \/ FlashError
  PROVE  /\ Hearing
         /\ \/ Quiet \/ Reset
            \/ AppEnter /\ Plainly
            \/ HandleBeginRange /\ Plainly
            \/ FlashError /\ Plainly
            \/ HandleAbort \/ HandleDataRange \/ HandleBegin \/ EraseSector \/ HandleData
            \/ ProgramFirstPart \/ ProgramRest \/ HandleEnd \/ CommitField
<1>1. CASE HandleHello \/ HandleBeginShort \/ HandleDataState \/ HandleEndState \/ HandleUnsupported
  <2>1. Hearing /\ DeviceSame
    BY <1>1 DEF HandleHello, HandleBeginShort, HandleDataState, HandleEndState, HandleUnsupported,
                Hearing, DeviceSame, Receives, flash
  <2>2. Plainly
    BY <1>1 DEF HandleHello, HandleBeginShort, HandleDataState, HandleEndState, HandleUnsupported,
                Plainly, Claims, Send, Ack, Reply
  <2>3. QED
    BY <2>1, <2>2 DEF Quiet
<1>2. CASE HandleEndAuth
  <2>1. /\ Hearing /\ task' = Idle /\ UNCHANGED <<app, meta>>
        /\ ram' = [ram EXCEPT !.open = FALSE, !.updating = FALSE]
    BY <1>2 DEF HandleEndAuth, Hearing, Receives, flash
  <2>2. ~ram'.updating
    BY <2>1 DEF TypeInv, TypeOK, RamType
  <2>3. Plainly
    BY <1>2 DEF HandleEndAuth, Plainly, Claims, Send, Ack, Reply
  <2>4. QED
    BY <2>1, <2>2, <2>3 DEF Reset
<1>3. ColdRam.updating = FALSE
  BY DEF ColdRam
<1>4. CASE HandleBoot
  <2>1. /\ Hearing /\ task = Idle /\ UNCHANGED <<request, app, meta, task>>
        /\ IF MetadataValid THEN ram' = ColdRam ELSE UNCHANGED <<mode, ram>>
    BY <1>4 DEF HandleBoot, Hearing, Receives, flash
  <2>2. Plainly
    BY <1>4 DEF HandleBoot, Plainly, Claims, Send, Ack, Reply
  <2>3. CASE MetadataValid
    BY <1>3, <2>1, <2>2, <2>3 DEF Reset
  <2>4. CASE ~MetadataValid
    BY <2>1, <2>2, <2>4 DEF Quiet, DeviceSame
  <2>5. QED
    BY <2>1, <2>3, <2>4
<1>5. CASE Start
  BY <1>3, <1>5 DEF Start, Hearing, Plainly, Reset, flash, ModeInv
<1>6. CASE PowerLoss
  <2>1. /\ inbox' = inbox /\ outbox' = outbox /\ ram' = ColdRam /\ task' = Idle /\ Interrupted
    BY <1>6 DEF PowerLoss
  <2>2. task = Idle => UNCHANGED <<app, meta>>
    BY <2>1 DEF Interrupted, Idle, flash
  <2>3. QED
    BY <1>3, <2>1, <2>2 DEF Hearing, Plainly, Reset
<1>7. CASE HandleBeginRange
  <2>1. Plainly
    BY <1>7 DEF HandleBeginRange, Plainly, Claims, Send, Ack, Reply
  <2>2. QED
    BY <1>7, <2>1 DEF HandleBeginRange, Hearing, Receives
<1>8. CASE FlashError
  BY <1>8 DEF FlashError, Hearing, Plainly, Claims, Send, Ack, Reply
<1>9. CASE AppEnter
  <2>1. \E s \in Seqs : outbox' = Append(outbox, [Ack(Head(inbox), "OK", 0) EXCEPT !.seq = s])
    BY <1>9 DEF AppEnter, Send, Req
  <2>2. \A s : [Ack(Head(inbox), "OK", 0) EXCEPT !.seq = s].msg = Head(inbox).msg
    BY DEF Ack, Reply
  <2>3. Plainly
    BY <1>9, <2>1, <2>2 DEF AppEnter, Req, Plainly, Claims
  <2>4. QED
    BY <1>9, <2>3 DEF AppEnter, Hearing, Receives
<1>10. CASE AppInfo \/ AppUnsupported
  <2>1. Hearing /\ DeviceSame
    BY <1>10 DEF AppInfo, AppUnsupported, Hearing, DeviceSame, Receives, flash
  <2>2. CASE AppInfo
    BY <2>1, <2>2 DEF AppInfo, Quiet, Plainly, Claims, Send, Reply
  <2>3. CASE AppUnsupported
    <3>1. \E s \in Seqs : outbox' = Append(outbox, [Ack(Head(inbox), "UNSUPPORTED", 0) EXCEPT !.seq = s])
      BY <2>3 DEF AppUnsupported, Send, Req
    <3>2. \A s : [Ack(Head(inbox), "UNSUPPORTED", 0) EXCEPT !.seq = s].status = "UNSUPPORTED"
      BY DEF Ack, Reply
    <3>3. QED
      BY <2>1, <3>1, <3>2 DEF Quiet, Plainly, Claims
  <2>4. QED
    BY <1>10, <2>1, <2>2, <2>3
<1>11. CASE LoseFrame
  BY <1>11 DEF LoseFrame, Hearing, Quiet, DeviceSame, Plainly, flash
<1>12. CASE HandleCorrupt
  <2>1. Hearing /\ DeviceSame
    BY <1>12 DEF HandleCorrupt, Hearing, DeviceSame, flash
  <2>2. \E m, s : outbox' = Append(outbox, [Ack(Head(inbox), "CRC", ram.next) EXCEPT !.msg = m, !.seq = s])
    BY <1>12 DEF HandleCorrupt, Send, Req
  <2>3. \A m, s : [Ack(Head(inbox), "CRC", ram.next) EXCEPT !.msg = m, !.seq = s].status = "CRC"
    BY DEF Ack, Reply
  <2>4. QED
    BY <2>1, <2>2, <2>3 DEF Quiet, Plainly, Claims
<1>13. CASE \/ HandleAbort \/ HandleDataRange \/ HandleBegin \/ EraseSector \/ HandleData
            \/ ProgramFirstPart \/ ProgramRest \/ HandleEnd \/ CommitField
  <2>1. Hearing
    BY <1>13 DEF HandleAbort, HandleDataRange, HandleBegin, EraseSector, HandleData,
       ProgramFirstPart, ProgramRest, HandleEnd, CommitField, Hearing, Receives
  <2>2. QED
    BY <1>13, <2>1
<1>14. QED
  BY <1>1, <1>2, <1>4, <1>5, <1>6, <1>7, <1>8, <1>9, <1>10, <1>11, <1>12, <1>13
     DEF BootStep, AppStep, FaultStep

(* Which code runs, and what becomes of the flash when it changes.          *)
LEMMA ModeMoves ==
  ASSUME TypeInv, ModeInv, BootStep \/ AppStep \/ FaultStep \/ FlashError
  PROVE  \/ mode = "boot" /\ mode' = "boot" /\ request' = request
         \/ UNCHANGED <<mode, request, app, meta, task>>
         \/ /\ mode = "boot" /\ mode' = "app" /\ MetadataValid /\ task = Idle
            /\ UNCHANGED <<request, app, meta, task>>
         \/ /\ mode = "off" /\ (mode' = "app" => ~request /\ MetadataValid)
            /\ mode' \in {"app", "boot"} /\ (~request /\ MetadataValid => mode' = "app")
            /\ request' = FALSE /\ UNCHANGED <<app, meta, task>>
         \/ /\ mode = "app" /\ mode' = "off" /\ request' = TRUE /\ Asked("ENTER")
            /\ UNCHANGED <<app, meta, task>>
         \/ /\ mode' = "off" /\ request' = FALSE /\ task' = Idle
            /\ task = Idle => UNCHANGED <<app, meta>>
<1>1. CASE \/ HandleHello \/ HandleBeginShort \/ HandleBeginRange \/ HandleBegin \/ EraseSector
           \/ HandleDataState \/ HandleDataRange \/ HandleData \/ ProgramFirstPart \/ ProgramRest
           \/ HandleEndState \/ HandleEndAuth \/ HandleEnd \/ CommitField
           \/ HandleAbort \/ HandleUnsupported \/ FlashError
  BY <1>1 DEF HandleHello, HandleBeginShort, HandleBeginRange, HandleBegin,
      EraseSector, HandleDataState, HandleDataRange, HandleData, ProgramFirstPart, ProgramRest,
      HandleEndState, HandleEndAuth, HandleEnd, CommitField, HandleAbort, HandleUnsupported,
      FlashError, Receives
<1>2. CASE HandleBoot
  <2>1. /\ mode = "boot" /\ task = Idle /\ UNCHANGED <<request, app, meta, task>>
        /\ mode' = IF MetadataValid THEN "app" ELSE mode
    BY <1>2 DEF HandleBoot, Receives, flash
  <2>2. QED
    BY <2>1
<1>3. CASE Start
  <2>1. /\ mode = "off" /\ request' = FALSE /\ UNCHANGED <<app, meta, task>>
        /\ mode' = IF ~request /\ MetadataValid THEN "app" ELSE "boot"
    BY <1>3 DEF Start, flash
  <2>2. QED
    BY <2>1
<1>4. CASE AppEnter
  <2>1. /\ mode = "app" /\ mode' = "off" /\ request' = TRUE /\ UNCHANGED <<app, meta, task>>
        /\ inbox # <<>> /\ Head(inbox).msg = "ENTER"
    BY <1>4 DEF AppEnter, Receives, flash, Req
  <2>2. Asked("ENTER")
    BY <2>1, TailElems DEF TypeInv, TypeOK, Asked
  <2>3. QED
    BY <2>1, <2>2
<1>5. CASE AppInfo \/ AppUnsupported \/ LoseFrame \/ HandleCorrupt
  BY <1>5 DEF AppInfo, AppUnsupported, LoseFrame, HandleCorrupt, flash
<1>6. CASE PowerLoss
  <2>1. mode' = "off" /\ request' = FALSE /\ task' = Idle /\ Interrupted
    BY <1>6 DEF PowerLoss
  <2>2. task = Idle => UNCHANGED <<app, meta>>
    BY <2>1 DEF Interrupted, Idle, flash
  <2>3. QED
    BY <2>1, <2>2
<1>7. QED
  BY <1>1, <1>2, <1>3, <1>4, <1>5, <1>6 DEF BootStep, AppStep, FaultStep

LEMMA ModeKeeps ==
  ASSUME TypeInv, DeliveryInv, McuMoves
  PROVE  InboxInv' /\ OrderInv' /\ ForeignInv' /\ ModeInv'
<1> USE DEF DeliveryInv
<1>1. (BootStep \/ AppStep \/ FaultStep \/ FlashError) /\ UNCHANGED <<target, host>>
  BY DEF McuMoves
<1>2. Hearing
  BY <1>1, McuKinds
<1>3. /\ Elems(inbox') \subseteq Elems(inbox) /\ OrderInv' /\ \A msg : Asked(msg)' => Asked(msg)
  BY <1>2, InboxShrinks DEF Hearing
<1>4. InboxInv'
  BY <1>1, <1>3 DEF InboxInv
<1>5. UNCHANGED <<app, meta>> => (MetadataValid' <=> MetadataValid)
  BY DEF MetadataValid, MetaManifest, Prefix
<1>6. /\ mode \in {"off", "boot", "app"}
      /\ mode = "app" => MetadataValid
      /\ request => mode = "off"
      /\ mode # "boot" => task = Idle
  BY DEF ModeInv, TypeInv, TypeOK
<1> DEFINE Stays == /\ mode' = "app" => MetadataValid'
                    /\ request' => mode' = "off"
                    /\ mode' # "boot" => task' = Idle
                    /\ (mode # "boot" /\ ~request /\ MetadataValid /\ ~Asked("ENTER")) =>
                         mode' # "boot" /\ ~request' /\ MetadataValid'
<1>7. Stays
  <2>1. CASE mode = "boot" /\ mode' = "boot" /\ request' = request
    BY <1>6, <2>1
  <2>2. CASE UNCHANGED <<mode, request, app, meta, task>>
    BY <1>5, <1>6, <2>2
  <2>3. CASE /\ mode = "boot" /\ mode' = "app" /\ MetadataValid /\ task = Idle
             /\ UNCHANGED <<request, app, meta, task>>
    BY <1>5, <1>6, <2>3
  <2>4. CASE /\ mode = "off" /\ (mode' = "app" => ~request /\ MetadataValid)
             /\ mode' \in {"app", "boot"} /\ (~request /\ MetadataValid => mode' = "app")
             /\ request' = FALSE /\ UNCHANGED <<app, meta, task>>
    BY <1>5, <1>6, <2>4
  <2>5. CASE /\ mode = "app" /\ mode' = "off" /\ request' = TRUE /\ Asked("ENTER")
             /\ UNCHANGED <<app, meta, task>>
    BY <1>5, <1>6, <2>5
  <2>6. CASE /\ mode' = "off" /\ request' = FALSE /\ task' = Idle
             /\ task = Idle => UNCHANGED <<app, meta>>
    BY <1>5, <1>6, <2>6
  <2>7. QED
    BY <1>1, <2>1, <2>2, <2>3, <2>4, <2>5, <2>6, ModeMoves
<1>8. ModeInv'
  BY <1>7 DEF ModeInv
<1>9. ForeignInv'
  <2>1. CASE \A f \in Elems(inbox) : Ours(f)
    BY <1>1, <1>3, <2>1 DEF ForeignInv, Ours
  <2>2. CASE Finished /\ mode # "boot" /\ ~request /\ MetadataValid /\ ~Asked("ENTER")
    <3>1. Finished' /\ ~Asked("ENTER")'
      BY <1>1, <1>3, <2>2 DEF Finished
    <3>2. mode' # "boot" /\ ~request' /\ MetadataValid'
      BY <1>7, <2>2
    <3>3. QED
      BY <3>1, <3>2 DEF ForeignInv
  <2>3. QED
    BY <2>1, <2>2 DEF ForeignInv
<1>10. QED
  BY <1>3, <1>4, <1>8, <1>9

LEMMA PlainReply ==
  ASSUME TypeInv, Plainly, UNCHANGED <<target, host>>
  PROVE  /\ OutboxInv => OutboxInv'
         /\ Engaged' => Engaged
         /\ Concluded' => Concluded
         /\ \A r \in Elems(outbox') : Delivers(r) => r \in Elems(outbox)
         /\ AnswerInv /\ (ram'.updating => ram.updating /\ ram'.next = ram.next) => AnswerInv'
<1>1. CASE outbox' = outbox
  BY <1>1 DEF OutboxInv, Engaged, Concluded, Acked, AnswerInv, Delivers
<1>2. ASSUME NEW x, ~Claims(x), outbox' = Append(outbox, x)
      PROVE  /\ OutboxInv => OutboxInv'
             /\ Engaged' => Engaged
             /\ Concluded' => Concluded
             /\ \A r \in Elems(outbox') : Delivers(r) => r \in Elems(outbox)
             /\ AnswerInv /\ (ram'.updating => ram.updating /\ ram'.next = ram.next) => AnswerInv'
  <2>1. /\ Elems(outbox') = Elems(outbox) \cup {x}
        /\ Len(outbox) \in Nat /\ DOMAIN outbox = 1 .. Len(outbox)
        /\ DOMAIN outbox' = 1 .. Len(outbox) + 1
        /\ \A i \in 1 .. Len(outbox) : outbox'[i] = outbox[i]
        /\ outbox'[Len(outbox) + 1] = x
    BY <1>2, AppendElems DEF TypeInv
  <2>2. /\ ~IsReply(x, "BEGIN", "OK") /\ ~IsReply(x, "DATA", "OK") /\ ~IsReply(x, "END", "OK")
        /\ ~IsReply(x, "DATA", "RANGE") /\ ~Delivers(x)
    BY <1>2 DEF Claims, IsReply, Delivers
  <2>3. /\ Acked("BEGIN", "OK")' => Acked("BEGIN", "OK")
        /\ Acked("DATA", "OK")' => Acked("DATA", "OK")
        /\ Acked("DATA", "RANGE")' => Acked("DATA", "RANGE")
        /\ Acked("END", "OK")' => Acked("END", "OK")
    BY <2>1, <2>2 DEF Acked
  <2>4. ASSUME AnswerInv, ram'.updating => ram.updating /\ ram'.next = ram.next PROVE AnswerInv'
    <3> SUFFICES ASSUME host.phase = "data", NEW i \in 1 .. Len(outbox) + 1
                 PROVE  /\ IsReply(outbox'[i], "DATA", "RANGE") => outbox'[i].next \in 0 .. host.off + 1
                        /\ Delivers(outbox'[i]) =>
                             /\ ram'.updating => ram'.next = host.off + 1
                             /\ \A j \in 1 .. Len(outbox) + 1 :
                                  j > i => ~IsReply(outbox'[j], "DATA", "OK")
      BY <2>1 DEF AnswerInv, Delivers
    <3>1. CASE i = Len(outbox) + 1
      BY <2>1, <2>2, <3>1
    <3>2. CASE i \in 1 .. Len(outbox)
      <4>1. \A j \in 1 .. Len(outbox) + 1 : j \in 1 .. Len(outbox) \/ j = Len(outbox) + 1
        BY <2>1
      <4>2. i \in DOMAIN outbox /\ outbox'[i] = outbox[i]
        BY <2>1, <3>2
      <4>3. QED
        BY <2>1, <2>2, <2>4, <4>1, <4>2 DEF AnswerInv
    <3>3. QED
      BY <2>1, <3>1, <3>2
  <2>5. QED
    BY <2>1, <2>2, <2>3, <2>4 DEF OutboxInv, Engaged, Concluded
<1>3. QED
  BY <1>1, <1>2 DEF Plainly

(* Answers that change nothing, and frames that get lost.                   *)
LEMMA QuietKeeps ==
  ASSUME TypeInv, DeliveryInv, McuMoves, Quiet, Hearing
  PROVE  DeliveryInv'
<1> USE DEF DeliveryInv
<1>1. /\ UNCHANGED <<app, meta, ram, task, target, host>> /\ Plainly /\ DeviceSame
  BY DEF Quiet, DeviceSame, McuMoves
<1>2. \A msg : Asked(msg)' => Asked(msg)
  BY InboxShrinks DEF Hearing
<1>3. /\ OutboxInv' /\ AnswerInv' /\ (Engaged' => Engaged) /\ (Concluded' => Concluded)
      /\ \A r \in Elems(outbox') : Delivers(r) => r \in Elems(outbox)
  BY <1>1, PlainReply
<1>4. TaskInv'
  BY <1>1, <1>2 DEF TaskInv, EraseInv, ProgramInv, CommitInv, Ours, RamManifest
<1>5. TransferInv' /\ EndInv'
  BY <1>1, <1>3, SameDevice DEF TransferInv, EndInv
<1>6. RewindInv'
  BY <1>1, <1>2, <1>3 DEF RewindInv, Delivers
<1>7. QED
  BY <1>3, <1>4, <1>5, <1>6, ModeKeeps

(* The session is over: a reset, the start of an application, a digest that *)
(* does not match.                                                          *)
LEMMA ResetKeeps ==
  ASSUME TypeInv, DeliveryInv, McuMoves, Reset, Hearing
  PROVE  DeliveryInv'
<1> USE DEF DeliveryInv
<1>1. /\ UNCHANGED <<target, host>> /\ Plainly /\ ~ram'.updating /\ task' = Idle
      /\ task = Idle => UNCHANGED <<app, meta>>
  BY DEF Reset, McuMoves
<1>2. \A msg : Asked(msg)' => Asked(msg)
  BY InboxShrinks DEF Hearing
<1>3. /\ OutboxInv' /\ AnswerInv' /\ (Engaged' => Engaged) /\ (Concluded' => Concluded)
      /\ \A r \in Elems(outbox') : Delivers(r) => r \in Elems(outbox)
  BY <1>1, PlainReply
<1>4. TaskInv'
  BY <1>1 DEF TaskInv, EraseInv, ProgramInv, CommitInv, Idle
<1>5. TransferInv'
  BY <1>1, <1>3 DEF TransferInv
<1>6. EndInv'
  BY <1>1, <1>3 DEF EndInv, Installed, MetaManifest, Prefix
<1>7. RewindInv'
  BY <1>1, <1>2, <1>3 DEF RewindInv, Delivers, Idle
<1>8. QED
  BY <1>3, <1>4, <1>5, <1>6, <1>7, ModeKeeps

LEMMA EnterKeeps ==
  ASSUME TypeInv, DeliveryInv, McuMoves, AppEnter, Plainly, Hearing
  PROVE  DeliveryInv'
<1> USE DEF DeliveryInv
<1>1. /\ UNCHANGED <<app, meta, ram, task, target, host>> /\ task = Idle
  BY DEF AppEnter, Receives, flash, McuMoves
<1>2. \A msg : Asked(msg)' => Asked(msg)
  BY InboxShrinks DEF Hearing
<1>3. /\ OutboxInv' /\ AnswerInv' /\ (Engaged' => Engaged) /\ (Concluded' => Concluded)
      /\ \A r \in Elems(outbox') : Delivers(r) => r \in Elems(outbox)
  BY <1>1, PlainReply
<1>4. TaskInv'
  BY <1>1 DEF TaskInv, EraseInv, ProgramInv, CommitInv, Idle
<1>5. TransferInv' /\ EndInv'
  BY <1>1, <1>3
     DEF TransferInv, EndInv, Session, RamManifest, FieldValue, Installed, MetaManifest, Prefix
<1>6. RewindInv'
  BY <1>1, <1>2, <1>3 DEF RewindInv, Delivers
<1>7. QED
  BY <1>3, <1>4, <1>5, <1>6, ModeKeeps

(* BEGIN of an image that fits no region, and an error of the flash.        *)
LEMMA BeginRangeKeeps ==
  ASSUME TypeInv, DeliveryInv, McuMoves, HandleBeginRange, Plainly, Hearing
  PROVE  DeliveryInv'
<1> USE DEF DeliveryInv
<1>1. /\ UNCHANGED <<app, meta, task, target, host>> /\ task = Idle /\ mode = "boot"
      /\ inbox # <<>> /\ Head(inbox).msg = "BEGIN" /\ Head(inbox).man.size \notin 1 .. AppBlocks
      /\ ram' = LoadManifest(Head(inbox).man)
  BY DEF HandleBeginRange, Receives, flash, McuMoves, Req
<1>2. \A msg : Asked(msg)' => Asked(msg)
  BY InboxShrinks DEF Hearing
<1>3. ram'.updating = ram.updating /\ ram'.next = ram.next
  BY <1>1 DEF LoadManifest, TypeInv, TypeOK, RamType
<1>4. /\ OutboxInv' /\ AnswerInv' /\ (Engaged' => Engaged) /\ (Concluded' => Concluded)
  BY <1>1, <1>3, PlainReply
<1>5. target.man.size \notin 1 .. AppBlocks
  <2>1. Head(inbox) \in Elems(inbox)
    BY <1>1, TailElems DEF TypeInv, TypeOK
  <2>2. Ours(Head(inbox))
    BY <1>1, <2>1 DEF ForeignInv
  <2>3. QED
    BY <1>1, <2>2 DEF Ours
<1>6. ~Engaged
  BY <1>5 DEF TransferInv
<1>7. TaskInv'
  BY <1>1 DEF TaskInv, EraseInv, ProgramInv, CommitInv, Idle
<1>8. TransferInv' /\ RewindInv'
  BY <1>1, <1>4, <1>6 DEF TransferInv, RewindInv, Engaged
<1>9. EndInv'
  BY <1>1, <1>3, <1>4 DEF EndInv, Installed, MetaManifest, Prefix
<1>10. QED
  BY <1>4, <1>7, <1>8, <1>9, ModeKeeps

LEMMA FlashErrorKeeps ==
  ASSUME TypeInv, DeliveryInv, McuMoves, FlashError, Plainly, Hearing
  PROVE  DeliveryInv'
<1> USE DEF DeliveryInv
<1>1. /\ UNCHANGED <<app, meta, ram, target, host>> /\ task # Idle /\ task' = Idle
  BY DEF FlashError, flash, McuMoves, Idle
<1>2. \A msg : Asked(msg)' => Asked(msg)
  BY InboxShrinks DEF Hearing
<1>3. /\ OutboxInv' /\ AnswerInv' /\ (Engaged' => Engaged) /\ (Concluded' => Concluded)
      /\ \A r \in Elems(outbox') : Delivers(r) => r \in Elems(outbox)
  BY <1>1, PlainReply
<1>4. TaskInv'
  BY <1>1 DEF TaskInv, EraseInv, ProgramInv, CommitInv, Idle
<1>5. TransferInv'
  <2>1. Session => Session'
    BY <1>1 DEF Session, RamManifest, Idle
  <2>2. QED
    BY <1>1, <1>3, <2>1 DEF TransferInv
<1>6. EndInv'
  BY <1>1, <1>3 DEF EndInv
<1>7. RewindInv'
  BY <1>1, <1>2, <1>3 DEF RewindInv, Delivers, Idle
<1>8. QED
  BY <1>3, <1>4, <1>5, <1>6, <1>7, ModeKeeps

(* The next request of the bootloader is the script's; no BEGIN is behind a *)
(* block or END.                                                            *)
LEMMA NextRequest ==
  ASSUME TypeInv, DeliveryInv, inbox # <<>>, mode = "boot"
  PROVE  /\ Ours(Head(inbox)) /\ Head(inbox) \in Elems(inbox) /\ Asked(Head(inbox).msg)
         /\ Head(inbox).msg \in {"DATA", "END"} => ~Asked("BEGIN")
<1> USE DEF DeliveryInv
<1>1. /\ Head(inbox) \in Elems(inbox) /\ Len(inbox) \in Nat \ {0} /\ DOMAIN inbox = 1 .. Len(inbox)
      /\ Head(inbox) = inbox[1]
  BY TailElems DEF TypeInv, TypeOK
<1>2. Ours(Head(inbox)) /\ Asked(Head(inbox).msg)
  BY <1>1 DEF ForeignInv, Asked
<1>3. ASSUME Head(inbox).msg \in {"DATA", "END"} PROVE ~Asked("BEGIN")
  <2> SUFFICES ASSUME NEW j \in 1 .. Len(inbox), inbox[j].msg = "BEGIN" PROVE FALSE
    BY <1>1 DEF Asked, Elems
  <2>1. j # 1
    BY <1>1, <1>3
  <2>2. 1 \in DOMAIN inbox /\ j \in DOMAIN inbox /\ 1 < j
    BY <1>1, <2>1
  <2>3. QED
    BY <1>1, <1>3, <2>2 DEF OrderInv
<1>4. QED
  BY <1>1, <1>2, <1>3

(* The numbers the session is about.                                        *)
LEMMA Places ==
  ASSUME TypeInv
  PROVE  /\ host.off \in Nat /\ ram.next \in Nat /\ ram \in RamType
         /\ target \in Targets /\ target.man \in Manifest /\ target.man.size \in Nat
         /\ \A f \in Elems(inbox) : f.msg = "DATA" => f.off \in Nat
         /\ host.phase \in Phases
         /\ host.phase \in Searching \cup {"begin"} => host.off = 0
         /\ host.phase = "data" => host.off < target.man.size
         /\ host.phase = "end" => host.off = target.man.size
<1>1. \A f \in Elems(inbox) : f \in Frames
  BY DEF TypeInv, TypeOK, Elems
<1>2. \A f \in Frames : f.msg = "DATA" => f.off \in Nat
  BY Limits DEF Frames, PlainFrames, PlainMsgs, BeginFrames, DataFrames
<1>3. host.off \in Nat /\ ram.next \in Nat /\ ram \in RamType /\ target \in Targets /\ host.phase \in Phases
  BY Limits DEF TypeInv, HostInv, HostType, TypeOK, RamType
<1>4. target.man \in Manifest /\ target.man.size \in Nat
  BY <1>3, TargetType
<1>5. QED
  BY <1>1, <1>2, <1>3, <1>4 DEF TypeInv, HostInv

LEMMA DataRangeKeeps ==
  ASSUME TypeInv, DeliveryInv, McuMoves, HandleDataRange, Hearing
  PROVE  DeliveryInv'
<1> USE DEF DeliveryInv
<1>1. /\ UNCHANGED <<app, meta, ram, task, target, host>> /\ task = Idle /\ mode = "boot"
      /\ inbox # <<>> /\ Head(inbox).msg = "DATA" /\ ram.updating
      /\ outbox' = Append(outbox, Ack(Head(inbox), "RANGE", ram.next))
  BY DEF HandleDataRange, Receives, flash, McuMoves, Req, Send
<1> DEFINE x == Ack(Head(inbox), "RANGE", ram.next)
<1>2. x.kind = "ACK" /\ x.msg = "DATA" /\ x.status = "RANGE" /\ x.next = ram.next
  BY <1>1 DEF Ack, Reply
<1> HIDE DEF x
<1>3. outbox' = Append(outbox, x)
  BY <1>1 DEF x
<1>4. /\ Elems(outbox') = Elems(outbox) \cup {x}
      /\ Len(outbox) \in Nat /\ DOMAIN outbox = 1 .. Len(outbox)
      /\ DOMAIN outbox' = 1 .. Len(outbox) + 1
      /\ \A i \in 1 .. Len(outbox) : outbox'[i] = outbox[i]
      /\ outbox'[Len(outbox) + 1] = x
  BY <1>3, AppendElems DEF TypeInv
<1>5. ~Asked("BEGIN") /\ Asked("DATA")
  BY <1>1, NextRequest
<1>6. \A msg : Asked(msg)' => Asked(msg)
  BY InboxShrinks DEF Hearing
<1>7. host.phase \notin Searching \cup {"begin"}
  BY <1>5 DEF InboxInv
<1>8. Acked("END", "OK")' => Acked("END", "OK")
  BY <1>2, <1>4 DEF Acked, IsReply
<1>9. OutboxInv' /\ TaskInv'
  BY <1>1, <1>7, <1>8 DEF OutboxInv, TaskInv, EraseInv, ProgramInv, CommitInv, Idle
<1>10. TransferInv'
  BY <1>1, <1>7 DEF TransferInv, Engaged, Session, RamManifest, FieldValue
<1>11. RewindInv'
  BY <1>1, <1>5, <1>6 DEF RewindInv, Idle
<1>12. AnswerInv'
  <2> SUFFICES ASSUME host.phase = "data", NEW i \in 1 .. Len(outbox) + 1
               PROVE  /\ IsReply(outbox'[i], "DATA", "RANGE") => outbox'[i].next \in 0 .. host.off + 1
                      /\ Delivers(outbox'[i]) =>
                           /\ ram.next = host.off + 1
                           /\ \A j \in 1 .. Len(outbox) + 1 :
                                j > i => ~IsReply(outbox'[j], "DATA", "OK")
    BY <1>1, <1>4 DEF AnswerInv, Delivers
  <2>1. ram.next \in 0 .. host.off + 1 /\ ~IsReply(x, "DATA", "OK")
    BY <1>1, <1>2, Places DEF TransferInv, Engaged, IsReply
  <2>2. CASE i = Len(outbox) + 1
    BY <1>2, <1>4, <2>1, <2>2 DEF Delivers
  <2>3. CASE i \in 1 .. Len(outbox)
    <3>1. \A j \in 1 .. Len(outbox) + 1 : j \in 1 .. Len(outbox) \/ j = Len(outbox) + 1
      BY <1>4
    <3>2. i \in DOMAIN outbox /\ outbox'[i] = outbox[i]
      BY <1>4, <2>3
    <3>3. QED
      BY <1>1, <1>4, <2>1, <3>1, <3>2 DEF AnswerInv
  <2>4. QED
    BY <1>4, <2>2, <2>3
<1>13. EndInv'
  BY <1>1, <1>8 DEF EndInv, Concluded, Installed, MetaManifest, Prefix
<1>14. QED
  BY <1>9, <1>10, <1>11, <1>12, <1>13, ModeKeeps

LEMMA BeginKeeps ==
  ASSUME TypeInv, DeliveryInv, McuMoves, HandleBegin, Hearing
  PROVE  DeliveryInv'
<1> USE DEF DeliveryInv
<1>1. /\ UNCHANGED <<app, meta, outbox, target, host>> /\ task = Idle /\ mode = "boot"
      /\ inbox # <<>> /\ Head(inbox).msg = "BEGIN" /\ Head(inbox).man.size \in 1 .. AppBlocks
      /\ ram' = [LoadManifest(Head(inbox).man) EXCEPT !.hmac = Head(inbox).sig]
      /\ task' = Task("erase", 4, Head(inbox))
  BY DEF HandleBegin, Receives, flash, McuMoves, Req
<1>2. Ours(Head(inbox)) /\ Asked("BEGIN")
  BY <1>1, NextRequest
<1>3. Head(inbox).man = target.man /\ Head(inbox).sig = Hmac(target.man, target.data)
  BY <1>1, <1>2 DEF Ours
<1>4. /\ ram'.updating = ram.updating /\ ram'.next = ram.next /\ ram'.open = ram.open
      /\ ram'.size = target.man.size /\ ram'.version = target.man.version
      /\ ram'.crc = target.man.crc /\ ram'.hmac = Hmac(target.man, target.data)
  BY <1>1, <1>3, Places DEF LoadManifest, RamType
<1>5. RamManifest' = target.man
  BY <1>4, Places DEF RamManifest, Manifest
<1>6. /\ task'.op = "erase" /\ task'.at = 4 /\ task'.req = Head(inbox)
  BY <1>1 DEF Task
<1>7. TaskInv'
  <2>1. \A i \in AppIndex : ~(SectorOf[i] < 4)
    BY GeometryAssumption
  <2>2. host.phase \in Searching \cup {"begin", "data", "failed"}
    BY <1>2, Places DEF InboxInv, Phases, Searching
  <2>3. Ours(task.req)'
    BY <1>1, <1>2, <1>6 DEF Ours
  <2>4. EraseInv'
    BY <1>1, <1>3, <1>4, <1>5, <1>6, <2>1, <2>2, <2>3 DEF EraseInv
  <2>5. QED
    BY <1>6, <2>4 DEF TaskInv, ProgramInv, CommitInv
<1>8. OutboxInv'
  BY <1>1 DEF OutboxInv, Acked
<1>9. TransferInv'
  <2>1. Engaged' => Engaged
    BY <1>1 DEF Engaged, Acked
  <2>2. Session => Session'
    BY <1>1, <1>4, <1>5, <1>6 DEF Session
  <2>3. QED
    BY <1>1, <1>4, <2>1, <2>2 DEF TransferInv
<1>10. RewindInv' /\ AnswerInv'
  BY <1>1, <1>2, <1>4 DEF RewindInv, AnswerInv, Delivers
<1>11. EndInv'
  BY <1>1, <1>2 DEF EndInv, Concluded, Acked, InboxInv
<1>12. QED
  BY <1>7, <1>8, <1>9, <1>10, <1>11, ModeKeeps

LEMMA EraseKeeps ==
  ASSUME TypeInv, DeliveryInv, McuMoves, EraseSector, Hearing
  PROVE  DeliveryInv'
<1> USE DEF DeliveryInv
<1>1. /\ UNCHANGED <<inbox, target, host>> /\ task.op = "erase"
      /\ task \in [op : {"erase"}, at : 4 .. 7, req : BeginFrames]
  BY EraseTask DEF EraseSector, McuMoves, TypeInv
<1>2. \A msg : Asked(msg)' <=> Asked(msg)
  BY <1>1 DEF Asked
<1>3. /\ Ours(task.req) /\ target.man.size \in 1 .. AppBlocks
      /\ RamManifest = target.man /\ ram.hmac = Hmac(target.man, target.data)
      /\ task.at > 4 => meta = BlankMeta
      /\ \A i \in AppIndex : SectorOf[i] < task.at => app[i] = Erased
      /\ host.phase \in Searching \cup {"begin", "data", "failed"}
  BY <1>1 DEF TaskInv, EraseInv
<1>4. /\ meta' = meta \/ meta' = BlankMeta
      /\ meta' = BlankMeta
      /\ \A i \in AppIndex : app'[i] = Erased \/ app'[i] = app[i]
      /\ \A i \in AppIndex : SectorOf[i] <= task.at => app'[i] = Erased
  <2>1. CASE task.at = 4
    <3>1. meta' = BlankMeta /\ app' = app
      BY <2>1 DEF EraseSector
    <3>2. \A i \in AppIndex : ~(SectorOf[i] <= 4)
      BY GeometryAssumption
    <3>3. QED
      BY <2>1, <3>1, <3>2
  <2>2. CASE task.at # 4
    <3>1. /\ app' = [i \in AppIndex |-> IF SectorOf[i] = task.at THEN Erased ELSE app[i]]
          /\ meta' = meta /\ task.at > 4
      BY <1>1, <2>2 DEF EraseSector
    <3>2. \A i \in AppIndex : SectorOf[i] <= task.at => SectorOf[i] = task.at \/ SectorOf[i] < task.at
      BY <1>1, GeometryAssumption
    <3>3. QED
      BY <1>3, <3>1, <3>2
  <2>3. QED
    BY <2>1, <2>2
<1>5. ~Concluded
  <2>1. task # Idle
    BY <1>1 DEF Idle
  <2>2. QED
    BY <2>1 DEF EndInv
<1>6. CASE task.at < 7
  <2>1. UNCHANGED <<ram, outbox>> /\ task' = [task EXCEPT !.at = task.at + 1]
    BY <1>1, <1>6 DEF EraseSector
  <2>2. task'.op = "erase" /\ task'.at = task.at + 1 /\ task'.req = task.req
    BY <1>1, <2>1
  <2>3. TaskInv'
    <3>1. \A i \in AppIndex : SectorOf[i] < task.at + 1 => app'[i] = Erased
      BY <1>1, <1>4, GeometryAssumption
    <3>2. EraseInv'
      BY <1>1, <1>3, <1>4, <2>1, <2>2, <3>1 DEF EraseInv, Ours, RamManifest
    <3>3. QED
      BY <2>2, <3>2 DEF TaskInv, ProgramInv, CommitInv
  <2>4. OutboxInv' /\ EndInv'
    BY <1>1, <1>5, <2>1 DEF OutboxInv, EndInv, Concluded, Acked
  <2>5. TransferInv'
    <3>1. Engaged' => Engaged
      BY <1>1, <2>1 DEF Engaged, Acked
    <3>2. ASSUME Engaged, ram.updating PROVE Session' /\ ram.next = 0
      <4>1. Session /\ ram.next = 0
        BY <1>1, <1>3, <3>2 DEF TransferInv, RewindInv, Engaged, Searching
      <4>2. \A i \in AppIndex : i \in Nat
        BY GeometryAssumption DEF AppIndex
      <4>3. ASSUME NEW i \in AppIndex
            PROVE  /\ ~(i < 0) /\ (i > 0 => app'[i] = Erased)
                   /\ i = 0 => \/ app'[i] = Erased
                               \/ i < target.man.size /\ app'[i] = Torn(target.data[i + 1])
        <5>1. /\ i > 0 => app[i] = Erased
              /\ i = 0 => app[i] = Erased \/ (i < target.man.size /\ app[i] = Torn(target.data[i + 1]))
          BY <4>1 DEF Session
        <5>2. ~(i < 0)
          BY <4>2
        <5>3. QED
          BY <1>4, <5>1, <5>2
      <4>4. RamManifest' = target.man /\ ram'.hmac = Hmac(target.man, target.data) /\ ram'.next = 0
            /\ 0 <= target.man.size /\ target' = target /\ task'.op = "erase" /\ meta' = BlankMeta
        BY <1>1, <1>3, <1>4, <2>1, <2>2, <4>1, Places DEF RamManifest
      <4>5. QED
        BY <4>1, <4>3, <4>4 DEF Session
    <3>3. QED
      BY <1>1, <1>3, <2>1, <3>1, <3>2 DEF TransferInv
  <2>6. RewindInv' /\ AnswerInv'
    BY <1>1, <1>2, <2>1, <2>2 DEF RewindInv, AnswerInv, Delivers
  <2>7. QED
    BY <2>3, <2>4, <2>5, <2>6, ModeKeeps
<1>7. CASE task.at = 7
  <2> DEFINE x == Ack(task.req, "OK", 0)
  <2>1. /\ task' = Idle /\ outbox' = Append(outbox, x)
        /\ ram' = [ram EXCEPT !.bound = task.req.man, !.hashed = <<>>, !.open = TRUE,
                              !.next = 0, !.updating = TRUE]
    BY <1>1, <1>7 DEF EraseSector, Send
  <2>2. x.msg = "BEGIN"
    BY <1>1 DEF Ack, Reply, BeginFrames
  <2> HIDE DEF x
  <2>3. /\ Elems(outbox') = Elems(outbox) \cup {x}
        /\ Len(outbox) \in Nat /\ DOMAIN outbox = 1 .. Len(outbox)
        /\ DOMAIN outbox' = 1 .. Len(outbox) + 1
        /\ \A i \in 1 .. Len(outbox) : outbox'[i] = outbox[i]
        /\ outbox'[Len(outbox) + 1] = x
    BY <2>1, AppendElems DEF TypeInv
  <2>4. /\ Acked("DATA", "OK")' => Acked("DATA", "OK")
        /\ Acked("DATA", "RANGE")' => Acked("DATA", "RANGE")
        /\ Acked("END", "OK")' => Acked("END", "OK")
        /\ ~IsReply(x, "DATA", "OK") /\ ~IsReply(x, "DATA", "RANGE") /\ ~Delivers(x)
    BY <2>2, <2>3 DEF Acked, IsReply, Delivers
  <2>5. TaskInv'
    BY <2>1 DEF TaskInv, EraseInv, ProgramInv, CommitInv, Idle
  <2>6. OutboxInv' /\ EndInv'
    BY <1>1, <1>5, <2>4 DEF OutboxInv, EndInv, Concluded
  <2>7. /\ ram'.next = 0 /\ RamManifest' = RamManifest /\ ram'.hmac = ram.hmac
    BY <2>1, Places DEF RamType, RamManifest
  <2>8. host.phase \in Searching \cup {"begin", "data"} => host.off = 0
    BY <1>1, <1>3, Places DEF RewindInv
  <2>9. Session'
    <3>1. \A i \in AppIndex : app'[i] = Erased /\ ~(i < 0)
      BY <1>4, <1>7, GeometryAssumption DEF AppIndex
    <3>2. 0 <= target.man.size
      BY Places
    <3>3. QED
      BY <1>1, <1>3, <1>4, <2>1, <2>7, <3>1, <3>2 DEF Session, Idle
  <2>10. TransferInv'
    BY <1>1, <1>3, <2>7, <2>8, <2>9 DEF TransferInv, Engaged, Searching
  <2>11. RewindInv'
    BY <1>1, <1>2, <2>3, <2>4, <2>7 DEF RewindInv, Delivers
  <2>12. AnswerInv'
    <3> SUFFICES ASSUME host.phase = "data", NEW i \in 1 .. Len(outbox) + 1
                 PROVE  /\ IsReply(outbox'[i], "DATA", "RANGE") => outbox'[i].next \in 0 .. host.off + 1
                        /\ ~Delivers(outbox'[i])
      BY <1>1, <2>3 DEF AnswerInv, Delivers
    <3>1. CASE i = Len(outbox) + 1
      BY <2>3, <2>4, <3>1
    <3>2. CASE i \in 1 .. Len(outbox)
      <4>1. i \in DOMAIN outbox /\ outbox'[i] = outbox[i] /\ outbox[i] \in Elems(outbox)
        BY <2>3, <3>2 DEF Elems
      <4>2. QED
        BY <1>1, <4>1 DEF AnswerInv, RewindInv
    <3>3. QED
      BY <2>3, <3>1, <3>2
  <2>13. QED
    BY <2>5, <2>6, <2>10, <2>11, <2>12, ModeKeeps
<1>8. QED
  BY <1>1, <1>6, <1>7

LEMMA DataKeeps ==
  ASSUME TypeInv, DeliveryInv, McuMoves, HandleData, Hearing
  PROVE  DeliveryInv'
<1> USE DEF DeliveryInv
<1>1. /\ UNCHANGED <<app, meta, ram, outbox, target, host>> /\ task = Idle /\ mode = "boot"
      /\ inbox # <<>> /\ Head(inbox).msg = "DATA" /\ ram.updating /\ Head(inbox).off = ram.next
      /\ task' = Task("program", 0, Head(inbox))
  BY DEF HandleData, Receives, flash, McuMoves, Req, DataInRange
<1>2. Ours(Head(inbox)) /\ Asked("DATA") /\ ~Asked("BEGIN") /\ Head(inbox) \in Elems(inbox)
  BY <1>1, NextRequest
<1>3. /\ task'.op = "program" /\ task'.req = Head(inbox)
  BY <1>1 DEF Task
<1>4. \A msg : Asked(msg)' => Asked(msg)
  BY InboxShrinks DEF Hearing
<1>5. ~Concluded
  BY <1>1 DEF EndInv
<1>6. /\ host.phase \in {"data", "failed"}
      /\ host.phase = "data" => ram.next <= host.off
  <2>1. host.phase \notin Searching \cup {"begin"}
    BY <1>2 DEF InboxInv
  <2>2. host.phase = "end" => ram.next < host.off /\ ram.next \in {host.off, host.off + 1}
    BY <1>1, <1>2 DEF InboxInv, TransferInv, Engaged
  <2>3. host.phase # "end"
    BY <2>2, Places
  <2>4. host.phase \in {"data", "failed"}
    BY <1>5, <2>1, <2>3, Places DEF Phases, Searching, Concluded
  <2>5. QED
    BY <1>1, <1>2, <2>4 DEF InboxInv
<1>7. TaskInv'
  <2>1. Ours(task.req)'
    BY <1>1, <1>2, <1>3 DEF Ours
  <2>2. ProgramInv'
    BY <1>1, <1>2, <1>3, <1>4, <1>6, <2>1 DEF ProgramInv
  <2>3. QED
    BY <1>3, <2>2 DEF TaskInv, EraseInv, CommitInv
<1>8. OutboxInv' /\ EndInv'
  BY <1>1, <1>5 DEF OutboxInv, EndInv, Concluded, Acked
<1>9. TransferInv'
  <2>1. Session => Session'
    BY <1>1, <1>3 DEF Session, RamManifest
  <2>2. Engaged' => Engaged
    BY <1>1 DEF Engaged, Acked
  <2>3. QED
    BY <1>1, <2>1, <2>2 DEF TransferInv
<1>10. RewindInv' /\ AnswerInv'
  BY <1>1, <1>2, <1>3, <1>4 DEF RewindInv, AnswerInv, Delivers
<1>11. QED
  BY <1>7, <1>8, <1>9, <1>10, ModeKeeps

(* What the session's place on the flash becomes when its block is written. *)
LEMMA BlockOfTask ==
  ASSUME TypeInv, DeliveryInv, task.op = "program"
  PROVE  /\ task \in [op : {"program"}, at : 0 .. 1, req : DataFrames] /\ task # Idle
         /\ ram.updating /\ host.phase \in {"data", "failed"}
         /\ ram.next < target.man.size /\ task.req.block = target.data[ram.next + 1]
         /\ host.phase = "data" => /\ Session /\ ram.next = host.off /\ ~Asked("BEGIN")
                                   /\ target.man.size \in 1 .. AppBlocks
         /\ ~Concluded
<1> USE DEF DeliveryInv
<1>1. task \in [op : {"program"}, at : 0 .. 1, req : DataFrames] /\ task # Idle
  BY ProgramTask DEF TypeInv, Idle
<1>2. /\ ram.updating /\ host.phase \in {"data", "failed"}
      /\ Ours(task.req) /\ task.req.off = ram.next
      /\ host.phase = "data" => ram.next <= host.off /\ ~Asked("BEGIN")
  BY DEF TaskInv, ProgramInv
<1>3. ram.next < target.man.size /\ task.req.block = target.data[ram.next + 1]
  BY <1>1, <1>2 DEF Ours, DataFrames
<1>4. ASSUME host.phase = "data"
      PROVE  Session /\ ram.next = host.off /\ target.man.size \in 1 .. AppBlocks
  <2>1. /\ Session /\ ram.next \in {host.off, host.off + 1} /\ ram.next <= host.off
        /\ target.man.size \in 1 .. AppBlocks
    BY <1>2, <1>4 DEF TransferInv, Engaged
  <2>2. QED
    BY <2>1, Places
<1>5. ~Concluded
  BY <1>1 DEF EndInv
<1>6. QED
  BY <1>1, <1>2, <1>3, <1>4, <1>5

LEMMA FirstPartKeeps ==
  ASSUME TypeInv, DeliveryInv, McuMoves, ProgramFirstPart, Hearing
  PROVE  DeliveryInv'
<1> USE DEF DeliveryInv
<1>1. /\ UNCHANGED <<meta, ram, inbox, outbox, target, host>> /\ task.op = "program"
      /\ WriteCell(ram.next, TornBy(app[ram.next], task.req.block))
      /\ task' = [task EXCEPT !.at = 1]
  BY DEF ProgramFirstPart, McuMoves
<1>2. /\ task \in [op : {"program"}, at : 0 .. 1, req : DataFrames]
      /\ ram.next < target.man.size /\ task.req.block = target.data[ram.next + 1]
      /\ host.phase \in {"data", "failed"} /\ ~Concluded
      /\ host.phase = "data" => Session /\ ~Asked("BEGIN")
  BY <1>1, BlockOfTask
<1>3. task'.op = "program" /\ task'.req = task.req
  BY <1>1, <1>2
<1>4. \A msg : Asked(msg)' <=> Asked(msg)
  BY <1>1 DEF Asked
<1>5. TaskInv'
  BY <1>1, <1>3, <1>4 DEF TaskInv, EraseInv, ProgramInv, CommitInv, Ours
<1>6. OutboxInv' /\ EndInv'
  BY <1>1, <1>2 DEF OutboxInv, EndInv, Concluded, Acked
<1>7. TransferInv'
  <2> SUFFICES ASSUME host.phase = "data" PROVE Session'
    BY <1>1, <1>2 DEF TransferInv, Engaged, Searching
  <2>1. app \in [AppIndex -> Cells] /\ ram.next \in Nat /\ \A i \in AppIndex : i \in Nat
    BY Places, GeometryAssumption DEF TypeInv, TypeOK, AppIndex
  <2>2. ASSUME NEW i \in AppIndex
        PROVE  /\ i < ram.next => app'[i] = target.data[i + 1]
               /\ i > ram.next => app'[i] = Erased
               /\ i = ram.next => i < target.man.size /\ app'[i] = Torn(target.data[i + 1])
    <3>1. /\ i < ram.next => app[i] = target.data[i + 1]
          /\ i > ram.next => app[i] = Erased
          /\ i = ram.next => app[i] = Erased \/ app[i] = Torn(target.data[i + 1])
      BY <1>2 DEF Session
    <3>2. CASE i # ram.next
      <4>1. app'[i] = app[i]
        BY <1>1, <2>1, <3>2 DEF WriteCell
      <4>2. QED
        BY <3>1, <3>2, <4>1
    <3>3. CASE i = ram.next
      <4>1. app'[i] = TornBy(app[i], target.data[i + 1])
        BY <1>1, <1>2, <2>1, <3>3 DEF WriteCell
      <4>2. app'[i] = Torn(target.data[i + 1])
        BY <3>1, <3>3, <4>1 DEF TornBy
      <4>3. QED
        BY <1>2, <2>1, <3>3, <4>2
    <3>4. QED
      BY <3>2, <3>3
  <2>3. QED
    BY <1>1, <1>2, <1>3, <2>2 DEF Session, RamManifest
<1>8. RewindInv' /\ AnswerInv'
  BY <1>1, <1>2, <1>3, <1>4 DEF RewindInv, AnswerInv, Delivers
<1>9. QED
  BY <1>5, <1>6, <1>7, <1>8, ModeKeeps

LEMMA RestKeeps ==
  ASSUME TypeInv, DeliveryInv, McuMoves, ProgramRest, Hearing
  PROVE  DeliveryInv'
<1> USE DEF DeliveryInv
<1> DEFINE x == Ack(task.req, "OK", ram.next + 1)
<1>1. /\ UNCHANGED <<meta, inbox, target, host>> /\ task.op = "program" /\ task' = Idle
      /\ WriteCell(ram.next, Programmed(app[ram.next], task.req.block))
      /\ ram' = [ram EXCEPT !.hashed = Append(@, task.req.block), !.next = @ + 1]
      /\ outbox' = Append(outbox, x)
  BY DEF ProgramRest, McuMoves, Send
<1>2. /\ task \in [op : {"program"}, at : 0 .. 1, req : DataFrames]
      /\ ram.updating /\ ram.next < target.man.size /\ task.req.block = target.data[ram.next + 1]
      /\ host.phase \in {"data", "failed"} /\ ~Concluded
      /\ host.phase = "data" => /\ Session /\ ~Asked("BEGIN") /\ ram.next = host.off
                                /\ target.man.size \in 1 .. AppBlocks
  BY <1>1, BlockOfTask
<1>3. x.msg = "DATA" /\ x.status = "OK"
  BY <1>2 DEF Ack, Reply, DataFrames
<1> HIDE DEF x
<1>4. /\ Elems(outbox') = Elems(outbox) \cup {x}
      /\ Len(outbox) \in Nat /\ DOMAIN outbox = 1 .. Len(outbox)
      /\ DOMAIN outbox' = 1 .. Len(outbox) + 1
      /\ \A i \in 1 .. Len(outbox) : outbox'[i] = outbox[i]
      /\ outbox'[Len(outbox) + 1] = x
  BY <1>1, AppendElems DEF TypeInv
<1>5. /\ \A msg : Asked(msg)' <=> Asked(msg)
      /\ Acked("END", "OK")' => Acked("END", "OK")
      /\ ~IsReply(x, "DATA", "RANGE")
  BY <1>1, <1>3, <1>4 DEF Asked, Acked, IsReply
<1>6. /\ ram'.next = ram.next + 1 /\ ram'.updating = ram.updating /\ ram'.open = ram.open
      /\ RamManifest' = RamManifest /\ ram'.hmac = ram.hmac
  BY <1>1, Places DEF RamType, RamManifest
<1>7. TaskInv'
  BY <1>1 DEF TaskInv, EraseInv, ProgramInv, CommitInv, Idle
<1>8. OutboxInv' /\ EndInv'
  BY <1>1, <1>2, <1>5 DEF OutboxInv, EndInv, Concluded, Searching
<1>9. TransferInv'
  <2> SUFFICES ASSUME host.phase = "data" PROVE Session'
    BY <1>1, <1>2, <1>6 DEF TransferInv, Engaged, Searching
  <2>1. app \in [AppIndex -> Cells] /\ ram.next \in Nat /\ \A i \in AppIndex : i \in Nat
    BY Places, GeometryAssumption DEF TypeInv, TypeOK, AppIndex
  <2>2. ASSUME NEW i \in AppIndex
        PROVE  /\ i < ram.next + 1 => app'[i] = target.data[i + 1]
               /\ i > ram.next + 1 => app'[i] = Erased
               /\ i = ram.next + 1 => app'[i] = Erased
    <3>1. /\ i < ram.next => app[i] = target.data[i + 1]
          /\ i > ram.next => app[i] = Erased
          /\ i = ram.next => app[i] = Erased \/ app[i] = Torn(target.data[i + 1])
      BY <1>2 DEF Session
    <3>2. CASE i # ram.next
      <4>1. app'[i] = app[i]
        BY <1>1, <2>1, <3>2 DEF WriteCell
      <4>2. QED
        BY <2>1, <3>1, <3>2, <4>1
    <3>3. CASE i = ram.next
      <4>1. app'[i] = Programmed(app[i], target.data[i + 1])
        BY <1>1, <1>2, <2>1, <3>3 DEF WriteCell
      <4>2. app'[i] = target.data[i + 1]
        BY <3>1, <3>3, <4>1 DEF Programmed
      <4>3. QED
        BY <2>1, <3>3, <4>2
    <3>4. QED
      BY <3>2, <3>3
  <2>3. ram.next + 1 <= target.man.size
    BY <1>2, <2>1, Places
  <2>4. QED
    BY <1>1, <1>2, <1>6, <2>2, <2>3 DEF Session, Idle
<1>10. RewindInv'
  BY <1>1, <1>2, <1>5 DEF RewindInv, Idle
<1>11. AnswerInv'
  <2> SUFFICES ASSUME host.phase = "data", NEW i \in 1 .. Len(outbox) + 1
               PROVE  /\ IsReply(outbox'[i], "DATA", "RANGE") => outbox'[i].next \in 0 .. host.off + 1
                      /\ Delivers(outbox'[i]) =>
                           \A j \in 1 .. Len(outbox) + 1 : j > i => ~IsReply(outbox'[j], "DATA", "OK")
    BY <1>1, <1>2, <1>4, <1>6 DEF AnswerInv, Delivers
  <2>1. ram.next # host.off + 1
    BY <1>2, Places
  <2>2. CASE i = Len(outbox) + 1
    BY <1>4, <1>5, <2>2
  <2>3. CASE i \in 1 .. Len(outbox)
    <3>1. i \in DOMAIN outbox /\ outbox'[i] = outbox[i]
      BY <1>4, <2>3
    <3>2. QED
      BY <1>2, <2>1, <3>1 DEF AnswerInv
  <2>4. QED
    BY <1>4, <2>2, <2>3
<1>12. QED
  BY <1>7, <1>8, <1>9, <1>10, <1>11, ModeKeeps

LEMMA EndKeeps ==
  ASSUME TypeInv, DeliveryInv, McuMoves, HandleEnd, Hearing
  PROVE  DeliveryInv'
<1> USE DEF DeliveryInv
<1>1. /\ UNCHANGED <<app, meta, outbox, target, host>> /\ task = Idle /\ mode = "boot"
      /\ inbox # <<>> /\ Head(inbox).msg = "END" /\ ram.updating /\ ram.next = ram.size
      /\ ram.open
      /\ ram' = [ram EXCEPT !.open = FALSE] /\ task' = Task("commit", 1, Head(inbox))
  BY DEF HandleEnd, Receives, flash, McuMoves, Req, DigestMatches
<1>2. Asked("END")
  BY <1>1, NextRequest
<1>3. /\ task'.op = "commit" /\ task'.at = 1
      /\ ~ram'.open /\ ram'.updating = ram.updating /\ ram'.next = ram.next
      /\ RamManifest' = RamManifest /\ ram'.hmac = ram.hmac
  BY <1>1, Places DEF Task, RamType, RamManifest
<1>4. ~Concluded
  BY <1>1 DEF EndInv
<1>5. host.phase \in {"end", "failed"}
  BY <1>2, <1>4, Places DEF InboxInv, Phases, Searching, Concluded
<1>6. TaskInv'
  BY <1>1, <1>3, <1>5 DEF TaskInv, EraseInv, ProgramInv, CommitInv
<1>7. OutboxInv' /\ EndInv' /\ RewindInv' /\ AnswerInv'
  BY <1>1, <1>4, <1>5 DEF OutboxInv, EndInv, Concluded, Acked, RewindInv, AnswerInv, Searching
<1>8. TransferInv'
  <2> SUFFICES ASSUME host.phase = "end"
               PROVE  /\ target.man.size \in 1 .. AppBlocks /\ Session'
                      /\ ram.next \in {host.off, host.off + 1}
    BY <1>1, <1>3, <1>5 DEF TransferInv, Engaged, Searching
  <2>1. /\ Session /\ target.man.size \in 1 .. AppBlocks
        /\ ram.next \in {host.off, host.off + 1}
    BY <1>1 DEF TransferInv, Engaged
  <2>2. meta = BlankMeta /\ ram.next = target.man.size
    BY <1>1, <2>1 DEF Session, RamManifest
  <2>3. \A k \in 1 .. 5 : meta[FieldNames[k]] = Erased /\ ~(k < 1)
    BY <2>2 DEF BlankMeta, FieldNames
  <2>4. QED
    BY <1>1, <1>3, <2>1, <2>2, <2>3 DEF Session
<1>9. QED
  BY <1>6, <1>7, <1>8, ModeKeeps

(* The commit record grows field by field.                                  *)
LEMMA RecordGrows ==
  ASSUME TypeOK, CommitField,
         \A k \in 1 .. 5 : meta[FieldNames[k]] = IF k < task.at THEN FieldValue(FieldNames[k])
                                                               ELSE Erased
  PROVE  \A k \in 1 .. 5 : meta'[FieldNames[k]] = IF k < task.at + 1 THEN FieldValue(FieldNames[k])
                                                                   ELSE Erased
<1>1. task \in [op : {"commit"}, at : 1 .. 5, req : PlainFrames]
  BY CommitTask DEF CommitField
<1>2. meta' = [meta EXCEPT ![FieldNames[task.at]] = FieldValue(FieldNames[task.at])]
  <2>1. meta[FieldNames[task.at]] = Erased
    BY <1>1
  <2>2. meta' = [meta EXCEPT ![FieldNames[task.at]] =
                   IF meta[FieldNames[task.at]] = Erased THEN FieldValue(FieldNames[task.at])
                   ELSE Garbage]
    BY DEF CommitField
  <2>3. QED
    BY <2>1, <2>2
<1>3. ASSUME NEW k \in 1 .. 5
      PROVE  meta'[FieldNames[k]] = IF k < task.at + 1 THEN FieldValue(FieldNames[k]) ELSE Erased
  <2>1. FieldNames[k] \in DOMAIN meta
    BY DEF FieldNames, TypeOK, MetaType
  <2>2. k # task.at => FieldNames[k] # FieldNames[task.at]
    BY <1>1 DEF FieldNames
  <2>3. k = task.at \/ (k < task.at + 1 <=> k < task.at)
    BY <1>1
  <2>4. k = task.at => k < task.at + 1
    BY <1>1
  <2> HIDE DEF FieldNames, FieldValue
  <2>5. QED
    BY <1>2, <2>1, <2>2, <2>3, <2>4
<1>4. QED
  BY <1>3

LEMMA CommitKeeps ==
  ASSUME TypeInv, DeliveryInv, McuMoves, CommitField, Hearing
  PROVE  DeliveryInv'
<1> USE DEF DeliveryInv
<1>1. /\ UNCHANGED <<app, inbox, target, host>> /\ task.op = "commit"
      /\ task \in [op : {"commit"}, at : 1 .. 5, req : PlainFrames]
  BY CommitTask DEF CommitField, McuMoves, TypeInv
<1>2. ram.updating /\ ~ram.open /\ host.phase \in {"end", "failed"} /\ task # Idle
  BY <1>1 DEF TaskInv, CommitInv, Idle
<1>3. ~Concluded
  BY <1>2 DEF EndInv
<1>4. host.phase = "end" => /\ Session /\ target.man.size \in 1 .. AppBlocks
                            /\ ram.next \in {host.off, host.off + 1}
  BY <1>2 DEF TransferInv, Engaged
<1>5. host.phase = "end" =>
        \A k \in 1 .. 5 : meta'[FieldNames[k]] = IF k < task.at + 1 THEN FieldValue(FieldNames[k])
                                                                  ELSE Erased
  <2>1. host.phase = "end" =>
          \A k \in 1 .. 5 : meta[FieldNames[k]] = IF k < task.at THEN FieldValue(FieldNames[k])
                                                                ELSE Erased
    BY <1>1, <1>4 DEF Session
  <2>2. QED
    BY <2>1, RecordGrows DEF TypeInv
<1>6. RewindInv' /\ AnswerInv' /\ OutboxInv'
  BY <1>1, <1>2 DEF RewindInv, AnswerInv, OutboxInv, Searching
<1>7. CASE task.at < 5
  <2>1. UNCHANGED <<ram, outbox>> /\ task' = [task EXCEPT !.at = task.at + 1]
    BY <1>1, <1>7 DEF CommitField
  <2>2. task'.op = "commit" /\ task'.at = task.at + 1
    BY <1>1, <2>1
  <2>3. TaskInv' /\ EndInv'
    BY <1>1, <1>2, <1>3, <2>1, <2>2
       DEF TaskInv, EraseInv, ProgramInv, CommitInv, EndInv, Concluded, Acked
  <2>4. host.phase = "end" => Session'
    <3>1. \A k \in 1 .. 5 : FieldValue(FieldNames[k])' = FieldValue(FieldNames[k])
      BY <2>1 DEF FieldValue, FieldNames
    <3>2. QED
      BY <1>1, <1>2, <1>4, <1>5, <2>1, <2>2, <3>1 DEF Session, RamManifest
  <2>5. TransferInv'
    BY <1>1, <1>2, <1>4, <2>1, <2>4 DEF TransferInv, Engaged, Searching
  <2>6. QED
    BY <1>6, <2>3, <2>5, ModeKeeps
<1>8. CASE task.at = 5
  <2>1. /\ task' = Idle /\ ram' = [ram EXCEPT !.updating = FALSE]
    BY <1>1, <1>8 DEF CommitField
  <2>2. ~ram'.updating
    BY <2>1, Places DEF RamType
  <2>3. TaskInv'
    BY <2>1 DEF TaskInv, EraseInv, ProgramInv, CommitInv, Idle
  <2>4. ASSUME host.phase = "end" PROVE Installed'
    <3>1. /\ meta'["magic"] = Magic /\ meta'["size"] = ram.size /\ meta'["version"] = ram.version
          /\ meta'["crc"] = ram.crc /\ meta'["hmac"] = ram.hmac
      BY <1>5, <1>8, <2>4 DEF FieldNames, FieldValue
    <3>2. RamManifest = target.man /\ ram.hmac = Hmac(target.man, target.data)
          /\ ram.next = target.man.size
          /\ \A i \in AppIndex : i < ram.next => app[i] = target.data[i + 1]
      BY <1>1, <1>4, <2>4 DEF Session
    <3>3. MetaManifest' = target.man /\ meta'.magic = Magic /\ meta'.hmac = Hmac(target.man, target.data)
      BY <3>1, <3>2 DEF MetaManifest, RamManifest
    <3>4. Prefix(target.man.size) = target.data
      <4> DEFINE n == target.man.size
      <4>1. n \in 1 .. AppBlocks /\ target.data \in Seq(Blocks) /\ Len(target.data) = n
        BY <1>4, <2>4, TargetType, Places
      <4> HIDE DEF n
      <4>2. target.data = [i \in 1 .. n |-> target.data[i]]
        BY <4>1
      <4>3. \A i \in 1 .. n : app[i - 1] = target.data[i]
        <5>1. \A i \in 1 .. n : i - 1 \in AppIndex /\ i - 1 < n /\ (i - 1) + 1 = i
          BY <4>1, GeometryAssumption DEF AppIndex
        <5>2. QED
          BY <3>2, <5>1 DEF n
      <4>4. Prefix(n) = target.data
        BY <4>2, <4>3 DEF Prefix
      <4>5. QED
        BY <4>4 DEF n
    <3>5. Prefix(target.man.size)' = Prefix(target.man.size) /\ target' = target
      BY <1>1 DEF Prefix
    <3>6. QED
      BY <3>3, <3>4, <3>5 DEF Installed
  <2>5. EndInv'
    BY <1>1, <1>2, <2>1, <2>2, <2>4 DEF EndInv, Concluded
  <2>6. TransferInv'
    BY <1>1, <1>2, <1>4, <2>2 DEF TransferInv, Engaged, Searching
  <2>7. QED
    BY <1>6, <2>3, <2>5, <2>6, ModeKeeps
<1>9. QED
  BY <1>1, <1>7, <1>8

LEMMA McuKeeps ==
  ASSUME TypeInv, DeliveryInv, McuMoves
  PROVE  DeliveryInv'
<1>1. ~HandleAbort
  <2>1. HandleAbort => mode = "boot" /\ inbox # <<>> /\ Head(inbox).msg = "ABORT"
    BY DEF HandleAbort, Receives, Req
  <2>2. ~Asked("ABORT")
    BY DEF DeliveryInv, InboxInv
  <2>3. QED
    BY <2>1, <2>2, NextRequest
<1>2. /\ Hearing
      /\ \/ Quiet \/ Reset
         \/ AppEnter /\ Plainly
         \/ HandleBeginRange /\ Plainly
         \/ FlashError /\ Plainly
         \/ HandleAbort \/ HandleDataRange \/ HandleBegin \/ EraseSector \/ HandleData
         \/ ProgramFirstPart \/ ProgramRest \/ HandleEnd \/ CommitField
  BY McuKinds DEF McuMoves, DeliveryInv
<1>3. QED
  BY <1>1, <1>2, QuietKeeps, ResetKeeps, EnterKeeps, BeginRangeKeeps, FlashErrorKeeps,
     DataRangeKeeps, BeginKeeps, EraseKeeps, DataKeeps, FirstPartKeeps, RestKeeps, EndKeeps,
     CommitKeeps

LEMMA DeliveryStep == TypeInv /\ DeliveryInv /\ [UpdateNext]_allVars => DeliveryInv'
<1> SUFFICES ASSUME TypeInv, DeliveryInv, [UpdateNext]_allVars PROVE DeliveryInv'
  OBVIOUS
<1>1. CASE UNCHANGED allVars
  <2>1. /\ DeviceSame /\ UNCHANGED host /\ UNCHANGED target /\ inbox' = inbox /\ outbox' = outbox
        /\ host'.phase = host.phase
    BY <1>1 DEF allVars, vars, hostVars, DeviceSame
  <2>2. inbox' \in {inbox, <<>>}
    BY <2>1
  <2>3. /\ InboxInv' /\ OrderInv' /\ ForeignInv' /\ ModeInv' /\ TaskInv' /\ OutboxInv'
    BY <2>1, SameDevice
       DEF DeliveryInv, InboxInv, OrderInv, ForeignInv, TaskInv, EraseInv, ProgramInv, CommitInv,
           OutboxInv, Asked, Acked, Ours, Finished, RamManifest, DeviceSame
  <2>4. TransferInv' /\ EndInv' /\ RewindInv' /\ AnswerInv'
    BY <2>1, SameDevice
       DEF DeliveryInv, TransferInv, EndInv, Engaged, Concluded, Acked, Asked, RewindInv, AnswerInv,
           Delivers, DeviceSame
  <2>5. QED
    BY <2>3, <2>4 DEF DeliveryInv
<1>2. CASE UpdateNext
  <2>1. CASE McuMoves
    BY <2>1, McuKeeps
  <2>2. CASE ~McuMoves
    <3>1. /\ DeviceSame
          /\ \/ SendRequest \/ RunScript \/ NewVersion
             \/ HostTakes /\ UNCHANGED <<target, runs>>
             \/ outbox # <<>> /\ outbox' = Tail(outbox) /\ UNCHANGED <<inbox, target, host, runs>>
             \/ AppTelemetry \/ KillScript
      BY <1>2, <2>2, Steps DEF TypeInv, DeviceSame
    <3>2. QED
      BY <3>1, HostKeeps
  <2>3. QED
    BY <2>1, <2>2
<1>3. QED
  BY <1>1, <1>2

LEMMA DeliveryCorrect == UpdateSpec => [](TypeInv /\ DeliveryInv)
<1>1. TypeInv /\ DeliveryInv /\ [UpdateNext]_allVars => (TypeInv /\ DeliveryInv)'
  BY UpdateTypeStep, DeliveryStep
<1>2. UpdateInit => TypeInv /\ DeliveryInv
  BY UpdateTypeInit, DeliveryInit
<1>3. QED
  BY <1>1, <1>2, PTL DEF UpdateSpec

-----------------------------------------------------------------------------
(* END's acknowledgement means that the image is on the flash and committed *)
(* (update, MSG_OTA_END), whatever was lost, damaged, repeated or cut short *)
(* before, and until the user wants another image.                          *)
THEOREM EndInstalls == UpdateSpec => []EndMeansInstalled
<1>1. DeliveryInv => EndMeansInstalled
  BY DEF DeliveryInv, EndInv, Concluded, Installed, EndMeansInstalled
<1>2. QED
  BY <1>1, DeliveryCorrect, PTL

(* A block the script counts as delivered, by an ACK or by the RANGE answer *)
(* to its repetition, is on the flash at its place while the session lasts  *)
(* (send_data, MSG_OTA_DATA).                                               *)
THEOREM BlocksDelivered == UpdateSpec => []AcknowledgedBlocksOnFlash
<1>1. TypeInv /\ DeliveryInv => AcknowledgedBlocksOnFlash
  <2> SUFFICES ASSUME TypeInv, DeliveryInv, host.phase \in {"data", "end"}, ram.updating
               PROVE  /\ ram.next \in {host.off, host.off + 1}
                      /\ Prefix(host.off) = SubSeq(target.data, 1, host.off)
    BY DEF AcknowledgedBlocksOnFlash
  <2>1. /\ target.man.size \in 1 .. AppBlocks /\ Session /\ ram.next \in {host.off, host.off + 1}
    BY DEF DeliveryInv, TransferInv, Engaged
  <2> DEFINE n == host.off
             data == target.data
  <2>2. /\ n \in Nat /\ n <= target.man.size /\ n <= AppBlocks /\ n <= ram.next /\ ram.next \in Nat
        /\ data \in Seq(Blocks) /\ Len(data) = target.man.size
    BY <2>1, Places, TargetType, Limits
  <2>3. \A i \in AppIndex : i < ram.next => app[i] = data[i + 1]
    BY <2>1 DEF Session
  <2> HIDE DEF n, data
  <2>4. \A i \in 1 .. n : app[i - 1] = data[i]
    <3>1. \A i \in 1 .. n : i - 1 \in AppIndex /\ i - 1 < ram.next /\ (i - 1) + 1 = i
      BY <2>2, Limits DEF AppIndex
    <3>2. QED
      BY <2>3, <3>1
  <2>5. SubSeq(data, 1, n) = [i \in 1 .. n |-> data[i]]
    BY <2>2
  <2>6. Prefix(n) = SubSeq(data, 1, n)
    BY <2>4, <2>5 DEF Prefix
  <2>7. QED
    BY <2>1, <2>6 DEF n, data
<1>2. QED
  BY <1>1, DeliveryCorrect, PTL

-----------------------------------------------------------------------------
(* The whole system still implements the device of OtaInstall: every step   *)
(* of the script is invisible to it.                                        *)
LEMMA McuIsWorn == McuMoves => [WornNext]_vars
BY DEF McuMoves, WornNext, Next

LEMMA UncommittedHere == TypeInv /\ UncommittedInv /\ [UpdateNext]_allVars => UncommittedInv'
<1> SUFFICES ASSUME TypeInv, UncommittedInv, [UpdateNext]_allVars PROVE UncommittedInv'
  OBVIOUS
<1>1. CASE McuMoves
  BY <1>1, McuIsWorn, UncommittedStep DEF TypeInv
<1>2. CASE ~McuMoves
  <2>1. UNCHANGED <<mode, request, app, meta, ram, task>>
    BY <1>2, Steps DEF TypeInv, allVars, vars
  <2>2. QED
    BY <2>1 DEF UncommittedInv, Uncommitted
<1>3. QED
  BY <1>1, <1>2

LEMMA ScriptedStep ==
  ASSUME TypeInv, DeliveryInv, UncommittedInv, TypeInv', DeliveryInv', [UpdateNext]_allVars
  PROVE  [Device!Next]_<<InstalledImage, RunningImage>>
<1>1. CASE McuMoves
  <2>1. AppIsValid /\ AppIsValid'
    BY DEF DeliveryInv, ModeInv, AppIsValid
  <2>2. QED
    BY <1>1, <2>1, McuIsWorn, DeviceStep DEF TypeInv
<1>2. CASE ~McuMoves
  <2>1. UNCHANGED <<mode, app, meta>>
    BY <1>2, Steps DEF TypeInv, allVars, vars
  <2>2. UNCHANGED <<InstalledImage, RunningImage>>
    BY <2>1, SameFlashSameImage DEF RunningImage
  <2>3. QED
    BY <2>2
<1>3. QED
  BY <1>1, <1>2

(* With the script, the line and every fault of theirs, the MCU holds one   *)
(* complete signed image or none, and only the installed one runs.          *)
THEOREM UpdateRefines == UpdateSpec => Refines
<1>1. UpdateInit => Device!Init
  BY EncodingAssumption
  DEF UpdateInit, Init, Device!Init, InstalledImage, RunningImage, MetadataValid, BlankMeta
<1>2. UpdateInit => UncommittedInv
  BY UncommittedInit DEF UpdateInit
<1>3. UpdateSpec => [](TypeInv /\ DeliveryInv)
  BY DeliveryCorrect
<1>4. TypeInv /\ DeliveryInv /\ UncommittedInv /\ (TypeInv /\ DeliveryInv)' /\ [UpdateNext]_allVars
        => UncommittedInv' /\ [Device!Next]_<<InstalledImage, RunningImage>>
  BY ScriptedStep, UncommittedHere
<1>5. QED
  BY <1>1, <1>2, <1>3, <1>4, PTL DEF UpdateSpec, Refines, Device!Spec

-----------------------------------------------------------------------------
(* The application that runs.                                               *)

(* The promise of the bootloader to its client holds of the script too:     *)
(* only an image the build machine signed is ever started.                  *)
THEOREM UpdateBootsSigned == UpdateSpec => []BootsSignedImage
<1>1. TypeInv /\ DeliveryInv => BootsSignedImage
  BY ValidIsSigned DEF TypeInv, DeliveryInv, ModeInv, BootsSignedImage
<1>2. QED
  BY <1>1, DeliveryCorrect, PTL

(* Once END has been acknowledged, whatever application the MCU starts is   *)
(* the one the user asked for, not the one before and not a mixture, until  *)
(* the user asks for another (update and main, MSG_OTA_BOOT).               *)
EndMeansTargetRuns ==
  host.phase \in {"boot", "final", "done"} /\ mode = "app" => TargetRuns

THEOREM TargetIsWhatRuns == UpdateSpec => []EndMeansTargetRuns
<1>1. TypeInv /\ DeliveryInv => EndMeansTargetRuns
  <2> SUFFICES ASSUME TypeInv, DeliveryInv, host.phase \in {"boot", "final", "done"}, mode = "app"
               PROVE  InstalledImage = target
    BY DEF EndMeansTargetRuns, TargetRuns
  <2>1. MetadataValid /\ Installed
    BY DEF DeliveryInv, ModeInv, EndInv, Concluded
  <2>2. target \in Signed /\ target.man = MetaManifest
    BY <2>1, TargetType DEF TypeInv, HostInv, Installed
  <2>3. target.data = Prefix(meta.size)
    <3>1. meta.size = target.man.size
      BY <2>2 DEF MetaManifest
    <3> QED
      BY <2>1, <3>1 DEF Installed
  <2>4. \A p \in Signed : p = [man |-> p.man, data |-> p.data]
    BY SigningAssumption
  <2>5. \A p \in Signed : p.man = MetaManifest /\ p.data = Prefix(meta.size) => p = target
    BY <2>2, <2>3, <2>4
  <2> QED
    BY <2>1, <2>2, <2>3, <2>5 DEF InstalledImage
<1>2. QED
  BY <1>1, DeliveryCorrect, PTL

=============================================================================
