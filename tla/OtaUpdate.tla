------------------------------ MODULE OtaUpdate ------------------------------
(***************************************************************************)
(* small_car_f407/scripts/mcu_ota.py updating one MCU: OtaBootloader with  *)
(* its arbitrary client replaced by the script, its user, and the serial   *)
(* line between them.  One exchange of the script is a step that sends the *)
(* request and a step that takes the response or the timeout.              *)
(*                                                                         *)
(* Faults (lost or damaged frames in either direction, loss of power, an   *)
(* error of the flash, an interrupted script, a timeout although the       *)
(* answer is still to come, a sensor report that carries the number of the *)
(* awaited response) are counted, at most MaxFaults in a behaviour.        *)
(***************************************************************************)
EXTENDS OtaBootloader

CONSTANTS
  Targets,     \* signed images the user may want to install
  DataTries,   \* transmissions of one block before the script gives up (5)
  Polls,       \* attempts to find the bootloader after the reset (10)
  FinalSeq,    \* sequence number of the last query (240)
  MaxFaults,   \* bound on the faults of one behaviour
  MaxRuns      \* bound on the times the user runs the script

ASSUME UpdateAssumption ==
  /\ Targets \subseteq Signed /\ FinalSeq \in Seqs
  /\ {DataTries, Polls} \subseteq Nat \ {0}
  /\ {MaxFaults, MaxRuns} \subseteq Nat
  /\ IsFiniteSet(Seqs) /\ Seqs = 0 .. Cardinality(Seqs) - 1

VARIABLES
  target,   \* the image of this user's update command
  host,     \* the script: phase, sequence number, waiting for a response, block, tries
  runs,     \* times the script was started
  faults    \* faults so far

hostVars == <<target, host, runs, faults>>
allVars  == <<vars, hostVars>>

Phases == {"enterInfo", "enterHello", "enterEnter", "pollInfo", "pollHello",
           "begin", "data", "end", "boot", "final", "done", "failed"}

HostTypeOK ==
  /\ TypeOK
  /\ target \in Targets
  /\ host \in [phase : Phases, seq : Seqs, waiting : BOOLEAN,
               off : Sizes, tries : Nat]
  /\ host.tries < IF host.phase = "data" THEN DataTries ELSE Polls
  /\ runs \in 0 .. MaxRuns /\ faults \in 0 .. MaxFaults

NotStarted == [phase |-> "failed", seq |-> 0, waiting |-> FALSE, off |-> 0, tries |-> 0]

UpdateInit ==
  /\ Init
  /\ target \in Targets
  /\ host = NotStarted
  /\ runs = 0 /\ faults = 0

NextSeq(s) == (s + 1) % Cardinality(Seqs)
Finished   == host.phase \in {"done", "failed"}

\* The script moves to another request: a sequence number, and no response yet.
GoTo(phase, seq) == [host EXCEPT !.phase = phase, !.seq = seq, !.waiting = FALSE, !.tries = 0]
Fail == NotStarted                                   \* an exception ends the script
Done == [NotStarted EXCEPT !.phase = "done"]

-----------------------------------------------------------------------------
(* exchange: the request of each phase.                                    *)

Request ==
  CASE host.phase \in {"enterInfo", "pollInfo", "final"} -> Plain("INFO", host.seq)
    [] host.phase \in {"enterHello", "pollHello"} -> Plain("HELLO", host.seq)
    [] host.phase = "enterEnter" -> Plain("ENTER", host.seq)
    [] host.phase = "begin" ->
         Begin(host.seq, target.man, Hmac(target.man, target.data))
    [] host.phase = "data"  -> Data(host.seq, host.off, target.data[host.off + 1])
    [] host.phase = "end"   -> Plain("END", host.seq)
    [] host.phase = "boot"  -> Plain("BOOT", host.seq)

\* The bootloader polls a one-byte receiver: it is deaf during a flash operation.
Deaf == mode = "off" \/ task # Idle

SendRequest ==
  /\ ~Finished /\ ~host.waiting
  /\ inbox' = IF Deaf THEN inbox ELSE Append(inbox, Request)
  /\ host' = [host EXCEPT !.waiting = TRUE]
  /\ UNCHANGED <<mode, request, flash, ram, task, outbox, target, runs, faults>>

\* update starts a new sequence, taken from the clock.
StartUpdate == \E s \in Seqs : host' = [GoTo("begin", s) EXCEPT !.off = 0]

\* The last poll of enter_bootloader has no successor.
NextPoll ==
  IF host.tries + 1 < Polls
  THEN [GoTo("pollInfo", NextSeq(host.seq)) EXCEPT !.tries = host.tries + 1]
  ELSE Fail

AfterBlock ==
  IF host.off + 1 < target.man.size
  THEN [GoTo("data", NextSeq(host.seq)) EXCEPT !.off = @ + 1]
  ELSE [GoTo("end", NextSeq(host.seq)) EXCEPT !.off = @ + 1]

RetryBlock ==
  IF host.tries + 1 < DataTries
  THEN [host EXCEPT !.waiting = FALSE, !.tries = @ + 1]
  ELSE Fail

\* expect_ack: the response is an ACK of the request of this phase.
IsAck(r, msg) == r.kind = "ACK" /\ r.msg = msg

\* What the script does with a response r to the request of its phase.
Accept(r) ==
  CASE host.phase = "enterInfo" -> host' = GoTo("enterHello", NextSeq(host.seq))
    [] host.phase = "enterHello" ->
         IF r.kind = "STATUS" THEN StartUpdate
         ELSE host' = GoTo("enterEnter", NextSeq(host.seq))
    [] host.phase = "enterEnter" -> host' = GoTo("pollInfo", NextSeq(host.seq))
    [] host.phase = "pollInfo" ->
         host' = [GoTo("pollHello", NextSeq(host.seq)) EXCEPT !.tries = host.tries]
    [] host.phase = "pollHello" ->
         IF r.kind = "STATUS" THEN StartUpdate ELSE host' = NextPoll
    [] host.phase = "begin" ->
         host' = IF IsAck(r, "BEGIN") /\ r.status = "OK"
                 THEN GoTo("data", NextSeq(host.seq)) ELSE Fail
    [] host.phase = "data" ->
         host' = CASE ~IsAck(r, "DATA") -> Fail
                   [] IsAck(r, "DATA") /\ r.status = "OK" -> AfterBlock
                   [] IsAck(r, "DATA") /\ r.status = "RANGE" /\ r.next = host.off + 1 -> AfterBlock
                   [] IsAck(r, "DATA") /\ r.status = "CRC" -> RetryBlock
                   [] OTHER -> Fail
    [] host.phase = "end" ->
         host' = IF IsAck(r, "END") /\ r.status = "OK"
                 THEN GoTo("boot", NextSeq(host.seq)) ELSE Fail
    [] host.phase = "boot" ->
         host' = IF IsAck(r, "BOOT") /\ r.status = "OK" THEN GoTo("final", FinalSeq) ELSE Fail
    [] host.phase = "final" -> host' = IF r.kind = "INFO_VALUE" THEN Done ELSE Fail

\* The deadline of the exchange passes.
GiveUp ==
  CASE host.phase \in {"enterInfo", "enterHello", "enterEnter", "pollInfo", "pollHello"} ->
         Accept([kind |-> "none"])
    [] host.phase \in {"begin", "end"} -> host' = Fail
    [] host.phase = "data"  -> host' = RetryBlock
    [] host.phase = "boot"  -> host' = GoTo("final", FinalSeq)
    [] host.phase = "final" -> host' = Done

\* Opening the port discards what it holds in both directions; enter_bootloader
\* reopens it after ENTER.
Reopen == inbox' = <<>> /\ outbox' = <<>>
Received(rest) == IF host.phase = "enterEnter" THEN Reopen
                  ELSE outbox' = rest /\ UNCHANGED inbox

TakeResponse ==
  /\ host.waiting /\ outbox # <<>> /\ Head(outbox).seq = host.seq
  /\ Accept(Head(outbox))
  /\ Received(Tail(outbox))
  /\ UNCHANGED <<mode, request, flash, ram, task, target, runs, faults>>

SkipResponse ==
  /\ host.waiting /\ outbox # <<>> /\ Head(outbox).seq # host.seq
  /\ outbox' = Tail(outbox)
  /\ UNCHANGED <<mode, request, flash, ram, task, inbox, hostVars>>

\* Nothing is left that could still answer the request.
Silence == inbox = <<>> /\ outbox = <<>> /\ task = Idle /\ mode # "off"

Timeout ==
  /\ host.waiting /\ Silence
  /\ GiveUp
  /\ Received(outbox)
  /\ UNCHANGED <<mode, request, flash, ram, task, target, runs, faults>>

\* The user runs the script, again until the new application runs; with
\* --bootloader-ready it starts at update.
TargetRuns == mode = "app" /\ InstalledImage = target

RunScript ==
  /\ Finished /\ runs < MaxRuns /\ ~TargetRuns
  /\ task.op \in {"idle", "erase"}         \* only an erase outlasts a process start
  /\ \/ host' = GoTo("enterInfo", 0)
     \/ mode = "boot" /\ StartUpdate
  /\ Reopen
  /\ runs' = runs + 1
  /\ UNCHANGED <<mode, request, flash, ram, task, target, faults>>

\* Once it runs, the user may want another application, if the runs that are
\* left make up for the faults that are: a run cut short while the MCU erases can
\* spoil the next one as well.
NewVersion ==
  /\ Finished /\ TargetRuns /\ MaxRuns - runs > 2 * (MaxFaults - faults)
  /\ target' \in Targets \ {target}
  /\ host' = NotStarted
  /\ UNCHANGED <<vars, runs, faults>>

-----------------------------------------------------------------------------
(* Faults.                                                                 *)

\* The application reports sensor values, numbered by a counter of its own that
\* may happen to hold the number the script waits for.
AppTelemetry ==
  /\ mode = "app" /\ host.waiting /\ outbox = <<>>
  /\ outbox' = <<[kind |-> "TELEMETRY", msg |-> "INFO", seq |-> host.seq, status |-> "OK",
                  next |-> 0, valid |-> FALSE, version |-> Erased]>>
  /\ UNCHANGED <<mode, request, flash, ram, task, inbox, target, host, runs>>

LoseReply ==
  /\ outbox # <<>> /\ outbox' = Tail(outbox)
  /\ UNCHANGED <<mode, request, flash, ram, task, inbox, target, host, runs>>

EarlyTimeout ==
  /\ host.waiting /\ ~Silence
  /\ GiveUp
  /\ Received(outbox)
  /\ UNCHANGED <<mode, request, flash, ram, task, target, runs>>

KillScript ==
  /\ ~Finished /\ host' = Fail
  /\ UNCHANGED <<vars, target, runs>>

Fault ==
  /\ faults < MaxFaults /\ faults' = faults + 1
  /\ \/ (FaultStep \/ FlashError) /\ UNCHANGED <<target, host, runs>>
     \/ AppTelemetry \/ LoseReply \/ EarlyTimeout \/ KillScript

-----------------------------------------------------------------------------

McuStep  == (BootStep \/ AppStep) /\ UNCHANGED hostVars
HostStep == SendRequest \/ TakeResponse \/ SkipResponse \/ Timeout

UpdateNext == McuStep \/ HostStep \/ RunScript \/ NewVersion \/ Fault

(* The MCU runs its loop, the script its code, and the user does not give  *)
(* up; no fault has to happen.                                             *)
Fairness == WF_allVars(McuStep) /\ WF_allVars(HostStep) /\ WF_allVars(RunScript)

UpdateSpec     == UpdateInit /\ [][UpdateNext]_allVars
FairUpdateSpec == UpdateSpec /\ Fairness

-----------------------------------------------------------------------------
(* Properties.                                                             *)

(* When END was acknowledged, the flash holds the requested image and the  *)
(* metadata that commits it, whatever was lost, repeated or interrupted on *)
(* the way (update, MSG_OTA_END).                                          *)
EndMeansInstalled ==
  host.phase \in {"boot", "final", "done"} =>
    /\ meta.magic = Magic /\ meta.hmac = Hmac(target.man, target.data)
    /\ MetaManifest = target.man /\ Prefix(target.man.size) = target.data

(* A block the script counts as delivered, by an ACK or by the RANGE reply *)
(* to its repetition, is on the flash at its place, unless the MCU has     *)
(* lost the session, in which case it will refuse to go on.                *)
AcknowledgedBlocksOnFlash ==
  host.phase \in {"data", "end"} /\ ram.updating =>
    /\ ram.next \in {host.off, host.off + 1}
    /\ Prefix(host.off) = SubSeq(target.data, 1, host.off)

(* firmware-update.md:95: an interrupted update is completed by running    *)
(* the same command again.                                                 *)
EventuallyTargetRuns == []<>TargetRuns

(* Two promises the code breaks (see the README).  mcu_ota.py:297 reports  *)
(* that the MCU has started the new application.                           *)
DoneMeansStarted == host.phase = "done" /\ Silence => mode # "boot"

(* mcu_ota.py:241 says that END's success proves the image valid.          *)
EndProvesImageValid == host.phase \in {"boot", "final", "done"} => MetadataValid
=============================================================================
