---------------------------- MODULE OtaBootloader ----------------------------
(***************************************************************************)
(* The STM32F407 bootloader (small_car_f407/Bootloader/Src/main.c) and the *)
(* flash it manages, driven by any client that sends well-formed frames.   *)
(*                                                                         *)
(* Flash is modelled at the grain at which power can be lost: one sector   *)
(* erase, one DATA payload (a "block", at most 60 bytes) half written or   *)
(* completely written, one metadata field.  Offsets and sizes count        *)
(* blocks.  HMAC-SHA256 is an ideal digest; CRC32 is an arbitrary function *)
(* on which nothing relies.                                                *)
(***************************************************************************)
EXTENDS Integers, Sequences, FiniteSets

CONSTANTS
  Blocks,         \* contents a DATA payload can have
  VectorBlocks,   \* blocks whose first words are a plausible vector table
  AppBlocks,      \* capacity of the application region, in blocks
  SectorOf,       \* flash sector (5..7) of each application block
  Versions,       \* firmware version numbers
  Crc32(_),       \* CRC32 of a sequence of blocks
  Checksums,      \* values a manifest's CRC field can have
  Signed,         \* [man, data] pairs the build machine has signed
  Seqs,           \* frame sequence numbers
  Erased,         \* contents of erased flash
  Garbage,        \* contents of flash left undefined by an interrupted operation
  Magic,          \* METADATA_MAGIC
  NoDigest        \* a digest that no input has

AppIndex == 0 .. AppBlocks - 1
Sizes    == 0 .. AppBlocks + 1        \* AppBlocks + 1: any size beyond the region
Manifest == [size : Sizes, version : Versions, crc : Checksums]

\* A block of which power loss or a flash error left only a first part written.
Torn(b) == <<"torn", b>>
Cells   == Blocks \cup {Torn(b) : b \in Blocks} \cup {Erased, Garbage}

ASSUME GeometryAssumption ==
  /\ AppBlocks \in Nat \ {0}
  /\ SectorOf \in [AppIndex -> 5..7]
  /\ VectorBlocks \subseteq Blocks
ASSUME EncodingAssumption ==
  /\ Erased \notin Blocks \cup Sizes \cup {Garbage, Magic}
  /\ Garbage \notin Blocks \cup Sizes \cup Versions \cup Checksums \cup {Magic}
  /\ \A b \in Blocks : Garbage # Torn(b)
  /\ \A c \in {Erased, Garbage, NoDigest} :
       c \notin [man : [size : Sizes, version : Versions \cup {Erased, Garbage},
                       crc : Checksums \cup {Erased, Garbage}],
                data : Seq(Cells)]

\* mcu_ota.py:214-217: what is signed is a manifest together with its own image.
ASSUME SigningAssumption ==
  \A p \in Signed : /\ p \in [man : Manifest, data : Seq(Blocks)]
                    /\ Len(p.data) = p.man.size
                    /\ p.man.size > 0

VARIABLES
  mode,       \* "off" (between reset and main), "boot", "app"
  request,    \* the boot request word in RAM holds BOOT_REQUEST_MAGIC
  app,        \* application region of the flash
  meta,       \* the metadata sector
  ram,        \* the bootloader's static variables
  task,       \* the handler in progress, if it has flash operations left
  inbox,      \* frames on their way to the MCU
  outbox      \* frames on their way to the host

flash == <<app, meta>>
vars  == <<mode, request, app, meta, ram, task, inbox, outbox>>

-----------------------------------------------------------------------------
(* Digests and the running hash.                                           *)

Hmac(man, data) == [man |-> man, data |-> data]
Digests         == {Hmac(p.man, p.data) : p \in Signed} \cup {NoDigest}

(* Flash contents of the first n blocks of the application region.         *)
Prefix(n) == [i \in 1 .. n |-> app[i - 1]]

(* Programming can only clear bits: rewriting a block over itself, or over *)
(* its own first part, succeeds; over anything else it leaves a mixture.   *)
Programmed(cell, b) == IF cell \in {Erased, b, Torn(b)} THEN b ELSE Garbage
TornBy(cell, b)     == IF cell \in {Erased, Torn(b)} THEN Torn(b)
                       ELSE IF cell = b THEN b ELSE Garbage

FieldNames == <<"magic", "size", "version", "crc", "hmac">>
BlankMeta  == [magic |-> Erased, size |-> Erased, version |-> Erased,
               crc |-> Erased, hmac |-> Erased]

MetaManifest == [size |-> meta.size, version |-> meta.version, crc |-> meta.crc]

\* Seeded fault: the check the application's OTA_INFO makes, used to start an image.
MetadataMarked == meta.magic = Magic /\ meta.size \in 1 .. AppBlocks /\ app[0] \in VectorBlocks

MetadataValid ==
  /\ meta.magic = Magic
  /\ meta.size \in 1 .. AppBlocks
  /\ app[0] \in VectorBlocks
  /\ Crc32(Prefix(meta.size)) = meta.crc
  /\ Hmac(MetaManifest, Prefix(meta.size)) = meta.hmac

-----------------------------------------------------------------------------
(* Frames.                                                                 *)

NoManifest == Erased           \* any frame but BEGIN
NoBlock    == Erased           \* any frame but DATA, and DATA without a payload

Frame(msg, seq, man, sig, off, block) ==
  [msg |-> msg, seq |-> seq, man |-> man, sig |-> sig, off |-> off, block |-> block]
Plain(msg, seq)          == Frame(msg, seq, NoManifest, NoDigest, 0, NoBlock)
Begin(seq, man, sig)     == Frame("BEGIN", seq, man, sig, 0, NoBlock)
Data(seq, off, block)    == Frame("DATA", seq, NoManifest, NoDigest, off, block)

PlainMsgs == {"INFO", "ENTER", "HELLO", "BEGIN_SHORT", "END", "BOOT", "ABORT"}
PlainFrames == [msg : PlainMsgs, seq : Seqs, man : {NoManifest}, sig : {NoDigest},
                off : {0}, block : {NoBlock}]
BeginFrames == [msg : {"BEGIN"}, seq : Seqs, man : Manifest, sig : Digests,
                off : {0}, block : {NoBlock}]
DataFrames  == [msg : {"DATA"}, seq : Seqs, man : {NoManifest}, sig : {NoDigest},
                off : Sizes, block : Blocks \cup {NoBlock}]
Frames == PlainFrames \cup BeginFrames \cup DataFrames

(* What comes back: an ACK, a STATUS (HELLO) or an INFO_VALUE (app only).  *)
Reply(kind, req, status, next, valid, version) ==
  [kind |-> kind, msg |-> req.msg, seq |-> req.seq, status |-> status,
   next |-> next, valid |-> valid, version |-> version]
Ack(req, status, next) == Reply("ACK", req, status, next, FALSE, Erased)

Send(reply) == outbox' = Append(outbox, reply)

-----------------------------------------------------------------------------
(* The handler in progress.  Everything a handler does before its first    *)
(* flash operation is one step, as is each flash operation.                *)

Idle == [op |-> "idle", at |-> 0, req |-> Erased]
Task(op, at, req) == [op |-> op, at |-> at, req |-> req]

\* Static variables after start-up.
ColdRam ==
  [updating |-> FALSE, size |-> 0, version |-> Erased, crc |-> Erased,
   hmac |-> NoDigest, next |-> 0, hashed |-> <<>>, bound |-> Erased, open |-> FALSE]

MetaType ==
  [magic : {Magic, Erased, Garbage}, size : Sizes \cup {Erased, Garbage},
   version : Versions \cup {Erased, Garbage}, crc : Checksums \cup {Erased, Garbage},
   hmac : Digests \cup {Erased, Garbage}]
RamType ==
  [updating : BOOLEAN, size : Sizes, version : Versions \cup {Erased},
   crc : Checksums \cup {Erased}, hmac : Digests, next : Nat, hashed : Seq(Blocks),
   bound : Manifest \cup {Erased}, open : BOOLEAN]
TaskType ==
  [op : {"erase"}, at : 4 .. 7, req : BeginFrames]
    \cup [op : {"program"}, at : 0 .. 1, req : {f \in DataFrames : f.block # NoBlock}]
    \cup [op : {"commit"}, at : 1 .. 5, req : PlainFrames]
    \cup {Idle}

TypeOK ==
  /\ mode \in {"off", "boot", "app"}
  /\ request \in BOOLEAN
  /\ app \in [AppIndex -> Cells]
  /\ meta \in MetaType
  /\ ram \in RamType
  /\ task \in TaskType
  /\ inbox \in Seq(Frames)

Init ==
  /\ mode = "off" /\ request = FALSE
  /\ app = [i \in AppIndex |-> Erased]
  /\ meta = BlankMeta
  /\ ram = ColdRam
  /\ task = Idle
  /\ inbox = <<>> /\ outbox = <<>>

\* The next frame is handled by code of the given mode.
Receives(m) ==
  /\ mode = m /\ task = Idle /\ inbox # <<>>
  /\ inbox' = Tail(inbox)
Req == Head(inbox)

-----------------------------------------------------------------------------
(* Bootloader: HandleFrame.                                                *)

HandleHello ==
  /\ Receives("boot") /\ Req.msg = "HELLO"
  /\ Send(Reply("STATUS", Req, "OK", ram.next, MetadataValid, meta.version))
  /\ UNCHANGED <<mode, request, flash, ram, task>>

HandleBeginShort ==
  /\ Receives("boot") /\ Req.msg = "BEGIN_SHORT"
  /\ Send(Ack(Req, "LENGTH", ram.next))
  /\ UNCHANGED <<mode, request, flash, ram, task>>

\* The manifest overwrites the session's before its size is checked.
LoadManifest(man) == [ram EXCEPT !.size = man.size, !.version = man.version,
                                 !.crc = man.crc]

HandleBeginRange ==
  /\ Receives("boot") /\ Req.msg = "BEGIN"
  /\ Req.man.size \notin 1 .. AppBlocks
  /\ ram' = LoadManifest(Req.man)
  /\ Send(Ack(Req, "RANGE", ram.next))
  /\ UNCHANGED <<mode, request, flash, task>>

\* Seeded fault: the metadata sector is not among the sectors that BEGIN erases.
HandleBeginKeepsMeta ==
  /\ Receives("boot") /\ Req.msg = "BEGIN"
  /\ Req.man.size \in 1 .. AppBlocks
  /\ ram' = [LoadManifest(Req.man) EXCEPT !.hmac = Req.sig]
  /\ task' = Task("erase", 5, Req)
  /\ UNCHANGED <<mode, request, flash, outbox>>

\* Seeded fault: a session that was left open keeps BEGIN out.
HandleBeginOnce ==
  /\ Receives("boot") /\ Req.msg = "BEGIN"
  /\ Req.man.size \in 1 .. AppBlocks /\ ~ram.updating
  /\ ram' = [LoadManifest(Req.man) EXCEPT !.hmac = Req.sig]
  /\ task' = Task("erase", 4, Req)
  /\ UNCHANGED <<mode, request, flash, outbox>>

HandleBegin ==
  /\ Receives("boot") /\ Req.msg = "BEGIN"
  /\ Req.man.size \in 1 .. AppBlocks
  /\ ram' = [LoadManifest(Req.man) EXCEPT !.hmac = Req.sig]
  /\ task' = Task("erase", 4, Req)
  /\ UNCHANGED <<mode, request, flash, outbox>>

\* Sector 4 holds the metadata, sectors 5..7 the application.
EraseSector ==
  /\ mode = "boot" /\ task.op = "erase"
  /\ IF task.at = 4
     THEN meta' = BlankMeta /\ app' = app
     ELSE /\ app' = [i \in AppIndex |-> IF SectorOf[i] = task.at THEN Erased ELSE app[i]]
          /\ meta' = meta
  /\ \/ /\ task.at < 7
        /\ task' = [task EXCEPT !.at = @ + 1]
        /\ UNCHANGED <<ram, outbox>>
     \/ /\ task.at = 7
        /\ task' = Idle
        /\ ram' = [ram EXCEPT !.bound = task.req.man, !.hashed = <<>>, !.open = TRUE,
                              !.next = 0, !.updating = TRUE]
        /\ Send(Ack(task.req, "OK", 0))
  /\ UNCHANGED <<mode, request, inbox>>

HandleDataState ==
  /\ Receives("boot") /\ Req.msg = "DATA"
  /\ ~ram.updating
  /\ Send(Ack(Req, "STATE", ram.next))
  /\ UNCHANGED <<mode, request, flash, ram, task>>

\* Seeded fault: the offset is not compared.
DataAtAnyOffset(req) == req.block # NoBlock /\ ram.next + 1 <= ram.size

DataInRange(req) == req.block # NoBlock /\ req.off = ram.next /\ ram.next + 1 <= ram.size

HandleDataRange ==
  /\ Receives("boot") /\ Req.msg = "DATA"
  /\ ram.updating /\ ~DataInRange(Req)
  /\ Send(Ack(Req, "RANGE", ram.next))
  /\ UNCHANGED <<mode, request, flash, ram, task>>

HandleData ==
  /\ Receives("boot") /\ Req.msg = "DATA"
  /\ ram.updating /\ DataInRange(Req)
  /\ task' = Task("program", 0, Req)
  /\ UNCHANGED <<mode, request, flash, ram, outbox>>

\* Addresses beyond the application region are not part of the model.
WriteCell(i, content) == app' = IF i \in AppIndex THEN [app EXCEPT ![i] = content] ELSE app

ProgramFirstPart ==
  /\ mode = "boot" /\ task.op = "program" /\ task.at = 0
  /\ WriteCell(ram.next, TornBy(app[ram.next], task.req.block))
  /\ task' = [task EXCEPT !.at = 1]
  /\ UNCHANGED <<mode, request, meta, ram, inbox, outbox>>

ProgramRest ==
  /\ mode = "boot" /\ task.op = "program" /\ task.at = 1
  /\ WriteCell(ram.next, Programmed(app[ram.next], task.req.block))
  /\ ram' = [ram EXCEPT !.hashed = Append(@, task.req.block), !.next = @ + 1]
  /\ task' = Idle
  /\ Send(Ack(task.req, "OK", ram.next + 1))
  /\ UNCHANGED <<mode, request, meta, inbox>>

\* Seeded fault: the status of the flash operation is not looked at.
FlashErrorIgnored ==
  /\ mode = "boot" /\ task.op \in {"erase", "program", "commit"}
  /\ task' = Idle
  /\ Send(Ack(task.req, "OK", ram.next))
  /\ UNCHANGED <<mode, request, flash, ram, inbox>>

\* An erase or a program operation of the current handler reports an error.
FlashError ==
  /\ mode = "boot" /\ task.op \in {"erase", "program", "commit"}
  /\ task' = Idle
  /\ Send(Ack(task.req, "FLASH", ram.next))
  /\ UNCHANGED <<mode, request, flash, ram, inbox>>

\* Seeded fault: END trusts the CRC.
DigestUnchecked == ram.open

\* Sha256_Final leaves the contexts unusable: a second digest matches nothing.
DigestMatches == ram.open /\ Hmac(ram.bound, ram.hashed) = ram.hmac

HandleEndState ==
  /\ Receives("boot") /\ Req.msg = "END"
  /\ ~ram.updating \/ ram.next # ram.size
  /\ Send(Ack(Req, "STATE", ram.next))
  /\ UNCHANGED <<mode, request, flash, ram, task>>

HandleEndAuth ==
  /\ Receives("boot") /\ Req.msg = "END"
  /\ ram.updating /\ ram.next = ram.size
  /\ Crc32(ram.hashed) # ram.crc \/ ~DigestMatches
  /\ ram' = [ram EXCEPT !.open = FALSE, !.updating = FALSE]
  /\ Send(Ack(Req, "AUTH", ram.next))
  /\ UNCHANGED <<mode, request, flash, task>>

HandleEnd ==
  /\ Receives("boot") /\ Req.msg = "END"
  /\ ram.updating /\ ram.next = ram.size
  /\ Crc32(ram.hashed) = ram.crc /\ DigestMatches
  /\ ram' = [ram EXCEPT !.open = FALSE]
  /\ task' = Task("commit", 1, Req)
  /\ UNCHANGED <<mode, request, flash, outbox>>

\* OtaMetadata is programmed in the order of its fields, the magic first.
FieldValue(f) == CASE f = "magic"   -> Magic
                   [] f = "size"    -> ram.size
                   [] f = "version" -> ram.version
                   [] f = "crc"     -> ram.crc
                   [] f = "hmac"    -> ram.hmac

CommitField ==
  /\ mode = "boot" /\ task.op = "commit"
  /\ LET f == FieldNames[task.at]
     IN  meta' = [meta EXCEPT ![f] = IF @ = Erased THEN FieldValue(f) ELSE Garbage]
  /\ \/ /\ task.at < 5
        /\ task' = [task EXCEPT !.at = @ + 1]
        /\ UNCHANGED <<ram, outbox>>
     \/ /\ task.at = 5
        /\ task' = Idle
        /\ ram' = [ram EXCEPT !.updating = FALSE]
        /\ Send(Ack(task.req, "OK", ram.next))
  /\ UNCHANGED <<mode, request, app, inbox>>

\* Seeded fault: ABORT rewinds the session instead of closing it.
HandleAbortRewinds ==
  /\ Receives("boot") /\ Req.msg = "ABORT"
  /\ ram' = [ram EXCEPT !.next = 0]
  /\ Send(Ack(Req, "OK", 0))
  /\ UNCHANGED <<mode, request, flash, task>>

HandleAbort ==
  /\ Receives("boot") /\ Req.msg = "ABORT"
  /\ ram' = [ram EXCEPT !.updating = FALSE, !.next = 0]
  /\ Send(Ack(Req, "OK", 0))
  /\ UNCHANGED <<mode, request, flash, task>>

HandleBoot ==
  /\ Receives("boot") /\ Req.msg = "BOOT"
  /\ mode' = IF MetadataValid THEN "app" ELSE mode
  /\ ram' = IF MetadataValid THEN ColdRam ELSE ram
  /\ Send(Ack(Req, IF MetadataValid THEN "OK" ELSE "STATE", ram.next))
  /\ UNCHANGED <<request, flash, task>>

HandleUnsupported ==
  /\ Receives("boot") /\ Req.msg \in {"INFO", "ENTER"}
  /\ Send(Ack(Req, "UNSUPPORTED", ram.next))
  /\ UNCHANGED <<mode, request, flash, ram, task>>

(* A frame whose CRC or version byte is wrong; its header may be damaged   *)
(* too, in which case the reply names another request or another number.   *)
(* The application's parser does the same.                                 *)
HandleCorrupt ==
  /\ mode \in {"boot", "app"} /\ task = Idle /\ inbox # <<>>
  /\ inbox' = Tail(inbox)
  /\ \E msg \in {Req.msg, "DAMAGED"}, s \in Seqs :
       Send([Ack(Req, "CRC", ram.next) EXCEPT !.msg = msg, !.seq = s])
  /\ UNCHANGED <<mode, request, flash, ram, task>>

\* Seeded fault: after a reset the marks of an image are enough.
StartMarked ==
  /\ mode = "off"
  /\ mode' = IF ~request /\ MetadataMarked THEN "app" ELSE "boot"
  /\ request' = FALSE
  /\ ram' = ColdRam
  /\ UNCHANGED <<flash, task, inbox, outbox>>

\* main: stay if the application asked for it, else start a valid application.
Start ==
  /\ mode = "off"
  /\ mode' = IF ~request /\ MetadataValid THEN "app" ELSE "boot"
  /\ request' = FALSE
  /\ ram' = ColdRam
  /\ UNCHANGED <<flash, task, inbox, outbox>>

-----------------------------------------------------------------------------
(* Application: the OTA part of RaspiLink's HandleFrame.  Its ACKs carry   *)
(* the application's own frame counter, INFO_VALUE echoes the request's.   *)

AppEnter ==
  /\ Receives("app") /\ Req.msg = "ENTER"
  /\ \E s \in Seqs : Send([Ack(Req, "OK", 0) EXCEPT !.seq = s])
  /\ request' = TRUE
  /\ mode' = "off"
  /\ UNCHANGED <<flash, ram, task>>

AppInfo ==
  /\ Receives("app") /\ Req.msg = "INFO"
  /\ Send(Reply("INFO_VALUE", Req, "OK", 0,
                meta.magic = Magic /\ meta.size \in 1 .. AppBlocks, meta.version))
  /\ UNCHANGED <<mode, request, flash, ram, task>>

AppUnsupported ==
  /\ Receives("app") /\ Req.msg \notin {"ENTER", "INFO"}
  /\ \E s \in Seqs : Send([Ack(Req, "UNSUPPORTED", 0) EXCEPT !.seq = s])
  /\ UNCHANGED <<mode, request, flash, ram, task>>

-----------------------------------------------------------------------------
(* The world: frames get lost (bytes that arrive while the bootloader is   *)
(* busy are), and power may fail at any instant.                           *)

LoseFrame ==
  /\ inbox # <<>> /\ inbox' = Tail(inbox)
  /\ UNCHANGED <<mode, request, flash, ram, task, outbox>>

\* Flash after power fails in the middle of the current flash operation.
Interrupted ==
  \/ /\ task.op = "erase" /\ task.at = 4
     /\ meta' \in {[f \in DOMAIN meta |-> Garbage], BlankMeta, meta} /\ app' = app
  \/ /\ task.op = "erase" /\ task.at > 4 /\ meta' = meta
     /\ \E c \in {Garbage, Erased}, hit \in SUBSET AppIndex :
          app' = [i \in AppIndex |-> IF i \in hit /\ SectorOf[i] = task.at THEN c ELSE app[i]]
  \/ /\ task.op = "program" /\ ram.next \in AppIndex /\ meta' = meta
     /\ \E c \in {Garbage, TornBy(app[ram.next], task.req.block)} : WriteCell(ram.next, c)
  \/ /\ task.op = "commit" /\ app' = app
     /\ \E f \in {FieldNames[task.at]} : \E c \in {Garbage, FieldValue(f)} :
          meta' = [meta EXCEPT ![f] = c]
  \/ UNCHANGED flash

PowerLoss ==
  /\ mode # "off"
  /\ Interrupted
  /\ mode' = "off" /\ request' = FALSE
  /\ ram' = ColdRam /\ task' = Idle
  /\ UNCHANGED <<inbox, outbox>>

(* A client that has read what came back sends any frame whatever.         *)
ClientSends ==
  /\ inbox = <<>>
  /\ \E f \in Frames : inbox' = <<f>>
  /\ outbox' = <<>>
  /\ UNCHANGED <<mode, request, flash, ram, task>>

-----------------------------------------------------------------------------

BootStep ==
  \/ HandleHello \/ HandleBeginShort \/ HandleBeginRange \/ HandleBegin \/ EraseSector
  \/ HandleDataState \/ HandleDataRange \/ HandleData \/ ProgramFirstPart \/ ProgramRest
  \/ HandleEndState \/ HandleEndAuth \/ HandleEnd \/ CommitField
  \/ HandleAbort \/ HandleBoot \/ HandleUnsupported \/ Start
AppStep   == AppEnter \/ AppInfo \/ AppUnsupported
FaultStep == LoseFrame \/ HandleCorrupt \/ PowerLoss

Next == BootStep \/ AppStep \/ FaultStep \/ ClientSends
Spec == Init /\ [][Next]_vars

\* On a worn flash, whose erase and program operations may report errors.
WornNext == Next \/ FlashError
WornSpec == Init /\ [][WornNext]_vars

-----------------------------------------------------------------------------
(* Properties.                                                             *)

(* An application only ever runs if the flash holds exactly an image the   *)
(* build machine signed, whatever was sent, lost or interrupted before     *)
(* (MetadataValid, main, MSG_OTA_BOOT).                                    *)
BootsSignedImage ==
  mode = "app" =>
    \E p \in Signed : /\ MetaManifest = p.man
                      /\ Prefix(p.man.size) = p.data
                      /\ p.data[1] \in VectorBlocks

(* The metadata is the commit record of an update: once every field of it  *)
(* is programmed, the flash holds the very image it describes.  Needs the  *)
(* erase order of BEGIN, the running hash of DATA and the checks of END to *)
(* work together; the flash is assumed not to report errors.               *)
MetaComplete == \A f \in DOMAIN meta : meta[f] \notin {Erased, Garbage}
CommittedImageIntact ==
  MetaComplete => /\ meta.size \in 1 .. AppBlocks
                  /\ Hmac(MetaManifest, Prefix(meta.size)) = meta.hmac
                  /\ Crc32(Prefix(meta.size)) = meta.crc

(* The argument behind it, as an inductive invariant: what the static      *)
(* variables, the handler in progress and the flash have to do with each   *)
(* other at every flash operation of BEGIN, DATA and END.                  *)
RamManifest == [size |-> ram.size, version |-> ram.version, crc |-> ram.crc]

EraseProgress ==
  task.op = "erase" =>
    /\ task.at > 4 => meta = BlankMeta
    /\ \A i \in AppIndex : SectorOf[i] < task.at => app[i] = Erased
    /\ task.req.man.size \in 1 .. AppBlocks /\ task.req.man = RamManifest

SessionMatchesFlash ==
  ram.updating /\ task.op \in {"idle", "program"} =>
    /\ ram.open /\ meta = BlankMeta
    /\ Len(ram.hashed) = ram.next
    /\ \A i \in AppIndex :
         /\ i < ram.next => app[i] = ram.hashed[i + 1]
         /\ i > ram.next => app[i] = Erased
         /\ i = ram.next => app[i] = Erased \/ (/\ task.op = "program" /\ task.at = 1
                                                /\ app[i] = Torn(task.req.block))
    /\ ram.bound \in Manifest /\ ram.bound.size \in 1 .. AppBlocks
    /\ ram.size \in 1 .. AppBlocks => ram.bound = RamManifest

CommitMatchesFlash ==
  task.op = "commit" =>
    /\ ram.size \in 1 .. AppBlocks
    /\ Hmac(RamManifest, Prefix(ram.size)) = ram.hmac
    /\ Crc32(Prefix(ram.size)) = ram.crc
    /\ \A k \in 1 .. 5 : meta[FieldNames[k]] = IF k < task.at THEN FieldValue(FieldNames[k])
                                                             ELSE Erased

UpdateInv ==
  /\ EraseProgress /\ SessionMatchesFlash /\ CommitMatchesFlash
  /\ task.op = "program" => ram.updating
  /\ mode # "boot" => task = Idle
  /\ CommittedImageIntact

(* BEGIN erases the metadata before anything else, and the application     *)
(* region is not touched while a magic number still claims that it holds   *)
(* an image.                                                               *)
AppChangesOnlyUnmarked == [][app' # app => meta.magic # Magic]_vars

(* Flash is programmed at most once between two erases: contents get       *)
(* undefined by a loss of power only.                                      *)
GarbageCells == {i \in AppIndex : app[i] = Garbage}
GarbageFields == {f \in DOMAIN meta : meta[f] = Garbage}
NoOverprogramming ==
  [][mode' # "off" => /\ GarbageCells' \subseteq GarbageCells
                      /\ GarbageFields' \subseteq GarbageFields]_vars

(* The abstract device of OtaInstall: the image that is installed, and the *)
(* one that runs.                                                          *)
InstalledImage ==
  IF MetadataValid
  THEN CHOOSE p \in Signed : p.man = MetaManifest /\ p.data = Prefix(meta.size)
  ELSE NoDigest
RunningImage ==
  IF mode # "app" THEN NoDigest ELSE IF MetadataValid THEN InstalledImage ELSE Garbage

Device == INSTANCE OtaInstall WITH
  Images <- Signed, None <- NoDigest, installed <- InstalledImage, running <- RunningImage

(* A session is open, or the application is being erased, only while the   *)
(* metadata lacks its digest, which is programmed last; so no step replaces *)
(* one valid image by another.  Flash errors are allowed.                  *)
Uncommitted == meta.hmac \in {Erased, Garbage}
UncommittedInv ==
  /\ ram.updating => Uncommitted
  /\ task.op = "erase" /\ task.at > 4 => Uncommitted
  /\ task.op \in {"program", "commit"} => ram.updating
  /\ mode # "boot" => task = Idle

(* The bootloader over any client, wire and power supply implements that   *)
(* device: every flash operation, reset and loss of power is one of its    *)
(* steps or invisible.                                                     *)
Refines == Device!Spec

(* A promise the code breaks (see the README): protocol.md:207 says that   *)
(* DATA does not go beyond the declared size of the image, that is, of the *)
(* BEGIN that opened the session.                                          *)
DataWithinDeclaredImage == ram.updating => ram.next <= ram.bound.size
=============================================================================
