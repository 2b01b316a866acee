------------------------- MODULE OtaBootloaderProofs -------------------------
(* Theorems about OtaBootloader, for every geometry of the flash, every set *)
(* of images and every client.                                              *)
EXTENDS OtaBootloader, TLAPS

USE DEF Receives, Req, Send, flash

(* The record of static variables has its type at start-up.                 *)
LEMMA ColdRamType == ColdRam \in RamType
BY GeometryAssumption DEF ColdRam, RamType, Sizes, Digests

(* A frame at the head of the wire is a frame, and its name tells its kind. *)
LEMMA HeadFrame ==
  ASSUME TypeOK, inbox # <<>>
  PROVE  /\ Head(inbox) \in Frames
         /\ Tail(inbox) \in Seq(Frames)
         /\ Head(inbox).msg = "BEGIN" => Head(inbox) \in BeginFrames
         /\ Head(inbox).msg = "DATA" => Head(inbox) \in DataFrames
         /\ Head(inbox).msg = "END" => Head(inbox) \in PlainFrames
<1>1. Head(inbox) \in Frames /\ Tail(inbox) \in Seq(Frames)
  BY DEF TypeOK
<1>2. QED
  BY <1>1 DEF Frames, PlainFrames, BeginFrames, DataFrames, PlainMsgs

(* Programming a cell of the application region leaves a cell.              *)
LEMMA WriteCellType ==
  ASSUME TypeOK, NEW i, NEW c \in Cells, WriteCell(i, c)
  PROVE  app' \in [AppIndex -> Cells]
BY DEF TypeOK, WriteCell

LEMMA CellContents ==
  ASSUME NEW cell, NEW b \in Blocks
  PROVE  Programmed(cell, b) \in Cells /\ TornBy(cell, b) \in Cells
BY DEF Programmed, TornBy, Cells

(* A metadata field takes a value of its own kind.                          *)
LEMMA FieldValueType ==
  ASSUME TypeOK, NEW f \in DOMAIN meta, NEW c \in {FieldValue(f), Garbage}
  PROVE  [meta EXCEPT ![f] = c] \in MetaType
<1>1. f \in {"magic", "size", "version", "crc", "hmac"}
  BY DEF TypeOK, MetaType
<1>2. CASE f = "magic"
  BY <1>2 DEF TypeOK, MetaType, FieldValue
<1>3. CASE f = "size"
  BY <1>3 DEF TypeOK, MetaType, FieldValue, RamType
<1>4. CASE f = "version"
  BY <1>4 DEF TypeOK, MetaType, FieldValue, RamType
<1>5. CASE f = "crc"
  BY <1>5 DEF TypeOK, MetaType, FieldValue, RamType
<1>6. CASE f = "hmac"
  BY <1>6 DEF TypeOK, MetaType, FieldValue, RamType
<1>7. QED
  BY <1>1, <1>2, <1>3, <1>4, <1>5, <1>6

LEMMA CommittedFieldType ==
  ASSUME TypeOK, CommitField, task.at \in 1 .. 5
  PROVE  meta' \in MetaType
<1> DEFINE f == FieldNames[task.at]
<1>1. f \in DOMAIN meta
  BY DEF TypeOK, MetaType, FieldNames
<1>2. meta' = [meta EXCEPT ![f] = IF meta[f] = Erased THEN FieldValue(f) ELSE Garbage]
  BY DEF CommitField
<1> HIDE DEF f
<1>3. QED
  BY <1>1, <1>2, FieldValueType

(* Power loss leaves cells and fields of their types.                       *)
LEMMA InterruptedType ==
  ASSUME TypeOK, Interrupted
  PROVE  app' \in [AppIndex -> Cells] /\ meta' \in MetaType
<1>1. CASE task.op = "erase" /\ task.at = 4 /\ app' = app
           /\ meta' \in {[f \in DOMAIN meta |-> Garbage], BlankMeta, meta}
  BY <1>1 DEF TypeOK, MetaType, BlankMeta
<1>2. CASE meta' = meta /\ \E c \in {Garbage, Erased}, hit \in SUBSET AppIndex :
             app' = [i \in AppIndex |-> IF i \in hit /\ SectorOf[i] = task.at
                                        THEN c ELSE app[i]]
  BY <1>2 DEF TypeOK, Cells
<1>3. CASE /\ task.op = "program" /\ meta' = meta
           /\ \E c \in {Garbage, TornBy(app[ram.next], task.req.block)} :
                WriteCell(ram.next, c)
  <2>1. task \in [op : {"program"}, at : 0 .. 1, req : {f \in DataFrames : f.block # NoBlock}]
    BY <1>3 DEF TypeOK, TaskType, Idle
  <2>2. TornBy(app[ram.next], task.req.block) \in Cells
    BY <2>1, CellContents DEF DataFrames
  <2>3. QED
    BY <1>3, <2>2, WriteCellType DEF TypeOK, Cells
<1>4. CASE /\ task.op = "commit" /\ app' = app
           /\ \E f \in {FieldNames[task.at]} : \E c \in {Garbage, FieldValue(f)} :
                meta' = [meta EXCEPT ![f] = c]
  <2>1. task \in [op : {"commit"}, at : 1 .. 5, req : PlainFrames]
    BY <1>4 DEF TypeOK, TaskType, Idle
  <2>2. FieldNames[task.at] \in DOMAIN meta
    BY <2>1 DEF TypeOK, MetaType, FieldNames
  <2>3. PICK c \in {Garbage, FieldValue(FieldNames[task.at])} :
          meta' = [meta EXCEPT ![FieldNames[task.at]] = c]
    BY <1>4
  <2>4. meta' \in MetaType
    BY <2>2, <2>3, FieldValueType
  <2>5. QED
    BY <1>4, <2>4 DEF TypeOK
<1>5. CASE UNCHANGED <<app, meta>>
  BY <1>5 DEF TypeOK
<1>6. QED
  BY <1>1, <1>2, <1>3, <1>4, <1>5 DEF Interrupted

(* Type correctness.                                                        *)
LEMMA TypeInit == Init => TypeOK
<1> SUFFICES ASSUME Init PROVE TypeOK
  OBVIOUS
<1>1. app \in [AppIndex -> Cells]
  BY DEF Init, Cells
<1>2. meta \in MetaType
  BY DEF Init, BlankMeta, MetaType
<1>3. ram \in RamType
  BY ColdRamType DEF Init
<1>4. task \in TaskType
  BY DEF Init, TaskType
<1>5. inbox \in Seq(Frames)
  <2>1. inbox = <<>>
    BY DEF Init
  <2>2. QED
    BY <2>1
<1>6. mode \in {"off", "boot", "app"} /\ request \in BOOLEAN
  BY DEF Init
<1>7. QED
  BY <1>1, <1>2, <1>3, <1>4, <1>5, <1>6 DEF TypeOK

LEMMA TypeStep == TypeOK /\ [WornNext]_vars => TypeOK'
<1> SUFFICES ASSUME TypeOK, [WornNext]_vars PROVE TypeOK'
  OBVIOUS
<1> USE DEF TypeOK
<1>1. CASE HandleHello
  BY <1>1, HeadFrame DEF HandleHello
<1>2. CASE HandleBeginShort
  BY <1>2, HeadFrame DEF HandleBeginShort
<1>3. CASE HandleBeginRange
  <2>1. Head(inbox) \in BeginFrames /\ Tail(inbox) \in Seq(Frames)
    BY <1>3, HeadFrame DEF HandleBeginRange
  <2>2. ram' \in RamType
    BY <1>3, <2>1 DEF HandleBeginRange, LoadManifest, RamType, BeginFrames, Manifest
  <2>3. QED
    BY <1>3, <2>1, <2>2 DEF HandleBeginRange
<1>4. CASE HandleBegin
  <2>1. Head(inbox) \in BeginFrames /\ Tail(inbox) \in Seq(Frames)
    BY <1>4, HeadFrame DEF HandleBegin
  <2>2. ram' \in RamType
    BY <1>4, <2>1 DEF HandleBegin, LoadManifest, RamType, BeginFrames, Manifest
  <2>3. task' \in TaskType
    BY <1>4, <2>1 DEF HandleBegin, Task, TaskType
  <2>4. QED
    BY <1>4, <2>1, <2>2, <2>3 DEF HandleBegin
<1>5. CASE EraseSector
  <2>1. task \in [op : {"erase"}, at : 4 .. 7, req : BeginFrames]
    BY <1>5 DEF EraseSector, TaskType, Idle
  <2>2. app' \in [AppIndex -> Cells]
    BY <1>5 DEF EraseSector, Cells
  <2>3. meta' \in MetaType
    BY <1>5 DEF EraseSector, MetaType, BlankMeta
  <2>4. task' \in TaskType
    BY <1>5, <2>1 DEF EraseSector, TaskType, Idle
  <2>5. ram' \in RamType
    <3>1. task.req.man \in Manifest
      BY <2>1 DEF BeginFrames
    <3>2. <<>> \in Seq(Blocks) /\ 0 \in Nat
      OBVIOUS
    <3>3. CASE UNCHANGED ram
      BY <3>3
    <3>4. CASE ram' = [ram EXCEPT !.bound = task.req.man, !.hashed = <<>>, !.open = TRUE,
                                  !.next = 0, !.updating = TRUE]
      BY <3>1, <3>2, <3>4 DEF RamType
    <3>5. QED
      BY <1>5, <3>3, <3>4 DEF EraseSector
  <2>6. QED
    BY <1>5, <2>2, <2>3, <2>4, <2>5 DEF EraseSector
<1>6. CASE HandleDataState
  BY <1>6, HeadFrame DEF HandleDataState
<1>7. CASE HandleDataRange
  BY <1>7, HeadFrame DEF HandleDataRange
<1>8. CASE HandleData
  <2>1. Head(inbox) \in DataFrames /\ Tail(inbox) \in Seq(Frames)
    BY <1>8, HeadFrame DEF HandleData
  <2>2. task' \in TaskType
    BY <1>8, <2>1 DEF HandleData, Task, TaskType, DataInRange
  <2>3. QED
    BY <1>8, <2>1, <2>2 DEF HandleData

<1>9. CASE ProgramFirstPart
  <2>1. task \in [op : {"program"}, at : 0 .. 1, req : {f \in DataFrames : f.block # NoBlock}]
    BY <1>9 DEF ProgramFirstPart, TaskType, Idle
  <2>2. app' \in [AppIndex -> Cells]
    BY <1>9, <2>1, CellContents, WriteCellType DEF ProgramFirstPart, DataFrames
  <2>3. task' \in TaskType
    BY <1>9, <2>1 DEF ProgramFirstPart, TaskType
  <2>4. QED
    BY <1>9, <2>2, <2>3 DEF ProgramFirstPart
<1>10. CASE ProgramRest
  <2>1. task \in [op : {"program"}, at : 0 .. 1, req : {f \in DataFrames : f.block # NoBlock}]
    BY <1>10 DEF ProgramRest, TaskType, Idle
  <2>2. task.req.block \in Blocks
    BY <2>1 DEF DataFrames
  <2>3. app' \in [AppIndex -> Cells]
    BY <1>10, <2>2, CellContents, WriteCellType DEF ProgramRest
  <2>4. ram' \in RamType
    <3>1. Append(ram.hashed, task.req.block) \in Seq(Blocks) /\ ram.next + 1 \in Nat
      BY <2>2 DEF RamType
    <3>2. QED
      BY <1>10, <3>1 DEF ProgramRest, RamType
  <2>5. task' \in TaskType
    BY <1>10 DEF ProgramRest, TaskType
  <2>6. QED
    BY <1>10, <2>3, <2>4, <2>5 DEF ProgramRest
<1>11. CASE FlashError
  BY <1>11 DEF FlashError, TaskType
<1>12. CASE HandleEndState
  BY <1>12, HeadFrame DEF HandleEndState
<1>13. CASE HandleEndAuth
  <2>1. ram' \in RamType
    BY <1>13 DEF HandleEndAuth, RamType
  <2>2. QED
    BY <1>13, <2>1, HeadFrame DEF HandleEndAuth
<1>14. CASE HandleEnd
  <2>1. ram' \in RamType
    BY <1>14 DEF HandleEnd, RamType
  <2>2. task' \in TaskType
    BY <1>14, HeadFrame DEF HandleEnd, Task, TaskType
  <2>3. QED
    BY <1>14, <2>1, <2>2, HeadFrame DEF HandleEnd
<1>15. CASE CommitField
  <2>1. task \in [op : {"commit"}, at : 1 .. 5, req : PlainFrames]
    BY <1>15 DEF CommitField, TaskType, Idle
  <2>2. meta' \in MetaType
    BY <1>15, <2>1, CommittedFieldType DEF CommitField
  <2>3. ram' \in RamType
    BY <1>15 DEF CommitField, RamType
  <2>4. task' \in TaskType
    BY <1>15, <2>1 DEF CommitField, TaskType
  <2>5. QED
    BY <1>15, <2>2, <2>3, <2>4 DEF CommitField
<1>16. CASE HandleAbort
  <2>1. ram' \in RamType
    BY <1>16 DEF HandleAbort, RamType
  <2>2. QED
    BY <1>16, <2>1, HeadFrame DEF HandleAbort
<1>17. CASE HandleBoot
  <2>1. ram' \in RamType
    BY <1>17, ColdRamType DEF HandleBoot
  <2>2. QED
    BY <1>17, <2>1, HeadFrame DEF HandleBoot
<1>18. CASE HandleUnsupported
  BY <1>18, HeadFrame DEF HandleUnsupported
<1>19. CASE HandleCorrupt
  BY <1>19, HeadFrame DEF HandleCorrupt
<1>20. CASE Start
  BY <1>20, ColdRamType DEF Start
<1>21. CASE AppEnter
  BY <1>21, HeadFrame DEF AppEnter
<1>22. CASE AppInfo
  BY <1>22, HeadFrame DEF AppInfo
<1>23. CASE AppUnsupported
  BY <1>23, HeadFrame DEF AppUnsupported
<1>24. CASE LoseFrame
  BY <1>24, HeadFrame DEF LoseFrame
<1>25. CASE PowerLoss
  <2>1. app' \in [AppIndex -> Cells] /\ meta' \in MetaType
    BY <1>25, InterruptedType DEF PowerLoss
  <2>2. QED
    BY <1>25, <2>1, ColdRamType DEF PowerLoss, TaskType
<1>26. CASE ClientSends
  BY <1>26 DEF ClientSends
<1>27. CASE UNCHANGED vars
  BY <1>27 DEF vars
<1>28. QED
  BY <1>1, <1>2, <1>3, <1>4, <1>5, <1>6, <1>7, <1>8, <1>9, <1>10, <1>11, <1>12, <1>13,
     <1>14, <1>15, <1>16, <1>17, <1>18, <1>19, <1>20, <1>21, <1>22, <1>23, <1>24, <1>25,
     <1>26, <1>27 DEF WornNext, Next, BootStep, AppStep, FaultStep

(* Every reachable state has the declared type (all of OtaBootloader).      *)
THEOREM TypeCorrect == WornSpec => []TypeOK
BY TypeInit, TypeStep, PTL DEF WornSpec

LEMMA WornCoversSpec == Spec => WornSpec
<1>1. [Next]_vars => [WornNext]_vars
  BY DEF WornNext
<1>2. QED
  BY <1>1, PTL DEF Spec, WornSpec

-----------------------------------------------------------------------------
(* The first n blocks of the application region are a sequence of cells.    *)
LEMMA PrefixType ==
  ASSUME TypeOK, NEW n \in 0 .. AppBlocks
  PROVE  Prefix(n) \in Seq(Cells) /\ Len(Prefix(n)) = n
<1>1. Prefix(n) \in [1 .. n -> Cells]
  BY GeometryAssumption DEF TypeOK, Prefix, AppIndex
<1>2. QED
  BY <1>1

(* A digest that was computed is none of the values that stand for none.    *)
LEMMA DigestIsSigned ==
  ASSUME NEW man \in [size : Sizes, version : Versions \cup {Erased, Garbage},
                      crc : Checksums \cup {Erased, Garbage}],
         NEW data \in Seq(Cells),
         Hmac(man, data) \in Digests \cup {Erased, Garbage}
  PROVE  \E p \in Signed : man = p.man /\ data = p.data
<1>1. Hmac(man, data) \notin {Erased, Garbage, NoDigest}
  BY EncodingAssumption DEF Hmac
<1>2. PICK p \in Signed : Hmac(man, data) = Hmac(p.man, p.data)
  BY <1>1 DEF Digests
<1>3. man = p.man /\ data = p.data
  BY <1>2 DEF Hmac
<1>4. QED
  BY <1>3

(* MetadataValid is enough to know that the flash holds a signed image.     *)
LEMMA ValidIsSigned ==
  ASSUME TypeOK, MetadataValid
  PROVE  \E p \in Signed : /\ MetaManifest = p.man
                           /\ Prefix(p.man.size) = p.data
                           /\ p.data[1] \in VectorBlocks
<1>1. meta.size \in 1 .. AppBlocks /\ meta.size \in Sizes
  BY GeometryAssumption DEF MetadataValid, Sizes
<1>2. Prefix(meta.size) \in Seq(Cells)
  BY <1>1, PrefixType, GeometryAssumption
<1>3. MetaManifest \in [size : Sizes, version : Versions \cup {Erased, Garbage},
                        crc : Checksums \cup {Erased, Garbage}]
  BY <1>1 DEF TypeOK, MetaType, MetaManifest
<1>4. Hmac(MetaManifest, Prefix(meta.size)) \in Digests \cup {Erased, Garbage}
  BY DEF MetadataValid, TypeOK, MetaType
<1>5. PICK p \in Signed : MetaManifest = p.man /\ Prefix(meta.size) = p.data
  BY <1>2, <1>3, <1>4, DigestIsSigned
<1>6. p.man.size = meta.size
  BY <1>5 DEF MetaManifest
<1>7. p.data[1] = app[0]
  BY <1>1, <1>5 DEF Prefix
<1>8. QED
  BY <1>5, <1>6, <1>7 DEF MetadataValid

AppIsValid == mode = "app" => MetadataValid

(* The processor enters the application over valid metadata only, and the   *)
(* flash is left alone as long as it stays there.                           *)
LEMMA AppIsValidStep == AppIsValid /\ [WornNext]_vars => AppIsValid'
<1> SUFFICES ASSUME AppIsValid, [WornNext]_vars, mode' = "app"
             PROVE  MetadataValid'
  BY DEF AppIsValid
<1>1. UNCHANGED <<app, meta>> /\ (mode = "app" \/ MetadataValid)
  <2>1. CASE BootStep
    BY <2>1 DEF BootStep, HandleHello, HandleBeginShort, HandleBeginRange, HandleBegin,
      EraseSector, HandleDataState, HandleDataRange, HandleData, ProgramFirstPart, ProgramRest,
      HandleEndState, HandleEndAuth, HandleEnd, CommitField, HandleAbort, HandleBoot,
      HandleUnsupported, Start
  <2>2. CASE AppStep
    BY <2>2 DEF AppStep, AppEnter, AppInfo, AppUnsupported
  <2>3. CASE FaultStep \/ FlashError
    BY <2>3 DEF FaultStep, LoseFrame, HandleCorrupt, PowerLoss, FlashError
  <2>4. CASE ClientSends \/ UNCHANGED vars
    BY <2>4 DEF ClientSends, vars
  <2>5. QED
    BY <2>1, <2>2, <2>3, <2>4 DEF WornNext, Next
<1>2. MetadataValid
  BY <1>1 DEF AppIsValid
<1>3. QED
  BY <1>1, <1>2 DEF MetadataValid, MetaManifest, Prefix

(* Only signed images run (MetadataValid, main, MSG_OTA_BOOT), whatever is  *)
(* sent, lost, damaged or interrupted, flash errors included.               *)
THEOREM BootSafety == WornSpec => []BootsSignedImage
<1>1. Init => AppIsValid
  BY DEF Init, AppIsValid
<1>2. TypeOK /\ AppIsValid => BootsSignedImage
  BY ValidIsSigned DEF AppIsValid, BootsSignedImage
<1>3. QED
  BY <1>1, <1>2, AppIsValidStep, TypeCorrect, PTL DEF WornSpec

-----------------------------------------------------------------------------
(* The commit argument: UpdateInv is inductive while the flash reports no   *)
(* errors.                                                                  *)

LEMMA UpdateInvInit == Init => UpdateInv
BY DEF Init, UpdateInv, EraseProgress, SessionMatchesFlash, CommitMatchesFlash,
       CommittedImageIntact, MetaComplete, BlankMeta, ColdRam, Idle

(* Blank metadata commits to nothing.                                       *)
LEMMA BlankIsIncomplete ==
  ASSUME meta.hmac \in {Erased, Garbage}, meta \in MetaType
  PROVE  ~MetaComplete
BY DEF MetaComplete, MetaType

(* Steps that touch neither flash, nor static variables, nor the handler.   *)
LEMMA UpdateFrame ==
  ASSUME UpdateInv, UNCHANGED <<app, meta, ram, task>>, mode' # "boot" => task = Idle
  PROVE  UpdateInv'
BY DEF UpdateInv, EraseProgress, SessionMatchesFlash, CommitMatchesFlash,
       CommittedImageIntact, MetaComplete, MetaManifest, RamManifest, FieldValue, Prefix

(* Steps that leave no session behind and keep the flash.                   *)
LEMMA UpdateNoSession ==
  ASSUME UpdateInv, UNCHANGED <<app, meta>>, task' = Idle, ~ram'.updating
  PROVE  UpdateInv'
BY DEF UpdateInv, EraseProgress, SessionMatchesFlash, CommitMatchesFlash,
       CommittedImageIntact, MetaComplete, MetaManifest, Prefix, Idle

(* A digest that END accepts proves that the flash holds the manifest's     *)
(* image: the last BEGIN accepted is the one that opened the session.       *)
LEMMA EndIsSigned ==
  ASSUME TypeOK, UpdateInv, ram.updating, task = Idle, ram.next = ram.size, DigestMatches
  PROVE  /\ ram.size \in 1 .. AppBlocks
         /\ ram.bound = RamManifest
         /\ Prefix(ram.size) = ram.hashed
<1>1. /\ Len(ram.hashed) = ram.next
      /\ \A i \in AppIndex : i < ram.next => app[i] = ram.hashed[i + 1]
      /\ ram.bound \in Manifest /\ ram.bound.size \in 1 .. AppBlocks
      /\ ram.size \in 1 .. AppBlocks => ram.bound = RamManifest
  BY DEF UpdateInv, SessionMatchesFlash, Idle
<1>2. ram.hashed \in Seq(Blocks) /\ ram.hashed \in Seq(Cells)
  BY DEF TypeOK, RamType, Cells
<1>3. PICK p \in Signed : ram.bound = p.man /\ ram.hashed = p.data
  <2>1. Hmac(ram.bound, ram.hashed) \in Digests
    BY DEF DigestMatches, TypeOK, RamType
  <2>2. QED
    BY <1>1, <1>2, <2>1, DigestIsSigned DEF Manifest
<1>4. ram.size = ram.bound.size
  BY <1>1, <1>3, SigningAssumption
<1>5. Prefix(ram.size) = ram.hashed
  <2>1. ram.size \in 1 .. AppBlocks /\ ram.size = Len(ram.hashed) /\ AppBlocks \in Nat
    BY <1>1, <1>4, GeometryAssumption
  <2>2. \A i \in 1 .. ram.size : app[i - 1] = ram.hashed[i]
    BY <1>1, <2>1 DEF AppIndex
  <2>3. ram.hashed = [i \in 1 .. ram.size |-> ram.hashed[i]]
    BY <1>2, <2>1
  <2>4. QED
    BY <2>2, <2>3 DEF Prefix
<1>6. QED
  BY <1>1, <1>4, <1>5

(* BEGIN: from the acceptance of a manifest to the session it opens.        *)
LEMMA BeginPreserves ==
  ASSUME TypeOK, UpdateInv, HandleBegin
  PROVE  UpdateInv'
<1>1. Head(inbox) \in BeginFrames /\ mode = "boot" /\ mode' = "boot" /\ task = Idle
  BY HeadFrame DEF HandleBegin
<1>2. task' = [op |-> "erase", at |-> 4, req |-> Head(inbox)]
  BY DEF HandleBegin, Task
<1>3. ram' = [ram EXCEPT !.size = Head(inbox).man.size, !.version = Head(inbox).man.version,
                         !.crc = Head(inbox).man.crc, !.hmac = Head(inbox).sig]
  BY DEF HandleBegin, LoadManifest, TypeOK, RamType
<1>4. EraseProgress'
  <2>1. \A i \in AppIndex : SectorOf[i] \in 5 .. 7
    BY GeometryAssumption
  <2>2. Head(inbox).man \in Manifest
    BY <1>1 DEF BeginFrames
  <2>3. RamManifest' = Head(inbox).man
    BY <1>3, <2>2 DEF RamManifest, Manifest, TypeOK, RamType
  <2>4. Head(inbox).man.size \in 1 .. AppBlocks
    BY DEF HandleBegin
  <2>5. QED
    BY <1>2, <2>1, <2>3, <2>4 DEF EraseProgress
<1>5. CommittedImageIntact' = CommittedImageIntact
  BY DEF HandleBegin, CommittedImageIntact, MetaComplete, MetaManifest, Prefix
<1>6. QED
  BY <1>1, <1>2, <1>4, <1>5 DEF UpdateInv, SessionMatchesFlash, CommitMatchesFlash

LEMMA EraseTask ==
  ASSUME TypeOK, task.op = "erase"
  PROVE  task \in [op : {"erase"}, at : 4 .. 7, req : BeginFrames]
BY DEF TypeOK, TaskType, Idle

LEMMA ErasePreserves ==
  ASSUME TypeOK, UpdateInv, EraseSector
  PROVE  UpdateInv'
<1>1. task \in [op : {"erase"}, at : 4 .. 7, req : BeginFrames]
  BY EraseTask DEF EraseSector
<1>2. mode = "boot" /\ mode' = "boot"
  BY DEF EraseSector
<1>3. meta' = BlankMeta
  BY <1>1 DEF EraseSector, UpdateInv, EraseProgress
<1>4. \A i \in AppIndex : SectorOf[i] <= task.at => app'[i] = Erased
  <2>1. CASE task.at = 4
    BY <2>1, GeometryAssumption
  <2>2. CASE task.at # 4
    <3>1. app' = [i \in AppIndex |-> IF SectorOf[i] = task.at THEN Erased ELSE app[i]]
      BY <2>2 DEF EraseSector
    <3>2. TAKE i \in AppIndex
    <3>3. SectorOf[i] \in 5 .. 7 /\ task.at \in 4 .. 7
      BY <1>1, GeometryAssumption
    <3>4. SectorOf[i] < task.at => app[i] = Erased
      BY <1>1 DEF UpdateInv, EraseProgress
    <3>5. QED
      BY <3>1, <3>3, <3>4
  <2>3. QED
    BY <2>1, <2>2
<1>5. ~MetaComplete' /\ CommittedImageIntact'
  BY <1>3 DEF MetaComplete, BlankMeta, CommittedImageIntact
<1>6. CASE task.at < 7
  <2>1. task' = [op |-> "erase", at |-> task.at + 1, req |-> task.req] /\ UNCHANGED ram
    BY <1>1, <1>6 DEF EraseSector
  <2>2. EraseProgress'
    <3>1. \A i \in AppIndex : SectorOf[i] < task.at + 1 => app'[i] = Erased
      BY <1>1, <1>4, GeometryAssumption
    <3>2. task.req.man.size \in 1 .. AppBlocks /\ task.req.man = RamManifest
      BY <1>1 DEF UpdateInv, EraseProgress
    <3>3. QED
      BY <1>3, <2>1, <3>1, <3>2 DEF EraseProgress, RamManifest
  <2>3. QED
    BY <1>2, <1>5, <2>1, <2>2 DEF UpdateInv, SessionMatchesFlash, CommitMatchesFlash
<1>7. CASE task.at = 7
  <2>1. ram' = [ram EXCEPT !.bound = task.req.man, !.hashed = <<>>, !.open = TRUE,
                           !.next = 0, !.updating = TRUE] /\ task' = Idle
    BY <1>7 DEF EraseSector
  <2>2. \A i \in AppIndex : i \in Nat /\ app'[i] = Erased
    BY <1>4, <1>7, GeometryAssumption DEF AppIndex
  <2>3. /\ ram'.open /\ ram'.next = 0 /\ ram'.hashed = <<>> /\ ram'.bound = task.req.man
        /\ ram'.size = ram.size /\ ram'.version = ram.version /\ ram'.crc = ram.crc
    BY <2>1 DEF TypeOK, RamType
  <2>4. /\ task.req.man \in Manifest /\ task.req.man.size \in 1 .. AppBlocks
        /\ task.req.man = RamManifest
    BY <1>1 DEF UpdateInv, EraseProgress, BeginFrames
  <2>5. SessionMatchesFlash'
    BY <1>3, <2>1, <2>2, <2>3, <2>4 DEF SessionMatchesFlash, RamManifest
  <2>6. QED
    BY <1>2, <1>5, <2>1, <2>5 DEF UpdateInv, EraseProgress, CommitMatchesFlash, Idle
<1>8. QED
  BY <1>1, <1>6, <1>7

(* DATA: the block goes to the flash and into the running hash.             *)
LEMMA DataPreserves ==
  ASSUME TypeOK, UpdateInv, HandleData
  PROVE  UpdateInv'
<1>1. mode' = "boot" /\ task = Idle /\ task' = [op |-> "program", at |-> 0, req |-> Head(inbox)]
  BY DEF HandleData, Task
<1>2. SessionMatchesFlash'
  BY <1>1 DEF HandleData, UpdateInv, SessionMatchesFlash, Idle, RamManifest
<1>3. CommittedImageIntact' = CommittedImageIntact
  BY DEF HandleData, CommittedImageIntact, MetaComplete, MetaManifest, Prefix
<1>4. QED
  BY <1>1, <1>2, <1>3 DEF HandleData, UpdateInv, EraseProgress, CommitMatchesFlash

LEMMA ProgramTask ==
  ASSUME TypeOK, task.op = "program"
  PROVE  /\ task \in [op : {"program"}, at : 0 .. 1, req : DataFrames]
         /\ task.req.block \in Blocks
BY DEF TypeOK, TaskType, Idle, DataFrames

LEMMA FirstPartPreserves ==
  ASSUME TypeOK, UpdateInv, ProgramFirstPart
  PROVE  UpdateInv'
<1>1. /\ task \in [op : {"program"}, at : 0 .. 1, req : DataFrames]
      /\ mode' = "boot" /\ task.at = 0 /\ task' = [task EXCEPT !.at = 1]
      /\ UNCHANGED <<meta, ram>>
  BY ProgramTask DEF ProgramFirstPart
<1>2. /\ ram.updating /\ meta = BlankMeta /\ ram.next \in Nat
      /\ \A i \in AppIndex : i = ram.next => app[i] = Erased
  BY <1>1 DEF ProgramFirstPart, UpdateInv, SessionMatchesFlash, TypeOK, RamType
<1>3. \A i \in AppIndex : app'[i] = IF i = ram.next THEN Torn(task.req.block) ELSE app[i]
  BY <1>2 DEF ProgramFirstPart, WriteCell, TornBy, TypeOK
<1>4. SessionMatchesFlash'
  <2>1. task'.at = 1 /\ task'.op = "program" /\ task'.req = task.req
    BY <1>1
  <2>2. \A i \in AppIndex : i \in Nat
    BY DEF AppIndex
  <2>3. QED
    BY <1>1, <1>2, <1>3, <2>1, <2>2 DEF UpdateInv, SessionMatchesFlash, RamManifest,
       ProgramFirstPart
<1>5. ~MetaComplete' /\ CommittedImageIntact'
  BY <1>1, <1>2 DEF MetaComplete, BlankMeta, CommittedImageIntact
<1>6. QED
  BY <1>1, <1>2, <1>4, <1>5 DEF UpdateInv, EraseProgress, CommitMatchesFlash

LEMMA RestPreserves ==
  ASSUME TypeOK, UpdateInv, ProgramRest
  PROVE  UpdateInv'
<1> DEFINE b == task.req.block
<1>1. /\ b \in Blocks /\ task.at = 1 /\ task.op = "program"
      /\ mode' = "boot" /\ task' = Idle /\ UNCHANGED meta
      /\ ram' = [ram EXCEPT !.hashed = Append(@, b), !.next = @ + 1]
  BY ProgramTask DEF ProgramRest
<1>2. /\ ram.updating /\ ram.open /\ meta = BlankMeta /\ ram.next \in Nat
      /\ ram.hashed \in Seq(Blocks) /\ Len(ram.hashed) = ram.next
      /\ \A i \in AppIndex : /\ i < ram.next => app[i] = ram.hashed[i + 1]
                             /\ i > ram.next => app[i] = Erased
                             /\ i = ram.next => app[i] \in {Erased, Torn(b)}
  BY <1>1 DEF UpdateInv, SessionMatchesFlash, TypeOK, RamType
<1>3. \A i \in AppIndex : app'[i] = IF i = ram.next THEN b ELSE app[i]
  BY <1>2 DEF ProgramRest, WriteCell, Programmed, TypeOK
<1>4. /\ ram'.next = ram.next + 1 /\ ram'.hashed = Append(ram.hashed, b)
      /\ ram'.open = ram.open /\ ram'.bound = ram.bound /\ ram'.size = ram.size
      /\ ram'.version = ram.version /\ ram'.crc = ram.crc
  BY <1>1 DEF TypeOK, RamType
<1>5. SessionMatchesFlash'
  <2>1. Len(ram'.hashed) = ram'.next
    BY <1>2, <1>4
  <2>2. ASSUME NEW i \in AppIndex
        PROVE  /\ i < ram'.next => app'[i] = ram'.hashed[i + 1]
               /\ i >= ram'.next => app'[i] = Erased
    <3>1. i \in Nat
      BY DEF AppIndex
    <3>2. CASE i < ram.next
      BY <1>2, <1>3, <1>4, <3>1, <3>2
    <3>3. CASE i = ram.next
      BY <1>1, <1>2, <1>3, <1>4, <3>3
    <3>4. CASE i > ram.next
      BY <1>2, <1>3, <1>4, <3>1, <3>4
    <3>5. QED
      BY <1>2, <3>1, <3>2, <3>3, <3>4
  <2>3. /\ ram.bound \in Manifest /\ ram.bound.size \in 1 .. AppBlocks
        /\ ram.size \in 1 .. AppBlocks => ram.bound = RamManifest
    BY <1>1, <1>2 DEF UpdateInv, SessionMatchesFlash
  <2>4. \A i \in AppIndex : i \in Nat
    BY DEF AppIndex
  <2>5. QED
    BY <1>1, <1>2, <1>4, <2>1, <2>2, <2>3, <2>4 DEF SessionMatchesFlash, RamManifest
<1>6. ~MetaComplete' /\ CommittedImageIntact'
  BY <1>1, <1>2 DEF MetaComplete, BlankMeta, CommittedImageIntact
<1>7. QED
  BY <1>1, <1>5, <1>6 DEF UpdateInv, EraseProgress, CommitMatchesFlash, Idle

(* END: the metadata is programmed only after the flash was found to hold   *)
(* the image that the manifest describes.                                   *)
LEMMA EndPreserves ==
  ASSUME TypeOK, UpdateInv, HandleEnd
  PROVE  UpdateInv'
<1>1. /\ mode' = "boot" /\ task = Idle /\ ram.updating /\ UNCHANGED <<app, meta>>
      /\ task' = [op |-> "commit", at |-> 1, req |-> Head(inbox)]
      /\ ram' = [ram EXCEPT !.open = FALSE]
  BY DEF HandleEnd, Task
<1>2. /\ ram.size \in 1 .. AppBlocks /\ ram.bound = RamManifest
      /\ Prefix(ram.size) = ram.hashed
  BY <1>1, EndIsSigned DEF HandleEnd
<1>3. Hmac(RamManifest, Prefix(ram.size)) = ram.hmac /\ Crc32(Prefix(ram.size)) = ram.crc
  BY <1>2 DEF HandleEnd, DigestMatches
<1>4. meta = BlankMeta
  BY <1>1 DEF UpdateInv, SessionMatchesFlash, Idle
<1>5. CommitMatchesFlash'
  <2>1. /\ ram'.size = ram.size /\ ram'.hmac = ram.hmac /\ ram'.crc = ram.crc
        /\ RamManifest' = RamManifest
    BY <1>1 DEF TypeOK, RamType, RamManifest
  <2>2. Prefix(ram.size)' = Prefix(ram.size)
    BY <1>1, <2>1 DEF Prefix
  <2>3. /\ Hmac(RamManifest', Prefix(ram.size)') = ram'.hmac
        /\ Crc32(Prefix(ram.size)') = ram'.crc
    BY <1>3, <2>1, <2>2
  <2>4. \A k \in 1 .. 5 : ~(k < 1) /\ meta'[FieldNames[k]] = Erased
    BY <1>1, <1>4 DEF BlankMeta, FieldNames
  <2>5. QED
    BY <1>1, <1>2, <2>1, <2>3, <2>4 DEF CommitMatchesFlash
<1>6. CommittedImageIntact'
  BY <1>1, <1>4 DEF MetaComplete, BlankMeta, CommittedImageIntact
<1>7. QED
  BY <1>1, <1>5, <1>6 DEF UpdateInv, EraseProgress, SessionMatchesFlash

LEMMA CommitTask ==
  ASSUME TypeOK, task.op = "commit"
  PROVE  task \in [op : {"commit"}, at : 1 .. 5, req : PlainFrames]
BY DEF TypeOK, TaskType, Idle

(* While a commit is under way, a field already programmed stays, and the   *)
(* last one completes the record of what is on the flash.                   *)
LEMMA FieldCommits ==
  ASSUME TypeOK, UpdateInv, task.op = "commit", UNCHANGED app,
         NEW c \in {FieldValue(FieldNames[task.at]), Garbage},
         meta' = [meta EXCEPT ![FieldNames[task.at]] = c]
  PROVE  CommittedImageIntact'
<1>1. task \in [op : {"commit"}, at : 1 .. 5, req : PlainFrames]
  BY CommitTask
<1>2. /\ ram.size \in 1 .. AppBlocks
      /\ Hmac(RamManifest, Prefix(ram.size)) = ram.hmac /\ Crc32(Prefix(ram.size)) = ram.crc
      /\ \A k \in 1 .. 5 : meta[FieldNames[k]] = IF k < task.at THEN FieldValue(FieldNames[k])
                                                               ELSE Erased
  BY DEF UpdateInv, CommitMatchesFlash
<1>3. DOMAIN meta = {"magic", "size", "version", "crc", "hmac"} /\ meta \in MetaType
  BY DEF TypeOK, MetaType
<1>4. CASE task.at # 5 \/ c = Garbage
  <2>1. CASE c = Garbage
    <3>1. FieldNames[task.at] \in DOMAIN meta
      BY <1>1, <1>3 DEF FieldNames
    <3>2. ~MetaComplete'
      BY <2>1, <3>1 DEF MetaComplete
    <3>3. QED
      BY <3>2 DEF CommittedImageIntact
  <2>2. CASE task.at # 5
    <3>1. meta.hmac = Erased
      BY <1>1, <1>2, <2>2 DEF FieldNames
    <3>2. FieldNames[task.at] # "hmac"
      BY <1>1, <2>2 DEF FieldNames
    <3>3. meta'.hmac = Erased /\ "hmac" \in DOMAIN meta'
      BY <1>3, <3>1, <3>2
    <3>4. QED
      BY <3>3 DEF MetaComplete, CommittedImageIntact
  <2>3. QED
    BY <1>4, <2>1, <2>2
<1>5. CASE task.at = 5 /\ c = FieldValue(FieldNames[5])
  <2>1. meta.size = ram.size /\ meta.version = ram.version /\ meta.crc = ram.crc
    BY <1>2, <1>5 DEF FieldNames, FieldValue
  <2>2. meta' = [meta EXCEPT !.hmac = ram.hmac]
    BY <1>5 DEF FieldNames, FieldValue
  <2>3. /\ meta'.size = ram.size /\ meta'.version = ram.version /\ meta'.crc = ram.crc
        /\ meta'.hmac = ram.hmac
    BY <1>3, <2>1, <2>2
  <2>4. MetaManifest' = RamManifest
    BY <2>3 DEF MetaManifest, RamManifest
  <2>5. Prefix(meta.size)' = Prefix(ram.size)
    BY <2>3 DEF Prefix
  <2>6. QED
    BY <1>2, <2>3, <2>4, <2>5 DEF CommittedImageIntact
<1>6. QED
  BY <1>4, <1>5

LEMMA CommitPreserves ==
  ASSUME TypeOK, UpdateInv, CommitField
  PROVE  UpdateInv'
<1>1. task \in [op : {"commit"}, at : 1 .. 5, req : PlainFrames] /\ mode' = "boot"
  BY CommitTask DEF CommitField
<1>2. \A k \in 1 .. 5 : meta[FieldNames[k]] = IF k < task.at THEN FieldValue(FieldNames[k])
                                             ELSE Erased
  BY <1>1 DEF UpdateInv, CommitMatchesFlash
<1>3. meta' = [meta EXCEPT ![FieldNames[task.at]] = FieldValue(FieldNames[task.at])]
  <2>1. meta[FieldNames[task.at]] = Erased
    BY <1>1, <1>2
  <2>2. meta' = [meta EXCEPT ![FieldNames[task.at]] =
                   IF meta[FieldNames[task.at]] = Erased THEN FieldValue(FieldNames[task.at])
                   ELSE Garbage]
    BY DEF CommitField
  <2>3. QED
    BY <2>1, <2>2
<1>4. CommittedImageIntact'
  BY <1>1, <1>3, FieldCommits DEF CommitField
<1>5. CASE task.at < 5
  <2>1. task' = [task EXCEPT !.at = @ + 1] /\ UNCHANGED <<app, ram>>
    BY <1>5 DEF CommitField
  <2>2. \A k \in 1 .. 5 : meta'[FieldNames[k]] = IF k < task.at + 1 THEN FieldValue(FieldNames[k])
                                                ELSE Erased
    <3>1. ASSUME NEW k \in 1 .. 5
          PROVE  meta'[FieldNames[k]] = IF k < task.at + 1 THEN FieldValue(FieldNames[k]) ELSE Erased
      <4>1. FieldNames[k] \in DOMAIN meta
        BY DEF FieldNames, TypeOK, MetaType
      <4>2. k # task.at => FieldNames[k] # FieldNames[task.at]
        BY <1>1 DEF FieldNames
      <4>3. k = task.at \/ (k < task.at + 1 <=> k < task.at)
        BY <1>1
      <4>4. k = task.at => k < task.at + 1
        BY <1>1
      <4> HIDE DEF FieldNames, FieldValue
      <4>5. QED
        BY <1>2, <1>3, <4>1, <4>2, <4>3, <4>4
    <3>2. QED
      BY <3>1
  <2>3. task'.at = task.at + 1 /\ task'.op = "commit"
    BY <1>1, <2>1
  <2>4. CommitMatchesFlash'
    BY <1>1, <2>1, <2>2, <2>3
    DEF UpdateInv, CommitMatchesFlash, FieldValue, RamManifest, Prefix
  <2>5. QED
    BY <1>1, <1>4, <2>3, <2>4 DEF UpdateInv, EraseProgress, SessionMatchesFlash
<1>6. CASE task.at = 5
  <2>1. task' = Idle /\ ~ram'.updating
    BY <1>6 DEF CommitField, TypeOK, RamType
  <2>2. QED
    BY <1>1, <1>4, <2>1 DEF UpdateInv, EraseProgress, SessionMatchesFlash, CommitMatchesFlash, Idle
<1>7. QED
  BY <1>1, <1>5, <1>6

(* Losing power at any of these points leaves no false commit behind.       *)
LEMMA PowerLossPreserves ==
  ASSUME TypeOK, UpdateInv, PowerLoss
  PROVE  UpdateInv'
<1>1. task' = Idle /\ ~ram'.updating
  BY DEF PowerLoss, ColdRam
<1>2. CommittedImageIntact'
  <2>1. CASE UNCHANGED <<app, meta>>
    BY <2>1 DEF UpdateInv, CommittedImageIntact, MetaComplete, MetaManifest, Prefix
  <2>2. CASE task.op = "erase" /\ meta' \in {[f \in DOMAIN meta |-> Garbage], BlankMeta}
    BY <2>2 DEF TypeOK, MetaType, BlankMeta, MetaComplete, CommittedImageIntact
  <2>3. CASE meta' = meta /\ (task.op = "program" \/ (task.op = "erase" /\ task.at > 4))
    <3>1. meta' = BlankMeta
      BY <2>3 DEF UpdateInv, EraseProgress, SessionMatchesFlash
    <3>2. QED
      BY <3>1 DEF BlankMeta, MetaComplete, CommittedImageIntact
  <2>4. CASE /\ task.op = "commit" /\ app' = app
             /\ \E f \in {FieldNames[task.at]} : \E c \in {Garbage, FieldValue(f)} :
                  meta' = [meta EXCEPT ![f] = c]
    <3>1. PICK c \in {FieldValue(FieldNames[task.at]), Garbage} :
            meta' = [meta EXCEPT ![FieldNames[task.at]] = c]
      BY <2>4
    <3>2. QED
      BY <2>4, <3>1, FieldCommits
  <2>5. QED
    BY <2>1, <2>2, <2>3, <2>4 DEF PowerLoss, Interrupted
<1>3. QED
  BY <1>1, <1>2 DEF UpdateInv, EraseProgress, SessionMatchesFlash, CommitMatchesFlash, Idle

LEMMA UpdateStep ==
  ASSUME TypeOK, UpdateInv, [Next]_vars
  PROVE  UpdateInv'
<1>1. mode # "boot" => task = Idle
  BY DEF UpdateInv
<1>2. CASE \/ HandleHello \/ HandleBeginShort \/ HandleDataState \/ HandleDataRange
           \/ HandleEndState \/ HandleUnsupported \/ HandleCorrupt \/ AppStep
           \/ LoseFrame \/ ClientSends \/ UNCHANGED vars
  BY <1>1, <1>2, UpdateFrame
  DEF HandleHello, HandleBeginShort, HandleDataState, HandleDataRange, HandleEndState,
      HandleUnsupported, HandleCorrupt, AppStep, AppEnter, AppInfo, AppUnsupported, LoseFrame,
      ClientSends, vars
<1>3. CASE HandleBeginRange
  <2>1. ram' = [ram EXCEPT !.size = Head(inbox).man.size, !.version = Head(inbox).man.version,
                           !.crc = Head(inbox).man.crc]
    BY <1>3 DEF HandleBeginRange, LoadManifest
  <2>2. /\ ram'.size \notin 1 .. AppBlocks /\ ram'.updating = ram.updating
        /\ ram'.open = ram.open /\ ram'.hashed = ram.hashed /\ ram'.next = ram.next
        /\ ram'.bound = ram.bound
    BY <1>3, <2>1 DEF HandleBeginRange, TypeOK, RamType
  <2>3. task = Idle /\ UNCHANGED <<mode, app, meta, task>>
    BY <1>3 DEF HandleBeginRange
  <2>4. SessionMatchesFlash'
    BY <2>2, <2>3 DEF UpdateInv, SessionMatchesFlash, Idle
  <2>5. QED
    BY <2>3, <2>4 DEF UpdateInv, EraseProgress, CommitMatchesFlash, CommittedImageIntact,
       MetaComplete, MetaManifest, Prefix, Idle
<1>4. CASE HandleEndAuth \/ HandleAbort
  <2>1. ~ram'.updating /\ task' = Idle /\ UNCHANGED <<app, meta>>
    BY <1>4 DEF HandleEndAuth, HandleAbort, TypeOK, RamType
  <2>2. QED
    BY <2>1, UpdateNoSession
<1>5. CASE HandleBoot
  <2>1. task' = Idle /\ UNCHANGED <<app, meta, task>>
    BY <1>5 DEF HandleBoot
  <2>2. CASE UNCHANGED ram
    BY <2>1, <2>2, UpdateFrame
  <2>3. CASE ram' = ColdRam
    BY <2>1, <2>3, UpdateNoSession DEF ColdRam
  <2>4. QED
    BY <1>5, <2>2, <2>3 DEF HandleBoot
<1>6. CASE Start
  BY <1>1, <1>6, UpdateNoSession DEF Start, ColdRam
<1>7. QED
  BY <1>2, <1>3, <1>4, <1>5, <1>6, BeginPreserves, ErasePreserves, DataPreserves,
     FirstPartPreserves, RestPreserves, EndPreserves, CommitPreserves, PowerLossPreserves
  DEF Next, BootStep, FaultStep

(* A complete metadata record describes the image that is on the flash,     *)
(* wherever power was lost (BEGIN, DATA and END together), as long as the   *)
(* flash reports no errors.                                                 *)
THEOREM CommitSafety == Spec => []CommittedImageIntact
<1>1. TypeOK /\ UpdateInv /\ [Next]_vars => UpdateInv'
  BY UpdateStep
<1>2. UpdateInv => CommittedImageIntact
  BY DEF UpdateInv
<1>3. QED
  BY <1>1, <1>2, UpdateInvInit, TypeCorrect, WornCoversSpec, PTL DEF Spec

(* While the flash reports no errors, the application region is changed     *)
(* only under metadata that claims no image (BEGIN's order of erasing).     *)
THEOREM EraseOrder == Spec => AppChangesOnlyUnmarked
<1>1. ASSUME TypeOK, UpdateInv, [Next]_vars, app' # app
      PROVE  meta.magic # Magic
  <2>1. CASE EraseSector \/ ProgramFirstPart \/ ProgramRest
    <3>1. meta = BlankMeta
      BY <1>1, <2>1, EraseTask DEF EraseSector, ProgramFirstPart, ProgramRest, UpdateInv,
         EraseProgress, SessionMatchesFlash
    <3>2. QED
      BY <3>1, EncodingAssumption DEF BlankMeta
  <2>2. CASE PowerLoss
    <3>1. task.op = "program" \/ (task.op = "erase" /\ task.at > 4)
      BY <1>1, <2>2 DEF PowerLoss, Interrupted
    <3>2. meta = BlankMeta
      BY <1>1, <3>1 DEF UpdateInv, EraseProgress, SessionMatchesFlash
    <3>3. QED
      BY <3>2, EncodingAssumption DEF BlankMeta
  <2>3. CASE ~(EraseSector \/ ProgramFirstPart \/ ProgramRest \/ PowerLoss)
    BY <1>1, <2>3 DEF Next, BootStep, AppStep, FaultStep, HandleHello, HandleBeginShort,
      HandleBeginRange, HandleBegin, HandleDataState, HandleDataRange, HandleData,
      HandleEndState, HandleEndAuth, HandleEnd, CommitField, HandleAbort, HandleBoot,
      HandleUnsupported, Start, AppEnter, AppInfo, AppUnsupported, LoseFrame, HandleCorrupt,
      ClientSends, vars
  <2>4. QED
    BY <2>1, <2>2, <2>3
<1>2. TypeOK /\ UpdateInv /\ [Next]_vars => UpdateInv'
  BY UpdateStep
<1>3. TypeOK /\ UpdateInv /\ [Next]_vars => [app' # app => meta.magic # Magic]_vars
  BY <1>1
<1>4. QED
  BY <1>2, <1>3, UpdateInvInit, TypeCorrect, WornCoversSpec, PTL DEF Spec, AppChangesOnlyUnmarked

-----------------------------------------------------------------------------
(* Nothing but a loss of power leaves contents undefined.                   *)

(* No value that is programmed is the mark of undefined contents.           *)
LEMMA NoGarbage ==
  /\ Erased # Garbage
  /\ \A b \in Blocks : b # Garbage /\ Torn(b) # Garbage
BY EncodingAssumption

(* What END commits is no garbage: the digest is that of a manifest.        *)
LEMMA CommitsNoGarbage ==
  ASSUME TypeOK, UpdateInv, task.op = "commit", NEW f \in DOMAIN meta
  PROVE  FieldValue(f) # Garbage
<1>1. f \in {"magic", "size", "version", "crc", "hmac"}
  BY DEF TypeOK, MetaType
<1>2. /\ ram.size \in Sizes /\ ram.version \in Versions \cup {Erased}
      /\ ram.crc \in Checksums \cup {Erased}
  BY DEF TypeOK, RamType
<1>3. Garbage \notin Sizes \cup Versions \cup Checksums \cup {Magic, Erased}
  BY EncodingAssumption
<1>4. ram.hmac # Garbage
  <2>1. ram.size \in 1 .. AppBlocks /\ Hmac(RamManifest, Prefix(ram.size)) = ram.hmac
    BY DEF UpdateInv, CommitMatchesFlash
  <2>2. Prefix(ram.size) \in Seq(Cells)
    BY <2>1, PrefixType
  <2>3. RamManifest \in [size : Sizes, version : Versions \cup {Erased, Garbage},
                         crc : Checksums \cup {Erased, Garbage}]
    BY <1>2 DEF RamManifest
  <2>4. ram.hmac \in [man : [size : Sizes, version : Versions \cup {Erased, Garbage},
                             crc : Checksums \cup {Erased, Garbage}],
                      data : Seq(Cells)]
    BY <2>1, <2>2, <2>3 DEF Hmac
  <2>5. QED
    BY <2>4, EncodingAssumption
<1>5. QED
  BY <1>1, <1>2, <1>3, <1>4 DEF FieldValue

LEMMA NewCells ==
  ASSUME TypeOK, \A i \in AppIndex : app'[i] = app[i] \/ app'[i] # Garbage
  PROVE  GarbageCells' \subseteq GarbageCells
BY DEF GarbageCells

LEMMA NewFields ==
  ASSUME DOMAIN meta' = DOMAIN meta, \A f \in DOMAIN meta : meta'[f] = meta[f] \/ meta'[f] # Garbage
  PROVE  GarbageFields' \subseteq GarbageFields
BY DEF GarbageFields

LEMMA SameFlash == UNCHANGED flash => GarbageCells' = GarbageCells /\ GarbageFields' = GarbageFields
BY DEF GarbageCells, GarbageFields, flash

LEMMA FlashStep ==
  ASSUME TypeOK, UpdateInv, EraseSector \/ ProgramFirstPart \/ ProgramRest \/ CommitField
  PROVE  GarbageCells' \subseteq GarbageCells /\ GarbageFields' \subseteq GarbageFields
<1>0. DOMAIN meta = {"magic", "size", "version", "crc", "hmac"} /\ app \in [AppIndex -> Cells]
  BY DEF TypeOK, MetaType
<1>1. CASE EraseSector
  <2>1. \A i \in AppIndex : app'[i] = app[i] \/ app'[i] # Garbage
    BY <1>0, <1>1, NoGarbage DEF EraseSector
  <2>2. DOMAIN meta' = DOMAIN meta /\ \A f \in DOMAIN meta : meta'[f] = meta[f] \/ meta'[f] # Garbage
    BY <1>0, <1>1, NoGarbage DEF EraseSector, BlankMeta
  <2>3. QED
    BY <2>1, <2>2, NewCells, NewFields
<1>2. CASE ProgramFirstPart \/ ProgramRest
  <2>1. task.req.block \in Blocks /\ meta' = meta
    BY <1>2, ProgramTask DEF ProgramFirstPart, ProgramRest
  <2>2. \A i \in AppIndex : i = ram.next =>
          app[i] = Erased \/ (task.at = 1 /\ app[i] = Torn(task.req.block))
    BY <1>2 DEF ProgramFirstPart, ProgramRest, UpdateInv, SessionMatchesFlash
  <2>3. \A i \in AppIndex : app'[i] = app[i] \/ app'[i] # Garbage
    <3>1. CASE ProgramFirstPart
      BY <1>0, <2>1, <2>2, <3>1, NoGarbage DEF ProgramFirstPart, WriteCell, TornBy
    <3>2. CASE ProgramRest
      BY <1>0, <2>1, <2>2, <3>2, NoGarbage DEF ProgramRest, WriteCell, Programmed
    <3>3. QED
      BY <1>2, <3>1, <3>2
  <2>4. QED
    BY <2>1, <2>3, NewCells, NewFields
<1>3. CASE CommitField
  <2>1. task \in [op : {"commit"}, at : 1 .. 5, req : PlainFrames]
    BY <1>3, CommitTask DEF CommitField
  <2> DEFINE g == FieldNames[task.at]
  <2>2. g \in DOMAIN meta /\ meta[g] = Erased
    BY <1>0, <2>1 DEF FieldNames, UpdateInv, CommitMatchesFlash
  <2>3. meta' = [meta EXCEPT ![g] = FieldValue(g)] /\ app' = app
    BY <1>3, <2>2 DEF CommitField
  <2>4. FieldValue(g) # Garbage
    BY <2>1, <2>2, CommitsNoGarbage
  <2> HIDE DEF g
  <2>5. DOMAIN meta' = DOMAIN meta /\ \A f \in DOMAIN meta : meta'[f] = meta[f] \/ meta'[f] # Garbage
    BY <2>2, <2>3, <2>4 DEF TypeOK, MetaType
  <2>6. QED
    BY <2>3, <2>5, NewCells, NewFields
<1>4. QED
  BY <1>1, <1>2, <1>3

(* Every block and every field is programmed once between two erases, by    *)
(* BEGIN, DATA and END together: flash contents become undefined only when  *)
(* power is lost, if the flash reports no errors.                           *)
THEOREM ProgrammedOnce == Spec => NoOverprogramming
<1>1. ASSUME TypeOK, UpdateInv, [Next]_vars, mode' # "off"
      PROVE  GarbageCells' \subseteq GarbageCells /\ GarbageFields' \subseteq GarbageFields
  <2>1. CASE EraseSector \/ ProgramFirstPart \/ ProgramRest \/ CommitField
    BY <1>1, <2>1, FlashStep
  <2>2. CASE PowerLoss
    BY <1>1, <2>2 DEF PowerLoss
  <2>3. CASE ~(EraseSector \/ ProgramFirstPart \/ ProgramRest \/ CommitField \/ PowerLoss)
    <3>1. UNCHANGED flash
      BY <1>1, <2>3 DEF Next, BootStep, AppStep, FaultStep, HandleHello, HandleBeginShort,
        HandleBeginRange, HandleBegin, HandleDataState, HandleDataRange, HandleData,
        HandleEndState, HandleEndAuth, HandleEnd, HandleAbort, HandleBoot,
        HandleUnsupported, Start, AppEnter, AppInfo, AppUnsupported, LoseFrame, HandleCorrupt,
        ClientSends, flash, vars
    <3>2. QED
      BY <3>1, SameFlash
  <2>4. QED
    BY <2>1, <2>2, <2>3
<1>2. TypeOK /\ UpdateInv /\ [Next]_vars => UpdateInv'
  BY UpdateStep
<1>3. TypeOK /\ UpdateInv /\ [Next]_vars =>
        [mode' # "off" => /\ GarbageCells' \subseteq GarbageCells
                          /\ GarbageFields' \subseteq GarbageFields]_vars
  BY <1>1
<1>4. QED
  BY <1>2, <1>3, UpdateInvInit, TypeCorrect, WornCoversSpec, PTL DEF Spec, NoOverprogramming

-----------------------------------------------------------------------------
(* Refinement of OtaInstall.  Flash errors are allowed here: an error never *)
(* leaves a session open over a complete record.                            *)

LEMMA UncommittedInit == Init => UncommittedInv
BY DEF Init, UncommittedInv, ColdRam, Idle

LEMMA UncommittedStep == TypeOK /\ UncommittedInv /\ [WornNext]_vars => UncommittedInv'
<1> SUFFICES ASSUME TypeOK, UncommittedInv, [WornNext]_vars
             PROVE  UncommittedInv'
  OBVIOUS
<1> USE DEF UncommittedInv, Uncommitted
<1>1. CASE \/ HandleHello \/ HandleBeginShort \/ HandleDataState \/ HandleDataRange
           \/ HandleEndState \/ HandleUnsupported \/ HandleCorrupt \/ AppStep
           \/ LoseFrame \/ ClientSends \/ UNCHANGED vars
  BY <1>1
  DEF HandleHello, HandleBeginShort, HandleDataState, HandleDataRange, HandleEndState,
      HandleUnsupported, HandleCorrupt, AppStep, AppEnter, AppInfo, AppUnsupported, LoseFrame,
      ClientSends, vars
<1>2. CASE HandleBeginRange \/ HandleBegin
  <2>1. ram'.updating = ram.updating /\ UNCHANGED <<mode, meta>> /\ mode = "boot"
    BY <1>2 DEF HandleBeginRange, HandleBegin, LoadManifest, TypeOK, RamType
  <2>2. task' = Idle \/ (task'.op = "erase" /\ task'.at = 4)
    BY <1>2 DEF HandleBeginRange, HandleBegin, Task
  <2>3. QED
    BY <2>1, <2>2 DEF Idle
<1>3. CASE EraseSector
  <2>1. task \in [op : {"erase"}, at : 4 .. 7, req : BeginFrames] /\ mode' = "boot"
    BY <1>3, EraseTask DEF EraseSector
  <2>2. meta'.hmac \in {Erased, Garbage}
    BY <1>3, <2>1 DEF EraseSector, BlankMeta
  <2>3. task'.op \in {"erase", "idle"}
    BY <1>3, <2>1 DEF EraseSector, Idle
  <2>4. QED
    BY <2>1, <2>2, <2>3
<1>4. CASE HandleData \/ HandleEnd \/ HandleEndAuth \/ HandleAbort
  <2>1. ram'.updating => ram.updating
    BY <1>4 DEF HandleData, HandleEnd, HandleEndAuth, HandleAbort, TypeOK, RamType
  <2>2. \/ task' = Idle
        \/ task'.op \in {"program", "commit"} /\ ram'.updating
    BY <1>4 DEF HandleData, HandleEnd, HandleEndAuth, HandleAbort, Task, TypeOK, RamType
  <2>3. UNCHANGED <<mode, meta>> /\ mode = "boot"
    BY <1>4 DEF HandleData, HandleEnd, HandleEndAuth, HandleAbort
  <2>4. QED
    BY <2>1, <2>2, <2>3 DEF Idle
<1>5. CASE ProgramFirstPart
  BY <1>5, ProgramTask DEF ProgramFirstPart
<1>6. CASE ProgramRest
  <2>1. ram'.updating = ram.updating
    BY <1>6 DEF ProgramRest, TypeOK, RamType
  <2>2. QED
    BY <1>6, <2>1 DEF ProgramRest, Idle
<1>7. CASE CommitField
  <2>1. task \in [op : {"commit"}, at : 1 .. 5, req : PlainFrames] /\ mode' = "boot"
    BY <1>7, CommitTask DEF CommitField
  <2>2. CASE task.at < 5
    <3>1. FieldNames[task.at] # "hmac"
      BY <2>1, <2>2 DEF FieldNames
    <3>2. \E c : meta' = [meta EXCEPT ![FieldNames[task.at]] = c]
      BY <1>7 DEF CommitField
    <3>3. meta'.hmac = meta.hmac
      BY <3>1, <3>2 DEF TypeOK, MetaType
    <3>4. task'.op = "commit" /\ UNCHANGED ram
      BY <1>7, <2>1, <2>2 DEF CommitField
    <3>5. QED
      BY <2>1, <3>3, <3>4
  <2>3. CASE task.at = 5
    BY <1>7, <2>1, <2>3 DEF CommitField, TypeOK, RamType, Idle
  <2>4. QED
    BY <2>1, <2>2, <2>3
<1>8. CASE HandleBoot \/ Start \/ PowerLoss
  BY <1>8 DEF HandleBoot, Start, PowerLoss, ColdRam, Idle
<1>9. CASE FlashError
  BY <1>9 DEF FlashError, Idle
<1>10. QED
  BY <1>1, <1>2, <1>3, <1>4, <1>5, <1>6, <1>7, <1>8, <1>9 DEF WornNext, Next, BootStep, FaultStep

LEMMA UncommittedInvalid ==
  ASSUME TypeOK, Uncommitted
  PROVE  ~MetadataValid
<1> SUFFICES ASSUME MetadataValid PROVE FALSE
  OBVIOUS
<1>1. meta.size \in 1 .. AppBlocks /\ meta.size \in Sizes
  BY GeometryAssumption DEF MetadataValid, Sizes
<1>2. Prefix(meta.size) \in Seq(Cells)
  BY <1>1, PrefixType, GeometryAssumption
<1>3. MetaManifest \in [size : Sizes, version : Versions \cup {Erased, Garbage},
                        crc : Checksums \cup {Erased, Garbage}]
  BY <1>1 DEF TypeOK, MetaType, MetaManifest
<1>4. QED
  BY <1>2, <1>3, EncodingAssumption DEF MetadataValid, Uncommitted, Hmac

(* An image is installed exactly if MetadataValid says so.                  *)
LEMMA InstalledType ==
  ASSUME TypeOK
  PROVE  /\ MetadataValid => InstalledImage \in Signed
         /\ InstalledImage # NoDigest <=> MetadataValid
<1>1. NoDigest \notin Signed
  <2>1. ASSUME NEW p \in Signed PROVE p # NoDigest
    <3>1. p \in [man : Manifest, data : Seq(Blocks)]
      BY SigningAssumption
    <3>2. p \in [man : [size : Sizes, version : Versions \cup {Erased, Garbage},
                        crc : Checksums \cup {Erased, Garbage}], data : Seq(Cells)]
      BY <3>1 DEF Manifest, Cells
    <3>3. QED
      BY <3>2, EncodingAssumption
  <2>2. QED
    BY <2>1
<1>2. ASSUME MetadataValid PROVE InstalledImage \in Signed
  <2>1. \E p \in Signed : p.man = MetaManifest /\ p.data = Prefix(meta.size)
    <3>1. PICK p \in Signed : MetaManifest = p.man /\ Prefix(p.man.size) = p.data
      BY <1>2, ValidIsSigned
    <3>2. p.man.size = meta.size
      BY <3>1 DEF MetaManifest
    <3>3. QED
      BY <3>1, <3>2
  <2>2. QED
    BY <1>2, <2>1 DEF InstalledImage
<1>3. QED
  BY <1>1, <1>2 DEF InstalledImage

LEMMA SameFlashSameImage ==
  ASSUME UNCHANGED <<app, meta>>
  PROVE  InstalledImage' = InstalledImage /\ MetadataValid' = MetadataValid
BY DEF InstalledImage, MetadataValid, MetaManifest, Prefix

(* A step of the bootloader is a step of the device or invisible.           *)
LEMMA DeviceStep ==
  ASSUME TypeOK, UncommittedInv, AppIsValid, TypeOK', AppIsValid', [WornNext]_vars
  PROVE  [Device!Next]_<<InstalledImage, RunningImage>>
<1>1. CASE UNCHANGED <<app, meta>>
  <2>1. InstalledImage' = InstalledImage
    BY <1>1, SameFlashSameImage
  <2>2. InstalledImage # NoDigest <=> MetadataValid
    BY InstalledType
  <2>3. mode = "app" \/ mode' = "app" => MetadataValid
    BY <1>1, SameFlashSameImage DEF AppIsValid
  <2>4. QED
    BY <1>1, <2>1, <2>2, <2>3, SameFlashSameImage DEF RunningImage, Device!Next, Device!Boot, Device!Stop
<1>2. CASE ~UNCHANGED <<app, meta>>
  <2>1. EraseSector \/ ProgramFirstPart \/ ProgramRest \/ CommitField \/ PowerLoss
    BY <1>2 DEF WornNext, Next, BootStep, AppStep, FaultStep, HandleHello, HandleBeginShort,
      HandleBeginRange, HandleBegin, HandleDataState, HandleDataRange, HandleData,
      HandleEndState, HandleEndAuth, HandleEnd, HandleAbort, HandleBoot,
      HandleUnsupported, Start, AppEnter, AppInfo, AppUnsupported, LoseFrame,
      HandleCorrupt, FlashError, ClientSends, vars
  <2>2. mode = "boot" /\ mode' # "app"
    BY <1>2, <2>1 DEF EraseSector, ProgramFirstPart, ProgramRest, CommitField,
      PowerLoss, Interrupted, UncommittedInv, Idle
  <2>3. RunningImage = NoDigest /\ RunningImage' = NoDigest
    BY <2>2 DEF RunningImage
  <2>4. ~MetadataValid \/ ~MetadataValid'
    <3>1. CASE ram.updating
      BY <3>1, UncommittedInvalid DEF UncommittedInv
    <3>2. CASE task.op = "erase" /\ task.at > 4
      BY <3>2, UncommittedInvalid DEF UncommittedInv
    <3>3. CASE task.op = "erase" /\ task.at = 4
      <4>1. meta'.hmac \in {Erased, Garbage} 
        BY <1>2, <2>1, <3>3 DEF EraseSector, ProgramFirstPart, ProgramRest, CommitField,
          PowerLoss, Interrupted, BlankMeta, TypeOK, MetaType
      <4>2. Uncommitted'
        BY <4>1 DEF Uncommitted
      <4>3. TypeOK /\ Uncommitted => ~MetadataValid
        BY UncommittedInvalid
      <4>4. (TypeOK /\ Uncommitted => ~MetadataValid)'
        BY UncommittedInvalid, PTL
      <4>5. QED
        BY <4>2, <4>4
    <3>4. task.op \in {"erase", "program", "commit"}
      BY <1>2, <2>1 DEF EraseSector, ProgramFirstPart, ProgramRest, CommitField,
        PowerLoss, Interrupted
    <3>5. task.op = "erase" => task.at \in 4 .. 7
      BY EraseTask
    <3>6. QED
      BY <3>1, <3>2, <3>3, <3>4, <3>5 DEF UncommittedInv
  <2>5. /\ InstalledImage # NoDigest <=> MetadataValid
        /\ InstalledImage' # NoDigest <=> MetadataValid'
        /\ MetadataValid' => InstalledImage' \in Signed
    <3>1. TypeOK => /\ MetadataValid => InstalledImage \in Signed
                    /\ InstalledImage # NoDigest <=> MetadataValid
      BY InstalledType
    <3>2. (TypeOK => /\ MetadataValid => InstalledImage \in Signed
                     /\ InstalledImage # NoDigest <=> MetadataValid)'
      BY InstalledType, PTL
    <3>3. QED
      BY <3>1, <3>2
  <2>6. QED
    BY <2>3, <2>4, <2>5 DEF Device!Next, Device!Discard, Device!Install
<1>3. QED
  BY <1>1, <1>2

(* The bootloader, over any client, wire and power supply, flash errors     *)
(* included, implements the device of OtaInstall.                           *)
THEOREM Refinement == WornSpec => Refines
<1>1. Init => Device!Init
  BY EncodingAssumption
  DEF Init, Device!Init, InstalledImage, RunningImage, MetadataValid, BlankMeta
<1>2. Init => AppIsValid
  BY DEF Init, AppIsValid
<1>3. QED
  BY <1>1, <1>2, DeviceStep, TypeCorrect, AppIsValidStep, UncommittedInit, UncommittedStep, PTL
  DEF WornSpec, Refines, Device!Spec
=============================================================================
