SPECIFICATION FairUpdateSpec
CONSTANTS
  a = a
  b = b
  Blocks = {a, b}
  VectorBlocks = {a}
  AppBlocks = 2
  SectorOf <- MCSectorOf
  Versions = {1}
  Crc32 <- MCCrc32
  Checksums = {0, 1}
  Signed <- MCSigned
  Seqs = {0, 1, 2, 3}
  Erased = Erased
  Garbage = Garbage
  Magic = Magic
  NoDigest = NoDigest
  Targets <- MCTargets
  DataTries = 2
  Polls = 1
  FinalSeq = 0
  MaxFaults = 3
  MaxRuns = 8
INVARIANTS EndMeansInstalled AcknowledgedBlocksOnFlash
PROPERTIES EventuallyTargetRuns Refines
CHECK_DEADLOCK FALSE
