SPECIFICATION Spec
CONSTANTS
  a = a
  b = b
  Blocks = {a, b}
  VectorBlocks = {a}
  AppBlocks = 2
  SectorOf <- MCSectorOf
  Versions = {1}
  Crc32 <- MCCrc32
  Checksums = {0, 1}
  Signed <- MCSigned
  Seqs = {0}
  Erased = Erased
  Garbage = Garbage
  Magic = Magic
  NoDigest = NoDigest
INVARIANTS BootsSignedImage CommittedImageIntact
PROPERTIES AppChangesOnlyUnmarked NoOverprogramming
