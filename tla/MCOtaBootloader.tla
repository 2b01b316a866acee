--------------------------- MODULE MCOtaBootloader ---------------------------
(* A small device: two application blocks in two sectors; "a" may start an  *)
(* image, "b" may not.  Three signed images: a bootable one of two blocks,  *)
(* a bootable one of one block, one linked for another address.             *)
EXTENDS OtaBootloader, TLC

CONSTANTS a, b

MCSectorOf == [i \in AppIndex |-> 5 + i]
MCCrc32(data) == Len(data) % 2
MCSigned == {[man |-> [size |-> 2, version |-> 1, crc |-> 0], data |-> <<a, b>>],
             [man |-> [size |-> 1, version |-> 1, crc |-> 1], data |-> <<a>>],
             [man |-> [size |-> 1, version |-> 1, crc |-> 1], data |-> <<b>>]}
=============================================================================
