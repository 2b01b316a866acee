----------------------------- MODULE MCOtaUpdate -----------------------------
(* Two applications, one of two blocks and one of one block, and an image   *)
(* linked for another address ("b" is no vector table).                     *)
EXTENDS OtaUpdate, TLC

CONSTANTS a, b

MCSectorOf == [i \in AppIndex |-> 5 + i]
MCCrc32(data) == Len(data) % 2

Long     == [man |-> [size |-> 2, version |-> 1, crc |-> 0], data |-> <<a, b>>]
Short    == [man |-> [size |-> 1, version |-> 1, crc |-> 1], data |-> <<a>>]
Misplaced == [man |-> [size |-> 1, version |-> 1, crc |-> 1], data |-> <<b>>]
MCSigned  == {Long, Short, Misplaced}
MCTargets == {Long, Short}
=============================================================================
