----------------------------- MODULE OtaInstall -----------------------------
(***************************************************************************)
(* What the boot chain promises, without frames, flash or power: at any    *)
(* time the device holds one complete signed image or none; an update      *)
(* first gives up the old image and then installs the new one in a single  *)
(* step, while nothing runs; only the installed image ever runs, and it is *)
(* never changed under way.                                                *)
(***************************************************************************)
CONSTANTS Images, None

VARIABLES installed, running

Init == installed = None /\ running = None

Discard == /\ running = None /\ installed # None
           /\ installed' = None /\ UNCHANGED running
Install == /\ running = None /\ installed = None
           /\ installed' \in Images /\ UNCHANGED running
Boot    == /\ running = None /\ installed # None
           /\ running' = installed /\ UNCHANGED installed
Stop    == /\ running # None
           /\ running' = None /\ UNCHANGED installed

Next == Discard \/ Install \/ Boot \/ Stop
Spec == Init /\ [][Next]_<<installed, running>>
=============================================================================
