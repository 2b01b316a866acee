--------------------------- MODULE MCMotionControl ---------------------------
(* A car with the speeds -2 .. 2 at most.  The timing runs: the sticks are  *)
(* centred, with a button held or not, or push forward; the host asks for   *)
(* forward motion, a forward turn, a stop, or sends an unknown mode.  The   *)
(* obstacle runs: sticks and host push forward, with and without a turn,    *)
(* or backward.                                                             *)
EXTENDS MotionControl

MCOutputScale == [s \in Sides |-> 1000]
MCUnequalScale == [s \in Sides |-> IF s = "left" THEN 700 ELSE 1000]

Report(f, t, x) == [connected |-> TRUE, forward |-> f, turn |-> t, touched |-> x]
MCPlainReports    == {Centred, Report(0, 0, FALSE), Report(4, 0, TRUE)}
MCObstacleReports == {Report(4, 5, TRUE)}

Frame(k, f, t) == [kind |-> k, forward |-> f, turn |-> t]
MCHostFrames == {Frame("go", 2, 0), Frame("go", 2, 2000), Frame("stop", 0, 0), Frame("bad", 0, 0)}
MCGoFrames   == {Frame("go", 2, 0), Frame("go", 2, 2000)}
=============================================================================
