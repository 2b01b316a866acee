---------------------------- MODULE MCWheelSpeed ----------------------------
(* Speeds of at most 3, a ramp of 2 that can skip zero, and a boost of three*)
(* cycles.  The gains move the output by one unit per unit of error and by  *)
(* half a unit per unit of integral.                                        *)
EXTENDS WheelSpeed

MCRequests     == {-3, 0, 3}
MCMeasurements == {-2, 0, 2}
MCOutputScale  == [s \in Sides |-> IF s = "left" THEN 1000 ELSE 500]
=============================================================================
