------------------------------ MODULE MCRaspiRx ------------------------------
(* A frame long enough to cover a short one, a ring shorter than a frame. *)
EXTENDS RaspiRx, TLC
MCSize == <<4, 3, 3>>
=============================================================================
