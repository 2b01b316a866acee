---------------------------- MODULE MCTaskManager ----------------------------
(* Three tasks of two sessions; the first two come from the same session.   *)
EXTENDS TaskManager, TLC
CONSTANTS t1, t2, t3, s1, s2
MCSessionOf == (t1 :> s1) @@ (t2 :> s1) @@ (t3 :> s2)
=============================================================================
