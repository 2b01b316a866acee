---------------------------- MODULE MCAgentGateway ----------------------------
(* Five callers: two requests of one session, the first called twice, and a *)
(* request of another session that is retried in the first; the cache holds *)
(* two responses.                                                           *)
EXTENDS AgentGateway, TLC
CONSTANTS c1, c2, c3, c4, c5, r1, r2, r3, s1, s2
MCRequestOf == (c1 :> r1) @@ (c2 :> r1) @@ (c3 :> r2) @@ (c4 :> r3) @@ (c5 :> r3)
MCSessionOf == (c1 :> s1) @@ (c2 :> s1) @@ (c3 :> s1) @@ (c4 :> s2) @@ (c5 :> s1)
=============================================================================
