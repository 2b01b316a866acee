----------------------------- MODULE MCToolChain -----------------------------
(* Tasks of one session; the budgets bound their tool calls.               *)
EXTENDS ToolChain, TLC
CONSTANTS t1, t2, s1
MCSessionOf == (t1 :> s1) @@ (t2 :> s1)
MCOneEach == (t1 :> 1) @@ (t2 :> 1)
MCOneTask == (t1 :> 2) @@ (t2 :> 0)
=============================================================================
