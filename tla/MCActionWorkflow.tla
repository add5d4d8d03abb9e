-------------------------- MODULE MCActionWorkflow --------------------------
(* Two agents, one of which cannot handle action 3, so that two agents     *)
(* compete for one action and one of them can own several.                 *)
EXTENDS ActionWorkflow, TLC
CONSTANTS g1, g2

BothEligible == (g1 :> {1, 2, 3}) @@ (g2 :> {1, 2})
=============================================================================
