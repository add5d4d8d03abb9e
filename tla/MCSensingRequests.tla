------------------------- MODULE MCSensingRequests --------------------------
(* Two runs of the entrypoint; a second step for another agent, with two   *)
(* ids for it, so that one completed action could be given two successors. *)
EXTENDS SensingRequests, TLC
CONSTANTS sensing, other

TwoSteps == (0 :> {1, 2}) @@ (1 :> {3, 4})
ByRole == (sensing :> {1, 2}) @@ (other :> {3, 4})
=============================================================================
