--------------------------- MODULE ActionLifecycle --------------------------
(***************************************************************************)
(* What the workflow promises of an action, whoever asks and however often *)
(* it is asked (ActionStatus and the transitions of ActionStore): it is    *)
(* claimed by one eligible agent, started by that agent and finished by    *)
(* that agent with one outcome.                                            *)
(***************************************************************************)
CONSTANTS Actions, Agents, Eligible, Outcomes, NoAgent

VARIABLES status, claimedBy
vars == <<status, claimedBy>>

Init ==
  /\ status = [a \in Actions |-> "none"]
  /\ claimedBy = [a \in Actions |-> NoAgent]

Move(a, old, new) == status[a] = old /\ status' = [status EXCEPT ![a] = new]

Create(a) == Move(a, "none", "pending") /\ UNCHANGED claimedBy

Claim(g, a) ==
  /\ a \in Eligible[g]
  /\ claimedBy[a] = NoAgent
  /\ Move(a, "pending", "claimed")
  /\ claimedBy' = [claimedBy EXCEPT ![a] = g]

Start(g, a) ==
  claimedBy[a] = g /\ Move(a, "claimed", "running") /\ UNCHANGED claimedBy

Finish(g, a, s) ==
  claimedBy[a] = g /\ Move(a, "running", s) /\ UNCHANGED claimedBy

Next ==
  \E a \in Actions :
    \/ Create(a)
    \/ \E g \in Agents : \/ Claim(g, a) \/ Start(g, a)
                          \/ \E s \in Outcomes : Finish(g, a, s)

Spec == Init /\ [][Next]_vars
=============================================================================
