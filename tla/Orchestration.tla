---------------------------- MODULE Orchestration ---------------------------
(***************************************************************************)
(* framework/orchestration: the Orchestrator over the master's ActionStore.*)
(* An orchestration is a definition of Length steps; each released step is *)
(* an action, which the workflow carries to an outcome (ActionLifecycle).  *)
(* The application calls advance for a completed action, as often and from *)
(* as many callers as it likes: the successor is first looked up in the    *)
(* store and created afterwards.                                           *)
(***************************************************************************)
EXTENDS Naturals

CONSTANTS
  Actions,         \* action ids (uuid4 in the code)
  Agents, Eligible, Outcomes, NoAgent,   \* as in ActionLifecycle
  Orchestrations,  \* orchestration ids (uuid4)
  Length,          \* steps of the definition
  StepActions,     \* StepActions[k]: the ids whose target is that of step k
  Callers,         \* callers of advance
  NoOrch

NoAct == 0
Steps == 0 .. Length - 1

(* What the theorems assume of the constants; SensingRequests assumes it.  *)
IdsOK == NoAct \notin Actions /\ NoOrch \notin Orchestrations
LengthOK == Length \in Nat \ {0}
StepActionsOK == StepActions \in [Steps -> SUBSET Actions]
OutcomesOK == "none" \notin Outcomes
ConstantsOK == IdsOK /\ LengthOK /\ StepActionsOK /\ OutcomesOK

VARIABLES
  status, claimedBy,  \* the ActionStore, as in ActionLifecycle
  origin,             \* the orchestration metadata of every action
  advancing,          \* a caller past the lookup: the completed action, or NoAct
  overlapped          \* completed actions advanced by two callers at once
vars == <<status, claimedBy, origin, advancing, overlapped>>

Unreleased == [orch |-> NoOrch, step |-> 0, previous |-> NoAct]
Origin == [orch : Orchestrations \cup {NoOrch}, step : Steps,
           previous : Actions \cup {NoAct}]

Lifecycle == INSTANCE ActionLifecycle

Init ==
  /\ Lifecycle!Init
  /\ origin = [a \in Actions |-> Unreleased]
  /\ advancing = [c \in Callers |-> NoAct]
  /\ overlapped = {}

(* _create_action: a new id, a new pending action and its metadata.        *)
CreateStep(a, o, k, previous) ==
  /\ a \in StepActions[k]
  /\ Lifecycle!Create(a)
  /\ origin' = [origin EXCEPT ![a] = [orch |-> o, step |-> k, previous |-> previous]]

(* start: a new orchestration id, and its first step.                      *)
Start(a, o) ==
  /\ \A b \in Actions : origin[b].orch # o
  /\ CreateStep(a, o, 0, NoAct)
  /\ UNCHANGED <<advancing, overlapped>>

Successors(a) == {b \in Actions : origin[b].previous = a}

(* Slips: the status is not looked at; nor is an earlier successor.        *)
Lookup_AnyStatus(c, a) ==
  /\ advancing[c] = NoAct /\ origin[a].orch # NoOrch
  /\ origin[a].step + 1 < Length /\ Successors(a) = {}
  /\ advancing' = [advancing EXCEPT ![c] = a]
  /\ overlapped' = IF \E d \in Callers : advancing[d] = a
                   THEN overlapped \cup {a} ELSE overlapped
  /\ UNCHANGED <<status, claimedBy, origin>>

Lookup_NoSearch(c, a) ==
  /\ advancing[c] = NoAct /\ status[a] = "completed" /\ origin[a].orch # NoOrch
  /\ origin[a].step + 1 < Length
  /\ advancing' = [advancing EXCEPT ![c] = a]
  /\ overlapped' = IF \E d \in Callers : advancing[d] = a
                   THEN overlapped \cup {a} ELSE overlapped
  /\ UNCHANGED <<status, claimedBy, origin>>

(* advance up to _find_successor.  After the last step, and when there is  *)
(* a successor already, it returns (or, with several, raises) and changes  *)
(* nothing.                                                                *)
Lookup(c, a) ==
  /\ advancing[c] = NoAct /\ status[a] = "completed" /\ origin[a].orch # NoOrch
  /\ origin[a].step + 1 < Length /\ Successors(a) = {}
  /\ advancing' = [advancing EXCEPT ![c] = a]
  /\ overlapped' = IF \E d \in Callers : advancing[d] = a
                   THEN overlapped \cup {a} ELSE overlapped
  /\ UNCHANGED <<status, claimedBy, origin>>

(* advance from there on; ActionStore.save writes the file in one rename.  *)
CreateSuccessor(c, b) ==
  LET a == advancing[c] IN
  /\ a # NoAct
  /\ CreateStep(b, origin[a].orch, origin[a].step + 1, a)
  /\ advancing' = [advancing EXCEPT ![c] = NoAct]
  /\ UNCHANGED overlapped

(* A caller that dies between the two leaves no trace.                     *)
AdvanceDies(c) ==
  /\ advancing[c] # NoAct
  /\ advancing' = [advancing EXCEPT ![c] = NoAct]
  /\ UNCHANGED <<status, claimedBy, origin, overlapped>>

(* The agents work on what was released.                                   *)
Work(a) ==
  /\ \E g \in Agents : \/ Lifecycle!Claim(g, a) \/ Lifecycle!Start(g, a)
                       \/ \E s \in Outcomes : Lifecycle!Finish(g, a, s)
  /\ UNCHANGED <<origin, advancing, overlapped>>

Next ==
  \/ \E a \in Actions : Work(a) \/ \E o \in Orchestrations : Start(a, o)
  \/ \E c \in Callers : \/ AdvanceDies(c)
                        \/ \E a \in Actions : Lookup(c, a) \/ CreateSuccessor(c, a)

Spec == Init /\ [][Next]_vars

-----------------------------------------------------------------------------
TypeOK ==
  /\ origin \in [Actions -> Origin]
  /\ advancing \in [Callers -> Actions \cup {NoAct}]
  /\ overlapped \subseteq Actions
  /\ status \in [Actions -> {"none", "pending", "claimed", "running"} \cup Outcomes]
  /\ claimedBy \in [Actions -> Agents \cup {NoAgent}]

(* Every step after the first belongs to the same orchestration as the     *)
(* action it names as its predecessor, is the step after that one's, and   *)
(* that action is completed, although the status was read from a copy of   *)
(* the action before the successor was written.                            *)
StepsInOrder ==
  \A b \in Actions :
    LET a == origin[b].previous IN
    a # NoAct => /\ status[a] = "completed" /\ origin[a].orch = origin[b].orch
                 /\ origin[b].step = origin[a].step + 1

(* "A completed action may release at most one successor action"           *)
(* (_find_successor), however often advance is repeated and wherever a     *)
(* caller died, as long as no two calls for the same action overlap.       *)
OneSuccessorInTurn ==
  \A a \in Actions \ overlapped : \A b, c \in Successors(a) : b = c

(* What the orchestrations have released and completed follows the         *)
(* sequence of their steps, overlapping calls or not.                      *)
ReleasedSteps ==
  [o \in Orchestrations |-> {origin[a].step : a \in {b \in Actions : origin[b].orch = o}}]
CompletedSteps ==
  [o \in Orchestrations |->
     {origin[a].step : a \in {b \in Actions : origin[b].orch = o /\ status[b] = "completed"}}]
Sequence == INSTANCE StepSequence
              WITH released <- ReleasedSteps, completed <- CompletedSteps
FollowsSequence == Sequence!Spec
=============================================================================
