------------------------- MODULE OrchestrationProofs ------------------------
(* Proofs about Orchestration for every set of actions, agents, callers    *)
(* and orchestrations and every number of steps: types, the order of the   *)
(* steps, one successor, and that the sequence of the steps is followed.   *)
EXTENDS Orchestration, TLAPS

Fresh == \A a \in Actions : status[a] = "none" => origin[a] = Unreleased

(* What a caller carries from the lookup to the creation is still true.    *)
LookupHolds ==
  \A c \in Callers :
    advancing[c] # NoAct =>
      /\ status[advancing[c]] = "completed"
      /\ origin[advancing[c]].orch # NoOrch
      /\ origin[advancing[c]].step + 1 < Length

(* An action no two callers worked on at once has no successor while one   *)
(* of them works on it.                                                    *)
AloneAdvances ==
  \A c \in Callers :
    advancing[c] \in Actions \ overlapped =>
      /\ \A b \in Actions : origin[b].previous # advancing[c]
      /\ \A d \in Callers : advancing[d] = advancing[c] => c = d

IInv == TypeOK /\ Fresh /\ LookupHolds /\ AloneAdvances /\ StepsInOrder /\ OneSuccessorInTurn

-----------------------------------------------------------------------------
(* What a step does to the actions that exist.                             *)

Established ==
  \A a \in Actions : status[a] = "completed" => status'[a] = "completed"

LEMMA WorkEffect ==
  ASSUME ConstantsOK, IInv, NEW a \in Actions, Work(a)
  PROVE  /\ status' \in [Actions -> {"none", "pending", "claimed", "running"} \cup Outcomes]
         /\ claimedBy' \in [Actions -> Agents \cup {NoAgent}]
         /\ Established
         /\ \A b \in Actions \ {a} : status'[b] = status[b]
         /\ status[a] # "none" /\ status'[a] # "none"
         /\ UNCHANGED <<origin, advancing, overlapped>>
<1>1. UNCHANGED <<origin, advancing, overlapped>>
  BY DEF Work
<1>2. PICK g \in Agents : \/ Lifecycle!Claim(g, a) \/ Lifecycle!Start(g, a)
                          \/ \E s \in Outcomes : Lifecycle!Finish(g, a, s)
  BY DEF Work
<1> USE DEF IInv, TypeOK, ConstantsOK, OutcomesOK, Established, Lifecycle!Move
<1>3. CASE Lifecycle!Claim(g, a)
  BY <1>1, <1>3 DEF Lifecycle!Claim
<1>4. CASE Lifecycle!Start(g, a)
  BY <1>1, <1>4 DEF Lifecycle!Start
<1>5. CASE \E s \in Outcomes : Lifecycle!Finish(g, a, s)
  BY <1>1, <1>5 DEF Lifecycle!Finish
<1>. QED
  BY <1>2, <1>3, <1>4, <1>5

LEMMA CreateEffect ==
  ASSUME ConstantsOK, IInv, NEW a \in Actions, NEW o \in Orchestrations \cup {NoOrch},
         NEW k \in Steps, NEW p \in Actions \cup {NoAct}, CreateStep(a, o, k, p)
  PROVE  /\ status' \in [Actions -> {"none", "pending", "claimed", "running"} \cup Outcomes]
         /\ claimedBy' \in [Actions -> Agents \cup {NoAgent}]
         /\ origin' \in [Actions -> Origin]
         /\ Established
         /\ origin[a] = Unreleased
         /\ origin'[a] = [orch |-> o, step |-> k, previous |-> p]
         /\ status[a] = "none" /\ status'[a] = "pending"
         /\ \A b \in Actions \ {a} : status'[b] = status[b] /\ origin'[b] = origin[b]
<1> USE DEF IInv, TypeOK, Fresh, CreateStep, Lifecycle!Create, Lifecycle!Move, Established
<1>1. [orch |-> o, step |-> k, previous |-> p] \in Origin
  BY DEF Origin
<1>. QED
  BY <1>1

-----------------------------------------------------------------------------
LEMMA Initially == ASSUME ConstantsOK, Init PROVE IInv
<1>1. Unreleased \in Origin
  BY DEF Unreleased, Origin, Steps, ConstantsOK, LengthOK
<1> USE DEF Init, Lifecycle!Init, ConstantsOK, IdsOK, Unreleased
<1>2. TypeOK
  BY <1>1 DEF TypeOK
<1>3. Fresh /\ LookupHolds /\ StepsInOrder
  BY DEF Fresh, LookupHolds, StepsInOrder
<1>4. AloneAdvances
  BY DEF AloneAdvances
<1>5. OneSuccessorInTurn
  BY DEF OneSuccessorInTurn, Successors
<1>. QED
  BY <1>2, <1>3, <1>4, <1>5 DEF IInv

LEMMA WorkKeeps == ASSUME ConstantsOK, IInv, NEW a \in Actions, Work(a) PROVE IInv'
<1> USE WorkEffect
<1>2. TypeOK'
  BY DEF IInv, TypeOK
<1>3. Fresh'
  BY DEF IInv, Fresh
<1>4. LookupHolds'
  BY DEF IInv, LookupHolds, TypeOK, Established
<1>5. AloneAdvances'
  BY DEF IInv, AloneAdvances
<1>6. StepsInOrder'
  BY DEF IInv, StepsInOrder, TypeOK, Established, Origin
<1>7. OneSuccessorInTurn'
  BY DEF IInv, OneSuccessorInTurn, Successors
<1>. QED
  BY <1>2, <1>3, <1>4, <1>5, <1>6, <1>7 DEF IInv

LEMMA StartKeeps ==
  ASSUME ConstantsOK, IInv, NEW a \in Actions, NEW o \in Orchestrations, Start(a, o)
  PROVE  IInv'
<1>1. CreateStep(a, o, 0, NoAct) /\ UNCHANGED <<advancing, overlapped>>
  BY DEF Start
<1>2. /\ status' \in [Actions -> {"none", "pending", "claimed", "running"} \cup Outcomes]
      /\ claimedBy' \in [Actions -> Agents \cup {NoAgent}]
      /\ origin' \in [Actions -> Origin]
      /\ Established
      /\ origin[a] = Unreleased
      /\ origin'[a] = [orch |-> o, step |-> 0, previous |-> NoAct]
      /\ status[a] = "none" /\ status'[a] = "pending"
      /\ \A d \in Actions \ {a} : status'[d] = status[d] /\ origin'[d] = origin[d]
  <2>1. 0 \in Steps
    BY DEF Steps, ConstantsOK, LengthOK
  <2>2. NoAct \in Actions \cup {NoAct} /\ o \in Orchestrations \cup {NoOrch}
    OBVIOUS
  <2>. QED
    BY <1>1, <2>1, <2>2, CreateEffect
<1> USE <1>1, <1>2
<1>3. TypeOK'
  BY DEF IInv, TypeOK
<1>4. Fresh'
  BY DEF IInv, Fresh
<1>5. \A d \in Actions : status[d] = "completed" => origin'[d] = origin[d] /\ status'[d] = "completed"
  BY DEF Established
<1>6. LookupHolds'
  BY <1>5 DEF IInv, LookupHolds, TypeOK
<1>7. \A d \in Actions : origin'[d].previous = origin[d].previous
  BY DEF Unreleased
<1>8. AloneAdvances'
  BY <1>7 DEF IInv, AloneAdvances
<1>9. StepsInOrder'
  <2> SUFFICES ASSUME NEW d \in Actions, origin'[d].previous # NoAct
               PROVE  /\ status'[origin'[d].previous] = "completed"
                      /\ origin'[origin'[d].previous].orch = origin'[d].orch
                      /\ origin'[d].step = origin'[origin'[d].previous].step + 1
    BY DEF StepsInOrder
  <2> DEFINE p == origin[d].previous
  <2>1. d # a /\ origin'[d] = origin[d]
    OBVIOUS
  <2>2. p \in Actions /\ status[p] = "completed"
    BY <2>1 DEF IInv, TypeOK, Origin, StepsInOrder
  <2>3. origin'[p] = origin[p] /\ status'[p] = "completed"
    BY <2>2, <1>5
  <2>. QED
    BY <2>1, <2>3 DEF IInv, StepsInOrder
<1>10. OneSuccessorInTurn'
  BY <1>7 DEF IInv, OneSuccessorInTurn, Successors
<1>. QED
  BY <1>3, <1>4, <1>6, <1>8, <1>9, <1>10 DEF IInv

LEMMA LookupKeeps ==
  ASSUME ConstantsOK, IInv, NEW a \in Actions, NEW c \in Callers, Lookup(c, a)
  PROVE  IInv'
<1> USE DEF Lookup
<1>1. advancing[c] = NoAct /\ a # NoAct
  BY DEF ConstantsOK, IdsOK
<1>2. TypeOK'
  BY DEF IInv, TypeOK
<1>3. Fresh'
  BY DEF IInv, Fresh
<1>4. LookupHolds'
  BY DEF IInv, LookupHolds, TypeOK
<1>5. AloneAdvances'
  BY <1>1 DEF IInv, AloneAdvances, TypeOK, Successors
<1>6. StepsInOrder'
  BY DEF IInv, StepsInOrder
<1>7. OneSuccessorInTurn'
  BY DEF IInv, OneSuccessorInTurn, Successors
<1>. QED
  BY <1>2, <1>3, <1>4, <1>5, <1>6, <1>7 DEF IInv

(* The successor that a caller creates is the next step of the same        *)
(* orchestration.                                                          *)
LEMMA SuccessorEffect ==
  ASSUME ConstantsOK, IInv, NEW b \in Actions, NEW c \in Callers, CreateSuccessor(c, b)
  PROVE  /\ advancing[c] \in Actions
         /\ origin[advancing[c]].orch \in Orchestrations
         /\ origin[advancing[c]].step \in Nat
         /\ origin[advancing[c]].step + 1 \in Steps
         /\ status[advancing[c]] = "completed"
         /\ CreateStep(b, origin[advancing[c]].orch, origin[advancing[c]].step + 1, advancing[c])
         /\ advancing' = [advancing EXCEPT ![c] = NoAct]
         /\ overlapped' = overlapped
<1>1. advancing[c] \in Actions
  BY DEF IInv, TypeOK, CreateSuccessor
<1>2. /\ origin[advancing[c]].orch # NoOrch
      /\ origin[advancing[c]].step + 1 < Length
      /\ status[advancing[c]] = "completed"
  BY DEF IInv, LookupHolds, CreateSuccessor
<1>3. origin[advancing[c]] \in Origin
  BY <1>1 DEF IInv, TypeOK
<1>. QED
  BY <1>1, <1>2, <1>3 DEF CreateSuccessor, Origin, Steps, ConstantsOK, LengthOK

LEMMA CreateSuccessorKeeps ==
  ASSUME ConstantsOK, IInv, NEW b \in Actions, NEW c \in Callers, CreateSuccessor(c, b)
  PROVE  IInv'
<1> DEFINE a == advancing[c]
           o == origin[a].orch
           k == origin[a].step + 1
<1>1. /\ a \in Actions /\ o \in Orchestrations /\ k \in Steps
      /\ status[a] = "completed" /\ CreateStep(b, o, k, a)
      /\ advancing' = [advancing EXCEPT ![c] = NoAct] /\ overlapped' = overlapped
  BY SuccessorEffect
<1>2. /\ status' \in [Actions -> {"none", "pending", "claimed", "running"} \cup Outcomes]
      /\ claimedBy' \in [Actions -> Agents \cup {NoAgent}]
      /\ origin' \in [Actions -> Origin]
      /\ Established
      /\ origin[b] = Unreleased
      /\ origin'[b] = [orch |-> o, step |-> k, previous |-> a]
      /\ status[b] = "none" /\ status'[b] = "pending"
      /\ \A d \in Actions \ {b} : status'[d] = status[d] /\ origin'[d] = origin[d]
  <2> HIDE DEF a, o, k
  <2>. QED
    BY <1>1, CreateEffect
<1>3. a # b /\ origin'[a] = origin[a] /\ a # NoAct /\ b # NoAct
  BY <1>1, <1>2 DEF ConstantsOK, IdsOK
<1>4. TypeOK'
  BY <1>1, <1>2 DEF IInv, TypeOK
<1>5. Fresh'
  BY <1>2 DEF IInv, Fresh
<1>6. LookupHolds'
  BY <1>1, <1>2 DEF IInv, LookupHolds, TypeOK
<1>7. \A d \in Actions \ {b} : origin'[d].previous = origin[d].previous
  BY <1>2
<1>8. origin[b].previous = NoAct /\ origin'[b].previous = a
  BY <1>2 DEF Unreleased
<1>9. AloneAdvances'
  <2> SUFFICES ASSUME NEW d \in Callers, advancing'[d] \in Actions \ overlapped
               PROVE  /\ \A e \in Actions : origin'[e].previous # advancing'[d]
                      /\ \A e \in Callers : advancing'[e] = advancing'[d] => d = e
    BY <1>1 DEF AloneAdvances
  <2>1. d # c /\ advancing'[d] = advancing[d] /\ advancing[d] # a
    BY <1>1 DEF IInv, TypeOK, AloneAdvances, ConstantsOK, IdsOK
  <2>2. \A e \in Actions : origin'[e].previous # advancing[d]
    BY <2>1, <1>7, <1>8 DEF IInv, AloneAdvances
  <2>3. \A e \in Callers : advancing'[e] = advancing[d] => d = e
    BY <2>1, <1>1 DEF IInv, TypeOK, AloneAdvances, ConstantsOK, IdsOK
  <2>. QED
    BY <2>1, <2>2, <2>3
<1>10. StepsInOrder'
  <2> SUFFICES ASSUME NEW d \in Actions, origin'[d].previous # NoAct
               PROVE  /\ status'[origin'[d].previous] = "completed"
                      /\ origin'[origin'[d].previous].orch = origin'[d].orch
                      /\ origin'[d].step = origin'[origin'[d].previous].step + 1
    BY DEF StepsInOrder
  <2>1. CASE d = b
    BY <2>1, <1>1, <1>2, <1>3
  <2>2. CASE d # b
    <3>1. origin'[d] = origin[d]
      BY <2>2, <1>2
    <3> DEFINE p == origin[d].previous
    <3>2. p \in Actions /\ status[p] = "completed"
      BY <3>1 DEF IInv, TypeOK, Origin, StepsInOrder
    <3>3. p # b /\ origin'[p] = origin[p] /\ status'[p] = "completed"
      BY <3>2, <1>2
    <3>. QED
      BY <3>1, <3>3 DEF IInv, StepsInOrder
  <2>. QED
    BY <2>1, <2>2
<1>11. OneSuccessorInTurn'
  <2> SUFFICES ASSUME NEW e \in Actions \ overlapped, NEW d1 \in Actions, NEW d2 \in Actions,
                      origin'[d1].previous = e, origin'[d2].previous = e
               PROVE  d1 = d2
    BY <1>1 DEF OneSuccessorInTurn, Successors
  <2>1. CASE e = a
    <3>1. \A d \in Actions : origin[d].previous # a
      BY <2>1, <1>1 DEF IInv, AloneAdvances
    <3>. QED
      BY <2>1, <3>1, <1>7
  <2>2. CASE e # a
    BY <2>2, <1>7, <1>8 DEF IInv, OneSuccessorInTurn, Successors
  <2>. QED
    BY <2>1, <2>2
<1>. QED
  BY <1>4, <1>5, <1>6, <1>9, <1>10, <1>11 DEF IInv

LEMMA AdvanceDiesKeeps ==
  ASSUME ConstantsOK, IInv, NEW c \in Callers, AdvanceDies(c)
  PROVE  IInv'
<1> USE DEF AdvanceDies
<1>1. TypeOK' /\ Fresh' /\ StepsInOrder'
  BY DEF IInv, TypeOK, Fresh, StepsInOrder
<1>2. LookupHolds'
  BY DEF IInv, LookupHolds, TypeOK
<1>3. AloneAdvances'
  BY DEF IInv, AloneAdvances, TypeOK, ConstantsOK, IdsOK
<1>4. OneSuccessorInTurn'
  BY DEF IInv, OneSuccessorInTurn, Successors
<1>. QED
  BY <1>1, <1>2, <1>3, <1>4 DEF IInv

LEMMA StutterKeeps == ASSUME IInv, UNCHANGED vars PROVE IInv'
BY DEF vars, IInv, TypeOK, Fresh, LookupHolds, AloneAdvances, StepsInOrder,
       OneSuccessorInTurn, Successors

LEMMA StepKeeps == ASSUME ConstantsOK, IInv, [Next]_vars PROVE IInv'
<1>1. CASE UNCHANGED vars
  BY <1>1, StutterKeeps
<1>2. CASE Next
  BY <1>2, WorkKeeps, StartKeeps, LookupKeeps, CreateSuccessorKeeps, AdvanceDiesKeeps DEF Next
<1>. QED
  BY <1>1, <1>2

(* IInv is inductive.                                                      *)
THEOREM Invariance == ASSUME ConstantsOK PROVE Spec => []IInv
<1>1. Init => IInv
  BY Initially
<1>2. IInv /\ [Next]_vars => IInv'
  BY StepKeeps
<1>. QED
  BY <1>1, <1>2, PTL DEF Spec

(* Every variable has its type.                                            *)
THEOREM TypeCorrect == ASSUME ConstantsOK PROVE Spec => []TypeOK
<1>1. IInv => TypeOK
  BY DEF IInv
<1>. QED
  BY <1>1, Invariance, PTL

(* A successor continues the orchestration of a completed predecessor.     *)
THEOREM StepsStayInOrder == ASSUME ConstantsOK PROVE Spec => []StepsInOrder
<1>1. IInv => StepsInOrder
  BY DEF IInv
<1>. QED
  BY <1>1, Invariance, PTL

(* One successor for every completed action that no two calls of advance   *)
(* were working on at once.                                                *)
THEOREM AtMostOneSuccessor == ASSUME ConstantsOK PROVE Spec => []OneSuccessorInTurn
<1>1. IInv => OneSuccessorInTurn
  BY DEF IInv
<1>. QED
  BY <1>1, Invariance, PTL

-----------------------------------------------------------------------------
(* What the actions have done is the work of StepSequence.                 *)
LEMMA InitMaps == ASSUME ConstantsOK, Init PROVE Sequence!Init
<1> USE DEF Init, Lifecycle!Init, Unreleased, ConstantsOK, IdsOK
<1>1. ReleasedSteps = [o \in Orchestrations |-> {}]
  BY DEF ReleasedSteps
<1>2. CompletedSteps = [o \in Orchestrations |-> {}]
  BY DEF CompletedSteps
<1>. QED
  BY <1>1, <1>2 DEF Sequence!Init

(* A new action of step k in orchestration o releases that step.           *)
LEMMA CreateMaps ==
  ASSUME ConstantsOK, IInv, NEW a \in Actions, NEW o \in Orchestrations, NEW k \in Steps,
         origin[a] = Unreleased, status[a] = "none", status'[a] # "completed",
         origin'[a].orch = o, origin'[a].step = k,
         \A b \in Actions \ {a} : status'[b] = status[b] /\ origin'[b] = origin[b]
  PROVE  /\ ReleasedSteps' = [ReleasedSteps EXCEPT ![o] = @ \cup {k}]
         /\ CompletedSteps' = CompletedSteps
<1>0. origin[a].orch = NoOrch /\ NoOrch \notin Orchestrations
  BY DEF Unreleased, ConstantsOK, IdsOK
<1>1. ASSUME NEW x \in Orchestrations
      PROVE  ReleasedSteps'[x] = IF x = o THEN ReleasedSteps[x] \cup {k} ELSE ReleasedSteps[x]
  <2>1. ReleasedSteps[x] = {origin[b].step : b \in {c \in Actions : origin[c].orch = x}}
    BY DEF ReleasedSteps
  <2>2. ReleasedSteps'[x] = {origin'[b].step : b \in {c \in Actions : origin'[c].orch = x}}
    BY DEF ReleasedSteps
  <2>. QED
    BY <1>0, <2>1, <2>2
<1>2. ASSUME NEW x \in Orchestrations
      PROVE  CompletedSteps'[x] = CompletedSteps[x]
  <2>1. CompletedSteps[x] = {origin[b].step :
                  b \in {c \in Actions : origin[c].orch = x /\ status[c] = "completed"}}
    BY DEF CompletedSteps
  <2>2. CompletedSteps'[x] = {origin'[b].step :
                  b \in {c \in Actions : origin'[c].orch = x /\ status'[c] = "completed"}}
    BY DEF CompletedSteps
  <2>. QED
    BY <1>0, <2>1, <2>2
<1>3. /\ ReleasedSteps = [x \in Orchestrations |-> ReleasedSteps[x]]
      /\ CompletedSteps = [x \in Orchestrations |-> CompletedSteps[x]]
      /\ ReleasedSteps' = [x \in Orchestrations |-> ReleasedSteps'[x]]
      /\ CompletedSteps' = [x \in Orchestrations |-> CompletedSteps'[x]]
  BY DEF ReleasedSteps, CompletedSteps
<1> HIDE DEF ReleasedSteps, CompletedSteps
<1>. QED
  BY <1>1, <1>2, <1>3

LEMMA StartMaps ==
  ASSUME ConstantsOK, IInv, NEW a \in Actions, NEW o \in Orchestrations, Start(a, o)
  PROVE  Sequence!Release(o, 0)
<1>1. 0 \in Steps
  BY DEF Steps, ConstantsOK, LengthOK
<1>2. /\ origin[a] = Unreleased /\ status[a] = "none" /\ status'[a] = "pending"
      /\ origin'[a] = [orch |-> o, step |-> 0, previous |-> NoAct]
      /\ \A d \in Actions \ {a} : status'[d] = status[d] /\ origin'[d] = origin[d]
  <2>1. CreateStep(a, o, 0, NoAct)
    BY DEF Start
  <2>2. NoAct \in Actions \cup {NoAct} /\ o \in Orchestrations \cup {NoOrch}
    OBVIOUS
  <2>. QED
    BY <1>1, <2>1, <2>2, CreateEffect
<1>3. /\ ReleasedSteps' = [ReleasedSteps EXCEPT ![o] = @ \cup {0}]
      /\ CompletedSteps' = CompletedSteps
  BY <1>1, <1>2, CreateMaps
<1>4. ReleasedSteps[o] = {}
  BY DEF Start, ReleasedSteps
<1>. QED
  BY <1>3, <1>4 DEF Sequence!Release

LEMMA CreateSuccessorMaps ==
  ASSUME ConstantsOK, IInv, NEW b \in Actions, NEW c \in Callers, CreateSuccessor(c, b)
  PROVE  [Sequence!Next]_Sequence!vars
<1> DEFINE a == advancing[c]
           o == origin[a].orch
           k == origin[a].step + 1
<1>1. /\ a \in Actions /\ o \in Orchestrations /\ k \in Steps
      /\ origin[a].step \in Nat /\ status[a] = "completed" /\ CreateStep(b, o, k, a)
  BY SuccessorEffect
<1>2. /\ origin[b] = Unreleased /\ status[b] = "none" /\ status'[b] = "pending"
      /\ origin'[b] = [orch |-> o, step |-> k, previous |-> a]
      /\ \A d \in Actions \ {b} : status'[d] = status[d] /\ origin'[d] = origin[d]
  <2> HIDE DEF a, o, k
  <2>. QED
    BY <1>1, CreateEffect
<1>3. /\ ReleasedSteps' = [ReleasedSteps EXCEPT ![o] = @ \cup {k}]
      /\ CompletedSteps' = CompletedSteps
  <2> HIDE DEF a, o, k
  <2>. QED
    BY <1>1, <1>2, CreateMaps
<1>4. k - 1 \in CompletedSteps[o]
  <2>1. origin[a].step \in CompletedSteps[o]
    BY <1>1 DEF CompletedSteps
  <2>. QED
    BY <1>1, <2>1
<1>5. CASE k \notin ReleasedSteps[o]
  <2> HIDE DEF a, o, k
  <2>1. Sequence!Release(o, k)
    BY <1>3, <1>4, <1>5 DEF Sequence!Release
  <2>. QED
    BY <1>1, <2>1 DEF Sequence!Next, Steps
<1>6. CASE k \in ReleasedSteps[o]
  <2>1. ReleasedSteps = [x \in Orchestrations |-> ReleasedSteps[x]]
    BY DEF ReleasedSteps
  <2> HIDE DEF a, o, k
  <2>2. UNCHANGED ReleasedSteps
    BY <1>1, <1>3, <1>6, <2>1
  <2>. QED
    BY <1>3, <2>2 DEF Sequence!vars
<1>. QED
  BY <1>5, <1>6

LEMMA WorkMaps ==
  ASSUME ConstantsOK, IInv, NEW a \in Actions, Work(a)
  PROVE  [Sequence!Next]_Sequence!vars
<1> DEFINE o == origin[a].orch
           k == origin[a].step
<1>1. /\ Established
      /\ \A b \in Actions \ {a} : status'[b] = status[b]
      /\ UNCHANGED origin
  BY WorkEffect
<1>2. UNCHANGED ReleasedSteps
  BY <1>1 DEF ReleasedSteps
<1>3. ASSUME NEW x \in Orchestrations
      PROVE  CompletedSteps'[x] = IF x = o /\ status'[a] = "completed"
                                  THEN CompletedSteps[x] \cup {k} ELSE CompletedSteps[x]
  <2>1. CompletedSteps[x] = {origin[b].step :
                  b \in {c \in Actions : origin[c].orch = x /\ status[c] = "completed"}}
    BY DEF CompletedSteps
  <2>2. CompletedSteps'[x] = {origin[b].step :
                  b \in {c \in Actions : origin[c].orch = x /\ status'[c] = "completed"}}
    BY <1>1 DEF CompletedSteps
  <2>. QED
    BY <1>1, <2>1, <2>2 DEF Established
<1>4. /\ CompletedSteps = [x \in Orchestrations |-> CompletedSteps[x]]
      /\ CompletedSteps' = [x \in Orchestrations |-> CompletedSteps'[x]]
  BY DEF CompletedSteps
<1>5. CASE o \in Orchestrations /\ status'[a] = "completed" /\ k \notin CompletedSteps[o]
  <2>1. k \in Steps
    BY DEF IInv, TypeOK, Origin
  <2>2. k \in ReleasedSteps[o]
    BY <1>5 DEF ReleasedSteps
  <2>3. CompletedSteps' = [CompletedSteps EXCEPT ![o] = @ \cup {k}]
    <3> HIDE DEF o, k
    <3>. QED
      BY <1>3, <1>4, <1>5
  <2>4. Sequence!Complete(o, k)
    BY <1>2, <1>5, <2>2, <2>3 DEF Sequence!Complete
  <2> HIDE DEF o, k
  <2>. QED
    BY <1>5, <2>1, <2>4 DEF Sequence!Next, Steps
<1>6. CASE ~(o \in Orchestrations /\ status'[a] = "completed" /\ k \notin CompletedSteps[o])
  <2>1. UNCHANGED CompletedSteps
    <3> HIDE DEF o, k
    <3>. QED
      BY <1>3, <1>4, <1>6
  <2>. QED
    BY <1>2, <2>1 DEF Sequence!vars
<1>. QED
  BY <1>5, <1>6

LEMMA StepMaps ==
  ASSUME ConstantsOK, IInv, [Next]_vars PROVE [Sequence!Next]_Sequence!vars
<1>1. ASSUME UNCHANGED <<status, origin>> PROVE UNCHANGED Sequence!vars
  BY <1>1 DEF Sequence!vars, ReleasedSteps, CompletedSteps
<1>2. CASE UNCHANGED vars
  BY <1>1, <1>2 DEF vars
<1>3. ASSUME NEW a \in Actions, Work(a) PROVE [Sequence!Next]_Sequence!vars
  BY <1>3, WorkMaps
<1>4. ASSUME NEW a \in Actions, NEW o \in Orchestrations, Start(a, o)
      PROVE  [Sequence!Next]_Sequence!vars
  <2>1. 0 \in 0 .. Length - 1
    BY DEF ConstantsOK, LengthOK
  <2>. QED
    BY <1>4, <2>1, StartMaps DEF Sequence!Next
<1>5. ASSUME NEW c \in Callers, AdvanceDies(c) PROVE [Sequence!Next]_Sequence!vars
  BY <1>1, <1>5 DEF AdvanceDies
<1>6. ASSUME NEW c \in Callers, NEW a \in Actions, Lookup(c, a)
      PROVE  [Sequence!Next]_Sequence!vars
  BY <1>1, <1>6 DEF Lookup
<1>7. ASSUME NEW c \in Callers, NEW b \in Actions, CreateSuccessor(c, b)
      PROVE  [Sequence!Next]_Sequence!vars
  BY <1>7, CreateSuccessorMaps
<1>. QED
  BY <1>2, <1>3, <1>4, <1>5, <1>6, <1>7 DEF Next

(* The steps of every orchestration are released and completed one after   *)
(* the other, however often, and from however many callers at once, the    *)
(* orchestrator is asked to advance.                                       *)
THEOREM ImplementsStepSequence == ASSUME ConstantsOK PROVE Spec => FollowsSequence
<1>1. Init => Sequence!Init
  BY InitMaps
<1>2. IInv /\ [Next]_vars => [Sequence!Next]_Sequence!vars
  BY StepMaps
<1>. QED
  BY <1>1, <1>2, Invariance, PTL DEF Spec, FollowsSequence, Sequence!Spec
=============================================================================
