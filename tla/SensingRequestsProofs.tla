------------------------ MODULE SensingRequestsProofs -----------------------
(* Proofs about ActionWorkflow and SensingRequests.                        *)
(* Of ActionWorkflow, for every set of agents and actions: types, the      *)
(* agreement of the two stores, and that the lifecycle is implemented.     *)
(* Of SensingRequests, for any agents, actions, runs, steps and callers    *)
(* and any number of faults: a run executes its own action alone, and the  *)
(* whole implements Orchestration, whose theorems then hold here.          *)
EXTENDS SensingRequests, TLAPS

LEMMA ThreadForms ==
  ASSUME NEW t \in Threads
  PROVE  t[1] \in Agents /\ (t = Poller(t[1]) \/ t = Api(t[1]))
BY DEF Threads, Poller, Api

LEMMA AgentThreads ==
  ASSUME NEW g \in Agents
  PROVE  /\ Poller(g) \in Threads /\ Api(g) \in Threads
         /\ Poller(g)[1] = g /\ Api(g)[1] = g
         /\ \A h \in Agents : Poller(g) # Api(h)
         /\ \A h \in Agents : (Poller(g) = Poller(h) => g = h) /\ (Api(g) = Api(h) => g = h)
BY DEF Threads, Poller, Api

LEMMA IdleFacts == /\ Idle \in Rpc /\ Idle.stage = "idle" /\ Idle.cmd = "none"
                   /\ Idle.act = NoAct /\ NoAct \notin Actions
BY ActionsAssumption DEF Idle, Rpc

-----------------------------------------------------------------------------
(* What one request may do to the master's store.                          *)

Kept(a) == status'[a] = status[a] /\ claimedBy'[a] = claimedBy[a]
Claimed(g, a) ==
  /\ a \in Eligible[g] /\ status[a] = "pending" /\ claimedBy[a] = NoAgent
  /\ status'[a] = "claimed" /\ claimedBy'[a] = g
Started(g, a) ==
  /\ local[g][a].st = "consumed" /\ claimedBy[a] = g /\ claimedBy'[a] = g
  /\ status[a] = "claimed" /\ status'[a] = "running"
Finished(g, a) ==
  /\ local[g][a].st \in Outcomes /\ claimedBy[a] = g /\ claimedBy'[a] = g
  /\ status[a] = "running" /\ status'[a] = local[g][a].st
StoreStep(g) ==
  \A a \in Actions : Kept(a) \/ Claimed(g, a) \/ Started(g, a) \/ Finished(g, a)

LEMMA HandleEffect ==
  ASSUME IInv, NEW g \in Agents, NEW q, NEW ok \in BOOLEAN,
         NEW out \in Actions \cup {NoAct},
         q.cmd = "claim_next" \/ ReportFits(g, q),
         Handle(g, q, ok, out)
  PROVE  /\ status' \in [Actions -> Status]
         /\ claimedBy' \in [Actions -> Agents \cup {NoAgent}]
         /\ StoreStep(g)
         /\ q.cmd = "claim_next" /\ ok /\ out # NoAct =>
              out \in Actions /\ Claimed(g, out)
         /\ q.cmd # "claim_next" => out = q.act
         /\ q.cmd = "mark_running" /\ ok => status'[q.act] = "running"
         /\ q.cmd = "mark_terminal" /\ ok => status'[q.act] = q.to
<1> USE DEF TypeOK, StoreStep, Kept, Claimed, Started, Finished, Status, Terminal
<1>1. status \in [Actions -> Status] /\ claimedBy \in [Actions -> Agents \cup {NoAgent}]
  BY DEF IInv
<1>2. CASE q.cmd = "claim_next"
  <2>1. ClaimNext(g, ok, out)
    BY <1>2 DEF Handle
  <2>2. Eligible[g] \subseteq Actions
    BY EligibleAssumption
  <2>. QED
    BY <1>1, <1>2, <2>1, <2>2, ActionsAssumption
       DEF ClaimNext, IsFirst, Pending, masterStore
<1>3. CASE q.cmd = "mark_running"
  <2>1. MarkRunning(g, q.act, ok) /\ out = q.act
    BY <1>3 DEF Handle
  <2>2. q.act \in Actions /\ local[g][q.act].st \notin {"absent", "claimed"}
    BY <1>3 DEF ReportFits
  <2>3. status[q.act] = "claimed" => local[g][q.act].st = "consumed"
    <3>1. local[g][q.act].st \in LocalStatus
      BY <2>2 DEF IInv, LocalRecord
    <3>. QED
      BY <2>2, <3>1 DEF IInv, StoresAgree, LocalStatus
  <2>. QED
    BY <1>1, <1>3, <2>1, <2>2, <2>3 DEF MarkRunning
<1>4. CASE q.cmd = "mark_terminal"
  <2>1. MarkTerminal(g, q.act, q.to, ok) /\ out = q.act
    BY <1>4 DEF Handle
  <2>2. q.act \in Actions /\ q.to \in Outcomes /\ local[g][q.act].st = q.to
    BY <1>4 DEF ReportFits
  <2>. QED
    BY <1>1, <1>4, <2>1, <2>2, OutcomesAssumption DEF MarkTerminal
<1>. QED
  BY <1>2, <1>3, <1>4 DEF Handle

(* A store step, with local records and poller answers left alone, keeps   *)
(* the invariants that speak of the stores.                                *)
LEMMA StoreStepKeeps ==
  ASSUME IInv, NEW g \in Agents, StoreStep(g), UNCHANGED local
  PROVE  /\ StoresAgree' /\ OwnedIffClaimed' /\ ConsumedMatchesStatus'
         /\ \A h \in Agents, a \in Actions :
              /\ claimedBy[a] = h /\ status[a] = "claimed" /\ local[h][a].st = "absent"
                 => claimedBy'[a] = h /\ status'[a] = "claimed"
              /\ local[h][a].st = "consumed" /\ status[a] = "running" => status'[a] = "running"
              /\ local[h][a].st \in Terminal /\ status[a] = local[h][a].st
                 => status'[a] = status[a]
<1> USE DEF IInv, StoreStep, Kept, Claimed, Started, Finished
<1>1. StoresAgree'
  BY AgentsAssumption, OutcomesAssumption DEF StoresAgree, OwnedIffClaimed, TypeOK, Terminal
<1>2. OwnedIffClaimed'
  BY AgentsAssumption, OutcomesAssumption DEF OwnedIffClaimed, Terminal
<1>3. ConsumedMatchesStatus'
  BY DEF ConsumedMatchesStatus
<1>. QED
  BY <1>1, <1>2, <1>3, AgentsAssumption, OutcomesAssumption DEF StoresAgree, Terminal

-----------------------------------------------------------------------------
(* The invariant is inductive: one lemma per group of actions.             *)

LEMMA InitIInv == Init => IInv
<1> SUFFICES ASSUME Init PROVE IInv
  OBVIOUS
<1>1. TypeOK
  BY IdleFacts DEF Init, TypeOK, Status, LocalRecord, LocalStatus, Absent
<1>2. StoresAgree /\ OwnedIffClaimed /\ ConsumedMatchesStatus
  BY DEF Init, StoresAgree, OwnedIffClaimed, ConsumedMatchesStatus, Absent, Terminal
<1>3. ClaimOnlyWhenFree /\ CallsFitRecords
  BY IdleFacts, AgentThreads
     DEF Init, ClaimOnlyWhenFree, CallsFitRecords, CallsFit, Active, Absent
<1>. QED
  BY <1>1, <1>2, <1>3 DEF IInv

LEMMA CreateStep ==
  ASSUME IInv, NEW a \in Actions, CreateAction(a)
  PROVE  IInv'
<1> USE DEF IInv, CreateAction
<1>1. TypeOK'
  BY DEF TypeOK, Status
<1>2. \A b \in Actions : status'[b] # status[b] => b = a /\ claimedBy[a] = NoAgent /\ status'[a] = "pending"
  BY DEF TypeOK, OwnedIffClaimed
<1>3. StoresAgree' /\ OwnedIffClaimed' /\ ConsumedMatchesStatus'
  BY <1>2, AgentsAssumption DEF StoresAgree, OwnedIffClaimed, ConsumedMatchesStatus, TypeOK,
     Terminal
<1>4. ClaimOnlyWhenFree'
  BY DEF ClaimOnlyWhenFree, Active
<1>5. \A g \in Agents, b \in Actions : claimedBy[b] = g => status'[b] = status[b]
  BY <1>2, AgentsAssumption
<1>6. CallsFitRecords'
  BY <1>5 DEF CallsFitRecords, CallsFit, ReportFits, StoresAgree, TypeOK
<1>. QED
  BY <1>1, <1>3, <1>4, <1>6

LEMMA ServeStep ==
  ASSUME IInv, NEW t \in Threads, MasterServe(t)
  PROVE  IInv'
<1> DEFINE g == t[1]
<1> USE DEF IInv
<1>0. g \in Agents /\ (t = Poller(g) \/ t = Api(g))
  BY ThreadForms
<1> HIDE DEF g
<1>1. PICK ok \in BOOLEAN, out \in Actions \cup {NoAct} :
        /\ Handle(g, rpc[t], ok, out)
        /\ rpc' = [rpc EXCEPT ![t].stage = IF ok THEN "ok" ELSE "error", ![t].act = out]
  BY DEF MasterServe, g
<1>2. rpc[t].cmd = "claim_next" \/ ReportFits(g, rpc[t])
  BY <1>0 DEF MasterServe, CallsFitRecords, CallsFit
<1>3. UNCHANGED <<masterUp, local, late>> /\ rpc[t].stage = "sent"
  BY DEF MasterServe
<1>4. /\ status' \in [Actions -> Status]
      /\ claimedBy' \in [Actions -> Agents \cup {NoAgent}]
      /\ StoreStep(g)
      /\ rpc[t].cmd = "claim_next" /\ ok /\ out # NoAct => out \in Actions /\ Claimed(g, out)
      /\ rpc[t].cmd # "claim_next" => out = rpc[t].act
      /\ rpc[t].cmd = "mark_running" /\ ok => status'[rpc[t].act] = "running"
      /\ rpc[t].cmd = "mark_terminal" /\ ok => status'[rpc[t].act] = rpc[t].to
  BY <1>0, <1>1, <1>2, HandleEffect
<1>5. /\ StoresAgree' /\ OwnedIffClaimed' /\ ConsumedMatchesStatus'
      /\ \A h \in Agents, a \in Actions :
           /\ claimedBy[a] = h /\ status[a] = "claimed" /\ local[h][a].st = "absent"
              => claimedBy'[a] = h /\ status'[a] = "claimed"
           /\ local[h][a].st = "consumed" /\ status[a] = "running" => status'[a] = "running"
           /\ local[h][a].st \in Terminal /\ status[a] = local[h][a].st => status'[a] = status[a]
  BY <1>0, <1>3, <1>4, StoreStepKeeps
<1>6. TypeOK'
  <2>1. PICK s \in {"ok", "error"} :
          rpc' = [rpc EXCEPT ![t].stage = s, ![t].act = out]
    BY <1>1
  <2>2. rpc' \in [Threads -> Rpc]
    BY <2>1 DEF TypeOK, Rpc
  <2>. QED
    BY <1>3, <1>4, <2>2 DEF TypeOK
<1>7. ClaimOnlyWhenFree'
  BY <1>0, <1>1, <1>3, AgentThreads DEF ClaimOnlyWhenFree, Active, TypeOK
<1>8. CallsFitRecords'
  <2> SUFFICES ASSUME NEW h \in Agents
               PROVE  CallsFit(h)'
    BY DEF CallsFitRecords
  <2> QED
    BY <1>0, <1>1, <1>2, <1>3, <1>4, <1>5, AgentThreads, OutcomesAssumption, AgentsAssumption
       DEF CallsFitRecords, CallsFit, ReportFits, TypeOK, Rpc, Claimed, StoresAgree, Terminal
<1>. QED
  BY <1>5, <1>6, <1>7, <1>8

(* The steps that touch no store: only requests move.                      *)
LEMMA StoresUntouched ==
  ASSUME IInv, UNCHANGED <<status, claimedBy, local>>
  PROVE  /\ StoresAgree' /\ OwnedIffClaimed' /\ ConsumedMatchesStatus'
         /\ \A g \in Agents : Active(g)' = Active(g)
         /\ \A g \in Agents : \A q : ReportFits(g, q)' = ReportFits(g, q)
BY DEF IInv, StoresAgree, OwnedIffClaimed, ConsumedMatchesStatus, Active, ReportFits

LEMMA ResetKeeps ==
  ASSUME IInv, ResetConnections
  PROVE  /\ rpc' \in [Threads -> Rpc] /\ masterUp' \in BOOLEAN /\ late' = {}
         /\ \A t \in Threads :
              \/ rpc'[t] = rpc[t] /\ rpc[t].stage # "sent"
              \/ /\ rpc[t].stage = "sent" /\ rpc'[t].stage = "error"
                 /\ rpc'[t].cmd = rpc[t].cmd /\ rpc'[t].act = rpc[t].act
                 /\ rpc'[t].to = rpc[t].to
BY DEF IInv, TypeOK, ResetConnections, Rpc

LEMMA CrashStep ==
  ASSUME IInv, MasterCrash
  PROVE  IInv'
<1> USE DEF IInv, MasterCrash
<1>1. TypeOK'
  BY ResetKeeps DEF TypeOK
<1>2. StoresAgree' /\ OwnedIffClaimed' /\ ConsumedMatchesStatus'
  BY StoresUntouched
<1>3. ClaimOnlyWhenFree'
  BY ResetKeeps, StoresUntouched, AgentThreads DEF ClaimOnlyWhenFree
<1>4. CallsFitRecords'
  BY ResetKeeps, AgentThreads DEF CallsFitRecords, CallsFit, ReportFits
<1>. QED
  BY <1>1, <1>2, <1>3, <1>4

LEMMA ServeLateStep ==
  ASSUME IInv, NEW q \in late, MasterServeLate(q)
  PROVE  IInv'
<1> DEFINE g == q.agent
<1> USE DEF IInv
<1>0. g \in Agents /\ q.act \in Actions \cup {NoAct} /\ q \in LateRequest
  BY DEF TypeOK, LateRequest
<1>1. PICK ok \in BOOLEAN, out \in Actions \cup {NoAct} : Handle(g, q, ok, out)
  BY DEF MasterServeLate
<1>2. q.cmd = "claim_next" \/ ReportFits(g, q)
  BY <1>0 DEF CallsFitRecords, CallsFit
<1>3. /\ status' \in [Actions -> Status]
      /\ claimedBy' \in [Actions -> Agents \cup {NoAgent}]
      /\ StoreStep(g)
  BY <1>0, <1>1, <1>2, HandleEffect
<1>4. UNCHANGED local
  BY DEF MasterServeLate
<1> HIDE DEF g
<1>5. /\ StoresAgree' /\ OwnedIffClaimed' /\ ConsumedMatchesStatus'
      /\ \A h \in Agents, a \in Actions :
           /\ claimedBy[a] = h /\ status[a] = "claimed" /\ local[h][a].st = "absent"
              => claimedBy'[a] = h /\ status'[a] = "claimed"
           /\ local[h][a].st = "consumed" /\ status[a] = "running" => status'[a] = "running"
           /\ local[h][a].st \in Terminal /\ status[a] = local[h][a].st => status'[a] = status[a]
  BY <1>0, <1>3, <1>4, StoreStepKeeps
<1>6. /\ rpc' \in [Threads -> Rpc] /\ masterUp' \in BOOLEAN /\ late' \subseteq late
      /\ \A t \in Threads :
           \/ rpc'[t] = rpc[t]
           \/ /\ rpc[t].stage = "sent" /\ rpc'[t].stage = "error"
              /\ rpc'[t].cmd = rpc[t].cmd /\ rpc'[t].act = rpc[t].act
              /\ rpc'[t].to = rpc[t].to
  <2>1. CASE ResetConnections
    BY <2>1, ResetKeeps
  <2>2. CASE late' = late \ {q} /\ UNCHANGED <<masterUp, rpc>>
    BY <2>2 DEF TypeOK
  <2>. QED
    BY <2>1, <2>2 DEF MasterServeLate
<1>7. TypeOK'
  BY <1>3, <1>4, <1>6 DEF TypeOK
<1>8. ClaimOnlyWhenFree'
  BY <1>4, <1>6, AgentThreads DEF ClaimOnlyWhenFree, Active
<1>9. CallsFitRecords'
  <2> SUFFICES ASSUME NEW h \in Agents
               PROVE  CallsFit(h)'
    BY DEF CallsFitRecords
  <2> QED
    BY <1>4, <1>5, <1>6, AgentThreads, OutcomesAssumption
       DEF CallsFitRecords, CallsFit, ReportFits, TypeOK, Rpc, Terminal
<1>. QED
  BY <1>5, <1>7, <1>8, <1>9

LEMMA CallStep ==
  ASSUME IInv, NEW t \in Threads, CallFailed(t) \/ Timeout(t)
  PROVE  IInv'
<1> USE DEF IInv
<1>0. UNCHANGED <<status, claimedBy, masterUp, local>> /\ rpc' = [rpc EXCEPT ![t] = Idle]
  BY DEF CallFailed, Timeout
<1>1. \A q \in late' : q \in late \/ /\ q \in LateRequest /\ rpc[t].stage = "sent" /\ q.agent = t[1]
                                     /\ q.cmd = rpc[t].cmd /\ q.act = rpc[t].act /\ q.to = rpc[t].to
  <2>1. CASE Timeout(t)
    <3>1. PICK lost \in SUBSET {u \in {t} : rpc[u].stage = "sent"} :
            late' = late \cup {[agent |-> v[1], cmd |-> rpc[v].cmd, act |-> rpc[v].act,
                                to |-> rpc[v].to] :
                               v \in {u \in {t} : rpc[u].stage = "sent"} \ lost}
      BY <2>1 DEF Timeout, Abandon
    <3>2. CASE rpc[t].stage = "sent"
      <4>1. rpc[t] \in Rpc /\ rpc[t].cmd \in Commands
        BY <3>2, ThreadForms DEF TypeOK, CallsFitRecords, CallsFit, ReportFits, Commands
      <4>. QED
        BY <3>1, <3>2, <4>1, ThreadForms DEF Rpc, LateRequest
    <3>3. CASE rpc[t].stage # "sent"
      BY <3>1, <3>3
    <3>. QED
      BY <3>2, <3>3
  <2>2. CASE CallFailed(t)
    BY <2>2 DEF CallFailed
  <2>. QED
    BY <2>1, <2>2
<1>2. TypeOK'
  BY <1>0, <1>1, IdleFacts DEF TypeOK
<1>3. StoresAgree' /\ OwnedIffClaimed' /\ ConsumedMatchesStatus'
  BY <1>0, StoresUntouched
<1>4. \A u \in Threads : rpc'[u] = rpc[u] \/ rpc'[u] = Idle
  BY <1>0 DEF TypeOK
<1>5. ClaimOnlyWhenFree'
  BY <1>0, <1>4, StoresUntouched, AgentThreads, IdleFacts DEF ClaimOnlyWhenFree
<1>6. CallsFitRecords'
  BY <1>0, <1>1, <1>4, ThreadForms, AgentThreads, IdleFacts DEF CallsFitRecords, CallsFit,
     ReportFits
<1>. QED
  BY <1>2, <1>3, <1>5, <1>6

LEMMA RestartStep ==
  ASSUME IInv, NEW g \in Agents, AgentRestart(g)
  PROVE  IInv'
<1> USE DEF IInv
<1> DEFINE T == {Poller(g), Api(g)}
<1>0. /\ UNCHANGED <<status, claimedBy, masterUp, local>>
      /\ rpc' = [rpc EXCEPT ![Poller(g)] = Idle, ![Api(g)] = Idle]
      /\ T \subseteq Threads
  BY AgentThreads DEF AgentRestart
<1>1. \A q \in late' : q \in late \/ \E t \in T :
         /\ q \in LateRequest /\ rpc[t].stage = "sent" /\ q.agent = t[1]
         /\ q.cmd = rpc[t].cmd /\ q.act = rpc[t].act /\ q.to = rpc[t].to
  <2>1. PICK lost \in SUBSET {u \in T : rpc[u].stage = "sent"} :
            late' = late \cup {[agent |-> v[1], cmd |-> rpc[v].cmd, act |-> rpc[v].act,
                                to |-> rpc[v].to] :
                               v \in {u \in T : rpc[u].stage = "sent"} \ lost}
    BY DEF AgentRestart, Abandon
  <2>2. ASSUME NEW t \in T, rpc[t].stage = "sent"
        PROVE  [agent |-> t[1], cmd |-> rpc[t].cmd, act |-> rpc[t].act, to |-> rpc[t].to]
               \in LateRequest
    <3>1. rpc[t] \in Rpc /\ rpc[t].cmd \in Commands
      BY <1>0, <2>2, ThreadForms DEF TypeOK, CallsFitRecords, CallsFit, ReportFits, Commands
    <3>. QED
      BY <1>0, <3>1, ThreadForms DEF Rpc, LateRequest
  <2>. QED
    BY <2>1, <2>2
<1>2. TypeOK'
  BY <1>0, <1>1, IdleFacts DEF TypeOK
<1>3. StoresAgree' /\ OwnedIffClaimed' /\ ConsumedMatchesStatus'
  BY <1>0, StoresUntouched
<1>4. \A u \in Threads : rpc'[u] = rpc[u] \/ rpc'[u] = Idle
  BY <1>0 DEF TypeOK
<1> HIDE DEF T
<1>5. ClaimOnlyWhenFree'
  <2>1. \A h \in Agents : Active(h)' = Active(h)
    BY <1>0, StoresUntouched
  <2>2. \A h \in Agents : rpc'[Poller(h)].stage \in {"sent", "ok"} =>
                             rpc[Poller(h)].stage \in {"sent", "ok"}
    BY <1>4, AgentThreads, IdleFacts
  <2>. QED
    BY <2>1, <2>2 DEF ClaimOnlyWhenFree
<1>6. CallsFitRecords'
  <2>1. \A q \in late' : q \in late \/ q.cmd = "claim_next" \/ ReportFits(q.agent, q)
    BY <1>0, <1>1, ThreadForms DEF CallsFitRecords, CallsFit, ReportFits
  <2> SUFFICES ASSUME NEW h \in Agents
               PROVE  CallsFit(h)'
    BY DEF CallsFitRecords
  <2>2. /\ rpc'[Poller(h)] = rpc[Poller(h)] \/ rpc'[Poller(h)] = Idle
        /\ rpc'[Api(h)] = rpc[Api(h)] \/ rpc'[Api(h)] = Idle
    BY <1>4, AgentThreads
  <2>. QED
    BY <1>0, <2>1, <2>2, IdleFacts DEF CallsFitRecords, CallsFit, ReportFits
<1>. QED
  BY <1>2, <1>3, <1>5, <1>6

LEMMA MasterRestartStep ==
  ASSUME IInv, MasterRestart
  PROVE  IInv'
<1>1. TypeOK' /\ StoresAgree' /\ OwnedIffClaimed' /\ ConsumedMatchesStatus'
  BY StoresUntouched DEF MasterRestart, IInv, TypeOK
<1>2. ClaimOnlyWhenFree' /\ CallsFitRecords'
  BY DEF MasterRestart, IInv, ClaimOnlyWhenFree, CallsFitRecords, CallsFit, Active, ReportFits
<1>. QED
  BY <1>1, <1>2 DEF IInv

(* Writing one record, with no change to the master's store: what the      *)
(* requests of the agents rest on stays true.                              *)
LEMMA RecordUpdate ==
  ASSUME TypeOK, NEW g \in Agents, NEW a \in Actions, NEW r \in LocalRecord,
         Write(g, a, r)
  PROVE  /\ local' \in [Agents -> [Actions -> LocalRecord]]
         /\ local'[g][a] = r
         /\ \A h \in Agents, b \in Actions : h # g \/ b # a => local'[h][b] = local[h][b]
BY DEF TypeOK, Write

LEMMA ReportsKept ==
  ASSUME IInv, NEW g \in Agents, NEW a \in Actions,
         \A h \in Agents, b \in Actions : h # g \/ b # a => local'[h][b] = local[h][b],
         local[g][a].st \in Terminal => local'[g][a].st = local[g][a].st,
         local[g][a].st \notin {"absent", "claimed"} =>
           local'[g][a].st \notin {"absent", "claimed"}
  PROVE  \A h \in Agents : \A q : ReportFits(h, q) => ReportFits(h, q)'
BY OutcomesAssumption DEF ReportFits, Terminal

LEMMA OtherAgentsFit ==
  ASSUME IInv, NEW g \in Agents, NEW h \in Agents, h # g,
         \A b \in Actions : local'[h][b] = local[h][b],
         rpc'[Poller(h)] = rpc[Poller(h)], rpc'[Api(h)] = rpc[Api(h)],
         UNCHANGED <<status, claimedBy, late>>
  PROVE  CallsFit(h)'
<1>1. CallsFit(h)
  BY DEF IInv, CallsFitRecords
<1>2. rpc[Poller(h)].act \in Actions \cup {NoAct}
  BY AgentThreads DEF IInv, TypeOK, Rpc
<1>. QED
  BY <1>1, <1>2 DEF CallsFit, ReportFits

LEMMA PollClaimStep ==
  ASSUME IInv, NEW g \in Agents, PollClaim(g)
  PROVE  IInv'
<1> USE DEF IInv, PollClaim
<1>1. PICK s \in {"sent", "error"} :
        rpc' = [rpc EXCEPT ![Poller(g)] =
                 [stage |-> s, cmd |-> "claim_next", act |-> NoAct, to |-> "none"]]
  BY DEF Send
<1>2. TypeOK'
  BY <1>1 DEF TypeOK, Rpc, Commands
<1>3. StoresAgree' /\ OwnedIffClaimed' /\ ConsumedMatchesStatus'
  BY StoresUntouched
<1>4. ClaimOnlyWhenFree'
  BY <1>1, AgentThreads DEF ClaimOnlyWhenFree, Active, TypeOK
<1>5. CallsFitRecords'
  BY <1>1, AgentThreads DEF CallsFitRecords, CallsFit, ReportFits, TypeOK
<1>. QED
  BY <1>2, <1>3, <1>4, <1>5

LEMMA PollSaveStep ==
  ASSUME IInv, NEW g \in Agents, PollSave(g)
  PROVE  IInv'
<1> DEFINE a == rpc[Poller(g)].act
           new == [st |-> "claimed", consumed |-> FALSE, reported |-> FALSE]
<1> USE DEF IInv, PollSave, Write
<1>1. Active(g) = {} /\ a \in Actions \cup {NoAct}
  BY AgentThreads DEF ClaimOnlyWhenFree, TypeOK, Rpc
<1>2. rpc' = [rpc EXCEPT ![Poller(g)] = Idle]
  OBVIOUS
<1>3. CASE a = NoAct
  <2>1. UNCHANGED local
    BY <1>3
  <2>2. TypeOK'
    BY <2>1, IdleFacts DEF TypeOK
  <2>3. StoresAgree' /\ OwnedIffClaimed' /\ ConsumedMatchesStatus'
    BY <2>1, StoresUntouched
  <2>4. ClaimOnlyWhenFree' /\ CallsFitRecords'
    BY <2>1, AgentThreads, IdleFacts
       DEF ClaimOnlyWhenFree, Active, CallsFitRecords, CallsFit, ReportFits, TypeOK
  <2>. QED
    BY <2>2, <2>3, <2>4
<1>4. CASE a # NoAct
  <2>1. /\ a \in Actions /\ local[g][a].st = "absent"
        /\ claimedBy[a] = g /\ status[a] = "claimed"
    BY <1>1, <1>4 DEF CallsFitRecords, CallsFit
  <2>2. local' = [local EXCEPT ![g][a] = new]
    BY <1>1, <1>4
  <2>3. /\ local'[g][a] = new
        /\ \A h \in Agents, b \in Actions :
              h # g \/ b # a => local'[h][b] = local[h][b]
    BY <2>1, <2>2 DEF TypeOK
  <2>4. TypeOK'
    BY <2>1, <2>2, IdleFacts DEF TypeOK, LocalRecord, LocalStatus
  <2>5. StoresAgree' /\ OwnedIffClaimed' /\ ConsumedMatchesStatus'
    BY <2>1, <2>3 DEF StoresAgree, OwnedIffClaimed, ConsumedMatchesStatus, Terminal
  <2>6. ClaimOnlyWhenFree'
    <3>1. Active(g)' \subseteq {a}
      BY <1>1, <2>3 DEF Active
    <3>2. \A h \in Agents : h # g => Active(h)' = Active(h)
      BY <2>3 DEF Active
    <3>. QED
      BY <3>1, <3>2, AgentThreads, IdleFacts DEF ClaimOnlyWhenFree, TypeOK
  <2>7. CallsFitRecords'
    <3>2. \A h \in Agents : h # g => rpc'[Poller(h)] = rpc[Poller(h)]
      BY <1>2, AgentThreads DEF TypeOK
    <3>3. \A h \in Agents : rpc'[Api(h)] = rpc[Api(h)]
      BY <1>2, AgentThreads DEF TypeOK
    <3>4. rpc'[Poller(g)] = Idle
      BY <1>2, AgentThreads DEF TypeOK
    <3>5. \A h, q : h = g /\ ReportFits(h, q) => ReportFits(h, q)'
      BY <2>1, <2>3, ReportsKept DEF Terminal
    <3>6. CallsFit(g)'
      BY <2>3, <3>3, <3>4, <3>5, IdleFacts, <2>1, OutcomesAssumption
         DEF CallsFitRecords, CallsFit, ReportFits
    <3>7. \A h \in Agents : h # g => CallsFit(h)'
      BY <2>3, <3>2, <3>3, OtherAgentsFit
    <3>. QED
      BY <3>6, <3>7 DEF CallsFitRecords
  <2>. QED
    BY <2>4, <2>5, <2>6, <2>7
<1>. QED
  BY <1>3, <1>4

(* The steps of the API thread: agent g's record of action a moves on and  *)
(* the request of its API thread changes.                                  *)
LEMMA ApiConsumeStep ==
  ASSUME IInv, NEW g \in Agents, ApiConsume(g)
  PROVE  IInv'
<1> USE DEF IInv
<1>1. PICK a \in Actions :
        /\ local[g][a].st = "claimed"
        /\ Write(g, a, [local[g][a] EXCEPT !.st = "consumed", !.consumed = TRUE])
        /\ Send(Api(g), "mark_running", a, "none")
  BY DEF ApiConsume
<1>2. PICK s \in {"sent", "error"} :
        rpc' = [rpc EXCEPT ![Api(g)] =
                 [stage |-> s, cmd |-> "mark_running", act |-> a, to |-> "none"]]
  BY <1>1 DEF Send
<1>3. UNCHANGED <<status, claimedBy, masterUp, late>> /\ rpc[Api(g)] = Idle
  BY DEF ApiConsume
<1> DEFINE new == [local[g][a] EXCEPT !.st = "consumed", !.consumed = TRUE]
<1>4. /\ new \in LocalRecord /\ new.st = "consumed" /\ new.consumed
      /\ new.reported = local[g][a].reported
  <2>1. local[g][a] \in LocalRecord /\ "consumed" \in LocalStatus
    BY DEF TypeOK, LocalStatus
  <2>. QED
    BY <2>1 DEF LocalRecord
<1> HIDE DEF new
<1>5. /\ local' \in [Agents -> [Actions -> LocalRecord]] /\ local'[g][a] = new
      /\ \A h \in Agents, b \in Actions : h # g \/ b # a => local'[h][b] = local[h][b]
  BY <1>1, <1>4, RecordUpdate DEF new
<1>6. TypeOK'
  BY <1>2, <1>3, <1>5 DEF TypeOK, Rpc, Commands
<1>7. StoresAgree' /\ OwnedIffClaimed' /\ ConsumedMatchesStatus'
  BY <1>1, <1>3, <1>4, <1>5 DEF StoresAgree, OwnedIffClaimed, ConsumedMatchesStatus, Terminal
<1>8. \A h \in Agents : Active(h)' = Active(h)
  BY <1>1, <1>4, <1>5 DEF Active, Terminal
<1>9. ClaimOnlyWhenFree'
  BY <1>2, <1>8, AgentThreads DEF ClaimOnlyWhenFree, TypeOK
<1>10. CallsFitRecords'
  <2>1. /\ rpc'[Poller(g)] = rpc[Poller(g)]
        /\ \A h \in Agents : h # g => rpc'[Poller(h)] = rpc[Poller(h)] /\ rpc'[Api(h)] = rpc[Api(h)]
        /\ rpc'[Api(g)] = [stage |-> s, cmd |-> "mark_running", act |-> a, to |-> "none"]
    BY <1>2, AgentThreads DEF TypeOK
  <2>2. \A q : ReportFits(g, q) => ReportFits(g, q)'
    BY <1>1, <1>4, <1>5, ReportsKept DEF Terminal
  <2>3. rpc[Poller(g)].stage = "ok" /\ rpc[Poller(g)].act # NoAct => local[g][rpc[Poller(g)].act].st = "absent"
    BY DEF CallsFitRecords, CallsFit
  <2>4. rpc[Poller(g)].act \in Actions \cup {NoAct}
    BY AgentThreads DEF TypeOK, Rpc
  <2>5. CallsFit(g)'
    <3>1. CallsFit(g)
      BY DEF CallsFitRecords
    <3>2. \A q \in late' : q.agent = g => q.cmd = "claim_next" \/ ReportFits(g, q)'
      BY <1>3, <2>2, <3>1 DEF CallsFit
    <3>3. ReportFits(g, rpc[Api(g)])'
      BY <1>4, <1>5, <2>1 DEF ReportFits
    <3>. QED
      BY <1>1, <1>3, <1>4, <1>5, <2>1, <2>3, <2>4, <3>1, <3>2, <3>3 DEF CallsFit
  <2>6. \A h \in Agents : h # g => CallsFit(h)'
    BY <1>3, <1>5, <2>1, OtherAgentsFit
  <2>. QED
    BY <2>5, <2>6 DEF CallsFitRecords
<1>. QED
  BY <1>6, <1>7, <1>9, <1>10

LEMMA ApiRunningStep ==
  ASSUME IInv, NEW g \in Agents, ApiRunningReported(g)
  PROVE  IInv'
<1> DEFINE a == rpc[Api(g)].act
           new == [local[g][a] EXCEPT !.st = "running"]
<1> USE DEF IInv
<1>1. /\ a \in Actions /\ local[g][a].st = "consumed" /\ status[a] = "running"
  BY DEF ApiRunningReported, CallsFitRecords, CallsFit, ReportFits
<1>2. /\ Write(g, a, new)
      /\ rpc' = [rpc EXCEPT ![Api(g)] = Idle]
      /\ UNCHANGED <<status, claimedBy, masterUp, late>>
  BY DEF ApiRunningReported
<1> HIDE DEF a
<1>4. /\ new \in LocalRecord /\ new.st = "running"
      /\ new.consumed = local[g][a].consumed /\ new.reported = local[g][a].reported
  BY <1>1 DEF TypeOK, LocalRecord, LocalStatus
<1> HIDE DEF new
<1>5. /\ local' \in [Agents -> [Actions -> LocalRecord]] /\ local'[g][a] = new
      /\ \A h \in Agents, b \in Actions : h # g \/ b # a => local'[h][b] = local[h][b]
  BY <1>1, <1>2, <1>4, RecordUpdate
<1>6. TypeOK'
  BY <1>2, <1>5, IdleFacts DEF TypeOK
<1>7. StoresAgree' /\ OwnedIffClaimed' /\ ConsumedMatchesStatus'
  BY <1>1, <1>2, <1>4, <1>5 DEF StoresAgree, OwnedIffClaimed, ConsumedMatchesStatus, Terminal
<1>8. \A h \in Agents : Active(h)' = Active(h)
  BY <1>1, <1>4, <1>5 DEF Active, Terminal
<1>9. ClaimOnlyWhenFree'
  BY <1>2, <1>8, AgentThreads DEF ClaimOnlyWhenFree, TypeOK
<1>10. CallsFitRecords'
  <2>1. /\ rpc'[Poller(g)] = rpc[Poller(g)]
        /\ \A h \in Agents : h # g => rpc'[Poller(h)] = rpc[Poller(h)] /\ rpc'[Api(h)] = rpc[Api(h)]
        /\ rpc'[Api(g)] = Idle
    BY <1>2, AgentThreads DEF TypeOK
  <2>2. \A q : ReportFits(g, q) => ReportFits(g, q)'
    BY <1>1, <1>4, <1>5, ReportsKept DEF Terminal
  <2>4. rpc[Poller(g)].act \in Actions \cup {NoAct}
    BY AgentThreads DEF TypeOK, Rpc
  <2>5. CallsFit(g)'
    <3>1. CallsFit(g)
      BY DEF CallsFitRecords
    <3>2. \A q \in late' : q.agent = g => q.cmd = "claim_next" \/ ReportFits(g, q)'
      BY <1>2, <2>2, <3>1 DEF CallsFit
    <3>. QED
      BY <1>1, <1>2, <1>5, <2>1, <2>4, <3>1, <3>2, IdleFacts DEF CallsFit
  <2>6. \A h \in Agents : h # g => CallsFit(h)'
    BY <1>2, <1>5, <2>1, OtherAgentsFit
  <2>. QED
    BY <2>5, <2>6 DEF CallsFitRecords
<1>. QED
  BY <1>6, <1>7, <1>9, <1>10

LEMMA ApiTerminalStep ==
  ASSUME IInv, NEW g \in Agents, NEW s \in Outcomes, ApiTerminal(g, s)
  PROVE  IInv'
<1> USE DEF IInv
<1>0. s \in Terminal
  BY OutcomesAssumption DEF Terminal
<1>1. PICK a \in Actions :
        /\ a \in Active(g)
        /\ \/ local[g][a].st = s /\ UNCHANGED local
           \/ /\ local[g][a].st = "running"
              /\ Write(g, a, [local[g][a] EXCEPT !.st = s, !.reported = FALSE])
        /\ Send(Api(g), "mark_terminal", a, s)
  BY DEF ApiTerminal, IsFirst
<1>2. PICK stage \in {"sent", "error"} :
        rpc' = [rpc EXCEPT ![Api(g)] =
                 [stage |-> stage, cmd |-> "mark_terminal", act |-> a, to |-> s]]
  BY <1>1 DEF Send
<1>3. UNCHANGED <<status, claimedBy, masterUp, late>> /\ rpc[Api(g)] = Idle
  BY DEF ApiTerminal
<1>4. PICK new \in LocalRecord :
        /\ Write(g, a, new)
        /\ new.st = s /\ new.consumed = local[g][a].consumed /\ ~new.reported
        /\ local[g][a].st \in {"running", s}
  <2>1. local[g][a] \in LocalRecord /\ s \in LocalStatus
    BY <1>0 DEF TypeOK, LocalStatus
  <2>2. CASE local[g][a].st = s /\ UNCHANGED local
    <3>1. ~local[g][a].reported
      BY <1>0, <1>1, <2>2 DEF Active
    <3>2. Write(g, a, local[g][a])
      BY <2>2 DEF Write, TypeOK
    <3>. QED
      BY <2>1, <2>2, <3>1, <3>2
  <2>3. CASE /\ local[g][a].st = "running"
             /\ Write(g, a, [local[g][a] EXCEPT !.st = s, !.reported = FALSE])
    <3>1. [local[g][a] EXCEPT !.st = s, !.reported = FALSE] \in LocalRecord
      BY <2>1 DEF LocalRecord
    <3>2. /\ [local[g][a] EXCEPT !.st = s, !.reported = FALSE].st = s
          /\ [local[g][a] EXCEPT !.st = s, !.reported = FALSE].consumed = local[g][a].consumed
          /\ [local[g][a] EXCEPT !.st = s, !.reported = FALSE].reported = FALSE
      BY <2>1 DEF LocalRecord
    <3>. QED
      BY <2>3, <3>1, <3>2
  <2>. QED
    BY <1>1, <2>2, <2>3
<1>5. /\ local' \in [Agents -> [Actions -> LocalRecord]] /\ local'[g][a] = new
      /\ \A h \in Agents, b \in Actions : h # g \/ b # a => local'[h][b] = local[h][b]
  BY <1>4, RecordUpdate
<1>6. TypeOK'
  BY <1>0, <1>2, <1>3, <1>5 DEF TypeOK, Rpc, Commands
<1>7. StoresAgree' /\ OwnedIffClaimed' /\ ConsumedMatchesStatus'
  BY <1>0, <1>3, <1>4, <1>5 DEF StoresAgree, OwnedIffClaimed, ConsumedMatchesStatus, Terminal
<1>8. \A h \in Agents : Active(h)' \subseteq Active(h)
  <2>1. SUFFICES ASSUME NEW h \in Agents, NEW b \in Actions, b \in Active(h)'
                 PROVE  b \in Active(h)
    BY DEF Active
  <2>2. CASE h = g /\ b = a
    BY <1>1, <2>2
  <2>3. CASE h # g \/ b # a
    <3>1. local'[h][b] = local[h][b]
      BY <1>5, <2>3
    <3>. QED
      BY <2>1, <3>1 DEF Active
  <2>. QED
    BY <2>2, <2>3
<1>9. ClaimOnlyWhenFree'
  BY <1>2, <1>8, AgentThreads DEF ClaimOnlyWhenFree, TypeOK
<1>10. CallsFitRecords'
  <2>1. /\ rpc'[Poller(g)] = rpc[Poller(g)]
        /\ \A h \in Agents : h # g => rpc'[Poller(h)] = rpc[Poller(h)] /\ rpc'[Api(h)] = rpc[Api(h)]
        /\ rpc'[Api(g)] = [stage |-> stage, cmd |-> "mark_terminal", act |-> a, to |-> s]
    BY <1>2, AgentThreads DEF TypeOK
  <2>2. \A q : ReportFits(g, q) => ReportFits(g, q)'
    <3>1. local[g][a].st \in Terminal => local'[g][a].st = local[g][a].st
      BY <1>4, <1>5 DEF Terminal
    <3>2. local'[g][a].st \notin {"absent", "claimed"}
      BY <1>0, <1>4, <1>5 DEF Terminal
    <3>. QED
      BY <1>1, <1>5, <3>1, <3>2, ReportsKept
  <2>4. rpc[Poller(g)].act \in Actions \cup {NoAct}
    BY AgentThreads DEF TypeOK, Rpc
  <2>5. CallsFit(g)'
    <3>1. CallsFit(g)
      BY DEF CallsFitRecords
    <3>2. \A q \in late' : q.agent = g => q.cmd = "claim_next" \/ ReportFits(g, q)'
      BY <1>3, <2>2, <3>1 DEF CallsFit
    <3>3. ReportFits(g, rpc[Api(g)])'
      BY <1>4, <1>5, <2>1 DEF ReportFits
    <3>4. local[g][a].st # "absent"
      BY <1>1 DEF Active
    <3>. QED
      BY <1>3, <1>5, <2>1, <2>4, <3>1, <3>2, <3>3, <3>4 DEF CallsFit
  <2>6. \A h \in Agents : h # g => CallsFit(h)'
    BY <1>3, <1>5, <2>1, OtherAgentsFit
  <2>. QED
    BY <2>5, <2>6 DEF CallsFitRecords
<1>. QED
  BY <1>6, <1>7, <1>9, <1>10

LEMMA ApiReportedStep ==
  ASSUME IInv, NEW g \in Agents, ApiTerminalReported(g)
  PROVE  IInv'
<1> DEFINE a == rpc[Api(g)].act
           new == [local[g][a] EXCEPT !.reported = TRUE]
<1> USE DEF IInv
<1>1. /\ a \in Actions /\ local[g][a].st \in Terminal /\ status[a] = local[g][a].st
  BY DEF ApiTerminalReported, CallsFitRecords, CallsFit, ReportFits
<1>2. /\ Write(g, a, new)
      /\ rpc' = [rpc EXCEPT ![Api(g)] = Idle]
      /\ UNCHANGED <<status, claimedBy, masterUp, late>>
  BY DEF ApiTerminalReported
<1> HIDE DEF a
<1>4. /\ new \in LocalRecord /\ new.st = local[g][a].st
      /\ new.consumed = local[g][a].consumed
  <2>1. local[g][a] \in LocalRecord
    BY <1>1 DEF TypeOK
  <2>. QED
    BY <2>1 DEF LocalRecord
<1> HIDE DEF new
<1>5. /\ local' \in [Agents -> [Actions -> LocalRecord]] /\ local'[g][a] = new
      /\ \A h \in Agents, b \in Actions : h # g \/ b # a => local'[h][b] = local[h][b]
  BY <1>1, <1>2, <1>4, RecordUpdate
<1>6. TypeOK'
  BY <1>2, <1>5, IdleFacts DEF TypeOK
<1>7. StoresAgree' /\ OwnedIffClaimed' /\ ConsumedMatchesStatus'
  BY <1>1, <1>2, <1>4, <1>5 DEF StoresAgree, OwnedIffClaimed, ConsumedMatchesStatus, Terminal
<1>8. \A h \in Agents : Active(h)' \subseteq Active(h)
  <2>1. SUFFICES ASSUME NEW h \in Agents, NEW b \in Actions, b \in Active(h)'
                 PROVE  b \in Active(h)
    BY DEF Active
  <2>2. CASE h = g /\ b = a
    <3>1. new.reported
      <4>1. local[g][a] \in LocalRecord
        BY <1>1 DEF TypeOK
      <4>. QED
        BY <4>1 DEF LocalRecord, new
    <3>. QED
      BY <1>1, <1>4, <1>5, <2>1, <2>2, <3>1 DEF Active
  <2>3. CASE h # g \/ b # a
    <3>1. local'[h][b] = local[h][b]
      BY <1>5, <2>3
    <3>. QED
      BY <2>1, <3>1 DEF Active
  <2>. QED
    BY <2>2, <2>3
<1>9. ClaimOnlyWhenFree'
  BY <1>2, <1>8, AgentThreads DEF ClaimOnlyWhenFree, TypeOK
<1>10. CallsFitRecords'
  <2>1. /\ rpc'[Poller(g)] = rpc[Poller(g)]
        /\ \A h \in Agents : h # g => rpc'[Poller(h)] = rpc[Poller(h)] /\ rpc'[Api(h)] = rpc[Api(h)]
        /\ rpc'[Api(g)] = Idle
    BY <1>2, AgentThreads DEF TypeOK
  <2>2. \A q : ReportFits(g, q) => ReportFits(g, q)'
    <3>1. local'[g][a].st = local[g][a].st
      BY <1>4, <1>5
    <3>. QED
      BY <1>1, <1>5, <3>1, ReportsKept
  <2>4. rpc[Poller(g)].act \in Actions \cup {NoAct}
    BY AgentThreads DEF TypeOK, Rpc
  <2>5. CallsFit(g)'
    <3>1. CallsFit(g)
      BY DEF CallsFitRecords
    <3>2. \A q \in late' : q.agent = g => q.cmd = "claim_next" \/ ReportFits(g, q)'
      BY <1>2, <2>2, <3>1 DEF CallsFit
    <3>. QED
      BY <1>1, <1>2, <1>4, <1>5, <2>1, <2>4, <3>1, <3>2, IdleFacts DEF CallsFit
  <2>6. \A h \in Agents : h # g => CallsFit(h)'
    BY <1>2, <1>5, <2>1, OtherAgentsFit
  <2>. QED
    BY <2>5, <2>6 DEF CallsFitRecords
<1>. QED
  BY <1>6, <1>7, <1>9, <1>10

LEMMA NextIInv == IInv /\ [Next]_vars => IInv'
<1> SUFFICES ASSUME IInv, [Next]_vars PROVE IInv'
  OBVIOUS
<1>1. CASE UNCHANGED vars
  BY <1>1 DEF vars, IInv, TypeOK, StoresAgree, ClaimOnlyWhenFree, OwnedIffClaimed,
              ConsumedMatchesStatus, CallsFitRecords, CallsFit, ReportFits, Active
<1>2. CASE Normal
  BY <1>2, CreateStep, ServeStep, CallStep, PollClaimStep, PollSaveStep, ApiConsumeStep,
     ApiRunningStep, ApiTerminalStep, ApiReportedStep DEF Normal
<1>3. CASE Fault
  BY <1>3, CrashStep, MasterRestartStep, ServeLateStep, CallStep, RestartStep DEF Fault
<1>. QED
  BY <1>1, <1>2, <1>3 DEF Next

-----------------------------------------------------------------------------
(* The inductive invariant holds: the state of both stores and of every    *)
(* request in flight fits together (ActionStore, AgentActionStore,         *)
(* WorkflowClient), for any number of agents and actions.                  *)
THEOREM Invariance == Spec => []IInv
BY InitIInv, NextIInv, PTL DEF Spec

(* Every variable keeps its type.                                          *)
THEOREM TypeCorrect == Spec => []TypeOK
<1>1. IInv => TypeOK
  BY DEF IInv
<1>. QED
  BY <1>1, Invariance, PTL

(* The master's store and the agents' stores never contradict each other,  *)
(* whatever is lost, repeated, served late or crashed.                     *)
THEOREM StoresAlwaysAgree == Spec => []StoresAgree
<1>1. IInv => StoresAgree
  BY DEF IInv
<1>. QED
  BY <1>1, Invariance, PTL

(* An agent never has two active actions, nor a claim on its way while it  *)
(* has one (AgentPoller.poll_once, AgentActionStore.save).                 *)
THEOREM ClaimsOnlyWhenFree == Spec => []ClaimOnlyWhenFree
<1>1. IInv => ClaimOnlyWhenFree
  BY DEF IInv
<1>. QED
  BY <1>1, Invariance, PTL

-----------------------------------------------------------------------------
(* Refinement: each request the master serves is one step of the lifecycle *)
(* or leaves the store alone.                                              *)

LEMMA HandleRefines ==
  ASSUME IInv, NEW g \in Agents, NEW q, NEW ok \in BOOLEAN,
         NEW out \in Actions \cup {NoAct},
         q.cmd = "claim_next" \/ ReportFits(g, q),
         Handle(g, q, ok, out)
  PROVE  [Lifecycle!Next]_Lifecycle!vars
<1> USE DEF Lifecycle!Next, Lifecycle!vars, Lifecycle!Move
<1>1. CASE ~ok \/ (q.cmd = "claim_next" /\ out = NoAct)
  <2>1. UNCHANGED <<status, claimedBy>>
    BY <1>1, ActionsAssumption, EligibleAssumption
       DEF Handle, ClaimNext, MarkRunning, MarkTerminal, ReportFits, masterStore,
           IsFirst, Pending
  <2>. QED
    BY <2>1
<1>2. CASE ok /\ q.cmd = "claim_next" /\ out # NoAct
  <2>1. /\ out \in Pending(g) /\ claimedBy[out] = NoAgent
        /\ status' = [status EXCEPT ![out] = "claimed"]
        /\ claimedBy' = [claimedBy EXCEPT ![out] = g]
    BY <1>2 DEF Handle, ClaimNext, IsFirst
  <2>2. Lifecycle!Claim(g, out)
    BY <2>1 DEF Pending, Lifecycle!Claim
  <2>. QED
    BY <1>2, <2>2
<1>3. CASE ok /\ q.cmd = "mark_running"
  <2>1. q.act \in Actions /\ MarkRunning(g, q.act, ok)
    BY <1>3 DEF Handle, ReportFits
  <2>2. Lifecycle!Start(g, q.act)
    BY <1>3, <2>1 DEF MarkRunning, Lifecycle!Start
  <2>. QED
    BY <2>1, <2>2
<1>4. CASE ok /\ q.cmd = "mark_terminal"
  <2>1. /\ q.act \in Actions /\ q.to \in Outcomes /\ claimedBy[q.act] = g
        /\ status[q.act] \in {"running", q.to}
        /\ status' = [status EXCEPT ![q.act] = q.to] /\ UNCHANGED claimedBy
    BY <1>4 DEF Handle, ReportFits, MarkTerminal
  <2>2. CASE status[q.act] = "running"
    <3>1. Lifecycle!Finish(g, q.act, q.to)
      BY <2>1, <2>2 DEF Lifecycle!Finish
    <3>. QED
      BY <2>1, <3>1
  <2>3. CASE status[q.act] = q.to
    <3>1. status' = status
      BY <2>1, <2>3 DEF IInv, TypeOK
    <3>. QED
      BY <2>1, <3>1
  <2>. QED
    BY <2>1, <2>2, <2>3
<1>. QED
  BY <1>1, <1>2, <1>3, <1>4 DEF Handle

LEMMA NextRefines == IInv /\ [Next]_vars => [Lifecycle!Next]_Lifecycle!vars
<1> SUFFICES ASSUME IInv, [Next]_vars PROVE [Lifecycle!Next]_Lifecycle!vars
  OBVIOUS
<1>1. ASSUME NEW a \in Actions, CreateAction(a) PROVE Lifecycle!Next
  BY <1>1 DEF CreateAction, Lifecycle!Next, Lifecycle!Create, Lifecycle!Move
<1>2. ASSUME NEW t \in Threads, MasterServe(t) PROVE [Lifecycle!Next]_Lifecycle!vars
  <2>1. PICK ok \in BOOLEAN, out \in Actions \cup {NoAct} : Handle(t[1], rpc[t], ok, out)
    BY <1>2 DEF MasterServe
  <2>2. t[1] \in Agents /\ (rpc[t].cmd = "claim_next" \/ ReportFits(t[1], rpc[t]))
    BY <1>2, ThreadForms DEF IInv, CallsFitRecords, CallsFit, MasterServe
  <2>. QED
    BY <2>1, <2>2, HandleRefines
<1>3. ASSUME NEW q \in late, MasterServeLate(q) PROVE [Lifecycle!Next]_Lifecycle!vars
  <2>1. PICK ok \in BOOLEAN, out \in Actions \cup {NoAct} : Handle(q.agent, q, ok, out)
    BY <1>3 DEF MasterServeLate
  <2>2. q.agent \in Agents
    BY DEF IInv, TypeOK, LateRequest
  <2>3. q.cmd = "claim_next" \/ ReportFits(q.agent, q)
    BY <2>2 DEF IInv, CallsFitRecords, CallsFit
  <2>. QED
    BY <2>1, <2>2, <2>3, HandleRefines
<1>4. CASE UNCHANGED <<status, claimedBy>>
  BY <1>4 DEF Lifecycle!vars
<1>5. CASE UNCHANGED vars
  BY <1>4, <1>5 DEF vars
<1>6. CASE Normal
  BY <1>1, <1>2, <1>4, <1>6
     DEF Normal, CallFailed, PollClaim, PollSave, ApiConsume, ApiRunningReported,
         ApiTerminalReported, ApiTerminal
<1>7. CASE Fault
  BY <1>3, <1>4, <1>7
     DEF Fault, MasterCrash, MasterRestart, Timeout, AgentRestart
<1>. QED
  BY <1>5, <1>6, <1>7 DEF Next

(* What the master records follows the lifecycle of an action: one claim,  *)
(* one start, one outcome, all by the same eligible agent, although        *)
(* requests are repeated and served after their client gave up.            *)
THEOREM ImplementsActionLifecycle == Spec => ImplementsLifecycle
<1>1. Init => Lifecycle!Init
  BY DEF Init, Lifecycle!Init
<1>. QED
  BY <1>1, NextRefines, Invariance, PTL DEF Spec, ImplementsLifecycle, Lifecycle!Spec

-----------------------------------------------------------------------------
(* A record that is written moves forward, one that is not stays.          *)
LEMMA StaysForward ==
  ASSUME IInv, NEW g \in Agents, NEW a \in Actions, local'[g][a] = local[g][a]
  PROVE  Forward(local[g][a], local[g][a]')
<1>1. local[g][a].st \in LocalStatus
  BY DEF IInv, TypeOK, LocalRecord
<1>2. Rank(local[g][a].st) <= Rank(local[g][a].st)
  BY <1>1 DEF Rank, LocalStatus, Terminal
<1>. QED
  BY <1>2 DEF Forward

LEMMA WriteForward ==
  ASSUME IInv, NEW g \in Agents, NEW a \in Actions, NEW r \in LocalRecord,
         Write(g, a, r), Forward(local[g][a], r)
  PROVE  LocalForward
<1>1. /\ local'[g][a] = r
      /\ \A h \in Agents, b \in Actions : h # g \/ b # a => local'[h][b] = local[h][b]
  BY RecordUpdate DEF IInv
<1>2. ASSUME NEW h \in Agents, NEW b \in Actions
      PROVE  Forward(local[h][b], local[h][b]')
  <2>1. CASE h = g /\ b = a
    BY <1>1, <2>1
  <2>2. CASE h # g \/ b # a
    BY <1>1, <2>2, StaysForward
  <2>. QED
    BY <2>1, <2>2
<1>. QED
  BY <1>2 DEF LocalForward

(* The records before the writes, from the invariant.                      *)
LEMMA RecordFacts ==
  ASSUME IInv, NEW g \in Agents, NEW a \in Actions
  PROVE  /\ local[g][a] \in LocalRecord
         /\ local[g][a].consumed => local[g][a].st \notin {"absent", "claimed"}
         /\ local[g][a].reported => local[g][a].st \in Terminal
BY DEF IInv, TypeOK, ConsumedMatchesStatus, StoresAgree

LEMMA PollSaveForward ==
  ASSUME IInv, NEW g \in Agents, PollSave(g)
  PROVE  LocalForward
<1> DEFINE a == rpc[Poller(g)].act
           new == [st |-> "claimed", consumed |-> FALSE, reported |-> FALSE]
<1>1. CASE a # NoAct /\ Active(g) = {}
  <2>1. a \in Actions /\ local[g][a].st = "absent"
    BY <1>1, AgentThreads DEF PollSave, IInv, TypeOK, Rpc, CallsFitRecords, CallsFit
  <2>2. Write(g, a, new) /\ new \in LocalRecord
    BY <1>1 DEF PollSave, LocalRecord, LocalStatus
  <2>3. Forward(local[g][a], new)
    BY <2>1, RecordFacts DEF Forward, Rank, Terminal
  <2>. QED
    BY <2>1, <2>2, <2>3, WriteForward
<1>2. CASE ~(a # NoAct /\ Active(g) = {})
  <2>1. UNCHANGED local
    BY <1>2 DEF PollSave
  <2>. QED
    BY <2>1, StaysForward DEF LocalForward
<1>. QED
  BY <1>1, <1>2

LEMMA ApiConsumeForward ==
  ASSUME IInv, NEW g \in Agents, ApiConsume(g)
  PROVE  LocalForward
<1>1. PICK a \in Actions :
        /\ local[g][a].st = "claimed"
        /\ Write(g, a, [local[g][a] EXCEPT !.st = "consumed", !.consumed = TRUE])
  BY DEF ApiConsume
<1> DEFINE new == [local[g][a] EXCEPT !.st = "consumed", !.consumed = TRUE]
<1>2. local[g][a] \in LocalRecord
  BY RecordFacts
<1>3. /\ new \in LocalRecord /\ new.st = "consumed" /\ new.consumed
      /\ new.reported = local[g][a].reported
  BY <1>2 DEF LocalRecord, LocalStatus
<1>4. Rank("claimed") <= Rank("consumed") /\ "claimed" \notin Terminal
  BY DEF Rank, Terminal
<1>5. Forward(local[g][a], new)
  BY <1>1, <1>3, <1>4 DEF Forward
<1>. QED
  BY <1>1, <1>3, <1>5, WriteForward

LEMMA ApiRunningForward ==
  ASSUME IInv, NEW g \in Agents, ApiRunningReported(g)
  PROVE  LocalForward
<1> DEFINE a == rpc[Api(g)].act
           new == [local[g][a] EXCEPT !.st = "running"]
<1>1. a \in Actions
  BY AgentThreads DEF ApiRunningReported, IInv, CallsFitRecords, CallsFit, ReportFits
<1>2. Write(g, a, new) /\ local[g][a].st \in {"claimed", "consumed"}
  BY DEF ApiRunningReported
<1>3. local[g][a] \in LocalRecord
  BY <1>1, RecordFacts
<1>4. /\ new \in LocalRecord /\ new.st = "running"
      /\ new.consumed = local[g][a].consumed /\ new.reported = local[g][a].reported
  BY <1>3 DEF LocalRecord, LocalStatus
<1>5. \A st \in {"claimed", "consumed"} : Rank(st) <= Rank("running") /\ st \notin Terminal
  BY DEF Rank, Terminal
<1>6. Forward(local[g][a], new)
  BY <1>2, <1>4, <1>5 DEF Forward
<1>. QED
  BY <1>1, <1>2, <1>4, <1>6, WriteForward

LEMMA ApiTerminalForward ==
  ASSUME IInv, NEW g \in Agents, NEW s \in Outcomes, ApiTerminal(g, s)
  PROVE  LocalForward
<1>1. PICK a \in Actions :
        \/ UNCHANGED local
        \/ /\ local[g][a].st = "running"
           /\ Write(g, a, [local[g][a] EXCEPT !.st = s, !.reported = FALSE])
  BY DEF ApiTerminal
<1>2. CASE UNCHANGED local
  BY <1>2, StaysForward DEF LocalForward
<1>3. CASE /\ local[g][a].st = "running"
           /\ Write(g, a, [local[g][a] EXCEPT !.st = s, !.reported = FALSE])
  <2> DEFINE new == [local[g][a] EXCEPT !.st = s, !.reported = FALSE]
  <2>1. local[g][a] \in LocalRecord /\ ~local[g][a].reported
    BY <1>3, RecordFacts DEF Terminal
  <2>2. s \in Terminal
    BY OutcomesAssumption DEF Terminal
  <2>3. new \in LocalRecord /\ new.st = s /\ new.consumed = local[g][a].consumed
    BY <2>1, <2>2 DEF LocalRecord, LocalStatus
  <2>4. Rank("running") <= Rank(s) /\ "running" \notin Terminal
    BY <2>2 DEF Rank, Terminal
  <2>5. Forward(local[g][a], new)
    BY <1>3, <2>1, <2>3, <2>4 DEF Forward
  <2>. QED
    BY <1>3, <2>3, <2>5, WriteForward
<1>. QED
  BY <1>1, <1>2, <1>3

LEMMA ApiReportedForward ==
  ASSUME IInv, NEW g \in Agents, ApiTerminalReported(g)
  PROVE  LocalForward
<1> DEFINE a == rpc[Api(g)].act
           new == [local[g][a] EXCEPT !.reported = TRUE]
<1>1. a \in Actions
  BY AgentThreads DEF ApiTerminalReported, IInv, CallsFitRecords, CallsFit, ReportFits
<1>2. Write(g, a, new)
  BY DEF ApiTerminalReported
<1>3. local[g][a] \in LocalRecord
  BY <1>1, RecordFacts
<1>4. /\ new \in LocalRecord /\ new.st = local[g][a].st
      /\ new.consumed = local[g][a].consumed /\ new.reported
  BY <1>3 DEF LocalRecord
<1>5. Rank(new.st) <= Rank(new.st)
  BY <1>4 DEF Rank, LocalRecord, LocalStatus, Terminal
<1>6. Forward(local[g][a], new)
  BY <1>4, <1>5 DEF Forward
<1>. QED
  BY <1>1, <1>2, <1>4, <1>6, WriteForward

LEMMA NextForward == IInv /\ [Next]_vars => [LocalForward]_vars
<1> SUFFICES ASSUME IInv, [Next]_vars PROVE LocalForward \/ UNCHANGED vars
  OBVIOUS
<1>1. CASE UNCHANGED local
  BY <1>1, StaysForward DEF LocalForward
<1>2. CASE Normal
  BY <1>1, <1>2, PollSaveForward, ApiConsumeForward, ApiRunningForward, ApiTerminalForward,
     ApiReportedForward DEF Normal, CreateAction, MasterServe, CallFailed, PollClaim
<1>3. CASE Fault
  BY <1>1, <1>3 DEF Fault, MasterCrash, MasterRestart, MasterServeLate, Timeout, AgentRestart
<1>. QED
  BY <1>2, <1>3 DEF Next

(* No late answer, repeated report or second claim ever takes an agent's   *)
(* record of an action back, gives it another outcome or reopens it        *)
(* (AgentActionStore), for any number of agents and actions.               *)
THEOREM RecordsNeverRegress == Spec => LocalNeverRegresses
BY Invariance, NextForward, PTL DEF Spec, LocalNeverRegresses

-----------------------------------------------------------------------------
(* The sensing entrypoint on top of the workflow.                          *)
Orchestrated == INSTANCE OrchestrationProofs
                  WITH Orchestrations <- Runs, NoOrch <- NoRun

ForwardedStart == [stage : {"idle", "sent", "ok", "error"}, act : Actions \cup {NoAct}]

RequestTypeOK ==
  /\ run \in [Runs -> RunStates] /\ wants \in [Runs -> Actions \cup {NoAct}]
  /\ serving \in Runs \cup {NoRun} /\ forward \in ForwardedStart
  /\ lateStarts \subseteq Runs

(* The other agents are seen only through the lifecycle.                   *)
OthersIdle ==
  /\ \A g \in Agents \ {Station} :
       /\ rpc[Poller(g)] = Idle /\ rpc[Api(g)] = Idle
       /\ \A a \in Actions : local[g][a].st = "absent"
  /\ \A q \in late : q.agent = Station

(* While a start is on its way, the server works on that request alone.    *)
ForwardFits ==
  /\ forward.stage = "idle" => forward = NotForwarded
  /\ forward # NotForwarded => /\ rpc[Api(Station)] = Idle /\ serving \in Runs
                               /\ run[serving] \in {"starting", "failed"}

(* The action a run executes is recorded as running at the agent.          *)
ExecutingFits ==
  \A r \in Runs :
    run[r] = "executing" => /\ wants[r] \in Actions
                            /\ local[Station][wants[r]].st = "running"
                            /\ \A q \in Runs : run[q] = "executing" => q = r

RequestInv == IInv /\ RequestTypeOK /\ OthersIdle /\ ForwardFits /\ ExecutingFits

-----------------------------------------------------------------------------
LEMMA RunningIsActive ==
  ASSUME IInv, NEW a \in Actions, local[Station][a].st = "running"
  PROVE  Active(Station) = {a} /\ status[a] = "running" /\ claimedBy[a] = Station
<1>1. a \in Active(Station)
  BY DEF Active, Terminal
<1>2. \A b \in Active(Station) : b = a
  BY <1>1, StationAssumption DEF IInv, ClaimOnlyWhenFree
<1>3. status[a] = "running" /\ claimedBy[a] = Station
  BY StationAssumption DEF IInv, StoresAgree
<1>. QED
  BY <1>1, <1>2, <1>3

(* A run that executes has the agent to itself.                            *)
LEMMA InvExecutes == RequestInv => ExecutesItsOwn
<1> SUFFICES ASSUME RequestInv, NEW r \in Runs, run[r] = "executing"
             PROVE  /\ Active(Station) = {wants[r]}
                    /\ status[wants[r]] = "running" /\ claimedBy[wants[r]] = Station
                    /\ \A q \in Runs \ {r} : run[q] # "executing"
  BY DEF ExecutesItsOwn
<1>1. wants[r] \in Actions /\ local[Station][wants[r]].st = "running"
  BY DEF RequestInv, ExecutingFits
<1>2. \A q \in Runs \ {r} : run[q] # "executing"
  BY DEF RequestInv, ExecutingFits
<1>. QED
  BY <1>1, <1>2, RunningIsActive DEF RequestInv

LEMMA RequestsInitially == RequestInit => RequestInv
<1> SUFFICES ASSUME RequestInit PROVE RequestInv
  OBVIOUS
<1>1. IInv
  BY InitIInv DEF RequestInit
<1>2. RequestTypeOK
  BY DEF RequestInit, RequestTypeOK, RunStates, ForwardedStart, NotForwarded
<1>3. OthersIdle
  BY AgentThreads DEF RequestInit, Init, OthersIdle, Absent
<1>4. ForwardFits /\ ExecutingFits
  BY DEF RequestInit, ForwardFits, ExecutingFits, NotForwarded
<1>. QED
  BY <1>1, <1>2, <1>3, <1>4 DEF RequestInv

-----------------------------------------------------------------------------
(* Steps that leave the workflow alone: a run begins, ends or is answered. *)

LEMMA WorkflowUntouched ==
  ASSUME RequestInv, UNCHANGED vars
  PROVE  IInv' /\ OthersIdle' /\ UNCHANGED <<rpc, local>>
<1>1. IInv'
  BY NextIInv DEF RequestInv
<1>2. OthersIdle' /\ UNCHANGED <<rpc, local>>
  BY DEF RequestInv, OthersIdle, vars
<1>. QED
  BY <1>1, <1>2

(* Nobody starts to execute, and those who do keep what they execute.      *)
LEMMA FewerExecute ==
  ASSUME ExecutingFits,
         \A r \in Runs : run'[r] = "executing" =>
           /\ run[r] = "executing" /\ wants'[r] = wants[r]
           /\ local'[Station][wants[r]].st = "running"
  PROVE  ExecutingFits'
BY DEF ExecutingFits

LEMMA RequestStartKeeps ==
  ASSUME RequestInv, NEW r \in Runs, RequestStart(r)
  PROVE  RequestInv'
<1> USE DEF RequestInv, RequestStart
<1>1. IInv' /\ OthersIdle' /\ UNCHANGED <<rpc, local>>
  BY WorkflowUntouched
<1>2. PICK s \in {"sent", "error"} : forward' = [stage |-> s, act |-> NoAct]
  OBVIOUS
<1>3. RequestTypeOK'
  BY <1>2 DEF RequestTypeOK, RunStates, ForwardedStart
<1>4. ForwardFits'
  BY <1>1, <1>2 DEF ForwardFits, ServerFree, RequestTypeOK, NotForwarded
<1>5. ExecutingFits'
  BY <1>1, FewerExecute DEF RequestTypeOK, ExecutingFits
<1>. QED
  BY <1>1, <1>3, <1>4, <1>5

LEMMA RunEndsKeeps ==
  ASSUME RequestInv, NEW r \in Runs, DeadlinePasses(r) \/ RunKilled(r)
  PROVE  RequestInv'
<1> USE DEF RequestInv
<1>0. /\ run' = [run EXCEPT ![r] = "failed"]
      /\ UNCHANGED <<vars, wants, serving, forward, lateStarts>>
  BY DEF DeadlinePasses, RunKilled, forwarding
<1>1. IInv' /\ OthersIdle' /\ UNCHANGED <<rpc, local>>
  BY <1>0, WorkflowUntouched
<1>3. RequestTypeOK'
  BY <1>0 DEF RequestTypeOK, RunStates
<1>4. ForwardFits'
  BY <1>0, <1>1 DEF ForwardFits, RequestTypeOK
<1>5. ExecutingFits'
  BY <1>0, <1>1, FewerExecute DEF RequestTypeOK, ExecutingFits
<1>. QED
  BY <1>1, <1>3, <1>4, <1>5

(* An answer that makes nobody execute.                                    *)
LEMMA AnswerEffect ==
  ASSUME RequestTypeOK, NEW old, NEW new \in RunStates, new # "executing",
         Answer(old, new)
  PROVE  /\ serving' = NoRun /\ run' \in [Runs -> RunStates]
         /\ \A r \in Runs : run'[r] = "executing" => run[r] = "executing"
BY DEF RequestTypeOK, Answer

LEMMA StartAnsweredKeeps ==
  ASSUME RequestInv, StartAnswered
  PROVE  RequestInv'
<1> USE DEF RequestInv
<1>1. IInv' /\ OthersIdle' /\ UNCHANGED <<rpc, local>>
  BY WorkflowUntouched DEF StartAnswered
<1>2. PICK new \in {"waiting", "failed"} : Answer("starting", new)
  BY DEF StartAnswered
<1>3. /\ serving' = NoRun /\ run' \in [Runs -> RunStates]
      /\ \A r \in Runs : run'[r] = "executing" => run[r] = "executing"
  BY <1>2, AnswerEffect DEF RunStates
<1>4. /\ serving \in Runs /\ run[serving] \in {"starting", "failed"}
      /\ wants' = [wants EXCEPT ![serving] = forward.act] /\ forward' = NotForwarded
      /\ lateStarts' = lateStarts
  BY StationAssumption DEF StartAnswered, ForwardFits, NotForwarded
<1>5. RequestTypeOK'
  BY <1>3, <1>4 DEF RequestTypeOK, ForwardedStart, NotForwarded
<1>6. ForwardFits'
  BY <1>4 DEF ForwardFits
<1>7. ExecutingFits'
  BY <1>1, <1>3, <1>4, FewerExecute DEF RequestTypeOK, ExecutingFits
<1>. QED
  BY <1>1, <1>5, <1>6, <1>7

LEMMA StartLostKeeps ==
  ASSUME RequestInv, StartLost
  PROVE  RequestInv'
<1> USE DEF RequestInv, StartLost
<1>1. IInv' /\ OthersIdle' /\ UNCHANGED <<rpc, local>>
  BY WorkflowUntouched
<1>2. RequestTypeOK'
  BY DEF RequestTypeOK, ForwardedStart, AbandonStart, ForwardFits, NotForwarded
<1>3. ForwardFits'
  BY <1>1 DEF ForwardFits, NotForwarded
<1>4. ExecutingFits'
  BY <1>1, FewerExecute DEF ExecutingFits
<1>. QED
  BY <1>1, <1>2, <1>3, <1>4

-----------------------------------------------------------------------------
(* Steps of the station's threads and of the master for them.              *)

LEMMA OthersStay ==
  ASSUME OthersIdle,
         \A g \in Agents \ {Station} :
           /\ rpc'[Poller(g)] = rpc[Poller(g)] /\ rpc'[Api(g)] = rpc[Api(g)]
           /\ \A a \in Actions : local'[g][a].st = local[g][a].st,
         \A q \in late' : q \in late \/ q.agent = Station
  PROVE  OthersIdle'
BY DEF OthersIdle

(* One thread of the station, and records of the station, change.          *)
LEMMA StationOnly ==
  ASSUME IInv, OthersIdle,
         NEW t \in {Poller(Station), Api(Station)},
         \A u \in Threads : u # t => rpc'[u] = rpc[u],
         \A g \in Agents \ {Station} : \A a \in Actions : local'[g][a].st = local[g][a].st,
         \A q \in late' : q \in late \/ q.agent = Station
  PROVE  OthersIdle'
BY AgentThreads, StationAssumption, OthersStay

LEMMA ForwardStays ==
  ASSUME ForwardFits, UNCHANGED <<forward, serving, run>>,
         rpc[Api(Station)] = Idle => rpc'[Api(Station)] = Idle
  PROVE  ForwardFits'
BY DEF ForwardFits

LEMMA ConsumeKeeps ==
  ASSUME RequestInv, NEW r \in Runs, Consume(r)
  PROVE  RequestInv'
<1> USE DEF RequestInv
<1>1. PICK a \in Actions :
        /\ local[Station][a].st = "claimed"
        /\ Write(Station, a, [local[Station][a] EXCEPT !.st = "consumed", !.consumed = TRUE])
        /\ Send(Api(Station), "mark_running", a, "none")
  BY DEF Consume, ApiConsume
<1>2. /\ run' = [run EXCEPT ![r] = "consuming"] /\ serving' = r
      /\ UNCHANGED <<wants, forward, lateStarts, late>> /\ forward = NotForwarded
  BY DEF Consume, forwarding, ServerFree, ApiConsume
<1>3. IInv'
  BY StationAssumption, ApiConsumeStep DEF Consume
<1>4. RequestTypeOK'
  BY <1>2 DEF RequestTypeOK, RunStates
<1>5. OthersIdle'
  <2>1. \A u \in Threads : u # Api(Station) => rpc'[u] = rpc[u]
    BY <1>1 DEF Send, IInv, TypeOK
  <2>2. \A g \in Agents \ {Station} : local'[g] = local[g]
    BY <1>1 DEF Write, IInv, TypeOK
  <2>. QED
    BY <1>2, <2>1, <2>2, StationOnly
<1>6. ForwardFits'
  BY <1>2 DEF ForwardFits
<1>7. ExecutingFits'
  <2>1. \A q \in Runs : run[q] # "executing"
    <3>1. a \in Active(Station)
      BY <1>1 DEF Active, Terminal
    <3>. QED
      BY <1>1, <3>1, RunningIsActive DEF ExecutingFits
  <2>. QED
    BY <1>2, <2>1 DEF ExecutingFits, RequestTypeOK
<1>. QED
  BY <1>3, <1>4, <1>5, <1>6, <1>7

(* A terminal report by the agent's server changes nothing of the others.  *)
LEMMA TerminalEffect ==
  ASSUME RequestInv, NEW s \in Outcomes, ApiTerminal(Station, s)
  PROVE  IInv' /\ OthersIdle'
<1> USE DEF RequestInv
<1>1. IInv'
  BY StationAssumption, ApiTerminalStep
<1>2. PICK a \in Actions :
        /\ \/ UNCHANGED local
           \/ Write(Station, a, [local[Station][a] EXCEPT !.st = s, !.reported = FALSE])
        /\ Send(Api(Station), "mark_terminal", a, s)
  BY DEF ApiTerminal
<1>3. \A u \in Threads : u # Api(Station) => rpc'[u] = rpc[u]
  BY <1>2 DEF Send, IInv, TypeOK
<1>4. \A g \in Agents \ {Station} : local'[g] = local[g]
  BY <1>2 DEF Write, IInv, TypeOK
<1>5. late' = late
  BY DEF ApiTerminal
<1>6. OthersIdle'
  BY <1>3, <1>4, <1>5, StationOnly
<1>. QED
  BY <1>1, <1>6

LEMMA ReportKeeps ==
  ASSUME RequestInv, NEW r \in Runs, NEW s \in Outcomes, Report(r, s)
  PROVE  RequestInv'
<1> USE DEF RequestInv
<1>1. IInv' /\ OthersIdle'
  BY TerminalEffect DEF Report
<1>2. /\ run[r] = "executing" /\ run' = [run EXCEPT ![r] = "reporting"] /\ serving' = r
      /\ UNCHANGED <<wants, forward, lateStarts>> /\ forward = NotForwarded
  BY DEF Report, forwarding, ServerFree
<1>3. RequestTypeOK'
  BY <1>2 DEF RequestTypeOK, RunStates
<1>4. ForwardFits'
  BY <1>2 DEF ForwardFits
<1>5. ExecutingFits'
  BY <1>2 DEF ExecutingFits, RequestTypeOK
<1>. QED
  BY <1>1, <1>3, <1>4, <1>5

LEMMA ConsumeAnsweredKeeps ==
  ASSUME RequestInv, ConsumeAnswered
  PROVE  RequestInv'
<1> DEFINE a == rpc[Api(Station)].act
<1> USE DEF RequestInv
<1>1. /\ a \in Actions /\ local[Station][a].st \in {"claimed", "consumed"}
      /\ Write(Station, a, [local[Station][a] EXCEPT !.st = "running"])
      /\ rpc[Api(Station)].stage = "ok" /\ rpc' = [rpc EXCEPT ![Api(Station)] = Idle]
      /\ UNCHANGED <<late, wants, forward, lateStarts>>
  BY StationAssumption
     DEF ConsumeAnswered, ApiRunningReported, IInv, CallsFitRecords, CallsFit, ReportFits,
         forwarding
<1>2. IInv'
  BY StationAssumption, ApiRunningStep DEF ConsumeAnswered
<1>3. forward = NotForwarded
  BY <1>1, IdleFacts DEF ForwardFits
<1>4. OthersIdle'
  <2>1. \A u \in Threads : u # Api(Station) => rpc'[u] = rpc[u]
    BY <1>1 DEF IInv, TypeOK
  <2>2. \A g \in Agents \ {Station} : local'[g] = local[g]
    BY <1>1 DEF Write, IInv, TypeOK
  <2>. QED
    BY <1>1, <2>1, <2>2, StationOnly
<1>5. PICK new \in {"executing", "failed"} :
        /\ Answer("consuming", new)
        /\ new = "executing" => serving # NoRun /\ wants[serving] = a
  BY DEF ConsumeAnswered
<1>6. RequestTypeOK'
  BY <1>1, <1>5 DEF RequestTypeOK, Answer, RunStates
<1>7. ForwardFits'
  BY <1>1, <1>3 DEF ForwardFits
<1>8. ExecutingFits'
  <2>1. \A q \in Runs : run[q] # "executing"
    <3>1. a \in Active(Station)
      BY <1>1 DEF Active, Terminal
    <3>. QED
      BY <1>1, <3>1, RunningIsActive DEF ExecutingFits
  <2>2. local'[Station][a].st = "running"
    BY <1>1, StationAssumption DEF Write, IInv, TypeOK, LocalRecord
  <2>3. \A q \in Runs : run'[q] = "executing" => q = serving /\ wants[q] = a
    BY <1>5, <2>1 DEF Answer, RequestTypeOK
  <2>. QED
    BY <1>1, <2>2, <2>3 DEF ExecutingFits
<1>. QED
  BY <1>2, <1>4, <1>6, <1>7, <1>8

LEMMA ReportAnsweredKeeps ==
  ASSUME RequestInv, ReportAnswered
  PROVE  RequestInv'
<1> DEFINE a == rpc[Api(Station)].act
<1> USE DEF RequestInv
<1>1. /\ a \in Actions
      /\ Write(Station, a, [local[Station][a] EXCEPT !.reported = TRUE])
      /\ rpc[Api(Station)].stage = "ok" /\ rpc' = [rpc EXCEPT ![Api(Station)] = Idle]
      /\ UNCHANGED <<late, wants, forward, lateStarts>>
  BY StationAssumption
     DEF ReportAnswered, ApiTerminalReported, IInv, CallsFitRecords, CallsFit, ReportFits,
         forwarding
<1>2. IInv'
  BY StationAssumption, ApiReportedStep DEF ReportAnswered
<1>3. forward = NotForwarded
  BY <1>1, IdleFacts DEF ForwardFits
<1>4. \A g \in Agents, b \in Actions : local'[g][b].st = local[g][b].st
  BY <1>1, StationAssumption DEF Write, IInv, TypeOK, LocalRecord
<1>5. OthersIdle'
  <2>1. \A u \in Threads : u # Api(Station) => rpc'[u] = rpc[u]
    BY <1>1 DEF IInv, TypeOK
  <2>. QED
    BY <1>1, <1>4, <2>1, StationOnly
<1>6. /\ serving' = NoRun /\ run' \in [Runs -> RunStates]
      /\ \A r \in Runs : run'[r] = "executing" => run[r] = "executing"
  BY AnswerEffect DEF ReportAnswered, RunStates
<1>7. RequestTypeOK'
  BY <1>1, <1>6 DEF RequestTypeOK
<1>8. ForwardFits'
  BY <1>1, <1>3 DEF ForwardFits
<1>9. ExecutingFits'
  BY <1>1, <1>4, <1>6, StationAssumption, FewerExecute DEF ExecutingFits
<1>. QED
  BY <1>2, <1>5, <1>7, <1>8, <1>9

(* A run whose request failed makes nobody execute.                        *)
LEMMA FailEffect ==
  ASSUME RequestTypeOK, FailServed
  PROVE  /\ serving' = NoRun /\ run' \in [Runs -> RunStates]
         /\ \A r \in Runs : run'[r] = "executing" => run[r] = "executing"
BY AnswerEffect DEF FailServed, RunStates

LEMMA RequestGivenUpKeeps ==
  ASSUME RequestInv, RequestFailed \/ RequestTimeout
  PROVE  RequestInv'
<1> USE DEF RequestInv
<1>1. /\ CallFailed(Api(Station)) \/ Timeout(Api(Station))
      /\ rpc[Api(Station)].stage # "idle"
      /\ rpc' = [rpc EXCEPT ![Api(Station)] = Idle]
      /\ FailServed
      /\ UNCHANGED <<local, wants, forward, lateStarts>>
  BY DEF RequestFailed, RequestTimeout, CallFailed, Timeout, forwarding
<1>2. IInv'
  BY <1>1, AgentThreads, StationAssumption, CallStep
<1>3. forward = NotForwarded
  BY <1>1, IdleFacts DEF ForwardFits
<1>4. \A q \in late' : q \in late \/ q.agent = Station
  BY <1>1, AgentThreads, StationAssumption DEF CallFailed, Timeout, Abandon
<1>5. OthersIdle'
  <2>1. \A u \in Threads : u # Api(Station) => rpc'[u] = rpc[u]
    BY <1>1 DEF IInv, TypeOK
  <2>. QED
    BY <1>1, <1>4, <2>1, StationOnly
<1>6. /\ serving' = NoRun /\ run' \in [Runs -> RunStates]
      /\ \A r \in Runs : run'[r] = "executing" => run[r] = "executing"
  BY <1>1, FailEffect
<1>7. RequestTypeOK'
  BY <1>1, <1>6 DEF RequestTypeOK
<1>8. ForwardFits'
  BY <1>1, <1>3 DEF ForwardFits
<1>9. ExecutingFits'
  BY <1>1, <1>6, FewerExecute DEF ExecutingFits
<1>. QED
  BY <1>2, <1>5, <1>7, <1>8, <1>9

LEMMA StationRestartsKeeps ==
  ASSUME RequestInv, StationRestarts
  PROVE  RequestInv'
<1> USE DEF RequestInv
<1>1. /\ AgentRestart(Station) \/ UNCHANGED vars
      /\ forward' = NotForwarded /\ AbandonStart /\ FailServed
      /\ UNCHANGED <<local, wants>>
  BY DEF StationRestarts, AgentRestart, vars
<1>2. IInv'
  BY <1>1, StationAssumption, RestartStep, WorkflowUntouched
<1>3. OthersIdle'
  <2>1. CASE AgentRestart(Station)
    <3>1. \A q \in late' : q \in late \/ q.agent = Station
      BY <2>1, AgentThreads, StationAssumption DEF AgentRestart, Abandon
    <3>2. rpc' = [rpc EXCEPT ![Poller(Station)] = Idle, ![Api(Station)] = Idle]
      BY <2>1 DEF AgentRestart
    <3>3. \A g \in Agents \ {Station} :
            rpc'[Poller(g)] = rpc[Poller(g)] /\ rpc'[Api(g)] = rpc[Api(g)]
      BY <3>2, AgentThreads, StationAssumption DEF IInv, TypeOK
    <3>. QED
      BY <1>1, <3>1, <3>3, OthersStay
  <2>. QED
    BY <1>1, <2>1, WorkflowUntouched
<1>4. /\ serving' = NoRun /\ run' \in [Runs -> RunStates]
      /\ \A r \in Runs : run'[r] = "executing" => run[r] = "executing"
  BY <1>1, FailEffect
<1>5. lateStarts' \subseteq Runs
  BY <1>1 DEF AbandonStart, ForwardFits, RequestTypeOK, NotForwarded
<1>6. RequestTypeOK'
  BY <1>1, <1>4, <1>5 DEF RequestTypeOK, ForwardedStart, NotForwarded
<1>7. ForwardFits'
  BY <1>1 DEF ForwardFits
<1>8. ExecutingFits'
  BY <1>1, <1>4, FewerExecute DEF ExecutingFits
<1>. QED
  BY <1>2, <1>3, <1>6, <1>7, <1>8

-----------------------------------------------------------------------------
(* Steps in which no run takes part.                                       *)

LEMMA RunsStay ==
  ASSUME RequestInv, UNCHANGED <<run, wants, serving, forward, lateStarts>>,
         \A a \in Actions : local[Station][a].st = "running" => local'[Station][a].st = "running",
         rpc[Api(Station)] = Idle => rpc'[Api(Station)] = Idle
  PROVE  RequestTypeOK' /\ ForwardFits' /\ ExecutingFits'
<1>1. RequestTypeOK' /\ ForwardFits'
  BY ForwardStays DEF RequestInv, RequestTypeOK
<1>2. ExecutingFits'
  BY FewerExecute DEF RequestInv, ExecutingFits
<1>. QED
  BY <1>1, <1>2

LEMMA PollerKeeps ==
  ASSUME RequestInv, UNCHANGED requestVars,
         \/ PollClaim(Station) \/ PollSave(Station)
         \/ CallFailed(Poller(Station)) \/ Timeout(Poller(Station))
  PROVE  RequestInv'
<1> USE DEF RequestInv
<1>1. IInv'
  BY StationAssumption, AgentThreads, PollClaimStep, PollSaveStep, CallStep
<1>2. \A u \in Threads : u # Poller(Station) => rpc'[u] = rpc[u]
  BY DEF PollClaim, PollSave, CallFailed, Timeout, Send, IInv, TypeOK
<1>3. \A q \in late' : q \in late \/ q.agent = Station
  BY AgentThreads, StationAssumption DEF PollClaim, PollSave, CallFailed, Timeout, Abandon
<1>4. \A g \in Agents \ {Station} : local'[g] = local[g]
  BY DEF PollClaim, PollSave, CallFailed, Timeout, Write, IInv, TypeOK
<1>5. OthersIdle'
  BY <1>2, <1>3, <1>4, StationOnly
<1>6. ASSUME NEW a \in Actions, local[Station][a].st = "running"
      PROVE  local'[Station][a].st = "running"
  <2>1. CASE PollSave(Station)
    <3>1. Active(Station) # {}
      BY <1>6, RunningIsActive
    <3>. QED
      BY <1>6, <2>1, <3>1 DEF PollSave
  <2>2. CASE UNCHANGED local
    BY <1>6, <2>2
  <2>. QED
    BY <2>1, <2>2 DEF PollClaim, CallFailed, Timeout
<1>7. rpc'[Api(Station)] = rpc[Api(Station)]
  BY <1>2, AgentThreads, StationAssumption
<1>. QED
  BY <1>1, <1>5, <1>6, <1>7, RunsStay DEF requestVars, forwarding

LEMMA MasterServeKeeps ==
  ASSUME RequestInv, UNCHANGED requestVars, NEW t \in Threads, MasterServe(t)
  PROVE  RequestInv'
<1> USE DEF RequestInv
<1>1. IInv'
  BY ServeStep
<1>2. rpc[t].stage = "sent" /\ UNCHANGED <<local, late>>
  BY DEF MasterServe
<1>3. t \in {Poller(Station), Api(Station)}
  BY <1>2, ThreadForms, IdleFacts DEF OthersIdle
<1>4. \A u \in Threads : u # t => rpc'[u] = rpc[u]
  BY DEF MasterServe, IInv, TypeOK
<1>5. OthersIdle'
  BY <1>2, <1>3, <1>4, StationOnly
<1>6. rpc[Api(Station)] = Idle => rpc'[Api(Station)] = Idle
  BY <1>2, <1>4, AgentThreads, StationAssumption, IdleFacts
<1>. QED
  BY <1>1, <1>2, <1>5, <1>6, RunsStay DEF requestVars, forwarding

LEMMA MasterStartedKeeps ==
  ASSUME RequestInv, MasterStarted
  PROVE  RequestInv'
<1>1. IInv'
  BY MasterRestartStep DEF RequestInv, MasterStarted, Quietly
<1>2. UNCHANGED <<requestVars, local, rpc, late>>
  BY DEF MasterStarted, Quietly, MasterRestart
<1>3. OthersIdle'
  BY <1>2 DEF RequestInv, OthersIdle
<1>. QED
  BY <1>1, <1>2, <1>3, RunsStay DEF RequestInv, requestVars, forwarding

(* The master's server ends: whoever waits for an answer gets an error.    *)
LEMMA ResetStays ==
  ASSUME RequestInv, ResetConnections, ForwardReset, UNCHANGED <<local, run, wants, serving>>
  PROVE  OthersIdle' /\ RequestTypeOK' /\ ForwardFits' /\ ExecutingFits'
<1> USE DEF RequestInv
<1>1. \A t \in Threads : rpc[t] = Idle => rpc'[t] = Idle
  BY IdleFacts DEF ResetConnections, IInv, TypeOK
<1>2. OthersIdle'
  BY <1>1, AgentThreads DEF OthersIdle, ResetConnections
<1>3. RequestTypeOK'
  BY DEF RequestTypeOK, ForwardReset, ForwardedStart
<1>4. rpc[Api(Station)] = Idle => rpc'[Api(Station)] = Idle
  BY <1>1, AgentThreads, StationAssumption
<1>5. ForwardFits'
  <2>1. CASE forward.stage = "sent"
    BY <1>4, <2>1 DEF ForwardFits, ForwardReset, NotForwarded, RequestTypeOK, ForwardedStart
  <2>2. CASE forward.stage # "sent"
    BY <1>4, <2>2, ForwardStays DEF ForwardReset
  <2>. QED
    BY <2>1, <2>2
<1>6. ExecutingFits'
  BY FewerExecute DEF ExecutingFits
<1>. QED
  BY <1>2, <1>3, <1>5, <1>6

LEMMA MasterStopsKeeps ==
  ASSUME RequestInv, MasterStops
  PROVE  RequestInv'
<1>1. IInv'
  BY CrashStep DEF RequestInv, MasterStops
<1>. QED
  BY <1>1, ResetStays DEF RequestInv, MasterStops, MasterCrash

LEMMA LateRequestKeeps ==
  ASSUME RequestInv, LateRequestServed
  PROVE  RequestInv'
<1>1. PICK q \in late : MasterServeLate(q)
  BY DEF LateRequestServed
<1>2. IInv'
  BY <1>1, ServeLateStep DEF RequestInv
<1>3. UNCHANGED <<local, run, wants, serving>>
  BY <1>1 DEF LateRequestServed, MasterServeLate
<1>4. CASE late' = late \ {q} /\ UNCHANGED <<masterUp, rpc>>
  <2>1. UNCHANGED <<forward, lateStarts>>
    BY <1>1, <1>4 DEF LateRequestServed, MasterServeLate, forwarding
  <2>2. OthersIdle'
    BY <1>3, <1>4 DEF RequestInv, OthersIdle
  <2>. QED
    BY <1>2, <1>3, <1>4, <2>1, <2>2, RunsStay DEF RequestInv
<1>5. CASE ResetConnections
  <2>1. ForwardReset
    BY <1>5 DEF LateRequestServed, ResetConnections
  <2>. QED
    BY <1>2, <1>3, <1>5, <2>1, ResetStays DEF RequestInv
<1>. QED
  BY <1>1, <1>4, <1>5 DEF MasterServeLate

-----------------------------------------------------------------------------
(* Steps of others on the master's store: actions are created, and those   *)
(* of other agents go on.                                                  *)

Created(a) ==
  status[a] = "none" /\ status'[a] = "pending" /\ claimedBy'[a] = claimedBy[a]
Foreign(a) ==
  \E g \in Agents \ {Station} :
    \/ Claimed(g, a)
    \/ /\ claimedBy[a] = g /\ claimedBy'[a] = g
       /\ status[a] \in {"claimed", "running"} /\ status'[a] \in {"running"} \cup Outcomes

LEMMA OthersStoreKeeps ==
  ASSUME RequestInv, UNCHANGED local,
         status' \in [Actions -> Status], claimedBy' \in [Actions -> Agents \cup {NoAgent}],
         \A a \in Actions : Kept(a) \/ Created(a) \/ Foreign(a),
         \/ UNCHANGED <<masterUp, rpc, late>>
         \/ ResetConnections
  PROVE  IInv'
<1> USE DEF RequestInv, IInv
<1>1. \A a \in Actions : claimedBy[a] = Station => Kept(a)
  BY AgentsAssumption, StationAssumption
     DEF OwnedIffClaimed, Created, Foreign, Claimed
<1>2. \A g \in Agents, a \in Actions : local[g][a].st # "absent" => g = Station /\ Kept(a)
  BY <1>1 DEF OthersIdle, StoresAgree
<1>3. \A g \in Agents, a \in Actions : local[g][a].reported => local[g][a].st # "absent"
  BY DEF StoresAgree, Terminal
<1>4. StoresAgree'
  BY <1>2, <1>3 DEF StoresAgree, Kept, Terminal
<1>5. OwnedIffClaimed'
  BY AgentsAssumption, OutcomesAssumption
     DEF OwnedIffClaimed, Kept, Created, Foreign, Claimed, Terminal
<1>6. ConsumedMatchesStatus'
  BY DEF ConsumedMatchesStatus
<1>7. /\ rpc' \in [Threads -> Rpc] /\ masterUp' \in BOOLEAN /\ late' \subseteq late
      /\ \A t \in Threads :
           \/ rpc'[t] = rpc[t]
           \/ /\ rpc[t].stage = "sent" /\ rpc'[t].stage = "error"
              /\ rpc'[t].cmd = rpc[t].cmd /\ rpc'[t].act = rpc[t].act
              /\ rpc'[t].to = rpc[t].to
  BY ResetKeeps DEF TypeOK
<1>8. TypeOK'
  BY <1>7 DEF TypeOK
<1>9. ClaimOnlyWhenFree'
  BY <1>7, AgentThreads DEF ClaimOnlyWhenFree, Active
<1>10. CallsFitRecords'
  <2> SUFFICES ASSUME NEW h \in Agents
               PROVE  CallsFit(h)'
    BY DEF CallsFitRecords
  <2>1. rpc[Poller(h)].act \in Actions \cup {NoAct}
    BY AgentThreads DEF TypeOK, Rpc
  <2>2. rpc[Poller(h)].stage = "ok" /\ rpc[Poller(h)].act # NoAct =>
          rpc[Poller(h)].act \in Actions /\ Kept(rpc[Poller(h)].act)
    BY <1>1, <2>1, IdleFacts DEF OthersIdle, CallsFitRecords, CallsFit
  <2>3. rpc[Api(h)].stage = "ok" => rpc[Api(h)].act \in Actions /\ Kept(rpc[Api(h)].act)
    BY <1>2, OutcomesAssumption DEF CallsFitRecords, CallsFit, ReportFits
  <2>. QED
    BY <1>7, <2>1, <2>2, <2>3, AgentThreads DEF CallsFitRecords, CallsFit, ReportFits, Kept
<1>. QED
  BY <1>4, <1>5, <1>6, <1>8, <1>9, <1>10

LEMMA CreateIsCreated ==
  ASSUME RequestInv, NEW a \in Actions, Orch!Lifecycle!Create(a)
  PROVE  /\ status' \in [Actions -> Status] /\ claimedBy' \in [Actions -> Agents \cup {NoAgent}]
         /\ \A b \in Actions : Kept(b) \/ Created(b) \/ Foreign(b)
BY DEF RequestInv, IInv, TypeOK, Status, Orch!Lifecycle!Create, Orch!Lifecycle!Move, Kept,
   Created

LEMMA MasterStartsKeeps ==
  ASSUME RequestInv, MasterStarts
  PROVE  RequestInv'
<1> USE DEF RequestInv
<1>1. PICK a \in Actions : Orch!Start(a, serving) /\ forward' = [stage |-> "ok", act |-> a]
  BY DEF MasterStarts
<1>2. UNCHANGED <<masterUp, local, rpc, late, run, wants, serving, lateStarts>>
  BY DEF MasterStarts
<1>3. forward.stage = "sent"
  BY DEF MasterStarts
<1>4. Orch!Lifecycle!Create(a)
  BY <1>1 DEF Orch!Start, Orch!CreateStep
<1>5. IInv'
  BY <1>2, <1>4, CreateIsCreated, OthersStoreKeeps
<1>6. OthersIdle'
  BY <1>2 DEF OthersIdle
<1>7. RequestTypeOK'
  BY <1>1, <1>2 DEF RequestTypeOK, ForwardedStart
<1>8. ForwardFits'
  BY <1>1, <1>2, <1>3 DEF ForwardFits, NotForwarded
<1>9. ExecutingFits'
  BY <1>2, FewerExecute DEF ExecutingFits
<1>. QED
  BY <1>5, <1>6, <1>7, <1>8, <1>9

LEMMA LateStartKeeps ==
  ASSUME RequestInv, LateStartServed
  PROVE  RequestInv'
<1> USE DEF RequestInv
<1>1. PICK r \in lateStarts, a \in Actions :
        /\ Orch!Start(a, r)
        /\ \/ lateStarts' = lateStarts \ {r} /\ UNCHANGED <<masterUp, rpc, late, forward>>
           \/ ResetConnections /\ ForwardReset
  BY DEF LateStartServed
<1>2. UNCHANGED <<local, run, wants, serving>>
  BY DEF LateStartServed
<1>3. Orch!Lifecycle!Create(a)
  BY <1>1 DEF Orch!Start, Orch!CreateStep
<1>4. IInv'
  BY <1>1, <1>2, <1>3, CreateIsCreated, OthersStoreKeeps
<1>5. CASE lateStarts' = lateStarts \ {r} /\ UNCHANGED <<masterUp, rpc, late, forward>>
  <2>1. OthersIdle'
    BY <1>2, <1>5 DEF OthersIdle
  <2>2. RequestTypeOK'
    BY <1>2, <1>5 DEF RequestTypeOK
  <2>3. ForwardFits'
    BY <1>2, <1>5, ForwardStays
  <2>4. ExecutingFits'
    BY <1>2, FewerExecute DEF ExecutingFits
  <2>. QED
    BY <1>4, <2>1, <2>2, <2>3, <2>4
<1>6. CASE ResetConnections /\ ForwardReset
  BY <1>2, <1>4, <1>6, ResetStays
<1>. QED
  BY <1>1, <1>5, <1>6

LEMMA OtherAgentKeeps ==
  ASSUME RequestInv, NEW g \in Agents \ {Station}, OtherAgent(g)
  PROVE  RequestInv'
<1> USE DEF RequestInv
<1>1. PICK a \in Actions : \/ Lifecycle!Claim(g, a) \/ Lifecycle!Start(g, a)
                           \/ \E s \in Outcomes : Lifecycle!Finish(g, a, s)
  BY DEF OtherAgent
<1>2. UNCHANGED <<masterUp, local, rpc, late, requestVars>>
  BY DEF OtherAgent
<1>3. status' \in [Actions -> Status] /\ claimedBy' \in [Actions -> Agents \cup {NoAgent}]
  BY <1>1, OutcomesAssumption
     DEF IInv, TypeOK, Status, Terminal, Lifecycle!Claim, Lifecycle!Start, Lifecycle!Finish,
         Lifecycle!Move
<1>4. \A b \in Actions : Kept(b) \/ Created(b) \/ Foreign(b)
  <2>1. \A b \in Actions \ {a} : Kept(b)
    BY <1>1 DEF IInv, TypeOK, Kept, Lifecycle!Claim, Lifecycle!Start, Lifecycle!Finish,
                Lifecycle!Move
  <2>2. Foreign(a)
    BY <1>1 DEF IInv, TypeOK, Foreign, Claimed, Lifecycle!Claim, Lifecycle!Start,
                Lifecycle!Finish, Lifecycle!Move
  <2>. QED
    BY <2>1, <2>2
<1>5. IInv'
  BY <1>2, <1>3, <1>4, OthersStoreKeeps
<1>6. OthersIdle'
  BY <1>2 DEF OthersIdle
<1>. QED
  BY <1>2, <1>5, <1>6, RunsStay DEF requestVars, forwarding

LEMMA AdvanceKeeps ==
  ASSUME RequestInv, NEW c \in Callers, Advance(c)
  PROVE  RequestInv'
<1> USE DEF RequestInv
<1>1. UNCHANGED <<masterUp, local, rpc, late, requestVars>>
  BY DEF Advance
<1>2. /\ status' \in [Actions -> Status] /\ claimedBy' \in [Actions -> Agents \cup {NoAgent}]
      /\ \A b \in Actions : Kept(b) \/ Created(b) \/ Foreign(b)
  <2>1. CASE \E a \in Actions : Orch!CreateSuccessor(c, a)
    BY <2>1, CreateIsCreated DEF Orch!CreateSuccessor, Orch!CreateStep
  <2>2. CASE UNCHANGED <<status, claimedBy>>
    BY <2>2 DEF IInv, TypeOK, Kept
  <2>. QED
    BY <2>1, <2>2 DEF Advance, Orch!AdvanceDies, Orch!Lookup
<1>3. IInv'
  BY <1>1, <1>2, OthersStoreKeeps
<1>4. OthersIdle'
  BY <1>1 DEF OthersIdle
<1>. QED
  BY <1>1, <1>3, <1>4, RunsStay DEF requestVars, forwarding

-----------------------------------------------------------------------------
LEMMA RequestStepKeeps == RequestInv /\ [RequestNext]_allVars => RequestInv'
<1> SUFFICES ASSUME RequestInv, [RequestNext]_allVars PROVE RequestInv'
  OBVIOUS
<1>1. CASE UNCHANGED allVars
  <2>1. UNCHANGED vars /\ UNCHANGED <<run, wants, serving, forward, lateStarts>>
    BY <1>1 DEF allVars, requestVars, forwarding
  <2>. QED
    BY <2>1, WorkflowUntouched, RunsStay DEF RequestInv
<1>2. ASSUME Polling PROVE RequestInv'
  BY <1>2, PollerKeeps, MasterServeKeeps DEF Polling, Quietly
<1>3. ASSUME PollerTimeout PROVE RequestInv'
  BY <1>3, PollerKeeps DEF PollerTimeout
<1>. QED
  BY <1>1, <1>2, <1>3, RequestStartKeeps, RunEndsKeeps, StartAnsweredKeeps, StartLostKeeps,
     ConsumeKeeps, ReportKeeps, ConsumeAnsweredKeeps, ReportAnsweredKeeps,
     RequestGivenUpKeeps, StationRestartsKeeps, MasterStartedKeeps, MasterStopsKeeps,
     LateRequestKeeps, MasterStartsKeeps, LateStartKeeps, OtherAgentKeeps, AdvanceKeeps
     DEF RequestNext

(* What the stores, the requests, the start on its way and the runs say    *)
(* fits together in every reachable state.                                 *)
THEOREM RequestInvariance == RequestSpec => []RequestInv
BY RequestsInitially, RequestStepKeeps, PTL DEF RequestSpec

(* A run executes the action it started, alone, and both stores call that  *)
(* action running (sensing_agent_entrypoint, AgentWorkflowHandler).        *)
THEOREM RunExecutesItsOwn == RequestSpec => []ExecutesItsOwn
BY InvExecutes, RequestInvariance, PTL

-----------------------------------------------------------------------------
(* What an acknowledged report says of the run's own action.               *)

(* The report of a run is for the action that the run started.             *)
ReportingFits ==
  \A r \in Runs :
    run[r] = "reporting" => /\ serving = r /\ wants[r] \in Actions
                            /\ rpc[Api(Station)].cmd = "mark_terminal"
                            /\ rpc[Api(Station)].act = wants[r]
DoneFits ==
  \A r \in Runs :
    run[r] = "done" => wants[r] \in Actions /\ local[Station][wants[r]].reported

LEMMA DoneInitially == RequestInit => ReportingFits /\ DoneFits
BY DEF RequestInit, ReportingFits, DoneFits

LEMMA InvDone == RequestInv /\ DoneFits => DoneIsRecorded
<1> SUFFICES ASSUME RequestInv, DoneFits, NEW r \in Runs, run[r] = "done"
             PROVE  /\ wants[r] \in Actions \ Active(Station)
                    /\ local[Station][wants[r]].st \in Terminal
                    /\ status[wants[r]] = local[Station][wants[r]].st
  BY DEF DoneIsRecorded
<1>1. wants[r] \in Actions /\ local[Station][wants[r]].reported
  BY DEF DoneFits
<1>2. /\ local[Station][wants[r]].st \in Terminal
      /\ status[wants[r]] = local[Station][wants[r]].st
  BY <1>1, StationAssumption DEF RequestInv, IInv, StoresAgree
<1>. QED
  BY <1>1, <1>2 DEF Active

(* The records of the agents only move forward here, too.                  *)
LEMMA RequestsForward ==
  ASSUME RequestInv, [RequestNext]_allVars
  PROVE  LocalForward
<1> USE DEF RequestInv
<1>1. UNCHANGED local => LocalForward
  BY StaysForward DEF LocalForward, IInv, TypeOK
<1>2. CASE Polling
  BY <1>1, <1>2, StationAssumption, PollSaveForward
     DEF Polling, Quietly, PollClaim, CallFailed, MasterServe
<1>3. ASSUME NEW r \in Runs, Consume(r) PROVE LocalForward
  BY <1>3, StationAssumption, ApiConsumeForward DEF Consume
<1>4. ASSUME NEW r \in Runs, NEW s \in Outcomes, Report(r, s) PROVE LocalForward
  BY <1>4, StationAssumption, ApiTerminalForward DEF Report
<1>5. CASE ConsumeAnswered
  BY <1>5, StationAssumption, ApiRunningForward DEF ConsumeAnswered
<1>6. CASE ReportAnswered
  BY <1>6, StationAssumption, ApiReportedForward DEF ReportAnswered
<1>7. ASSUME NEW r \in Runs, RequestStart(r) \/ DeadlinePasses(r) \/ RunKilled(r)
      PROVE  LocalForward
  BY <1>1, <1>7 DEF RequestStart, DeadlinePasses, RunKilled, vars
<1>8. CASE MasterStarts \/ StartAnswered \/ StartLost \/ RequestFailed
  BY <1>1, <1>8 DEF MasterStarts, StartAnswered, StartLost, RequestFailed, CallFailed, vars
<1>9. CASE PollerTimeout \/ RequestTimeout \/ LateRequestServed \/ LateStartServed
  BY <1>1, <1>9 DEF PollerTimeout, RequestTimeout, LateRequestServed, LateStartServed,
                    Timeout, MasterServeLate
<1>10. CASE MasterStops \/ MasterStarted \/ StationRestarts
  BY <1>1, <1>10 DEF MasterStops, MasterStarted, StationRestarts, Quietly, MasterCrash,
                     MasterRestart, AgentRestart, vars
<1>11. ASSUME NEW g \in Agents \ {Station}, OtherAgent(g) PROVE LocalForward
  BY <1>1, <1>11 DEF OtherAgent
<1>12. ASSUME NEW c \in Callers, Advance(c) PROVE LocalForward
  BY <1>1, <1>12 DEF Advance
<1>13. CASE UNCHANGED allVars
  BY <1>1, <1>13 DEF allVars, vars
<1>. QED
  BY <1>2, <1>3, <1>4, <1>5, <1>6, <1>7, <1>8, <1>9, <1>10, <1>11, <1>12, <1>13
     DEF RequestNext

(* No step but that of an answer takes the report of a run away.           *)
CallKept ==
  /\ rpc'[Api(Station)].cmd = rpc[Api(Station)].cmd
  /\ rpc'[Api(Station)].act = rpc[Api(Station)].act

LEMMA ResetKeepsCall ==
  ASSUME IInv, ResetConnections \/ UNCHANGED rpc
  PROVE  CallKept
<1>1. Api(Station) \in Threads
  BY AgentThreads, StationAssumption
<1>. QED
  BY <1>1 DEF CallKept, ResetConnections, IInv, TypeOK, Rpc

LEMMA ServeKeepsCall ==
  ASSUME RequestInv, NEW t \in Threads, MasterServe(t),
         rpc[Api(Station)].cmd = "mark_terminal"
  PROVE  CallKept
<1>1. Api(Station) \in Threads
  BY AgentThreads, StationAssumption
<1>2. PICK ok \in BOOLEAN, out \in Actions \cup {NoAct} :
        /\ Handle(t[1], rpc[t], ok, out)
        /\ rpc' = [rpc EXCEPT ![t].stage = IF ok THEN "ok" ELSE "error", ![t].act = out]
  BY DEF MasterServe
<1>3. rpc \in [Threads -> Rpc]
  BY DEF RequestInv, IInv, TypeOK
<1>4. CASE t = Api(Station)
  <2>1. out = rpc[t].act
    BY <1>2, <1>4 DEF Handle
  <2>2. rpc[t] \in Rpc
    BY <1>3
  <2>3. rpc'[t].cmd = rpc[t].cmd /\ rpc'[t].act = out
    BY <1>2, <1>3, <2>2 DEF Rpc
  <2>. QED
    BY <1>4, <2>1, <2>3 DEF CallKept
<1>5. CASE t # Api(Station)
  BY <1>1, <1>2, <1>3, <1>5 DEF CallKept
<1>. QED
  BY <1>4, <1>5

LEMMA PollerKeepsCall ==
  ASSUME RequestInv,
         \/ PollClaim(Station) \/ PollSave(Station)
         \/ CallFailed(Poller(Station)) \/ Timeout(Poller(Station))
  PROVE  CallKept
<1>1. Api(Station) \in Threads /\ Api(Station) # Poller(Station)
  BY AgentThreads, StationAssumption
<1>. QED
  BY <1>1 DEF CallKept, PollClaim, PollSave, CallFailed, Timeout, Send, RequestInv, IInv,
              TypeOK

(* A run that reports goes on to, is answered, or ends.                    *)
LEMMA ReportGoesOn ==
  ASSUME RequestInv, ReportingFits, [RequestNext]_allVars,
         NEW r \in Runs, run[r] = "reporting", run'[r] = "reporting"
  PROVE  serving' = r /\ wants'[r] = wants[r] /\ CallKept
<1> USE DEF RequestInv
<1>1. /\ serving = r /\ rpc[Api(Station)].cmd = "mark_terminal"
      /\ rpc[Api(Station)] # Idle /\ forward = NotForwarded
  BY IdleFacts DEF ReportingFits, ForwardFits
<1>2. serving # NoRun /\ run \in [Runs -> RunStates]
  BY <1>1, StationAssumption DEF RequestTypeOK
<1>3. UNCHANGED <<rpc, serving, wants>> => serving' = r /\ wants'[r] = wants[r] /\ CallKept
  BY <1>1 DEF CallKept
<1>4. ~ServerFree
  BY <1>1 DEF ServerFree
<1>5. ASSUME NEW new, new # "reporting", Answer("reporting", new) PROVE FALSE
  BY <1>1, <1>2, <1>5 DEF Answer
<1>6. ASSUME FailServed PROVE FALSE
  BY <1>1, <1>2, <1>6 DEF FailServed, Answer
<1>7. CASE Polling
  <2>1. UNCHANGED <<serving, wants>>
    BY <1>7 DEF Polling, Quietly, requestVars
  <2>. QED
    BY <1>1, <1>7, <2>1, PollerKeepsCall, ServeKeepsCall DEF Polling, Quietly
<1>8. ASSUME NEW q \in Runs,
             RequestStart(q) \/ Consume(q) \/ \E s \in Outcomes : Report(q, s)
      PROVE  FALSE
  BY <1>4, <1>8 DEF RequestStart, Consume, Report
<1>9. ASSUME NEW q \in Runs, DeadlinePasses(q) \/ RunKilled(q)
      PROVE  UNCHANGED <<rpc, serving, wants>>
  BY <1>9 DEF DeadlinePasses, RunKilled, vars
<1>10. ~MasterStarts /\ ~StartAnswered /\ ~StartLost
  BY <1>1 DEF MasterStarts, StartAnswered, StartLost, NotForwarded
<1>11. ~ConsumeAnswered
  BY <1>1 DEF ConsumeAnswered, ApiRunningReported
<1>12. ~ReportAnswered
  BY <1>5 DEF ReportAnswered
<1>13. ~RequestFailed /\ ~RequestTimeout /\ ~StationRestarts
  BY <1>6 DEF RequestFailed, RequestTimeout, StationRestarts
<1>14. CASE PollerTimeout
  BY <1>1, <1>14, PollerKeepsCall DEF PollerTimeout, requestVars
<1>15. CASE MasterStops \/ LateRequestServed \/ LateStartServed
  <2>1. ResetConnections \/ UNCHANGED rpc
    BY <1>15 DEF MasterStops, MasterCrash, LateRequestServed, MasterServeLate, LateStartServed
  <2>2. UNCHANGED <<serving, wants>>
    BY <1>15 DEF MasterStops, LateRequestServed, LateStartServed
  <2>. QED
    BY <1>1, <2>1, <2>2, ResetKeepsCall
<1>16. CASE MasterStarted
  BY <1>3, <1>16 DEF MasterStarted, Quietly, MasterRestart, requestVars
<1>17. ASSUME NEW g \in Agents \ {Station}, OtherAgent(g)
       PROVE  UNCHANGED <<rpc, serving, wants>>
  BY <1>17 DEF OtherAgent, requestVars
<1>18. ASSUME NEW c \in Callers, Advance(c) PROVE UNCHANGED <<rpc, serving, wants>>
  BY <1>18 DEF Advance, requestVars
<1>19. CASE UNCHANGED allVars
  BY <1>3, <1>19 DEF allVars, vars, requestVars
<1>. QED
  BY <1>3, <1>7, <1>8, <1>9, <1>10, <1>11, <1>12, <1>13, <1>14, <1>15, <1>16, <1>17, <1>18,
     <1>19 DEF RequestNext

(* A run begins to report only with its own action.                        *)
LEMMA ReportBegins ==
  ASSUME RequestInv, NEW r \in Runs, NEW s \in Outcomes, Report(r, s)
  PROVE  /\ serving' = r /\ wants' = wants /\ wants[r] \in Actions
         /\ rpc'[Api(Station)].cmd = "mark_terminal" /\ rpc'[Api(Station)].act = wants[r]
<1>1. wants[r] \in Actions /\ Active(Station) = {wants[r]}
  BY RunningIsActive DEF RequestInv, ExecutingFits, Report
<1>2. PICK a \in Actions : a \in Active(Station) /\ Send(Api(Station), "mark_terminal", a, s)
  BY DEF Report, ApiTerminal, IsFirst
<1>3. a = wants[r]
  BY <1>1, <1>2
<1>. QED
  BY <1>1, <1>2, <1>3, AgentThreads, StationAssumption
     DEF Report, Send, RequestInv, IInv, TypeOK

(* Which steps lead a run to reporting, or to its end.                     *)
LEMMA RunMoves ==
  ASSUME RequestInv, [RequestNext]_allVars, NEW r \in Runs
  PROVE  /\ run'[r] = "reporting" =>
              run[r] = "reporting" \/ \E s \in Outcomes : Report(r, s)
         /\ run'[r] = "done" =>
              /\ wants'[r] = wants[r]
              /\ \/ run[r] = "done"
                 \/ ReportAnswered /\ run[r] = "reporting"
<1> USE DEF RequestInv, RequestTypeOK
<1>1. CASE UNCHANGED <<run, wants>>
  BY <1>1
<1>2. ASSUME NEW q \in Runs, RequestStart(q) \/ Consume(q) \/ DeadlinePasses(q) \/ RunKilled(q)
      PROVE  /\ run'[r] = "reporting" => run[r] = "reporting"
             /\ run'[r] = "done" => run[r] = "done"
             /\ wants' = wants
  BY <1>2 DEF RequestStart, Consume, DeadlinePasses, RunKilled
<1>3. ASSUME NEW q \in Runs, NEW s \in Outcomes, Report(q, s)
      PROVE  /\ q # r => run'[r] = run[r]
             /\ q = r => run'[r] = "reporting"
             /\ wants' = wants
  BY <1>3 DEF Report
<1>4. CASE StartAnswered
  <2>1. serving \in Runs /\ run[serving] \in {"starting", "failed"}
    BY <1>4 DEF StartAnswered, ForwardFits, NotForwarded
  <2>2. wants' = [wants EXCEPT ![serving] = forward.act]
    BY <1>4, <2>1, StationAssumption DEF StartAnswered
  <2>3. /\ run'[r] = "reporting" => run[r] = "reporting"
        /\ run'[r] = "done" => run[r] = "done"
    BY <1>4 DEF StartAnswered, Answer
  <2>4. run'[serving] # "done"
    BY <1>4, <2>1 DEF StartAnswered, Answer
  <2>. QED
    BY <2>1, <2>2, <2>3, <2>4
<1>5. CASE ConsumeAnswered
  BY <1>5 DEF ConsumeAnswered, Answer
<1>6. CASE ReportAnswered
  <2>1. /\ wants' = wants
        /\ run' = IF serving # NoRun /\ run[serving] = "reporting"
                  THEN [run EXCEPT ![serving] = "done"] ELSE run
    BY <1>6 DEF ReportAnswered, Answer
  <2>. QED
    BY <1>6, <2>1
<1>7. CASE RequestFailed \/ RequestTimeout \/ StationRestarts
  BY <1>7 DEF RequestFailed, RequestTimeout, StationRestarts, FailServed, Answer
<1>8. CASE Polling \/ MasterStarts \/ StartLost \/ PollerTimeout \/ MasterStarted
  BY <1>1, <1>8 DEF Polling, Quietly, MasterStarts, StartLost, PollerTimeout, MasterStarted,
                    requestVars
<1>9. CASE MasterStops \/ LateRequestServed \/ LateStartServed
  BY <1>1, <1>9 DEF MasterStops, LateRequestServed, LateStartServed
<1>10. ASSUME NEW g \in Agents \ {Station}, OtherAgent(g) PROVE UNCHANGED <<run, wants>>
  BY <1>10 DEF OtherAgent, requestVars
<1>11. ASSUME NEW c \in Callers, Advance(c) PROVE UNCHANGED <<run, wants>>
  BY <1>11 DEF Advance, requestVars
<1>12. CASE UNCHANGED allVars
  BY <1>1, <1>12 DEF allVars, requestVars
<1>13. CASE \E q \in Runs : RequestStart(q) \/ Consume(q) \/ DeadlinePasses(q) \/ RunKilled(q)
  BY <1>2, <1>13
<1>14. CASE \E q \in Runs : \E s \in Outcomes : Report(q, s)
  <2>1. PICK q \in Runs, s \in Outcomes : Report(q, s)
    BY <1>14
  <2>2. CASE q = r
    BY <1>3, <2>1, <2>2
  <2>3. CASE q # r
    BY <1>3, <2>1, <2>3
  <2>. QED
    BY <2>2, <2>3
<1>. QED
  BY <1>1, <1>4, <1>5, <1>6, <1>7, <1>8, <1>9, <1>10, <1>11, <1>12, <1>13, <1>14
     DEF RequestNext

LEMMA DoneStep ==
  RequestInv /\ ReportingFits /\ DoneFits /\ [RequestNext]_allVars
    => ReportingFits' /\ DoneFits'
<1> SUFFICES ASSUME RequestInv, ReportingFits, DoneFits, [RequestNext]_allVars
             PROVE  ReportingFits' /\ DoneFits'
  OBVIOUS
<1>1. ReportingFits'
  <2> SUFFICES ASSUME NEW r \in Runs, run'[r] = "reporting"
               PROVE  /\ serving' = r /\ wants'[r] \in Actions
                      /\ rpc'[Api(Station)].cmd = "mark_terminal"
                      /\ rpc'[Api(Station)].act = wants'[r]
    BY DEF ReportingFits
  <2>1. CASE run[r] = "reporting"
    BY <2>1, ReportGoesOn DEF ReportingFits, CallKept
  <2>2. CASE \E s \in Outcomes : Report(r, s)
    BY <2>2, ReportBegins
  <2>. QED
    BY <2>1, <2>2, RunMoves
<1>2. DoneFits'
  <2> SUFFICES ASSUME NEW r \in Runs, run'[r] = "done"
               PROVE  wants'[r] \in Actions /\ local'[Station][wants'[r]].reported
    BY DEF DoneFits
  <2>1. wants'[r] = wants[r]
    BY RunMoves
  <2>2. CASE run[r] = "done"
    <3>1. wants[r] \in Actions /\ local[Station][wants[r]].reported
      BY <2>2 DEF DoneFits
    <3>. QED
      BY <2>1, <3>1, RequestsForward, StationAssumption DEF LocalForward, Forward
  <2>3. CASE ReportAnswered /\ run[r] = "reporting"
    <3>1. wants[r] \in Actions /\ rpc[Api(Station)].act = wants[r]
      BY <2>3 DEF ReportingFits
    <3>2. Write(Station, wants[r], [local[Station][wants[r]] EXCEPT !.reported = TRUE])
      BY <2>3, <3>1 DEF ReportAnswered, ApiTerminalReported
    <3>3. local[Station][wants[r]] \in LocalRecord
      BY <3>1, StationAssumption DEF RequestInv, IInv, TypeOK
    <3>4. local'[Station][wants[r]] = [local[Station][wants[r]] EXCEPT !.reported = TRUE]
      BY <3>1, <3>2, StationAssumption DEF Write, RequestInv, IInv, TypeOK
    <3>. QED
      BY <2>1, <3>1, <3>3, <3>4 DEF LocalRecord
  <2>. QED
    BY <2>2, <2>3, RunMoves
<1>. QED
  BY <1>1, <1>2

(* A run whose report was acknowledged has finished the action it started, *)
(* with the outcome the agent recorded, on the master too, and nothing     *)
(* that comes later changes that (sensing_agent_entrypoint,                *)
(* AgentWorkflowHandler._mark_terminal, ActionStore).                      *)
THEOREM DoneStaysRecorded == RequestSpec => []DoneIsRecorded
<1>1. RequestInv /\ DoneFits => DoneIsRecorded
  BY InvDone
<1>2. RequestSpec => [](RequestInv /\ ReportingFits /\ DoneFits)
  BY RequestsInitially, DoneInitially, RequestStepKeeps, DoneStep, PTL DEF RequestSpec
<1>. QED
  BY <1>1, <1>2, PTL

-----------------------------------------------------------------------------
(* Refinement: every step is a step of the orchestrator, of an agent on a  *)
(* released action, or leaves both alone.                                  *)

Worked ==
  \E a \in Actions, g \in Agents :
    \/ Lifecycle!Claim(g, a) \/ Lifecycle!Start(g, a)
    \/ \E s \in Outcomes : Lifecycle!Finish(g, a, s)

LEMMA HandleWorks ==
  ASSUME IInv, NEW g \in Agents, NEW q, NEW ok \in BOOLEAN,
         NEW out \in Actions \cup {NoAct},
         q.cmd = "claim_next" \/ ReportFits(g, q),
         Handle(g, q, ok, out)
  PROVE  Worked \/ UNCHANGED <<status, claimedBy>>
<1>1. [Lifecycle!Next]_Lifecycle!vars
  BY HandleRefines
<1>2. StoreStep(g)
  BY HandleEffect
<1>3. ASSUME NEW a \in Actions, Lifecycle!Create(a)
      PROVE  FALSE
  <2>1. status[a] = "none" /\ status'[a] = "pending"
    BY <1>3 DEF Lifecycle!Create, Lifecycle!Move, IInv, TypeOK
  <2>. QED
    BY <1>2, <2>1, OutcomesAssumption DEF StoreStep, Kept, Claimed, Started, Finished
<1>. QED
  BY <1>1, <1>3 DEF Lifecycle!Next, Lifecycle!vars, Worked

LEMMA WorkMaps ==
  ASSUME Worked \/ UNCHANGED <<status, claimedBy>>, UNCHANGED orchestrationVars
  PROVE  [Orch!Next]_Orch!vars
<1>1. CASE Worked
  <2>1. PICK a \in Actions, g \in Agents :
          \/ Lifecycle!Claim(g, a) \/ Lifecycle!Start(g, a)
          \/ \E s \in Outcomes : Lifecycle!Finish(g, a, s)
    BY <1>1 DEF Worked
  <2>2. \/ Orch!Lifecycle!Claim(g, a) \/ Orch!Lifecycle!Start(g, a)
        \/ \E s \in Outcomes : Orch!Lifecycle!Finish(g, a, s)
    BY <2>1 DEF Lifecycle!Claim, Lifecycle!Start, Lifecycle!Finish, Lifecycle!Move,
                Orch!Lifecycle!Claim, Orch!Lifecycle!Start, Orch!Lifecycle!Finish,
                Orch!Lifecycle!Move
  <2>3. Orch!Work(a)
    BY <2>2 DEF Orch!Work, orchestrationVars
  <2>. QED
    BY <2>3 DEF Orch!Next
<1>2. CASE UNCHANGED <<status, claimedBy>>
  BY <1>2 DEF Orch!vars, orchestrationVars
<1>. QED
  BY <1>1, <1>2

LEMMA RequestRefines == RequestInv /\ [RequestNext]_allVars => [Orch!Next]_Orch!vars
<1> SUFFICES ASSUME RequestInv, [RequestNext]_allVars PROVE [Orch!Next]_Orch!vars
  OBVIOUS
<1> USE DEF RequestInv
<1>1. CASE UNCHANGED <<status, claimedBy, orchestrationVars>>
  BY <1>1 DEF Orch!vars, orchestrationVars
<1>2. CASE Polling
  <2>1. ASSUME NEW t \in Threads, Quietly(MasterServe(t)) PROVE [Orch!Next]_Orch!vars
    <3>1. PICK ok \in BOOLEAN, out \in Actions \cup {NoAct} : Handle(t[1], rpc[t], ok, out)
      BY <2>1 DEF Quietly, MasterServe
    <3>2. t[1] \in Agents /\ (rpc[t].cmd = "claim_next" \/ ReportFits(t[1], rpc[t]))
      BY <2>1, ThreadForms DEF IInv, CallsFitRecords, CallsFit, MasterServe, Quietly
    <3>3. Worked \/ UNCHANGED <<status, claimedBy>>
      BY <3>1, <3>2, HandleWorks
    <3>. QED
      BY <2>1, <3>3, WorkMaps DEF Quietly
  <2>. QED
    BY <1>1, <1>2, <2>1 DEF Polling, Quietly, PollClaim, PollSave, CallFailed
<1>3. CASE LateRequestServed
  <2>1. PICK q \in late : MasterServeLate(q)
    BY <1>3 DEF LateRequestServed
  <2>2. PICK ok \in BOOLEAN, out \in Actions \cup {NoAct} : Handle(q.agent, q, ok, out)
    BY <2>1 DEF MasterServeLate
  <2>3. q.agent \in Agents
    BY DEF IInv, TypeOK, LateRequest
  <2>4. q.cmd = "claim_next" \/ ReportFits(q.agent, q)
    BY <2>3 DEF IInv, CallsFitRecords, CallsFit
  <2>5. Worked \/ UNCHANGED <<status, claimedBy>>
    BY <2>2, <2>3, <2>4, HandleWorks
  <2>. QED
    BY <1>3, <2>5, WorkMaps DEF LateRequestServed
<1>4. ASSUME NEW g \in Agents \ {Station}, OtherAgent(g) PROVE [Orch!Next]_Orch!vars
  BY <1>4, WorkMaps DEF OtherAgent, Worked
<1>5. CASE MasterStarts
  <2>1. serving \in Runs
    BY <1>5 DEF MasterStarts, ForwardFits, NotForwarded
  <2>. QED
    BY <1>5, <2>1 DEF MasterStarts, Orch!Next
<1>6. CASE LateStartServed
  BY <1>6 DEF LateStartServed, RequestTypeOK, Orch!Next
<1>7. ASSUME NEW c \in Callers, Advance(c) PROVE [Orch!Next]_Orch!vars
  BY <1>7 DEF Advance, Orch!Next
<1>8. CASE UNCHANGED allVars
  BY <1>1, <1>8 DEF allVars, vars
<1>9. ASSUME NEW r \in Runs,
             \/ RequestStart(r) \/ Consume(r) \/ DeadlinePasses(r) \/ RunKilled(r)
             \/ \E s \in Outcomes : Report(r, s)
      PROVE  [Orch!Next]_Orch!vars
  BY <1>1, <1>9 DEF RequestStart, Consume, DeadlinePasses, RunKilled, Report, vars,
                    ApiConsume, ApiTerminal
<1>10. CASE StartAnswered \/ StartLost \/ ConsumeAnswered \/ ReportAnswered \/ RequestFailed
  BY <1>1, <1>10 DEF StartAnswered, StartLost, ConsumeAnswered, ReportAnswered, RequestFailed,
                     vars, ApiRunningReported, ApiTerminalReported, CallFailed
<1>11. CASE PollerTimeout \/ RequestTimeout \/ MasterStops \/ MasterStarted \/ StationRestarts
  BY <1>1, <1>11 DEF PollerTimeout, RequestTimeout, MasterStops, MasterStarted, StationRestarts,
                     Quietly, vars, Timeout, MasterCrash, MasterRestart, AgentRestart
<1>. QED
  BY <1>2, <1>3, <1>4, <1>5, <1>6, <1>7, <1>8, <1>9, <1>10, <1>11 DEF RequestNext

LEMMA RequestInitMaps == RequestInit => Orch!Init
BY DEF RequestInit, Init, Orch!Init, Orch!Lifecycle!Init, NoAct, Orch!NoAct, Orch!Unreleased

(* Stations, network and restarts do to the actions and their              *)
(* orchestrations only what the orchestrator and the lifecycle allow.      *)
THEOREM ImplementsTheOrchestration == RequestSpec => ImplementsOrchestration
BY RequestInitMaps, RequestRefines, RequestInvariance, PTL
   DEF RequestSpec, ImplementsOrchestration, Orch!Spec

-----------------------------------------------------------------------------
(* What is proved of Orchestration holds here.                             *)
LEMMA ConstantsFit == Orchestrated!ConstantsOK
BY OrchestrationAssumption
   DEF Orch!ConstantsOK, Orch!IdsOK, Orch!LengthOK, Orch!StepActionsOK, Orch!OutcomesOK,
       Orch!Steps, Orch!NoAct, Orchestrated!ConstantsOK, Orchestrated!IdsOK,
       Orchestrated!LengthOK, Orchestrated!StepActionsOK, Orchestrated!OutcomesOK,
       Orchestrated!Steps, Orchestrated!NoAct

LEMMA SameInit == Orch!Init => Orchestrated!Init
BY DEF Orch!Init, Orch!Lifecycle!Init, Orch!Unreleased, Orch!NoAct,
       Orchestrated!Init, Orchestrated!Lifecycle!Init, Orchestrated!Unreleased,
       Orchestrated!NoAct

LEMMA SameCreateStep ==
  ASSUME NEW a, NEW o, NEW k, NEW p, Orch!CreateStep(a, o, k, p)
  PROVE  Orchestrated!CreateStep(a, o, k, p)
BY DEF Orch!CreateStep, Orch!Lifecycle!Create, Orch!Lifecycle!Move,
       Orchestrated!CreateStep, Orchestrated!Lifecycle!Create, Orchestrated!Lifecycle!Move

LEMMA SameNext == [Orch!Next]_Orch!vars => [Orchestrated!Next]_Orchestrated!vars
<1> SUFFICES ASSUME [Orch!Next]_Orch!vars PROVE [Orchestrated!Next]_Orchestrated!vars
  OBVIOUS
<1> USE DEF Orchestrated!Next
<1>1. ASSUME NEW a \in Actions, Orch!Work(a) PROVE Orchestrated!Work(a)
  BY <1>1 DEF Orch!Work, Orch!Lifecycle!Claim, Orch!Lifecycle!Start, Orch!Lifecycle!Finish,
              Orch!Lifecycle!Move, Orchestrated!Work, Orchestrated!Lifecycle!Claim,
              Orchestrated!Lifecycle!Start, Orchestrated!Lifecycle!Finish,
              Orchestrated!Lifecycle!Move
<1>2. ASSUME NEW a \in Actions, NEW r \in Runs, Orch!Start(a, r)
      PROVE  Orchestrated!Start(a, r)
  BY <1>2, SameCreateStep DEF Orch!Start, Orchestrated!Start, Orch!NoAct, Orchestrated!NoAct
<1>3. ASSUME NEW c \in Callers, Orch!AdvanceDies(c)
      PROVE  Orchestrated!AdvanceDies(c)
  BY <1>3 DEF Orch!AdvanceDies, Orchestrated!AdvanceDies, Orch!NoAct, Orchestrated!NoAct
<1>4. ASSUME NEW c \in Callers, NEW a \in Actions, Orch!Lookup(c, a)
      PROVE  Orchestrated!Lookup(c, a)
  BY <1>4 DEF Orch!Lookup, Orch!Successors, Orch!NoAct,
              Orchestrated!Lookup, Orchestrated!Successors, Orchestrated!NoAct
<1>5. ASSUME NEW c \in Callers, NEW b \in Actions, Orch!CreateSuccessor(c, b)
      PROVE  Orchestrated!CreateSuccessor(c, b)
  BY <1>5, SameCreateStep
     DEF Orch!CreateSuccessor, Orchestrated!CreateSuccessor, Orch!NoAct, Orchestrated!NoAct
<1>6. CASE UNCHANGED Orch!vars
  BY <1>6 DEF Orch!vars, Orchestrated!vars
<1>. QED
  BY <1>1, <1>2, <1>3, <1>4, <1>5, <1>6 DEF Orch!Next

LEMMA RequestsAreOrchestrated == RequestSpec => Orchestrated!Spec
BY SameInit, SameNext, ImplementsTheOrchestration, PTL
   DEF ImplementsOrchestration, Orch!Spec, Orchestrated!Spec

(* A completed action releases one successor, with the whole workflow and  *)
(* its faults underneath, unless two calls of advance overlap on it        *)
(* (Orchestrator.advance, _find_successor).                                *)
THEOREM OneSuccessor == RequestSpec => []OneSuccessorInTurn
<1>1. Orchestrated!Spec => []Orchestrated!OneSuccessorInTurn
  BY ConstantsFit, Orchestrated!AtMostOneSuccessor
<1>2. Orchestrated!OneSuccessorInTurn => OneSuccessorInTurn
  BY DEF OneSuccessorInTurn, Orch!OneSuccessorInTurn, Orch!Successors,
         Orchestrated!OneSuccessorInTurn, Orchestrated!Successors
<1>. QED
  BY <1>1, <1>2, RequestsAreOrchestrated, PTL

LEMMA SameSteps ==
  /\ Orchestrated!ReleasedSteps = Orch!ReleasedSteps
  /\ Orchestrated!CompletedSteps = Orch!CompletedSteps
BY DEF Orch!ReleasedSteps, Orch!CompletedSteps,
       Orchestrated!ReleasedSteps, Orchestrated!CompletedSteps

(* The runs follow the order of their definition with the whole workflow   *)
(* and its faults underneath: a step is released only after the step       *)
(* before it was completed (Orchestrator.start, advance, _find_successor). *)
THEOREM StepsAreInSequence == RequestSpec => FollowsSequence
<1>1. Orchestrated!Spec => Orchestrated!FollowsSequence
  BY ConstantsFit, Orchestrated!ImplementsStepSequence
<1>2. Orchestrated!Sequence!Init => Orch!Sequence!Init
  BY SameSteps DEF Orchestrated!Sequence!Init, Orch!Sequence!Init
<1>3. [Orchestrated!Sequence!Next]_Orchestrated!Sequence!vars
        => [Orch!Sequence!Next]_Orch!Sequence!vars
  <2>1. /\ Orchestrated!ReleasedSteps' = Orch!ReleasedSteps'
        /\ Orchestrated!CompletedSteps' = Orch!CompletedSteps'
    BY DEF Orch!ReleasedSteps, Orch!CompletedSteps,
           Orchestrated!ReleasedSteps, Orchestrated!CompletedSteps
  <2>. QED
    BY <2>1, SameSteps
       DEF Orchestrated!Sequence!Next, Orchestrated!Sequence!vars,
           Orchestrated!Sequence!Release, Orchestrated!Sequence!Complete,
           Orch!Sequence!Next, Orch!Sequence!vars,
           Orch!Sequence!Release, Orch!Sequence!Complete
<1>. QED
  BY <1>1, <1>2, <1>3, RequestsAreOrchestrated, PTL
     DEF FollowsSequence, Orch!FollowsSequence, Orchestrated!FollowsSequence,
         Orch!Sequence!Spec, Orchestrated!Sequence!Spec
=============================================================================
