--------------------------- MODULE SensingRequests --------------------------
(***************************************************************************)
(* eWoodX sensing on request: the action workflow (ActionWorkflow) with    *)
(* the orchestrator that creates its actions (Orchestration), the request  *)
(* handlers of the eWoodX master and of the sensing agent, and the runs of *)
(* sensing_agent_entrypoint, which start an orchestration, wait for their  *)
(* own action and execute it.  The sensing agent's local server serves one *)
(* request at a time; the agents of the other steps are seen only through  *)
(* the lifecycle of their actions.                                         *)
(***************************************************************************)
EXTENDS ActionWorkflow

CONSTANTS
  Station,         \* the sensing agent
  Runs,            \* runs of the entrypoint
  NoRun,
  Length, StepActions, Callers,   \* as in Orchestration
  MaxFaults        \* bound: requests lost, processes killed, deadlines missed,
                   \* runs started while another is under way

ASSUME StationAssumption == Station \in Agents /\ NoRun \notin Runs
ASSUME FaultsAssumption == MaxFaults \in Nat

VARIABLES
  origin, advancing, overlapped,   \* as in Orchestration
  run,       \* where each run is
  wants,     \* action_id of the action each run started
  serving,   \* the run whose request the local server is working on
  forward,   \* the start_orchestration that the local server has forwarded
  lateStarts,   \* runs whose start was given up, still in the master's backlog
  faults     \* faults so far

orchestrationVars == <<origin, advancing, overlapped>>
forwarding == <<forward, lateStarts>>
requestVars == <<run, wants, serving, forwarding>>
allVars == <<vars, orchestrationVars, requestVars, faults>>

(* The orchestration id is new for every run, so it is named after the run.*)
Orch == INSTANCE Orchestration WITH Orchestrations <- Runs, NoOrch <- NoRun
ASSUME OrchestrationAssumption == Orch!ConstantsOK
NotForwarded == [stage |-> "idle", act |-> NoAct]
RunStates == {"new", "starting", "waiting", "consuming", "executing", "reporting",
              "done", "failed"}

RequestInit ==
  /\ Init
  /\ origin = [a \in Actions |-> Orch!Unreleased]
  /\ advancing = [c \in Callers |-> NoAct] /\ overlapped = {}
  /\ run = [r \in Runs |-> "new"] /\ wants = [r \in Runs |-> NoAct]
  /\ serving = NoRun /\ forward = NotForwarded /\ lateStarts = {} /\ faults = 0

Disturbed == faults > 0
Disturb == faults < MaxFaults /\ faults' = faults + 1
UnderWay(r) == run[r] \notin {"new", "done", "failed"}
ServerFree == rpc[Api(Station)] = Idle /\ forward = NotForwarded

(* The local server is done with the request of a run, which goes on or    *)
(* ends, unless it has been killed meanwhile.                              *)
Answer(old, new) ==
  /\ serving' = NoRun
  /\ run' = IF serving # NoRun /\ run[serving] = old
            THEN [run EXCEPT ![serving] = new] ELSE run

-----------------------------------------------------------------------------
(* Starting: the agent forwards the request, the master's handler calls    *)
(* Orchestrator.start.                                                     *)
RequestStart(r) ==
  /\ run[r] = "new" /\ ServerFree
  /\ IF \E q \in Runs : UnderWay(q) THEN Disturb ELSE UNCHANGED faults
  /\ run' = [run EXCEPT ![r] = "starting"]
  /\ serving' = r
  /\ forward' = [stage |-> IF masterUp THEN "sent" ELSE "error", act |-> NoAct]
  /\ UNCHANGED <<vars, orchestrationVars, wants, lateStarts>>

MasterStarts ==
  /\ masterUp /\ forward.stage = "sent"
  /\ \E a \in Actions :
       Orch!Start(a, serving) /\ forward' = [stage |-> "ok", act |-> a]
  /\ UNCHANGED <<masterUp, local, rpc, late, run, wants, serving, lateStarts, faults>>

StartAnswered ==
  /\ forward.stage \in {"ok", "error"}
  /\ Answer("starting", IF forward.stage = "ok" THEN "waiting" ELSE "failed")
  /\ wants' = IF serving # NoRun THEN [wants EXCEPT ![serving] = forward.act] ELSE wants
  /\ forward' = NotForwarded
  /\ UNCHANGED <<vars, orchestrationVars, lateStarts, faults>>

(* The answer is lost, or the request; or it is given up and stays in the  *)
(* master's backlog.                                                       *)
AbandonStart ==
  \/ UNCHANGED lateStarts
  \/ forward.stage = "sent" /\ lateStarts' = lateStarts \cup {serving}

StartLost ==
  /\ Disturb /\ forward.stage \in {"sent", "ok"}
  /\ forward' = [stage |-> "error", act |-> NoAct]
  /\ AbandonStart
  /\ UNCHANGED <<vars, orchestrationVars, run, wants, serving>>

-----------------------------------------------------------------------------
(* Waiting: consume_action again and again, until it returns an action or  *)
(* the deadline passes.                                                    *)
Consume(r) ==
  /\ run[r] = "waiting" /\ ServerFree
  /\ ApiConsume(Station)
  /\ run' = [run EXCEPT ![r] = "consuming"] /\ serving' = r
  /\ UNCHANGED <<orchestrationVars, wants, forwarding, faults>>

DeadlinePasses(r) ==
  /\ Disturb /\ run[r] = "waiting"
  /\ run' = [run EXCEPT ![r] = "failed"]
  /\ UNCHANGED <<vars, orchestrationVars, wants, serving, forwarding>>

(* Slip: whatever was consumed is executed.                                *)
ConsumeAnswered_AnyAction ==
  /\ ApiRunningReported(Station)
  /\ Answer("consuming", "executing")
  /\ UNCHANGED <<orchestrationVars, wants, forwarding, faults>>

(* An action other than the one this run started is not executed: the run  *)
(* ends, and leaves that action running.                                   *)
ConsumeAnswered ==
  /\ ApiRunningReported(Station)
  /\ Answer("consuming", IF serving # NoRun /\ wants[serving] = rpc[Api(Station)].act
                         THEN "executing" ELSE "failed")
  /\ UNCHANGED <<orchestrationVars, wants, forwarding, faults>>

(* Executing, then mark_terminal with the outcome.                         *)
Report(r, s) ==
  /\ run[r] = "executing" /\ ServerFree
  /\ ApiTerminal(Station, s)
  /\ run' = [run EXCEPT ![r] = "reporting"] /\ serving' = r
  /\ UNCHANGED <<orchestrationVars, wants, forwarding, faults>>

ReportAnswered ==
  /\ ApiTerminalReported(Station)
  /\ Answer("reporting", "done")
  /\ UNCHANGED <<orchestrationVars, wants, forwarding, faults>>

(* Slip: a run whose report was not acknowledged ends like one whose was.  *)
FailServed_Unchecked ==
  LET old == IF serving # NoRun THEN run[serving] ELSE "new" IN
  Answer(old, IF old = "reporting" THEN "done" ELSE "failed")

FailServed == Answer(IF serving # NoRun THEN run[serving] ELSE "new", "failed")

RequestFailed ==
  /\ CallFailed(Api(Station))
  /\ FailServed
  /\ UNCHANGED <<orchestrationVars, wants, forwarding, faults>>

RunKilled(r) ==
  /\ Disturb /\ UnderWay(r)
  /\ run' = [run EXCEPT ![r] = "failed"]
  /\ UNCHANGED <<vars, orchestrationVars, wants, serving, forwarding>>

-----------------------------------------------------------------------------
(* The rest of the workflow, and the applications that advance the         *)
(* orchestrations.                                                         *)
Quietly(A) == A /\ UNCHANGED <<orchestrationVars, requestVars, faults>>

Polling == \/ Quietly(PollClaim(Station)) \/ Quietly(PollSave(Station))
           \/ Quietly(CallFailed(Poller(Station)))
           \/ \E t \in Threads : Quietly(MasterServe(t))

OtherAgent(g) ==
  /\ masterUp
  /\ \E a \in Actions : \/ Lifecycle!Claim(g, a) \/ Lifecycle!Start(g, a)
                         \/ \E s \in Outcomes : Lifecycle!Finish(g, a, s)
  /\ UNCHANGED <<masterUp, local, rpc, late, orchestrationVars, requestVars, faults>>

(* The applications work on the master's store from processes of their own.*)
Advance(c) ==
  /\ \/ Orch!AdvanceDies(c)
     \/ \E a \in Actions : Orch!Lookup(c, a) \/ Orch!CreateSuccessor(c, a)
  /\ UNCHANGED <<masterUp, local, rpc, late, requestVars, faults>>

PollerTimeout ==
  /\ Disturb
  /\ Timeout(Poller(Station))
  /\ UNCHANGED <<orchestrationVars, requestVars>>

RequestTimeout ==
  /\ Disturb
  /\ Timeout(Api(Station))
  /\ FailServed
  /\ UNCHANGED <<orchestrationVars, wants, forwarding>>

ForwardReset ==
  /\ forward' = IF forward.stage = "sent" THEN [forward EXCEPT !.stage = "error"] ELSE forward
  /\ lateStarts' = {}

MasterStops ==
  /\ Disturb
  /\ MasterCrash /\ ForwardReset
  /\ UNCHANGED <<orchestrationVars, run, wants, serving>>

LateRequestServed ==
  /\ \E q \in late : MasterServeLate(q)
  /\ IF masterUp' THEN UNCHANGED forwarding ELSE ForwardReset
  /\ UNCHANGED <<orchestrationVars, run, wants, serving, faults>>

(* As in MasterServeLate, writing the answer may end the server's loop.    *)
LateStartServed ==
  /\ masterUp
  /\ \E r \in lateStarts :
       /\ \E a \in Actions : Orch!Start(a, r)
       /\ \/ lateStarts' = lateStarts \ {r} /\ UNCHANGED <<masterUp, rpc, late, forward>>
          \/ ResetConnections /\ ForwardReset
  /\ UNCHANGED <<local, run, wants, serving, faults>>

MasterStarted == Quietly(MasterRestart)

(* The run whose request was being served gets no answer.                  *)
StationRestarts ==
  /\ Disturb
  /\ \/ AgentRestart(Station)
     \/ forward # NotForwarded /\ rpc[Poller(Station)] = Idle /\ UNCHANGED vars
  /\ forward' = NotForwarded /\ AbandonStart
  /\ FailServed
  /\ UNCHANGED <<orchestrationVars, wants>>

RequestNext ==
  \/ \E r \in Runs : \/ RequestStart(r) \/ Consume(r) \/ DeadlinePasses(r) \/ RunKilled(r)
                     \/ \E s \in Outcomes : Report(r, s)
  \/ MasterStarts \/ StartAnswered \/ StartLost
  \/ ConsumeAnswered \/ ReportAnswered \/ RequestFailed
  \/ Polling \/ PollerTimeout \/ RequestTimeout \/ LateRequestServed \/ LateStartServed
  \/ \E g \in Agents \ {Station} : OtherAgent(g)
  \/ \E c \in Callers : Advance(c)
  \/ MasterStops \/ MasterStarted \/ StationRestarts

(* The master is restarted; threads and server are scheduled; a run that   *)
(* executes its action ends.  Nothing sends a report a second time.        *)
RequestSpec ==
  /\ RequestInit /\ [][RequestNext]_allVars
  /\ WF_allVars(MasterStarted) /\ WF_allVars(MasterStarts) /\ WF_allVars(StartAnswered)
  /\ \A t \in Threads : WF_allVars(Quietly(MasterServe(t)))
  /\ WF_allVars(Quietly(PollClaim(Station))) /\ WF_allVars(Quietly(PollSave(Station)))
  /\ WF_allVars(Quietly(CallFailed(Poller(Station))))
  /\ \A r \in Runs : WF_allVars(Consume(r)) /\ WF_allVars(\E s \in Outcomes : Report(r, s))
  /\ WF_allVars(ConsumeAnswered) /\ WF_allVars(ReportAnswered) /\ WF_allVars(RequestFailed)

-----------------------------------------------------------------------------
(* What a run executes is its own action, which is the only one the agent  *)
(* has in hand and is running on the master too: mark_terminal, which      *)
(* names no action, can only be taken for it, whatever was lost, killed or *)
(* restarted before and whoever else runs the entrypoint.                  *)
ExecutesItsOwn ==
  \A r \in Runs :
    run[r] = "executing" => /\ Active(Station) = {wants[r]}
                            /\ status[wants[r]] = "running" /\ claimedBy[wants[r]] = Station
                            /\ \A q \in Runs \ {r} : run[q] # "executing"

(* Every action created for the station is executed and finished, unless   *)
(* something went wrong on the way: an action that was left behind by a    *)
(* run that gave up is never finished, and blocks the agent.               *)
EveryActionFinishes ==
  \A a \in Eligible[Station] :
    status[a] = "pending" ~> status[a] \in Terminal \/ Disturbed

(* A run whose report was acknowledged has finished the action that it     *)
(* started: the master holds the outcome that the agent recorded for that  *)
(* very action, and the agent is free for other work.  This stays so       *)
(* whatever comes later: late requests, other runs, restarts.  Of a run    *)
(* that got no acknowledgement nothing follows: its outcome may have       *)
(* reached the master or not, and nothing sends it again.                  *)
DoneIsRecorded ==
  \A r \in Runs :
    run[r] = "done" => /\ wants[r] \in Actions \ Active(Station)
                       /\ local[Station][wants[r]].st \in Terminal
                       /\ status[wants[r]] = local[Station][wants[r]].st

(* The stations, the network and the restarts together do to the actions   *)
(* and to their orchestrations only what Orchestration describes; so its   *)
(* theorems hold here.                                                     *)
ImplementsOrchestration == Orch!Spec
OneSuccessorInTurn == Orch!OneSuccessorInTurn
FollowsSequence == Orch!FollowsSequence
=============================================================================
