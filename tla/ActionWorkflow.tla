--------------------------- MODULE ActionWorkflow ---------------------------
(***************************************************************************)
(* The distributed action workflow of framework/communication: the         *)
(* master's ActionStore behind its TCP server, and on every agent the      *)
(* AgentActionStore shared by two threads, the AgentPoller and the local   *)
(* API server (AgentWorkflowHandler).  Each thread talks to the master     *)
(* with one blocking request at a time (TCPClient.send).  Requests and     *)
(* answers may be lost, a request whose client gave up may still be served *)
(* later, and the agent and the master may crash: only the two stores      *)
(* survive.                                                                *)
(***************************************************************************)
EXTENDS Naturals

CONSTANTS
  Actions,     \* action ids; the order of Nat is the order of the file names
  Agents,      \* agent ids
  Eligible,    \* Eligible[g]: the actions whose target is a role of agent g
  Outcomes,    \* the terminal outcomes an executor may report
  NoAgent      \* claimed_by = None

NoAct == 0

ASSUME ActionsAssumption == Actions \subseteq Nat \ {NoAct}
ASSUME AgentsAssumption == NoAgent \notin Agents
ASSUME EligibleAssumption == Eligible \in [Agents -> SUBSET Actions]
ASSUME OutcomesAssumption ==
  Outcomes \subseteq {"completed", "failed", "cancelled"}

Terminal == {"completed", "failed", "cancelled"}
Status == {"none", "pending", "claimed", "running"} \cup Terminal
LocalStatus == {"absent", "claimed", "consumed", "running"} \cup Terminal

Threads == Agents \X {"poller", "api"}
Commands == {"claim_next", "mark_running", "mark_terminal"}

LocalRecord == [st : LocalStatus, consumed : BOOLEAN, reported : BOOLEAN]
Rpc == [stage : {"idle", "sent", "ok", "error"}, cmd : Commands \cup {"none"},
        act : Actions \cup {NoAct}, to : Terminal \cup {"none"}]
LateRequest == [agent : Agents, cmd : Commands,
                act : Actions \cup {NoAct}, to : Terminal \cup {"none"}]

VARIABLES
  status,     \* master ActionStore: status of every action ("none": no file)
  claimedBy,  \* master ActionStore: claimed_by of every action
  masterUp,   \* the master's TCP server loop is running
  local,      \* local[g]: the AgentActionStore of agent g, by action
  rpc,        \* rpc[t]: the request a thread is blocked on
  late        \* requests whose client gave up, still in the listen backlog

vars == <<status, claimedBy, masterUp, local, rpc, late>>
masterStore == <<status, claimedBy>>

Absent == [st |-> "absent", consumed |-> FALSE, reported |-> FALSE]
Idle == [stage |-> "idle", cmd |-> "none", act |-> NoAct, to |-> "none"]
Poller(g) == <<g, "poller">>
Api(g) == <<g, "api">>

TypeOK ==
  /\ status \in [Actions -> Status]
  /\ claimedBy \in [Actions -> Agents \cup {NoAgent}]
  /\ masterUp \in BOOLEAN
  /\ local \in [Agents -> [Actions -> LocalRecord]]
  /\ rpc \in [Threads -> Rpc]
  /\ late \subseteq LateRequest

Init ==
  /\ status = [a \in Actions |-> "none"]
  /\ claimedBy = [a \in Actions |-> NoAgent]
  /\ masterUp = TRUE
  /\ local = [g \in Agents |-> [a \in Actions |-> Absent]]
  /\ rpc = [t \in Threads |-> Idle]
  /\ late = {}

(* The first member of a set in file-name order, as the sorted globs of    *)
(* both stores deliver it.                                                 *)
IsFirst(a, S) == a \in S /\ \A b \in S : a <= b

-----------------------------------------------------------------------------
(* The master: WorkflowHandler over ActionStore.                           *)

(* A slip the checks must notice: the roles of the agent are not looked at. *)
Pending_AnyRole(g) == {a \in Actions : status[a] = "pending"}
Pending(g) == {a \in Eligible[g] : status[a] = "pending"}

(* An orchestration (or an operator) saves a new pending action.           *)
CreateAction(a) ==
  /\ masterUp
  /\ status[a] = "none"
  /\ status' = [status EXCEPT ![a] = "pending"]
  /\ UNCHANGED <<claimedBy, masterUp, local, rpc, late>>

(* The three commands: what the store becomes, whether the answer is ok    *)
(* and the action it carries.                                              *)
ClaimNext(g, ok, out) ==
  \/ /\ IsFirst(out, Pending(g))
     /\ ok = (claimedBy[out] = NoAgent)
     /\ status' = IF ok THEN [status EXCEPT ![out] = "claimed"] ELSE status
     /\ claimedBy' = IF ok THEN [claimedBy EXCEPT ![out] = g] ELSE claimedBy
  \/ /\ Pending(g) = {}
     /\ ok = TRUE /\ out = NoAct
     /\ UNCHANGED masterStore

MarkRunning(g, a, ok) ==
  /\ ok = (status[a] = "claimed" /\ claimedBy[a] = g)
  /\ status' = IF ok THEN [status EXCEPT ![a] = "running"] ELSE status
  /\ UNCHANGED claimedBy

(* A slip: the repetition of a recorded outcome is refused.                *)
MarkTerminal_NotIdempotent(g, a, to, ok) ==
  /\ ok = (claimedBy[a] = g /\ status[a] = "running")
  /\ status' = IF ok THEN [status EXCEPT ![a] = to] ELSE status
  /\ UNCHANGED claimedBy

MarkTerminal(g, a, to, ok) ==
  /\ ok = (claimedBy[a] = g /\ status[a] \in {"running", to})
  /\ status' = IF ok THEN [status EXCEPT ![a] = to] ELSE status
  /\ UNCHANGED claimedBy

Handle(g, q, ok, out) ==
  \/ q.cmd = "claim_next" /\ ClaimNext(g, ok, out)
  \/ q.cmd = "mark_running" /\ MarkRunning(g, q.act, ok) /\ out = q.act
  \/ q.cmd = "mark_terminal" /\ MarkTerminal(g, q.act, q.to, ok) /\ out = q.act

(* The server loop serves one client at a time, so a request is atomic.    *)
MasterServe(t) ==
  /\ masterUp
  /\ rpc[t].stage = "sent"
  /\ \E ok \in BOOLEAN, out \in Actions \cup {NoAct} :
       /\ Handle(t[1], rpc[t], ok, out)
       /\ rpc' = [rpc EXCEPT ![t].stage = IF ok THEN "ok" ELSE "error",
                             ![t].act = out]
  /\ UNCHANGED <<masterUp, local, late>>

(* The process stops: the connections it had accepted or queued are reset. *)
ResetConnections ==
  /\ masterUp' = FALSE
  /\ rpc' = [t \in Threads |-> IF rpc[t].stage = "sent"
                               THEN [rpc[t] EXCEPT !.stage = "error"]
                               ELSE rpc[t]]
  /\ late' = {}

(* A request whose client is gone is served all the same.  Writing the     *)
(* answer then succeeds, or raises out of the server loop: send_message is *)
(* outside the try of _handle_client.                                      *)
MasterServeLate(q) ==
  /\ masterUp
  /\ q \in late
  /\ \E ok \in BOOLEAN, out \in Actions \cup {NoAct} : Handle(q.agent, q, ok, out)
  /\ \/ late' = late \ {q} /\ UNCHANGED <<masterUp, rpc>>
     \/ ResetConnections
  /\ UNCHANGED local

MasterCrash ==
  /\ masterUp
  /\ ResetConnections
  /\ UNCHANGED <<status, claimedBy, local>>

MasterRestart ==
  /\ ~masterUp
  /\ masterUp' = TRUE
  /\ UNCHANGED <<status, claimedBy, local, rpc, late>>

-----------------------------------------------------------------------------
(* The agent: AgentActionStore, WorkflowClient, AgentPoller and            *)
(* AgentWorkflowHandler.                                                   *)

(* A slip: an acknowledged action still counts.                            *)
Active_Reported(g) == {a \in Actions : local[g][a].st # "absent"}

Active(g) == {a \in Actions : /\ local[g][a].st # "absent"
                              /\ ~(local[g][a].st \in Terminal /\ local[g][a].reported)}
Unconsumed(g) == {a \in Actions : local[g][a].st # "absent" /\ ~local[g][a].consumed}

(* _write_json replaces the whole record of an action.                     *)
Write(g, a, record) == local' = [local EXCEPT ![g][a] = record]

(* connect() is refused at once while the master is down.                  *)
Send(t, command, a, s) ==
  rpc' = [rpc EXCEPT ![t] = [stage |-> IF masterUp THEN "sent" ELSE "error",
                             cmd |-> command, act |-> a, to |-> s]]

(* A slip: the poller does not look for active work first.                 *)
PollClaim_Unguarded(g) ==
  /\ rpc[Poller(g)] = Idle
  /\ Send(Poller(g), "claim_next", NoAct, "none")
  /\ UNCHANGED <<status, claimedBy, masterUp, local, late>>

(* poll_once up to its request; with an active action it changes nothing.  *)
PollClaim(g) ==
  /\ rpc[Poller(g)] = Idle
  /\ Active(g) = {}
  /\ Send(Poller(g), "claim_next", NoAct, "none")
  /\ UNCHANGED <<status, claimedBy, masterUp, local, late>>

(* The answer arrives: no work, or a claimed action that is saved unless   *)
(* another action became active (save then raises).                        *)
PollSave(g) ==
  /\ rpc[Poller(g)].stage = "ok"
  /\ rpc' = [rpc EXCEPT ![Poller(g)] = Idle]
  /\ IF rpc[Poller(g)].act # NoAct /\ Active(g) = {}
     THEN Write(g, rpc[Poller(g)].act,
                [st |-> "claimed", consumed |-> FALSE, reported |-> FALSE])
     ELSE UNCHANGED local
  /\ UNCHANGED <<status, claimedBy, masterUp, late>>

(* Slips: running is recorded before the master agreed; an active action   *)
(* that was consumed before is consumed again.                             *)
ApiConsume_RunningFirst(g) ==
  /\ rpc[Api(g)] = Idle
  /\ \E a \in Actions :
       /\ IsFirst(a, Unconsumed(g))
       /\ local[g][a].st = "claimed"
       /\ Write(g, a, [local[g][a] EXCEPT !.st = "running", !.consumed = TRUE])
       /\ Send(Api(g), "mark_running", a, "none")
  /\ UNCHANGED <<status, claimedBy, masterUp, late>>

ApiConsume_Again(g) ==
  /\ rpc[Api(g)] = Idle
  /\ \E a \in Actions :
       /\ IsFirst(a, Active(g))
       /\ Write(g, a, [local[g][a] EXCEPT !.st = "consumed", !.consumed = TRUE])
       /\ Send(Api(g), "mark_running", a, "none")
  /\ UNCHANGED <<status, claimedBy, masterUp, late>>

(* consume_action: consumed locally before the master is told.             *)
ApiConsume(g) ==
  /\ rpc[Api(g)] = Idle
  /\ \E a \in Actions :
       /\ IsFirst(a, Unconsumed(g))
       /\ local[g][a].st = "claimed"
       /\ Write(g, a, [local[g][a] EXCEPT !.st = "consumed", !.consumed = TRUE])
       /\ Send(Api(g), "mark_running", a, "none")
  /\ UNCHANGED <<status, claimedBy, masterUp, late>>

ApiRunningReported(g) ==
  /\ rpc[Api(g)].stage = "ok" /\ rpc[Api(g)].cmd = "mark_running"
  /\ local[g][rpc[Api(g)].act].st \in {"claimed", "consumed"}
  /\ LET a == rpc[Api(g)].act IN Write(g, a, [local[g][a] EXCEPT !.st = "running"])
  /\ rpc' = [rpc EXCEPT ![Api(g)] = Idle]
  /\ UNCHANGED <<status, claimedBy, masterUp, late>>

(* mark_terminal: the outcome is recorded locally, then reported.  A       *)
(* repetition of the recorded outcome only reports it again; any other     *)
(* request raises before anything changes.                                 *)
ApiTerminal(g, s) ==
  /\ rpc[Api(g)] = Idle
  /\ \E a \in Actions :
       /\ IsFirst(a, Active(g))
       /\ \/ /\ local[g][a].st = s
             /\ UNCHANGED local
          \/ /\ local[g][a].st = "running"
             /\ Write(g, a, [local[g][a] EXCEPT !.st = s, !.reported = FALSE])
       /\ Send(Api(g), "mark_terminal", a, s)
  /\ UNCHANGED <<status, claimedBy, masterUp, late>>

ApiTerminalReported(g) ==
  /\ rpc[Api(g)].stage = "ok" /\ rpc[Api(g)].cmd = "mark_terminal"
  /\ local[g][rpc[Api(g)].act].st \in Terminal
  /\ LET a == rpc[Api(g)].act IN Write(g, a, [local[g][a] EXCEPT !.reported = TRUE])
  /\ rpc' = [rpc EXCEPT ![Api(g)] = Idle]
  /\ UNCHANGED <<status, claimedBy, masterUp, late>>

(* An error answer or a reset connection is raised by the WorkflowClient   *)
(* and swallowed by the poller loop or turned into an error response.      *)
CallFailed(t) ==
  /\ rpc[t].stage = "error"
  /\ rpc' = [rpc EXCEPT ![t] = Idle]
  /\ UNCHANGED <<status, claimedBy, masterUp, local, late>>

(* A thread stops waiting: an unserved request is lost or stays in the     *)
(* backlog, a written answer is lost.                                      *)
Abandon(T) ==
  \E lost \in SUBSET {t \in T : rpc[t].stage = "sent"} :
    late' = late \cup {[agent |-> t[1], cmd |-> rpc[t].cmd, act |-> rpc[t].act,
                        to |-> rpc[t].to] :
                       t \in {u \in T : rpc[u].stage = "sent"} \ lost}

Timeout(t) ==
  /\ rpc[t].stage \in {"sent", "ok"}
  /\ Abandon({t})
  /\ rpc' = [rpc EXCEPT ![t] = Idle]
  /\ UNCHANGED <<status, claimedBy, masterUp, local>>

(* The agent process dies and is started again over the same store.        *)
AgentRestart(g) ==
  /\ \E t \in {Poller(g), Api(g)} : rpc[t] # Idle
  /\ Abandon({Poller(g), Api(g)})
  /\ rpc' = [rpc EXCEPT ![Poller(g)] = Idle, ![Api(g)] = Idle]
  /\ UNCHANGED <<status, claimedBy, masterUp, local>>

-----------------------------------------------------------------------------
Normal ==
  \/ \E a \in Actions : CreateAction(a)
  \/ \E t \in Threads : MasterServe(t) \/ CallFailed(t)
  \/ \E g \in Agents : \/ PollClaim(g) \/ PollSave(g)
                       \/ ApiConsume(g) \/ ApiRunningReported(g)
                       \/ ApiTerminalReported(g)
                       \/ \E s \in Outcomes : ApiTerminal(g, s)

Fault ==
  \/ MasterCrash \/ MasterRestart
  \/ \E q \in late : MasterServeLate(q)
  \/ \E t \in Threads : Timeout(t)
  \/ \E g \in Agents : AgentRestart(g)

Next == Normal \/ Fault
Spec == Init /\ [][Next]_vars

-----------------------------------------------------------------------------
(* The two stores never tell contradictory stories.  A local record exists *)
(* only for an action the master gave to this agent; a claimed record is   *)
(* claimed on the master; a consumed one may be ahead of or behind the     *)
(* mark_running report; a running one is RUNNING; a terminal one is still  *)
(* RUNNING or has exactly the outcome the executor recorded, and has that  *)
(* outcome once it counts as reported.                                     *)
StoresAgree ==
  \A g \in Agents, a \in Actions :
    LET r == local[g][a] IN
    /\ r.st # "absent" => claimedBy[a] = g
    /\ r.st = "claimed" => status[a] = "claimed"
    /\ r.st = "consumed" => status[a] \in {"claimed", "running"}
    /\ r.st = "running" => status[a] = "running"
    /\ r.st \in Terminal => status[a] \in {"running", r.st}
    /\ r.reported => r.st \in Terminal /\ status[a] = r.st

(* The poller thread decides to claim, waits for the answer and only then  *)
(* saves; the API thread works on the same store meanwhile.  Still, while  *)
(* a claim is on its way the agent has no active action, so the save never *)
(* finds one, and there is never more than one active action.              *)
ClaimOnlyWhenFree ==
  \A g \in Agents :
    /\ rpc[Poller(g)].stage \in {"sent", "ok"} => Active(g) = {}
    /\ \A a, b \in Active(g) : a = b

(* What makes the two invariants above inductive.  Each request in flight, *)
(* waiting for an answer or abandoned, is one the local record still calls *)
(* for: a claim answer names an action of this agent that is not recorded  *)
(* yet, a mark_running belongs to a record consumed before, a              *)
(* mark_terminal carries the recorded outcome.                             *)
OwnedIffClaimed ==
  \A a \in Actions : claimedBy[a] = NoAgent <=> status[a] \in {"none", "pending"}

ConsumedMatchesStatus ==
  \A g \in Agents, a \in Actions :
    local[g][a].consumed <=> local[g][a].st \notin {"absent", "claimed"}

ReportFits(g, q) ==
  \/ q.cmd = "mark_running" /\ q.act \in Actions
     /\ local[g][q.act].st \notin {"absent", "claimed"}
  \/ q.cmd = "mark_terminal" /\ q.act \in Actions /\ q.to \in Outcomes
     /\ local[g][q.act].st = q.to

CallsFit(g) ==
  LET p == rpc[Poller(g)] c == rpc[Api(g)] IN
  /\ p.stage # "idle" => p.cmd = "claim_next"
  /\ p.stage = "ok" /\ p.act # NoAct =>
       claimedBy[p.act] = g /\ status[p.act] = "claimed" /\ local[g][p.act].st = "absent"
  /\ c.stage # "idle" =>
       ReportFits(g, c) /\ (c.cmd = "mark_running" => local[g][c.act].st = "consumed")
  /\ c.stage = "ok" => status[c.act] = IF c.cmd = "mark_running" THEN "running" ELSE c.to
  /\ \A q \in late : q.agent = g => q.cmd = "claim_next" \/ ReportFits(g, q)

CallsFitRecords == \A g \in Agents : CallsFit(g)

IInv ==
  /\ TypeOK /\ StoresAgree /\ ClaimOnlyWhenFree
  /\ OwnedIffClaimed /\ ConsumedMatchesStatus /\ CallsFitRecords

(* A local record only moves forward, and a finished one keeps its outcome *)
(* and its acknowledgement: no late answer and no second claim reopens an  *)
(* action or hands it to an executor twice.                                *)
Rank(st) == CASE st = "absent" -> 0 [] st = "claimed" -> 1 [] st = "consumed" -> 2
              [] st = "running" -> 3 [] OTHER -> 4
Forward(old, new) ==
  /\ Rank(old.st) <= Rank(new.st)
  /\ old.st \in Terminal => new.st = old.st
  /\ old.consumed => new.consumed
  /\ old.reported => new.reported
LocalForward == \A g \in Agents, a \in Actions : Forward(local[g][a], local[g][a]')
LocalNeverRegresses == [][LocalForward]_vars

(* What the master records follows the action lifecycle.                   *)
Lifecycle == INSTANCE ActionLifecycle
ImplementsLifecycle == Lifecycle!Spec
=============================================================================
