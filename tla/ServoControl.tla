---------------------------- MODULE ServoControl ----------------------------
(***************************************************************************)
(* The servo control agent (projects/servo_teleop): the Grasshopper input  *)
(* state fed by one thread per Grasshopper connection                      *)
(* (GrasshopperInputState, GrasshopperTCPInterface), the coordinator       *)
(* thread that turns an armed input into an armed master and streams axes  *)
(* to it, the receive thread of the stream to the master, and main, which  *)
(* starts and stops the agent (ServoControlAgent).  One lock region of the *)
(* code, or one send, is one step.                                         *)
(***************************************************************************)
EXTENDS ServoLink, FiniteSets

CONSTANTS
  Clients,      \* Grasshopper connections
  MaxInputs,    \* bound: input sessions ever armed
  MaxAxes,      \* bound: axes messages per master session
  MaxPending    \* max_pending_axes

ASSUME ClientsAssumption == "none" \notin Clients
ASSUME ControlBounds ==
  MaxInputs \in Nat /\ MaxAxes \in Nat /\ MaxPending \in Nat \ {0}

VARIABLES
  gh,         \* GrasshopperInputState
  inputs,     \* input sessions armed so far (each is a fresh uuid)
  ghRequest,  \* a Grasshopper request past the status check, by connection
  phase,      \* _phase
  fault,      \* _master_fault
  stopping,   \* _stop_event
  arm,        \* _arm_request_id, _arm_response, _arm_event, requests so far
  auth,       \* _master_armed, _master_session, _active_gh_session, _master_seq
  pending,    \* _pending_axes: <<session, seq>> of unacknowledged axes
  worker      \* the coordinator thread: where it is and what it has read

controlVars == <<gh, inputs, ghRequest, phase, fault, stopping, arm, auth, pending, worker>>
inputVars == <<gh, inputs, ghRequest>>

NoInput == 0
Unarmed == [armed |-> FALSE, owner |-> "none", session |-> NoInput, seen |-> FALSE,
            dir |-> "zero"]
NoAnswer == [req |-> "none"]
NotAsking == [cmd |-> "none"]
NotArming == [id |-> 0, response |-> NoAnswer, event |-> FALSE, count |-> 0]
NoAuthority == [armed |-> FALSE, session |-> 0, input |-> NoInput, seq |-> 0]

(* A started agent (start): registered at the master, inputs disarmed.     *)
Fresh ==
  [gh |-> Unarmed, phase |-> "READY", fault |-> FALSE, stopping |-> FALSE, arm |-> NotArming,
   auth |-> NoAuthority, worker |-> [at |-> "top", snap |-> Unarmed, session |-> 0]]

ControlInit ==
  /\ gh = Fresh.gh /\ inputs = 0 /\ ghRequest = [c \in Clients |-> NotAsking]
  /\ phase = Fresh.phase /\ fault = Fresh.fault /\ stopping = Fresh.stopping
  /\ arm = Fresh.arm /\ auth = Fresh.auth /\ pending = {} /\ worker = Fresh.worker

-----------------------------------------------------------------------------
(* Grasshopper: a request is admitted by the agent's phase, then applied   *)
(* to the input state; in between the phase and the input may change.      *)
Asked(cmd) == Cardinality({c \in Clients : ghRequest[c].cmd = cmd})

GhRequest(c, cmd, dir) ==
  /\ phase # "CLOSED" /\ ghRequest[c] = NotAsking
  /\ cmd \in {"arm", "axes"} => phase \notin {"FAULT", "STOPPED"}
  /\ cmd = "arm" => phase = "READY" /\ inputs + Asked("arm") < MaxInputs
  /\ ghRequest' = [ghRequest EXCEPT ![c] = [cmd |-> cmd, dir |-> dir, session |-> gh.session]]
  /\ UNCHANGED <<gh, inputs, phase, fault, stopping, arm, auth, pending, worker, linkVars>>

GhApply(c) ==
  LET q == ghRequest[c] IN
  /\ q # NotAsking
  /\ ghRequest' = [ghRequest EXCEPT ![c] = NotAsking]
  /\ \/ /\ q.cmd = "arm" /\ ~gh.armed
        /\ inputs' = inputs + 1
        /\ gh' = [Unarmed EXCEPT !.armed = TRUE, !.owner = c, !.session = inputs + 1]
     \/ /\ q.cmd = "axes" /\ gh.armed /\ gh.owner = c /\ gh.session = q.session
        /\ gh' = [gh EXCEPT !.seen = TRUE, !.dir = q.dir]
        /\ UNCHANGED inputs
     \/ /\ q.cmd = "stop"
        /\ gh' = Unarmed
        /\ UNCHANGED inputs
     \/ /\ \/ q.cmd = "arm" /\ gh.armed
           \/ q.cmd = "axes" /\ (gh.owner # c \/ gh.session # q.session)
        /\ UNCHANGED <<gh, inputs>>
  /\ UNCHANGED <<phase, fault, stopping, arm, auth, pending, worker, linkVars>>

(* The owner's connection drops, or it sends nothing for input_timeout.    *)
GhLost ==
  /\ gh.armed
  /\ gh' = Unarmed
  /\ UNCHANGED <<inputs, ghRequest, phase, fault, stopping, arm, auth, pending, worker, linkVars>>

-----------------------------------------------------------------------------
(* _fault: latched; the first one sets the phase and wakes an arming wait. *)
Fault(armNow) ==
  /\ fault' = TRUE
  /\ phase' = IF fault THEN phase ELSE "FAULT"
  /\ arm' = IF fault THEN armNow ELSE [armNow EXCEPT !.event = TRUE]

NoFault(armNow) == arm' = armNow /\ UNCHANGED <<fault, phase>>

(* An axes acknowledgement that does not confirm the session it was sent   *)
(* under; one that nobody waits for any more is ignored.                   *)
AxesAckRejected(m) ==
  /\ m.id \in pending /\ auth.armed
  /\ ~m.accepted \/ m.session # m.id[1] \/ ~m.armed

ControlReceive ==
  /\ cUp /\ toControl # <<>>
  /\ LET m == Head(toControl) IN
       /\ toControl' = Tail(toControl)
       /\ IF m.req = "arm"
          THEN /\ IF m.id = arm.id
                  THEN NoFault([arm EXCEPT !.response = m, !.event = TRUE])
                  ELSE NoFault(arm)
               /\ UNCHANGED pending
          ELSE /\ pending' = pending \ {m.id}
               /\ IF AxesAckRejected(m) THEN Fault(arm) ELSE NoFault(arm)
  /\ UNCHANGED <<inputVars, stopping, auth, worker, toMaster, endpoints>>

ControlDisconnect ==
  /\ cUp /\ ~intact
  /\ cUp' = FALSE
  /\ IF stopping THEN NoFault(arm) ELSE Fault([arm EXCEPT !.event = TRUE])
  /\ UNCHANGED <<inputVars, stopping, auth, pending, worker, toMaster, toControl, intact, mUp>>

-----------------------------------------------------------------------------
(* The coordinator thread (_run).                                          *)
Goto(at) == worker' = [worker EXCEPT !.at = at]
Stop == [type |-> "stop"]
Send(messages) == toMaster' = IF cUp THEN Sent(toMaster, messages) ELSE toMaster

WorkerTop ==
  /\ worker.at = "top"
  /\ worker' = [worker EXCEPT !.at = IF stopping THEN "ending" ELSE "check", !.snap = gh]
  /\ UNCHANGED <<inputVars, phase, fault, stopping, arm, auth, pending, linkVars>>

(* _check_ack_watchdog: too many unacknowledged axes, or one too old.      *)
AckWatchdog(late) ==
  auth.armed /\ ~fault /\ pending # {} /\ (late \/ Cardinality(pending) >= MaxPending)

(* Slip: the input session is not compared with the one the master was     *)
(* armed for.                                                              *)
Branch_AnyInput(faulted) ==
  LET s == worker.snap IN
  IF faulted THEN "fault"
  ELSE IF ~s.armed THEN (IF auth.armed THEN "disarm" ELSE "top")
  ELSE IF auth.armed THEN "axes"
  ELSE IF s.seen THEN "arm" ELSE "top"

(* Slip: a disarmed input does not disarm the master.                      *)
Branch_KeepsMaster(faulted) ==
  LET s == worker.snap IN
  IF faulted THEN "fault"
  ELSE IF ~s.armed THEN "top"
  ELSE IF auth.armed THEN (IF s.session # auth.input THEN "disarm" ELSE "axes")
  ELSE IF s.seen THEN "arm" ELSE "top"

(* What an iteration does next.                                            *)
Branch(faulted) ==
  LET s == worker.snap IN
  IF faulted THEN "fault"
  ELSE IF ~s.armed THEN (IF auth.armed THEN "disarm" ELSE "top")
  ELSE IF auth.armed THEN (IF s.session # auth.input THEN "disarm" ELSE "axes")
  ELSE IF s.seen THEN "arm" ELSE "top"

WorkerCheck(late) ==
  /\ worker.at = "check"
  /\ IF AckWatchdog(late) \/ ~cUp THEN Fault(arm) ELSE NoFault(arm)
  /\ Goto(Branch(fault'))
  /\ UNCHANGED <<inputVars, stopping, auth, pending, linkVars>>

(* _send_axes: the watchdog again, then the message, which a fault raised  *)
(* in between does not hold back.                                          *)
WorkerAxes(late) ==
  /\ worker.at = "axes"
  /\ \/ /\ AckWatchdog(late)
        /\ Fault(arm) /\ Goto("top") /\ UNCHANGED <<auth, pending>>
     \/ /\ ~AckWatchdog(late) /\ (fault \/ auth.seq = MaxAxes)
        /\ NoFault(arm) /\ Goto("top") /\ UNCHANGED <<auth, pending>>
     \/ /\ ~AckWatchdog(late) /\ ~fault /\ auth.seq < MaxAxes
        /\ NoFault(arm) /\ Goto("sendAxes")
        /\ auth' = [auth EXCEPT !.seq = auth.seq + 1]
        /\ pending' = pending \cup {<<auth.session, auth.seq>>}
  /\ UNCHANGED <<inputVars, stopping, linkVars>>

WorkerSendAxes ==
  /\ worker.at = "sendAxes"
  /\ Send(<<[type |-> "axes", id |-> <<auth.session, auth.seq - 1>>, session |-> auth.session,
             seq |-> auth.seq - 1, dir |-> worker.snap.dir, input |-> worker.snap.session]>>)
  /\ IF cUp THEN NoFault(arm) ELSE Fault(arm)
  /\ Goto("top")
  /\ UNCHANGED <<inputVars, stopping, auth, pending, toControl, endpoints>>

(* _request_master_arm.                                                    *)
WorkerArm ==
  /\ worker.at = "arm"
  /\ arm' = [id |-> arm.count + 1, response |-> NoAnswer, event |-> FALSE, count |-> arm.count + 1]
  /\ phase' = "ARMING"
  /\ Goto("sendArm")
  /\ UNCHANGED <<inputVars, fault, stopping, auth, pending, linkVars>>

(* Slip: the request id is cleared before the answer can come.             *)
WorkerSendArm_ForgetsId ==
  /\ worker.at = "sendArm"
  /\ Send(<<[type |-> "arm", id |-> arm.id]>>)
  /\ IF cUp THEN NoFault([arm EXCEPT !.id = 0]) /\ Goto("awaitArm")
            ELSE Fault([arm EXCEPT !.id = 0]) /\ Goto("invalidate")
  /\ UNCHANGED <<inputVars, stopping, auth, pending, toControl, endpoints>>

WorkerSendArm ==
  /\ worker.at = "sendArm"
  /\ Send(<<[type |-> "arm", id |-> arm.id]>>)
  /\ IF cUp THEN NoFault(arm) /\ Goto("awaitArm")
            ELSE Fault([arm EXCEPT !.id = 0]) /\ Goto("invalidate")
  /\ UNCHANGED <<inputVars, stopping, auth, pending, toControl, endpoints>>

(* The arm counts only if the master answered this request and the input   *)
(* session that asked for it is still armed.                               *)
ArmConfirmed ==
  /\ arm.response # NoAnswer /\ ~fault /\ cUp
  /\ arm.response.accepted /\ arm.response.armed /\ arm.response.owner = "servo_control_pc"
  /\ gh.armed /\ gh.session = worker.snap.session /\ gh.seen

WorkerAwaitArm ==
  /\ worker.at = "awaitArm" /\ arm.event
  /\ IF ArmConfirmed
     THEN worker' = [worker EXCEPT !.at = "commit", !.session = arm.response.session]
     ELSE Goto(IF fault THEN "refusedFault" ELSE "refused")
  /\ UNCHANGED <<inputVars, phase, fault, stopping, arm, auth, pending, linkVars>>

(* arm_timeout: the wait gives up, though the answer may still come.       *)
ArmTimeout ==
  /\ worker.at = "awaitArm" /\ ~arm.event
  /\ Goto(IF fault THEN "refusedFault" ELSE "refused")
  /\ UNCHANGED <<inputVars, phase, fault, stopping, arm, auth, pending, linkVars>>

WorkerCommit ==
  /\ worker.at = "commit"
  /\ auth' = [armed |-> TRUE, session |-> worker.session, input |-> worker.snap.session,
              seq |-> 0]
  /\ pending' = {}
  /\ Goto("active")
  /\ UNCHANGED <<inputVars, phase, fault, stopping, arm, linkVars>>

WorkerActive ==
  /\ worker.at = "active"
  /\ phase' = "ACTIVE"
  /\ arm' = [arm EXCEPT !.id = 0]
  /\ Goto("top")
  /\ UNCHANGED <<inputVars, fault, stopping, auth, pending, linkVars>>

(* Slip: nothing is sent after an arm that was not confirmed.              *)
WorkerRefused_Silent ==
  /\ worker.at \in {"refused", "refusedFault"}
  /\ phase' = IF worker.at = "refused" THEN "READY" ELSE phase
  /\ arm' = [arm EXCEPT !.id = 0]
  /\ Goto("invalidate")
  /\ UNCHANGED <<inputVars, fault, stopping, auth, pending, linkVars>>

(* A stop follows the unconfirmed arm, in case the master granted it.      *)
WorkerRefused ==
  /\ worker.at \in {"refused", "refusedFault"}
  /\ Send(<<Stop>>)
  /\ phase' = IF worker.at = "refused" THEN "READY" ELSE phase
  /\ arm' = [arm EXCEPT !.id = 0]
  /\ Goto("invalidate")
  /\ UNCHANGED <<inputVars, fault, stopping, auth, pending, toControl, endpoints>>

(* _invalidate_gh: the input is stopped, after a look whether it is armed. *)
WorkerInvalidate ==
  /\ worker.at \in {"invalidate", "exit"}
  /\ IF gh.armed
     THEN Goto(IF worker.at = "exit" THEN "exitStopInput" ELSE "stopInput")
     ELSE Goto(IF worker.at = "exit" THEN "done" ELSE "top")
  /\ stopping' = (stopping \/ (worker.at = "exit" /\ ~gh.armed))
  /\ UNCHANGED <<inputVars, phase, fault, arm, auth, pending, linkVars>>

WorkerStopInput ==
  /\ worker.at \in {"stopInput", "exitStopInput"}
  /\ gh' = Unarmed
  /\ stopping' = (stopping \/ worker.at = "exitStopInput")
  /\ Goto(IF worker.at = "exitStopInput" THEN "done" ELSE "top")
  /\ UNCHANGED <<inputs, ghRequest, phase, fault, arm, auth, pending, linkVars>>

(* Slip: the authorization is dropped without telling the master.          *)
GiveUp_Silent(messages) ==
  /\ auth' = NoAuthority /\ pending' = {}
  /\ Send(messages)
  /\ UNCHANGED <<inputVars, phase, fault, stopping, arm, toControl, endpoints>>

(* _disarm_master: the authorization is given up, then the master is told. *)
GiveUp(messages) ==
  /\ auth' = NoAuthority /\ pending' = {}
  /\ Send((IF auth.armed THEN <<Stop>> ELSE <<>>) \o messages)
  /\ UNCHANGED <<inputVars, phase, fault, stopping, arm, toControl, endpoints>>

WorkerDisarm == worker.at = "disarm" /\ GiveUp(<<>>) /\ Goto("disarmed")

(* READY again, unless the fault flag was set when it was read.            *)
WorkerDisarmed ==
  /\ worker.at = "disarmed"
  /\ Goto(IF fault \/ stopping THEN "top" ELSE "ready")
  /\ UNCHANGED <<inputVars, phase, fault, stopping, arm, auth, pending, linkVars>>

WorkerReady ==
  /\ worker.at = "ready"
  /\ phase' = "READY"
  /\ Goto("top")
  /\ UNCHANGED <<inputVars, fault, stopping, arm, auth, pending, linkVars>>

(* The end of the thread: after a fault, or once it is told to stop.       *)
WorkerFault == worker.at = "fault" /\ GiveUp(<<Stop>>) /\ Goto("exit")
WorkerEnding == worker.at = "ending" /\ GiveUp(<<>>) /\ Goto("done")

-----------------------------------------------------------------------------
(* stop(): the thread is told, joined, and everything is closed.           *)
ControlStop ==
  /\ ~stopping /\ phase # "CLOSED"
  /\ stopping' = TRUE
  /\ arm' = [arm EXCEPT !.event = TRUE]
  /\ UNCHANGED <<inputVars, phase, fault, auth, pending, worker, linkVars>>

ControlStopped ==
  /\ stopping /\ worker.at = "done" /\ phase # "CLOSED"
  /\ toMaster' = IF cUp THEN Sent(toMaster, <<Stop>>) ELSE toMaster
  /\ toControl' = <<>> /\ intact' = FALSE /\ cUp' = FALSE
  /\ gh' = Unarmed /\ ghRequest' = [c \in Clients |-> NotAsking]
  /\ phase' = "CLOSED"
  /\ auth' = NoAuthority /\ pending' = {}
  /\ UNCHANGED <<inputs, fault, stopping, arm, worker, mUp>>

(* The process dies.                                                       *)
ControlCrash ==
  /\ phase # "CLOSED"
  /\ phase' = "CLOSED"
  /\ gh' = Unarmed /\ ghRequest' = [c \in Clients |-> NotAsking]
  /\ auth' = NoAuthority /\ pending' = {}
  /\ worker' = [worker EXCEPT !.at = "done"]
  /\ Break /\ cUp' = FALSE
  /\ UNCHANGED <<inputs, fault, stopping, arm, mUp>>

(* A fresh instance; a faulted one cannot be started again.                *)
ControlStart ==
  /\ phase = "CLOSED"
  /\ Register
  /\ gh' = Fresh.gh /\ phase' = Fresh.phase /\ fault' = Fresh.fault
  /\ stopping' = Fresh.stopping /\ arm' = Fresh.arm /\ auth' = Fresh.auth /\ pending' = {}
  /\ worker' = Fresh.worker
  /\ UNCHANGED <<inputs, ghRequest>>
=============================================================================
