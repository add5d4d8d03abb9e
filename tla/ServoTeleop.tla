---------------------------- MODULE ServoTeleop ----------------------------
(***************************************************************************)
(* Servo teleoperation from the Grasshopper inputs to the master's control *)
(* state.  The publishing thread is left to ServoPublishing: it reads the  *)
(* control state, and all it may do to it, a bridge fault, the watchdog    *)
(* does here as well.                                                      *)
(***************************************************************************)
EXTENDS ServoControl, ServoMaster

CONSTANT MaxDisturbances   \* bound: failures, timeouts, shutdowns, rivals

VARIABLES
  born,          \* sessions opened before this instance of the agent started
  disturbances   \* how much has happened besides ordinary operation

envVars == <<born, disturbances>>
vars == <<linkVars, controlVars, masterVars, envVars>>

Init == LinkInit /\ ControlInit /\ MasterInit /\ born = 0 /\ disturbances = 0

GrasshopperStep ==
  \E c \in Clients : \/ GhApply(c)
                     \/ \E cmd \in {"arm", "axes", "stop"}, dir \in Directions :
                          (cmd # "axes" => dir = "zero") /\ GhRequest(c, cmd, dir)

WorkerStep ==
  \/ WorkerTop \/ WorkerCheck(FALSE) \/ WorkerAxes(FALSE) \/ WorkerSendAxes
  \/ WorkerArm \/ WorkerSendArm \/ WorkerAwaitArm \/ WorkerCommit \/ WorkerActive
  \/ WorkerRefused \/ WorkerInvalidate \/ WorkerStopInput
  \/ WorkerDisarm \/ WorkerDisarmed \/ WorkerReady \/ WorkerFault \/ WorkerEnding

RequestStep == MasterReceive \/ MasterApply

(* An authorization that nobody refreshes, or is about to, certainly       *)
(* expires.                                                                *)
OrphanExpires ==
  /\ CommandTimeout
  /\ ~(auth.armed /\ auth.session = servo.session)
  /\ worker.at \notin {"awaitArm", "commit"}

(* Ordinary operation and the reactions to what has gone wrong.            *)
ControlStep == GrasshopperStep \/ WorkerStep \/ ControlReceive \/ ControlDisconnect
                 \/ ControlStopped
MasterStep == RequestStep \/ Watchdog \/ OrphanExpires \/ MasterDisconnect \/ RosReconnects

(* Timeouts, lost connections, crashes, other agents, and shutdowns.       *)
ControlDisturbed ==
  GhLost \/ WorkerCheck(TRUE) \/ WorkerAxes(TRUE) \/ ArmTimeout \/ ControlStop \/ ControlCrash

MasterDisturbed ==
  \/ \E a \in Others : OtherArm(a)
  \/ OtherStop \/ CommandTimeout \/ RosDown \/ MasterStop

LinkBreaks ==
  intact /\ Break /\ UNCHANGED <<cUp, mUp, controlVars, masterVars, born>>

Restart ==
  /\ ControlStart /\ master = "running"
  /\ born' = sessions
  /\ UNCHANGED <<masterVars, disturbances>>

Disturbance ==
  /\ disturbances < MaxDisturbances
  /\ disturbances' = disturbances + 1
  /\ \/ ControlDisturbed /\ UNCHANGED <<masterVars, born>>
     \/ MasterDisturbed /\ UNCHANGED <<controlVars, born>>
     \/ LinkBreaks

Next ==
  \/ ControlStep /\ UNCHANGED <<masterVars, envVars>>
  \/ MasterStep /\ UNCHANGED <<controlVars, envVars>>
  \/ Restart
  \/ Disturbance

(* Threads run, connections notice that they are broken, and the clock of  *)
(* an orphaned authorization runs.  Grasshopper owes nothing.              *)
Fairness ==
  /\ WF_vars(WorkerStep /\ UNCHANGED <<masterVars, envVars>>)
  /\ WF_vars(ControlReceive /\ UNCHANGED <<masterVars, envVars>>)
  /\ WF_vars(ControlDisconnect /\ UNCHANGED <<masterVars, envVars>>)
  /\ WF_vars(RequestStep /\ UNCHANGED <<controlVars, envVars>>)
  /\ WF_vars(Watchdog /\ UNCHANGED <<controlVars, envVars>>)
  /\ WF_vars(OrphanExpires /\ UNCHANGED <<controlVars, envVars>>)
  /\ WF_vars(MasterDisconnect /\ UNCHANGED <<controlVars, envVars>>)

Spec == Init /\ [][Next]_vars /\ Fairness

-----------------------------------------------------------------------------
Sessions == 0..(MaxSessions + MaxInputs)
Inputs == 0..MaxInputs
Message == [type : {"stop"}] \cup [type : {"arm"}, id : Inputs]
  \cup [type : {"axes"}, id : Sessions \X Nat, session : Sessions, seq : Nat,
        dir : Directions, input : Inputs]

TypeOK ==
  /\ \A i \in DOMAIN toMaster : toMaster[i] \in Message
  /\ request \in Message \cup {NoRequest}
  /\ {intact, cUp, mUp, rosUp, rosFault, fault, stopping} \subseteq BOOLEAN
  /\ gh \in [armed : BOOLEAN, owner : Clients \cup {"none"}, session : Inputs,
             seen : BOOLEAN, dir : Directions]
  /\ phase \in {"READY", "ARMING", "ACTIVE", "FAULT", "CLOSED"}
  /\ auth \in [armed : BOOLEAN, session : Sessions, input : Inputs, seq : 0..MaxAxes]
  /\ pending \subseteq Sessions \X (0..MaxAxes)
  /\ servo \in [armed : BOOLEAN, owner : Others \cup {Control, "none"}, session : Sessions,
                seen : BOOLEAN, seq : 0..MaxAxes, dir : Directions]

(* The axes on their way: in the stream, or in the master's hands.         *)
InFlight == {toMaster[i] : i \in DOMAIN toMaster} \cup {request}
AxesInFlight == {m \in InFlight : m.type = "axes"}

(* A master session carries the motion of exactly one Grasshopper input    *)
(* session, the one it was armed for: input armed later, by another        *)
(* designer or after a stop, never steers under an earlier authorization.  *)
OneInputPerSession ==
  /\ \A m, n \in AxesInFlight : m.session = n.session => m.input = n.input
  /\ \A m \in AxesInFlight : auth.armed /\ m.session = auth.session => m.input = auth.input

StopOnItsWay ==
  \/ \E m \in InFlight : m.type = "stop"
  \/ worker.at \in {"refused", "refusedFault", "disarm", "fault", "ending"}

(* The master never stays armed for an agent that does not want it: while  *)
(* the connection holds, an armed session is the one the agent uses, one   *)
(* it is about to learn of, or one a stop is on its way for.  Late answers *)
(* and abandoned arm requests leave no orphaned authorization.             *)
NoOrphanedAuthority ==
  servo.armed /\ servo.owner = Control /\ servo.session > born
  /\ intact /\ cUp /\ mUp /\ phase # "CLOSED" =>
    \/ auth.armed /\ auth.session = servo.session
    \/ worker.at \in {"awaitArm", "commit"}
    \/ StopOnItsWay

(* Nothing moves the robot after the agent's last word: when it neither    *)
(* holds nor asks for an authorization, a stop follows every arm and every *)
(* axes message still on its way, which the stream delivers in order.      *)
Asking == worker.at \in {"awaitArm", "commit", "refused", "refusedFault"}
LastWordIsStop ==
  intact /\ cUp /\ ~auth.armed /\ ~Asking =>
    \A i \in DOMAIN toMaster :
      toMaster[i].type \in {"arm", "axes"} =>
        \E j \in DOMAIN toMaster : i < j /\ toMaster[j].type = "stop"

(* A faulted agent, its coordinator thread ended, says so to Grasshopper   *)
(* and refuses to be armed: "GH reports coordinator FAULT", "GH arming     *)
(* blocked while faulted" (tests/test_gh_ack_watchdog.py).                 *)
FaultIsVisible ==
  fault /\ worker.at = "done" /\ phase # "CLOSED" => phase = "FAULT"

-----------------------------------------------------------------------------
(* Ordinary use never faults the agent, however stops, arms and late       *)
(* acknowledgements interleave: a fault is raised after a failure or when  *)
(* the backlog of unacknowledged axes is full.                             *)
NoSpuriousFault ==
  [][fault' /\ ~fault => disturbances' > 0 \/ Cardinality(pending') = MaxPending]_vars

(* An armed input with axes gets the master armed and moving, or is        *)
(* disarmed again: the designer is never left armed without effect.        *)
InputTakesEffect ==
  gh.armed /\ gh.seen /\ gh.dir = "move" ~> servo.seen \/ ~gh.armed \/ disturbances > 0

(* Dead man: when no Grasshopper input is armed the agent's authorization  *)
(* ends, whatever fails in between, unless input is armed again.           *)
DeadMan == ~gh.armed ~> gh.armed \/ ~(servo.armed /\ servo.owner = Control)
=============================================================================
