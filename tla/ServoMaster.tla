---------------------------- MODULE ServoMaster ----------------------------
(***************************************************************************)
(* The servo teleoperation master (projects/servo_teleop): the control     *)
(* state that grants motion to one agent at a time (ServoControlState),    *)
(* the thread that handles the control agent's requests, the watchdog, and *)
(* the thread that publishes directions to the robot through ROSBridge.    *)
(* These three threads share the state under its lock, one lock region     *)
(* being one step.  Times are abstracted: a timeout may happen whenever    *)
(* the code would measure it.                                              *)
(***************************************************************************)
EXTENDS ServoLink

CONSTANTS
  Others,       \* other agents with the servo_control role
  MaxSessions   \* bound: master sessions ever opened

Control == "servo_control_pc"
NoSession == 0
Directions == {"zero", "move"}
NoRequest == [type |-> "none"]

ASSUME OthersAssumption == Control \notin Others /\ "none" \notin Others
ASSUME MaxSessionsAssumption == MaxSessions \in Nat

VARIABLES
  servo,      \* ServoControlState: authorization and last accepted axes
  sessions,   \* sessions opened so far (each is a fresh uuid)
  request,    \* a request past the fault check, not applied yet
  rosUp,      \* ROSBridge is connected
  rosFault,   \* _ros_fault is set
  publisher,  \* the publishing thread: where it is, its snapshot, previous_armed
  robot,      \* the last direction that reached ROS ("cut": the bridge went down)
  master      \* "running", "stopping" or "stopped"

masterVars == <<servo, sessions, request, rosUp, rosFault, publisher, robot, master>>

Disarmed == [armed |-> FALSE, owner |-> "none", session |-> NoSession,
             seen |-> FALSE, seq |-> 0, dir |-> "zero"]

MasterInit ==
  /\ servo = Disarmed
  /\ sessions = 0
  /\ request = NoRequest
  /\ rosUp = TRUE /\ rosFault = FALSE
  /\ publisher = [at |-> "top", snap |-> Disarmed, prev |-> FALSE]
  /\ robot = "zero"
  /\ master = "running"

-----------------------------------------------------------------------------
(* _fault_ros: latched once; it revokes the current authorization.         *)
FaultRos ==
  /\ rosFault' = TRUE
  /\ servo' = IF rosFault THEN servo ELSE Disarmed

Ack(q, accepted, state) ==
  [req |-> q.type, id |-> q.id, accepted |-> accepted, armed |-> state.armed,
   owner |-> state.owner, session |-> state.session]

Reply(q, accepted, state) ==
  toControl' = IF mUp THEN Sent(toControl, <<Ack(q, accepted, state)>>) ELSE toControl

(* Slip: a new authorization's last sequence number is 0, not -1.          *)
AxesAllowed_FromOne(q, agent) ==
  /\ servo.armed /\ servo.owner = agent
  /\ q.session = servo.session
  /\ q.seq > servo.seq

(* ServoControlState.apply: the owner's axes, of its session, in order.    *)
AxesAllowed(q, agent) ==
  /\ servo.armed /\ servo.owner = agent
  /\ q.session = servo.session
  /\ servo.seen => q.seq > servo.seq

Granted(agent) ==
  [Disarmed EXCEPT !.armed = TRUE, !.owner = agent, !.session = sessions + 1]

(* First half of _on_message: with a faulted bridge all but a stop is      *)
(* refused.                                                                *)
MasterReceive ==
  /\ mUp /\ request = NoRequest /\ toMaster # <<>>
  /\ LET q == Head(toMaster) IN
       /\ toMaster' = Tail(toMaster)
       /\ IF rosUp THEN UNCHANGED <<servo, rosFault>> ELSE FaultRos
       /\ IF rosFault' /\ q.type # "stop"
          THEN Reply(q, FALSE, servo') /\ UNCHANGED request
          ELSE request' = q /\ UNCHANGED toControl
  /\ UNCHANGED <<sessions, rosUp, publisher, robot, master, endpoints>>

(* Second half: the control state decides and the agent is answered.  The  *)
(* agent ignores the acknowledgement of a stop, so none is sent.           *)
MasterApply ==
  /\ request # NoRequest
  /\ request' = NoRequest
  /\ \/ /\ request.type = "stop"
        /\ servo' = Disarmed
        /\ UNCHANGED <<toControl, sessions>>
     \/ /\ request.type = "arm" /\ ~servo.armed
        /\ servo' = Granted(Control)
        /\ sessions' = sessions + 1
        /\ Reply(request, TRUE, servo')
     \/ /\ request.type = "axes" /\ AxesAllowed(request, Control)
        /\ servo' = [servo EXCEPT !.seen = TRUE, !.seq = request.seq, !.dir = request.dir]
        /\ Reply(request, TRUE, servo')
        /\ UNCHANGED sessions
     \/ /\ \/ request.type = "arm" /\ servo.armed
           \/ request.type = "axes" /\ ~AxesAllowed(request, Control)
        /\ Reply(request, FALSE, servo)
        /\ UNCHANGED <<servo, sessions>>
  /\ UNCHANGED <<rosUp, rosFault, publisher, robot, master, toMaster, endpoints>>

(* Another agent asks for control or, as any agent may, stops everything.  *)
OtherArm(a) ==
  /\ master = "running" /\ rosUp /\ ~rosFault /\ ~servo.armed
  /\ sessions < MaxSessions
  /\ servo' = Granted(a)
  /\ sessions' = sessions + 1
  /\ UNCHANGED <<request, rosUp, rosFault, publisher, robot, master, linkVars>>

OtherStop ==
  /\ Others # {} /\ master = "running" /\ servo.armed
  /\ servo' = Disarmed
  /\ UNCHANGED <<sessions, request, rosUp, rosFault, publisher, robot, master, linkVars>>

(* No valid command for command_timeout.                                   *)
CommandTimeout ==
  /\ servo.armed
  /\ servo' = Disarmed
  /\ UNCHANGED <<sessions, request, rosUp, rosFault, publisher, robot, master, linkVars>>

(* _monitor: an owner that is gone loses control; a lost bridge is a fault.*)
Watchdog ==
  /\ master = "running"
  /\ \/ /\ servo.owner = Control /\ ~mUp
        /\ servo' = Disarmed /\ UNCHANGED rosFault
     \/ ~rosUp /\ ~rosFault /\ FaultRos
  /\ UNCHANGED <<sessions, request, rosUp, publisher, robot, master, linkVars>>

(* The handler's side of a broken connection.                              *)
MasterDisconnect ==
  /\ mUp /\ ~intact /\ request = NoRequest
  /\ mUp' = FALSE
  /\ toMaster' = <<>>
  /\ UNCHANGED <<masterVars, toControl, intact, cUp>>

-----------------------------------------------------------------------------
(* _publish_ros: a snapshot, a look at the bridge and the fault, then a    *)
(* message from that snapshot.                                             *)
PublisherSnapshot ==
  /\ publisher.at = "top" /\ master = "running"
  /\ publisher' = [publisher EXCEPT !.at = "check", !.snap = servo]
  /\ UNCHANGED <<servo, sessions, request, rosUp, rosFault, robot, master, linkVars>>

Publish(direction, remember) ==
  /\ rosUp /\ robot' = direction
  /\ publisher' = [publisher EXCEPT !.at = "top", !.prev = remember]

Quiet == publisher' = [publisher EXCEPT !.at = "top"] /\ UNCHANGED robot

(* Slip: a disarmed session is not followed by a zero message.             *)
PublishTick_NoZero ==
  LET s == publisher.snap IN
  IF s.armed THEN Publish(IF s.seen THEN s.dir ELSE "zero", TRUE) ELSE Quiet

PublishTick ==
  LET s == publisher.snap IN
  \/ s.armed /\ s.seen /\ Publish(s.dir, TRUE)
  \/ ~(s.armed /\ s.seen) /\ publisher.prev /\ Publish("zero", FALSE)
  \/ s.armed /\ ~s.seen /\ ~publisher.prev /\ Publish("zero", FALSE)
  \/ ~s.armed /\ ~publisher.prev /\ Quiet

PublisherEnds == publisher' = [publisher EXCEPT !.at = "ended"]

(* A lost bridge ends the thread with a fault, a fault raised elsewhere    *)
(* ends it silently; neither sends a zero.                                 *)
PublisherCheck ==
  /\ publisher.at = "check"
  /\ IF rosUp THEN UNCHANGED <<servo, rosFault>> ELSE FaultRos
  /\ IF rosUp /\ ~rosFault THEN publisher' = [publisher EXCEPT !.at = "send"] ELSE PublisherEnds
  /\ UNCHANGED <<sessions, request, rosUp, robot, master, linkVars>>

PublisherSend ==
  /\ publisher.at = "send"
  /\ PublishTick
  /\ UNCHANGED <<servo, sessions, request, rosUp, rosFault, master, linkVars>>

(* Publishing raises, as it does without a connection.                     *)
PublishFails ==
  /\ publisher.at = "send" /\ (publisher.snap.armed \/ publisher.prev)
  /\ PublisherEnds /\ FaultRos
  /\ UNCHANGED <<sessions, request, rosUp, robot, master, linkVars>>

(* The bridge goes down, and roslibpy reconnects it by itself.             *)
RosDown ==
  /\ rosUp
  /\ rosUp' = FALSE /\ robot' = "cut"
  /\ UNCHANGED <<servo, sessions, request, rosFault, publisher, master, linkVars>>

RosReconnects ==
  /\ ~rosUp /\ master # "stopped"
  /\ rosUp' = TRUE
  /\ UNCHANGED <<servo, sessions, request, rosFault, publisher, robot, master, linkVars>>

-----------------------------------------------------------------------------
(* stop(): disarm and disconnect, join the threads, then one last zero.    *)
MasterStop ==
  /\ master = "running"
  /\ master' = "stopping"
  /\ servo' = Disarmed
  /\ Break
  /\ mUp' = FALSE
  /\ UNCHANGED <<sessions, request, rosUp, rosFault, publisher, robot, cUp>>

(* Slip: the publishing thread is not waited for.                          *)
MasterStopped_NoJoin ==
  /\ master = "stopping"
  /\ master' = "stopped"
  /\ robot' = IF rosUp THEN "zero" ELSE robot
  /\ UNCHANGED <<servo, sessions, request, rosUp, rosFault, publisher, linkVars>>

MasterStopped ==
  /\ master = "stopping" /\ publisher.at \in {"top", "ended"}
  /\ master' = "stopped"
  /\ robot' = IF rosUp THEN "zero" ELSE robot
  /\ UNCHANGED <<servo, sessions, request, rosUp, rosFault, publisher, linkVars>>
=============================================================================
