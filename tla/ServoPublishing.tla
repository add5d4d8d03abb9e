-------------------------- MODULE ServoPublishing --------------------------
(***************************************************************************)
(* The servo master with its publishing thread and ROSBridge, used by a    *)
(* client that may send anything the protocol allows, in any order: what   *)
(* reaches the robot, whoever is at the other end.                         *)
(***************************************************************************)
EXTENDS ServoMaster

CONSTANTS
  MaxSeq,     \* bound: sequence numbers a client uses
  MaxQueue    \* bound: requests waiting in the stream

publishingVars == <<linkVars, masterVars>>

PublishingInit == LinkInit /\ MasterInit

Requests ==
  [type : {"stop"}] \cup [type : {"arm"}, id : {0}]
    \cup [type : {"axes"}, id : {0}, session : 1..sessions, seq : 0..MaxSeq, dir : Directions]

Pending == IF request = NoRequest THEN 0 ELSE 1

(* Bound: it reads its acknowledgements before it sends more.              *)
ClientSends ==
  /\ intact /\ toControl = <<>> /\ Len(toMaster) + Pending < MaxQueue
  /\ \E q \in Requests :
       /\ q.type = "arm" => sessions + Len(toMaster) + Pending < MaxSessions
       /\ toMaster' = Append(toMaster, q)
  /\ UNCHANGED <<masterVars, toControl, endpoints>>

ClientReads ==
  /\ toControl # <<>> /\ toControl' = <<>>
  /\ UNCHANGED <<masterVars, toMaster, endpoints>>

ClientLeaves == intact /\ Break /\ UNCHANGED <<masterVars, cUp, mUp>>
ClientReturns == master = "running" /\ Register /\ UNCHANGED masterVars

PublisherStep == PublisherSnapshot \/ PublisherCheck \/ PublisherSend

PublishingNext ==
  \/ ClientSends \/ ClientReads \/ ClientLeaves \/ ClientReturns
  \/ MasterReceive \/ MasterApply \/ CommandTimeout \/ Watchdog \/ MasterDisconnect
  \/ PublisherStep \/ PublishFails
  \/ RosDown \/ RosReconnects \/ MasterStop \/ MasterStopped

(* The publishing thread runs, and a stop() that was called returns.       *)
PublishingSpec ==
  /\ PublishingInit /\ [][PublishingNext]_publishingVars
  /\ WF_publishingVars(PublisherStep) /\ WF_publishingVars(MasterStopped)

-----------------------------------------------------------------------------
PublishingTypeOK ==
  /\ \A i \in DOMAIN toMaster : toMaster[i].type \in {"stop", "arm", "axes"}
  /\ servo \in [armed : BOOLEAN, owner : Others \cup {Control, "none"},
                session : 0..MaxSessions, seen : BOOLEAN, seq : 0..MaxSeq, dir : Directions]
  /\ IF servo.armed THEN servo.owner # "none" /\ servo.session \in 1..sessions
                    ELSE servo = Disarmed
  /\ sessions \in 0..MaxSessions
  /\ {intact, mUp, rosUp, rosFault, publisher.prev} \subseteq BOOLEAN
  /\ publisher.at \in {"top", "check", "send", "ended"}
  /\ robot \in Directions \cup {"cut"}
  /\ master \in {"running", "stopping", "stopped"}

(* An emergency stop, a timeout or a disconnection takes effect: once the  *)
(* master is disarmed the robot is sent a zero, although the publishing    *)
(* thread works from a snapshot and may still send one old direction,      *)
(* unless the bridge faults or control is granted again.                   *)
MotionStops == ~servo.armed ~> robot # "move" \/ servo.armed \/ rosFault

(* When stop() has returned nothing moves any more: no message of the      *)
(* publishing thread comes after the final zero.                           *)
StoppedMeansStill == master = "stopped" => robot # "move"
=============================================================================
