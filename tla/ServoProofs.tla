------------------------------ MODULE ServoProofs ------------------------------
(***************************************************************************)
(* Theorems of ServoTeleop, for any Grasshopper connections, rival agents, *)
(* bounds and disturbances: an authorization carries one input, is never   *)
(* left behind, and ends with a stop; ordinary use raises no fault.  And   *)
(* of ServoPublishing: after stop() the robot gets no more motion.         *)
(***************************************************************************)
EXTENDS ServoTeleop, ServoPublishing, FiniteSetTheorems, SequenceTheorems, TLAPS

-----------------------------------------------------------------------------
(* Types, without the bounds.                                              *)
Wire == [type : {"stop"}] \cup [type : {"arm"}, id : Nat]
  \cup [type : {"axes"}, id : Nat \X Nat, session : Nat, seq : Nat, dir : Directions, input : Nat]
Owners == Others \cup {Control, "none"}
Acks == [req : {"arm"}, id : Nat, accepted : BOOLEAN, armed : BOOLEAN, owner : Owners, session : Nat]
  \cup [req : {"axes"}, id : Nat \X Nat, accepted : BOOLEAN, armed : BOOLEAN, owner : Owners,
        session : Nat]
Gh == [armed : BOOLEAN, owner : Clients \cup {"none"}, session : Nat, seen : BOOLEAN,
       dir : Directions]
GhCommands == {NotAsking} \cup [cmd : {"arm", "axes", "stop"}, dir : Directions, session : Nat]

LinkTypes ==
  /\ toMaster \in Seq(Wire) /\ toControl \in Seq(Acks)
  /\ intact \in BOOLEAN /\ cUp \in BOOLEAN /\ mUp \in BOOLEAN
InputTypes == gh \in Gh /\ inputs \in Nat /\ ghRequest \in [Clients -> GhCommands]
AgentTypes ==
  /\ auth \in [armed : BOOLEAN, session : Nat, input : Nat, seq : Nat]
  /\ arm \in [id : Nat, response : Acks \cup {NoAnswer}, event : BOOLEAN, count : Nat]
  /\ worker = [at |-> worker.at, snap |-> worker.snap, session |-> worker.session]
  /\ worker.snap \in Gh /\ worker.session \in Nat
  /\ worker.at = "sendAxes" => auth.seq > 0
  /\ fault \in BOOLEAN /\ stopping \in BOOLEAN
MasterTypes ==
  /\ servo \in [armed : BOOLEAN, owner : Owners, session : Nat, seen : BOOLEAN, seq : Nat,
                dir : Directions]
  /\ sessions \in Nat /\ born \in Nat /\ request \in Wire \cup {NoRequest}
ControlTypes == LinkTypes /\ InputTypes /\ AgentTypes
ServoTypes == ControlTypes /\ MasterTypes

LEMMA Records ==
  /\ Unarmed \in Gh /\ NotAsking \in GhCommands
  /\ NoAuthority \in [armed : BOOLEAN, session : Nat, input : Nat, seq : Nat]
  /\ NotArming \in [id : Nat, response : Acks \cup {NoAnswer}, event : BOOLEAN, count : Nat]
  /\ Disarmed \in [armed : BOOLEAN, owner : Owners, session : Nat, seen : BOOLEAN, seq : Nat,
                   dir : Directions]
  /\ Stop \in Wire /\ Stop.type = "stop"
BY DEF Unarmed, NotAsking, NoAuthority, NotArming, Disarmed, Gh, GhCommands, Acks, NoAnswer,
   Owners,
       Wire, Stop, NoInput, NoSession, Directions

(* Sending appends.                                                        *)
LEMMA Appended ==
  ASSUME NEW S, NEW s \in Seq(S), NEW m \in S
  PROVE  /\ s \o <<m>> \in Seq(S) /\ Len(s \o <<m>>) = Len(s) + 1
         /\ \A i \in 1 .. Len(s) : (s \o <<m>>)[i] = s[i]
         /\ (s \o <<m>>)[Len(s) + 1] = m
<1>1. <<m>> \in Seq(S) /\ Len(<<m>>) = 1 /\ <<m>>[1] = m
  OBVIOUS
<1>. QED
  BY <1>1, ConcatProperties

LEMMA Breaks ==
  ASSUME toMaster \in Seq(Wire), Break
  PROVE  /\ intact' = FALSE /\ toControl' = <<>>
         /\ toMaster' \in Seq(Wire) /\ Len(toMaster') <= Len(toMaster)
         /\ \A i \in 1 .. Len(toMaster') : toMaster'[i] = toMaster[i]
<1>1. PICK n \in 0 .. Len(toMaster) : toMaster' = SubSeq(toMaster, 1, n)
  BY DEF Break
<1>2. /\ Len(toMaster') = n /\ toMaster' \in Seq(Wire)
      /\ \A i \in 1 .. n : toMaster'[i] = toMaster[i]
  BY <1>1
<1>. QED
  BY <1>2 DEF Break

LEMMA RequestsTail ==
  ASSUME toMaster \in Seq(Wire), toMaster # <<>>
  PROVE  /\ Head(toMaster) \in Wire /\ Head(toMaster) = toMaster[1]
         /\ Tail(toMaster) \in Seq(Wire) /\ Len(Tail(toMaster)) = Len(toMaster) - 1
         /\ \A i \in 1 .. Len(toMaster) - 1 : Tail(toMaster)[i] = toMaster[i + 1]
OBVIOUS

LEMMA AcksTail ==
  ASSUME toControl \in Seq(Acks), toControl # <<>>
  PROVE  /\ Head(toControl) \in Acks /\ Head(toControl) = toControl[1]
         /\ Tail(toControl) \in Seq(Acks) /\ Len(Tail(toControl)) = Len(toControl) - 1
         /\ \A i \in 1 .. Len(toControl) - 1 : Tail(toControl)[i] = toControl[i + 1]
OBVIOUS

-----------------------------------------------------------------------------
LEMMA InputsTyped ==
  ASSUME ControlTypes, NEW c \in Clients, NEW cmd \in {"arm", "axes", "stop"},
         NEW dir \in Directions, GhApply(c) \/ GhRequest(c, cmd, dir) \/ GhLost
  PROVE  ControlTypes'
<1> USE Records DEF ControlTypes
<1>1. LinkTypes' /\ AgentTypes'
  BY DEF GhApply, GhRequest, GhLost, LinkTypes, AgentTypes, linkVars
<1>2. CASE GhApply(c)
  <2>1. ghRequest' \in [Clients -> GhCommands]
    BY <1>2 DEF GhApply, InputTypes
  <2>2. ghRequest[c].cmd = "axes" => ghRequest[c].dir \in Directions
    BY DEF InputTypes, GhCommands, NotAsking
  <2>3. inputs' \in Nat
    BY <1>2 DEF GhApply, InputTypes
  <2>4. gh' = [Unarmed EXCEPT !.armed = TRUE, !.owner = c, !.session = inputs + 1] => gh' \in Gh
    <3>1. [armed |-> TRUE, owner |-> c, session |-> inputs + 1, seen |-> FALSE, dir |-> "zero"] \in Gh
      BY DEF InputTypes, Gh, Directions
    <3>. QED
      BY <3>1 DEF Unarmed
  <2>5. gh' = [gh EXCEPT !.seen = TRUE, !.dir = ghRequest[c].dir] /\ ghRequest[c].cmd = "axes"
          => gh' \in Gh
    BY <2>2 DEF InputTypes, Gh
  <2>6. gh' \in Gh
    BY <1>2, <2>4, <2>5 DEF GhApply, InputTypes
  <2>. QED
    BY <1>1, <2>1, <2>3, <2>6 DEF InputTypes
<1>3. CASE GhRequest(c, cmd, dir)
  <2>1. [cmd |-> cmd, dir |-> dir, session |-> gh.session] \in GhCommands
    BY DEF InputTypes, Gh, GhCommands
  <2>. QED
    BY <1>1, <1>3, <2>1 DEF GhRequest, InputTypes
<1>4. CASE GhLost
  BY <1>1, <1>4 DEF GhLost, InputTypes
<1>. QED
  BY <1>2, <1>3, <1>4

(* What the steps of the coordinator that send nothing do.                 *)
WorkerTyped ==
  /\ worker = [at |-> worker.at, snap |-> worker.snap, session |-> worker.session]
  /\ worker.snap \in Gh /\ worker.session \in Nat

LEMMA QuietWorkerTyped ==
  ASSUME ControlTypes,
         \/ WorkerTop \/ (\E late \in BOOLEAN : WorkerCheck(late) \/ WorkerAxes(late))
         \/ WorkerArm \/ WorkerAwaitArm \/ ArmTimeout \/ WorkerCommit \/ WorkerActive
         \/ WorkerInvalidate \/ WorkerStopInput \/ WorkerDisarmed \/ WorkerReady
         \/ ControlStop
  PROVE  ControlTypes'
<1> USE Records DEF ControlTypes
<1>1. CASE WorkerTop
  <2>1. worker' = [at |-> worker'.at, snap |-> gh, session |-> worker.session] /\ worker'.at # "sendAxes"
    BY <1>1 DEF WorkerTop, AgentTypes
  <2>. QED
    BY <1>1, <2>1 DEF WorkerTop, LinkTypes, InputTypes, AgentTypes, linkVars, inputVars
<1>2. ASSUME NEW late \in BOOLEAN, WorkerCheck(late) \/ WorkerAxes(late) PROVE ControlTypes'
  <2>1. LinkTypes' /\ InputTypes'
    BY <1>2 DEF WorkerCheck, WorkerAxes, LinkTypes, InputTypes, linkVars, inputVars
  <2>2. fault' \in BOOLEAN /\ stopping' \in BOOLEAN
    BY <1>2 DEF WorkerCheck, WorkerAxes, Fault, NoFault, AgentTypes
  <2>3. arm' \in [id : Nat, response : Acks \cup {NoAnswer}, event : BOOLEAN, count : Nat]
    BY <1>2 DEF WorkerCheck, WorkerAxes, Fault, NoFault, AgentTypes
  <2>4. PICK a : worker' = [worker EXCEPT !.at = a]
    BY <1>2 DEF WorkerCheck, WorkerAxes, Goto
  <2>5. WorkerTyped'
    BY <2>4 DEF AgentTypes, WorkerTyped
  <2>6. auth' \in [armed : BOOLEAN, session : Nat, input : Nat, seq : Nat]
    BY <1>2 DEF WorkerCheck, WorkerAxes, AgentTypes
  <2>7. worker'.at = "sendAxes" => auth'.seq > 0
    BY <1>2 DEF WorkerCheck, WorkerAxes, Goto, Branch, AgentTypes
  <2>. QED
    BY <2>1, <2>2, <2>3, <2>5, <2>6, <2>7 DEF AgentTypes, WorkerTyped
<1>3. CASE WorkerArm
  <2>1. WorkerTyped' /\ worker'.at = "sendArm"
    BY <1>3 DEF WorkerArm, Goto, AgentTypes, WorkerTyped
  <2>2. arm' \in [id : Nat, response : Acks \cup {NoAnswer}, event : BOOLEAN, count : Nat]
    BY <1>3 DEF WorkerArm, AgentTypes
  <2>. QED
    BY <1>3, <2>1, <2>2 DEF WorkerArm, LinkTypes, InputTypes, AgentTypes, linkVars, inputVars,
       WorkerTyped
<1>4. CASE WorkerAwaitArm \/ ArmTimeout
  <2>1. UNCHANGED <<inputVars, phase, fault, stopping, arm, auth, pending, linkVars>>
    BY <1>4 DEF WorkerAwaitArm, ArmTimeout
  <2>2. arm.response # NoAnswer => arm.response.session \in Nat
    BY DEF AgentTypes, Acks
  <2>3. WorkerTyped' /\ worker'.at # "sendAxes"
    BY <1>4, <2>2 DEF WorkerAwaitArm, ArmTimeout, ArmConfirmed, Goto, AgentTypes, WorkerTyped
  <2>. QED
    BY <2>1, <2>3 DEF LinkTypes, InputTypes, AgentTypes, linkVars, inputVars, WorkerTyped
<1>5. CASE WorkerCommit
  <2>1. WorkerTyped' /\ worker'.at = "active"
    BY <1>5 DEF WorkerCommit, Goto, AgentTypes, WorkerTyped
  <2>2. auth' \in [armed : BOOLEAN, session : Nat, input : Nat, seq : Nat]
    BY <1>5 DEF WorkerCommit, AgentTypes, Gh
  <2>. QED
    BY <1>5, <2>1, <2>2 DEF WorkerCommit, LinkTypes, InputTypes, AgentTypes, linkVars,
       inputVars, WorkerTyped
<1>6. CASE WorkerActive \/ WorkerDisarmed \/ WorkerReady
  <2>1. WorkerTyped' /\ worker'.at # "sendAxes"
    BY <1>6 DEF WorkerActive, WorkerDisarmed, WorkerReady, Goto, AgentTypes, WorkerTyped
  <2>2. arm' \in [id : Nat, response : Acks \cup {NoAnswer}, event : BOOLEAN, count : Nat]
    BY <1>6 DEF WorkerActive, WorkerDisarmed, WorkerReady, AgentTypes
  <2>. QED
    BY <1>6, <2>1, <2>2 DEF WorkerActive, WorkerDisarmed, WorkerReady, LinkTypes, InputTypes,
       AgentTypes,
       linkVars, inputVars, WorkerTyped
<1>7. CASE WorkerInvalidate \/ WorkerStopInput
  <2>1. LinkTypes' /\ InputTypes'
    BY <1>7 DEF WorkerInvalidate, WorkerStopInput, LinkTypes, InputTypes, linkVars, inputVars
  <2>2. stopping' \in BOOLEAN /\ WorkerTyped' /\ worker'.at # "sendAxes"
    BY <1>7 DEF WorkerInvalidate, WorkerStopInput, Goto, AgentTypes, InputTypes, Gh, WorkerTyped
  <2>. QED
    BY <1>7, <2>1, <2>2 DEF WorkerInvalidate, WorkerStopInput, AgentTypes, WorkerTyped
<1>8. CASE ControlStop
  BY <1>8 DEF ControlStop, LinkTypes, InputTypes, AgentTypes, linkVars, inputVars
<1>. QED
  BY <1>1, <1>2, <1>3, <1>4, <1>5, <1>6, <1>7, <1>8

(* Sending one message, or none.                                           *)
LEMMA SendTyped ==
  ASSUME toMaster \in Seq(Wire), NEW s \in Seq(Wire), toMaster' = IF cUp THEN Sent(toMaster, s) ELSE toMaster
  PROVE  toMaster' \in Seq(Wire)
BY DEF Sent

LEMMA SendingTyped ==
  ASSUME ControlTypes,
         \/ WorkerSendAxes \/ WorkerSendArm \/ WorkerRefused
         \/ WorkerDisarm \/ WorkerFault \/ WorkerEnding
  PROVE  ControlTypes'
<1> USE Records DEF ControlTypes
<1>1. InputTypes' /\ UNCHANGED <<toControl, intact, cUp, mUp>>
  BY DEF WorkerSendAxes, WorkerSendArm, WorkerRefused, WorkerDisarm, WorkerFault, WorkerEnding,
     GiveUp, InputTypes, inputVars, endpoints
<1>2. WorkerTyped' /\ worker'.at # "sendAxes"
  BY DEF WorkerSendAxes, WorkerSendArm, WorkerRefused, WorkerDisarm, WorkerFault, WorkerEnding,
     Goto, AgentTypes, WorkerTyped
<1>3. fault' \in BOOLEAN /\ stopping' \in BOOLEAN
  BY DEF WorkerSendAxes, WorkerSendArm, WorkerRefused, WorkerDisarm, WorkerFault, WorkerEnding,
     GiveUp, Fault, NoFault, AgentTypes
<1>4. auth' \in [armed : BOOLEAN, session : Nat, input : Nat, seq : Nat]
  BY DEF WorkerSendAxes, WorkerSendArm, WorkerRefused, WorkerDisarm, WorkerFault, WorkerEnding,
     GiveUp, AgentTypes
<1>5. arm' \in [id : Nat, response : Acks \cup {NoAnswer}, event : BOOLEAN, count : Nat]
  <2>1. CASE WorkerSendAxes \/ WorkerSendArm
    <3>1. PICK a \in {arm, [arm EXCEPT !.id = 0]} : arm' = a \/ arm' = [a EXCEPT !.event = TRUE]
      BY <2>1 DEF WorkerSendAxes, WorkerSendArm, Fault, NoFault
    <3>2. a \in [id : Nat, response : Acks \cup {NoAnswer}, event : BOOLEAN, count : Nat]
      BY DEF AgentTypes
    <3>. QED
      BY <3>1, <3>2
  <2>2. CASE WorkerRefused \/ WorkerDisarm \/ WorkerFault \/ WorkerEnding
    BY <2>2 DEF WorkerRefused, WorkerDisarm, WorkerFault, WorkerEnding, GiveUp, AgentTypes
  <2>. QED
    BY <2>1, <2>2
<1>6. PICK s \in Seq(Wire) : toMaster' = IF cUp THEN Sent(toMaster, s) ELSE toMaster
  <2>1. CASE WorkerSendAxes
    <3> DEFINE m == [type |-> "axes", id |-> <<auth.session, auth.seq - 1>>, session |-> auth.session,
                     seq |-> auth.seq - 1, dir |-> worker.snap.dir, input |-> worker.snap.session]
    <3>1. auth.seq - 1 \in Nat /\ auth.session \in Nat
      BY <2>1 DEF WorkerSendAxes, AgentTypes
    <3>2. worker.snap.dir \in Directions /\ worker.snap.session \in Nat
      BY DEF AgentTypes, Gh
    <3>3. m \in Wire
      BY <3>1, <3>2 DEF Wire
    <3>4. <<m>> \in Seq(Wire)
      BY <3>3
    <3>5. toMaster' = IF cUp THEN Sent(toMaster, <<m>>) ELSE toMaster
      BY <2>1 DEF WorkerSendAxes, Send
    <3>. QED
      BY <3>4, <3>5
  <2>2. CASE WorkerSendArm
    <3> DEFINE m == [type |-> "arm", id |-> arm.id]
    <3>1. m \in Wire
      BY DEF AgentTypes, Wire
    <3>2. <<m>> \in Seq(Wire)
      BY <3>1
    <3>3. toMaster' = IF cUp THEN Sent(toMaster, <<m>>) ELSE toMaster
      BY <2>2 DEF WorkerSendArm, Send
    <3>. QED
      BY <3>2, <3>3
  <2>3. CASE WorkerRefused
    <3>1. <<Stop>> \in Seq(Wire)
      OBVIOUS
    <3>2. toMaster' = IF cUp THEN Sent(toMaster, <<Stop>>) ELSE toMaster
      BY <2>3 DEF WorkerRefused, Send
    <3>. QED
      BY <3>1, <3>2
  <2>4. CASE WorkerDisarm \/ WorkerFault \/ WorkerEnding
    <3>1. <<Stop>> \in Seq(Wire) /\ <<>> \in Seq(Wire)
      OBVIOUS
    <3>2. ASSUME NEW s \in Seq(Wire), GiveUp(s)
          PROVE  \E t \in Seq(Wire) : toMaster' = IF cUp THEN Sent(toMaster, t) ELSE toMaster
      <4>1. (IF auth.armed THEN <<Stop>> ELSE <<>>) \o s \in Seq(Wire)
        BY <3>1, ConcatProperties
      <4>. QED
        BY <3>2, <4>1 DEF GiveUp, Send
    <3>. QED
      BY <2>4, <3>1, <3>2 DEF WorkerDisarm, WorkerFault, WorkerEnding
  <2>. QED
    BY <2>1, <2>2, <2>3, <2>4
<1>7. toMaster' \in Seq(Wire)
  BY <1>6, SendTyped DEF LinkTypes
<1>. QED
  BY <1>1, <1>2, <1>3, <1>4, <1>5, <1>7 DEF LinkTypes, AgentTypes, WorkerTyped

LEMMA ControlEventTyped ==
  ASSUME ControlTypes,
         ControlReceive \/ ControlDisconnect \/ ControlStopped \/ ControlCrash \/ ControlStart
  PROVE  ControlTypes'
<1> USE Records DEF ControlTypes
<1>1. CASE ControlReceive
  <2>1. toControl' \in Seq(Acks)
    BY <1>1, AcksTail DEF ControlReceive, LinkTypes
  <2>2. Head(toControl) \in Acks
    BY <1>1, AcksTail DEF ControlReceive, LinkTypes
  <2>3. \/ arm' = arm \/ arm' = [arm EXCEPT !.event = TRUE]
        \/ arm' = [arm EXCEPT !.response = Head(toControl), !.event = TRUE]
    BY <1>1 DEF ControlReceive, Fault, NoFault
  <2>4. arm' \in [id : Nat, response : Acks \cup {NoAnswer}, event : BOOLEAN, count : Nat]
    BY <2>2, <2>3 DEF AgentTypes
  <2>5. fault' \in BOOLEAN
    BY <1>1 DEF ControlReceive, Fault, NoFault, AgentTypes
  <2>. QED
    BY <1>1, <2>1, <2>4, <2>5 DEF ControlReceive, LinkTypes, InputTypes, AgentTypes,
       inputVars, endpoints
<1>2. CASE ControlDisconnect
  <2>1. arm' \in [id : Nat, response : Acks \cup {NoAnswer}, event : BOOLEAN, count : Nat]
    BY <1>2 DEF ControlDisconnect, Fault, NoFault, AgentTypes
  <2>2. fault' \in BOOLEAN
    BY <1>2 DEF ControlDisconnect, Fault, NoFault, AgentTypes
  <2>. QED
    BY <1>2, <2>1, <2>2 DEF ControlDisconnect, LinkTypes, InputTypes, AgentTypes, inputVars
<1>3. CASE ControlStopped
  <2>1. <<Stop>> \in Seq(Wire) /\ <<>> \in Seq(Acks)
    OBVIOUS
  <2>2. toMaster' \in Seq(Wire)
    BY <1>3, <2>1, SendTyped DEF ControlStopped, LinkTypes
  <2>. QED
    BY <1>3, <2>1, <2>2 DEF ControlStopped, LinkTypes, InputTypes, AgentTypes
<1>4. CASE ControlCrash
  <2>1. toMaster' \in Seq(Wire) /\ toControl' \in Seq(Acks) /\ intact' \in BOOLEAN
    BY <1>4, Breaks DEF ControlCrash, LinkTypes
  <2>2. worker' = [at |-> "done", snap |-> worker.snap, session |-> worker.session]
    BY <1>4 DEF ControlCrash, AgentTypes
  <2>. QED
    BY <1>4, <2>1, <2>2 DEF ControlCrash, LinkTypes, InputTypes, AgentTypes
<1>5. CASE ControlStart
  <2>1. toMaster' \in Seq(Wire) /\ toControl' \in Seq(Acks)
    BY <1>5 DEF ControlStart, Register
  <2>. QED
    BY <1>5, <2>1 DEF ControlStart, Register, Fresh, LinkTypes, InputTypes, AgentTypes
<1>. QED
  BY <1>1, <1>2, <1>3, <1>4, <1>5

(* The master's side.  Acknowledgements are of requests other than a stop. *)
LEMMA AckTyped ==
  ASSUME NEW q \in Wire, q.type # "stop", NEW accepted \in BOOLEAN,
         NEW state \in [armed : BOOLEAN, owner : Owners, session : Nat, seen : BOOLEAN, seq : Nat,
                        dir : Directions]
  PROVE  Ack(q, accepted, state) \in Acks
BY DEF Ack, Acks, Wire

LEMMA ReplyTyped ==
  ASSUME toControl \in Seq(Acks), NEW a \in Acks,
         toControl' = IF mUp THEN Sent(toControl, <<a>>) ELSE toControl
  PROVE  toControl' \in Seq(Acks)
<1>1. <<a>> \in Seq(Acks)
  OBVIOUS
<1>. QED
  BY <1>1 DEF Sent

ServoType == [armed : BOOLEAN, owner : Owners, session : Nat, seen : BOOLEAN, seq : Nat,
              dir : Directions]

LEMMA GrantedIs ==
  ASSUME NEW a \in Owners, sessions \in Nat
  PROVE  /\ Granted(a) \in ServoType
         /\ Granted(a).armed /\ Granted(a).owner = a /\ Granted(a).session = sessions + 1
         /\ ~Granted(a).seen
<1>1. [armed |-> TRUE, owner |-> a, session |-> sessions + 1, seen |-> FALSE, seq |-> 0, dir |-> "zero"]
        \in ServoType
  BY DEF ServoType, Directions
<1>2. Granted(a) \in ServoType
  BY <1>1 DEF Granted, Disarmed, ServoType, NoSession, Directions
<1>. QED
  BY <1>2 DEF Granted, Disarmed

LEMMA MasterReceiveTyped ==
  ASSUME LinkTypes, MasterTypes, MasterReceive, born' = born
  PROVE  LinkTypes' /\ MasterTypes'
<1> DEFINE q == toMaster[1]
<1>1. /\ Head(toMaster) = q /\ q \in Wire /\ toMaster' \in Seq(Wire)
  BY RequestsTail DEF MasterReceive, LinkTypes
<1>2. servo' \in ServoType
  BY Records DEF MasterReceive, FaultRos, MasterTypes, ServoType
<1>3. toControl' \in Seq(Acks) /\ request' \in Wire \cup {NoRequest}
  <2>1. CASE rosFault' /\ q.type # "stop"
    <3>1. Ack(q, FALSE, servo') \in Acks
      BY <1>1, <1>2, <2>1, AckTyped DEF ServoType
    <3>2. /\ toControl' = IF mUp THEN Sent(toControl, <<Ack(q, FALSE, servo')>>) ELSE toControl
          /\ request' = request
      BY <1>1, <2>1 DEF MasterReceive, Reply
    <3>. QED
      BY <3>1, <3>2, ReplyTyped DEF LinkTypes, MasterTypes
  <2>2. CASE ~(rosFault' /\ q.type # "stop")
    BY <1>1, <2>2 DEF MasterReceive, LinkTypes
  <2>. QED
    BY <2>1, <2>2
<1>. QED
  BY <1>1, <1>2, <1>3 DEF MasterReceive, LinkTypes, MasterTypes, ServoType, endpoints

LEMMA MasterApplyTyped ==
  ASSUME LinkTypes, MasterTypes, MasterApply, born' = born
  PROVE  LinkTypes' /\ MasterTypes'
<1>1. request \in Wire
  BY DEF MasterApply, MasterTypes
<1>2. servo' \in ServoType /\ sessions' \in Nat
  <2>1. Granted(Control) \in ServoType
    BY GrantedIs DEF MasterTypes, Owners
  <2>2. request.type = "axes" => request.seq \in Nat /\ request.dir \in Directions
    BY <1>1 DEF Wire
  <2>3. request.type = "axes" =>
          [servo EXCEPT !.seen = TRUE, !.seq = request.seq, !.dir = request.dir] \in ServoType
    BY <2>2 DEF MasterTypes, ServoType
  <2>4. Disarmed \in ServoType /\ servo \in ServoType
    BY Records DEF MasterTypes, ServoType
  <2>5. /\ request.type = "axes" \/ servo' \in {Disarmed, Granted(Control), servo}
        /\ request.type = "axes" => servo' \in {servo, [servo EXCEPT !.seen = TRUE, !.seq = request.seq, !.dir = request.dir]}
        /\ sessions' \in {sessions, sessions + 1}
    BY DEF MasterApply
  <2>. QED
    BY <2>1, <2>3, <2>4, <2>5 DEF MasterTypes
<1>3. toControl' \in Seq(Acks)
  <2>1. CASE request.type = "stop"
    BY <2>1 DEF MasterApply, LinkTypes
  <2>2. CASE request.type # "stop"
    <3>1. PICK accepted \in BOOLEAN, state \in ServoType : Reply(request, accepted, state)
      BY <1>2, <2>2 DEF MasterApply, MasterTypes, ServoType
    <3>2. Ack(request, accepted, state) \in Acks
      BY <1>1, <2>2, AckTyped DEF ServoType
    <3>. QED
      BY <3>1, <3>2, ReplyTyped DEF Reply, LinkTypes
  <2>. QED
    BY <2>1, <2>2
<1>. QED
  BY <1>2, <1>3 DEF MasterApply, LinkTypes, MasterTypes, ServoType, endpoints

LEMMA MasterTyped ==
  ASSUME LinkTypes, MasterTypes, born' = born,
         \/ CommandTimeout \/ OtherStop \/ Watchdog \/ MasterDisconnect \/ RosReconnects \/ RosDown
         \/ MasterStop \/ \E a \in Others : OtherArm(a)
  PROVE  LinkTypes' /\ MasterTypes'
<1>1. CASE CommandTimeout \/ OtherStop \/ Watchdog
  BY <1>1, Records DEF CommandTimeout, OtherStop, Watchdog, FaultRos, LinkTypes, MasterTypes,
     linkVars
<1>2. CASE RosReconnects \/ RosDown
  BY <1>2 DEF RosReconnects, RosDown, LinkTypes, MasterTypes, linkVars
<1>3. CASE MasterDisconnect
  <2>1. <<>> \in Seq(Wire)
    OBVIOUS
  <2>. QED
    BY <1>3, <2>1 DEF MasterDisconnect, LinkTypes, MasterTypes, masterVars
<1>4. CASE MasterStop
  <2>1. <<>> \in Seq(Acks) /\ toMaster' \in Seq(Wire) /\ toControl' = <<>> /\ intact' = FALSE
    BY <1>4, Breaks DEF MasterStop, LinkTypes
  <2>. QED
    BY <1>4, <2>1, Records DEF MasterStop, LinkTypes, MasterTypes
<1>5. ASSUME NEW a \in Others, OtherArm(a) PROVE LinkTypes' /\ MasterTypes'
  <2>1. Granted(a) \in ServoType
    BY GrantedIs DEF MasterTypes, Owners
  <2>. QED
    BY <1>5, <2>1 DEF OtherArm, LinkTypes, MasterTypes, ServoType, linkVars
<1>. QED
  BY <1>1, <1>2, <1>3, <1>4, <1>5

-----------------------------------------------------------------------------
(* The line from the agent to the master: the request in the master's      *)
(* hands, then the stream.                                                 *)
Line == 0 .. Len(toMaster)
On(i) == IF i = 0 THEN request ELSE toMaster[i]
StopAfter(i) == \E j \in 1 .. Len(toMaster) : i < j /\ toMaster[j].type = "stop"
StopOnLine == \E i \in Line : On(i).type = "stop"

(* The acknowledgements that grant the arm request the agent waits for.    *)
Grants(m) == m # NoAnswer /\ m.req = "arm" /\ m.id = arm.id /\ m.accepted
Granting == {m \in {toControl[i] : i \in 1 .. Len(toControl)} \cup {arm.response} : Grants(m)}

(* What the places of the coordinator say of its authorization and of the  *)
(* arm request; and a master that runs on without the agent holds nothing. *)
WorkerFits ==
  /\ worker.at \in {"axes", "sendAxes", "active", "disarm"} => auth.armed
  /\ worker.at \in {"arm", "sendArm", "awaitArm", "commit", "refused", "refusedFault"}
       => ~auth.armed
  /\ worker.at \in {"axes", "sendAxes"} => worker.snap.session = auth.input
  /\ worker.at \in {"sendArm", "awaitArm", "refused", "refusedFault"} => arm.id = arm.count
  /\ worker.at = "sendArm" => arm.response = NoAnswer
  /\ worker.at = "awaitArm" /\ arm.response # NoAnswer
       => arm.response.req = "arm" /\ arm.response.id = arm.id
  /\ ~mUp /\ master = "running" => request = NoRequest

(* A request id is used once, and an answered request is not on the line.  *)
ArmsFit ==
  /\ \A i \in Line : On(i).type = "arm" =>
       /\ On(i).id <= arm.count
       /\ worker.at = "sendArm" => On(i).id < arm.count
       /\ worker.at = "awaitArm" /\ arm.response # NoAnswer => On(i).id # arm.id
       /\ \A j \in Line : i < j /\ On(j).type = "arm" => On(i).id # On(j).id
       /\ \A k \in 1 .. Len(toControl) : toControl[k].req = "arm" => toControl[k].id # On(i).id
  /\ \A k \in 1 .. Len(toControl) : toControl[k].req = "arm" =>
       /\ toControl[k].id <= arm.count
       /\ worker.at = "sendArm" => toControl[k].id < arm.count

(* A session that is being granted is later than those of all axes sent.   *)
SessionsFit ==
  /\ auth.session <= sessions /\ servo.session <= sessions
  /\ \A i \in Line : On(i).type = "axes" =>
       /\ On(i).session <= sessions
       /\ worker.at = "awaitArm" => \A m \in Granting : On(i).session < m.session
       /\ worker.at = "commit" => On(i).session < worker.session
  /\ worker.at = "awaitArm" => \A m \in Granting : m.session <= sessions
  /\ worker.at = "commit" => worker.session <= sessions

InputsFit ==
  \A i \in Line : On(i).type = "axes" =>
    /\ auth.armed /\ On(i).session = auth.session => On(i).input = auth.input
    /\ \A j \in Line : On(j).type = "axes" /\ On(i).session = On(j).session
         => On(i).input = On(j).input

(* A stop follows all the agent has sent, but for the axes of its          *)
(* authorization and the arm request it waits for.                         *)
StopsFollow ==
  intact /\ cUp => \A i \in Line :
    /\ On(i).type = "axes" /\ ~auth.armed /\ ~Asking => StopAfter(i)
    /\ On(i).type = "arm" =>
         \/ StopAfter(i)
         \/ worker.at \in {"awaitArm", "refused", "refusedFault"} /\ On(i).id = arm.id

(* The agent's authorization at the master is one it uses, is about to     *)
(* learn of or to refuse; or a stop is on the line.                        *)
Wanted ==
  \/ StopOnLine
  \/ auth.armed /\ auth.session = servo.session
  \/ worker.at = "awaitArm" /\ \A m \in Granting : m.session = servo.session
  \/ worker.at = "commit" /\ worker.session = servo.session
  \/ worker.at \in {"refused", "refusedFault"}
AuthorityFits ==
  servo.armed /\ servo.owner = Control /\ servo.session > born
  /\ intact /\ cUp /\ mUp => Wanted

ServoInv ==
  /\ ServoTypes /\ WorkerFits /\ ArmsFit /\ SessionsFit /\ InputsFit /\ StopsFollow
  /\ AuthorityFits

LEMMA ServoBegins == Init => ServoInv
<1> SUFFICES ASSUME Init PROVE ServoInv
  OBVIOUS
<1> USE DEF Init, LinkInit, ControlInit, MasterInit, Fresh
<1>1. ServoTypes
  <2>1. <<>> \in Seq(Wire) /\ <<>> \in Seq(Acks)
    OBVIOUS
  <2>. QED
    BY <2>1, Records DEF ServoTypes, ControlTypes, LinkTypes, InputTypes, AgentTypes,
       MasterTypes
<1>2. Len(toMaster) = 0 /\ Len(toControl) = 0 /\ request.type = "none" /\ ~auth.armed /\ ~servo.armed
  BY DEF NoRequest, NoAuthority, Disarmed
<1>3. WorkerFits /\ ArmsFit
  BY <1>2 DEF WorkerFits, ArmsFit, Line, On
<1>4. SessionsFit /\ InputsFit
  BY <1>2 DEF SessionsFit, InputsFit, Line, On, NoAuthority, Disarmed, NoSession
<1>5. StopsFollow /\ AuthorityFits
  BY <1>2 DEF StopsFollow, AuthorityFits, Line, On
<1>. QED
  BY <1>1, <1>3, <1>4, <1>5 DEF ServoInv

LEMMA OnTyped ==
  ASSUME ServoTypes
  PROVE  /\ \A i \in Line :
              /\ On(i) \in Wire \cup {NoRequest}
              /\ On(i).type = "arm" => On(i).id \in Nat
              /\ On(i).type = "axes" => On(i).session \in Nat /\ On(i).input \in Nat
         /\ \A k \in 1 .. Len(toControl) :
              /\ toControl[k] \in Acks
              /\ toControl[k].req = "arm" => toControl[k].id \in Nat
<1>1. \A i \in Line : On(i) \in Wire \cup {NoRequest}
  BY DEF ServoTypes, ControlTypes, LinkTypes, MasterTypes, Line, On
<1>2. \A k \in 1 .. Len(toControl) : toControl[k] \in Acks
  BY DEF ServoTypes, ControlTypes, LinkTypes
<1>. QED
  BY <1>1, <1>2 DEF Wire, NoRequest, Acks

LEMMA LineStays ==
  ASSUME UNCHANGED <<toMaster, request>>
  PROVE  /\ Line' = Line /\ StopOnLine' = StopOnLine
         /\ \A i : On(i)' = On(i) /\ StopAfter(i)' = StopAfter(i)
BY DEF Line, StopOnLine, On, StopAfter

LEMMA GrantingStays ==
  ASSUME UNCHANGED toControl, arm'.id = arm.id, arm'.response = arm.response
  PROVE  Granting' = Granting
BY DEF Granting, Grants

(* The coordinator moves on and sends nothing.                             *)
LEMMA PlaceKeeps ==
  ASSUME ServoInv, ServoTypes', WorkerFits',
         UNCHANGED <<linkVars, servo, sessions, request, born>>,
         auth'.armed = auth.armed, auth'.session = auth.session, auth'.input = auth.input,
         arm'.count = arm.count, worker'.session = worker.session,
         worker.at = "active" \/ (arm'.id = arm.id /\ arm'.response = arm.response),
         \/ worker'.at = worker.at
         \/ /\ worker.at \notin {"sendArm", "awaitArm", "commit", "refused", "refusedFault"}
            /\ worker'.at \notin {"sendArm", "awaitArm", "commit", "refused", "refusedFault"}
  PROVE  ServoInv'
<1> USE DEF ServoInv
<1>1. /\ Line' = Line /\ StopOnLine' = StopOnLine
      /\ worker.at # "active" => Granting' = Granting
      /\ \A i : On(i)' = On(i) /\ StopAfter(i)' = StopAfter(i)
      /\ UNCHANGED <<toControl, intact, cUp, mUp>>
  BY LineStays, GrantingStays DEF linkVars
<1>2. ArmsFit'
  BY <1>1 DEF ArmsFit
<1>3. SessionsFit'
  BY <1>1 DEF SessionsFit
<1>4. InputsFit'
  BY <1>1 DEF InputsFit
<1>5. StopsFollow'
  BY <1>1 DEF StopsFollow, Asking
<1>6. AuthorityFits'
  BY <1>1 DEF AuthorityFits, Wanted
<1>. QED
  BY <1>2, <1>3, <1>4, <1>5, <1>6

(* Grasshopper, and the steps of the coordinator that only move it on.     *)
LEMMA QuietKeeps ==
  ASSUME ServoInv, ServoTypes', UNCHANGED <<masterVars, born>>,
         \/ \E c \in Clients : \/ GhApply(c)
                               \/ \E cmd \in {"arm", "axes", "stop"}, dir \in Directions :
                                    GhRequest(c, cmd, dir)
         \/ GhLost \/ WorkerTop \/ WorkerActive \/ WorkerInvalidate \/ WorkerStopInput
         \/ WorkerDisarmed \/ WorkerReady \/ ControlStop
  PROVE  ServoInv'
<1>1. /\ UNCHANGED <<linkVars, servo, sessions, request, born>>
      /\ auth'.armed = auth.armed /\ auth'.session = auth.session /\ auth'.input = auth.input
  BY DEF GhApply, GhRequest, GhLost, WorkerTop, WorkerActive, WorkerInvalidate, WorkerStopInput,
     WorkerDisarmed, WorkerReady, ControlStop, masterVars
<1>2. /\ arm'.count = arm.count
      /\ worker.at = "active" \/ (arm'.id = arm.id /\ arm'.response = arm.response)
  BY DEF GhApply, GhRequest, GhLost, WorkerTop, WorkerActive, WorkerInvalidate, WorkerStopInput,
     WorkerDisarmed, WorkerReady, ControlStop, ServoInv, ServoTypes, ControlTypes, AgentTypes
<1>3. /\ worker'.session = worker.session
      /\ \/ worker' = worker
         \/ /\ worker.at \in {"top", "active", "invalidate", "exit", "stopInput", "exitStopInput",
                              "disarmed", "ready"}
            /\ worker'.at \in {"ending", "check", "top", "ready", "done", "exitStopInput", "stopInput"}
  BY DEF GhApply, GhRequest, GhLost, WorkerTop, WorkerActive, WorkerInvalidate, WorkerStopInput,
     WorkerDisarmed, WorkerReady, ControlStop, Goto, ServoInv, ServoTypes, ControlTypes,
     AgentTypes
<1>4. WorkerFits'
  BY <1>1, <1>2, <1>3 DEF ServoInv, WorkerFits, linkVars, masterVars
<1>. QED
  BY <1>1, <1>2, <1>3, <1>4, PlaceKeeps

LEMMA CheckKeeps ==
  ASSUME ServoInv, ServoTypes', UNCHANGED <<masterVars, born>>,
         NEW late \in BOOLEAN, WorkerCheck(late) \/ WorkerAxes(late)
  PROVE  ServoInv'
<1>1. /\ UNCHANGED <<linkVars, servo, sessions, request, born>>
      /\ auth'.armed = auth.armed /\ auth'.session = auth.session /\ auth'.input = auth.input
  BY DEF WorkerCheck, WorkerAxes, masterVars, ServoInv, ServoTypes, ControlTypes, AgentTypes
<1>2. arm'.count = arm.count /\ arm'.id = arm.id /\ arm'.response = arm.response
  BY DEF WorkerCheck, WorkerAxes, Fault, NoFault, ServoInv, ServoTypes, ControlTypes, AgentTypes
<1>3. /\ worker'.session = worker.session /\ worker'.snap = worker.snap
      /\ worker.at \in {"check", "axes"}
  BY DEF WorkerCheck, WorkerAxes, Goto, ServoInv, ServoTypes, ControlTypes, AgentTypes
<1>4. \/ worker'.at \in {"fault", "top"} \/ (worker'.at = "disarm" /\ auth.armed)
      \/ worker'.at = "axes" /\ auth.armed /\ worker.snap.session = auth.input
      \/ worker'.at = "arm" /\ ~auth.armed
      \/ worker'.at = "sendAxes" /\ worker.at = "axes"
  <2>1. CASE WorkerCheck(late)
    <3>1. worker'.at = Branch(fault')
      BY <2>1 DEF WorkerCheck, Goto, ServoInv, ServoTypes, ControlTypes, AgentTypes
    <3>2. auth.armed \in BOOLEAN /\ worker.snap.armed \in BOOLEAN /\ fault' \in BOOLEAN
      BY DEF ServoInv, ServoTypes, ControlTypes, AgentTypes, Gh
    <3>. QED
      BY <3>1, <3>2 DEF Branch
  <2>2. CASE WorkerAxes(late)
    BY <2>2 DEF WorkerAxes, Goto, ServoInv, ServoTypes, ControlTypes, AgentTypes
  <2>. QED
    BY <2>1, <2>2
<1>5. WorkerFits'
  BY <1>1, <1>2, <1>3, <1>4 DEF ServoInv, WorkerFits, linkVars, masterVars
<1>. QED
  BY <1>1, <1>2, <1>3, <1>4, <1>5, PlaceKeeps

(* A new request id is later than all on the line.                         *)
LEMMA ArmKeeps ==
  ASSUME ServoInv, ServoTypes', UNCHANGED <<masterVars, born>>, WorkerArm
  PROVE  ServoInv'
<1> USE DEF ServoInv
<1>1. /\ Line' = Line /\ StopOnLine' = StopOnLine
      /\ \A i : On(i)' = On(i) /\ StopAfter(i)' = StopAfter(i)
      /\ UNCHANGED <<toControl, intact, cUp, mUp, servo, sessions, born, request, auth, master>>
  BY LineStays DEF WorkerArm, linkVars, masterVars
<1>2. /\ worker.at = "arm" /\ worker'.at = "sendArm"
      /\ arm'.id = arm.count + 1 /\ arm'.count = arm.count + 1 /\ arm'.response = NoAnswer
      /\ arm.count \in Nat
  BY DEF WorkerArm, Goto, ServoTypes, ControlTypes, AgentTypes
<1>3. WorkerFits'
  BY <1>1, <1>2 DEF WorkerFits
<1>4. ArmsFit'
  <2>1. \A i \in Line : On(i).type = "arm" => On(i).id \in Nat
    BY OnTyped
  <2>2. \A k \in 1 .. Len(toControl) : toControl[k].req = "arm" => toControl[k].id \in Nat
    BY OnTyped
  <2>. QED
    BY <1>1, <1>2, <2>1, <2>2 DEF ArmsFit
<1>5. SessionsFit' /\ InputsFit'
  BY <1>1, <1>2 DEF SessionsFit, InputsFit
<1>6. StopsFollow' /\ AuthorityFits'
  BY <1>1, <1>2 DEF StopsFollow, Asking, AuthorityFits, Wanted, WorkerFits
<1>. QED
  BY <1>3, <1>4, <1>5, <1>6

(* The wait for the answer ends: with a session no axes were sent under,   *)
(* or with a stop to come.                                                 *)
LEMMA AwaitKeeps ==
  ASSUME ServoInv, ServoTypes', UNCHANGED <<masterVars, born>>, WorkerAwaitArm \/ ArmTimeout
  PROVE  ServoInv'
<1> USE DEF ServoInv
<1>1. /\ Line' = Line /\ StopOnLine' = StopOnLine
      /\ \A i : On(i)' = On(i) /\ StopAfter(i)' = StopAfter(i)
      /\ UNCHANGED <<toControl, intact, cUp, mUp, servo, sessions, born, request, auth, arm,
                     master>>
  BY LineStays DEF WorkerAwaitArm, ArmTimeout, linkVars, masterVars
<1>2. /\ worker.at = "awaitArm"
      /\ \/ worker'.at \in {"refused", "refusedFault"}
         \/ /\ worker'.at = "commit" /\ worker'.session = arm.response.session
            /\ arm.response # NoAnswer /\ arm.response.accepted
  BY DEF WorkerAwaitArm, ArmTimeout, ArmConfirmed, Goto, ServoTypes, ControlTypes, AgentTypes
<1>3. worker'.at = "commit" => arm.response \in Granting
  BY <1>2 DEF WorkerFits, Granting, Grants
<1>4. WorkerFits' /\ ArmsFit' /\ InputsFit'
  BY <1>1, <1>2 DEF WorkerFits, ArmsFit, InputsFit
<1>5. SessionsFit'
  BY <1>1, <1>2, <1>3 DEF SessionsFit
<1>6. StopsFollow'
  BY <1>1, <1>2 DEF StopsFollow, Asking, ArmsFit
<1>7. AuthorityFits'
  BY <1>1, <1>2, <1>3 DEF AuthorityFits, Wanted
<1>. QED
  BY <1>4, <1>5, <1>6, <1>7

LEMMA CommitKeeps ==
  ASSUME ServoInv, ServoTypes', UNCHANGED <<masterVars, born>>, WorkerCommit
  PROVE  ServoInv'
<1> USE DEF ServoInv
<1>1. /\ Line' = Line /\ StopOnLine' = StopOnLine
      /\ \A i : On(i)' = On(i) /\ StopAfter(i)' = StopAfter(i)
      /\ UNCHANGED <<toControl, intact, cUp, mUp, servo, sessions, born, request, arm, master>>
  BY LineStays DEF WorkerCommit, linkVars, masterVars
<1>2. /\ worker.at = "commit" /\ worker'.at = "active"
      /\ auth'.armed /\ auth'.session = worker.session
  BY DEF WorkerCommit, Goto, ServoTypes, ControlTypes, AgentTypes
<1>3. WorkerFits' /\ ArmsFit'
  BY <1>1, <1>2 DEF WorkerFits, ArmsFit
<1>4. \A i \in Line : On(i).type = "axes" => On(i).session < worker.session /\ On(i).session \in Nat
  BY <1>2, OnTyped DEF ServoInv, SessionsFit
<1>5. SessionsFit'
  BY <1>1, <1>2 DEF SessionsFit
<1>6. InputsFit'
  <2>1. worker.session \in Nat
    BY DEF ServoTypes, ControlTypes, AgentTypes
  <2>. QED
    BY <1>1, <1>2, <1>4, <2>1 DEF InputsFit
<1>7. StopsFollow' /\ AuthorityFits'
  BY <1>1, <1>2 DEF StopsFollow, Asking, AuthorityFits, Wanted, WorkerFits
<1>. QED
  BY <1>3, <1>5, <1>6, <1>7

-----------------------------------------------------------------------------
(* A request at the end of the line leaves the others where they are.      *)
LEMMA OneMore ==
  ASSUME ServoTypes, NEW m \in Wire, toMaster' = toMaster \o <<m>>, UNCHANGED request
  PROVE  /\ Line' = 0 .. Len(toMaster) + 1 /\ Line = 0 .. Len(toMaster) /\ Len(toMaster) \in Nat
         /\ \A i \in Line : On(i)' = On(i) /\ (StopAfter(i) => StopAfter(i)')
         /\ \A i \in Line' : i \in Line \/ (i = Len(toMaster) + 1 /\ On(i)' = m)
         /\ StopOnLine => StopOnLine'
<1>1. toMaster \in Seq(Wire)
  BY DEF ServoTypes, ControlTypes, LinkTypes
<1>2. /\ Len(toMaster') = Len(toMaster) + 1 /\ toMaster'[Len(toMaster) + 1] = m
      /\ \A i \in 1 .. Len(toMaster) : toMaster'[i] = toMaster[i]
  BY <1>1, Appended
<1>3. Line' = 0 .. Len(toMaster) + 1 /\ Line = 0 .. Len(toMaster) /\ Len(toMaster) \in Nat
  BY <1>1, <1>2 DEF Line
<1>4. \A i \in Line : On(i)' = On(i)
  BY <1>2, <1>3 DEF On
<1>5. \A i \in Line' : i \in Line \/ (i = Len(toMaster) + 1 /\ On(i)' = m)
  BY <1>2, <1>3 DEF On
<1>6. \A i \in Line : StopAfter(i) => StopAfter(i)'
  BY <1>2, <1>3 DEF StopAfter
<1>7. StopOnLine => StopOnLine'
  BY <1>3, <1>4 DEF StopOnLine
<1>. QED
  BY <1>3, <1>4, <1>5, <1>6, <1>7

(* What holds of all requests on the line holds of fewer of them.          *)
Passes ==
  \E d \in {0, 1} : \A i \in Line' :
    On(i)'.type \notin {"arm", "axes"} \/ (i + d \in Line /\ On(i)' = On(i + d))

LEMMA FewerInputs ==
  ASSUME ServoTypes, ServoTypes', InputsFit, Passes,
         \/ ~auth'.armed
         \/ auth.armed /\ auth'.session = auth.session /\ auth'.input = auth.input
  PROVE  InputsFit'
<1>1. PICK d \in {0, 1} : \A i \in Line' :
        On(i)'.type \notin {"arm", "axes"} \/ (i + d \in Line /\ On(i)' = On(i + d))
  BY DEF Passes
<1>2. ASSUME NEW i \in Line', On(i)'.type = "axes"
      PROVE  /\ i + d \in Line /\ On(i)' = On(i + d)
             /\ auth'.armed /\ On(i)'.session = auth'.session => On(i)'.input = auth'.input
  BY <1>1, <1>2 DEF InputsFit
<1>3. ASSUME NEW i \in Line', NEW j \in Line', On(i)'.type = "axes", On(j)'.type = "axes",
             On(i)'.session = On(j)'.session
      PROVE  On(i)'.input = On(j)'.input
  BY <1>2, <1>3 DEF InputsFit
<1>. QED
  BY <1>2, <1>3 DEF InputsFit

LEMMA FewerArms ==
  ASSUME ServoTypes, ServoTypes', ArmsFit, Passes,
         \A k \in 1 .. Len(toControl') : toControl'[k].req = "arm" =>
           \E l \in 1 .. Len(toControl) : toControl'[k] = toControl[l],
         arm'.count = arm.count,
         worker'.at = "sendArm" => worker.at = "sendArm",
         worker'.at = "awaitArm" =>
           worker.at = "awaitArm" /\ arm'.id = arm.id /\ arm'.response = arm.response
  PROVE  ArmsFit'
<1>1. PICK d \in {0, 1} : \A i \in Line' :
        On(i)'.type \notin {"arm", "axes"} \/ (i + d \in Line /\ On(i)' = On(i + d))
  BY DEF Passes
<1>2. ASSUME NEW i \in Line', On(i)'.type = "arm"
      PROVE  /\ i + d \in Line /\ On(i)' = On(i + d) /\ i \in Nat
             /\ On(i)'.id <= arm'.count
             /\ worker'.at = "sendArm" => On(i)'.id < arm'.count
             /\ worker'.at = "awaitArm" /\ arm'.response # NoAnswer => On(i)'.id # arm'.id
             /\ \A k \in 1 .. Len(toControl') :
                  toControl'[k].req = "arm" => toControl'[k].id # On(i)'.id
  <2>1. i + d \in Line /\ On(i)' = On(i + d)
    BY <1>1, <1>2
  <2>. QED
    BY <1>2, <2>1 DEF ArmsFit, Line
<1>3. ASSUME NEW i \in Line', NEW j \in Line', On(i)'.type = "arm", On(j)'.type = "arm", i < j
      PROVE  On(i)'.id # On(j)'.id
  <2>1. i + d \in Line /\ On(i)' = On(i + d) /\ j + d \in Line /\ On(j)' = On(j + d)
    BY <1>2, <1>3
  <2>2. i + d < j + d
    BY <1>2, <1>3
  <2>. QED
    BY <1>3, <2>1, <2>2 DEF ArmsFit
<1>4. \A k \in 1 .. Len(toControl') : toControl'[k].req = "arm" =>
       /\ toControl'[k].id <= arm'.count
       /\ worker'.at = "sendArm" => toControl'[k].id < arm'.count
  BY DEF ArmsFit
<1>. QED
  BY <1>2, <1>3, <1>4 DEF ArmsFit

LEMMA FewerSessions ==
  ASSUME ServoTypes, ServoTypes', SessionsFit, Passes,
         auth'.session <= sessions, servo'.session <= sessions, sessions' = sessions,
         worker'.at = "awaitArm" => worker.at = "awaitArm" /\ Granting' \subseteq Granting,
         worker'.at = "commit" => worker.at = "commit" /\ worker'.session = worker.session
  PROVE  SessionsFit'
<1>1. PICK d \in {0, 1} : \A i \in Line' :
        On(i)'.type \notin {"arm", "axes"} \/ (i + d \in Line /\ On(i)' = On(i + d))
  BY DEF Passes
<1>2. ASSUME NEW i \in Line', On(i)'.type = "axes"
      PROVE  /\ On(i)'.session <= sessions'
             /\ worker'.at = "awaitArm" => \A m \in Granting' : On(i)'.session < m.session
             /\ worker'.at = "commit" => On(i)'.session < worker'.session
  BY <1>1, <1>2 DEF SessionsFit
<1>. QED
  BY <1>2 DEF SessionsFit

(* Stops are sent: all that is on the line is followed by them.            *)
LEMMA StopsSent ==
  ASSUME ServoTypes, NEW s \in Seq({Stop}), UNCHANGED request,
         toMaster' = IF cUp THEN Sent(toMaster, s) ELSE toMaster
  PROVE  /\ Passes
         /\ s # <<>> /\ cUp /\ intact =>
              StopOnLine' /\ \A i \in Line' : On(i)'.type = "stop" \/ StopAfter(i)'
<1>1. Stop.type = "stop" /\ Len(s) \in Nat /\ (s # <<>> => Len(s) > 0)
  BY Records
<1>2. toMaster \in Seq(Wire) /\ \A i \in 1 .. Len(s) : s[i] = Stop
  BY DEF ServoTypes, ControlTypes, LinkTypes
<1>3. ASSUME cUp, intact
      PROVE  /\ Passes
             /\ s # <<>> => StopOnLine' /\ \A i \in Line' : On(i)'.type = "stop" \/ StopAfter(i)'
  <2>1. s \in Seq(Wire)
    <3>1. {Stop} \subseteq Wire
      BY Records
    <3>. QED
      BY <3>1
  <2>2. toMaster' = toMaster \o s
    BY <1>3 DEF Sent
  <2>3. /\ Len(toMaster') = Len(toMaster) + Len(s)
        /\ \A i \in 1 .. Len(toMaster') : toMaster'[i] = IF i <= Len(toMaster) THEN toMaster[i] ELSE Stop
    <3>1. /\ Len(toMaster') = Len(toMaster) + Len(s)
          /\ \A i \in 1 .. Len(toMaster') :
               toMaster'[i] = IF i <= Len(toMaster) THEN toMaster[i] ELSE s[i - Len(toMaster)]
      <4>1. /\ Len(toMaster \o s) = Len(toMaster) + Len(s)
            /\ \A i \in 1 .. Len(toMaster) + Len(s) :
                 (toMaster \o s)[i] = IF i <= Len(toMaster) THEN toMaster[i] ELSE s[i - Len(toMaster)]
        BY <1>2, <2>1, ConcatProperties
      <4>2. Len(toMaster') = Len(toMaster) + Len(s)
        BY <2>2, <4>1
      <4>. QED
        BY <2>2, <4>1, <4>2, Zenon
    <3>2. \A i \in 1 .. Len(toMaster') : i <= Len(toMaster) \/ i - Len(toMaster) \in 1 .. Len(s)
      BY <1>1, <1>2, <3>1
    <3>. QED
      BY <1>2, <3>1, <3>2
  <2>4. Line = 0 .. Len(toMaster) /\ Line' = 0 .. Len(toMaster) + Len(s) /\ Len(toMaster) \in Nat
    BY <1>2, <2>3 DEF Line
  <2>5. \A i \in Line' : i + 0 = i /\ (On(i)'.type = "stop" \/ (i \in Line /\ On(i)' = On(i)))
    BY <1>1, <2>3, <2>4 DEF On
  <2>6. Passes
    BY <2>5 DEF Passes
  <2>7. s # <<>> => StopOnLine'
    <3>1. s # <<>> => Len(toMaster') \in Line' /\ Len(toMaster') # 0 /\ toMaster'[Len(toMaster')].type = "stop"
      BY <1>1, <2>3, <2>4
    <3>. QED
      BY <3>1 DEF StopOnLine, On
  <2>8. s # <<>> => \A i \in Line' : On(i)'.type = "stop" \/ StopAfter(i)'
    <3>1. s # <<>> => \A i \in Line' : i < Len(toMaster') \/ On(i)'.type = "stop"
      BY <1>1, <2>3, <2>4 DEF On
    <3>2. s # <<>> => Len(toMaster') \in 1 .. Len(toMaster') /\ toMaster'[Len(toMaster')].type = "stop"
      BY <1>1, <2>3, <2>4
    <3>. QED
      BY <3>1, <3>2 DEF StopAfter
  <2>. QED
    BY <2>6, <2>7, <2>8
<1>4. ASSUME ~(cUp /\ intact) PROVE Passes
  <2>1. toMaster' = toMaster
    BY <1>4 DEF Sent
  <2>2. \A i \in Line' : i + 0 = i /\ i \in Line /\ On(i)' = On(i)
    BY <2>1, LineStays DEF Line
  <2>. QED
    BY <2>2 DEF Passes
<1>. QED
  BY <1>3, <1>4

LEMMA StopKeeps ==
  ASSUME ServoInv, ServoTypes', WorkerFits', NEW s \in Seq({Stop}), s # <<>>,
         UNCHANGED <<toControl, endpoints, servo, sessions, request, born>>,
         toMaster' = IF cUp THEN Sent(toMaster, s) ELSE toMaster,
         auth' = auth \/ auth' = NoAuthority, arm'.count = arm.count,
         worker'.at \notin {"sendArm", "awaitArm", "commit", "refused", "refusedFault"}
  PROVE  ServoInv'
<1> USE DEF ServoInv, endpoints
<1>1. NoAuthority.session = 0 /\ ~NoAuthority.armed
  BY DEF NoAuthority
<1>2. /\ Passes
      /\ cUp /\ intact => StopOnLine' /\ \A i \in Line' : On(i)'.type = "stop" \/ StopAfter(i)'
  BY StopsSent
<1>3. ArmsFit' /\ InputsFit'
  BY <1>1, <1>2, FewerArms, FewerInputs
<1>4. SessionsFit'
  <2>1. auth'.session <= sessions
    BY <1>1 DEF SessionsFit, ServoTypes, MasterTypes
  <2>. QED
    BY <1>2, <2>1, FewerSessions DEF SessionsFit
<1>5. StopsFollow'
  BY <1>2 DEF StopsFollow
<1>6. AuthorityFits'
  BY <1>2 DEF AuthorityFits, Wanted
<1>. QED
  BY <1>3, <1>4, <1>5, <1>6

(* Giving up is telling the master so, if it may have granted anything.    *)
LEMMA GivingUpSends ==
  ASSUME ServoInv, WorkerRefused \/ WorkerDisarm \/ WorkerFault \/ WorkerEnding
  PROVE  \/ \E s \in Seq({Stop}) :
              s # <<>> /\ toMaster' = IF cUp THEN Sent(toMaster, s) ELSE toMaster
         \/ /\ toMaster' = toMaster /\ ~auth.armed /\ auth' = NoAuthority
            /\ worker.at = "ending" /\ worker'.at = "done"
<1>1. <<Stop>> \in Seq({Stop}) /\ <<Stop>> # <<>>
      /\ <<Stop>> \o <<>> = <<Stop>> /\ <<>> \o <<Stop>> = <<Stop>>
      /\ <<Stop>> \o <<Stop>> \in Seq({Stop}) /\ <<Stop>> \o <<Stop>> # <<>>
  OBVIOUS
<1>2. CASE WorkerRefused
  BY <1>1, <1>2 DEF WorkerRefused, Send
<1>3. CASE WorkerDisarm \/ WorkerFault \/ (WorkerEnding /\ auth.armed)
  <2>1. worker.at = "disarm" => auth.armed
    BY DEF ServoInv, WorkerFits
  <2>2. PICK s \in {<<>>, <<Stop>>} : GiveUp(s) /\ (s = <<>> => auth.armed)
    BY <1>3, <2>1 DEF WorkerDisarm, WorkerFault, WorkerEnding
  <2>. QED
    BY <1>1, <2>2 DEF GiveUp, Send
<1>4. CASE WorkerEnding /\ ~auth.armed
  <2>1. Send(<<>> \o <<>>) /\ auth' = NoAuthority
    BY <1>4 DEF WorkerEnding, GiveUp
  <2>2. toMaster \o <<>> = toMaster /\ <<>> \o <<>> = <<>>
    BY ConcatEmptySeq DEF ServoInv, ServoTypes, ControlTypes, LinkTypes
  <2>3. toMaster' = toMaster
    BY <2>1, <2>2 DEF Send, Sent
  <2>4. worker.at = "ending" /\ worker'.at = "done"
    BY <1>4 DEF WorkerEnding, Goto, ServoInv, ServoTypes, ControlTypes, AgentTypes
  <2>. QED
    BY <1>4, <2>1, <2>3, <2>4
<1>. QED
  BY <1>2, <1>3, <1>4

LEMMA GivingUpKeeps ==
  ASSUME ServoInv, ServoTypes', UNCHANGED <<masterVars, born>>,
         WorkerRefused \/ WorkerDisarm \/ WorkerFault \/ WorkerEnding
  PROVE  ServoInv'
<1>1. /\ UNCHANGED <<toControl, endpoints, servo, sessions, request, born, master>>
      /\ auth' = auth \/ auth' = NoAuthority
      /\ worker'.at \in {"invalidate", "disarmed", "exit", "done"}
      /\ arm'.count = arm.count
  BY DEF WorkerRefused, WorkerDisarm, WorkerFault, WorkerEnding, GiveUp, Goto, masterVars,
     ServoInv,
     ServoTypes, ControlTypes, AgentTypes
<1>2. WorkerFits'
  BY <1>1 DEF ServoInv, WorkerFits, endpoints
<1>3. \/ \E s \in Seq({Stop}) :
           s # <<>> /\ toMaster' = IF cUp THEN Sent(toMaster, s) ELSE toMaster
      \/ /\ toMaster' = toMaster /\ ~auth.armed /\ auth' = NoAuthority
         /\ worker.at = "ending" /\ worker'.at = "done"
  BY GivingUpSends
<1>4. ASSUME NEW s \in Seq({Stop}), s # <<>>,
             toMaster' = IF cUp THEN Sent(toMaster, s) ELSE toMaster
      PROVE  ServoInv'
  BY <1>1, <1>2, <1>4, StopKeeps
<1>5. ASSUME toMaster' = toMaster, ~auth.armed, auth' = NoAuthority, worker.at = "ending",
             worker'.at = "done"
      PROVE  ServoInv'
  <2> USE DEF ServoInv, endpoints
  <2>1. ~auth'.armed /\ auth'.session = 0
    BY <1>5 DEF NoAuthority
  <2>2. /\ Line' = Line /\ StopOnLine' = StopOnLine
        /\ \A i : On(i)' = On(i) /\ StopAfter(i)' = StopAfter(i)
    BY <1>1, <1>5, LineStays
  <2>3. ArmsFit' /\ InputsFit'
    BY <1>1, <1>5, <2>1, <2>2 DEF ArmsFit, InputsFit
  <2>4. SessionsFit'
    <3>1. 0 <= sessions
      BY DEF ServoTypes, MasterTypes
    <3>. QED
      BY <1>1, <1>5, <2>1, <2>2, <3>1 DEF SessionsFit
  <2>5. StopsFollow' /\ AuthorityFits'
    BY <1>1, <1>5, <2>1, <2>2 DEF StopsFollow, Asking, AuthorityFits, Wanted
  <2>. QED
    BY <1>2, <2>3, <2>4, <2>5
<1>. QED
  BY <1>3, <1>4, <1>5

(* A message at the end of the line, unless the connection lost it.        *)
Pushed(m) ==
  /\ Line \subseteq Line'
  /\ \A i \in Line' : \/ i \in Line /\ On(i)' = On(i) /\ (StopAfter(i) => StopAfter(i)')
                      \/ i \notin Line /\ On(i)' = m
  /\ \A i, j \in Line' : i < j => i \in Line
  /\ intact /\ cUp => \E j \in Line' : On(j)' = m /\ \A i \in Line : i < j
  /\ StopOnLine => StopOnLine'

LEMMA Pushes ==
  ASSUME ServoTypes, NEW m \in Wire, UNCHANGED request,
         toMaster' = IF cUp THEN Sent(toMaster, <<m>>) ELSE toMaster
  PROVE  Pushed(m)
<1>1. CASE toMaster' = toMaster /\ ~(intact /\ cUp)
  <2>1. \A i, j \in Line' : i < j => i \in Line
    BY <1>1, LineStays
  <2>. QED
    BY <1>1, <2>1, LineStays DEF Pushed
<1>2. CASE toMaster' = toMaster \o <<m>>
  <2>1. Len(toMaster) + 1 \in Line' /\ Len(toMaster) + 1 \notin Line
    BY <1>2, OneMore
  <2>2. \A i, j \in Line' : i < j => i \in Line
    BY <1>2, OneMore
  <2>3. Line \subseteq Line' /\ \A i \in Line : i < Len(toMaster) + 1
    BY <1>2, OneMore
  <2>. QED
    BY <1>2, <2>1, <2>2, <2>3, OneMore DEF Pushed
<1>. QED
  BY <1>1, <1>2 DEF Sent

(* Axes of the current authorization, for its input session.               *)
LEMMA AxesSent ==
  ASSUME ServoInv, WorkerSendAxes, UNCHANGED request
  PROVE  \E m \in Wire : /\ m.type = "axes" /\ m.id[1] = auth.session /\ m.session = auth.session
                         /\ m.seq = auth.seq - 1 /\ m.input = auth.input
                         /\ Pushed(m)
<1> DEFINE m == [type |-> "axes", id |-> <<auth.session, auth.seq - 1>>, session |-> auth.session,
                 seq |-> auth.seq - 1, dir |-> worker.snap.dir, input |-> worker.snap.session]
<1>1. /\ worker.at = "sendAxes" /\ toMaster' = IF cUp THEN Sent(toMaster, <<m>>) ELSE toMaster
      /\ ServoTypes
  BY DEF WorkerSendAxes, Send, ServoInv
<1>2. worker.snap.session = auth.input
  BY <1>1 DEF ServoInv, WorkerFits
<1>3. /\ m \in Wire /\ m.type = "axes" /\ m.id[1] = auth.session /\ m.session = auth.session
      /\ m.seq = auth.seq - 1 /\ m.input = auth.input
  <2>1. auth.seq - 1 \in Nat /\ auth.session \in Nat
    BY <1>1 DEF ServoTypes, ControlTypes, AgentTypes
  <2>2. worker.snap.dir \in Directions /\ worker.snap.session \in Nat
    BY <1>1 DEF ServoTypes, ControlTypes, AgentTypes, Gh
  <2>3. <<auth.session, auth.seq - 1>> \in Nat \X Nat
    BY <2>1
  <2>. QED
    BY <1>2, <2>1, <2>2, <2>3 DEF Wire
<1>. HIDE DEF m
<1>4. Pushed(m)
  BY <1>1, <1>3, Pushes
<1>. QED
  BY <1>3, <1>4

LEMMA SendAxesKeeps ==
  ASSUME ServoInv, ServoTypes', UNCHANGED <<masterVars, born>>, WorkerSendAxes
  PROVE  ServoInv'
<1> USE DEF ServoInv, endpoints
<1>1. /\ UNCHANGED <<toControl, intact, cUp, mUp, servo, sessions, request, born, master, auth>>
      /\ worker.at = "sendAxes" /\ worker'.at = "top" /\ arm'.count = arm.count
  BY DEF WorkerSendAxes, Goto, Fault, NoFault, masterVars, ServoTypes, ControlTypes, AgentTypes
<1>2. auth.armed /\ worker.snap.session = auth.input
  BY <1>1 DEF WorkerFits
<1>3. PICK m \in Wire : m.type = "axes" /\ m.session = auth.session /\ m.input = auth.input /\ Pushed(m)
  BY <1>1, AxesSent
<1>4. WorkerFits'
  BY <1>1, <1>2 DEF WorkerFits
<1>5. /\ \A i \in Line' : \/ i \in Line /\ On(i)' = On(i) /\ (StopAfter(i) => StopAfter(i)')
                          \/ i \notin Line /\ On(i)' = m
      /\ StopOnLine => StopOnLine'
      /\ \A i, j \in Line' : i < j => i \in Line
  BY <1>3 DEF Pushed
<1>6. ArmsFit'
  BY <1>1, <1>3, <1>5 DEF ArmsFit
<1>7. SessionsFit'
  BY <1>1, <1>3, <1>5 DEF SessionsFit
<1>8. InputsFit'
  BY <1>1, <1>2, <1>3, <1>5 DEF InputsFit
<1>9. StopsFollow'
  BY <1>1, <1>2, <1>3, <1>5 DEF StopsFollow, Asking
<1>10. AuthorityFits'
  BY <1>1, <1>5 DEF AuthorityFits, Wanted
<1>. QED
  BY <1>4, <1>6, <1>7, <1>8, <1>9, <1>10

(* The request that the agent now waits for is the last on the line, and   *)
(* not answered.                                                           *)
LEMMA ArmSent ==
  ASSUME ServoInv, WorkerSendArm, UNCHANGED request
  PROVE  /\ \E m \in Wire : m.type = "arm" /\ m.id = arm.count /\ arm.id = arm.count /\ Pushed(m)
         /\ worker'.at = "awaitArm" => \A g \in Granting' : FALSE
<1> DEFINE m == [type |-> "arm", id |-> arm.id]
<1>1. /\ worker.at = "sendArm" /\ toMaster' = IF cUp THEN Sent(toMaster, <<m>>) ELSE toMaster
      /\ worker'.at = "awaitArm" => arm' = arm
      /\ toControl' = toControl /\ ServoTypes
  BY DEF WorkerSendArm, Send, Goto, NoFault, ServoInv, ServoTypes, ControlTypes, AgentTypes
<1>2. arm.id = arm.count /\ arm.response = NoAnswer
  BY <1>1 DEF ServoInv, WorkerFits
<1>3. m \in Wire /\ m.type = "arm" /\ m.id = arm.count /\ arm.count \in Nat
  BY <1>1, <1>2 DEF Wire, ServoTypes, ControlTypes, AgentTypes
<1>. HIDE DEF m
<1>4. Pushed(m)
  BY <1>1, <1>3, Pushes
<1>5. worker'.at = "awaitArm" => \A g \in Granting' : FALSE
  <2>1. SUFFICES ASSUME worker'.at = "awaitArm", NEW g \in Granting' PROVE FALSE
    OBVIOUS
  <2>2. g # NoAnswer /\ g.req = "arm" /\ g.id = arm.count /\ arm'.response = NoAnswer
    BY <1>1, <1>2, <2>1 DEF Granting, Grants
  <2>3. PICK k \in 1 .. Len(toControl) : g = toControl[k]
    BY <1>1, <2>1, <2>2 DEF Granting
  <2>4. g.id < arm.count
    BY <1>1, <2>2, <2>3 DEF ServoInv, ArmsFit
  <2>. QED
    BY <1>3, <2>2, <2>4
<1>. QED
  BY <1>2, <1>3, <1>4, <1>5

LEMMA SendArmKeeps ==
  ASSUME ServoInv, ServoTypes', UNCHANGED <<masterVars, born>>, WorkerSendArm
  PROVE  ServoInv'
<1> USE DEF ServoInv, endpoints
<1>1. /\ UNCHANGED <<toControl, intact, cUp, mUp, servo, sessions, request, born, master, auth>>
      /\ worker.at = "sendArm" /\ arm'.count = arm.count
      /\ \/ cUp /\ worker'.at = "awaitArm" /\ arm' = arm
         \/ ~cUp /\ worker'.at = "invalidate"
  BY DEF WorkerSendArm, Goto, Fault, NoFault, masterVars, ServoTypes, ControlTypes, AgentTypes
<1>2. ~auth.armed /\ arm.id = arm.count /\ arm.response = NoAnswer
  BY <1>1 DEF WorkerFits
<1>3. arm.count \in Nat
  BY DEF ServoTypes, ControlTypes, AgentTypes
<1>4. PICK m \in Wire : m.type = "arm" /\ m.id = arm.count /\ Pushed(m)
  BY <1>1, ArmSent
<1>5. WorkerFits'
  BY <1>1, <1>2 DEF WorkerFits
<1>6. /\ \A i \in Line' : \/ i \in Line /\ On(i)' = On(i) /\ (StopAfter(i) => StopAfter(i)')
                          \/ i \notin Line /\ On(i)' = m
      /\ StopOnLine => StopOnLine'
      /\ \A i, j \in Line' : i < j => i \in Line
  BY <1>4 DEF Pushed
<1>7. worker'.at = "awaitArm" => \A g \in Granting' : FALSE
  BY <1>1, ArmSent
<1>8. ArmsFit'
  <2>1. \A i \in Line : On(i).type = "arm" => On(i).id < arm.count /\ On(i).id \in Nat
    BY <1>1, OnTyped DEF ArmsFit
  <2>2. \A k \in 1 .. Len(toControl) :
          toControl[k].req = "arm" => toControl[k].id < arm.count /\ toControl[k].id \in Nat
    BY <1>1, OnTyped DEF ArmsFit
  <2>3. \A i, j \in Line' : On(i)'.type = "arm" /\ i < j /\ On(j)'.type = "arm" => On(i)'.id # On(j)'.id
    BY <1>1, <1>3, <1>4, <1>6, <2>1 DEF ArmsFit
  <2>4. \A i \in Line' : On(i)'.type = "arm" => On(i)'.id <= arm.count
    BY <1>3, <1>4, <1>6, <2>1
  <2>5. \A i \in Line', k \in 1 .. Len(toControl) :
          On(i)'.type = "arm" /\ toControl[k].req = "arm" => toControl[k].id # On(i)'.id
    BY <1>3, <1>4, <1>6, <2>2 DEF ArmsFit
  <2>6. worker'.at = "awaitArm" => arm'.response = NoAnswer
    BY <1>1, <1>2
  <2>. QED
    BY <1>1, <2>2, <2>3, <2>4, <2>5, <2>6 DEF ArmsFit
<1>9. SessionsFit'
  BY <1>1, <1>3, <1>4, <1>6, <1>7 DEF SessionsFit
<1>10. InputsFit'
  BY <1>1, <1>3, <1>4, <1>6 DEF InputsFit
<1>11. StopsFollow'
  BY <1>1, <1>2, <1>3, <1>4, <1>6 DEF StopsFollow, Asking
<1>12. AuthorityFits'
  BY <1>1, <1>2, <1>6, <1>7 DEF AuthorityFits, Wanted
<1>. QED
  BY <1>5, <1>8, <1>9, <1>10, <1>11, <1>12

-----------------------------------------------------------------------------
(* An answer that arrives was on its way.                                  *)
LEMMA AnswerGrants ==
  ASSUME ServoTypes, ControlReceive
  PROVE  /\ Granting' \subseteq Granting
         /\ arm'.count = arm.count /\ arm'.id = arm.id
         /\ \/ arm'.response = arm.response
            \/ /\ toControl[1].req = "arm" /\ toControl[1].id = arm.id
               /\ arm'.response = toControl[1]
         /\ 1 \in 1 .. Len(toControl)
         /\ \A k \in 1 .. Len(toControl') :
              k + 1 \in 1 .. Len(toControl) /\ toControl'[k] = toControl[k + 1]
<1>1. /\ 1 \in 1 .. Len(toControl)
      /\ \A k \in 1 .. Len(toControl') :
           k + 1 \in 1 .. Len(toControl) /\ toControl'[k] = toControl[k + 1]
  BY AcksTail DEF ControlReceive, ServoTypes, ControlTypes, LinkTypes
<1>2. /\ arm'.count = arm.count /\ arm'.id = arm.id
      /\ \/ arm'.response = arm.response
         \/ /\ toControl[1].req = "arm" /\ toControl[1].id = arm.id
            /\ arm'.response = toControl[1]
  BY AcksTail DEF ControlReceive, Fault, NoFault, ServoTypes, ControlTypes, LinkTypes,
     AgentTypes
<1>3. Granting' \subseteq Granting
  BY <1>1, <1>2 DEF Granting, Grants
<1>. QED
  BY <1>1, <1>2, <1>3

(* An answer arrives: it is of a request that is no longer on the line.    *)
LEMMA ReceiveKeeps ==
  ASSUME ServoInv, ServoTypes', UNCHANGED <<masterVars, born>>, ControlReceive
  PROVE  ServoInv'
<1> USE DEF ServoInv, endpoints
<1>1. /\ UNCHANGED <<toMaster, intact, cUp, mUp, servo, sessions, request, born, master, auth,
                     worker>>
      /\ Line' = Line /\ StopOnLine' = StopOnLine
      /\ \A i : On(i)' = On(i) /\ StopAfter(i)' = StopAfter(i)
  BY LineStays DEF ControlReceive, masterVars
<1>2. /\ 1 \in 1 .. Len(toControl)
      /\ \A k \in 1 .. Len(toControl') :
           k + 1 \in 1 .. Len(toControl) /\ toControl'[k] = toControl[k + 1]
  BY AnswerGrants
<1>3. /\ arm'.count = arm.count /\ arm'.id = arm.id
      /\ \/ arm'.response = arm.response
         \/ /\ toControl[1].req = "arm" /\ toControl[1].id = arm.id
            /\ arm'.response = toControl[1]
  BY AnswerGrants
<1>4. Granting' \subseteq Granting
  BY AnswerGrants
<1>5. worker.at = "sendArm" => arm'.response = arm.response
  BY <1>2, <1>3, OnTyped DEF ArmsFit, WorkerFits, ServoTypes, ControlTypes, AgentTypes
<1>6. WorkerFits'
  BY <1>1, <1>3, <1>5 DEF WorkerFits
<1>7. ArmsFit'
  BY <1>1, <1>2, <1>3 DEF ArmsFit
<1>8. SessionsFit' /\ InputsFit'
  BY <1>1, <1>4 DEF SessionsFit, InputsFit
<1>9. StopsFollow' /\ AuthorityFits'
  BY <1>1, <1>3, <1>4 DEF StopsFollow, Asking, AuthorityFits, Wanted
<1>. QED
  BY <1>6, <1>7, <1>8, <1>9

(* One end takes the connection for broken, or it is.                      *)
LEMMA PrefixPasses ==
  ASSUME ServoTypes, ServoTypes', UNCHANGED request, Len(toMaster') <= Len(toMaster),
         \A i \in 1 .. Len(toMaster') : toMaster'[i] = toMaster[i]
  PROVE  Passes
<1>1. \A i \in Line' : i + 0 = i /\ i \in Line /\ On(i)' = On(i)
  BY DEF Line, On, ServoTypes, ControlTypes, LinkTypes
<1>. QED
  BY <1>1 DEF Passes

LEMMA CutKeeps ==
  ASSUME ServoInv, ServoTypes', WorkerFits', Passes, ~(intact' /\ cUp'),
         toControl' = toControl \/ toControl' = <<>>,
         UNCHANGED sessions, arm'.count = arm.count,
         servo' = servo \/ servo' = Disarmed, auth' = auth \/ auth' = NoAuthority,
         \/ worker'.at = "done"
         \/ worker' = worker /\ arm'.id = arm.id /\ arm'.response = arm.response
  PROVE  ServoInv'
<1> USE DEF ServoInv
<1>1. /\ ~NoAuthority.armed /\ NoAuthority.session = 0 /\ Disarmed.session = 0
      /\ auth'.session <= sessions /\ servo'.session <= sessions
  BY DEF NoAuthority, Disarmed, NoSession, SessionsFit, ServoTypes, MasterTypes
<1>2. \A k \in 1 .. Len(toControl') : k \in 1 .. Len(toControl) /\ toControl'[k] = toControl[k]
  OBVIOUS
<1>3. worker'.at = "done" \/ Granting' \subseteq Granting
  BY <1>2 DEF Granting, Grants
<1>4. ArmsFit' /\ InputsFit'
  BY <1>1, <1>2, FewerArms, FewerInputs
<1>5. SessionsFit'
  BY <1>1, <1>3, FewerSessions
<1>. QED
  BY <1>4, <1>5 DEF StopsFollow, AuthorityFits

LEMMA ControlCutPasses ==
  ASSUME ServoTypes, ServoTypes', UNCHANGED masterVars,
         \/ ControlDisconnect \/ ControlStopped \/ ControlCrash
         \/ LinkBreaks
  PROVE  Passes
<1>0. UNCHANGED request
  BY DEF masterVars
<1>1. CASE ControlDisconnect
  BY <1>0, <1>1, PrefixPasses DEF ControlDisconnect, ServoTypes, ControlTypes, LinkTypes
<1>2. CASE ControlCrash \/ LinkBreaks
  BY <1>0, <1>2, PrefixPasses, Breaks DEF ControlCrash, LinkBreaks, ServoTypes, ControlTypes,
     LinkTypes
<1>3. CASE ControlStopped
  <2>1. toMaster' = toMaster \/ toMaster' = toMaster \o <<Stop>>
    BY <1>3 DEF ControlStopped, Sent
  <2>2. CASE toMaster' = toMaster
    BY <1>0, <2>2, PrefixPasses DEF ServoTypes, ControlTypes, LinkTypes
  <2>3. CASE toMaster' = toMaster \o <<Stop>>
    <3>1. \A i \in Line' : i + 0 = i /\ (On(i)'.type = "stop" \/ (i \in Line /\ On(i)' = On(i)))
      BY <1>0, <2>3, OneMore, Records DEF Line
    <3>. QED
      BY <3>1 DEF Passes
  <2>. QED
    BY <2>1, <2>2, <2>3
<1>. QED
  BY <1>1, <1>2, <1>3

LEMMA ControlCutKeeps ==
  ASSUME ServoInv, ServoTypes', UNCHANGED <<masterVars, born>>,
         \/ ControlDisconnect \/ ControlStopped \/ ControlCrash
         \/ LinkBreaks
  PROVE  ServoInv'
<1> USE DEF ServoInv
<1>1. /\ UNCHANGED <<sessions, servo, request, master, mUp>> /\ arm'.count = arm.count
      /\ auth' = auth \/ auth' = NoAuthority
      /\ \/ worker'.at = "done"
         \/ worker' = worker /\ arm'.id = arm.id /\ arm'.response = arm.response /\ auth' = auth
      /\ worker' = worker \/ worker'.at = "done"
      /\ ~(intact' /\ cUp')
      /\ toControl' = toControl \/ toControl' = <<>>
  BY DEF ControlDisconnect, ControlStopped, ControlCrash, LinkBreaks, Break, Fault, NoFault,
     masterVars, controlVars, ServoTypes, ControlTypes, AgentTypes
<1>2. WorkerFits'
  BY <1>1 DEF WorkerFits
<1>3. Passes
  BY ControlCutPasses
<1>. QED
  BY <1>1, <1>2, <1>3, CutKeeps

LEMMA MasterCutPasses ==
  ASSUME ServoTypes, ServoTypes', MasterDisconnect \/ MasterStop
  PROVE  Passes
<1>0. UNCHANGED request
  BY DEF MasterDisconnect, MasterStop, masterVars
<1>1. CASE MasterDisconnect
  <2>1. Len(toMaster') = 0
    BY <1>1 DEF MasterDisconnect
  <2>. QED
    BY <1>0, <2>1, PrefixPasses DEF ServoTypes, ControlTypes, LinkTypes
<1>2. CASE MasterStop
  BY <1>0, <1>2, PrefixPasses, Breaks DEF MasterStop, ServoTypes, ControlTypes, LinkTypes
<1>. QED
  BY <1>1, <1>2

LEMMA MasterCutKeeps ==
  ASSUME ServoInv, ServoTypes', UNCHANGED <<controlVars, born>>, MasterDisconnect \/ MasterStop
  PROVE  ServoInv'
<1> USE DEF ServoInv
<1>1. /\ UNCHANGED <<sessions, request, worker, arm, auth>>
      /\ servo' = servo \/ servo' = Disarmed
      /\ ~(intact' /\ cUp')
      /\ toControl' = toControl \/ toControl' = <<>>
      /\ (mUp' \/ master' # "running") \/ request' = NoRequest
  BY DEF MasterDisconnect, MasterStop, Break, masterVars, controlVars
<1>2. WorkerFits'
  BY <1>1 DEF WorkerFits
<1>3. Passes
  BY MasterCutPasses
<1>. QED
  BY <1>1, <1>2, <1>3, CutKeeps

(* A fresh agent: nothing is on the line, and what was granted before is   *)
(* not its.                                                                *)
LEMMA RestartKeeps ==
  ASSUME ServoInv, ServoTypes', Restart
  PROVE  ServoInv'
<1> USE DEF ServoInv
<1>1. /\ UNCHANGED <<sessions, servo, request, master>> /\ born' = sessions
      /\ toMaster' = <<>> /\ toControl' = <<>> /\ request = NoRequest
      /\ mUp' /\ auth' = NoAuthority /\ worker'.at = "top"
  BY DEF Restart, ControlStart, Register, Fresh, masterVars, WorkerFits
<1>2. Line' = {0} /\ On(0)' = NoRequest /\ Len(toControl') = 0
  BY <1>1 DEF Line, On
<1>3. auth'.armed = FALSE /\ auth'.session = 0 /\ 0 <= sessions
  BY <1>1 DEF NoAuthority, ServoTypes, MasterTypes
<1>4. WorkerFits' /\ ArmsFit' /\ InputsFit' /\ StopsFollow'
  BY <1>1, <1>2, <1>3 DEF WorkerFits, ArmsFit, InputsFit, StopsFollow, NoRequest
<1>5. SessionsFit'
  BY <1>1, <1>2, <1>3 DEF SessionsFit, NoRequest
<1>6. AuthorityFits'
  BY <1>1 DEF AuthorityFits, SessionsFit, ServoTypes, MasterTypes
<1>. QED
  BY <1>4, <1>5, <1>6

-----------------------------------------------------------------------------
(* The master takes the first request of the stream, or refuses it.        *)
LEMMA MasterReceiveIs ==
  ASSUME ServoTypes, ServoTypes', MasterReceive
  PROVE  /\ UNCHANGED <<sessions, master, intact, cUp, mUp>> /\ mUp
         /\ servo' = servo \/ servo' = Disarmed
         /\ request = NoRequest /\ toMaster[1] \in Wire /\ 1 \in Line /\ On(1) = toMaster[1]
         /\ \/ request' = toMaster[1] /\ toControl' = toControl
            \/ request' = NoRequest /\ toMaster[1].type # "stop"
         /\ \A i \in Line' :
              /\ i + 1 \in Line /\ i + 1 \in 1 .. Len(toMaster)
              /\ On(i)' = On(i + 1) \/ (i = 0 /\ On(i)' = NoRequest)
              /\ StopAfter(i + 1) => StopAfter(i)'
         /\ Passes
         /\ \A k \in 1 .. Len(toControl') :
              \/ k \in 1 .. Len(toControl) /\ toControl'[k] = toControl[k]
              \/ request' = NoRequest /\ toControl'[k].id = toMaster[1].id
                 /\ toControl'[k].req = toMaster[1].type /\ ~toControl'[k].accepted
         /\ StopOnLine => StopOnLine'
<1> USE DEF endpoints
<1> DEFINE q == toMaster[1]
<1>1. /\ UNCHANGED <<sessions, master, intact, cUp, mUp>> /\ mUp
      /\ servo' = servo \/ servo' = Disarmed
      /\ request = NoRequest /\ q \in Wire
      /\ \/ request' = q /\ toControl' = toControl
         \/ /\ request' = NoRequest /\ q.type # "stop"
            /\ \/ toControl' = toControl
               \/ toControl' = toControl \o <<Ack(q, FALSE, servo')>>
  BY RequestsTail DEF MasterReceive, FaultRos, Reply, Sent, ServoTypes, ControlTypes,
     LinkTypes
<1>2. /\ Len(toMaster) \in Nat \ {0} /\ Len(toMaster') = Len(toMaster) - 1
      /\ \A i \in 1 .. Len(toMaster') : toMaster'[i] = toMaster[i + 1]
  BY RequestsTail DEF MasterReceive, ServoTypes, ControlTypes, LinkTypes
<1>3. \A i \in Line' :
        /\ i + 1 \in Line /\ i + 1 \in 1 .. Len(toMaster)
        /\ On(i)' = On(i + 1) \/ (i = 0 /\ On(i)' = NoRequest)
        /\ StopAfter(i + 1) => StopAfter(i)'
  <2>1. \A i \in Line' : i + 1 \in Line /\ i + 1 \in 1 .. Len(toMaster)
    BY <1>2 DEF Line
  <2>2. \A i \in Line' : On(i)' = On(i + 1) \/ (i = 0 /\ On(i)' = NoRequest)
    BY <1>1, <1>2 DEF Line, On
  <2>3. ASSUME NEW i \in Line', StopAfter(i + 1) PROVE StopAfter(i)'
    <3>1. PICK j \in 1 .. Len(toMaster) : i + 1 < j /\ toMaster[j].type = "stop"
      BY <2>3 DEF StopAfter
    <3>2. i \in Nat /\ j - 1 \in 1 .. Len(toMaster') /\ i < j - 1 /\ (j - 1) + 1 = j
      BY <1>2, <3>1 DEF Line
    <3>3. toMaster'[j - 1].type = "stop"
      BY <1>2, <3>1, <3>2
    <3>. QED
      BY <3>2, <3>3 DEF StopAfter
  <2>. QED
    BY <2>1, <2>2, <2>3
<1>4. Passes
  BY <1>3 DEF Passes, NoRequest
<1>5. \A k \in 1 .. Len(toControl') :
        \/ k \in 1 .. Len(toControl) /\ toControl'[k] = toControl[k]
        \/ request' = NoRequest /\ toControl'[k].id = q.id /\ toControl'[k].req = q.type
           /\ ~toControl'[k].accepted
  <2>1. CASE toControl' = toControl
    BY <2>1
  <2>2. CASE toControl' # toControl
    <3> DEFINE a == Ack(q, FALSE, servo')
    <3>1. /\ request' = NoRequest /\ toControl' = toControl \o <<a>> /\ q.type # "stop"
          /\ a.req = q.type /\ a.id = q.id /\ ~a.accepted
      BY <1>1, <2>2 DEF Ack
    <3>2. a \in Acks /\ toControl \in Seq(Acks)
      BY <1>1, <3>1, AckTyped DEF ServoTypes, MasterTypes, ControlTypes, LinkTypes
    <3>. HIDE DEF a
    <3>3. \A k \in 1 .. Len(toControl') :
            (k \in 1 .. Len(toControl) /\ toControl'[k] = toControl[k]) \/ toControl'[k] = a
      BY <3>1, <3>2, Appended
    <3>. QED
      BY <3>1, <3>3
  <2>. QED
    BY <2>1, <2>2
<1>6. StopOnLine => StopOnLine'
  <2>1. SUFFICES ASSUME StopOnLine PROVE StopOnLine'
    OBVIOUS
  <2>2. PICK i \in Line : On(i).type = "stop"
    BY <2>1 DEF StopOnLine
  <2>3. i \in 1 .. Len(toMaster) /\ i - 1 \in Line' /\ (i - 1) + 1 = i
    BY <1>1, <1>2, <2>2 DEF Line, On, NoRequest
  <2>4. i - 1 = 0 => request' = q
    BY <1>1, <2>2, <2>3 DEF On
  <2>5. ASSUME NEW j, j = i - 1 PROVE On(j)'.type = "stop"
    BY <1>1, <1>2, <2>2, <2>3, <2>4, <2>5 DEF Line, On
  <2>. QED
    BY <2>3, <2>5 DEF StopOnLine
<1>7. 1 \in Line /\ On(1) = q
  BY <1>2 DEF Line, On
<1>. QED
  BY <1>1, <1>3, <1>4, <1>5, <1>6, <1>7

LEMMA MasterReceiveKeeps ==
  ASSUME ServoInv, ServoTypes', UNCHANGED <<controlVars, born>>, MasterReceive
  PROVE  ServoInv'
<1> USE DEF ServoInv, endpoints
<1> DEFINE q == toMaster[1]
<1>1. /\ UNCHANGED <<sessions, master, worker, arm, auth, born, intact, cUp, mUp>> /\ mUp
      /\ servo' = servo \/ servo' = Disarmed
      /\ request = NoRequest /\ q \in Wire /\ 1 \in Line /\ On(1) = q
      /\ \/ request' = q /\ toControl' = toControl
         \/ request' = NoRequest /\ q.type # "stop"
  BY MasterReceiveIs DEF controlVars
<1>3. \A i \in Line' :
        /\ i + 1 \in Line /\ i + 1 \in 1 .. Len(toMaster)
        /\ On(i)' = On(i + 1) \/ (i = 0 /\ On(i)' = NoRequest)
        /\ StopAfter(i + 1) => StopAfter(i)'
  BY MasterReceiveIs
<1>4. Passes
  BY MasterReceiveIs
<1>5. WorkerFits'
  BY <1>1 DEF WorkerFits
<1>6. \A k \in 1 .. Len(toControl') :
        \/ k \in 1 .. Len(toControl) /\ toControl'[k] = toControl[k]
        \/ request' = NoRequest /\ toControl'[k].id = q.id /\ toControl'[k].req = q.type
           /\ ~toControl'[k].accepted
  BY MasterReceiveIs
<1>7. Granting' \subseteq Granting
  BY <1>1, <1>6 DEF Granting, Grants
<1>8. ArmsFit'
  <2>2. ASSUME NEW i \in Line', On(i)'.type = "arm"
        PROVE  i + 1 \in Line /\ On(i)' = On(i + 1) /\ i \in Nat
               /\ (request' = NoRequest => i > 0)
    BY <1>3, <2>2 DEF NoRequest, On, Line
  <2>3. ASSUME NEW i \in Line', On(i)'.type = "arm"
        PROVE  /\ On(i)'.id <= arm.count
               /\ worker.at = "sendArm" => On(i)'.id < arm.count
               /\ worker.at = "awaitArm" /\ arm.response # NoAnswer => On(i)'.id # arm.id
    BY <2>2, <2>3 DEF ArmsFit
  <2>4. ASSUME NEW i \in Line', NEW j \in Line', On(i)'.type = "arm", On(j)'.type = "arm", i < j
        PROVE  On(i)'.id # On(j)'.id
    <3>1. i + 1 < j + 1
      BY <2>2, <2>4
    <3>. QED
      BY <2>2, <2>4, <3>1 DEF ArmsFit
  <2>5. ASSUME NEW i \in Line', On(i)'.type = "arm",
               NEW k \in 1 .. Len(toControl'), toControl'[k].req = "arm"
        PROVE  toControl'[k].id # On(i)'.id
    <3>1. CASE k \in 1 .. Len(toControl) /\ toControl'[k] = toControl[k]
      BY <2>2, <2>5, <3>1 DEF ArmsFit
    <3>2. CASE request' = NoRequest /\ toControl'[k].id = q.id /\ toControl'[k].req = q.type
      <4>1. 1 < i + 1
        BY <2>2, <2>5, <3>2
      <4>. QED
        BY <1>1, <2>2, <2>5, <3>2, <4>1 DEF ArmsFit
    <3>. QED
      BY <1>6, <3>1, <3>2
  <2>6. ASSUME NEW k \in 1 .. Len(toControl'), toControl'[k].req = "arm"
        PROVE  /\ toControl'[k].id <= arm.count
               /\ worker.at = "sendArm" => toControl'[k].id < arm.count
    BY <1>1, <1>6, <2>6 DEF ArmsFit
  <2>. QED
    BY <1>1, <2>3, <2>4, <2>5, <2>6 DEF ArmsFit
<1>9. SessionsFit'
  <2>1. auth'.session <= sessions /\ servo'.session <= sessions
    BY <1>1 DEF SessionsFit, Disarmed, NoSession, ServoTypes, MasterTypes
  <2>. QED
    BY <1>1, <1>4, <1>7, <2>1, FewerSessions
<1>10. InputsFit'
  BY <1>1, <1>4, FewerInputs
<1>11. StopsFollow'
  BY <1>1, <1>3 DEF StopsFollow, Asking, NoRequest
<1>12. StopOnLine => StopOnLine'
  BY MasterReceiveIs
<1>13. AuthorityFits'
  BY <1>1, <1>7, <1>12 DEF AuthorityFits, Wanted, Disarmed
<1>. QED
  BY <1>5, <1>8, <1>9, <1>10, <1>11, <1>13

(* The request leaves the line, and any answer is about it.                *)
LEMMA MasterApplyIs ==
  ASSUME ServoTypes, MasterApply
  PROVE  /\ UNCHANGED <<master, intact, cUp, mUp, toMaster>>
         /\ request \in Wire /\ request' = NoRequest /\ 0 \in Line /\ On(0) = request
         /\ Line' = Line /\ \A i : StopAfter(i)' = StopAfter(i)
         /\ \A i \in Line' :
              i \in Nat /\ ((i = 0 /\ On(i)' = NoRequest) \/ (i > 0 /\ On(i)' = On(i)))
         /\ Passes
         /\ StopOnLine /\ request.type # "stop" => StopOnLine'
         /\ StopAfter(0) => StopOnLine'
<1> USE DEF endpoints
<1>1. /\ UNCHANGED <<master, intact, cUp, mUp, toMaster>>
      /\ request \in Wire /\ request' = NoRequest /\ 0 \in Line /\ On(0) = request
  BY DEF MasterApply, ServoTypes, MasterTypes, ControlTypes, LinkTypes, Line, On
<1>2. Line' = Line /\ \A i : StopAfter(i)' = StopAfter(i)
  BY <1>1 DEF Line, StopAfter
<1>3. \A i \in Line' : /\ i \in Nat
                       /\ (i = 0 /\ On(i)' = NoRequest) \/ (i > 0 /\ On(i)' = On(i))
  BY <1>1, <1>2 DEF Line, On, ServoTypes, ControlTypes, LinkTypes
<1>4. Passes
  <2>1. \A i \in Line' : i + 0 = i /\ (On(i)'.type = "none" \/ (i \in Line /\ On(i)' = On(i)))
    BY <1>2, <1>3 DEF NoRequest
  <2>. QED
    BY <2>1 DEF Passes
<1>5. StopOnLine /\ request.type # "stop" => StopOnLine'
  BY <1>1, <1>2, <1>3 DEF StopOnLine
<1>6. StopAfter(0) => StopOnLine'
  <2>1. SUFFICES ASSUME StopAfter(0) PROVE StopOnLine'
    OBVIOUS
  <2>2. PICK j \in 1 .. Len(toMaster) : toMaster[j].type = "stop"
    BY <2>1 DEF StopAfter
  <2>3. j \in Line' /\ On(j)'.type = "stop"
    BY <1>1, <2>2 DEF Line, On, ServoTypes, ControlTypes, LinkTypes
  <2>. QED
    BY <2>3 DEF StopOnLine
<1>. QED
  BY <1>1, <1>2, <1>3, <1>4, <1>5, <1>6

LEMMA Replies ==
  ASSUME ServoTypes, request \in Wire, request.type # "stop", NEW accepted \in BOOLEAN,
         NEW state \in ServoType, Reply(request, accepted, state)
  PROVE  \E a \in Acks :
           /\ a = Ack(request, accepted, state)
           /\ toControl' = toControl \/ toControl' = toControl \o <<a>>
           /\ intact /\ mUp => toControl' = toControl \o <<a>>
           /\ \A k \in 1 .. Len(toControl') :
                (k \in 1 .. Len(toControl) /\ toControl'[k] = toControl[k]) \/ toControl'[k] = a
           /\ \A k \in 1 .. Len(toControl) : k \in 1 .. Len(toControl') /\ toControl'[k] = toControl[k]
<1>1. PICK a \in Acks : a = Ack(request, accepted, state)
  BY AckTyped DEF ServoType
<1>2. toControl \in Seq(Acks)
  BY DEF ServoTypes, ControlTypes, LinkTypes
<1>3. toControl' = IF mUp /\ intact THEN toControl \o <<a>> ELSE toControl
  BY <1>1 DEF Reply, Sent
<1>4. /\ \A k \in 1 .. Len(toControl') :
           (k \in 1 .. Len(toControl) /\ toControl'[k] = toControl[k]) \/ toControl'[k] = a
      /\ \A k \in 1 .. Len(toControl) : k \in 1 .. Len(toControl') /\ toControl'[k] = toControl[k]
  <2>1. CASE mUp /\ intact
    BY <1>2, <1>3, <2>1, Appended
  <2>2. CASE ~(mUp /\ intact)
    BY <1>2, <1>3, <2>2
  <2>. QED
    BY <2>1, <2>2
<1>. QED
  BY <1>1, <1>3, <1>4

(* A request is a stop, is a grant, or gets an answer that grants nothing. *)
LEMMA MasterDecides ==
  ASSUME ServoTypes, ServoTypes', MasterApply
  PROVE  \/ request.type = "stop" /\ servo' = Disarmed /\ toControl' = toControl /\ sessions' = sessions
         \/ /\ request.type = "arm" /\ sessions' = sessions + 1 /\ servo' = Granted(Control)
            /\ Reply(request, TRUE, servo')
         \/ /\ request.type # "stop" /\ sessions' = sessions
            /\ servo'.armed = servo.armed /\ servo'.owner = servo.owner /\ servo'.session = servo.session
            /\ \E accepted \in BOOLEAN, state \in ServoType :
                 Reply(request, accepted, state) /\ (request.type = "arm" => ~accepted)
<1>1. servo \in ServoType /\ servo' \in ServoType /\ request \in Wire
  BY MasterApplyIs DEF ServoTypes, MasterTypes, ServoType
<1>2. CASE request.type = "stop"
  BY <1>2 DEF MasterApply
<1>3. CASE request.type = "arm"
  BY <1>1, <1>3 DEF MasterApply
<1>4. CASE request.type = "axes"
  BY <1>1, <1>4 DEF MasterApply, ServoType
<1>. QED
  BY <1>1, <1>2, <1>3, <1>4 DEF Wire

(* The request is decided and answered; the session granted to an arm      *)
(* request is new, and its answer the only one that grants it.             *)
LEMMA MasterApplyKeeps ==
  ASSUME ServoInv, ServoTypes', UNCHANGED <<controlVars, born>>, MasterApply
  PROVE  ServoInv'
<1> USE DEF ServoInv, endpoints
<1>1. /\ UNCHANGED <<master, worker, arm, auth, born, intact, cUp, mUp, toMaster>>
      /\ request \in Wire /\ request' = NoRequest /\ 0 \in Line /\ On(0) = request
  BY MasterApplyIs DEF controlVars
<1>2. Line' = Line /\ \A i : StopAfter(i)' = StopAfter(i)
  BY MasterApplyIs
<1>3. \A i \in Line' :
        i \in Nat /\ ((i = 0 /\ On(i)' = NoRequest) \/ (i > 0 /\ On(i)' = On(i)))
  BY MasterApplyIs
<1>4. Passes
  BY MasterApplyIs
<1>5. StopOnLine /\ request.type # "stop" => StopOnLine'
  BY MasterApplyIs
<1>6. StopAfter(0) => StopOnLine'
  BY MasterApplyIs
<1>7. WorkerFits'
  BY <1>1 DEF WorkerFits
<1>8. InputsFit'
  BY <1>1, <1>4, FewerInputs
<1>9. StopsFollow'
  BY <1>1, <1>2, <1>3 DEF StopsFollow, Asking, NoRequest
(* The stop, the grant, and the answers that grant nothing. *)
<1>10. \/ request.type = "stop" /\ servo' = Disarmed /\ toControl' = toControl /\ sessions' = sessions
       \/ /\ request.type = "arm" /\ sessions' = sessions + 1 /\ servo' = Granted(Control)
          /\ Reply(request, TRUE, servo')
       \/ /\ request.type # "stop" /\ sessions' = sessions
          /\ servo'.armed = servo.armed /\ servo'.owner = servo.owner /\ servo'.session = servo.session
          /\ \E accepted \in BOOLEAN, state \in ServoType :
               Reply(request, accepted, state) /\ (request.type = "arm" => ~accepted)
  BY MasterDecides
<1>11. ASSUME NEW accepted \in BOOLEAN, NEW state \in ServoType, Reply(request, accepted, state),
              request.type # "stop"
       PROVE  \E a \in Acks :
                /\ a = Ack(request, accepted, state)
                /\ toControl' = toControl \/ toControl' = toControl \o <<a>>
                /\ intact /\ mUp => toControl' = toControl \o <<a>>
                /\ \A k \in 1 .. Len(toControl') :
                     (k \in 1 .. Len(toControl) /\ toControl'[k] = toControl[k]) \/ toControl'[k] = a
                /\ \A k \in 1 .. Len(toControl) : k \in 1 .. Len(toControl') /\ toControl'[k] = toControl[k]
  BY <1>1, <1>11, Replies
(* The answer has the id of a request that is no longer on the line. *)
<1>12. ASSUME \A k \in 1 .. Len(toControl') :
                \/ k \in 1 .. Len(toControl) /\ toControl'[k] = toControl[k]
                \/ toControl'[k].req = request.type /\ toControl'[k].id = request.id
       PROVE  ArmsFit'
  <2>1. ASSUME NEW i \in Line', On(i)'.type = "arm" PROVE i > 0 /\ i \in Line /\ On(i)' = On(i)
    BY <1>2, <1>3, <2>1 DEF NoRequest
  <2>2. ASSUME NEW i \in Line', On(i)'.type = "arm",
               NEW k \in 1 .. Len(toControl'), toControl'[k].req = "arm"
        PROVE  toControl'[k].id # On(i)'.id
    BY <1>1, <1>12, <2>1, <2>2 DEF ArmsFit
  <2>3. \A k \in 1 .. Len(toControl') : toControl'[k].req = "arm" =>
          /\ toControl'[k].id <= arm.count
          /\ worker.at = "sendArm" => toControl'[k].id < arm.count
    BY <1>1, <1>12 DEF ArmsFit
  <2>4. ASSUME NEW i \in Line', On(i)'.type = "arm"
        PROVE  /\ On(i)'.id <= arm.count
               /\ worker.at = "sendArm" => On(i)'.id < arm.count
               /\ worker.at = "awaitArm" /\ arm.response # NoAnswer => On(i)'.id # arm.id
               /\ \A j \in Line' : i < j /\ On(j)'.type = "arm" => On(i)'.id # On(j)'.id
    BY <2>1, <2>4 DEF ArmsFit
  <2>. QED
    BY <1>1, <2>2, <2>3, <2>4 DEF ArmsFit
<1>13. CASE request.type = "stop" /\ servo' = Disarmed /\ toControl' = toControl /\ sessions' = sessions
  <2>1. ArmsFit'
    BY <1>12, <1>13
  <2>2. servo'.session <= sessions /\ ~servo'.armed
    BY <1>13 DEF Disarmed, NoSession, ServoTypes, MasterTypes
  <2>3. Granting' = Granting
    BY <1>1, <1>13, GrantingStays
  <2>4. SessionsFit'
    BY <1>1, <1>4, <1>13, <2>2, <2>3, FewerSessions DEF SessionsFit
  <2>5. AuthorityFits'
    BY <2>2 DEF AuthorityFits
  <2>. QED
    BY <1>7, <1>8, <1>9, <2>1, <2>4, <2>5
<1>14. ASSUME request.type # "stop", sessions' = sessions,
              servo'.armed = servo.armed, servo'.owner = servo.owner, servo'.session = servo.session,
              NEW accepted \in BOOLEAN, NEW state \in ServoType, Reply(request, accepted, state),
              request.type = "arm" => ~accepted
       PROVE  ServoInv'
  <2>1. \A k \in 1 .. Len(toControl') :
          \/ k \in 1 .. Len(toControl) /\ toControl'[k] = toControl[k]
          \/ toControl'[k].req = request.type /\ toControl'[k].id = request.id
             /\ toControl'[k].accepted = accepted
    <3>1. PICK a \in Acks :
            /\ a = Ack(request, accepted, state)
            /\ \A k \in 1 .. Len(toControl') :
                 (k \in 1 .. Len(toControl) /\ toControl'[k] = toControl[k]) \/ toControl'[k] = a
      BY <1>11, <1>14
    <3>2. a.req = request.type /\ a.id = request.id /\ a.accepted = accepted
      BY <3>1 DEF Ack
    <3>. QED
      BY <3>1, <3>2
  <2>2. ArmsFit'
    BY <1>12, <2>1
  <2>3. Granting' \subseteq Granting
    BY <1>1, <1>14, <2>1 DEF Granting, Grants
  <2>4. SessionsFit'
    BY <1>1, <1>4, <1>14, <2>3, FewerSessions DEF SessionsFit
  <2>5. AuthorityFits'
    BY <1>1, <1>5, <1>14, <2>3 DEF AuthorityFits, Wanted
  <2>. QED
    BY <1>7, <1>8, <1>9, <2>2, <2>4, <2>5
<1>15. CASE /\ request.type = "arm" /\ sessions' = sessions + 1 /\ servo' = Granted(Control)
            /\ Reply(request, TRUE, servo')
  <2>1. Granted(Control) \in ServoType /\ Granted(Control).session = sessions + 1 /\ sessions \in Nat
    BY GrantedIs DEF ServoTypes, MasterTypes, Owners
  <2>2. PICK a \in Acks :
          /\ a.req = "arm" /\ a.id = request.id /\ a.accepted /\ a.session = sessions + 1
          /\ intact /\ mUp => toControl' = toControl \o <<a>>
          /\ \A k \in 1 .. Len(toControl') :
               (k \in 1 .. Len(toControl) /\ toControl'[k] = toControl[k]) \/ toControl'[k] = a
    <3>1. servo' \in ServoType /\ servo'.session = sessions + 1
      BY <1>15, <2>1
    <3>2. PICK a \in Acks :
            /\ a = Ack(request, TRUE, servo')
            /\ intact /\ mUp => toControl' = toControl \o <<a>>
            /\ \A k \in 1 .. Len(toControl') :
                 (k \in 1 .. Len(toControl) /\ toControl'[k] = toControl[k]) \/ toControl'[k] = a
      BY <1>11, <1>15, <3>1
    <3>3. a.req = "arm" /\ a.id = request.id /\ a.accepted /\ a.session = sessions + 1
      BY <1>15, <3>1, <3>2 DEF Ack
    <3>. QED
      BY <3>2, <3>3
  <2>3. ArmsFit'
    BY <1>12, <1>15, <2>2
  <2>4. \A m \in Granting' : m \in Granting \/ m = a
    BY <1>1, <2>2 DEF Granting, Grants
  <2>5. SessionsFit'
    <3>1. \A i \in Line' : On(i)'.type = "axes" =>
            i \in Line /\ On(i)' = On(i) /\ On(i).session \in Nat /\ On(i).session <= sessions
      BY <1>2, <1>3, OnTyped DEF SessionsFit, NoRequest
    <3>2. auth.session \in Nat /\ \A m \in Granting : m.session \in Nat
      BY OnTyped DEF ServoTypes, ControlTypes, AgentTypes, Granting, Grants, Acks
    <3>3. worker.session \in Nat
      BY DEF ServoTypes, ControlTypes, AgentTypes
    <3>. QED
      BY <1>1, <1>15, <2>1, <2>2, <2>4, <3>1, <3>2, <3>3 DEF SessionsFit
  <2>6. worker.at = "awaitArm" /\ request.id = arm.id => \A m \in Granting' : m.session = sessions + 1
    <3>1. SUFFICES ASSUME worker.at = "awaitArm", request.id = arm.id, NEW m \in Granting PROVE FALSE
      BY <2>2, <2>4
    <3>2. arm.response = NoAnswer
      BY <1>1, <1>15, <3>1 DEF ArmsFit
    <3>3. PICK k \in 1 .. Len(toControl) : m = toControl[k] /\ m.req = "arm" /\ m.id = arm.id
      BY <3>1, <3>2 DEF Granting, Grants
    <3>. QED
      BY <1>1, <1>15, <3>1, <3>3 DEF ArmsFit
  <2>7. AuthorityFits'
    BY <1>1, <1>6, <1>15, <2>1, <2>6 DEF AuthorityFits, Wanted, StopsFollow
  <2>. QED
    BY <1>7, <1>8, <1>9, <2>3, <2>5, <2>7
<1>. QED
  BY <1>10, <1>13, <1>14, <1>15

(* Whatever else disarms the master, the bridge, and the other agents.     *)
LEMMA MasterKeeps ==
  ASSUME ServoInv, ServoTypes', UNCHANGED <<controlVars, born>>,
         \/ CommandTimeout \/ OtherStop \/ Watchdog \/ RosDown \/ RosReconnects
         \/ \E a \in Others : OtherArm(a)
  PROVE  ServoInv'
<1> USE DEF ServoInv
<1>1. /\ Line' = Line /\ StopOnLine' = StopOnLine
      /\ \A i : On(i)' = On(i) /\ StopAfter(i)' = StopAfter(i)
      /\ UNCHANGED <<toControl, intact, cUp, mUp, born, request, auth, arm, worker, master>>
      /\ Granting' = Granting
  BY LineStays, GrantingStays DEF CommandTimeout, OtherStop, Watchdog, RosDown, RosReconnects,
     OtherArm,
     linkVars, controlVars
<1>2. /\ sessions \in Nat /\ sessions' \in Nat /\ sessions <= sessions' /\ servo'.session <= sessions'
      /\ servo'.armed /\ servo'.owner = Control => servo' = servo
  <2>1. CASE CommandTimeout \/ OtherStop \/ Watchdog \/ RosDown \/ RosReconnects
    <3>1. sessions' = sessions /\ (servo' = servo \/ servo' = Disarmed) /\ sessions \in Nat
      BY <2>1 DEF CommandTimeout, OtherStop, Watchdog, RosDown, RosReconnects, FaultRos,
         ServoTypes,
         MasterTypes
    <3>. QED
      BY <3>1 DEF Disarmed, NoSession, SessionsFit
  <2>2. ASSUME NEW a \in Others, OtherArm(a)
        PROVE  /\ sessions \in Nat /\ sessions' = sessions + 1 /\ servo'.session = sessions + 1
               /\ servo'.owner # Control
    <3>1. a # Control /\ a \in Owners /\ sessions \in Nat
      BY OthersAssumption DEF Owners, ServoTypes, MasterTypes
    <3>. QED
      BY <2>2, <3>1, GrantedIs DEF OtherArm
  <2>3. CASE \E a \in Others : OtherArm(a)
    BY <2>2, <2>3
  <2>. QED
    BY <2>1, <2>3
<1>3. WorkerFits' /\ ArmsFit' /\ InputsFit' /\ StopsFollow'
  BY <1>1 DEF WorkerFits, ArmsFit, InputsFit, StopsFollow, Asking
<1>4. SessionsFit'
  <2>1. auth.session \in Nat /\ worker.session \in Nat
    BY DEF ServoTypes, ControlTypes, AgentTypes
  <2>2. \A i \in Line : On(i).type = "axes" => On(i).session \in Nat
    BY OnTyped
  <2>3. \A m \in Granting : m.session \in Nat
    BY OnTyped DEF ServoTypes, ControlTypes, AgentTypes, Granting, Grants, Acks
  <2>. QED
    BY <1>1, <1>2, <2>1, <2>2, <2>3 DEF SessionsFit
<1>5. AuthorityFits'
  BY <1>1, <1>2 DEF AuthorityFits, Wanted
<1>. QED
  BY <1>3, <1>4, <1>5

-----------------------------------------------------------------------------
LEMMA ServoTyped ==
  ASSUME ServoTypes, [Next]_vars
  PROVE  ServoTypes'
<1> USE DEF ServoTypes
<1>1. CASE UNCHANGED vars
  BY <1>1 DEF vars, linkVars, controlVars, masterVars, envVars, ControlTypes, LinkTypes,
     InputTypes,
     AgentTypes, MasterTypes
<1>2. ASSUME UNCHANGED masterVars, born' = born PROVE MasterTypes'
  BY <1>2 DEF masterVars, MasterTypes
<1>3. ASSUME ControlTypes, UNCHANGED controlVars, LinkTypes' PROVE ControlTypes'
  BY <1>3 DEF controlVars, ControlTypes, InputTypes, AgentTypes
<1>4. CASE ControlStep /\ UNCHANGED <<masterVars, envVars>>
  <2>1. ControlTypes'
    <3>1. CASE GrasshopperStep
      <4>1. PICK c \in Clients :
              GhApply(c) \/ \E cmd \in {"arm", "axes", "stop"}, dir \in Directions : GhRequest(c, cmd, dir)
        BY <3>1 DEF GrasshopperStep
      <4>2. "arm" \in {"arm", "axes", "stop"} /\ "zero" \in Directions
        BY DEF Directions
      <4>. QED
        BY <4>1, <4>2, InputsTyped
    <3>2. CASE WorkerStep
      BY <3>2, QuietWorkerTyped, SendingTyped DEF WorkerStep
    <3>3. CASE ControlReceive \/ ControlDisconnect \/ ControlStopped
      BY <3>3, ControlEventTyped
    <3>. QED
      BY <1>4, <3>1, <3>2, <3>3 DEF ControlStep
  <2>. QED
    BY <1>2, <1>4, <2>1 DEF envVars
<1>5. CASE MasterStep /\ UNCHANGED <<controlVars, envVars>>
  <2>1. LinkTypes' /\ MasterTypes'
    BY <1>5, MasterReceiveTyped, MasterApplyTyped, MasterTyped
       DEF MasterStep, RequestStep, OrphanExpires, envVars, ControlTypes
  <2>. QED
    BY <1>3, <1>5, <2>1
<1>6. CASE Restart
  <2>1. ControlTypes'
    BY <1>6, ControlEventTyped DEF Restart
  <2>. QED
    BY <1>6, <2>1 DEF Restart, masterVars, MasterTypes
<1>7. CASE Disturbance
  <2>1. CASE ControlDisturbed /\ UNCHANGED <<masterVars, born>>
    <3>1. ControlTypes'
      <4>1. CASE GhLost
        <5>1. ControlTypes /\ LinkTypes' /\ AgentTypes' /\ InputTypes'
          BY <4>1, Records DEF GhLost, ControlTypes, LinkTypes, AgentTypes, InputTypes, linkVars
        <5>. QED
          BY <5>1 DEF ControlTypes
      <4>2. CASE ~GhLost
        BY <2>1, <4>2, QuietWorkerTyped, ControlEventTyped DEF ControlDisturbed
      <4>. QED
        BY <4>1, <4>2
    <3>. QED
      BY <1>2, <2>1, <3>1
  <2>2. CASE MasterDisturbed /\ UNCHANGED <<controlVars, born>>
    <3>1. LinkTypes' /\ MasterTypes'
      BY <2>2, MasterTyped DEF MasterDisturbed, ControlTypes
    <3>. QED
      BY <1>3, <2>2, <3>1
  <2>3. CASE LinkBreaks
    <3>1. LinkTypes'
      <4>1. <<>> \in Seq(Acks)
        OBVIOUS
      <4>. QED
        BY <2>3, <4>1, Breaks DEF LinkBreaks, LinkTypes, ControlTypes
    <3>. QED
      BY <1>2, <1>3, <2>3, <3>1 DEF LinkBreaks
  <2>. QED
    BY <1>7, <2>1, <2>2, <2>3 DEF Disturbance
<1>. QED
  BY <1>1, <1>4, <1>5, <1>6, <1>7 DEF Next

LEMMA ServoKeeps ==
  ASSUME ServoInv, [Next]_vars
  PROVE  ServoInv'
<1>1. ServoTypes'
  BY ServoTyped DEF ServoInv
<1>2. CASE UNCHANGED vars
  <2>1. /\ Line' = Line /\ StopOnLine' = StopOnLine /\ Granting' = Granting
        /\ \A i : On(i)' = On(i) /\ StopAfter(i)' = StopAfter(i)
    BY <1>2, LineStays, GrantingStays DEF vars, linkVars, controlVars, masterVars
  <2>. QED
    BY <1>1, <1>2, <2>1 DEF vars, linkVars, controlVars, masterVars, envVars, ServoInv,
       WorkerFits,
       ArmsFit, SessionsFit, InputsFit, StopsFollow, Asking, AuthorityFits, Wanted
<1>3. CASE ControlStep /\ UNCHANGED <<masterVars, envVars>>
  <2>1. UNCHANGED <<masterVars, born>>
    BY <1>3 DEF envVars
  <2>2. CASE GrasshopperStep
    BY <1>1, <2>1, <2>2, QuietKeeps DEF GrasshopperStep
  <2>3. CASE WorkerStep
    BY <1>1, <2>1, <2>3, QuietKeeps, CheckKeeps, ArmKeeps, AwaitKeeps, CommitKeeps,
       GivingUpKeeps,
       SendAxesKeeps, SendArmKeeps DEF WorkerStep
  <2>4. CASE ControlReceive \/ ControlDisconnect \/ ControlStopped
    BY <1>1, <2>1, <2>4, ReceiveKeeps, ControlCutKeeps
  <2>. QED
    BY <1>3, <2>2, <2>3, <2>4 DEF ControlStep
<1>4. CASE MasterStep /\ UNCHANGED <<controlVars, envVars>>
  BY <1>1, <1>4, MasterReceiveKeeps, MasterApplyKeeps, MasterKeeps, MasterCutKeeps
     DEF MasterStep, RequestStep, OrphanExpires, envVars
<1>5. CASE Restart
  BY <1>1, <1>5, RestartKeeps
<1>6. CASE Disturbance
  <2>1. CASE ControlDisturbed /\ UNCHANGED <<masterVars, born>>
    BY <1>1, <2>1, QuietKeeps, CheckKeeps, AwaitKeeps, ControlCutKeeps DEF ControlDisturbed
  <2>2. CASE MasterDisturbed /\ UNCHANGED <<controlVars, born>>
    BY <1>1, <2>2, MasterKeeps, MasterCutKeeps DEF MasterDisturbed
  <2>3. CASE LinkBreaks
    BY <1>1, <2>3, ControlCutKeeps DEF LinkBreaks
  <2>. QED
    BY <1>6, <2>1, <2>2, <2>3 DEF Disturbance
<1>. QED
  BY <1>2, <1>3, <1>4, <1>5, <1>6 DEF Next

(* In every state the agent's and the master's views fit together.         *)
THEOREM ServoInvariance == Spec => []ServoInv
BY ServoBegins, ServoKeeps, PTL DEF Spec

(* A session of the master carries the motion of one input session: no     *)
(* designer steers under an authorization that was armed for another.      *)
THEOREM OneInput == Spec => []OneInputPerSession
<1>1. ServoInv => OneInputPerSession
  <2>1. SUFFICES ASSUME ServoInv PROVE OneInputPerSession
    OBVIOUS
  <2>2. \A m \in AxesInFlight : \E i \in Line : m = On(i)
    BY <2>1 DEF AxesInFlight, InFlight, Line, On, ServoInv, ServoTypes, ControlTypes, LinkTypes
  <2>. QED
    BY <2>1, <2>2 DEF OneInputPerSession, ServoInv, InputsFit, AxesInFlight
<1>. QED
  BY <1>1, ServoInvariance, PTL

(* An agent that neither holds nor asks for an authorization has sent a    *)
(* stop after all it ever sent.                                            *)
THEOREM StopIsLast == Spec => []LastWordIsStop
<1>1. ServoInv => LastWordIsStop
  <2>1. SUFFICES ASSUME ServoInv, intact /\ cUp /\ ~auth.armed /\ ~Asking,
                        NEW i \in DOMAIN toMaster, toMaster[i].type \in {"arm", "axes"}
                 PROVE  \E j \in DOMAIN toMaster : i < j /\ toMaster[j].type = "stop"
    BY DEF LastWordIsStop
  <2>2. i \in Line /\ On(i) = toMaster[i] /\ DOMAIN toMaster = 1 .. Len(toMaster)
    BY <2>1 DEF Line, On, ServoInv, ServoTypes, ControlTypes, LinkTypes
  <2>3. StopAfter(i)
    BY <2>1, <2>2 DEF ServoInv, StopsFollow, Asking
  <2>. QED
    BY <2>2, <2>3 DEF StopAfter
<1>. QED
  BY <1>1, ServoInvariance, PTL

(* The master is not left armed for an agent that does not use it, is not  *)
(* about to learn of it, and has sent no stop.                             *)
THEOREM NothingOrphaned == Spec => []NoOrphanedAuthority
<1>1. ServoInv => NoOrphanedAuthority
  <2>1. ServoInv /\ StopOnLine => StopOnItsWay
    BY DEF StopOnLine, StopOnItsWay, InFlight, Line, On, ServoInv, ServoTypes, ControlTypes,
       LinkTypes
  <2>. QED
    BY <2>1 DEF NoOrphanedAuthority, ServoInv, AuthorityFits, Wanted, StopOnItsWay
<1>. QED
  BY <1>1, ServoInvariance, PTL
-----------------------------------------------------------------------------
(* What may be said of acknowledgements and of the backlog at any time.    *)
AcksFit ==
  /\ \A i \in Line : On(i).type = "axes" => On(i).id[1] = On(i).session
  /\ \A k \in 1 .. Len(toControl) : toControl[k].req = "axes" =>
       /\ toControl[k].id[1] <= sessions
       /\ worker.at = "awaitArm" => \A m \in Granting : toControl[k].id[1] < m.session
       /\ worker.at = "commit" => toControl[k].id[1] < worker.session

PendingFits ==
  /\ IsFiniteSet(pending) /\ Cardinality(pending) <= MaxPending
  /\ \A p \in pending : p[1] = auth.session

(* What holds while nothing has gone wrong.  The master holds the session  *)
(* that the agent uses or is about to use, with no stop on the line, and   *)
(* the axes sent under it are in order, each later than the last accepted. *)
StopsPrecede ==
  \A i \in Line : On(i).type = "stop" =>
    \E j \in Line : i < j /\ On(j).type = "arm" /\ On(j).id = arm.id

Holds(s) == servo.armed /\ servo.session = s /\ ~servo.seen

NextSeq == IF worker.at = "sendAxes" THEN auth.seq - 1 ELSE auth.seq
Steers(i) == On(i).type = "axes" /\ On(i).session = auth.session
InOrder ==
  /\ servo.seen => servo.seq < NextSeq
  /\ \A i \in Line : Steers(i) =>
       /\ On(i).seq < NextSeq
       /\ servo.seen => servo.seq < On(i).seq
       /\ \A j \in Line : i < j /\ Steers(j) => On(i).seq < On(j).seq
  /\ \A k \in 1 .. Len(toControl) :
       toControl[k].req = "axes" /\ toControl[k].id[1] = auth.session =>
         toControl[k].accepted /\ toControl[k].armed /\ toControl[k].session = auth.session

Alive ==
  /\ intact /\ cUp /\ mUp /\ ~stopping
  /\ worker.at \notin {"fault", "exit", "exitStopInput", "ending", "done"}
AwaitsGrant == worker.at = "awaitArm" => StopsPrecede /\ \A m \in Granting : Holds(m.session)
TakesGrant == worker.at = "commit" => ~StopOnLine /\ Holds(worker.session)
UsesGrant ==
  auth.armed => ~StopOnLine /\ servo.armed /\ servo.session = auth.session /\ InOrder
Ordinary == Alive /\ AwaitsGrant /\ TakesGrant /\ UsesGrant

Calm == rosUp /\ ~rosFault /\ master = "running" /\ (servo.armed => servo.owner = Control)
QuietInv ==
  /\ disturbances \in Nat
  /\ disturbances = 0 => Calm /\ (~fault => Ordinary)

-----------------------------------------------------------------------------
LEMMA PendingKeeps ==
  ASSUME ServoInv, PendingFits, [Next]_vars
  PROVE  PendingFits'
<1> USE DEF PendingFits
<1>1. ASSUME pending' = {} PROVE PendingFits'
  <2>1. IsFiniteSet({}) /\ Cardinality({}) = 0
    BY FS_EmptySet
  <2>. QED
    BY <1>1, <2>1, ControlBounds
<1>2. ASSUME UNCHANGED pending, auth'.session = auth.session PROVE PendingFits'
  BY <1>2
<1>3. ASSUME NEW late \in BOOLEAN, WorkerAxes(late) PROVE PendingFits'
  <2>1. CASE UNCHANGED <<pending, auth>>
    BY <1>2, <2>1
  <2>2. CASE /\ ~AckWatchdog(late) /\ ~fault /\ auth' = [auth EXCEPT !.seq = auth.seq + 1]
             /\ pending' = pending \cup {<<auth.session, auth.seq>>}
    <3>1. pending = {} \/ Cardinality(pending) < MaxPending
      <4>1. auth.armed
        BY <1>3 DEF WorkerAxes, ServoInv, WorkerFits
      <4>2. Cardinality(pending) \in Nat
        BY FS_CardinalityType
      <4>. QED
        BY <2>2, <4>1, <4>2, ControlBounds DEF AckWatchdog
    <3>2. /\ IsFiniteSet(pending')
          /\ Cardinality(pending') <= Cardinality(pending) + 1 /\ Cardinality(pending) \in Nat
      <4>1. Cardinality(pending) \in Nat
        BY FS_CardinalityType
      <4>2. ASSUME NEW x PROVE IsFiniteSet(pending \cup {x})
                               /\ Cardinality(pending \cup {x}) <= Cardinality(pending) + 1
        <5>1. /\ IsFiniteSet(pending \cup {x})
              /\ Cardinality(pending \cup {x}) =
                   IF x \in pending THEN Cardinality(pending) ELSE Cardinality(pending) + 1
          BY FS_AddElement
        <5>. QED
          BY <4>1, <5>1
      <4>. QED
        BY <2>2, <4>1, <4>2
    <3>3. pending = {} => Cardinality(pending) = 0
      BY FS_EmptySet
    <3>4. Cardinality(pending') \in Nat
      BY <3>2, FS_CardinalityType
    <3>5. Cardinality(pending') <= MaxPending
      BY <3>1, <3>2, <3>3, <3>4, ControlBounds
    <3>6. auth'.session = auth.session
      BY <2>2 DEF ServoInv, ServoTypes, ControlTypes, AgentTypes
    <3>. QED
      BY <2>2, <3>2, <3>5, <3>6
  <2>. QED
    BY <1>3, <2>1, <2>2 DEF WorkerAxes
<1>4. CASE ControlReceive
  <2>1. PICK x : pending' = pending \/ pending' = pending \ {x}
    BY <1>4 DEF ControlReceive
  <2>2. IsFiniteSet(pending \ {x}) /\ Cardinality(pending \ {x}) <= Cardinality(pending)
        /\ Cardinality(pending) \in Nat /\ Cardinality(pending \ {x}) \in Nat
    BY FS_Subset, FS_CardinalityType
  <2>3. Cardinality(pending \ {x}) <= MaxPending
    BY <2>2, ControlBounds
  <2>. QED
    BY <1>4, <2>1, <2>2, <2>3 DEF ControlReceive
<1>5. CASE \/ WorkerCommit \/ WorkerDisarm \/ WorkerFault \/ WorkerEnding \/ ControlStopped
           \/ ControlCrash \/ Restart
  BY <1>1, <1>5 DEF WorkerCommit, WorkerDisarm, WorkerFault, WorkerEnding, GiveUp,
     ControlStopped,
     ControlCrash, Restart, ControlStart
<1>6. CASE \/ \E c \in Clients : \/ GhApply(c)
                                 \/ \E cmd \in {"arm", "axes", "stop"}, dir \in Directions :
                                      GhRequest(c, cmd, dir)
           \/ GhLost \/ WorkerTop \/ WorkerCheck(FALSE) \/ WorkerCheck(TRUE) \/ WorkerSendAxes
           \/ WorkerArm \/ WorkerSendArm \/ WorkerAwaitArm \/ ArmTimeout \/ WorkerActive
           \/ WorkerRefused \/ WorkerInvalidate \/ WorkerStopInput \/ WorkerDisarmed
           \/ WorkerReady \/ ControlDisconnect \/ ControlStop
  BY <1>2, <1>6 DEF GhApply, GhRequest, GhLost, WorkerTop, WorkerCheck, WorkerSendAxes,
     WorkerArm,
     WorkerSendArm, WorkerAwaitArm, ArmTimeout, WorkerActive, WorkerRefused, WorkerInvalidate,
     WorkerStopInput, WorkerDisarmed, WorkerReady, ControlDisconnect, ControlStop
<1>7. CASE UNCHANGED controlVars \/ LinkBreaks \/ UNCHANGED vars
  BY <1>2, <1>7 DEF controlVars, LinkBreaks, vars
<1>8. CASE ControlStep
  BY <1>3, <1>4, <1>5, <1>6, <1>8 DEF ControlStep, GrasshopperStep, WorkerStep
<1>9. CASE ControlDisturbed
  BY <1>3, <1>5, <1>6, <1>9 DEF ControlDisturbed
<1>. QED
  BY <1>5, <1>7, <1>8, <1>9 DEF Next, Disturbance

(* The acknowledgements on their way, and the ids of axes.                 *)
LEMMA AcksStay ==
  ASSUME ServoInv, ServoTypes', AcksFit,
         \A i \in Line' : On(i)'.type = "axes" => \E j \in Line : On(i)' = On(j),
         \A k \in 1 .. Len(toControl') : toControl'[k].req = "axes" =>
           \E l \in 1 .. Len(toControl) : toControl'[k] = toControl[l],
         sessions' = sessions \/ sessions' = sessions + 1,
         worker'.at = "awaitArm" => \A m \in Granting' : worker.at = "awaitArm" /\ m \in Granting,
         worker'.at = "commit" => worker.at = "commit" /\ worker'.session = worker.session
  PROVE  AcksFit'
<1>1. \A i \in Line' : On(i)'.type = "axes" => On(i)'.id[1] = On(i)'.session
  BY DEF AcksFit
<1>2. \A l \in 1 .. Len(toControl) : toControl[l].req = "axes" => toControl[l].id[1] \in Nat
  BY DEF ServoInv, ServoTypes, ControlTypes, LinkTypes, Acks
<1>3. sessions \in Nat
  BY DEF ServoInv, ServoTypes, MasterTypes
<1>4. \A k \in 1 .. Len(toControl') : toControl'[k].req = "axes" =>
       /\ toControl'[k].id[1] <= sessions'
       /\ worker'.at = "awaitArm" => \A m \in Granting' : toControl'[k].id[1] < m.session
       /\ worker'.at = "commit" => toControl'[k].id[1] < worker'.session
  BY <1>2, <1>3 DEF AcksFit
<1>. QED
  BY <1>1, <1>4 DEF AcksFit

LEMMA PassingAxes ==
  ASSUME Passes
  PROVE  \A i \in Line' : On(i)'.type = "axes" => \E j \in Line : On(i)' = On(j)
BY DEF Passes

(* What the agent does to the acknowledgements: nothing but read them.     *)
LEMMA ControlAcksKeep ==
  ASSUME ServoInv, ServoTypes', AcksFit, UNCHANGED masterVars,
         ControlStep \/ ControlDisturbed \/ LinkBreaks
  PROVE  AcksFit'
<1> USE DEF ServoInv
<1>1. UNCHANGED <<sessions, request>>
  BY DEF masterVars
<1>2. CASE \/ \E c \in Clients : \/ GhApply(c)
                                 \/ \E cmd \in {"arm", "axes", "stop"}, dir \in Directions :
                                      GhRequest(c, cmd, dir)
           \/ GhLost \/ WorkerTop \/ (\E late \in BOOLEAN : WorkerCheck(late) \/ WorkerAxes(late))
           \/ WorkerArm \/ ArmTimeout \/ WorkerCommit \/ WorkerActive \/ WorkerInvalidate
           \/ WorkerStopInput \/ WorkerDisarmed \/ WorkerReady \/ ControlStop
  <2>1. UNCHANGED linkVars
    BY <1>2 DEF GhApply, GhRequest, GhLost, WorkerTop, WorkerCheck, WorkerAxes, WorkerArm,
       ArmTimeout,
       WorkerCommit, WorkerActive, WorkerInvalidate, WorkerStopInput, WorkerDisarmed,
       WorkerReady,
       ControlStop
  <2>2. worker'.at = "awaitArm" => arm'.id = arm.id /\ arm'.response = arm.response
    BY <1>2 DEF GhApply, GhRequest, GhLost, WorkerTop, WorkerCheck, WorkerAxes, Fault, NoFault,
       WorkerArm, ArmTimeout, WorkerCommit, WorkerActive, WorkerInvalidate, WorkerStopInput,
       WorkerDisarmed, WorkerReady, ControlStop, Goto, ServoTypes, ControlTypes, AgentTypes
  <2>3. worker' = worker \/ worker'.at \notin {"awaitArm", "commit"}
    <3>1. ASSUME NEW late \in BOOLEAN, WorkerCheck(late) PROVE worker'.at \notin {"awaitArm", "commit"}
      <4>1. worker'.at = Branch(fault')
        BY <3>1 DEF WorkerCheck, Goto, ServoTypes, ControlTypes, AgentTypes
      <4>2. auth.armed \in BOOLEAN /\ worker.snap.armed \in BOOLEAN /\ fault' \in BOOLEAN
        BY DEF ServoTypes, ControlTypes, AgentTypes, Gh
      <4>. QED
        BY <4>1, <4>2 DEF Branch
    <3>. QED
      BY <1>2, <3>1 DEF GhApply, GhRequest, GhLost, WorkerTop, WorkerAxes, WorkerArm,
         ArmTimeout,
         WorkerCommit, WorkerActive, WorkerInvalidate, WorkerStopInput, WorkerDisarmed,
         WorkerReady,
         ControlStop, Goto, ServoTypes, ControlTypes, AgentTypes
  <2>4. Line' = Line /\ \A i : On(i)' = On(i)
    BY <1>1, <2>1, LineStays DEF linkVars
  <2>5. worker'.at = "awaitArm" => Granting' = Granting
    BY <2>1, <2>2, GrantingStays DEF linkVars
  <2>6. toControl' = toControl
    BY <2>1 DEF linkVars
  <2>. QED
    BY <1>1, <2>3, <2>4, <2>5, <2>6, AcksStay
<1>3. CASE WorkerSendArm
  <2>1. worker'.at # "commit" /\ toControl' = toControl
    BY <1>3 DEF WorkerSendArm, Goto, ServoTypes, ControlTypes, AgentTypes
  <2>2. PICK m \in Wire : m.type = "arm" /\ Pushed(m)
    BY <1>1, <1>3, ArmSent
  <2>3. worker'.at = "awaitArm" => \A g \in Granting' : FALSE
    BY <1>1, <1>3, ArmSent
  <2>4. \A i \in Line' : On(i)'.type = "axes" => \E j \in Line : On(i)' = On(j)
    BY <2>2 DEF Pushed
  <2>. QED
    BY <1>1, <2>1, <2>3, <2>4, AcksStay
<1>4. CASE WorkerSendAxes
  <2>1. worker'.at = "top" /\ toControl' = toControl
    BY <1>4 DEF WorkerSendAxes, Goto, ServoTypes, ControlTypes, AgentTypes
  <2>2. PICK m \in Wire : m.type = "axes" /\ m.id[1] = auth.session /\ m.session = auth.session /\ Pushed(m)
    BY <1>1, <1>4, AxesSent
  <2>. QED
    BY <1>1, <2>1, <2>2 DEF Pushed, AcksFit
<1>5. CASE WorkerAwaitArm
  <2>1. /\ worker.at = "awaitArm" /\ UNCHANGED <<linkVars, arm>>
        /\ \/ worker'.at \in {"refused", "refusedFault"}
           \/ /\ worker'.at = "commit" /\ worker'.session = arm.response.session
              /\ arm.response # NoAnswer /\ arm.response.accepted
    BY <1>5 DEF WorkerAwaitArm, ArmConfirmed, Goto, ServoTypes, ControlTypes, AgentTypes
  <2>2. Line' = Line /\ toControl' = toControl /\ \A i : On(i)' = On(i)
    BY <1>1, <2>1, LineStays DEF linkVars
  <2>3. worker'.at = "commit" => arm.response \in Granting
    BY <2>1 DEF WorkerFits, Granting, Grants
  <2>. QED
    BY <1>1, <2>1, <2>2, <2>3 DEF AcksFit
<1>6. CASE WorkerRefused \/ WorkerDisarm \/ WorkerFault \/ WorkerEnding
  <2>1. worker'.at \in {"invalidate", "disarmed", "exit", "done"} /\ toControl' = toControl
    BY <1>6 DEF WorkerRefused, WorkerDisarm, WorkerFault, WorkerEnding, GiveUp, Goto,
       ServoTypes,
       ControlTypes, AgentTypes
  <2>2. \/ toMaster' = toMaster
        \/ \E s \in Seq({Stop}) : toMaster' = IF cUp THEN Sent(toMaster, s) ELSE toMaster
    BY <1>6, GivingUpSends
  <2>3. \A i \in Line' : On(i)'.type = "axes" => \E j \in Line : On(i)' = On(j)
    BY <1>1, <2>2, StopsSent, PassingAxes, LineStays
  <2>. QED
    BY <1>1, <2>1, <2>3, AcksStay
<1>7. CASE ControlReceive
  <2>1. worker' = worker /\ toMaster' = toMaster
    BY <1>7 DEF ControlReceive
  <2>2. \A k \in 1 .. Len(toControl') : \E l \in 1 .. Len(toControl) : toControl'[k] = toControl[l]
    BY <1>7, AnswerGrants
  <2>3. Granting' \subseteq Granting
    BY <1>7, AnswerGrants
  <2>4. Line' = Line /\ \A i : On(i)' = On(i)
    BY <1>1, <2>1, LineStays
  <2>. QED
    BY <1>1, <2>1, <2>2, <2>3, <2>4, AcksStay
<1>8. CASE ControlDisconnect \/ ControlStopped \/ ControlCrash \/ LinkBreaks
  <2>1. /\ worker' = worker \/ worker'.at = "done"
        /\ worker'.at = "done" \/ (arm'.id = arm.id /\ arm'.response = arm.response)
        /\ toControl' = toControl \/ toControl' = <<>>
    BY <1>8 DEF ControlDisconnect, ControlStopped, ControlCrash, LinkBreaks, Break, Fault,
       NoFault,
       controlVars, ServoTypes, ControlTypes, AgentTypes
  <2>2. \A i \in Line' : On(i)'.type = "axes" => \E j \in Line : On(i)' = On(j)
    BY <1>8, ControlCutPasses, PassingAxes
  <2>3. \A k \in 1 .. Len(toControl') : k \in 1 .. Len(toControl) /\ toControl'[k] = toControl[k]
    BY <2>1
  <2>4. worker'.at # "done" => Granting' \subseteq Granting
    BY <2>1, <2>3 DEF Granting, Grants
  <2>. QED
    BY <1>1, <2>1, <2>2, <2>3, <2>4, AcksStay
<1>. QED
  BY <1>2, <1>3, <1>4, <1>5, <1>6, <1>7, <1>8
     DEF ControlStep, ControlDisturbed, GrasshopperStep, WorkerStep

(* An axes acknowledgement is one of axes that were on the line, and these *)
(* are of an earlier session than any that is being granted.               *)
LEMMA AcksAnswer ==
  ASSUME ServoInv, ServoTypes', AcksFit, UNCHANGED controlVars, NEW i \in Line, UNCHANGED sessions,
         \A j \in Line' : On(j)'.type = "axes" => \E n \in Line : On(j)' = On(n),
         \A k \in 1 .. Len(toControl') :
           \/ k \in 1 .. Len(toControl) /\ toControl'[k] = toControl[k]
           \/ toControl'[k].req = On(i).type /\ toControl'[k].id = On(i).id,
         Granting' \subseteq Granting
  PROVE  AcksFit'
<1>1. UNCHANGED <<worker, arm>>
  BY DEF controlVars
<1>2. \A j \in Line' : On(j)'.type = "axes" => On(j)'.id[1] = On(j)'.session
  BY DEF AcksFit
<1>3. ASSUME NEW k \in 1 .. Len(toControl'), toControl'[k].req = "axes"
      PROVE  /\ toControl'[k].id[1] <= sessions'
             /\ worker'.at = "awaitArm" => \A m \in Granting' : toControl'[k].id[1] < m.session
             /\ worker'.at = "commit" => toControl'[k].id[1] < worker'.session
  <2>1. CASE k \in 1 .. Len(toControl) /\ toControl'[k] = toControl[k]
    BY <1>1, <1>3, <2>1 DEF AcksFit
  <2>2. CASE toControl'[k].req = On(i).type /\ toControl'[k].id = On(i).id
    <3>1. On(i).type = "axes" /\ toControl'[k].id[1] = On(i).session
      BY <1>3, <2>2 DEF AcksFit
    <3>. QED
      BY <1>1, <3>1 DEF ServoInv, SessionsFit
  <2>. QED
    BY <2>1, <2>2
<1>. QED
  BY <1>2, <1>3 DEF AcksFit

LEMMA MasterAcksKeep ==
  ASSUME ServoInv, ServoTypes', AcksFit, UNCHANGED controlVars, MasterStep \/ MasterDisturbed
  PROVE  AcksFit'
<1> USE DEF ServoInv
<1>1. UNCHANGED <<worker, arm>>
  BY DEF controlVars
<1>2. CASE MasterReceive
  <2>1. Passes /\ UNCHANGED sessions /\ 1 \in Line /\ On(1) = toMaster[1]
    BY <1>2, MasterReceiveIs
  <2>2. \A k \in 1 .. Len(toControl') :
          \/ k \in 1 .. Len(toControl) /\ toControl'[k] = toControl[k]
          \/ toControl'[k].id = On(1).id /\ toControl'[k].req = On(1).type /\ ~toControl'[k].accepted
    BY <1>2, <2>1, MasterReceiveIs
  <2>3. Granting' \subseteq Granting
    BY <1>1, <2>2 DEF Granting, Grants
  <2>. QED
    BY <2>1, <2>2, <2>3, PassingAxes, AcksAnswer
<1>3. CASE MasterApply
  <2>1. Passes /\ request \in Wire /\ 0 \in Line /\ On(0) = request
    BY <1>3, MasterApplyIs
  <2>2. CASE request.type = "stop" /\ UNCHANGED <<toControl, sessions>>
    BY <1>1, <2>1, <2>2, GrantingStays, PassingAxes, AcksAnswer
  <2>3. ASSUME request.type # "stop", NEW accepted \in BOOLEAN, NEW state \in ServoType,
               Reply(request, accepted, state), request.type = "arm" => ~accepted,
               UNCHANGED sessions
        PROVE  AcksFit'
    <3>1. PICK a \in Acks :
            /\ a = Ack(request, accepted, state)
            /\ \A k \in 1 .. Len(toControl') :
                 (k \in 1 .. Len(toControl) /\ toControl'[k] = toControl[k]) \/ toControl'[k] = a
      BY <2>1, <2>3, Replies
    <3>2. a.req = On(0).type /\ a.id = On(0).id /\ (On(0).type = "arm" => ~a.accepted)
      BY <2>1, <2>3, <3>1 DEF Ack
    <3>3. Granting' \subseteq Granting
      BY <1>1, <3>1, <3>2 DEF Granting, Grants
    <3>. QED
      BY <2>1, <2>3, <3>1, <3>2, <3>3, PassingAxes, AcksAnswer
  <2>4. CASE /\ request.type = "arm" /\ sessions' = sessions + 1 /\ servo' = Granted(Control)
             /\ Reply(request, TRUE, servo')
    <3>1. sessions \in Nat /\ servo' \in ServoType /\ servo'.session = sessions + 1
      BY <2>4, GrantedIs DEF Owners, ServoTypes, MasterTypes
    <3>2. PICK a \in Acks :
            /\ a = Ack(request, TRUE, servo')
            /\ \A k \in 1 .. Len(toControl') :
                 (k \in 1 .. Len(toControl) /\ toControl'[k] = toControl[k]) \/ toControl'[k] = a
      BY <2>1, <2>4, <3>1, Replies
    <3>3. a.req = "arm" /\ a.session = sessions + 1
      BY <2>4, <3>1, <3>2 DEF Ack
    <3>4. \A m \in Granting' : m \in Granting \/ m.session = sessions + 1
      BY <1>1, <3>2, <3>3 DEF Granting, Grants
    <3>5. \A i \in Line' : On(i)'.type = "axes" => \E j \in Line : On(i)' = On(j)
      BY <2>1, PassingAxes
    <3>6. \A k \in 1 .. Len(toControl') : toControl'[k].req = "axes" =>
            k \in 1 .. Len(toControl) /\ toControl'[k] = toControl[k]
      BY <3>2, <3>3
    <3>7. \A k \in 1 .. Len(toControl) : toControl[k].req = "axes" => toControl[k].id[1] \in Nat
      BY DEF ServoTypes, ControlTypes, LinkTypes, Acks
    <3>. QED
      BY <1>1, <2>4, <3>1, <3>4, <3>5, <3>6, <3>7 DEF AcksFit
  <2>. QED
    BY <1>3, <2>2, <2>3, <2>4, MasterDecides
<1>4. CASE CommandTimeout \/ OtherStop \/ Watchdog \/ RosDown \/ RosReconnects \/ \E a \in Others : OtherArm(a)
  <2>1. /\ UNCHANGED <<toMaster, toControl, request>>
        /\ sessions' = sessions \/ sessions' = sessions + 1
    BY <1>4 DEF CommandTimeout, OtherStop, Watchdog, RosDown, RosReconnects, OtherArm, linkVars
  <2>2. Line' = Line /\ Granting' = Granting /\ \A i : On(i)' = On(i)
    BY <1>1, <2>1, LineStays, GrantingStays
  <2>. QED
    BY <1>1, <2>1, <2>2, AcksStay
<1>5. CASE MasterDisconnect \/ MasterStop
  <2>1. UNCHANGED sessions /\ (toControl' = toControl \/ toControl' = <<>>)
    BY <1>5 DEF MasterDisconnect, MasterStop, Break, masterVars
  <2>2. \A k \in 1 .. Len(toControl') : k \in 1 .. Len(toControl) /\ toControl'[k] = toControl[k]
    BY <2>1
  <2>3. Granting' \subseteq Granting
    BY <1>1, <2>2 DEF Granting, Grants
  <2>4. \A i \in Line' : On(i)'.type = "axes" => \E j \in Line : On(i)' = On(j)
    BY <1>5, MasterCutPasses, PassingAxes
  <2>. QED
    BY <1>1, <2>1, <2>2, <2>3, <2>4, AcksStay
<1>. QED
  BY <1>2, <1>3, <1>4, <1>5 DEF MasterStep, RequestStep, OrphanExpires, MasterDisturbed

LEMMA AcksKeep ==
  ASSUME ServoInv, AcksFit, [Next]_vars
  PROVE  AcksFit'
<1>1. ServoTypes'
  BY ServoTyped DEF ServoInv
<1>2. CASE Restart
  <2>1. Line' = {0} /\ On(0)' = NoRequest /\ Len(toControl') = 0
    BY <1>2 DEF Restart, ControlStart, Register, masterVars, ServoInv, WorkerFits, Line, On
  <2>. QED
    BY <2>1 DEF AcksFit, NoRequest
<1>3. CASE UNCHANGED vars
  <2>1. Line' = Line /\ Granting' = Granting /\ \A i : On(i)' = On(i)
    BY <1>3, LineStays, GrantingStays DEF vars, linkVars, controlVars, masterVars
  <2>. QED
    BY <1>3, <2>1 DEF vars, linkVars, controlVars, masterVars, AcksFit
<1>. QED
  BY <1>1, <1>2, <1>3, ControlAcksKeep, MasterAcksKeep DEF Next, Disturbance, LinkBreaks

-----------------------------------------------------------------------------
(* Nothing is granted that a stop on the line takes away: the stop is      *)
(* older than the request, which is not answered yet.                      *)
LEMMA NotStopped ==
  ASSUME ServoInv, AwaitsGrant, worker.at = "awaitArm", NEW m \in Granting
  PROVE  ~StopOnLine
<1>1. SUFFICES ASSUME NEW i \in Line, On(i).type = "stop" PROVE FALSE
  BY DEF StopOnLine
<1>2. PICK j \in Line : On(j).type = "arm" /\ On(j).id = arm.id
  BY <1>1 DEF AwaitsGrant, StopsPrecede
<1>3. CASE m = arm.response
  BY <1>2, <1>3 DEF Granting, Grants, ServoInv, ArmsFit
<1>4. CASE \E k \in 1 .. Len(toControl) : m = toControl[k]
  BY <1>2, <1>4 DEF Granting, Grants, ServoInv, ArmsFit
<1>. QED
  BY <1>3, <1>4 DEF Granting

(* The agent moves on, and sends nothing.                                  *)
LEMMA OrdinaryStays ==
  ASSUME Ordinary, UNCHANGED <<linkVars, request, servo>>, ~stopping',
         worker'.at \notin {"fault", "exit", "exitStopInput", "ending", "done"},
         worker'.at = "awaitArm" =>
           worker.at = "awaitArm" /\ arm'.id = arm.id /\ arm'.response = arm.response,
         worker'.at = "commit" => worker.at = "commit" /\ worker'.session = worker.session,
         auth'.armed => auth.armed /\ auth'.session = auth.session /\ NextSeq' = NextSeq
  PROVE  Ordinary'
<1>1. /\ UNCHANGED <<toMaster, toControl, intact, cUp, mUp>>
      /\ Line' = Line /\ StopOnLine' = StopOnLine /\ \A i : On(i)' = On(i)
  BY LineStays DEF linkVars
<1>2. Alive'
  BY <1>1 DEF Ordinary, Alive
<1>3. AwaitsGrant'
  <2>1. worker'.at = "awaitArm" => Granting' = Granting
    BY <1>1, GrantingStays
  <2>. QED
    BY <1>1, <2>1 DEF Ordinary, AwaitsGrant, StopsPrecede, Holds
<1>4. TakesGrant'
  BY <1>1 DEF Ordinary, TakesGrant, Holds
<1>5. UsesGrant'
  BY <1>1 DEF Ordinary, UsesGrant, InOrder, Steers
<1>. QED
  BY <1>2, <1>3, <1>4, <1>5 DEF Ordinary

LEMMA QuietOrdinary ==
  ASSUME ServoInv, Ordinary, ~fault', UNCHANGED masterVars,
         \/ \E c \in Clients : \/ GhApply(c)
                               \/ \E cmd \in {"arm", "axes", "stop"}, dir \in Directions :
                                    GhRequest(c, cmd, dir)
         \/ WorkerTop \/ WorkerCheck(FALSE) \/ WorkerAxes(FALSE) \/ WorkerArm \/ WorkerActive
         \/ WorkerInvalidate \/ WorkerStopInput \/ WorkerDisarmed \/ WorkerReady
  PROVE  Ordinary'
<1>1. UNCHANGED <<linkVars, request, servo>>
  BY DEF GhApply, GhRequest, WorkerTop, WorkerCheck, WorkerAxes, WorkerArm, WorkerActive,
     WorkerInvalidate, WorkerStopInput, WorkerDisarmed, WorkerReady, masterVars
<1>2. /\ ~stopping' 
      /\ \/ UNCHANGED <<worker, arm, auth>>
         \/ /\ worker'.at \in {"check", "top", "disarm", "axes", "arm", "sendArm", "stopInput", "ready"}
            /\ UNCHANGED auth
         \/ /\ worker.at = "axes" /\ worker'.at = "sendAxes"
            /\ auth' = [auth EXCEPT !.seq = auth.seq + 1]
  <2>1. ~stopping /\ worker.at \notin {"fault", "exit", "exitStopInput", "ending", "done"}
    BY DEF Ordinary, Alive
  <2>2. worker = [at |-> worker.at, snap |-> worker.snap, session |-> worker.session]
    BY DEF ServoInv, ServoTypes, ControlTypes, AgentTypes
  <2>3. CASE WorkerCheck(FALSE)
    <3>1. fault' = FALSE
      BY <2>3 DEF WorkerCheck, NoFault, Fault, ServoInv, ServoTypes, ControlTypes, AgentTypes
    <3>2. auth.armed \in BOOLEAN /\ worker.snap.armed \in BOOLEAN
      BY DEF ServoInv, ServoTypes, ControlTypes, AgentTypes, Gh
    <3>. QED
      BY <2>1, <2>2, <2>3, <3>1, <3>2 DEF WorkerCheck, Goto, Branch
  <2>4. CASE WorkerAxes(FALSE)
    BY <2>1, <2>2, <2>4 DEF WorkerAxes, Goto
  <2>5. CASE WorkerTop
    BY <2>1, <2>2, <2>5 DEF WorkerTop
  <2>6. CASE WorkerArm \/ WorkerActive \/ WorkerDisarmed \/ WorkerReady
    BY <2>1, <2>2, <2>6 DEF WorkerArm, WorkerActive, WorkerDisarmed, WorkerReady, Goto
  <2>7. CASE WorkerInvalidate
    BY <2>1, <2>2, <2>7 DEF WorkerInvalidate, Goto
  <2>8. CASE WorkerStopInput
    BY <2>1, <2>2, <2>8 DEF WorkerStopInput, Goto
  <2>9. CASE \E c \in Clients : \/ GhApply(c)
                                \/ \E cmd \in {"arm", "axes", "stop"}, dir \in Directions :
                                     GhRequest(c, cmd, dir)
    <3>1. UNCHANGED <<stopping, worker, arm, auth>>
      BY <2>9 DEF GhApply, GhRequest
    <3>. QED
      BY <2>1, <3>1
  <2>. QED
    BY <2>3, <2>4, <2>5, <2>6, <2>7, <2>8, <2>9
<1>3. auth'.armed => auth.armed /\ auth'.session = auth.session /\ NextSeq' = NextSeq
  <2>1. CASE worker.at = "axes" /\ worker'.at = "sendAxes" /\ auth' = [auth EXCEPT !.seq = auth.seq + 1]
    BY <2>1 DEF NextSeq, ServoInv, ServoTypes, ControlTypes, AgentTypes
  <2>2. CASE worker'.at \in {"check", "top", "disarm", "axes", "arm", "sendArm", "stopInput", "ready"}
             /\ UNCHANGED auth
    <3>1. worker.at # "sendAxes"
      BY <2>2 DEF GhApply, GhRequest, WorkerTop, WorkerCheck, WorkerAxes, WorkerArm,
         WorkerActive,
         WorkerInvalidate, WorkerStopInput, WorkerDisarmed, WorkerReady
    <3>. QED
      BY <2>2, <3>1 DEF NextSeq
  <2>. QED
    BY <1>2, <2>1, <2>2 DEF NextSeq
<1>. QED
  BY <1>1, <1>2, <1>3, OrdinaryStays DEF Ordinary, Alive

(* The agent asks for a grant, learns of it, uses it and gives it up.      *)
LEMMA SendArmOrdinary ==
  ASSUME ServoInv, Ordinary, UNCHANGED masterVars, WorkerSendArm
  PROVE  Ordinary'
<1>1. /\ worker.at = "sendArm" /\ worker'.at = "awaitArm" /\ arm' = arm
      /\ UNCHANGED <<endpoints, stopping, auth>>
  BY DEF WorkerSendArm, Goto, NoFault, Ordinary, Alive, ServoInv, ServoTypes, ControlTypes,
     AgentTypes
<1>2. PICK m \in Wire : m.type = "arm" /\ m.id = arm.count /\ arm.id = arm.count /\ Pushed(m)
  BY ArmSent DEF masterVars
<1>3. \A g \in Granting' : FALSE
  BY <1>1, ArmSent DEF masterVars
<1>4. ~auth'.armed
  BY <1>1 DEF ServoInv, WorkerFits
<1>5. AwaitsGrant'
  <2>1. SUFFICES ASSUME NEW i \in Line', On(i)'.type = "stop"
                 PROVE  \E j \in Line' : i < j /\ On(j)'.type = "arm" /\ On(j)'.id = arm'.id
    BY <1>3 DEF AwaitsGrant, StopsPrecede
  <2>2. i \in Line
    BY <1>2, <2>1 DEF Pushed
  <2>3. PICK j \in Line' : On(j)' = m /\ i < j
    BY <1>2, <2>2 DEF Pushed, Ordinary, Alive
  <2>. QED
    BY <1>1, <1>2, <2>3
<1>. QED
  BY <1>1, <1>4, <1>5 DEF Ordinary, Alive, TakesGrant, UsesGrant, endpoints

LEMMA AwaitOrdinary ==
  ASSUME ServoInv, Ordinary, UNCHANGED masterVars, WorkerAwaitArm
  PROVE  Ordinary'
<1>1. /\ worker.at = "awaitArm" /\ UNCHANGED <<linkVars, arm, auth, stopping, request, servo>>
      /\ \/ worker'.at \in {"refused", "refusedFault"}
         \/ /\ worker'.at = "commit" /\ worker'.session = arm.response.session
            /\ arm.response # NoAnswer /\ arm.response.accepted
  BY DEF WorkerAwaitArm, ArmConfirmed, Goto, masterVars, ServoInv, ServoTypes, ControlTypes,
     AgentTypes
<1>2. ~auth'.armed
  BY <1>1 DEF ServoInv, WorkerFits
<1>3. TakesGrant'
  <2>1. SUFFICES ASSUME worker'.at = "commit" PROVE TakesGrant'
    BY DEF TakesGrant
  <2>2. arm.response \in Granting
    BY <1>1, <2>1 DEF ServoInv, WorkerFits, Granting, Grants
  <2>3. ~StopOnLine /\ Holds(arm.response.session)
    BY <1>1, <2>2, NotStopped DEF Ordinary, AwaitsGrant
  <2>4. StopOnLine' = StopOnLine
    BY <1>1, LineStays DEF linkVars
  <2>. QED
    BY <1>1, <2>1, <2>3, <2>4 DEF TakesGrant, Holds
<1>. QED
  BY <1>1, <1>2, <1>3 DEF Ordinary, Alive, AwaitsGrant, UsesGrant, linkVars

LEMMA CommitOrdinary ==
  ASSUME ServoInv, AcksFit, Ordinary, UNCHANGED masterVars, WorkerCommit
  PROVE  Ordinary'
<1>1. /\ worker.at = "commit" /\ worker'.at = "active"
      /\ UNCHANGED <<linkVars, stopping, request, servo>>
      /\ auth'.session = worker.session /\ auth'.seq = 0
  BY DEF WorkerCommit, Goto, masterVars, ServoInv, ServoTypes, ControlTypes, AgentTypes
<1>2. Line' = Line /\ StopOnLine' = StopOnLine /\ toControl' = toControl /\ \A i : On(i)' = On(i)
  BY <1>1, LineStays DEF linkVars
<1>3. ~StopOnLine /\ servo.armed /\ servo.session = worker.session /\ ~servo.seen
  BY <1>1 DEF Ordinary, TakesGrant, Holds
<1>4. \A i \in Line' : ~Steers(i)'
  <2>1. SUFFICES ASSUME NEW i \in Line', Steers(i)' PROVE FALSE
    OBVIOUS
  <2>2. i \in Line /\ On(i).type = "axes" /\ On(i).session = worker.session
    BY <1>1, <1>2, <2>1 DEF Steers
  <2>3. On(i).session < worker.session /\ On(i).session \in Nat
    BY <1>1, <2>2, OnTyped DEF ServoInv, SessionsFit
  <2>. QED
    BY <2>2, <2>3
<1>5. \A k \in 1 .. Len(toControl) : toControl[k].req = "axes" => toControl[k].id[1] # worker.session
  <2>1. SUFFICES ASSUME NEW k \in 1 .. Len(toControl), toControl[k].req = "axes",
                        toControl[k].id[1] = worker.session
                 PROVE  FALSE
    OBVIOUS
  <2>2. toControl[k].id[1] < worker.session /\ worker.session \in Nat
    BY <1>1, <2>1 DEF AcksFit, ServoInv, ServoTypes, ControlTypes, AgentTypes
  <2>. QED
    BY <2>1, <2>2
<1>6. UsesGrant'
  BY <1>1, <1>2, <1>3, <1>4, <1>5 DEF UsesGrant, InOrder
<1>. QED
  BY <1>1, <1>6 DEF Ordinary, Alive, AwaitsGrant, TakesGrant, linkVars

LEMMA SendAxesOrdinary ==
  ASSUME ServoInv, Ordinary, UNCHANGED masterVars, WorkerSendAxes
  PROVE  Ordinary'
<1>1. /\ worker.at = "sendAxes" /\ worker'.at = "top"
      /\ UNCHANGED <<endpoints, toControl, stopping, auth, servo>>
      /\ auth.seq \in Nat /\ auth.armed
  BY DEF WorkerSendAxes, Goto, masterVars, ServoInv, WorkerFits, ServoTypes, ControlTypes,
     AgentTypes
<1>2. PICK m \in Wire : /\ m.type = "axes" /\ m.session = auth.session /\ m.seq = auth.seq - 1
                        /\ Pushed(m)
  BY AxesSent DEF masterVars
<1>3. NextSeq = auth.seq - 1 /\ NextSeq' = auth.seq
  BY <1>1 DEF NextSeq
<1>4. /\ \A i \in Line' : \/ i \in Line /\ On(i)' = On(i)
                          \/ i \notin Line /\ On(i)' = m
      /\ \A i, j \in Line' : i < j => i \in Line
  BY <1>2 DEF Pushed
<1>5. ~StopOnLine'
  BY <1>1, <1>2, <1>4 DEF Ordinary, UsesGrant, StopOnLine
<1>6. InOrder'
  <2>1. \A i \in Line : Steers(i) => On(i).seq \in Nat
    BY OnTyped DEF ServoInv, Steers, Wire, NoRequest
  <2>2. servo.seq \in Nat /\ InOrder
    BY <1>1 DEF ServoInv, ServoTypes, MasterTypes, Ordinary, UsesGrant
  <2>3. \A i \in Line' : Steers(i)' =>
          /\ On(i)'.seq < NextSeq'
          /\ servo.seen => servo.seq < On(i)'.seq
    BY <1>1, <1>2, <1>3, <1>4, <2>1, <2>2 DEF InOrder, Steers
  <2>4. \A i, j \in Line' : i < j /\ Steers(i)' /\ Steers(j)' => On(i)'.seq < On(j)'.seq
    BY <1>1, <1>2, <1>3, <1>4, <2>1, <2>2 DEF InOrder, Steers
  <2>. QED
    BY <1>1, <1>3, <2>2, <2>3, <2>4 DEF InOrder
<1>. QED
  BY <1>1, <1>5, <1>6 DEF Ordinary, Alive, AwaitsGrant, TakesGrant, UsesGrant, endpoints

LEMMA GivesUpOrdinary ==
  ASSUME ServoInv, Ordinary, WorkerRefused \/ WorkerDisarm
  PROVE  Ordinary'
<1>1. /\ worker'.at \in {"invalidate", "disarmed"} /\ UNCHANGED <<endpoints, stopping>>
      /\ ~auth'.armed
  BY DEF WorkerRefused, WorkerDisarm, GiveUp, NoAuthority, Goto, ServoInv, WorkerFits,
     ServoTypes,
     ControlTypes, AgentTypes
<1>. QED
  BY <1>1 DEF Ordinary, Alive, AwaitsGrant, TakesGrant, UsesGrant, endpoints

LEMMA ReceiveOrdinary ==
  ASSUME ServoInv, Ordinary, UNCHANGED masterVars, ControlReceive
  PROVE  Ordinary'
<1>1. UNCHANGED <<toMaster, request, servo, endpoints, stopping, auth, worker>>
  BY DEF ControlReceive, masterVars
<1>2. Line' = Line /\ StopOnLine' = StopOnLine /\ NextSeq' = NextSeq /\ \A i : On(i)' = On(i)
  BY <1>1, LineStays DEF NextSeq
<1>3. /\ Granting' \subseteq Granting /\ arm'.id = arm.id
      /\ \A k \in 1 .. Len(toControl') :
           k + 1 \in 1 .. Len(toControl) /\ toControl'[k] = toControl[k + 1]
  BY AnswerGrants DEF ServoInv
<1>4. AwaitsGrant' /\ TakesGrant'
  BY <1>1, <1>2, <1>3 DEF Ordinary, AwaitsGrant, TakesGrant, StopsPrecede, Holds
<1>5. UsesGrant'
  BY <1>1, <1>2, <1>3 DEF Ordinary, UsesGrant, InOrder, Steers
<1>. QED
  BY <1>1, <1>4, <1>5 DEF Ordinary, Alive, endpoints

(* The master takes a request and decides it.                              *)
LEMMA MasterReceiveOrdinary ==
  ASSUME ServoInv, Calm, Ordinary, UNCHANGED controlVars, MasterReceive
  PROVE  Calm' /\ Ordinary'
<1> USE DEF ServoInv
<1>1. /\ UNCHANGED <<toControl, endpoints, arm, auth, worker, stopping, servo, rosUp,
                     rosFault, master>>
      /\ request = NoRequest /\ request' = Head(toMaster)
  BY DEF MasterReceive, controlVars, Calm
<1>2. /\ Len(toMaster) \in Nat \ {0} /\ Len(toMaster') = Len(toMaster) - 1
      /\ \A i \in 1 .. Len(toMaster') : toMaster'[i] = toMaster[i + 1]
      /\ request' = toMaster[1]
  BY <1>1, RequestsTail DEF MasterReceive, ServoTypes, ControlTypes, LinkTypes
<1>3. \A i \in Line' : i + 1 \in Line /\ On(i)' = On(i + 1) /\ i \in Nat
  BY <1>2 DEF Line, On
<1>4. \A i \in Line : i > 0 => i - 1 \in Line'
  BY <1>2 DEF Line
<1>5. NextSeq' = NextSeq /\ Granting' = Granting
  BY <1>1, GrantingStays DEF NextSeq
<1>6. ~StopOnLine => ~StopOnLine'
  BY <1>3 DEF StopOnLine
<1>7. AwaitsGrant'
  <2>1. ASSUME StopsPrecede PROVE StopsPrecede'
    <3>1. SUFFICES ASSUME NEW i \in Line', On(i)'.type = "stop"
                   PROVE  \E j \in Line' : i < j /\ On(j)'.type = "arm" /\ On(j)'.id = arm'.id
      BY DEF StopsPrecede
    <3>2. PICK j \in Line : i + 1 < j /\ On(j).type = "arm" /\ On(j).id = arm.id
      BY <1>3, <2>1, <3>1 DEF StopsPrecede
    <3>3. j - 1 \in Line' /\ i < j - 1 /\ (j - 1) + 1 = j
      BY <1>3, <1>4, <3>1, <3>2 DEF Line
    <3>4. On(j - 1)' = On(j)
      BY <1>3, <3>3
    <3>. QED
      BY <1>1, <3>2, <3>3, <3>4
  <2>. QED
    BY <1>1, <1>5, <2>1 DEF Ordinary, AwaitsGrant, Holds
<1>8. TakesGrant'
  BY <1>1, <1>6 DEF Ordinary, TakesGrant, Holds
<1>9. UsesGrant'
  <2>1. ASSUME InOrder PROVE InOrder'
    <3>1. \A i \in Line' : Steers(i)' => Steers(i + 1) /\ i + 1 \in Line /\ On(i)' = On(i + 1)
      BY <1>1, <1>3 DEF Steers
    <3>2. \A i, j \in Line' : i < j /\ Steers(i)' /\ Steers(j)' => On(i)'.seq < On(j)'.seq
      <4>1. SUFFICES ASSUME NEW i \in Line', NEW j \in Line', i < j, Steers(i)', Steers(j)'
                     PROVE  On(i)'.seq < On(j)'.seq
        OBVIOUS
      <4>2. i + 1 < j + 1
        BY <1>3, <4>1
      <4>. QED
        BY <2>1, <3>1, <4>1, <4>2 DEF InOrder
    <3>. QED
      BY <1>1, <1>5, <2>1, <3>1, <3>2 DEF InOrder
  <2>. QED
    BY <1>1, <1>6, <2>1 DEF Ordinary, UsesGrant
<1>. QED
  BY <1>1, <1>7, <1>8, <1>9 DEF Calm, Ordinary, Alive, endpoints

LEMMA MasterApplyOrdinary ==
  ASSUME ServoInv, AcksFit, Calm, Ordinary, ServoTypes', UNCHANGED controlVars, MasterApply
  PROVE  Calm' /\ Ordinary'
<1> USE DEF ServoInv
<1>1. /\ UNCHANGED <<endpoints, arm, auth, worker, stopping, rosUp, rosFault, master>>
      /\ request \in Wire /\ 0 \in Line /\ On(0) = request /\ Line' = Line
  BY MasterApplyIs DEF MasterApply, controlVars, endpoints
<1>2. \A i \in Line' :
        i \in Nat /\ ((i = 0 /\ On(i)' = NoRequest) \/ (i > 0 /\ On(i)' = On(i)))
  BY MasterApplyIs
<1>3. NextSeq' = NextSeq
  BY <1>1 DEF NextSeq
<1>4. ~StopOnLine => ~StopOnLine'
  BY <1>1, <1>2 DEF StopOnLine, NoRequest
<1>5. StopsPrecede => StopsPrecede'
  BY <1>1, <1>2 DEF StopsPrecede, NoRequest
<1>6. \A i \in Line' : Steers(i)' => i > 0 /\ Steers(i) /\ On(i)' = On(i)
  BY <1>1, <1>2 DEF Steers, NoRequest
<1>7. servo \in ServoType /\ servo.seq \in Nat
  BY DEF ServoTypes, MasterTypes, ServoType
(* No stop comes while a grant is expected, taken or used. *)
<1>8. CASE request.type = "stop" /\ servo' = Disarmed /\ UNCHANGED toControl
  <2>1. StopOnLine
    BY <1>1, <1>8 DEF StopOnLine
  <2>2. Granting' = Granting
    BY <1>1, <1>8, GrantingStays
  <2>3. AwaitsGrant'
    BY <1>1, <1>5, <2>1, <2>2, NotStopped DEF Ordinary, AwaitsGrant
  <2>4. TakesGrant' /\ UsesGrant'
    BY <1>1, <2>1 DEF Ordinary, TakesGrant, UsesGrant
  <2>. QED
    BY <1>1, <1>8, <2>3, <2>4 DEF Calm, Ordinary, Alive, Disarmed, endpoints
(* A grant goes to the one who waits for it. *)
<1>9. CASE /\ request.type = "arm" /\ ~servo.armed /\ servo' = Granted(Control)
           /\ Reply(request, TRUE, servo')
  <2>1. /\ servo' \in ServoType /\ servo'.armed /\ servo'.session = sessions + 1 /\ ~servo'.seen
        /\ servo'.owner = Control
    BY <1>9, GrantedIs DEF Owners, ServoTypes, MasterTypes
  <2>2. PICK a \in Acks :
          /\ a = Ack(request, TRUE, servo')
          /\ \A k \in 1 .. Len(toControl') :
               (k \in 1 .. Len(toControl) /\ toControl'[k] = toControl[k]) \/ toControl'[k] = a
    BY <1>1, <1>9, <2>1, Replies
  <2>3. a.session = servo'.session
    BY <2>2 DEF Ack
  <2>4. \A m \in Granting' : m \in Granting \/ m = a
    BY <1>1, <2>2 DEF Granting, Grants
  <2>5. AwaitsGrant'
    <3>1. SUFFICES ASSUME worker.at = "awaitArm" PROVE StopsPrecede' /\ \A m \in Granting' : Holds(m.session)'
      BY <1>1 DEF AwaitsGrant
    <3>2. StopsPrecede /\ \A m \in Granting : FALSE
      BY <1>9, <3>1 DEF Ordinary, AwaitsGrant, Holds
    <3>. QED
      BY <1>5, <2>1, <2>3, <2>4, <3>2 DEF Holds
  <2>6. TakesGrant' /\ UsesGrant'
    BY <1>1, <1>9 DEF Ordinary, TakesGrant, UsesGrant, Holds
  <2>. QED
    BY <1>1, <2>1, <2>5, <2>6 DEF Calm, Ordinary, Alive, endpoints
(* Axes in order are accepted, once the agent uses the grant. *)
<1>10. CASE /\ request.type = "axes" /\ AxesAllowed(request, Control)
            /\ servo' = [servo EXCEPT !.seen = TRUE, !.seq = request.seq, !.dir = request.dir]
            /\ Reply(request, TRUE, servo')
  <2>1. /\ servo'.armed /\ servo'.owner = servo.owner /\ servo'.session = servo.session
        /\ servo'.seen /\ servo'.seq = request.seq /\ servo.armed /\ servo.session = request.session
    BY <1>7, <1>10 DEF AxesAllowed, ServoType
  <2>2. servo' \in ServoType
    BY DEF ServoTypes, MasterTypes, ServoType
  <2>3. PICK a \in Acks :
          /\ a = Ack(request, TRUE, servo')
          /\ \A k \in 1 .. Len(toControl') :
               (k \in 1 .. Len(toControl) /\ toControl'[k] = toControl[k]) \/ toControl'[k] = a
    BY <1>1, <1>10, <2>2, Replies
  <2>4. a.req = "axes" /\ a.accepted /\ a.armed /\ a.session = servo.session
    BY <1>10, <2>1, <2>3 DEF Ack
  <2>5. Granting' \subseteq Granting
    BY <1>1, <2>3, <2>4 DEF Granting, Grants
  <2>6. request.session \in Nat
    BY <1>1, <1>10, OnTyped
  <2>7. AwaitsGrant'
    <3>1. SUFFICES ASSUME worker.at = "awaitArm" PROVE StopsPrecede' /\ \A m \in Granting : FALSE
      BY <1>1, <2>5 DEF AwaitsGrant
    <3>2. ASSUME NEW m \in Granting PROVE FALSE
      <4>1. request.session < m.session
        BY <1>1, <1>10, <3>1 DEF SessionsFit
      <4>2. m.session = servo.session
        BY <3>1 DEF Ordinary, AwaitsGrant, Holds
      <4>. QED
        BY <2>1, <2>6, <4>1, <4>2
    <3>. QED
      BY <1>5, <3>1, <3>2 DEF Ordinary, AwaitsGrant
  <2>8. TakesGrant'
    <3>1. SUFFICES ASSUME worker.at = "commit" PROVE FALSE
      BY <1>1 DEF TakesGrant
    <3>2. request.session < worker.session /\ worker.session = servo.session
      BY <1>1, <1>10, <3>1 DEF SessionsFit, Ordinary, TakesGrant, Holds
    <3>. QED
      BY <2>1, <2>6, <3>2
  <2>9. UsesGrant'
    <3>1. SUFFICES ASSUME auth.armed PROVE UsesGrant'
      BY <1>1 DEF UsesGrant
    <3>2. ~StopOnLine /\ servo.session = auth.session /\ InOrder
      BY <3>1 DEF Ordinary, UsesGrant
    <3>3. Steers(0)
      BY <1>1, <1>10, <2>1, <3>2 DEF Steers
    <3>4. request.seq < NextSeq /\ \A i \in Line' : Steers(i)' => request.seq < On(i).seq
      BY <1>1, <1>6, <3>2, <3>3 DEF InOrder
    <3>5. InOrder'
      BY <1>1, <1>3, <1>6, <2>1, <2>3, <2>4, <3>2, <3>4 DEF InOrder
    <3>. QED
      BY <1>1, <1>4, <2>1, <3>2, <3>5 DEF UsesGrant
  <2>. QED
    BY <1>1, <2>1, <2>7, <2>8, <2>9 DEF Calm, Ordinary, Alive, endpoints
(* And only what the agent does not use is refused. *)
<1>11. CASE /\ \/ request.type = "arm"
               \/ request.type = "axes" /\ ~AxesAllowed(request, Control)
            /\ Reply(request, FALSE, servo) /\ UNCHANGED servo
  <2>1. PICK a \in Acks :
          /\ a = Ack(request, FALSE, servo)
          /\ \A k \in 1 .. Len(toControl') :
               (k \in 1 .. Len(toControl) /\ toControl'[k] = toControl[k]) \/ toControl'[k] = a
    BY <1>1, <1>7, <1>11, Replies
  <2>2. a.req = request.type /\ a.id = request.id /\ ~a.accepted
    BY <2>1 DEF Ack
  <2>3. Granting' \subseteq Granting
    BY <1>1, <2>1, <2>2 DEF Granting, Grants
  <2>4. AwaitsGrant' /\ TakesGrant'
    BY <1>1, <1>4, <1>5, <1>11, <2>3 DEF Ordinary, AwaitsGrant, TakesGrant, Holds
  <2>5. UsesGrant'
    <3>1. SUFFICES ASSUME auth.armed PROVE UsesGrant'
      BY <1>1 DEF UsesGrant
    <3>2. ~StopOnLine /\ servo.armed /\ servo.session = auth.session /\ InOrder
      BY <3>1 DEF Ordinary, UsesGrant
    <3>3. a.req = "axes" => a.id[1] # auth.session
      <4>1. SUFFICES ASSUME a.req = "axes", a.id[1] = auth.session PROVE FALSE
        OBVIOUS
      <4>2. Steers(0)
        BY <1>1, <2>2, <4>1 DEF AcksFit, Steers
      <4>3. servo.seen => servo.seq < request.seq
        BY <1>1, <3>2, <4>2 DEF InOrder
      <4>4. request.seq \in Nat
        BY <1>1, <2>2, <4>1 DEF Wire
      <4>. QED
        BY <1>1, <1>7, <1>11, <2>2, <3>2, <4>1, <4>2, <4>3, <4>4 DEF AxesAllowed, Steers, Calm
    <3>4. InOrder'
      BY <1>1, <1>3, <1>6, <1>11, <2>1, <3>2, <3>3 DEF InOrder
    <3>. QED
      BY <1>1, <1>4, <1>11, <3>2, <3>4 DEF UsesGrant
  <2>. QED
    BY <1>1, <1>11, <2>4, <2>5 DEF Calm, Ordinary, Alive, endpoints
<1>. QED
  BY <1>8, <1>9, <1>10, <1>11 DEF MasterApply

LEMMA ControlOrdinary ==
  ASSUME ServoInv, AcksFit, Calm, Ordinary, ~fault', UNCHANGED masterVars, ControlStep
  PROVE  Ordinary'
<1>1. CASE WorkerFault \/ WorkerEnding \/ ControlDisconnect \/ ControlStopped
  BY <1>1 DEF WorkerFault, WorkerEnding, ControlDisconnect, ControlStopped, Ordinary, Alive
<1>. QED
  BY <1>1, QuietOrdinary, SendArmOrdinary, AwaitOrdinary, CommitOrdinary, SendAxesOrdinary,
     GivesUpOrdinary, ReceiveOrdinary DEF ControlStep, GrasshopperStep, WorkerStep

LEMMA MasterOrdinary ==
  ASSUME ServoInv, ServoTypes', AcksFit, Calm, Ordinary, UNCHANGED controlVars, MasterStep
  PROVE  Calm' /\ Ordinary'
<1>1. CASE Watchdog \/ MasterDisconnect \/ RosReconnects
  BY <1>1 DEF Watchdog, MasterDisconnect, RosReconnects, Calm, Ordinary, Alive
<1>2. CASE OrphanExpires
  <2>1. ~auth.armed /\ worker.at \notin {"awaitArm", "commit"}
    BY <1>2 DEF OrphanExpires, Ordinary, UsesGrant
  <2>2. /\ UNCHANGED <<endpoints, rosUp, rosFault, master, auth, worker, stopping>>
        /\ servo' = Disarmed
    BY <1>2 DEF OrphanExpires, CommandTimeout, linkVars, endpoints, controlVars
  <2>. QED
    BY <2>1, <2>2 DEF Calm, Ordinary, Alive, AwaitsGrant, TakesGrant, UsesGrant, Disarmed,
       endpoints
<1>. QED
  BY <1>1, <1>2, MasterReceiveOrdinary, MasterApplyOrdinary DEF MasterStep, RequestStep

(* A bridge that is up stays calm, whatever the agent's fault.             *)
LEMMA CalmStays ==
  ASSUME ServoInv, Calm, MasterStep
  PROVE  Calm'
<1>1. CASE MasterReceive
  BY <1>1 DEF MasterReceive, Calm
<1>2. CASE MasterApply
  <2>1. UNCHANGED <<rosUp, rosFault, master>>
    BY <1>2 DEF MasterApply
  <2>2. \/ servo' = Disarmed \/ servo' = servo \/ servo' = Granted(Control)
        \/ /\ servo.armed
           /\ servo' = [servo EXCEPT !.seen = TRUE, !.seq = request.seq, !.dir = request.dir]
    BY <1>2 DEF MasterApply, AxesAllowed
  <2>3. Granted(Control).owner = Control
    BY GrantedIs DEF Owners, ServoInv, ServoTypes, MasterTypes
  <2>4. servo'.armed => servo'.owner = Control
    <3>1. servo \in ServoType
      BY DEF ServoInv, ServoTypes, MasterTypes, ServoType
    <3>2. CASE servo' = Disarmed \/ servo' = servo \/ servo' = Granted(Control)
      BY <2>3, <3>2 DEF Calm, Disarmed
    <3>3. CASE servo.armed /\ servo' = [servo EXCEPT !.seen = TRUE, !.seq = request.seq, !.dir = request.dir]
      BY <3>1, <3>3 DEF Calm, ServoType
    <3>. QED
      BY <2>2, <3>2, <3>3
  <2>. QED
    BY <2>1, <2>4 DEF Calm
<1>3. CASE Watchdog \/ OrphanExpires
  <2>1. UNCHANGED <<rosUp, rosFault, master>> /\ (servo' = servo \/ servo' = Disarmed)
    BY <1>3 DEF Watchdog, OrphanExpires, CommandTimeout, Calm
  <2>. QED
    BY <2>1 DEF Calm, Disarmed
<1>4. CASE MasterDisconnect \/ RosReconnects
  BY <1>4 DEF MasterDisconnect, RosReconnects, masterVars, Calm
<1>. QED
  BY <1>1, <1>2, <1>3, <1>4 DEF MasterStep, RequestStep

LEMMA FaultStays ==
  ASSUME ControlStep, fault
  PROVE  fault'
BY DEF ControlStep, GrasshopperStep, GhApply, GhRequest, WorkerStep, WorkerTop, WorkerCheck,
   WorkerAxes,
   WorkerSendAxes, WorkerArm, WorkerSendArm, WorkerAwaitArm, WorkerCommit, WorkerActive, WorkerRefused,
   WorkerInvalidate, WorkerStopInput, WorkerDisarm, WorkerDisarmed, WorkerReady, WorkerFault,
   WorkerEnding, GiveUp, ControlReceive, ControlDisconnect, ControlStopped, Fault, NoFault

LEMMA QuietKeptUp ==
  ASSUME ServoInv, AcksFit, QuietInv, [Next]_vars
  PROVE  QuietInv'
<1>1. ServoTypes' /\ fault \in BOOLEAN
  BY ServoTyped DEF ServoInv, ServoTypes, ControlTypes, AgentTypes
<1>2. CASE Disturbance
  BY <1>2 DEF Disturbance, QuietInv
<1>3. CASE ControlStep /\ UNCHANGED <<masterVars, envVars>>
  <2>1. Calm' = Calm
    BY <1>3 DEF masterVars, Calm
  <2>2. fault => fault'
    BY <1>1, <1>3, FaultStays
  <2>. QED
    BY <1>3, <2>1, <2>2, ControlOrdinary DEF QuietInv, envVars
<1>4. CASE MasterStep /\ UNCHANGED <<controlVars, envVars>>
  BY <1>1, <1>4, MasterOrdinary, CalmStays DEF QuietInv, envVars, controlVars
<1>5. CASE Restart
  <2>1. Ordinary'
    BY <1>5 DEF Restart, ControlStart, Register, Fresh, NoAuthority, Ordinary, Alive,
       AwaitsGrant,
       TakesGrant, UsesGrant
  <2>. QED
    BY <1>5, <2>1 DEF Restart, masterVars, QuietInv, Calm
<1>6. CASE UNCHANGED vars
  <2>1. disturbances' = disturbances /\ fault' = fault /\ Calm' = Calm
    BY <1>6 DEF vars, envVars, controlVars, masterVars, Calm
  <2>2. ASSUME Ordinary PROVE Ordinary'
    BY <1>6, <2>2, OrdinaryStays DEF vars, linkVars, controlVars, masterVars, Ordinary, Alive,
       NextSeq
  <2>. QED
    BY <2>1, <2>2 DEF QuietInv
<1>. QED
  BY <1>2, <1>3, <1>4, <1>5, <1>6 DEF Next

(* A fault in ordinary use is raised by the watchdog, over a full backlog. *)
LEMMA FaultsAreDue ==
  ASSUME ServoInv, PendingFits, QuietInv, [Next]_vars, ~fault, fault'
  PROVE  disturbances' > 0 \/ Cardinality(pending') = MaxPending
<1>1. CASE Disturbance
  BY <1>1 DEF Disturbance, QuietInv
<1>2. CASE ControlStep /\ UNCHANGED <<masterVars, envVars>>
  <2>1. SUFFICES ASSUME disturbances = 0 PROVE Cardinality(pending') = MaxPending
    BY <1>2 DEF QuietInv, envVars
  <2>2. Ordinary
    BY <2>1 DEF QuietInv
  <2>3. cUp /\ intact /\ auth.armed \in BOOLEAN
    BY <2>2 DEF Ordinary, Alive, ServoInv, ServoTypes, ControlTypes, AgentTypes
  <2>4. AckWatchdog(FALSE) => Cardinality(pending) = MaxPending
    <3>1. Cardinality(pending) \in Nat /\ Cardinality(pending) <= MaxPending
      BY FS_CardinalityType DEF PendingFits
    <3>. QED
      BY <3>1, ControlBounds DEF AckWatchdog
  <2>5. CASE WorkerCheck(FALSE) \/ WorkerAxes(FALSE)
    BY <2>3, <2>4, <2>5 DEF WorkerCheck, WorkerAxes, NoFault
  <2>6. CASE ControlReceive
    <3> DEFINE m == Head(toControl)
    <3>1. m \in Acks /\ m = toControl[1] /\ 1 \in 1 .. Len(toControl)
      BY <2>6, AcksTail DEF ControlReceive, ServoInv, ServoTypes, ControlTypes, LinkTypes
    <3>2. m.req # "arm" /\ AxesAckRejected(m)
      BY <2>6 DEF ControlReceive, NoFault
    <3>3. m.req = "axes" /\ m.id[1] = auth.session /\ auth.armed
      BY <3>1, <3>2 DEF Acks, AxesAckRejected, PendingFits
    <3>4. m.accepted /\ m.armed /\ m.session = auth.session
      BY <2>2, <3>1, <3>3 DEF Ordinary, UsesGrant, InOrder
    <3>. QED
      BY <3>2, <3>3, <3>4 DEF AxesAckRejected
  <2>7. CASE WorkerSendAxes \/ WorkerSendArm \/ ControlDisconnect
    BY <2>3, <2>7 DEF WorkerSendAxes, WorkerSendArm, ControlDisconnect, NoFault
  <2>8. CASE GrasshopperStep \/ WorkerTop \/ WorkerArm \/ WorkerAwaitArm \/ WorkerCommit
             \/ WorkerActive \/ WorkerRefused \/ WorkerInvalidate \/ WorkerStopInput \/ WorkerDisarm
             \/ WorkerDisarmed \/ WorkerReady \/ WorkerFault \/ WorkerEnding \/ ControlStopped
    BY <2>8 DEF GrasshopperStep, GhApply, GhRequest, WorkerTop, WorkerArm, WorkerAwaitArm,
       WorkerCommit, WorkerActive, WorkerRefused, WorkerInvalidate, WorkerStopInput,
       WorkerDisarm,
       WorkerDisarmed, WorkerReady, WorkerFault, WorkerEnding, GiveUp, ControlStopped
  <2>. QED
    BY <1>2, <2>5, <2>6, <2>7, <2>8 DEF ControlStep, WorkerStep
<1>3. CASE (MasterStep /\ UNCHANGED <<controlVars, envVars>>) \/ UNCHANGED vars
  BY <1>3 DEF controlVars, vars
<1>4. CASE Restart
  BY <1>4 DEF Restart, ControlStart, Fresh
<1>. QED
  BY <1>1, <1>2, <1>3, <1>4 DEF Next

(* However stops, arms and late acknowledgements interleave, an agent that *)
(* nothing has disturbed faults only when its backlog is full.             *)
THEOREM NoFaultInOrdinaryUse == Spec => NoSpuriousFault
<1>1. Init => AcksFit /\ PendingFits /\ QuietInv
  <2>1. SUFFICES ASSUME Init PROVE AcksFit /\ PendingFits /\ QuietInv
    OBVIOUS
  <2>2. /\ Len(toMaster) = 0 /\ Len(toControl) = 0 /\ request = NoRequest /\ pending = {}
        /\ intact /\ cUp /\ mUp /\ ~stopping /\ worker.at = "top" /\ ~auth.armed /\ disturbances = 0
        /\ rosUp /\ ~rosFault /\ master = "running" /\ ~servo.armed
    BY <2>1 DEF Init, LinkInit, ControlInit, MasterInit, Fresh, NoAuthority, Disarmed
  <2>3. AcksFit
    BY <2>2 DEF AcksFit, Line, On, NoRequest
  <2>4. PendingFits
    <3>1. IsFiniteSet({}) /\ Cardinality({}) = 0
      BY FS_EmptySet
    <3>. QED
      BY <2>2, <3>1, ControlBounds DEF PendingFits
  <2>5. QuietInv
    BY <2>2 DEF QuietInv, Calm, Ordinary, Alive, AwaitsGrant, TakesGrant, UsesGrant
  <2>. QED
    BY <2>3, <2>4, <2>5
<1>2. ServoInv /\ AcksFit /\ PendingFits /\ QuietInv /\ [Next]_vars
        => (AcksFit /\ PendingFits /\ QuietInv)'
  BY AcksKeep, PendingKeeps, QuietKeptUp
<1>3. ServoInv /\ PendingFits /\ QuietInv /\ [Next]_vars
        => [fault' /\ ~fault => disturbances' > 0 \/ Cardinality(pending') = MaxPending]_vars
  BY FaultsAreDue
<1>. QED
  BY <1>1, <1>2, <1>3, ServoInvariance, PTL DEF Spec, NoSpuriousFault

-----------------------------------------------------------------------------
(* The publishing thread.                                                  *)
PublisherFits ==
  /\ publisher.at \in {"top", "check", "send", "ended"}
  /\ publisher = [at |-> publisher.at, snap |-> publisher.snap, prev |-> publisher.prev]

(* A bridge that is down has cut the robot off; what it cuts stays so      *)
(* until a message is published over it again.                             *)
CutOff == ~rosUp => robot # "move"

(* stop() has waited for the publishing thread: it is between two messages *)
(* or has ended, and takes no snapshot any more.                           *)
ThreadJoined == master = "stopped" => publisher.at \in {"top", "ended"}

StillInv == PublisherFits /\ CutOff /\ ThreadJoined /\ StoppedMeansStill

-----------------------------------------------------------------------------
LEMMA StillInit == PublishingInit => StillInv
BY DEF PublishingInit, MasterInit, StillInv, PublisherFits, CutOff, ThreadJoined,
   StoppedMeansStill

(* The steps of the other threads: the robot and the publisher are not     *)
(* theirs, nor is the end of the master.                                   *)
LEMMA StillOthers ==
  ASSUME StillInv, UNCHANGED <<publisher, robot, master, rosUp>>
  PROVE  StillInv'
BY DEF StillInv, PublisherFits, CutOff, ThreadJoined, StoppedMeansStill

LEMMA StillClient ==
  ASSUME StillInv, ClientSends \/ ClientReads \/ ClientLeaves \/ ClientReturns
  PROVE  StillInv'
BY StillOthers DEF ClientSends, ClientReads, ClientLeaves, ClientReturns, masterVars

LEMMA StillControl ==
  ASSUME StillInv,
         \/ MasterReceive \/ MasterApply \/ CommandTimeout \/ Watchdog \/ MasterDisconnect
  PROVE  StillInv'
BY StillOthers DEF MasterReceive, MasterApply, CommandTimeout, Watchdog, MasterDisconnect,
   masterVars

LEMMA StillSnapshot ==
  ASSUME StillInv, PublisherSnapshot
  PROVE  StillInv'
BY DEF PublisherSnapshot, StillInv, PublisherFits, CutOff, ThreadJoined, StoppedMeansStill

LEMMA StillCheck ==
  ASSUME StillInv, PublisherCheck
  PROVE  StillInv'
BY DEF PublisherCheck, PublisherEnds, StillInv, PublisherFits, CutOff, ThreadJoined,
       StoppedMeansStill

(* A message goes out only over the bridge and before stop() returns.      *)
LEMMA StillSend ==
  ASSUME StillInv, PublisherSend
  PROVE  StillInv'
<1>1. master # "stopped" /\ master' = master /\ rosUp' = rosUp
  BY DEF PublisherSend, StillInv, ThreadJoined
<1>2. /\ publisher'.at = "top"
      /\ PublisherFits'
  BY DEF PublisherSend, PublishTick, Publish, Quiet, StillInv, PublisherFits
<1>3. CutOff'
  BY <1>1 DEF PublisherSend, PublishTick, Publish, Quiet, StillInv, CutOff
<1>. QED
  BY <1>1, <1>2, <1>3 DEF StillInv, ThreadJoined, StoppedMeansStill

LEMMA StillFailure ==
  ASSUME StillInv, PublishFails
  PROVE  StillInv'
BY DEF PublishFails, PublisherEnds, StillInv, PublisherFits, CutOff, ThreadJoined,
       StoppedMeansStill

LEMMA StillBridge ==
  ASSUME StillInv, RosDown \/ RosReconnects
  PROVE  StillInv'
BY DEF RosDown, RosReconnects, StillInv, PublisherFits, CutOff, ThreadJoined, StoppedMeansStill

(* The final zero follows the end of the publishing thread, or the bridge  *)
(* has cut the robot off.                                                  *)
LEMMA StillStop ==
  ASSUME StillInv, MasterStop \/ MasterStopped
  PROVE  StillInv'
BY DEF MasterStop, MasterStopped, StillInv, PublisherFits, CutOff, ThreadJoined,
       StoppedMeansStill

LEMMA StillStep == StillInv /\ [PublishingNext]_publishingVars => StillInv'
<1> SUFFICES ASSUME StillInv, [PublishingNext]_publishingVars PROVE StillInv'
  OBVIOUS
<1>1. CASE UNCHANGED publishingVars
  BY <1>1, StillOthers DEF publishingVars, masterVars
<1>2. CASE PublisherStep
  BY <1>2, StillSnapshot, StillCheck, StillSend DEF PublisherStep
<1>. QED
  BY <1>1, <1>2, StillClient, StillControl, StillFailure, StillBridge,
     StillStop DEF PublishingNext

(* Whatever the client sent, and wherever the threads were when stop() was *)
(* called, no direction reaches the robot after its final zero             *)
(* (MasterAgent.stop, RosDirectionPublisher).                              *)
THEOREM StopIsFinal == PublishingSpec => []StoppedMeansStill
<1>1. StillInv => StoppedMeansStill
  BY DEF StillInv
<1>. QED
  BY StillInit, StillStep, <1>1, PTL DEF PublishingSpec
=============================================================================
