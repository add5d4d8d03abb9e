----------------------------- MODULE ServoLink -----------------------------
(***************************************************************************)
(* The registered TCP stream between the servo control agent and the servo *)
(* master (StreamClient, StreamHandler and TCPStreamConnection of          *)
(* framework/communication): two ordered streams, lost as a whole when the *)
(* connection breaks.  Each end notices the break by itself; until then it *)
(* goes on reading what had arrived, and what it writes is lost.           *)
(***************************************************************************)
EXTENDS Naturals, Sequences

VARIABLES
  toMaster,   \* requests of the control agent, in order
  toControl,  \* acknowledgements of the master, in order
  intact,     \* the TCP connection carries data
  cUp,        \* StreamClient.registered at the control agent
  mUp         \* the agent is in StreamHandler.connected_agents at the master

linkVars == <<toMaster, toControl, intact, cUp, mUp>>
endpoints == <<intact, cUp, mUp>>

LinkInit ==
  /\ toMaster = <<>> /\ toControl = <<>>
  /\ intact = TRUE /\ cUp = TRUE /\ mUp = TRUE

(* Writing messages to one of the streams.                                 *)
Sent(stream, messages) == IF intact THEN stream \o messages ELSE stream

(* The network breaks, or a process dies: the acknowledgements and any     *)
(* suffix of the requests are lost.                                        *)
Break ==
  /\ intact' = FALSE
  /\ toControl' = <<>>
  /\ \E n \in 0..Len(toMaster) : toMaster' = SubSeq(toMaster, 1, n)

(* A new instance of the control agent registers; the handler refuses an   *)
(* agent id that is still registered.                                      *)
Register ==
  /\ ~mUp
  /\ intact' = TRUE /\ cUp' = TRUE /\ mUp' = TRUE
  /\ toMaster' = <<>> /\ toControl' = <<>>
=============================================================================
