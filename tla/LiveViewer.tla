----------------------------- MODULE LiveViewer -----------------------------
(***************************************************************************)
(* projector_live_viewer.py, the projector program without a stream: one   *)
(* loop draws the latest data and reads a key, and a server thread takes   *)
(* lines of JSON from one Grasshopper client at a time.  What they share   *)
(* is behind one lock; a line that is no JSON changes nothing.             *)
(***************************************************************************)
EXTENDS MeasurementFiles

CONSTANTS
  DefaultThickness,  \* TIMBER_THICKNESS_MM
  MaxPackets         \* bound: lines received and thickness keys

VARIABLES
  view,     \* ProjectorState, where the loop is, what a key starts from
  server,   \* the server thread: not there, waiting for a client, reading
  screen,   \* the picture: data, the thickness that corrects it, and whether
            \* the operator has changed that since data gave one
  packets
viewer == <<view, server, screen, packets>>

(* JSON that is no object, and is taken for data all the same.             *)
NotAnObject == Data("no object", 0, {})

Picture(v) == [data |-> v.data, thickness |-> v.thickness, adjusted |-> v.adjusted]

NoView == [at |-> "off", data |-> Nothing, thickness |-> 0, adjusted |-> FALSE,
           connected |-> FALSE, base |-> 0]

ViewerInit ==
  /\ view = NoView /\ server = "down" /\ screen = Picture(NoView)
  /\ packets = 0

(* _initial_state: the newest file is read once, if it can be.             *)
InitialData == IF Newest > 0 /\ runtime[Newest].whole THEN FromFile(Newest) ELSE Nothing

(* ProjectorState.__init__: a thickness of 0 is none.                      *)
InitialThickness(data) ==
  IF data.thickness = {0} THEN DefaultThickness ELSE CHOOSE t \in data.thickness : TRUE

(* The port may be taken; the viewer then goes on without a server.        *)
StartViewer(s) ==
  /\ view.at = "off"
  /\ view' = [view EXCEPT !.at = "frame", !.data = InitialData,
                          !.thickness = InitialThickness(InitialData)]
  /\ server' = s
  /\ UNCHANGED <<runtime, screen, packets>>

-----------------------------------------------------------------------------
(* The server thread.                                                      *)
PacketCounted == packets < MaxPackets /\ packets' = packets + 1

ClientConnects ==
  /\ server = "accept" /\ server' = "read"
  /\ UNCHANGED <<runtime, view, screen, packets>>

(* recv returns nothing or raises.                                         *)
ClientGone ==
  /\ server = "read" /\ server' = "accept"
  /\ view' = [view EXCEPT !.connected = FALSE]
  /\ UNCHANGED <<runtime, screen, packets>>

(* update_from_json, under the lock.                                       *)
UpdateFromJson(data) ==
  IF data.thickness = {}
  THEN [view EXCEPT !.data = data, !.connected = TRUE]
  ELSE [view EXCEPT !.data = data, !.connected = TRUE, !.adjusted = FALSE,
                    !.thickness = CHOOSE t \in data.thickness : TRUE]

ReceiveLine(data) ==
  /\ server = "read" /\ PacketCounted
  /\ view' = UpdateFromJson(data)
  /\ UNCHANGED <<runtime, server, screen>>

(* Looking for a thickness in it raises, or does not if it is a string;    *)
(* the client is then given up, and half a second later another taken.     *)
ReceiveOther ==
  /\ server = "read" /\ PacketCounted
  /\ \/ view' = UpdateFromJson(NotAnObject) /\ UNCHANGED server
     \/ /\ view' = [UpdateFromJson(NotAnObject) EXCEPT !.connected = FALSE]
        /\ server' = "accept"
  /\ UNCHANGED <<runtime, screen>>

-----------------------------------------------------------------------------
(* The loop.  get_snapshot is taken for every picture and for every key,   *)
(* and raises out of the program when the data are no object.              *)
ViewerEnds ==
  /\ view' = [view EXCEPT !.at = "ended"] /\ server' = "down"
  /\ UNCHANGED <<runtime, screen, packets>>

SnapshotRaises == view.at \in {"frame", "key"} /\ view.data = NotAnObject /\ ViewerEnds

(* Nothing received for CONNECTION_TIMEOUT: that is seen in the snapshot,  *)
(* and the flag is reset after it.  The data stay on the table.            *)
DrawFrame ==
  /\ view.at = "frame" /\ view.data # NotAnObject
  /\ screen' = Picture(view)
  /\ \E next \in IF view.connected THEN {"expire", "key"} ELSE {"key"} :
       view' = [view EXCEPT !.at = next]
  /\ UNCHANGED <<runtime, server, packets>>

Expire ==
  /\ view.at = "expire"
  /\ view' = [view EXCEPT !.at = "key", !.connected = FALSE]
  /\ UNCHANGED <<runtime, server, screen, packets>>

(* No key, or one that moves the picture or switches the HUD.              *)
OtherKey ==
  /\ view.at = "key" /\ view.data # NotAnObject
  /\ view' = [view EXCEPT !.at = "frame"]
  /\ UNCHANGED <<runtime, server, screen, packets>>

(* T and G start from the thickness of the snapshot; what Grasshopper      *)
(* sends until it is set is overwritten.                                   *)
ThicknessKey ==
  /\ view.at = "key" /\ view.data # NotAnObject /\ PacketCounted
  /\ view' = [view EXCEPT !.at = "set", !.base = view.thickness]
  /\ UNCHANGED <<runtime, server, screen>>

SetThickness(t) ==
  /\ view.at = "set"
  /\ view' = [view EXCEPT !.at = "frame", !.thickness = t, !.adjusted = TRUE, !.base = 0]
  /\ UNCHANGED <<runtime, server, screen, packets>>

QuitKey == view.at = "key" /\ view.data # NotAnObject /\ ViewerEnds

ViewerStep ==
  \/ SnapshotRaises \/ DrawFrame \/ Expire \/ OtherKey
  \/ \E t \in {0, view.base + 1} \cup (IF view.base > 0 THEN {view.base - 1} ELSE {}) :
       SetThickness(t)

ViewerInput ==
  \/ ClientConnects \/ ClientGone
  \/ \E th \in Maybe : ReceiveLine(Data("grasshopper", packets + 1, th))
  \/ ReceiveOther \/ ThicknessKey \/ QuitKey

ViewerNext == (\E s \in {"accept", "down"} : StartViewer(s)) \/ ViewerStep \/ ViewerInput

-----------------------------------------------------------------------------
(* The picture is corrected by the thickness of the data that are in it,   *)
(* although another thread replaces both while it is drawn, unless the     *)
(* operator changed it or the data gave none; and a file that says zero,   *)
(* which a saved measurement may, is taken to give none.                   *)
PictureFitsData ==
  screen.data.from # "nothing" /\ screen.data.thickness # {} /\ ~screen.adjusted =>
    \/ screen.data.thickness = {screen.thickness}
    \/ screen.data.from = "file" /\ screen.data.thickness = {0} /\ screen.thickness = DefaultThickness
=============================================================================
