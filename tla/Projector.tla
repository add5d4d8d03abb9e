------------------------------ MODULE Projector -----------------------------
(***************************************************************************)
(* projector_composer.py with ProjectorState and ProjectorControls: one    *)
(* loop that takes the stream's latest measurement and geometry, looks at  *)
(* the measurement files, obeys commands, projects, and reads a key.  The  *)
(* receiving thread of the stream fills the latest values and the queue of *)
(* commands.  Offsets, step and HUD only change how a picture is drawn.    *)
(***************************************************************************)
EXTENDS MeasurementFiles

CONSTANTS
  PerFrame,        \* commands obeyed per frame (20)
  GhTimeout,       \* GH_TIMEOUT is set; 0.0 switches it off
  MaxInputs        \* bound: messages, commands and keys

VARIABLES
  source,    \* ProjectorState
  inbox,     \* latest measurement and geometry of the stream, and if unread
  commands,  \* the queue of commands
  loop,      \* the composer: where it is, paused, running, what it looks at
  shown,     \* the projected picture
  link,      \* the stream: up, or not there (any more)
  adjusted,  \* the operator changed the thickness since a source gave one
  inputs
projector == <<source, inbox, commands, loop, shown, link, adjusted, inputs>>

NoFile == [id |-> 0, whole |-> FALSE]
Stopped == [at |-> "off", paused |-> FALSE, running |-> FALSE, left |-> 0, file |-> NoFile]
EmptySource == [measurement |-> Nothing, geometry |-> Nothing, connected |-> FALSE,
                live |-> FALSE, thickness |-> 0, signature |-> NoFile]

ProjectorInit ==
  /\ source = EmptySource
  /\ inbox = [measurement |-> Nothing, geometry |-> Nothing, unread |-> {}]
  /\ commands = <<>> /\ loop = Stopped /\ shown = Nothing
  /\ link = "down" /\ adjusted = FALSE
  /\ inputs = 0

GhActive == source.connected /\ source.geometry # Nothing
Active == IF GhActive THEN source.geometry ELSE source.measurement

Counted == inputs < MaxInputs /\ inputs' = inputs + 1

Goto(at) == loop' = [loop EXCEPT !.at = at]

(* _update_thickness: data without a thickness leave the one in force.     *)
Update(new, data) ==
  IF data.thickness = {}
  THEN source' = new /\ UNCHANGED adjusted
  ELSE /\ source' = [new EXCEPT !.thickness = CHOOSE t \in data.thickness : TRUE]
       /\ adjusted' = FALSE

-----------------------------------------------------------------------------
Signature(k) == [id |-> runtime[k].id, whole |-> runtime[k].whole]

(* from_runtime: the newest file is read if it can be, and then signed.    *)
ReadInitialFile ==
  /\ loop.at = "off" /\ shown = Nothing /\ ~loop.running
  /\ loop' = [loop EXCEPT !.at = "sign", !.running = TRUE,
                          !.file = IF Newest > 0 /\ runtime[Newest].whole
                                   THEN Signature(Newest) ELSE NoFile]
  /\ IF Newest > 0 /\ runtime[Newest].whole
     THEN Update([source EXCEPT !.measurement = FromFile(Newest)], FromFile(Newest))
     ELSE UNCHANGED <<source, adjusted>>
  /\ UNCHANGED <<runtime, inbox, commands, shown, link, inputs>>

(* Slip: the newest file of now is signed, not the one that was read.      *)
StartStream_SignsNewest(l) ==
  /\ loop.at = "sign"
  /\ source' = [source EXCEPT !.signature = IF Newest > 0 THEN Signature(Newest) ELSE NoFile]
  /\ link' = l
  /\ Goto("stream")
  /\ UNCHANGED <<runtime, inbox, commands, shown, adjusted, inputs>>

(* from_runtime has signed what it then read; _start_stream comes after    *)
(* it, and without a host the projector goes on with files.                *)
StartStream(l) ==
  /\ loop.at = "sign"
  /\ source' = [source EXCEPT !.signature = loop.file]
  /\ link' = l
  /\ Goto("stream")
  /\ UNCHANGED <<runtime, inbox, commands, shown, adjusted, inputs>>

(* update_measurement                                                      *)
NewMeasurement(new, data) ==
  IF GhActive THEN source' = new /\ UNCHANGED adjusted ELSE Update(new, data)

(* _poll_stream, first half.                                               *)
PollMeasurement ==
  /\ loop.at = "stream"
  /\ IF "measurement" \in inbox.unread
     THEN NewMeasurement([source EXCEPT !.measurement = inbox.measurement, !.live = TRUE],
                         inbox.measurement)
     ELSE UNCHANGED <<source, adjusted>>
  /\ inbox' = [inbox EXCEPT !.unread = @ \ {"measurement"}]
  /\ Goto("geometry")
  /\ UNCHANGED <<runtime, commands, shown, link, inputs>>

(* Slip: the flag is cleared and nothing else.                             *)
Disconnect_KeepsThickness ==
  source' = [source EXCEPT !.connected = FALSE] /\ UNCHANGED adjusted

(* set_disconnected: the last measurement is projected again.              *)
Disconnect == Update([source EXCEPT !.connected = FALSE], source.measurement)

(* _poll_stream, second half; a payload with gh_connected false says that  *)
(* Grasshopper goes.                                                       *)
PollGeometry ==
  /\ loop.at = "geometry"
  /\ IF "geometry" \in inbox.unread
     THEN IF inbox.geometry.from = "leaving"
          THEN Disconnect
          ELSE Update([source EXCEPT !.geometry = inbox.geometry, !.connected = TRUE],
                      inbox.geometry)
     ELSE UNCHANGED <<source, adjusted>>
  /\ inbox' = [inbox EXCEPT !.unread = @ \ {"geometry"}]
  /\ Goto("file")
  /\ UNCHANGED <<runtime, commands, shown, link, inputs>>

(* poll_measurement_file, when the interval is over: the newest file's     *)
(* signature, and if it is a new one ...                                   *)
SignFile ==
  /\ loop.at = "file" /\ ~source.live /\ Newest > 0 /\ Signature(Newest) # source.signature
  /\ loop' = [loop EXCEPT !.at = "read", !.file = Signature(Newest)]
  /\ UNCHANGED <<runtime, source, inbox, commands, shown, link, adjusted, inputs>>

(* ... the file; one that is no JSON yet is left for the next time.        *)
ReadFile ==
  /\ loop.at = "read"
  /\ LET k == CHOOSE k \in DOMAIN runtime : runtime[k].id = loop.file.id IN
     IF runtime[k].whole
     THEN NewMeasurement([source EXCEPT !.measurement = FromFile(k), !.signature = loop.file],
                         FromFile(k))
     ELSE UNCHANGED <<source, adjusted>>
  /\ Goto("timeout")
  /\ UNCHANGED <<runtime, inbox, commands, shown, link, inputs>>

SkipFile ==
  /\ loop.at = "file"
  /\ Goto("timeout")
  /\ UNCHANGED <<runtime, source, inbox, commands, shown, link, adjusted, inputs>>

(* _check_gh_timeout, whose clock may or may not be over.                  *)
CheckTimeout ==
  /\ loop.at = "timeout"
  /\ loop' = [loop EXCEPT !.at = "commands", !.left = PerFrame]
  /\ \/ GhTimeout /\ source.connected /\ Disconnect
     \/ UNCHANGED <<source, adjusted>>
  /\ UNCHANGED <<runtime, inbox, commands, shown, link, inputs>>

(* _process_commands.  An answer that cannot be sent is forgotten.         *)
ObeyCommand ==
  /\ loop.at = "commands" /\ loop.left > 0 /\ commands # <<>>
  /\ commands' = Tail(commands)
  /\ LET what == Head(commands)[1]
         value == Head(commands)[2] IN
     /\ loop' = [loop EXCEPT !.left = @ - 1,
                             !.paused = IF what \in {"pause", "resume"} THEN what = "pause" ELSE @,
                             !.running = @ /\ what # "stop"]
     /\ source' = IF what = "set_thickness" THEN [source EXCEPT !.thickness = value] ELSE source
     /\ adjusted' = (adjusted \/ what = "set_thickness")
  /\ UNCHANGED <<runtime, inbox, shown, link, inputs>>

(* The rest waits for the next frame.                                      *)
CommandsObeyed ==
  /\ loop.at = "commands" /\ (loop.left = 0 \/ commands = <<>>)
  /\ IF loop.running THEN Goto("render") /\ UNCHANGED link
                     ELSE loop' = [loop EXCEPT !.at = "ended"] /\ link' = "down"
  /\ UNCHANGED <<runtime, source, inbox, commands, shown, adjusted, inputs>>

Render ==
  /\ loop.at = "render"
  /\ shown' = IF loop.paused THEN shown ELSE Active
  /\ Goto("key")
  /\ UNCHANGED <<runtime, source, inbox, commands, link, adjusted, inputs>>

NoKey ==
  /\ loop.at = "key"
  /\ Goto("stream")
  /\ UNCHANGED <<runtime, source, inbox, commands, shown, link, adjusted, inputs>>

(* handle_key: T, G and 0 set the thickness; Q and ESC end the program.    *)
PressKey(t) ==
  /\ loop.at = "key" /\ Counted
  /\ source' = [source EXCEPT !.thickness = t] /\ adjusted' = TRUE
  /\ Goto("stream")
  /\ UNCHANGED <<runtime, inbox, commands, shown, link>>

PressQuit ==
  /\ loop.at = "key"
  /\ loop' = [loop EXCEPT !.at = "ended", !.running = FALSE] /\ link' = "down"
  /\ UNCHANGED <<runtime, source, inbox, commands, shown, adjusted, inputs>>

-----------------------------------------------------------------------------
(* The receiving thread; and the link, which is not opened a second time.  *)
ReceiveLatest(topic, data) ==
  /\ link = "up" /\ Counted
  /\ inbox' = [inbox EXCEPT ![topic] = data, !.unread = @ \cup {topic}]
  /\ UNCHANGED <<runtime, source, commands, loop, shown, link, adjusted>>

ReceiveCommand(what, value) ==
  /\ link = "up" /\ Counted
  /\ commands' = Append(commands, <<what, value>>)
  /\ UNCHANGED <<runtime, source, inbox, loop, shown, link, adjusted>>

LinkBreaks ==
  /\ link = "up" /\ link' = "down"
  /\ UNCHANGED <<runtime, source, inbox, commands, loop, shown, adjusted, inputs>>

ProjectorStep ==
  \/ \E l \in {"up", "down"} : StartStream(l)
  \/ PollMeasurement \/ PollGeometry \/ SignFile \/ ReadFile \/ SkipFile \/ CheckTimeout
  \/ ObeyCommand \/ CommandsObeyed \/ Render \/ NoKey

ProjectorInput ==
  \/ \E th \in Maybe :
       \/ ReceiveLatest("measurement", Data("live", inputs + 1, th))
       \/ ReceiveLatest("geometry", Data("grasshopper", inputs + 1, th))
  \/ ReceiveLatest("geometry", Data("leaving", 0, {}))
  \/ \E t \in Thicknesses : PressKey(t) \/ ReceiveCommand("set_thickness", t)
  \/ \E what \in {"pause", "resume", "stop"} : ReceiveCommand(what, 0)
  \/ LinkBreaks \/ PressQuit

ProjectorNext == ReadInitialFile \/ ProjectorStep \/ ProjectorInput

-----------------------------------------------------------------------------
(* The thickness that corrects the picture belongs to what is projected,   *)
(* measurement or Grasshopper geometry, whichever came and went in         *)
(* between, unless the operator changed it or the source gave none.        *)
ThicknessFitsSource ==
  ~adjusted /\ Active.thickness # {} => Active.thickness = {source.thickness}
=============================================================================
