--------------------------- MODULE SensingCapture ---------------------------
(***************************************************************************)
(* EWoodXSensingComposer (projects/ewoodx/operations/sensing_composer.py): *)
(* one loop serves typed commands, then commands from the stream, then     *)
(* takes a camera frame.  The first valid frame reserves an entity id,     *)
(* every later one replaces the measurement, and "save" turns the latest   *)
(* into a persistent entity: a directory, a manifest, a row in the index   *)
(* and four artifacts, one write after the other.  Any operation on the    *)
(* disk may raise and the process may die between any two.                 *)
(***************************************************************************)
EXTENDS Naturals, Sequences

CONSTANTS
  Tokens,          \* random parts of entity ids
  Artifacts,       \* <<"image.jpg", "mask.png", "overlay.jpg", "measurements.json">>
  MaxSequence,     \* ENTITY_ID_SEQUENCE_MAX_VALUE
  QueueSize,       \* capacity of the stream's command queue
  MaxShots,        \* bound: camera frames
  MaxCommands,     \* bound: commands given
  MaxStarts        \* bound: times the process is started

ASSUME ArtifactsAssumption == Artifacts \in Seq(STRING) /\ Len(Artifacts) > 0
ASSUME BoundsAssumption ==
  {MaxSequence, QueueSize, MaxShots, MaxCommands, MaxStarts} \subseteq Nat

Ids == (1..MaxSequence) \X Tokens
None == <<>>
Missing == 0    \* in the place of a frame: no such file

VARIABLES
  at,        \* where the loop is; "down" when no process runs
  paused, stopping,
  active,    \* active_entity_id
  phase,     \* capture_state
  latest,    \* frame of latest_valid_result
  frozen,    \* frame of frozen_finalization_result
  created,   \* entity_created_for_active_id
  written,   \* artifacts written in this save
  command,   \* the command being executed, and how it went
  keyboard,  \* the terminal thread still reads
  typed,     \* command_queue
  inbox,     \* commands of the stream endpoint
  link,      \* the stream connection stands
  counter,   \* disk: entity_counters.json
  entity,    \* disk: how far an entity is created
  files,     \* disk: the frame each artifact shows
  live,      \* disk: the frame of the measurement in the runtime directory
  shots, commands, starts,
  answers,   \* history: what the stream commands were answered
  reserved,  \* history: ids reserved
  saved,     \* history: ids whose save succeeded
  lost       \* history: ids whose capture ended without a save

memory == <<paused, stopping, active, phase, latest, frozen, created, written, command>>
queues == <<keyboard, typed, inbox, link>>
disk == <<counter, entity, files, live>>
history == <<answers, reserved, saved, lost>>
vars == <<at, memory, queues, disk, shots, commands, starts, history>>

NoCommand == [by |-> "nobody"]
Init ==
  /\ at = "down" /\ paused = FALSE /\ stopping = FALSE /\ active = None /\ phase = "READY"
  /\ latest = Missing /\ frozen = Missing /\ created = FALSE /\ written = 0
  /\ command = NoCommand /\ keyboard = TRUE /\ typed = <<>> /\ inbox = <<>> /\ link = FALSE
  /\ counter = 0
  /\ entity = [id \in Ids |-> "none"]
  /\ files = [id \in Ids |-> [i \in DOMAIN Artifacts |-> Missing]]
  /\ live = [id \in Ids |-> Missing]
  /\ shots = 0 /\ commands = 0 /\ starts = 0
  /\ answers = [n \in 1..MaxCommands |-> "none"]
  /\ reserved = {} /\ saved = {} /\ lost = {}

-----------------------------------------------------------------------------
(* The process.  What it kept in memory ends with it.                      *)
Start ==
  /\ at = "down" /\ starts < MaxStarts
  /\ starts' = starts + 1
  /\ at' = "typed" /\ link' = TRUE
  /\ UNCHANGED <<memory, keyboard, typed, inbox, disk, shots, commands, history>>

Ends ==
  /\ at' = "down" /\ paused' = FALSE /\ stopping' = FALSE /\ active' = None
  /\ phase' = "READY" /\ latest' = Missing /\ frozen' = Missing /\ created' = FALSE
  /\ written' = 0 /\ command' = NoCommand
  /\ keyboard' = TRUE /\ typed' = <<>> /\ inbox' = <<>> /\ link' = FALSE
  /\ lost' = IF active # None THEN lost \cup {active} ELSE lost
  /\ UNCHANGED <<disk, shots, commands, starts, answers, reserved, saved>>

Crash == at # "down" /\ Ends

LoseLink ==
  /\ link
  /\ link' = FALSE
  /\ UNCHANGED <<at, memory, keyboard, typed, inbox, disk, shots, commands, starts, history>>

-----------------------------------------------------------------------------
(* The terminal thread and the stream's receiver only queue commands; the  *)
(* key P stands for "pause" or "resume" by what the loop has done so far.  *)
Kinds == {"save", "pause", "resume", "stop", "query"}

TypeCommand(kind) ==
  /\ at # "down" /\ keyboard /\ commands < MaxCommands
  /\ kind \in {"save", "stop", IF paused THEN "resume" ELSE "pause"}
  /\ commands' = commands + 1
  /\ typed' = Append(typed, [by |-> "typed", kind |-> kind])
  /\ keyboard' = (kind # "stop")
  /\ UNCHANGED <<at, memory, inbox, link, disk, shots, starts, history>>

ReceiveCommand(kind) ==
  /\ link /\ commands < MaxCommands
  /\ commands' = commands + 1
  /\ IF Len(inbox) < QueueSize
     THEN /\ inbox' = Append(inbox, [by |-> "stream", kind |-> kind, n |-> commands'])
          /\ UNCHANGED answers
     ELSE /\ answers' = [answers EXCEPT ![commands'] = "full"]
          /\ UNCHANGED inbox
  /\ UNCHANGED <<at, memory, keyboard, typed, link, disk, shots, starts, reserved, saved, lost>>

-----------------------------------------------------------------------------
(* _process_commands: all of the local queue, then all of the stream's.    *)
TakeTyped ==
  /\ at = "typed"
  /\ IF typed = <<>>
     THEN at' = "stream" /\ UNCHANGED <<command, typed>>
     ELSE at' = "execute" /\ command' = Head(typed) /\ typed' = Tail(typed)
  /\ UNCHANGED <<paused, stopping, active, phase, latest, frozen, created, written,
                 keyboard, inbox, link, disk, shots, commands, starts, history>>

(* Slip: a paused composer skips the stream's queue.                       *)
TakeStream_NotPaused ==
  /\ at = "stream"
  /\ IF inbox # <<>> /\ ~paused
     THEN at' = "execute" /\ command' = Head(inbox) /\ inbox' = Tail(inbox)
     ELSE /\ ~stopping
          /\ at' = IF paused THEN "typed" ELSE "capture"
          /\ UNCHANGED <<command, inbox>>
  /\ UNCHANGED <<paused, stopping, active, phase, latest, frozen, created, written,
                 keyboard, typed, link, disk, shots, commands, starts, history>>

TakeStream ==
  /\ at = "stream"
  /\ IF inbox # <<>>
     THEN at' = "execute" /\ command' = Head(inbox) /\ inbox' = Tail(inbox)
     ELSE /\ ~stopping
          /\ at' = IF paused THEN "typed" ELSE "capture"
          /\ UNCHANGED <<command, inbox>>
  /\ UNCHANGED <<paused, stopping, active, phase, latest, frozen, created, written,
                 keyboard, typed, link, disk, shots, commands, starts, history>>

Stop == at = "stream" /\ inbox = <<>> /\ stopping /\ Ends

(* _execute_command, but for "save": set_thickness and get_status, which   *)
(* the rest does not depend on, are queries, and the first may be refused. *)
Execute ==
  /\ at = "execute" /\ command.kind # "save"
  /\ at' = "done" \/ (command.kind = "query" /\ at' = "failed")
  /\ paused' = CASE command.kind = "pause" -> TRUE
                 [] command.kind = "resume" -> FALSE
                 [] OTHER -> paused
  /\ stopping' = (stopping \/ command.kind = "stop")
  /\ UNCHANGED <<active, phase, latest, frozen, created, written, command,
                 queues, disk, shots, commands, starts, history>>

(* The result goes to the terminal or to the sender of the command; when   *)
(* the connection is gone, sending raises out of the loop or is lost.      *)
Answer ==
  /\ at \in {"done", "failed"} /\ (command.by = "typed" \/ link)
  /\ at' = command.by /\ command' = NoCommand
  /\ answers' = IF command.by = "typed" THEN answers ELSE [answers EXCEPT ![command.n] = at]
  /\ UNCHANGED <<paused, stopping, active, phase, latest, frozen, created, written,
                 queues, disk, shots, commands, starts, reserved, saved, lost>>

AnswerLost ==
  /\ at \in {"done", "failed"} /\ command.by = "stream" /\ ~link
  /\ at' = "stream" /\ command' = NoCommand
  /\ UNCHANGED <<paused, stopping, active, phase, latest, frozen, created, written,
                 queues, disk, shots, commands, starts, history>>

AnswerRaises ==
  /\ at \in {"done", "failed"} /\ command.by = "stream" /\ ~link
  /\ Ends


-----------------------------------------------------------------------------
(* finalize.  Each of its writes succeeds, or raises.                      *)
Save ==
  /\ at = "execute" /\ command.kind = "save"
  /\ IF active = None \/ latest = Missing
     THEN at' = "failed" /\ UNCHANGED <<phase, frozen, written>>
     ELSE /\ phase' = "FINALIZING" /\ written' = 0
          /\ frozen' = IF frozen = Missing THEN latest ELSE frozen
          /\ at' = IF created THEN "write" ELSE "create"
  /\ UNCHANGED <<paused, stopping, active, latest, created, command,
                 queues, disk, shots, commands, starts, history>>

(* Slip: a save that fails gives its capture up.                           *)
Raise_DropsCapture ==
  /\ at \in {"create", "manifest", "register", "write"}
  /\ at' = "failed"
  /\ active' = None /\ latest' = Missing /\ frozen' = Missing
  /\ created' = FALSE /\ phase' = "READY"
  /\ UNCHANGED <<paused, stopping, written, command,
                 queues, disk, shots, commands, starts, history>>

Raise ==
  /\ at \in {"create", "manifest", "register", "write"}
  /\ at' = "failed"
  /\ UNCHANGED <<memory, queues, disk, shots, commands, starts, history>>

(* create_entity refuses an id that is registered or has a directory.      *)
CreateDirectory ==
  /\ at = "create" /\ entity[active] = "none"
  /\ at' = "manifest"
  /\ entity' = [entity EXCEPT ![active] = "directory"]
  /\ UNCHANGED <<memory, queues, counter, files, live, shots, commands, starts, history>>

WriteManifest ==
  /\ at = "manifest"
  /\ at' = "register"
  /\ entity' = [entity EXCEPT ![active] = "manifest"]
  /\ UNCHANGED <<memory, queues, counter, files, live, shots, commands, starts, history>>

RegisterEntity ==
  /\ at = "register"
  /\ at' = "write"
  /\ entity' = [entity EXCEPT ![active] = "registered"]
  /\ created' = TRUE
  /\ UNCHANGED <<paused, stopping, active, phase, latest, frozen, written, command,
                 queues, counter, files, live, shots, commands, starts, history>>

(* Slip: an artifact whose write raised is skipped.                        *)
WriteArtifact_Skips ==
  /\ at = "write" /\ written < Len(Artifacts)
  /\ written' = written + 1
  /\ files' = [files EXCEPT ![active][written'] = frozen] \/ UNCHANGED files
  /\ UNCHANGED <<at, paused, stopping, active, phase, latest, frozen, created, command,
                 queues, counter, entity, live, shots, commands, starts, history>>

WriteArtifact ==
  /\ at = "write" /\ written < Len(Artifacts)
  /\ written' = written + 1
  /\ files' = [files EXCEPT ![active][written'] = frozen]
  /\ UNCHANGED <<at, paused, stopping, active, phase, latest, frozen, created, command,
                 queues, counter, entity, live, shots, commands, starts, history>>

Saved ==
  /\ at = "write" /\ written = Len(Artifacts)
  /\ at' = "done" /\ saved' = saved \cup {active}
  /\ active' = None /\ latest' = Missing /\ frozen' = Missing
  /\ created' = FALSE /\ phase' = "READY"
  /\ UNCHANGED <<paused, stopping, written, command,
                 queues, disk, shots, commands, starts, answers, reserved, lost>>

-----------------------------------------------------------------------------
(* Slip: frames are accepted while a save is being retried.                *)
Capture_WhileFinalizing ==
  /\ at = "capture"
  /\ \/ at' = "typed" /\ UNCHANGED shots
     \/ /\ shots < MaxShots /\ shots' = shots + 1
        /\ at' = IF active = None THEN "reserve" ELSE "record"
  /\ UNCHANGED <<memory, queues, disk, commands, starts, history>>

(* process_frame: without the reference markers or a timber a frame is no  *)
(* measurement.  It reserves no id and saves nothing.                      *)
ProcessFrame == {"invalid", "measurement"}

(* No frame of the camera, or one that is processed; a capture being saved *)
(* ignores its measurement.                                                *)
Capture ==
  /\ at = "capture"
  /\ \/ at' = "typed" /\ UNCHANGED shots
     \/ /\ shots < MaxShots /\ shots' = shots + 1
        /\ \E result \in ProcessFrame :
             at' = CASE result = "invalid" \/ phase = "FINALIZING" -> "typed"
                     [] active = None -> "reserve"
                     [] OTHER -> "record"
  /\ UNCHANGED <<memory, queues, disk, commands, starts, history>>

(* Slip: the counter is not saved.                                         *)
Reserve_CounterNotSaved(token) ==
  /\ at = "reserve" /\ counter < MaxSequence
  /\ LET id == <<counter + 1, token>> IN
       /\ entity[id] # "registered"
       /\ active' = id /\ reserved' = reserved \cup {id}
  /\ phase' = "ACTIVE" /\ at' = "record"
  /\ UNCHANGED <<paused, stopping, latest, frozen, created, written, command,
                 queues, disk, shots, commands, starts, answers, saved, lost>>

(* allocate: the next number and a random token that make no registered    *)
(* id; the counter is saved before the id is used.                         *)
Reserve(token) ==
  /\ at = "reserve" /\ counter < MaxSequence
  /\ LET id == <<counter + 1, token>> IN
       /\ entity[id] # "registered"
       /\ active' = id /\ reserved' = reserved \cup {id}
  /\ counter' = counter + 1
  /\ phase' = "ACTIVE" /\ at' = "record"
  /\ UNCHANGED <<paused, stopping, latest, frozen, created, written, command,
                 queues, entity, files, live, shots, commands, starts, answers, saved, lost>>

(* The runtime file first, the snapshot in memory after it.                *)
Record ==
  /\ at = "record"
  /\ live' = [live EXCEPT ![active] = shots]
  /\ latest' = shots
  /\ at' = "typed"
  /\ UNCHANGED <<paused, stopping, active, phase, frozen, created, written, command,
                 queues, counter, entity, files, shots, commands, starts, history>>

FrameRaises ==
  /\ at \in {"reserve", "record"}
  /\ at' = "typed"
  /\ UNCHANGED <<memory, queues, disk, shots, commands, starts, history>>

-----------------------------------------------------------------------------
Loop ==
  \/ TakeTyped \/ TakeStream \/ Stop \/ Execute
  \/ Answer \/ AnswerLost \/ AnswerRaises
  \/ Save \/ Raise \/ CreateDirectory \/ WriteManifest \/ RegisterEntity
  \/ WriteArtifact \/ Saved
  \/ Capture \/ (\E token \in Tokens : Reserve(token)) \/ Record \/ FrameRaises

Next ==
  \/ Start \/ Crash \/ LoseLink
  \/ \E kind \in Kinds : TypeCommand(kind) \/ ReceiveCommand(kind)
  \/ Loop

(* The loop keeps running: the camera and the disk answer in the end.      *)
Spec == Init /\ [][Next]_vars /\ WF_vars(Loop)

-----------------------------------------------------------------------------
Places == {"down", "typed", "stream", "execute", "done", "failed", "create", "manifest",
           "register", "write", "capture", "reserve", "record"}
Commands == [by : {"typed"}, kind : Kinds]
       \cup [by : {"stream"}, kind : Kinds, n : 1..MaxCommands]
Shots == 0..MaxShots

TypeOK ==
  /\ at \in Places
  /\ {paused, stopping, created, keyboard, link} \subseteq BOOLEAN
  /\ active \in Ids \cup {None} /\ phase \in {"READY", "ACTIVE", "FINALIZING"}
  /\ {latest, frozen} \subseteq Shots /\ written \in 0..Len(Artifacts)
  /\ command \in Commands \cup {NoCommand}
  /\ typed \in Seq(Commands) /\ inbox \in Seq(Commands) /\ Len(inbox) <= QueueSize
  /\ counter \in 0..MaxSequence
  /\ entity \in [Ids -> {"none", "directory", "manifest", "registered"}]
  /\ files \in [Ids -> [DOMAIN Artifacts -> Shots]] /\ live \in [Ids -> Shots]
  /\ shots \in Shots /\ commands \in 0..MaxCommands /\ starts \in 0..MaxStarts
  /\ answers \in [1..MaxCommands -> {"none", "done", "failed", "full"}]
  /\ {reserved, saved, lost} \subseteq SUBSET Ids

(* The artifacts of an entity all show the frame of its runtime            *)
(* measurement, however many frames come between the tries to save it.     *)
OneFrame ==
  \A id \in Ids : \A i \in DOMAIN Artifacts : files[id][i] \in {Missing, live[id]}

Complete(id) ==
  entity[id] = "registered" /\ \A i \in DOMAIN Artifacts : files[id][i] # Missing

(* A save that succeeded left a registered entity with all its artifacts.  *)
SavedIsComplete == \A id \in saved : Complete(id)

(* A registered entity without all its artifacts is one that a save is     *)
(* still to complete, unless the process ended before it was saved.        *)
IncompleteIsPending ==
  \A id \in Ids : entity[id] = "registered" /\ ~Complete(id) =>
    id \in lost \/ (id = active /\ phase = "FINALIZING" /\ created)

(* An id is reserved by one capture only, through every crash.             *)
ReservedOnce == [][active' # active /\ active' # None => active' \notin reserved]_vars

(* A command in the queue of the stream is answered, also while paused or  *)
(* while a save keeps failing, unless the connection or the process ends.  *)
Waiting(n) == \E i \in DOMAIN inbox : inbox[i].n = n
CommandAnswered ==
  \A n \in 1..MaxCommands :
    Waiting(n) ~> (answers[n] # "none" \/ ~link \/ at = "down")
=============================================================================
