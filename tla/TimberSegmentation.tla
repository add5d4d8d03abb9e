------------------------- MODULE TimberSegmentation -------------------------
(***************************************************************************)
(* timber_segmentation_angetube.py and timber_segmentation_arducam.py (the *)
(* same program for two cameras): a terminal thread queues commands, the   *)
(* main loop captures and measures a frame, shows it and obeys at most one *)
(* command; a save writes an entity and then the projector's copy.         *)
(***************************************************************************)
EXTENDS MeasurementFiles

CONSTANTS
  Refused,     \* a thickness below zero or not below the camera's height
  Configured,  \* TIMBER_THICKNESS_MM
  MaxTyped, MaxStarts   \* bounds: commands typed, starts of the program

ASSUME ConfiguredAssumption == Configured \in Nat

Artifacts == 4   \* image, mask, overlay, measurements.json, in this order
NoFrame == [valid |-> FALSE, thickness |-> Configured]
Off == [at |-> "off", frame |-> NoFrame, thickness |-> Configured, wanted |-> Configured]

VARIABLES
  tool,      \* where the loop is, its frame and thickness; what a save is to have
  typed,     \* command_queue; each with the thickness its operator wants
  wanted,    \* the last thickness typed that is accepted
  entities,  \* what was saved: artifacts written, thickness measured and wanted
  typing,    \* the terminal thread reads on
  count, starts   \* of commands typed, of starts
segmentation == <<tool, typed, wanted, entities, typing, count, starts>>

SegmentationInit ==
  /\ runtime = <<>>
  /\ tool = Off /\ typed = <<>> /\ wanted = Configured
  /\ entities = <<>> /\ typing = FALSE
  /\ count = 0 /\ starts = 0

StartTool ==
  /\ tool.at = "off" /\ starts < MaxStarts
  /\ starts' = starts + 1
  /\ tool' = [Off EXCEPT !.at = "capture"]
  /\ typed' = <<>> /\ wanted' = Configured /\ typing' = TRUE
  /\ UNCHANGED <<runtime, entities, count>>

CanType == tool.at # "off" /\ typing /\ count < MaxTyped /\ count' = count + 1

(* Slip: the terminal thread sets the thickness itself.                    *)
TypeThickness_AtOnce(t) ==
  /\ CanType
  /\ wanted' = IF t \in Thicknesses THEN t ELSE wanted
  /\ tool' = IF t \in Thicknesses THEN [tool EXCEPT !.thickness = t] ELSE tool
  /\ UNCHANGED <<runtime, typed, entities, typing, starts>>

(* The terminal thread queues T with a number, S, and Q before it returns. *)
TypeThickness(t) ==
  /\ CanType
  /\ wanted' = IF t \in Thicknesses THEN t ELSE wanted
  /\ typed' = Append(typed, [what |-> "thickness", thickness |-> t, wanted |-> t])
  /\ UNCHANGED <<runtime, tool, entities, typing, starts>>

TypeSaveOrQuit(what) ==
  /\ CanType
  /\ typed' = Append(typed, [what |-> what, thickness |-> Refused, wanted |-> wanted])
  /\ typing' = (what = "save")
  /\ UNCHANGED <<runtime, tool, wanted, entities, starts>>

(* The homography is computed anew for every frame, from all markers.      *)
Sights == {"no markers", "no timber", "timber"}
MarkersSeen(sight) == sight # "no markers"

(* The thickness in force goes into the measurement, for the parallax.     *)
Measured == tool.thickness

Frame(sight) == [valid |-> MarkersSeen(sight) /\ sight # "no timber", thickness |-> Measured]

CaptureFrame(sight) ==
  /\ tool.at = "capture"
  /\ tool' = [tool EXCEPT !.at = "command", !.frame = Frame(sight)]
  /\ UNCHANGED <<runtime, typed, wanted, entities, typing, count, starts>>

(* At most one command per frame.                                          *)
Obey(command, result) ==
  /\ tool.at = "command" /\ typed # <<>>
  /\ Head(typed).what = command
  /\ typed' = Tail(typed)
  /\ tool' = result
  /\ UNCHANGED <<runtime, wanted, entities, typing, count, starts>>

NextFrame == [tool EXCEPT !.at = "capture", !.frame = NoFrame]

ObeyThickness ==
  Obey("thickness", LET t == Head(typed).thickness IN
                    IF t \in Thicknesses THEN [NextFrame EXCEPT !.thickness = t] ELSE NextFrame)
ObeySave ==
  Obey("save", IF tool.frame.valid
               THEN [tool EXCEPT !.at = "create", !.wanted = Head(typed).wanted]
               ELSE NextFrame)
ObeyQuit == Obey("quit", Off)

NoCommand ==
  /\ tool.at = "command" /\ typed = <<>>
  /\ tool' = NextFrame
  /\ UNCHANGED <<runtime, typed, wanted, entities, typing, count, starts>>

(* _save_outputs: a new id and its entity (EntityStore, SensingCapture),   *)
CreateEntity ==
  /\ tool.at = "create"
  /\ entities' = Append(entities, [artifacts |-> 0, thickness |-> tool.frame.thickness,
                                   wanted |-> tool.wanted])
  /\ tool' = [tool EXCEPT !.at = "artifacts"]
  /\ UNCHANGED <<runtime, typed, wanted, typing, count, starts>>

Saving == Len(entities)

(* Slip: the projector's copy is written before the entity's measurements. *)
WriteArtifact_CopyEarly ==
  /\ tool.at = "artifacts"
  /\ entities' = [entities EXCEPT ![Saving].artifacts = @ + 1]
  /\ tool' = [tool EXCEPT !.at = IF entities[Saving].artifacts + 2 = Artifacts
                                 THEN "open" ELSE "artifacts"]
  /\ UNCHANGED <<runtime, typed, wanted, typing, count, starts>>

(* its artifacts one by one,                                               *)
WriteArtifact ==
  /\ tool.at = "artifacts"
  /\ entities' = [entities EXCEPT ![Saving].artifacts = @ + 1]
  /\ tool' = [tool EXCEPT !.at = IF entities[Saving].artifacts + 1 = Artifacts
                                 THEN "open" ELSE "artifacts"]
  /\ UNCHANGED <<runtime, typed, wanted, typing, count, starts>>

(* and the copy for the projector, with write_text: opened, then filled.   *)
OpenCopy ==
  /\ tool.at = "open"
  /\ runtime' = Append(runtime, [id |-> Saving, whole |-> FALSE,
                                 thickness |-> {entities[Saving].thickness}])
  /\ tool' = [tool EXCEPT !.at = "fill"]
  /\ UNCHANGED <<typed, wanted, entities, typing, count, starts>>

FillCopy ==
  /\ tool.at = "fill"
  /\ runtime' = [runtime EXCEPT ![Newest].whole = TRUE]
  /\ tool' = NextFrame
  /\ UNCHANGED <<typed, wanted, entities, typing, count, starts>>

(* The camera, or a write, raises out of run; or the process is killed.    *)
ToolEnds ==
  /\ tool.at # "off"
  /\ tool' = Off
  /\ UNCHANGED <<runtime, typed, wanted, entities, typing, count, starts>>

ToolStep ==
  \/ \E sight \in Sights : CaptureFrame(sight)
  \/ ObeyThickness \/ ObeySave \/ ObeyQuit \/ NoCommand
  \/ CreateEntity \/ WriteArtifact \/ OpenCopy \/ FillCopy

SegmentationNext ==
  \/ StartTool \/ ToolStep \/ ToolEnds
  \/ \E t \in Thicknesses \cup {Refused} : TypeThickness(t)
  \/ \E what \in {"save", "quit"} : TypeSaveOrQuit(what)

(* A measurement is saved with the thickness its operator had typed before *)
(* the save, and not with one typed after it, however far the loop is      *)
(* behind the terminal.                                                    *)
SavedAsTyped == \A k \in DOMAIN entities : entities[k].thickness = entities[k].wanted
=============================================================================
