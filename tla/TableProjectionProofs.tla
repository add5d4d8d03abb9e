------------------------ MODULE TableProjectionProofs -----------------------
(***************************************************************************)
(* Theorems of TableProjection: a measurement is saved with the thickness  *)
(* typed for it, what a projector shows from a file is saved whole, and a  *)
(* picture is corrected by its own thickness, for any thicknesses, number  *)
(* of commands and messages.                                               *)
(***************************************************************************)
EXTENDS TableProjection, TLAPS

-----------------------------------------------------------------------------
(* The thickness in force when the commands of q before place i have been  *)
(* obeyed: that of the last one that sets it, or the one there was.        *)
SetsThickness(c) == c.what = "thickness" /\ c.thickness \in Thicknesses

InForce(q, base, i, t) ==
  /\ \A j \in 1..(i - 1) :
       SetsThickness(q[j]) /\ (\A k \in (j + 1)..(i - 1) : ~SetsThickness(q[k]))
         => t = q[j].thickness
  /\ (\A j \in 1..(i - 1) : ~SetsThickness(q[j])) => t = base

(* A queued save wants, and the last thickness typed is, what will be in   *)
(* force when the loop gets there.                                         *)
QueueFits ==
  tool.at # "off" =>
    /\ \A i \in DOMAIN typed :
         typed[i].what # "thickness" => InForce(typed, tool.thickness, i, typed[i].wanted)
    /\ InForce(typed, tool.thickness, Len(typed) + 1, wanted)

Typed == [what : {"thickness", "save", "quit"}, thickness : Nat \cup {Refused},
          wanted : Nat \cup {Refused}]
Saves == [artifacts : Nat, thickness : Nat, wanted : Nat \cup {Refused}]
Tool == [at : {"off", "capture", "command", "create", "artifacts", "open", "fill"},
         frame : [valid : BOOLEAN, thickness : Nat], thickness : Nat,
         wanted : Nat \cup {Refused}]

ToolTypes ==
  /\ tool \in Tool /\ wanted \in Nat
  /\ typed \in Seq(Typed)
  /\ entities \in Seq(Saves)

(* A frame is measured, and saved, with the thickness in force.            *)
SaveFits ==
  /\ tool.at = "command" => tool.frame.thickness = tool.thickness
  /\ tool.at = "create" => tool.frame.thickness = tool.wanted
  /\ tool.at = "artifacts" => Len(entities) > 0 /\ entities[Len(entities)].artifacts < Artifacts
  /\ tool.at = "open" => Len(entities) > 0 /\ entities[Len(entities)].artifacts = Artifacts

Files == [id : Nat, whole : BOOLEAN, thickness : SUBSET Nat]
IsSaved(id) == id \in DOMAIN entities /\ entities[id].artifacts = Artifacts

(* The projector's copies are of entities that are all there.              *)
CopiesFit ==
  /\ runtime \in Seq(Files)
  /\ tool.at = "fill" => Len(runtime) > 0
  /\ \A k \in DOMAIN runtime : /\ IsSaved(runtime[k].id)
                              /\ \E t \in Nat : runtime[k].thickness = {t}

SegmentationInv == ToolTypes /\ QueueFits /\ SaveFits /\ CopiesFit /\ SavedAsTyped

-----------------------------------------------------------------------------
LEMMA Bounded == Thicknesses \subseteq Nat /\ Configured \in Nat
BY ThicknessesAssumption, ConfiguredAssumption

(* A command joins the queue: nothing changes for the places before it,    *)
(* and the place after it is in force what it sets, or what was.           *)
LEMMA InForceAppend ==
  ASSUME NEW q \in Seq(Typed), NEW c \in Typed, NEW base, NEW t, NEW i \in 1..(Len(q) + 1)
  PROVE  InForce(q, base, i, t) => InForce(Append(q, c), base, i, t)
<1>1. \A j \in 1..(i - 1) : Append(q, c)[j] = q[j]
  OBVIOUS
<1>2. SUFFICES ASSUME InForce(q, base, i, t) PROVE InForce(Append(q, c), base, i, t)
  OBVIOUS
<1>3. ASSUME NEW j \in 1..(i - 1), SetsThickness(Append(q, c)[j]),
             \A k \in (j + 1)..(i - 1) : ~SetsThickness(Append(q, c)[k])
      PROVE  t = Append(q, c)[j].thickness
  BY <1>1, <1>2, <1>3 DEF InForce
<1>4. ASSUME \A j \in 1..(i - 1) : ~SetsThickness(Append(q, c)[j])
      PROVE  t = base
  BY <1>1, <1>2, <1>4 DEF InForce
<1>. QED
  BY <1>3, <1>4 DEF InForce

LEMMA InForceAfter ==
  ASSUME NEW q \in Seq(Typed), NEW c \in Typed, NEW base, NEW t, NEW u,
         InForce(q, base, Len(q) + 1, t),
         u = IF SetsThickness(c) THEN c.thickness ELSE t
  PROVE  InForce(Append(q, c), base, Len(q) + 2, u)
<1> DEFINE r == Append(q, c)
<1>1. \A j \in 1..Len(q) : r[j] = q[j]
  OBVIOUS
<1>2. r[Len(q) + 1] = c /\ Len(q) + 2 - 1 = Len(q) + 1 /\ Len(q) + 1 - 1 = Len(q) /\ Len(q) \in Nat
  OBVIOUS
<1> HIDE DEF r
<1>3. ASSUME NEW j \in 1..(Len(q) + 1), SetsThickness(r[j]),
             \A k \in (j + 1)..(Len(q) + 1) : ~SetsThickness(r[k])
      PROVE  u = r[j].thickness
  <2>1. CASE j = Len(q) + 1
    BY <1>2, <1>3, <2>1
  <2>2. CASE j # Len(q) + 1
    <3>1. ~SetsThickness(c) /\ j \in 1..Len(q) /\ r[j] = q[j]
      BY <1>1, <1>2, <1>3, <2>2
    <3>2. \A k \in (j + 1)..Len(q) : ~SetsThickness(q[k])
      BY <1>1, <1>2, <1>3
    <3>. QED
      BY <1>2, <1>3, <3>1, <3>2 DEF InForce
  <2>. QED
    BY <2>1, <2>2
<1>4. ASSUME \A j \in 1..(Len(q) + 1) : ~SetsThickness(r[j])
      PROVE  u = base
  <2>1. ~SetsThickness(c)
    BY <1>2, <1>4
  <2>2. \A j \in 1..Len(q) : ~SetsThickness(q[j])
    BY <1>1, <1>2, <1>4
  <2>. QED
    BY <1>2, <2>1, <2>2 DEF InForce
<1>5. InForce(r, base, Len(q) + 2, u)
  BY <1>2, <1>3, <1>4 DEF InForce
<1>. QED
  BY <1>5 DEF r

(* The first command of the queue is obeyed.                               *)
LEMMA InForceTail ==
  ASSUME NEW q \in Seq(Typed), q # <<>>, NEW base, NEW next, NEW t, NEW i \in 1..Len(q),
         InForce(q, base, i + 1, t),
         next = IF SetsThickness(Head(q)) THEN Head(q).thickness ELSE base
  PROVE  InForce(Tail(q), next, i, t)
<1> DEFINE r == Tail(q)
<1>1. \A j \in 1..(i - 1) : r[j] = q[j + 1] /\ j + 1 \in 1..i
  OBVIOUS
<1>2. Head(q) = q[1] /\ i + 1 - 1 = i /\ 1 \in 1..i /\ i \in Nat
  OBVIOUS
<1> HIDE DEF r
<1>3. ASSUME NEW j \in 1..(i - 1), SetsThickness(r[j]),
             \A k \in (j + 1)..(i - 1) : ~SetsThickness(r[k])
      PROVE  t = r[j].thickness
  <2>1. \A k \in (j + 1 + 1)..i : ~SetsThickness(q[k])
    <3>1. SUFFICES ASSUME NEW k \in (j + 1 + 1)..i PROVE ~SetsThickness(q[k])
      OBVIOUS
    <3>2. k - 1 \in (j + 1)..(i - 1) /\ k - 1 \in 1..(i - 1) /\ (k - 1) + 1 = k
      BY <1>2
    <3>. QED
      BY <1>1, <1>3, <3>2
  <2>. QED
    BY <1>1, <1>2, <1>3, <2>1 DEF InForce
<1>4. ASSUME \A j \in 1..(i - 1) : ~SetsThickness(r[j])
      PROVE  t = next
  <2>1. \A k \in (1 + 1)..i : ~SetsThickness(q[k])
    <3>1. SUFFICES ASSUME NEW k \in (1 + 1)..i PROVE ~SetsThickness(q[k])
      OBVIOUS
    <3>2. k - 1 \in 1..(i - 1) /\ (k - 1) + 1 = k
      BY <1>2
    <3>. QED
      BY <1>1, <1>4, <3>2
  <2>2. CASE SetsThickness(q[1])
    BY <1>2, <2>1, <2>2 DEF InForce
  <2>3. CASE ~SetsThickness(q[1])
    <3>1. \A k \in 1..i : ~SetsThickness(q[k])
      BY <1>2, <2>1, <2>3
    <3>. QED
      BY <1>2, <2>3, <3>1 DEF InForce
  <2>. QED
    BY <2>2, <2>3
<1>5. InForce(r, next, i, t)
  BY <1>3, <1>4 DEF InForce
<1>. QED
  BY <1>5 DEF r

-----------------------------------------------------------------------------
LEMMA SegmentationStarts == SegmentationInit => SegmentationInv
<1> SUFFICES ASSUME SegmentationInit PROVE SegmentationInv
  OBVIOUS
<1>1. ToolTypes /\ SaveFits
  BY Bounded DEF SegmentationInit, Off, NoFrame, ToolTypes, Tool, SaveFits
<1>2. QueueFits /\ CopiesFit /\ SavedAsTyped
  BY DEF SegmentationInit, Off, QueueFits, CopiesFit, SavedAsTyped
<1>. QED
  BY <1>1, <1>2 DEF SegmentationInv

LEMMA StartToolKeeps ==
  ASSUME SegmentationInv, StartTool
  PROVE  SegmentationInv'
<1>1. /\ tool' = [at |-> "capture", frame |-> NoFrame, thickness |-> Configured, wanted |-> Configured]
      /\ typed' = <<>> /\ wanted' = Configured /\ runtime' = runtime /\ entities' = entities
  BY DEF StartTool, Off
<1>2. ToolTypes' /\ SaveFits'
  BY <1>1, Bounded DEF SegmentationInv, ToolTypes, Tool, SaveFits, NoFrame
<1>3. QueueFits'
  BY <1>1 DEF QueueFits, InForce
<1>4. CopiesFit' /\ SavedAsTyped'
  BY <1>1 DEF SegmentationInv, CopiesFit, IsSaved, SavedAsTyped
<1>. QED
  BY <1>2, <1>3, <1>4 DEF SegmentationInv

(* What the terminal thread queues wants what is in force at its place.    *)
LEMMA TypedKeeps ==
  ASSUME SegmentationInv, NEW c \in Typed, tool.at # "off",
         typed' = Append(typed, c), UNCHANGED <<runtime, tool, entities>>, wanted' \in Nat,
         wanted' = IF SetsThickness(c) THEN c.thickness ELSE wanted,
         c.what # "thickness" => c.wanted = wanted
  PROVE  SegmentationInv'
<1>1. typed \in Seq(Typed) /\ Len(typed) \in Nat
  BY DEF SegmentationInv, ToolTypes
<1>2. /\ \A i \in DOMAIN typed :
           typed[i].what # "thickness" => InForce(typed, tool.thickness, i, typed[i].wanted)
      /\ InForce(typed, tool.thickness, Len(typed) + 1, wanted)
  BY DEF SegmentationInv, QueueFits
<1>3. /\ typed' \in Seq(Typed) /\ Len(typed') = Len(typed) + 1
      /\ DOMAIN typed' = 1..(Len(typed) + 1) /\ DOMAIN typed = 1..Len(typed)
      /\ typed'[Len(typed) + 1] = c /\ \A i \in DOMAIN typed : typed'[i] = typed[i]
  BY <1>1
<1>4. ASSUME NEW i \in DOMAIN typed', typed'[i].what # "thickness"
      PROVE  InForce(typed', tool.thickness, i, typed'[i].wanted)
  <2>1. i \in 1..(Len(typed) + 1)
    BY <1>3
  <2>2. CASE i \in DOMAIN typed
    <3>1. InForce(typed, tool.thickness, i, typed[i].wanted)
      BY <1>2, <1>3, <1>4, <2>2
    <3>. QED
      BY <1>1, <1>3, <2>1, <2>2, <3>1, InForceAppend
  <2>3. CASE i = Len(typed) + 1
    <3>1. InForce(typed, tool.thickness, i, typed'[i].wanted)
      BY <1>2, <1>3, <1>4, <2>3
    <3>. QED
      BY <1>1, <2>1, <3>1, InForceAppend
  <2>. QED
    BY <1>3, <2>1, <2>2, <2>3
<1>5. InForce(typed', tool.thickness, Len(typed') + 1, wanted')
  <2>1. InForce(Append(typed, c), tool.thickness, Len(typed) + 2, wanted')
    BY <1>1, <1>2, InForceAfter
  <2>2. Len(typed') + 1 = Len(typed) + 2
    BY <1>1, <1>3
  <2>. QED
    BY <2>1, <2>2
<1>6. QueueFits'
  BY <1>4, <1>5 DEF QueueFits
<1>7. ToolTypes' /\ SaveFits' /\ CopiesFit' /\ SavedAsTyped'
  BY <1>3 DEF SegmentationInv, ToolTypes, SaveFits, CopiesFit, IsSaved, SavedAsTyped
<1>. QED
  BY <1>6, <1>7 DEF SegmentationInv

LEMMA TerminalKeeps ==
  ASSUME SegmentationInv,
         \/ \E t \in Thicknesses \cup {Refused} : TypeThickness(t)
         \/ \E what \in {"save", "quit"} : TypeSaveOrQuit(what)
  PROVE  SegmentationInv'
<1>1. ASSUME NEW t \in Thicknesses \cup {Refused}, TypeThickness(t)
      PROVE  SegmentationInv'
  <2> DEFINE c == [what |-> "thickness", thickness |-> t, wanted |-> t]
  <2>1. c \in Typed /\ c.what = "thickness" /\ (SetsThickness(c) <=> t \in Thicknesses)
    BY Bounded DEF Typed, SetsThickness
  <2>2. wanted \in Nat /\ Thicknesses \subseteq Nat
    BY Bounded DEF SegmentationInv, ToolTypes
  <2>3. tool.at # "off" /\ typed' = Append(typed, c) /\ UNCHANGED <<runtime, tool, entities>>
        /\ wanted' = IF t \in Thicknesses THEN c.thickness ELSE wanted
    BY <1>1 DEF TypeThickness, CanType
  <2>4. wanted' = IF SetsThickness(c) THEN c.thickness ELSE wanted
    BY <2>1, <2>3
  <2>5. wanted' \in Nat
    BY <2>2, <2>3
  <2>. QED
    BY <2>1, <2>3, <2>4, <2>5, TypedKeeps
<1>2. ASSUME NEW what \in {"save", "quit"}, TypeSaveOrQuit(what)
      PROVE  SegmentationInv'
  <2> DEFINE c == [what |-> what, thickness |-> Refused, wanted |-> wanted]
  <2>1. wanted \in Nat
    BY DEF SegmentationInv, ToolTypes
  <2>2. c \in Typed /\ ~SetsThickness(c) /\ c.wanted = wanted
    BY <2>1 DEF Typed, SetsThickness
  <2>3. tool.at # "off" /\ typed' = Append(typed, c) /\ UNCHANGED <<runtime, tool, wanted,
                                                                    entities>>
    BY <1>2 DEF TypeSaveOrQuit, CanType
  <2>. QED
    BY <2>1, <2>2, <2>3, TypedKeeps
<1>. QED
  BY <1>1, <1>2

-----------------------------------------------------------------------------
(* The queue is the thread's: a step of the loop that takes nothing from   *)
(* it, and leaves the thickness, leaves it fitting.                        *)
LEMMA QueueUntouched ==
  ASSUME QueueFits, UNCHANGED <<typed, wanted>>, tool.at # "off",
                                tool'.thickness = tool.thickness
  PROVE  QueueFits'
BY DEF QueueFits

LEMMA CaptureKeeps ==
  ASSUME SegmentationInv, (\E sight \in Sights : CaptureFrame(sight)) \/ NoCommand
  PROVE  SegmentationInv'
<1>1. /\ tool.at \in {"capture", "command"} /\ tool'.thickness = tool.thickness
      /\ tool' \in Tool
      /\ \/ tool'.at = "capture"
         \/ tool'.at = "command" /\ tool'.frame.thickness = tool.thickness
      /\ UNCHANGED <<runtime, typed, wanted, entities>>
  <2>1. CASE NoCommand
    BY <2>1, Bounded DEF SegmentationInv, ToolTypes, Tool, NoCommand, NextFrame, NoFrame
  <2>2. CASE \E sight \in Sights : CaptureFrame(sight)
    <3>1. PICK sight \in Sights : CaptureFrame(sight)
      BY <2>2
    <3>2. /\ Frame(sight) = [valid |-> MarkersSeen(sight) /\ sight # "no timber",
                             thickness |-> tool.thickness]
          /\ Frame(sight) \in [valid : BOOLEAN, thickness : Nat]
          /\ Frame(sight).thickness = tool.thickness
      BY DEF Frame, Measured, MarkersSeen, SegmentationInv, ToolTypes, Tool
    <3>. QED
      BY <3>1, <3>2 DEF SegmentationInv, ToolTypes, Tool, CaptureFrame
  <2>. QED
    BY <2>1, <2>2
<1>2. ToolTypes' /\ SaveFits'
  BY <1>1 DEF SegmentationInv, ToolTypes, Tool, SaveFits
<1>3. QueueFits'
  BY <1>1, QueueUntouched DEF SegmentationInv
<1>4. CopiesFit' /\ SavedAsTyped'
  BY <1>1 DEF SegmentationInv, CopiesFit, IsSaved, SavedAsTyped
<1>. QED
  BY <1>2, <1>3, <1>4 DEF SegmentationInv

(* The command obeyed is the first of the queue; the places move up.       *)
LEMMA ObeyKeeps ==
  ASSUME SegmentationInv, ObeyThickness \/ ObeySave \/ ObeyQuit
  PROVE  SegmentationInv'
<1> DEFINE c == Head(typed)
<1>1. /\ tool.at = "command" /\ typed # <<>> /\ typed' = Tail(typed)
      /\ UNCHANGED <<runtime, wanted, entities>>
      /\ c \in Typed /\ c = typed[1] /\ 1 \in DOMAIN typed
      /\ typed \in Seq(Typed) /\ typed' \in Seq(Typed) /\ Len(typed) \in Nat \ {0}
      /\ Len(typed') = Len(typed) - 1 /\ DOMAIN typed' = 1..(Len(typed) - 1)
      /\ \A i \in DOMAIN typed' : typed'[i] = typed[i + 1] /\ i + 1 \in DOMAIN typed
                                  /\ i \in 1..Len(typed)
  <2>1. /\ tool.at = "command" /\ typed # <<>> /\ typed' = Tail(typed)
        /\ UNCHANGED <<runtime, wanted, entities>>
    BY DEF ObeyThickness, ObeySave, ObeyQuit, Obey
  <2>2. typed \in Seq(Typed)
    BY DEF SegmentationInv, ToolTypes
  <2>. QED
    BY <2>1, <2>2
<1>2. \/ tool' = Off
      \/ /\ c.what = "thickness" \/ c.what = "save"
         /\ tool' \in Tool /\ tool'.at = "capture"
         /\ tool'.thickness = IF SetsThickness(c) THEN c.thickness ELSE tool.thickness
      \/ /\ c.what = "save" /\ ~SetsThickness(c)
         /\ tool' \in Tool /\ tool'.at = "create" /\ tool'.frame = tool.frame
         /\ tool'.thickness = tool.thickness /\ tool'.wanted = c.wanted
  <2>1. /\ NextFrame \in Tool /\ NextFrame.at = "capture" /\ NextFrame.thickness = tool.thickness
        /\ \A t \in Nat : /\ [NextFrame EXCEPT !.thickness = t] \in Tool
                          /\ [NextFrame EXCEPT !.thickness = t].at = "capture"
                          /\ [NextFrame EXCEPT !.thickness = t].thickness = t
    BY Bounded DEF NextFrame, NoFrame, SegmentationInv, ToolTypes, Tool
  <2>2. CASE ObeyThickness
    <3>1. c.what = "thickness" /\ (SetsThickness(c) <=> c.thickness \in Thicknesses)
          /\ tool' = IF c.thickness \in Thicknesses THEN [NextFrame EXCEPT !.thickness = c.thickness]
                                                   ELSE NextFrame
      BY <2>2 DEF ObeyThickness, Obey, SetsThickness
    <3>. QED
      BY <2>1, <3>1, Bounded
  <2>3. CASE ObeySave
    <3>1. c.what = "save" /\ ~SetsThickness(c) /\ c.wanted \in Nat \cup {Refused}
      BY <1>1, <2>3 DEF ObeySave, Obey, SetsThickness, Typed
    <3>2. tool' = IF tool.frame.valid THEN [tool EXCEPT !.at = "create", !.wanted = c.wanted]
                                      ELSE NextFrame
      BY <2>3 DEF ObeySave, Obey
    <3>3. LET to == [tool EXCEPT !.at = "create", !.wanted = c.wanted] IN
          /\ to \in Tool /\ to.at = "create" /\ to.frame = tool.frame
          /\ to.thickness = tool.thickness /\ to.wanted = c.wanted
      BY <3>1 DEF SegmentationInv, ToolTypes, Tool
    <3>. QED
      BY <2>1, <3>1, <3>2, <3>3
  <2>4. CASE ObeyQuit
    BY <2>4 DEF ObeyQuit, Obey
  <2>. QED
    BY <2>2, <2>3, <2>4
<1>3. c.what # "thickness" => c.wanted = tool.thickness
  <2>1. SUFFICES ASSUME c.what # "thickness" PROVE c.wanted = tool.thickness
    OBVIOUS
  <2>2. InForce(typed, tool.thickness, 1, c.wanted)
    BY <1>1, <2>1 DEF SegmentationInv, QueueFits
  <2>. QED
    BY <2>2 DEF InForce
<1>4. ToolTypes' /\ SaveFits'
  <2>1. c.thickness \in Nat \cup {Refused} /\ c.wanted \in Nat \cup {Refused}
        /\ (SetsThickness(c) => c.thickness \in Nat)
    BY <1>1, Bounded DEF Typed, SetsThickness
  <2>. QED
    <3>0. Off \in Tool /\ Off.at = "off"
      BY Bounded DEF Off, NoFrame, Tool
    <3>1. tool' \in Tool /\ tool'.at \notin {"command", "artifacts", "open"}
      BY <1>2, <3>0
    <3>2. tool'.at = "create" => tool'.frame.thickness = tool'.wanted
      BY <1>1, <1>2, <1>3 DEF SegmentationInv, SaveFits, Off
    <3>. QED
      BY <1>1, <3>1, <3>2 DEF SegmentationInv, ToolTypes, SaveFits
<1>5. QueueFits'
  <2>1. CASE tool' = Off
    BY <2>1 DEF QueueFits, Off
  <2>2. CASE tool' # Off
    <3>1. tool'.thickness = IF SetsThickness(c) THEN c.thickness ELSE tool.thickness
      BY <1>2, <2>2 DEF SetsThickness
    <3>2. ASSUME NEW i \in DOMAIN typed', typed'[i].what # "thickness"
          PROVE  InForce(typed', tool'.thickness, i, typed'[i].wanted)
      <4>1. InForce(typed, tool.thickness, i + 1, typed'[i].wanted)
        BY <1>1, <3>2 DEF SegmentationInv, QueueFits
      <4>. QED
        BY <1>1, <3>1, <4>1, InForceTail
    <3>3. InForce(typed', tool'.thickness, Len(typed') + 1, wanted')
      <4>1. InForce(typed, tool.thickness, Len(typed) + 1, wanted)
        BY <1>1 DEF SegmentationInv, QueueFits
      <4>2. Len(typed) \in 1..Len(typed) /\ Len(typed') + 1 = Len(typed)
        BY <1>1
      <4>3. InForce(Tail(typed), tool'.thickness, Len(typed), wanted)
        BY <1>1, <3>1, <4>1, <4>2, InForceTail
      <4>. QED
        BY <1>1, <4>2, <4>3
    <3>. QED
      BY <3>2, <3>3 DEF QueueFits
  <2>. QED
    BY <2>1, <2>2
<1>6. CopiesFit' /\ SavedAsTyped'
  BY <1>1, <1>2 DEF SegmentationInv, CopiesFit, IsSaved, SavedAsTyped, Off
<1>. QED
  BY <1>4, <1>5, <1>6 DEF SegmentationInv

-----------------------------------------------------------------------------
(* What is saved stays saved, and the projector's copies stay.             *)
SavedStays ==
  /\ \A id : IsSaved(id) => id \in DOMAIN entities' /\ entities'[id].artifacts = Artifacts
  /\ \A k \in DOMAIN runtime : k \in DOMAIN runtime' /\ runtime'[k].id = runtime[k].id

LEMMA CreateEntityKeeps ==
  ASSUME SegmentationInv, CreateEntity
  PROVE  SegmentationInv' /\ SavedStays
<1> DEFINE new == [artifacts |-> 0, thickness |-> tool.frame.thickness, wanted |-> tool.wanted]
<1>1. /\ entities \in Seq(Saves) /\ tool \in Tool /\ tool.at = "create"
      /\ new \in Saves /\ new.artifacts = 0 /\ new.thickness = new.wanted
  BY DEF CreateEntity, SegmentationInv, ToolTypes, Tool, Saves, SaveFits
<1>2. /\ entities' = Append(entities, new) /\ tool' = [tool EXCEPT !.at = "artifacts"]
      /\ UNCHANGED <<runtime, typed, wanted>>
  BY DEF CreateEntity
<1>3. tool' \in Tool /\ tool'.at = "artifacts" /\ tool'.thickness = tool.thickness
  BY <1>1, <1>2 DEF Tool
<1> HIDE DEF new
<1>4. /\ entities' \in Seq(Saves) /\ Len(entities') = Len(entities) + 1 /\ Len(entities) \in Nat
      /\ entities'[Len(entities) + 1] = new
      /\ DOMAIN entities = 1..Len(entities) /\ DOMAIN entities' = 1..(Len(entities) + 1)
      /\ \A k \in DOMAIN entities : entities'[k] = entities[k]
  BY <1>1, <1>2
<1>5. SavedStays
  BY <1>2, <1>4 DEF SavedStays, IsSaved
<1>6. ToolTypes' /\ SaveFits'
  BY <1>1, <1>2, <1>3, <1>4 DEF SegmentationInv, ToolTypes, SaveFits, Artifacts
<1>7. QueueFits'
  BY <1>1, <1>2, <1>3, QueueUntouched DEF SegmentationInv
<1>8. CopiesFit'
  BY <1>2, <1>3, <1>5 DEF SegmentationInv, CopiesFit, SavedStays, IsSaved
<1>9. SavedAsTyped'
  BY <1>1, <1>4 DEF SegmentationInv, SavedAsTyped
<1>. QED
  BY <1>5, <1>6, <1>7, <1>8, <1>9 DEF SegmentationInv

LEMMA WriteArtifactKeeps ==
  ASSUME SegmentationInv, WriteArtifact
  PROVE  SegmentationInv' /\ SavedStays
<1> DEFINE n == Len(entities)
<1>1. /\ entities \in Seq(Saves) /\ tool \in Tool /\ tool.at = "artifacts"
      /\ n \in DOMAIN entities /\ entities[n].artifacts < Artifacts /\ entities[n].artifacts \in Nat
      /\ entities[n] \in Saves
  <2>1. /\ entities \in Seq(Saves) /\ tool \in Tool /\ tool.at = "artifacts"
        /\ n > 0 /\ entities[n].artifacts < Artifacts
    BY DEF WriteArtifact, SegmentationInv, ToolTypes, SaveFits
  <2>2. n \in DOMAIN entities /\ entities[n] \in Saves
    BY <2>1
  <2>3. entities[n].artifacts \in Nat
    BY <2>2 DEF Saves
  <2>. QED
    BY <2>1, <2>2, <2>3
<1>2. /\ entities' = [entities EXCEPT ![n].artifacts = entities[n].artifacts + 1]
      /\ tool' = [tool EXCEPT !.at = IF entities[n].artifacts + 1 = Artifacts THEN "open"
                                                                            ELSE "artifacts"]
      /\ UNCHANGED <<runtime, typed, wanted>>
  BY DEF WriteArtifact, Saving
<1>3. /\ tool' \in Tool /\ tool'.thickness = tool.thickness
      /\ tool'.at = IF entities[n].artifacts + 1 = Artifacts THEN "open" ELSE "artifacts"
  BY <1>1, <1>2 DEF Tool
<1>4. /\ entities' \in Seq(Saves) /\ Len(entities') = n /\ DOMAIN entities' = DOMAIN entities
      /\ entities'[n].artifacts = entities[n].artifacts + 1
      /\ entities'[n].thickness = entities[n].thickness /\ entities'[n].wanted = entities[n].wanted
      /\ \A k \in DOMAIN entities : k # n => entities'[k] = entities[k]
  <2> DEFINE more == [entities[n] EXCEPT !.artifacts = entities[n].artifacts + 1]
  <2>1. /\ more \in Saves /\ more.artifacts = entities[n].artifacts + 1
        /\ more.thickness = entities[n].thickness /\ more.wanted = entities[n].wanted
    <3>1. entities[n].artifacts + 1 \in Nat /\ entities[n] \in Saves
      BY <1>1
    <3>. QED
      BY <3>1 DEF Saves
  <2>2. entities' = [entities EXCEPT ![n] = more]
    BY <1>2
  <2> HIDE DEF more
  <2>. QED
    BY <1>1, <2>1, <2>2
<1>5. SavedStays
  BY <1>1, <1>2, <1>4 DEF SavedStays, IsSaved
<1>6. ToolTypes' /\ SaveFits'
  <2>1. tool'.at = "artifacts" => entities'[n].artifacts < Artifacts
    BY <1>1, <1>3, <1>4 DEF Artifacts
  <2>2. tool'.at = "open" => entities'[n].artifacts = Artifacts
    BY <1>1, <1>3, <1>4
  <2>3. Len(entities') > 0 /\ tool'.at \in {"open", "artifacts"}
    BY <1>1, <1>3, <1>4
  <2>. QED
    BY <1>2, <1>3, <1>4, <2>1, <2>2, <2>3 DEF SegmentationInv, ToolTypes, SaveFits
<1>7. QueueFits'
  BY <1>1, <1>2, <1>3, QueueUntouched DEF SegmentationInv
<1>8. CopiesFit'
  <2>1. \A k \in DOMAIN runtime : IsSaved(runtime[k].id)'
    BY <1>2, <1>5 DEF SegmentationInv, CopiesFit, SavedStays, IsSaved
  <2>2. tool'.at # "fill"
    BY <1>3
  <2>. QED
    BY <1>2, <2>1, <2>2 DEF SegmentationInv, CopiesFit
<1>9. SavedAsTyped'
  BY <1>4 DEF SegmentationInv, SavedAsTyped
<1>. QED
  BY <1>5, <1>6, <1>7, <1>8, <1>9 DEF SegmentationInv

LEMMA CopyKeeps ==
  ASSUME SegmentationInv, OpenCopy \/ FillCopy
  PROVE  SegmentationInv' /\ SavedStays
<1>1. /\ tool.at # "off" /\ tool' \in Tool /\ tool'.thickness = tool.thickness
      /\ tool'.at \in {"fill", "capture"} /\ (tool'.at = "fill" => OpenCopy)
      /\ UNCHANGED <<typed, wanted, entities>>
  <2>1. tool \in Tool
    BY DEF SegmentationInv, ToolTypes
  <2>2. CASE OpenCopy
    BY <2>1, <2>2 DEF OpenCopy, Tool
  <2>3. CASE FillCopy
    BY <2>1, <2>3, Bounded DEF FillCopy, NextFrame, NoFrame, Tool
  <2>. QED
    BY <2>2, <2>3
<1>2. /\ runtime \in Seq(Files)
      /\ \A k \in DOMAIN runtime : /\ IsSaved(runtime[k].id)
                                  /\ \E t \in Nat : runtime[k].thickness = {t}
  BY DEF SegmentationInv, CopiesFit
<1>3. /\ runtime' \in Seq(Files) /\ (tool'.at = "fill" => Len(runtime') > 0)
      /\ \A k \in DOMAIN runtime' : /\ IsSaved(runtime'[k].id)
                                   /\ \E t \in Nat : runtime'[k].thickness = {t}
      /\ \A k \in DOMAIN runtime : k \in DOMAIN runtime' /\ runtime'[k].id = runtime[k].id
  <2>1. CASE OpenCopy
    <3> DEFINE file == [id |-> Saving, whole |-> FALSE, thickness |-> {entities[Saving].thickness}]
    <3>1. Saving \in Nat /\ Saving > 0 /\ entities[Saving].thickness \in Nat /\ IsSaved(Saving)
      <4>1. entities \in Seq(Saves) /\ Len(entities) > 0 /\ entities[Len(entities)].artifacts = Artifacts
        BY <2>1 DEF OpenCopy, SegmentationInv, ToolTypes, SaveFits
      <4>2. Len(entities) \in DOMAIN entities /\ entities[Len(entities)] \in Saves /\ Len(entities) \in Nat
        BY <4>1
      <4>3. entities[Len(entities)].thickness \in Nat
        BY <4>2 DEF Saves
      <4>. QED
        BY <4>1, <4>2, <4>3 DEF Saving, IsSaved
    <3>2. file \in Files /\ file.id = Saving /\ \E t \in Nat : file.thickness = {t}
      BY <3>1 DEF Files
    <3>3. runtime' = Append(runtime, file)
      BY <2>1 DEF OpenCopy
    <3> HIDE DEF file
    <3>. QED
      BY <1>2, <3>1, <3>2, <3>3
  <2>2. CASE FillCopy
    <3>1. Newest \in DOMAIN runtime /\ tool'.at = "capture"
      BY <1>2, <2>2 DEF FillCopy, NextFrame, Newest, SegmentationInv, CopiesFit, ToolTypes, Tool
    <3> DEFINE full == [runtime[Newest] EXCEPT !.whole = TRUE]
    <3>2. /\ full \in Files /\ full.id = runtime[Newest].id
          /\ full.thickness = runtime[Newest].thickness
      <4>1. runtime[Newest] \in Files
        BY <1>2, <3>1
      <4>. QED
        BY <4>1 DEF Files
    <3>3. runtime' = [runtime EXCEPT ![Newest] = full]
      BY <2>2 DEF FillCopy
    <3> HIDE DEF full
    <3>4. /\ runtime' \in Seq(Files) /\ DOMAIN runtime' = DOMAIN runtime
          /\ \A k \in DOMAIN runtime : /\ runtime'[k].id = runtime[k].id
                                      /\ runtime'[k].thickness = runtime[k].thickness
      BY <1>2, <3>1, <3>2, <3>3
    <3>. QED
      BY <1>2, <3>1, <3>4
  <2>. QED
    BY <2>1, <2>2
<1>4. SavedStays /\ CopiesFit'
  BY <1>1, <1>3 DEF SavedStays, CopiesFit, IsSaved
<1>5. ToolTypes' /\ SaveFits' /\ SavedAsTyped'
  BY <1>1 DEF SegmentationInv, ToolTypes, SaveFits, SavedAsTyped
<1>6. QueueFits'
  BY <1>1, QueueUntouched DEF SegmentationInv
<1>. QED
  BY <1>4, <1>5, <1>6 DEF SegmentationInv

LEMMA ToolEndsKeeps ==
  ASSUME SegmentationInv, ToolEnds
  PROVE  SegmentationInv'
<1>1. /\ tool' = Off /\ UNCHANGED <<runtime, typed, wanted, entities>>
      /\ Off \in Tool /\ Off.at = "off"
  BY Bounded DEF ToolEnds, Off, NoFrame, Tool
<1>. QED
  BY <1>1 DEF SegmentationInv, ToolTypes, QueueFits, SaveFits, CopiesFit, IsSaved, SavedAsTyped

LEMMA FilesUntouched ==
  ASSUME UNCHANGED <<runtime, entities>>
  PROVE  SavedStays
BY DEF SavedStays, IsSaved

LEMMA SegmentationStep ==
  ASSUME SegmentationInv, SegmentationNext
  PROVE  SegmentationInv' /\ SavedStays
<1>1. CASE CreateEntity \/ WriteArtifact \/ OpenCopy \/ FillCopy
  BY <1>1, CreateEntityKeeps, WriteArtifactKeeps, CopyKeeps
<1>2. CASE StartTool \/ ToolEnds
  <2>1. UNCHANGED <<runtime, entities>>
    BY <1>2 DEF StartTool, ToolEnds
  <2>. QED
    BY <1>2, <2>1, StartToolKeeps, ToolEndsKeeps, FilesUntouched
<1>3. CASE (\E t \in Thicknesses \cup {Refused} : TypeThickness(t))
           \/ (\E what \in {"save", "quit"} : TypeSaveOrQuit(what))
  <2>1. UNCHANGED <<runtime, entities>>
    BY <1>3 DEF TypeThickness, TypeSaveOrQuit
  <2>. QED
    BY <1>3, <2>1, TerminalKeeps, FilesUntouched
<1>4. CASE (\E sight \in Sights : CaptureFrame(sight)) \/ NoCommand
  <2>1. UNCHANGED <<runtime, entities>>
    BY <1>4 DEF CaptureFrame, NoCommand
  <2>. QED
    BY <1>4, <2>1, CaptureKeeps, FilesUntouched
<1>5. CASE ObeyThickness \/ ObeySave \/ ObeyQuit
  <2>1. UNCHANGED <<runtime, entities>>
    BY <1>5 DEF ObeyThickness, ObeySave, ObeyQuit, Obey
  <2>. QED
    BY <1>5, <2>1, ObeyKeeps, FilesUntouched
<1>. QED
  BY <1>1, <1>2, <1>3, <1>4, <1>5 DEF SegmentationNext, ToolStep

-----------------------------------------------------------------------------
(* What there is to project, and where it is from.                         *)
Thin(data) == data.thickness = {} \/ \E t \in Nat : data.thickness = {t}
Fine(data) == Thin(data) /\ (data.from = "file" => IsSaved(data.id))

SourceTypes ==
  /\ DOMAIN source = {"measurement", "geometry", "connected", "live", "thickness", "signature"}
  /\ DOMAIN inbox = {"measurement", "geometry", "unread"}
  /\ DOMAIN loop = {"at", "paused", "running", "left", "file"}
  /\ source.connected \in BOOLEAN /\ adjusted \in BOOLEAN

DataFit ==
  /\ Fine(source.measurement) /\ Fine(source.geometry)
  /\ Fine(inbox.measurement) /\ Fine(inbox.geometry) /\ Fine(shown)

(* Nothing is connected before the program runs; a file that is about to   *)
(* be read is there; geometry that is unread came from Grasshopper.        *)
ReadsFit ==
  /\ loop.at = "off" => ~source.connected
  /\ loop.at = "read" => \E k \in DOMAIN runtime : runtime[k].id = loop.file.id
  /\ "geometry" \in inbox.unread => inbox.geometry.from \in {"grasshopper", "leaving"}

ProjectorInv == SourceTypes /\ DataFit /\ ReadsFit /\ ThicknessFitsSource

LEMMA FromFileIsFine ==
  ASSUME CopiesFit, NEW k \in DOMAIN runtime
  PROVE  /\ Fine(FromFile(k)) /\ FromFile(k).thickness # {}
BY DEF CopiesFit, Fine, Thin, FromFile, Data

LEMMA DataIsFine ==
  /\ Fine(Nothing) /\ Nothing.from = "nothing"
  /\ \A id : \A th \in Maybe : /\ Fine(Data("live", id, th)) /\ Fine(Data("grasshopper", id, th))
                              /\ Data("grasshopper", id, th).from = "grasshopper"
  /\ Fine(Data("leaving", 0, {})) /\ Data("leaving", 0, {}).from = "leaving"
  /\ Fine(Data("no object", 0, {}))
BY Bounded DEF Fine, Thin, Nothing, Data, Maybe

LEMMA ProjectorStarts == ProjectorInit => ProjectorInv
<1> SUFFICES ASSUME ProjectorInit PROVE ProjectorInv
  OBVIOUS
<1>1. SourceTypes /\ ReadsFit
  BY DEF ProjectorInit, EmptySource, Stopped, SourceTypes, ReadsFit
<1>2. DataFit
  BY DataIsFine DEF ProjectorInit, EmptySource, DataFit
<1>3. ThicknessFitsSource
  BY DEF ProjectorInit, EmptySource, ThicknessFitsSource, Active, GhActive, Nothing, Data
<1>. QED
  BY <1>1, <1>2, <1>3 DEF ProjectorInv

(* _update_thickness: the thickness is that of data that give one.         *)
LEMMA UpdateFits ==
  ASSUME NEW new, NEW data, Thin(data), Update(new, data), "thickness" \in DOMAIN new,
         adjusted \in BOOLEAN
  PROVE  /\ DOMAIN source' = DOMAIN new
         /\ \A f \in DOMAIN new : f # "thickness" => source'[f] = new[f]
         /\ data.thickness = {} => source'.thickness = new.thickness /\ adjusted' = adjusted
         /\ data.thickness # {} => data.thickness = {source'.thickness} /\ adjusted' = FALSE
<1>1. CASE data.thickness = {}
  BY <1>1 DEF Update
<1>2. CASE data.thickness # {}
  <2>1. PICK t \in Nat : data.thickness = {t}
    BY <1>2 DEF Thin
  <2>2. (CHOOSE u \in data.thickness : TRUE) = t
    BY <2>1
  <2>3. source' = [new EXCEPT !.thickness = t] /\ adjusted' = FALSE
    BY <1>2, <2>2 DEF Update
  <2>. QED
    BY <1>2, <2>1, <2>3
<1>. QED
  BY <1>1, <1>2

(* The source changes to what shows data of its own, with their thickness. *)
LEMMA SourceChanges ==
  ASSUME ProjectorInv, NEW new, NEW data, Fine(data), Update(new, data),
         DOMAIN new = DOMAIN source, new.connected \in BOOLEAN,
         data = IF new.connected /\ new.geometry # Nothing THEN new.geometry ELSE new.measurement
  PROVE  /\ DOMAIN source' = DOMAIN source /\ adjusted' \in BOOLEAN /\ ThicknessFitsSource'
         /\ source'.measurement = new.measurement /\ source'.geometry = new.geometry
         /\ source'.connected = new.connected
<1>1. /\ {"measurement", "geometry", "connected", "thickness"} \subseteq DOMAIN new
      /\ adjusted \in BOOLEAN
  BY DEF ProjectorInv, SourceTypes
<1>2. /\ DOMAIN source' = DOMAIN source
      /\ source'.measurement = new.measurement /\ source'.geometry = new.geometry
      /\ source'.connected = new.connected
      /\ data.thickness = {} => adjusted' = adjusted
      /\ data.thickness # {} => data.thickness = {source'.thickness} /\ adjusted' = FALSE
  BY <1>1, UpdateFits DEF Fine
<1>3. Active' = data
  BY <1>2 DEF Active, GhActive
<1>4. adjusted' \in BOOLEAN
  BY <1>1, <1>2
<1>. QED
  BY <1>2, <1>3, <1>4 DEF ThicknessFitsSource

(* A measurement is taken over; its thickness only if it is projected.     *)
LEMMA MeasurementTaken ==
  ASSUME ProjectorInv, NEW new, NEW data, Fine(data), NewMeasurement(new, data),
         DOMAIN new = DOMAIN source, new.measurement = data, new.geometry = source.geometry,
         new.connected = source.connected, new.thickness = source.thickness
  PROVE  /\ DOMAIN source' = DOMAIN source /\ adjusted' \in BOOLEAN /\ ThicknessFitsSource'
         /\ source'.measurement = data /\ source'.geometry = source.geometry
         /\ source'.connected = source.connected
<1>1. CASE GhActive
  <2>1. source' = new /\ adjusted' = adjusted
    BY <1>1 DEF NewMeasurement
  <2>2. Active' = Active
    BY <1>1, <2>1 DEF Active, GhActive
  <2>. QED
    BY <2>1, <2>2 DEF ProjectorInv, SourceTypes, ThicknessFitsSource
<1>2. CASE ~GhActive
  <2>1. Update(new, data) /\ source.connected \in BOOLEAN
    BY <1>2 DEF NewMeasurement, ProjectorInv, SourceTypes
  <2>2. ~(new.connected /\ new.geometry # Nothing)
    BY <1>2 DEF GhActive
  <2>. QED
    BY <2>1, <2>2, SourceChanges
<1>. QED
  BY <1>1, <1>2

(* Grasshopper leaves: the last measurement is projected again.            *)
LEMMA DisconnectKeeps ==
  ASSUME ProjectorInv, Disconnect
  PROVE  /\ DOMAIN source' = DOMAIN source /\ adjusted' \in BOOLEAN /\ ThicknessFitsSource'
         /\ source'.measurement = source.measurement /\ source'.geometry = source.geometry
         /\ source'.connected = FALSE
<1> DEFINE new == [source EXCEPT !.connected = FALSE]
<1>1. /\ DOMAIN new = DOMAIN source /\ new.connected = FALSE
      /\ new.measurement = source.measurement /\ new.geometry = source.geometry
  BY DEF ProjectorInv, SourceTypes
<1>2. Update(new, source.measurement) /\ Fine(source.measurement)
  BY DEF Disconnect, ProjectorInv, DataFit
<1> HIDE DEF new
<1>. QED
  BY <1>1, <1>2, SourceChanges

-----------------------------------------------------------------------------
(* A step that takes nothing over: the source keeps what it shows.         *)
LEMMA SourceUntouched ==
  ASSUME ProjectorInv, UNCHANGED <<runtime, entities, inbox, adjusted>>,
         DOMAIN source' = DOMAIN source, DOMAIN loop' = DOMAIN loop,
         \A f \in {"measurement", "geometry", "connected", "thickness"} : source'[f] = source[f],
         shown' \in {shown, Active}, loop'.at # "off",
         loop'.at = "read" => \E k \in DOMAIN runtime : runtime[k].id = loop'.file.id
  PROVE  ProjectorInv'
<1>1. /\ source'.measurement = source.measurement /\ source'.geometry = source.geometry
      /\ source'.connected = source.connected /\ source'.thickness = source.thickness
  OBVIOUS
<1>2. SourceTypes' /\ ReadsFit'
  BY <1>1 DEF ProjectorInv, SourceTypes, ReadsFit
<1>3. DataFit'
  BY <1>1 DEF ProjectorInv, DataFit, Fine, IsSaved, Active
<1>4. ThicknessFitsSource'
  BY <1>1 DEF ProjectorInv, ThicknessFitsSource, Active, GhActive
<1>. QED
  BY <1>2, <1>3, <1>4 DEF ProjectorInv

LEMMA LoopMovesKeep ==
  ASSUME ProjectorInv, UNCHANGED entities,
         \/ \E l \in {"up", "down"} : StartStream(l)
         \/ SignFile \/ SkipFile \/ CommandsObeyed \/ Render \/ NoKey \/ PressQuit
  PROVE  ProjectorInv'
<1>1. DOMAIN loop = {"at", "paused", "running", "left", "file"}
  BY DEF ProjectorInv, SourceTypes
<1>2. CASE SignFile
  <2>1. /\ loop' = [loop EXCEPT !.at = "read", !.file = Signature(Newest)]
        /\ Newest > 0 /\ UNCHANGED <<runtime, source, inbox, shown, adjusted>>
    BY <1>2 DEF SignFile
  <2>2. DOMAIN loop' = DOMAIN loop /\ loop'.at = "read" /\ loop'.file.id = runtime[Newest].id
    BY <1>1, <2>1 DEF Signature
  <2>. QED
    BY <2>1, <2>2, SourceUntouched DEF Newest
<1>3. CASE \E l \in {"up", "down"} : StartStream(l)
  <2>1. /\ source' = [source EXCEPT !.signature = loop.file] /\ loop' = [loop EXCEPT !.at = "stream"]
        /\ UNCHANGED <<runtime, inbox, shown, adjusted>>
    BY <1>3 DEF StartStream, Goto
  <2>2. DOMAIN loop' = DOMAIN loop /\ loop'.at = "stream"
    BY <1>1, <2>1
  <2>3. /\ DOMAIN source' = DOMAIN source
        /\ \A f \in {"measurement", "geometry", "connected", "thickness"} : source'[f] = source[f]
    BY <2>1 DEF ProjectorInv, SourceTypes
  <2>. QED
    BY <2>1, <2>2, <2>3, SourceUntouched
<1>4. CASE SkipFile \/ CommandsObeyed \/ Render \/ NoKey \/ PressQuit
  <2>1. /\ DOMAIN loop' = DOMAIN loop /\ loop'.at \in {"timeout", "render", "ended", "key", "stream"}
        /\ UNCHANGED <<runtime, source, inbox, adjusted>>
    BY <1>1, <1>4 DEF SkipFile, CommandsObeyed, Render, NoKey, PressQuit, Goto
  <2>2. shown' \in {shown, Active}
    BY <1>4 DEF SkipFile, CommandsObeyed, Render, NoKey, PressQuit
  <2>. QED
    BY <2>1, <2>2, SourceUntouched
<1>. QED
  BY <1>2, <1>3, <1>4

(* The receiving thread touches only what the loop has not taken yet.      *)
LEMMA ReceivingKeeps ==
  ASSUME ProjectorInv, UNCHANGED entities,
         \/ \E th \in Maybe : \/ ReceiveLatest("measurement", Data("live", inputs + 1, th))
                              \/ ReceiveLatest("geometry", Data("grasshopper", inputs + 1, th))
         \/ ReceiveLatest("geometry", Data("leaving", 0, {}))
         \/ LinkBreaks \/ \E what, value : ReceiveCommand(what, value)
  PROVE  ProjectorInv'
<1>1. /\ UNCHANGED <<runtime, source, loop, shown, adjusted>>
      /\ SourceTypes /\ DataFit /\ ReadsFit
  BY DEF ReceiveLatest, LinkBreaks, ReceiveCommand, ProjectorInv
<1> DEFINE InboxFits ==
             /\ DOMAIN inbox' = DOMAIN inbox
             /\ Fine(inbox'.measurement) /\ Fine(inbox'.geometry)
             /\ "geometry" \in inbox'.unread =>
                  inbox'.geometry.from \in {"grasshopper", "leaving"}
<1>2. InboxFits
  <2>1. ASSUME NEW topic \in {"measurement", "geometry"}, NEW data, Fine(data),
               ReceiveLatest(topic, data),
               topic = "geometry" => data.from \in {"grasshopper", "leaving"}
        PROVE  InboxFits
    <3>1. inbox' = [inbox EXCEPT ![topic] = data, !.unread = inbox.unread \cup {topic}]
      BY <2>1 DEF ReceiveLatest
    <3>2. DOMAIN inbox = {"measurement", "geometry", "unread"}
      BY <1>1 DEF SourceTypes
    <3>3. /\ DOMAIN inbox' = DOMAIN inbox /\ inbox'[topic] = data
          /\ inbox'.unread = inbox.unread \cup {topic}
          /\ \A f \in {"measurement", "geometry"} : f # topic => inbox'[f] = inbox[f]
      BY <3>1, <3>2
    <3>. QED
      BY <1>1, <2>1, <3>3 DEF DataFit, ReadsFit
  <2>2. CASE LinkBreaks \/ \E what, value : ReceiveCommand(what, value)
    BY <1>1, <2>2 DEF LinkBreaks, ReceiveCommand, DataFit, ReadsFit
  <2>. QED
    BY <2>1, <2>2, DataIsFine
<1>3. SourceTypes' /\ ReadsFit' /\ ThicknessFitsSource'
  BY <1>1, <1>2 DEF ProjectorInv, SourceTypes, ReadsFit, ThicknessFitsSource, Active, GhActive
<1>4. DataFit'
  BY <1>1, <1>2 DEF DataFit, Fine, IsSaved
<1>. QED
  BY <1>3, <1>4 DEF ProjectorInv

(* A step that changes what is projected, and then the thickness with it.  *)
LEMMA SourceTaken ==
  ASSUME ProjectorInv, UNCHANGED <<runtime, entities, shown>>,
         DOMAIN loop' = DOMAIN loop, loop'.at \notin {"off", "read"},
         DOMAIN inbox' = DOMAIN inbox, inbox'.unread \subseteq inbox.unread,
         inbox'.measurement = inbox.measurement, inbox'.geometry = inbox.geometry,
         DOMAIN source' = DOMAIN source, source'.connected \in BOOLEAN, adjusted' \in BOOLEAN,
         ThicknessFitsSource', Fine(source'.measurement), Fine(source'.geometry)
  PROVE  ProjectorInv'
<1>1. SourceTypes' /\ ReadsFit'
  BY DEF ProjectorInv, SourceTypes, ReadsFit
<1>2. DataFit'
  BY DEF ProjectorInv, DataFit, Fine, IsSaved
<1>. QED
  BY <1>1, <1>2 DEF ProjectorInv

LEMMA PollsKeep ==
  ASSUME ProjectorInv, UNCHANGED entities, PollMeasurement \/ PollGeometry
  PROVE  ProjectorInv'
<1>1. /\ DOMAIN source = {"measurement", "geometry", "connected", "live", "thickness", "signature"}
      /\ DOMAIN inbox = {"measurement", "geometry", "unread"}
      /\ DOMAIN loop = {"at", "paused", "running", "left", "file"}
      /\ source.connected \in BOOLEAN /\ adjusted \in BOOLEAN /\ ThicknessFitsSource
      /\ Fine(source.measurement) /\ Fine(source.geometry)
      /\ Fine(inbox.measurement) /\ Fine(inbox.geometry)
  BY DEF ProjectorInv, SourceTypes, DataFit
<1>2. /\ DOMAIN loop' = DOMAIN loop /\ loop'.at \notin {"off", "read"}
      /\ DOMAIN inbox' = DOMAIN inbox /\ inbox'.unread \subseteq inbox.unread
      /\ inbox'.measurement = inbox.measurement /\ inbox'.geometry = inbox.geometry
      /\ UNCHANGED <<runtime, shown>>
  BY <1>1 DEF PollMeasurement, PollGeometry, Goto
<1>3. CASE UNCHANGED <<source, adjusted>>
  BY <1>1, <1>2, <1>3, SourceTaken DEF ThicknessFitsSource, Active, GhActive
<1>4. CASE PollMeasurement /\ "measurement" \in inbox.unread
  <2> DEFINE new == [source EXCEPT !.measurement = inbox.measurement, !.live = TRUE]
  <2>1. /\ DOMAIN new = DOMAIN source /\ new.measurement = inbox.measurement
        /\ new.geometry = source.geometry /\ new.connected = source.connected
        /\ new.thickness = source.thickness
    BY <1>1
  <2>2. NewMeasurement(new, inbox.measurement)
    BY <1>4 DEF PollMeasurement
  <2> HIDE DEF new
  <2>3. /\ DOMAIN source' = DOMAIN source /\ adjusted' \in BOOLEAN /\ ThicknessFitsSource'
        /\ source'.measurement = inbox.measurement /\ source'.geometry = source.geometry
        /\ source'.connected = source.connected
    BY <1>1, <2>1, <2>2, MeasurementTaken
  <2>. QED
    BY <1>1, <1>2, <2>3, SourceTaken
<1>5. CASE PollGeometry /\ "geometry" \in inbox.unread /\ inbox.geometry.from = "leaving"
  <2>1. Disconnect
    BY <1>5 DEF PollGeometry
  <2>. QED
    BY <1>1, <1>2, <2>1, DisconnectKeeps, SourceTaken
<1>6. CASE PollGeometry /\ "geometry" \in inbox.unread /\ inbox.geometry.from # "leaving"
  <2> DEFINE new == [source EXCEPT !.geometry = inbox.geometry, !.connected = TRUE]
  <2>1. /\ DOMAIN new = DOMAIN source /\ new.measurement = source.measurement
        /\ new.geometry = inbox.geometry /\ new.connected = TRUE
    BY <1>1
  <2>2. Update(new, inbox.geometry)
    BY <1>6 DEF PollGeometry
  <2>3. inbox.geometry # Nothing
    BY <1>6, DataIsFine DEF ProjectorInv, ReadsFit
  <2> HIDE DEF new
  <2>4. /\ DOMAIN source' = DOMAIN source /\ adjusted' \in BOOLEAN /\ ThicknessFitsSource'
        /\ source'.measurement = source.measurement /\ source'.geometry = inbox.geometry
        /\ source'.connected = TRUE
    BY <1>1, <2>1, <2>2, <2>3, SourceChanges
  <2>. QED
    BY <1>1, <1>2, <2>4, SourceTaken
<1>. QED
  BY <1>3, <1>4, <1>5, <1>6 DEF PollMeasurement, PollGeometry

LEMMA FilesKeep ==
  ASSUME ProjectorInv, CopiesFit, UNCHANGED entities, ReadInitialFile \/ ReadFile
  PROVE  ProjectorInv'
<1>1. /\ DOMAIN source = {"measurement", "geometry", "connected", "live", "thickness", "signature"}
      /\ DOMAIN loop = {"at", "paused", "running", "left", "file"}
      /\ source.connected \in BOOLEAN /\ adjusted \in BOOLEAN /\ ThicknessFitsSource
      /\ Fine(source.measurement) /\ Fine(source.geometry)
  BY DEF ProjectorInv, SourceTypes, DataFit
<1>2. /\ DOMAIN loop' = DOMAIN loop /\ loop'.at \notin {"off", "read"}
      /\ UNCHANGED <<runtime, shown, inbox>>
  BY <1>1 DEF ReadInitialFile, ReadFile, Goto
<1>3. CASE UNCHANGED <<source, adjusted>>
  BY <1>1, <1>2, <1>3, SourceTaken DEF ThicknessFitsSource, Active, GhActive
<1>4. CASE ReadInitialFile /\ Newest > 0 /\ runtime[Newest].whole
  <2> DEFINE new == [source EXCEPT !.measurement = FromFile(Newest)]
  <2>1. /\ DOMAIN new = DOMAIN source /\ new.measurement = FromFile(Newest)
        /\ new.geometry = source.geometry /\ new.connected = FALSE
    BY <1>1, <1>4 DEF ReadInitialFile, ProjectorInv, ReadsFit
  <2>2. Update(new, FromFile(Newest))
    BY <1>4 DEF ReadInitialFile
  <2>3. Fine(FromFile(Newest))
    BY <1>4, FromFileIsFine DEF Newest, CopiesFit
  <2> HIDE DEF new
  <2>4. /\ DOMAIN source' = DOMAIN source /\ adjusted' \in BOOLEAN /\ ThicknessFitsSource'
        /\ source'.measurement = FromFile(Newest) /\ source'.geometry = source.geometry
        /\ source'.connected = FALSE
    BY <1>1, <2>1, <2>2, <2>3, SourceChanges
  <2>. QED
    BY <1>1, <1>2, <2>3, <2>4, SourceTaken
<1>5. CASE ReadFile
  <2> DEFINE k == CHOOSE n \in DOMAIN runtime : runtime[n].id = loop.file.id
             new == [source EXCEPT !.measurement = FromFile(k), !.signature = loop.file]
  <2>1. k \in DOMAIN runtime
    BY <1>5 DEF ReadFile, ProjectorInv, ReadsFit
  <2>2. Fine(FromFile(k))
    BY <2>1, FromFileIsFine
  <2>3. /\ DOMAIN new = DOMAIN source /\ new.measurement = FromFile(k)
        /\ new.geometry = source.geometry /\ new.connected = source.connected
        /\ new.thickness = source.thickness
    BY <1>1
  <2>4. CASE runtime[k].whole
    <3>1. NewMeasurement(new, FromFile(k))
      BY <1>5, <2>4 DEF ReadFile
    <3> HIDE DEF new, k
    <3>2. /\ DOMAIN source' = DOMAIN source /\ adjusted' \in BOOLEAN /\ ThicknessFitsSource'
          /\ source'.measurement = FromFile(k) /\ source'.geometry = source.geometry
          /\ source'.connected = source.connected
      BY <2>2, <2>3, <3>1, MeasurementTaken
    <3>. QED
      BY <1>1, <1>2, <2>2, <3>2, SourceTaken
  <2>5. CASE ~runtime[k].whole
    BY <1>3, <1>5, <2>5 DEF ReadFile
  <2>. QED
    BY <2>4, <2>5
<1>. QED
  BY <1>3, <1>4, <1>5 DEF ReadInitialFile

(* The timeout disconnects; a key or a command sets the thickness, which   *)
(* is the operator's from then on.                                         *)
LEMMA OperatorKeeps ==
  ASSUME ProjectorInv, UNCHANGED entities,
         CheckTimeout \/ ObeyCommand \/ \E t \in Thicknesses : PressKey(t)
  PROVE  ProjectorInv'
<1>1. /\ DOMAIN source = {"measurement", "geometry", "connected", "live", "thickness", "signature"}
      /\ DOMAIN loop = {"at", "paused", "running", "left", "file"}
      /\ source.connected \in BOOLEAN /\ adjusted \in BOOLEAN /\ ThicknessFitsSource
      /\ Fine(source.measurement) /\ Fine(source.geometry)
  BY DEF ProjectorInv, SourceTypes, DataFit
<1>2. /\ DOMAIN loop' = DOMAIN loop /\ loop'.at \notin {"off", "read"}
      /\ UNCHANGED <<runtime, shown, inbox>>
  BY <1>1 DEF CheckTimeout, ObeyCommand, PressKey, Goto
<1>3. CASE UNCHANGED <<source, adjusted>>
  BY <1>1, <1>2, <1>3, SourceTaken DEF ThicknessFitsSource, Active, GhActive
<1>4. CASE Disconnect
  BY <1>1, <1>2, <1>4, DisconnectKeeps, SourceTaken
<1>5. CASE (\E t : source' = [source EXCEPT !.thickness = t]) /\ adjusted' = TRUE
  <2>1. /\ DOMAIN source' = DOMAIN source /\ source'.measurement = source.measurement
        /\ source'.geometry = source.geometry /\ source'.connected = source.connected
    BY <1>1, <1>5
  <2>2. ThicknessFitsSource' /\ adjusted' \in BOOLEAN
    BY <1>5 DEF ThicknessFitsSource
  <2>. QED
    BY <1>1, <1>2, <2>1, <2>2, SourceTaken
<1>. QED
  BY <1>1, <1>3, <1>4, <1>5 DEF CheckTimeout, ObeyCommand, PressKey

LEMMA ProjectorStepKeeps ==
  ASSUME ProjectorInv, CopiesFit, UNCHANGED entities, ProjectorNext
  PROVE  ProjectorInv'
BY LoopMovesKeep, ReceivingKeeps, PollsKeep, FilesKeep, OperatorKeeps
DEF ProjectorNext, ProjectorStep, ProjectorInput

-----------------------------------------------------------------------------
(* What PictureFitsData says of the picture, of any data and thickness.    *)
Corrected(data, thickness, changed) ==
  data.from # "nothing" /\ data.thickness # {} /\ ~changed =>
    \/ data.thickness = {thickness}
    \/ data.from = "file" /\ data.thickness = {0} /\ thickness = DefaultThickness

(* Under the lock, data and thickness go together.                         *)
ViewerInv ==
  /\ DOMAIN view = {"at", "data", "thickness", "adjusted", "connected", "base"}
  /\ Fine(view.data) /\ Fine(screen.data)
  /\ Corrected(view.data, view.thickness, view.adjusted)
  /\ PictureFitsData

LEMMA ViewerStarts == ViewerInit => ViewerInv
<1> SUFFICES ASSUME ViewerInit PROVE ViewerInv
  OBVIOUS
<1>1. /\ DOMAIN view = {"at", "data", "thickness", "adjusted", "connected", "base"}
      /\ view.data = Nothing /\ screen.data = Nothing
  BY DEF ViewerInit, NoView, Picture
<1>. QED
  BY <1>1, DataIsFine DEF ViewerInv, Corrected, PictureFitsData

(* What the server thread takes replaces data and thickness at once.       *)
LEMMA JsonKeeps ==
  ASSUME ViewerInv, NEW data, Fine(data), data.from # "file"
  PROVE  /\ DOMAIN UpdateFromJson(data) = DOMAIN view
         /\ UpdateFromJson(data).data = data
         /\ Corrected(data, UpdateFromJson(data).thickness, UpdateFromJson(data).adjusted)
<1>1. DOMAIN view = {"at", "data", "thickness", "adjusted", "connected", "base"}
  BY DEF ViewerInv
<1>2. CASE data.thickness = {}
  <2>1. UpdateFromJson(data) = [view EXCEPT !.data = data, !.connected = TRUE]
    BY <1>2 DEF UpdateFromJson
  <2>. QED
    BY <1>1, <1>2, <2>1 DEF Corrected
<1>3. CASE data.thickness # {}
  <2>1. PICK t \in Nat : data.thickness = {t}
    BY <1>3 DEF Fine, Thin
  <2>2. (CHOOSE u \in data.thickness : TRUE) = t
    BY <2>1
  <2>3. UpdateFromJson(data) = [view EXCEPT !.data = data, !.connected = TRUE,
                                            !.adjusted = FALSE, !.thickness = t]
    BY <1>3, <2>2 DEF UpdateFromJson
  <2>. QED
    BY <1>1, <2>1, <2>3 DEF Corrected
<1>. QED
  BY <1>2, <1>3

LEMMA StartViewerKeeps ==
  ASSUME ViewerInv, CopiesFit, UNCHANGED entities, NEW s, StartViewer(s)
  PROVE  ViewerInv'
<1>1. Fine(InitialData) /\ (InitialData.from # "nothing" => InitialData.thickness # {})
  <2>1. CASE Newest > 0 /\ runtime[Newest].whole
    BY <2>1, FromFileIsFine DEF InitialData, Newest, CopiesFit
  <2>2. CASE ~(Newest > 0 /\ runtime[Newest].whole)
    BY <2>2, DataIsFine DEF InitialData
  <2>. QED
    BY <2>1, <2>2
<1>2. InitialData.from \in {"nothing", "file"}
  BY DEF InitialData, FromFile, Nothing, Data
<1>3. Corrected(InitialData, InitialThickness(InitialData), view.adjusted)
  <2>1. SUFFICES ASSUME InitialData.from # "nothing", InitialData.thickness # {}
                 PROVE  \/ InitialData.thickness = {InitialThickness(InitialData)}
                        \/ /\ InitialData.from = "file" /\ InitialData.thickness = {0}
                           /\ InitialThickness(InitialData) = DefaultThickness
    BY DEF Corrected
  <2>2. PICK t \in Nat : InitialData.thickness = {t}
    BY <1>1, <2>1 DEF Fine, Thin
  <2>3. (CHOOSE u \in InitialData.thickness : TRUE) = t
    BY <2>2
  <2>4. InitialThickness(InitialData) = IF t = 0 THEN DefaultThickness ELSE t
    <3>1. CASE t = 0
      BY <2>2, <3>1 DEF InitialThickness
    <3>2. CASE t # 0
      <4>1. InitialData.thickness # {0}
        BY <2>2, <3>2
      <4>2. InitialThickness(InitialData) = CHOOSE u \in InitialData.thickness : TRUE
        BY <4>1, Zenon DEF InitialThickness
      <4>. QED
        BY <2>3, <3>2, <4>2
    <3>. QED
      BY <3>1, <3>2
  <2>. QED
    BY <1>2, <2>1, <2>2, <2>4
<1>4. /\ view' = [view EXCEPT !.at = "frame", !.data = InitialData,
                              !.thickness = InitialThickness(InitialData)]
      /\ UNCHANGED <<screen, runtime>>
  BY DEF StartViewer
<1>5. /\ DOMAIN view' = DOMAIN view /\ view'.data = InitialData
      /\ view'.thickness = InitialThickness(InitialData) /\ view'.adjusted = view.adjusted
  BY <1>4 DEF ViewerInv
<1>. QED
  BY <1>1, <1>3, <1>4, <1>5 DEF ViewerInv, Corrected, PictureFitsData, Fine, IsSaved

(* A step that leaves what is shown and its thickness.                     *)
LEMMA ViewUntouched ==
  ASSUME ViewerInv, UNCHANGED <<entities, screen>>, DOMAIN view' = DOMAIN view,
         view'.data = view.data, view'.thickness = view.thickness, view'.adjusted = view.adjusted
  PROVE  ViewerInv'
BY DEF ViewerInv, Corrected, PictureFitsData, Fine, IsSaved

LEMMA ServerKeeps ==
  ASSUME ViewerInv, UNCHANGED entities,
         \/ ClientConnects \/ ClientGone \/ ReceiveOther
         \/ \E th \in Maybe : ReceiveLine(Data("grasshopper", packets + 1, th))
  PROVE  ViewerInv'
<1>1. DOMAIN view = {"at", "data", "thickness", "adjusted", "connected", "base"}
  BY DEF ViewerInv
<1>2. CASE ClientConnects \/ ClientGone
  <2>1. view' = view \/ view' = [view EXCEPT !.connected = FALSE]
    BY <1>2 DEF ClientConnects, ClientGone
  <2>2. UNCHANGED screen
    BY <1>2 DEF ClientConnects, ClientGone
  <2>. QED
    BY <1>1, <2>1, <2>2, ViewUntouched
<1>3. ASSUME NEW data, Fine(data), data.from # "file", UNCHANGED screen,
             \/ view' = UpdateFromJson(data)
             \/ view' = [UpdateFromJson(data) EXCEPT !.connected = FALSE]
      PROVE  ViewerInv'
  <2>1. /\ DOMAIN UpdateFromJson(data) = DOMAIN view /\ UpdateFromJson(data).data = data
        /\ Corrected(data, UpdateFromJson(data).thickness, UpdateFromJson(data).adjusted)
    BY <1>3, JsonKeeps
  <2>2. /\ DOMAIN view' = DOMAIN view /\ view'.data = data
        /\ view'.thickness = UpdateFromJson(data).thickness
        /\ view'.adjusted = UpdateFromJson(data).adjusted
    BY <1>1, <1>3, <2>1
  <2>. QED
    BY <1>3, <2>1, <2>2 DEF ViewerInv, Corrected, PictureFitsData, Fine, IsSaved
<1>4. CASE ReceiveOther
  <2>1. Fine(NotAnObject) /\ NotAnObject.from # "file"
    BY DataIsFine DEF NotAnObject, Data
  <2>. QED
    BY <1>3, <1>4, <2>1 DEF ReceiveOther
<1>5. CASE \E th \in Maybe : ReceiveLine(Data("grasshopper", packets + 1, th))
  BY <1>3, <1>5, DataIsFine DEF ReceiveLine
<1>. QED
  BY <1>2, <1>4, <1>5

LEMMA ViewerLoopKeeps ==
  ASSUME ViewerInv, UNCHANGED entities, ViewerStep \/ ThicknessKey \/ QuitKey
  PROVE  ViewerInv'
<1>1. DOMAIN view = {"at", "data", "thickness", "adjusted", "connected", "base"}
  BY DEF ViewerInv
<1>2. CASE SnapshotRaises \/ Expire \/ OtherKey \/ ThicknessKey \/ QuitKey
  <2>1. /\ \/ \E at : view' = [view EXCEPT !.at = at]
           \/ view' = [view EXCEPT !.at = "key", !.connected = FALSE]
           \/ view' = [view EXCEPT !.at = "set", !.base = view.thickness]
        /\ UNCHANGED screen
    BY <1>2 DEF SnapshotRaises, Expire, OtherKey, ThicknessKey, QuitKey, ViewerEnds
  <2>. QED
    BY <1>1, <2>1, ViewUntouched
<1>3. CASE DrawFrame
  <2>1. screen' = [data |-> view.data, thickness |-> view.thickness, adjusted |-> view.adjusted]
    BY <1>3 DEF DrawFrame, Picture
  <2>2. PICK at : view' = [view EXCEPT !.at = at]
    BY <1>3 DEF DrawFrame
  <2>3. /\ DOMAIN view' = DOMAIN view /\ view'.data = view.data
        /\ view'.thickness = view.thickness /\ view'.adjusted = view.adjusted
    BY <1>1, <2>2
  <2>. QED
    BY <2>1, <2>3 DEF ViewerInv, Corrected, PictureFitsData, Fine, IsSaved
<1>4. ASSUME NEW t, SetThickness(t)
      PROVE  ViewerInv'
  <2>1. /\ DOMAIN view' = DOMAIN view /\ view'.data = view.data /\ view'.adjusted = TRUE
        /\ UNCHANGED screen
    BY <1>1, <1>4 DEF SetThickness
  <2>. QED
    BY <2>1 DEF ViewerInv, Corrected, PictureFitsData, Fine, IsSaved
<1>. QED
  BY <1>2, <1>3, <1>4 DEF ViewerStep

LEMMA ViewerStepKeeps ==
  ASSUME ViewerInv, CopiesFit, UNCHANGED entities, ViewerNext
  PROVE  ViewerInv'
BY StartViewerKeeps, ServerKeeps, ViewerLoopKeeps DEF ViewerNext, ViewerInput

-----------------------------------------------------------------------------
TableInv == SegmentationInv /\ ProjectorInv /\ ViewerInv

(* What the operation does to the files leaves the programs that read them *)
(* as they were: whatever they hold is still saved, and still there.       *)
LEMMA ReadersKeep ==
  ASSUME TableInv, SavedStays, UNCHANGED <<projector, viewer>>
  PROVE  ProjectorInv' /\ ViewerInv'
<1>1. ASSUME NEW data, Fine(data)
      PROVE  /\ Thin(data)
             /\ data.from = "file" => /\ data.id \in DOMAIN entities'
                                      /\ entities'[data.id].artifacts = Artifacts
  BY <1>1 DEF Fine, SavedStays
<1>2. UNCHANGED <<source, inbox, loop, shown, adjusted, view, screen>>
  BY DEF projector, viewer
<1>3. DataFit'
  BY <1>1, <1>2 DEF TableInv, ProjectorInv, DataFit, Fine, IsSaved
<1>4. SourceTypes' /\ ReadsFit' /\ ThicknessFitsSource'
  BY <1>2 DEF TableInv, ProjectorInv, SourceTypes, ReadsFit, SavedStays, ThicknessFitsSource,
     Active,
     GhActive
<1>5. ViewerInv'
  BY <1>1, <1>2 DEF TableInv, ViewerInv, Fine, IsSaved, Corrected, PictureFitsData
<1>. QED
  BY <1>3, <1>4, <1>5 DEF ProjectorInv

LEMMA TableStarts == TableInit => TableInv
BY SegmentationStarts, ProjectorStarts, ViewerStarts DEF TableInit, TableInv

LEMMA TableStep == TableInv /\ [TableNext]_vars => TableInv'
<1> SUFFICES ASSUME TableInv, [TableNext]_vars PROVE TableInv'
  OBVIOUS
<1>1. CASE UNCHANGED vars
  <2>1. UNCHANGED <<runtime, tool, typed, wanted, entities>> /\ UNCHANGED <<projector, viewer>>
    BY <1>1 DEF vars, segmentation
  <2>2. SegmentationInv'
    BY <2>1 DEF TableInv, SegmentationInv, ToolTypes, QueueFits, SaveFits, CopiesFit, IsSaved,
       SavedAsTyped
  <2>. QED
    BY <2>1, <2>2, FilesUntouched, ReadersKeep DEF TableInv
<1>2. CASE SegmentationNext /\ UNCHANGED <<projector, viewer>>
  BY <1>2, SegmentationStep, ReadersKeep DEF TableInv
<1>3. CASE ProjectorNext /\ UNCHANGED <<segmentation, viewer>>
  <2>1. UNCHANGED <<runtime, tool, typed, wanted, entities, view, screen>>
    BY <1>3 DEF segmentation, viewer, ProjectorNext, ProjectorStep, ProjectorInput,
       ReadInitialFile,
       StartStream, PollMeasurement, PollGeometry, SignFile, ReadFile, SkipFile, CheckTimeout,
       ObeyCommand, CommandsObeyed, Render, NoKey, ReceiveLatest, PressKey, ReceiveCommand,
       LinkBreaks,
       PressQuit
  <2>2. SegmentationInv' /\ ViewerInv'
    BY <2>1 DEF TableInv, SegmentationInv, ToolTypes, QueueFits, SaveFits, CopiesFit, IsSaved,
       SavedAsTyped, ViewerInv, Fine, Corrected, PictureFitsData
  <2>. QED
    BY <1>3, <2>1, <2>2, ProjectorStepKeeps DEF TableInv, SegmentationInv
<1>4. CASE ViewerNext /\ UNCHANGED <<segmentation, projector>>
  <2>1. UNCHANGED <<runtime, tool, typed, wanted, entities, source, inbox, loop, shown,
                    adjusted>>
    BY <1>4 DEF segmentation, projector, ViewerNext, ViewerStep, ViewerInput, StartViewer,
       SnapshotRaises,
       ViewerEnds, DrawFrame, Expire, OtherKey, SetThickness, ClientConnects, ClientGone,
       ReceiveLine,
       ReceiveOther, ThicknessKey, QuitKey
  <2>2. SegmentationInv'
    BY <2>1 DEF TableInv, SegmentationInv, ToolTypes, QueueFits, SaveFits, CopiesFit, IsSaved,
       SavedAsTyped
  <2>3. ProjectorInv'
    BY <2>1 DEF TableInv, ProjectorInv, SourceTypes, DataFit, ReadsFit, Fine, IsSaved,
       ThicknessFitsSource, Active, GhActive
  <2>. QED
    BY <1>4, <2>1, <2>2, <2>3, ViewerStepKeeps DEF TableInv, SegmentationInv
<1>. QED
  BY <1>1, <1>2, <1>3, <1>4 DEF TableNext

LEMMA TableInvariance == TableSpec => []TableInv
BY TableStarts, TableStep, PTL DEF TableSpec

(* However far the loop is behind the terminal, a measurement is saved     *)
(* with the thickness that had been typed when its save was                *)
(* (timber_segmentation_angetube.py, run and _save_outputs).               *)
THEOREM ThicknessAsTyped == TableSpec => []SavedAsTyped
<1>1. TableInv => SavedAsTyped
  BY DEF TableInv, SegmentationInv
<1>. QED
  BY TableInvariance, <1>1, PTL

(* Wherever the operation died, what a projector shows from a file is of   *)
(* an entity whose artifacts had all been written.                         *)
THEOREM OnlySavedIsShown == TableSpec => []OnTableIsSaved
<1>1. TableInv => OnTableIsSaved
  BY DEF TableInv, ProjectorInv, DataFit, ViewerInv, Fine, IsSaved, OnTableIsSaved
<1>. QED
  BY TableInvariance, <1>1, PTL

(* In both programs, whatever came from files, stream, Grasshopper and     *)
(* operator in between, a picture is corrected by the thickness of what is *)
(* in it.                                                                  *)
THEOREM PictureIsCorrected == TableSpec => []CorrectedAsMeasured
<1>1. TableInv => CorrectedAsMeasured
  BY DEF TableInv, ProjectorInv, ViewerInv, CorrectedAsMeasured
<1>. QED
  BY TableInvariance, <1>1, PTL
=============================================================================
