-------------------------- MODULE SensingStreamProofs --------------------------
(***************************************************************************)
(* Theorems of SensingCapture and StreamHub, the composer of measurements  *)
(* and the host their stream goes through: what a save leaves on the disk, *)
(* for any ids, artifacts, frames, commands, crashes and failing writes;   *)
(* and what a subscriber shows, for any subscribers, values and            *)
(* connections.                                                            *)
(***************************************************************************)
EXTENDS SensingCapture, StreamHub, TLAPS

-----------------------------------------------------------------------------
(* The composer.                                                           *)

(* Every id given out carries a number the counter has on disk; nothing is *)
(* on disk for an id not yet given out; a capture saves its own id once.   *)
IdsFit ==
  /\ \A id \in reserved : id[1] <= counter
  /\ saved \subseteq reserved
  /\ active # None => active \in reserved \ saved
  /\ \A id \in Ids \ reserved : \A i \in DOMAIN Artifacts : files[id][i] = Missing

(* The measurement kept in memory is the one of the runtime file, and only *)
(* a capture that is being saved has anything of it among the artifacts.   *)
CaptureFits ==
  /\ active = None => phase = "READY" /\ latest = Missing
  /\ active # None => phase \in {"ACTIVE", "FINALIZING"}
  /\ latest # Missing => latest = live[active]
  /\ phase # "FINALIZING" => frozen = Missing /\ ~created
  /\ phase = "ACTIVE" => \A i \in DOMAIN Artifacts : files[active][i] = Missing
  /\ phase = "FINALIZING" => frozen # Missing /\ frozen = live[active]
  /\ created => entity[active] = "registered"

(* What each place of the loop may rely on.                                *)
LoopFits ==
  /\ at \in {"execute", "done", "failed", "create", "manifest", "register", "write"} =>
       command \in Commands
  /\ at = "reserve" => active = None
  /\ at = "record" => phase = "ACTIVE"
  /\ at \in {"create", "manifest", "register", "write"} => phase = "FINALIZING"
  /\ at \in {"create", "manifest", "register"} => ~created /\ written = 0
  /\ at = "write" => created /\ \A i \in 1..written : files[active][i] # Missing

CaptureInv ==
  /\ TypeOK /\ IdsFit /\ CaptureFits /\ LoopFits
  /\ OneFrame /\ SavedIsComplete /\ IncompleteIsPending

Entities == <<active, phase, latest, frozen, created, entity, files, live, reserved, saved, lost>>

-----------------------------------------------------------------------------
LEMMA NoneIsNoId == None \notin Ids
BY DEF None, Ids

LEMMA ArtifactNumbers == Len(Artifacts) \in Nat \ {0} /\ DOMAIN Artifacts = 1..Len(Artifacts)
BY ArtifactsAssumption

LEMMA CommandIsBy ==
  ASSUME NEW c \in Commands
  PROVE  c.by \in {"typed", "stream"} /\ c.kind \in Kinds /\ (c.by = "stream" => c.n \in 1..MaxCommands)
BY DEF Commands

LEMMA NewIdsAreNew ==
  ASSUME TypeOK, IdsFit, NEW token \in Tokens, counter < MaxSequence
  PROVE  <<counter + 1, token>> \in Ids \ reserved
BY BoundsAssumption DEF TypeOK, IdsFit, Ids

LEMMA CaptureInit == Init => CaptureInv
<1> SUFFICES ASSUME Init PROVE CaptureInv
  OBVIOUS
<1>1. TypeOK
  <2>1. 0 \in Shots /\ 0 \in 0..Len(Artifacts) /\ 0 \in 0..MaxSequence /\ 0 \in 0..MaxCommands
        /\ 0 \in 0..MaxStarts /\ Missing = 0
    BY BoundsAssumption, ArtifactNumbers DEF Shots, Missing
  <2>2. /\ typed \in Seq(Commands) /\ inbox \in Seq(Commands) /\ Len(inbox) <= QueueSize
        /\ command \in Commands \cup {NoCommand} /\ at \in Places
    BY BoundsAssumption DEF Init, Places
  <2>3. /\ entity \in [Ids -> {"none", "directory", "manifest", "registered"}]
        /\ files \in [Ids -> [DOMAIN Artifacts -> Shots]] /\ live \in [Ids -> Shots]
        /\ answers \in [1..MaxCommands -> {"none", "done", "failed", "full"}]
    BY <2>1 DEF Init
  <2>4. /\ {paused, stopping, created, keyboard, link} \subseteq BOOLEAN
        /\ {latest, frozen} \subseteq Shots /\ {reserved, saved, lost} \subseteq SUBSET Ids
    BY <2>1 DEF Init
  <2>. QED
    BY <2>1, <2>2, <2>3, <2>4 DEF Init, TypeOK
<1>2. IdsFit /\ CaptureFits /\ LoopFits
  BY DEF Init, IdsFit, CaptureFits, LoopFits
<1>3. OneFrame /\ SavedIsComplete /\ IncompleteIsPending
  BY DEF Init, OneFrame, SavedIsComplete, IncompleteIsPending
<1>. QED
  BY <1>1, <1>2, <1>3 DEF CaptureInv

(* What a step that leaves the capture and the disk alone keeps.           *)
LEMMA CaptureUntouched ==
  ASSUME CaptureInv, UNCHANGED Entities, UNCHANGED counter
  PROVE  IdsFit' /\ CaptureFits' /\ OneFrame' /\ SavedIsComplete' /\ IncompleteIsPending'
BY DEF CaptureInv, Entities, IdsFit, CaptureFits, OneFrame, SavedIsComplete,
   IncompleteIsPending,
       Complete

LEMMA OutsideKeeps ==
  ASSUME CaptureInv,
         \/ Start \/ LoseLink
         \/ \E kind \in Kinds : TypeCommand(kind) \/ ReceiveCommand(kind)
  PROVE  CaptureInv'
<1>1. UNCHANGED Entities /\ UNCHANGED counter
  BY DEF Entities, Start, LoseLink, TypeCommand, ReceiveCommand, memory, queues, disk, history
<1>2. TypeOK'
  <2>1. CASE Start \/ LoseLink
    <3>1. starts' \in 0..MaxStarts /\ at' \in Places /\ link' \in BOOLEAN
      <4>1. starts \in 0..MaxStarts /\ MaxStarts \in Nat /\ at \in Places
        BY BoundsAssumption DEF CaptureInv, TypeOK
      <4>2. starts' = starts \/ (starts < MaxStarts /\ starts' = starts + 1)
        BY <2>1 DEF Start, LoseLink
      <4>3. at' = at \/ at' = "typed"
        BY <2>1 DEF Start, LoseLink
      <4>4. link' \in BOOLEAN
        BY <2>1 DEF Start, LoseLink
      <4>. QED
        BY <4>1, <4>2, <4>3, <4>4 DEF Places
    <3>2. UNCHANGED <<memory, keyboard, typed, inbox, disk, shots, commands, history>>
      BY <2>1 DEF Start, LoseLink
    <3>. QED
      BY <3>1, <3>2 DEF CaptureInv, TypeOK, memory, disk, history
  <2>2. ASSUME NEW kind \in Kinds, TypeCommand(kind)
        PROVE  TypeOK'
    <3>1. [by |-> "typed", kind |-> kind] \in Commands
      BY DEF Commands
    <3>2. typed' \in Seq(Commands)
      BY <2>2, <3>1 DEF TypeCommand, CaptureInv, TypeOK
    <3>3. commands' \in 0..MaxCommands
      BY <2>2, BoundsAssumption DEF TypeCommand, CaptureInv, TypeOK
    <3>. QED
      BY <2>2, <3>2, <3>3 DEF CaptureInv, TypeOK, TypeCommand, memory, disk, history
  <2>3. ASSUME NEW kind \in Kinds, ReceiveCommand(kind)
        PROVE  TypeOK'
    <3>1. commands' \in 0..MaxCommands /\ commands' \in 1..MaxCommands
      BY <2>3, BoundsAssumption DEF ReceiveCommand, CaptureInv, TypeOK
    <3>2. [by |-> "stream", kind |-> kind, n |-> commands'] \in Commands
      BY <3>1 DEF Commands
    <3>3. inbox' \in Seq(Commands) /\ Len(inbox') <= QueueSize
      <4>1. inbox \in Seq(Commands) /\ Len(inbox) <= QueueSize
        BY DEF CaptureInv, TypeOK
      <4>2. CASE Len(inbox) < QueueSize
        <5>1. inbox' = Append(inbox, [by |-> "stream", kind |-> kind, n |-> commands'])
          BY <2>3, <4>2 DEF ReceiveCommand
        <5>. QED
          BY <3>2, <4>1, <4>2, <5>1, BoundsAssumption
      <4>3. CASE ~(Len(inbox) < QueueSize)
        BY <2>3, <4>1, <4>3 DEF ReceiveCommand
      <4>. QED
        BY <4>2, <4>3
    <3>4. answers' \in [1..MaxCommands -> {"none", "done", "failed", "full"}]
      BY <2>3, <3>1 DEF ReceiveCommand, CaptureInv, TypeOK
    <3>. QED
      BY <2>3, <3>1, <3>3, <3>4 DEF CaptureInv, TypeOK, ReceiveCommand, memory, disk, history
  <2>. QED
    BY <2>1, <2>2, <2>3
<1>3. LoopFits'
  BY <1>1 DEF Entities, CaptureInv, LoopFits, Start, LoseLink, TypeCommand, ReceiveCommand,
     memory,
     queues, disk, history
<1>. QED
  BY <1>1, <1>2, <1>3, CaptureUntouched DEF CaptureInv

(* The loop takes a command, carries it out if it is no save, and answers. *)
LEMMA CommandsKeep ==
  ASSUME CaptureInv, TakeTyped \/ TakeStream \/ Execute \/ Answer \/ AnswerLost
  PROVE  CaptureInv'
<1>1. UNCHANGED Entities /\ UNCHANGED counter
  BY DEF Entities, TakeTyped, TakeStream, Execute, Answer, AnswerLost, queues, disk, history
<1>2. CASE TakeTyped
  <2>1. typed # <<>> => Head(typed) \in Commands /\ Tail(typed) \in Seq(Commands)
    BY DEF CaptureInv, TypeOK
  <2>2. TypeOK'
    BY <1>2, <2>1 DEF CaptureInv, TypeOK, TakeTyped, disk, history, Places
  <2>3. LoopFits'
    BY <1>2, <2>1 DEF CaptureInv, LoopFits, TakeTyped, disk
  <2>. QED
    BY <1>1, <2>2, <2>3, CaptureUntouched DEF CaptureInv
<1>3. CASE TakeStream
  <2>1. inbox # <<>> => Head(inbox) \in Commands /\ Tail(inbox) \in Seq(Commands)
                        /\ Len(Tail(inbox)) <= QueueSize
    BY BoundsAssumption DEF CaptureInv, TypeOK
  <2>2. TypeOK'
    BY <1>3, <2>1 DEF CaptureInv, TypeOK, TakeStream, disk, history, Places
  <2>3. LoopFits'
    BY <1>3, <2>1 DEF CaptureInv, LoopFits, TakeStream, disk
  <2>. QED
    BY <1>1, <2>2, <2>3, CaptureUntouched DEF CaptureInv
<1>4. CASE Execute
  <2>1. {paused', stopping'} \subseteq BOOLEAN /\ at' \in {"done", "failed"}
    BY <1>4 DEF CaptureInv, TypeOK, Execute
  <2>2. TypeOK'
    BY <1>4, <2>1 DEF CaptureInv, TypeOK, Execute, queues, disk, history, Places
  <2>3. LoopFits'
    BY <1>4, <2>1 DEF CaptureInv, LoopFits, Execute, queues, disk
  <2>. QED
    BY <1>1, <2>2, <2>3, CaptureUntouched DEF CaptureInv
<1>5. CASE Answer
  <2>1. command \in Commands /\ command.by \in {"typed", "stream"}
    BY <1>5, CommandIsBy DEF Answer, CaptureInv, LoopFits
  <2>2. answers' \in [1..MaxCommands -> {"none", "done", "failed", "full"}]
    BY <1>5, <2>1, CommandIsBy DEF Answer, CaptureInv, TypeOK
  <2>3. TypeOK'
    BY <1>5, <2>1, <2>2 DEF CaptureInv, TypeOK, Answer, queues, disk, history, Places
  <2>4. LoopFits'
    BY <1>5, <2>1 DEF CaptureInv, LoopFits, Answer, queues, disk
  <2>. QED
    BY <1>1, <2>3, <2>4, CaptureUntouched DEF CaptureInv
<1>6. CASE AnswerLost
  <2>1. TypeOK'
    BY <1>6 DEF CaptureInv, TypeOK, AnswerLost, queues, disk, history, Places
  <2>2. LoopFits'
    BY <1>6 DEF CaptureInv, LoopFits, AnswerLost, queues, disk
  <2>. QED
    BY <1>1, <2>1, <2>2, CaptureUntouched DEF CaptureInv
<1>. QED
  BY <1>2, <1>3, <1>4, <1>5, <1>6

(* A write that raises leaves the save where it was; a frame that no file  *)
(* is written for leaves the capture.                                      *)
LEMMA FailuresKeep ==
  ASSUME CaptureInv, Raise \/ Capture \/ FrameRaises
  PROVE  CaptureInv'
<1>1. UNCHANGED Entities /\ UNCHANGED counter
  BY DEF Entities, Raise, Capture, FrameRaises, memory, disk, history
<1>2. TypeOK'
  BY BoundsAssumption DEF CaptureInv, TypeOK, Raise, Capture, FrameRaises, memory, queues,
     disk, history, Places,
     Shots
<1>3. CASE Raise \/ FrameRaises
  <2>1. LoopFits'
    BY <1>3 DEF CaptureInv, LoopFits, Raise, FrameRaises, memory, disk
  <2>. QED
    BY <1>1, <1>2, <2>1, CaptureUntouched DEF CaptureInv
<1>4. CASE Capture
  <2>1. \/ at' = "typed"
        \/ at' = "reserve" /\ active = None
        \/ at' = "record" /\ active # None /\ phase # "FINALIZING"
    BY <1>4 DEF Capture, ProcessFrame
  <2>2. LoopFits'
    BY <1>4, <2>1 DEF CaptureInv, LoopFits, CaptureFits, Capture, memory, disk
  <2>. QED
    BY <1>1, <1>2, <2>2, CaptureUntouched DEF CaptureInv
<1>. QED
  BY <1>3, <1>4

(* The process goes: what it was capturing counts as lost.                 *)
LEMMA EndsKeeps ==
  ASSUME CaptureInv, Crash \/ Stop \/ AnswerRaises
  PROVE  CaptureInv'
<1>1. Ends
  BY DEF Crash, Stop, AnswerRaises
<1>2. lost' \subseteq Ids /\ lost \subseteq lost' /\ (active # None => active \in lost')
  BY <1>1 DEF Ends, CaptureInv, TypeOK
<1>3. TypeOK'
  <2>1. 0 \in Shots /\ 0 \in 0..Len(Artifacts) /\ Missing = 0
    BY BoundsAssumption, ArtifactNumbers DEF Shots, Missing
  <2>2. typed' \in Seq(Commands) /\ inbox' \in Seq(Commands) /\ Len(inbox') <= QueueSize
    BY <1>1, BoundsAssumption DEF Ends
  <2>. QED
    BY <1>1, <1>2, <2>1, <2>2 DEF Ends, CaptureInv, TypeOK, Places, disk
<1>4. IdsFit' /\ CaptureFits' /\ LoopFits'
  BY <1>1 DEF Ends, CaptureInv, IdsFit, CaptureFits, LoopFits, disk
<1>5. OneFrame' /\ SavedIsComplete'
  BY <1>1 DEF Ends, CaptureInv, OneFrame, SavedIsComplete, Complete, disk
<1>6. IncompleteIsPending'
  BY <1>1, <1>2, NoneIsNoId DEF Ends, CaptureInv, IncompleteIsPending, Complete, disk
<1>. QED
  BY <1>3, <1>4, <1>5, <1>6 DEF CaptureInv

LEMMA SaveKeeps ==
  ASSUME CaptureInv, Save
  PROVE  CaptureInv'
<1>1. CASE active = None \/ latest = Missing
  <2>1. UNCHANGED Entities /\ UNCHANGED counter /\ TypeOK'
    BY <1>1 DEF Save, Entities, CaptureInv, TypeOK, Places, queues, disk, history
  <2>2. LoopFits'
    BY <1>1 DEF Save, CaptureInv, LoopFits, disk
  <2>. QED
    BY <2>1, <2>2, CaptureUntouched DEF CaptureInv
<1>2. CASE ~(active = None \/ latest = Missing)
  <2>1. /\ phase' = "FINALIZING" /\ written' = 0
        /\ frozen' # Missing /\ frozen' = live[active] /\ frozen' \in Shots
        /\ at' = IF created THEN "write" ELSE "create"
        /\ UNCHANGED <<active, latest, created, entity, files, live, counter, reserved, saved,
                       lost>>
        /\ at' \in {"write", "create"} /\ UNCHANGED command /\ command \in Commands
    BY <1>2 DEF Save, CaptureInv, CaptureFits, LoopFits, TypeOK, disk, history
  <2>2. TypeOK'
    BY <1>2, <2>1, ArtifactNumbers DEF Save, CaptureInv, TypeOK, Places, queues, disk, history
  <2>3. IdsFit' /\ CaptureFits' /\ LoopFits'
    BY <1>2, <2>1 DEF CaptureInv, IdsFit, CaptureFits, LoopFits
  <2>4. OneFrame' /\ SavedIsComplete' /\ IncompleteIsPending'
    BY <2>1 DEF CaptureInv, OneFrame, SavedIsComplete, IncompleteIsPending, CaptureFits,
       Complete
  <2>. QED
    BY <2>2, <2>3, <2>4 DEF CaptureInv
<1>. QED
  BY <1>1, <1>2

(* The three writes of create_entity.                                      *)
LEMMA CreateKeeps ==
  ASSUME CaptureInv, CreateDirectory \/ WriteManifest \/ RegisterEntity
  PROVE  CaptureInv'
<1>1. /\ active \in Ids /\ active \notin saved /\ phase = "FINALIZING"
      /\ command \in Commands
  BY NoneIsNoId DEF CreateDirectory, WriteManifest, RegisterEntity, CaptureInv, TypeOK,
     IdsFit, CaptureFits, LoopFits
<1>2. PICK how \in {"directory", "manifest", "registered"} :
        /\ entity' = [entity EXCEPT ![active] = how]
        /\ how = "registered" => created' = TRUE
        /\ how # "registered" => created' = created /\ at' # "write"
        /\ how = "directory" => entity[active] = "none"
        /\ how = "manifest" => at = "manifest"
        /\ at' \in {"manifest", "register", "write"}
        /\ at' = "write" => how = "registered"
  BY DEF CreateDirectory, WriteManifest, RegisterEntity, memory
<1>3. UNCHANGED <<active, phase, latest, frozen, command, written, files, live, counter,
                  reserved, saved, lost>>
  BY DEF CreateDirectory, WriteManifest, RegisterEntity, memory, disk, history
<1>4. entity' \in [Ids -> {"none", "directory", "manifest", "registered"}]
  BY <1>2 DEF CaptureInv, TypeOK
<1>5. at' \in Places /\ {paused', stopping', created', keyboard', link'} \subseteq BOOLEAN
  BY <1>2 DEF CreateDirectory, WriteManifest, RegisterEntity, CaptureInv, TypeOK, Places,
     memory, queues
<1>6. TypeOK'
  BY <1>3, <1>4, <1>5 DEF CreateDirectory, WriteManifest, RegisterEntity, CaptureInv, TypeOK,
     memory,
     queues, history
<1>7. ~created /\ entity'[active] = how
  BY <1>1, <1>2 DEF CreateDirectory, WriteManifest, RegisterEntity, CaptureInv, LoopFits, TypeOK
<1>8. IdsFit' /\ CaptureFits'
  BY <1>1, <1>2, <1>3, <1>7 DEF CaptureInv, IdsFit, CaptureFits
<1>9. LoopFits'
  <2>1. at' = "write" => written = 0 /\ created' = TRUE
    BY <1>1, <1>2, <1>7 DEF CreateDirectory, WriteManifest, RegisterEntity, CaptureInv, LoopFits
  <2>2. at' # "write" => written = 0 /\ created' = FALSE
    BY <1>2, <1>7 DEF CreateDirectory, WriteManifest, RegisterEntity, CaptureInv, LoopFits,
       memory
  <2>3. \A i \in 1..0 : FALSE
    OBVIOUS
  <2>. QED
    BY <1>1, <1>2, <1>3, <2>1, <2>2, <2>3 DEF LoopFits
<1>10. OneFrame' /\ SavedIsComplete'
  BY <1>1, <1>2, <1>3 DEF CaptureInv, OneFrame, SavedIsComplete, Complete, IdsFit, TypeOK
<1>11. IncompleteIsPending'
  BY <1>1, <1>2, <1>3, <1>4, <1>7 DEF CaptureInv, IncompleteIsPending, Complete, TypeOK
<1>. QED
  BY <1>6, <1>8, <1>9, <1>10, <1>11 DEF CaptureInv

LEMMA WriteArtifactKeeps ==
  ASSUME CaptureInv, WriteArtifact
  PROVE  CaptureInv'
<1>1. /\ active \in Ids /\ phase = "FINALIZING" /\ frozen \in Shots \ {Missing} /\ frozen = live[active]
      /\ written + 1 \in DOMAIN Artifacts /\ written' = written + 1 /\ written' \in 0..Len(Artifacts)
      /\ written \in Nat /\ active \notin saved /\ created
  BY NoneIsNoId, ArtifactNumbers DEF WriteArtifact, CaptureInv, TypeOK, IdsFit, CaptureFits,
     LoopFits
<1>2. /\ files' \in [Ids -> [DOMAIN Artifacts -> Shots]]
      /\ files'[active][written + 1] = frozen
      /\ \A i \in DOMAIN Artifacts : i # written + 1 => files'[active][i] = files[active][i]
      /\ \A id \in Ids : id # active => files'[id] = files[id]
  BY <1>1 DEF WriteArtifact, CaptureInv, TypeOK
<1>3. UNCHANGED <<at, active, phase, latest, frozen, created, command, entity, live, counter,
                  reserved, saved, lost>>
  BY DEF WriteArtifact, history
<1>4. TypeOK'
  BY <1>1, <1>2 DEF WriteArtifact, CaptureInv, TypeOK, queues, history
<1>5. IdsFit' /\ CaptureFits'
  BY <1>1, <1>2, <1>3 DEF CaptureInv, IdsFit, CaptureFits
<1>6. LoopFits'
  <2>1. \A i \in 1..written' : files'[active][i] # Missing
    BY <1>1, <1>2, ArtifactNumbers DEF CaptureInv, LoopFits, WriteArtifact
  <2>. QED
    BY <1>3, <1>1, <2>1 DEF CaptureInv, LoopFits
<1>7. OneFrame' /\ SavedIsComplete'
  <2>1. \A id \in Ids : \A i \in DOMAIN Artifacts :
          files'[id][i] = files[id][i] \/ (files'[id][i] = frozen /\ id = active)
    <3>1. SUFFICES ASSUME NEW id \in Ids, NEW i \in DOMAIN Artifacts
                   PROVE  files'[id][i] = files[id][i] \/ (files'[id][i] = frozen /\ id = active)
      OBVIOUS
    <3>2. CASE id # active
      BY <1>2, <3>2
    <3>3. CASE id = active /\ i # written + 1
      BY <1>2, <3>3
    <3>4. CASE id = active /\ i = written + 1
      BY <1>2, <3>4
    <3>. QED
      BY <3>2, <3>3, <3>4
  <2>2. OneFrame'
    BY <1>1, <1>3, <2>1 DEF CaptureInv, OneFrame
  <2>3. saved \subseteq Ids
    BY DEF CaptureInv, TypeOK
  <2>4. SavedIsComplete'
    BY <1>1, <1>3, <2>1, <2>3 DEF CaptureInv, SavedIsComplete, Complete
  <2>. QED
    BY <2>2, <2>4
<1>8. IncompleteIsPending'
  BY <1>1, <1>2, <1>3 DEF CaptureInv, IncompleteIsPending, Complete, TypeOK
<1>. QED
  BY <1>4, <1>5, <1>6, <1>7, <1>8 DEF CaptureInv

(* The last write is done: the entity is registered and has them all.      *)
LEMMA SavedKeeps ==
  ASSUME CaptureInv, Saved
  PROVE  CaptureInv'
<1>1. /\ active \in Ids /\ active \in reserved /\ phase = "FINALIZING" /\ created
      /\ Complete(active)
  BY NoneIsNoId, ArtifactNumbers
  DEF Saved, CaptureInv, TypeOK, IdsFit, CaptureFits, LoopFits, Complete
<1>2. UNCHANGED <<command, written, entity, files, live, counter, reserved,
                  lost>> /\ saved' = saved \cup {active}
  BY DEF Saved, disk
<1>3. TypeOK'
  <2>1. 0 \in Shots /\ Missing = 0
    BY BoundsAssumption DEF Shots, Missing
  <2>. QED
    BY <1>1, <2>1 DEF Saved, CaptureInv, TypeOK, Places, queues, disk
<1>4. IdsFit' /\ CaptureFits' /\ LoopFits'
  BY <1>1, <1>2 DEF Saved, CaptureInv, IdsFit, CaptureFits, LoopFits
<1>5. OneFrame' /\ SavedIsComplete' /\ IncompleteIsPending'
  BY <1>1, <1>2 DEF CaptureInv, OneFrame, SavedIsComplete, IncompleteIsPending, Complete
<1>. QED
  BY <1>3, <1>4, <1>5 DEF CaptureInv

LEMMA ReserveKeeps ==
  ASSUME CaptureInv, NEW token \in Tokens, Reserve(token)
  PROVE  CaptureInv' /\ active' \notin reserved
<1> DEFINE id == <<counter + 1, token>>
<1>1. /\ active = None /\ id \in Ids \ reserved /\ active' = id /\ reserved' = reserved \cup {id}
      /\ counter' = counter + 1 /\ counter' \in 0..MaxSequence /\ counter \in Nat
      /\ entity[id] # "registered" /\ phase' = "ACTIVE" /\ at' = "record" /\ latest = Missing
      /\ frozen = Missing /\ ~created /\ id[1] = counter + 1
  BY NewIdsAreNew, BoundsAssumption DEF Reserve, CaptureInv, TypeOK, LoopFits, CaptureFits
<1>2. UNCHANGED <<latest, frozen, created, written, command, entity, files, live, saved, lost>>
  BY DEF Reserve
<1>3. TypeOK'
  <2>1. active' \in Ids /\ reserved' \subseteq Ids
    BY <1>1 DEF CaptureInv, TypeOK
  <2>2. at' \in Places /\ phase' \in {"READY", "ACTIVE", "FINALIZING"}
    BY <1>1 DEF Places
  <2>3. counter' \in 0..MaxSequence
    BY <1>1
  <2>. QED
    BY <1>2, <2>1, <2>2, <2>3, Zenon DEF Reserve, CaptureInv, TypeOK, queues
<1>4. IdsFit'
  <2>1. \A other \in reserved' : other[1] <= counter'
    <3>1. \A other \in reserved : other[1] \in Nat
      BY DEF CaptureInv, TypeOK, Ids
    <3>. QED
      BY <1>1, <3>1 DEF CaptureInv, IdsFit
  <2>. QED
    BY <1>1, <1>2, <2>1 DEF CaptureInv, IdsFit
<1>5. CaptureFits' /\ LoopFits'
  BY <1>1, <1>2, NoneIsNoId DEF CaptureInv, CaptureFits, LoopFits, IdsFit
<1>6. OneFrame' /\ SavedIsComplete' /\ IncompleteIsPending'
  BY <1>1, <1>2, NoneIsNoId
  DEF CaptureInv, OneFrame, SavedIsComplete, IncompleteIsPending, Complete
<1>. QED
  BY <1>1, <1>3, <1>4, <1>5, <1>6 DEF CaptureInv

LEMMA RecordKeeps ==
  ASSUME CaptureInv, Record
  PROVE  CaptureInv'
<1>1. /\ active \in Ids /\ phase = "ACTIVE" /\ shots \in Shots /\ latest' = shots
      /\ frozen = Missing /\ ~created
      /\ \A i \in DOMAIN Artifacts : files[active][i] = Missing
  BY NoneIsNoId DEF Record, CaptureInv, TypeOK, LoopFits, CaptureFits
<1>2. /\ live' \in [Ids -> Shots] /\ live'[active] = shots
      /\ \A id \in Ids : id # active => live'[id] = live[id]
  BY <1>1 DEF Record, CaptureInv, TypeOK
<1>3. UNCHANGED <<active, phase, frozen, created, written, command, counter, entity, files,
                  reserved, saved, lost>>
  BY DEF Record, history
<1>4. TypeOK'
  BY <1>1, <1>2 DEF Record, CaptureInv, TypeOK, Places, queues, history
<1>5. IdsFit' /\ CaptureFits' /\ LoopFits'
  BY <1>1, <1>2, <1>3 DEF Record, CaptureInv, IdsFit, CaptureFits, LoopFits
<1>6. OneFrame' /\ SavedIsComplete' /\ IncompleteIsPending'
  BY <1>1, <1>2, <1>3 DEF CaptureInv, OneFrame, SavedIsComplete, IncompleteIsPending, Complete
<1>. QED
  BY <1>4, <1>5, <1>6 DEF CaptureInv

-----------------------------------------------------------------------------
LEMMA CaptureStep == CaptureInv /\ [Next]_vars => CaptureInv'
<1> SUFFICES ASSUME CaptureInv, [Next]_vars PROVE CaptureInv'
  OBVIOUS
<1>1. CASE UNCHANGED vars
  <2>1. UNCHANGED Entities /\ UNCHANGED counter /\ TypeOK' /\ LoopFits'
    BY <1>1 DEF vars, memory, queues, disk, history, Entities, CaptureInv, TypeOK, LoopFits
  <2>. QED
    BY <2>1, CaptureUntouched DEF CaptureInv
<1>2. CASE Loop
  BY <1>2, CommandsKeep, FailuresKeep, EndsKeeps, SaveKeeps, CreateKeeps, WriteArtifactKeeps,
     SavedKeeps, ReserveKeeps, RecordKeeps DEF Loop
<1>. QED
  BY <1>1, <1>2, OutsideKeeps, EndsKeeps DEF Next

(* What every place of the composer's loop may rely on, and what a crash   *)
(* there leaves on the disk (EWoodXSensingComposer.run).                   *)
THEOREM CaptureInvariance == Spec => []CaptureInv
BY CaptureInit, CaptureStep, PTL DEF Spec

(* Every part of the composer keeps its type and bound, whatever raises or *)
(* ends it.                                                                *)
THEOREM CaptureTypeCorrect == Spec => []TypeOK
<1>1. CaptureInv => TypeOK
  BY DEF CaptureInv
<1>. QED
  BY CaptureInvariance, <1>1, PTL

(* finalize works from the result frozen at its first try: however many    *)
(* frames come between tries that fail, and wherever the process dies, the *)
(* artifacts of an entity show the frame of its runtime measurement.       *)
THEOREM ArtifactsOfOneFrame == Spec => []OneFrame
<1>1. CaptureInv => OneFrame
  BY DEF CaptureInv
<1>. QED
  BY CaptureInvariance, <1>1, PTL

(* A save that is answered with success has registered the entity and      *)
(* written every artifact, also when earlier tries raised between them.    *)
THEOREM SavesAreComplete == Spec => []SavedIsComplete
<1>1. CaptureInv => SavedIsComplete
  BY DEF CaptureInv
<1>. QED
  BY CaptureInvariance, <1>1, PTL

(* create_entity and the writes after it are no transaction: what one of   *)
(* them leaves incomplete is still to be completed by the running process, *)
(* or the process ended first.                                             *)
THEOREM NothingHalfSaved == Spec => []IncompleteIsPending
<1>1. CaptureInv => IncompleteIsPending
  BY DEF CaptureInv
<1>. QED
  BY CaptureInvariance, <1>1, PTL

(* A capture gets an id by allocate alone, and the number in it is above   *)
(* every one on the disk.                                                  *)
LEMMA OnlyReserveTakes ==
  ASSUME CaptureInv, [Next]_vars, active' # active, active' # None
  PROVE  active' \notin reserved
<1>1. PICK token \in Tokens : Reserve(token)
  BY DEF Next, Loop, vars, memory, queues, disk, history, Start, Crash, Stop, AnswerRaises,
     Ends, LoseLink,
     TypeCommand, ReceiveCommand, TakeTyped, TakeStream, Execute, Answer, AnswerLost, Save,
     Raise,
     CreateDirectory, WriteManifest, RegisterEntity, WriteArtifact, Saved, Capture, Record,
     FrameRaises
<1>. QED
  BY <1>1, ReserveKeeps

(* The counter is saved before the id is used: no crash makes allocate     *)
(* give out an id that an earlier capture had.                             *)
THEOREM IdsReservedOnce == Spec => ReservedOnce
<1>1. CaptureInv /\ [Next]_vars => [active' # active /\ active' # None => active' \notin reserved]_vars
  BY OnlyReserveTakes
<1>. QED
  BY CaptureInvariance, <1>1, PTL DEF Spec, ReservedOnce

-----------------------------------------------------------------------------
(* The stream host: what a thread of a subscriber's connection and that of *)
(* the publisher's hold.                                                   *)
Serving == {Idle, [at |-> "add"]} \cup [at : {"send"}, value : Values]
             \cup [at : {"prune"}, connected : SUBSET Subscribers]
Routing == [at : {"prune", "cache", "send"}, value : Values, connected : SUBSET Subscribers,
            to : SUBSET Subscribers]

HubTypes ==
  /\ outgoing \in 0..MaxValue /\ sender \in 0..MaxValue /\ sent \in 0..MaxValue
  /\ cached \in 0..MaxValue /\ connects \in 0..MaxConnects
  /\ toHost \in Seq(Values)
  /\ registered \subseteq Subscribers /\ subs \subseteq Subscribers /\ overlapped \subseteq Subscribers
  /\ wants \subseteq registered
  /\ route \in {Idle} \cup Routing /\ serve \in [Subscribers -> Serving]
  /\ requests \in [Subscribers -> Seq({"subscribe", "unsubscribe"})]
  /\ values \in [Subscribers -> Seq(Values)] /\ shown \in [Subscribers -> 0..MaxValue]

(* Nothing is on the way to or from a subscriber that is not connected,    *)
(* and one that wants the topic has asked once since it connected.         *)
LinesFit ==
  \A a \in Subscribers :
    /\ a \notin registered => requests[a] = <<>> /\ values[a] = <<>>
    /\ a \in wants => requests[a] \in {<<>>, <<"subscribe">>}

(* Before anything was routed nothing was sent; what is being routed is    *)
(* what the host has.                                                      *)
CachedFits ==
  /\ cached = 0 =>
       /\ route.at # "send"
       /\ \A a \in Subscribers : shown[a] = 0 /\ values[a] = <<>> /\ serve[a].at # "send"
  /\ route.at = "send" => route.value = cached

Coming(a) == IF values[a] = <<>> THEN shown[a] ELSE values[a][Len(values[a])]

(* A subscriber that joined in turn: nothing is routed while its own       *)
(* request is served, no thread that looked at the connections before it   *)
(* was there prunes it, and when its request has been served it has the    *)
(* host's value, or that is on its way, or about to be sent.               *)
InTurn(a) ==
  /\ serve[a] # Idle => route = Idle
  /\ serve[a].at = "send" => serve[a].value = cached
  /\ a \in registered =>
       /\ route.at = "prune" => a \in route.connected
       /\ \A b \in Subscribers : serve[b].at = "prune" => a \in serve[b].connected
  /\ a \in wants /\ requests[a] = <<>> =>
       /\ serve[a].at \in {"idle", "send"} => a \in subs
       /\ serve[a] = Idle => \/ Coming(a) = cached
                             \/ route.at = "send" /\ a \in route.to

HubInv == HubTypes /\ LinesFit /\ CachedFits /\ \A a \in Subscribers \ overlapped : InTurn(a)

LEMMA HubNumbers == Values = (0..MaxValue) \ {0} /\ 0 \in 0..MaxValue /\ 0 \in 0..MaxConnects
BY HubBounds DEF Values

LEMMA Forms ==
  /\ Idle.at = "idle" /\ Idle \notin Routing
  /\ \A r \in Routing : r.at \in {"prune", "cache", "send"}
  /\ \A s \in Serving : /\ s.at \in {"idle", "add", "send", "prune"}
                        /\ s = Idle <=> s.at = "idle"
                        /\ s.at = "send" => s.value \in Values
                        /\ s.at = "prune" => s.connected \subseteq Subscribers
  /\ Idle \in Serving /\ [at |-> "add"] \in Serving
  /\ \A v \in Values : [at |-> "send", value |-> v] \in Serving
  /\ \A s \in SUBSET Subscribers : [at |-> "prune", connected |-> s] \in Serving
BY DEF Idle, Routing, Serving

LEMMA HubStarts == HubInit => HubInv
<1> SUFFICES ASSUME HubInit PROVE HubInv
  OBVIOUS
<1>1. HubTypes
  BY Forms, HubNumbers DEF HubInit, HubTypes
<1>2. LinesFit /\ CachedFits
  BY Forms DEF HubInit, LinesFit, CachedFits
<1>3. \A a \in Subscribers : InTurn(a)
  BY Forms DEF HubInit, InTurn
<1>. QED
  BY <1>1, <1>2, <1>3 DEF HubInv

(* The publisher's own steps reach the host as a value that is no zero.    *)
LEMMA HostUntouched ==
  ASSUME HubInv, HubTypes', UNCHANGED <<connects, registered, subs, cached, route, serve, requests,
                                        values,
                                        wants, shown, overlapped>>
  PROVE  HubInv'
BY DEF HubInv, LinesFit, CachedFits, InTurn, Coming

LEMMA PublisherKeeps ==
  ASSUME HubInv, Publish \/ SenderReads \/ SenderSends
  PROVE  HubInv'
<1>1. outgoing' \in 0..MaxValue /\ sender' \in 0..MaxValue /\ sent' \in 0..MaxValue
  BY HubBounds DEF Publish, SenderReads, SenderSends, HubInv, HubTypes
<1>2. toHost' \in Seq(Values)
  <2>1. toHost \in Seq(Values) /\ sender \in 0..MaxValue
    BY DEF HubInv, HubTypes
  <2>2. CASE SenderSends
    <3>1. sender \in Values /\ toHost' = Append(toHost, sender)
      BY <2>1, <2>2, HubNumbers DEF SenderSends
    <3>. QED
      BY <2>1, <3>1
  <2>3. CASE toHost' = toHost
    BY <2>1, <2>3
  <2>. QED
    BY <2>2, <2>3 DEF Publish, SenderReads
<1>3. UNCHANGED <<connects, registered, subs, cached, route, serve, requests, values, wants, shown,
                  overlapped>>
  BY DEF Publish, SenderReads, SenderSends
<1>4. HubTypes'
  BY <1>1, <1>2, <1>3 DEF HubInv, HubTypes
<1>. QED
  BY <1>3, <1>4, HostUntouched

-----------------------------------------------------------------------------
LEMMA BusyIfServing ==
  ASSUME HubInv, NEW a \in Subscribers, a \notin Busy
  PROVE  route = Idle /\ \A b \in Subscribers : serve[b] = Idle
BY DEF Busy

(* A subscriber that connects while the host is at rest: every thread that *)
(* starts from now on sees it.                                             *)
LEMMA ConnectKeeps ==
  ASSUME HubInv, NEW a \in Subscribers, Connect(a)
  PROVE  HubInv'
<1>1. /\ connects' = connects + 1 /\ connects < MaxConnects
      /\ a \notin registered /\ registered' = registered \cup {a} /\ wants' = wants \cup {a}
      /\ requests' = [requests EXCEPT ![a] = <<"subscribe">>] /\ shown' = [shown EXCEPT ![a] = 0]
      /\ overlapped' = IF a \in Busy THEN overlapped \cup {a} ELSE overlapped \ {a}
      /\ UNCHANGED <<outgoing, sender, sent, toHost, subs, cached, route, serve, values>>
  BY DEF Connect, publisher
<1>2. /\ requests' \in [Subscribers -> Seq({"subscribe", "unsubscribe"})]
      /\ shown' \in [Subscribers -> 0..MaxValue]
      /\ requests'[a] = <<"subscribe">> /\ shown'[a] = 0
      /\ \A c \in Subscribers : c # a => requests'[c] = requests[c] /\ shown'[c] = shown[c]
  BY <1>1, HubNumbers DEF HubInv, HubTypes
<1>3. HubTypes'
  <2>1. connects' \in 0..MaxConnects
    BY <1>1, HubBounds DEF HubInv, HubTypes
  <2>. QED
    BY <1>1, <1>2, <2>1 DEF HubInv, HubTypes
<1>4. LinesFit' /\ CachedFits'
  BY <1>1, <1>2 DEF HubInv, LinesFit, CachedFits
<1>5. ASSUME NEW c \in Subscribers \ overlapped'
      PROVE  InTurn(c)'
  <2>1. CASE c = a
    <3>1. route = Idle /\ \A b \in Subscribers : serve[b] = Idle
      BY <1>1, <1>5, <2>1, BusyIfServing
    <3>. QED
      BY <1>1, <1>2, <2>1, <3>1, Forms DEF InTurn
  <2>2. CASE c # a
    <3>1. InTurn(c)
      BY <1>1, <1>5, <2>2 DEF HubInv
    <3>. QED
      BY <1>1, <1>2, <2>2, <3>1 DEF InTurn, Coming
  <2>. QED
    BY <2>1, <2>2
<1>. QED
  BY <1>3, <1>4, <1>5 DEF HubInv

LEMMA LeavesKeep ==
  ASSUME HubInv, NEW a \in Subscribers, Unsubscribe(a) \/ Disconnect(a)
  PROVE  HubInv'
<1>1. /\ registered' \subseteq registered /\ wants' = wants \ {a}
      /\ \A c \in Subscribers : c # a => (c \in registered' <=> c \in registered)
      /\ UNCHANGED <<connects, outgoing, sender, sent, toHost, subs, cached, route, serve, shown,
                     overlapped>>
  BY DEF Unsubscribe, Disconnect, publisher
<1>2. /\ requests' \in [Subscribers -> Seq({"subscribe", "unsubscribe"})]
      /\ values' \in [Subscribers -> Seq(Values)]
      /\ \A c \in Subscribers : c # a => requests'[c] = requests[c] /\ values'[c] = values[c]
      /\ values'[a] \in {values[a], <<>>}
      /\ a \notin registered' => requests'[a] = <<>> /\ values'[a] = <<>>
  <2>1. CASE Unsubscribe(a)
    <3>1. Append(requests[a], "unsubscribe") \in Seq({"subscribe", "unsubscribe"})
      BY DEF HubInv, HubTypes
    <3>. QED
      BY <2>1, <3>1 DEF Unsubscribe, HubInv, HubTypes
  <2>2. CASE Disconnect(a)
    BY <2>2 DEF Disconnect, HubInv, HubTypes
  <2>. QED
    BY <2>1, <2>2
<1>3. HubTypes'
  <2>1. wants' \subseteq registered'
    BY <1>1 DEF HubInv, HubTypes
  <2>. QED
    BY <1>1, <1>2, <2>1 DEF HubInv, HubTypes
<1>4. LinesFit' /\ CachedFits'
  BY <1>1, <1>2 DEF HubInv, LinesFit, CachedFits
<1>5. ASSUME NEW c \in Subscribers \ overlapped'
      PROVE  InTurn(c)'
  <2>1. InTurn(c)
    BY <1>1, <1>5 DEF HubInv
  <2>2. CASE c = a
    BY <1>1, <2>1, <2>2 DEF InTurn
  <2>3. CASE c # a
    BY <1>1, <1>2, <2>1, <2>3 DEF InTurn, Coming
  <2>. QED
    BY <2>2, <2>3
<1>. QED
  BY <1>3, <1>4, <1>5 DEF HubInv

(* What a subscriber takes from its stream was the last in it, or not.     *)
LEMMA ReceiveKeeps ==
  ASSUME HubInv, NEW a \in Subscribers, Receive(a)
  PROVE  HubInv'
<1>1. /\ values[a] \in Seq(Values) /\ values[a] # <<>>
      /\ shown' = [shown EXCEPT ![a] = Head(values[a])]
      /\ values' = [values EXCEPT ![a] = Tail(values[a])]
      /\ UNCHANGED <<connects, outgoing, sender, sent, toHost, registered, subs, cached, route, serve,
                     requests,
                     wants, overlapped>>
  BY DEF Receive, publisher, HubInv, HubTypes
<1>2. /\ values' \in [Subscribers -> Seq(Values)] /\ shown' \in [Subscribers -> 0..MaxValue]
      /\ values'[a] = Tail(values[a]) /\ shown'[a] = Head(values[a])
      /\ \A c \in Subscribers : c # a => values'[c] = values[c] /\ shown'[c] = shown[c]
  BY <1>1, HubNumbers DEF HubInv, HubTypes
<1>3. Coming(a)' = Coming(a)
  <2>1. CASE Tail(values[a]) = <<>>
    <3>. DEFINE s == values[a]
    <3>0. s \in Seq(Values) /\ s # <<>> /\ Len(Tail(s)) = 0
      BY <1>1, <2>1
    <3>1. Len(s) = 1
      BY <3>0
    <3>2. Head(s) = s[Len(s)]
      BY <3>0, <3>1
    <3>. QED
      BY <1>1, <1>2, <2>1, <3>2 DEF Coming
  <2>2. CASE Tail(values[a]) # <<>>
    <3>1. Tail(values[a])[Len(Tail(values[a]))] = values[a][Len(values[a])]
      BY <1>1, <2>2
    <3>. QED
      BY <1>1, <1>2, <2>2, <3>1 DEF Coming
  <2>. QED
    BY <2>1, <2>2
<1>4. HubTypes'
  BY <1>1, <1>2 DEF HubInv, HubTypes
<1>5. LinesFit' /\ CachedFits'
  BY <1>1, <1>2 DEF HubInv, LinesFit, CachedFits
<1>6. ASSUME NEW c \in Subscribers \ overlapped'
      PROVE  InTurn(c)'
  <2>1. InTurn(c) /\ Coming(c)' = Coming(c)
    BY <1>1, <1>2, <1>3, <1>6 DEF HubInv, Coming
  <2>. QED
    BY <1>1, <2>1 DEF InTurn
<1>. QED
  BY <1>4, <1>5, <1>6 DEF HubInv

-----------------------------------------------------------------------------
(* The thread of a subscriber's connection.  It takes the place of any     *)
(* thread of the model; what it changes is said once.                      *)
LEMMA Taking ==
  ASSUME HubInv, NEW a \in Subscribers, requests[a] # <<>>,
         requests' = [requests EXCEPT ![a] = Tail(@)]
  PROVE  /\ requests' \in [Subscribers -> Seq({"subscribe", "unsubscribe"})]
         /\ requests'[a] = Tail(requests[a])
         /\ \A c \in Subscribers : c # a => requests'[c] = requests[c]
         /\ a \in wants => Head(requests[a]) = "subscribe" /\ requests'[a] = <<>>
         /\ a \in registered
<1>1. requests \in [Subscribers -> Seq({"subscribe", "unsubscribe"})]
  BY DEF HubInv, HubTypes
<1>2. requests[a] \in Seq({"subscribe", "unsubscribe"})
  BY <1>1
<1>3. Tail(requests[a]) \in Seq({"subscribe", "unsubscribe"})
  BY <1>2
<1>4. a \in wants => requests[a] = <<"subscribe">>
  BY DEF HubInv, LinesFit
<1>5. a \in registered
  BY DEF HubInv, LinesFit
<1>. QED
  BY <1>1, <1>3, <1>4, <1>5

LEMMA HandleSubscribeKeeps ==
  ASSUME HubInv, NEW a \in Subscribers, HandleSubscribe(a)
  PROVE  HubInv'
<1>1. /\ requests[a] # <<>> /\ requests' = [requests EXCEPT ![a] = Tail(@)]
      /\ serve' = [serve EXCEPT ![a] = [at |-> "prune", connected |-> registered]]
      /\ overlapped' = IF a \in Busy THEN overlapped \cup {a} ELSE overlapped
      /\ UNCHANGED <<connects, outgoing, sender, sent, toHost, registered, subs, cached, route, values,
                     wants,
                     shown>>
  BY DEF HandleSubscribe, publisher
<1>2. /\ requests' \in [Subscribers -> Seq({"subscribe", "unsubscribe"})]
      /\ \A c \in Subscribers : c # a => requests'[c] = requests[c]
      /\ a \in wants => requests'[a] = <<>>
      /\ a \in registered
  BY <1>1, Taking
<1>3. /\ [at |-> "prune", connected |-> registered] \in Serving
      /\ serve \in [Subscribers -> Serving]
  BY Forms DEF HubInv, HubTypes
<1>4. /\ serve' \in [Subscribers -> Serving]
      /\ serve'[a].at = "prune" /\ serve'[a].connected = registered
      /\ \A c \in Subscribers : c # a => serve'[c] = serve[c]
  BY <1>1, <1>3
<1>5. HubTypes'
  BY <1>1, <1>2, <1>4 DEF HubInv, HubTypes
<1>6. LinesFit' /\ CachedFits'
  BY <1>1, <1>2, <1>4 DEF HubInv, LinesFit, CachedFits
<1>7. ASSUME NEW c \in Subscribers \ overlapped'
      PROVE  InTurn(c)'
  <2>1. CASE c = a
    <3>1. route = Idle /\ \A b \in Subscribers : serve[b] = Idle
      BY <1>1, <1>7, <2>1, BusyIfServing
    <3>. QED
      BY <1>1, <1>4, <2>1, <3>1, Forms DEF InTurn
  <2>2. CASE c # a
    <3>1. InTurn(c)
      BY <1>1, <1>7, <2>2 DEF HubInv
    <3>. QED
      BY <1>1, <1>2, <1>4, <2>2, <3>1 DEF InTurn, Coming
  <2>. QED
    BY <2>1, <2>2
<1>. QED
  BY <1>5, <1>6, <1>7 DEF HubInv

LEMMA PruneToSubscribeKeeps ==
  ASSUME HubInv, NEW a \in Subscribers, PruneToSubscribe(a)
  PROVE  HubInv'
<1>1. /\ serve[a].at = "prune" /\ subs' = subs \cap serve[a].connected
      /\ serve' = [serve EXCEPT ![a] = [at |-> "add"]]
      /\ UNCHANGED <<connects, outgoing, sender, sent, toHost, registered, cached, route, requests,
                     values,
                     wants, shown, overlapped>>
  BY DEF PruneToSubscribe, publisher
<1>2. /\ serve' \in [Subscribers -> Serving] /\ serve'[a].at = "add"
      /\ \A c \in Subscribers : c # a => serve'[c] = serve[c]
      /\ serve[a] # Idle
  BY <1>1, Forms DEF HubInv, HubTypes
<1>3. HubTypes'
  BY <1>1, <1>2 DEF HubInv, HubTypes
<1>4. LinesFit' /\ CachedFits'
  BY <1>1, <1>2 DEF HubInv, LinesFit, CachedFits
<1>5. ASSUME NEW c \in Subscribers \ overlapped'
      PROVE  InTurn(c)'
  <2>1. InTurn(c) /\ (c \in wants => c \in registered)
    BY <1>1, <1>5 DEF HubInv, HubTypes
  <2>2. CASE c = a
    BY <1>1, <1>2, <2>1, <2>2, Forms DEF InTurn
  <2>3. CASE c # a
    BY <1>1, <1>2, <2>1, <2>3 DEF InTurn, Coming
  <2>. QED
    BY <2>2, <2>3
<1>. QED
  BY <1>3, <1>4, <1>5 DEF HubInv

LEMMA AddSubscriptionKeeps ==
  ASSUME HubInv, NEW a \in Subscribers, AddSubscription(a)
  PROVE  HubInv'
<1>1. /\ serve[a].at = "add" /\ subs' = subs \cup {a}
      /\ serve' = [serve EXCEPT ![a] = IF cached = 0 THEN Idle
                                       ELSE [at |-> "send", value |-> cached]]
      /\ UNCHANGED <<connects, outgoing, sender, sent, toHost, registered, cached, route, requests,
                     values,
                     wants, shown, overlapped>>
  BY DEF AddSubscription, publisher
<1>2. /\ serve' \in [Subscribers -> Serving]
      /\ \A c \in Subscribers : c # a => serve'[c] = serve[c]
      /\ cached = 0 => serve'[a] = Idle
      /\ cached # 0 => serve'[a].at = "send" /\ serve'[a].value = cached /\ serve'[a] # Idle
      /\ serve[a] # Idle
  <2>1. cached \in 0..MaxValue /\ serve \in [Subscribers -> Serving]
    BY DEF HubInv, HubTypes
  <2>2. cached # 0 => [at |-> "send", value |-> cached] \in Serving
    BY <2>1, Forms, HubNumbers
  <2>3. serve'[a] = IF cached = 0 THEN Idle ELSE [at |-> "send", value |-> cached]
    BY <1>1, <2>1
  <2>4. cached # 0 => serve'[a] # Idle
    BY <2>3, Forms
  <2>. QED
    BY <1>1, <2>1, <2>2, <2>3, <2>4, Forms
<1>3. HubTypes'
  BY <1>1, <1>2 DEF HubInv, HubTypes
<1>4. LinesFit' /\ CachedFits'
  BY <1>1, <1>2, Forms DEF HubInv, LinesFit, CachedFits
<1>5. ASSUME NEW c \in Subscribers \ overlapped'
      PROVE  InTurn(c)'
  <2>1. InTurn(c)
    BY <1>1, <1>5 DEF HubInv
  <2>2. CASE c = a
    <3>1. cached = 0 => Coming(a)' = cached
      BY <1>1 DEF HubInv, CachedFits, Coming
    <3>. QED
      BY <1>1, <1>2, <2>1, <2>2, <3>1, Forms DEF InTurn
  <2>3. CASE c # a
    BY <1>1, <1>2, <2>1, <2>3, Forms DEF InTurn, Coming
  <2>. QED
    BY <2>2, <2>3
<1>. QED
  BY <1>3, <1>4, <1>5 DEF HubInv

LEMMA HandleUnsubscribeKeeps ==
  ASSUME HubInv, NEW a \in Subscribers, HandleUnsubscribe(a)
  PROVE  HubInv'
<1>1. /\ requests[a] # <<>> /\ Head(requests[a]) = "unsubscribe" /\ subs' = subs \ {a}
      /\ requests' = [requests EXCEPT ![a] = Tail(@)]
      /\ UNCHANGED <<connects, outgoing, sender, sent, toHost, registered, cached, route, serve, values,
                     wants,
                     shown, overlapped>>
  BY DEF HandleUnsubscribe, publisher
<1>2. /\ requests' \in [Subscribers -> Seq({"subscribe", "unsubscribe"})]
      /\ \A c \in Subscribers : c # a => requests'[c] = requests[c]
      /\ a \notin wants /\ a \in registered
  BY <1>1, Taking
<1>3. HubTypes'
  BY <1>1, <1>2 DEF HubInv, HubTypes
<1>4. LinesFit' /\ CachedFits'
  BY <1>1, <1>2 DEF HubInv, LinesFit, CachedFits
<1>5. ASSUME NEW c \in Subscribers \ overlapped'
      PROVE  InTurn(c)'
  BY <1>1, <1>2, <1>5 DEF HubInv, InTurn, Coming
<1>. QED
  BY <1>3, <1>4, <1>5 DEF HubInv

-----------------------------------------------------------------------------
(* _safe_send gives a connected subscriber the value as its last, and one  *)
(* that is not connected nothing.                                          *)
LEMMA Sending ==
  ASSUME HubTypes, NEW a \in Subscribers, NEW v \in Values, SafeSend(a, v), UNCHANGED shown
  PROVE  /\ values' \in [Subscribers -> Seq(Values)]
         /\ a \notin registered => values' = values
         /\ a \in registered => Coming(a)' = v
         /\ \A c \in Subscribers : c # a => values'[c] = values[c] /\ Coming(c)' = Coming(c)
<1>1. values \in [Subscribers -> Seq(Values)]
  BY DEF HubTypes
<1>2. values[a] \in Seq(Values)
  BY <1>1
<1>3. CASE a \notin registered
  BY <1>1, <1>3 DEF SafeSend, Coming
<1>4. CASE a \in registered
  <2>1. /\ values' = [values EXCEPT ![a] = Append(values[a], v)]
        /\ Append(values[a], v) \in Seq(Values)
        /\ Append(values[a], v) # <<>>
        /\ Append(values[a], v)[Len(Append(values[a], v))] = v
    BY <1>2, <1>4 DEF SafeSend
  <2>2. /\ values' \in [Subscribers -> Seq(Values)] /\ values'[a] = Append(values[a], v)
        /\ \A c \in Subscribers : c # a => values'[c] = values[c]
    BY <1>1, <2>1
  <2>. QED
    BY <1>4, <2>1, <2>2 DEF Coming
<1>. QED
  BY <1>3, <1>4

LEMMA SendCachedKeeps ==
  ASSUME HubInv, NEW a \in Subscribers, SendCached(a)
  PROVE  HubInv'
<1>1. /\ serve[a].at = "send" /\ SafeSend(a, serve[a].value)
      /\ serve' = [serve EXCEPT ![a] = Idle]
      /\ UNCHANGED <<connects, outgoing, sender, sent, toHost, registered, subs, cached, route,
                     requests, wants,
                     shown, overlapped>>
  BY DEF SendCached, publisher
<1>2. /\ serve' \in [Subscribers -> Serving] /\ serve'[a] = Idle /\ serve[a] # Idle
      /\ \A c \in Subscribers : c # a => serve'[c] = serve[c]
      /\ serve[a].value \in Values
  BY <1>1, Forms DEF HubInv, HubTypes
<1>3. /\ values' \in [Subscribers -> Seq(Values)]
      /\ a \notin registered => values' = values
      /\ a \in registered => Coming(a)' = serve[a].value
      /\ \A c \in Subscribers : c # a => values'[c] = values[c] /\ Coming(c)' = Coming(c)
  BY <1>1, <1>2, Sending DEF HubInv
<1>4. HubTypes'
  BY <1>1, <1>2, <1>3 DEF HubInv, HubTypes
<1>5. cached # 0
  BY <1>1 DEF HubInv, CachedFits
<1>6. LinesFit' /\ CachedFits'
  BY <1>1, <1>2, <1>3, <1>5 DEF HubInv, LinesFit, CachedFits
<1>7. ASSUME NEW c \in Subscribers \ overlapped'
      PROVE  InTurn(c)'
  <2>1. InTurn(c) /\ (c \in wants => c \in registered)
    BY <1>1, <1>7 DEF HubInv, HubTypes
  <2>2. CASE c = a
    BY <1>1, <1>2, <1>3, <2>1, <2>2, Forms DEF InTurn
  <2>3. CASE c # a
    BY <1>1, <1>2, <1>3, <2>1, <2>3, Forms DEF InTurn
  <2>. QED
    BY <2>2, <2>3
<1>. QED
  BY <1>4, <1>6, <1>7 DEF HubInv

-----------------------------------------------------------------------------
(* The thread of the publisher's connection.  A subscriber whose thread is *)
(* at work when it starts did not join in turn.                            *)
LEMMA RouteStreamKeeps ==
  ASSUME HubInv, RouteStream
  PROVE  HubInv'
<1>1. /\ toHost # <<>> /\ toHost' = Tail(toHost) /\ route = Idle
      /\ route' = [at |-> "prune", value |-> Head(toHost), connected |-> registered, to |-> {}]
      /\ overlapped' = overlapped \cup {a \in Subscribers : serve[a] # Idle}
      /\ UNCHANGED <<connects, outgoing, sender, sent, registered, subs, cached, serve, requests,
                     values, wants,
                     shown>>
  BY DEF RouteStream, publisher
<1>2. /\ Head(toHost) \in Values /\ toHost' \in Seq(Values)
  <2>1. toHost \in Seq(Values)
    BY DEF HubInv, HubTypes
  <2>. QED
    BY <1>1, <2>1
<1>3. route' \in Routing /\ route'.at = "prune" /\ route'.connected = registered
  <2>1. registered \subseteq Subscribers
    BY DEF HubInv, HubTypes
  <2>. QED
    BY <1>1, <1>2, <2>1 DEF Routing
<1>4. HubTypes'
  BY <1>1, <1>2, <1>3 DEF HubInv, HubTypes
<1>5. LinesFit' /\ CachedFits'
  BY <1>1, <1>3 DEF HubInv, LinesFit, CachedFits
<1>6. ASSUME NEW c \in Subscribers \ overlapped'
      PROVE  InTurn(c)'
  <2>1. InTurn(c) /\ serve[c] = Idle /\ route.at = "idle"
    BY <1>1, <1>6, Forms DEF HubInv
  <2>2. \A b \in Subscribers : serve'[b] = serve[b]
    BY <1>1
  <2>. QED
    BY <1>1, <1>3, <2>1, <2>2, Forms DEF InTurn, Coming
<1>. QED
  BY <1>4, <1>5, <1>6 DEF HubInv

LEMMA PruneToRouteKeeps ==
  ASSUME HubInv, PruneToRoute
  PROVE  HubInv'
<1>1. /\ route.at = "prune" /\ subs' = subs \cap route.connected
      /\ route' = [route EXCEPT !.at = "cache"]
      /\ UNCHANGED <<connects, outgoing, sender, sent, toHost, registered, cached, serve, requests,
                     values, wants,
                     shown, overlapped>>
  BY DEF PruneToRoute, publisher
<1>2. /\ route \in Routing /\ route # Idle
      /\ route' \in Routing /\ route'.at = "cache"
  <2>1. route \in Routing /\ route # Idle
    BY <1>1, Forms DEF HubInv, HubTypes
  <2>. QED
    BY <1>1, <2>1 DEF Routing
<1>3. HubTypes'
  BY <1>1, <1>2 DEF HubInv, HubTypes
<1>4. LinesFit' /\ CachedFits'
  BY <1>1, <1>2 DEF HubInv, LinesFit, CachedFits
<1>5. ASSUME NEW c \in Subscribers \ overlapped'
      PROVE  InTurn(c)'
  <2>1. InTurn(c) /\ serve[c] = Idle /\ (c \in wants => c \in registered)
    BY <1>1, <1>2, <1>5 DEF HubInv, HubTypes, InTurn
  <2>. QED
    BY <1>1, <1>2, <2>1, Forms DEF InTurn, Coming
<1>. QED
  BY <1>3, <1>4, <1>5 DEF HubInv

(* Whoever is subscribed when the value is cached is sent it.              *)
LEMMA CacheAndSelectKeeps ==
  ASSUME HubInv, CacheAndSelect
  PROVE  HubInv'
<1>1. /\ route.at = "cache" /\ cached' = route.value
      /\ route' = IF subs = {} THEN Idle ELSE [route EXCEPT !.at = "send", !.to = subs]
      /\ UNCHANGED <<connects, outgoing, sender, sent, toHost, registered, subs, serve, requests,
                     values, wants,
                     shown, overlapped>>
  BY DEF CacheAndSelect, publisher
<1>2. /\ route \in Routing /\ route # Idle /\ route.value \in Values /\ subs \subseteq Subscribers
  BY <1>1, Forms DEF HubInv, HubTypes, Routing
<1>3. /\ route' \in {Idle} \cup Routing
      /\ route'.at \in {"idle", "send"}
      /\ route'.at = "send" => route'.value = cached'
      /\ subs # {} => route'.at = "send" /\ route'.to = subs
  BY <1>1, <1>2, Forms DEF Routing
<1>4. HubTypes'
  BY <1>1, <1>2, <1>3, HubNumbers DEF HubInv, HubTypes
<1>5. LinesFit' /\ CachedFits'
  BY <1>1, <1>2, <1>3, HubNumbers DEF HubInv, LinesFit, CachedFits
<1>6. ASSUME NEW c \in Subscribers \ overlapped'
      PROVE  InTurn(c)'
  <2>1. InTurn(c) /\ serve[c] = Idle
    BY <1>1, <1>2, <1>6 DEF HubInv, InTurn
  <2>. QED
    BY <1>1, <1>2, <1>3, <2>1, Forms DEF InTurn
<1>. QED
  BY <1>4, <1>5, <1>6 DEF HubInv

LEMMA RouteSendKeeps ==
  ASSUME HubInv, NEW a \in Subscribers, RouteSend(a)
  PROVE  HubInv'
<1>1. /\ route.at = "send" /\ a \in route.to /\ SafeSend(a, route.value)
      /\ route' = IF route.to = {a} THEN Idle ELSE [route EXCEPT !.to = @ \ {a}]
      /\ UNCHANGED <<connects, outgoing, sender, sent, toHost, registered, subs, cached, serve,
                     requests, wants,
                     shown, overlapped>>
  BY DEF RouteSend, publisher
<1>2. /\ route \in Routing /\ route # Idle /\ route.value \in Values /\ route.value = cached
  BY <1>1, Forms DEF HubInv, HubTypes, CachedFits, Routing
<1>3. /\ route' \in {Idle} \cup Routing
      /\ route'.at \in {"idle", "send"}
      /\ route'.at = "send" => route'.value = cached
      /\ \A c \in route.to : c # a => route'.at = "send" /\ c \in route'.to
  BY <1>1, <1>2, Forms DEF Routing
<1>4. /\ values' \in [Subscribers -> Seq(Values)]
      /\ a \notin registered => values' = values
      /\ a \in registered => Coming(a)' = cached
      /\ \A c \in Subscribers : c # a => values'[c] = values[c] /\ Coming(c)' = Coming(c)
  BY <1>1, <1>2, Sending DEF HubInv
<1>5. HubTypes'
  BY <1>1, <1>3, <1>4 DEF HubInv, HubTypes
<1>6. cached # 0
  BY <1>2, HubNumbers
<1>7. LinesFit' /\ CachedFits'
  BY <1>1, <1>3, <1>4, <1>6 DEF HubInv, LinesFit, CachedFits
<1>8. ASSUME NEW c \in Subscribers \ overlapped'
      PROVE  InTurn(c)'
  <2>1. InTurn(c) /\ serve[c] = Idle /\ (c \in wants => c \in registered)
    BY <1>1, <1>2, <1>8 DEF HubInv, HubTypes, InTurn
  <2>2. CASE c = a
    BY <1>1, <1>3, <1>4, <2>1, <2>2, Forms DEF InTurn
  <2>3. CASE c # a
    BY <1>1, <1>3, <1>4, <2>1, <2>3, Forms DEF InTurn
  <2>. QED
    BY <2>2, <2>3
<1>. QED
  BY <1>5, <1>7, <1>8 DEF HubInv

-----------------------------------------------------------------------------
LEMMA HubStep == HubInv /\ [HubNext]_hubVars => HubInv'
<1> SUFFICES ASSUME HubInv, [HubNext]_hubVars PROVE HubInv'
  OBVIOUS
<1>1. CASE Publish \/ SenderReads \/ SenderSends
  BY <1>1, PublisherKeeps
<1>2. CASE \E a \in Subscribers : Connect(a) \/ Unsubscribe(a) \/ Disconnect(a)
  BY <1>2, ConnectKeeps, LeavesKeep
<1>3. CASE RouteStream \/ PruneToRoute \/ CacheAndSelect
  BY <1>3, RouteStreamKeeps, PruneToRouteKeeps, CacheAndSelectKeeps
<1>4. CASE \E a \in Subscribers :
             \/ HandleSubscribe(a) \/ PruneToSubscribe(a) \/ AddSubscription(a) \/ SendCached(a)
             \/ HandleUnsubscribe(a) \/ RouteSend(a) \/ Receive(a)
  BY <1>4, HandleSubscribeKeeps, PruneToSubscribeKeeps, AddSubscriptionKeeps, SendCachedKeeps,
     HandleUnsubscribeKeeps, RouteSendKeeps, ReceiveKeeps
<1>5. CASE UNCHANGED hubVars
  BY <1>5 DEF hubVars, publisher, HubInv, HubTypes, LinesFit, CachedFits, InTurn, Coming
<1>. QED
  BY <1>1, <1>2, <1>3, <1>4, <1>5 DEF HubNext, Threads

(* What the host's threads keep true of a subscriber that joined while no  *)
(* other of them was at work.                                              *)
THEOREM HubInvariance == HubSpec => []HubInv
<1>. QED
  BY HubStarts, HubStep, PTL DEF HubSpec

(* Every value, request and thread of the host keeps its type and bound.   *)
THEOREM HubTypeCorrect == HubSpec => []HubTypeOK
<1>1. HubInv => HubTypeOK
  <2> SUFFICES ASSUME HubInv PROVE HubTypeOK
    OBVIOUS
  <2>1. overlapped \subseteq Subscribers /\ wants \subseteq Subscribers
    BY DEF HubInv, HubTypes
  <2>2. route = Idle \/ route \in Routing
    BY DEF HubInv, HubTypes
  <2>3. ASSUME NEW a \in Subscribers
        PROVE  /\ serve[a] \in Serving /\ requests[a] \in Seq({"subscribe", "unsubscribe"})
               /\ values[a] \in Seq(Values) /\ shown[a] \in 0..MaxValue
    BY DEF HubInv, HubTypes
  <2>. QED
    BY <2>1, <2>2, <2>3 DEF HubInv, HubTypes, HubTypeOK, Serving, Routing
<1>. QED
  BY <1>1, HubInvariance, PTL

(* A subscriber that joined while the host's other threads were at rest is *)
(* subscribed when everything asked for it was done, and shows the value   *)
(* the host routed last, however the threads of _route_stream, _subscribe  *)
(* and _unsubscribe interleave after that.                                 *)
THEOREM SubscribersAreCurrent == HubSpec => []CurrentInTurn
<1>1. HubInv => CurrentInTurn
  <2> SUFFICES ASSUME HubInv, NEW a \in Subscribers \ overlapped, Settled(a)
               PROVE  a \in subs /\ shown[a] = cached
    BY DEF CurrentInTurn
  <2>1. InTurn(a)
    BY DEF HubInv
  <2>2. /\ a \in wants /\ requests[a] = <<>> /\ serve[a] = Idle /\ route.at = "idle"
        /\ Coming(a) = shown[a]
    BY Forms DEF Settled, Coming
  <2>. QED
    BY <2>1, <2>2, Forms DEF InTurn
<1>. QED
  BY <1>1, HubInvariance, PTL
=============================================================================
