--------------------------- MODULE TableProjection --------------------------
(***************************************************************************)
(* A table: the segmentation operation measures the timber on it and       *)
(* leaves files, which one of the two projector programs shows: the        *)
(* composer until a live source takes over, the viewer until Grasshopper   *)
(* sends it something.                                                     *)
(***************************************************************************)
EXTENDS TimberSegmentation, Projector, LiveViewer

CONSTANT MaxEvents   \* bound: commands typed and inputs of the projector together

vars == <<runtime, segmentation, projector, viewer>>

TableInit == SegmentationInit /\ ProjectorInit /\ ViewerInit

ComposerUsed == loop.at # "off" \/ loop.running
ViewerUsed == view.at # "off"

TableNext ==
  /\ \/ SegmentationNext /\ UNCHANGED <<projector, viewer>>
     \/ ~ViewerUsed /\ ProjectorNext /\ UNCHANGED <<segmentation, viewer>>
     \/ ~ComposerUsed /\ ViewerNext /\ UNCHANGED <<segmentation, projector>>
  /\ count' + inputs' + packets' <= MaxEvents

(* The loops of composer and operation run; a file is looked at again and  *)
(* again as time goes by.                                                  *)
TableSpec ==
  /\ TableInit /\ [][TableNext]_vars
  /\ WF_vars(ProjectorStep /\ UNCHANGED <<segmentation, viewer>>)
  /\ SF_vars(SignFile /\ UNCHANGED <<segmentation, viewer>>)
  /\ WF_vars(ToolStep /\ UNCHANGED <<projector, viewer>>)

(* A picture that came from a file shows an entity whose artifacts are all *)
(* written, whatever the segmentation was doing when it died.              *)
OnTableIsSaved ==
  \A picture \in {shown, screen.data} :
    picture.from = "file" => entities[picture.id].artifacts = Artifacts

(* Whichever program projects, and whatever its threads do at the time,    *)
(* the thickness that corrects the picture is that of what is projected.   *)
CorrectedAsMeasured == ThicknessFitsSource /\ PictureFitsData

(* A composer that goes on and is not paused for ever shows, from some     *)
(* time on, what its sources have last: nothing on the stream is unread,   *)
(* and without a live measurement the newest file is the measurement.      *)
ShowsLatest ==
  /\ loop.at # "off" /\ shown = Active /\ inbox.unread = {}
  /\ Newest > 0 /\ runtime[Newest].whole /\ ~source.live
       => source.measurement = FromFile(Newest)
TableCatchesUp ==
  <>[](loop.at \notin {"off", "ended"} /\ ~loop.paused) => <>[]ShowsLatest
=============================================================================
