-------------------------- MODULE MCSensingCapture --------------------------
(* The first and the last artifact stand for the four.                     *)
EXTENDS SensingCapture
FirstAndLast == <<"image.jpg", "measurements.json">>
=============================================================================
