-------------------------- MODULE MeasurementFiles --------------------------
(***************************************************************************)
(* projector_runtime: the timber_<id>_measurement.json files the           *)
(* segmentation operations leave and the projector programs read, in the   *)
(* order of their modification times.  They are opened, which empties      *)
(* them, and written; until then they hold no JSON.  A thickness is a set: *)
(* {} when the data give none.                                             *)
(***************************************************************************)
EXTENDS Naturals, Sequences

CONSTANT Thicknesses   \* thicknesses that are accepted

ASSUME ThicknessesAssumption == Thicknesses \subseteq Nat /\ Thicknesses # {}

VARIABLE runtime

Newest == Len(runtime)
Maybe == {{}} \cup {{t} : t \in Thicknesses}

(* What a program has to project: where it is from, which one, how thick.  *)
Data(from, id, thickness) == [from |-> from, id |-> id, thickness |-> thickness]
Nothing == Data("nothing", 0, {0})
FromFile(k) == Data("file", runtime[k].id, runtime[k].thickness)
=============================================================================
