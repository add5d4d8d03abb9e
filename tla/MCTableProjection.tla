------------------------- MODULE MCTableProjection --------------------------
(* Two thicknesses, so that a wrong one can be in force; two messages, so  *)
(* that a live source comes and goes.                                      *)
EXTENDS TableProjection
=============================================================================
