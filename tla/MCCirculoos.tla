---------------------------- MODULE MCCirculoos -----------------------------
(* Two processes, so that calls overlap; two numbers, so that one can be   *)
(* given twice or lost; two quantities and two kinds of details, so that   *)
(* each of them can be stale.                                              *)
EXTENDS Circuloos
CONSTANTS p1, p2, old, new
=============================================================================
