---------------------------- MODULE MCStreamHub ----------------------------
(* Agents as model values.                                                 *)
EXTENDS StreamHub
CONSTANTS a1, a2
=============================================================================
