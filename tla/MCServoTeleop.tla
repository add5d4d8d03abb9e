--------------------------- MODULE MCServoTeleop ---------------------------
(* One Grasshopper connection and one rival agent.                         *)
EXTENDS ServoTeleop
CONSTANTS c1, rival
=============================================================================
