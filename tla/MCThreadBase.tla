----------------------------- MODULE MCThreadBase -----------------------------
(* ThreadBase with the three components that the library starts: frame      *)
(* manager, face detector and tracker pool, in order of construction.       *)
EXTENDS ThreadBase
=============================================================================
