---------------------------- MODULE MCDetectTrack -----------------------------
(* DetectTrack on two slots. *)
EXTENDS DetectTrack
=============================================================================
