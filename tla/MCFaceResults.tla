----------------------------- MODULE MCFaceResults -----------------------------
(* FaceResults with two slots, two rectangles and three frames. *)
EXTENDS FaceResults
=============================================================================
