----------------------------- MODULE MCFaceChains ------------------------------
(* FaceChains with frames enough for a fork before a chain's end. *)
EXTENDS FaceChains
=============================================================================
