------------------------------ MODULE MCFaceMatch ------------------------------
(* FaceMatch on two slots, with overlaps on both sides of every threshold and *)
(* two that call for a correction.                                            *)
EXTENDS FaceMatch
MCOverlaps == 0..4
=============================================================================
