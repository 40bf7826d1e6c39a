---------------------------- MODULE MCSamplingQueue ----------------------------
(* SamplingQueue with as many frames as it takes to skip, lose and race. *)
EXTENDS SamplingQueue
=============================================================================
