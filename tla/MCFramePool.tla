----------------------------- MODULE MCFramePool ------------------------------
(* FramePool with a pool of two frames shared by two consumers: one may be     *)
(* slow, or throw, while the other is in time.                                 *)
EXTENDS FramePool

CONSTANTS a1, a2, a3, a4, tracker, detector

MCAddr == {a1, a2, a3, a4}
MCConsumers == {tracker, detector}
=============================================================================
