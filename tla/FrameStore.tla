------------------------------ MODULE FrameStore ------------------------------
(***************************************************************************)
(* What the pool of frames promises to the threads that use it: a store of a *)
(* few frames, from which anyone may take one and keep it as long as it      *)
(* likes.  Frames leave oldest first, and none leaves while it is kept.      *)
(* FramePool, with its mutex, counts and positions, implements it.           *)
(***************************************************************************)
EXTENDS Naturals, Sequences

CONSTANTS
  Frames,   \* what may be stored
  NoFrame,  \* nothing is kept
  Users,
  Depth     \* frames the store keeps

VARIABLES
  stored,   \* oldest first
  kept      \* the frame each user keeps

vars == <<stored, kept>>

Stored(f) == \E i \in 1..Len(stored) : stored[i] = f

Init == stored = <<>> /\ kept = [u \in Users |-> NoFrame]

\* A frame comes in: one beyond the depth, at most, until the oldest has left.
Store(f) ==
  /\ ~Stored(f)
  /\ \A u \in Users : kept[u] # f
  /\ Len(stored) <= Depth
  /\ stored' = Append(stored, f)
  /\ UNCHANGED kept

DiscardOldest ==
  /\ stored # <<>>
  /\ \A u \in Users : kept[u] # stored[1]
  /\ stored' = Tail(stored)
  /\ UNCHANGED kept

Take(u, f) ==
  /\ kept[u] = NoFrame
  /\ Stored(f)
  /\ kept' = [kept EXCEPT ![u] = f]
  /\ UNCHANGED stored

GiveBack(u) ==
  /\ kept[u] # NoFrame
  /\ kept' = [kept EXCEPT ![u] = NoFrame]
  /\ UNCHANGED stored

Next ==
  \/ DiscardOldest
  \/ \E f \in Frames : Store(f) \/ \E u \in Users : Take(u, f)
  \/ \E u \in Users : GiveBack(u)

Spec == Init /\ [][Next]_vars

=============================================================================
