----------------------------- MODULE FaceVerdicts -----------------------------
(***************************************************************************)
(* What the comparison of the faces of a frame with the tracked ones may ask *)
(* of the tracker, slot by slot: the interface between FaceMatch, which      *)
(* makes the comparison, and DetectTrack, which takes any outcome of it.     *)
(***************************************************************************)
EXTENDS Naturals, FiniteSets

CONSTANT N     \* m_bridge.size(): max_face_superior_limit

Slots == 0..N-1
Verdict == {"nothing", "dormant", "fix", "keep", "active"}

\* Of k faces f are near no tracked one.  A tracked slot is kept, fixed or missed (with
\* no face near it each is missed); the f new faces activate the first slots that are
\* empty.
Allowed(o, tracked, k, f) ==
  LET empty == Slots \ tracked IN
  /\ \A i \in tracked : o[i] \in {"dormant", "fix", "keep"}
  /\ \A i \in empty :
       o[i] = IF Cardinality({j \in empty : j < i}) < f THEN "active" ELSE "nothing"
  /\ f = k => \A i \in tracked : o[i] = "dormant"
  /\ f < k => tracked # {}

\* The calls on the tracked slots come first, then the activations, by slot.
Turn(o, i) ==
  /\ o[i] # "nothing"
  /\ \A j \in Slots :
       o[j] # "nothing" =>
         IF (o[j] = "active") = (o[i] = "active") THEN i <= j ELSE o[j] = "active"

=============================================================================
