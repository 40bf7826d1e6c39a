------------------------------- MODULE FaceMatch -------------------------------
(***************************************************************************)
(* The comparison of the faces of a frame with the tracked ones              *)
(* (TOFaceDetector::analysisTAndD) and the counters of missed faces it keeps   *)
(* in the tracker.  The detector takes the positions of the slots once, makes   *)
(* a table of overlaps and then calls the tracker slot by slot; meanwhile the   *)
(* tracker's thread goes on changing the slots.  A slot is what its two         *)
(* rectangles say of it, DetectTrack has them one by one and says when a        *)
(* detection begins; an overlap is a number, of which thresholds matter only.   *)
(***************************************************************************)
EXTENDS FaceVerdicts, Integers

CONSTANTS
  DormantThr,                   \* m_TrackerDormantCountEnableThr
  SplitThr, EnableThr, SkipThr, \* m_fixConfidence...Thr
  Overlaps,                     \* the values of isBorderOnPer
  MaxFaces                      \* bound: faces found in a frame

ASSUME FaceMatchAssumption ==
  /\ N \in Nat \ {0}
  /\ DormantThr \in Nat
  /\ MaxFaces \in Nat
  /\ Overlaps \subseteq Nat
  /\ SplitThr \in Nat /\ EnableThr \in Nat /\ SkipThr \in Nat

VARIABLES
  slot,      \* m_bridge[i]: which of its rectangles are Rect0
  tested,    \* the slots whose tail track() is about to assign: at most one
  count,     \* m_bridgeDormantCount, capped at DormantThr + 1
  own,       \* history: the misses of slot i itself since it last met a face, capped
  ops,       \* per slot the call the detector has yet to make on the tracker
  first      \* m_firstTime

vars == <<slot, tested, count, own, ops, first>>

Cap == DormantThr + 1

Tracked == {i \in Slots : slot[i] = "working"}
CallsMade == \A i \in Slots : ops[i] = "nothing"

Init ==
  /\ slot = [i \in Slots |-> "dormant"]
  /\ tested = {}
  /\ count = [i \in Slots |-> 0]
  /\ own = [i \in Slots |-> 0]
  /\ ops = [i \in Slots |-> "nothing"]
  /\ first = TRUE

-----------------------------------------------------------------------------
(* The table of overlaps: overlap[i][j] of tracked slot i and face j.        *)

Faces(k) == 0..k-1
Tables(k) == [Tracked -> [Faces(k) -> Overlaps]]

\* Mutant: the best overlap is not remembered.
BestFaceForgets(row, k) ==
  LET best[j \in Nat] ==
        IF j = 0 THEN [face |-> 0, value |-> -1]
        ELSE LET b == best[j - 1]
             IN IF row[j - 1] > b.value THEN [face |-> j - 1, value |-> b.value] ELSE b
  IN best[k].face

\* bigSQueue: dx and rsBst, the running maximum of a line of the table, after j faces.
BestFace(row, k) ==
  LET best[j \in Nat] ==
        IF j = 0 THEN [face |-> 0, value |-> -1]
        ELSE LET b == best[j - 1]
             IN IF row[j - 1] > b.value THEN [face |-> j - 1, value |-> row[j - 1]] ELSE b
  IN best[k].face

\* The tags above 'b' that an overlap may get.
Near(overlap) == overlap > SkipThr \/ overlap > EnableThr \/ overlap > SplitThr

\* statusQueueAct: face j is near no tracked one.
IsNew(j, overlap) == \A i \in DOMAIN overlap : ~Near(overlap[i][j])

\* The faces of the slots after the turns of the outer loop for faces 0..j-1: the inner
\* loop gives a new face the first slot that is still empty, if there is one.
Placement(k, overlap) ==
  LET placed[j \in Nat] ==
        IF j = 0 THEN [i \in Slots |-> -1]
        ELSE LET at == placed[j - 1]
                 free == {i \in Slots \ Tracked : at[i] = -1}
             IN IF IsNew(j - 1, overlap) /\ free # {}
                THEN [at EXCEPT ![CHOOSE i \in free : \A l \in free : i <= l] = j - 1]
                ELSE at
  IN placed[k]

\* The rank a line of the table gives its slot.
Kept(i, overlap) == \E j \in DOMAIN overlap[i] : overlap[i][j] > SkipThr
Corrected(i, overlap) == \E j \in DOMAIN overlap[i] : overlap[i][j] > EnableThr

\* Mutant: when no face is found the slots are left alone.
JudgeNoClean(i, k, overlap) ==
  IF i \notin Tracked
  THEN IF Placement(k, overlap)[i] # -1 THEN "active" ELSE "nothing"
  ELSE IF Kept(i, overlap) THEN "keep" ELSE
       IF Corrected(i, overlap) THEN "fix" ELSE IF k = 0 THEN "nothing" ELSE "dormant"

\* The call slot i gets.  With no face at all (isAllClean) every tracked slot is missed.
Judge(i, k, overlap) ==
  IF i \notin Tracked
  THEN IF Placement(k, overlap)[i] # -1 THEN "active" ELSE "nothing"
  ELSE IF Kept(i, overlap) THEN "keep" ELSE
       IF Corrected(i, overlap) THEN "fix" ELSE "dormant"

Verdicts(k, overlap) == [i \in Slots |-> Judge(i, k, overlap)]

-----------------------------------------------------------------------------
(* The detector                                                             *)

\* detect takes the bridge and analysisTAndD compares.
Compare(k, overlap) ==
  /\ ~first /\ CallsMade
  /\ overlap \in Tables(k)
  /\ ops' = Verdicts(k, overlap)
  /\ UNCHANGED <<slot, tested, count, own, first>>

\* A later notice found no face tracked: the next detection is a first one again.
Predetect ==
  /\ ~first /\ CallsMade /\ Tracked = {}
  /\ first' = TRUE
  /\ UNCHANGED <<slot, tested, count, own, ops>>

\* Mutant: getBridgeFromDetector goes on to one slot too many.
DeliverOnePast ==
  /\ first /\ CallsMade
  /\ \E k \in 0..MaxFaces :
       ops' = [i \in Slots \cup 0..k |-> IF i <= k THEN "put" ELSE "nothing"]
  /\ first' = FALSE
  /\ UNCHANGED <<slot, tested, count, own>>

\* The end of a first detection: its faces go to the slots in front.
Deliver ==
  /\ first /\ CallsMade
  /\ \E k \in 0..MaxFaces : ops' = [i \in Slots |-> IF i < k THEN "put" ELSE "nothing"]
  /\ first' = FALSE
  /\ UNCHANGED <<slot, tested, count, own>>

\* Only the slots change: m_bridgeDormantCount is left as it is.
PutObject(i) ==
  /\ slot' = [slot EXCEPT ![i] = "working"]
  /\ own' = [own EXCEPT ![i] = 0]
  /\ UNCHANGED count

TryToActiveObject(i) ==
  IF slot[i] = "dormant"
  THEN /\ slot' = [slot EXCEPT ![i] = "active"]
       /\ count' = [count EXCEPT ![i] = 0]
       /\ own' = [own EXCEPT ![i] = 0]
  ELSE UNCHANGED <<slot, count, own>>

More(n) == IF n < Cap THEN n + 1 ELSE n

\* Mutant: a face is given up one miss late.
TryToDormantObjectLate(i) ==
  /\ count' = [l \in Slots |-> More(count[l])]
  /\ own' = [own EXCEPT ![i] = More(own[i])]
  /\ slot' = IF slot[i] = "working" /\ \E l \in Slots : count[l] > DormantThr
             THEN [slot EXCEPT ![i] = "stop"] ELSE slot

\* The loop raises every counter and looks at every counter.
TryToDormantObject(i) ==
  /\ count' = [l \in Slots |-> More(count[l])]
  /\ own' = [own EXCEPT ![i] = More(own[i])]
  /\ slot' = IF slot[i] = "working" /\ \E l \in Slots : count'[l] > DormantThr
             THEN [slot EXCEPT ![i] = "stop"] ELSE slot

\* A corrected slot waits for its activation.
TryToFixObject(i) ==
  IF slot[i] = "working"
  THEN /\ slot' = [slot EXCEPT ![i] = "active"]
       /\ count' = [count EXCEPT ![i] = 0]
       /\ own' = [own EXCEPT ![i] = 0]
  ELSE UNCHANGED <<slot, count, own>>

KeepObjectWell(i) ==
  /\ count' = [count EXCEPT ![i] = 0]
  /\ own' = [own EXCEPT ![i] = 0]
  /\ UNCHANGED slot

Call(i) ==
  /\ Turn(ops, i)
  /\ \/ ops[i] = "put" /\ PutObject(i)
     \/ ops[i] = "active" /\ TryToActiveObject(i)
     \/ ops[i] = "dormant" /\ TryToDormantObject(i)
     \/ ops[i] = "fix" /\ TryToFixObject(i)
     \/ ops[i] = "keep" /\ KeepObjectWell(i)
  /\ ops' = [ops EXCEPT ![i] = "nothing"]
  /\ UNCHANGED <<tested, first>>

-----------------------------------------------------------------------------
(* The tracker                                                              *)

\* track() visits slot i.
Visit(i) ==
  /\ tested = {}
  /\ \/ slot[i] = "active" /\ slot' = [slot EXCEPT ![i] = "working"]
     \/ slot[i] = "stop" /\ slot' = [slot EXCEPT ![i] = "dormant"]
  /\ UNCHANGED <<tested, count, own, ops, first>>

\* checkIsOutOfView.
OutOfView(i) ==
  /\ tested = {} /\ slot[i] = "working"
  /\ slot' = [slot EXCEPT ![i] = "stop"]
  /\ UNCHANGED <<tested, count, own, ops, first>>

\* The result of slot i is to become its tail: the test, then the assignments.
TailTest(i) ==
  /\ tested = {} /\ slot[i] = "working"
  /\ tested' = {i}
  /\ UNCHANGED <<slot, count, own, ops, first>>

\* The newest position becomes the old one, the result the newest.
AddNewTail(i) ==
  /\ i \in tested
  /\ slot' = [slot EXCEPT ![i] = IF slot[i] \in {"stop", "dormant"} THEN "active" ELSE "working"]
  /\ tested' = {}
  /\ UNCHANGED <<count, own, ops, first>>

Detector ==
  \/ Predetect \/ Deliver
  \/ \E k \in 0..MaxFaces : \E overlap \in Tables(k) : Compare(k, overlap)
  \/ \E i \in Slots : Call(i)

Tracker == \E i \in Slots : Visit(i) \/ OutOfView(i) \/ TailTest(i) \/ AddNewTail(i)

Next == Detector \/ Tracker

Spec == Init /\ [][Next]_vars

-----------------------------------------------------------------------------
TypeOK ==
  /\ slot \in [Slots -> {"dormant", "active", "working", "stop"}]
  /\ tested \subseteq Slots
  /\ count \in [Slots -> 0..Cap] /\ own \in [Slots -> 0..Cap]
  /\ ops \in [Slots -> Verdict \cup {"put"}]
  /\ first \in BOOLEAN

\* The counter of a slot, which every slot's misses raise, never falls behind the slot's
\* own misses, although four handlers of two kinds of detection reset it.
CountsCover == \A i \in Slots : own[i] <= count[i]

\* The call that reports a miss of slot i.
Misses(i) == ops[i] = "dormant" /\ ops'[i] = "nothing"

\* A face missed more than dormant_count_threshold times in a row is given up by the very
\* call that says so (TOLibConfig.cfg:58).
MissedIsStopped ==
  [][\A i \in Slots : Misses(i) /\ own'[i] > DormantThr => slot'[i] # "working"]_vars

\* What the comparison asks for is what DetectTrack lets it ask for: each face near no
\* tracked one takes a slot of its own, in order, while there are any.
VerdictsAllowed ==
  ~first /\ CallsMade =>
    \A k \in 0..MaxFaces : \A overlap \in Tables(k) :
      Allowed(Verdicts(k, overlap), Tracked, k,
              Cardinality({j \in Faces(k) : IsNew(j, overlap)}))

\* A slot is corrected to the face that overlaps it most, and no face is placed twice.
FacesGiven ==
  ~first /\ CallsMade =>
    \A k \in 0..MaxFaces : \A overlap \in Tables(k) :
      /\ \A i \in Tracked : Judge(i, k, overlap) = "fix" =>
           LET best == overlap[i][BestFace(overlap[i], k)] IN
           best > EnableThr /\ \A j \in Faces(k) : overlap[i][j] <= best
      /\ LET at == Placement(k, overlap) IN
         \A i, j \in Slots : at[i] = at[j] /\ i # j => at[i] = -1

\* TOLibConfig.cfg:58: a face is given up when the detector has missed it more than
\* dormant_count_threshold times in a row.  It is not given up before.
DroppedOnlyWhenDue ==
  [][\A i \in Slots : Misses(i) /\ slot[i] = "working" /\ slot'[i] = "stop"
                      => own'[i] > DormantThr]_vars

=============================================================================
