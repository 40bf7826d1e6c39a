---------------------------- MODULE FaceMatchProofs ----------------------------
(* The comparison's verdicts and the counters of missed faces, for any number of *)
(* slots and faces, any overlaps and any thresholds.                             *)
EXTENDS FaceMatch, Recursion

Types == TypeOK /\ CountsCover

-----------------------------------------------------------------------------
LEMMA MoreTypes ==
  \A m, n \in 0..Cap : /\ More(n) \in 0..Cap
                       /\ m <= n => More(m) <= More(n)
                       /\ n <= More(n)
BY FaceMatchAssumption DEF More, Cap

LEMMA JudgeTypes ==
  \A k : \A overlap : \A i \in Slots : Judge(i, k, overlap) \in Verdict
<1> TAKE k
<1> TAKE overlap
<1> TAKE i \in Slots
<1>1. CASE i \notin Tracked
  BY <1>1 DEF Judge, Verdict
<1>2. CASE i \in Tracked
  BY <1>2 DEF Judge, Verdict
<1> QED
  BY <1>1, <1>2

LEMMA InitTypes == Init => Types
BY FaceMatchAssumption DEF Init, Types, TypeOK, CountsCover, Cap, Verdict

\* What a call makes of the counters: a reset makes both 0, a miss raises both, and what
\* is raised for the other slots is their counter alone.
LEMMA CallCounts ==
  ASSUME Types, NEW i \in Slots, Call(i)
  PROVE  /\ slot' \in [Slots -> {"dormant", "active", "working", "stop"}]
         /\ count' \in [Slots -> 0..Cap] /\ own' \in [Slots -> 0..Cap]
         /\ CountsCover'
<1> USE DEF Types, TypeOK, CountsCover
<1>1. 0 \in 0..Cap
  BY FaceMatchAssumption DEF Cap
<1>2. CASE PutObject(i) \/ TryToActiveObject(i) \/ TryToFixObject(i) \/ KeepObjectWell(i)
  <2>1. slot' \in [Slots -> {"dormant", "active", "working", "stop"}]
    BY <1>2 DEF PutObject, TryToActiveObject, TryToFixObject, KeepObjectWell
  <2>2. /\ own' = [own EXCEPT ![i] = 0] \/ own' = own
        /\ count' = [count EXCEPT ![i] = 0] \/ count' = count
        /\ count' = [count EXCEPT ![i] = 0] => own' = [own EXCEPT ![i] = 0]
    BY <1>2 DEF PutObject, TryToActiveObject, TryToFixObject, KeepObjectWell
  <2>3. count' \in [Slots -> 0..Cap] /\ own' \in [Slots -> 0..Cap]
    BY <1>1, <2>2
  <2>4. ASSUME NEW l \in Slots PROVE own'[l] <= count'[l]
    <3>1. own[l] <= count[l] /\ own[l] \in 0..Cap /\ count[l] \in 0..Cap
      OBVIOUS
    <3>2. \/ own'[l] = 0 /\ count'[l] \in 0..Cap
          \/ own'[l] = own[l] /\ count'[l] = count[l]
      BY <1>2, <2>2, <2>3
         DEF PutObject, TryToActiveObject, TryToFixObject, KeepObjectWell
    <3> QED
      BY <3>1, <3>2
  <2> QED
    BY <2>1, <2>3, <2>4
<1>3. CASE TryToDormantObject(i)
  <2>1. slot' \in [Slots -> {"dormant", "active", "working", "stop"}]
    BY <1>3 DEF TryToDormantObject
  <2>2. \A l \in Slots : count'[l] = More(count[l])
    BY <1>3 DEF TryToDormantObject
  <2>3. \A l \in Slots : own'[l] = IF l = i THEN More(own[l]) ELSE own[l]
    BY <1>3 DEF TryToDormantObject
  <2>4. count' \in [Slots -> 0..Cap] /\ own' \in [Slots -> 0..Cap]
    BY <1>3, MoreTypes DEF TryToDormantObject
  <2>5. ASSUME NEW l \in Slots PROVE own'[l] <= count'[l]
    <3>1. own[l] <= count[l] /\ own[l] \in 0..Cap /\ count[l] \in 0..Cap
      OBVIOUS
    <3>2. More(own[l]) <= More(count[l]) /\ count[l] <= More(count[l])
          /\ More(count[l]) \in 0..Cap
      BY <3>1, MoreTypes
    <3> QED
      BY <2>2, <2>3, <3>1, <3>2
  <2> QED
    BY <2>1, <2>4, <2>5
<1> QED
  BY <1>2, <1>3 DEF Call

LEMMA StepTypes == Types /\ [Next]_vars => Types'
<1> SUFFICES ASSUME Types, [Next]_vars PROVE Types'
  OBVIOUS
<1>1. ASSUME NEW i \in Slots, Call(i) PROVE Types'
  <2>1. /\ ops' \in [Slots -> Verdict \cup {"put"}] /\ tested' \subseteq Slots
        /\ first' \in BOOLEAN
    BY <1>1 DEF Call, Types, TypeOK, Verdict
  <2> QED
    BY <1>1, <2>1, CallCounts DEF Types, TypeOK
<1> USE DEF Types, TypeOK, CountsCover
<1>2. ASSUME NEW k \in 0..MaxFaces, NEW overlap \in Tables(k), Compare(k, overlap)
      PROVE  Types'
  <2>1. ops' \in [Slots -> Verdict \cup {"put"}]
    BY <1>2, JudgeTypes DEF Compare, Verdicts
  <2> QED
    BY <1>2, <2>1 DEF Compare
<1>3. CASE Predetect
  BY <1>3 DEF Predetect
<1>4. CASE Deliver
  <2>1. ops' \in [Slots -> Verdict \cup {"put"}]
    BY <1>4 DEF Deliver, Verdict
  <2> QED
    BY <1>4, <2>1 DEF Deliver
<1>5. ASSUME NEW i \in Slots, Visit(i) \/ OutOfView(i) \/ TailTest(i) \/ AddNewTail(i)
      PROVE  Types'
  BY <1>5 DEF Visit, OutOfView, TailTest, AddNewTail
<1>6. CASE UNCHANGED vars
  BY <1>6 DEF vars
<1> QED
  BY <1>1, <1>2, <1>3, <1>4, <1>5, <1>6 DEF Next, Detector, Tracker

LEMMA AlwaysTypes == Spec => []Types
BY InitTypes, StepTypes, PTL DEF Spec

\* Type correctness: every variable keeps its type.
THEOREM TypeCorrect == Spec => []TypeOK
BY AlwaysTypes, PTL DEF Types

\* CountsCover: a slot's counter is never behind the misses of the face it tracks.
THEOREM CountersCover == Spec => []CountsCover
BY AlwaysTypes, PTL DEF Types

-----------------------------------------------------------------------------
\* A miss is reported by a call of tryToDormantObject and by nothing else.
LEMMA MissIsCall ==
  ASSUME Types, [Next]_vars, NEW i \in Slots, Misses(i)
  PROVE  Call(i) /\ TryToDormantObject(i)
<1> USE DEF Misses
<1>1. ASSUME NEW l \in Slots, Call(l) PROVE Call(i) /\ TryToDormantObject(i)
  <2>1. \A j \in Slots : j # l => ops'[j] = ops[j]
    BY <1>1 DEF Call, Types, TypeOK
  <2>2. l = i
    BY <2>1
  <2> QED
    BY <1>1, <2>2 DEF Call
<1>2. ~CallsMade
  BY DEF CallsMade
<1>3. ~(Predetect \/ Deliver)
  BY <1>2 DEF Predetect, Deliver
<1>4. ASSUME NEW k \in 0..MaxFaces, NEW overlap \in Tables(k), Compare(k, overlap)
      PROVE  FALSE
  BY <1>2, <1>4 DEF Compare
<1>5. ASSUME NEW l \in Slots, Visit(l) \/ OutOfView(l) \/ TailTest(l) \/ AddNewTail(l)
      PROVE  FALSE
  BY <1>5 DEF Visit, OutOfView, TailTest, AddNewTail
<1>6. ~UNCHANGED vars
  BY DEF vars
<1> QED
  BY <1>1, <1>3, <1>4, <1>5, <1>6 DEF Next, Detector, Tracker

LEMMA MissStep ==
  Types /\ [Next]_vars
  => [\A i \in Slots : Misses(i) /\ own'[i] > DormantThr => slot'[i] # "working"]_vars
<1> SUFFICES ASSUME Types, [Next]_vars, NEW i \in Slots, Misses(i), own'[i] > DormantThr
             PROVE  slot'[i] # "working"
  OBVIOUS
<1>1. TryToDormantObject(i)
  BY MissIsCall
<1>2. Types'
  BY StepTypes
<1>3. own'[i] <= count'[i] /\ own'[i] \in 0..Cap /\ count'[i] \in 0..Cap
  BY <1>2 DEF Types, TypeOK, CountsCover
<1>4. count'[i] > DormantThr
  BY <1>3, FaceMatchAssumption DEF Cap
<1>5. CASE slot[i] = "working"
  BY <1>1, <1>4, <1>5 DEF TryToDormantObject, Types, TypeOK
<1>6. CASE slot[i] # "working"
  BY <1>1, <1>6 DEF TryToDormantObject, Types, TypeOK
<1> QED
  BY <1>5, <1>6

\* MissedIsStopped: the call that reports more than dormant_count_threshold misses in a
\* row of one face stops its slot.
THEOREM MissedFaceStopped == Spec => MissedIsStopped
<1>1. Types /\ [Next]_vars
      => [\A i \in Slots : Misses(i) /\ own'[i] > DormantThr => slot'[i] # "working"]_vars
  BY MissStep
<1> QED
  BY <1>1, AlwaysTypes, PTL DEF Spec, MissedIsStopped

-----------------------------------------------------------------------------
(* The running maximum of a line of the table.                              *)

\* The turns of the loop over the faces.
LEMMA BestFaceLoop ==
  ASSUME NEW row
  PROVE  \E best : /\ best[0] = [face |-> 0, value |-> -1]
                   /\ \A n \in Nat :
                        best[n + 1] = IF row[n] > best[n].value
                                      THEN [face |-> n, value |-> row[n]] ELSE best[n]
                   /\ \A k \in Nat : BestFace(row, k) = best[k].face
<1> DEFINE S == [face : Nat, value : {-1} \cup {row[n] : n \in Nat}]
           base == [face |-> 0, value |-> -1]
           turn == [n \in Nat |-> [b \in S |-> IF row[n] > b.value
                                               THEN [face |-> n, value |-> row[n]] ELSE b]]
           best[j \in Nat] ==
             IF j = 0 THEN [face |-> 0, value |-> -1]
             ELSE LET b == best[j - 1]
                  IN IF row[j - 1] > b.value THEN [face |-> j - 1, value |-> row[j - 1]] ELSE b
<1>1. base \in S /\ IsStep(turn, S)
  BY DEF IsStep
<1>2. PICK f : Recurs(f, S, base, turn)
  <2> HIDE DEF S, base, turn, best
  <2> QED
    BY <1>1, RecursionExists
<1> USE <1>2 DEF Recurs
<1>3. f = [j \in Nat |->
             IF j = 0 THEN [face |-> 0, value |-> -1]
             ELSE LET b == f[j - 1]
                  IN IF row[j - 1] > b.value THEN [face |-> j - 1, value |-> row[j - 1]] ELSE b]
  <2> SUFFICES ASSUME NEW j \in Nat
               PROVE  f[j] = IF j = 0 THEN [face |-> 0, value |-> -1]
                             ELSE LET b == f[j - 1]
                                  IN IF row[j - 1] > b.value
                                     THEN [face |-> j - 1, value |-> row[j - 1]] ELSE b
    BY <1>2
  <2>1. CASE j = 0
    BY <1>2, <2>1
  <2>2. CASE j # 0
    <3>1. j - 1 \in Nat /\ (j - 1) + 1 = j
      BY <2>2
    <3>2. f[j - 1] \in S
      BY <1>2, <3>1
    <3>3. f[j] = turn[j - 1][f[j - 1]]
      <4> HIDE DEF turn, S
      <4> QED
        BY <1>2, <3>1
    <3> QED
      BY <2>2, <3>1, <3>2, <3>3
  <2> QED
    BY <2>1, <2>2
<1>4. best = [j \in Nat |->
             IF j = 0 THEN [face |-> 0, value |-> -1]
             ELSE LET b == best[j - 1]
                  IN IF row[j - 1] > b.value THEN [face |-> j - 1, value |-> row[j - 1]] ELSE b]
  BY <1>3
<1>5. \A k \in Nat : BestFace(row, k) = best[k].face
  BY DEF BestFace
<1> HIDE DEF best
<1>6. best[0] = [face |-> 0, value |-> -1]
  BY <1>4
<1>7. ASSUME NEW n \in Nat
      PROVE  best[n + 1] = IF row[n] > best[n].value
                                      THEN [face |-> n, value |-> row[n]] ELSE best[n]
  BY <1>4
<1> QED
  BY <1>5, <1>6, <1>7

\* What the loop leaves is the greatest of the line.
LEMMA BestFaceIsBest ==
  ASSUME NEW k \in Nat, k # 0, NEW row \in [Faces(k) -> Overlaps]
  PROVE  BestFace(row, k) \in Faces(k) /\ \A j \in Faces(k) : row[j] <= row[BestFace(row, k)]
<1>1. PICK best : /\ best[0] = [face |-> 0, value |-> -1]
                  /\ \A n \in Nat :
                       best[n + 1] = IF row[n] > best[n].value
                                     THEN [face |-> n, value |-> row[n]] ELSE best[n]
                  /\ \A n \in Nat : BestFace(row, n) = best[n].face
  BY BestFaceLoop
<1> DEFINE Best(n) == /\ best[n].face \in 0..n-1 /\ best[n].value = row[best[n].face]
                      /\ \A j \in 0..n-1 : row[j] <= best[n].value
           T == {n \in 1..k : ~Best(n)}
<1>2. ASSUME T # {} PROVE FALSE
  <2>1. PICK m \in T : \A n \in T : m <= n
    <3>1. T \in SUBSET Nat
      OBVIOUS
    <3> HIDE DEF T
    <3> QED
      BY <1>2, <3>1, LeastNumber
  <2>2. m \in 1..k /\ m - 1 \in Nat /\ (m - 1) + 1 = m /\ m - 1 \in Faces(k)
    BY <2>1 DEF Faces
  <2>3. best[m] = IF row[m - 1] > best[m - 1].value
                  THEN [face |-> m - 1, value |-> row[m - 1]] ELSE best[m - 1]
    BY <1>1, <2>2
  <2>4. row[m - 1] \in Nat
    BY <2>2, FaceMatchAssumption
  <2>5. CASE m = 1
    <3>1. best[m] = [face |-> 0, value |-> row[0]]
      BY <1>1, <2>3, <2>4, <2>5
    <3>2. Best(m)
      BY <2>4, <2>5, <3>1
    <3> QED
      BY <2>1, <3>2
  <2>6. CASE m # 1
    <3>1. Best(m - 1)
      <4>1. m - 1 \in 1..k /\ ~(m <= m - 1)
        BY <2>2, <2>6
      <4> HIDE DEF Best
      <4> QED
        BY <2>1, <4>1
    <3>2. row[best[m - 1].face] \in Nat /\ \A j \in 0..(m - 1)-1 : row[j] \in Nat
      <4>1. \A j \in 0..(m - 1)-1 : j \in Faces(k)
        BY <2>2 DEF Faces
      <4>2. \A j \in Faces(k) : row[j] \in Nat
        BY FaceMatchAssumption
      <4> QED
        BY <3>1, <4>1, <4>2
    <3>3. CASE row[m - 1] > best[m - 1].value
      <4>1. best[m] = [face |-> m - 1, value |-> row[m - 1]]
        BY <2>3, <3>3
      <4>2. \A j \in 0..m-1 : row[j] <= row[m - 1]
        BY <2>2, <2>4, <3>1, <3>2, <3>3
      <4>3. Best(m)
        BY <2>2, <4>1, <4>2
      <4> QED
        BY <2>1, <4>3
    <3>4. CASE ~(row[m - 1] > best[m - 1].value)
      <4>1. best[m] = best[m - 1]
        BY <2>3, <3>4
      <4>2. \A j \in 0..m-1 : row[j] <= best[m - 1].value
        BY <2>2, <2>4, <3>1, <3>2, <3>4
      <4>3. Best(m)
        BY <2>2, <3>1, <4>1, <4>2
      <4> QED
        BY <2>1, <4>3
    <3> QED
      BY <3>3, <3>4
  <2> QED
    BY <2>5, <2>6
<1>3. Best(k)
  BY <1>2
<1> QED
  BY <1>1, <1>3 DEF Faces

-----------------------------------------------------------------------------
(* The placement of the new faces.                                          *)

Empty == Slots \ Tracked
Free(at) == {i \in Empty : at[i] = -1}
Used(at) == {i \in Empty : at[i] # -1}
FirstOf(free) == CHOOSE i \in free : \A l \in free : i <= l

\* What a turn of the outer loop makes of the placement.
Turned(at, j, overlap) ==
  IF IsNew(j, overlap) /\ Free(at) # {} THEN [at EXCEPT ![FirstOf(Free(at))] = j] ELSE at

LEMMA FirstOfFree ==
  ASSUME NEW free \in SUBSET Slots, free # {}
  PROVE  FirstOf(free) \in free /\ \A l \in free : FirstOf(free) <= l
<1>1. free \in SUBSET Nat
  BY FaceMatchAssumption DEF Slots
<1>2. \E i \in free : \A l \in free : i <= l
  BY <1>1, LeastNumber
<1> QED
  BY <1>2 DEF FirstOf

LEMMA TurnedTypes ==
  ASSUME NEW overlap, NEW n \in Nat, NEW at \in [Slots -> Int]
  PROVE  Turned(at, n, overlap) \in [Slots -> Int]
<1>1. CASE Free(at) # {}
  <2>1. FirstOf(Free(at)) \in Slots
    BY <1>1, FirstOfFree DEF Free, Empty
  <2> QED
    BY <2>1 DEF Turned
<1>2. CASE Free(at) = {}
  BY <1>2 DEF Turned
<1> QED
  BY <1>1, <1>2

LEMMA PlacementLoop ==
  ASSUME NEW overlap
  PROVE  \E placed : /\ placed[0] = [i \in Slots |-> -1]
                     /\ \A n \in Nat : placed[n + 1] = Turned(placed[n], n, overlap)
                     /\ \A k \in Nat : Placement(k, overlap) = placed[k]
<1> DEFINE S == [Slots -> Int]
           base == [i \in Slots |-> -1]
           turn == [n \in Nat |-> [at \in S |-> Turned(at, n, overlap)]]
           placed[j \in Nat] ==
             IF j = 0 THEN [i \in Slots |-> -1]
             ELSE LET at == placed[j - 1]
                      free == {i \in Slots \ Tracked : at[i] = -1}
                  IN IF IsNew(j - 1, overlap) /\ free # {}
                     THEN [at EXCEPT ![CHOOSE i \in free : \A l \in free : i <= l] = j - 1]
                     ELSE at
<1>1. base \in S /\ IsStep(turn, S)
  <2>1. ASSUME NEW n \in Nat, NEW at \in S PROVE Turned(at, n, overlap) \in S
    BY TurnedTypes
  <2> QED
    BY <2>1 DEF IsStep
<1>2. PICK f : Recurs(f, S, base, turn)
  <2> HIDE DEF S, base, turn, placed
  <2> QED
    BY <1>1, RecursionExists
<1>3. f = [j \in Nat |->
             IF j = 0 THEN [i \in Slots |-> -1] ELSE Turned(f[j - 1], j - 1, overlap)]
  <2> SUFFICES ASSUME NEW j \in Nat
               PROVE  f[j] = IF j = 0 THEN [i \in Slots |-> -1]
                             ELSE Turned(f[j - 1], j - 1, overlap)
    BY <1>2 DEF Recurs
  <2>1. CASE j = 0
    BY <1>2, <2>1 DEF Recurs
  <2>2. CASE j # 0
    <3>1. j - 1 \in Nat /\ (j - 1) + 1 = j
      BY <2>2
    <3>2. f[j - 1] \in S
      BY <1>2, <3>1 DEF Recurs
    <3>3. f[j] = turn[j - 1][f[j - 1]]
      <4> HIDE DEF turn, S
      <4> QED
        BY <1>2, <3>1 DEF Recurs
    <3>4. turn[j - 1][f[j - 1]] = Turned(f[j - 1], j - 1, overlap)
      <4> HIDE DEF S
      <4> QED
        BY <3>1, <3>2
    <3> QED
      BY <2>2, <3>3, <3>4
  <2> QED
    BY <2>1, <2>2
<1>4. f = [j \in Nat |->
             IF j = 0 THEN [i \in Slots |-> -1]
             ELSE LET at == f[j - 1]
                      free == {i \in Slots \ Tracked : at[i] = -1}
                  IN IF IsNew(j - 1, overlap) /\ free # {}
                     THEN [at EXCEPT ![CHOOSE i \in free : \A l \in free : i <= l] = j - 1]
                     ELSE at]
  BY <1>3 DEF Turned, Free, Empty, FirstOf
<1>5. placed = [j \in Nat |->
             IF j = 0 THEN [i \in Slots |-> -1]
             ELSE LET at == placed[j - 1]
                      free == {i \in Slots \ Tracked : at[i] = -1}
                  IN IF IsNew(j - 1, overlap) /\ free # {}
                     THEN [at EXCEPT ![CHOOSE i \in free : \A l \in free : i <= l] = j - 1]
                     ELSE at]
  BY <1>4
<1>6. \A k \in Nat : Placement(k, overlap) = placed[k]
  BY DEF Placement
<1> HIDE DEF placed
<1>7. placed = [j \in Nat |->
             IF j = 0 THEN [i \in Slots |-> -1] ELSE Turned(placed[j - 1], j - 1, overlap)]
  BY <1>5 DEF Turned, Free, Empty, FirstOf
<1>8. placed[0] = [i \in Slots |-> -1]
  BY <1>7
<1>9. ASSUME NEW n \in Nat PROVE placed[n + 1] = Turned(placed[n], n, overlap)
  BY <1>7
<1> QED
  BY <1>6, <1>8, <1>9

\* The faces below n that are near no tracked one.
NewBefore(n, overlap) == {j \in Faces(n) : IsNew(j, overlap)}

\* After n turns: no face twice and none in a tracked slot; the slots in front are used
\* first; as many are used as there were new faces, or all.
PlacedSoFar(n, at, overlap) ==
  /\ at \in [Slots -> Int]
  /\ \A i \in Slots : at[i] = -1 \/ at[i] \in 0..n-1
  /\ \A i, l \in Slots : at[i] = at[l] /\ i # l => at[i] = -1
  /\ \A i \in Slots \cap Tracked : at[i] = -1
  /\ \A i \in Used(at) : \A l \in Empty : l < i => l \in Used(at)
  /\ Cardinality(Used(at)) <= Cardinality(NewBefore(n, overlap))
  /\ Cardinality(Used(at)) = Cardinality(NewBefore(n, overlap)) \/ Used(at) = Empty

LEMMA Finite ==
  ASSUME NEW n \in Nat, NEW at, NEW overlap
  PROVE  /\ IsFiniteSet(Slots) /\ IsFiniteSet(Empty) /\ IsFiniteSet(Used(at))
         /\ IsFiniteSet(NewBefore(n, overlap))
         /\ Cardinality(Used(at)) \in Nat /\ Cardinality(NewBefore(n, overlap)) \in Nat
         /\ Cardinality(Empty) \in Nat
<1>1. IsFiniteSet(Slots) /\ IsFiniteSet(Faces(n))
  BY FS_Interval, FaceMatchAssumption DEF Slots, Faces
<1>2. IsFiniteSet(Empty) /\ IsFiniteSet(Used(at)) /\ IsFiniteSet(NewBefore(n, overlap))
  BY <1>1, FS_Subset DEF Empty, Used, NewBefore
<1> QED
  BY <1>1, <1>2, FS_CardinalityType

\* A new face is one more, any other none.
LEMMA NewBeforeNext ==
  ASSUME NEW n \in Nat, NEW overlap
  PROVE  Cardinality(NewBefore(n + 1, overlap)) =
           IF IsNew(n, overlap) THEN Cardinality(NewBefore(n, overlap)) + 1
           ELSE Cardinality(NewBefore(n, overlap))
<1>1. CASE IsNew(n, overlap)
  <2>1. NewBefore(n + 1, overlap) = NewBefore(n, overlap) \cup {n} /\ n \notin NewBefore(n, overlap)
    BY <1>1 DEF NewBefore, Faces
  <2> QED
    BY <1>1, <2>1, Finite, FS_AddElement
<1>2. CASE ~IsNew(n, overlap)
  <2>1. NewBefore(n + 1, overlap) = NewBefore(n, overlap)
    BY <1>2 DEF NewBefore, Faces
  <2> QED
    BY <1>2, <2>1
<1> QED
  BY <1>1, <1>2

LEMMA PlacedAtFirst ==
  ASSUME NEW overlap
  PROVE  PlacedSoFar(0, [i \in Slots |-> -1], overlap)
<1> DEFINE at == [i \in Slots |-> -1]
<1>1. Used(at) = {} /\ NewBefore(0, overlap) = {}
  BY DEF Used, Empty, NewBefore, Faces
<1> QED
  BY <1>1, FS_EmptySet DEF PlacedSoFar

LEMMA PlacedNext ==
  ASSUME NEW overlap, NEW n \in Nat, NEW at, PlacedSoFar(n, at, overlap)
  PROVE  PlacedSoFar(n + 1, Turned(at, n, overlap), overlap)
<1> USE DEF PlacedSoFar
<1> DEFINE to == Turned(at, n, overlap)
           c == Cardinality(NewBefore(n, overlap))
<1>1. to \in [Slots -> Int]
  BY TurnedTypes
<1>2. /\ c \in Nat /\ Cardinality(Used(at)) \in Nat
      /\ Cardinality(NewBefore(n + 1, overlap)) = IF IsNew(n, overlap) THEN c + 1 ELSE c
  BY Finite, NewBeforeNext
<1>3. CASE IsNew(n, overlap) /\ Free(at) # {}
  <2> DEFINE f == FirstOf(Free(at))
  <2>1. f \in Empty /\ f \in Slots /\ at[f] = -1 /\ \A l \in Free(at) : f <= l
    BY <1>3, FirstOfFree DEF Free, Empty
  <2>2. to = [at EXCEPT ![f] = n]
    BY <1>3 DEF Turned
  <2> HIDE DEF to, f
  <2>3. to[f] = n /\ \A i \in Slots : i # f => to[i] = at[i]
    BY <2>1, <2>2
  <2>4. Used(to) = Used(at) \cup {f} /\ f \notin Used(at)
    BY <2>1, <2>3 DEF Used, Empty
  <2>5. Cardinality(Used(to)) = Cardinality(Used(at)) + 1
    <3>1. IsFiniteSet(Used(at))
      BY Finite
    <3> HIDE DEF PlacedSoFar
    <3> QED
      BY <2>4, <3>1, FS_AddElement
  <2>6. Used(at) # Empty
    BY <2>1, <2>4
  <2>7. \A i \in Slots : to[i] = -1 \/ to[i] \in 0..(n + 1)-1
    BY <2>3
  <2>8. \A i, l \in Slots : to[i] = to[l] /\ i # l => to[i] = -1
    BY <2>3
  <2>9. \A i \in Slots \cap Tracked : to[i] = -1
    BY <2>1, <2>3 DEF Empty
  <2>10. ASSUME NEW i \in Used(to), NEW l \in Empty, l < i PROVE l \in Used(to)
    <3>1. CASE i = f
      <4>1. l \notin Free(at)
        <5>1. l \in Nat /\ f \in Nat
          BY <2>1, FaceMatchAssumption DEF Empty, Slots
        <5> QED
          BY <2>1, <2>10, <3>1, <5>1
      <4> QED
        BY <4>1, <2>4 DEF Free, Used
    <3>2. CASE i # f
      BY <2>4, <2>10, <3>2
    <3> QED
      BY <3>1, <3>2
  <2> QED
    BY <1>1, <1>2, <1>3, <2>5, <2>6, <2>7, <2>8, <2>9, <2>10 DEF to
<1>4. CASE ~(IsNew(n, overlap) /\ Free(at) # {})
  <2>1. to = at
    BY <1>4 DEF Turned
  <2> HIDE DEF to
  <2>2. IsNew(n, overlap) => Used(at) = Empty
    BY <1>4 DEF Free, Used
  <2>3. \A i \in Slots : to[i] = -1 \/ to[i] \in 0..(n + 1)-1
    BY <2>1
  <2> QED
    BY <1>1, <1>2, <2>1, <2>2, <2>3 DEF to
<1> QED
  BY <1>3, <1>4

LEMMA PlacementPlaced ==
  ASSUME NEW k \in Nat, NEW overlap
  PROVE  PlacedSoFar(k, Placement(k, overlap), overlap)
<1>1. PICK placed : /\ placed[0] = [i \in Slots |-> -1]
                    /\ \A n \in Nat : placed[n + 1] = Turned(placed[n], n, overlap)
                    /\ \A n \in Nat : Placement(n, overlap) = placed[n]
  BY PlacementLoop
<1> DEFINE T == {n \in Nat : ~PlacedSoFar(n, placed[n], overlap)}
<1>2. ASSUME T # {} PROVE FALSE
  <2>1. PICK m \in T : \A n \in T : m <= n
    <3>1. T \in SUBSET Nat
      OBVIOUS
    <3> HIDE DEF T
    <3> QED
      BY <1>2, <3>1, LeastNumber
  <2>2. m # 0
    BY <1>1, <2>1, PlacedAtFirst
  <2>3. m - 1 \in Nat /\ m - 1 \notin T /\ (m - 1) + 1 = m
    BY <2>1, <2>2
  <2>4. PlacedSoFar(m - 1, placed[m - 1], overlap)
    BY <2>3
  <2>5. PlacedSoFar((m - 1) + 1, Turned(placed[m - 1], m - 1, overlap), overlap)
    BY <2>3, <2>4, PlacedNext
  <2>6. placed[m] = Turned(placed[m - 1], m - 1, overlap)
    BY <1>1, <2>3
  <2> QED
    BY <2>1, <2>3, <2>5, <2>6
<1> QED
  BY <1>1, <1>2

-----------------------------------------------------------------------------
\* A face near no tracked one is, of all faces, what a table without lines makes of each.
LEMMA AllNew ==
  ASSUME NEW k \in Nat, NEW overlap
  PROVE  /\ Cardinality(Faces(k)) = k /\ Cardinality(NewBefore(k, overlap)) <= k
         /\ Cardinality(NewBefore(k, overlap)) = k <=> \A j \in Faces(k) : IsNew(j, overlap)
<1>1. IsFiniteSet(Faces(k)) /\ Cardinality(Faces(k)) = k
  BY FS_Interval DEF Faces
<1>2. NewBefore(k, overlap) \in SUBSET Faces(k)
  BY DEF NewBefore
<1>3. /\ Cardinality(NewBefore(k, overlap)) <= Cardinality(Faces(k))
      /\ Cardinality(Faces(k)) = Cardinality(NewBefore(k, overlap))
         => Faces(k) = NewBefore(k, overlap)
  BY <1>1, <1>2, FS_Subset
<1>4. Faces(k) = NewBefore(k, overlap) <=> \A j \in Faces(k) : IsNew(j, overlap)
  BY DEF NewBefore
<1> QED
  BY <1>1, <1>3, <1>4

\* The slots that the placement uses are the first of the empty ones.
LEMMA UsedAreFirst ==
  ASSUME NEW k \in Nat, NEW overlap, NEW i \in Empty
  PROVE  Placement(k, overlap)[i] # -1
         <=> Cardinality({j \in Empty : j < i}) < Cardinality(NewBefore(k, overlap))
<1> DEFINE at == Placement(k, overlap)
           before == {j \in Empty : j < i}
           f == Cardinality(NewBefore(k, overlap))
<1>1. /\ \A u \in Used(at) : \A l \in Empty : l < u => l \in Used(at)
      /\ Cardinality(Used(at)) <= f
      /\ Cardinality(Used(at)) = f \/ Used(at) = Empty
  BY PlacementPlaced DEF PlacedSoFar
<1>2. IsFiniteSet(Empty) /\ IsFiniteSet(Used(at)) /\ f \in Nat
      /\ Cardinality(Used(at)) \in Nat
  BY Finite
<1>3. before \in SUBSET Empty /\ Empty \subseteq Nat /\ i \notin before
  BY FaceMatchAssumption DEF Empty, Slots
<1>4. IsFiniteSet(before) /\ Cardinality(before) \in Nat
  <2> HIDE DEF before
  <2> QED
    BY <1>2, <1>3, FS_Subset, FS_CardinalityType
<1>5. at[i] # -1 <=> i \in Used(at)
  BY DEF Used
<1> HIDE DEF at, f
<1>6. CASE i \in Used(at)
  <2>1. before \cup {i} \in SUBSET Used(at)
    BY <1>1, <1>6
  <2> HIDE DEF before
  <2>2. Cardinality(before \cup {i}) <= Cardinality(Used(at))
    BY <2>1, <1>2, FS_Subset
  <2>3. Cardinality(before \cup {i}) = Cardinality(before) + 1
    BY <1>3, <1>4, FS_AddElement
  <2>4. Cardinality(before) < f
    BY <1>1, <1>2, <1>4, <2>2, <2>3
  <2> QED
    BY <1>5, <1>6, <2>4 DEF at, before, f
<1>7. CASE i \notin Used(at)
  <2>1. Used(at) \in SUBSET before
    <3> SUFFICES ASSUME NEW u \in Used(at) PROVE u \in Empty /\ u < i
      OBVIOUS
    <3>1. u \in Empty
      BY DEF Used
    <3>2. u \in Nat /\ i \in Nat /\ u # i /\ ~(i < u)
      BY <1>1, <1>3, <1>7, <3>1
    <3> QED
      BY <3>1, <3>2
  <2> HIDE DEF before
  <2>2. Cardinality(Used(at)) <= Cardinality(before)
    BY <2>1, <1>4, FS_Subset
  <2>3. Cardinality(Used(at)) = f
    BY <1>1, <1>7
  <2>4. ~(Cardinality(before) < f)
    BY <1>2, <1>4, <2>2, <2>3
  <2> QED
    BY <1>5, <1>7, <2>4 DEF at, before, f
<1> QED
  BY <1>6, <1>7

\* A comparison's verdicts, whatever the table.
LEMMA VerdictsOfTable ==
  ASSUME NEW k \in Nat, NEW overlap \in Tables(k)
  PROVE  Allowed(Verdicts(k, overlap), Tracked, k, Cardinality(NewBefore(k, overlap)))
<1> DEFINE o == Verdicts(k, overlap)
           f == Cardinality(NewBefore(k, overlap))
<1>1. \A i \in Slots : o[i] = Judge(i, k, overlap)
  BY DEF Verdicts
<1>2. Tracked \subseteq Slots /\ DOMAIN overlap = Tracked
      /\ \A i \in Tracked : DOMAIN overlap[i] = Faces(k)
  BY DEF Tracked, Tables
<1>3. \A i \in Tracked : o[i] \in {"dormant", "fix", "keep"}
  BY <1>1, <1>2 DEF Judge
<1>4. ASSUME NEW i \in Empty
      PROVE  o[i] = IF Cardinality({j \in Empty : j < i}) < f THEN "active" ELSE "nothing"
  <2>1. o[i] = IF Placement(k, overlap)[i] # -1 THEN "active" ELSE "nothing"
    BY <1>1 DEF Judge, Empty
  <2> HIDE DEF o
  <2> QED
    BY <2>1, UsedAreFirst
<1>5. ASSUME f = k, NEW i \in Tracked PROVE o[i] = "dormant"
  <2>1. \A j \in Faces(k) : ~Near(overlap[i][j])
    BY <1>2, <1>5, AllNew DEF IsNew
  <2>2. ~Kept(i, overlap) /\ ~Corrected(i, overlap)
    BY <1>2, <2>1 DEF Kept, Corrected, Near
  <2> QED
    BY <1>1, <1>2, <2>2 DEF Judge
<1>6. ASSUME f < k PROVE Tracked # {}
  <2>1. f # k
    <3>1. f \in Nat
      BY Finite
    <3> QED
      BY <1>6, <3>1
  <2>2. PICK j \in Faces(k) : ~IsNew(j, overlap)
    BY <2>1, AllNew
  <2> QED
    BY <1>2, <2>2 DEF IsNew
<1> HIDE DEF o, f
<1>7. Allowed(o, Tracked, k, f)
  BY <1>3, <1>4, <1>5, <1>6 DEF Allowed, Empty
<1> QED
  BY <1>7 DEF o, f

\* VerdictsAllowed: whatever the overlaps, what the comparison asks of the tracker is what
\* DetectTrack takes it to be free to ask.
THEOREM ComparisonAllowed == Spec => []VerdictsAllowed
<1>1. VerdictsAllowed
  <2>1. \A k \in 0..MaxFaces : k \in Nat
    BY FaceMatchAssumption
  <2> QED
    BY <2>1, VerdictsOfTable DEF VerdictsAllowed, NewBefore
<1> QED
  BY <1>1, PTL

LEMMA FixedToBest ==
  ASSUME NEW k \in Nat, NEW overlap \in Tables(k), NEW i \in Tracked,
         Judge(i, k, overlap) = "fix"
  PROVE  /\ overlap[i][BestFace(overlap[i], k)] > EnableThr
         /\ \A j \in Faces(k) : overlap[i][j] <= overlap[i][BestFace(overlap[i], k)]
<1>1. overlap[i] \in [Faces(k) -> Overlaps] /\ DOMAIN overlap[i] = Faces(k)
  BY DEF Tables
<1>2. PICK j \in Faces(k) : overlap[i][j] > EnableThr
  BY <1>1 DEF Judge, Corrected
<1>3. k # 0
  BY <1>2 DEF Faces
<1>4. /\ BestFace(overlap[i], k) \in Faces(k)
      /\ \A l \in Faces(k) : overlap[i][l] <= overlap[i][BestFace(overlap[i], k)]
  BY <1>1, <1>3, BestFaceIsBest
<1>5. \A l \in Faces(k) : overlap[i][l] \in Nat
  BY <1>1, FaceMatchAssumption
<1> QED
  BY <1>2, <1>4, <1>5, FaceMatchAssumption

\* FacesGiven: a slot is corrected to the face that overlaps it most, by more than the
\* threshold, and no face is put into two slots.
THEOREM FacesAreGiven == Spec => []FacesGiven
<1>1. FacesGiven
  <2>1. \A k \in 0..MaxFaces : k \in Nat
    BY FaceMatchAssumption
  <2>2. \A k \in 0..MaxFaces : \A overlap : \A i, j \in Slots :
          Placement(k, overlap)[i] = Placement(k, overlap)[j] /\ i # j
          => Placement(k, overlap)[i] = -1
    BY <2>1, PlacementPlaced DEF PlacedSoFar
  <2> QED
    BY <2>1, <2>2, FixedToBest DEF FacesGiven
<1> QED
  BY <1>1, PTL

=============================================================================
