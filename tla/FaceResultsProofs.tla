--------------------------- MODULE FaceResultsProofs ---------------------------
(* What the application gets, for any number of slots, rectangles and frames. *)
EXTENDS FaceResults, TLAPS

USE FaceResultsAssumption DEF enabled, slots, results, shaping, cache, Slots, Rect

Typed == TypeOK /\ Lengths

-----------------------------------------------------------------------------
(* Types and lengths                                                       *)

LEMMA InitTyped == Init => Typed
<1> SUFFICES ASSUME Init PROVE Typed
  OBVIOUS
<1>1. sync \in BOOLEAN /\ landmark \in BOOLEAN /\ thrown \in BOOLEAN
  BY DEF Init
<1>2. TypeOK
  BY <1>1 DEF Init, TypeOK
<1> QED
  BY <1>2 DEF Init, Typed, Lengths

LEMMA EnvironmentTyped ==
  ASSUME Typed, NewFrame \/ (\E n \in Slots : Change(n)) PROVE Typed'
<1> USE DEF Typed
<1>1. CASE NewFrame
  <2>1. sync' \in BOOLEAN /\ landmark' \in BOOLEAN /\ thrown' \in BOOLEAN
    BY <1>1 DEF TypeOK, NewFrame
  <2> QED
    BY <1>1, <2>1 DEF TypeOK, Lengths, NewFrame
<1>2. ASSUME NEW n \in Slots, Change(n) PROVE Typed'
  <2>1. sync' \in BOOLEAN /\ landmark' \in BOOLEAN /\ thrown' \in BOOLEAN
    BY <1>2 DEF TypeOK, Change
  <2>2. working' \subseteq Slots /\ unsteady' \subseteq Slots
    BY <1>2 DEF TypeOK, Change
  <2>3. TypeOK'
    BY <1>2, <2>1, <2>2 DEF TypeOK, Change
  <2> QED
    BY <1>2, <2>3 DEF Lengths, Change
<1> QED
  BY <1>1, <1>2

LEMMA CallTyped ==
  ASSUME Typed, CheckConcurrence PROVE Typed'
<1> USE DEF Typed
<1>0. sync' \in BOOLEAN /\ landmark' \in BOOLEAN /\ thrown' \in BOOLEAN
  BY DEF TypeOK, CheckConcurrence, Call, SameFrame, OtherFrame, ReadFace, KeepMarks,
         BeginShapes, Shape, ShapeFails, ShapeThrows, AllShaped, OutOfTime, Mark, Remember,
         Return
<1>1. CASE Call
  BY <1>0, <1>1 DEF TypeOK, Lengths, Call
<1>2. CASE SameFrame
  BY <1>0, <1>2 DEF TypeOK, Lengths, SameFrame
<1>3. CASE OtherFrame
  BY <1>0, <1>3 DEF TypeOK, Lengths, OtherFrame
<1>4. CASE ReadFace
  <2>1. PICK r \in Rect : vv' = Append(vv, r)
    BY <1>4 DEF ReadFace
  <2>2. vv' \in Seq(Rect) /\ Len(vv') <= N
    BY <1>4, <2>1 DEF ReadFace, TypeOK
  <2> QED
    BY <1>0, <1>4, <2>2 DEF TypeOK, Lengths, ReadFace
<1>5. CASE KeepMarks
  <2>1. landMark' \in {landMark, markLast} /\ Len(vv) = N
    BY <1>5 DEF KeepMarks
  <2>2. landMark' \in Seq(Rect \cup {Junk}) /\ Len(landMark') <= N
    BY <2>1 DEF TypeOK
  <2> QED
    BY <1>0, <1>5, <2>1, <2>2 DEF TypeOK, Lengths, KeepMarks
<1>6. CASE BeginShapes
  BY <1>0, <1>6 DEF TypeOK, Lengths, BeginShapes
<1>7. ASSUME NEW n \in Slots, Shape(n) \/ ShapeFails(n) \/ ShapeThrows(n) PROVE Typed'
  <2>1. pc = "shapes" /\ Len(vv) = N /\ vv[n] \in Rect
    BY <1>7 DEF TypeOK, Lengths, Shape, ShapeFails, ShapeThrows
  <2>2. shapes' \in [Slots -> Rect \cup {Junk}]
    BY <1>7, <2>1 DEF TypeOK, Shape, ShapeFails, ShapeThrows
  <2>3. todo' \subseteq Slots /\ unsteady' \subseteq Slots /\ pc' \in {"shapes", "idle"}
        /\ UNCHANGED <<working, newest, frame, vv, landMark, checked, faceLast, markLast,
                       doubtful, facesOf>>
    BY <1>7, <2>1 DEF TypeOK, Shape, ShapeFails, ShapeThrows
  <2>4. TypeOK'
    BY <1>0, <2>2, <2>3 DEF TypeOK
  <2> QED
    BY <2>1, <2>3, <2>4 DEF Lengths
<1>8. CASE AllShaped \/ OutOfTime
  BY <1>0, <1>8 DEF TypeOK, Lengths, AllShaped, OutOfTime
<1>9. CASE Mark
  <2>1. PICK m \in Rect \cup {Junk} : landMark' = Append(landMark, m)
    <3>1. Len(landMark) + 1 \in Slots
      BY <1>9 DEF Mark, TypeOK
    <3> QED
      BY <1>9, <3>1 DEF Mark, TypeOK
  <2>2. landMark' \in Seq(Rect \cup {Junk}) /\ Len(landMark') <= N
    BY <1>9, <2>1 DEF Mark, TypeOK
  <2> QED
    BY <1>0, <1>9, <2>2 DEF TypeOK, Lengths, Mark
<1>10. CASE Remember
  BY <1>0, <1>10 DEF TypeOK, Lengths, Remember
<1>11. CASE Return
  BY <1>0, <1>11 DEF TypeOK, Lengths, Return
<1> QED
  BY <1>1, <1>2, <1>3, <1>4, <1>5, <1>6, <1>7, <1>8, <1>9, <1>10, <1>11 DEF CheckConcurrence

LEMMA StepTyped == Typed /\ [Next]_vars => Typed'
<1> SUFFICES ASSUME Typed, [Next]_vars PROVE Typed'
  OBVIOUS
<1>1. CASE UNCHANGED vars
  BY <1>1 DEF Typed, TypeOK, Lengths, vars
<1> QED
  BY <1>1, EnvironmentTyped, CallTyped DEF Next

\* Type correctness: the results and both caches have no, or one entry for every slot.
THEOREM TypeCorrect == Spec => []TypeOK
BY InitTyped, StepTyped, PTL DEF Spec, Typed

-----------------------------------------------------------------------------
(* The frame of the faces                                                  *)

LEMMA NotedStep == Noted /\ [Next]_vars => Noted'
BY DEF Noted, Next, CheckConcurrence, Call, SameFrame, OtherFrame, ReadFace, KeepMarks,
       BeginShapes, Shape, ShapeFails, ShapeThrows, AllShaped, OutOfTime, Mark, Remember,
       Return, NewFrame, Change, vars

\* FacesOfTheFrame: a call that relies on the noted time stamp returns the faces of that
\* frame, unless the call that noted it has thrown.
THEOREM FrameIsNoted == Spec => []FacesOfTheFrame
<1>1. Init => Noted
  BY DEF Init, Noted
<1>2. Noted => FacesOfTheFrame
  BY DEF Noted, FacesOfTheFrame
<1> QED
  BY <1>1, <1>2, NotedStep, PTL DEF Spec

-----------------------------------------------------------------------------
(* The landmarks                                                           *)

LEMMA EnvironmentSteady ==
  ASSUME Typed, Steady, NewFrame \/ (\E n \in Slots : Change(n)) PROVE Steady'
<1>1. CASE NewFrame
  BY <1>1 DEF Steady, Read, NewFrame
<1>2. ASSUME NEW n \in Slots, Change(n) PROVE Steady'
  <2> SUFFICES ASSUME NEW m \in Slots \ unsteady'
      PROVE /\ pc' \in {"faces", "shapes", "marks"} /\ Read(m)' => (vv'[m] = Rect0 <=> m \notin working')
            /\ pc' = "shapes" /\ m \notin todo' /\ m \in working' => shapes'[m] = vv'[m]
            /\ pc' = "marks" /\ m > Len(landMark') /\ m \in working' => shapes'[m] = vv'[m]
            /\ pc' = "marks" /\ m <= Len(landMark') /\ vv'[m] # Rect0 => landMark'[m] = vv'[m]
    BY DEF Steady
  <2>1. /\ UNCHANGED <<pc, vv, landMark, shapes, todo>> /\ m \notin unsteady
        /\ (m \in working' <=> m \in working) \/ ~Read(m)
    BY <1>2 DEF Change
  <2>2. Read(m)' <=> Read(m)
    BY <2>1 DEF Read
  <2>3. pc = "shapes" => Read(m)
    BY DEF Read
  <2>4. pc = "marks" /\ m > Len(landMark) => Read(m)
    BY DEF Read
  <2> QED
    BY <2>1, <2>2, <2>3, <2>4 DEF Steady
<1> QED
  BY <1>1, <1>2

LEMMA CallSteady ==
  ASSUME Typed, Steady, CheckConcurrence PROVE Steady'
<1>1. CASE Call \/ SameFrame \/ KeepMarks \/ Remember \/ Return
  <2>1. pc' \notin {"faces", "shapes", "marks"}
    BY <1>1 DEF Call, SameFrame, KeepMarks, Remember, Return
  <2> QED
    BY <2>1 DEF Steady
<1>2. CASE OtherFrame
  <2>1. pc' = "faces" /\ vv' = <<>>
    BY <1>2 DEF OtherFrame, Typed, Lengths
  <2>2. \A m \in Slots : ~Read(m)'
    BY <2>1 DEF Read
  <2> QED
    BY <2>1, <2>2 DEF Steady
<1>3. CASE ReadFace
  <2>1. PICK r : r \in (IF Len(vv) + 1 \in working THEN Positions ELSE {Rect0}) /\ vv' = Append(vv, r)
    BY <1>3 DEF ReadFace
  <2>2. /\ pc = "faces" /\ pc' = "faces" /\ vv \in Seq(Rect) /\ r \in Rect
        /\ UNCHANGED <<working, unsteady>>
    BY <1>3, <2>1 DEF ReadFace, Typed, TypeOK
  <2>3. \A m \in Slots : m <= Len(vv') =>
          vv'[m] = IF m = Len(vv) + 1 THEN r ELSE vv[m]
    BY <2>1, <2>2
  <2>4. \A m \in Slots : m <= Len(vv') => m = Len(vv) + 1 \/ m <= Len(vv)
    BY <2>1, <2>2
  <2>5. \A m \in Slots \ unsteady' : m <= Len(vv') => (vv'[m] = Rect0 <=> m \notin working')
    BY <2>1, <2>2, <2>3, <2>4 DEF Steady, Read
  <2> QED
    BY <2>2, <2>5 DEF Steady, Read
<1>4. CASE BeginShapes
  <2>1. /\ pc = "faces" /\ pc' = "shapes" /\ Len(vv) = N /\ todo' = Slots
        /\ UNCHANGED <<vv, working, unsteady>>
    BY <1>4 DEF BeginShapes
  <2>2. \A m \in Slots : Read(m)
    BY <2>1 DEF Read
  <2> QED
    BY <2>1, <2>2 DEF Steady
<1>5. ASSUME NEW n \in Slots, Shape(n) PROVE Steady'
  <2>1. /\ pc = "shapes" /\ pc' = "shapes" /\ todo' = todo \ {n}
        /\ UNCHANGED <<vv, working, unsteady>>
    BY <1>5 DEF Shape
  <2>2. \A m \in Slots : m \in working =>
          shapes'[m] = IF m = n THEN vv[n] ELSE shapes[m]
    BY <1>5 DEF Shape, Typed, TypeOK
  <2> QED
    BY <2>1, <2>2 DEF Steady, Read
<1>6. ASSUME NEW n \in Slots, ShapeFails(n) PROVE Steady'
  <2>1. /\ pc = "shapes" /\ pc' = "shapes" /\ todo' = todo \ {n} /\ unsteady' = unsteady \cup {n}
        /\ UNCHANGED <<vv, working, shapes>>
    BY <1>6 DEF ShapeFails
  <2> QED
    BY <2>1 DEF Steady, Read
<1>7. ASSUME NEW n \in Slots, ShapeThrows(n) PROVE Steady'
  BY <1>7 DEF ShapeThrows, Steady
<1>8. CASE AllShaped \/ OutOfTime
  <2>1. /\ pc = "shapes" /\ pc' = "marks" /\ todo = {} /\ landMark = <<>>
        /\ UNCHANGED <<vv, working, shapes, unsteady, landMark>>
    BY <1>8 DEF AllShaped, OutOfTime, Typed, Lengths
  <2>2. \A m \in Slots : Read(m) /\ m > Len(landMark)
    BY <2>1 DEF Read
  <2> QED
    BY <2>1, <2>2 DEF Steady
<1>9. CASE Mark
  <2> DEFINE n == Len(landMark) + 1
  <2>1. /\ pc = "marks" /\ pc' = "marks" /\ n \in Slots /\ Len(landMark) \in Nat
        /\ landMark' = Append(landMark, IF n \in working THEN shapes[n] ELSE Junk)
        /\ landMark \in Seq(Rect \cup {Junk})
        /\ UNCHANGED <<vv, working, shapes, unsteady>>
    BY <1>9 DEF Mark, Typed, TypeOK
  <2>2. Len(landMark') = n /\ \A m \in 1..Len(landMark) : landMark'[m] = landMark[m]
    BY <2>1
  <2>3. n \in working => landMark'[n] = shapes[n]
    BY <2>1
  <2>4. Read(n)
    BY <2>1 DEF Read
  <2> HIDE DEF n
  <2> SUFFICES ASSUME NEW m \in Slots \ unsteady
      PROVE /\ Read(m)' => (vv[m] = Rect0 <=> m \notin working)
            /\ m > n /\ m \in working => shapes[m] = vv[m]
            /\ m <= n /\ vv[m] # Rect0 => landMark'[m] = vv[m]
    BY <2>1, <2>2 DEF Steady
  <2>5. m > n => m > Len(landMark) /\ Read(m)
    BY <2>1 DEF n, Read
  <2>6. Read(m)' <=> m > n
    BY <2>1, <2>2 DEF Read
  <2>7. CASE m > n
    BY <2>1, <2>5, <2>6, <2>7 DEF Steady
  <2>8. CASE m = n
    <3>1. m > Len(landMark) /\ ~(m > n)
      BY <2>1, <2>8 DEF n
    <3> QED
      BY <2>1, <2>3, <2>4, <2>6, <2>8, <3>1 DEF Steady
  <2>9. CASE m < n
    <3>1. m \in 1..Len(landMark) /\ ~(m > n)
      BY <2>1, <2>9 DEF n
    <3> QED
      BY <2>1, <2>2, <2>6, <3>1 DEF Steady
  <2>10. m > n \/ m = n \/ m < n
    BY <2>1
  <2> QED
    BY <2>7, <2>8, <2>9, <2>10
<1> QED
  BY <1>1, <1>2, <1>3, <1>4, <1>5, <1>6, <1>7, <1>8, <1>9 DEF CheckConcurrence

LEMMA CachedStep ==
  ASSUME Typed, Steady, Cached, [Next]_vars PROVE Cached'
<1>1. CASE KeepMarks
  <2>1. /\ landmark => SameFaces /\ faceLast # <<>>
        /\ faceLast' = vv /\ Len(vv) = N /\ landMark' = (IF landmark THEN markLast ELSE landMark)
        /\ UNCHANGED <<landmark, vv, markLast, doubtful>>
    BY <1>1 DEF KeepMarks, SameFaces
  <2>2. landmark => Len(faceLast) = N
    BY <2>1 DEF Typed, TypeOK
  <2>3. landmark => \A m \in 1..N : vv[m] = faceLast[m]
    BY <2>1 DEF SameFaces
  <2> QED
    BY <2>1, <2>2, <2>3 DEF Cached
<1>2. CASE Remember
  <2>1. /\ pc = "marks" /\ Len(landMark) = N /\ markLast' = landMark /\ doubtful' = unsteady
        /\ faceLast' = vv /\ Len(vv) = N
        /\ UNCHANGED <<landmark, vv, landMark>>
    BY <1>2 DEF Remember, Typed, Lengths
  <2>2. \A m \in Slots \ unsteady : vv[m] # Rect0 => landMark[m] = vv[m]
    BY <2>1 DEF Steady, Typed, TypeOK
  <2>3. \A m \in 1..Len(faceLast') :
          faceLast'[m] # Rect0 => m \in doubtful' \/ markLast'[m] = faceLast'[m]
    BY <2>1, <2>2
  <2> QED
    BY <2>1, <2>3 DEF Cached
<1>3. CASE SameFrame
  BY <1>3 DEF SameFrame, Cached
<1>4. CASE UNCHANGED <<landmark, faceLast, markLast, doubtful>> /\ pc' # "return"
  BY <1>4 DEF Cached
<1>5. CASE UNCHANGED <<landmark, faceLast, markLast, doubtful, pc, vv, landMark>>
  BY <1>5 DEF Cached
<1> QED
  BY <1>1, <1>2, <1>3, <1>4, <1>5
     DEF Next, CheckConcurrence, Call, OtherFrame, ReadFace, BeginShapes, Shape, ShapeFails,
         ShapeThrows, AllShaped, OutOfTime, Mark, Return, NewFrame, Change, vars

\* LandmarksBelong: landmarks are of the face they come with and never of a shape without
\* parts, unless the slot was started or stopped or dlib threw while they were computed.
THEOREM LandmarksAreOfTheFace == Spec => []LandmarksBelong
<1> DEFINE I == Typed /\ Steady /\ Cached
<1>1. Init => I
  <2>1. Init => Steady /\ Cached
    BY DEF Init, Steady, Cached
  <2> QED
    BY <2>1, InitTyped
<1>2. I /\ [Next]_vars => I'
  <2> SUFFICES ASSUME I, [Next]_vars PROVE I'
    OBVIOUS
  <2>1. Steady'
    <3>1. CASE UNCHANGED vars
      BY <3>1 DEF Steady, Read, vars
    <3> QED
      BY <3>1, EnvironmentSteady, CallSteady DEF Next
  <2> QED
    BY <2>1, StepTyped, CachedStep
<1>3. I => LandmarksBelong
  <2> SUFFICES ASSUME I PROVE LandmarksBelong
    OBVIOUS
  <2>1. ASSUME pc = "marks", Len(landMark) < N, Len(landMark) + 1 \in working,
               Len(landMark) + 1 \notin unsteady
        PROVE  shapes[Len(landMark) + 1] = vv[Len(landMark) + 1]
    <3>1. Len(landMark) + 1 \in Slots /\ Len(landMark) + 1 > Len(landMark)
      BY <2>1 DEF Typed, TypeOK
    <3> QED
      BY <2>1, <3>1 DEF Steady
  <2>2. ASSUME pc = "return", landmark, NEW m \in 1..Len(vv), vv[m] # Rect0, m \notin doubtful
        PROVE  m <= Len(landMark) /\ landMark[m] = vv[m]
    <3>1. vv = faceLast /\ landMark = markLast /\ faceLast \in Seq(Rect) /\ Len(faceLast) <= N
      BY <2>2 DEF Cached, Typed, TypeOK
    <3>2. faceLast # <<>>
      BY <2>2, <3>1
    <3>3. Len(markLast) = N /\ markLast[m] = faceLast[m]
      BY <2>2, <3>1, <3>2 DEF Cached
    <3> QED
      BY <2>2, <3>1, <3>3
  <2> QED
    BY <2>1, <2>2 DEF LandmarksBelong
<1> QED
  BY <1>1, <1>2, <1>3, PTL DEF Spec

=============================================================================
