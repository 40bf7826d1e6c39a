------------------------------ MODULE FaceResults ------------------------------
(***************************************************************************)
(* What the application gets (TOTrackerTwistedPool::checkConcurrence): the     *)
(* rectangle of every slot and the 68 landmarks of every face.  The call runs   *)
(* in the application's thread and asks isWorking of each slot four times, while *)
(* the tracker and the detector start and stop slots.                           *)
(*                                                                         *)
(* The landmarks of a face are known by the rectangle they were computed for.     *)
(* The application's vectors are empty when it calls, as LibTOFace.h's only user    *)
(* in the repository has them; drawing the result is left out.                    *)
(***************************************************************************)
EXTENDS Naturals, Sequences

CONSTANTS
  N,          \* number of slots
  Positions,  \* rectangles getRectWithTimeStamp may return for a working slot
  Rect0,      \* the rectangle of a slot without a face
  Junk,       \* landmarks nobody wrote: uninitialised, or of a shape without parts
  MaxFrames   \* bound: frames the manager appends

ASSUME FaceResultsAssumption ==
  /\ N \in Nat /\ MaxFrames \in Nat \ {0}
  /\ Rect0 \notin Positions /\ Junk \notin Positions \cup {Rect0}

VARIABLES
  sync, landmark,  \* m_isSyncEnable, m_isLandMarkEnable: set before the start
  working,         \* the slots with isWorking()
  newest,          \* time stamp of the frame extractCurrentFrameInUse gives
  pc,              \* where the call is
  frame,           \* the time stamp it has read
  vv, landMark,    \* its results
  shapes,          \* per slot the rectangle of its shape, Junk: shape0
  todo,            \* slots the landmark loop has not visited
  checked,         \* m_checkTimeStampLast
  faceLast,        \* m_resFaceLast
  markLast,        \* m_resLandMarkLast
  unsteady,        \* history: slots that changed or failed during this call
  doubtful,        \* history: the same of the call that made markLast
  facesOf,         \* history: the frame faceLast is of
  thrown           \* history: the last call that did not use faceLast has thrown

enabled == <<sync, landmark>>
slots == <<working, newest>>
results == <<vv, landMark>>
shaping == <<shapes, todo>>
cache == <<faceLast, markLast, doubtful, facesOf>>
vars == <<enabled, slots, pc, frame, results, shaping, checked, cache, unsteady, thrown>>

Slots == 1..N
Rect == Positions \cup {Rect0}

Init ==
  /\ sync \in BOOLEAN /\ landmark \in BOOLEAN
  /\ working = {} /\ newest = 1
  /\ pc = "idle" /\ frame = 0
  /\ vv = <<>> /\ landMark = <<>>
  /\ shapes = [i \in Slots |-> Junk] /\ todo = {}
  /\ checked = 0
  /\ faceLast = <<>> /\ markLast = <<>>
  /\ unsteady = {} /\ doubtful = {} /\ facesOf = 0 /\ thrown = FALSE

-----------------------------------------------------------------------------
(* The other threads                                                       *)

\* The slot has been read, and its landmarks have not.
Read(i) ==
  \/ pc = "faces" /\ i <= Len(vv)
  \/ pc = "shapes"
  \/ pc = "marks" /\ i > Len(landMark)

\* The tracker or the detector starts or stops slot i.
Change(i) ==
  /\ working' = IF i \in working THEN working \ {i} ELSE working \cup {i}
  /\ unsteady' = IF Read(i) THEN unsteady \cup {i} ELSE unsteady
  /\ UNCHANGED <<enabled, newest, pc, frame, results, shaping, checked, cache, thrown>>

NewFrame ==
  /\ newest < MaxFrames
  /\ newest' = newest + 1
  /\ UNCHANGED <<enabled, working, pc, frame, results, shaping, checked, cache, unsteady, thrown>>

-----------------------------------------------------------------------------
(* checkConcurrence                                                        *)

\* getBridgeRealSize > 0; with no face the call does nothing.
Call ==
  /\ pc = "idle" /\ working # {}
  /\ pc' = "extract"
  /\ vv' = <<>> /\ landMark' = <<>>
  /\ UNCHANGED <<enabled, slots, frame, shaping, checked, cache, unsteady, thrown>>

\* "same frame in check , skip and use the last res instead."
SameFrame ==
  /\ pc = "extract" /\ checked = newest
  /\ frame' = newest
  /\ vv' = faceLast /\ landMark' = markLast
  /\ pc' = "return"
  /\ UNCHANGED <<enabled, slots, shaping, checked, cache, unsteady, thrown>>

OtherFrame ==
  /\ pc = "extract" /\ checked # newest
  /\ frame' = newest /\ checked' = newest
  /\ unsteady' = {}
  /\ pc' = "faces"
  /\ UNCHANGED <<enabled, slots, results, shaping, cache, thrown>>

\* Mutant: one slot too many.
ReadFacePastEnd ==
  /\ pc = "faces" /\ Len(vv) <= N
  /\ \E r \in IF Len(vv) + 1 \in working THEN Positions ELSE {Rect0} : vv' = Append(vv, r)
  /\ UNCHANGED <<enabled, slots, pc, frame, landMark, shaping, checked, cache, unsteady, thrown>>

ReadFace ==
  /\ pc = "faces" /\ Len(vv) < N
  /\ \E r \in IF Len(vv) + 1 \in working THEN Positions ELSE {Rect0} : vv' = Append(vv, r)
  /\ UNCHANGED <<enabled, slots, pc, frame, landMark, shaping, checked, cache, unsteady, thrown>>

\* Mutant: one face in its place will do.
SameFacesOne == faceLast # <<>> /\ markLast # <<>> /\ \E i \in Slots : vv[i] = faceLast[i]

\* kk: every rectangle is the one of last time.
SameFaces == faceLast # <<>> /\ markLast # <<>> /\ \A i \in Slots : vv[i] = faceLast[i]

\* The results are complete without new landmarks.
KeepMarks ==
  /\ pc = "faces" /\ Len(vv) = N
  /\ landmark => SameFaces
  /\ landMark' = IF landmark THEN markLast ELSE landMark
  /\ faceLast' = vv /\ facesOf' = frame /\ thrown' = FALSE
  /\ pc' = "return"
  /\ UNCHANGED <<enabled, slots, frame, vv, shaping, checked, markLast, doubtful, unsteady>>

BeginShapes ==
  /\ pc = "faces" /\ Len(vv) = N
  /\ landmark /\ ~SameFaces
  /\ shapes' = [i \in Slots |-> Junk] /\ todo' = Slots
  /\ pc' = "shapes"
  /\ UNCHANGED <<enabled, slots, frame, results, checked, cache, unsteady, thrown>>

\* In order, or by parallel_for.
Visited(i) == i \in todo /\ (~sync => \A k \in todo : i <= k)

Shape(i) ==
  /\ pc = "shapes" /\ Visited(i)
  /\ shapes' = IF i \in working THEN [shapes EXCEPT ![i] = vv[i]] ELSE shapes
  /\ todo' = todo \ {i}
  /\ UNCHANGED <<enabled, slots, pc, frame, results, checked, cache, unsteady, thrown>>

\* dlib throws.  In parallel_for it is caught and the slot has no shape ...
ShapeFails(i) ==
  /\ pc = "shapes" /\ Visited(i) /\ i \in working /\ sync
  /\ todo' = todo \ {i}
  /\ unsteady' = unsteady \cup {i}
  /\ UNCHANGED <<enabled, slots, pc, frame, results, shapes, checked, cache, thrown>>

\* ... in the plain loop nothing catches it here: the call is over.
ShapeThrows(i) ==
  /\ pc = "shapes" /\ Visited(i) /\ i \in working /\ ~sync
  /\ pc' = "idle" /\ thrown' = TRUE /\ todo' = {}
  /\ UNCHANGED <<enabled, slots, frame, results, shapes, checked, cache, unsteady>>

\* The wait for the shapes of all working slots ends, or its 20 rounds of a millisecond are over.
Missing == {i \in working : shapes[i] = Junk}
AllShaped ==
  /\ pc = "shapes" /\ todo = {}
  /\ sync => Missing = {}
  /\ pc' = "marks"
  /\ UNCHANGED <<enabled, slots, frame, results, shaping, checked, cache, unsteady, thrown>>
OutOfTime ==
  /\ pc = "shapes" /\ todo = {} /\ sync /\ Missing # {}
  /\ pc' = "marks"
  /\ UNCHANGED <<enabled, slots, frame, results, shaping, checked, cache, unsteady, thrown>>

\* shapes[i].part(j), or the tosp of a slot that is not working.
Mark ==
  /\ pc = "marks" /\ Len(landMark) < N
  /\ LET i == Len(landMark) + 1
     IN landMark' = Append(landMark, IF i \in working THEN shapes[i] ELSE Junk)
  /\ UNCHANGED <<enabled, slots, pc, frame, vv, shaping, checked, cache, unsteady, thrown>>

\* Mutant: the faces of the new landmarks are not remembered.
RememberMarksOnly ==
  /\ pc = "marks" /\ Len(landMark) = N
  /\ markLast' = landMark /\ doubtful' = unsteady /\ thrown' = FALSE
  /\ pc' = "return"
  /\ UNCHANGED <<enabled, slots, frame, results, shaping, checked, faceLast, facesOf, unsteady>>

Remember ==
  /\ pc = "marks" /\ Len(landMark) = N
  /\ markLast' = landMark /\ doubtful' = unsteady /\ thrown' = FALSE
  /\ faceLast' = vv /\ facesOf' = frame
  /\ pc' = "return"
  /\ UNCHANGED <<enabled, slots, frame, results, shaping, checked, unsteady>>

Return ==
  /\ pc = "return"
  /\ pc' = "idle"
  /\ UNCHANGED <<enabled, slots, frame, results, shaping, checked, cache, unsteady, thrown>>

CheckConcurrence ==
  \/ Call \/ SameFrame \/ OtherFrame \/ ReadFace \/ KeepMarks \/ BeginShapes
  \/ \E i \in Slots : Shape(i) \/ ShapeFails(i) \/ ShapeThrows(i)
  \/ AllShaped \/ OutOfTime \/ Mark \/ Remember \/ Return

Next == CheckConcurrence \/ NewFrame \/ \E i \in Slots : Change(i)

Spec == Init /\ [][Next]_vars

-----------------------------------------------------------------------------
TypeOK ==
  /\ sync \in BOOLEAN /\ landmark \in BOOLEAN
  /\ working \subseteq Slots /\ newest \in 1..MaxFrames
  /\ pc \in {"idle", "extract", "faces", "shapes", "marks", "return"}
  /\ frame \in 0..MaxFrames /\ checked \in 0..MaxFrames /\ facesOf \in 0..MaxFrames
  /\ vv \in Seq(Rect) /\ Len(vv) <= N
  /\ landMark \in Seq(Rect \cup {Junk}) /\ Len(landMark) <= N
  /\ shapes \in [Slots -> Rect \cup {Junk}] /\ todo \subseteq Slots
  /\ faceLast \in Seq(Rect) /\ Len(faceLast) \in {0, N}
  /\ markLast \in Seq(Rect \cup {Junk}) /\ Len(markLast) \in {0, N}
  /\ unsteady \subseteq Slots /\ doubtful \subseteq Slots
  /\ thrown \in BOOLEAN

\* Unless during the call that computes them its slot is started or stopped or dlib
\* throws: part(j) is asked of a shape that has parts, and the landmarks of a face the
\* application gets were computed for the rectangle it gets, in this or an earlier call.
LandmarksBelong ==
  /\ pc = "marks" /\ Len(landMark) < N =>
       LET i == Len(landMark) + 1 IN i \in working => i \in unsteady \/ shapes[i] = vv[i]
  /\ pc = "return" /\ landmark =>
       \A i \in 1..Len(vv) :
         vv[i] # Rect0 => i \in doubtful \/ (i <= Len(landMark) /\ landMark[i] = vv[i])

\* The application gets the faces of the frame it asks about, also when the call relies
\* on the frame's time stamp having been noted before: the last call that went through
\* noted it, unless an exception left it half done.
FacesOfTheFrame == pc = "return" => facesOf = frame \/ thrown

-----------------------------------------------------------------------------
(* Inductive strengthening.                                                  *)

\* How far the vectors are at each place of the call.
Lengths ==
  /\ pc \in {"extract", "faces", "shapes"} => landMark = <<>>
  /\ pc = "extract" => vv = <<>>
  /\ pc \in {"shapes", "marks"} => Len(vv) = N

\* A slot that has not changed since it was read is as it was read, and its shape is there.
Steady ==
  \A i \in Slots \ unsteady :
    /\ pc \in {"faces", "shapes", "marks"} /\ Read(i) => (vv[i] = Rect0 <=> i \notin working)
    /\ pc = "shapes" /\ i \notin todo /\ i \in working => shapes[i] = vv[i]
    /\ pc = "marks" /\ i > Len(landMark) /\ i \in working => shapes[i] = vv[i]
    /\ pc = "marks" /\ i <= Len(landMark) /\ vv[i] # Rect0 => landMark[i] = vv[i]

\* The two caches belong together, and a call returns what it leaves in them.
Cached ==
  /\ landmark /\ faceLast # <<>> => Len(markLast) = N
  /\ landmark => \A i \in 1..Len(faceLast) :
                   faceLast[i] # Rect0 => i \in doubtful \/ markLast[i] = faceLast[i]
  /\ pc = "return" => vv = faceLast /\ (landmark => landMark = markLast)

\* The time stamp noted is that of the call under way or of the faces remembered.
Noted ==
  /\ pc \in {"faces", "shapes", "marks", "return"} => frame = checked
  /\ pc \in {"idle", "extract", "return"} => checked = facesOf \/ thrown

IInv == TypeOK /\ Lengths /\ Steady /\ Cached /\ Noted

=============================================================================
