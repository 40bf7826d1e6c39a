------------------------------ MODULE DetectTrack ------------------------------
(***************************************************************************)
(* The hand-shake of the detector thread (TOFaceDetector.cpp) and the        *)
(* tracker thread (TOTrackerTwistedPool.cpp).  Each is a status machine that  *)
(* runs the handler of its status again and again; the tracker wakes the      *)
(* detector every m_TrackerKeepCountThr loops (getBridgeFromTracker), the      *)
(* detector hands it faces (getBridgeFromDetector) or corrects its slots       *)
(* (tryTo...Object) by calls made in its own thread.  Nothing locks m_bridge   *)
(* or a status, so a handler of one interleaves with the calls of the other.   *)
(*                                                                         *)
(* A slot of m_bridge is two rectangles, of which the program asks little:     *)
(*   "none"  Rect0                                                            *)
(*   "face"  the position of a face                                           *)
(*   "mark"  Rect(-1,0,0,0), what track() notes for a slot that is dormant    *)
(* Slot i is tracked by worker i of m_workerQueue; there are as many.  A       *)
(* handler that finds the frame of its previous run returns at once and has    *)
(* no action here, nor have prepare, dormant and error, which change nothing.  *)
(* The frames themselves are in FramePool, starting and stopping in ThreadBase. *)
(***************************************************************************)
EXTENDS FaceVerdicts, Integers

CONSTANTS
  KeepCountThr,  \* m_TrackerKeepCountThr
  DetectCount,   \* m_faceDetectCountEnableThreshold
  MaxFaces       \* bound: faces found in a frame

ASSUME DetectTrackAssumption ==
  /\ N \in Nat \ {0}
  /\ KeepCountThr \in Nat
  /\ DetectCount \in Nat
  /\ MaxFaces \in Nat

VARIABLES
  tStatus,   \* m_current of the tracker
  tpc,       \* where its run is
  todo,      \* slots the current loop of track() has yet to visit
  old, new,  \* m_bridge[i].oldRes and newRes
  ahead,     \* slots whose newTimeStamp is later than the frame track() works on
  ress,      \* m_tmpRectRess
  pre,       \* positions of m_tmpRectPreRess that hold 1
  loopTag,   \* m_OneDetectLoopTag
  count,     \* m_tmpLoopFrameCountSum
  dStatus,   \* m_current of the detector
  dpc,       \* where its run is; a status: nextStatus is about to assign it
  ops,       \* per slot the call the detector has yet to make on the tracker
  dcount,    \* m_tmpFaceDetectContinuityCount
  firstTime, \* m_firstTime
  anyFace,   \* m_BridgeRealSize > 0
  late,      \* history: a loop that may end with a notice began during a detection
  owed       \* history: slots corrected whose worker has not been initialised since

trackerOwn == <<tpc, todo, ress, pre, count>>
bridge == <<old, new>>
detectorOwn == <<dpc, ops, dcount, firstTime>>
history == <<late, owed>>
vars == <<tStatus, trackerOwn, bridge, ahead, loopTag, dStatus, detectorOwn, anyFace,
          history>>

Rect == {"none", "face", "mark"}
TStatus == {"PREPARE", "PRETRACK", "TRACK", "ERROR"}
DStatus == {"PREPARE", "PREDETECT", "DETECT", "ANALYSIS", "DORMANT", "ERROR"}
TLabel == {"idle", "pretrack", "slots", "wait", "tails", "tail", "view",
           "check", "waitDetector"}
Op == Verdict \cup {"put"}

Working(i) == old[i] # "none" /\ new[i] # "none"
WaitToStop(i) == old[i] # "none" /\ new[i] = "none"
WaitToActive(i) == old[i] = "none" /\ new[i] # "none"
Dormant(i) == old[i] = "none" /\ new[i] = "none"

RealSize == Cardinality({i \in Slots : Working(i)})

\* Mutant: analysis is followed by the next detection.
DRuleNoRest(s) ==
  IF s = "PREPARE" THEN "PREDETECT" ELSE
  IF s = "PREDETECT" THEN "DETECT" ELSE
  IF s = "DETECT" THEN "ANALYSIS" ELSE
  IF s = "ANALYSIS" THEN "PREDETECT" ELSE
  IF s = "DORMANT" THEN "PREDETECT" ELSE "ERROR"

DRule(s) ==
  IF s = "PREPARE" THEN "PREDETECT" ELSE
  IF s = "PREDETECT" THEN "DETECT" ELSE
  IF s = "DETECT" THEN "ANALYSIS" ELSE
  IF s = "ANALYSIS" THEN "DORMANT" ELSE
  IF s = "DORMANT" THEN "PREDETECT" ELSE "ERROR"

TRule(s) ==
  IF s = "PREPARE" THEN "PRETRACK" ELSE
  IF s = "PRETRACK" THEN "TRACK" ELSE
  IF s = "TRACK" THEN "PRETRACK" ELSE "ERROR"

\* A detection is under way.
Busy == dStatus \in {"PREDETECT", "DETECT", "ANALYSIS"}

Init ==
  /\ tStatus = "PREPARE" /\ tpc = "idle" /\ todo = {}
  /\ old = [i \in Slots |-> "none"]
  /\ new = [i \in Slots |-> "none"]
  /\ ahead = {}
  /\ ress = [i \in Slots |-> "none"]
  /\ pre = {}
  /\ loopTag = FALSE
  /\ count = 0
  /\ dStatus = "PREPARE" /\ dpc = "idle"
  /\ ops = [i \in Slots |-> "nothing"]
  /\ dcount = 1
  /\ firstTime = TRUE
  /\ anyFace = FALSE
  /\ late = FALSE
  /\ owed = {}

-----------------------------------------------------------------------------
(* The tracker: pretrack                                                    *)

Pretrack ==
  /\ tpc = "idle" /\ tStatus = "PRETRACK"
  /\ tpc' = "pretrack"
  /\ UNCHANGED <<tStatus, todo, ress, pre, count, bridge, ahead, loopTag,
                 dStatus, detectorOwn, anyFace, history>>

\* Workers 0 .. RealSize-1 are initialised, whichever slots those faces are in.  The
\* wait that follows looks at m_tmpRectRess, which is empty here.
PretrackEnd ==
  /\ tpc = "pretrack"
  /\ pre' = {i \in Slots : i < RealSize}
  /\ owed' = {i \in owed : ~(i < RealSize /\ Working(i))}
  /\ tStatus' = TRule(tStatus)
  /\ tpc' = "idle"
  /\ UNCHANGED <<todo, ress, count, bridge, ahead, loopTag, dStatus, detectorOwn,
                 anyFace, late>>

-----------------------------------------------------------------------------
(* The tracker: track                                                       *)

Track ==
  /\ tpc = "idle" /\ tStatus = "TRACK"
  /\ late' = (late \/ (Busy /\ count > KeepCountThr))
  /\ tpc' = "slots"
  /\ todo' = Slots
  /\ ahead' = {}
  /\ UNCHANGED <<tStatus, bridge, ress, pre, count, loopTag, dStatus, detectorOwn,
                 anyFace, owed>>

\* The loop over the slots goes on after slot i; then comes phase next.
After(i, next) ==
  /\ todo' = IF todo # {i} THEN todo \ {i} ELSE IF next \in {"tails", "view"} THEN Slots ELSE {}
  /\ tpc' = IF todo # {i} THEN (IF tpc = "tail" THEN "tails" ELSE tpc) ELSE next

\* Mutant: a slot that waits for its activation has its worker initialised, and goes on waiting.
SlotNotActivated(i) ==
  /\ tpc = "slots" /\ i \in todo
  /\ \/ Working(i) /\ ress' = [ress EXCEPT ![i] = "face"] /\ UNCHANGED <<bridge, pre, owed>>
     \/ /\ WaitToStop(i)
        /\ old' = [old EXCEPT ![i] = "none"]
        /\ UNCHANGED <<new, ress, pre, owed>>
     \/ /\ WaitToActive(i)
        /\ pre' = pre \cup {i}
        /\ owed' = owed \ {i}
        /\ UNCHANGED <<bridge, ress>>
     \/ Dormant(i) /\ ress' = [ress EXCEPT ![i] = "mark"] /\ UNCHANGED <<bridge, pre, owed>>
  /\ After(i, "wait")
  /\ UNCHANGED <<tStatus, ahead, count, loopTag, dStatus, detectorOwn, anyFace, late>>

\* Mutant: a slot that is activated is not noted in m_tmpRectPreRess.
SlotNotNoted(i) ==
  /\ tpc = "slots" /\ i \in todo
  /\ \/ Working(i) /\ ress' = [ress EXCEPT ![i] = "face"] /\ UNCHANGED <<bridge, owed>>
     \/ /\ WaitToStop(i)
        /\ old' = [old EXCEPT ![i] = "none"]
        /\ UNCHANGED <<new, ress, owed>>
     \/ /\ WaitToActive(i)
        /\ old' = [old EXCEPT ![i] = new[i]]
        /\ owed' = owed \ {i}
        /\ UNCHANGED <<new, ress>>
     \/ Dormant(i) /\ ress' = [ress EXCEPT ![i] = "mark"] /\ UNCHANGED <<bridge, owed>>
  /\ After(i, "wait")
  /\ UNCHANGED <<tStatus, ahead, pre, count, loopTag, dStatus, detectorOwn, anyFace, late>>

\* parallel_for visits the slots in any order.
Slot(i) ==
  /\ tpc = "slots" /\ i \in todo
  /\ \/ Working(i) /\ ress' = [ress EXCEPT ![i] = "face"] /\ UNCHANGED <<bridge, pre, owed>>
     \/ /\ WaitToStop(i)
        /\ old' = [old EXCEPT ![i] = "none"]
        /\ UNCHANGED <<new, ress, pre, owed>>
     \/ /\ WaitToActive(i)
        /\ old' = [old EXCEPT ![i] = new[i]]
        /\ pre' = pre \cup {i}
        /\ owed' = owed \ {i}
        /\ UNCHANGED <<new, ress>>
     \/ Dormant(i) /\ ress' = [ress EXCEPT ![i] = "mark"] /\ UNCHANGED <<bridge, pre, owed>>
  /\ After(i, "wait")
  /\ UNCHANGED <<tStatus, ahead, count, loopTag, dStatus, detectorOwn, anyFace, late>>

\* The condition on which the wait loop goes on.
Blocks(i) == ress[i] = "none" /\ i \notin pre /\ Working(i)

WaitPassed ==
  /\ tpc = "wait"
  /\ \A i \in Slots : ~Blocks(i)
  /\ tpc' = "tails"
  /\ todo' = Slots
  /\ UNCHANGED <<tStatus, ress, pre, count, bridge, ahead, loopTag, dStatus,
                 detectorOwn, anyFace, history>>

\* After more than m_ErroCountRiskToleranceThr rounds the status changes; the loop
\* goes on.
TooSlow ==
  /\ tpc = "wait"
  /\ \E i \in Slots : Blocks(i)
  /\ tStatus # "ERROR"
  /\ tStatus' = "ERROR"
  /\ UNCHANGED <<trackerOwn, bridge, ahead, loopTag, dStatus, detectorOwn, anyFace, history>>

\* The result of a working slot becomes its tail: the test, then the assignments.
TailTest(i) ==
  /\ tpc = "tails" /\ i \in todo /\ \A j \in todo : i <= j
  /\ IF Working(i) /\ ress[i] # "none"
     THEN tpc' = "tail" /\ UNCHANGED todo
     ELSE After(i, "view")
  /\ UNCHANGED <<tStatus, ress, pre, count, bridge, ahead, loopTag, dStatus,
                 detectorOwn, anyFace, history>>

\* Slot i is the one whose tail is being assigned.
AtTail(i) == tpc = "tail" /\ i \in todo /\ \A j \in todo : i <= j

\* addNewTail refuses a frame older than the slot's newest position.
AddNewTail(i) ==
  /\ AtTail(i)
  /\ IF i \in ahead
     THEN UNCHANGED bridge
     ELSE old' = [old EXCEPT ![i] = new[i]] /\ new' = [new EXCEPT ![i] = ress[i]]
  /\ After(i, "view")
  /\ UNCHANGED <<tStatus, ress, pre, count, ahead, loopTag, dStatus, detectorOwn,
                 anyFace, history>>

\* checkIsOutOfView: a face that has left the view is to be stopped.  (A slot whose newest
\* position is the mark is extrapolated to a size that is 0 or negative: it is stopped
\* or, when both areas are 0 and their quotient is not a number, kept.)
View(i) ==
  /\ tpc = "view" /\ i \in todo /\ \A j \in todo : i <= j
  /\ \/ Working(i) /\ new' = [new EXCEPT ![i] = "none"]
     \/ UNCHANGED new
  /\ After(i, "check")
  /\ UNCHANGED <<tStatus, old, ahead, ress, pre, count, loopTag, dStatus,
                 detectorOwn, anyFace, history>>

\* Mutant: the loop is not counted.
CountLoopUncounted ==
  /\ tpc = "check"
  /\ ~(count > KeepCountThr /\ loopTag)
  /\ tpc' = "idle"
  /\ ress' = [i \in Slots |-> "none"]
  /\ UNCHANGED <<tStatus, todo, pre, count, bridge, ahead, loopTag, dStatus,
                 detectorOwn, anyFace, history>>

\* checkAndResetSkipTag, no notice: one more loop is counted.
CountLoop ==
  /\ tpc = "check"
  /\ ~(count > KeepCountThr /\ loopTag)
  /\ count' = count + 1
  /\ tpc' = "idle"
  /\ ress' = [i \in Slots |-> "none"]
  /\ UNCHANGED <<tStatus, todo, pre, bridge, ahead, loopTag, dStatus, detectorOwn,
                 anyFace, history>>

\* Mutant: the notice comes one loop early.
NoticeDueEarly == tpc = "check" /\ count >= KeepCountThr /\ loopTag

NoticeDue == tpc = "check" /\ count > KeepCountThr /\ loopTag

\* getBridgeFromTracker returns: no face is tracked and the picture has not changed.
NoticeSimilar ==
  /\ NoticeDue
  /\ RealSize = 0
  /\ loopTag' = TRUE
  /\ count' = 0
  /\ tpc' = "idle"
  /\ ress' = [i \in Slots |-> "none"]
  /\ UNCHANGED <<tStatus, todo, pre, bridge, ahead, dStatus, detectorOwn, anyFace, history>>

\* getBridgeFromTracker wakes a dormant detector; any other it puts in error, and
\* waits for the end of its run.
Notice ==
  /\ NoticeDue
  /\ loopTag' = TRUE
  /\ count' = 0
  /\ anyFace' = (RealSize > 0)
  /\ IF dStatus = "DORMANT"
     THEN dStatus' = DRule(dStatus) /\ tpc' = "idle"
     ELSE dStatus' = "ERROR" /\ tpc' = IF dStatus = "ERROR" THEN "idle" ELSE "waitDetector"
  /\ ress' = [i \in Slots |-> "none"]
  /\ UNCHANGED <<tStatus, todo, pre, bridge, ahead, detectorOwn, history>>

WaitedForDetector ==
  /\ tpc = "waitDetector"
  /\ dpc = "idle"
  /\ tpc' = "idle"
  /\ UNCHANGED <<tStatus, todo, ress, pre, count, bridge, ahead, loopTag, dStatus,
                 detectorOwn, anyFace, history>>

-----------------------------------------------------------------------------
(* The detector                                                             *)

\* A run begins.  nextStatus reads the status in one step and assigns it in the next.
RunBegins == dpc = "idle"

\* prepare: the frame manager has frames.
Prepare ==
  /\ dStatus = "PREPARE" /\ RunBegins
  /\ dpc' = DRule(dStatus)
  /\ UNCHANGED <<tStatus, trackerOwn, bridge, ahead, loopTag, dStatus, ops, dcount,
                 firstTime, anyFace, history>>

Predetect ==
  /\ dStatus = "PREDETECT" /\ RunBegins
  /\ dcount' = IF anyFace THEN 1 ELSE DetectCount
  /\ firstTime' = (firstTime \/ ~anyFace)
  /\ dpc' = DRule(dStatus)
  /\ UNCHANGED <<tStatus, trackerOwn, bridge, ahead, loopTag, dStatus, ops, anyFace, history>>

\* What analysisTAndD asks for when it finds k faces, f of them near no tracked one.
Verdicts(k, f) == {o \in [Slots -> Verdict] : Allowed(o, {i \in Slots : Working(i)}, k, f)}

\* detect, up to the calls on the tracker.
Detect ==
  /\ dStatus = "DETECT" /\ RunBegins
  /\ dpc' = "calls"
  /\ IF firstTime
     THEN UNCHANGED ops
     ELSE \E k \in 0..MaxFaces : \E f \in 0..k : ops' \in Verdicts(k, f)
  /\ UNCHANGED <<tStatus, trackerOwn, bridge, ahead, loopTag, dStatus, dcount,
                 firstTime, anyFace, history>>

TryToActiveObject(i) ==
  new' = IF Dormant(i) THEN [new EXCEPT ![i] = "face"] ELSE new

\* m_bridgeDormantCount may or may not have passed its threshold.
TryToDormantObject(i) ==
  \/ Working(i) /\ new' = [new EXCEPT ![i] = "none"]
  \/ UNCHANGED new

\* Mutant: the old rectangle is kept.
TryToFixKept(i) ==
  IF Working(i)
  THEN new' = [new EXCEPT ![i] = "face"] /\ owed' = owed \cup {i} /\ UNCHANGED old
  ELSE UNCHANGED <<bridge, owed>>

TryToFixObject(i) ==
  IF Working(i)
  THEN /\ old' = [old EXCEPT ![i] = "none"]
       /\ new' = [new EXCEPT ![i] = "face"]
       /\ owed' = owed \cup {i}
  ELSE UNCHANGED <<bridge, owed>>

\* getBridgeFromDetector assigns a slot; the frames the detector took its positions
\* from may be later than the one track() works on.
PutObject(i) ==
  /\ old' = [old EXCEPT ![i] = "face"]
  /\ new' = [new EXCEPT ![i] = "face"]
  /\ ahead' \in {ahead \ {i}, ahead \cup {i}}
  /\ owed' = owed \ {i}

Call(i) ==
  /\ dpc \in {"calls", "deliver"}
  /\ Turn(ops, i)
  /\ \/ ops[i] = "active" /\ TryToActiveObject(i) /\ UNCHANGED <<old, ahead, owed>>
     \/ ops[i] = "dormant" /\ TryToDormantObject(i) /\ UNCHANGED <<old, ahead, owed>>
     \/ ops[i] = "fix" /\ TryToFixObject(i) /\ UNCHANGED ahead
     \/ ops[i] = "keep" /\ UNCHANGED <<bridge, ahead, owed>>
     \/ ops[i] = "put" /\ PutObject(i)
  /\ ops' = [ops EXCEPT ![i] = "nothing"]
  /\ UNCHANGED <<tStatus, trackerOwn, loopTag, dStatus, dpc, dcount, firstTime, anyFace, late>>

CallsMade == \A i \in Slots : ops[i] = "nothing"

\* Mutants: one frame too many, and the frame is not counted.
DetectEndLate ==
  /\ dpc = "calls" /\ CallsMade
  /\ loopTag' = (loopTag \/ ~firstTime)
  /\ dcount' = dcount - 1
  /\ dpc' = IF dcount < 1 THEN DRule(dStatus) ELSE "idle"
  /\ UNCHANGED <<tStatus, trackerOwn, bridge, ahead, dStatus, ops, firstTime,
                 anyFace, history>>
DetectEndUncounted ==
  /\ dpc = "calls" /\ CallsMade
  /\ loopTag' = (loopTag \/ ~firstTime)
  /\ dpc' = IF dcount <= 1 THEN DRule(dStatus) ELSE "idle"
  /\ UNCHANGED <<tStatus, trackerOwn, bridge, ahead, dStatus, ops, dcount, firstTime,
                 anyFace, history>>

\* The rest of detect: noticeLoopEnd, and analysis follows the last frame.
DetectEnd ==
  /\ dpc = "calls" /\ CallsMade
  /\ loopTag' = (loopTag \/ ~firstTime)
  /\ dcount' = dcount - 1
  /\ dpc' = IF dcount <= 1 THEN DRule(dStatus) ELSE "idle"
  /\ UNCHANGED <<tStatus, trackerOwn, bridge, ahead, dStatus, ops, firstTime, anyFace, history>>

\* analysis, the first time: the chains of at least two frames become the bridge.
AnalysisFirst ==
  /\ dStatus = "ANALYSIS" /\ firstTime /\ RunBegins
  /\ \E k \in 0..(IF DetectCount > 1 THEN MaxFaces ELSE 0) :
       ops' = [i \in Slots |-> IF i < k THEN "put" ELSE "nothing"]
  /\ loopTag' = TRUE
  /\ dpc' = "deliver"
  /\ UNCHANGED <<tStatus, trackerOwn, bridge, ahead, dStatus, dcount, firstTime,
                 anyFace, history>>

\* Mutant: m_firstTime is not lowered.
DeliveredStillFirst ==
  /\ dpc = "deliver" /\ CallsMade
  /\ tStatus' = IF tStatus \in {"PREPARE", "TRACK"} THEN TRule(tStatus) ELSE tStatus
  /\ dpc' = DRule(dStatus)
  /\ UNCHANGED <<trackerOwn, bridge, ahead, loopTag, dStatus, ops, dcount, firstTime,
                 anyFace, history>>

\* The end of getBridgeFromDetector and of analysis.  (analysis lowers m_firstTime after
\* nextStatus; only its own thread reads it.)
Delivered ==
  /\ dpc = "deliver" /\ CallsMade
  /\ tStatus' = IF tStatus \in {"PREPARE", "TRACK"} THEN TRule(tStatus) ELSE tStatus
  /\ dpc' = DRule(dStatus)
  /\ firstTime' = FALSE
  /\ UNCHANGED <<trackerOwn, bridge, ahead, loopTag, dStatus, ops, dcount, anyFace, history>>

Analysis ==
  /\ dStatus = "ANALYSIS" /\ ~firstTime /\ RunBegins
  /\ dpc' = DRule(dStatus)
  /\ UNCHANGED <<tStatus, trackerOwn, bridge, ahead, loopTag, dStatus, ops, dcount,
                 firstTime, anyFace, history>>

\* nextStatus assigns m_current and the run ends.
NextStatus ==
  /\ dpc \in DStatus
  /\ dStatus' = dpc
  /\ dpc' = "idle"
  /\ UNCHANGED <<tStatus, trackerOwn, bridge, ahead, loopTag, ops, dcount, firstTime,
                 anyFace, history>>

-----------------------------------------------------------------------------
Tracker ==
  \/ Pretrack \/ PretrackEnd \/ Track \/ WaitPassed \/ TooSlow
  \/ CountLoop \/ NoticeSimilar \/ Notice \/ WaitedForDetector
  \/ \E i \in Slots : Slot(i) \/ TailTest(i) \/ AddNewTail(i) \/ View(i)

Detector ==
  \/ Predetect \/ Detect \/ DetectEnd \/ AnalysisFirst \/ Delivered \/ Analysis
  \/ NextStatus
  \/ \E i \in Slots : Call(i)

Next == Tracker \/ Detector \/ Prepare

\* Both threads are scheduled and find new frames; the application need not sample.
Fairness == WF_vars(Tracker) /\ WF_vars(Detector)

Spec == Init /\ [][Next]_vars /\ Fairness

-----------------------------------------------------------------------------
\* A threshold of 0 takes one frame as 1 does.
LeastCount == IF DetectCount = 0 THEN -1 ELSE 0

StateTypes ==
  /\ tStatus \in TStatus
  /\ tpc \in TLabel
  /\ todo \subseteq Slots
  /\ old \in [Slots -> Rect] /\ new \in [Slots -> Rect]
  /\ ahead \subseteq Slots
  /\ ress \in [Slots -> Rect]
  /\ pre \subseteq Slots
  /\ count \in Nat
  /\ dStatus \in DStatus
  /\ dpc \in {"idle", "calls", "deliver"} \cup DStatus
  /\ ops \in [Slots -> Op]
  /\ dcount \in Int /\ dcount >= LeastCount
  /\ owed \subseteq Slots

FlagTypes ==
  /\ loopTag \in BOOLEAN /\ firstTime \in BOOLEAN
  /\ anyFace \in BOOLEAN /\ late \in BOOLEAN

TypeOK == StateTypes /\ FlagTypes

\* Every detection was over before the tracker began the loop that may ask for the next.
Timely == ~late

\* "ERROR:[TOFaceDetector::getBridgeFromTracker] not in DORMANT status!" and the status
\* ERROR, which nothing leaves, need a detection that outlasts the tracker's interval.
TimelyNeverError == Timely => dStatus # "ERROR"

\* Faces are handed over to a tracker that takes notice of them: it is in PREPARE or
\* TRACK and will initialise its workers anew (TOTrackerTwistedPool.cpp:155).
TimelyDelivery == Timely /\ dpc = "deliver" => tStatus # "PRETRACK"

\* Nobody changes m_bridge while pretrack initialises the workers from it.
TimelyPretrack == Timely /\ tpc = "pretrack" => CallsMade

\* The hand-over of faces and pretrack do not meet: both of the above.
TimelyHandOver == TimelyDelivery /\ TimelyPretrack

\* The faces of a first detection replace no face that is being tracked.
TimelyPut == Timely => \A i \in Slots : ops[i] = "put" => ~Working(i)

\* No slot waits for its activation when detect begins to compare faces: analysisTAndD
\* takes such a slot for an empty one and would give its face to a second slot.
TimelySnapshot ==
  Timely /\ dStatus = "DETECT" /\ RunBegins /\ ~firstTime
  => \A i \in Slots : ~WaitToActive(i)

\* The loop that leads to a notice does not hang: every slot that is working when the wait
\* for the results begins has one, or has been initialised.
TimelyWait ==
  Timely /\ tpc = "wait" /\ count > KeepCountThr => \A i \in Slots : ~Blocks(i)

\* A detection ends.
DetectionEnds == Busy ~> ~Busy

\* The tracker asks for another detection, again and again (TOLibConfig.cfg:56), unless
\* it hangs in the wait loop of track().
NoticeRecurs ==
  tStatus = "TRACK" ~> (NoticeDue \/ (tpc = "wait" /\ \E i \in Slots : Blocks(i)))

\* TOTrackerTwistedPool.cpp:322: "now we skip it once to keep loop normal".  The wait
\* for the slots' results ends.
WaitEnds == (tpc = "wait") ~> (tpc # "wait")

\* TOLibConfig.cfg:27: when a correction is due the tracker is told to initialise anew
\* ("通知tracker重新初始化").  A corrected slot is never tracked on before its worker has
\* been, but for one way: the correction fell between the test of its tail and addNewTail,
\* which moves the corrected rectangle to oldRes (TOTrackerTwistedPool.cpp:345-347).
LostOnlyAtTail ==
  [][\A i \in Slots :
       (i \in owed /\ Working(i))' /\ ~(i \in owed /\ Working(i)) => AtTail(i)]_vars

-----------------------------------------------------------------------------
(* Inductive strengthening.                                                  *)

\* In detect there is a frame left to count, whatever the tracker does to the status.
RunAt ==
  /\ dpc = "calls" => dStatus \in {"DETECT", "ERROR"}
  /\ dpc = "deliver" => dStatus \in {"ANALYSIS", "ERROR"}
  /\ dpc \in {"calls", "DETECT"} \/ (dpc = "idle" /\ dStatus = "DETECT") => dcount > LeastCount
  /\ dStatus = "DORMANT" => dpc = "idle"

\* The tracker has left PREPARE only after getBridgeFromDetector had set the tag.
Tagged ==
  /\ tStatus # "PREPARE" \/ dpc = "deliver" => loopTag
  /\ tStatus = "PREPARE" => tpc = "idle"

\* The loop tag, which the tracker waits for before it wakes the detector, never makes
\* it wait: m_tmpLoopFrameCountSum does not run away.
CountBounded == count <= KeepCountThr + 1

InLoop == tpc \in {"slots", "wait", "tails", "tail", "view", "check"}

\* Where the detector may be in its run, for each status.
DetectorAt ==
  \/ /\ dStatus = "PREPARE" /\ dpc \in {"idle", "PREDETECT"}
     /\ tStatus = "PREPARE" /\ firstTime
  \/ dStatus = "PREDETECT" /\ dpc \in {"idle", "DETECT"}
  \/ dStatus = "DETECT" /\ dpc \in {"idle", "calls", "ANALYSIS"}
  \/ dStatus = "ANALYSIS" /\ dpc = "idle"
  \/ dStatus = "ANALYSIS" /\ dpc = "deliver" /\ firstTime
  \/ dStatus = "ANALYSIS" /\ dpc = "DORMANT" /\ ~firstTime
  \/ dStatus = "DORMANT" /\ dpc = "idle" /\ ~firstTime

\* Calls are pending only in detect and getBridgeFromDetector.
CallsAt ==
  /\ dpc \notin {"calls", "deliver"} \/ (dpc = "calls" /\ firstTime) => CallsMade
  /\ dpc = "calls" => \A i \in Slots : ops[i] # "put"

\* The tracker is in PRETRACK only between a delivery and the next notice.
PretrackAt ==
  /\ tStatus = "PRETRACK" => dpc = "DORMANT" \/ dStatus = "DORMANT"
  /\ tpc = "pretrack" => tStatus = "PRETRACK"
  /\ tpc # "waitDetector"

\* In a loop that may end with a notice the detector has been dormant all along, and
\* every slot already visited has ceased to wait for its activation.
Quiet ==
  InLoop /\ count > KeepCountThr =>
    /\ dStatus = "DORMANT" /\ tStatus # "PRETRACK"
    /\ \A i \in Slots : (tpc = "slots" /\ i \in todo) \/ old[i] # "none" \/ new[i] = "none"
    /\ \A i \in Slots : AtTail(i) => Working(i)

\* A first detection, until it hands over its faces, meets a bridge without any.
FirstDetection == firstTime \/ (dStatus = "PREDETECT" /\ ~anyFace)
FirstAlone ==
  /\ FirstDetection /\ dpc # "deliver" => tpc # "tail" /\ \A i \in Slots : new[i] = "none"
  /\ \A i \in Slots : ops[i] = "put" => new[i] = "none" /\ ~AtTail(i)

\* A later detection compares the faces of one frame, before which nobody but the tracker
\* has touched the bridge since the notice.
SnapshotAt ==
  /\ ~firstTime /\ (dStatus = "PREDETECT" \/ (dStatus = "DETECT" /\ dpc = "idle"))
     => \A i \in Slots : ~WaitToActive(i) /\ (AtTail(i) => Working(i))
  /\ ~firstTime /\ (dpc = "DETECT" \/ (dStatus = "DETECT" /\ dpc \in {"idle", "calls"}))
     => dcount = 1

\* In a loop that may end with a notice a slot lacks its result only until its visit.
Visited ==
  count > KeepCountThr =>
    /\ tpc = "slots" => \A i \in Slots : Blocks(i) => i \in todo
    /\ tpc = "wait" => \A i \in Slots : ~Blocks(i)

TimelyInv ==
  DetectorAt /\ CallsAt /\ PretrackAt /\ Quiet /\ FirstAlone /\ SnapshotAt /\ Visited

IInv ==
  /\ TypeOK /\ RunAt /\ Tagged /\ CountBounded
  /\ Timely => TimelyInv

=============================================================================
