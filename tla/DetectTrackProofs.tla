--------------------------- MODULE DetectTrackProofs --------------------------
(* Detector and tracker for any number of slots and any thresholds.   *)
EXTENDS DetectTrack, FiniteSetTheorems, TLAPS

USE DEF trackerOwn, bridge, detectorOwn, history

LEMMA RuleTypes ==
  /\ \A s \in DStatus : DRule(s) \in DStatus
  /\ \A s \in TStatus : TRule(s) \in TStatus \ {"PREPARE"}
BY DEF DRule, TRule, DStatus, TStatus

-----------------------------------------------------------------------------
(* Types                                                                    *)

LEMMA TrackerTypes ==
  ASSUME TypeOK, Tracker PROVE StateTypes'
<1> USE DEF TypeOK, StateTypes
<1>1. CASE Pretrack \/ WaitPassed \/ WaitedForDetector \/ Track
  BY <1>1 DEF Pretrack, WaitPassed, WaitedForDetector, Track, TLabel
<1>2. CASE PretrackEnd
  BY <1>2, RuleTypes DEF PretrackEnd, TLabel
<1>3. CASE TooSlow
  BY <1>3 DEF TooSlow, TStatus
<1>4. CASE CountLoop \/ NoticeSimilar
  BY <1>4 DEF CountLoop, NoticeSimilar, TLabel, Rect
<1>5. CASE Notice
  <2>1. dStatus' \in DStatus /\ tpc' \in TLabel
    BY <1>5, RuleTypes DEF Notice, TLabel, DStatus
  <2> QED
    BY <1>5, <2>1 DEF Notice, Rect
<1>6. ASSUME NEW i \in Slots, Slot(i) PROVE StateTypes'
  <2>1. tpc' \in TLabel /\ todo' \subseteq Slots
    BY <1>6 DEF Slot, After, TLabel
  <2>2. /\ old' \in [Slots -> Rect] /\ ress' \in [Slots -> Rect] /\ new' = new
        /\ pre' \subseteq Slots
    BY <1>6 DEF Slot, Rect
  <2> QED
    BY <1>6, <2>1, <2>2 DEF Slot
<1>7. ASSUME NEW i \in Slots, TailTest(i) \/ AddNewTail(i) \/ View(i) PROVE StateTypes'
  <2>1. tpc' \in TLabel /\ todo' \subseteq Slots
    BY <1>7 DEF TailTest, AddNewTail, View, After, TLabel
  <2>2. old' \in [Slots -> Rect] /\ new' \in [Slots -> Rect]
    BY <1>7 DEF TailTest, AddNewTail, View, Rect
  <2> QED
    BY <1>7, <2>1, <2>2 DEF TailTest, AddNewTail, View
<1> QED
  BY <1>1, <1>2, <1>3, <1>4, <1>5, <1>6, <1>7 DEF Tracker

LEMMA DetectorTypes ==
  ASSUME TypeOK, RunAt, Detector \/ Prepare PROVE StateTypes'
<1> USE DEF TypeOK, StateTypes
<1>1. CASE Prepare \/ Analysis
  BY <1>1, RuleTypes DEF Prepare, Analysis
<1>2. CASE Predetect
  BY <1>2, RuleTypes, DetectTrackAssumption DEF Predetect, LeastCount
<1>3. CASE Detect
  <2>1. ops' \in [Slots -> Op]
    BY <1>3 DEF Detect, Verdicts, Op
  <2> QED
    BY <1>3, <2>1 DEF Detect
<1>4. CASE DetectEnd
  <2>1. dcount' \in Int /\ dcount' >= LeastCount
    <3>1. LeastCount \in Int /\ dcount > LeastCount /\ dcount' = dcount - 1
      BY <1>4 DEF DetectEnd, RunAt, LeastCount
    <3> QED
      BY <3>1
  <2> QED
    BY <1>4, <2>1, RuleTypes DEF DetectEnd
<1>5. CASE AnalysisFirst
  <2>1. ops' \in [Slots -> Op]
    BY <1>5 DEF AnalysisFirst, Op, Verdict
  <2> QED
    BY <1>5, <2>1 DEF AnalysisFirst
<1>6. CASE Delivered
  BY <1>6, RuleTypes DEF Delivered
<1>7. CASE NextStatus
  BY <1>7 DEF NextStatus
<1>8. ASSUME NEW i \in Slots, Call(i) PROVE StateTypes'
  <2>1. /\ old' \in [Slots -> Rect] /\ new' \in [Slots -> Rect]
        /\ ahead' \subseteq Slots /\ owed' \subseteq Slots /\ ops' \in [Slots -> Op]
    BY <1>8 DEF Call, TryToActiveObject, TryToDormantObject, TryToFixObject, PutObject,
                Rect, Op, Verdict
  <2> QED
    BY <1>8, <2>1 DEF Call
<1> QED
  BY <1>1, <1>2, <1>3, <1>4, <1>5, <1>6, <1>7, <1>8 DEF Detector

LEMMA FlagStep ==
  ASSUME FlagTypes, Next PROVE FlagTypes'
<1> USE DEF FlagTypes
<1>1. CASE Pretrack \/ PretrackEnd \/ WaitPassed \/ TooSlow \/ CountLoop
  BY <1>1 DEF Pretrack, PretrackEnd, WaitPassed, TooSlow, CountLoop
<1>2. CASE NoticeSimilar \/ WaitedForDetector
  BY <1>2 DEF NoticeSimilar, WaitedForDetector
<1>8. CASE Track
  <2>1. (late \/ (Busy /\ count > KeepCountThr)) \in BOOLEAN
    OBVIOUS
  <2>2. /\ late' = (late \/ (Busy /\ count > KeepCountThr))
        /\ UNCHANGED <<loopTag, firstTime, anyFace>>
    BY <1>8 DEF Track
  <2> QED
    BY <2>1, <2>2
<1>7. CASE Notice
  <2>1. (RealSize > 0) \in BOOLEAN
    OBVIOUS
  <2>2. /\ anyFace' = (RealSize > 0) /\ loopTag' = TRUE
        /\ UNCHANGED <<firstTime, late>>
    BY <1>7 DEF Notice
  <2> QED
    BY <2>1, <2>2
<1>3. ASSUME NEW i \in Slots, Slot(i) \/ TailTest(i) \/ AddNewTail(i) \/ View(i)
      PROVE  FlagTypes'
  BY <1>3 DEF Slot, TailTest, AddNewTail, View
<1>4. CASE Prepare \/ Predetect \/ Detect \/ DetectEnd
  BY <1>4 DEF Prepare, Predetect, Detect, DetectEnd
<1>5. CASE AnalysisFirst \/ Delivered \/ Analysis \/ NextStatus
  BY <1>5 DEF AnalysisFirst, Delivered, Analysis, NextStatus
<1>6. ASSUME NEW i \in Slots, Call(i) PROVE FlagTypes'
  BY <1>6 DEF Call
<1> QED
  BY <1>1, <1>2, <1>3, <1>4, <1>5, <1>6, <1>7, <1>8 DEF Next, Tracker, Detector

LEMMA RunAtStep ==
  ASSUME TypeOK, RunAt, Next PROVE RunAt'
<1> USE DEF TypeOK, StateTypes, RunAt
<1>1. CASE UNCHANGED <<dStatus, dpc, dcount>>
  BY <1>1
<1>2. CASE Notice
  BY <1>2 DEF Notice, DRule
<1>3. CASE Prepare \/ Predetect \/ Detect
  BY <1>3, DetectTrackAssumption DEF Prepare, Predetect, Detect, RunBegins, DRule, LeastCount
<1>4. CASE DetectEnd
  BY <1>4 DEF DetectEnd, DRule, LeastCount
<1>5. CASE AnalysisFirst \/ Delivered \/ Analysis
  BY <1>5 DEF AnalysisFirst, Delivered, Analysis, RunBegins, DRule
<1>6. CASE NextStatus
  BY <1>6 DEF NextStatus, DStatus
<1>7. ASSUME NEW i \in Slots, Slot(i) \/ TailTest(i) \/ AddNewTail(i) \/ View(i) \/ Call(i)
      PROVE  RunAt'
  BY <1>7 DEF Slot, TailTest, AddNewTail, View, Call
<1>8. CASE Pretrack \/ PretrackEnd \/ Track \/ WaitPassed \/ TooSlow \/ CountLoop
            \/ NoticeSimilar \/ WaitedForDetector
  BY <1>8 DEF Pretrack, PretrackEnd, Track, WaitPassed, TooSlow, CountLoop,
              NoticeSimilar, WaitedForDetector
<1> QED
  BY <1>2, <1>3, <1>4, <1>5, <1>6, <1>7, <1>8 DEF Next, Tracker, Detector

LEMMA TypeInit == Init => TypeOK /\ RunAt
<1> SUFFICES ASSUME Init PROVE TypeOK /\ RunAt
  OBVIOUS
<1>1. StateTypes /\ RunAt
  BY DEF Init, StateTypes, RunAt, LeastCount, TStatus, DStatus, TLabel, Rect, Op, Verdict
<1>2. FlagTypes
  BY DEF Init, FlagTypes
<1> QED
  BY <1>1, <1>2 DEF TypeOK

LEMMA TypeStep == TypeOK /\ RunAt /\ [Next]_vars => (TypeOK /\ RunAt)'
<1> SUFFICES ASSUME TypeOK, RunAt, [Next]_vars PROVE (TypeOK /\ RunAt)'
  OBVIOUS
<1>1. CASE Next
  BY <1>1, TrackerTypes, DetectorTypes, FlagStep, RunAtStep DEF Next, TypeOK
<1>2. CASE UNCHANGED vars
  BY <1>2 DEF vars, TypeOK, StateTypes, FlagTypes, RunAt
<1> QED
  BY <1>1, <1>2

\* Type correctness: every variable keeps its type; the frame counter is never lowered below
\* 0, or below -1 where the threshold is 0.
THEOREM TypeCorrect == Spec => []TypeOK
BY TypeInit, TypeStep, PTL DEF Spec

-----------------------------------------------------------------------------
(* The loop tag                                                              *)

LEMMA TaggedStep ==
  ASSUME TypeOK, RunAt, Tagged, CountBounded, Next PROVE Tagged' /\ CountBounded'
<1> USE DetectTrackAssumption DEF TypeOK, StateTypes, RunAt, Tagged, CountBounded
<1>1. CASE CountLoop
  BY <1>1 DEF CountLoop
<1>2. CASE NoticeSimilar \/ Notice
  BY <1>2 DEF NoticeSimilar, Notice, NoticeDue
<1>3. CASE Pretrack \/ PretrackEnd \/ Track \/ WaitPassed \/ TooSlow \/ WaitedForDetector
  BY <1>3, RuleTypes DEF Pretrack, PretrackEnd, Track, WaitPassed, TooSlow, WaitedForDetector
<1>4. ASSUME NEW i \in Slots, Slot(i) \/ TailTest(i) \/ AddNewTail(i) \/ View(i)
      PROVE  Tagged' /\ CountBounded'
  BY <1>4 DEF Slot, TailTest, AddNewTail, View, AtTail
<1>5. CASE Prepare \/ Predetect \/ Analysis
  BY <1>5 DEF Prepare, Predetect, Analysis, DRule
<1>6. CASE Detect
  BY <1>6 DEF Detect
<1>7. CASE DetectEnd
  BY <1>7 DEF DetectEnd, DRule
<1>8. CASE AnalysisFirst
  BY <1>8 DEF AnalysisFirst
<1>9. CASE Delivered
  BY <1>9, RuleTypes DEF Delivered, DRule
<1>10. CASE NextStatus
  BY <1>10 DEF NextStatus
<1>11. ASSUME NEW i \in Slots, Call(i) PROVE Tagged' /\ CountBounded'
  BY <1>11 DEF Call
<1> QED
  BY <1>1, <1>2, <1>3, <1>4, <1>5, <1>6, <1>7, <1>8, <1>9, <1>10, <1>11
     DEF Next, Tracker, Detector

LEMMA GeneralInit == Init => Tagged /\ CountBounded
BY DetectTrackAssumption DEF Init, Tagged, CountBounded

LEMMA GeneralStep ==
  TypeOK /\ RunAt /\ Tagged /\ CountBounded /\ [Next]_vars => (Tagged /\ CountBounded)'
<1> SUFFICES ASSUME TypeOK, RunAt, Tagged, CountBounded, [Next]_vars
             PROVE  (Tagged /\ CountBounded)'
  OBVIOUS
<1>1. CASE Next
  BY <1>1, TaggedStep
<1>2. CASE UNCHANGED vars
  BY <1>2 DEF vars, Tagged, CountBounded
<1> QED
  BY <1>1, <1>2

\* CountBounded: the tracker's loop counter never runs away, because the tag it waits
\* for has been set before it first leaves PREPARE.
THEOREM LoopCountBounded == Spec => []CountBounded
BY TypeInit, GeneralInit, TypeStep, GeneralStep, PTL DEF Spec

-----------------------------------------------------------------------------
(* Timely detections                                                         *)

LEMMA TimelyInit == Init => TimelyInv
<1> SUFFICES ASSUME Init PROVE TimelyInv
  OBVIOUS
<1> QED
  BY DEF Init, TimelyInv, DetectorAt, CallsAt, CallsMade, PretrackAt, Quiet, InLoop,
         FirstAlone, SnapshotAt, WaitToActive, AtTail, Visited

\* With no face tracked no slot is working.
LEMMA NoneWorking ==
  ASSUME RealSize = 0 PROVE \A i \in Slots : ~Working(i)
<1> DEFINE W == {i \in Slots : Working(i)}
<1>1. IsFiniteSet(Slots)
  BY FS_Interval, DetectTrackAssumption DEF Slots
<1>2. IsFiniteSet(W)
  BY <1>1, FS_Subset
<1>3. W = {}
  BY <1>2, FS_EmptySet DEF RealSize
<1> QED
  BY <1>3

\* Which steps of the tracker a pending notice leaves: those of a loop that has not
\* been disturbed.
LEMMA NoticeTimely ==
  ASSUME TypeOK, TimelyInv, NoticeDue
  PROVE  /\ dStatus = "DORMANT" /\ dpc = "idle" /\ tStatus # "PRETRACK" /\ ~firstTime
         /\ CallsMade
         /\ \A i \in Slots : old[i] # "none" \/ new[i] = "none"
<1>1. InLoop /\ count > KeepCountThr /\ tpc = "check"
  BY DEF NoticeDue, InLoop
<1>2. /\ dStatus = "DORMANT" /\ tStatus # "PRETRACK"
      /\ \A i \in Slots : old[i] # "none" \/ new[i] = "none"
  BY <1>1 DEF TimelyInv, Quiet
<1>3. dpc = "idle" /\ ~firstTime
  BY <1>2 DEF TimelyInv, DetectorAt
<1>4. CallsMade
  BY <1>3 DEF TimelyInv, CallsAt
<1> QED
  BY <1>2, <1>3, <1>4

LEMMA DetectorAtStep ==
  ASSUME TypeOK, RunAt, Tagged, TimelyInv, Next PROVE DetectorAt'
<1> USE DEF DetectorAt
<1>1. DetectorAt
  BY DEF TimelyInv
<1>2. CASE Pretrack \/ Track \/ WaitPassed \/ CountLoop \/ NoticeSimilar \/ WaitedForDetector
  BY <1>1, <1>2 DEF Pretrack, Track, WaitPassed, CountLoop, NoticeSimilar, WaitedForDetector
<1>3. CASE PretrackEnd \/ TooSlow
  BY <1>1, <1>3 DEF PretrackEnd, TooSlow, Tagged
<1>4. CASE Notice
  <2>1. NoticeDue
    BY <1>4 DEF Notice
  <2>2. dStatus = "DORMANT" /\ dpc = "idle"
    BY <2>1, NoticeTimely
  <2> QED
    BY <1>4, <2>2 DEF Notice, DRule
<1>5. ASSUME NEW i \in Slots, Slot(i) \/ TailTest(i) \/ AddNewTail(i) \/ View(i) \/ Call(i)
      PROVE  DetectorAt'
  BY <1>1, <1>5 DEF Slot, TailTest, AddNewTail, View, Call
<1>6. CASE Prepare \/ Analysis
  BY <1>1, <1>6 DEF Prepare, Analysis, RunBegins, DRule
<1>7. CASE Predetect
  BY <1>1, <1>7 DEF Predetect, RunBegins, DRule
<1>8. CASE Detect
  BY <1>1, <1>8 DEF Detect, RunBegins
<1>9. CASE DetectEnd
  BY <1>1, <1>9 DEF DetectEnd, DRule
<1>10. CASE AnalysisFirst
  BY <1>1, <1>10 DEF AnalysisFirst, RunBegins
<1>11. CASE Delivered
  BY <1>1, <1>11 DEF Delivered, DRule
<1>12. CASE NextStatus
  BY <1>1, <1>12 DEF NextStatus, DStatus
<1> QED
  BY <1>2, <1>3, <1>4, <1>5, <1>6, <1>7, <1>8, <1>9, <1>10, <1>11, <1>12
     DEF Next, Tracker, Detector

LEMMA CallsAtStep ==
  ASSUME TypeOK, TimelyInv, Next PROVE CallsAt'
<1> USE DEF CallsAt, CallsMade
<1>1. CallsAt /\ DetectorAt
  BY DEF TimelyInv
<1>2. CASE Pretrack \/ PretrackEnd \/ Track \/ WaitPassed \/ TooSlow \/ CountLoop
            \/ NoticeSimilar \/ Notice \/ WaitedForDetector
  BY <1>1, <1>2 DEF Pretrack, PretrackEnd, Track, WaitPassed, TooSlow, CountLoop,
                    NoticeSimilar, Notice, WaitedForDetector
<1>3. ASSUME NEW i \in Slots, Slot(i) \/ TailTest(i) \/ AddNewTail(i) \/ View(i)
      PROVE  CallsAt'
  BY <1>1, <1>3 DEF Slot, TailTest, AddNewTail, View
<1>4. CASE Prepare \/ Predetect \/ Analysis
  BY <1>1, <1>4 DEF Prepare, Predetect, Analysis, RunBegins, DRule
<1>5. CASE Detect
  <2>1. \A i \in Slots : ops'[i] # "put"
    BY <1>1, <1>5 DEF Detect, RunBegins, Verdicts, Verdict
  <2>2. dpc = "idle" /\ dpc' = "calls" /\ firstTime' = firstTime /\ (firstTime => ops' = ops)
    BY <1>5 DEF Detect, RunBegins
  <2>3. firstTime => CallsMade'
    BY <1>1, <2>2
  <2> QED
    BY <2>1, <2>2, <2>3
<1>6. CASE DetectEnd
  BY <1>1, <1>6 DEF DetectEnd, DRule
<1>7. CASE AnalysisFirst
  BY <1>7 DEF AnalysisFirst
<1>8. CASE Delivered
  BY <1>1, <1>8 DEF Delivered, DRule
<1>9. CASE NextStatus
  BY <1>1, <1>9 DEF NextStatus, DStatus
<1>10. ASSUME NEW i \in Slots, Call(i) PROVE CallsAt'
  <2>1. \A j \in Slots : ops'[j] = IF j = i THEN "nothing" ELSE ops[j]
    BY <1>10 DEF Call, TypeOK, StateTypes
  <2>2. dpc' = dpc /\ dpc \in {"calls", "deliver"} /\ firstTime' = firstTime /\ Turn(ops, i)
    BY <1>10 DEF Call
  <2>3. ~(dpc = "calls" /\ firstTime)
    BY <1>1, <2>2 DEF Turn
  <2> QED
    BY <1>1, <2>1, <2>2, <2>3
<1> QED
  BY <1>2, <1>3, <1>4, <1>5, <1>6, <1>7, <1>8, <1>9, <1>10 DEF Next, Tracker, Detector

LEMMA PretrackAtStep ==
  ASSUME TypeOK, RunAt, TimelyInv, Next PROVE PretrackAt'
<1> USE DEF PretrackAt
<1>1. PretrackAt /\ DetectorAt
  BY DEF TimelyInv
<1>2. CASE Pretrack \/ PretrackEnd \/ Track \/ WaitPassed \/ TooSlow \/ CountLoop
            \/ NoticeSimilar \/ WaitedForDetector
  BY <1>1, <1>2 DEF Pretrack, PretrackEnd, Track, WaitPassed, TooSlow, CountLoop,
                    NoticeSimilar, NoticeDue, WaitedForDetector, TRule
<1>3. CASE Notice
  <2>1. NoticeDue
    BY <1>3 DEF Notice
  <2>2. dStatus = "DORMANT" /\ tStatus # "PRETRACK"
    BY <2>1, NoticeTimely
  <2> QED
    BY <1>3, <2>2 DEF Notice
<1>4. ASSUME NEW i \in Slots, Slot(i) \/ TailTest(i) \/ AddNewTail(i) \/ View(i)
      PROVE  PretrackAt'
  BY <1>1, <1>4 DEF Slot, TailTest, AddNewTail, View, After
<1>5. CASE Prepare \/ Predetect \/ Analysis \/ AnalysisFirst
  BY <1>1, <1>5 DEF Prepare, Predetect, Analysis, AnalysisFirst, RunBegins
<1>6. CASE Detect \/ DetectEnd
  BY <1>1, <1>6, RunAtStep DEF Detect, DetectEnd, RunBegins, DetectorAt
<1>7. CASE Delivered
  BY <1>1, <1>7 DEF Delivered, DRule, DetectorAt, TRule
<1>8. CASE NextStatus
  BY <1>1, <1>8 DEF NextStatus, DStatus, DetectorAt
<1>9. ASSUME NEW i \in Slots, Call(i) PROVE PretrackAt'
  BY <1>1, <1>9 DEF Call
<1> QED
  BY <1>2, <1>3, <1>4, <1>5, <1>6, <1>7, <1>8, <1>9 DEF Next, Tracker, Detector

\* While a loop that may end with a notice runs, no detector step but none is possible.
LEMMA QuietStep ==
  ASSUME TypeOK, RunAt, Tagged, Timely', TimelyInv, Next PROVE Quiet'
<1> USE DEF Quiet, InLoop
<1>1. Quiet /\ DetectorAt /\ CallsAt /\ PretrackAt
  BY DEF TimelyInv
<1>2. CASE Pretrack \/ PretrackEnd \/ WaitedForDetector \/ CountLoop \/ NoticeSimilar \/ Notice
  BY <1>2, <1>1 DEF Pretrack, PretrackEnd, WaitedForDetector, CountLoop, NoticeSimilar, Notice,
              NoticeDue, PretrackAt
<1>3. CASE Track
  <2>1. count' = count /\ dStatus' = dStatus /\ tStatus' = tStatus /\ tStatus = "TRACK"
        /\ tpc' = "slots" /\ todo' = Slots /\ ~(Busy /\ count > KeepCountThr)
    BY <1>3 DEF Track, Timely
  <2>2. count > KeepCountThr => dStatus = "DORMANT"
    BY <1>1, <2>1, DetectTrackAssumption DEF Busy, DetectorAt, TypeOK, StateTypes
  <2> QED
    BY <2>1, <2>2 DEF AtTail
<1>4. CASE WaitPassed \/ TooSlow
  BY <1>1, <1>4 DEF WaitPassed, TooSlow, AtTail
<1>5. ASSUME NEW i \in Slots, Slot(i) PROVE Quiet'
  <2> SUFFICES ASSUME count' > KeepCountThr PROVE Quiet'
    OBVIOUS
  <2>1. /\ tpc = "slots" /\ i \in todo /\ count' = count /\ dStatus' = dStatus
        /\ tStatus' = tStatus /\ new' = new
        /\ \/ tpc' = "slots" /\ todo' = todo \ {i}
           \/ tpc' = "wait" /\ todo = {i}
    BY <1>5 DEF Slot, After
  <2>2. \A j \in Slots : j # i => old'[j] = old[j]
    BY <1>5 DEF Slot, TypeOK, StateTypes
  <2>3. old'[i] # "none" \/ new'[i] = "none"
    BY <1>5 DEF Slot, Working, WaitToStop, WaitToActive, Dormant, TypeOK, StateTypes
  <2> QED
    BY <1>1, <2>1, <2>2, <2>3 DEF AtTail
<1>6. ASSUME NEW i \in Slots, TailTest(i) PROVE Quiet'
  <2>1. /\ tpc = "tails" /\ count' = count /\ dStatus' = dStatus /\ tStatus' = tStatus
        /\ old' = old /\ new' = new /\ i \in todo /\ (\A j \in todo : i <= j)
        /\ \/ tpc' = "tail" /\ todo' = todo /\ Working(i)
           \/ tpc' \in {"tails", "view"}
    BY <1>6 DEF TailTest, After
  <2>2. \A j \in Slots : AtTail(j)' => j = i /\ Working(i)
    BY <2>1 DEF AtTail, Slots, TypeOK, StateTypes
  <2> QED
    BY <1>1, <2>1, <2>2 DEF Working
<1>7. ASSUME NEW i \in Slots, AddNewTail(i) PROVE Quiet'
  <2> SUFFICES ASSUME count' > KeepCountThr PROVE Quiet'
    OBVIOUS
  <2>1. /\ tpc = "tail" /\ count' = count /\ dStatus' = dStatus /\ tStatus' = tStatus
        /\ tpc' \in {"tails", "view"} /\ AtTail(i)
    BY <1>7 DEF AddNewTail, After, AtTail
  <2>2. Working(i)
    BY <1>1, <2>1
  <2>3. \A j \in Slots : old'[j] # "none" \/ new'[j] = "none"
    BY <1>1, <1>7, <2>1, <2>2 DEF AddNewTail, Working, TypeOK, StateTypes
  <2> QED
    BY <1>1, <2>1, <2>3 DEF AtTail
<1>8. ASSUME NEW i \in Slots, View(i) PROVE Quiet'
  <2>1. /\ tpc = "view" /\ count' = count /\ dStatus' = dStatus /\ tStatus' = tStatus
        /\ tpc' \in {"view", "check"} /\ old' = old
    BY <1>8 DEF View, After
  <2>2. \A j \in Slots : new'[j] = new[j] \/ new'[j] = "none"
    BY <1>8 DEF View, TypeOK, StateTypes
  <2> QED
    BY <1>1, <2>1, <2>2 DEF AtTail
<1>9. ASSUME dStatus # "DORMANT", UNCHANGED <<tpc, count>> PROVE Quiet'
  BY <1>1, <1>9
<1>10. CASE Prepare \/ Predetect \/ Detect \/ DetectEnd \/ AnalysisFirst \/ Delivered
            \/ Analysis \/ NextStatus
  <2>1. dStatus # "DORMANT"
    BY <1>1, <1>10 DEF DetectorAt, Prepare, Predetect, Detect, DetectEnd, AnalysisFirst,
                       Delivered, Analysis, NextStatus, DStatus
  <2>2. UNCHANGED <<tpc, count>>
    BY <1>10 DEF Prepare, Predetect, Detect, DetectEnd, AnalysisFirst, Delivered,
                 Analysis, NextStatus
  <2> QED
    BY <1>9, <2>1, <2>2
<1>11. ASSUME NEW i \in Slots, Call(i) PROVE Quiet'
  <2>1. dStatus # "DORMANT" /\ UNCHANGED <<tpc, count>>
    BY <1>1, <1>11 DEF Call, DetectorAt
  <2> QED
    BY <1>9, <2>1
<1> QED
  BY <1>2, <1>3, <1>4, <1>5, <1>6, <1>7, <1>8, <1>10, <1>11 DEF Next, Tracker, Detector

\* The tracker alone never gives a slot a new position during a first detection.
LEMMA FirstTrackerStep ==
  ASSUME TypeOK, TimelyInv, Tracker PROVE FirstAlone'
<1> USE DEF FirstAlone, FirstDetection
<1>1. FirstAlone
  BY DEF TimelyInv
<1>2. CASE Pretrack \/ PretrackEnd \/ Track \/ WaitPassed \/ CountLoop \/ NoticeSimilar
            \/ WaitedForDetector
  BY <1>1, <1>2 DEF Pretrack, PretrackEnd, Track, WaitPassed, CountLoop, NoticeSimilar,
                    WaitedForDetector, AtTail
<1>3. CASE TooSlow
  BY <1>1, <1>3 DEF TooSlow, AtTail
<1>4. CASE Notice
  <2>1. NoticeDue
    BY <1>4 DEF Notice
  <2>2. /\ dStatus = "DORMANT" /\ CallsMade /\ ~firstTime
        /\ \A i \in Slots : old[i] # "none" \/ new[i] = "none"
    BY <2>1, NoticeTimely
  <2>3. /\ dStatus' = "PREDETECT" /\ tpc' = "idle"
        /\ UNCHANGED <<old, new, ops, dpc, firstTime>>
    BY <1>4, <2>2 DEF Notice, DRule
  <2>4. anyFace' = (RealSize > 0)
    BY <1>4 DEF Notice
  <2>5. ASSUME ~anyFace' PROVE \A i \in Slots : new[i] = "none"
    <3>1. RealSize \in Nat
      <4>1. IsFiniteSet(Slots)
        BY FS_Interval, DetectTrackAssumption DEF Slots
      <4> QED
        BY <4>1, FS_Subset, FS_CardinalityType DEF RealSize
    <3>2. ~(RealSize > 0)
      BY <2>4, <2>5
    <3>3. RealSize = 0
      BY <3>1, <3>2
    <3> QED
      BY <3>3, <2>2, NoneWorking DEF Working
  <2>6. \A i \in Slots : ops'[i] # "put"
    BY <2>2, <2>3 DEF CallsMade
  <2>7. ~firstTime' /\ \A i \in Slots : new'[i] = new[i]
    BY <2>2, <2>3
  <2>8. FirstDetection' => \A i \in Slots : new'[i] = "none"
    BY <2>5, <2>7
  <2> QED
    BY <2>3, <2>6, <2>8
<1>5. ASSUME NEW i \in Slots, Slot(i) PROVE FirstAlone'
  <2>1. /\ UNCHANGED <<new, dStatus, dpc, ops, firstTime, anyFace>>
        /\ tpc' \in {"slots", "wait"}
    BY <1>5 DEF Slot, After
  <2> QED
    BY <1>1, <2>1 DEF AtTail
<1>6. ASSUME NEW i \in Slots, TailTest(i) PROVE FirstAlone'
  <2>1. /\ UNCHANGED <<old, new, dStatus, dpc, ops, firstTime, anyFace>>
        /\ i \in todo /\ (\A j \in todo : i <= j)
        /\ \/ tpc' = "tail" /\ todo' = todo /\ new[i] # "none"
           \/ tpc' \in {"tails", "view"}
    BY <1>6 DEF TailTest, After, Working
  <2>2. \A j \in Slots : AtTail(j)' => new[j] # "none"
    BY <2>1 DEF AtTail, Slots, TypeOK, StateTypes
  <2> QED
    BY <1>1, <2>1, <2>2
<1>7. ASSUME NEW i \in Slots, AddNewTail(i) PROVE FirstAlone'
  <2>1. /\ UNCHANGED <<dStatus, dpc, ops, firstTime, anyFace>>
        /\ tpc = "tail" /\ AtTail(i) /\ tpc' \in {"tails", "view"}
        /\ \A j \in Slots : j # i => new'[j] = new[j]
    BY <1>7 DEF AddNewTail, After, AtTail, TypeOK, StateTypes
  <2>2. ops[i] # "put" /\ ~(FirstDetection /\ dpc # "deliver")
    BY <1>1, <2>1
  <2> QED
    BY <1>1, <2>1, <2>2 DEF AtTail
<1>8. ASSUME NEW i \in Slots, View(i) PROVE FirstAlone'
  <2>1. /\ UNCHANGED <<dStatus, dpc, ops, firstTime, anyFace>>
        /\ tpc' \in {"view", "check"}
        /\ \A j \in Slots : new'[j] = new[j] \/ new'[j] = "none"
    BY <1>8 DEF View, After, TypeOK, StateTypes
  <2> QED
    BY <1>1, <2>1 DEF AtTail
<1> QED
  BY <1>2, <1>3, <1>4, <1>5, <1>6, <1>7, <1>8 DEF Tracker

LEMMA FirstDetectorStep ==
  ASSUME TypeOK, TimelyInv, Detector \/ Prepare PROVE FirstAlone'
<1> USE DEF FirstAlone, FirstDetection
<1>1. FirstAlone /\ DetectorAt /\ CallsAt
  BY DEF TimelyInv
<1>2. CASE Prepare \/ Predetect \/ Analysis
  <2>1. UNCHANGED <<new, tpc, todo, ops, anyFace, dStatus>>
    BY <1>2 DEF Prepare, Predetect, Analysis
  <2>2. dpc # "deliver"
    BY <1>2 DEF Prepare, Predetect, Analysis, RunBegins
  <2>3. firstTime' => FirstDetection
    <3>1. CASE Predetect
      BY <3>1 DEF Predetect
    <3>2. CASE Prepare \/ Analysis
      BY <3>2 DEF Prepare, Analysis
    <3> QED
      BY <1>2, <3>1, <3>2
  <2> QED
    BY <1>1, <2>1, <2>2, <2>3 DEF AtTail
<1>3. CASE Detect
  <2>1. \A i \in Slots : ops'[i] # "put"
    BY <1>1, <1>3 DEF Detect, RunBegins, Verdicts, Verdict, CallsAt, CallsMade
  <2> QED
    BY <1>1, <1>3, <2>1 DEF Detect, RunBegins, AtTail
<1>4. CASE DetectEnd
  BY <1>1, <1>4 DEF DetectEnd, AtTail
<1>5. CASE AnalysisFirst
  <2>1. /\ UNCHANGED <<new, tpc, todo, firstTime, anyFace, dStatus>>
        /\ dpc = "idle" /\ firstTime /\ dpc' = "deliver"
    BY <1>5 DEF AnalysisFirst, RunBegins
  <2> QED
    BY <1>1, <2>1 DEF AtTail
<1>6. CASE Delivered
  <2>1. /\ UNCHANGED <<new, tpc, todo, ops, anyFace, dStatus>> /\ ~firstTime'
        /\ dStatus = "ANALYSIS"
    BY <1>1, <1>6 DEF Delivered, DetectorAt
  <2> QED
    BY <1>1, <2>1 DEF AtTail
<1>7. CASE NextStatus
  <2>1. /\ UNCHANGED <<new, tpc, todo, ops, anyFace, firstTime>>
        /\ dpc # "deliver" /\ dStatus' = dpc
    BY <1>7 DEF NextStatus, DStatus
  <2>2. dStatus' = "PREDETECT" => firstTime
    BY <1>1, <2>1 DEF DetectorAt
  <2> QED
    BY <1>1, <2>1, <2>2 DEF AtTail
<1>8. ASSUME NEW i \in Slots, Call(i) PROVE FirstAlone'
  <2>1. /\ UNCHANGED <<tpc, todo, dStatus, dpc, firstTime, anyFace>>
        /\ Turn(ops, i) /\ dpc \in {"calls", "deliver"}
        /\ \A j \in Slots : ops'[j] = IF j = i THEN "nothing" ELSE ops[j]
    BY <1>8 DEF Call, TypeOK, StateTypes
  <2>2. \A j \in Slots : j # i => new'[j] = new[j]
    BY <1>8 DEF Call, TryToActiveObject, TryToDormantObject, TryToFixObject, PutObject,
                TypeOK, StateTypes
  <2>3. ~(FirstDetection /\ dpc # "deliver")
    BY <1>1, <2>1 DEF DetectorAt, CallsAt, CallsMade, Turn
  <2> QED
    BY <1>1, <2>1, <2>2, <2>3 DEF AtTail
<1> QED
  BY <1>2, <1>3, <1>4, <1>5, <1>6, <1>7, <1>8 DEF Detector

\* The tracker alone never makes a slot wait for its activation once the notice is out.
LEMMA SnapshotTrackerStep ==
  ASSUME TypeOK, RunAt, TimelyInv, Tracker PROVE SnapshotAt'
<1>1. SnapshotAt /\ DetectorAt
  BY DEF TimelyInv
<1> DEFINE Told == ~firstTime /\ (dStatus = "PREDETECT" \/ (dStatus = "DETECT" /\ dpc = "idle"))
           Still(i) == ~WaitToActive(i) /\ (AtTail(i) => Working(i))
<1>2. Told => \A i \in Slots : Still(i)
  BY <1>1 DEF SnapshotAt
<1>3. ASSUME UNCHANGED <<dStatus, dpc, dcount, firstTime>>,
             Told => \A i \in Slots : Still(i)'
      PROVE  SnapshotAt'
  BY <1>1, <1>3 DEF SnapshotAt
<1> USE DEF WaitToActive, Working
<1>4. CASE Pretrack \/ PretrackEnd \/ Track \/ WaitPassed \/ CountLoop \/ NoticeSimilar
            \/ WaitedForDetector
  <2>1. UNCHANGED <<dStatus, dpc, dcount, firstTime, old, new>> /\ tpc' # "tail"
    BY <1>4 DEF Pretrack, PretrackEnd, Track, WaitPassed, CountLoop, NoticeSimilar,
                WaitedForDetector
  <2> QED
    BY <1>2, <1>3, <2>1 DEF AtTail
<1>5. CASE TooSlow
  BY <1>2, <1>3, <1>5 DEF TooSlow, AtTail
<1>6. CASE Notice
  <2>1. NoticeDue
    BY <1>6 DEF Notice
  <2>2. /\ dStatus = "DORMANT" /\ dpc = "idle"
        /\ \A i \in Slots : old[i] # "none" \/ new[i] = "none"
    BY <2>1, NoticeTimely
  <2>3. dStatus' = "PREDETECT" /\ tpc' = "idle" /\ UNCHANGED <<old, new, dpc>>
    BY <1>6, <2>2 DEF Notice, DRule
  <2> QED
    BY <2>2, <2>3 DEF SnapshotAt, AtTail
<1>7. ASSUME NEW i \in Slots, Slot(i) PROVE SnapshotAt'
  <2>1. /\ UNCHANGED <<new, dStatus, dpc, dcount, firstTime>> /\ tpc' \in {"slots", "wait"}
    BY <1>7 DEF Slot, After
  <2>2. \A j \in Slots : old'[j] = old[j] \/ old'[j] = new[j] \/ new[j] = "none"
    BY <1>7 DEF Slot, WaitToStop, TypeOK, StateTypes
  <2> QED
    BY <1>2, <1>3, <2>1, <2>2 DEF AtTail
<1>8. ASSUME NEW i \in Slots, TailTest(i) PROVE SnapshotAt'
  <2>1. /\ UNCHANGED <<old, new, dStatus, dpc, dcount, firstTime>>
        /\ i \in todo /\ (\A j \in todo : i <= j)
        /\ \/ tpc' = "tail" /\ todo' = todo /\ Working(i)
           \/ tpc' \in {"tails", "view"}
    BY <1>8 DEF TailTest, After
  <2>2. \A j \in Slots : AtTail(j)' => Working(j)
    BY <2>1 DEF AtTail, Slots, TypeOK, StateTypes
  <2> QED
    BY <1>2, <1>3, <2>1, <2>2
<1>9. ASSUME NEW i \in Slots, AddNewTail(i) PROVE SnapshotAt'
  <2>1. /\ UNCHANGED <<dStatus, dpc, dcount, firstTime>>
        /\ AtTail(i) /\ tpc' \in {"tails", "view"}
    BY <1>9 DEF AddNewTail, After, AtTail
  <2>2. \A j \in Slots : /\ j # i => old'[j] = old[j] /\ new'[j] = new[j]
                         /\ old'[j] = old[j] \/ old'[j] = new[j]
                         /\ new'[j] = new[j] \/ old'[j] = new[j]
    BY <1>9 DEF AddNewTail, TypeOK, StateTypes
  <2> QED
    BY <1>2, <1>3, <2>1, <2>2 DEF AtTail
<1>10. ASSUME NEW i \in Slots, View(i) PROVE SnapshotAt'
  <2>1. UNCHANGED <<dStatus, dpc, dcount, firstTime, old>> /\ tpc' \in {"view", "check"}
    BY <1>10 DEF View, After
  <2>2. \A j \in Slots : new'[j] = new[j] \/ new'[j] = "none"
    BY <1>10 DEF View, TypeOK, StateTypes
  <2> QED
    BY <1>2, <1>3, <2>1, <2>2 DEF AtTail
<1> QED
  BY <1>4, <1>5, <1>6, <1>7, <1>8, <1>9, <1>10 DEF Tracker

LEMMA SnapshotDetectorStep ==
  ASSUME TypeOK, RunAt, TimelyInv, Detector \/ Prepare PROVE SnapshotAt'
<1> USE DEF SnapshotAt
<1>1. SnapshotAt /\ DetectorAt
  BY DEF TimelyInv
<1>2. CASE Prepare \/ Analysis \/ AnalysisFirst \/ Delivered
  BY <1>1, <1>2 DEF Prepare, Analysis, AnalysisFirst, Delivered, RunBegins, DRule, DetectorAt
<1>3. CASE Predetect
  <2>1. /\ UNCHANGED <<old, new, tpc, todo, dStatus>> /\ dpc' = "DETECT"
        /\ dStatus = "PREDETECT"
    BY <1>3 DEF Predetect, DRule
  <2>2. ~firstTime' => ~firstTime /\ dcount' = 1
    <3>1. firstTime' = (firstTime \/ ~anyFace)
      BY <1>3 DEF Predetect
    <3>2. dcount' = IF anyFace THEN 1 ELSE DetectCount
      BY <1>3 DEF Predetect
    <3> QED
      BY <3>1, <3>2
  <2> QED
    BY <1>1, <2>1, <2>2 DEF AtTail, WaitToActive, Working
<1>4. CASE Detect
  BY <1>1, <1>4 DEF Detect, RunBegins
<1>5. CASE DetectEnd
  <2>1. dStatus = "DETECT" /\ dStatus' = "DETECT" /\ dpc = "calls" /\ firstTime' = firstTime
    BY <1>1, <1>5 DEF DetectEnd, DetectorAt
  <2>2. ~firstTime' => dpc' = "ANALYSIS"
    BY <1>1, <1>5, <2>1 DEF DetectEnd, DRule
  <2> QED
    BY <2>1, <2>2
<1>6. CASE NextStatus
  <2>1. /\ UNCHANGED <<old, new, tpc, todo, dcount, firstTime>> /\ dpc' = "idle"
        /\ dStatus' = dpc /\ dpc \in DStatus
    BY <1>6 DEF NextStatus
  <2>2. dpc # "PREDETECT" \/ firstTime
    BY <1>1, <2>1 DEF DetectorAt, DStatus
  <2>3. dpc = "DETECT" => dStatus = "PREDETECT"
    BY <1>1 DEF DetectorAt
  <2> QED
    BY <1>1, <2>1, <2>2, <2>3 DEF AtTail, WaitToActive, Working
<1>7. ASSUME NEW i \in Slots, Call(i) PROVE SnapshotAt'
  <2>1. UNCHANGED <<dStatus, dpc, dcount, firstTime>> /\ dpc \in {"calls", "deliver"}
    BY <1>7 DEF Call
  <2>2. dStatus # "PREDETECT"
    BY <1>1, <2>1 DEF DetectorAt
  <2> QED
    BY <1>1, <2>1, <2>2
<1> QED
  BY <1>2, <1>3, <1>4, <1>5, <1>6, <1>7 DEF Detector

\* A visit leaves a working slot with its result or initialised, and in a loop that may end
\* with a notice nobody but the tracker touches it.
LEMMA VisitedStep ==
  ASSUME TypeOK, Timely', TimelyInv, Next PROVE Visited'
<1> USE DEF Visited
<1>1. Visited /\ DetectorAt /\ Quiet
  BY DEF TimelyInv
<1>2. CASE Pretrack \/ PretrackEnd \/ WaitPassed \/ WaitedForDetector \/ CountLoop
            \/ NoticeSimilar \/ Notice
  BY <1>2 DEF Pretrack, PretrackEnd, WaitPassed, WaitedForDetector, CountLoop, NoticeSimilar,
              Notice
<1>3. CASE Track
  BY <1>3 DEF Track
<1>4. CASE TooSlow
  BY <1>1, <1>4 DEF TooSlow, Blocks, Working
<1>5. ASSUME NEW i \in Slots, Slot(i) PROVE Visited'
  <2>1. /\ tpc = "slots" /\ i \in todo /\ count' = count
        /\ \/ tpc' = "slots" /\ todo' = todo \ {i}
           \/ tpc' = "wait" /\ todo = {i}
    BY <1>5 DEF Slot, After
  <2>2. ~Blocks(i)'
    BY <1>5 DEF Slot, Blocks, Working, WaitToStop, WaitToActive, Dormant, TypeOK, StateTypes
  <2>3. \A j \in Slots : j # i /\ Blocks(j)' => Blocks(j)
    BY <1>5 DEF Slot, Blocks, Working, TypeOK, StateTypes
  <2> QED
    BY <1>1, <2>1, <2>2, <2>3
<1>6. ASSUME NEW i \in Slots, TailTest(i) \/ AddNewTail(i) \/ View(i) PROVE Visited'
  <2>1. tpc' \notin {"slots", "wait"}
    BY <1>6 DEF TailTest, AddNewTail, View, After, AtTail
  <2> QED
    BY <2>1
<1>7. ASSUME dStatus # "DORMANT", UNCHANGED <<tpc, count>> PROVE Visited'
  BY <1>1, <1>7 DEF Quiet, InLoop
<1>8. CASE Prepare \/ Predetect \/ Detect \/ DetectEnd \/ AnalysisFirst \/ Delivered
            \/ Analysis \/ NextStatus
  <2>1. dStatus # "DORMANT"
    BY <1>1, <1>8 DEF DetectorAt, Prepare, Predetect, Detect, DetectEnd, AnalysisFirst,
                      Delivered, Analysis, NextStatus, DStatus
  <2>2. UNCHANGED <<tpc, count>>
    BY <1>8 DEF Prepare, Predetect, Detect, DetectEnd, AnalysisFirst, Delivered,
                Analysis, NextStatus
  <2> QED
    BY <1>7, <2>1, <2>2
<1>9. ASSUME NEW i \in Slots, Call(i) PROVE Visited'
  <2>1. dStatus # "DORMANT" /\ UNCHANGED <<tpc, count>>
    BY <1>1, <1>9 DEF Call, DetectorAt
  <2> QED
    BY <1>7, <2>1
<1> QED
  BY <1>2, <1>3, <1>4, <1>5, <1>6, <1>8, <1>9 DEF Next, Tracker, Detector

\* A detection that has been late once stays recorded.
LEMMA LateStays == [Next]_vars /\ late => late'
<1> SUFFICES ASSUME [Next]_vars, late PROVE late'
  OBVIOUS
<1>1. CASE Pretrack \/ PretrackEnd \/ Track \/ WaitPassed \/ TooSlow \/ CountLoop
  BY <1>1 DEF Pretrack, PretrackEnd, Track, WaitPassed, TooSlow, CountLoop
<1>2. CASE NoticeSimilar \/ Notice \/ WaitedForDetector
  BY <1>2 DEF NoticeSimilar, Notice, WaitedForDetector
<1>3. ASSUME NEW i \in Slots, Slot(i) \/ TailTest(i) \/ AddNewTail(i) \/ View(i) \/ Call(i)
      PROVE  late'
  BY <1>3 DEF Slot, TailTest, AddNewTail, View, Call
<1>4. CASE Prepare \/ Predetect \/ Detect \/ DetectEnd
  BY <1>4 DEF Prepare, Predetect, Detect, DetectEnd
<1>5. CASE AnalysisFirst \/ Delivered \/ Analysis \/ NextStatus
  BY <1>5 DEF AnalysisFirst, Delivered, Analysis, NextStatus
<1>6. CASE UNCHANGED vars
  BY <1>6 DEF vars
<1> QED
  BY <1>1, <1>2, <1>3, <1>4, <1>5, <1>6 DEF Next, Tracker, Detector

LEMMA TimelyStep ==
  TypeOK /\ RunAt /\ Tagged /\ (Timely => TimelyInv) /\ [Next]_vars
  => (Timely => TimelyInv)'
<1> SUFFICES ASSUME TypeOK, RunAt, Tagged, Timely => TimelyInv, [Next]_vars, Timely'
             PROVE  TimelyInv'
  OBVIOUS
<1>0. TimelyInv
  BY LateStays DEF Timely
<1>1. CASE Next
  <2>1. FirstAlone' /\ SnapshotAt'
    BY <1>0, <1>1, FirstTrackerStep, FirstDetectorStep, SnapshotTrackerStep,
       SnapshotDetectorStep DEF Next
  <2>2. DetectorAt' /\ CallsAt' /\ PretrackAt' /\ Quiet' /\ Visited'
    BY <1>0, <1>1, DetectorAtStep, CallsAtStep, PretrackAtStep, QuietStep, VisitedStep
  <2> QED
    BY <2>1, <2>2 DEF TimelyInv
<1>2. CASE UNCHANGED vars
  <2>1. DetectorAt' /\ CallsAt' /\ PretrackAt'
    BY <1>0, <1>2 DEF vars, TimelyInv, DetectorAt, CallsAt, CallsMade, PretrackAt
  <2>2. Quiet' /\ FirstAlone'
    BY <1>0, <1>2 DEF vars, TimelyInv, Quiet, InLoop, AtTail, Working, FirstAlone,
                      FirstDetection
  <2>3. SnapshotAt' /\ Visited'
    BY <1>0, <1>2 DEF vars, TimelyInv, SnapshotAt, AtTail, Working, WaitToActive, Visited,
                      Blocks
  <2> QED
    BY <2>1, <2>2, <2>3 DEF TimelyInv
<1> QED
  BY <1>1, <1>2

\* The six promises a timely detection makes hold in every state of TimelyInv.
LEMMA TimelyPromises ==
  ASSUME TimelyInv
  PROVE  /\ TimelyNeverError /\ TimelyDelivery /\ TimelyPretrack /\ TimelyPut
         /\ TimelySnapshot /\ TimelyWait
<1>1. dStatus # "ERROR"
  BY DEF TimelyInv, DetectorAt
<1>2. dpc = "deliver" => tStatus # "PRETRACK"
  BY DEF TimelyInv, DetectorAt, PretrackAt
<1>3. tpc = "pretrack" => CallsMade
  BY DEF TimelyInv, DetectorAt, PretrackAt, CallsAt
<1>4. \A i \in Slots : ops[i] = "put" => ~Working(i)
  BY DEF TimelyInv, FirstAlone, Working
<1>5. dStatus = "DETECT" /\ RunBegins /\ ~firstTime => \A i \in Slots : ~WaitToActive(i)
  BY DEF TimelyInv, SnapshotAt, RunBegins
<1>6. tpc = "wait" /\ count > KeepCountThr => \A i \in Slots : ~Blocks(i)
  BY DEF TimelyInv, Visited
<1> QED
  BY <1>1, <1>2, <1>3, <1>4, <1>5, <1>6
     DEF TimelyNeverError, TimelyDelivery, TimelyPretrack, TimelyPut, TimelySnapshot, TimelyWait

LEMMA TimelyDetections ==
  Spec => [](TimelyNeverError /\ TimelyDelivery /\ TimelyPretrack /\ TimelyPut
             /\ TimelySnapshot /\ TimelyWait)
<1>1. (Timely => TimelyInv)
      => /\ TimelyNeverError /\ TimelyDelivery /\ TimelyPretrack /\ TimelyPut
         /\ TimelySnapshot /\ TimelyWait
  BY TimelyPromises
     DEF TimelyNeverError, TimelyDelivery, TimelyPretrack, TimelyPut, TimelySnapshot, TimelyWait
<1>2. Init => (Timely => TimelyInv)
  BY TimelyInit
<1> QED
  BY <1>1, <1>2, TypeInit, GeneralInit, TypeStep, GeneralStep, TimelyStep, PTL DEF Spec

\* TimelyNeverError: a detector whose detections were all over when the tracker began its
\* (keep_count_threshold + 2)-th loop is never put in ERROR.
THEOREM DetectorSurvives == Spec => []TimelyNeverError
BY TimelyDetections, PTL

\* TimelyDelivery: getBridgeFromDetector then always finds the tracker in PREPARE or
\* TRACK (or hung), so that its workers are initialised from the new faces.
THEOREM DeliveryIsNoticed == Spec => []TimelyDelivery
BY TimelyDetections, PTL

\* TimelyPretrack: no call of the detector changes the bridge under pretrack.
THEOREM PretrackIsAlone == Spec => []TimelyPretrack
BY TimelyDetections, PTL

\* TimelyHandOver: both.
THEOREM HandOverIsOrderly == Spec => []TimelyHandOver
BY DeliveryIsNoticed, PretrackIsAlone, PTL DEF TimelyHandOver

\* TimelyPut: getBridgeFromDetector then never overwrites a slot that tracks a face.
THEOREM NoFaceReplaced == Spec => []TimelyPut
BY TimelyDetections, PTL

\* TimelySnapshot: no slot still waits for its activation when detect compares the faces of
\* a frame with the tracked ones.
THEOREM NoFaceTakenTwice == Spec => []TimelySnapshot
BY TimelyDetections, PTL

\* TimelyWait: the wait of track() for its slots then never keeps a notice from being given.
THEOREM NoticeIsReached == Spec => []TimelyWait
BY TimelyDetections, PTL

-----------------------------------------------------------------------------
(* Corrections                                                              *)

\* What a step of the tracker that leaves a corrected slot working is.
LEMMA TrackerCorrects ==
  ASSUME TypeOK, Tracker, NEW i \in Slots, (i \in owed /\ Working(i))',
         ~(i \in owed /\ Working(i))
  PROVE  AtTail(i)
<1> USE DEF TypeOK, StateTypes, Working
<1>1. CASE Pretrack \/ PretrackEnd \/ Track \/ WaitPassed \/ TooSlow \/ CountLoop
            \/ NoticeSimilar \/ Notice \/ WaitedForDetector
  BY <1>1 DEF Pretrack, PretrackEnd, Track, WaitPassed, TooSlow, CountLoop, NoticeSimilar,
              Notice, WaitedForDetector
<1>2. ASSUME NEW j \in Slots, Slot(j) PROVE AtTail(i)
  BY <1>2 DEF Slot, WaitToStop, WaitToActive
<1>3. ASSUME NEW j \in Slots, TailTest(j) PROVE AtTail(i)
  BY <1>3 DEF TailTest
<1>4. ASSUME NEW j \in Slots, AddNewTail(j) PROVE AtTail(i)
  <2>1. CASE i = j
    BY <1>4, <2>1 DEF AddNewTail
  <2>2. CASE i # j
    BY <1>4, <2>2 DEF AddNewTail
  <2> QED
    BY <2>1, <2>2
<1>5. ASSUME NEW j \in Slots, View(j) PROVE AtTail(i)
  BY <1>5 DEF View
<1> QED
  BY <1>1, <1>2, <1>3, <1>4, <1>5 DEF Tracker

\* None of the detector's does.
LEMMA DetectorCorrects ==
  ASSUME TypeOK, Detector \/ Prepare, NEW i \in Slots, (i \in owed /\ Working(i))'
  PROVE  i \in owed /\ Working(i)
<1> USE DEF TypeOK, StateTypes, Working
<1>1. CASE Prepare \/ Predetect \/ Detect \/ DetectEnd \/ AnalysisFirst \/ Delivered
            \/ Analysis \/ NextStatus
  BY <1>1 DEF Prepare, Predetect, Detect, DetectEnd, AnalysisFirst, Delivered, Analysis,
              NextStatus
<1>2. ASSUME NEW j \in Slots, Call(j) PROVE i \in owed /\ Working(i)
  <2>1. CASE TryToActiveObject(j) /\ UNCHANGED <<old, owed>>
    BY <2>1 DEF TryToActiveObject, Dormant
  <2>2. CASE TryToDormantObject(j) /\ UNCHANGED <<old, owed>>
    BY <2>2 DEF TryToDormantObject
  <2>3. CASE TryToFixObject(j)
    BY <2>3 DEF TryToFixObject
  <2>4. CASE UNCHANGED <<bridge, owed>>
    BY <2>4
  <2>5. CASE PutObject(j)
    BY <2>5 DEF PutObject
  <2> QED
    BY <1>2, <2>1, <2>2, <2>3, <2>4, <2>5 DEF Call
<1> QED
  BY <1>1, <1>2 DEF Detector

\* LostOnlyAtTail: whatever the interleaving, a slot the detector has corrected is tracked
\* on without its worker initialised only if the correction fell between the test of its
\* tail and the assignment.
THEOREM CorrectionsAreInitialised == Spec => LostOnlyAtTail
<1>1. TypeOK /\ [Next]_vars
      => [\A i \in Slots :
            (i \in owed /\ Working(i))' /\ ~(i \in owed /\ Working(i)) => AtTail(i)]_vars
  <2> SUFFICES ASSUME TypeOK, Next, NEW i \in Slots, (i \in owed /\ Working(i))',
                      ~(i \in owed /\ Working(i))
               PROVE  AtTail(i)
    BY DEF vars
  <2> QED
    BY TrackerCorrects, DetectorCorrects DEF Next
<1> QED
  BY <1>1, TypeCorrect, PTL DEF Spec, LostOnlyAtTail

=============================================================================
