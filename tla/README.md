# TOFaceTracker: a TLA+ model of the tracker library

TOFaceTracker follows several faces in a video stream in real time.  The application calls a
small C interface (`include/LibTOFace.h`); three worker threads do the work behind it: a frame
manager samples pictures into a pool, a slow face detector (cascade classifier) finds faces in
them now and then, and a fast tracker (one KCF tracker per face slot) follows those faces from
frame to frame.  This directory holds TLA+ modules translated from that code (`src/*.cpp`, `*.h`
below the repository root), the TLC configurations that check them, and theorems checked by TLAPS.

Contents: [inventory](#inventory) - [modules](#modules) - [runs](#runs) - [proofs](#proofs) -
[what the checks found](#what-the-checks-found) - [not modelled](#not-modelled)

## Inventory

| part | source | state it keeps | operations |
|---|---|---|---|
| worker thread life cycle | `TOThreadBase.cpp/.h` | static `m_objs`, `m_threadExitTag`, `m_threadStopTag`, `m_beginErrorTag`; per object `m_threadLiveStatus`, `m_dormantTag`, `isThreadExist` | `startAllThread`, `stopAllThread`, `threadMain`, constructor, destructor |
| status machine of a worker | `TOStatusThreadBase` in `TOThreadBase.cpp` | `m_current`, `isInRun`, the table of statuses | `run`, `nextStatus`, `changeStatus`, `rule` |
| sampling queue | `TOFrameManager.cpp` | `m_FrameQueueSampling` (its locks are commented out) | `sampling(pBGRA, ..)` by the application, `sampling()` by the manager |
| frame pool | `TOFrameManager.cpp/.h`, `TO_QUEUE_FRAME` in `TOFaceType.h` | `m_FrameQueueWorking`, a reference count per frame, one mutex | `sampling`/`remove` (manager), `extract...FrameInUse`, `relieveFrameInUse` (consumers) |
| face detector | `TOFaceDetector.cpp/.h` | status, `m_resOnceST1`, `m_firstTime`, the frames left to detect, a copy of the slots | `prepare`, `predetect`, `detect`, `analysis`, `getBridgeFromTracker` |
| face matching | `analysisTAndD` | the table of overlaps | verdict per slot, calls `tryTo...Object`, `keepObjectWell` |
| face chains | `makeChains`, `get2NodeTails` | links between the faces of successive frames | the first positions of each face |
| tracker pool | `TOTrackerTwistedPool.cpp/.h` | status, `m_bridge` (the slots), `m_tmpRectRess`, `m_tmpRectPreRess`, `m_tmpLoopFrameCountSum`, `m_OneDetectLoopTag`, `m_bridgeDormantCount` | `pretrack`, `track`, `getBridgeFromDetector`, `tryTo...Object` |
| face slot | `FRAME_STRATEGY_FILTRATION_UNIT` in `TOFaceType.h` | two rectangles with time stamps; which of them is `Rect0` encodes dormant, waiting to activate, working, waiting to stop | `addNewTail`, `getRectWithTimeStamp`, the `is...` predicates |
| result hand-over | `checkConcurrence` | `m_checkTimeStampLast`, `m_resFaceLast`, `m_resLandMarkLast` | called by the application |
| library interface | `TOInterFace.cpp` | `isInstantiation`, three component pointers | `Start...`, `Stop`, `Sampling`, `Update`, `Check` |

**How they interact.**  The application's thread starts and stops the three threads through static
flags that the workers poll.  It hands pictures to the sampling queue, from which the manager
thread fills the pool; tracker, detector and application take frames out of the pool, use them
outside the mutex and relieve them.  Every `keep_count_threshold` loops the tracker calls
`TOFaceDetector::getBridgeFromTracker` (in the tracker's thread) to wake the detector; the detector
calls `getBridgeFromDetector` or `tryTo...Object` of the tracker (in the detector's thread), which
change the tracker's slots and status while the tracker may be in the middle of them.

**What is hard.**  Nothing but the pool has a lock: flags, statuses and slots are plain variables
that several threads read and write.  Waits are polling loops, some of them with a mutex held,
without a time-out that leaves them.  Exceptions of OpenCV leave a handler anywhere and are
swallowed by `threadMain`.  One thread's slow run changes what the other's assumptions are worth.

**What makes the parts correct.**

- life cycle: nothing runs before every component's hooks have, nothing runs after the stop barrier,
  no thread outlives its object, a failed start leaves nothing behind, start and stop return, the waits in
  the destructors included;
- pool: reference counts are exact, a frame in use is not deleted, extraction gives a current frame,
  the pool keeps its depth, nobody waits for ever;
- sampling queue: no frame is deleted twice or used after deletion, frames reach the pool in order, none is lost;
- detector and tracker: each detection ends and another follows, the detector does not end up in
  `ERROR`, faces reach a tracker that notices them, tracked faces are not overwritten, a corrected slot
  is not tracked on from its stale result, `track()` ends;
- face matching: no face is placed twice, a slot is corrected to its best face, a face is given up when it
  has been missed too often, and not before;
- face chains: the walk stays inside its array and ends, and finds each chain's tail once;
- result hand-over: the landmarks belong to the faces returned with them, the faces to the frame asked about.

`PROJECT.json` lists these dangers line by line under "hazards", with the property for each.

## Modules

| module | models | is used by |
|---|---|---|
| `ThreadBase` | life cycle of the three threads | |
| `LibraryLife` | abstract: what start and stop promise their caller | `ThreadBase` implements it |
| `FrameStore` | abstract: what the pool promises its users | `FramePool` implements it |
| `FramePool` | the pool of frames, its counts and its mutex | |
| `SamplingQueue` | the frames between the application and the manager | |
| `FaceVerdicts` | the interface of the comparison of faces | `DetectTrack`, `FaceMatch` extend it |
| `DetectTrack` | the hand-shake of detector and tracker | |
| `FaceMatch` | the comparison of a frame's faces with the tracked ones | |
| `FaceChains` | the faces of a first detection | |
| `FaceResults` | what the application gets | |
| `Recursion` | lemmas: that recursions over numbers define functions | `FaceMatchProofs` |

Each `X` with runs has `MCX` and a `.cfg`; the theorems about it are in `XProofs`.  Modules end with the
inductive invariant `IInv` where one is needed.  A definition with `Mutant` above it is a variant of an
action with a plausible bug, kept to show that a property can fail.

### `LibraryLife`, `ThreadBase` - the life cycle

The constant `N` is the number of components; `FrameWaiters` and `StatusWaiters` are those whose destructor
waits (`TOFrameManager`, `TOFaceDetector`).  The calling thread is a program counter `api` with a
loop index `k` (`construct`, `start`, `spawn`, `hooks`, `up`, `quiesce`, `before`, `stop`, `unwind`,
`delete`, `settle`, `base`, `join`); each worker has a `pc` in `threadMain` (`await` is the begin loop,
`loop` the test of `m_threadLiveStatus`, `check`/`parked` the command loop, `run`).  One action per
iteration of a loop of the caller and one per decision of a worker, so that each step reads or writes the
shared flags once.  `SpawnFails` may strike at any component.

`run()` is opaque: it sets `isInRun` (`Enter`) and ends by lowering it (`Return`), or an exception leaves it
(`Throw`) with `isInRun` set and perhaps a frame of the pool still in use (`leaked`).  Both matter only when
the component is deleted.  `DestroyDerived` is the derived destructor: `~TOFrameManager` waits until no frame
is in use (`TOFrameManager.cpp:56-60`), and `~TOFaceDetector` changes the status to `DORMANT` and, unless
it is that already, waits while `isInRun` is set (`Settled`, `TOThreadBase.cpp:398-404`).  `Destroy` is
`~TOThreadBase`.  The history variable `thrown` notes that an exception has occurred since the start.

Two simplifications: the scan of `stopAllThread` for threads that have not reported is one step (entries
only fall during it), and `Enter` is the last test of `m_threadExitTag` together with the call of `run()`,
between which nothing the worker does can be seen; a worker at either place has not reported, and the
barrier waits for it.  `dormantThread()` has no caller in
the repository and is modelled as a call the owner may make while the library runs.  A stop returns
to the state in which start can be called again.

`LibraryLife` is starting and stopping as the caller sees it, without flags, loop indices or an order of the
components: a start creates all threads before any works, or fails and ends those it created; nobody begins
to work once the library is closing; threads end only behind the barrier; none is left when it is off.
`ThreadBase` implements it with `phase <- LifePhase` (a failed start counts as off), `alive <- Alive`,
`busy <- Running` (`IsLibraryLife`).

### `FrameStore`, `FramePool` - the pool of frames

Frames are buffer addresses, handed out again after deletion.  `working` is `m_FrameQueueWorking`,
`ref` the counts, `mgr` the manager (`pushing`, `wait1`, `wait2` hold the mutex across steps),
`cpc`/`index`/`frame` each consumer's call.  `ReadSize` is the unlocked read of `size()`: during an
append it may see the old size, the new one, or - when the append moves a full buffer - a difference
of pointers into two buffers.  `Throw` is an exception that leaves the consumer's handler between
extraction and relief.  `HoldLimit` says how many frames the manager can append while a consumer is
busy with one; `MaxThrows` bounds the exceptions.  The sampling queue appears only as its result:
a new frame (`PushBegin`, `PushEnd`) or none in time (`NoFrame`).  `age` and `leaked` are ghosts.

`FrameStore` is what a user of the pool may rely on, without mutex, counts or positions: a sequence of
frames and the frame each user keeps.  Frames come in when nobody has them, leave oldest first, and not
while somebody keeps them; there is at most one more than the depth.  `FramePool` implements it with
`stored <- working`, `kept <- frame` (`IsFrameStore`).

### `SamplingQueue` - from the application to the manager

The application appends to a `std::vector` while the manager erases from its front and clears it; the
mutex calls around both are commented out (`TOFrameManager.cpp:79, 81, 129, 152`).  The vector is its storage
(`room` cells, `cell`) and the pointer `finish` to the end of its content.  `push_back` and `erase` read that
pointer in one step (`PushRead`, `EraseMove`) and store it in a later one (`PushStore`, `EraseStore`).  Nothing
reserves room: an append that finds none moves the content to a storage of twice the size and frees the old
one (`PushMove`), and then stores the end (`PushEnd`); the first, second, third and fifth frame in the queue
do.  The manager takes the address of the first element in one step (`TakeHead`) and uses it in the next
(`DeleteHead`, `HandOver`).  The history variable `race` notes an append that overlaps an erase or a clear, a
move of the storage while the manager stands in the old one, and a look of the manager at the vector in the
middle of a move.  All of these are undefined behaviour; the model ends there (`Next` requires `~race`) and
the properties say what holds up to it.  `inWindow` notes the frames appended
between the manager's last `size() > 1` and its `clear()`.

### `FaceVerdicts`, `DetectTrack` - the hand-shake of detector and tracker

Two threads, each a status (`tStatus`, `dStatus`) and a position in the current run (`tpc`, `dpc`),
and the slots they share (`old`, `new`).  A rectangle is `"none"` (`Rect0`), `"face"` or `"mark"`,
the `Rect(-1,0,0,0)` that `track()` notes for a dormant slot: this is all the control flow asks of it.
`track()` is split where the detector's calls can interleave: each slot of the parallel loop
(`Slot`), the wait loop (`WaitPassed`, `TooSlow`), the test and the assignment of each new tail
(`TailTest`, `AddNewTail`), each slot of the view check (`View`), the notice.  `detect()` decides on
its calls in one step (`Verdicts`: all that `Allowed` of `FaceVerdicts` permits) and makes them one at
a time (`Call`, in the order `Turn`); `nextStatus` reads in one step and assigns in a later one.
Within `Slot` and within one call the test and its assignments are one step.  Whether a miss passes
`dormant_count_threshold`, whether a face has left the view and whether two pictures are similar are
free choices.

The threads run at any relative speed.  The history variable `late` notes that a loop of `track()` which
may end with a notice began while a detection was under way; the invariants named `Timely...` hold as
long as it has not, i.e. as long as detections are shorter than the interval of the notices.  The history
variable `owed` holds the slots corrected whose worker has not been initialised since; `LostOnlyAtTail` says in
which one step such a slot may get back to work.  `face_detect_init_threshold` may be 0, which the code does not
refuse: a detection then ends with the counter at -1.  (A negative one would make `predetect` reserve a
negative size, an exception.)

### `FaceMatch` - the comparison of faces

A slot is one of `dormant`, `active` (waiting to be activated), `working`, `stop`; the comparison takes the
table of overlaps as any function from tracked slots and faces to `Overlaps`, and derives from it, as the
code does, the best face of each slot (`BestFace`, the running maximum), which faces are new (`IsNew`:
`Near` no tracked face by any of the three thresholds, whatever their order),
where they go (`Placement`, the double loop: each new face takes the first slot still empty), and the verdict of each slot (`Judge`).  The calls are made
one at a time between steps of the tracker, with the counters of missed faces as in the code: each miss
raises all of them.  Counters are capped at `DormantThr + 1`, beyond which nothing tells them apart; `own`
is the history of a slot's own misses.  `VerdictsAllowed` is the link to `DetectTrack`: every verdict the
comparison reaches is one of those `DetectTrack` takes it to be free to choose.

### `FaceChains` - the faces of a first detection

`makeChains` and `get2NodeTails`, one action per turn of a loop.  A node is a face of a frame; whether two
faces overlap enough is a free choice made once per pair (`TestPair`), so that a run covers every graph of
overlaps.  `IsTail` and `Heads` say what the result is without a walk: every face with one right hand and no
left hand begins a chain, which follows first hands to a face without any; its tail is that face and the
last face before it with exactly one hand.  That is what the code gives; the comment at
`TOFaceDetector.cpp:180` promises the chain's last two nodes, which is `LastTwoNodes`, and fails.

### `FaceResults` - what the application gets

`checkConcurrence` asks `isWorking()` of each slot when it reads the faces, when it computes landmarks, while
it waits and when it copies them; each is a step of its own, between which other threads start and stop
slots (`Change`).  Landmarks are identified with the rectangle they were computed for; `Junk` are those
nobody wrote.  `ShapeFails` is an exception inside `parallel_for` (caught), `ShapeThrows` one in the plain
loop, which leaves the call half done, `OutOfTime` the end of the wait after its 20
rounds of a millisecond.  `unsteady` notes the slots
that changed after they had been read, or failed, during a call; `doubtful` the same of the call that
filled the cache of landmarks.  What such a slot gets is not constrained: `LandmarksBelong` is about the others,
and `FacesOfTheFrame` about calls that were not left half done (`thrown`).

## Runs

| run | configuration | question |
|---|---|---|
| `thread_base` | 3 components, any number of starts and stops | are start and stop those of `LibraryLife`: does anything run before the hooks or after the barrier, outlive its object, or fail to end? |
| `thread_base_stop` | the same | does Stop return if every handler does and none throws? (no) |
| `frame_pool` | depth 2, 4 buffers, 2 consumers, 3 frames per use, 1 exception | is the pool a `FrameStore`, and what makes the manager wait? |
| `frame_pool_throw` | 1 consumer, 1 exception | does the wait of `remove()` end after an exception? (no) |
| `sampling_queue` | 5 frames, a storage that grows from none | what becomes of frames appended while the manager works? |
| `detect_track` | 2 slots, `KeepCountThr = 1`, 2 frames in a first detection, 2 faces | do detections end and recur, is a timely hand-shake orderly, and when is a correction lost? |
| `detect_track_hang` | the same | does the wait of `track()` end? (no) |
| `face_match` | 2 slots, 2 faces, threshold 2, overlaps 0..4 | are verdicts right, and is a missed face given up, whatever the tracker does meanwhile? |
| `face_match_dormant` | the same | is a face given up only after its own misses? (no) |
| `face_chains` | up to 4 frames of up to 2 faces | are the tails the chains' tails? |
| `face_chains_fork` | the same | is a tail made of the last two nodes of its chain? (not behind a fork) |
| `face_results` | 2 slots, 2 rectangles, 3 frames | do landmarks, faces and frame belong together? |

**Bounds.**  Three components are those the library constructs.  A pool of depth 2 is the smallest
`setPoolDepth` accepts; 4 buffers are one more than the pool can hold, so that an address may be reused
at once or later; two consumers let one be slow or throw while the other is in time; three
appended frames per use is more than the pool's depth, so that a held frame becomes the oldest and
the manager waits for it.  Five sampled frames let the manager skip two, hand over a third and leave
one in the window, and let the storage move at every size up to eight.  Two slots let one be tracked while the other changes; two faces fill them;
`KeepCountThr = 1` is the shortest interval of notices that still differs from "every loop".  Overlaps 0..4
lie on both sides of each of the three thresholds (0, 1, 3), with two values (2, 3) that call for a
correction so that a best one exists.  Four frames leave room for a head, a fork, and two more nodes behind
it.  Three frames let a result be reused, replaced and reused again.

**Fairness.**  The threads are scheduled (`pthread`s with `usleep` in every loop): weak fairness of the
caller once inside the library and of each worker outside `run()` (`ThreadBase`), of
the manager and of a consumer that has begun an extraction (`FramePool`), of each of the two threads,
which find new frames again and again (`DetectTrack`), of the single thread of `FaceChains`.  No fairness
makes the application start, stop or sample, a consumer begin, an exception occur or the detector leave
`PREPARE`.  The other modules state safety only.
That `run()` returns is no assumption of `ThreadBase`: findings 2 and 3 are handlers that do not.  It is the
premise `RunsReturn` of the two properties that need it.

**Deadlock** is checked in `face_match`, `face_match_dormant` and `face_results`.  It is off in `ThreadBase`,
where `api = "quiesce"`, and a destructor after an exception, may spin for ever without changing the state; in `FramePool`, where a slow consumer
does deadlock with the manager; in `DetectTrack`, whose wait loop may hang; in `SamplingQueue`, which stops
after `MaxFrames` or at a race; in `FaceChains`, which ends.

## Proofs

The theorems listed are of the form `Spec => []P`, `Spec => [][A]_vars` or
`Spec => Store!Spec`, for every value of
the constants that satisfies the module's named assumption: `NAssumption` (at least one component, those that wait among them),
`PoolAssumption` (a depth of at least 2, finitely many consumers), `SamplingAssumption` (at least one frame),
`DetectTrackAssumption` (at least one slot, any frame threshold), `FaceMatchAssumption` and
`FaceChainsAssumption` (sizes and thresholds are natural numbers), `FaceResultsAssumption` (no rectangle of a
face is `Rect0` or `Junk`).  Each proof module has lemmas `Init => IInv` and `IInv /\ [Next]_vars => IInv'`,
with one lemma per action or group of actions, and derives the theorems from them.  TLC has checked each
`IInv` as an invariant before it was proved.

| module | theorem | property |
|---|---|---|
| `ThreadBaseProofs` | `TypeCorrect`, `NoRunBeforeHooks`, `StopBarrier`, `ThreadsDieFirst`, `StartStopIsLibraryLife`, `ParkedStays`, `LibraryIsClean` | `TypeOK`, `HooksBeforeRun`, `Quiescent`, `NoThreadOutlivesObject`, `IsLibraryLife`, `ParkedNeverResumes`, `Life!Clean` (no run) |
| `FramePoolProofs` | `TypeCorrect`, `CountsAreExact`, `ExtractIsFresh`, `PoolKeepsDepth`, `OnlyUnfedPoolAborts`, `OnlySlowBlock`, `PoolIsFrameStore` | `TypeOK`, `RefCountExact`, `Fresh`, `PoolBounded`, `AbortsOnlyUnfed`, `WaitsOnlyForSlow`, `IsFrameStore` |
| `SamplingQueueProofs` | `TypeCorrect`, `DeletedOnce`, `LeaksAreOfTheWindow`, `HandedNewest` | `TypeOK`, `NoUseAfterDelete`, `OnlyWindowLeaks`, `HandedInOrder` |
| `DetectTrackProofs` | `TypeCorrect`, `DetectorSurvives`, `HandOverIsOrderly`, `NoFaceReplaced`, `NoFaceTakenTwice`, `NoticeIsReached`, `CorrectionsAreInitialised`, `LoopCountBounded` | `TypeOK`, `TimelyNeverError`, `TimelyHandOver`, `TimelyPut`, `TimelySnapshot`, `TimelyWait`, `LostOnlyAtTail`, `CountBounded` (no run) |
| `FaceMatchProofs` | `TypeCorrect`, `MissedFaceStopped`, `ComparisonAllowed`, `FacesAreGiven`, `CountersCover` | `TypeOK`, `MissedIsStopped`, `VerdictsAllowed`, `FacesGiven`, `CountsCover` (no run) |
| `FaceChainsProofs` | `TypeCorrect`, `WalkIsInside`, `TailsAreOfHeads`, `TailsAreOrdered`, `StepsLeadOn` | `TypeOK`, `WalkStaysInside`, `TailsOfHeads`, `TailsExtrapolate`, `Onward` (the last two no run) |
| `FaceResultsProofs` | `TypeCorrect`, `FrameIsNoted`, `LandmarksAreOfTheFace` | `TypeOK`, `FacesOfTheFrame`, `LandmarksBelong` |

So every safety invariant, action property and refinement that a passing run checks is also a theorem.

**Loops over data.**  What a loop over faces computes cannot be proved by the library's induction theorems,
which take an operator as a parameter.  `Recursion` does without: every set of natural numbers with a member
has a least one (`LeastNumber`, from the well-foundedness of the subsets of a finite set), so a statement about
all numbers is proved by refuting its least counterexample, and so is that a recursion defines a function
(`RecursionExists`).  `FaceMatch` writes the running maximum and the greedy placement as such recursions,
and `BestFaceLoop`, `PlacementLoop` and `PlacementPlaced` prove their loop invariants.

Why the strengthening is needed:

- `ThreadBase`: the properties speak of workers, their cause is where the caller is.  `Phase` says, for
  each place of the caller, which flags are set and where each worker can be; in the stop loop the
  threads below the loop index have ended and exactly those from it on are live.  The refinement uses the
  same invariant: where `LifePhase` is quiet nobody is inside `run()` or about to be, because the flag is up.
- `FramePool`: `RefCountExact` needs `Distinct` (a relief finds the frame by its address), `Fresh` needs
  `SizedFresh` (an index that has been read and not used gets older with every append and better with
  every removal) and `Phase` (removal happens only above the depth, so `wait2` is never reached: the
  second half of `remove()` is dead code in this protocol).  The refinement uses the same invariant: a
  frame removed has count 0 and therefore, counts being exact, no holder.  `WaitsOnlyForSlow` follows too:
  the oldest of `PoolDepth + 1` frames, still held, is by `Fresh` held for `PoolDepth` appends.
- `SamplingQueue`: what holds without a race (`Serial`) needs that the end read by an append or an erase is
  still the end when it is stored (`Ends`), that the queue is in order and everything older than its
  content handed over or deleted (`Ordered`), and that every appended frame is accounted for
  (`Accounted`).  Moving the storage keeps all of it: content and order are copied before the end is stored.
- `DetectTrack`: the detector has been dormant throughout a timely loop that may end with a notice (`Quiet`), so
  that the slots no longer change from outside and none is left waiting for its activation; a first
  detection starts with no working slot and, the tracker creating none by itself, ends so (`FirstAlone`);
  hence it replaces no face, finds the tracker outside `PRETRACK` (`PretrackAt`), the next notice finds it
  dormant, and a later detection compares with slots only the tracker has touched (`SnapshotAt`).  In the loop that leads
  to a notice a slot lacks its result only until its visit (`Visited`), so the wait passes.
- `FaceMatch`: `CountsCover` is inductive with the types, and `MissedIsStopped` follows from it: a slot's own
  misses are at most its counter, which one of the loop's tests has therefore seen above the threshold.
  `VerdictsAllowed` and `FacesGiven` are about the comparison in any typed state: after the first `m` faces the
  slots used are the first of the empty ones and hold that many different new faces (`PlacedSoFar`).
- `FaceChains`: the walk stands where there is a right hand only because hands name faces of the next frame
  (`HandsInside`) and the head it began with has one (`LastBehind`).  That the tails are those of `IsTail` needs
  that the left hands of a face tell whether somebody holds it (`HandsMeet`), that the walk so far is a path
  from the head, with `last` its last node of one hand (`WalkIsPath`), and that the tails found are those of
  the heads scanned, in their order (`HeadsScanned`).
- `FaceResults`: a slot that has not changed since it was read is as it was read (`Steady`); the two caches
  belong together (`Cached`), and the time stamp noted is theirs (`Noted`).

Model-checked only: liveness (`UnwindTerminates`, `StopTerminatesOnceBegun`, `ManagerProceeds`, `DetectionEnds`,
`NoticeRecurs`, `ChainsEnd`), which is beyond the prover.  Of `ChainsEnd` the half that is safety is proved: every
step leads on in a bounded order (`Onward`); what is left is that there always is one.

## What the checks found

Each of the first five is a `violation` run, with its source line in `PROJECT.json` "findings".

1. **Stop may hang** (`thread_base_stop`).  A worker that has not left its begin loop when Stop raises
   the flag again never reports; Stop spins for ever.  If every worker has begun, Stop returns
   (`StopTerminatesOnceBegun`) unless a handler runs for ever (findings 2 and 3) or a destructor waits for what
   an exception has left (below).
2. **A swallowed exception blocks the manager** (`frame_pool_throw`): the reference it leaves is never given
   back, and the manager waits for it with the mutex held.
3. **`track()` may wait for ever** (`detect_track_hang`) for a slot that became working after its visit; not in the loop
   that leads to a timely notice (`TimelyWait`).
4. **A face is given up too early** (`face_match_dormant`): the misses of one face raise every face's counter.
5. **A tail is not always the last two nodes of its chain** (`face_chains_fork`): behind a node that overlaps two
   faces the older rectangle is that of an earlier node, and the extrapolation spans two frames or more.

Seen in the models without a run of their own:

- A consumer that keeps a frame while `PoolDepth` others are appended deadlocks with the manager
  (`TOFrameManager.cpp:162`): the wait holds the mutex that the relief needs.  `WaitsOnlyForSlow` says that
  nothing else but finding 2 does.
- The pool is asked for a frame before it has one: `isWorking()` is true one loop before the first append, and
  the extraction asserts (`TOFrameManager.cpp:222`).  `AbortsOnlyUnfed` says that this is the only assertion
  the pool can fail.
- A detection that outlasts the tracker's interval puts the detector in `ERROR` for good
  (`TOFaceDetector.cpp:122`); otherwise it never gets there (`DetectorSurvives`).
- Faces handed over after `track()` has noted a slot as dormant get the mark `Rect(-1,0,0,0)` as their newest
  position (`TOTrackerTwistedPool.cpp:347`), from which `pretrack` extrapolates.
- A swallowed exception makes Stop hang although every worker parks and is joined: `~TOFaceDetector` waits while
  `isInRun` is set (`TOThreadBase.cpp:398-404`), which nothing lowers any more, and `~TOFrameManager` for a frame
  nobody gives back (`TOFrameManager.cpp:56-60`).  `StopTerminatesOnceBegun` says that nothing else does.
- A correction that falls between the test and the assignments of the slot's new tail
  (`TOTrackerTwistedPool.cpp:345, 347`) is lost: the slot works on with the stale result and its worker is not
  initialised.  `LostOnlyAtTail` says that this is the only such step.
- Two tracked slots may be corrected to one face: only the faces of empty slots are told apart (`FacesGiven`).
- An append that overlaps an erase or the clear of the sampling queue is a data race (`TOFrameManager.cpp:80,
  139, 151`), and so is one that moves the storage while the manager uses its first element (138, 148), which the
  very first frames may do.  Without either, a frame appended just before the clear is dropped without being
  deleted (`OnlyWindowLeaks`).
- Two chains that meet in one face give two tails with the same newest rectangle, so two slots track one face
  (`TOFaceDetector.cpp:570-592`).
- `checkConcurrence` notes the frame's time stamp before it has a result: after an exception in the plain
  landmark loop the next call for the same frame returns an older frame's faces (`TOTrackerTwistedPool.cpp:542`).
  A slot that starts or stops during the call gets landmarks nobody wrote.

## Not modelled

- The KCF tracker, skin filter, image hash, cascade detection, dlib landmarks: functions from pictures to
  numbers; their outcome is a free choice where the control depends on it.
- `configuru`, async++, dlib, OpenCV: third-party code, vendored below `src/`.  dlib alone is most of the lines
  of the repository, which is why the models cover a small share of all its lines and most of those of the
  files that make up this library.  `parallel_for` is taken as visiting each index once in any order.
- The arithmetic of time stamps and of `getRectWithTimeStamp`: 64 bit differences and floating point.  That the
  two rectangles of a first detection are of different frames is proved (`TailsAreOrdered`).
- What a build does after a data race on the sampling vector: the model ends there.
- Drawing faces and landmarks into the application's picture; a caller of `checkConcurrence` whose vectors are
  not empty.
- Calls on a library that is not started, `Pause`, `Resume`, `is_Face_Exist_Now`: they return a constant.
  Parsing the configuration.
- `STATUS_CLEAR`, `STATUS_DORMANT` of the tracker: reached only inside the stop barrier, where no handler
  runs any more (`StopBarrier`).
- Time: polling intervals and frame rates appear only as the order of steps, as `HoldLimit` and as `late`.
- A `cv::Exception` inside `track()` or `pretrack()` (what it leaves in `m_tmpRectRess`); its effect on the
  pool is in `FramePool`.
- The demonstration (`test/`), the earlier version (`tmp/`) and the cross-compiled test are not part of the
  library.

What is left would be the numbers themselves (extrapolation against the assertion of the KCF tracker) and the
exceptions inside the tracker's handlers; one model of all threads together is beyond TLC, which is why the
modules meet in the interfaces `LibraryLife`, `FrameStore` and `FaceVerdicts`.
