------------------------------ MODULE ThreadBase ------------------------------
(***************************************************************************)
(* Life cycle of the worker threads of the tracker library                 *)
(* (src/src/TOThreadBase.cpp) as driven by the C interface                 *)
(* (src/src/TOInterFace.cpp): construction of the components, the two-phase *)
(* start of startAllThread, the parking barrier of stopAllThread, the join  *)
(* of every thread and the destruction of the components, whose destructors  *)
(* may wait for what a run() has left behind.                               *)
(*                                                                         *)
(* The static flags and the per-object fields are plain bools that the main *)
(* thread writes and the workers poll.  The project's CMakeLists.txt sets no *)
(* optimisation level, so every access is a real load or store; one step    *)
(* below makes at most one decision on the shared flags.                    *)
(***************************************************************************)
EXTENDS Naturals

CONSTANTS
  N,                \* number of TOThreadBase objects that Start constructs
  FrameWaiters,     \* those whose destructor waits for frames in use (TOFrameManager)
  StatusWaiters     \* those whose destructor changes the status and waits (TOFaceDetector)

ASSUME NAssumption ==
  N \in Nat \ {0} /\ FrameWaiters \subseteq 1..N /\ StatusWaiters \subseteq 1..N

Obj == 1..N         \* index in m_objs: order of construction

VARIABLES
  m_objs,           \* registered objects
  threadExitTag,    \* m_threadExitTag
  threadStopTag,    \* m_threadStopTag
  beginErrorTag,    \* m_beginErrorTag
  isThreadExist,    \* objects whose TO_THREAD_MANAGER_UNIT::isThreadExist is set
  liveStatus,       \* objects whose m_threadLiveStatus is set
  dormantTag,       \* objects whose m_dormantTag is set
  isInRun,          \* objects whose isInRun is set
  leaked,           \* an exception has left a frame of the pool in use
  thrown,           \* history: an exception has left a run() since the library was started
  ready,            \* ghost: objects whose afterStartThread hook has returned
  api,              \* where the thread that calls the library is
  k,                \* its loop index
  breakNum,         \* how many threads a failed start has to unwind
  joinFor,          \* the loop that called stopThread
  pc                \* where each worker is in threadMain

vars == <<m_objs, threadExitTag, threadStopTag, beginErrorTag, isThreadExist,
          liveStatus, dormantTag, isInRun, leaked, thrown, ready, api, k,
          breakNum, joinFor, pc>>

flags == <<threadExitTag, threadStopTag, beginErrorTag>>
runs == <<isInRun, leaked, thrown>>
units == <<m_objs, isThreadExist, liveStatus, dormantTag, ready, runs>>
loops == <<breakNum, joinFor>>

ApiLabel == {"down", "construct", "start", "spawn", "hooks", "up",
             "quiesce", "before", "stop", "unwind", "delete", "settle", "base", "join"}
Label == {"none", "await", "loop", "check", "parked", "run", "exited"}

\* The statics' initial values; nothing is constructed yet.
Init ==
  /\ m_objs = {}
  /\ threadExitTag = TRUE
  /\ threadStopTag = FALSE
  /\ beginErrorTag = FALSE
  /\ isThreadExist = {}
  /\ liveStatus = {}
  /\ dormantTag = {}
  /\ isInRun = {}
  /\ leaked = FALSE
  /\ thrown = FALSE
  /\ ready = {}
  /\ api = "down"
  /\ k = 1
  /\ breakNum = 0
  /\ joinFor = "stop"
  /\ pc = [i \in Obj |-> "none"]

Goto(label, index) == api' = label /\ k' = index

-----------------------------------------------------------------------------
(* The calling thread: TO_Face_Tracker_Start_With_Config                    *)

StartCall ==
  /\ api = "down"
  /\ Goto("construct", 1)
  /\ thrown' = FALSE
  /\ UNCHANGED <<flags, m_objs, isThreadExist, liveStatus, dormantTag, isInRun, leaked, ready,
                 loops, pc>>

\* TOThreadBase::TOThreadBase: registers itself and resets the three statics.  A frame
\* manager begins with an empty pool.
Construct ==
  /\ api = "construct"
  /\ m_objs' = m_objs \cup {k}
  /\ threadStopTag' = FALSE
  /\ threadExitTag' = TRUE
  /\ beginErrorTag' = FALSE
  /\ isThreadExist' = isThreadExist \ {k}
  /\ liveStatus' = liveStatus \ {k}
  /\ dormantTag' = dormantTag \ {k}
  /\ isInRun' = isInRun \ {k}
  /\ leaked' = (leaked /\ k \notin FrameWaiters)
  /\ pc' = [pc EXCEPT ![k] = "none"]
  /\ IF k < N THEN Goto("construct", k + 1) ELSE Goto("start", 1)
  /\ UNCHANGED <<thrown, ready, loops>>

StartAllThread ==
  /\ api = "start"
  /\ threadStopTag' = FALSE
  /\ threadExitTag' = TRUE
  /\ beginErrorTag' = FALSE
  /\ Goto("spawn", 1)
  /\ UNCHANGED <<units, loops, pc>>

\* Mutant: the loop runs to m_objs.size() inclusive.
SpawnOnePast ==
  /\ api = "spawn"
  /\ k \notin liveStatus
  /\ isThreadExist' = isThreadExist \cup {k}
  /\ liveStatus' = liveStatus \cup {k}
  /\ pc' = [pc EXCEPT ![k] = "await"]
  /\ IF k <= N THEN Goto("spawn", k + 1) ELSE Goto("hooks", N)
  /\ UNCHANGED <<flags, m_objs, dormantTag, ready, runs, loops>>

\* startThread(k) succeeds: the new thread waits for m_threadExitTag to fall.
Spawn ==
  /\ api = "spawn"
  /\ k \notin liveStatus
  /\ isThreadExist' = isThreadExist \cup {k}
  /\ liveStatus' = liveStatus \cup {k}
  /\ pc' = [pc EXCEPT ![k] = "await"]
  /\ IF k < N THEN Goto("spawn", k + 1) ELSE Goto("hooks", N)
  /\ UNCHANGED <<flags, m_objs, dormantTag, ready, runs, loops>>

\* Mutants: the unwinding misses the last thread; the error flag is not raised.
SpawnFailsMissesOne ==
  /\ api = "spawn"
  /\ isThreadExist' = isThreadExist \ {k}
  /\ beginErrorTag' = TRUE
  /\ breakNum' = IF k > 1 THEN k - 2 ELSE 0
  /\ IF k > 2 THEN Goto("unwind", 1) ELSE Goto("up", 1)
  /\ UNCHANGED <<threadExitTag, threadStopTag, m_objs, liveStatus, dormantTag,
                 ready, runs, joinFor, pc>>
SpawnFailsSilently ==
  /\ api = "spawn"
  /\ isThreadExist' = isThreadExist \ {k}
  /\ breakNum' = k - 1
  /\ IF k > 1 THEN Goto("unwind", 1) ELSE Goto("up", 1)
  /\ UNCHANGED <<flags, m_objs, liveStatus, dormantTag, ready, runs, joinFor, pc>>

\* pthread_create fails: raise m_beginErrorTag and stop the threads before k.
SpawnFails ==
  /\ api = "spawn"
  /\ isThreadExist' = isThreadExist \ {k}
  /\ liveStatus' = liveStatus \ {k}
  /\ beginErrorTag' = TRUE
  /\ breakNum' = k - 1
  /\ IF k > 1 THEN Goto("unwind", 1) ELSE Goto("up", 1)
  /\ UNCHANGED <<threadExitTag, threadStopTag, m_objs, dormantTag, ready,
                 runs, joinFor, pc>>

\* Mutant: the workers are let go before the first hook instead of after the last.
AfterStartThreadReleasesFirst ==
  /\ api = "hooks"
  /\ ready' = ready \cup {k}
  /\ threadExitTag' = FALSE
  /\ IF k > 1 THEN Goto("hooks", k - 1) ELSE Goto("up", 1)
  /\ UNCHANGED <<threadStopTag, beginErrorTag, m_objs, isThreadExist,
                 liveStatus, dormantTag, runs, loops, pc>>

\* The afterStartThread hooks, last object first; then the workers are let go.
AfterStartThread ==
  /\ api = "hooks"
  /\ ready' = ready \cup {k}
  /\ IF k > 1
     THEN Goto("hooks", k - 1) /\ UNCHANGED threadExitTag
     ELSE Goto("up", 1) /\ threadExitTag' = FALSE
  /\ UNCHANGED <<threadStopTag, beginErrorTag, m_objs, isThreadExist,
                 liveStatus, dormantTag, runs, loops, pc>>

\* dormantThread: the owner toggles a component between working and idling.
DormantThread(i) ==
  /\ api = "up"
  /\ dormantTag' = IF i \in dormantTag THEN dormantTag \ {i} ELSE dormantTag \cup {i}
  /\ UNCHANGED <<flags, m_objs, isThreadExist, liveStatus, ready, runs, api, k,
                 loops, pc>>

-----------------------------------------------------------------------------
(* The calling thread: TO_Face_Tracker_Stop                                 *)

StopAllThread ==
  /\ api = "up"
  /\ IF beginErrorTag
     THEN Goto("delete", N) /\ UNCHANGED flags
     ELSE /\ Goto("quiesce", 1)
          /\ threadStopTag' = FALSE
          /\ threadExitTag' = TRUE
          /\ UNCHANGED beginErrorTag
  /\ UNCHANGED <<units, loops, pc>>

\* Mutant: the scan combines the entries with && instead of ||.
QuiescedWhenOneParked ==
  /\ api = "quiesce"
  /\ \E i \in m_objs : i \notin isThreadExist
  /\ Goto("before", N)
  /\ UNCHANGED <<flags, units, loops, pc>>

\* The busy wait ends once every registered thread has reported that it parked.
\* Entries only fall during the wait, so the scan is one step.
Quiesced ==
  /\ api = "quiesce"
  /\ \A i \in m_objs : i \notin isThreadExist
  /\ Goto("before", N)
  /\ UNCHANGED <<flags, units, loops, pc>>

\* Mutant: the exit flag is lowered when the stop flag is raised.
BeforeStopThreadLowersExit ==
  /\ api = "before"
  /\ IF k > 1
     THEN Goto("before", k - 1) /\ UNCHANGED <<threadStopTag, threadExitTag>>
     ELSE Goto("stop", 1) /\ threadStopTag' = TRUE /\ threadExitTag' = FALSE
  /\ UNCHANGED <<beginErrorTag, units, loops, pc>>

\* The beforeStopThread hooks, last object first; then m_threadStopTag rises.
BeforeStopThread ==
  /\ api = "before"
  /\ IF k > 1
     THEN Goto("before", k - 1) /\ UNCHANGED threadStopTag
     ELSE Goto("stop", 1) /\ threadStopTag' = TRUE
  /\ UNCHANGED <<threadExitTag, beginErrorTag, units, loops, pc>>

\* Where a loop over the objects goes after stopThread(k).
AfterJoin(loop) ==
  CASE loop = "stop"   -> IF k < N THEN Goto("stop", k + 1) ELSE Goto("delete", N)
    [] loop = "unwind" -> IF k < breakNum THEN Goto("unwind", k + 1)
                                              ELSE Goto("up", 1)
    [] loop = "delete" -> IF k > 1 THEN Goto("delete", k - 1) ELSE Goto("down", 1)

\* Mutant: stopThread clears the live flag and does not join.
StopThreadUnjoined(loop) ==
  /\ liveStatus' = liveStatus \ {k}
  /\ AfterJoin(loop)
  /\ UNCHANGED joinFor

\* stopThread(k): clear the live flag and join, or return if it is clear.
StopThread(loop) ==
  IF k \in liveStatus
  THEN /\ liveStatus' = liveStatus \ {k}
       /\ joinFor' = loop
       /\ Goto("join", k)
  ELSE /\ AfterJoin(loop)
       /\ UNCHANGED <<liveStatus, joinFor>>

StopOne ==
  /\ api \in {"stop", "unwind"}
  /\ StopThread(api)
  /\ UNCHANGED <<flags, m_objs, isThreadExist, dormantTag, ready, runs, breakNum, pc>>

\* ~TOFrameManager waits until the frames of its pool are relieved.  ~TOFaceDetector, unless
\* its status, which its runs have left at any, is DORMANT already, goes on to wait.
DestroyDerived ==
  /\ api = "delete"
  /\ k \in FrameWaiters => ~leaked
  /\ Goto("base", k) \/ (k \in StatusWaiters /\ Goto("settle", k))
  /\ UNCHANGED <<flags, units, loops, pc>>

\* changeStatus(.., true) spins while isInRun is set.
Settled ==
  /\ api = "settle"
  /\ k \notin isInRun
  /\ Goto("base", k)
  /\ UNCHANGED <<flags, units, loops, pc>>

\* ~TOThreadBase: leave m_objs, then stop the thread if it still lives.
Destroy ==
  /\ api = "base"
  /\ m_objs' = m_objs \ {k}
  /\ ready' = ready \ {k}
  /\ StopThread("delete")
  /\ UNCHANGED <<flags, isThreadExist, dormantTag, runs, breakNum, pc>>

\* pthread_join returns.
Join ==
  /\ api = "join"
  /\ pc[k] = "exited"
  /\ AfterJoin(joinFor)
  /\ UNCHANGED <<flags, units, loops, pc>>

-----------------------------------------------------------------------------
(* A worker: threadMain                                                     *)

Move(i, from, to) == pc[i] = from /\ pc' = [pc EXCEPT ![i] = to]

Main == <<flags, m_objs, liveStatus, dormantTag, ready, api, k, loops>>

\* The wait for the start signal; a failed start ends the thread here.
Begin(i) ==
  /\ Move(i, "await", "loop")
  /\ ~threadExitTag
  /\ UNCHANGED <<Main, isThreadExist, runs>>

Abandon(i) ==
  /\ Move(i, "await", "exited")
  /\ threadExitTag
  /\ beginErrorTag
  /\ UNCHANGED <<Main, isThreadExist, runs>>

\* while(m_threadLiveStatus)
Iterate(i) ==
  /\ Move(i, "loop", IF i \in liveStatus THEN "check" ELSE "exited")
  /\ UNCHANGED <<Main, isThreadExist, runs>>

\* while(m_threadExitTag): report once, then poll m_threadStopTag.
Park(i) ==
  /\ Move(i, "check", "parked")
  /\ threadExitTag
  /\ isThreadExist' = isThreadExist \ ({i} \cap m_objs)
  /\ UNCHANGED <<Main, runs>>

Leave(i) ==
  /\ Move(i, "parked", "exited")
  /\ threadExitTag
  /\ threadStopTag
  /\ UNCHANGED <<Main, isThreadExist, runs>>

\* Out of the command loop: a dormant component sleeps instead of running.
Doze(i) ==
  /\ pc[i] \in {"check", "parked"}
  /\ ~threadExitTag
  /\ i \in dormantTag
  /\ pc' = [pc EXCEPT ![i] = "loop"]
  /\ UNCHANGED <<Main, isThreadExist, runs>>

\* run() begins by setting isInRun.
Enter(i) ==
  /\ pc[i] \in {"check", "parked"}
  /\ ~threadExitTag
  /\ i \notin dormantTag
  /\ pc' = [pc EXCEPT ![i] = "run"]
  /\ isInRun' = isInRun \cup {i}
  /\ UNCHANGED <<Main, isThreadExist, leaked, thrown>>

\* Mutant: run() does not lower isInRun.
ReturnInRun(i) ==
  /\ Move(i, "run", "loop")
  /\ UNCHANGED <<Main, isThreadExist, runs>>

\* run() returns.
Return(i) ==
  /\ Move(i, "run", "loop")
  /\ isInRun' = isInRun \ {i}
  /\ UNCHANGED <<Main, isThreadExist, leaked, thrown>>

\* threadMain swallows a cv::Exception of run(): isInRun stays set, and a frame that the
\* handler had taken out of the pool is not given back.
Throw(i) ==
  /\ Move(i, "run", "loop")
  /\ leaked' \in {leaked, leaked \/ i \notin FrameWaiters}
  /\ thrown' = TRUE
  /\ UNCHANGED <<Main, isThreadExist, isInRun>>

-----------------------------------------------------------------------------
Caller ==
  \/ Construct \/ StartAllThread \/ Spawn \/ SpawnFails \/ AfterStartThread
  \/ Quiesced \/ BeforeStopThread \/ StopOne
  \/ DestroyDerived \/ Settled \/ Destroy \/ Join

Poll(i) ==
  Begin(i) \/ Abandon(i) \/ Iterate(i) \/ Park(i) \/ Leave(i) \/ Doze(i) \/ Enter(i)

Worker(i) == Poll(i) \/ Return(i) \/ Throw(i)

Next ==
  \/ StartCall \/ StopAllThread
  \/ \E i \in Obj : DormantThread(i)
  \/ Caller
  \/ \E i \in Obj : Worker(i)

\* The application may call Start and Stop or not; once inside the library, its thread and
\* the workers are scheduled and usleep returns.  Whether run() does is not for threadMain
\* to say: what depends on it has RunsReturn as its premise.
Fairness == WF_vars(Caller) /\ \A i \in Obj : WF_vars(Poll(i))

Spec == Init /\ [][Next]_vars /\ Fairness

-----------------------------------------------------------------------------
FlagTypes ==
  /\ threadExitTag \in BOOLEAN /\ threadStopTag \in BOOLEAN /\ beginErrorTag \in BOOLEAN
  /\ leaked \in BOOLEAN /\ thrown \in BOOLEAN

StateTypes ==
  /\ m_objs \subseteq Obj
  /\ isThreadExist \subseteq Obj
  /\ liveStatus \subseteq Obj
  /\ dormantTag \subseteq Obj
  /\ isInRun \subseteq Obj
  /\ ready \subseteq Obj
  /\ api \in ApiLabel
  /\ k \in Obj
  /\ breakNum \in 0..(N - 1)
  /\ joinFor \in {"stop", "unwind", "delete"}
  /\ pc \in [Obj -> Label]

TypeOK == FlagTypes /\ StateTypes

\* Stop deletes the component k.
Deleting == {"delete", "settle", "base"}

Stopped(labels) == \A i \in Obj : pc[i] \in labels

\* No component runs before the afterStartThread hook of every component has
\* returned: the hooks initialise the mutexes and statuses that run() uses.
HooksBeforeRun == \A i \in Obj : pc[i] = "run" => ready = Obj

\* The barrier of stopAllThread: from the first beforeStopThread hook to the last
\* join no worker is inside run() or can get back into it.
Quiescent ==
  api \in {"before", "stop"} \/ (api = "join" /\ joinFor = "stop") =>
    Stopped({"parked", "exited"})

\* ~TOThreadBase frees the object that threadMain polls through pThread: a thread
\* never outlives its object, whether the library is stopped or a start failed.
NoThreadOutlivesObject ==
  \A i \in Obj : (api \in Deleting /\ k <= i) \/ i \notin m_objs =>
    pc[i] \in {"none", "exited"}

\* Once the stop barrier has been raised a parked worker leaves threadMain and never
\* resumes, although Start, Stop and a constructor write the same static flags.
ParkedNeverResumes ==
  [][\A i \in Obj : pc[i] = "parked" => pc'[i] \in {"parked", "exited"}]_vars

\* The unwinding of a failed start joins its threads and returns to the caller.
UnwindTerminates == (api = "unwind") ~> (api = "up")

\* No handler runs for ever (FramePool and DetectTrack say where one may).
RunsReturn == \A i \in Obj : []<>(pc[i] # "run")

\* The destructor of a component waits, nobody being left to end that, for what an exception
\* has left behind: a frame that is still in use, or isInRun.
DestructorWaits ==
  thrown /\ (api = "settle" \/ (api = "delete" /\ k \in FrameWaiters))

\* Stop returns, provided every worker had noticed the start signal when it was called and no
\* handler runs for ever, unless a destructor waits for what an exception has left.
StopTerminatesOnceBegun ==
  RunsReturn =>
    ((api = "quiesce" /\ \A i \in Obj : pc[i] # "await")
       ~> (api = "down" \/ DestructorWaits))

\* LibTOFace.h:60-63 declares TO_Face_Tracker_Stop as the end of the library: it returns,
\* whenever after Start it is called, if no handler runs for ever or is left by an exception.
StopTerminates ==
  RunsReturn => ((api = "quiesce") ~> (api = "down" \/ DestructorWaits))

\* The library as its caller sees it: a failed start has left it off.
LifePhase ==
  CASE api \in {"down", "construct", "start"} \cup Deleting -> "off"
    [] api \in {"spawn", "hooks"} -> "starting"
    [] api = "up" -> IF beginErrorTag THEN "off" ELSE "on"
    [] api = "quiesce" -> "closing"
    [] api \in {"before", "stop", "unwind", "join"} -> "quiet"

Alive == {i \in Obj : pc[i] \notin {"none", "exited"}}
Running == {i \in Obj : pc[i] = "run"}

\* Start and stop are what a caller expects of them, whatever flags and loops make them:
\* all threads or none, no run() after the barrier, no thread ended before, none left over.
Life == INSTANCE LibraryLife WITH
  Workers <- Obj, phase <- LifePhase, alive <- Alive, busy <- Running

IsLibraryLife == Life!Spec

-----------------------------------------------------------------------------
(* Inductive strengthening: what holds of each thread in each phase of the   *)
(* calling thread.                                                           *)

\* The registered objects are those constructed and not yet destroyed.
Registered ==
  \A i \in Obj :
    i \in m_objs <=> \/ api \notin {"down", "construct"} \cup Deleting
                     \/ api = "construct" /\ i < k
                     \/ api \in Deleting /\ i <= k

Gone(i) == i \notin liveStatus /\ pc[i] \in {"none", "exited"}
Waiting(i) == i \in liveStatus /\ i \in isThreadExist /\ pc[i] = "await"

\* stopThread is joining the first thread of a loop, or about to.
StopLoop(p, from) ==
  \A i \in Obj : /\ (i \in liveStatus <=> i >= from)
                 /\ i < k => pc[i] = "exited"
                 /\ pc[i] \in p

UnwindLoop(from) ==
  /\ beginErrorTag /\ threadExitTag
  /\ k <= breakNum
  /\ \A i \in Obj :
       IF i > breakNum THEN Gone(i)
       ELSE /\ (i \in liveStatus <=> i >= from)
            /\ IF i < k THEN pc[i] = "exited" ELSE pc[i] \in {"await", "exited"}

Phase ==
  /\ api \in {"down", "construct", "start"} \cup Deleting => \A i \in Obj : Gone(i)
  /\ api = "spawn" =>
       /\ threadExitTag /\ ~threadStopTag /\ ~beginErrorTag
       /\ \A i \in Obj : IF i < k THEN Waiting(i) ELSE Gone(i)
  /\ api = "hooks" =>
       /\ threadExitTag /\ ~threadStopTag /\ ~beginErrorTag
       /\ {i \in Obj : i > k} \subseteq ready
       /\ \A i \in Obj : Waiting(i)
  /\ api = "up" =>
       IF beginErrorTag
       THEN threadExitTag /\ \A i \in Obj : Gone(i)
       ELSE /\ ~threadExitTag /\ ~threadStopTag
            /\ ready = Obj
            /\ \A i \in Obj : /\ i \in liveStatus
                              /\ i \in isThreadExist
                              /\ pc[i] \in {"await", "loop", "check", "run"}
  /\ api = "quiesce" =>
       /\ threadExitTag /\ ~threadStopTag /\ ~beginErrorTag
       /\ ready = Obj
       /\ \A i \in Obj :
            /\ i \in liveStatus
            /\ pc[i] \in {"await", "loop", "check", "run", "parked"}
            /\ i \notin isThreadExist => pc[i] = "parked"
  /\ api = "before" =>
       /\ threadExitTag /\ ~threadStopTag
       /\ \A i \in Obj : i \in liveStatus /\ pc[i] = "parked"
  /\ api = "stop" => threadExitTag /\ StopLoop({"parked", "exited"}, k)
  /\ api = "unwind" => UnwindLoop(k)
  /\ api = "join" =>
       \/ joinFor = "stop" /\ threadExitTag /\ StopLoop({"parked", "exited"}, k + 1)
       \/ joinFor = "unwind" /\ UnwindLoop(k + 1)

IInv == TypeOK /\ Registered /\ Phase

=============================================================================
