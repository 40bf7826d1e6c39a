--------------------------- MODULE ThreadBaseProofs ---------------------------
(* Safety of the thread life cycle for any number of components.             *)
EXTENDS ThreadBase, TLAPS

\* The initial state, with nothing constructed, satisfies the invariant.
LEMMA InitInv == Init => IInv
<1> SUFFICES ASSUME Init PROVE IInv
  OBVIOUS
<1> USE NAssumption DEF Init, Obj, Deleting
<1>1. FlagTypes
  BY DEF FlagTypes
<1>2. StateTypes
  BY DEF StateTypes, ApiLabel, Label
<1>3. Registered
  BY DEF Registered
<1>4. Phase
  BY DEF Phase, Gone
<1> QED
  BY <1>1, <1>2, <1>3, <1>4 DEF IInv, TypeOK

\* A step of the calling thread preserves the invariant.
LEMMA CallerInv == ASSUME IInv, StartCall \/ StopAllThread \/ Caller PROVE IInv'
<1> USE NAssumption DEF IInv, TypeOK, Obj, Deleting, flags, units, runs, loops, Goto
<1>1. CASE StartCall
  <2>1. FlagTypes'
    BY <1>1, Zenon DEF FlagTypes, StartCall
  <2>2. StateTypes'
    BY <1>1 DEF StateTypes, ApiLabel, Label, StartCall, Phase, UnwindLoop
  <2>3. Registered'
    BY <1>1 DEF StateTypes, Registered, StartCall, Phase, UnwindLoop
  <2>4. Phase'
    BY <1>1 DEF StateTypes, Label, Phase, Gone, StartCall
  <2> QED
    BY <2>1, <2>2, <2>3, <2>4
<1>2. CASE StopAllThread
  <2>1. FlagTypes'
    BY <1>2, Zenon DEF FlagTypes, StopAllThread
  <2>2. StateTypes'
    BY <1>2 DEF StateTypes, ApiLabel, Label, StopAllThread, Phase, UnwindLoop
  <2>3. Registered'
    BY <1>2 DEF StateTypes, Registered, StopAllThread, Phase, UnwindLoop
  <2>4. Phase'
    BY <1>2 DEF StateTypes, Label, Phase, Gone, StopAllThread
  <2> QED
    BY <2>1, <2>2, <2>3, <2>4
<1>3. CASE Construct
  <2>1. FlagTypes'
    BY <1>3, Zenon DEF FlagTypes, Construct
  <2>2. StateTypes'
    BY <1>3 DEF StateTypes, ApiLabel, Label, Construct, Phase, UnwindLoop
  <2>3. Registered'
    BY <1>3 DEF StateTypes, Registered, Construct, Phase, UnwindLoop
  <2>4. Phase'
    BY <1>3 DEF StateTypes, Label, Phase, Gone, Construct
  <2> QED
    BY <2>1, <2>2, <2>3, <2>4
<1>4. CASE StartAllThread
  <2>1. FlagTypes'
    BY <1>4, Zenon DEF FlagTypes, StartAllThread
  <2>2. StateTypes'
    BY <1>4 DEF StateTypes, ApiLabel, Label, StartAllThread, Phase, UnwindLoop
  <2>3. Registered'
    BY <1>4 DEF StateTypes, Registered, StartAllThread, Phase, UnwindLoop
  <2>4. Phase'
    BY <1>4 DEF StateTypes, Label, Phase, Gone, StartAllThread, Waiting
  <2> QED
    BY <2>1, <2>2, <2>3, <2>4
<1>5. CASE Spawn
  <2>1. FlagTypes'
    BY <1>5, Zenon DEF FlagTypes, Spawn
  <2>2. StateTypes'
    BY <1>5 DEF StateTypes, ApiLabel, Label, Spawn, Phase, UnwindLoop
  <2>3. Registered'
    BY <1>5 DEF StateTypes, Registered, Spawn, Phase, UnwindLoop
  <2>4. Phase'
    BY <1>5 DEF StateTypes, Label, Phase, Gone, Spawn, Waiting
  <2> QED
    BY <2>1, <2>2, <2>3, <2>4
<1>6. CASE SpawnFails
  <2>1. FlagTypes'
    BY <1>6, Zenon DEF FlagTypes, SpawnFails
  <2>2. StateTypes'
    BY <1>6 DEF StateTypes, ApiLabel, Label, SpawnFails, Phase, UnwindLoop
  <2>3. Registered'
    BY <1>6 DEF StateTypes, Registered, SpawnFails, Phase, UnwindLoop
  <2>4. Phase'
    BY <1>6 DEF StateTypes, Label, Phase, Gone, SpawnFails, Waiting, UnwindLoop
  <2> QED
    BY <2>1, <2>2, <2>3, <2>4
<1>7. CASE AfterStartThread
  <2>1. FlagTypes'
    BY <1>7, Zenon DEF FlagTypes, AfterStartThread
  <2>2. StateTypes'
    BY <1>7 DEF StateTypes, ApiLabel, Label, AfterStartThread
  <2>3. Registered'
    BY <1>7 DEF StateTypes, Registered, AfterStartThread, Phase, UnwindLoop
  <2>4. Phase'
    <3>1. CASE k > 1
      BY <1>7, <3>1 DEF StateTypes, Phase, AfterStartThread, Waiting
    <3>2. CASE k = 1
      <4>1. ready' = Obj
        <5>1. ready' = ready \cup {1} /\ ready \subseteq Obj
          BY <1>7, <3>2 DEF StateTypes, AfterStartThread
        <5>2. \A i \in Obj : i = 1 \/ i \in ready
          BY <1>7, <3>2 DEF AfterStartThread, Phase
        <5>3. 1 \in Obj
          OBVIOUS
        <5> HIDE DEF Obj
        <5> QED
          BY <5>1, <5>2, <5>3, Zenon
      <4>2. /\ api' = "up" /\ ~threadExitTag' /\ ~threadStopTag' /\ ~beginErrorTag'
            /\ \A i \in Obj : /\ i \in liveStatus' /\ i \in isThreadExist'
                              /\ pc'[i] = "await"
        BY <1>7, <3>2 DEF Phase, AfterStartThread, Waiting
      <4> QED
        BY <4>1, <4>2 DEF Phase
    <3> QED
      BY <3>1, <3>2 DEF StateTypes
  <2> QED
    BY <2>1, <2>2, <2>3, <2>4
<1>8. CASE Quiesced
  <2>1. FlagTypes'
    BY <1>8, Zenon DEF FlagTypes, Quiesced
  <2>2. StateTypes'
    BY <1>8 DEF StateTypes, ApiLabel, Label, Quiesced, Phase, UnwindLoop
  <2>3. Registered'
    BY <1>8 DEF StateTypes, Registered, Quiesced, Phase, UnwindLoop
  <2>4. Phase'
    BY <1>8 DEF StateTypes, Registered, Phase, Quiesced
  <2> QED
    BY <2>1, <2>2, <2>3, <2>4
<1>9. CASE BeforeStopThread
  <2>1. FlagTypes'
    BY <1>9, Zenon DEF FlagTypes, BeforeStopThread
  <2>2. StateTypes'
    BY <1>9 DEF StateTypes, ApiLabel, Label, BeforeStopThread, Phase, UnwindLoop
  <2>3. Registered'
    BY <1>9 DEF StateTypes, Registered, BeforeStopThread, Phase, UnwindLoop
  <2>4. Phase'
    BY <1>9 DEF StateTypes, Label, Phase, Gone, BeforeStopThread, StopLoop
  <2> QED
    BY <2>1, <2>2, <2>3, <2>4
<1>10. CASE StopOne
  <2>1. k \in liveStatus
    BY <1>10 DEF StateTypes, Phase, StopOne, StopLoop, UnwindLoop
  <2>2. /\ api' = "join" /\ k' = k /\ joinFor' = api
        /\ liveStatus' = liveStatus \ {k}
        /\ api \in {"stop", "unwind"}
        /\ UNCHANGED <<flags, m_objs, isThreadExist, dormantTag, ready, runs, breakNum, pc>>
    BY <1>10, <2>1 DEF StopOne, StopThread
  <2>3. FlagTypes'
    BY <2>2, Zenon DEF FlagTypes
  <2>4. StateTypes'
    BY <2>2 DEF StateTypes, ApiLabel, Label
  <2>5. Registered'
    BY <2>2 DEF Registered
  <2>6. Phase'
    <3>1. CASE api = "stop"
      BY <2>2, <3>1 DEF StateTypes, Phase, StopLoop
    <3>2. CASE api = "unwind"
      BY <2>2, <3>2 DEF StateTypes, Phase, UnwindLoop, Gone
    <3> QED
      BY <2>2, <3>1, <3>2
  <2> QED
    BY <2>3, <2>4, <2>5, <2>6
<1>11. CASE Destroy
  <2>1. k \notin liveStatus
    BY <1>11 DEF StateTypes, Phase, Destroy, Gone
  <2>2. /\ api = "base"
        /\ m_objs' = m_objs \ {k}
        /\ IF k > 1 THEN api' = "delete" /\ k' = k - 1 ELSE api' = "down" /\ k' = 1
        /\ ready' = ready \ {k}
        /\ UNCHANGED <<flags, isThreadExist, liveStatus, dormantTag, runs, loops, pc>>
    BY <1>11, <2>1 DEF Destroy, StopThread, AfterJoin
  <2>3. FlagTypes'
    BY <2>2, Zenon DEF FlagTypes
  <2>4. StateTypes'
    BY <2>2 DEF StateTypes, ApiLabel, Label
  <2>5. Registered'
    BY <2>2 DEF StateTypes, Registered
  <2>6. Phase'
    BY <2>2 DEF StateTypes, Phase, Gone
  <2> QED
    BY <2>3, <2>4, <2>5, <2>6
<1>12. CASE Join
  <2>1. CASE joinFor = "stop"
    <3>1. /\ IF k < N THEN api' = "stop" /\ k' = k + 1 ELSE api' = "delete" /\ k' = N
          /\ threadExitTag /\ StopLoop({"parked", "exited"}, k + 1)
          /\ api = "join" /\ pc[k] = "exited"
          /\ UNCHANGED <<flags, units, loops, pc>>
      BY <1>12, <2>1 DEF Join, AfterJoin, Phase
    <3>2. FlagTypes'
      BY <3>1, Zenon DEF FlagTypes
    <3>3. StateTypes'
      BY <3>1 DEF StateTypes, ApiLabel, Label
    <3>4. Registered'
      BY <3>1 DEF StateTypes, Registered
    <3>5. Phase'
      <4>1. CASE k < N
        BY <3>1, <4>1 DEF StateTypes, StopLoop, Phase
      <4>2. CASE k = N
        BY <3>1, <4>2 DEF StateTypes, StopLoop, Phase, Gone
      <4> QED
        BY <4>1, <4>2 DEF StateTypes
    <3> QED
      BY <3>2, <3>3, <3>4, <3>5
  <2>2. CASE joinFor = "unwind"
    <3>1. /\ IF k < breakNum THEN api' = "unwind" /\ k' = k + 1 ELSE api' = "up" /\ k' = 1
          /\ UnwindLoop(k + 1)
          /\ api = "join" /\ pc[k] = "exited"
          /\ UNCHANGED <<flags, units, loops, pc>>
      BY <1>12, <2>2 DEF Join, AfterJoin, Phase
    <3>2. FlagTypes'
      BY <3>1, Zenon DEF FlagTypes
    <3>3. StateTypes'
      BY <3>1 DEF StateTypes, ApiLabel, Label
    <3>4. Registered'
      BY <3>1 DEF StateTypes, Registered
    <3>5. Phase'
      <4>1. CASE k < breakNum
        BY <3>1, <4>1 DEF StateTypes, UnwindLoop, Phase, Gone
      <4>2. CASE k = breakNum
        BY <3>1, <4>2 DEF StateTypes, UnwindLoop, Phase, Gone
      <4> QED
        BY <3>1, <4>1, <4>2 DEF StateTypes, UnwindLoop
    <3> QED
      BY <3>2, <3>3, <3>4, <3>5
  <2> QED
    BY <1>12, <2>1, <2>2 DEF Phase, Join
<1>13. CASE DestroyDerived \/ Settled
  <2>1. /\ api \in {"delete", "settle"} /\ api' \in {"settle", "base"} /\ k' = k
        /\ UNCHANGED <<flags, units, loops, pc>>
    BY <1>13 DEF DestroyDerived, Settled
  <2>2. FlagTypes'
    BY <2>1, Zenon DEF FlagTypes
  <2>3. StateTypes'
    BY <2>1 DEF StateTypes, ApiLabel, Label
  <2>4. Registered'
    BY <2>1 DEF Registered
  <2>5. Phase'
    BY <2>1 DEF Phase, Gone
  <2> QED
    BY <2>2, <2>3, <2>4, <2>5
<1> QED
  BY <1>1, <1>2, <1>3, <1>4, <1>5, <1>6, <1>7, <1>8, <1>9, <1>10, <1>11, <1>12, <1>13 DEF Caller

\* A step of a worker, or a toggle of its dormant flag, preserves the invariant.
LEMMA WorkerInv ==
  ASSUME IInv, NEW w \in Obj, DormantThread(w) \/ Worker(w) PROVE IInv'
<1> USE NAssumption DEF IInv, TypeOK, Obj, Deleting, flags, units, runs, loops, Main, Move
<1>1. CASE DormantThread(w)
  <2>1. FlagTypes'
    BY <1>1, Zenon DEF FlagTypes, DormantThread
  <2>2. StateTypes'
    BY <1>1 DEF StateTypes, ApiLabel, Label, DormantThread
  <2>3. Registered'
    BY <1>1 DEF Registered, DormantThread
  <2>4. Phase'
    BY <1>1 DEF StateTypes, Registered, Phase, Gone, Waiting, StopLoop, UnwindLoop, DormantThread
  <2> QED
    BY <2>1, <2>2, <2>3, <2>4
<1>2. CASE Begin(w)
  <2>1. FlagTypes'
    BY <1>2, Zenon DEF FlagTypes, Begin
  <2>2. StateTypes'
    BY <1>2 DEF StateTypes, ApiLabel, Label, Begin
  <2>3. Registered'
    BY <1>2 DEF Registered, Begin
  <2>4. Phase'
    BY <1>2 DEF StateTypes, Registered, Phase, Gone, Waiting, StopLoop, UnwindLoop, Begin
  <2> QED
    BY <2>1, <2>2, <2>3, <2>4
<1>3. CASE Abandon(w)
  <2>1. FlagTypes'
    BY <1>3, Zenon DEF FlagTypes, Abandon
  <2>2. StateTypes'
    BY <1>3 DEF StateTypes, ApiLabel, Label, Abandon
  <2>3. Registered'
    BY <1>3 DEF Registered, Abandon
  <2>4. Phase'
    BY <1>3 DEF StateTypes, Registered, Phase, Gone, Waiting, StopLoop, UnwindLoop, Abandon
  <2> QED
    BY <2>1, <2>2, <2>3, <2>4
<1>4. CASE Iterate(w)
  <2>1. FlagTypes'
    BY <1>4, Zenon DEF FlagTypes, Iterate
  <2>2. StateTypes'
    BY <1>4 DEF StateTypes, ApiLabel, Label, Iterate
  <2>3. Registered'
    BY <1>4 DEF Registered, Iterate
  <2>4. Phase'
    BY <1>4 DEF StateTypes, Registered, Phase, Gone, Waiting, StopLoop, UnwindLoop, Iterate
  <2> QED
    BY <2>1, <2>2, <2>3, <2>4
<1>5. CASE Park(w)
  <2>1. FlagTypes'
    BY <1>5, Zenon DEF FlagTypes, Park
  <2>2. StateTypes'
    BY <1>5 DEF StateTypes, ApiLabel, Label, Park
  <2>3. Registered'
    BY <1>5 DEF Registered, Park
  <2>4. Phase'
    BY <1>5 DEF StateTypes, Registered, Phase, Gone, Waiting, StopLoop, UnwindLoop, Park
  <2> QED
    BY <2>1, <2>2, <2>3, <2>4
<1>6. CASE Leave(w)
  <2>1. FlagTypes'
    BY <1>6, Zenon DEF FlagTypes, Leave
  <2>2. StateTypes'
    BY <1>6 DEF StateTypes, ApiLabel, Label, Leave
  <2>3. Registered'
    BY <1>6 DEF Registered, Leave
  <2>4. Phase'
    BY <1>6 DEF StateTypes, Registered, Phase, Gone, Waiting, StopLoop, UnwindLoop, Leave
  <2> QED
    BY <2>1, <2>2, <2>3, <2>4
<1>7. CASE Enter(w)
  <2>1. FlagTypes'
    BY <1>7, Zenon DEF FlagTypes, Enter
  <2>2. StateTypes'
    BY <1>7 DEF StateTypes, ApiLabel, Label, Enter
  <2>3. Registered'
    BY <1>7 DEF Registered, Enter
  <2>4. Phase'
    BY <1>7 DEF StateTypes, Registered, Phase, Gone, Waiting, StopLoop, UnwindLoop, Enter
  <2> QED
    BY <2>1, <2>2, <2>3, <2>4
<1>8. CASE Return(w)
  <2>1. FlagTypes'
    BY <1>8, Zenon DEF FlagTypes, Return
  <2>2. StateTypes'
    BY <1>8 DEF StateTypes, ApiLabel, Label, Return
  <2>3. Registered'
    BY <1>8 DEF Registered, Return
  <2>4. Phase'
    BY <1>8 DEF StateTypes, Registered, Phase, Gone, Waiting, StopLoop, UnwindLoop, Return
  <2> QED
    BY <2>1, <2>2, <2>3, <2>4
<1>9. CASE Doze(w)
  <2>1. FlagTypes'
    BY <1>9, Zenon DEF FlagTypes, Doze
  <2>2. StateTypes'
    BY <1>9 DEF StateTypes, ApiLabel, Label, Doze
  <2>3. Registered'
    BY <1>9 DEF Registered, Doze
  <2>4. Phase'
    BY <1>9 DEF StateTypes, Registered, Phase, Gone, Waiting, StopLoop, UnwindLoop, Doze
  <2> QED
    BY <2>1, <2>2, <2>3, <2>4
<1>10. CASE Throw(w)
  <2>1. FlagTypes'
    BY <1>10, Zenon DEF FlagTypes, Throw
  <2>2. StateTypes'
    BY <1>10 DEF StateTypes, ApiLabel, Label, Throw
  <2>3. Registered'
    BY <1>10 DEF Registered, Throw
  <2>4. Phase'
    BY <1>10 DEF StateTypes, Registered, Phase, Gone, Waiting, StopLoop, UnwindLoop, Throw
  <2> QED
    BY <2>1, <2>2, <2>3, <2>4
<1> QED
  BY <1>1, <1>2, <1>3, <1>4, <1>5, <1>6, <1>7, <1>8, <1>9, <1>10 DEF Worker, Poll

LEMMA NextInv == IInv /\ [Next]_vars => IInv'
<1> SUFFICES ASSUME IInv, [Next]_vars PROVE IInv'
  OBVIOUS
<1>1. CASE UNCHANGED vars
  BY <1>1 DEF vars, IInv, TypeOK, FlagTypes, StateTypes, Registered, Phase, Gone,
              Waiting, StopLoop, UnwindLoop, Deleting
<1>2. CASE StartCall \/ StopAllThread \/ Caller
  BY <1>2, CallerInv
<1>3. CASE \E i \in Obj : DormantThread(i) \/ Worker(i)
  BY <1>3, WorkerInv
<1> QED
  BY <1>1, <1>2, <1>3 DEF Next

LEMMA Inductive == Spec => []IInv
BY InitInv, NextInv, PTL DEF Spec

\* Every variable keeps its type for any number of components.
THEOREM TypeCorrect == Spec => []TypeOK
<1>1. IInv => TypeOK
  BY DEF IInv
<1> QED
  BY <1>1, Inductive, PTL

\* No run() before the last afterStartThread hook, for any number of components.
THEOREM NoRunBeforeHooks == Spec => []HooksBeforeRun
<1>1. IInv => HooksBeforeRun
  <2> SUFFICES ASSUME IInv, NEW i \in Obj, pc[i] = "run" PROVE ready = Obj
    BY DEF HooksBeforeRun
  <2> QED
    BY DEF IInv, TypeOK, StateTypes, ApiLabel, Phase, Deleting, Gone, Waiting, StopLoop, UnwindLoop
<1> QED
  BY <1>1, Inductive, PTL

\* The stop barrier holds for any number of components.
THEOREM StopBarrier == Spec => []Quiescent
<1>1. IInv => Quiescent
  BY DEF IInv, Phase, Quiescent, Stopped, StopLoop
<1> QED
  BY <1>1, Inductive, PTL

\* No thread polls a destroyed object, for any number of components.
THEOREM ThreadsDieFirst == Spec => []NoThreadOutlivesObject
<1>1. IInv => NoThreadOutlivesObject
  BY DEF IInv, Registered, Phase, Deleting, Gone, NoThreadOutlivesObject
<1> QED
  BY <1>1, Inductive, PTL

-----------------------------------------------------------------------------
(* The refinement of LibraryLife.                                            *)

LEMMA LifeInit == Init => Life!Init
BY DEF Init, Life!Init, LifePhase, Alive, Running

\* A step of the calling thread that leaves the workers alone.
LEMMA LifeOfCaller ==
  ASSUME IInv, IInv', StartCall \/ StopAllThread \/ Caller, ~Spawn,
         Alive' = Alive, Running' = Running
  PROVE  [Life!Next]_(Life!vars)
<1>1. Alive' = Alive /\ Running' = Running
  OBVIOUS
<1> USE DEF Deleting
<1>2. k \in Obj /\ k \in Nat /\ api \in ApiLabel
  BY DEF IInv, TypeOK, StateTypes, Obj
<1>3. CASE StartCall \/ Construct \/ DestroyDerived \/ Settled \/ Destroy \/ StopOne
           \/ BeforeStopThread
  <2>1. LifePhase' = LifePhase
    <3>1. CASE StartCall \/ Construct \/ DestroyDerived \/ Settled \/ BeforeStopThread
      BY <3>1 DEF StartCall, Construct, DestroyDerived, Settled, BeforeStopThread, Goto, LifePhase
    <3>2. CASE StopOne \/ Destroy
      <4>1. CASE k \in liveStatus
        <5>1. ~Destroy
          BY <4>1 DEF Destroy, IInv, Phase, Gone, TypeOK, StateTypes
        <5> QED
          BY <3>2, <4>1, <5>1 DEF StopOne, StopThread, Goto, LifePhase
      <4>2. CASE k \notin liveStatus
        <5>1. ~StopOne
          BY <4>2 DEF StopOne, IInv, TypeOK, StateTypes, Phase, StopLoop, UnwindLoop, Obj
        <5> QED
          BY <3>2, <4>2, <5>1 DEF Destroy, StopThread, AfterJoin, Goto, LifePhase
      <4> QED
        BY <4>1, <4>2
    <3> QED
      BY <1>3, <3>1, <3>2
  <2> QED
    BY <1>1, <2>1 DEF Life!vars
<1>4. CASE StartAllThread
  <2>1. LifePhase = "off" /\ LifePhase' = "starting"
    BY <1>4 DEF StartAllThread, Goto, LifePhase
  <2> QED
    BY <1>1, <2>1 DEF Life!Next, Life!Open, Life!Turn
<1>5. CASE SpawnFails
  <2>1. LifePhase = "starting"
    BY <1>5 DEF SpawnFails, LifePhase
  <2>2. CASE k > 1
    <3>1. LifePhase' = "quiet"
      BY <1>5, <2>2 DEF SpawnFails, Goto, LifePhase
    <3> QED
      BY <1>1, <2>1, <3>1 DEF Life!Next, Life!Fail, Life!Turn
  <2>3. CASE ~(k > 1)
    <3>1. LifePhase' = "off"
      BY <1>5, <2>3 DEF SpawnFails, Goto, LifePhase
    <3>2. Alive = {}
      BY <1>2, <1>5, <2>3, NAssumption DEF SpawnFails, IInv, Phase, Gone, Obj, Alive
    <3> QED
      BY <1>1, <2>1, <3>1, <3>2 DEF Life!Next, Life!Off, Life!Turn
  <2> QED
    BY <2>2, <2>3
<1>6. CASE AfterStartThread
  <2>1. LifePhase = "starting"
    BY <1>6 DEF AfterStartThread, LifePhase
  <2>2. CASE k > 1
    <3>1. LifePhase' = "starting"
      BY <1>6, <2>2 DEF AfterStartThread, Goto, LifePhase
    <3> QED
      BY <1>1, <2>1, <3>1 DEF Life!vars
  <2>3. CASE ~(k > 1)
    <3>1. LifePhase' = "on"
      BY <1>6, <2>3 DEF AfterStartThread, Goto, LifePhase, IInv, Phase
    <3>2. Alive = Obj
      BY <1>6 DEF AfterStartThread, IInv, Phase, Waiting, Alive
    <3> QED
      BY <1>1, <2>1, <3>1, <3>2 DEF Life!Next, Life!Opened, Life!Turn
  <2> QED
    BY <2>2, <2>3
<1>7. CASE StopAllThread
  <2>1. CASE beginErrorTag
    <3>1. LifePhase = "off" /\ LifePhase' = "off"
      BY <1>7, <2>1 DEF StopAllThread, Goto, LifePhase
    <3> QED
      BY <1>1, <3>1 DEF Life!vars
  <2>2. CASE ~beginErrorTag
    <3>1. LifePhase = "on" /\ LifePhase' = "closing"
      BY <1>7, <2>2 DEF StopAllThread, Goto, LifePhase
    <3> QED
      BY <1>1, <3>1 DEF Life!Next, Life!Close, Life!Turn
  <2> QED
    BY <2>1, <2>2
<1>8. CASE Quiesced
  <2>1. LifePhase = "closing" /\ LifePhase' = "quiet"
    BY <1>8 DEF Quiesced, Goto, LifePhase
  <2>2. Running = {}
    BY <1>8 DEF Quiesced, IInv, Registered, Phase, Running
  <2> QED
    BY <1>1, <2>1, <2>2 DEF Life!Next, Life!Quiesce, Life!Turn
<1>9. CASE Join
  <2>1. LifePhase = "quiet" /\ LifePhase' \in {"quiet", "off"}
    BY <1>9 DEF Join, AfterJoin, Goto, LifePhase, IInv, Phase, UnwindLoop, flags
  <2>2. CASE LifePhase' = "quiet"
    BY <1>1, <2>1, <2>2 DEF Life!vars
  <2>3. CASE LifePhase' = "off"
    <3>1. \A i \in Obj : Gone(i)'
      BY <1>9, <2>3 DEF IInv, TypeOK, StateTypes, ApiLabel, Phase, LifePhase
    <3>2. Alive' = {}
      BY <3>1 DEF Gone, Alive
    <3> QED
      BY <1>1, <2>1, <2>3, <3>2 DEF Life!Next, Life!Off, Life!Turn
  <2> QED
    BY <2>1, <2>2, <2>3
<1> QED
  BY <1>3, <1>4, <1>5, <1>6, <1>7, <1>8, <1>9 DEF Caller

\* The one that creates a thread.
LEMMA LifeOfSpawn ==
  ASSUME IInv, Spawn PROVE Life!Next
<1>1. k \in Obj /\ pc \in [Obj -> Label] /\ pc[k] \in {"none", "exited"}
  BY DEF Spawn, IInv, TypeOK, StateTypes, Phase, Gone, Obj
<1>2. pc' = [pc EXCEPT ![k] = "await"]
  BY DEF Spawn
<1>3. LifePhase = "starting" /\ LifePhase' = "starting"
  BY DEF Spawn, Goto, LifePhase
<1>4. k \notin Alive /\ Alive' = Alive \cup {k} /\ Running' = Running
  BY <1>1, <1>2 DEF Alive, Running
<1> QED
  BY <1>1, <1>3, <1>4 DEF Life!Next, Life!Create

\* A worker's step: only Enter, Return and the last one show.
LEMMA LifeOfWorker ==
  ASSUME IInv, NEW w \in Obj, Worker(w) PROVE [Life!Next]_(Life!vars)
<1> USE DEF Deleting
<1>1. pc \in [Obj -> Label] /\ api \in ApiLabel
  BY DEF IInv, TypeOK, StateTypes
<1>2. LifePhase' = LifePhase
  <2>1. api' = api /\ beginErrorTag' = beginErrorTag
    BY DEF Worker, Poll, Begin, Abandon, Iterate, Park, Leave, Doze, Enter, Return, Throw, Main,
           flags
  <2> QED
    BY <2>1 DEF LifePhase
<1>3. CASE Begin(w) \/ Park(w)
  <2>1. Alive' = Alive /\ Running' = Running
    BY <1>1, <1>3 DEF Begin, Park, Move, Alive, Running
  <2> QED
    BY <1>2, <2>1 DEF Life!vars
<1>4. CASE Iterate(w)
  <2>1. w \in liveStatus
    BY <1>1, <1>4 DEF Iterate, Move, IInv, Phase, Gone, Waiting, StopLoop, UnwindLoop, ApiLabel
  <2>2. Alive' = Alive /\ Running' = Running
    BY <1>1, <1>4, <2>1 DEF Iterate, Move, Alive, Running
  <2> QED
    BY <1>2, <2>2 DEF Life!vars
<1>5. CASE Return(w) \/ Throw(w)
  <2>1. w \in Running /\ Alive' = Alive /\ Running' = Running \ {w}
    BY <1>1, <1>5 DEF Return, Throw, Move, Alive, Running
  <2> QED
    BY <1>2, <2>1 DEF Life!Next, Life!Return
<1>6. CASE Doze(w) \/ Enter(w)
  <2>1. LifePhase = "on"
    BY <1>1, <1>6 DEF Doze, Enter, IInv, Phase, Gone, Waiting, StopLoop, UnwindLoop, ApiLabel, LifePhase
  <2>2. w \in Alive /\ Alive' = Alive /\ Running' \in {Running, Running \cup {w}}
    BY <1>1, <1>6 DEF Doze, Enter, Alive, Running
  <2> QED
    BY <1>2, <2>1, <2>2 DEF Life!Next, Life!Enter, Life!vars
<1>7. CASE Abandon(w) \/ Leave(w)
  <2>1. LifePhase = "quiet"
    BY <1>1, <1>7 DEF Abandon, Leave, Move, IInv, Phase, Gone, Waiting, StopLoop, UnwindLoop,
                      ApiLabel, LifePhase
  <2>2. Alive' = Alive \ {w} /\ Running' = Running
    BY <1>1, <1>7 DEF Abandon, Leave, Move, Alive, Running
  <2> QED
    BY <1>2, <2>1, <2>2 DEF Life!Next, Life!End
<1> QED
  BY <1>3, <1>4, <1>5, <1>6, <1>7 DEF Worker, Poll

LEMMA LifeStep == IInv /\ IInv' /\ [Next]_vars => [Life!Next]_(Life!vars)
<1> SUFFICES ASSUME IInv, IInv', [Next]_vars PROVE [Life!Next]_(Life!vars)
  OBVIOUS
<1>1. CASE UNCHANGED vars
  BY <1>1 DEF vars, Life!vars, LifePhase, Alive, Running
<1>2. CASE StartCall \/ StopAllThread \/ Caller
  <2>1. CASE Spawn
    BY <2>1, LifeOfSpawn
  <2>2. CASE ~Spawn
    <3>1. Alive' = Alive /\ Running' = Running
      <4>1. CASE Construct
        <5>1. /\ k \in Obj /\ pc \in [Obj -> Label] /\ pc[k] \in {"none", "exited"}
              /\ pc' = [pc EXCEPT ![k] = "none"]
          BY <4>1 DEF Construct, IInv, TypeOK, StateTypes, Phase, Gone
        <5> QED
          BY <5>1 DEF Alive, Running
      <4>2. CASE ~Construct
        <5>1. pc' = pc
          BY <1>2, <2>2, <4>2 DEF StartCall, StopAllThread, Caller, StartAllThread, SpawnFails,
             AfterStartThread, Quiesced, BeforeStopThread, StopOne, DestroyDerived, Settled, Destroy,
             Join, units
        <5> QED
          BY <5>1 DEF Alive, Running
      <4> QED
        BY <4>1, <4>2
    <3> QED
      BY <1>2, <2>2, <3>1, LifeOfCaller
  <2> QED
    BY <2>1, <2>2
<1>3. CASE \E i \in Obj : DormantThread(i)
  <2>1. UNCHANGED <<api, beginErrorTag, pc>>
    BY <1>3 DEF DormantThread, flags
  <2> QED
    BY <2>1 DEF Life!vars, LifePhase, Alive, Running
<1>4. CASE \E i \in Obj : Worker(i)
  BY <1>4, LifeOfWorker
<1> QED
  BY <1>1, <1>2, <1>3, <1>4 DEF Next

\* IsLibraryLife: start and stop with their flags, their loops and their barrier are a start
\* and a stop as LibraryLife has them, for any number of components.
THEOREM StartStopIsLibraryLife == Spec => IsLibraryLife
BY LifeInit, LifeStep, Inductive, PTL DEF Spec, IsLibraryLife, Life!Spec

\* What LibraryLife says of its own: no thread without the library, no run() while threads
\* are created or ended.
LEMMA LifeIsClean == Life!Spec => []Life!Clean
<1>1. Life!Init => Life!Clean
  BY DEF Life!Init, Life!Clean
<1>2. Life!Clean /\ [Life!Next]_(Life!vars) => Life!Clean'
  BY DEF Life!Clean, Life!Next, Life!vars, Life!Open, Life!Opened, Life!Fail, Life!Close,
         Life!Quiesce, Life!Off, Life!Turn, Life!Create, Life!Enter, Life!Return, Life!End
<1> QED
  BY <1>1, <1>2, PTL DEF Life!Spec

\* A failed start has joined every thread it created, and a library that is down, starting
\* or behind the barrier runs nothing: Clean, carried over to the code.
THEOREM LibraryIsClean == Spec => []Life!Clean
BY StartStopIsLibraryLife, LifeIsClean, PTL DEF IsLibraryLife

\* A parked worker never resumes, for any number of components.
THEOREM ParkedStays == Spec => ParkedNeverResumes
<1>1. IInv /\ [Next]_vars =>
        [\A i \in Obj : pc[i] = "parked" => pc'[i] \in {"parked", "exited"}]_vars
  <2> SUFFICES ASSUME IInv, [Next]_vars, NEW i \in Obj, pc[i] = "parked"
               PROVE  pc'[i] \in {"parked", "exited"}
    BY DEF vars
  <2>1. CASE UNCHANGED vars
    BY <2>1 DEF vars
  <2>2. CASE StartCall \/ StopAllThread \/ StartAllThread \/ SpawnFails \/ AfterStartThread
             \/ Quiesced \/ BeforeStopThread \/ StopOne \/ DestroyDerived \/ Settled \/ Destroy
             \/ Join
             \/ \E w \in Obj : DormantThread(w)
    BY <2>2 DEF StartCall, StopAllThread, StartAllThread, SpawnFails, AfterStartThread,
                Quiesced, BeforeStopThread, StopOne, DestroyDerived, Settled, Destroy, Join,
                DormantThread
  <2>3. CASE Construct \/ Spawn
    <3>1. pc[k] # "parked" /\ k \in Obj
      BY <2>3, NAssumption DEF IInv, TypeOK, StateTypes, Obj, Phase, Deleting, Gone, Construct, Spawn
    <3>2. PICK x : pc' = [pc EXCEPT ![k] = x]
      BY <2>3 DEF Construct, Spawn
    <3> QED
      BY <3>1, <3>2 DEF IInv, TypeOK, StateTypes
  <2>4. ASSUME NEW w \in Obj, Worker(w) PROVE pc'[i] \in {"parked", "exited"}
    <3>1. threadExitTag
      BY DEF IInv, TypeOK, StateTypes, ApiLabel, Phase, Deleting, Gone, Waiting, UnwindLoop
    <3> QED
      BY <2>4, <3>1 DEF IInv, TypeOK, StateTypes, Worker, Poll, Move, Begin, Abandon, Iterate,
                        Park, Leave, Doze, Enter, Return, Throw
  <2> QED
    BY <2>1, <2>2, <2>3, <2>4 DEF Next, Caller
<1> QED
  BY <1>1, Inductive, PTL DEF Spec, ParkedNeverResumes

===============================================================================
