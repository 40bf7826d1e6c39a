------------------------------ MODULE FramePool -------------------------------
(***************************************************************************)
(* The pool of recent frames (m_FrameQueueWorking in src/src/              *)
(* TOFrameManager.cpp): the manager thread appends the frame it sampled and *)
(* deletes the oldest beyond m_PoolDepth; the tracker, the detector and the *)
(* application extract the current frame, use it outside the lock and       *)
(* relieve it.  A reference count per frame (m_refCount, TOFaceType.h) keeps *)
(* a frame that is in use from being deleted.                               *)
(*                                                                         *)
(* Frames are the addresses of their cv::Mat; the allocator may hand out a   *)
(* freed address again.  The mutex is held across steps only by the manager: *)
(* while it appends, and while it waits for the oldest frame's count.        *)
(***************************************************************************)
EXTENDS Naturals, Sequences, FiniteSets

CONSTANTS
  Addr,        \* addresses of frame buffers
  NoAddr,      \* no frame
  Consumers,   \* threads that extract frames
  PoolDepth,   \* m_PoolDepth
  HoldLimit,   \* frames appended while a consumer extracts, uses and relieves one
  MaxThrows    \* bound: cv::Exceptions that leave a consumer without relieving

ASSUME PoolAssumption ==
  /\ PoolDepth \in Nat \ {0, 1}          \* setPoolDepth refuses less
  /\ HoldLimit \in Nat \ {0}
  /\ MaxThrows \in Nat
  /\ IsFiniteSet(Consumers)
  /\ NoAddr \notin Addr

VARIABLES
  working,     \* m_FrameQueueWorking, oldest first
  ref,         \* m_refCount of each frame
  mgr,         \* where the manager thread is
  cpc,         \* where each consumer is
  index,       \* position it will extract, from the size it read without the lock
  frame,       \* the frame it extracted
  age,         \* ghost: frames appended since it read the size
  leaked,      \* ghost: references an exception left behind, per frame
  throws       \* exceptions so far

vars == <<working, ref, mgr, cpc, index, frame, age, leaked, throws>>
pool == <<working, ref, mgr>>
users == <<cpc, index, frame, age>>
faults == <<leaked, throws>>

\* wait1 and wait2: waiting for the oldest frame's count, the mutex held.
MgrLabel == {"prepare", "sampling", "pushing", "removing", "wait1", "wait2",
             "destroy", "aborted"}
UserLabel == {"idle", "sized", "holding"}

Locked == mgr \in {"pushing", "wait1", "wait2"}
InPool(a) == \E i \in 1..Len(working) : working[i] = a
Active(c) == cpc[c] # "idle"
Holders(a) == {c \in Consumers : cpc[c] = "holding" /\ frame[c] = a}

Init ==
  /\ working = <<>>
  /\ ref = [a \in Addr |-> 0]
  /\ mgr = "prepare"
  /\ cpc = [c \in Consumers |-> "idle"]
  /\ index = [c \in Consumers |-> 0]
  /\ frame = [c \in Consumers |-> NoAddr]
  /\ age = [c \in Consumers |-> 0]
  /\ leaked = [a \in Addr |-> 0]
  /\ throws = 0

-----------------------------------------------------------------------------
(* The manager thread                                                       *)

\* prepare: a first frame has been sampled, so the status becomes NORMAL.
Prepare ==
  /\ mgr = "prepare"
  /\ mgr' = "sampling"
  /\ UNCHANGED <<working, ref, users, faults>>

\* sampling: take the mutex to append the sampled frame.
PushBegin ==
  /\ mgr = "sampling"
  /\ \A c \in Consumers : Active(c) => age[c] < HoldLimit
  /\ mgr' = "pushing"
  /\ UNCHANGED <<working, ref, users, faults>>

PushEnd(a) ==
  /\ mgr = "pushing"
  /\ ~InPool(a)
  /\ working' = Append(working, a)
  /\ ref' = [ref EXCEPT ![a] = 0]
  /\ leaked' = [leaked EXCEPT ![a] = 0]
  /\ age' = [c \in Consumers |-> IF Active(c) THEN age[c] + 1 ELSE age[c]]
  /\ mgr' = "removing"
  /\ UNCHANGED <<cpc, index, frame, throws>>

\* sampling: no frame came within the frame interval (never the first time).
NoFrame ==
  /\ mgr = "sampling"
  /\ working # <<>>
  /\ mgr' = "removing"
  /\ UNCHANGED <<working, ref, users, faults>>

\* Mutant: one frame too many is kept.
RemoveBeginLate ==
  /\ mgr = "removing"
  /\ mgr' = IF Len(working) > PoolDepth + 1 THEN "wait1" ELSE "sampling"
  /\ UNCHANGED <<working, ref, users, faults>>

\* remove: take the mutex; delete up to two of the oldest beyond m_PoolDepth.
RemoveBegin ==
  /\ mgr = "removing"
  /\ mgr' = IF Len(working) > PoolDepth THEN "wait1" ELSE "sampling"
  /\ UNCHANGED <<working, ref, users, faults>>

\* Mutant: the frame is erased although remove() found it in use.
RemoveHeadInUse ==
  /\ mgr \in {"wait1", "wait2"}
  /\ working' = Tail(working)
  /\ mgr' = IF mgr = "wait1" /\ Len(working) - 1 > PoolDepth THEN "wait2" ELSE "sampling"
  /\ UNCHANGED <<ref, users, faults>>

\* Mutant: the newest frame is erased.
RemoveHeadNewest ==
  /\ mgr \in {"wait1", "wait2"}
  /\ ref[Head(working)] = 0
  /\ working' = SubSeq(working, 1, Len(working) - 1)
  /\ mgr' = IF mgr = "wait1" /\ Len(working) - 1 > PoolDepth THEN "wait2" ELSE "sampling"
  /\ UNCHANGED <<ref, users, faults>>

\* TO_QUEUE_FRAME::remove(.., true) returns once m_refCount has fallen to 0.
RemoveHead ==
  /\ mgr \in {"wait1", "wait2"}
  /\ ref[Head(working)] = 0
  /\ working' = Tail(working)
  /\ mgr' = IF mgr = "wait1" /\ Len(working) - 1 > PoolDepth THEN "wait2" ELSE "sampling"
  /\ UNCHANGED <<ref, users, faults>>

\* TO_Face_Tracker_Stop has joined the threads: ~TOFrameManager runs.
Destroy ==
  /\ mgr \in {"prepare", "sampling"}
  /\ \A c \in Consumers : ~Active(c)
  /\ mgr' = "destroy"
  /\ UNCHANGED <<working, ref, users, faults>>

\* It deletes the frames one by one, waiting for each count in the same way.
DestroyHead ==
  /\ mgr = "destroy"
  /\ working # <<>>
  /\ ref[Head(working)] = 0
  /\ working' = Tail(working)
  /\ UNCHANGED <<ref, mgr, users, faults>>

\* The next Start constructs a new manager.
Restart ==
  /\ mgr = "destroy"
  /\ working = <<>>
  /\ mgr' = "prepare"
  /\ UNCHANGED <<working, ref, users, faults>>

-----------------------------------------------------------------------------
(* A consumer                                                               *)

\* extractCurrentFrameInUse reads size() without the mutex.  While the manager
\* appends, the read may see the old or the new size; when the append moves the
\* full buffer the two pointers it subtracts may be of different buffers, and the
\* difference is then larger than any size.
ReadSize(c) ==
  /\ cpc[c] = "idle"
  /\ mgr \notin {"prepare", "destroy", "aborted"}
  /\ cpc' = [cpc EXCEPT ![c] = "sized"]
  /\ age' = [age EXCEPT ![c] = 0]
  /\ \/ index' = [index EXCEPT ![c] = Len(working)]
     \/ mgr = "pushing" /\ index' = [index EXCEPT ![c] = Len(working) + 1]
     \/ mgr = "pushing" /\ Len(working) = PoolDepth
                        /\ index' = [index EXCEPT ![c] = PoolDepth + 2]
  /\ UNCHANGED <<pool, frame, faults>>

\* Mutant: an index out of range gives the oldest frame.
PickOldest(c) ==
  IF index[c] \in 1..Len(working) THEN working[index[c]] ELSE working[1]

\* extractIndexFrameInUse: an index out of range gives the newest frame.  (With no
\* frame read, index 0 stands for size() - 1 wrapped around.)
Pick(c) ==
  IF index[c] \in 1..Len(working) THEN working[index[c]] ELSE working[Len(working)]

Extract(c) ==
  /\ cpc[c] = "sized"
  /\ ~Locked /\ mgr # "aborted"
  /\ working # <<>>
  /\ ref' = [ref EXCEPT ![Pick(c)] = @ + 1]
  /\ frame' = [frame EXCEPT ![c] = Pick(c)]
  /\ cpc' = [cpc EXCEPT ![c] = "holding"]
  /\ UNCHANGED <<working, mgr, index, age, faults>>

\* assert(m_FrameQueueWorking.size()) fails and ends the process.
ExtractEmpty(c) ==
  /\ cpc[c] = "sized"
  /\ ~Locked /\ mgr # "aborted"
  /\ working = <<>>
  /\ mgr' = "aborted"
  /\ UNCHANGED <<working, ref, users, faults>>

\* What is left of the locals of a call that extracted a frame.
Forget(c) ==
  /\ cpc' = [cpc EXCEPT ![c] = "idle"]
  /\ index' = [index EXCEPT ![c] = 0]
  /\ frame' = [frame EXCEPT ![c] = NoAddr]
  /\ age' = [age EXCEPT ![c] = 0]

\* Mutants: the newest frame is relieved, the count is not written back, or the
\* loop goes on to the assertion's caller and relieves a second time.
RelieveNewest(c) ==
  /\ cpc[c] = "holding"
  /\ ~Locked /\ mgr # "aborted"
  /\ ref' = [ref EXCEPT ![working[Len(working)]] = @ - 1]
  /\ Forget(c)
  /\ UNCHANGED <<working, mgr, faults>>
RelieveCopy(c) ==
  /\ cpc[c] = "holding"
  /\ ~Locked /\ mgr # "aborted"
  /\ Forget(c)
  /\ UNCHANGED <<pool, faults>>
RelieveTwice(c) ==
  /\ cpc[c] = "holding"
  /\ ~Locked /\ mgr # "aborted"
  /\ ref' = [ref EXCEPT ![frame[c]] = @ - 2]
  /\ Forget(c)
  /\ UNCHANGED <<working, mgr, faults>>

\* relieveFrameInUse finds the frame by its address and lowers its count.
Relieve(c) ==
  /\ cpc[c] = "holding"
  /\ ~Locked /\ mgr # "aborted"
  /\ IF InPool(frame[c])
     THEN ref' = [ref EXCEPT ![frame[c]] = @ - 1] /\ UNCHANGED mgr
     ELSE mgr' = "aborted" /\ UNCHANGED ref        \* assert(false)
  /\ Forget(c)
  /\ UNCHANGED <<working, faults>>

\* A cv::Exception ends run() before the frame is relieved; threadMain swallows it.
Throw(c) ==
  /\ cpc[c] = "holding"
  /\ mgr # "aborted"
  /\ throws < MaxThrows
  /\ throws' = throws + 1
  /\ leaked' = [leaked EXCEPT ![frame[c]] = @ + 1]
  /\ Forget(c)
  /\ UNCHANGED pool

-----------------------------------------------------------------------------
Manager ==
  \/ Prepare \/ PushBegin \/ NoFrame \/ RemoveBegin \/ RemoveHead
  \/ DestroyHead \/ Restart
  \/ \E a \in Addr : PushEnd(a)

Use(c) == Extract(c) \/ ExtractEmpty(c) \/ Relieve(c)

Ended == mgr = "aborted" /\ UNCHANGED vars

Next ==
  \/ Manager \/ Destroy \/ Ended
  \/ \E c \in Consumers : ReadSize(c) \/ Use(c) \/ Throw(c)

\* The manager is scheduled and a consumer that holds a frame goes on; the mutex is
\* not fair.  Nothing makes a consumer begin, the library stop or a call throw.
Fairness == WF_vars(Manager) /\ \A c \in Consumers : WF_vars(Use(c))

Spec == Init /\ [][Next]_vars /\ Fairness

-----------------------------------------------------------------------------
TypeOK ==
  /\ working \in Seq(Addr)
  /\ ref \in [Addr -> Nat]
  /\ mgr \in MgrLabel
  /\ cpc \in [Consumers -> UserLabel]
  /\ index \in [Consumers -> Nat]
  /\ frame \in [Consumers -> Addr \cup {NoAddr}]
  /\ age \in [Consumers -> 0..HoldLimit]
  /\ leaked \in [Addr -> Nat]
  /\ throws \in 0..MaxThrows

\* A frame's count is the number of consumers that hold it and of exceptions that
\* left it unrelieved, although the size an extraction uses is read without the lock.
RefCountExact ==
  \A i \in 1..Len(working) :
    ref[working[i]] = Cardinality(Holders(working[i])) + leaked[working[i]]

\* The frame a consumer works on is at least as new as the newest one at the moment
\* it read the size: only frames appended since then can be newer.
Fresh ==
  \A c \in Consumers : cpc[c] = "holding" =>
    \E i \in 1..Len(working) : working[i] = frame[c] /\ Len(working) - i <= age[c]

\* The pool is back at its depth whenever the manager starts a new loop.
PoolBounded ==
  /\ Len(working) <= PoolDepth + 1
  /\ mgr = "sampling" => Len(working) <= PoolDepth

\* relieveFrameInUse never reaches its assert(false), and extractIndexFrameInUse
\* fails its assertion only while the pool has never received a frame.
AbortsOnlyUnfed == mgr = "aborted" => working = <<>>

\* A reference on the oldest frame that the manager will never see given back ...
Leaked == working # <<>> /\ leaked[Head(working)] > 0

\* ... and a consumer that has kept that frame for m_PoolDepth frame intervals, one more
\* than TOFrameManager.h:39-42 takes for the longest time a frame is kept.
KeptTooLong ==
  working # <<>>
  /\ \E c \in Consumers : cpc[c] = "holding" /\ frame[c] = Head(working) /\ age[c] >= PoolDepth

\* Nothing but a leaked reference and a consumer that slow makes remove() wait, with the
\* mutex held, for the frame it deletes.
WaitsOnlyForSlow ==
  mgr \in {"wait1", "wait2"} /\ ref[Head(working)] # 0 => Leaked \/ KeptTooLong

\* "waiting frame not in use" (TOFaceType.h:283): the wait for the oldest frame ends.
RemoveWaitEnds == (mgr \in {"wait1", "wait2"}) ~> (mgr \notin {"wait1", "wait2"})

\* In remove() the manager comes back to its loop, unless it waits for one of the two; the
\* destructor, whose threads have been joined and hold nothing, ends if nothing was leaked.
RemoveEnds == (mgr = "removing") ~> (mgr = "sampling" \/ Leaked \/ KeptTooLong)
DestroyEnds == (mgr = "destroy") ~> (mgr = "prepare" \/ Leaked)

\* Every wait of the manager for counts to fall ends, but for what leaked or is kept too long.
ManagerProceeds == RemoveEnds /\ DestroyEnds

\* The pool is a FrameStore to its users: whatever the unlocked read of the size, the
\* counts and the two deletions in a row make of it, frames leave oldest first, none
\* while somebody works on it, and the pool is at most one frame over its depth.
Store == INSTANCE FrameStore WITH
  Frames <- Addr, NoFrame <- NoAddr, Users <- Consumers, Depth <- PoolDepth,
  stored <- working, kept <- frame

IsFrameStore == Store!Spec

-----------------------------------------------------------------------------
(* Inductive strengthening.                                                  *)

Distinct ==
  \A i, j \in 1..Len(working) : working[i] = working[j] => i = j

\* What Fresh becomes of while the index has been read and not yet used.
SizedFresh ==
  \A c \in Consumers : cpc[c] = "sized" /\ index[c] \in 1..Len(working) =>
    Len(working) - index[c] <= age[c]

\* How long the pool is, and who may use it, in each phase of the manager.
Phase ==
  /\ Len(working) <= PoolDepth + 1
  /\ mgr \in {"sampling", "pushing", "destroy"} => Len(working) <= PoolDepth
  /\ mgr = "wait1" => Len(working) = PoolDepth + 1
  /\ mgr # "wait2"
  /\ mgr \in {"prepare", "aborted"} => working = <<>>
  /\ mgr \in {"prepare", "destroy"} => \A c \in Consumers : ~Active(c)
  /\ mgr = "pushing" => \A c \in Consumers : Active(c) => age[c] < HoldLimit
  /\ throws = 0 => \A a \in Addr : leaked[a] = 0

\* A consumer keeps a frame only between extraction and relief.
KeptWhileHolding == \A c \in Consumers : cpc[c] # "holding" => frame[c] = NoAddr

IInv ==
  /\ TypeOK /\ Distinct /\ SizedFresh /\ Phase /\ KeptWhileHolding
  /\ RefCountExact /\ Fresh

=============================================================================
