----------------------------- MODULE SamplingQueue -----------------------------
(***************************************************************************)
(* The frames on their way from the application to the manager                *)
(* (m_FrameQueueSampling in TOFrameManager.cpp).  The application appends to a  *)
(* std::vector from which the manager deletes all frames but the newest, hands   *)
(* that one to the pool and clears the vector; the mutex calls around both are    *)
(* commented out.  The vector is its storage and where its content ends.  Each    *)
(* operation reads the end and stores it later, and an append that finds the      *)
(* storage full moves the content to one of twice the size and frees the old:     *)
(* nothing reserves room, so the very first frames do.  Operations that overlap   *)
(* are a data race.  What a build does after one, freed storage in use, has no    *)
(* model: it ends there.                                                        *)
(*                                                                         *)
(* Frames are numbered as they are sampled.  The pool itself is in FramePool.      *)
(***************************************************************************)
EXTENDS Naturals, FiniteSets

CONSTANT MaxFrames   \* bound: frames the application samples

ASSUME SamplingAssumption == MaxFrames \in Nat \ {0}

VARIABLES
  room,      \* cells of the storage of m_FrameQueueSampling
  cell,      \* the storage, 0 where nothing has been written
  finish,    \* how many of its cells are content
  apc,       \* where the application's call of sampling is
  newest,    \* the last frame it created
  at,        \* the end its push_back has read
  mpc,       \* where the manager's sampling is
  end,       \* the end its erase has read
  handed,    \* frames appended to m_FrameQueueWorking
  deleted,   \* frames whose cv::Mat has been deleted
  appended,  \* history: frames whose push_back has returned
  inWindow,  \* history: those that came after the manager had seen a single frame
  race       \* history: an append met an erase or a clear, or moved what was in use

storage == <<room, cell>>
application == <<apc, newest, at, appended, inWindow>>
manager == <<mpc, end, handed, deleted>>
vars == <<storage, finish, application, manager, race>>

Frame == 1..MaxFrames
Cell == 0..room-1
Queue == {cell[i] : i \in {j \in Cell : j < finish}}

Init ==
  /\ room = 0 /\ cell = [i \in Cell |-> 0]
  /\ finish = 0
  /\ apc = "idle" /\ newest = 0 /\ at = 0
  /\ mpc = "wait" /\ end = 0
  /\ handed = {} /\ deleted = {}
  /\ appended = {} /\ inWindow = {}
  /\ race = FALSE

-----------------------------------------------------------------------------
(* The application: sampling(pBGRA, ...)                                    *)

Create ==
  /\ apc = "idle" /\ mpc # "destroyed"
  /\ newest < MaxFrames
  /\ newest' = newest + 1
  /\ apc' = "push"
  /\ UNCHANGED <<storage, finish, at, appended, inWindow, manager, race>>

\* push_back reads where the content ends.
PushRead ==
  /\ apc = "push"
  /\ at' = finish
  /\ apc' = "pushing"
  /\ race' = (mpc = "erasing")
  /\ UNCHANGED <<storage, finish, newest, appended, inWindow, manager>>

\* Its return: the first frame is still to be copied.
Appended ==
  /\ apc' = IF newest = 1 THEN "sample" ELSE "idle"
  /\ appended' = appended \cup {newest}
  /\ inWindow' = IF mpc \in {"hand", "handing", "clear"} THEN inWindow \cup {newest}
                                                         ELSE inWindow
  /\ race' = (mpc = "erasing")

\* Mutant: the end is stored one too far.
PushStoreFar ==
  /\ apc = "pushing" /\ at < room
  /\ cell' = [cell EXCEPT ![at] = newest]
  /\ finish' = at + 2
  /\ Appended
  /\ UNCHANGED <<room, newest, at, manager>>

\* Where there is room the frame is put and the end stored.
PushStore ==
  /\ apc = "pushing" /\ at < room
  /\ cell' = [cell EXCEPT ![at] = newest]
  /\ finish' = at + 1
  /\ Appended
  /\ UNCHANGED <<room, newest, at, manager>>

\* Where there is none the content and the frame move to a larger storage, and the old one
\* is freed under a manager that stands in it ...
PushMove ==
  /\ apc = "pushing" /\ at = room
  /\ room' = IF room = 0 THEN 1 ELSE 2 * room
  /\ cell' = [i \in 0..room'-1 |-> IF i < at THEN cell[i] ELSE IF i = at THEN newest ELSE 0]
  /\ apc' = "moved"
  /\ race' = (mpc \in {"deleting", "erasing", "handing"})
  /\ UNCHANGED <<finish, newest, at, appended, inWindow, manager>>

\* ... and then the end is stored.
PushEnd ==
  /\ apc = "moved"
  /\ finish' = at + 1
  /\ Appended
  /\ UNCHANGED <<storage, newest, at, manager>>

\* The first frame becomes m_simlarSample: its data is used once more.
CopySample ==
  /\ apc = "sample"
  /\ apc' = "idle"
  /\ UNCHANGED <<storage, finish, newest, at, appended, inWindow, manager, race>>

-----------------------------------------------------------------------------
(* The manager: sampling()                                                  *)

\* A frame has come, or the storage is being changed and size() is anything but 0.
SeeFrame ==
  /\ mpc = "wait"
  /\ finish > 0 \/ apc = "moved"
  /\ mpc' = "test"
  /\ UNCHANGED <<storage, finish, application, end, handed, deleted, race>>

\* Mutant: the manager looks for a second frame once only.
TestOnce ==
  /\ mpc = "test"
  /\ mpc' = IF finish > 1 /\ deleted = {} THEN "delete" ELSE "hand"
  /\ race' = (apc = "moved")
  /\ UNCHANGED <<storage, finish, application, end, handed, deleted>>

\* while(m_FrameQueueSampling.size() > 1)
Test ==
  /\ mpc = "test"
  /\ mpc' = IF finish > 1 THEN "delete" ELSE "hand"
  /\ race' = (apc = "moved")
  /\ UNCHANGED <<storage, finish, application, end, handed, deleted>>

\* The address of m_FrameQueueSampling[0] is taken, to delete or to append what is there.
TakeHead ==
  /\ mpc \in {"delete", "hand"}
  /\ mpc' = IF mpc = "delete" THEN "deleting" ELSE "handing"
  /\ race' = (apc = "moved")
  /\ UNCHANGED <<storage, finish, application, end, handed, deleted>>

\* Mutants: the newest frame is deleted and the oldest erased, or none is deleted.
DeleteNone ==
  /\ mpc = "deleting"
  /\ mpc' = "erase"
  /\ UNCHANGED <<storage, finish, application, end, handed, deleted, race>>
DeleteHeadNewest ==
  /\ mpc = "deleting"
  /\ deleted' = deleted \cup {cell[finish - 1]}
  /\ mpc' = "erase"
  /\ UNCHANGED <<storage, finish, application, end, handed, race>>

DeleteHead ==
  /\ mpc = "deleting"
  /\ deleted' = deleted \cup {cell[0]}
  /\ mpc' = "erase"
  /\ UNCHANGED <<storage, finish, application, end, handed, race>>

\* erase moves the frames behind the first down, then stores the new end.
EraseMove ==
  /\ mpc = "erase"
  /\ cell' = [i \in Cell |-> IF i + 1 < finish THEN cell[i + 1] ELSE cell[i]]
  /\ end' = finish
  /\ mpc' = "erasing"
  /\ race' = (apc \in {"pushing", "moved"})
  /\ UNCHANGED <<room, finish, application, handed, deleted>>

EraseStore ==
  /\ mpc = "erasing"
  /\ finish' = end - 1
  /\ mpc' = "test"
  /\ race' = (apc \in {"pushing", "moved"})
  /\ UNCHANGED <<storage, application, end, handed, deleted>>

HandOver ==
  /\ mpc = "handing"
  /\ handed' = handed \cup {cell[0]}
  /\ mpc' = "clear"
  /\ UNCHANGED <<storage, finish, application, end, deleted, race>>

\* clear deletes nothing: what came meanwhile is dropped.
Clear ==
  /\ mpc = "clear"
  /\ finish' = 0
  /\ mpc' = "wait"
  /\ race' = (apc \in {"pushing", "moved"})
  /\ UNCHANGED <<storage, application, end, handed, deleted>>

\* ~TOFrameManager, the thread joined: the frames still queued are deleted.
Destroy ==
  /\ mpc = "wait" /\ apc = "idle"
  /\ deleted' = deleted \cup Queue
  /\ finish' = 0
  /\ mpc' = "destroyed"
  /\ UNCHANGED <<storage, application, end, handed, race>>

Application == Create \/ PushRead \/ PushStore \/ PushMove \/ PushEnd \/ CopySample
Manager ==
  \/ SeeFrame \/ Test \/ TakeHead
  \/ DeleteHead \/ EraseMove \/ EraseStore
  \/ HandOver \/ Clear

\* After a race the behaviour of the code is undefined.
Next == ~race /\ (Application \/ Manager \/ Destroy)

Spec == Init /\ [][Next]_vars

-----------------------------------------------------------------------------
\* Neither end is ever beyond the storage, however it grows.
TypeOK ==
  /\ room \in Nat
  /\ cell \in [Cell -> 0..MaxFrames]
  /\ finish \in 0..room
  /\ apc \in {"idle", "push", "pushing", "moved", "sample"}
  /\ newest \in 0..MaxFrames
  /\ at \in 0..room
  /\ mpc \in {"wait", "test", "delete", "deleting", "erase", "erasing", "hand", "handing",
              "clear", "destroyed"}
  /\ end \in 0..room
  /\ handed \subseteq Frame /\ deleted \subseteq Frame
  /\ appended \subseteq Frame /\ inWindow \subseteq Frame
  /\ race \in BOOLEAN

\* Unless an append overlapped an erase or a clear, or moved the storage while the manager
\* read from it: the frame about to be deleted has not been deleted before and is nowhere
\* else, the frame handed over is alive and new to the pool, and the first frame is alive
\* when it is copied.
NoUseAfterDelete ==
  ~race =>
    /\ mpc \in {"delete", "deleting", "hand", "handing"} =>
         cell[0] \in appended \ (deleted \cup handed)
    /\ handed \cap deleted = {}
    /\ apc = "sample" => newest \notin deleted

\* Under the same condition no frame's memory is lost but that of a frame appended after the
\* manager had seen a single one in the queue and before it cleared it.
OnlyWindowLeaks ==
  ~race => appended \ (Queue \cup handed \cup deleted) \subseteq inWindow

\* The pool gets frames in the order they were sampled, and of those appended before the
\* last look at the queue the newest.
HandedInOrder ==
  [][~race =>
     \A f \in handed' \ handed :
       (\A g \in handed : g < f) /\ (\A g \in appended \ inWindow : g <= f)]_vars

-----------------------------------------------------------------------------
(* Inductive strengthening: what holds until a race.                          *)

\* An append and an erase find the end they have read, and the manager the frames it has
\* seen.
Ends ==
  /\ apc \in {"pushing", "moved"} => at = finish
  /\ apc = "moved" => at < room /\ cell[at] = newest
  /\ mpc = "test" => finish >= 1 \/ apc = "moved"
  /\ mpc \in {"hand", "handing", "clear"} => finish >= 1
  /\ mpc \in {"delete", "deleting", "erase", "erasing"} => finish >= 2
  /\ mpc = "erasing" => end = finish

\* The first frame is alone in the queue until its copy is made.
FirstFrame ==
  /\ newest = 0 => apc = "idle" /\ finish = 0 /\ mpc \in {"wait", "destroyed"}
  /\ newest = 1 /\ apc \in {"push", "pushing", "moved"} =>
       finish = 0 /\ (mpc = "wait" \/ (mpc = "test" /\ apc = "moved"))
  /\ newest <= 1 /\ (apc # "idle" \/ newest = 0) => finish <= 1 /\ deleted = {}
  /\ apc = "sample" => newest = 1 /\ mpc \notin {"delete", "deleting", "erase", "erasing"}

\* How many cells are content once an erase under way is through.
Content == IF mpc = "erasing" THEN finish - 1 ELSE finish

\* Frames are queued in order, and everything appended earlier has left the queue.
Ordered ==
  /\ appended = {f \in Frame : f < newest \/ (f = newest /\ apc \in {"idle", "sample"})}
  /\ inWindow \subseteq appended /\ handed \subseteq appended /\ deleted \subseteq appended
  /\ \A i \in Cell : i < Content => cell[i] \in appended
  /\ \A i, j \in Cell : i < j /\ j < Content => cell[i] < cell[j]
  /\ \A i \in Cell : i < Content =>
       /\ \A f \in deleted : f < cell[i] \/ (f = cell[i] /\ i = 0 /\ mpc = "erase")
       /\ \A f \in handed : f < cell[i] \/ (f = cell[i] /\ i = 0 /\ mpc = "clear")

Accounted ==
  /\ handed \cap deleted = {}
  /\ mpc = "erase" => cell[0] \in deleted
  /\ mpc = "clear" => cell[0] \in handed
  /\ \A f \in appended : \/ f \in handed \cup deleted \cup inWindow
                          \/ \E i \in Cell : i < Content /\ cell[i] = f

\* Behind the frame the manager hands over are only frames of the window.
Window ==
  mpc \in {"hand", "handing", "clear"} =>
    /\ \A g \in appended \ inWindow : g <= cell[0]
    /\ \A i \in Cell : 0 < i /\ i < finish => cell[i] \in inWindow

Serial == Ends /\ FirstFrame /\ Ordered /\ Accounted /\ Window

IInv == TypeOK /\ (~race => Serial)

=============================================================================
