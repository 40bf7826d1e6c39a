-------------------------- MODULE SamplingQueueProofs --------------------------
(* The sampling queue for any number of frames and however often its storage moves. *)
EXTENDS SamplingQueue, TLAPS

USE SamplingAssumption DEF storage, application, manager, Frame, Cell

-----------------------------------------------------------------------------
(* Types                                                                    *)

LEMMA InitTyped == Init => TypeOK
<1> SUFFICES ASSUME Init PROVE TypeOK
  OBVIOUS
<1>1. room = 0 /\ race = FALSE
  BY DEF Init
<1>2. race \in BOOLEAN
  BY <1>1
<1>3. cell \in [Cell -> 0..MaxFrames]
  BY <1>1 DEF Init
<1> QED
  BY <1>1, <1>2, <1>3 DEF Init, TypeOK

\* A frame is created, or the first one copied, or the end read for an append.
LEMMA CreateTyped ==
  ASSUME TypeOK, Create \/ CopySample \/ PushRead PROVE TypeOK'
<1>1. race' \in BOOLEAN
  BY DEF Create, CopySample, PushRead, TypeOK
<1>2. newest' \in 0..MaxFrames
  BY DEF Create, CopySample, PushRead, TypeOK
<1> QED
  BY <1>1, <1>2 DEF Create, CopySample, PushRead, TypeOK

LEMMA AppendedTyped ==
  ASSUME TypeOK, newest \in Frame, Appended
  PROVE  /\ apc' \in {"sample", "idle"} /\ race' \in BOOLEAN
         /\ appended' \subseteq Frame /\ inWindow' \subseteq Frame
BY DEF Appended, TypeOK

\* An append: the end it stores is inside the storage it has, moved or not.
LEMMA PushTyped ==
  ASSUME TypeOK, Ends, FirstFrame, PushStore \/ PushMove \/ PushEnd PROVE TypeOK'
<1>1. newest \in Frame /\ room \in Nat /\ at \in 0..room
  <2>1. apc \in {"pushing", "moved"}
    BY DEF PushStore, PushMove, PushEnd
  <2> QED
    BY <2>1 DEF TypeOK, FirstFrame
<1>2. CASE PushStore
  <2>1. /\ apc' \in {"sample", "idle"} /\ race' \in BOOLEAN
        /\ appended' \subseteq Frame /\ inWindow' \subseteq Frame
    BY <1>1, <1>2, AppendedTyped DEF PushStore
  <2>2. cell' \in [Cell -> 0..MaxFrames] /\ room' = room
    BY <1>1, <1>2 DEF PushStore, TypeOK
  <2> QED
    BY <1>1, <1>2, <2>1, <2>2 DEF PushStore, TypeOK
<1>3. CASE PushMove
  <2>1. room' \in Nat /\ room' > room /\ at = room
    BY <1>1, <1>3 DEF PushMove
  <2>2. cell' = [i \in 0..room'-1 |-> IF i < at THEN cell[i] ELSE IF i = at THEN newest ELSE 0]
    BY <1>3 DEF PushMove
  <2>3. cell' \in [0..room'-1 -> 0..MaxFrames]
    <3>1. ASSUME NEW i \in 0..room'-1
          PROVE  (IF i < at THEN cell[i] ELSE IF i = at THEN newest ELSE 0) \in 0..MaxFrames
      <4>1. CASE i < at
        BY <4>1, <2>1, <1>1 DEF TypeOK
      <4>2. CASE ~(i < at)
        BY <4>2, <1>1
      <4> QED
        BY <4>1, <4>2
    <3> QED
      BY <2>2, <3>1
  <2>4. race' \in BOOLEAN
    BY <1>3 DEF PushMove
  <2> QED
    BY <1>3, <2>1, <2>3, <2>4 DEF PushMove, TypeOK
<1>4. CASE PushEnd
  <2>1. /\ apc' \in {"sample", "idle"} /\ race' \in BOOLEAN
        /\ appended' \subseteq Frame /\ inWindow' \subseteq Frame
    BY <1>1, <1>4, AppendedTyped DEF PushEnd
  <2>2. at < room
    BY <1>4 DEF PushEnd, Ends
  <2> QED
    BY <1>1, <1>4, <2>1, <2>2 DEF PushEnd, TypeOK
<1> QED
  BY <1>2, <1>3, <1>4

\* What stands where there is content is a frame.
LEMMA ContentIsFrames ==
  ASSUME TypeOK, Ordered, NEW i \in Cell, i < Content PROVE cell[i] \in Frame
BY DEF TypeOK, Ordered

LEMMA ManagerTyped ==
  ASSUME TypeOK, Ends, Ordered, Manager \/ Destroy PROVE TypeOK'
<1>1. CASE SeeFrame \/ Test \/ TakeHead
  <2>1. race' \in BOOLEAN
    BY <1>1 DEF SeeFrame, Test, TakeHead, TypeOK
  <2> QED
    BY <1>1, <2>1 DEF SeeFrame, Test, TakeHead, TypeOK
<1>2. CASE DeleteHead
  <2>1. 0 \in Cell /\ 0 < Content
    BY <1>2 DEF DeleteHead, Ends, TypeOK, Content
  <2>2. cell[0] \in Frame
    BY <2>1, ContentIsFrames
  <2> QED
    BY <1>2, <2>2 DEF DeleteHead, TypeOK
<1>3. CASE EraseMove
  <2>1. \A i \in Cell : i + 1 < finish => i + 1 \in Cell
    BY DEF TypeOK
  <2>2. cell' \in [Cell -> 0..MaxFrames] /\ room' = room
    BY <1>3, <2>1 DEF EraseMove, TypeOK
  <2>3. race' \in BOOLEAN
    BY <1>3 DEF EraseMove
  <2> QED
    BY <1>3, <2>2, <2>3 DEF EraseMove, TypeOK
<1>4. CASE EraseStore
  <2>1. race' \in BOOLEAN /\ end >= 2
    BY <1>4 DEF EraseStore, Ends
  <2> QED
    BY <1>4, <2>1 DEF EraseStore, TypeOK
<1>5. CASE HandOver
  <2>1. 0 \in Cell /\ 0 < Content
    BY <1>5 DEF HandOver, Ends, TypeOK, Content
  <2>2. cell[0] \in Frame
    BY <2>1, ContentIsFrames
  <2> QED
    BY <1>5, <2>2 DEF HandOver, TypeOK
<1>6. CASE Clear
  <2>1. race' \in BOOLEAN
    BY <1>6 DEF Clear
  <2> QED
    BY <1>6, <2>1 DEF Clear, TypeOK
<1>7. CASE Destroy
  <2>1. Queue \subseteq Frame
    BY <1>7, ContentIsFrames DEF Destroy, Queue, Content
  <2>2. race' \in BOOLEAN
    BY <1>7 DEF Destroy, TypeOK
  <2> QED
    BY <1>7, <2>1, <2>2 DEF Destroy, TypeOK
<1> QED
  BY <1>1, <1>2, <1>3, <1>4, <1>5, <1>6, <1>7 DEF Manager

LEMMA StepTyped == IInv /\ [Next]_vars => TypeOK'
<1> SUFFICES ASSUME IInv, [Next]_vars PROVE TypeOK'
  OBVIOUS
<1>1. CASE UNCHANGED vars
  BY <1>1 DEF vars, IInv, TypeOK
<1>2. CASE Next
  <2>1. TypeOK /\ Ends /\ FirstFrame /\ Ordered
    BY <1>2 DEF Next, IInv, Serial
  <2> QED
    BY <1>2, <2>1, CreateTyped, PushTyped, ManagerTyped DEF Next, Application
<1> QED
  BY <1>1, <1>2

-----------------------------------------------------------------------------
(* What holds until a race                                                  *)

LEMMA InitSerial == Init => Serial
<1> SUFFICES ASSUME Init PROVE Serial
  OBVIOUS
<1>1. Cell = {}
  BY DEF Init
<1>2. Ordered
  BY <1>1 DEF Init, Ordered, Content
<1> QED
  BY <1>1, <1>2 DEF Init, Serial, Ends, FirstFrame, Accounted, Window, Content

\* A larger storage has a cell for the next frame ...
LEMMA RoomForOne ==
  ASSUME NEW r \in Nat, NEW q \in Nat, r > q PROVE q \in 0..r-1
OBVIOUS

\* ... and the cells of the smaller one.
LEMMA Larger ==
  ASSUME NEW r \in Nat, NEW q \in Nat, r > q
  PROVE  /\ r >= q /\ 0..q-1 \subseteq 0..r-1
         /\ \A i \in 0..r-1 : i \in Nat /\ (i < q => i \in 0..q-1)
OBVIOUS

\* How both kinds of append end.
PushStored ==
  /\ apc \in {"pushing", "moved"} /\ mpc # "erasing" /\ finish' = finish + 1
  /\ finish < room /\ cell'[finish] = newest /\ \A i \in Cell : i < finish => cell'[i] = cell[i]
  /\ apc' = IF newest = 1 THEN "sample" ELSE "idle"
  /\ appended' = appended \cup {newest}
  /\ inWindow' = IF mpc \in {"hand", "handing", "clear"} THEN inWindow \cup {newest}
                                                         ELSE inWindow
  /\ UNCHANGED <<room, newest, at, mpc, end, handed, deleted>>

LEMMA PushIsStored ==
  ASSUME TypeOK, Ends, PushStore \/ PushEnd, ~race' PROVE PushStored
<1>1. CASE PushStore
  <2>1. at = finish /\ at \in Cell /\ mpc # "erasing"
    <3>1. mpc # "erasing"
      BY <1>1 DEF PushStore, Appended
    <3> QED
      BY <1>1, <3>1 DEF PushStore, Ends, TypeOK
  <2>2. cell'[finish] = newest /\ \A i \in Cell : i < finish => cell'[i] = cell[i]
    BY <1>1, <2>1 DEF PushStore, TypeOK
  <2> QED
    BY <1>1, <2>1, <2>2 DEF PushStore, Appended, PushStored
<1>2. CASE PushEnd
  <2>1. mpc # "erasing"
    BY <1>2 DEF PushEnd, Appended
  <2> QED
    BY <1>2, <2>1 DEF PushEnd, Appended, PushStored, Ends, TypeOK
<1> QED
  BY <1>1, <1>2

LEMMA PushStoredEnds ==
  ASSUME TypeOK, Ends, FirstFrame, PushStored PROVE Ends' /\ FirstFrame'
<1>1. newest # 0 /\ finish \in Nat /\ finish' \in Nat /\ apc' \in {"sample", "idle"}
  BY DEF PushStored, FirstFrame, TypeOK
<1>2. Ends'
  BY <1>1 DEF PushStored, Ends
<1>3. CASE newest = 1
  <2>1. finish' = 1 /\ apc' = "sample" /\ mpc' \in {"wait", "test"} /\ deleted' = {}
    BY <1>1, <1>3 DEF PushStored, FirstFrame
  <2> QED
    BY <1>2, <1>3, <2>1 DEF FirstFrame, PushStored
<1>4. CASE newest # 1
  BY <1>1, <1>2, <1>4 DEF FirstFrame, PushStored
<1> QED
  BY <1>3, <1>4

\* Where the ends are, and that the first frame is alone.
LEMMA ApplicationEnds ==
  ASSUME TypeOK, Serial, Application, ~race' PROVE Ends' /\ FirstFrame'
<1> USE DEF Serial, Ends, FirstFrame, TypeOK
<1>1. CASE Create
  <2>1. newest' = 1 => newest = 0
    BY <1>1 DEF Create
  <2> QED
    BY <1>1, <2>1 DEF Create
<1>2. CASE CopySample
  BY <1>2 DEF CopySample
<1>3. CASE PushRead
  BY <1>3 DEF PushRead
<1>5. CASE PushMove
  <2>1. /\ apc = "pushing" /\ apc' = "moved" /\ at = room /\ room \in Nat /\ room' \in Nat
        /\ room' > room /\ at = finish
        /\ UNCHANGED <<finish, newest, at, mpc, end, deleted>>
    <3>1. apc = "pushing" /\ at = room /\ room \in Nat /\ room' = IF room = 0 THEN 1 ELSE 2 * room
      BY <1>5 DEF PushMove
    <3>2. room' \in Nat /\ room' > room
      BY <3>1
    <3> QED
      BY <1>5, <3>1, <3>2 DEF PushMove
  <2>2. at' < room' /\ at \in 0..room'-1 /\ ~(at < at)
    <3>1. at \in 0..room'-1
      BY <2>1, RoomForOne
    <3>2. at' < room'
      BY <2>1
    <3>3. ~(at < at)
      BY <2>1
    <3> QED
      BY <3>1, <3>2, <3>3
  <2>3. cell' = [i \in 0..room'-1 |-> IF i < at THEN cell[i] ELSE IF i = at THEN newest ELSE 0]
    BY <1>5 DEF PushMove
  <2>4. cell'[at'] = newest'
    BY <2>1, <2>2, <2>3
  <2> QED
    BY <2>1, <2>2, <2>4
<1>4. CASE PushStore \/ PushEnd
  BY <1>4, PushIsStored, PushStoredEnds
<1> QED
  BY <1>1, <1>2, <1>3, <1>4, <1>5 DEF Application

LEMMA ManagerEnds ==
  ASSUME TypeOK, Serial, Manager \/ Destroy, ~race' PROVE Ends' /\ FirstFrame'
<1>0. Ends /\ FirstFrame
  BY DEF Serial
<1> USE DEF Ends, FirstFrame, TypeOK
<1>1. CASE SeeFrame
  BY <1>0, <1>1 DEF SeeFrame
<1>2. CASE Test
  <2>1. /\ mpc = "test" /\ apc # "moved" /\ finish >= 1 /\ finish \in Nat
        /\ mpc' \in {"delete", "hand"} /\ (mpc' = "delete" => finish > 1)
        /\ UNCHANGED <<room, cell, finish, apc, newest, at, end, deleted>>
    <3>1. apc # "moved"
      BY <1>2 DEF Test
    <3> QED
      BY <1>0, <1>2, <3>1 DEF Test
  <2> QED
    BY <1>0, <2>1
<1>3. CASE TakeHead
  BY <1>0, <1>3 DEF TakeHead
<1>4. CASE DeleteHead
  BY <1>0, <1>4 DEF DeleteHead
<1>5. CASE EraseMove
  BY <1>0, <1>5 DEF EraseMove
<1>6. CASE EraseStore
  <2>1. /\ mpc = "erasing" /\ apc \notin {"pushing", "moved"} /\ finish >= 2 /\ finish \in Nat
        /\ mpc' = "test" /\ finish' = finish - 1
        /\ UNCHANGED <<room, cell, apc, newest, at, end, deleted>>
    <3>1. apc \notin {"pushing", "moved"}
      BY <1>6 DEF EraseStore
    <3> QED
      BY <1>0, <1>6, <3>1 DEF EraseStore
  <2> QED
    BY <1>0, <2>1
<1>7. CASE HandOver
  BY <1>0, <1>7 DEF HandOver
<1>8. CASE Clear
  <2>1. /\ mpc = "clear" /\ apc \notin {"pushing", "moved"} /\ finish >= 1 /\ finish \in Nat
        /\ mpc' = "wait" /\ finish' = 0
        /\ UNCHANGED <<room, cell, apc, newest, at, end, deleted>>
    <3>1. apc \notin {"pushing", "moved"}
      BY <1>8 DEF Clear
    <3> QED
      BY <1>0, <1>8, <3>1 DEF Clear
  <2> QED
    BY <1>0, <2>1
<1>9. CASE Destroy
  <2>1. newest = 0 => Queue = {}
    BY <1>0 DEF Queue
  <2> QED
    BY <1>0, <1>9, <2>1 DEF Destroy
<1> QED
  BY <1>1, <1>2, <1>3, <1>4, <1>5, <1>6, <1>7, <1>8, <1>9 DEF Manager

\* What the calls and a move of the storage leave as it was.
SameQueue ==
  /\ apc \in {"push", "pushing"} /\ apc' \in {"pushing", "moved"}
  /\ room' \in Nat /\ room' >= room
  /\ Cell \subseteq Cell' /\ \A i \in Cell' : i \in Nat /\ (i < room => i \in Cell)
  /\ \A i \in Cell : cell'[i] = cell[i]
  /\ UNCHANGED <<finish, newest, appended, inWindow, mpc, handed, deleted>>

LEMMA SameQueueKept ==
  ASSUME TypeOK, Serial, SameQueue PROVE Ordered' /\ Accounted' /\ Window'
<1>1. Content' = Content /\ Content <= finish /\ finish <= room
  BY DEF Content, TypeOK, SameQueue
<1>0. finish \in Nat /\ Content \in Nat /\ (0 < finish => 0 \in Cell)
  BY <1>1 DEF Content, TypeOK, Serial, Ends
<1>2. \A i \in Cell' : i < finish => i < room /\ i \in Cell /\ cell'[i] = cell[i]
  BY <1>1 DEF TypeOK, SameQueue
<1>3. Cell \subseteq Cell' /\ \A i \in Cell' : i \in Nat
  BY DEF SameQueue
<1> HIDE DEF Cell
<1>4. Ordered'
  BY <1>0, <1>1, <1>2, <1>3 DEF Serial, Ordered, SameQueue
<1>5. Accounted'
  BY <1>0, <1>1, <1>2, <1>3 DEF Serial, Ends, Accounted, SameQueue
<1>6. Window'
  BY <1>0, <1>1, <1>2, <1>3 DEF Serial, Ends, Window, SameQueue
<1> QED
  BY <1>4, <1>5, <1>6

LEMMA PushStoredQueue ==
  ASSUME TypeOK, Serial, PushStored PROVE Ordered' /\ Accounted' /\ Window'
<1> USE DEF Serial, PushStored
<1>1. /\ finish \in Cell /\ newest \in Frame /\ mpc # "erasing" /\ apc \in {"pushing", "moved"}
      /\ finish' = finish + 1 /\ Cell' = Cell /\ apc' \in {"sample", "idle"}
      /\ UNCHANGED <<newest, mpc, handed, deleted>>
  BY DEF TypeOK, FirstFrame
<1>2. \A i \in Cell : i < finish => cell'[i] = cell[i]
  OBVIOUS
<1>3. cell'[finish] = newest /\ appended' = appended \cup {newest}
  OBVIOUS
<1>4. \A f \in appended : f < newest
  BY <1>1 DEF Ordered
<1>5. Content = finish /\ Content' = finish + 1
  BY <1>1 DEF Content
<1>6. \A f \in deleted \cup handed : f < newest
  <2>1. deleted \cup handed \subseteq appended
    BY DEF Ordered
  <2> QED
    BY <2>1, <1>4
<1>7. \A i \in Cell : i < finish + 1 => i < finish \/ i = finish
  BY <1>1
<1>8. Ordered'
  <2>1. appended' = {f \in Frame : f < newest' \/ (f = newest' /\ apc' \in {"idle", "sample"})}
    BY <1>1, <1>3 DEF Ordered
  <2>2. inWindow' \subseteq appended' /\ handed' \subseteq appended' /\ deleted' \subseteq appended'
    BY <1>1, <1>3 DEF Ordered
  <2>3. \A i \in Cell' : i < Content' => cell'[i] \in appended'
    BY <1>1, <1>2, <1>3, <1>5, <1>7 DEF Ordered
  <2>4. \A i, j \in Cell' : i < j /\ j < Content' => cell'[i] < cell'[j]
    BY <1>1, <1>2, <1>3, <1>4, <1>5 DEF Ordered
  <2>5. \A i \in Cell' : i < Content' =>
          /\ \A f \in deleted' : f < cell'[i] \/ (f = cell'[i] /\ i = 0 /\ mpc' = "erase")
          /\ \A f \in handed' : f < cell'[i] \/ (f = cell'[i] /\ i = 0 /\ mpc' = "clear")
    BY <1>1, <1>2, <1>3, <1>5, <1>6, <1>7 DEF Ordered
  <2> QED
    BY <2>1, <2>2, <2>3, <2>4, <2>5 DEF Ordered
<1>9. mpc \in {"erase", "clear", "hand", "handing"} => 0 < finish /\ 0 \in Cell /\ cell'[0] = cell[0]
  BY <1>1, <1>2 DEF Ends, TypeOK
<1>10. Accounted'
  BY <1>1, <1>2, <1>3, <1>5, <1>9 DEF Accounted
<1>11. Window'
  BY <1>1, <1>2, <1>3, <1>7, <1>9 DEF Window
<1> QED
  BY <1>8, <1>10, <1>11

LEMMA ApplicationSerial ==
  ASSUME TypeOK, Serial, Application, ~race' PROVE Serial'
<1>0. Ends' /\ FirstFrame'
  BY ApplicationEnds
<1>1. CASE Create \/ CopySample
  <2>1. /\ UNCHANGED <<room, cell, finish, appended, inWindow, mpc, handed, deleted>>
        /\ Content' = Content /\ Cell' = Cell
    BY <1>1 DEF Create, CopySample, Content
  <2>2. appended' = {f \in Frame : f < newest' \/ (f = newest' /\ apc' \in {"idle", "sample"})}
    BY <1>1 DEF Create, CopySample, Serial, Ordered, TypeOK
  <2>3. Ordered'
    BY <2>1, <2>2 DEF Serial, Ordered
  <2> QED
    BY <1>0, <2>1, <2>3 DEF Serial, Accounted, Window
<1>2. CASE PushRead
  <2>1. SameQueue
    BY <1>2 DEF PushRead, SameQueue, TypeOK
  <2> QED
    BY <1>0, <2>1, SameQueueKept DEF Serial
<1>3. CASE PushMove
  <2>1. /\ room' \in Nat /\ room' > room /\ apc = "pushing" /\ apc' = "moved" /\ at = room
        /\ UNCHANGED <<finish, newest, appended, inWindow, mpc, handed, deleted>>
    BY <1>3 DEF PushMove, TypeOK
  <2>2. room' >= room /\ Cell \subseteq Cell' /\ \A i \in Cell' : i \in Nat /\ (i < room => i \in Cell)
    BY <2>1, Larger DEF TypeOK
  <2>3. cell' = [i \in Cell' |-> IF i < at THEN cell[i] ELSE IF i = at THEN newest ELSE 0]
    BY <1>3 DEF PushMove
  <2>4. \A i \in Cell : i < at
    BY <2>1 DEF TypeOK
  <2>5. \A i \in Cell : cell'[i] = cell[i]
    BY <2>2, <2>3, <2>4
  <2>6. SameQueue
    BY <2>1, <2>2, <2>5 DEF SameQueue, TypeOK
  <2> QED
    BY <1>0, <2>6, SameQueueKept DEF Serial
<1>4. CASE PushStore \/ PushEnd
  BY <1>0, <1>4, PushIsStored, PushStoredQueue DEF Serial
<1> QED
  BY <1>1, <1>2, <1>3, <1>4 DEF Application

LEMMA ManagerSerial ==
  ASSUME TypeOK, Serial, Manager \/ Destroy, ~race' PROVE Serial'
<1> USE DEF Serial
<1>0. Ends' /\ FirstFrame'
  BY ManagerEnds
<1>1. CASE SeeFrame \/ TakeHead
  <2>1. /\ mpc \in {"wait", "delete", "hand"} /\ mpc' \in {"test", "deleting", "handing"}
        /\ (mpc' = "handing" => mpc = "hand")
        /\ UNCHANGED <<room, cell, finish, apc, newest, appended, inWindow, handed, deleted>>
    BY <1>1 DEF SeeFrame, TakeHead
  <2>2. Content' = Content /\ Cell' = Cell
    BY <2>1 DEF Content
  <2>3. Ordered' /\ Accounted'
    BY <2>1, <2>2 DEF Ordered, Accounted
  <2>4. Window'
    BY <2>1 DEF Window
  <2> QED
    BY <1>0, <2>3, <2>4
<1>2. CASE Test
  <2>0. /\ mpc = "test" /\ mpc' \in {"delete", "hand"} /\ (mpc' = "hand" => ~(finish > 1))
        /\ UNCHANGED <<room, cell, finish, apc, newest, appended, inWindow, handed, deleted>>
    BY <1>2 DEF Test
  <2>1. Ordered' /\ Accounted'
    BY <2>0 DEF Ordered, Accounted, Content
  <2>2. ASSUME mpc' = "hand" PROVE Window'
    <3>1. finish = 1 /\ Content = 1 /\ 0 \in Cell
      BY <1>0, <2>0, <2>2 DEF Ends, TypeOK, Content
    <3>2. \A g \in appended \ inWindow : g <= cell[0]
      <4> TAKE g \in appended \ inWindow
      <4>0. cell[0] \in Frame
        BY <3>1, ContentIsFrames
      <4>1. CASE g \in handed \cup deleted
        BY <4>0, <4>1, <2>0, <3>1 DEF Ordered, TypeOK
      <4>2. CASE g \notin handed \cup deleted
        BY <4>0, <4>2, <3>1 DEF Accounted
      <4> QED
        BY <4>1, <4>2
    <3> QED
      BY <2>0, <3>1, <3>2 DEF Window
  <2> QED
    BY <1>0, <2>0, <2>1, <2>2 DEF Window
<1>3. CASE DeleteHead
  <2>1. /\ mpc = "deleting" /\ mpc' = "erase" /\ deleted' = deleted \cup {cell[0]} /\ finish >= 2
        /\ UNCHANGED <<room, cell, finish, apc, newest, appended, inWindow, handed>>
    BY <1>3 DEF DeleteHead, Ends
  <2>2. 0 \in Cell /\ finish \in 0..room /\ Content = finish /\ Content' = finish /\ Cell' = Cell
    BY <2>1 DEF Content, TypeOK
  <2>3. Ordered'
    <3>1. cell[0] \in appended
      BY <2>1, <2>2 DEF Ordered
    <3>2. deleted' \subseteq appended'
      BY <2>1, <3>1 DEF Ordered
    <3>3. \A i \in Cell : i < Content' => i = 0 \/ cell[0] < cell[i]
      BY <2>2 DEF Ordered
    <3>4. \A i \in Cell' : i < Content' =>
            /\ \A f \in deleted' : f < cell'[i] \/ (f = cell'[i] /\ i = 0 /\ mpc' = "erase")
            /\ \A f \in handed' : f < cell'[i] \/ (f = cell'[i] /\ i = 0 /\ mpc' = "clear")
      BY <2>1, <2>2, <3>3 DEF Ordered
    <3> QED
      BY <2>1, <2>2, <3>2, <3>4 DEF Ordered
  <2>4. cell[0] \notin handed
    BY <2>1, <2>2 DEF Ordered, TypeOK
  <2>5. Accounted'
    BY <2>1, <2>2, <2>4 DEF Accounted
  <2> QED
    BY <1>0, <2>1, <2>3, <2>5 DEF Window
<1>4. CASE EraseMove
  <2>1. /\ mpc = "erase" /\ mpc' = "erasing" /\ finish \in 0..room /\ room \in Nat /\ finish >= 2
        /\ UNCHANGED <<room, finish, apc, newest, appended, inWindow, handed, deleted>>
    BY <1>4 DEF EraseMove, TypeOK, Ends
  <2>2. \A i \in Cell : i + 1 < finish => i + 1 \in Cell /\ cell'[i] = cell[i + 1]
    BY <1>4, <2>1 DEF EraseMove
  <2>3. Content = finish /\ Content' = finish - 1 /\ Cell' = Cell
    BY <2>1 DEF Content
  <2>4. Ordered'
    BY <2>1, <2>2, <2>3 DEF Ordered
  <2>5. Accounted'
    <3>1. ASSUME NEW f \in appended, f \notin handed \cup deleted \cup inWindow
          PROVE  \E i \in Cell : i < Content' /\ cell'[i] = f
      <4>1. PICK i \in Cell : i < finish /\ cell[i] = f
        BY <3>1, <2>3 DEF Accounted
      <4>2. i # 0
        BY <3>1, <4>1, <2>1 DEF Accounted
      <4>3. i - 1 \in Cell /\ (i - 1) + 1 = i
        BY <2>1, <4>2
      <4>4. cell'[i - 1] = f
        BY <4>1, <4>3, <2>2
      <4> QED
        BY <4>1, <4>3, <4>4, <2>3, <2>1
    <3> QED
      BY <2>1, <2>3, <3>1 DEF Accounted
  <2> QED
    BY <1>0, <2>1, <2>4, <2>5 DEF Window
<1>5. CASE EraseStore
  <2>1. /\ mpc = "erasing" /\ mpc' = "test" /\ finish' = finish - 1
        /\ UNCHANGED <<room, cell, apc, newest, appended, inWindow, handed, deleted>>
    BY <1>5 DEF EraseStore, Ends
  <2>2. Content' = Content /\ Cell' = Cell
    BY <2>1 DEF Content
  <2>3. Ordered' /\ Accounted'
    BY <2>1, <2>2 DEF Ordered, Accounted
  <2> QED
    BY <1>0, <2>1, <2>3 DEF Window
<1>6. CASE HandOver
  <2>1. /\ mpc = "handing" /\ mpc' = "clear" /\ handed' = handed \cup {cell[0]} /\ finish >= 1
        /\ UNCHANGED <<room, cell, finish, apc, newest, appended, inWindow, deleted>>
    BY <1>6 DEF HandOver, Ends
  <2>2. 0 \in Cell /\ finish \in 0..room /\ Content = finish /\ Content' = finish /\ Cell' = Cell
    BY <2>1 DEF Content, TypeOK
  <2>3. Ordered'
    <3>1. cell[0] \in appended
      BY <2>1, <2>2 DEF Ordered
    <3>2. handed' \subseteq appended'
      BY <2>1, <3>1 DEF Ordered
    <3>3. \A i \in Cell : i < Content' => i = 0 \/ cell[0] < cell[i]
      BY <2>2 DEF Ordered
    <3>4. \A i \in Cell' : i < Content' =>
            /\ \A f \in deleted' : f < cell'[i] \/ (f = cell'[i] /\ i = 0 /\ mpc' = "erase")
            /\ \A f \in handed' : f < cell'[i] \/ (f = cell'[i] /\ i = 0 /\ mpc' = "clear")
      BY <2>1, <2>2, <3>3 DEF Ordered
    <3> QED
      BY <2>1, <2>2, <3>2, <3>4 DEF Ordered
  <2>4. cell[0] \notin deleted
    BY <2>1, <2>2 DEF Ordered, TypeOK
  <2>5. Accounted'
    BY <2>1, <2>2, <2>4 DEF Accounted
  <2> QED
    BY <1>0, <2>1, <2>3, <2>5 DEF Window
<1>7. CASE Clear
  <2>1. /\ mpc = "clear" /\ mpc' = "wait" /\ finish' = 0 /\ finish \in Nat /\ finish >= 1
        /\ UNCHANGED <<room, cell, apc, newest, appended, inWindow, handed, deleted>>
    BY <1>7 DEF Clear, TypeOK, Ends
  <2>2. Ordered'
    BY <2>1 DEF Ordered, Content
  <2>3. Accounted'
    <3>1. ASSUME NEW f \in appended PROVE f \in handed \cup deleted \cup inWindow
      <4>1. CASE \E i \in Cell : i < finish /\ cell[i] = f
        BY <4>1, <2>1 DEF Window, Accounted
      <4>2. CASE ~\E i \in Cell : i < finish /\ cell[i] = f
        BY <4>2, <2>1 DEF Accounted, Content
      <4> QED
        BY <4>1, <4>2
    <3> QED
      BY <2>1, <3>1 DEF Accounted
  <2> QED
    BY <1>0, <2>1, <2>2, <2>3 DEF Window
<1>8. CASE Destroy
  <2>1. /\ mpc = "wait" /\ mpc' = "destroyed" /\ finish' = 0
        /\ deleted' = deleted \cup Queue
        /\ UNCHANGED <<room, cell, apc, newest, appended, inWindow, handed>>
    BY <1>8 DEF Destroy
  <2>2. Ordered'
    <3>1. \A f \in Queue : f \in appended
      BY <2>1 DEF Ordered, Content, Queue
    <3>2. deleted' \subseteq appended' /\ finish' = 0 /\ Content' = 0
      BY <2>1, <3>1 DEF Ordered, Content
    <3> QED
      BY <2>1, <3>2 DEF Ordered
  <2>3. handed \cap Queue = {}
    BY <2>1 DEF Ordered, Queue, Content, TypeOK
  <2>4. \A f \in appended : f \in handed \cup deleted' \cup inWindow
    BY <2>1 DEF Accounted, Queue, Content
  <2>5. Accounted'
    BY <2>1, <2>3, <2>4 DEF Accounted
  <2> QED
    BY <1>0, <2>1, <2>2, <2>5 DEF Window
<1> QED
  BY <1>1, <1>2, <1>3, <1>4, <1>5, <1>6, <1>7, <1>8 DEF Manager

LEMMA StepSerial == IInv /\ [Next]_vars => (~race => Serial)'
<1> SUFFICES ASSUME IInv, [Next]_vars, ~race' PROVE Serial'
  OBVIOUS
<1>1. CASE UNCHANGED vars
  BY <1>1 DEF vars, IInv, Serial, Ends, FirstFrame, Ordered, Accounted, Window, Content
<1>2. CASE Next
  <2>1. TypeOK /\ Serial
    BY <1>2 DEF Next, IInv
  <2> QED
    BY <1>2, <2>1, ApplicationSerial, ManagerSerial DEF Next
<1> QED
  BY <1>1, <1>2

LEMMA Invariance == Spec => []IInv
<1>1. Init => IInv
  BY InitTyped, InitSerial DEF IInv
<1>2. IInv /\ [Next]_vars => IInv'
  BY StepTyped, StepSerial DEF IInv
<1> QED
  BY <1>1, <1>2, PTL DEF Spec

-----------------------------------------------------------------------------
(* The theorems                                                             *)

\* Type correctness: the end of the content, and the end an append or an erase has read,
\* never lie beyond the storage the vector has, each time it grows, and nothing is deleted
\* or handed over from a cell that has not been written.
THEOREM TypeCorrect == Spec => []TypeOK
<1>1. IInv => TypeOK
  BY DEF IInv
<1> QED
  BY <1>1, Invariance, PTL

\* NoUseAfterDelete: if no append overlaps an erase or a clear, or moves the storage while
\* the manager reads from it, no frame is deleted twice, handed over after its deletion or
\* deleted in the pool.
THEOREM DeletedOnce == Spec => []NoUseAfterDelete
<1>1. IInv => NoUseAfterDelete
  <2> SUFFICES ASSUME IInv, ~race PROVE NoUseAfterDelete
    BY DEF NoUseAfterDelete
  <2>1. TypeOK /\ Serial
    BY DEF IInv
  <2>2. ASSUME mpc \in {"delete", "deleting", "hand", "handing"}
        PROVE  cell[0] \in appended \ (deleted \cup handed)
    <3>1. 0 \in Cell /\ 0 < Content /\ mpc \notin {"erase", "clear"}
      BY <2>1, <2>2 DEF Serial, Ends, TypeOK, Content
    <3>2. cell[0] \in Frame
      BY <2>1, <3>1, ContentIsFrames DEF Serial
    <3> QED
      BY <2>1, <3>1, <3>2 DEF Serial, Ordered, TypeOK
  <2>3. handed \cap deleted = {}
    BY <2>1 DEF Serial, Accounted
  <2>4. apc = "sample" => newest \notin deleted
    BY <2>1 DEF Serial, FirstFrame
  <2> QED
    BY <2>2, <2>3, <2>4 DEF NoUseAfterDelete
<1> QED
  BY <1>1, Invariance, PTL

\* OnlyWindowLeaks: under the same condition memory is lost only with frames appended between
\* the manager's last look at the queue and its clear.
THEOREM LeaksAreOfTheWindow == Spec => []OnlyWindowLeaks
<1>1. IInv => OnlyWindowLeaks
  <2> SUFFICES ASSUME TypeOK, Serial, NEW f \in appended \ (Queue \cup handed \cup deleted),
                      f \notin inWindow
               PROVE  FALSE
    BY DEF IInv, OnlyWindowLeaks
  <2>1. PICK i \in Cell : i < Content /\ cell[i] = f
    BY DEF Serial, Accounted
  <2>2. i < finish
    BY <2>1 DEF Content, TypeOK
  <2> QED
    BY <2>1, <2>2 DEF Queue
<1> QED
  BY <1>1, Invariance, PTL

\* HandedInOrder: under the same condition the pool gets frames in the order of their
\* sampling, each the newest there was at the last look.
THEOREM HandedNewest == Spec => HandedInOrder
<1>1. IInv /\ [Next]_vars
      => [~race =>
           \A f \in handed' \ handed :
             (\A g \in handed : g < f) /\ (\A g \in appended \ inWindow : g <= f)]_vars
  <2> SUFFICES ASSUME TypeOK, Serial, Next, NEW f \in handed' \ handed
               PROVE  (\A g \in handed : g < f) /\ (\A g \in appended \ inWindow : g <= f)
    BY DEF vars, IInv
  <2>1. HandOver
    BY DEF Next, Application, Manager, Create, PushRead, PushStore, PushMove, PushEnd,
           CopySample, SeeFrame, Test, TakeHead, DeleteHead, EraseMove, EraseStore, Clear,
           Destroy
  <2>2. f = cell[0] /\ mpc = "handing" /\ 0 \in Cell /\ 0 < Content
    BY <2>1 DEF HandOver, Content, TypeOK, Serial, Ends
  <2> QED
    BY <2>2 DEF Serial, Ordered, Window
<1> QED
  BY <1>1, Invariance, PTL DEF Spec, HandedInOrder

=============================================================================
