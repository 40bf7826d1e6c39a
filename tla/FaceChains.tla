------------------------------ MODULE FaceChains ------------------------------
(***************************************************************************)
(* What becomes of the faces of a first detection (TOFaceDetector::analysis):  *)
(* makeChains links the faces of successive frames whose rectangles overlap     *)
(* enough, get2NodeTails follows each chain to its end and gives the tracker the *)
(* two rectangles to extrapolate from.                                         *)
(*                                                                         *)
(* A node is a face of a frame, both numbered as in array[i].STfaces[j].  A chain  *)
(* link carries a rectangle and a time stamp; here it is the node that has them.   *)
(***************************************************************************)
EXTENDS Naturals, Sequences

CONSTANTS
  MaxFrames,   \* bound: m_faceDetectCountEnableThreshold
  MaxFaces     \* bound: faces found in a frame

ASSUME FaceChainsAssumption == MaxFrames \in Nat \ {0} /\ MaxFaces \in Nat

VARIABLES
  size,    \* array.size()
  faces,   \* array[i].STfaces.size()
  right,   \* rightHand of a node: indices into the next frame
  left,    \* leftHand of a node
  pc,      \* "link" (makeChains), "scan", "follow" (get2NodeTails) or "done"
  i, j, k, \* the loop counters; k is makeChains' j
  at,      \* <<frmOrg, idxOrg>>
  last,    \* the node of last and lastTimeStamp
  res      \* the tails: the nodes of the old and of the new rectangle

vars == <<size, faces, right, left, pc, i, j, k, at, last, res>>
array == <<size, faces>>
hands == <<right, left>>
walk == <<at, last, res>>

Frame == 0..MaxFrames-1
Node == Frame \X (0..MaxFaces-1)

Nodes == {n \in Node : n[1] < size /\ n[2] < faces[n[1]]}

\* The detection has put at least one frame into the array before analysis runs.
Init ==
  /\ size \in 1..MaxFrames
  /\ faces \in [Frame -> 0..MaxFaces]
  /\ right = [n \in Node |-> <<>>] /\ left = [n \in Node |-> <<>>]
  /\ pc = "link" /\ i = 0 /\ j = 0 /\ k = 0
  /\ at = <<0, 0>> /\ last = <<0, 0>> /\ res = <<>>

-----------------------------------------------------------------------------
(* makeChains                                                              *)

Linking == pc = "link" /\ i < size - 1

\* The counters' next values in its three loops.
Advance ==
  \/ k + 1 < faces[i + 1] /\ k' = k + 1 /\ UNCHANGED <<i, j>>
  \/ k + 1 >= faces[i + 1] /\ k' = 0 /\ j' = j + 1 /\ UNCHANGED i

\* Mutant: the hand is one too far.
TestPairFar ==
  /\ Linking /\ j < faces[i] /\ k < faces[i + 1]
  /\ \/ /\ right' = [right EXCEPT ![<<i, j>>] = Append(@, k + 1)]
        /\ left' = [left EXCEPT ![<<i + 1, k>>] = Append(@, j)]
     \/ UNCHANGED hands
  /\ Advance
  /\ UNCHANGED <<array, pc, walk>>

\* Do the rectangles of face j of frame i and face k of the next overlap enough?
TestPair ==
  /\ Linking /\ j < faces[i] /\ k < faces[i + 1]
  /\ \/ /\ right' = [right EXCEPT ![<<i, j>>] = Append(@, k)]
        /\ left' = [left EXCEPT ![<<i + 1, k>>] = Append(@, j)]
     \/ UNCHANGED hands
  /\ Advance
  /\ UNCHANGED <<array, pc, walk>>

LinkFrame ==
  /\ Linking /\ (j >= faces[i] \/ faces[i + 1] = 0)
  /\ i' = i + 1 /\ j' = 0 /\ k' = 0
  /\ UNCHANGED <<array, hands, pc, walk>>

LinkEnd ==
  /\ pc = "link" /\ i >= size - 1
  /\ pc' = "scan" /\ i' = 0 /\ j' = 0 /\ k' = 0
  /\ UNCHANGED <<array, hands, walk>>

-----------------------------------------------------------------------------
(* get2NodeTails                                                           *)

\* Mutant: the last node of a chain is taken for a head.
IsHeadLoose(n) == left[n] = <<>> /\ Len(right[n]) <= 1

IsHead(n) == left[n] = <<>> /\ Len(right[n]) = 1

ScanFrame ==
  /\ pc = "scan" /\ i < size /\ j >= faces[i]
  /\ i' = i + 1 /\ j' = 0
  /\ UNCHANGED <<array, hands, pc, k, walk>>

Skip ==
  /\ pc = "scan" /\ i < size /\ j < faces[i]
  /\ ~IsHead(<<i, j>>)
  /\ j' = j + 1
  /\ UNCHANGED <<array, hands, pc, i, k, walk>>

Start ==
  /\ pc = "scan" /\ i < size /\ j < faces[i]
  /\ IsHead(<<i, j>>)
  /\ at' = <<i, j>> /\ last' = <<i, j>>
  /\ pc' = "follow"
  /\ UNCHANGED <<array, hands, i, j, k, res>>

\* Mutant: the walk stays in the frame.
NextNodeStays == <<at[1], right[at][1]>>

NextNode == <<at[1] + 1, right[at][1]>>

\* The next node has one right hand: it may be the last but one.
Follow ==
  /\ pc = "follow" /\ Len(right[NextNode]) = 1
  /\ at' = NextNode /\ last' = NextNode
  /\ UNCHANGED <<array, hands, pc, i, j, k, res>>

\* Mutant: the fork is taken for the last but one of the tail.
FollowForkKept ==
  /\ pc = "follow" /\ Len(right[NextNode]) > 1
  /\ at' = NextNode /\ last' = NextNode
  /\ UNCHANGED <<array, hands, pc, i, j, k, res>>

\* It has several: neither branch of the code; the walk goes on by the first.
FollowFork ==
  /\ pc = "follow" /\ Len(right[NextNode]) > 1
  /\ at' = NextNode
  /\ UNCHANGED <<array, hands, pc, i, j, k, last, res>>

\* It has none: the chain's tail is known.
FollowEnd ==
  /\ pc = "follow" /\ right[NextNode] = <<>>
  /\ at' = NextNode
  /\ res' = Append(res, [oldRes |-> last, newRes |-> NextNode])
  /\ pc' = "scan" /\ j' = j + 1
  /\ UNCHANGED <<array, hands, i, k, last>>

\* getBridgeFromDetector has the tails: FaceMatch and DetectTrack go on from here.
Finish ==
  /\ pc = "scan" /\ i >= size
  /\ pc' = "done"
  /\ UNCHANGED <<array, hands, i, j, k, walk>>

MakeChains == TestPair \/ LinkFrame \/ LinkEnd
Get2NodeTails == ScanFrame \/ Skip \/ Start \/ Follow \/ FollowFork \/ FollowEnd \/ Finish

Next == MakeChains \/ Get2NodeTails

\* One thread runs both to their end.
Spec == Init /\ [][Next]_vars /\ WF_vars(Next)

-----------------------------------------------------------------------------
TypeOK ==
  /\ size \in 1..MaxFrames
  /\ faces \in [Frame -> 0..MaxFaces]
  /\ right \in [Node -> Seq(0..MaxFaces-1)]
  /\ left \in [Node -> Seq(0..MaxFaces-1)]
  /\ pc \in {"link", "scan", "follow", "done"}
  /\ i \in 0..MaxFrames /\ j \in 0..MaxFaces /\ k \in 0..MaxFaces
  /\ at \in Node \cup {<<0, 0>>} /\ last \in Node \cup {<<0, 0>>}
  /\ res \in Seq([oldRes : Node, newRes : Node])

\* do ... while(true) has no test of its own: where it stands there is a first right hand,
\* and what it names is a face of the array.
WalkStaysInside ==
  pc = "follow" => at \in Nodes /\ right[at] # <<>> /\ NextNode \in Nodes

\* Every tail ends a chain, and the two rectangles are of different frames in order:
\* getRectWithTimeStamp divides by the difference of their time stamps.
TailsExtrapolate ==
  \A t \in 1..Len(res) :
    /\ res[t].oldRes \in Nodes /\ res[t].newRes \in Nodes
    /\ res[t].oldRes[1] < res[t].newRes[1]
    /\ pc # "link" /\ Len(right[res[t].oldRes]) = 1 /\ right[res[t].newRes] = <<>>

-----------------------------------------------------------------------------
(* What the tails are, without a walk.                                       *)

\* A chain by its first hands.
Path(p, f, g) ==
  /\ <<f, p[f]>> \in Nodes
  /\ \A h \in f..g-1 : right[<<h, p[h]>>] # <<>> /\ p[h + 1] = right[<<h, p[h]>>][1]

\* What the code gives for head n: the end of its chain, and the last node on it of one hand.
\* Where the node before the end forks, that is an earlier one (LastTwoNodes).
IsTail(n, t) ==
  \E g \in n[1]..size-1 : \E p \in [n[1]..g -> 0..MaxFaces-1] :
    LET OneHand == {h \in n[1]..g : Len(right[<<h, p[h]>>]) = 1}
    IN /\ p[n[1]] = n[2] /\ Path(p, n[1], g) /\ right[<<g, p[g]>>] = <<>>
       /\ t.newRes = <<g, p[g]>>
       /\ \E h \in OneHand : (\A x \in OneHand : x <= h) /\ t.oldRes = <<h, p[h]>>

\* A chain begins with a face of one right hand that no face before holds.
Heads ==
  {n \in Nodes : /\ Len(right[n]) = 1
                 /\ \A m \in Nodes : \A t \in 1..Len(right[m]) :
                      <<m[1] + 1, right[m][t]>> # n}

\* Every head has its tail, in the order of the heads, and there are no other tails.
TailsOfHeads ==
  pc = "done" =>
    \E order \in [1..Len(res) -> Heads] :
      /\ \A n \in Heads : \E t \in 1..Len(res) : order[t] = n
      /\ \A t \in 1..Len(res) : IsTail(order[t], res[t])
      /\ \A t \in 1..Len(res) - 1 :
           LET a == order[t]  b == order[t + 1]
           IN a[1] < b[1] \/ (a[1] = b[1] /\ a[2] < b[2])

\* TOFaceDetector.cpp:180: "故只保留最后两个链节点作为计算依据", only the last two nodes of a
\* chain are kept to compute from: the node of the old rectangle leads to that of the new.
LastTwoNodes ==
  pc = "done" =>
    \A t \in 1..Len(res) :
      LET n == res[t].oldRes
      IN res[t].newRes[1] = n[1] + 1 /\ res[t].newRes[2] = right[n][1]

\* Every step of either function is one towards its end: the next part, the next frame, the
\* next face, the next pair, or the next node of the walk, and these are all bounded.
Part == CASE pc = "link" -> 0 [] pc \in {"scan", "follow"} -> 1 [] pc = "done" -> 2
Onward ==
  [][\/ Part < Part'
     \/ Part = Part' /\ i < i'
     \/ Part = Part' /\ i = i' /\ j < j'
     \/ /\ Part = Part' /\ i = i' /\ j = j'
        /\ k < k' \/ (pc = "scan" /\ pc' = "follow")
           \/ (pc = "follow" /\ pc' = "follow" /\ at[1] < at'[1])]_vars

\* Both loops come to their end.
ChainsEnd == <>(pc = "done")

-----------------------------------------------------------------------------
(* Inductive strengthening.                                                  *)

\* A hand is held by a face of the array and names a face of the next frame.
HandsInside ==
  \A n \in Node : \A t \in 1..Len(right[n]) :
    n \in Nodes /\ <<n[1] + 1, right[n][t]>> \in Nodes

\* The walk has passed its last node of one hand.
LastBehind ==
  pc = "follow" =>
    /\ i < size /\ j < faces[i]
    /\ last \in Nodes /\ last[1] <= at[1] /\ Len(right[last]) = 1

IInv ==
  /\ TypeOK /\ HandsInside /\ LastBehind /\ WalkStaysInside /\ TailsExtrapolate
  /\ pc = "link" => res = <<>>

=============================================================================
