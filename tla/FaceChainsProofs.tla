--------------------------- MODULE FaceChainsProofs ----------------------------
(* The chains of a first detection for any number of frames and faces. *)
EXTENDS FaceChains, TLAPS

USE FaceChainsAssumption DEF array, hands, walk

LEMMA InitInv == Init => IInv
<1> SUFFICES ASSUME Init PROVE IInv
  OBVIOUS
<1>1. TypeOK
  BY DEF Init, TypeOK, Node, Frame
<1>2. HandsInside
  BY DEF Init, HandsInside
<1> QED
  BY <1>1, <1>2 DEF Init, IInv, LastBehind, WalkStaysInside, TailsExtrapolate

\* An element of the array by its two indices.
LEMMA InArray ==
  ASSUME TypeOK, NEW f \in Nat, NEW b \in Nat, f < size, b < faces[f]
  PROVE  <<f, b>> \in Nodes /\ <<f, b>> \in Node /\ f \in Frame /\ b \in 0..MaxFaces-1
<1>1. f \in Frame
  BY DEF TypeOK, Frame
<1>2. b \in 0..MaxFaces-1
  BY <1>1 DEF TypeOK
<1> QED
  BY <1>1, <1>2 DEF Nodes, Node

LEMMA NodesAreNodes ==
  ASSUME TypeOK, NEW n \in Nodes
  PROVE  n \in Node /\ n = <<n[1], n[2]>> /\ n[1] \in Nat /\ n[1] < size /\ n[2] \in Nat
BY DEF Nodes, Node, Frame

-----------------------------------------------------------------------------
(* makeChains                                                              *)

LEMMA TestPairInv ==
  ASSUME IInv, TestPair PROVE IInv'
<1> USE DEF IInv
<1>1. /\ pc = "link" /\ pc' = "link" /\ i \in Nat /\ j \in Nat /\ k \in Nat
      /\ i + 1 < size /\ j < faces[i] /\ k < faces[i + 1]
      /\ UNCHANGED <<size, faces, at, last, res>>
  <2>1. i \in Nat /\ j \in Nat /\ k \in Nat /\ size \in Nat
    BY DEF TypeOK
  <2> HIDE DEF IInv
  <2> QED
    BY <2>1 DEF TestPair, Linking
<1>2. <<i, j>> \in Node /\ <<i, j>> \in Nodes /\ k \in 0..MaxFaces-1 /\ j \in 0..MaxFaces-1
      /\ <<i + 1, k>> \in Nodes /\ <<i + 1, k>> \in Node
  <2>1. TypeOK
    OBVIOUS
  <2> HIDE DEF IInv
  <2>2. size \in Nat /\ i + 1 \in Nat /\ i < size
    BY <1>1, <2>1 DEF TypeOK
  <2>3. <<i, j>> \in Node /\ <<i, j>> \in Nodes /\ j \in 0..MaxFaces-1
    BY <1>1, <2>1, <2>2, InArray
  <2>4. <<i + 1, k>> \in Node /\ <<i + 1, k>> \in Nodes /\ k \in 0..MaxFaces-1
    BY <1>1, <2>1, <2>2, InArray
  <2> QED
    BY <2>3, <2>4
<1>3. TypeOK'
  <2>1. right' \in [Node -> Seq(0..MaxFaces-1)] /\ left' \in [Node -> Seq(0..MaxFaces-1)]
    <3>1. right \in [Node -> Seq(0..MaxFaces-1)] /\ left \in [Node -> Seq(0..MaxFaces-1)]
      BY DEF TypeOK
    <3>2. Append(right[<<i, j>>], k) \in Seq(0..MaxFaces-1)
      BY <1>2, <3>1
    <3>3. Append(left[<<i + 1, k>>], j) \in Seq(0..MaxFaces-1)
      BY <1>2, <3>1
    <3> HIDE DEF IInv
    <3>4. \/ right' = right /\ left' = left
          \/ /\ right' = [right EXCEPT ![<<i, j>>] = Append(@, k)]
             /\ left' = [left EXCEPT ![<<i + 1, k>>] = Append(@, j)]
      BY DEF TestPair
    <3> QED
      BY <3>1, <3>2, <3>3, <3>4
  <2>2. i' \in 0..MaxFrames /\ j' \in 0..MaxFaces /\ k' \in 0..MaxFaces
    <3>1. i \in 0..MaxFrames /\ k + 1 \in 0..MaxFaces /\ j + 1 \in 0..MaxFaces
      BY <1>2 DEF TypeOK
    <3>2. k' \in {0, k + 1} /\ j' \in {j, j + 1} /\ i' = i
      BY DEF TestPair, Advance
    <3> QED
      BY <1>2, <3>1, <3>2
  <2> QED
    BY <1>1, <2>1, <2>2 DEF TypeOK
<1>4. Nodes' = Nodes
  BY <1>1 DEF Nodes
<1>5. HandsInside'
  <2> SUFFICES ASSUME NEW n \in Node, NEW t \in 1..Len(right'[n])
               PROVE  n \in Nodes /\ <<n[1] + 1, right'[n][t]>> \in Nodes
    BY <1>4 DEF HandsInside
  <2>1. CASE right'[n] = right[n]
    BY <2>1 DEF HandsInside
  <2>2. CASE right'[n] # right[n]
    <3>1. n = <<i, j>> /\ right'[n] = Append(right[n], k) /\ right[n] \in Seq(0..MaxFaces-1)
      <4>1. right \in [Node -> Seq(0..MaxFaces-1)]
        BY DEF TypeOK
      <4>2. right' = [right EXCEPT ![<<i, j>>] = Append(@, k)]
        BY <2>2 DEF TestPair
      <4> HIDE DEF IInv
      <4> QED
        BY <2>2, <1>2, <4>1, <4>2
    <3>2. CASE t \in 1..Len(right[n])
      <4>1. right'[n][t] = right[n][t]
        BY <3>1, <3>2
      <4>2. n \in Nodes /\ <<n[1] + 1, right[n][t]>> \in Nodes
        BY <3>2 DEF HandsInside
      <4> QED
        BY <4>1, <4>2
    <3>3. CASE t = Len(right[n]) + 1
      <4>1. right'[n][t] = k
        BY <3>1, <3>3
      <4>2. n \in Nodes /\ n[1] + 1 = i + 1
        BY <3>1, <1>2
      <4> QED
        BY <4>1, <4>2, <1>2
    <3>4. t \in 1..Len(right[n]) \/ t = Len(right[n]) + 1
      <4> HIDE DEF IInv
      <4>1. Len(right'[n]) = Len(right[n]) + 1 /\ Len(right[n]) \in Nat
        BY <3>1
      <4> QED
        BY <4>1
    <3> QED
      BY <3>2, <3>3, <3>4
  <2> QED
    BY <2>1, <2>2
<1> QED
  BY <1>1, <1>3, <1>5 DEF LastBehind, WalkStaysInside, TailsExtrapolate

LEMMA LinkInv ==
  ASSUME IInv, LinkFrame \/ LinkEnd PROVE IInv'
<1> USE DEF IInv
<1>1. /\ UNCHANGED <<size, faces, right, left, at, last, res>>
      /\ pc = "link" /\ pc' \in {"link", "scan"} /\ i' \in 0..MaxFrames /\ j' = 0 /\ k' = 0
  BY DEF LinkFrame, LinkEnd, Linking, TypeOK
<1>2. TypeOK'
  BY <1>1 DEF TypeOK
<1>3. HandsInside'
  BY <1>1 DEF HandsInside, Nodes
<1>4. res' = <<>>
  BY <1>1
<1> QED
  BY <1>1, <1>2, <1>3, <1>4 DEF LastBehind, WalkStaysInside, TailsExtrapolate

-----------------------------------------------------------------------------
(* get2NodeTails                                                           *)

\* The node the walk goes to is a face of the next frame.
LEMMA NextInside ==
  ASSUME IInv, NEW n \in Nodes, right[n] # <<>>
  PROVE  <<n[1] + 1, right[n][1]>> \in Nodes
<1>1. n \in Node /\ right[n] \in Seq(0..MaxFaces-1)
  BY NodesAreNodes DEF IInv, TypeOK
<1>2. 1 \in 1..Len(right[n])
  BY <1>1
<1> QED
  BY <1>1, <1>2 DEF IInv, HandsInside

\* A node of the array with a right hand may be walked from.
LEMMA MayStand ==
  ASSUME IInv, NEW n \in Nodes, Len(right[n]) >= 1
  PROVE  right[n] # <<>>
OBVIOUS

LEMMA ScanInv ==
  ASSUME IInv, ScanFrame \/ Skip \/ Finish PROVE IInv'
<1> USE DEF IInv
<1>1. /\ UNCHANGED <<size, faces, right, left, at, last, res>>
      /\ pc = "scan" /\ pc' \in {"scan", "done"}
      /\ i' \in 0..MaxFrames /\ j' \in 0..MaxFaces /\ k' = k
  <2>1. CASE ScanFrame
    BY <2>1 DEF ScanFrame, TypeOK
  <2>2. CASE Skip
    <3>1. i \in Frame /\ faces[i] \in 0..MaxFaces
      BY <2>2 DEF Skip, TypeOK, Frame
    <3> QED
      BY <2>2, <3>1 DEF Skip, TypeOK
  <2>3. CASE Finish
    BY <2>3 DEF Finish, TypeOK
  <2> QED
    BY <2>1, <2>2, <2>3
<1>2. TypeOK'
  BY <1>1 DEF TypeOK
<1>3. HandsInside'
  BY <1>1 DEF HandsInside, Nodes
<1>4. TailsExtrapolate'
  BY <1>1 DEF TailsExtrapolate, Nodes
<1> QED
  BY <1>1, <1>2, <1>3, <1>4 DEF LastBehind, WalkStaysInside

LEMMA StartInv ==
  ASSUME IInv, Start PROVE IInv'
<1> USE DEF IInv
<1>1. /\ UNCHANGED <<size, faces, right, left, i, j, k, res>>
      /\ pc = "scan" /\ pc' = "follow" /\ at' = <<i, j>> /\ last' = <<i, j>>
      /\ Len(right[<<i, j>>]) = 1 /\ i \in Nat /\ j \in Nat /\ i < size /\ j < faces[i]
  BY DEF Start, IsHead, TypeOK
<1>2. <<i, j>> \in Nodes /\ <<i, j>> \in Node
  BY <1>1, InArray
<1>3. TypeOK'
  BY <1>1, <1>2 DEF TypeOK
<1>4. HandsInside' /\ Nodes' = Nodes
  BY <1>1 DEF HandsInside, Nodes
<1>5. right[<<i, j>>] # <<>>
  BY <1>1
<1>6. WalkStaysInside'
  BY <1>1, <1>2, <1>4, <1>5, NextInside DEF WalkStaysInside, NextNode
<1>7. LastBehind'
  BY <1>1, <1>2, <1>4 DEF LastBehind
<1>8. TailsExtrapolate'
  BY <1>1, <1>4 DEF TailsExtrapolate
<1> QED
  BY <1>1, <1>3, <1>4, <1>6, <1>7, <1>8

LEMMA FollowInv ==
  ASSUME IInv, Follow \/ FollowFork PROVE IInv'
<1> USE DEF IInv
<1>1. /\ UNCHANGED <<size, faces, right, left, i, j, k, res, pc>>
      /\ pc = "follow" /\ at' = NextNode
      /\ Len(right[NextNode]) >= 1
      /\ last' = last \/ (last' = NextNode /\ Len(right[NextNode]) = 1)
  <2> HIDE DEF IInv
  <2>1. CASE Follow
    BY <2>1 DEF Follow
  <2>2. CASE FollowFork
    <3>1. NextNode \in Node /\ right[NextNode] \in Seq(0..MaxFaces-1)
      BY <2>2, NodesAreNodes DEF FollowFork, IInv, WalkStaysInside, TypeOK
    <3>2. Len(right[NextNode]) \in Nat
      BY <3>1
    <3> QED
      BY <2>2, <3>2 DEF FollowFork
  <2> QED
    BY <2>1, <2>2
<1>2. NextNode \in Nodes /\ NextNode \in Node /\ at \in Nodes /\ NextNode[1] = at[1] + 1
  BY <1>1, NodesAreNodes DEF WalkStaysInside, NextNode
<1>3. TypeOK'
  BY <1>1, <1>2 DEF TypeOK
<1>4. HandsInside' /\ Nodes' = Nodes
  BY <1>1 DEF HandsInside, Nodes
<1>5. right[NextNode] # <<>>
  BY <1>1
<1>6. WalkStaysInside'
  <2>1. <<NextNode[1] + 1, right[NextNode][1]>> \in Nodes
    BY <1>2, <1>5, NextInside
  <2> QED
    BY <1>1, <1>2, <1>4, <1>5, <2>1 DEF WalkStaysInside, NextNode
<1>7. LastBehind'
  <2>1. at[1] \in Nat
    BY <1>2, NodesAreNodes
  <2>2. last \in Nodes /\ last[1] \in Nat /\ last[1] <= at[1] /\ Len(right[last]) = 1
    BY <1>1, NodesAreNodes DEF LastBehind
  <2> QED
    BY <1>1, <1>2, <1>4, <2>1, <2>2 DEF LastBehind
<1>8. TailsExtrapolate'
  BY <1>1, <1>4 DEF TailsExtrapolate
<1> QED
  BY <1>1, <1>3, <1>4, <1>6, <1>7, <1>8

LEMMA FollowEndInv ==
  ASSUME IInv, FollowEnd PROVE IInv'
<1> USE DEF IInv
<1>1. /\ UNCHANGED <<size, faces, right, left, i, k, last>>
      /\ pc = "follow" /\ pc' = "scan" /\ at' = NextNode /\ j' = j + 1
      /\ right[NextNode] = <<>>
      /\ res' = Append(res, [oldRes |-> last, newRes |-> NextNode])
  BY DEF FollowEnd
<1>2. NextNode \in Nodes /\ NextNode \in Node /\ at \in Nodes /\ NextNode[1] = at[1] + 1
  BY <1>1, NodesAreNodes DEF WalkStaysInside, NextNode
<1>3. /\ last \in Nodes /\ last \in Node /\ last[1] \in Nat /\ at[1] \in Nat /\ last[1] <= at[1]
      /\ Len(right[last]) = 1
  BY <1>1, <1>2, NodesAreNodes DEF LastBehind
<1>4. res \in Seq([oldRes : Node, newRes : Node]) /\ j' \in 0..MaxFaces
  <2>1. i \in Frame /\ j \in Nat /\ j < faces[i] /\ faces[i] \in 0..MaxFaces
    BY <1>1 DEF LastBehind, TypeOK, Frame
  <2> QED
    BY <1>1, <2>1 DEF TypeOK
<1>5. TypeOK'
  <2>1. res' \in Seq([oldRes : Node, newRes : Node])
    BY <1>1, <1>2, <1>3, <1>4
  <2> QED
    BY <1>1, <1>2, <1>4, <2>1 DEF TypeOK
<1>6. HandsInside' /\ Nodes' = Nodes
  BY <1>1 DEF HandsInside, Nodes
<1>7. TailsExtrapolate'
  <2> SUFFICES ASSUME NEW t \in 1..Len(res')
               PROVE  /\ res'[t].oldRes \in Nodes /\ res'[t].newRes \in Nodes
                      /\ res'[t].oldRes[1] < res'[t].newRes[1]
                      /\ Len(right[res'[t].oldRes]) = 1 /\ right[res'[t].newRes] = <<>>
    BY <1>1, <1>6 DEF TailsExtrapolate
  <2>1. CASE t \in 1..Len(res)
    BY <1>1, <1>4, <2>1 DEF TailsExtrapolate
  <2>2. CASE t = Len(res) + 1
    <3>1. res'[t].oldRes = last /\ res'[t].newRes = NextNode
      BY <1>1, <1>4, <2>2
    <3> QED
      BY <1>1, <1>2, <1>3, <3>1
  <2> QED
    BY <1>1, <1>4, <2>1, <2>2
<1> QED
  BY <1>1, <1>5, <1>6, <1>7 DEF LastBehind, WalkStaysInside

LEMMA StepInv == IInv /\ [Next]_vars => IInv'
<1> SUFFICES ASSUME IInv, [Next]_vars PROVE IInv'
  OBVIOUS
<1>1. CASE UNCHANGED vars
  BY <1>1 DEF vars, IInv, TypeOK, HandsInside, LastBehind, WalkStaysInside, TailsExtrapolate,
              Nodes, NextNode
<1> QED
  BY <1>1, TestPairInv, LinkInv, ScanInv, StartInv, FollowInv, FollowEndInv
     DEF Next, MakeChains, Get2NodeTails

-----------------------------------------------------------------------------
(* The tails are those of the heads.                                        *)

\* The order in which the scan comes to the nodes.
Before(n, m) == n[1] < m[1] \/ (n[1] = m[1] /\ n[2] < m[2])

\* A node has a left hand when some right hand names it.
HandsMeet ==
  \A m \in Node : left[m] # <<>> <=>
    \E n \in Node : \E t \in 1..Len(right[n]) : <<n[1] + 1, right[n][t]>> = m

\* p is the chain of the head the scan stands at, as far as frame g.
Walked(p, g) == p \in [i..g -> 0..MaxFaces-1] /\ p[i] = j /\ Path(p, i, g)

\* last is the last node of one hand on it.
LastOneHand(p, g) ==
  \E h \in i..g : /\ last = <<h, p[h]>> /\ Len(right[last]) = 1
                 /\ \A x \in h+1..g : Len(right[<<x, p[x]>>]) # 1

\* The walk has come along the chain of its head to where it stands.
WalkIsPath ==
  pc = "follow" =>
    /\ <<i, j>> \in Heads
    /\ at[1] \in Nat /\ i <= at[1]
    /\ \E p : Walked(p, at[1]) /\ p[at[1]] = at[2] /\ LastOneHand(p, at[1])

\* order names the heads of the tails found: in the order of the scan, those before the
\* node it stands at.
InOrder(order) ==
  /\ order \in [1..Len(res) -> Heads]
  /\ \A t \in 1..Len(res) : IsTail(order[t], res[t])
  /\ \A t \in 1..Len(res)-1 : Before(order[t], order[t + 1])
  /\ \A n \in Heads : Before(n, <<i, j>>) <=> \E t \in 1..Len(res) : order[t] = n

HeadsScanned == pc # "link" => \E order : InOrder(order)

\* get2NodeTails returns only after its last frame.
ScanEnds == pc = "done" => i >= size

Chained == IInv /\ HandsMeet /\ WalkIsPath /\ HeadsScanned /\ ScanEnds

LEMMA ChainsUnchanged ==
  ASSUME UNCHANGED <<size, faces, right>>
  PROVE  /\ Nodes' = Nodes /\ Heads' = Heads
         /\ \A n, t : IsTail(n, t) => IsTail(n, t)'
         /\ \A p, f, g : Path(p, f, g) => Path(p, f, g)'
<1>1. Nodes' = Nodes
  BY DEF Nodes
<1>2. Heads' = Heads
  BY <1>1 DEF Heads
<1>3. \A p, f, g : Path(p, f, g) => Path(p, f, g)'
  BY <1>1 DEF Path
<1>4. ASSUME NEW n, NEW t, IsTail(n, t) PROVE IsTail(n, t)'
  BY <1>3, <1>4 DEF IsTail
<1> QED
  BY <1>1, <1>2, <1>3, <1>4

\* isHead sees in a node's own hands what Heads says of the hands of all nodes.
LEMMA HeadIsHead ==
  ASSUME IInv, HandsMeet, NEW n \in Nodes
  PROVE  IsHead(n) <=> n \in Heads
<1>1. n \in Node
  BY NodesAreNodes DEF IInv
<1>2. left[n] = <<>> <=> \A m \in Node : \A t \in 1..Len(right[m]) :
                           <<m[1] + 1, right[m][t]>> # n
  BY <1>1 DEF HandsMeet
<1>3. \A m \in Node : \A t \in 1..Len(right[m]) : m \in Nodes
  BY DEF IInv, HandsInside
<1>4. \A m \in Nodes : m \in Node
  BY NodesAreNodes DEF IInv
<1> QED
  BY <1>2, <1>3, <1>4 DEF IsHead, Heads

LEMMA HandsMeetInit == Init => HandsMeet
BY DEF Init, HandsMeet

LEMMA HandsMeetStep ==
  ASSUME IInv, HandsMeet, [Next]_vars PROVE HandsMeet'
<1>1. CASE UNCHANGED hands
  BY <1>1 DEF HandsMeet
<1>2. CASE TestPair /\ right' = [right EXCEPT ![<<i, j>>] = Append(@, k)]
                    /\ left' = [left EXCEPT ![<<i + 1, k>>] = Append(@, j)]
  <2>1. /\ <<i, j>> \in Node /\ <<i + 1, k>> \in Node /\ i \in Nat /\ k \in Nat
        /\ right \in [Node -> Seq(0..MaxFaces-1)] /\ left \in [Node -> Seq(0..MaxFaces-1)]
    <3>1. i \in Nat /\ j \in Nat /\ k \in Nat /\ size \in Nat /\ TypeOK
      BY DEF IInv, TypeOK
    <3>2. i + 1 < size /\ i < size /\ j < faces[i] /\ k < faces[i + 1] /\ i + 1 \in Nat
      BY <1>2, <3>1 DEF TestPair, Linking
    <3>3. <<i, j>> \in Node
      BY <3>1, <3>2, InArray
    <3>4. <<i + 1, k>> \in Node
      BY <3>1, <3>2, InArray
    <3> QED
      BY <3>1, <3>3, <3>4 DEF TypeOK
  <2>2. ASSUME NEW n \in Node, n # <<i, j>> PROVE right'[n] = right[n]
    BY <1>2, <2>1, <2>2
  <2>3. ASSUME NEW m \in Node, m # <<i + 1, k>> PROVE left'[m] = left[m]
    BY <1>2, <2>1, <2>3
  <2> DEFINE len == Len(right[<<i, j>>])
  <2>4. /\ len \in Nat /\ Len(right'[<<i, j>>]) = len + 1 /\ right'[<<i, j>>][len + 1] = k
        /\ \A t \in 1..len : right'[<<i, j>>][t] = right[<<i, j>>][t]
    BY <1>2, <2>1
  <2>5. left'[<<i + 1, k>>] # <<>>
    <3>1. left'[<<i + 1, k>>] = Append(left[<<i + 1, k>>], j)
      BY <1>2, <2>1
    <3>2. left[<<i + 1, k>>] \in Seq(0..MaxFaces-1)
      BY <2>1
    <3>3. Len(left'[<<i + 1, k>>]) = Len(left[<<i + 1, k>>]) + 1
      BY <3>1, <3>2
    <3>4. Len(left[<<i + 1, k>>]) \in Nat
      BY <3>2
    <3> QED
      BY <3>3, <3>4
  <2> HIDE DEF len
  <2>6. ASSUME NEW m \in Node
        PROVE  (\E n \in Node : \E t \in 1..Len(right'[n]) : <<n[1] + 1, right'[n][t]>> = m)
               <=> m = <<i + 1, k>> \/
                   \E n \in Node : \E t \in 1..Len(right[n]) : <<n[1] + 1, right[n][t]>> = m
    <3>1. ASSUME NEW n \in Node, NEW t \in 1..Len(right'[n]), <<n[1] + 1, right'[n][t]>> = m
          PROVE  m = <<i + 1, k>> \/
                 \E l \in Node : \E u \in 1..Len(right[l]) : <<l[1] + 1, right[l][u]>> = m
      <4>1. CASE n # <<i, j>>
        BY <2>2, <3>1, <4>1
      <4>2. CASE n = <<i, j>> /\ t \in 1..len
        <5>1. <<n[1] + 1, right[n][t]>> = m
          BY <2>4, <3>1, <4>2
        <5>2. t \in 1..Len(right[n])
          BY <4>2 DEF len
        <5> QED
          BY <5>1, <5>2
      <4>3. CASE n = <<i, j>> /\ t = len + 1
        BY <2>1, <2>4, <3>1, <4>3
      <4>4. n = <<i, j>> => t \in 1..len \/ t = len + 1
        BY <2>4
      <4> QED
        BY <4>1, <4>2, <4>3, <4>4
    <3>2. ASSUME m = <<i + 1, k>>
          PROVE  \E n \in Node : \E t \in 1..Len(right'[n]) : <<n[1] + 1, right'[n][t]>> = m
      <4>1. len + 1 \in 1..Len(right'[<<i, j>>])
        BY <2>4
      <4>2. <<(<<i, j>>)[1] + 1, right'[<<i, j>>][len + 1]>> = m
        BY <2>4, <3>2
      <4> QED
        BY <2>1, <4>1, <4>2
    <3>3. ASSUME NEW n \in Node, NEW t \in 1..Len(right[n]), <<n[1] + 1, right[n][t]>> = m
          PROVE  \E l \in Node : \E u \in 1..Len(right'[l]) : <<l[1] + 1, right'[l][u]>> = m
      <4>1. t \in 1..Len(right'[n]) /\ right'[n][t] = right[n][t]
        <5>1. CASE n = <<i, j>>
          BY <2>4, <5>1 DEF len
        <5>2. CASE n # <<i, j>>
          BY <2>2, <5>2
        <5> QED
          BY <5>1, <5>2
      <4> QED
        BY <3>3, <4>1
    <3> QED
      BY <3>1, <3>2, <3>3
  <2>7. ASSUME NEW m \in Node
        PROVE  left'[m] # <<>> <=>
                 \E n \in Node : \E t \in 1..Len(right'[n]) : <<n[1] + 1, right'[n][t]>> = m
    <3>1. left[m] # <<>> <=>
            \E n \in Node : \E t \in 1..Len(right[n]) : <<n[1] + 1, right[n][t]>> = m
      BY DEF HandsMeet
    <3> QED
      BY <2>3, <2>5, <2>6, <3>1
  <2> QED
    BY <2>7 DEF HandsMeet
<1> QED
  BY <1>1, <1>2 DEF Next, MakeChains, Get2NodeTails, TestPair, LinkFrame, LinkEnd, ScanFrame,
                    Skip, Start, Follow, FollowFork, FollowEnd, Finish, vars

\* The chain goes on by the node the walk goes to.
LEMMA WalkGoesOn ==
  ASSUME IInv, WalkIsPath, pc = "follow"
  PROVE  /\ at[1] \in i..size-1 /\ i \in Nat /\ j \in 0..MaxFaces-1
         /\ at[1] + 1 < size /\ size \in Nat
         /\ \E p : /\ Walked(p, at[1] + 1) /\ <<at[1] + 1, p[at[1] + 1]>> = NextNode
                  /\ LastOneHand(p, at[1])
<1> DEFINE g == at[1]
           b == right[at][1]
<1>1. /\ at \in Nodes /\ right[at] # <<>> /\ NextNode \in Nodes /\ NextNode = <<g + 1, b>>
      /\ at = <<at[1], at[2]>> /\ i \in Nat /\ size \in Nat /\ i <= g /\ g \in Nat
  BY NodesAreNodes DEF IInv, TypeOK, WalkStaysInside, NextNode, WalkIsPath
<1>2. b \in 0..MaxFaces-1 /\ g + 1 < size
  BY <1>1 DEF Nodes, Node
<1>3. PICK p : Walked(p, g) /\ p[g] = at[2] /\ LastOneHand(p, g)
  BY DEF WalkIsPath
<1> HIDE DEF g, b
<1>4. p \in [i..g -> 0..MaxFaces-1] /\ p[i] = j /\ Path(p, i, g)
  BY <1>3 DEF Walked
<1> DEFINE q == [h \in i..g+1 |-> IF h = g + 1 THEN b ELSE p[h]]
<1>5. q \in [i..g+1 -> 0..MaxFaces-1] /\ q[i] = j /\ q[g + 1] = b
  BY <1>1, <1>2, <1>4
<1>6. \A h \in i..g : q[h] = p[h]
  BY <1>1
<1> HIDE DEF q
<1>7. Path(q, i, g + 1)
  <2>1. ASSUME NEW h \in i..(g + 1)-1
        PROVE  right[<<h, q[h]>>] # <<>> /\ q[h + 1] = right[<<h, q[h]>>][1]
    <3>1. h \in i..g /\ q[h] = p[h]
      BY <1>1, <1>6, <2>1
    <3>2. CASE h = g
      <4>1. <<h, q[h]>> = at
        BY <1>1, <1>3, <3>1, <3>2 DEF g
      <4> QED
        BY <1>1, <1>5, <3>2, <4>1 DEF b
    <3>3. CASE h # g
      <4>1. h \in i..g-1 /\ h + 1 \in i..g
        BY <1>1, <3>1, <3>3
      <4>2. q[h + 1] = p[h + 1]
        BY <1>6, <4>1
      <4> QED
        BY <1>4, <3>1, <4>1, <4>2 DEF Path
    <3> QED
      BY <3>2, <3>3
  <2>2. <<i, q[i]>> \in Nodes
    BY <1>4, <1>5 DEF Path
  <2> QED
    BY <2>1, <2>2 DEF Path
<1>8. LastOneHand(q, g)
  <2>1. PICK h \in i..g : /\ last = <<h, p[h]>> /\ Len(right[last]) = 1
                          /\ \A x \in h+1..g : Len(right[<<x, p[x]>>]) # 1
    BY <1>3 DEF LastOneHand
  <2>2. \A x \in h+1..g : q[x] = p[x]
    BY <1>1, <1>6, <2>1
  <2> QED
    BY <1>6, <2>1, <2>2 DEF LastOneHand
<1>9. j \in 0..MaxFaces-1
  BY <1>1, <1>4
<1> QED
  BY <1>1, <1>2, <1>5, <1>7, <1>8, <1>9 DEF Walked, g

\* The walk of Start, Follow and FollowFork.
LEMMA WalkIsPathStep ==
  ASSUME IInv, HandsMeet, WalkIsPath, Start \/ Follow \/ FollowFork PROVE WalkIsPath'
<1>1. UNCHANGED <<size, faces, right, i, j>> /\ pc' = "follow"
  BY DEF Start, Follow, FollowFork
<1>2. Heads' = Heads /\ \A p, f, g : Path(p, f, g) => Path(p, f, g)'
  BY <1>1, ChainsUnchanged
<1>3. CASE Start
  <2>1. /\ IsHead(<<i, j>>) /\ at' = <<i, j>> /\ last' = <<i, j>> /\ i \in Nat /\ j \in Nat
        /\ i < size /\ j < faces[i]
    BY <1>3 DEF Start, IInv, TypeOK
  <2>2. <<i, j>> \in Nodes /\ j \in 0..MaxFaces-1
    BY <2>1, InArray DEF IInv
  <2>3. <<i, j>> \in Heads
    BY <2>1, <2>2, HeadIsHead
  <2>10. PICK p : p = [h \in i..i |-> j]
    OBVIOUS
  <2>4. p \in [i..i -> 0..MaxFaces-1] /\ p[i] = j /\ i..i-1 = {} /\ i+1..i = {}
    BY <2>1, <2>2, <2>10
  <2>5. Path(p, i, i)
    BY <2>2, <2>4 DEF Path
  <2>6. PICK f : f = i
    OBVIOUS
  <2>7. Walked(p, f)'
    BY <1>1, <1>2, <2>4, <2>5, <2>6 DEF Walked
  <2>8. LastOneHand(p, f)'
    <3>1. i \in i..i /\ Len(right[<<i, j>>]) = 1
      BY <2>1 DEF IsHead
    <3> QED
      BY <1>1, <2>1, <2>4, <2>6, <3>1 DEF LastOneHand
  <2>9. at'[1] = f /\ at'[2] = p[f]
    BY <2>1, <2>4, <2>6
  <2> QED
    BY <1>1, <1>2, <2>1, <2>3, <2>6, <2>7, <2>8, <2>9 DEF WalkIsPath
<1>4. CASE Follow \/ FollowFork
  <2>1. /\ pc = "follow" /\ at' = NextNode
        /\ \/ last' = NextNode /\ Len(right[NextNode]) = 1
           \/ last' = last /\ Len(right[NextNode]) # 1
    <3>1. NextNode \in Node /\ right[NextNode] \in Seq(0..MaxFaces-1)
      BY <1>4, NodesAreNodes DEF Follow, FollowFork, IInv, WalkStaysInside, TypeOK
    <3>2. Len(right[NextNode]) \in Nat
      BY <3>1
    <3>3. CASE Follow
      BY <3>3 DEF Follow
    <3>4. CASE FollowFork
      <4>1. pc = "follow" /\ at' = NextNode /\ last' = last /\ Len(right[NextNode]) > 1
        BY <3>4 DEF FollowFork
      <4>2. \A l \in Nat : l > 1 => l # 1
        OBVIOUS
      <4>3. Len(right[NextNode]) # 1
        BY <3>2, <4>1, <4>2
      <4> QED
        BY <4>1, <4>3
    <3> QED
      BY <1>4, <3>3, <3>4
  <2>8. PICK g : g = at[1]
    OBVIOUS
  <2>2. g \in i..size-1 /\ i \in Nat /\ size \in Nat
    BY <2>1, <2>8, WalkGoesOn
  <2>3. PICK p : /\ Walked(p, g + 1) /\ <<g + 1, p[g + 1]>> = NextNode /\ LastOneHand(p, g)
    BY <2>1, <2>8, WalkGoesOn
  <2>4. <<i, j>> \in Heads
    BY <2>1 DEF WalkIsPath
  <2>5. at'[1] = g + 1 /\ at'[2] = p[g + 1] /\ g + 1 \in Nat /\ i <= g + 1
    BY <2>1, <2>2, <2>3
  <2>9. PICK e : e = g + 1
    OBVIOUS
  <2>6. Walked(p, e)'
    BY <2>9, <1>1, <1>2, <2>3 DEF Walked
  <2>7. LastOneHand(p, e)'
    <3>1. CASE last' = NextNode /\ Len(right[NextNode]) = 1
      <4>1. g + 1 \in i..g+1 /\ (g + 1)+1..g+1 = {}
        BY <2>2
      <4> QED
        BY <1>1, <2>9, <2>3, <3>1, <4>1 DEF LastOneHand
    <3>2. CASE last' = last /\ Len(right[NextNode]) # 1
      <4>1. PICK h \in i..g : /\ last = <<h, p[h]>> /\ Len(right[last]) = 1
                              /\ \A x \in h+1..g : Len(right[<<x, p[x]>>]) # 1
        BY <2>3 DEF LastOneHand
      <4>2. h \in i..g+1 /\ \A x \in h+1..g+1 : x \in h+1..g \/ x = g + 1
        BY <2>2, <4>1
      <4>3. \A x \in h+1..g+1 : Len(right[<<x, p[x]>>]) # 1
        BY <2>3, <3>2, <4>1, <4>2
      <4> QED
        BY <1>1, <2>9, <3>2, <4>1, <4>2, <4>3 DEF LastOneHand
    <3> QED
      BY <2>1, <3>1, <3>2
  <2> QED
    BY <1>1, <1>2, <2>9, <2>4, <2>5, <2>6, <2>7 DEF WalkIsPath
<1> QED
  BY <1>3, <1>4

\* Where the walk ends there is the tail of the chain's head.
LEMMA TailFound ==
  ASSUME IInv, WalkIsPath, FollowEnd
  PROVE  IsTail(<<i, j>>, [oldRes |-> last, newRes |-> NextNode])
<1> DEFINE g == at[1] + 1
           t == [oldRes |-> last, newRes |-> NextNode]
<1>1. pc = "follow" /\ right[NextNode] = <<>>
  BY DEF FollowEnd
<1>2. g \in i..size-1 /\ i \in Nat /\ at[1] \in i..g /\ at[1] = g - 1 /\ g \in Nat
  BY <1>1, WalkGoesOn
<1>3. PICK p : Walked(p, g) /\ <<g, p[g]>> = NextNode /\ LastOneHand(p, at[1])
  BY <1>1, WalkGoesOn
<1>4. p \in [i..g -> 0..MaxFaces-1] /\ p[i] = j /\ Path(p, i, g)
  BY <1>3 DEF Walked
<1>5. PICK h \in i..at[1] : /\ last = <<h, p[h]>> /\ Len(right[last]) = 1
                            /\ \A x \in h+1..at[1] : Len(right[<<x, p[x]>>]) # 1
  BY <1>3 DEF LastOneHand
<1> HIDE DEF g
<1> DEFINE OneHand == {x \in i..g : Len(right[<<x, p[x]>>]) = 1}
<1>6. h \in OneHand
  BY <1>2, <1>5
<1>7. ASSUME NEW x \in OneHand PROVE x <= h
  <2>1. x # g
    <3>1. right[<<g, p[g]>>] = <<>> /\ Len(<<>>) # 1
      BY <1>1, <1>3
    <3>2. Len(right[<<x, p[x]>>]) = 1
      OBVIOUS
    <3> QED
      BY <3>1, <3>2
  <2>2. x \in i..at[1]
    BY <1>2, <2>1
  <2>3. x \notin h+1..at[1]
    BY <1>5
  <2> QED
    BY <1>2, <1>5, <2>2, <2>3
<1>8. \E l \in OneHand : (\A x \in OneHand : x <= l) /\ t.oldRes = <<l, p[l]>>
  <2> HIDE DEF OneHand
  <2> QED
    BY <1>5, <1>6, <1>7
<1>9. t.newRes = <<g, p[g]>> /\ right[<<g, p[g]>>] = <<>>
  BY <1>1, <1>3
<1> HIDE DEF t
<1>10. IsTail(<<i, j>>, t)
  BY <1>2, <1>4, <1>8, <1>9 DEF IsTail
<1> QED
  BY <1>10 DEF t

\* A step that adds no tail keeps the order when it passes no head.
LEMMA OrderKept ==
  ASSUME UNCHANGED <<size, faces, right, res>>, NEW order, InOrder(order),
         \A n \in Heads : Before(n, <<i, j>>) <=> Before(n, <<i', j'>>)
  PROVE  InOrder(order)'
<1>1. Heads' = Heads /\ \A n, t : IsTail(n, t) => IsTail(n, t)'
  BY ChainsUnchanged
<1> QED
  BY <1>1 DEF InOrder, Before

LEMMA HeadsAreNodes ==
  ASSUME IInv, NEW n \in Heads
  PROVE  n \in Nodes /\ n = <<n[1], n[2]>> /\ n[1] \in Nat /\ n[2] \in Nat
         /\ n[1] < size /\ n[2] < faces[n[1]] /\ faces[n[1]] \in Nat
<1>1. n \in Nodes
  BY DEF Heads
<1>2. n \in Node /\ n[1] \in Frame /\ n[2] < faces[n[1]]
  BY <1>1 DEF Nodes, Node
<1> QED
  BY <1>1, <1>2, NodesAreNodes DEF IInv, TypeOK

\* What the scan passes without a tail is no head.
LEMMA ScanPasses ==
  ASSUME IInv, HandsMeet, ScanFrame \/ Skip, NEW n \in Heads
  PROVE  Before(n, <<i, j>>) <=> Before(n, <<i', j'>>)
<1>1. i \in Nat /\ j \in Nat
  BY DEF IInv, TypeOK
<1>2. /\ n \in Nodes /\ n = <<n[1], n[2]>> /\ n[1] \in Nat /\ n[2] \in Nat
      /\ n[2] < faces[n[1]] /\ faces[n[1]] \in Nat
  BY HeadsAreNodes
<1>3. CASE ScanFrame
  <2>1. i' = i + 1 /\ j' = 0 /\ j >= faces[i]
    BY <1>3 DEF ScanFrame
  <2> QED
    BY <1>1, <1>2, <2>1 DEF Before
<1>4. CASE Skip
  <2>1. i' = i /\ j' = j + 1 /\ ~IsHead(<<i, j>>)
    BY <1>4 DEF Skip
  <2>2. n # <<i, j>>
    BY <1>2, <2>1, HeadIsHead
  <2>3. ~(n[1] = i /\ n[2] = j)
    BY <1>2, <2>2
  <2> QED
    BY <1>1, <1>2, <2>1, <2>3 DEF Before
<1> QED
  BY <1>3, <1>4

\* A tail found is that of the next head.
LEMMA OrderGrows ==
  ASSUME IInv, WalkIsPath, FollowEnd, NEW order, InOrder(order)
  PROVE  \E next : InOrder(next)'
<1>1. /\ UNCHANGED <<size, faces, right>> /\ i' = i /\ j' = j + 1 /\ pc = "follow"
      /\ res' = Append(res, [oldRes |-> last, newRes |-> NextNode])
  BY DEF FollowEnd
<1>2. Heads' = Heads /\ \A n, t : IsTail(n, t) => IsTail(n, t)'
  BY <1>1, ChainsUnchanged
<1>3. <<i, j>> \in Heads /\ i \in Nat /\ j \in Nat
  BY <1>1 DEF WalkIsPath, IInv, TypeOK
<1>4. IsTail(<<i, j>>, [oldRes |-> last, newRes |-> NextNode])
  BY TailFound
<1>5. PICK m : m = Len(res)
  OBVIOUS
<1>6. PICK tail : tail = [oldRes |-> last, newRes |-> NextNode]
  OBVIOUS
<1>7. PICK head : head = <<i, j>>
  OBVIOUS
<1>8. /\ m \in Nat /\ Len(res') = m + 1 /\ res'[m + 1] = tail
      /\ \A t \in 1..m : res'[t] = res[t]
  <2>1. res \in Seq([oldRes : Node, newRes : Node])
    BY DEF IInv, TypeOK
  <2> QED
    BY <1>1, <1>5, <1>6, <2>1
<1>9. PICK next : next = [t \in 1..m+1 |-> IF t = m + 1 THEN head ELSE order[t]]
  OBVIOUS
<1>10. /\ order \in [1..m -> Heads]
       /\ \A t \in 1..m : IsTail(order[t], res[t])
       /\ \A t \in 1..m-1 : Before(order[t], order[t + 1])
       /\ \A n \in Heads : Before(n, head) <=> \E t \in 1..m : order[t] = n
  BY <1>5, <1>7 DEF InOrder
<1>11. next[m + 1] = head /\ \A t \in 1..m : next[t] = order[t]
  BY <1>8, <1>9
<1>12. next \in [1..m+1 -> Heads]
  BY <1>3, <1>7, <1>8, <1>9, <1>10
<1>13. ASSUME NEW t \in 1..m+1 PROVE IsTail(next[t], res[t])'
  <2>1. CASE t \in 1..m
    <3>1. IsTail(order[t], res[t])
      BY <1>10, <2>1
    <3>2. PICK a, b : a = order[t] /\ b = res[t]
      OBVIOUS
    <3>3. IsTail(a, b)'
      BY <1>2, <3>1, <3>2
    <3> QED
      BY <1>8, <1>11, <2>1, <3>2, <3>3
  <2>2. CASE t = m + 1
    <3>1. IsTail(head, tail)'
      BY <1>2, <1>4, <1>6, <1>7
    <3> QED
      BY <1>8, <1>11, <2>2, <3>1
  <2> QED
    BY <1>8, <2>1, <2>2
<1>14. ASSUME NEW t \in 1..m PROVE Before(next[t], next[t + 1])
  <2>1. CASE t \in 1..m-1
    <3>1. t + 1 \in 1..m
      BY <1>8, <2>1
    <3> QED
      BY <1>10, <1>11, <2>1, <3>1
  <2>2. CASE t = m
    <3>1. order[t] \in Heads
      BY <1>10
    <3>2. Before(order[t], head)
      BY <1>10, <3>1
    <3> QED
      BY <1>11, <2>2, <3>2
  <2> QED
    BY <1>8, <2>1, <2>2
<1>15. ASSUME NEW n \in Heads
       PROVE  Before(n, <<i, j>>)' <=> \E t \in 1..m+1 : next[t] = n
  <2>1. n = <<n[1], n[2]>> /\ n[1] \in Nat /\ n[2] \in Nat
    BY HeadsAreNodes
  <2>2. Before(n, <<i, j>>)' <=> Before(n, head) \/ n = head
    BY <1>1, <1>3, <1>7, <2>1 DEF Before
  <2>3. (\E t \in 1..m+1 : next[t] = n) <=> (\E t \in 1..m : order[t] = n) \/ n = head
    <3>1. \A t \in 1..m+1 : t \in 1..m \/ t = m + 1
      BY <1>8
    <3>2. m + 1 \in 1..m+1 /\ \A t \in 1..m : t \in 1..m+1
      BY <1>8
    <3> QED
      BY <1>11, <3>1, <3>2
  <2> QED
    BY <1>10, <2>2, <2>3
<1>16. InOrder(next)'
  BY <1>2, <1>8, <1>12, <1>13, <1>14, <1>15 DEF InOrder
<1> QED
  BY <1>16

\* The scan has the tails of the heads it has passed.
LEMMA HeadsScannedStep ==
  ASSUME IInv, HandsMeet, WalkIsPath, HeadsScanned, [Next]_vars PROVE HeadsScanned'
<1>1. CASE TestPair \/ LinkFrame
  BY <1>1 DEF TestPair, LinkFrame, Linking, HeadsScanned
<1>2. CASE LinkEnd
  <2>1. i' = 0 /\ j' = 0 /\ UNCHANGED <<size, faces, right, res>> /\ res = <<>>
    BY <1>2 DEF LinkEnd, IInv
  <2>2. Heads' = Heads
    BY <2>1, ChainsUnchanged
  <2>3. ASSUME NEW n \in Heads PROVE ~Before(n, <<i', j'>>)
    BY <2>1, HeadsAreNodes DEF Before
  <2>4. PICK order : order = [t \in 1..0 |-> <<0, 0>>]
    OBVIOUS
  <2>5. InOrder(order)'
    <3>1. Len(res') = 0 /\ 1..0 = {} /\ 1..0-1 = {}
      BY <2>1
    <3>2. order \in [1..0 -> Heads]
      BY <2>4
    <3> QED
      BY <2>2, <2>3, <3>1, <3>2 DEF InOrder, Before
  <2> QED
    BY <2>5 DEF HeadsScanned
<1>3. CASE ScanFrame \/ Skip
  <2>1. PICK order : InOrder(order)
    BY <1>3 DEF ScanFrame, Skip, HeadsScanned
  <2>2. UNCHANGED <<size, faces, right, res>>
    BY <1>3 DEF ScanFrame, Skip
  <2>3. InOrder(order)'
    BY <1>3, <2>1, <2>2, ScanPasses, OrderKept
  <2> QED
    BY <2>3 DEF HeadsScanned
<1>4. CASE Start \/ Follow \/ FollowFork \/ Finish
  <2>1. UNCHANGED <<size, faces, right, res, i, j>> /\ pc # "link"
    BY <1>4 DEF Start, Follow, FollowFork, Finish
  <2>2. PICK order : InOrder(order)
    BY <2>1 DEF HeadsScanned
  <2>3. InOrder(order)'
    BY <2>1, <2>2, OrderKept
  <2> QED
    BY <2>3 DEF HeadsScanned
<1>5. CASE FollowEnd
  <2>1. PICK order : InOrder(order)
    BY <1>5 DEF FollowEnd, HeadsScanned
  <2>2. \E next : InOrder(next)'
    BY <1>5, <2>1, OrderGrows
  <2> QED
    BY <2>2 DEF HeadsScanned
<1>6. CASE UNCHANGED vars
  <2>1. UNCHANGED <<size, faces, right, res, i, j, pc>>
    BY <1>6 DEF vars
  <2>2. CASE pc # "link"
    <3>1. PICK order : InOrder(order)
      BY <2>2 DEF HeadsScanned
    <3>2. InOrder(order)'
      BY <2>1, <3>1, OrderKept
    <3> QED
      BY <3>2 DEF HeadsScanned
  <2>3. CASE pc = "link"
    BY <2>1, <2>3 DEF HeadsScanned
  <2> QED
    BY <2>2, <2>3
<1> QED
  BY <1>1, <1>2, <1>3, <1>4, <1>5, <1>6 DEF Next, MakeChains, Get2NodeTails

LEMMA ChainedInit == Init => Chained
BY InitInv, HandsMeetInit DEF Init, Chained, WalkIsPath, HeadsScanned, ScanEnds

LEMMA ChainedStep == Chained /\ [Next]_vars => Chained'
<1> SUFFICES ASSUME Chained, [Next]_vars PROVE Chained'
  OBVIOUS
<1>1. IInv' /\ HandsMeet' /\ HeadsScanned'
  BY StepInv, HandsMeetStep, HeadsScannedStep DEF Chained
<1>2. WalkIsPath'
  <2>1. CASE Start \/ Follow \/ FollowFork
    BY <2>1, WalkIsPathStep DEF Chained
  <2>2. CASE MakeChains \/ ScanFrame \/ Skip \/ FollowEnd \/ Finish
    <3>1. pc' # "follow"
      BY <2>2 DEF MakeChains, TestPair, LinkFrame, LinkEnd, Linking, ScanFrame, Skip,
                  FollowEnd, Finish
    <3> QED
      BY <3>1 DEF WalkIsPath
  <2>3. CASE UNCHANGED vars
    <3>1. UNCHANGED <<size, faces, right, i, j, pc, at, last>>
      BY <2>3 DEF vars
    <3>2. Heads' = Heads /\ \A p, f, g : Path(p, f, g) => Path(p, f, g)'
      BY <3>1, ChainsUnchanged
    <3>3. CASE pc # "follow"
      BY <3>1, <3>3 DEF WalkIsPath
    <3>4. CASE pc = "follow"
      <4>1. PICK f : f = at[1]
        OBVIOUS
      <4>2. PICK p : Walked(p, f) /\ p[f] = at[2] /\ LastOneHand(p, f)
        BY <3>4, <4>1 DEF Chained, WalkIsPath
      <4>3. <<i, j>> \in Heads /\ f \in Nat /\ i <= f
        BY <3>4, <4>1 DEF Chained, WalkIsPath
      <4>4. Walked(p, f)'
        BY <3>1, <3>2, <4>2 DEF Walked
      <4>5. LastOneHand(p, f)'
        BY <3>1, <4>2 DEF LastOneHand
      <4> QED
        BY <3>1, <3>2, <4>1, <4>2, <4>3, <4>4, <4>5 DEF WalkIsPath
    <3> QED
      BY <3>3, <3>4
  <2> QED
    BY <2>1, <2>2, <2>3 DEF Next, Get2NodeTails
<1>3. ScanEnds'
  BY DEF Chained, ScanEnds, Next, MakeChains, Get2NodeTails, TestPair, LinkFrame, LinkEnd,
         Linking, ScanFrame, Skip, Start, Follow, FollowFork, FollowEnd, Finish, vars
<1> QED
  BY <1>1, <1>2, <1>3 DEF Chained

LEMMA ChainedEnd ==
  ASSUME Chained PROVE TailsOfHeads
<1> SUFFICES ASSUME pc = "done" PROVE TailsOfHeads
  BY DEF TailsOfHeads
<1>1. PICK order : InOrder(order)
  BY DEF Chained, HeadsScanned
<1>2. ASSUME NEW n \in Heads PROVE \E t \in 1..Len(res) : order[t] = n
  <2>1. IInv /\ i >= size /\ size \in Nat /\ i \in Nat
    BY DEF Chained, ScanEnds, IInv, TypeOK
  <2>2. n[1] \in Nat /\ n[1] < size
    BY <2>1, HeadsAreNodes
  <2>3. Before(n, <<i, j>>)
    BY <2>1, <2>2 DEF Before
  <2> QED
    BY <1>1, <2>3 DEF InOrder
<1>3. /\ order \in [1..Len(res) -> Heads]
      /\ \A t \in 1..Len(res) : IsTail(order[t], res[t])
  BY <1>1 DEF InOrder
<1>4. ASSUME NEW t \in 1..Len(res) - 1
      PROVE  LET a == order[t]  b == order[t + 1]
             IN a[1] < b[1] \/ (a[1] = b[1] /\ a[2] < b[2])
  BY <1>1 DEF InOrder, Before
<1> QED
  BY <1>2, <1>3, <1>4 DEF TailsOfHeads

-----------------------------------------------------------------------------
\* Type correctness: the counters of both functions stay within the array.
THEOREM TypeCorrect == Spec => []TypeOK
BY InitInv, StepInv, PTL DEF Spec, IInv

\* WalkStaysInside: wherever the loop without a test stands, the first right hand it reads
\* exists and names a face of the next frame.
THEOREM WalkIsInside == Spec => []WalkStaysInside
BY InitInv, StepInv, PTL DEF Spec, IInv

\* TailsExtrapolate: the rectangles of a tail are faces of two frames, the older first, so
\* that getRectWithTimeStamp has a time difference to divide by.
THEOREM TailsAreOrdered == Spec => []TailsExtrapolate
BY InitInv, StepInv, PTL DEF Spec, IInv

\* TailsOfHeads: what get2NodeTails returns are the tails of the chains, one for each chain
\* that begins with a face of one right hand, in the order of the scan.
THEOREM TailsAreOfHeads == Spec => []TailsOfHeads
BY ChainedInit, ChainedStep, ChainedEnd, PTL DEF Spec

\* Onward: each step of makeChains and get2NodeTails, the loop without a test among them,
\* is one towards the end of both.
THEOREM StepsLeadOn == Spec => Onward
<1> DEFINE On == \/ Part < Part'
                 \/ Part = Part' /\ i < i'
                 \/ Part = Part' /\ i = i' /\ j < j'
                 \/ /\ Part = Part' /\ i = i' /\ j = j'
                    /\ k < k' \/ (pc = "scan" /\ pc' = "follow")
                       \/ (pc = "follow" /\ pc' = "follow" /\ at[1] < at'[1])
<1>1. IInv /\ [Next]_vars => [On]_vars
  <2> SUFFICES ASSUME IInv, Next PROVE On
    OBVIOUS
  <2>1. i \in Nat /\ j \in Nat /\ k \in Nat
    BY DEF IInv, TypeOK
  <2>2. CASE TestPair
    BY <2>1, <2>2 DEF TestPair, Linking, Advance, Part
  <2>3. CASE LinkFrame
    BY <2>1, <2>3 DEF LinkFrame, Linking, Part
  <2>4. CASE LinkEnd \/ Finish
    BY <2>4 DEF LinkEnd, Finish, Part
  <2>5. CASE ScanFrame \/ Skip \/ FollowEnd
    BY <2>1, <2>5 DEF ScanFrame, Skip, FollowEnd, Part
  <2>6. CASE Start
    BY <2>6 DEF Start, Part
  <2>7. CASE Follow \/ FollowFork
    <3>1. pc = "follow" /\ UNCHANGED <<pc, i, j>> /\ at' = NextNode
      BY <2>7 DEF Follow, FollowFork
    <3>2. at[1] \in Nat
      BY <3>1, NodesAreNodes DEF IInv, WalkStaysInside
    <3>3. at'[1] = at[1] + 1
      BY <3>1 DEF NextNode
    <3> QED
      BY <3>1, <3>2, <3>3 DEF Part
  <2> QED
    BY <2>2, <2>3, <2>4, <2>5, <2>6, <2>7 DEF Next, MakeChains, Get2NodeTails
<1> QED
  BY <1>1, InitInv, StepInv, PTL DEF Spec, Onward

=============================================================================
