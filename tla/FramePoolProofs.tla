--------------------------- MODULE FramePoolProofs ----------------------------
(* Reference counts and freshness of the frame pool for any depth, any number *)
(* of consumers and any number of frame buffers.                             *)
EXTENDS FramePool, FiniteSetTheorems, TLAPS

\* What push_back and erase(begin()) do to the positions.
LEMMA AppendFacts ==
  ASSUME NEW s \in Seq(Addr), NEW a \in Addr
  PROVE  /\ Append(s, a) \in Seq(Addr)
         /\ Len(s) \in Nat
         /\ Len(Append(s, a)) = Len(s) + 1
         /\ \A i \in 1..Len(s) : Append(s, a)[i] = s[i]
         /\ Append(s, a)[Len(s) + 1] = a
OBVIOUS

LEMMA TailFacts ==
  ASSUME NEW s \in Seq(Addr), s # <<>>
  PROVE  /\ Tail(s) \in Seq(Addr)
         /\ Len(s) \in Nat \ {0}
         /\ Len(Tail(s)) = Len(s) - 1
         /\ \A i \in 1..(Len(s) - 1) : Tail(s)[i] = s[i + 1]
         /\ Head(s) = s[1]
OBVIOUS

\* The holders of a frame are finitely many.
LEMMA HoldersFinite ==
  ASSUME NEW a PROVE IsFiniteSet(Holders(a)) /\ Cardinality(Holders(a)) \in Nat
BY PoolAssumption, FS_Subset, FS_CardinalityType DEF Holders

\* One count of a table of counts is replaced.
LEMMA CountsExcept ==
  ASSUME NEW F \in [Addr -> Nat], NEW a \in Addr, NEW n \in Nat
  PROVE  [F EXCEPT ![a] = n] \in [Addr -> Nat]
OBVIOUS

LEMMA InitInv == Init => IInv
<1> SUFFICES ASSUME Init PROVE IInv
  OBVIOUS
<1> USE PoolAssumption DEF Init
<1>1. TypeOK
  BY DEF TypeOK, MgrLabel, UserLabel
<1>2. Len(working) = 0
  OBVIOUS
<1>3. Distinct /\ SizedFresh /\ RefCountExact /\ Fresh /\ KeptWhileHolding
  BY <1>2 DEF Distinct, SizedFresh, RefCountExact, Fresh, KeptWhileHolding
<1>4. Phase
  BY <1>2 DEF Phase, Active
<1> QED
  BY <1>1, <1>3, <1>4 DEF IInv

\* The steps of the manager that leave the pool's contents alone.
LEMMA ManagerInv ==
  ASSUME IInv, Prepare \/ PushBegin \/ NoFrame \/ RemoveBegin \/ Destroy \/ Restart
  PROVE  IInv'
<1> USE DEF IInv, users, faults
<1>1. /\ UNCHANGED <<working, ref, cpc, index, frame, age, leaked, throws>>
      /\ mgr' \in MgrLabel
  BY DEF Prepare, PushBegin, NoFrame, RemoveBegin, Destroy, Restart, MgrLabel
<1>2. TypeOK'
  BY <1>1 DEF TypeOK
<1>3. Distinct' /\ SizedFresh' /\ RefCountExact' /\ Fresh'
  BY <1>1 DEF Distinct, SizedFresh, RefCountExact, Fresh, Holders
<1>4. Phase'
  BY PoolAssumption, <1>1 DEF TypeOK, Phase, Active, Prepare, PushBegin, NoFrame,
                              RemoveBegin, Destroy, Restart
<1>20. KeptWhileHolding'
  BY <1>1 DEF KeptWhileHolding, TypeOK
<1> QED
  BY <1>20, <1>2, <1>3, <1>4

\* Appending a frame that is not in the pool.
LEMMA PushInv == ASSUME IInv, NEW a \in Addr, PushEnd(a) PROVE IInv'
<1> USE PoolAssumption DEF IInv, PushEnd
<1>1. /\ working' \in Seq(Addr)
      /\ Len(working) \in Nat
      /\ Len(working') = Len(working) + 1
      /\ \A i \in 1..Len(working) : working'[i] = working[i] /\ working[i] # a
      /\ working'[Len(working) + 1] = a
  BY AppendFacts DEF TypeOK, InPool
<1>2. TypeOK'
  BY <1>1 DEF TypeOK, MgrLabel, Phase
<1>3. Distinct'
  BY <1>1 DEF Distinct
<1>4. SizedFresh'
  <2> SUFFICES ASSUME NEW c \in Consumers, cpc[c] = "sized", index[c] \in 1..Len(working')
               PROVE  Len(working') - index[c] <= age'[c]
    BY DEF SizedFresh
  <2>1. age'[c] = age[c] + 1 /\ age[c] \in Nat /\ index[c] \in Nat
    BY DEF TypeOK, Active
  <2>2. index[c] \in 1..Len(working) => Len(working) - index[c] <= age[c]
    BY DEF SizedFresh
  <2> QED
    BY <1>1, <2>1, <2>2
<1>5. Phase'
  BY <1>1 DEF TypeOK, Phase
<1>6. RefCountExact'
  <2>1. \A b : Holders(b)' = Holders(b)
    BY DEF Holders
  <2>2. Holders(a) = {}
    BY <1>1 DEF Holders, Fresh
  <2> SUFFICES ASSUME NEW i \in 1..Len(working')
               PROVE  ref'[working'[i]] = Cardinality(Holders(working'[i])) + leaked'[working'[i]]
    BY <2>1 DEF RefCountExact
  <2>3. CASE i = Len(working) + 1
    <3>1. ref'[a] = 0 /\ leaked'[a] = 0
      BY DEF TypeOK
    <3>2. working'[i] = a
      BY <1>1, <2>3
    <3>3. Cardinality(Holders(a)) = 0
      BY <2>2, FS_EmptySet
    <3> QED
      BY <3>1, <3>2, <3>3
  <2>4. CASE i \in 1..Len(working)
    <3>1. ref'[working[i]] = ref[working[i]] /\ leaked'[working[i]] = leaked[working[i]]
      BY <1>1, <2>4 DEF TypeOK
    <3> QED
      BY <1>1, <2>4, <3>1 DEF RefCountExact
  <2> QED
    BY <1>1, <2>3, <2>4
<1>7. Fresh'
  <2> SUFFICES ASSUME NEW c \in Consumers, cpc[c] = "holding"
               PROVE  \E i \in 1..Len(working') : /\ working'[i] = frame[c]
                                                  /\ Len(working') - i <= age'[c]
    BY DEF Fresh
  <2>1. PICK i \in 1..Len(working) : working[i] = frame[c] /\ Len(working) - i <= age[c]
    BY DEF Fresh
  <2>2. age'[c] = age[c] + 1 /\ age[c] \in Nat
    BY DEF TypeOK, Active
  <2> QED
    BY <1>1, <2>1, <2>2
<1>20. KeptWhileHolding'
  BY DEF KeptWhileHolding, TypeOK
<1> QED
  BY <1>20, <1>2, <1>3, <1>4, <1>5, <1>6, <1>7

\* Deleting the oldest frame once its count is 0.
LEMMA RemoveInv == ASSUME IInv, RemoveHead \/ DestroyHead PROVE IInv'
<1> USE PoolAssumption DEF IInv, users, faults
<1>1. /\ working # <<>>
      /\ ref[Head(working)] = 0
      /\ working' = Tail(working)
      /\ UNCHANGED <<ref, cpc, index, frame, age, leaked, throws>>
      /\ mgr' \in MgrLabel
  BY DEF RemoveHead, DestroyHead, Phase, TypeOK, MgrLabel
<1>2. /\ working' \in Seq(Addr)
      /\ Len(working) \in Nat \ {0}
      /\ Len(working') = Len(working) - 1
      /\ \A i \in 1..(Len(working) - 1) : working'[i] = working[i + 1]
      /\ Head(working) = working[1]
  BY <1>1, TailFacts DEF TypeOK
<1>3. TypeOK'
  BY <1>1, <1>2 DEF TypeOK
<1>4. Distinct'
  <2> SUFFICES ASSUME NEW i \in 1..Len(working'), NEW j \in 1..Len(working'),
                      working'[i] = working'[j]
               PROVE  i = j
    BY DEF Distinct
  <2>1. i + 1 \in 1..Len(working) /\ j + 1 \in 1..Len(working)
    BY <1>2
  <2>2. working[i + 1] = working[j + 1]
    BY <1>2
  <2> QED
    BY <2>1, <2>2 DEF Distinct
<1>5. SizedFresh'
  <2> SUFFICES ASSUME NEW c \in Consumers, cpc[c] = "sized", index[c] \in 1..Len(working')
               PROVE  Len(working') - index[c] <= age[c]
    BY <1>1 DEF SizedFresh
  <2>1. Len(working) - index[c] <= age[c] /\ age[c] \in Nat
    BY <1>2 DEF SizedFresh, TypeOK
  <2> QED
    BY <1>2, <2>1
<1>6. Phase'
  <2>1. CASE RemoveHead
    <3>1. mgr = "wait1" /\ Len(working) = PoolDepth + 1 /\ mgr' = "sampling"
      BY <2>1 DEF RemoveHead, Phase
    <3> QED
      BY <1>1, <1>2, <3>1 DEF Phase
  <2>2. CASE DestroyHead
    <3>1. mgr = "destroy" /\ Len(working) <= PoolDepth /\ mgr' = "destroy"
      BY <2>2 DEF DestroyHead, Phase
    <3> QED
      BY <1>1, <1>2, <3>1 DEF Phase, Active
  <2> QED
    BY <2>1, <2>2
<1>7. RefCountExact'
  <2>1. \A b : Holders(b)' = Holders(b)
    BY <1>1 DEF Holders
  <2> SUFFICES ASSUME NEW i \in 1..Len(working')
               PROVE  ref[working'[i]] = Cardinality(Holders(working'[i])) + leaked[working'[i]]
    BY <1>1, <2>1 DEF RefCountExact
  <2>2. i + 1 \in 1..Len(working) /\ working'[i] = working[i + 1]
    BY <1>2
  <2> QED
    BY <2>2 DEF RefCountExact
<1>8. Fresh'
  <2> SUFFICES ASSUME NEW c \in Consumers, cpc[c] = "holding"
               PROVE  \E i \in 1..Len(working') : /\ working'[i] = frame[c]
                                                  /\ Len(working') - i <= age[c]
    BY <1>1 DEF Fresh
  <2>1. PICK i \in 1..Len(working) : working[i] = frame[c] /\ Len(working) - i <= age[c]
    BY DEF Fresh
  <2>2. Cardinality(Holders(working[1])) = 0
    <3>1. 1 \in 1..Len(working)
      BY <1>2
    <3>2. ref[working[1]] = Cardinality(Holders(working[1])) + leaked[working[1]]
      BY <3>1 DEF RefCountExact
    <3>3. Cardinality(Holders(working[1])) \in Nat /\ leaked[working[1]] \in Nat
      BY <3>1, HoldersFinite DEF TypeOK
    <3> QED
      BY <1>1, <1>2, <3>2, <3>3
  <2>3. Holders(working[1]) = {}
    BY <2>2, HoldersFinite, FS_EmptySet
  <2>4. i # 1
    BY <2>1, <2>3 DEF Holders
  <2>5. i - 1 \in 1..Len(working') /\ working'[i - 1] = working[i]
    BY <1>2, <2>4
  <2> QED
    BY <1>2, <2>1, <2>5
<1>20. KeptWhileHolding'
  BY <1>1 DEF KeptWhileHolding, TypeOK
<1> QED
  BY <1>20, <1>3, <1>4, <1>5, <1>6, <1>7, <1>8

\* Reading the size, whatever the race makes of it.
LEMMA ReadSizeInv == ASSUME IInv, NEW c \in Consumers, ReadSize(c) PROVE IInv'
<1> USE PoolAssumption DEF IInv, ReadSize, pool, faults
<1>1. UNCHANGED <<working, ref, mgr, frame, leaked, throws>> /\ Len(working) \in Nat
  BY DEF TypeOK
<1>2. /\ index' = [index EXCEPT ![c] = index'[c]]
      /\ index'[c] \in Nat
      /\ index'[c] >= Len(working)
  <2>1. PICK n : /\ n \in {Len(working), Len(working) + 1, PoolDepth + 2}
                 /\ n = PoolDepth + 2 => Len(working) <= n
                 /\ index' = [index EXCEPT ![c] = n]
    <3>1. \/ index' = [index EXCEPT ![c] = Len(working)]
          \/ index' = [index EXCEPT ![c] = Len(working) + 1]
          \/ Len(working) = PoolDepth /\ index' = [index EXCEPT ![c] = PoolDepth + 2]
      OBVIOUS
    <3> HIDE DEF IInv, ReadSize
    <3> QED
      BY <1>1, <3>1
  <2> QED
    BY <1>1, <2>1 DEF TypeOK
<1>3. TypeOK'
  BY <1>1, <1>2 DEF TypeOK, UserLabel
<1>4. Distinct'
  BY <1>1 DEF Distinct
<1>5. SizedFresh'
  BY <1>1, <1>2 DEF TypeOK, SizedFresh
<1>6. Phase'
  BY <1>1 DEF TypeOK, Phase, Active
<1>7. RefCountExact'
  <2>1. \A b : Holders(b)' = Holders(b)
    BY <1>1 DEF Holders, TypeOK
  <2> QED
    BY <1>1, <2>1 DEF RefCountExact
<1>8. Fresh'
  BY <1>1 DEF Fresh, TypeOK
<1>20. KeptWhileHolding'
  BY <1>1 DEF KeptWhileHolding, TypeOK
<1> QED
  BY <1>20, <1>3, <1>4, <1>5, <1>6, <1>7, <1>8

\* Extracting a frame adds one holder and one reference.
LEMMA ExtractInv == ASSUME IInv, NEW c \in Consumers, Extract(c) PROVE IInv'
<1> USE PoolAssumption DEF IInv, Extract, faults
<1>1. UNCHANGED <<working, mgr, index, age, leaked, throws>> /\ Len(working) \in Nat \ {0}
  BY DEF TypeOK
<1>2. PICK p \in 1..Len(working) : Pick(c) = working[p] /\ Len(working) - p <= age[c]
  <2>1. CASE index[c] \in 1..Len(working)
    BY <2>1 DEF Pick, SizedFresh
  <2>2. CASE index[c] \notin 1..Len(working)
    <3>1. Pick(c) = working[Len(working)]
      BY <2>2 DEF Pick
    <3>2. Len(working) \in 1..Len(working) /\ Len(working) - Len(working) <= age[c]
      BY <1>1 DEF TypeOK
    <3> QED
      BY <3>1, <3>2
  <2> QED
    BY <2>1, <2>2
<1>3. /\ working[p] \in Addr
      /\ ref' = [ref EXCEPT ![working[p]] = @ + 1]
      /\ ref \in [Addr -> Nat]
  BY <1>2 DEF TypeOK
<1>4. TypeOK'
  <2>1. ref' \in [Addr -> Nat]
    BY <1>3
  <2> QED
    BY <1>1, <1>2, <1>3, <2>1 DEF TypeOK, UserLabel
<1>5. Distinct'
  BY <1>1 DEF Distinct
<1>6. SizedFresh'
  BY <1>1 DEF TypeOK, SizedFresh
<1>7. Phase'
  BY <1>1 DEF TypeOK, Phase, Active, Locked
<1>8. RefCountExact'
  <2>1. Holders(working[p])' = Holders(working[p]) \cup {c} /\ c \notin Holders(working[p])
    BY <1>2 DEF Holders, TypeOK
  <2>2. Cardinality(Holders(working[p]))' = Cardinality(Holders(working[p])) + 1
    BY <2>1, HoldersFinite, FS_AddElement
  <2>3. \A b : b # working[p] => Holders(b)' = Holders(b)
    BY <1>2 DEF Holders, TypeOK
  <2> SUFFICES ASSUME NEW i \in 1..Len(working)
               PROVE  ref'[working[i]] = Cardinality(Holders(working[i]))' + leaked[working[i]]
    BY <1>1 DEF RefCountExact
  <2>4. /\ ref[working[i]] = Cardinality(Holders(working[i])) + leaked[working[i]]
        /\ working[i] \in Addr /\ leaked[working[i]] \in Nat
        /\ Cardinality(Holders(working[i])) \in Nat
    BY HoldersFinite DEF RefCountExact, TypeOK
  <2>5. CASE working[i] = working[p]
    <3>1. ref'[working[i]] = ref[working[i]] + 1
      BY <1>3, <2>5
    <3>2. Cardinality(Holders(working[i]))' = Cardinality(Holders(working[i])) + 1
      BY <2>2, <2>5
    <3>3. ref[working[i]] \in Nat
      BY <1>3, <2>4
    <3> HIDE DEF Extract
    <3> QED
      BY <2>4, <3>1, <3>2, <3>3
  <2>6. CASE working[i] # working[p]
    BY <1>2, <2>3, <2>4, <2>6 DEF TypeOK
  <2> QED
    BY <2>5, <2>6
<1>9. Fresh'
  BY <1>1, <1>2 DEF Fresh, TypeOK
<1>20. KeptWhileHolding'
  BY DEF KeptWhileHolding, TypeOK
<1> QED
  BY <1>20, <1>4, <1>5, <1>6, <1>7, <1>8, <1>9

\* Giving a frame back, by relieving it or by leaking the reference, removes one holder.
LEMMA ReleaseInv == ASSUME IInv, NEW c \in Consumers, Relieve(c) \/ Throw(c) PROVE IInv'
<1> USE PoolAssumption DEF IInv, Forget, faults, pool
<1>1. /\ cpc[c] = "holding" /\ mgr # "aborted"
      /\ cpc' = [cpc EXCEPT ![c] = "idle"]
      /\ index' = [index EXCEPT ![c] = 0]
      /\ frame' = [frame EXCEPT ![c] = NoAddr]
      /\ age' = [age EXCEPT ![c] = 0]
      /\ UNCHANGED working
  BY DEF Relieve, Throw
<1>2. PICK p \in 1..Len(working) : working[p] = frame[c]
  BY <1>1 DEF Fresh
<1> DEFINE f == working[p]
<1>3. f \in Addr /\ InPool(frame[c])
  BY <1>2 DEF TypeOK, InPool
<1>4. Holders(f)' = Holders(f) \ {c} /\ c \in Holders(f)
  BY <1>1, <1>2, <1>3 DEF Holders, TypeOK
<1>5. /\ Cardinality(Holders(f)') = Cardinality(Holders(f)) - 1
      /\ Cardinality(Holders(f)) \in Nat /\ Cardinality(Holders(f)') \in Nat
  <2>1. IsFiniteSet(Holders(f)) /\ Cardinality(Holders(f)) \in Nat
    BY HoldersFinite
  <2> QED
    BY <1>4, <2>1, FS_RemoveElement, FS_CardinalityType
<1>6. \A b \in Addr : b # f => Holders(b)' = Holders(b)
  BY <1>1, <1>2, <1>3 DEF Holders, TypeOK
<1>7. ref[f] = Cardinality(Holders(f)) + leaked[f]
  BY DEF RefCountExact
<1>8. \/ ref' = [ref EXCEPT ![f] = @ - 1] /\ UNCHANGED <<mgr, leaked, throws>>
      \/ /\ UNCHANGED <<ref, mgr>> /\ leaked' = [leaked EXCEPT ![f] = @ + 1]
         /\ throws' = throws + 1 /\ throws < MaxThrows
  BY <1>2, <1>3 DEF Relieve, Throw
<1>9. TypeOK'
  <2>1. ref[f] \in Nat /\ leaked[f] \in Nat /\ throws \in Nat
    BY <1>3 DEF TypeOK
  <2>2. ref' \in [Addr -> Nat]
    <3>1. CASE ref' = [ref EXCEPT ![f] = @ - 1]
      <4>1. ref[f] - 1 \in Nat
        <5>1. Cardinality(Holders(f)) >= 1
          BY <1>5
        <5> QED
          BY <1>7, <2>1, <1>5, <5>1
      <4>2. ref \in [Addr -> Nat]
        BY DEF TypeOK
      <4> QED
        BY <1>3, <3>1, <4>1, <4>2, CountsExcept
    <3> QED
      BY <1>8, <3>1 DEF TypeOK
  <2>3. leaked' \in [Addr -> Nat] /\ throws' \in 0..MaxThrows
    <3>1. CASE UNCHANGED <<leaked, throws>>
      BY <3>1 DEF TypeOK
    <3>2. CASE leaked' = [leaked EXCEPT ![f] = @ + 1] /\ throws' = throws + 1 /\ throws < MaxThrows
      <4>1. leaked' \in [Addr -> Nat]
        <5>1. leaked \in [Addr -> Nat]
          BY DEF TypeOK
        <5>2. leaked[f] + 1 \in Nat
          BY <2>1
        <5> QED
          BY <1>3, <3>2, <5>1, <5>2, CountsExcept
      <4>2. throws' \in 0..MaxThrows
        BY <2>1, <3>2
      <4> QED
        BY <4>1, <4>2
    <3> QED
      BY <1>8, <3>1, <3>2
  <2>4. cpc' \in [Consumers -> UserLabel] /\ index' \in [Consumers -> Nat]
    BY <1>1 DEF TypeOK, UserLabel
  <2>5. frame' \in [Consumers -> Addr \cup {NoAddr}] /\ age' \in [Consumers -> 0..HoldLimit]
    BY <1>1 DEF TypeOK
  <2> QED
    BY <1>1, <1>8, <2>2, <2>3, <2>4, <2>5 DEF TypeOK
<1>10. Distinct'
  BY <1>1 DEF Distinct
<1>11. SizedFresh'
  BY <1>1 DEF TypeOK, SizedFresh
<1>12. Phase'
  <2>1. UNCHANGED <<mgr, working>>
    BY <1>1, <1>8
  <2>2. \A d \in Consumers : Active(d)' => Active(d) /\ age'[d] = age[d]
    BY <1>1 DEF Active, TypeOK
  <2>3. throws' = 0 => \A a \in Addr : leaked'[a] = 0
    BY <1>8 DEF Phase, TypeOK
  <2> QED
    BY <2>1, <2>2, <2>3 DEF Phase
<1>13. RefCountExact'
  <2> SUFFICES ASSUME NEW i \in 1..Len(working)
               PROVE  ref'[working[i]] = Cardinality(Holders(working[i])') + leaked'[working[i]]
    BY <1>1 DEF RefCountExact
  <2>a. working[i] \in Addr
    BY DEF TypeOK
  <2>b. ref[working[i]] = Cardinality(Holders(working[i])) + leaked[working[i]]
    BY DEF RefCountExact
  <2>1. /\ ref[working[i]] = Cardinality(Holders(working[i])) + leaked[working[i]]
        /\ working[i] \in Addr
    BY <2>a, <2>b
  <2>2. CASE working[i] = f
    <3>1. ref[f] \in Nat /\ leaked[f] \in Nat
      BY <1>3 DEF TypeOK
    <3>2. \/ ref'[f] = ref[f] - 1 /\ leaked'[f] = leaked[f]
          \/ ref'[f] = ref[f] /\ leaked'[f] = leaked[f] + 1
      BY <1>3, <1>8 DEF TypeOK
    <3>3. ref'[f] = Cardinality(Holders(f)') + leaked'[f]
      BY <1>5, <1>7, <3>1, <3>2
    <3>4. Holders(working[i])' = Holders(f)'
      BY <1>1, <2>2 DEF Holders
    <3> QED
      BY <2>2, <3>3, <3>4
  <2>3. CASE working[i] # f
    <3>1. ref'[working[i]] = ref[working[i]] /\ leaked'[working[i]] = leaked[working[i]]
      BY <1>8, <2>1, <2>3 DEF TypeOK
    <3>2. Holders(working[i])' = Holders(working[i])
      BY <1>1, <1>6, <2>1, <2>3
    <3> QED
      BY <2>1, <3>1, <3>2
  <2> QED
    BY <2>2, <2>3
<1>14. Fresh'
  BY <1>1 DEF Fresh, TypeOK
<1>20. KeptWhileHolding'
  BY <1>1 DEF KeptWhileHolding, TypeOK
<1> QED
  BY <1>20, <1>9, <1>10, <1>11, <1>12, <1>13, <1>14

LEMMA AbortInv == ASSUME IInv, NEW c \in Consumers, ExtractEmpty(c) PROVE IInv'
<1> USE PoolAssumption DEF IInv, ExtractEmpty, users, faults
<1>1. TypeOK'
  BY DEF TypeOK, MgrLabel
<1>2. Distinct' /\ SizedFresh' /\ RefCountExact' /\ Fresh'
  BY DEF Distinct, SizedFresh, RefCountExact, Fresh, Holders
<1>3. Phase'
  BY DEF TypeOK, Phase
<1>20. KeptWhileHolding'
  BY DEF KeptWhileHolding, TypeOK
<1> QED
  BY <1>20, <1>1, <1>2, <1>3

LEMMA NextInv == IInv /\ [Next]_vars => IInv'
<1> SUFFICES ASSUME IInv, [Next]_vars PROVE IInv'
  OBVIOUS
<1>1. CASE UNCHANGED vars
  BY <1>1 DEF vars, IInv, TypeOK, Distinct, SizedFresh, Phase, Active, RefCountExact,
              Fresh, Holders, KeptWhileHolding
<1>2. CASE \E c \in Consumers : ReadSize(c) \/ Use(c) \/ Throw(c)
  BY <1>2, ReadSizeInv, ExtractInv, ReleaseInv, AbortInv DEF Use
<1>3. CASE Manager \/ Destroy
  BY <1>3, ManagerInv, PushInv, RemoveInv DEF Manager
<1> QED
  BY <1>1, <1>2, <1>3 DEF Next, Ended

LEMMA Inductive == Spec => []IInv
BY InitInv, NextInv, PTL DEF Spec

\* Type correctness: in particular no reference count falls below 0.
THEOREM TypeCorrect == Spec => []TypeOK
<1>1. IInv => TypeOK
  BY DEF IInv
<1> QED
  BY <1>1, Inductive, PTL

\* Counts equal holders plus leaks for any depth and any number of consumers.
THEOREM CountsAreExact == Spec => []RefCountExact
<1>1. IInv => RefCountExact
  BY DEF IInv
<1> QED
  BY <1>1, Inductive, PTL

\* Freshness survives the unlocked read of the size.
THEOREM ExtractIsFresh == Spec => []Fresh
<1>1. IInv => Fresh
  BY DEF IInv
<1> QED
  BY <1>1, Inductive, PTL

\* PoolBounded: the pool is never more than one frame above its depth, and back at it when
\* the manager starts a new loop.
THEOREM PoolKeepsDepth == Spec => []PoolBounded
<1>1. IInv => PoolBounded
  BY DEF IInv, Phase, PoolBounded
<1> QED
  BY <1>1, Inductive, PTL

\* AbortsOnlyUnfed: relieveFrameInUse finds every frame that is given back, and only an
\* extraction from a pool that never had a frame can fail its assertion.
THEOREM OnlyUnfedPoolAborts == Spec => []AbortsOnlyUnfed
<1>1. IInv => AbortsOnlyUnfed
  BY DEF IInv, Phase, AbortsOnlyUnfed
<1> QED
  BY <1>1, Inductive, PTL

\* WaitsOnlyForSlow: a frame that remove() finds in use is referenced by an exception, or
\* by a consumer that has seen m_PoolDepth frames appended since.
THEOREM OnlySlowBlock == Spec => []WaitsOnlyForSlow
<1>1. IInv => WaitsOnlyForSlow
  <2> SUFFICES ASSUME IInv, mgr \in {"wait1", "wait2"}, ref[Head(working)] # 0, ~Leaked
               PROVE  KeptTooLong
    BY DEF WaitsOnlyForSlow
  <2> USE PoolAssumption DEF IInv
  <2>1. /\ Len(working) = PoolDepth + 1 /\ working \in Seq(Addr)
        /\ working # <<>> /\ Head(working) = working[1]
    BY TailFacts DEF Phase, TypeOK
  <2>2. 1 \in 1..Len(working) /\ working[1] \in Addr
    BY <2>1
  <2>3. leaked[working[1]] = 0
    BY <2>1, <2>2 DEF Leaked, TypeOK
  <2>4. ref[working[1]] = Cardinality(Holders(working[1])) + leaked[working[1]]
    BY <2>2 DEF RefCountExact
  <2>5. Holders(working[1]) # {}
    <3> SUFFICES ASSUME Holders(working[1]) = {} PROVE FALSE
      OBVIOUS
    <3>1. Cardinality(Holders(working[1])) = 0
      BY FS_EmptySet
    <3> HIDE DEF IInv
    <3> QED
      BY <2>1, <2>3, <2>4, <3>1
  <2>6. PICK c \in Consumers : cpc[c] = "holding" /\ frame[c] = working[1]
    BY <2>5 DEF Holders
  <2>7. PICK i \in 1..Len(working) : working[i] = frame[c] /\ Len(working) - i <= age[c]
    BY <2>6 DEF Fresh
  <2>8. i = 1
    BY <2>2, <2>6, <2>7 DEF Distinct
  <2>9. age[c] \in Nat
    BY DEF TypeOK
  <2> QED
    BY <2>1, <2>6, <2>7, <2>8, <2>9 DEF KeptTooLong
<1> QED
  BY <1>1, Inductive, PTL

-----------------------------------------------------------------------------
(* The pool implements a FrameStore                                         *)

LEMMA StoreInit == Init => Store!Init
BY DEF Init, Store!Init

\* An append is Store, a deletion DiscardOldest, an extraction Take; giving a frame back,
\* or losing it to an exception, is GiveBack.
LEMMA StoreStep == IInv /\ [Next]_vars => [Store!Next]_(Store!vars)
<1> SUFFICES ASSUME IInv, [Next]_vars PROVE Store!Next \/ UNCHANGED <<working, frame>>
  BY DEF Store!vars
<1> USE DEF IInv
<1>1. CASE UNCHANGED vars
  BY <1>1 DEF vars
<1>2. CASE Prepare \/ PushBegin \/ NoFrame \/ RemoveBegin \/ Destroy \/ Restart \/ Ended
  BY <1>2 DEF Prepare, PushBegin, NoFrame, RemoveBegin, Destroy, Restart, Ended, vars, users
<1>3. ASSUME NEW a \in Addr, PushEnd(a) PROVE Store!Store(a)
  <2>1. ~Store!Stored(a)
    BY <1>3 DEF PushEnd, InPool, Store!Stored
  <2>2. \A c \in Consumers : frame[c] # a
    <3> SUFFICES ASSUME NEW c \in Consumers, frame[c] = a PROVE FALSE
      OBVIOUS
    <3>1. cpc[c] = "holding"
      BY PoolAssumption DEF KeptWhileHolding
    <3> QED
      BY <2>1, <3>1 DEF Fresh, Store!Stored
  <2>3. Len(working) <= PoolDepth
    BY <1>3 DEF PushEnd, Phase
  <2> QED
    BY <1>3, <2>1, <2>2, <2>3 DEF PushEnd, Store!Store
<1>4. CASE RemoveHead \/ DestroyHead
  <2>1. /\ working # <<>> /\ ref[Head(working)] = 0 /\ working' = Tail(working)
        /\ UNCHANGED frame
    BY <1>4, PoolAssumption DEF RemoveHead, DestroyHead, Phase, TypeOK, users
  <2>2. 1 \in 1..Len(working) /\ Head(working) = working[1] /\ working[1] \in Addr
    BY <2>1, TailFacts DEF TypeOK
  <2>3. Cardinality(Holders(working[1])) = 0
    <3>1. ref[working[1]] = Cardinality(Holders(working[1])) + leaked[working[1]]
      BY <2>2 DEF RefCountExact
    <3>2. Cardinality(Holders(working[1])) \in Nat /\ leaked[working[1]] \in Nat
      BY <2>2, HoldersFinite DEF TypeOK
    <3> QED
      BY <2>1, <2>2, <3>1, <3>2
  <2>4. Holders(working[1]) = {}
    BY <2>3, HoldersFinite, FS_EmptySet
  <2>5. \A c \in Consumers : frame[c] # working[1]
    BY <2>2, <2>4, PoolAssumption DEF Holders, KeptWhileHolding
  <2> QED
    BY <2>1, <2>5 DEF Store!Next, Store!DiscardOldest
<1>5. ASSUME NEW c \in Consumers, ReadSize(c) \/ ExtractEmpty(c)
      PROVE  UNCHANGED <<working, frame>>
  BY <1>5 DEF ReadSize, ExtractEmpty, pool, users
<1>6. ASSUME NEW c \in Consumers, Extract(c) PROVE Store!Take(c, Pick(c)) /\ Pick(c) \in Addr
  <2>1. /\ cpc[c] = "sized" /\ working # <<>> /\ UNCHANGED working
        /\ frame' = [frame EXCEPT ![c] = Pick(c)]
    BY <1>6 DEF Extract
  <2>2. PICK p \in 1..Len(working) : Pick(c) = working[p]
    <3>1. Len(working) \in 1..Len(working)
      BY <2>1, TailFacts DEF TypeOK
    <3> QED
      BY <3>1 DEF Pick
  <2>3. frame[c] = NoAddr
    BY <2>1 DEF KeptWhileHolding
  <2> QED
    BY <2>1, <2>2, <2>3 DEF Store!Take, Store!Stored, TypeOK
<1>7. ASSUME NEW c \in Consumers, Relieve(c) \/ Throw(c) PROVE Store!GiveBack(c)
  <2>1. cpc[c] = "holding" /\ frame' = [frame EXCEPT ![c] = NoAddr] /\ UNCHANGED working
    BY <1>7 DEF Relieve, Throw, Forget, pool
  <2>2. frame[c] # NoAddr
    <3>1. PICK i \in 1..Len(working) : working[i] = frame[c]
      BY <2>1 DEF Fresh
    <3>2. frame[c] \in Addr
      BY <3>1 DEF TypeOK
    <3> QED
      BY <3>2, PoolAssumption
  <2> QED
    BY <2>1, <2>2 DEF Store!GiveBack
<1> QED
  BY <1>1, <1>2, <1>3, <1>4, <1>5, <1>6, <1>7
     DEF Next, Manager, Use, Store!Next

\* IsFrameStore: a consumer that works on a frame without the mutex, for any depth and
\* any number of consumers and frames, relies on no more than a FrameStore promises.
THEOREM PoolIsFrameStore == Spec => IsFrameStore
BY StoreInit, StoreStep, Inductive, PTL DEF Spec, IsFrameStore, Store!Spec

=============================================================================
