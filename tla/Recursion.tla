------------------------------- MODULE Recursion -------------------------------
(***************************************************************************)
(* What the proofs about loops over faces need of the natural numbers: every *)
(* set of them has a least one, and a value given for 0 and a step from each  *)
(* number to the next determine a function.  Both are stated without operator *)
(* parameters, so that they can be cited for any predicate and any loop.      *)
(***************************************************************************)
EXTENDS Integers, FiniteSetTheorems, TLAPS

\* The least number of a set, from the well-foundedness of strict inclusion between the
\* intervals 0..n.  Induction over Nat is this lemma for the set of counterexamples.
LEMMA LeastNumber ==
  ASSUME NEW T \in SUBSET Nat, T # {}
  PROVE  \E m \in T : \A n \in T : m <= n
<1> DEFINE W == {0..n : n \in T}
<1>1. W \subseteq FiniteSubsetsOf(Nat)
  <2>1. \A n \in Nat : IsFiniteSet(0..n)
    BY FS_Interval
  <2> QED
    BY <2>1 DEF FiniteSubsetsOf
<1>2. W # {}
  OBVIOUS
<1>3. PICK X \in W : \A Y \in W : ~(<<Y, X>> \in StrictSubsetOrdering(Nat))
  BY <1>1, <1>2, FS_StrictSubsetOrderingWellFounded, WFMin
<1>4. PICK m \in T : X = 0..m
  OBVIOUS
<1>5. ASSUME NEW n \in T, n < m PROVE FALSE
  <2>1. 0..n \subseteq 0..m /\ 0..n # 0..m
    <3>1. m \in 0..m /\ m \notin 0..n
      BY <1>5
    <3> QED
      BY <1>5, <3>1
  <2>2. <<0..n, 0..m>> \in StrictSubsetOrdering(Nat)
    BY <2>1 DEF StrictSubsetOrdering
  <2> QED
    BY <2>2, <1>3, <1>4
<1>6. \A n \in T : m <= n
  BY <1>5
<1> QED
  BY <1>6

-----------------------------------------------------------------------------
\* The recursion's values up to n.
Beginning(n, S, base, step) ==
  {g \in [0..n -> S] : g[0] = base /\ \A m \in 0..n-1 : g[m + 1] = step[m][g[m]]}

\* There are as many values as one likes.
LEMMA BeginningExists ==
  ASSUME NEW S, NEW base \in S, NEW step \in [Nat -> [S -> S]]
  PROVE  \A n \in Nat : \E g : g \in Beginning(n, S, base, step)
<1> DEFINE T == {n \in Nat : ~\E g : g \in Beginning(n, S, base, step)}
<1> SUFFICES ASSUME T # {} PROVE FALSE
  OBVIOUS
<1>1. T \in SUBSET Nat
  OBVIOUS
<1>2. PICK m \in T : \A n \in T : m <= n
  BY <1>1, LeastNumber
<1>3. [x \in 0..0 |-> base] \in Beginning(0, S, base, step)
  BY DEF Beginning
<1>4. m # 0
  BY <1>2, <1>3
<1>5. m - 1 \in Nat /\ m - 1 \notin T
  <2>1. m \in Nat /\ m - 1 \in Nat /\ ~(m <= m - 1)
    BY <1>1, <1>2, <1>4
  <2> HIDE DEF T
  <2> QED
    BY <1>2, <2>1
<1>6. PICK g : g \in Beginning(m - 1, S, base, step)
  BY <1>5
<1> DEFINE h == [x \in 0..m |-> IF x = m THEN step[m - 1][g[m - 1]] ELSE g[x]]
<1>7. m \in Nat /\ m - 1 \in 0..m-1 /\ g[m - 1] \in S
  BY <1>5, <1>6 DEF Beginning
<1>8. h \in [0..m -> S]
  <2> SUFFICES ASSUME NEW x \in 0..m PROVE h[x] \in S
    OBVIOUS
  <2>1. CASE x = m
    BY <2>1, <1>5, <1>7
  <2>2. CASE x # m
    BY <2>2, <1>6, <1>7 DEF Beginning
  <2> QED
    BY <2>1, <2>2
<1>9. h[0] = base
  BY <1>4, <1>6, <1>7 DEF Beginning
<1>10. ASSUME NEW x \in 0..m-1 PROVE h[x + 1] = step[x][h[x]]
  <2>1. x \in 0..m /\ x + 1 \in 0..m /\ h[x] = g[x]
    BY <1>7
  <2>2. CASE x = m - 1
    BY <2>1, <2>2, <1>7
  <2>3. CASE x # m - 1
    <3>1. x \in 0..(m - 1)-1 /\ x + 1 # m
      BY <2>3, <1>7
    <3>2. g[x + 1] = step[x][g[x]]
      BY <3>1, <1>6 DEF Beginning
    <3> QED
      BY <2>1, <3>1, <3>2
  <2> QED
    BY <2>2, <2>3
<1>11. h \in Beginning(m, S, base, step)
  BY <1>8, <1>9, <1>10 DEF Beginning
<1> QED
  BY <1>2, <1>11

\* A beginning and the next longer one agree.
LEMMA BeginningsAgree ==
  ASSUME NEW S, NEW base \in S, NEW step \in [Nat -> [S -> S]], NEW n \in Nat, NEW g, NEW h,
         g \in Beginning(n, S, base, step), h \in Beginning(n + 1, S, base, step)
  PROVE  g[n] = h[n]
<1> DEFINE T == {x \in Nat : x <= n /\ g[x] # h[x]}
<1> SUFFICES ASSUME T # {} PROVE FALSE
  OBVIOUS
<1>1. T \in SUBSET Nat
  OBVIOUS
<1>2. PICK l \in T : \A x \in T : l <= x
  BY <1>1, LeastNumber
<1>3. l # 0
  BY <1>2 DEF Beginning
<1>4. l \in Nat /\ l <= n /\ l - 1 \in Nat /\ l - 1 \notin T
  BY <1>2, <1>3
<1>5. g[l - 1] = h[l - 1] /\ l - 1 \in 0..n-1 /\ l - 1 \in 0..(n + 1)-1
  BY <1>4
<1>6. g[(l - 1) + 1] = h[(l - 1) + 1]
  BY <1>5 DEF Beginning
<1> QED
  BY <1>2, <1>4, <1>6

\* f begins with base and goes on by step, which takes a number and the value there.
Recurs(f, S, base, step) ==
  /\ f \in [Nat -> S]
  /\ f[0] = base
  /\ \A n \in Nat : f[n + 1] = step[n][f[n]]

IsStep(step, S) == step \in [Nat -> [S -> S]]

\* A first value and a step from each number to the next determine a function on Nat.
THEOREM RecursionExists ==
  ASSUME NEW S, NEW base, NEW step, base \in S, IsStep(step, S)
  PROVE  \E f : Recurs(f, S, base, step)
<1> DEFINE G(n) == CHOOSE g : g \in Beginning(n, S, base, step)
           f == [n \in Nat |-> G(n)[n]]
<1>1. \A n \in Nat : G(n) \in Beginning(n, S, base, step)
  BY BeginningExists DEF IsStep
<1> HIDE DEF G
<1>2. f \in [Nat -> S]
  BY <1>1 DEF Beginning
<1>3. f[0] = base
  BY <1>1 DEF Beginning
<1>4. ASSUME NEW n \in Nat PROVE f[n + 1] = step[n][f[n]]
  <2>1. n + 1 \in Nat /\ n \in 0..(n + 1)-1
    OBVIOUS
  <2>2. G(n + 1)[n + 1] = step[n][G(n + 1)[n]]
    BY <1>1, <2>1 DEF Beginning
  <2>3. G(n) \in Beginning(n, S, base, step) /\ G(n + 1) \in Beginning(n + 1, S, base, step)
    BY <1>1, <2>1
  <2>4. G(n + 1)[n] = G(n)[n]
    BY <2>3, BeginningsAgree DEF IsStep
  <2> QED
    BY <2>1, <2>2, <2>4
<1> HIDE DEF f
<1> QED
  BY <1>2, <1>3, <1>4 DEF Recurs

=============================================================================
