------------------------------ MODULE Induction ------------------------------
(***************************************************************************)
(* Induction over numbers as facts about sets, and the functions that are  *)
(* defined by it: what the proofs about loops and lists rest on.           *)
(***************************************************************************)
EXTENDS Naturals, FiniteSetTheorems, TLAPS

\* A set of numbers that is not empty has a least one.
LEMMA LeastNumber ==
  ASSUME NEW S \in SUBSET Nat, S # {}
  PROVE  \E m \in S : \A j \in S : m <= j
<1> DEFINE R == StrictSubsetOrdering(Nat)
           F == FiniteSubsetsOf(Nat)
           T == {0..m : m \in S}
<1>1. IsWellFoundedOn(R, F)
  BY FS_StrictSubsetOrderingWellFounded
<1>2. T \subseteq F /\ T # {}
  <2>1. \A m \in S : IsFiniteSet(0..m)
    BY FS_Interval
  <2>2. \A m \in S : 0..m \in F
    BY <2>1 DEF FiniteSubsetsOf
  <2> HIDE DEF F
  <2>3. QED
    BY <2>2
<1>3. \A m, j \in S : j < m => <<0..j, 0..m>> \in R
  <2> SUFFICES ASSUME NEW m \in S, NEW j \in S, j < m PROVE <<0..j, 0..m>> \in R
    OBVIOUS
  <2>1. m \in 0..m /\ m \notin 0..j
    OBVIOUS
  <2>2. 0..j \subseteq 0..m /\ 0..j # 0..m
    BY <2>1
  <2>3. 0..j \in SUBSET Nat /\ 0..m \in SUBSET Nat
    OBVIOUS
  <2>4. QED
    BY <2>2, <2>3 DEF StrictSubsetOrdering
<1> HIDE DEF R, F, T
<1>4. PICK x \in T : \A y \in T : ~ (<<y, x>> \in R)
  BY <1>1, <1>2, WFMin
<1>5. PICK m \in S : x = 0..m
  BY <1>4 DEF T
<1>6. \A j \in S : ~ (j < m)
  BY <1>3, <1>4, <1>5 DEF T
<1>7. QED
  BY <1>6

\* What holds of 0, and of a number up to n when it holds of the one before,
\* holds of all of them.
LEMMA Climb ==
  ASSUME NEW n \in Nat, NEW S, 0 \in S, \A k \in 1..n : k - 1 \in S => k \in S
  PROVE  \A k \in 0..n : k \in S
<1> DEFINE Bad == {k \in 0..n : k \notin S}
<1>1. SUFFICES Bad = {}
  OBVIOUS
<1>2. SUFFICES ASSUME Bad # {} PROVE FALSE
  OBVIOUS
<1>3. PICK m \in Bad : \A j \in Bad : m <= j
  <2>1. Bad \in SUBSET Nat /\ Bad # {}
    BY <1>2
  <2> HIDE DEF Bad
  <2>2. QED
    BY <2>1, LeastNumber
<1>4. m \in 1..n /\ m - 1 \in 0..n /\ m - 1 < m
  BY <1>3
<1>5. m - 1 \in S
  BY <1>3, <1>4
<1>6. QED
  BY <1>3, <1>4, <1>5

\* A function that starts at s0 and follows a step at each number up to n.
Follows(f, n, D, s0, step) ==
  f \in [0..n -> D] /\ f[0] = s0 /\ \A k \in 1..n : f[k] = step[k][f[k - 1]]

\* There is one.
LEMMA Iteration ==
  ASSUME NEW n \in Nat, NEW D, NEW s0 \in D, NEW step \in [1..n -> [D -> D]]
  PROVE  \E f : Follows(f, n, D, s0, step)
<1> DEFINE S == {k \in 0..n : \E f : Follows(f, k, D, s0, step)}
<1>1. 0 \in S
  <2> DEFINE f0 == [j \in 0..0 |-> s0]
  <2>1. Follows(f0, 0, D, s0, step) /\ 0 \in 0..n
    BY DEF Follows
  <2> HIDE DEF f0
  <2>2. QED
    BY <2>1
<1>2. ASSUME NEW k \in 1..n, k - 1 \in S PROVE k \in S
  <2>1. PICK f : Follows(f, k - 1, D, s0, step)
    BY <1>2
  <2>2. /\ f \in [0..(k - 1) -> D] /\ f[0] = s0
        /\ \A j \in 1..(k - 1) : f[j] = step[j][f[j - 1]]
    BY <2>1 DEF Follows
  <2> DEFINE g == [j \in 0..k |-> IF j = k THEN step[k][f[k - 1]] ELSE f[j]]
  <2>3. k - 1 \in 0..(k - 1) /\ step[k][f[k - 1]] \in D
    BY <2>2
  <2>4. \A j \in 0..k : j # k => j \in 0..(k - 1)
    OBVIOUS
  <2>5. g \in [0..k -> D] /\ g[0] = s0
    BY <2>2, <2>3, <2>4
  <2>6. ASSUME NEW j \in 1..k PROVE g[j] = step[j][g[j - 1]]
    <3>1. j - 1 \in 0..k /\ j - 1 # k /\ g[j - 1] = f[j - 1]
      OBVIOUS
    <3>2. CASE j = k
      BY <3>1, <3>2
    <3>3. CASE j # k
      <4>1. j \in 1..(k - 1) /\ g[j] = f[j]
        BY <3>3
      <4>2. QED
        BY <3>1, <4>1, <2>2
    <3>4. QED
      BY <3>2, <3>3
  <2> HIDE DEF g
  <2>7. Follows(g, k, D, s0, step)
    BY <2>5, <2>6 DEF Follows
  <2>8. QED
    BY <2>7
<1> HIDE DEF S
<1>3. \A k \in 0..n : k \in S
  BY <1>1, <1>2, Climb
<1>4. n \in S
  BY <1>3
<1>5. QED
  BY <1>4 DEF S
=============================================================================
