----------------------------- MODULE NumberFacts -----------------------------
(***************************************************************************)
(* Facts about sets of natural numbers: the least and the greatest of one, *)
(* induction for a set instead of a predicate, and recursion over an       *)
(* interval for a step that is a function.                                 *)
(***************************************************************************)
EXTENDS Integers, WellFoundedInduction, TLAPS

\* Of a set of numbers one is the least.
LEMMA LeastNumber ==
    ASSUME NEW T, T \subseteq Nat, T # {}
    PROVE  \E x \in T : \A y \in T : x <= y
  <1> DEFINE R == {ss \in Nat \X Nat : ss[1] < ss[2]}
  <1>1. IsWellFoundedOn(R, Nat)
    BY NatLessThanWellFounded DEF OpToRel
  <1> HIDE DEF R
  <1>2. PICK x \in T : \A y \in T : ~(<<y, x>> \in R)
    BY <1>1, WFMin
  <1> SUFFICES ASSUME NEW y \in T
               PROVE  x <= y
    OBVIOUS
  <1>3. <<y, x>> \in Nat \X Nat /\ <<y, x>>[1] = y /\ <<y, x>>[2] = x
    OBVIOUS
  <1>4. ~(y < x)
    BY <1>2, <1>3 DEF R
  <1> QED
    BY <1>4

\* Of the numbers up to a bound one is the greatest.
LEMMA GreatestNumber ==
    ASSUME NEW N \in Nat, NEW T, T \subseteq 0 .. N, T # {}
    PROVE  \E x \in T : \A y \in T : y <= x
  <1> DEFINE D == {N - x : x \in T}
  <1>1. D \subseteq Nat /\ D # {}
    <2>1. \A x \in T : x \in 0 .. N
      OBVIOUS
    <2>2. \A x \in 0 .. N : N - x \in Nat
      OBVIOUS
    <2>3. \A x \in T : N - x \in Nat
      BY <2>1, <2>2
    <2> QED
      BY <2>3
  <1>2. PICK d \in D : \A c \in D : d <= c
    BY <1>1, LeastNumber
  <1>3. PICK x \in T : d = N - x
    OBVIOUS
  <1>4. \A y \in T : N - x <= N - y
    BY <1>2, <1>3
  <1> QED
    BY <1>4

\* A set that has 0, and with a number the next, has all numbers of an interval.
LEMMA IntervalInduction ==
    ASSUME NEW N \in Nat, NEW P, 0 \in P, \A k \in 0 .. N - 1 : k \in P => k + 1 \in P
    PROVE  0 .. N \subseteq P
  <1> SUFFICES ASSUME (0 .. N) \ P # {}
               PROVE  FALSE
    OBVIOUS
  <1>1. (0 .. N) \ P \subseteq Nat
    OBVIOUS
  <1>2. PICK m \in (0 .. N) \ P : \A l \in (0 .. N) \ P : m <= l
    BY <1>1, LeastNumber
  <1>3. m \in 0 .. N /\ m \notin P /\ m # 0
    BY <1>2
  <1>4. m - 1 \in 0 .. N - 1 /\ m - 1 \in 0 .. N /\ m - 1 + 1 = m /\ ~(m <= m - 1)
    BY <1>3
  <1>5. m - 1 \in P
    BY <1>2, <1>4
  <1> QED
    BY <1>3, <1>4, <1>5

-----------------------------------------------------------------------------
(* Recursion over an interval of numbers.                                  *)

\* The function that takes one step after the other from a value.
Steps(f, x, step, N, V) ==
    f \in [0 .. N -> V] /\ f[0] = x /\ \A k \in 1 .. N : f[k] = step[<<k, f[k - 1]>>]

LEMMA StepsExist ==
    ASSUME NEW N \in Nat, NEW V, NEW x \in V, NEW step \in [Nat \X V -> V]
    PROVE  \E f : Steps(f, x, step, N, V)
  <1> DEFINE P == {m \in Nat : \E f : Steps(f, x, step, m, V)}
  <1>1. 0 \in P
    <2>1. Steps([k \in 0 .. 0 |-> x], x, step, 0, V)
      BY DEF Steps
    <2> QED
      BY <2>1
  <1>2. ASSUME NEW m \in Nat, m \in P
        PROVE  m + 1 \in P
    <2>1. PICK f : Steps(f, x, step, m, V)
      BY <1>2
    <2>2. f \in [0 .. m -> V] /\ f[0] = x /\ \A k \in 1 .. m : f[k] = step[<<k, f[k - 1]>>]
      BY <2>1 DEF Steps
    <2> DEFINE last == step[<<m + 1, f[m]>>]
               g == [k \in 0 .. m + 1 |-> IF k = m + 1 THEN last ELSE f[k]]
    <2>3. last \in V
      BY <2>2
    <2>4. /\ g[m + 1] = last /\ g[0] = x
          /\ \A k \in 0 .. m : g[k] = f[k] /\ g[k] \in V
      BY <2>2
    <2>5. g \in [0 .. m + 1 -> V]
      BY <2>2, <2>3
    <2> HIDE DEF g
    <2>6. ASSUME NEW k \in 1 .. m + 1
          PROVE  g[k] = step[<<k, g[k - 1]>>]
      <3>1. CASE k = m + 1
        BY <2>4, <3>1
      <3>2. CASE k # m + 1
        <4>1. k \in 1 .. m /\ k - 1 \in 0 .. m /\ k \in 0 .. m
          BY <3>2
        <4> QED
          BY <2>2, <2>4, <4>1
      <3> QED
        BY <3>1, <3>2
    <2>7. Steps(g, x, step, m + 1, V)
      BY <2>4, <2>5, <2>6 DEF Steps
    <2> QED
      BY <2>7
  <1> HIDE DEF P
  <1>3. 0 .. N \subseteq P
    BY <1>1, <1>2, IntervalInduction
  <1>4. N \in P
    BY <1>3
  <1> QED
    BY <1>4 DEF P

\* Whatever function takes steps that stay in a set, its values are there.
LEMMA StepsStay ==
    ASSUME NEW N \in Nat, NEW V, NEW f, f[0] \in V,
           \A k \in 1 .. N : f[k - 1] \in V => f[k] \in V
    PROVE  \A k \in 0 .. N : f[k] \in V
  <1> DEFINE P == {k \in 0 .. N : f[k] \in V}
  <1>1. 0 \in P
    OBVIOUS
  <1>2. ASSUME NEW k \in 0 .. N - 1, k \in P
        PROVE  k + 1 \in P
    <2>1. k + 1 \in 1 .. N /\ k + 1 - 1 = k /\ k + 1 \in 0 .. N
      OBVIOUS
    <2> QED
      BY <1>2, <2>1
  <1>3. 0 .. N \subseteq P
    <2> HIDE DEF P
    <2> QED
      BY <1>1, <1>2, IntervalInduction
  <1> QED
    BY <1>3
==============================================================================
