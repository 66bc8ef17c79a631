----------------------------- MODULE Induction ------------------------------
(***************************************************************************)
(* Induction over the natural numbers, said of sets of numbers: to prove   *)
(* P(n) for every n one shows it of the set {n \in Nat : P(n)}.  It rests  *)
(* on the well-foundedness of inclusion between finite sets, of which the  *)
(* intervals 0 .. n are an instance.                                       *)
(***************************************************************************)
EXTENDS Integers, FiniteSetTheorems, TLAPS

(* Every set of numbers that is not empty has a least one. *)
LEMMA LeastNumber ==
  ASSUME NEW T \in SUBSET Nat, T # {}
  PROVE  \E m \in T : \A n \in T : m <= n
<1> DEFINE upTo == {0 .. n : n \in T}
           order == StrictSubsetOrdering(Nat)
           finite == FiniteSubsetsOf(Nat)
<1>1. upTo \subseteq finite /\ upTo # {}
  <2>1. ASSUME NEW n \in T PROVE 0 .. n \in finite
    BY FS_Interval DEF FiniteSubsetsOf
  <2>2. QED
    BY <2>1
<1>2. IsWellFoundedOn(order, finite)
  BY FS_StrictSubsetOrderingWellFounded
<1> HIDE DEF upTo, order, finite
<1>3. PICK x \in upTo : \A y \in upTo : <<y, x>> \notin order
  BY <1>1, <1>2, WFMin
<1>4. PICK m \in T : x = 0 .. m
  BY DEF upTo
<1>5. ASSUME NEW n \in T, n < m PROVE FALSE
  <2>1. 0 .. n \in upTo
    BY DEF upTo
  <2>2. 0 .. n \subseteq 0 .. m /\ 0 .. n # 0 .. m
    BY <1>5
  <2>3. <<0 .. n, 0 .. m>> \in order
    BY <2>2 DEF order, StrictSubsetOrdering
  <2>4. QED
    BY <1>3, <1>4, <2>1, <2>3
<1>6. QED
  BY <1>5

(* A set of numbers with 0 and with the successor of each of its members   *)
(* has them all.                                                           *)
LEMMA AllNumbers ==
  ASSUME NEW S, 0 \in S, \A n \in Nat : n \in S => n + 1 \in S
  PROVE  \A n \in Nat : n \in S
<1> SUFFICES ASSUME Nat \ S # {} PROVE FALSE
  OBVIOUS
<1>1. PICK m \in Nat \ S : \A n \in Nat \ S : m <= n
  BY LeastNumber
<1>2. m # 0 /\ m - 1 \in Nat /\ m - 1 \in S
  BY <1>1
<1>3. QED
  BY <1>1, <1>2

(* The same up to a bound. *)
LEMMA NumbersUpTo ==
  ASSUME NEW N \in Nat, NEW S, 0 \in S, \A n \in 0 .. N - 1 : n \in S => n + 1 \in S
  PROVE  \A n \in 0 .. N : n \in S
<1> DEFINE T == S \cup {n \in Nat : n > N}
<1>1. 0 \in T /\ \A n \in Nat : n \in T => n + 1 \in T
  OBVIOUS
<1> HIDE DEF T
<1>2. \A n \in Nat : n \in T
  BY <1>1, AllNumbers
<1>3. QED
  BY <1>2 DEF T

(* What is defined step by step along 0 .. N: the value b at 0, and at     *)
(* each i from 1 on what g makes of the value before and of i.             *)
Steps(f, N, V, b, g) ==
  /\ f \in [0 .. N -> V]
  /\ f[0] = b
  /\ \A i \in 1 .. N : f[i] = g[i][f[i - 1]]

(* There is such a function. *)
LEMMA StepsExist ==
  ASSUME NEW N \in Nat, NEW V, NEW b \in V, NEW g \in [1 .. N -> [V -> V]]
  PROVE  \E f : Steps(f, N, V, b, g)
<1> USE DEF Steps
<1> DEFINE To(n) == {f \in [0 .. n -> V] : Steps(f, n, V, b, g)}
           S == {n \in 0 .. N : To(n) # {}}
<1>1. 0 \in S
  <2>1. [i \in 0 .. 0 |-> b] \in To(0)
    OBVIOUS
  <2>2. QED
    BY <2>1
<1>2. ASSUME NEW n \in 0 .. N - 1, n \in S PROVE n + 1 \in S
  <2>1. PICK f \in [0 .. n -> V] :
          f[0] = b /\ \A i \in 1 .. n : f[i] = g[i][f[i - 1]]
    BY <1>2
  <2> DEFINE h == [i \in 0 .. n + 1 |-> IF i <= n THEN f[i] ELSE g[n + 1][f[n]]]
  <2>2. n \in 0 .. n /\ n + 1 \in 1 .. N /\ n + 1 \in 0 .. N
    OBVIOUS
  <2>3. f[n] \in V /\ g[n + 1] \in [V -> V]
    BY <2>1, <2>2
  <2>4. g[n + 1][f[n]] \in V
    BY <2>3
  <2>5. h \in [0 .. n + 1 -> V]
    BY <2>1, <2>4
  <2>6. h[0] = b
    BY <2>1
  <2>7. ASSUME NEW i \in 1 .. n + 1 PROVE h[i] = g[i][h[i - 1]]
    <3>1. i \in 0 .. n + 1 /\ i - 1 \in 0 .. n + 1 /\ i - 1 <= n
      OBVIOUS
    <3>2. h[i - 1] = f[i - 1]
      BY <3>1
    <3>3. CASE i <= n
      BY <2>1, <3>1, <3>2, <3>3
    <3>4. CASE ~(i <= n)
      <4>1. i = n + 1 /\ i - 1 = n
        BY <3>4
      <4>2. QED
        BY <3>1, <3>2, <3>4, <4>1
    <3>5. QED
      BY <3>3, <3>4
  <2>8. h \in To(n + 1)
    BY <2>5, <2>6, <2>7
  <2>9. QED
    BY <2>2, <2>8
<1> HIDE DEF S
<1>3. \A n \in 0 .. N : n \in S
  BY <1>1, <1>2, NumbersUpTo
<1>4. QED
  BY <1>3 DEF S

(* And only one, as far as the steps are given. *)
LEMMA StepsAgree ==
  ASSUME NEW V, NEW b, NEW N \in Nat, NEW f, NEW g, Steps(f, N, V, b, g),
         NEW M \in Nat, N <= M, NEW h, NEW k, Steps(h, M, V, b, k),
         \A i \in 1 .. N, v \in V : g[i][v] = k[i][v]
  PROVE  f[N] = h[N]
<1> USE DEF Steps
<1> DEFINE S == {i \in 0 .. N : f[i] = h[i]}
<1>1. 0 \in S
  OBVIOUS
<1>2. ASSUME NEW i \in 0 .. N - 1, i \in S PROVE i + 1 \in S
  <2>1. /\ i + 1 \in 1 .. N /\ i + 1 \in 1 .. M
        /\ (i + 1) - 1 = i /\ i \in 0 .. N
    OBVIOUS
  <2>2. f[i] = h[i] /\ f[i] \in V
    BY <1>2, <2>1
  <2>3. f[i + 1] = g[i + 1][f[i]] /\ h[i + 1] = k[i + 1][h[i]]
    BY <2>1
  <2>4. QED
    BY <2>1, <2>2, <2>3
<1> HIDE DEF S
<1>3. \A i \in 0 .. N : i \in S
  BY <1>1, <1>2, NumbersUpTo
<1>4. QED
  BY <1>3 DEF S

(* So who goes one step further makes that step from the same value. *)
LEMMA OneMoreStep ==
  ASSUME NEW V, NEW b, NEW N \in Nat, NEW f, NEW g, Steps(f, N, V, b, g),
         NEW M \in Nat, N < M, M <= N + 1, NEW h, NEW k, Steps(h, M, V, b, k),
         \A i \in 1 .. N, v \in V : g[i][v] = k[i][v]
  PROVE  f[N] \in V /\ h[M] = k[M][f[N]]
<1>1. M \in Nat /\ N <= M /\ M \in 1 .. M /\ M - 1 = N /\ N \in 0 .. N
  OBVIOUS
<1>2. f[N] = h[N]
  BY <1>1, StepsAgree
<1>3. QED
  BY <1>1, <1>2 DEF Steps

(* Whatever goes by these steps as long as it stays in V stays in V. *)
LEMMA StepsOnly ==
  ASSUME NEW N \in Nat, NEW V, NEW b \in V, NEW g \in [1 .. N -> [V -> V]],
         NEW f, f = [i \in 0 .. N |-> f[i]], f[0] = b,
         \A i \in 1 .. N : f[i - 1] \in V => f[i] = g[i][f[i - 1]]
  PROVE  Steps(f, N, V, b, g)
<1> DEFINE S == {i \in 0 .. N : f[i] \in V}
<1>1. 0 \in S
  OBVIOUS
<1>2. ASSUME NEW i \in 0 .. N - 1, i \in S PROVE i + 1 \in S
  <2>1. i + 1 \in 1 .. N /\ (i + 1) - 1 = i /\ f[i] \in V
    BY <1>2
  <2>2. f[i + 1] = g[i + 1][f[i]]
    BY <2>1
  <2>3. g[i + 1] \in [V -> V]
    BY <2>1
  <2>4. QED
    BY <2>1, <2>2, <2>3
<1> HIDE DEF S
<1>3. \A i \in 0 .. N : i \in S
  BY <1>1, <1>2, NumbersUpTo
<1>4. \A i \in 0 .. N : f[i] \in V
  BY <1>3 DEF S
<1>5. ASSUME NEW i \in 1 .. N PROVE f[i] = g[i][f[i - 1]]
  <2>1. i - 1 \in 0 .. N
    OBVIOUS
  <2>2. QED
    BY <1>4, <2>1
<1>6. f \in [0 .. N -> V]
  BY <1>4
<1>7. QED
  BY <1>5, <1>6 DEF Steps

=============================================================================
