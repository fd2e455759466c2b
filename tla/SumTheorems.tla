----------------------------- MODULE SumTheorems -----------------------------
(***************************************************************************)
(* What the sums of module Sums do when the array changes.  They rest on   *)
(* induction over the naturals, stated for a SET of numbers: the library's *)
(* well-foundedness theorem gives it without a predicate parameter.        *)
(***************************************************************************)
EXTENDS Sums, TLAPS, WellFoundedInduction

(* A set with 0 and closed under successor contains every natural number. *)
LEMMA NatSetInduction ==
  ASSUME NEW S, 0 \in S, \A n \in Nat : n \in S => n + 1 \in S
  PROVE  Nat \subseteq S
<1> DEFINE T == Nat \ S
<1> SUFFICES ASSUME T # {} PROVE FALSE OBVIOUS
<1>1. PICK m \in T : \A n \in T : ~(<<n, m>> \in OpToRel(<, Nat))
  BY WFMin, NatLessThanWellFounded
<1>2. m \in Nat /\ m # 0 OBVIOUS
<1>3. m - 1 \in Nat /\ m = (m - 1) + 1 /\ m - 1 < m BY <1>2
<1>4. m - 1 \notin S BY <1>2, <1>3
<1>5. <<m - 1, m>> \in OpToRel(<, Nat) BY <1>2, <1>3 DEF OpToRel
<1> QED BY <1>1, <1>3, <1>4, <1>5

(* The recursive definition of PrefixSums has a solution. *)
LEMMA PrefixSumsDef ==
  ASSUME NEW g, NEW N \in Nat
  PROVE  PrefixSums(g, N) =
           [n \in 0..N |-> IF n = 0 THEN 0 ELSE PrefixSums(g, N)[n - 1] + g[n]]
<1> DEFINE Fix(m, h) == h = [n \in 0..m |-> IF n = 0 THEN 0 ELSE h[n - 1] + g[n]]
<1> DEFINE S == {m \in Nat : \E h : Fix(m, h)}
<1>1. 0 \in S
  <2>1. Fix(0, [n \in 0..0 |-> 0]) OBVIOUS
  <2> QED BY <2>1
<1>2. ASSUME NEW m \in Nat, m \in S PROVE m + 1 \in S
  <2>1. PICK h : Fix(m, h) BY <1>2
  <2> DEFINE k == [n \in 0..(m + 1) |-> IF n = m + 1 THEN h[m] + g[m + 1] ELSE h[n]]
  <2>2. ASSUME NEW n \in 0..(m + 1) PROVE k[n] = IF n = 0 THEN 0 ELSE k[n - 1] + g[n]
    <3>1. CASE n = 0 BY <2>1, <3>1
    <3>2. CASE n = m + 1 BY <2>1, <3>2
    <3>3. CASE n # 0 /\ n # m + 1
      <4>1. /\ n \in 0..m /\ n - 1 \in 0..m
            /\ n - 1 # m + 1 /\ n - 1 \in 0..(m + 1)
        BY <3>3
      <4>2. h[n] = h[n - 1] + g[n] BY <2>1, <4>1, <3>3
      <4>3. k[n] = h[n] /\ k[n - 1] = h[n - 1] BY <4>1, <3>3
      <4> QED BY <4>2, <4>3, <3>3
    <3> QED BY <3>1, <3>2, <3>3
  <2>3. Fix(m + 1, k) BY <2>2
  <2>4. \E f : Fix(m + 1, f)
    <3> HIDE DEF Fix, k
    <3> QED BY <2>3
  <2> QED BY <2>4
<1>3. N \in S
  <2> HIDE DEF S
  <2> QED BY NatSetInduction, <1>1, <1>2
<1>4. \E h : Fix(N, h) BY <1>3
<1> QED BY <1>4 DEF PrefixSums

LEMMA PrefixSumsLonger ==
  ASSUME NEW g, NEW N \in Nat, NEW n \in 0..N
  PROVE  PrefixSums(g, N + 1)[n] = PrefixSums(g, N)[n]
<1> DEFINE S == {m \in Nat : m <= N => PrefixSums(g, N + 1)[m] = PrefixSums(g, N)[m]}
<1> DEFINE A == PrefixSums(g, N + 1)
           B == PrefixSums(g, N)
<1>1. A = [m \in 0..(N + 1) |-> IF m = 0 THEN 0 ELSE A[m - 1] + g[m]]
  BY PrefixSumsDef, N + 1 \in Nat
<1>2. B = [m \in 0..N |-> IF m = 0 THEN 0 ELSE B[m - 1] + g[m]]
  BY PrefixSumsDef
<1> HIDE DEF A, B
<1>3. 0 \in S BY <1>1, <1>2 DEF A, B
<1>4. ASSUME NEW m \in Nat, m \in S PROVE m + 1 \in S
  <2> SUFFICES ASSUME m + 1 <= N PROVE A[m + 1] = B[m + 1] BY DEF A, B
  <2>1. A[m] = B[m] BY <1>4 DEF A, B
  <2>2. m + 1 \in 0..(N + 1) /\ m + 1 \in 0..N /\ m + 1 # 0 /\ (m + 1) - 1 = m OBVIOUS
  <2>3. A[m + 1] = A[m] + g[m + 1] BY <1>1, <2>2
  <2>4. B[m + 1] = B[m] + g[m + 1] BY <1>2, <2>2
  <2> QED BY <2>1, <2>3, <2>4
<1>5. n \in S
  <2> HIDE DEF S
  <2> QED BY NatSetInduction, <1>3, <1>4
<1> QED BY <1>5

(* The sum of no values is 0; one more value adds itself. *)
LEMMA SumToDef ==
  ASSUME NEW g
  PROVE  /\ SumTo(g, 0) = 0
         /\ \A n \in Nat : SumTo(g, n + 1) = SumTo(g, n) + g[n + 1]
<1>1. SumTo(g, 0) = 0 BY PrefixSumsDef DEF SumTo
<1>2. ASSUME NEW n \in Nat PROVE SumTo(g, n + 1) = SumTo(g, n) + g[n + 1]
  <2> DEFINE A == PrefixSums(g, n + 1)
  <2>1. A = [m \in 0..(n + 1) |-> IF m = 0 THEN 0 ELSE A[m - 1] + g[m]]
    BY PrefixSumsDef, n + 1 \in Nat
  <2>2. n + 1 \in 0..(n + 1) /\ n + 1 # 0 /\ (n + 1) - 1 = n OBVIOUS
  <2>3. A[n + 1] = A[n] + g[n + 1]
    <3> HIDE DEF A
    <3> QED BY <2>1, <2>2
  <2>4. A[n] = PrefixSums(g, n)[n] BY PrefixSumsLonger, n \in 0..n
  <2> QED BY <2>3, <2>4 DEF SumTo
<1> QED BY <1>1, <1>2

LEMMA SumToInt ==
  ASSUME NEW N \in Nat, NEW g, \A k \in 1..N : g[k] \in Int
  PROVE  SumTo(g, N) \in Int
<1> DEFINE S == {m \in Nat : m <= N => SumTo(g, m) \in Int}
<1>1. 0 \in S BY SumToDef
<1>2. ASSUME NEW m \in Nat, m \in S PROVE m + 1 \in S
  <2> SUFFICES ASSUME m + 1 <= N PROVE SumTo(g, m + 1) \in Int OBVIOUS
  <2>1. SumTo(g, m) \in Int /\ m + 1 \in 1..N BY <1>2
  <2> QED BY <2>1, SumToDef
<1>3. N \in S
  <2> HIDE DEF S
  <2> QED BY NatSetInduction, <1>1, <1>2
<1> QED BY <1>3

LEMMA SumToNat ==
  ASSUME NEW N \in Nat, NEW g, \A k \in 1..N : g[k] \in Nat
  PROVE  SumTo(g, N) \in Nat
<1> DEFINE S == {m \in Nat : m <= N => SumTo(g, m) \in Nat}
<1>1. 0 \in S BY SumToDef
<1>2. ASSUME NEW m \in Nat, m \in S PROVE m + 1 \in S
  <2> SUFFICES ASSUME m + 1 <= N PROVE SumTo(g, m + 1) \in Nat OBVIOUS
  <2>1. SumTo(g, m) \in Nat /\ m + 1 \in 1..N BY <1>2
  <2> QED BY <2>1, SumToDef
<1>3. N \in S
  <2> HIDE DEF S
  <2> QED BY NatSetInduction, <1>1, <1>2
<1> QED BY <1>3

(* h is g + d * u, place by place; so is its sum. *)
LEMMA SumToLinear ==
  ASSUME NEW N \in Nat, NEW d \in Int, NEW g, NEW u, NEW h,
         \A k \in 1..N : g[k] \in Int /\ u[k] \in Int /\ h[k] = g[k] + d * u[k]
  PROVE  SumTo(h, N) = SumTo(g, N) + d * SumTo(u, N)
<1> DEFINE S == {m \in Nat : m <= N => SumTo(h, m) = SumTo(g, m) + d * SumTo(u, m)}
<1>1. 0 \in S BY SumToDef
<1>2. ASSUME NEW m \in Nat, m \in S PROVE m + 1 \in S
  <2> SUFFICES ASSUME m + 1 <= N
               PROVE  SumTo(h, m + 1) = SumTo(g, m + 1) + d * SumTo(u, m + 1)
    OBVIOUS
  <2>1. SumTo(h, m) = SumTo(g, m) + d * SumTo(u, m) BY <1>2
  <2>2. m + 1 \in 1..N OBVIOUS
  <2>3. /\ SumTo(h, m + 1) = SumTo(h, m) + h[m + 1]
        /\ SumTo(g, m + 1) = SumTo(g, m) + g[m + 1]
        /\ SumTo(u, m + 1) = SumTo(u, m) + u[m + 1]
    BY SumToDef
  <2>4. SumTo(g, m) \in Int /\ SumTo(u, m) \in Int
    <3>1. \A k \in 1..m : k \in 1..N OBVIOUS
    <3> QED BY <3>1, SumToInt
  <2>5. g[m + 1] \in Int /\ u[m + 1] \in Int /\ h[m + 1] = g[m + 1] + d * u[m + 1]
    BY <2>2
  <2>6. \A a, b, x, y \in Int : (a + d * b) + (x + d * y) = (a + x) + d * (b + y) OBVIOUS
  <2> QED BY <2>1, <2>3, <2>4, <2>5, <2>6
<1>3. N \in S
  <2> HIDE DEF S
  <2> QED BY NatSetInduction, <1>1, <1>2
<1> QED BY <1>3

LEMMA SumToSame ==
  ASSUME NEW N \in Nat, NEW g, NEW h, \A k \in 1..N : g[k] \in Int /\ h[k] = g[k]
  PROVE  SumTo(h, N) = SumTo(g, N)
<1> DEFINE u == [k \in 1..N |-> 0]
<1>1. \A k \in 1..N : g[k] \in Int /\ u[k] \in Int /\ h[k] = g[k] + 0 * u[k] OBVIOUS
<1>2. SumTo(h, N) = SumTo(g, N) + 0 * SumTo(u, N) BY <1>1, SumToLinear, 0 \in Int
<1>3. SumTo(g, N) \in Int /\ SumTo(u, N) \in Int BY <1>1, SumToInt
<1> QED BY <1>2, <1>3

LEMMA SumToZero ==
  ASSUME NEW N \in Nat, NEW g, \A k \in 1..N : g[k] = 0
  PROVE  SumTo(g, N) = 0
<1>1. \A k \in 1..N : g[k] \in Int /\ g[k] = g[k] + 1 * g[k] OBVIOUS
<1>2. SumTo(g, N) = SumTo(g, N) + 1 * SumTo(g, N) BY <1>1, SumToLinear, 1 \in Int
<1>3. SumTo(g, N) \in Int BY <1>1, SumToInt
<1>4. \A a \in Int : a = a + 1 * a => a = 0 OBVIOUS
<1> QED BY <1>2, <1>3, <1>4

(* the array that is 1 at place c and 0 elsewhere *)
Unit(c, N) == [k \in 1..N |-> IF k = c THEN 1 ELSE 0]

LEMMA SumToUnit ==
  ASSUME NEW N \in Nat, NEW c \in 1..N
  PROVE  SumTo(Unit(c, N), N) = 1
<1> DEFINE u == Unit(c, N)
<1> DEFINE S == {m \in Nat : m <= N => SumTo(u, m) = IF m < c THEN 0 ELSE 1}
<1>1. 0 \in S BY SumToDef
<1>2. ASSUME NEW m \in Nat, m \in S PROVE m + 1 \in S
  <2> SUFFICES ASSUME m + 1 <= N
               PROVE  SumTo(u, m + 1) = IF m + 1 < c THEN 0 ELSE 1
    OBVIOUS
  <2>1. SumTo(u, m + 1) = SumTo(u, m) + u[m + 1]
    <3> HIDE DEF u
    <3> QED BY SumToDef
  <2>2. SumTo(u, m) = IF m < c THEN 0 ELSE 1 BY <1>2
  <2>3. u[m + 1] = IF m + 1 = c THEN 1 ELSE 0 BY DEF Unit
  <2> QED BY <2>1, <2>2, <2>3
<1>3. N \in S
  <2> HIDE DEF S
  <2> QED BY NatSetInduction, <1>1, <1>2
<1> QED BY <1>3
=============================================================================
