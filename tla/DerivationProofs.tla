--------------------------- MODULE DerivationProofs ---------------------------
(***************************************************************************)
(* Proofs about CachedDerivations: the derivations computed of an example  *)
(* are all it has, and no others; and the store gives back, in every pass  *)
(* and for every block, the derivations of the example they are taken for. *)
(***************************************************************************)
EXTENDS CachedDerivations, SumTheorems, FiniteSetTheorems, SequenceTheorems

-----------------------------------------------------------------------------
(* The elements of a sequence that are in a set *)

IsUpTo(s, S, k, h) ==
  h = [j \in 0..k |-> IF j = 0 THEN <<>>
                      ELSE IF s[j] \in S THEN Append(h[j - 1], s[j]) ELSE h[j - 1]]

LEMMA AmongDef ==
  ASSUME NEW s, Len(s) \in Nat, NEW S
  PROVE  \E h : IsUpTo(s, S, Len(s), h) /\ Among(s, S) = h[Len(s)]
<1> DEFINE K == {k \in Nat : \E h : IsUpTo(s, S, k, h)}
<1>1. 0 \in K
  <2>1. IsUpTo(s, S, 0, [j \in 0..0 |-> <<>>]) BY DEF IsUpTo
  <2> QED BY <2>1
<1>2. ASSUME NEW k \in Nat, k \in K PROVE k + 1 \in K
  <2>1. PICK h : IsUpTo(s, S, k, h) BY <1>2
  <2> DEFINE new == IF s[k + 1] \in S THEN Append(h[k], s[k + 1]) ELSE h[k]
             f == [j \in 0..(k + 1) |-> IF j = k + 1 THEN new ELSE h[j]]
  <2> HIDE DEF new
  <2>2. ASSUME NEW j \in 0..(k + 1)
        PROVE  f[j] = IF j = 0 THEN <<>>
                      ELSE IF s[j] \in S THEN Append(f[j - 1], s[j]) ELSE f[j - 1]
    <3>1. CASE j = 0
      <4>1. h[0] = <<>> /\ 0 # k + 1 BY <2>1 DEF IsUpTo
      <4> QED BY <3>1, <4>1
    <3>2. CASE j = k + 1
      <4>1. j # 0 /\ j - 1 = k /\ k \in 0..(k + 1) /\ k # k + 1 BY <3>2
      <4>2. f[j] = new /\ f[k] = h[k] BY <3>2, <4>1
      <4> QED BY <3>2, <4>1, <4>2 DEF new
    <3>3. CASE j # 0 /\ j # k + 1
      <4>1. j \in 0..k /\ j - 1 \in 0..k /\ j - 1 # k + 1 /\ j - 1 \in 0..(k + 1) BY <3>3
      <4>2. h[j] = IF s[j] \in S THEN Append(h[j - 1], s[j]) ELSE h[j - 1]
        BY <2>1, <3>3, <4>1 DEF IsUpTo
      <4>3. f[j] = h[j] /\ f[j - 1] = h[j - 1] BY <4>1, <3>3
      <4> QED BY <4>2, <4>3, <3>3
    <3> QED BY <3>1, <3>2, <3>3
  <2>3. f = [j \in 0..(k + 1) |-> f[j]] OBVIOUS
  <2> HIDE DEF f
  <2>4. IsUpTo(s, S, k + 1, f) BY <2>2, <2>3 DEF IsUpTo
  <2> QED BY <2>4
<1>3. Len(s) \in K
  <2> HIDE DEF K
  <2> QED BY NatSetInduction, <1>1, <1>2
<1>4. \E h : IsUpTo(s, S, Len(s), h) BY <1>3
<1> DEFINE upTo == CHOOSE h : IsUpTo(s, S, Len(s), h)
<1>5. IsUpTo(s, S, Len(s), upTo)
  <2>1. PICK h : IsUpTo(s, S, Len(s), h) BY <1>4
  <2> QED BY <2>1
<1>6. Among(s, S) = upTo[Len(s)] BY DEF Among, IsUpTo
<1> HIDE DEF upTo
<1> QED BY <1>5, <1>6

LEMMA AmongFacts ==
  ASSUME NEW U, NEW s, s \in Seq(U), NEW S
  PROVE  /\ Among(s, S) \in Seq(U)
         /\ \A x : x \in Range(Among(s, S)) <=> x \in S /\ x \in Range(s)
<1>1. Len(s) \in Nat /\ DOMAIN s = 1..Len(s) /\ \A k \in 1..Len(s) : s[k] \in U OBVIOUS
<1>2. PICK h : IsUpTo(s, S, Len(s), h) /\ Among(s, S) = h[Len(s)] BY <1>1, AmongDef
<1> DEFINE V == {j \in Nat : j <= Len(s) =>
                   /\ h[j] \in Seq(U)
                   /\ \A x : (\E k \in 1..Len(h[j]) : h[j][k] = x)
                               <=> x \in S /\ (\E k \in 1..j : s[k] = x)}
<1>3. 0 \in V
  <2>1. h[0] = <<>> BY <1>1, <1>2 DEF IsUpTo
  <2>2. \A k : k \notin 1..0 OBVIOUS
  <2>3. Len(h[0]) = 0 /\ h[0] \in Seq(U) BY <2>1
  <2> QED BY <2>2, <2>3
<1>4. ASSUME NEW j \in Nat, j \in V PROVE j + 1 \in V
  <2> SUFFICES ASSUME j + 1 <= Len(s)
               PROVE  /\ h[j + 1] \in Seq(U)
                      /\ \A x : (\E k \in 1..Len(h[j + 1]) : h[j + 1][k] = x)
                               <=> x \in S /\ (\E k \in 1..(j + 1) : s[k] = x)
    OBVIOUS
  <2>1. j + 1 \in 0..Len(s) /\ j + 1 # 0 /\ (j + 1) - 1 = j /\ j + 1 \in 1..Len(s) BY <1>1
  <2>2. h[j + 1] = IF s[j + 1] \in S THEN Append(h[j], s[j + 1]) ELSE h[j]
    BY <1>2, <2>1 DEF IsUpTo
  <2>3. /\ h[j] \in Seq(U)
        /\ \A x : (\E k \in 1..Len(h[j]) : h[j][k] = x) <=> x \in S /\ (\E k \in 1..j : s[k] = x)
    BY <1>1, <1>4, <2>1
  <2>4. \A k : k \in 1..(j + 1) <=> k \in 1..j \/ k = j + 1 OBVIOUS
  <2>5. s[j + 1] \in U BY <1>1, <2>1
  <2>6. CASE s[j + 1] \in S
    <3>1. h[j + 1] = Append(h[j], s[j + 1]) BY <2>2, <2>6
    <3>2. PICK t, y : t = h[j] /\ y = s[j + 1] OBVIOUS
    <3>3. /\ Append(t, y) \in Seq(U) /\ Len(Append(t, y)) = Len(t) + 1 /\ Len(t) \in Nat
          /\ Append(t, y)[Len(t) + 1] = y
          /\ \A k \in 1..Len(t) : Append(t, y)[k] = t[k]
      BY <2>3, <2>5, <3>2, AppendProperties
    <3>4. \A k : k \in 1..Len(Append(t, y)) <=> k \in 1..Len(t) \/ k = Len(t) + 1 BY <3>3
    <3>5. \A x : (\E k \in 1..Len(Append(t, y)) : Append(t, y)[k] = x)
                   <=> (\E k \in 1..Len(t) : t[k] = x) \/ x = y
      BY <3>3, <3>4
    <3>6. \A x : (\E k \in 1..Len(t) : t[k] = x) <=> x \in S /\ (\E k \in 1..j : s[k] = x)
      BY <2>3, <3>2
    <3>7. \A x : (\E k \in 1..(j + 1) : s[k] = x) <=> (\E k \in 1..j : s[k] = x) \/ x = y
      BY <2>4, <3>2
    <3>8. y \in S /\ h[j + 1] = Append(t, y) BY <2>6, <3>1, <3>2
    <3> HIDE DEF V
    <3> QED BY <3>3, <3>5, <3>6, <3>7, <3>8
  <2>7. CASE s[j + 1] \notin S BY <2>2, <2>3, <2>4, <2>7
  <2> QED BY <2>6, <2>7
<1>5. Len(s) \in V
  <2> HIDE DEF V
  <2> QED BY NatSetInduction, <1>1, <1>3, <1>4
<1>6. Among(s, S) \in Seq(U) BY <1>1, <1>2, <1>5
<1>7. DOMAIN Among(s, S) = 1..Len(Among(s, S)) BY <1>6
<1>8. \A x : (\E k \in 1..Len(h[Len(s)]) : h[Len(s)][k] = x)
               <=> x \in S /\ (\E k \in 1..Len(s) : s[k] = x)
  BY <1>1, <1>5
<1> HIDE DEF V
<1>9. \A x : (\E k \in DOMAIN Among(s, S) : Among(s, S)[k] = x)
                <=> x \in S /\ (\E k \in DOMAIN s : s[k] = x)
  BY <1>1, <1>2, <1>7, <1>8
<1>10. PICK r : r = Among(s, S) OBVIOUS
<1>11. \A x : x \in Range(r) <=> (\E k \in DOMAIN r : r[k] = x) BY DEF Range
<1>12. \A x : x \in Range(s) <=> (\E k \in DOMAIN s : s[k] = x) BY DEF Range
<1> QED BY <1>6, <1>9, <1>10, <1>11, <1>12

(* of the numbers up to N, the n-th that is in S *)
Rank(S, n) == Cardinality({k \in 1..n : k \in S})

LEMMA RankGrows ==
  ASSUME NEW S, NEW n \in Nat
  PROVE  /\ Rank(S, n) \in Nat /\ Rank(S, 0) = 0
         /\ Rank(S, n + 1) = IF n + 1 \in S THEN Rank(S, n) + 1 ELSE Rank(S, n)
<1>1. IsFiniteSet(1..n) BY FS_Interval
<1>2. IsFiniteSet({k \in 1..n : k \in S}) BY <1>1, FS_Subset
<1>3. Rank(S, n) \in Nat BY <1>2, FS_CardinalityType DEF Rank
<1>4. {k \in 1..0 : k \in S} = {} OBVIOUS
<1>5. Rank(S, 0) = 0 BY <1>4, FS_EmptySet DEF Rank
<1>6. CASE n + 1 \in S
  <2>1. {k \in 1..(n + 1) : k \in S} = {k \in 1..n : k \in S} \cup {n + 1} BY <1>6
  <2>2. n + 1 \notin {k \in 1..n : k \in S} OBVIOUS
  <2> QED BY <1>2, <1>3, <1>5, <1>6, <2>1, <2>2, FS_AddElement DEF Rank
<1>7. CASE n + 1 \notin S
  <2>1. {k \in 1..(n + 1) : k \in S} = {k \in 1..n : k \in S} BY <1>7
  <2> QED BY <1>3, <1>5, <1>7, <2>1 DEF Rank
<1> QED BY <1>6, <1>7

Kept(S, N) == Among([n \in 1..N |-> n], S)

IsNumbering(S, K, N) ==
  /\ K \in Seq(S) /\ Len(K) = Rank(S, N)
  /\ \A n \in S : Rank(S, n) \in 1..Len(K) /\ K[Rank(S, n)] = n
  /\ \A m \in 1..Len(K) : K[m] \in S /\ Rank(S, K[m]) = m

LEMMA KeptNumbers ==
  ASSUME NEW N \in Nat, NEW S, S \subseteq 1..N
  PROVE  IsNumbering(S, Kept(S, N), N)
<1>0. PICK K : K = Kept(S, N) OBVIOUS
<1> DEFINE s == [n \in 1..N |-> n]
<1>1. s \in Seq(1..N) /\ Len(s) = N /\ \A n \in 1..N : s[n] = n OBVIOUS
<1> HIDE DEF s
<1>2. PICK h : IsUpTo(s, S, N, h) /\ Among(s, S) = h[N] BY <1>1, AmongDef
<1> DEFINE Good(j) == /\ h[j] \in Seq(S) /\ Len(h[j]) = Rank(S, j)
                      /\ \A n \in S : n <= j => Rank(S, n) \in 1..Len(h[j]) /\ h[j][Rank(S, n)] = n
                      /\ \A m \in 1..Len(h[j]) : Rank(S, h[j][m]) = m
           V == {j \in Nat : j <= N => Good(j)}
<1>3. 0 \in V
  <2>1. h[0] = <<>> BY <1>2 DEF IsUpTo
  <2>2. Rank(S, 0) = 0 BY RankGrows
  <2>3. \A n \in S : ~(n <= 0) OBVIOUS
  <2>4. h[0] \in Seq(S) /\ Len(h[0]) = 0 BY <2>1
  <2>5. \A m : m \notin 1..0 OBVIOUS
  <2>6. Good(0) BY <2>2, <2>3, <2>4, <2>5
  <2> HIDE DEF Good
  <2> QED BY <2>6
<1>4. ASSUME NEW j \in Nat, j \in V PROVE j + 1 \in V
  <2> SUFFICES ASSUME j + 1 <= N PROVE Good(j + 1) OBVIOUS
  <2>1. j + 1 \in 0..N /\ j + 1 # 0 /\ (j + 1) - 1 = j /\ j + 1 \in 1..N OBVIOUS
  <2>2. h[j + 1] = IF j + 1 \in S THEN Append(h[j], j + 1) ELSE h[j]
    BY <1>1, <1>2, <2>1 DEF IsUpTo
  <2>3. Good(j) BY <1>4, <2>1
  <2>4. /\ Rank(S, j) \in Nat
        /\ Rank(S, j + 1) = IF j + 1 \in S THEN Rank(S, j) + 1 ELSE Rank(S, j)
    BY RankGrows
  <2>5. \A n \in S : n \in Nat /\ (n <= j + 1 <=> n <= j \/ n = j + 1) OBVIOUS
  <2>6. CASE j + 1 \in S
    <3>1. PICK t : t = h[j] OBVIOUS
    <3>2. h[j + 1] = Append(t, j + 1) /\ t \in Seq(S) /\ Len(t) = Rank(S, j)
      BY <2>2, <2>3, <2>6, <3>1
    <3>3. /\ Append(t, j + 1) \in Seq(S) /\ Len(Append(t, j + 1)) = Len(t) + 1 /\ Len(t) \in Nat
          /\ Append(t, j + 1)[Len(t) + 1] = j + 1
          /\ \A k \in 1..Len(t) : Append(t, j + 1)[k] = t[k]
      BY <2>6, <3>2, AppendProperties
    <3>4. \A n \in S : n <= j => Rank(S, n) \in 1..Len(t) /\ t[Rank(S, n)] = n BY <2>3, <3>1
    <3>5. \A m \in 1..Len(t) : Rank(S, t[m]) = m BY <2>3, <3>1
    <3>6. Rank(S, j + 1) = Len(t) + 1 BY <2>4, <2>6, <3>2
    <3>7. ASSUME NEW n \in S, n <= j + 1
          PROVE  Rank(S, n) \in 1..Len(h[j + 1]) /\ h[j + 1][Rank(S, n)] = n
      <4>1. CASE n <= j
        <5>1. Rank(S, n) \in 1..Len(t) /\ t[Rank(S, n)] = n BY <3>4, <4>1
        <5> QED BY <3>2, <3>3, <5>1
      <4>2. CASE n = j + 1 BY <3>2, <3>3, <3>6, <4>2
      <4> QED BY <2>5, <3>7, <4>1, <4>2
    <3>8. ASSUME NEW m \in 1..Len(h[j + 1]) PROVE Rank(S, h[j + 1][m]) = m
      <4>1. m \in 1..Len(t) \/ m = Len(t) + 1 BY <3>2, <3>3
      <4> QED BY <3>2, <3>3, <3>5, <3>6, <4>1
    <3> QED BY <3>2, <3>3, <3>6, <3>7, <3>8
  <2>7. CASE j + 1 \notin S
    <3>1. \A n \in S : n <= j + 1 => n <= j BY <2>5, <2>7
    <3> QED BY <2>2, <2>3, <2>4, <2>7, <3>1
  <2> QED BY <2>6, <2>7
<1>5. N \in V
  <2> HIDE DEF V
  <2> QED BY NatSetInduction, <1>3, <1>4
<1>6. Good(N) BY <1>5
<1>7. K = h[N] BY <1>0, <1>2 DEF s, Kept
<1>8. \A m \in 1..Len(K) : K[m] \in S BY <1>6, <1>7
<1>9. \A n \in S : n <= N OBVIOUS
<1> QED BY <1>0, <1>6, <1>7, <1>8, <1>9 DEF IsNumbering

-----------------------------------------------------------------------------
(* Paths, taken a step at a time *)

Acts == DOMAIN task.arcs
Begun == <<0, 0, 0>>

LEMMA ArcsSeq ==
  ASSUME IsTask(task), NEW e, NEW q
  PROVE  ArcsFrom(e, q) \in Seq(Acts)
<1>1. Len(task.arcs) \in Nat /\ Acts = 1..Len(task.arcs) BY DEF IsTask, Acts
<1>2. [a \in Acts |-> a] \in Seq(Acts)
  <2>1. [a \in 1..Len(task.arcs) |-> a] \in Seq(1..Len(task.arcs)) BY <1>1
  <2> QED BY <1>1, <2>1
<1>3. ASSUME NEW s, NEW in, NEW out PROVE Index(s, in, out) \in Seq(Acts)
  BY <1>2, AmongFacts DEF Index, Acts
<1>4. <<>> \in Seq(Acts) OBVIOUS
<1>5. \A s, t : s \in Seq(Acts) /\ t \in Seq(Acts) => s \o t \in Seq(Acts) OBVIOUS
<1> DEFINE With(in) == Index(q[2], in, Eps)
                         \o (IF q[3] < Len(e.out) THEN Index(q[2], in, e.out[q[3] + 1]) ELSE <<>>)
<1>6. ASSUME NEW in PROVE With(in) \in Seq(Acts) BY <1>3, <1>4, <1>5
<1>7. ArcsFrom(e, q) = With(Eps) \o (IF q[1] < Len(e.in) THEN With(e.in[q[1] + 1]) ELSE <<>>)
  BY DEF ArcsFrom
<1> HIDE DEF With
<1> QED BY <1>4, <1>5, <1>6, <1>7

(* the transducer's paths, and those of the graph h *)
WalkStep(e, p) == {[at |-> Step(p.at, a), path |-> Append(p.path, a)] : a \in Range(ArcsFrom(e, p.at))}
GraphStep(h, p) == {[at |-> a.dest, path |-> Append(p.path, a.arc)] : a \in Range(h[p.at])}
IsWalks(e, k, w) ==
  w = [i \in 0..k |-> IF i = 0 THEN {[at |-> Begun, path |-> <<>>]}
                      ELSE UNION {WalkStep(e, p) : p \in w[i - 1]}]
IsGraphWalks(h, k, w) ==
  w = [i \in 0..k |-> IF i = 0 THEN {[at |-> 1, path |-> <<>>]}
                      ELSE UNION {GraphStep(h, p) : p \in w[i - 1]}]

LEMMA WalksExist ==
  ASSUME NEW e, NEW k \in Nat
  PROVE  \E w : IsWalks(e, k, w)
<1> DEFINE K == {j \in Nat : \E w : IsWalks(e, j, w)}
<1>1. 0 \in K
  <2>1. IsWalks(e, 0, [i \in 0..0 |-> {[at |-> Begun, path |-> <<>>]}]) BY DEF IsWalks
  <2> QED BY <2>1
<1>2. ASSUME NEW j \in Nat, j \in K PROVE j + 1 \in K
  <2>1. PICK h : IsWalks(e, j, h) BY <1>2
  <2> DEFINE new == UNION {WalkStep(e, p) : p \in h[j]}
             f == [i \in 0..(j + 1) |-> IF i = j + 1 THEN new ELSE h[i]]
  <2> HIDE DEF new
  <2>2. ASSUME NEW i \in 0..(j + 1)
        PROVE  f[i] = IF i = 0 THEN {[at |-> Begun, path |-> <<>>]}
                      ELSE UNION {WalkStep(e, p) : p \in f[i - 1]}
    <3>1. CASE i = 0
      <4>1. h[0] = {[at |-> Begun, path |-> <<>>]} /\ 0 # j + 1 BY <2>1 DEF IsWalks
      <4> QED BY <3>1, <4>1
    <3>2. CASE i = j + 1
      <4>1. i # 0 /\ i - 1 = j /\ j \in 0..(j + 1) /\ j # j + 1 BY <3>2
      <4>2. f[i] = new /\ f[j] = h[j] BY <3>2, <4>1
      <4> QED BY <3>2, <4>1, <4>2 DEF new
    <3>3. CASE i # 0 /\ i # j + 1
      <4>1. i \in 0..j /\ i - 1 \in 0..j /\ i - 1 # j + 1 /\ i - 1 \in 0..(j + 1) BY <3>3
      <4>2. h[i] = UNION {WalkStep(e, p) : p \in h[i - 1]} BY <2>1, <3>3, <4>1 DEF IsWalks
      <4>3. f[i] = h[i] /\ f[i - 1] = h[i - 1] BY <4>1, <3>3
      <4> QED BY <4>2, <4>3, <3>3
    <3> QED BY <3>1, <3>2, <3>3
  <2>3. f = [i \in 0..(j + 1) |-> f[i]] OBVIOUS
  <2> HIDE DEF f
  <2>4. IsWalks(e, j + 1, f) BY <2>2, <2>3 DEF IsWalks
  <2> QED BY <2>4
<1>3. k \in K
  <2> HIDE DEF K
  <2> QED BY NatSetInduction, <1>1, <1>2
<1> QED BY <1>3

LEMMA GraphWalksExist ==
  ASSUME NEW h, NEW k \in Nat
  PROVE  \E w : IsGraphWalks(h, k, w)
<1> DEFINE K == {j \in Nat : \E w : IsGraphWalks(h, j, w)}
<1>1. 0 \in K
  <2>1. IsGraphWalks(h, 0, [i \in 0..0 |-> {[at |-> 1, path |-> <<>>]}]) BY DEF IsGraphWalks
  <2> QED BY <2>1
<1>2. ASSUME NEW j \in Nat, j \in K PROVE j + 1 \in K
  <2>1. PICK w : IsGraphWalks(h, j, w) BY <1>2
  <2> DEFINE new == UNION {GraphStep(h, p) : p \in w[j]}
             f == [i \in 0..(j + 1) |-> IF i = j + 1 THEN new ELSE w[i]]
  <2> HIDE DEF new
  <2>2. ASSUME NEW i \in 0..(j + 1)
        PROVE  f[i] = IF i = 0 THEN {[at |-> 1, path |-> <<>>]}
                      ELSE UNION {GraphStep(h, p) : p \in f[i - 1]}
    <3>1. CASE i = 0
      <4>1. w[0] = {[at |-> 1, path |-> <<>>]} /\ 0 # j + 1 BY <2>1 DEF IsGraphWalks
      <4> QED BY <3>1, <4>1
    <3>2. CASE i = j + 1
      <4>1. i # 0 /\ i - 1 = j /\ j \in 0..(j + 1) /\ j # j + 1 BY <3>2
      <4>2. f[i] = new /\ f[j] = w[j] BY <3>2, <4>1
      <4> QED BY <3>2, <4>1, <4>2 DEF new
    <3>3. CASE i # 0 /\ i # j + 1
      <4>1. i \in 0..j /\ i - 1 \in 0..j /\ i - 1 # j + 1 /\ i - 1 \in 0..(j + 1) BY <3>3
      <4>2. w[i] = UNION {GraphStep(h, p) : p \in w[i - 1]} BY <2>1, <3>3, <4>1 DEF IsGraphWalks
      <4>3. f[i] = w[i] /\ f[i - 1] = w[i - 1] BY <4>1, <3>3
      <4> QED BY <4>2, <4>3, <3>3
    <3> QED BY <3>1, <3>2, <3>3
  <2>3. f = [i \in 0..(j + 1) |-> f[i]] OBVIOUS
  <2> HIDE DEF f
  <2>4. IsGraphWalks(h, j + 1, f) BY <2>2, <2>3 DEF IsGraphWalks
  <2> QED BY <2>4
<1>3. k \in K
  <2> HIDE DEF K
  <2> QED BY NatSetInduction, <1>1, <1>2
<1> QED BY <1>3

LEMMA AcceptingDef ==
  ASSUME NEW e, NEW k \in Nat
  PROVE  \E w : /\ IsWalks(e, k, w)
                /\ Accepting(e, k) =
                     {p.path : p \in {q \in UNION {w[i] : i \in 0..k} : q.at = GoalOf(e)}}
<1> DEFINE after == CHOOSE w : IsWalks(e, k, w)
<1>1. IsWalks(e, k, after)
  <2>1. PICK w : IsWalks(e, k, w) BY WalksExist
  <2> QED BY <2>1
<1>2. Accepting(e, k) =
        {p.path : p \in {q \in UNION {after[i] : i \in 0..k} : q.at = GoalOf(e)}}
  BY DEF Accepting, IsWalks, WalkStep, Begun
<1> HIDE DEF after
<1> QED BY <1>1, <1>2

LEMMA PathsOfDef ==
  ASSUME NEW x, NEW k \in Nat
  PROVE  \E w : /\ IsGraphWalks(x.g, k, w)
                /\ PathsOf(x, k) =
                     IF x.no_goal THEN {}
                     ELSE {p.path : p \in {q \in UNION {w[i] : i \in 0..k} : q.at = x.fin}}
<1> DEFINE after == CHOOSE w : IsGraphWalks(x.g, k, w)
<1>1. IsGraphWalks(x.g, k, after)
  <2>1. PICK w : IsGraphWalks(x.g, k, w) BY GraphWalksExist
  <2> QED BY <2>1
<1>2. PathsOf(x, k) =
        IF x.no_goal THEN {}
        ELSE {p.path : p \in {q \in UNION {after[i] : i \in 0..k} : q.at = x.fin}}
  BY DEF PathsOf, IsGraphWalks, GraphStep
<1> HIDE DEF after
<1> QED BY <1>1, <1>2

(* A graph whose nodes are places: what it leaves out leads only to places from *)
(* which the goal is not reached.                                              *)
GraphFits(e, x, M, lab, DeadPlaces) ==
  /\ 1 \in 1..M /\ lab[1] = Begun
  /\ ~x.no_goal /\ x.fin \in 1..M /\ lab[x.fin] = GoalOf(e)
  /\ \A m, n \in 1..M : lab[m] = lab[n] => m = n
  /\ \A n \in 1..M : \A b \in Range(x.g[n]) :
       b.dest \in 1..M /\ b.arc \in Range(ArcsFrom(e, lab[n])) /\ lab[b.dest] = Step(lab[n], b.arc)
  /\ \A n \in 1..M : \A a \in Range(ArcsFrom(e, lab[n])) :
       \/ Step(lab[n], a) \in DeadPlaces
       \/ \E b \in Range(x.g[n]) : b.arc = a
  /\ GoalOf(e) \notin DeadPlaces
  /\ \A q \in DeadPlaces : \A a \in Range(ArcsFrom(e, q)) : Step(q, a) \in DeadPlaces

(* It holds the transducer's paths. *)
LEMMA GraphPaths ==
  ASSUME NEW e, NEW x, NEW k \in Nat, NEW M \in Nat, NEW lab, NEW DeadPlaces,
         GraphFits(e, x, M, lab, DeadPlaces)
  PROVE  PathsOf(x, k) = Accepting(e, k)
<1> USE DEF GraphFits
<1>1. PICK w : /\ IsWalks(e, k, w)
               /\ Accepting(e, k) = {p.path : p \in {q \in UNION {w[i] : i \in 0..k} : q.at = GoalOf(e)}}
  BY AcceptingDef
<1>2. PICK v : /\ IsGraphWalks(x.g, k, v)
               /\ PathsOf(x, k) = {p.path : p \in {q \in UNION {v[i] : i \in 0..k} : q.at = x.fin}}
  BY PathsOfDef
<1>3. w[0] = {[at |-> Begun, path |-> <<>>]} /\ v[0] = {[at |-> 1, path |-> <<>>]}
  BY <1>1, <1>2 DEF IsWalks, IsGraphWalks
<1>4. ASSUME NEW i \in Nat, i + 1 \in 0..k
      PROVE  /\ w[i + 1] = UNION {WalkStep(e, p) : p \in w[i]}
             /\ v[i + 1] = UNION {GraphStep(x.g, p) : p \in v[i]}
  <2>1. i + 1 # 0 /\ (i + 1) - 1 = i /\ i \in 0..k /\ i + 1 \in 0..k BY <1>4
  <2>2. w[i + 1] = UNION {WalkStep(e, p) : p \in w[i]} BY <1>1, <2>1 DEF IsWalks
  <2>3. PICK h : h = x.g OBVIOUS
  <2>4. IsGraphWalks(h, k, v) BY <1>2, <2>3
  <2>5. v[i + 1] = UNION {GraphStep(h, p) : p \in v[i]} BY <2>1, <2>4 DEF IsGraphWalks
  <2> QED BY <2>2, <2>3, <2>5
<1> DEFINE Fits(i) == \A p \in v[i] : /\ p.at \in 1..M
                                      /\ \E q \in w[i] : q.at = lab[p.at] /\ q.path = p.path
           Covers(i) == \A q \in w[i] :
                          \/ q.at \in DeadPlaces
                          \/ \E p \in v[i] : p.at \in 1..M /\ lab[p.at] = q.at /\ p.path = q.path
           V == {i \in Nat : i \in 0..k => Fits(i) /\ Covers(i)}
<1>5. 0 \in V
  <2>1. \A p \in v[0] : p.at = 1 /\ p.path = <<>> BY <1>3
  <2>2. \A q \in w[0] : q.at = Begun /\ q.path = <<>> BY <1>3
  <2>3. (\E q \in w[0] : TRUE) /\ (\E p \in v[0] : TRUE) BY <1>3
  <2> QED BY <2>1, <2>2, <2>3
<1>6. ASSUME NEW i \in Nat, i \in V PROVE i + 1 \in V
  <2> SUFFICES ASSUME i + 1 \in 0..k PROVE Fits(i + 1) /\ Covers(i + 1) OBVIOUS
  <2>1. Fits(i) /\ Covers(i)
    <3>1. i \in 0..k OBVIOUS
    <3> QED BY <1>6, <3>1
  <2>2. ASSUME NEW p \in v[i + 1]
        PROVE  p.at \in 1..M /\ \E q \in w[i + 1] : q.at = lab[p.at] /\ q.path = p.path
    <3>1. PICK r \in v[i] : p \in GraphStep(x.g, r) BY <1>4
    <3>2. PICK b \in Range(x.g[r.at]) : p = [at |-> b.dest, path |-> Append(r.path, b.arc)]
      BY <3>1 DEF GraphStep
    <3>3. PICK q \in w[i] : q.at = lab[r.at] /\ q.path = r.path /\ r.at \in 1..M BY <2>1
    <3>4. b.dest \in 1..M /\ b.arc \in Range(ArcsFrom(e, lab[r.at])) /\ lab[b.dest] = Step(lab[r.at], b.arc)
      BY <3>3
    <3>5. [at |-> Step(q.at, b.arc), path |-> Append(q.path, b.arc)] \in WalkStep(e, q)
      BY <3>3, <3>4 DEF WalkStep
    <3>6. [at |-> Step(q.at, b.arc), path |-> Append(q.path, b.arc)] \in w[i + 1] BY <1>4, <3>5
    <3>7. PICK s : s = [at |-> Step(q.at, b.arc), path |-> Append(q.path, b.arc)] OBVIOUS
    <3>8. s \in w[i + 1] /\ s.at = Step(q.at, b.arc) /\ s.path = Append(q.path, b.arc) BY <3>6, <3>7
    <3>9. p.at = b.dest /\ p.path = Append(r.path, b.arc) BY <3>2
    <3>10. s.at = lab[p.at] /\ s.path = p.path /\ p.at \in 1..M BY <3>3, <3>4, <3>8, <3>9
    <3> HIDE DEF V, GraphFits
    <3> QED BY <3>8, <3>10
  <2>3. ASSUME NEW q \in w[i + 1], q.at \notin DeadPlaces
        PROVE  \E p \in v[i + 1] : p.at \in 1..M /\ lab[p.at] = q.at /\ p.path = q.path
    <3>1. PICK r \in w[i] : q \in WalkStep(e, r) BY <1>4
    <3>2. PICK a \in Range(ArcsFrom(e, r.at)) : q = [at |-> Step(r.at, a), path |-> Append(r.path, a)]
      BY <3>1 DEF WalkStep
    <3>3. r.at \notin DeadPlaces BY <2>3, <3>2
    <3>4. PICK p \in v[i] : p.at \in 1..M /\ lab[p.at] = r.at /\ p.path = r.path BY <2>1, <3>3
    <3>5. Step(lab[p.at], a) \notin DeadPlaces BY <2>3, <3>2, <3>4
    <3>6. PICK b \in Range(x.g[p.at]) : b.arc = a BY <3>2, <3>4, <3>5
    <3>7. b.dest \in 1..M /\ lab[b.dest] = Step(lab[p.at], a) BY <3>4, <3>6
    <3>8. [at |-> b.dest, path |-> Append(p.path, b.arc)] \in GraphStep(x.g, p) BY <3>6 DEF GraphStep
    <3>9. [at |-> b.dest, path |-> Append(p.path, b.arc)] \in v[i + 1] BY <1>4, <3>8
    <3>10. PICK s : s = [at |-> b.dest, path |-> Append(p.path, b.arc)] OBVIOUS
    <3>11. s \in v[i + 1] /\ s.at = b.dest /\ s.path = Append(p.path, b.arc) BY <3>9, <3>10
    <3>12. q.at = Step(r.at, a) /\ q.path = Append(r.path, a) BY <3>2
    <3>13. s.at \in 1..M /\ lab[s.at] = q.at /\ s.path = q.path BY <3>4, <3>6, <3>7, <3>11, <3>12
    <3> HIDE DEF V, GraphFits
    <3> QED BY <3>11, <3>13
  <2> QED BY <2>2, <2>3
<1>7. \A i \in 0..k : Fits(i) /\ Covers(i)
  <2>1. \A i \in Nat : i \in V
    <3> HIDE DEF V
    <3> QED BY NatSetInduction, <1>5, <1>6
  <2> QED BY <2>1
<1>8. ASSUME NEW path \in PathsOf(x, k) PROVE path \in Accepting(e, k)
  <2>1. PICK i \in 0..k : \E p \in v[i] : p.at = x.fin /\ path = p.path BY <1>2
  <2>2. PICK p \in v[i] : p.at = x.fin /\ path = p.path BY <2>1
  <2>3. PICK q \in w[i] : q.at = lab[p.at] /\ q.path = p.path BY <1>7
  <2> QED BY <1>1, <2>2, <2>3
<1>9. ASSUME NEW path \in Accepting(e, k) PROVE path \in PathsOf(x, k)
  <2>1. PICK i \in 0..k : \E q \in w[i] : q.at = GoalOf(e) /\ path = q.path BY <1>1
  <2>2. PICK q \in w[i] : q.at = GoalOf(e) /\ path = q.path BY <2>1
  <2>3. PICK p \in v[i] : p.at \in 1..M /\ lab[p.at] = q.at /\ p.path = q.path BY <1>7, <2>2
  <2>4. p.at = x.fin BY <2>2, <2>3
  <2> QED BY <1>2, <2>2, <2>3, <2>4
<1> QED BY <1>8, <1>9

(* no path leaves a set of places that the steps do not leave *)
LEMMA NoPath ==
  ASSUME NEW e, NEW k \in Nat, NEW Places, Begun \in Places, GoalOf(e) \notin Places,
         \A q \in Places : \A a \in Range(ArcsFrom(e, q)) : Step(q, a) \in Places
  PROVE  Accepting(e, k) = {}
<1>1. PICK w : /\ IsWalks(e, k, w)
               /\ Accepting(e, k) = {p.path : p \in {q \in UNION {w[i] : i \in 0..k} : q.at = GoalOf(e)}}
  BY AcceptingDef
<1> DEFINE V == {i \in Nat : i \in 0..k => \A p \in w[i] : p.at \in Places}
<1>2. 0 \in V
  <2>1. w[0] = {[at |-> Begun, path |-> <<>>]} BY <1>1 DEF IsWalks
  <2> QED BY <2>1
<1>3. ASSUME NEW i \in Nat, i \in V PROVE i + 1 \in V
  <2> SUFFICES ASSUME i + 1 \in 0..k, NEW p \in w[i + 1] PROVE p.at \in Places OBVIOUS
  <2>1. i + 1 # 0 /\ (i + 1) - 1 = i /\ i \in 0..k OBVIOUS
  <2>2. w[i + 1] = UNION {WalkStep(e, r) : r \in w[i]} BY <1>1, <2>1 DEF IsWalks
  <2>3. PICK r \in w[i] : p \in WalkStep(e, r) BY <2>2
  <2>4. r.at \in Places BY <1>3, <2>1
  <2> QED BY <2>3, <2>4 DEF WalkStep
<1>4. \A i \in Nat : i \in V
  <2> HIDE DEF V
  <2> QED BY NatSetInduction, <1>2, <1>3
<1> QED BY <1>1, <1>4

-----------------------------------------------------------------------------
(* derive: what holds of the places found, the arcs and the calls, all along *)

Place == Nat \X Nat \X Nat
NodeArc == [dest : Nat, arc : Acts]
Call == [id : Nat, todo : Seq(Acts), dead : BOOLEAN]
Taken(e, q) == Range(ArcsFrom(e, q))

(* arc a from q leads to a place that is gone *)
ToGone(ids, gone, q, a) == \E k \in 1..Len(ids) : ids[k] = Step(q, a) /\ gone[k]

Sized(ids, arcs, gone, calls) ==
  /\ ids \in Seq(Place) /\ arcs \in Seq(Seq(NodeArc)) /\ gone \in Seq(BOOLEAN) /\ calls \in Seq(Call)
  /\ Len(arcs) = Len(ids) /\ Len(gone) = Len(ids)
  /\ Len(ids) >= 1 /\ ids[1] = Begun
  /\ \A i, j \in 1..Len(ids) : ids[i] = ids[j] => i = j

CallsRight(e, ids, calls) ==
  /\ \A s \in 1..Len(calls) : /\ calls[s].id \in 1..Len(ids)
                              /\ Range(calls[s].todo) \subseteq Taken(e, ids[calls[s].id])
  /\ \A s, u \in 1..Len(calls) : calls[s].id = calls[u].id => s = u

ArcsRight(e, ids, arcs) ==
  \A j \in 1..Len(ids) : \A b \in Range(arcs[j]) :
    b.dest \in 1..Len(ids) /\ b.arc \in Taken(e, ids[j]) /\ ids[b.dest] = Step(ids[j], b.arc)

(* an arc was followed, unless a call has still to: it is there, if it leads *)
(* anywhere                                                                  *)
AllFollowed(e, ids, arcs, gone, calls) ==
  \A j \in 1..Len(ids) : \A a \in Taken(e, ids[j]) :
    \/ ToGone(ids, gone, ids[j], a)
    \/ \E b \in Range(arcs[j]) : b.arc = a
    \/ \E s \in 1..Len(calls) : calls[s].id = j /\ a \in Range(calls[s].todo)

(* what is gone was left by derive, is not the goal, and leads to what is gone *)
GoneDead(e, ids, gone, calls) ==
  \A j \in 1..Len(ids) : gone[j] =>
    /\ ids[j] # GoalOf(e)
    /\ \A a \in Taken(e, ids[j]) : ToGone(ids, gone, ids[j], a)
    /\ \A s \in 1..Len(calls) : calls[s].id # j

(* and so does a call that found nothing else yet *)
CallsDead(e, ids, gone, calls) ==
  \A s \in 1..Len(calls) : calls[s].dead =>
    /\ ids[calls[s].id] # GoalOf(e)
    /\ \A a \in Taken(e, ids[calls[s].id]) :
         a \in Range(calls[s].todo) \/ ToGone(ids, gone, ids[calls[s].id], a)

Reached(e, ids) ==
  \A j \in 2..Len(ids) : \E i \in 1..(j - 1) : \E a \in Taken(e, ids[i]) : ids[j] = Step(ids[i], a)

Explored(e, ids, arcs, gone, calls) ==
  /\ Sized(ids, arcs, gone, calls)
  /\ CallsRight(e, ids, calls)
  /\ ArcsRight(e, ids, arcs)
  /\ AllFollowed(e, ids, arcs, gone, calls)
  /\ GoneDead(e, ids, gone, calls)
  /\ CallsDead(e, ids, gone, calls)
  /\ Reached(e, ids)

LEMMA TakenActs ==
  ASSUME IsTask(task), NEW e, NEW q, NEW a \in Taken(e, q)
  PROVE  a \in Acts
<1>1. PICK s : s = ArcsFrom(e, q) OBVIOUS
<1>2. s \in Seq(Acts) BY <1>1, ArcsSeq
<1>3. a \in Range(s) BY <1>1 DEF Taken
<1> QED BY <1>2, <1>3 DEF Range

LEMMA StepPlace ==
  ASSUME IsTask(task), NEW q \in Place, NEW a \in Acts
  PROVE  Step(q, a) \in Place
<1>1. task.arcs[a].dest \in Nat BY DEF IsTask, Acts
<1>2. q[1] \in Nat /\ q[3] \in Nat BY DEF Place
<1> QED BY <1>1, <1>2 DEF Step, Place

(* the parts of a sequence longer by one, or of its front *)
LEMMA Longer ==
  ASSUME NEW U, NEW s \in Seq(U), NEW y \in U
  PROVE  /\ Append(s, y) \in Seq(U) /\ Len(Append(s, y)) = Len(s) + 1 /\ Len(s) \in Nat
         /\ Append(s, y)[Len(s) + 1] = y
         /\ \A k \in 1..Len(s) : Append(s, y)[k] = s[k]
         /\ \A z : z \in Range(Append(s, y)) <=> z \in Range(s) \/ z = y
<1>1. /\ Append(s, y) \in Seq(U) /\ Len(Append(s, y)) = Len(s) + 1 /\ Len(s) \in Nat
      /\ Append(s, y)[Len(s) + 1] = y
      /\ \A k \in 1..Len(s) : Append(s, y)[k] = s[k]
  BY AppendProperties
<1>2. PICK t : t = Append(s, y) OBVIOUS
<1>3. DOMAIN t = 1..(Len(s) + 1) /\ DOMAIN s = 1..Len(s) BY <1>1, <1>2
<1>4. \A k : k \in 1..(Len(s) + 1) <=> k \in 1..Len(s) \/ k = Len(s) + 1 BY <1>1
<1>5. \A z : z \in Range(t) <=> z \in Range(s) \/ z = y BY <1>1, <1>2, <1>3, <1>4 DEF Range
<1> QED BY <1>1, <1>2, <1>5

LEMMA SeqFacts ==
  ASSUME NEW U, NEW s \in Seq(U)
  PROVE  Len(s) \in Nat /\ DOMAIN s = 1..Len(s) /\ \A k \in 1..Len(s) : s[k] \in U
OBVIOUS

LEMMA Replaced ==
  ASSUME NEW U, NEW s \in Seq(U), NEW i \in 1..Len(s), NEW y \in U, NEW s2, s2 = [s EXCEPT ![i] = y]
  PROVE  /\ s2 \in Seq(U) /\ Len(s2) = Len(s) /\ s2[i] = y
         /\ \A k \in 1..Len(s) : k # i => s2[k] = s[k]
BY ExceptSeq

LEMMA HeadAndTail ==
  ASSUME NEW U, NEW s \in Seq(U), s # <<>>
  PROVE  /\ Head(s) \in Range(s) /\ Head(s) \in U /\ Tail(s) \in Seq(U)
         /\ \A z : z \in Range(s) <=> z = Head(s) \/ z \in Range(Tail(s))
<1>1. Len(s) \in Nat /\ Len(s) # 0 /\ DOMAIN s = 1..Len(s) /\ Head(s) = s[1] /\ s[1] \in U OBVIOUS
<1>2. /\ Tail(s) \in Seq(U) /\ Len(Tail(s)) = Len(s) - 1
      /\ \A k \in 1..(Len(s) - 1) : Tail(s)[k] = s[k + 1]
  BY <1>1
<1>3. PICK t : t = Tail(s) OBVIOUS
<1>4. DOMAIN t = 1..(Len(s) - 1) /\ \A k \in 1..(Len(s) - 1) : t[k] = s[k + 1] BY <1>2, <1>3
<1>5. ASSUME NEW z \in Range(s) PROVE z = s[1] \/ z \in Range(t)
  <2>1. PICK k \in 1..Len(s) : z = s[k] BY <1>1 DEF Range
  <2>2. CASE k = 1 BY <2>1, <2>2
  <2>3. CASE k # 1
    <3>1. k - 1 \in 1..(Len(s) - 1) /\ (k - 1) + 1 = k BY <1>1, <2>3
    <3> QED BY <1>4, <2>1, <3>1 DEF Range
  <2> QED BY <2>2, <2>3
<1>6. ASSUME NEW z \in Range(t) PROVE z \in Range(s)
  <2>1. PICK k \in 1..(Len(s) - 1) : z = t[k] BY <1>4 DEF Range
  <2>2. k + 1 \in 1..Len(s) BY <1>1
  <2> QED BY <1>1, <1>4, <2>1, <2>2 DEF Range
<1>7. s[1] \in Range(s) BY <1>1 DEF Range
<1> QED BY <1>1, <1>2, <1>3, <1>5, <1>6, <1>7

LEMMA SameTask ==
  ASSUME task' = task, NEW e, NEW ids, NEW arcs, NEW gone, NEW calls,
         Explored(e, ids, arcs, gone, calls)
  PROVE  Explored(e, ids, arcs, gone, calls)'
<1>1. ASSUME NEW q PROVE Taken(e, q)' = Taken(e, q)
  <2>1. ArcsFrom(e, q)' = ArcsFrom(e, q) BY DEF ArcsFrom, Index
  <2> QED BY <2>1 DEF Taken
<1>2. ASSUME NEW q, NEW a PROVE Step(q, a)' = Step(q, a) BY DEF Step
<1>3. GoalOf(e)' = GoalOf(e) BY DEF GoalOf
<1>4. Acts' = Acts BY DEF Acts
<1>5. ASSUME NEW q, NEW a PROVE ToGone(ids, gone, q, a)' <=> ToGone(ids, gone, q, a)
  BY <1>2 DEF ToGone
<1>6. Sized(ids, arcs, gone, calls)' BY <1>4 DEF Explored, Sized, NodeArc, Call
<1>7. CallsRight(e, ids, calls)' BY <1>1 DEF Explored, CallsRight
<1>8. ArcsRight(e, ids, arcs)' BY <1>1, <1>2 DEF Explored, ArcsRight
<1>9. AllFollowed(e, ids, arcs, gone, calls)' BY <1>1, <1>5 DEF Explored, AllFollowed
<1>10. GoneDead(e, ids, gone, calls)' BY <1>1, <1>3, <1>5 DEF Explored, GoneDead
<1>11. CallsDead(e, ids, gone, calls)' BY <1>1, <1>3, <1>5 DEF Explored, CallsDead
<1>12. Reached(e, ids)' BY <1>1, <1>2 DEF Explored, Reached
<1> QED BY <1>6, <1>7, <1>8, <1>9, <1>10, <1>11, <1>12 DEF Explored

LEMMA FrameFacts ==
  ASSUME IsTask(task), NEW e, NEW q, NEW n \in Nat
  PROVE  /\ Frame(e, q, n) \in Call /\ Frame(e, q, n).id = n
         /\ Range(Frame(e, q, n).todo) = Taken(e, q)
         /\ Frame(e, q, n).dead <=> q # GoalOf(e)
BY ArcsSeq DEF Frame, Call, Taken

LEMMA ExploredAtFirst ==
  ASSUME IsTask(task), NEW e
  PROVE  Explored(e, <<Begun>>, << <<>> >>, <<FALSE>>, <<Frame(e, Begun, 1)>>)
<1>1. PICK c : c = Frame(e, Begun, 1) OBVIOUS
<1>2. c \in Call /\ c.id = 1 /\ Range(c.todo) = Taken(e, Begun) /\ (c.dead <=> Begun # GoalOf(e))
  BY <1>1, FrameFacts
<1>3. PICK ids, arcs, gone, calls :
        ids = <<Begun>> /\ arcs = << <<>> >> /\ gone = <<FALSE>> /\ calls = <<c>>
  OBVIOUS
<1>4. /\ ids \in Seq(Place) /\ arcs \in Seq(Seq(NodeArc)) /\ gone \in Seq(BOOLEAN) /\ calls \in Seq(Call)
      /\ Len(ids) = 1 /\ Len(arcs) = 1 /\ Len(gone) = 1 /\ Len(calls) = 1
      /\ ids[1] = Begun /\ arcs[1] = <<>> /\ gone[1] = FALSE /\ calls[1] = c
  <2>1. Begun \in Place BY DEF Begun, Place
  <2>2. <<>> \in Seq(NodeArc) OBVIOUS
  <2> QED BY <1>2, <1>3, <2>1, <2>2
<1>5. \A k : k \in 1..1 <=> k = 1 OBVIOUS
<1>6. \A b : b \notin Range(arcs[1])
  <2>1. \A k : k \notin DOMAIN (<<>>) OBVIOUS
  <2> QED BY <1>4, <2>1 DEF Range
<1>7. Sized(ids, arcs, gone, calls) BY <1>4, <1>5 DEF Sized
<1>8. CallsRight(e, ids, calls) BY <1>2, <1>4, <1>5 DEF CallsRight
<1>9. ArcsRight(e, ids, arcs) BY <1>4, <1>5, <1>6 DEF ArcsRight
<1>10. AllFollowed(e, ids, arcs, gone, calls) BY <1>2, <1>4, <1>5 DEF AllFollowed
<1>11. GoneDead(e, ids, gone, calls) BY <1>4, <1>5 DEF GoneDead
<1>12. CallsDead(e, ids, gone, calls) BY <1>2, <1>4, <1>5 DEF CallsDead
<1>13. Reached(e, ids)
  <2>1. \A j : j \notin 2..1 OBVIOUS
  <2> QED BY <1>4, <2>1 DEF Reached
<1> QED BY <1>1, <1>3, <1>7, <1>8, <1>9, <1>10, <1>11, <1>12, <1>13 DEF Explored

(* The three actions: the top call's next arc leads to a new place or to one *)
(* that is known, or there is none left.                                     *)
LEMMA ExploredNewPlace ==
  ASSUME IsTask(task), NEW e, NEW ids, NEW arcs, NEW gone, NEW calls, NEW n, NEW q,
         Explored(e, ids, arcs, gone, calls),
         n = Len(calls), calls # <<>>, calls[n].todo # <<>>,
         q = Step(ids[calls[n].id], Head(calls[n].todo)),
         \A j \in 1..Len(ids) : ids[j] # q
  PROVE  Explored(e, Append(ids, q), Append(arcs, <<>>), Append(gone, FALSE),
                  Append(calls, Frame(e, q, Len(ids) + 1)))
<1>1. /\ ids \in Seq(Place) /\ arcs \in Seq(Seq(NodeArc)) /\ gone \in Seq(BOOLEAN) /\ calls \in Seq(Call)
      /\ Len(arcs) = Len(ids) /\ Len(gone) = Len(ids) /\ Len(ids) >= 1 /\ ids[1] = Begun
      /\ \A i, j \in 1..Len(ids) : ids[i] = ids[j] => i = j
  BY DEF Explored, Sized
<1>2. n \in Nat /\ n \in 1..n /\ calls[n] \in Call /\ calls[n].id \in 1..Len(ids)
  <2>1. n \in Nat /\ n # 0 BY <1>1
  <2> QED BY <1>1, <2>1 DEF Explored, CallsRight
<1>3. PICK a : a = Head(calls[n].todo) OBVIOUS
<1>4. a \in Range(calls[n].todo)
  <2>1. PICK t : t = calls[n].todo OBVIOUS
  <2>2. t \in Seq(Acts) BY <1>2, <2>1 DEF Call
  <2> QED BY <1>3, <2>1, <2>2, HeadAndTail
<1>5. a \in Taken(e, ids[calls[n].id]) /\ q = Step(ids[calls[n].id], a)
  BY <1>2, <1>3, <1>4 DEF Explored, CallsRight
<1>6. q \in Place
  <2>1. a \in Acts BY <1>5, TakenActs
  <2>2. ids[calls[n].id] \in Place BY <1>1, <1>2
  <2> QED BY <1>5, <2>1, <2>2, StepPlace
<1>7. PICK m : m = Len(ids) OBVIOUS
<1>8. m \in Nat /\ m + 1 \in Nat /\ m >= 1 BY <1>1, <1>7
<1>9. PICK c : c = Frame(e, q, m + 1) OBVIOUS
<1>10. c \in Call /\ c.id = m + 1 /\ Range(c.todo) = Taken(e, q) /\ (c.dead <=> q # GoalOf(e))
  BY <1>8, <1>9, FrameFacts
<1>11. PICK ids2, arcs2, gone2, calls2 :
         /\ ids2 = Append(ids, q) /\ arcs2 = Append(arcs, <<>>)
         /\ gone2 = Append(gone, FALSE) /\ calls2 = Append(calls, c)
  OBVIOUS
<1>12. /\ ids2 \in Seq(Place) /\ Len(ids2) = m + 1 /\ ids2[m + 1] = q
       /\ \A k \in 1..m : ids2[k] = ids[k]
  BY <1>1, <1>6, <1>7, <1>11, AppendProperties
<1>13. /\ arcs2 \in Seq(Seq(NodeArc)) /\ Len(arcs2) = m + 1 /\ arcs2[m + 1] = <<>>
       /\ \A k \in 1..m : arcs2[k] = arcs[k]
  <2>1. <<>> \in Seq(NodeArc) OBVIOUS
  <2> QED BY <1>1, <1>7, <1>11, <2>1, AppendProperties
<1>14. /\ gone2 \in Seq(BOOLEAN) /\ Len(gone2) = m + 1 /\ gone2[m + 1] = FALSE
       /\ \A k \in 1..m : gone2[k] = gone[k]
  <2>1. FALSE \in BOOLEAN OBVIOUS
  <2>2. PICK no : no = FALSE OBVIOUS
  <2>3. no \in BOOLEAN /\ gone2 = Append(gone, no) BY <1>11, <2>1, <2>2
  <2>4. /\ gone2 \in Seq(BOOLEAN) /\ Len(gone2) = m + 1 /\ gone2[m + 1] = no
        /\ \A k \in 1..m : gone2[k] = gone[k]
    BY <1>1, <1>7, <2>3, AppendProperties
  <2> QED BY <2>2, <2>4
<1>15. /\ calls2 \in Seq(Call) /\ Len(calls2) = n + 1 /\ calls2[n + 1] = c
       /\ \A k \in 1..n : calls2[k] = calls[k]
  BY <1>1, <1>10, <1>11, AppendProperties
<1>16. \A k : k \in 1..(m + 1) <=> k \in 1..m \/ k = m + 1 BY <1>8
<1>17. \A k : k \in 1..(n + 1) <=> k \in 1..n \/ k = n + 1 BY <1>2
<1>18. m + 1 \notin 1..m BY <1>8
<1>19. ASSUME NEW r, NEW b, ToGone(ids, gone, r, b) PROVE ToGone(ids2, gone2, r, b)
  BY <1>7, <1>12, <1>14, <1>16, <1>19 DEF ToGone
<1>20. \A b : b \notin Range(arcs2[m + 1])
  <2>1. \A k : k \notin DOMAIN (<<>>) OBVIOUS
  <2> QED BY <1>13, <2>1 DEF Range
<1>21. Sized(ids2, arcs2, gone2, calls2)
  <2>1. \A i, j \in 1..(m + 1) : ids2[i] = ids2[j] => i = j
    BY ZenonT(60), <1>1, <1>7, <1>12, <1>16
  <2>2. 1 \in 1..m BY <1>8
  <2>3. ids2[1] = Begun BY <1>1, <1>12, <2>2
  <2>4. m + 1 >= 1 BY <1>8
  <2> QED BY <1>12, <1>13, <1>14, <1>15, <2>1, <2>3, <2>4 DEF Sized
<1>22. CallsRight(e, ids2, calls2)
  <2>1. \A s \in 1..n : /\ calls[s].id \in 1..m /\ Range(calls[s].todo) \subseteq Taken(e, ids[calls[s].id])
    BY <1>7 DEF Explored, CallsRight
  <2>2. \A s, u \in 1..n : calls[s].id = calls[u].id => s = u BY DEF Explored, CallsRight
  <2>3. \A s \in 1..(n + 1) : /\ calls2[s].id \in 1..(m + 1)
                              /\ Range(calls2[s].todo) \subseteq Taken(e, ids2[calls2[s].id])
    <3> SUFFICES ASSUME NEW s \in 1..(n + 1)
                 PROVE  /\ calls2[s].id \in 1..(m + 1)
                        /\ Range(calls2[s].todo) \subseteq Taken(e, ids2[calls2[s].id])
      OBVIOUS
    <3>1. CASE s = n + 1 BY <1>10, <1>12, <1>15, <1>16, <3>1
    <3>2. CASE s \in 1..n
      <4>1. calls2[s] = calls[s] BY <1>15, <3>2
      <4>2. calls[s].id \in 1..m /\ Range(calls[s].todo) \subseteq Taken(e, ids[calls[s].id])
        BY <2>1, <3>2
      <4>3. ids2[calls[s].id] = ids[calls[s].id] BY <1>12, <4>2
      <4> QED BY <1>16, <4>1, <4>2, <4>3
    <3> QED BY <1>17, <3>1, <3>2
  <2>4. \A s, u \in 1..(n + 1) : calls2[s].id = calls2[u].id => s = u
    BY <1>10, <1>15, <1>17, <1>18, <2>1, <2>2
  <2> QED BY <1>12, <1>15, <2>3, <2>4 DEF CallsRight
<1>23. ArcsRight(e, ids2, arcs2)
  <2> SUFFICES ASSUME NEW j \in 1..(m + 1), NEW b \in Range(arcs2[j])
               PROVE  b.dest \in 1..(m + 1) /\ b.arc \in Taken(e, ids2[j]) /\ ids2[b.dest] = Step(ids2[j], b.arc)
    BY <1>12 DEF ArcsRight
  <2>1. j \in 1..m /\ b \in Range(arcs[j]) BY <1>13, <1>16, <1>20
  <2>2. b.dest \in 1..m /\ b.arc \in Taken(e, ids[j]) /\ ids[b.dest] = Step(ids[j], b.arc)
    BY <1>7, <2>1 DEF Explored, ArcsRight
  <2> QED BY <1>12, <1>16, <2>1, <2>2
<1>24. AllFollowed(e, ids2, arcs2, gone2, calls2)
  <2> SUFFICES ASSUME NEW j \in 1..(m + 1), NEW b \in Taken(e, ids2[j])
               PROVE  \/ ToGone(ids2, gone2, ids2[j], b)
                      \/ \E x \in Range(arcs2[j]) : x.arc = b
                      \/ \E s \in 1..(n + 1) : calls2[s].id = j /\ b \in Range(calls2[s].todo)
    BY <1>12, <1>15 DEF AllFollowed
  <2>1. CASE j = m + 1 BY <1>10, <1>12, <1>15, <1>17, <2>1
  <2>2. CASE j \in 1..m
    <3>1. \/ ToGone(ids, gone, ids[j], b)
          \/ \E x \in Range(arcs[j]) : x.arc = b
          \/ \E s \in 1..n : calls[s].id = j /\ b \in Range(calls[s].todo)
      BY <1>7, <1>12, <2>2 DEF Explored, AllFollowed
    <3> QED BY <1>12, <1>13, <1>15, <1>17, <1>19, <2>2, <3>1
  <2> QED BY <1>16, <2>1, <2>2
<1>25. GoneDead(e, ids2, gone2, calls2)
  <2> SUFFICES ASSUME NEW j \in 1..(m + 1), gone2[j]
               PROVE  /\ ids2[j] # GoalOf(e)
                      /\ \A b \in Taken(e, ids2[j]) : ToGone(ids2, gone2, ids2[j], b)
                      /\ \A s \in 1..(n + 1) : calls2[s].id # j
    BY <1>12, <1>15 DEF GoneDead
  <2>1. j \in 1..m /\ gone[j] BY <1>14, <1>16
  <2>2. /\ ids[j] # GoalOf(e)
        /\ \A b \in Taken(e, ids[j]) : ToGone(ids, gone, ids[j], b)
        /\ \A s \in 1..n : calls[s].id # j
    BY <1>7, <2>1 DEF Explored, GoneDead
  <2>3. j # m + 1 BY <1>18, <2>1
  <2> QED BY <1>10, <1>12, <1>15, <1>17, <1>19, <2>1, <2>2, <2>3
<1>26. CallsDead(e, ids2, gone2, calls2)
  <2> SUFFICES ASSUME NEW s \in 1..(n + 1), calls2[s].dead
               PROVE  /\ ids2[calls2[s].id] # GoalOf(e)
                      /\ \A b \in Taken(e, ids2[calls2[s].id]) :
                           b \in Range(calls2[s].todo) \/ ToGone(ids2, gone2, ids2[calls2[s].id], b)
    BY <1>15 DEF CallsDead
  <2>1. CASE s = n + 1 BY <1>10, <1>12, <1>15, <2>1
  <2>2. CASE s \in 1..n
    <3>1. calls[s].id \in 1..m BY <1>7, <2>2 DEF Explored, CallsRight
    <3>2. /\ ids[calls[s].id] # GoalOf(e)
          /\ \A b \in Taken(e, ids[calls[s].id]) :
               b \in Range(calls[s].todo) \/ ToGone(ids, gone, ids[calls[s].id], b)
      BY <1>15, <2>2 DEF Explored, CallsDead
    <3> QED BY <1>12, <1>15, <1>19, <2>2, <3>1, <3>2
  <2> QED BY <1>17, <2>1, <2>2
<1>27. Reached(e, ids2)
  <2> SUFFICES ASSUME NEW j \in 2..(m + 1)
               PROVE  \E i \in 1..(j - 1) : \E b \in Taken(e, ids2[i]) : ids2[j] = Step(ids2[i], b)
    BY <1>12 DEF Reached
  <2>1. CASE j = m + 1
    <3>1. calls[n].id \in 1..(j - 1) /\ calls[n].id \in 1..m BY <1>2, <1>7, <1>8, <2>1
    <3> QED BY <1>5, <1>12, <2>1, <3>1
  <2>2. CASE j # m + 1
    <3>1. j \in 2..m /\ j \in 1..m /\ \A i \in 1..(j - 1) : i \in 1..m BY <1>8, <2>2
    <3>2. PICK i \in 1..(j - 1) : \E b \in Taken(e, ids[i]) : ids[j] = Step(ids[i], b)
      BY <1>7, <3>1 DEF Explored, Reached
    <3> QED BY <1>12, <3>1, <3>2
  <2> QED BY <2>1, <2>2
<1>28. Explored(e, ids2, arcs2, gone2, calls2)
  BY <1>21, <1>22, <1>23, <1>24, <1>25, <1>26, <1>27 DEF Explored
<1> QED BY <1>7, <1>9, <1>11, <1>28

(* the top call followed arc a to dst, which was known *)
Follows(e, ids, arcs, gone, calls, n, top, a, dst, rest, arcs2, calls2, c2, b0) ==
  /\ Explored(e, ids, arcs, gone, calls)
  /\ n = Len(calls) /\ n \in 1..n /\ top = calls[n].id /\ top \in 1..Len(ids)
  /\ a \in Taken(e, ids[top]) /\ dst \in 1..Len(ids) /\ ids[dst] = Step(ids[top], a)
  /\ \A z : z \in Range(calls[n].todo) <=> z = a \/ z \in Range(rest)
  /\ c2.id = top /\ c2.todo = rest /\ (c2.dead <=> calls[n].dead /\ gone[dst])
  /\ calls2 \in Seq(Call) /\ Len(calls2) = n /\ calls2[n] = c2
  /\ \A k \in 1..n : k # n => calls2[k] = calls[k]
  /\ b0.dest = dst /\ b0.arc = a
  /\ arcs2 \in Seq(Seq(NodeArc)) /\ Len(arcs2) = Len(ids)
  /\ \A k \in 1..Len(ids) : k # top => arcs2[k] = arcs[k]
  /\ \A b : b \in Range(arcs2[top]) <=> b \in Range(arcs[top]) \/ (b = b0 /\ ~gone[dst])

LEMMA ExploredFollowed ==
  ASSUME NEW e, NEW ids, NEW arcs, NEW gone, NEW calls, NEW n, NEW top, NEW a, NEW dst, NEW rest,
         NEW arcs2, NEW calls2, NEW c2, NEW b0,
         Follows(e, ids, arcs, gone, calls, n, top, a, dst, rest, arcs2, calls2, c2, b0)
  PROVE  Explored(e, ids, arcs2, gone, calls2)
<1> USE DEF Follows
<1>1. PICK c, t : c = calls[n] /\ t = c.todo OBVIOUS
<1>2. \A s \in 1..n : calls2[s].id = calls[s].id OBVIOUS
<1>3. Sized(ids, arcs2, gone, calls2) BY DEF Explored, Sized
<1>4. CallsRight(e, ids, calls2)
  <2>1. \A s \in 1..n : /\ calls[s].id \in 1..Len(ids) /\ Range(calls[s].todo) \subseteq Taken(e, ids[calls[s].id])
    BY DEF Explored, CallsRight
  <2>2. \A s, u \in 1..n : calls[s].id = calls[u].id => s = u BY DEF Explored, CallsRight
  <2>4. ASSUME NEW s \in 1..n PROVE Range(calls2[s].todo) \subseteq Taken(e, ids[calls2[s].id])
    <3>1. CASE s = n
      <4>1. Range(t) \subseteq Taken(e, ids[top]) BY <1>1, <2>1
      <4>2. calls2[s].todo = rest /\ calls2[s].id = top BY <3>1
      <4>3. Range(rest) \subseteq Range(t) BY <1>1
      <4> QED BY <4>1, <4>2, <4>3
    <3>2. CASE s # n BY <2>1, <3>2
    <3> QED BY <3>1, <3>2
  <2>5. \A s \in 1..n : calls2[s].id \in 1..Len(ids) BY <2>1, <1>2
  <2>6. \A s, u \in 1..n : calls2[s].id = calls2[u].id => s = u BY <2>2, <1>2
  <2> QED BY <2>4, <2>5, <2>6 DEF CallsRight
<1>5. ArcsRight(e, ids, arcs2)
  <2> SUFFICES ASSUME NEW j \in 1..Len(ids), NEW b \in Range(arcs2[j])
               PROVE  b.dest \in 1..Len(ids) /\ b.arc \in Taken(e, ids[j]) /\ ids[b.dest] = Step(ids[j], b.arc)
    BY DEF ArcsRight
  <2>1. CASE j = top /\ b = b0 BY <2>1
  <2>2. CASE ~(j = top /\ b = b0)
    <3>1. b \in Range(arcs[j]) BY <2>2
    <3> QED BY <3>1 DEF Explored, ArcsRight
  <2> QED BY <2>1, <2>2
<1>6. AllFollowed(e, ids, arcs2, gone, calls2)
  <2> SUFFICES ASSUME NEW j \in 1..Len(ids), NEW b \in Taken(e, ids[j])
               PROVE  \/ ToGone(ids, gone, ids[j], b)
                      \/ \E x \in Range(arcs2[j]) : x.arc = b
                      \/ \E s \in 1..n : calls2[s].id = j /\ b \in Range(calls2[s].todo)
    BY DEF AllFollowed
  <2>1. \/ ToGone(ids, gone, ids[j], b)
        \/ \E x \in Range(arcs[j]) : x.arc = b
        \/ \E s \in 1..n : calls[s].id = j /\ b \in Range(calls[s].todo)
    BY ZenonT(60) DEF Explored, AllFollowed
  <2>2. CASE \E x \in Range(arcs[j]) : x.arc = b
    <3>1. PICK x \in Range(arcs[j]) : x.arc = b BY <2>2
    <3>2. x \in Range(arcs2[j]) BY <3>1
    <3> QED BY <3>1, <3>2
  <2>3. CASE \E s \in 1..n : calls[s].id = j /\ b \in Range(calls[s].todo)
    <3>1. PICK s \in 1..n : calls[s].id = j /\ b \in Range(calls[s].todo) BY <2>3
    <3>2. CASE s # n BY <3>1, <3>2
    <3>3. CASE s = n /\ b \in Range(rest) BY <1>1, <3>1, <3>3
    <3>4. CASE s = n /\ b = a /\ gone[dst]
      <4>1. j = top BY <1>1, <3>1, <3>4
      <4>2. ToGone(ids, gone, ids[j], b) BY <3>4, <4>1 DEF ToGone
      <4> QED BY <4>2
    <3>5. CASE s = n /\ b = a /\ ~gone[dst]
      <4>1. j = top BY <1>1, <3>1, <3>5
      <4>2. b0 \in Range(arcs2[j]) /\ b0.arc = b BY <3>5, <4>1
      <4> QED BY <4>2
    <3> QED BY <1>1, <3>1, <3>2, <3>3, <3>4, <3>5
  <2> QED BY <2>1, <2>2, <2>3
<1>7. GoneDead(e, ids, gone, calls2)
  <2> SUFFICES ASSUME NEW j \in 1..Len(ids), gone[j]
               PROVE  /\ ids[j] # GoalOf(e)
                      /\ \A b \in Taken(e, ids[j]) : ToGone(ids, gone, ids[j], b)
                      /\ \A s \in 1..n : calls2[s].id # j
    BY DEF GoneDead
  <2>1. /\ ids[j] # GoalOf(e)
        /\ \A b \in Taken(e, ids[j]) : ToGone(ids, gone, ids[j], b)
        /\ \A s \in 1..n : calls[s].id # j
    BY DEF Explored, GoneDead
  <2> QED BY <1>2, <2>1
<1>8. CallsDead(e, ids, gone, calls2)
  <2> SUFFICES ASSUME NEW s \in 1..n, calls2[s].dead
               PROVE  /\ ids[calls2[s].id] # GoalOf(e)
                      /\ \A b \in Taken(e, ids[calls2[s].id]) :
                           b \in Range(calls2[s].todo) \/ ToGone(ids, gone, ids[calls2[s].id], b)
    BY DEF CallsDead
  <2>1. CASE s # n BY <2>1 DEF Explored, CallsDead
  <2>2. CASE s = n
    <3>1. c.dead /\ gone[dst] BY <1>1, <2>2
    <3>2. /\ ids[top] # GoalOf(e)
          /\ \A b \in Taken(e, ids[top]) : b \in Range(t) \/ ToGone(ids, gone, ids[top], b)
      BY <1>1, <3>1 DEF Explored, CallsDead
    <3>3. ToGone(ids, gone, ids[top], a) BY <3>1 DEF ToGone
    <3>4. calls2[s].id = top /\ calls2[s].todo = rest BY <2>2
    <3>5. \A z : z \in Range(t) <=> z = a \/ z \in Range(rest) BY <1>1
    <3> QED BY <3>2, <3>3, <3>4, <3>5
  <2> QED BY <2>1, <2>2
<1>9. Reached(e, ids) BY DEF Explored
<1> QED BY <1>3, <1>4, <1>5, <1>6, <1>7, <1>8, <1>9 DEF Explored

(* as AddArc says it *)
AddsArc(e, ids, arcs, gone, calls, n, a, dst, arcs2, calls2, c2, b0, r2) ==
  /\ Explored(e, ids, arcs, gone, calls)
  /\ n = Len(calls) /\ calls # <<>> /\ calls[n].todo # <<>> /\ a = Head(calls[n].todo)
  /\ dst \in 1..Len(ids) /\ ids[dst] = Step(ids[calls[n].id], a)
  /\ b0 = [dest |-> dst, arc |-> a] /\ r2 = Append(arcs[calls[n].id], b0)
  /\ gone[dst] => arcs2 = arcs
  /\ ~gone[dst] => arcs2 = [arcs EXCEPT ![calls[n].id] = r2]
  /\ c2 \in Call /\ c2.id = calls[n].id /\ c2.todo = Tail(calls[n].todo)
  /\ c2.dead <=> calls[n].dead /\ gone[dst]
  /\ calls2 = [calls EXCEPT ![n] = c2]

LEMMA ExploredKnownPlace ==
  ASSUME IsTask(task), NEW e, NEW ids, NEW arcs, NEW gone, NEW calls, NEW n, NEW a, NEW dst,
         NEW arcs2, NEW calls2, NEW c2, NEW b0, NEW r2,
         AddsArc(e, ids, arcs, gone, calls, n, a, dst, arcs2, calls2, c2, b0, r2)
  PROVE  Explored(e, ids, arcs2, gone, calls2)
<1> USE DEF AddsArc
<1>1. /\ ids \in Seq(Place) /\ arcs \in Seq(Seq(NodeArc)) /\ gone \in Seq(BOOLEAN) /\ calls \in Seq(Call)
      /\ Len(arcs) = Len(ids) /\ Len(gone) = Len(ids) /\ Len(ids) >= 1 /\ ids[1] = Begun
      /\ \A i, j \in 1..Len(ids) : ids[i] = ids[j] => i = j
  BY DEF Explored, Sized
<1>2. n \in Nat /\ n \in 1..n /\ calls[n] \in Call /\ calls[n].id \in 1..Len(ids)
  <2>1. n \in Nat /\ n # 0 BY <1>1
  <2> QED BY <1>1, <2>1 DEF Explored, CallsRight
<1>3. PICK c, t, top : c = calls[n] /\ t = c.todo /\ top = c.id OBVIOUS
<1>4. t \in Seq(Acts) /\ t # <<>> /\ top \in 1..Len(ids) BY <1>2, <1>3 DEF Call
<1>5. /\ a \in Range(t) /\ a \in Acts /\ Tail(t) \in Seq(Acts)
      /\ \A z : z \in Range(t) <=> z = a \/ z \in Range(Tail(t))
  <2>1. a = Head(t) BY <1>3
  <2> QED BY <1>4, <2>1, HeadAndTail
<1>6. a \in Taken(e, ids[top]) /\ ids[dst] = Step(ids[top], a)
  BY <1>2, <1>3, <1>5 DEF Explored, CallsRight
<1>7. PICK m : m = Len(ids) OBVIOUS
<1>8. m \in Nat /\ dst \in 1..m /\ dst \in Nat /\ top \in 1..m BY <1>1, <1>4, <1>7
<1>9. c2.id = top /\ c2.todo = Tail(t) BY <1>3
<1>10. /\ calls2 \in Seq(Call) /\ Len(calls2) = n /\ calls2[n] = c2
       /\ \A k \in 1..n : k # n => calls2[k] = calls[k]
  BY <1>1, <1>2, Replaced
<1>11. b0 \in NodeArc /\ b0.dest = dst /\ b0.arc = a BY <1>5, <1>8 DEF NodeArc
<1>12. /\ arcs2 \in Seq(Seq(NodeArc)) /\ Len(arcs2) = m
       /\ \A k \in 1..m : k # top => arcs2[k] = arcs[k]
       /\ \A b : b \in Range(arcs2[top]) <=> b \in Range(arcs[top]) \/ (b = b0 /\ ~gone[dst])
  <2>1. CASE gone[dst] BY <1>1, <1>7, <2>1
  <2>2. CASE ~gone[dst]
    <3>1. PICK r : r = arcs[top] OBVIOUS
    <3>2. r \in Seq(NodeArc) BY <1>1, <1>7, <1>8, <3>1
    <3>3. r2 = Append(r, b0) BY <1>3, <3>1
    <3>4. r2 \in Seq(NodeArc) /\ \A z : z \in Range(r2) <=> z \in Range(r) \/ z = b0
      <4>1. /\ Append(r, b0) \in Seq(NodeArc)
            /\ \A z : z \in Range(Append(r, b0)) <=> z \in Range(r) \/ z = b0
        BY <1>11, <3>2, Longer
      <4> QED BY <3>3, <4>1
    <3>5. arcs2 = [arcs EXCEPT ![top] = r2] BY <1>3, <2>2
    <3>6. arcs2 \in Seq(Seq(NodeArc)) /\ Len(arcs2) = m /\ arcs2[top] = r2
          /\ \A k \in 1..m : k # top => arcs2[k] = arcs[k]
      <4>1. PICK q : q = arcs2 OBVIOUS
      <4>2. PICK y : y = r2 OBVIOUS
      <4>3. arcs \in Seq(Seq(NodeArc)) /\ top \in 1..Len(arcs) /\ y \in Seq(NodeArc)
        BY <1>1, <1>7, <1>8, <3>4, <4>2
      <4>4. q = [arcs EXCEPT ![top] = y] BY <3>5, <4>1, <4>2
      <4>5. /\ q \in Seq(Seq(NodeArc)) /\ Len(q) = Len(arcs) /\ q[top] = y
            /\ \A k \in 1..Len(arcs) : k # top => q[k] = arcs[k]
        BY ONLY <4>3, <4>4, Replaced
      <4>6. Len(arcs) = m BY <1>1, <1>7
      <4> QED BY ONLY <4>1, <4>2, <4>5, <4>6
    <3> QED BY <2>2, <3>1, <3>4, <3>6
  <2> QED BY <2>1, <2>2
<1>13. top = calls[n].id BY <1>3
<1>14. \A z : z \in Range(calls[n].todo) <=> z = a \/ z \in Range(Tail(t)) BY <1>3, <1>5
<1>15. Follows(e, ids, arcs, gone, calls, n, top, a, dst, Tail(t), arcs2, calls2, c2, b0)
  BY <1>2, <1>4, <1>6, <1>7, <1>8, <1>9, <1>10, <1>11, <1>12, <1>13, <1>14 DEF Follows
<1> QED BY <1>15, ExploredFollowed

LEMMA ExploredReturn ==
  ASSUME NEW e, NEW ids, NEW arcs, NEW gone, NEW calls, NEW n,
         Explored(e, ids, arcs, gone, calls),
         n = Len(calls), calls # <<>>, calls[n].todo = <<>>
  PROVE  Explored(e, ids, arcs, [gone EXCEPT ![calls[n].id] = calls[n].dead], Front(calls))
<1>1. /\ ids \in Seq(Place) /\ arcs \in Seq(Seq(NodeArc)) /\ gone \in Seq(BOOLEAN) /\ calls \in Seq(Call)
      /\ Len(arcs) = Len(ids) /\ Len(gone) = Len(ids) /\ Len(ids) >= 1 /\ ids[1] = Begun
      /\ \A i, j \in 1..Len(ids) : ids[i] = ids[j] => i = j
  BY DEF Explored, Sized
<1>2. n \in Nat /\ n \in 1..n /\ calls[n] \in Call /\ calls[n].id \in 1..Len(ids)
  <2>1. n \in Nat /\ n # 0 BY <1>1
  <2> QED BY <1>1, <2>1 DEF Explored, CallsRight
<1>3. PICK c, top : c = calls[n] /\ top = c.id OBVIOUS
<1>4. PICK m : m = Len(ids) OBVIOUS
<1>5. m \in Nat /\ top \in 1..m /\ c.dead \in BOOLEAN BY <1>1, <1>2, <1>3, <1>4 DEF Call
<1>6. PICK gone2, calls2 : gone2 = [gone EXCEPT ![top] = c.dead] /\ calls2 = Front(calls) OBVIOUS
<1>7. /\ gone2 \in Seq(BOOLEAN) /\ Len(gone2) = m /\ gone2[top] = c.dead
      /\ \A k \in 1..m : k # top => gone2[k] = gone[k]
  BY <1>1, <1>4, <1>5, <1>6
<1>8. /\ calls2 \in Seq(Call) /\ Len(calls2) = n - 1
      /\ \A k \in 1..(n - 1) : calls2[k] = calls[k] /\ k \in 1..n /\ k # n
  <2>1. /\ calls2 \in Seq(Call) /\ Len(calls2) = n - 1 /\ \A k \in 1..(n - 1) : calls2[k] = calls[k]
    BY SMTT(30), <1>1, <1>2, <1>6 DEF Front
  <2> QED BY <1>2, <2>1
<1>9. ~gone[top] BY <1>2, <1>3, <1>4, <1>5 DEF Explored, GoneDead
<1>10. ASSUME NEW k \in 1..m, gone[k] PROVE gone2[k] BY <1>7, <1>9, <1>10
<1>11. ASSUME NEW r, NEW b, ToGone(ids, gone, r, b) PROVE ToGone(ids, gone2, r, b)
  BY <1>4, <1>10, <1>11 DEF ToGone
<1>12. \A b : b \notin Range(c.todo)
  <2>1. \A k : k \notin DOMAIN (<<>>) OBVIOUS
  <2> QED BY <1>3, <2>1 DEF Range
<1>13. Sized(ids, arcs, gone2, calls2) BY <1>1, <1>4, <1>7, <1>8 DEF Sized
<1>14. \A s, u \in 1..n : calls[s].id = calls[u].id => s = u BY DEF Explored, CallsRight
<1>15. CallsRight(e, ids, calls2)
  <2>1. \A s \in 1..n : /\ calls[s].id \in 1..m /\ Range(calls[s].todo) \subseteq Taken(e, ids[calls[s].id])
    BY <1>4 DEF Explored, CallsRight
  <2> QED BY <1>4, <1>8, <1>14, <2>1 DEF CallsRight
<1>16. ArcsRight(e, ids, arcs) BY DEF Explored
<1>17. AllFollowed(e, ids, arcs, gone2, calls2)
  <2> SUFFICES ASSUME NEW j \in 1..m, NEW b \in Taken(e, ids[j])
               PROVE  \/ ToGone(ids, gone2, ids[j], b)
                      \/ \E x \in Range(arcs[j]) : x.arc = b
                      \/ \E s \in 1..(n - 1) : calls2[s].id = j /\ b \in Range(calls2[s].todo)
    BY <1>4, <1>8 DEF AllFollowed
  <2>1. \/ ToGone(ids, gone, ids[j], b)
        \/ \E x \in Range(arcs[j]) : x.arc = b
        \/ \E s \in 1..n : calls[s].id = j /\ b \in Range(calls[s].todo)
    BY <1>4 DEF Explored, AllFollowed
  <2>2. CASE \E s \in 1..n : calls[s].id = j /\ b \in Range(calls[s].todo)
    <3>1. PICK s \in 1..n : calls[s].id = j /\ b \in Range(calls[s].todo) BY <2>2
    <3>2. s # n BY <1>3, <1>12, <3>1
    <3>3. s \in 1..(n - 1) BY <1>2, <3>2
    <3> QED BY <1>8, <3>1, <3>3
  <2> QED BY <1>11, <2>1, <2>2
<1>18. GoneDead(e, ids, gone2, calls2)
  <2> SUFFICES ASSUME NEW j \in 1..m, gone2[j]
               PROVE  /\ ids[j] # GoalOf(e)
                      /\ \A b \in Taken(e, ids[j]) : ToGone(ids, gone2, ids[j], b)
                      /\ \A s \in 1..(n - 1) : calls2[s].id # j
    BY <1>4, <1>8 DEF GoneDead
  <2>1. CASE j = top
    <3>1. c.dead BY <1>7, <2>1
    <3>2. /\ ids[top] # GoalOf(e)
          /\ \A b \in Taken(e, ids[top]) : b \in Range(c.todo) \/ ToGone(ids, gone, ids[top], b)
      BY <1>2, <1>3, <3>1 DEF Explored, CallsDead
    <3>3. \A s \in 1..(n - 1) : calls2[s].id # top BY <1>2, <1>3, <1>8, <1>14
    <3> QED BY <1>11, <1>12, <2>1, <3>2, <3>3
  <2>2. CASE j # top
    <3>1. gone[j] BY <1>7, <2>2
    <3>2. /\ ids[j] # GoalOf(e)
          /\ \A b \in Taken(e, ids[j]) : ToGone(ids, gone, ids[j], b)
          /\ \A s \in 1..n : calls[s].id # j
      BY <1>4, <3>1 DEF Explored, GoneDead
    <3> QED BY <1>8, <1>11, <3>2
  <2> QED BY <2>1, <2>2
<1>19. CallsDead(e, ids, gone2, calls2)
  <2> SUFFICES ASSUME NEW s \in 1..(n - 1), calls2[s].dead
               PROVE  /\ ids[calls2[s].id] # GoalOf(e)
                      /\ \A b \in Taken(e, ids[calls2[s].id]) :
                           b \in Range(calls2[s].todo) \/ ToGone(ids, gone2, ids[calls2[s].id], b)
    BY <1>8 DEF CallsDead
  <2>1. calls2[s] = calls[s] /\ s \in 1..n /\ calls[s].dead BY <1>8
  <2>2. /\ ids[calls[s].id] # GoalOf(e)
        /\ \A b \in Taken(e, ids[calls[s].id]) :
             b \in Range(calls[s].todo) \/ ToGone(ids, gone, ids[calls[s].id], b)
    BY <2>1 DEF Explored, CallsDead
  <2> QED BY <1>11, <2>1, <2>2
<1>20. Reached(e, ids) BY DEF Explored
<1>21. Explored(e, ids, arcs, gone2, calls2)
  BY <1>13, <1>15, <1>16, <1>17, <1>18, <1>19, <1>20 DEF Explored
<1> QED BY <1>3, <1>6, <1>21

-----------------------------------------------------------------------------
(* compute: what is left when derive has returned *)

WalksGive == \A e : \A k \in Nat :
  \E w : /\ IsWalks(e, k, w)
         /\ Accepting(e, k) = {p.path : p \in {q \in UNION {w[i] : i \in 0..k} : q.at = GoalOf(e)}}

LEMMA WalksAlwaysGive == WalksGive
BY AcceptingDef DEF WalksGive

LEMMA AcceptingStays ==
  ASSUME task' = task, NEW e, NEW k \in Nat
  PROVE  Accepting(e, k)' = Accepting(e, k)
<1>1. PICK w : /\ IsWalks(e, k, w)
               /\ Accepting(e, k) = {p.path : p \in {q \in UNION {w[i] : i \in 0..k} : q.at = GoalOf(e)}}
  BY AcceptingDef
<1>2. WalksGive' BY WalksAlwaysGive, PTL
<1>3. PICK v : /\ IsWalks(e, k, v)'
               /\ Accepting(e, k)' = {p.path : p \in {q \in UNION {v[i] : i \in 0..k} : q.at = GoalOf(e)'}}
  BY <1>2 DEF WalksGive
<1>4. GoalOf(e)' = GoalOf(e) BY DEF GoalOf
<1>5. ASSUME NEW p PROVE WalkStep(e, p)' = WalkStep(e, p)
  <2>1. ArcsFrom(e, p.at)' = ArcsFrom(e, p.at)
    <3>1. ASSUME NEW q PROVE ArcsFrom(e, q)' = ArcsFrom(e, q) BY DEF ArcsFrom, Index
    <3> QED BY <3>1
  <2>2. ASSUME NEW a PROVE Step(p.at, a)' = Step(p.at, a) BY DEF Step
  <2> QED BY <2>1, <2>2 DEF WalkStep
<1> DEFINE V == {i \in Nat : i \in 0..k => v[i] = w[i]}
<1>6. 0 \in V BY <1>1, <1>3 DEF IsWalks
<1>7. ASSUME NEW i \in Nat, i \in V PROVE i + 1 \in V
  <2> SUFFICES ASSUME i + 1 \in 0..k PROVE v[i + 1] = w[i + 1] OBVIOUS
  <2>1. i + 1 # 0 /\ (i + 1) - 1 = i /\ i \in 0..k OBVIOUS
  <2>2. v[i] = w[i] BY <1>7, <2>1
  <2>3. w[i + 1] = UNION {WalkStep(e, p) : p \in w[i]} BY <1>1, <2>1 DEF IsWalks
  <2>4. v[i + 1] = UNION {WalkStep(e, p)' : p \in v[i]} BY <1>3, <2>1 DEF IsWalks
  <2> QED BY <1>5, <2>2, <2>3, <2>4
<1>8. \A i \in 0..k : v[i] = w[i]
  <2>1. \A i \in Nat : i \in V
    <3> HIDE DEF V
    <3> QED BY NatSetInduction, <1>6, <1>7
  <2> QED BY <2>1
<1>9. UNION {v[i] : i \in 0..k} = UNION {w[i] : i \in 0..k} BY <1>8
<1> QED BY <1>1, <1>3, <1>4, <1>9

LEMMA FoundNotGone ==
  ASSUME IsTask(task), NEW e, NEW ids, NEW arcs, NEW gone, Explored(e, ids, arcs, gone, <<>>),
         NEW fin \in 1..Len(ids), ids[fin] = GoalOf(e)
  PROVE  ~gone[1]
<1> SUFFICES ASSUME gone[1] PROVE FALSE OBVIOUS
<1>1. /\ Len(ids) \in Nat /\ Len(ids) >= 1 /\ \A i, j \in 1..Len(ids) : ids[i] = ids[j] => i = j
  BY DEF Explored, Sized
<1> DEFINE V == {j \in Nat : \A i \in 1..j : i \in 1..Len(ids) => gone[i]}
<1>2. 0 \in V BY SMT
<1>3. ASSUME NEW j \in Nat, j \in V PROVE j + 1 \in V
  <2> SUFFICES ASSUME NEW i \in 1..(j + 1), i \in 1..Len(ids) PROVE gone[i] OBVIOUS
  <2>1. CASE i = 1 BY <2>1
  <2>2. CASE i # 1
    <3>1. i \in 2..Len(ids) /\ \A h \in 1..(i - 1) : h \in 1..j /\ h \in 1..Len(ids) BY <1>1, <2>2
    <3>2. PICK h \in 1..(i - 1) : \E a \in Taken(e, ids[h]) : ids[i] = Step(ids[h], a)
      BY <3>1 DEF Explored, Reached
    <3>3. PICK a \in Taken(e, ids[h]) : ids[i] = Step(ids[h], a) BY <3>2
    <3>4. gone[h] BY <1>3, <3>1
    <3>5. ToGone(ids, gone, ids[h], a) BY <3>1, <3>3, <3>4 DEF Explored, GoneDead
    <3> QED BY <1>1, <3>3, <3>5 DEF ToGone
  <2> QED BY <2>1, <2>2
<1>4. \A j \in Nat : j \in V
  <2> HIDE DEF V
  <2> QED BY NatSetInduction, <1>2, <1>3
<1>5. gone[fin] BY <1>1, <1>4
<1> QED BY <1>5 DEF Explored, GoneDead

(* prune keeps what is not gone, and the arcs among it, under new numbers *)
IsPruned(S, K) ==
  /\ \A n \in 1..Len(g) : Pruned.new[n] = Rank(S, n)
  /\ \A m \in 1..Len(K) : \A b :
       b \in Range(Pruned.g[m])
         <=> \E c \in Range(g[K[m]]) : ~remove[c.dest] /\ b = [dest |-> Rank(S, c.dest), arc |-> c.arc]

LEMMA PrunedFacts ==
  ASSUME g \in Seq(Seq(NodeArc)),
         \A n \in 1..Len(g) : \A b \in Range(g[n]) : b.dest \in 1..Len(g),
         NEW S, S = {n \in 1..Len(g) : ~remove[n]},
         NEW K, K = Kept(S, Len(g))
  PROVE  IsPruned(S, K)
<1>1. Len(g) \in Nat /\ DOMAIN g = 1..Len(g) OBVIOUS
<1>2. K \in Seq(S)
  <2>1. S \subseteq 1..Len(g) OBVIOUS
  <2> QED BY <1>1, <2>1, KeptNumbers DEF IsNumbering
<1>3. DOMAIN K = 1..Len(K) /\ \A m \in 1..Len(K) : K[m] \in S
  <2>1. PICK h : h = K OBVIOUS
  <2>2. h \in Seq(S) BY <1>2, <2>1
  <2>3. DOMAIN h = 1..Len(h) /\ \A m \in 1..Len(h) : h[m] \in S BY <2>2, SeqFacts
  <2> QED BY <2>1, <2>3
<1> DEFINE new(n) == Cardinality({k \in 1..n : ~remove[k]})
           arcs(n) == Among(g[n], {a \in Range(g[n]) : ~remove[a.dest]})
           renamed(n) == [j \in DOMAIN arcs(n) |-> [arcs(n)[j] EXCEPT !.dest = new(@)]]
           Renames(n, b) ==
             \E c \in Range(g[n]) : ~remove[c.dest] /\ b = [dest |-> Rank(S, c.dest), arc |-> c.arc]
<1>4. ASSUME NEW n \in 1..Len(g) PROVE new(n) = Rank(S, n)
  <2>1. \A k \in 1..n : k \in 1..Len(g) BY <1>1
  <2>2. {k \in 1..n : ~remove[k]} = {k \in 1..n : k \in S} BY <2>1
  <2> QED BY <2>2 DEF Rank
<1>5. Pruned = [g |-> [j \in DOMAIN K |-> renamed(K[j])], new |-> [n \in DOMAIN g |-> new(n)]]
  BY <1>1 DEF Pruned, Kept
<1>6. ASSUME NEW n \in 1..Len(g), NEW b
      PROVE  b \in Range(renamed(n)) <=> Renames(n, b)
  <2>1. PICK s : s = g[n] OBVIOUS
  <2>2. s \in Seq(NodeArc) /\ DOMAIN s = 1..Len(s) BY <1>1, <2>1
  <2>3. PICK u : u = arcs(n) OBVIOUS
  <2>4. PICK left : left = {a \in Range(s) : ~remove[a.dest]} OBVIOUS
  <2>5. u \in Seq(NodeArc) /\ \A x : x \in Range(u) <=> x \in left /\ x \in Range(s)
    <3>1. u = Among(s, left) BY <2>1, <2>3, <2>4
    <3>2. Among(s, left) \in Seq(NodeArc) /\ \A x : x \in Range(Among(s, left)) <=> x \in left /\ x \in Range(s)
      BY <2>2, AmongFacts
    <3> QED BY <3>1, <3>2
  <2>6. \A x : (\E k \in DOMAIN u : u[k] = x) <=> x \in Range(s) /\ ~remove[x.dest]
    <3>1. \A x : x \in Range(u) <=> \E k \in DOMAIN u : u[k] = x BY DEF Range
    <3> QED BY <2>4, <2>5, <3>1
  <2>7. PICK r : r = renamed(n) OBVIOUS
  <2>8. DOMAIN r = DOMAIN u /\ \A k \in DOMAIN u : r[k] = [u[k] EXCEPT !.dest = new(@)]
    BY <2>3, <2>7
  <2>9. ASSUME NEW k \in DOMAIN u
        PROVE  r[k] = [dest |-> Rank(S, u[k].dest), arc |-> u[k].arc]
    <3>1. PICK c : c = u[k] OBVIOUS
    <3>2. c \in NodeArc BY <2>5, <3>1
    <3>3. c = [dest |-> c.dest, arc |-> c.arc] BY <3>2 DEF NodeArc
    <3>4. c \in Range(s) BY <2>6, <3>1
    <3>5. new(c.dest) = Rank(S, c.dest) BY <1>4, <2>1, <3>4
    <3>6. r[k] = [c EXCEPT !.dest = new(c.dest)] BY <2>8, <3>1
    <3> HIDE DEF new
    <3> QED BY <3>1, <3>3, <3>5, <3>6
  <2>10. b \in Range(r) <=> \E k \in DOMAIN u : b = r[k] BY <2>8 DEF Range
  <2> HIDE DEF new, renamed, arcs
  <2>11. b \in Range(r) <=> \E c \in Range(s) : ~remove[c.dest] /\ b = [dest |-> Rank(S, c.dest), arc |-> c.arc]
    <3>1. ASSUME NEW k \in DOMAIN u, b = r[k]
          PROVE  \E c \in Range(s) : ~remove[c.dest] /\ b = [dest |-> Rank(S, c.dest), arc |-> c.arc]
      BY <2>6, <2>9, <3>1
    <3>2. ASSUME NEW c \in Range(s), ~remove[c.dest], b = [dest |-> Rank(S, c.dest), arc |-> c.arc]
          PROVE  \E k \in DOMAIN u : b = r[k]
      <4>1. PICK k \in DOMAIN u : u[k] = c BY <2>6, <3>2
      <4> QED BY <2>9, <3>2, <4>1
    <3> QED BY <2>10, <3>1, <3>2
  <2> QED BY <2>1, <2>7, <2>11
<1> HIDE DEF renamed, Renames
<1>7. ASSUME NEW n \in 1..Len(g) PROVE Pruned.new[n] = Rank(S, n)
  <2>1. Pruned.new = [j \in DOMAIN g |-> new(j)] BY <1>5
  <2>2. Pruned.new[n] = new(n) BY <1>1, <2>1
  <2> QED BY <1>4, <2>2
<1>8. ASSUME NEW m \in 1..Len(K), NEW b PROVE b \in Range(Pruned.g[m]) <=> Renames(K[m], b)
  <2>1. Pruned.g = [j \in DOMAIN K |-> renamed(K[j])] BY <1>5
  <2>2. Pruned.g[m] = renamed(K[m]) BY <1>3, <2>1
  <2>3. K[m] \in 1..Len(g) BY <1>3
  <2> QED BY <1>6, <2>2, <2>3
<1> QED BY <1>7, <1>8 DEF Renames, IsPruned

LEMMA ComputedFacts ==
  ASSUME NEW old, NEW goals, goals = {j \in DOMAIN id_of_state : id_of_state[j] = GoalOf(Example)}
  PROVE  /\ goals = {} => Computed(old).no_goal
         /\ goals # {} =>
              LET fin == CHOOSE j \in goals : TRUE
              IN  /\ ~Computed(old).no_goal /\ fin \in goals
                  /\ Computed(old).g = IF task.prune THEN Pruned.g ELSE g
                  /\ Computed(old).fin = IF task.prune THEN Pruned.new[fin] ELSE fin
<1> DEFINE fin == CHOOSE j \in goals : TRUE
<1>1. PICK x : x = [lineno |-> lineno, weight |-> Example.weight, no_goal |-> ~(goals # {}),
                    g |-> IF ~(goals # {}) THEN <<>> ELSE IF task.prune THEN Pruned.g ELSE g,
                    fin |-> IF ~(goals # {}) THEN 0 ELSE IF task.prune THEN Pruned.new[fin] ELSE fin,
                    reverse_order |-> old]
  OBVIOUS
<1>2. Computed(old) = IF goals # {} /\ cache_backward THEN make_order(x) ELSE x
  BY <1>1 DEF Computed
<1>3. goals # {} => fin \in goals OBVIOUS
<1> HIDE DEF fin
<1>4. make_order(x).g = x.g /\ make_order(x).fin = x.fin /\ make_order(x).no_goal = x.no_goal
  <2>1. PICK o : o = x.reverse_order \o OrderFrom(x.g, 1) OBVIOUS
  <2>2. make_order(x) = [x EXCEPT !.reverse_order = o] BY <2>1 DEF make_order
  <2> QED BY <1>1, <2>2
<1>5. Computed(old).g = x.g /\ Computed(old).fin = x.fin /\ Computed(old).no_goal = x.no_goal
  BY <1>2, <1>4
<1>6. /\ goals = {} => x.no_goal
      /\ goals # {} => /\ ~x.no_goal
                       /\ x.g = IF task.prune THEN Pruned.g ELSE g
                       /\ x.fin = IF task.prune THEN Pruned.new[fin] ELSE fin
  BY <1>1
<1> QED BY <1>3, <1>5, <1>6 DEF fin

LEMMA ComputedHoldsAll ==
  ASSUME IsTask(task), NEW k \in Nat, NEW old, Explored(Example, id_of_state, g, remove, <<>>)
  PROVE  PathsOf(Computed(old), k) = Accepting(Example, k)
<1>1. PICK e, ids, gone, x : e = Example /\ ids = id_of_state /\ gone = remove /\ x = Computed(old)
  OBVIOUS
<1>2. Explored(e, ids, g, gone, <<>>) BY <1>1
<1>3. PICK N : N = Len(ids) OBVIOUS
<1>4. /\ N \in Nat /\ N >= 1 /\ DOMAIN ids = 1..N /\ ids[1] = Begun
      /\ g \in Seq(Seq(NodeArc)) /\ Len(g) = N
      /\ \A i, j \in 1..N : ids[i] = ids[j] => i = j
  BY <1>2, <1>3 DEF Explored, Sized
<1>5. \A j \in 1..N : \A b \in Range(g[j]) :
        b.dest \in 1..N /\ b.arc \in Taken(e, ids[j]) /\ ids[b.dest] = Step(ids[j], b.arc)
  BY <1>2, <1>3 DEF Explored, ArcsRight
<1>6. \A j \in 1..N : \A a \in Taken(e, ids[j]) :
        ToGone(ids, gone, ids[j], a) \/ \E b \in Range(g[j]) : b.arc = a
  <2>1. \A s : s \notin 1..Len(<<>>) OBVIOUS
  <2>2. AllFollowed(e, ids, g, gone, <<>>) BY <1>2 DEF Explored
  <2> QED BY <1>3, <2>1, <2>2 DEF AllFollowed
<1>7. \A j \in 1..N : gone[j] =>
        ids[j] # GoalOf(e) /\ \A a \in Taken(e, ids[j]) : ToGone(ids, gone, ids[j], a)
  BY <1>2, <1>3 DEF Explored, GoneDead
<1>8. \A q, a : ToGone(ids, gone, q, a) <=> \E i \in 1..N : ids[i] = Step(q, a) /\ gone[i]
  BY <1>3 DEF ToGone
<1>9. PICK goals : goals = {j \in DOMAIN id_of_state : id_of_state[j] = GoalOf(Example)} OBVIOUS
<1>10. \A j : j \in goals <=> j \in 1..N /\ ids[j] = GoalOf(e) BY <1>1, <1>4, <1>9
<1>11. CASE goals = {}
  <2>1. x.no_goal BY <1>1, <1>9, <1>11, ComputedFacts
  <2>2. PathsOf(x, k) = {}
    <3>1. PICK w : PathsOf(x, k) = IF x.no_goal THEN {}
                                   ELSE {p.path : p \in {q \in UNION {w[i] : i \in 0..k} : q.at = x.fin}}
      BY PathsOfDef
    <3> QED BY <2>1, <3>1
  <2> DEFINE Places == {ids[j] : j \in 1..N}
  <2>3. Begun \in Places
    <3>1. 1 \in 1..N BY <1>4
    <3> QED BY <1>4, <3>1
  <2>4. GoalOf(e) \notin Places BY <1>10, <1>11
  <2>5. ASSUME NEW q \in Places, NEW a \in Range(ArcsFrom(e, q)) PROVE Step(q, a) \in Places
    <3>1. PICK j \in 1..N : q = ids[j] OBVIOUS
    <3>2. a \in Taken(e, ids[j]) BY <3>1 DEF Taken
    <3>3. CASE ToGone(ids, gone, ids[j], a) BY <1>8, <3>1, <3>3
    <3>4. CASE \E b \in Range(g[j]) : b.arc = a BY <1>5, <3>1, <3>4
    <3> QED BY <1>6, <3>2, <3>3, <3>4
  <2> HIDE DEF Places
  <2>6. Accepting(e, k) = {} BY <2>3, <2>4, <2>5, NoPath
  <2> QED BY <1>1, <2>2, <2>6
<1>12. CASE goals # {}
  <2>1. PICK fin : fin = CHOOSE j \in goals : TRUE OBVIOUS
  <2>2. /\ ~x.no_goal /\ fin \in goals
        /\ x.g = IF task.prune THEN Pruned.g ELSE g
        /\ x.fin = IF task.prune THEN Pruned.new[fin] ELSE fin
    BY <1>1, <1>9, <1>12, <2>1, ComputedFacts
  <2>3. fin \in 1..N /\ ids[fin] = GoalOf(e) BY <1>10, <2>2
  <2>4. PICK DeadPlaces : DeadPlaces = {ids[j] : j \in {i \in 1..N : gone[i]}} OBVIOUS
  <2>5. \A q : q \in DeadPlaces <=> \E i \in 1..N : ids[i] = q /\ gone[i] BY <2>4
  <2>6. GoalOf(e) \notin DeadPlaces BY <1>7, <2>5
  <2>7. ASSUME NEW q \in DeadPlaces, NEW a \in Range(ArcsFrom(e, q)) PROVE Step(q, a) \in DeadPlaces
    <3>1. PICK i \in 1..N : ids[i] = q /\ gone[i] BY <2>5
    <3>2. a \in Taken(e, ids[i]) BY <3>1 DEF Taken
    <3> QED BY <1>7, <1>8, <2>5, <3>1, <3>2
  <2>8. \A q, a : ToGone(ids, gone, q, a) <=> Step(q, a) \in DeadPlaces BY <1>8, <2>5
  <2>9. CASE ~task.prune
    <3>1. x.g = g /\ x.fin = fin BY <2>2, <2>9
    <3>2. GraphFits(e, x, N, ids, DeadPlaces)
      <4>1. 1 \in 1..N BY <1>4
      <4>2. \A n \in 1..N : \A a \in Range(ArcsFrom(e, ids[n])) :
              Step(ids[n], a) \in DeadPlaces \/ \E b \in Range(x.g[n]) : b.arc = a
        BY <1>6, <2>8, <3>1 DEF Taken
      <4>3. \A n \in 1..N : \A b \in Range(x.g[n]) :
              b.dest \in 1..N /\ b.arc \in Range(ArcsFrom(e, ids[n])) /\ ids[b.dest] = Step(ids[n], b.arc)
        BY <1>5, <3>1 DEF Taken
      <4> QED BY <1>4, <2>2, <2>3, <2>6, <2>7, <3>1, <4>1, <4>2, <4>3 DEF GraphFits
    <3> QED BY <1>1, <1>4, <3>2, GraphPaths
  <2>10. CASE task.prune
    <3>1. PICK S : S = {n \in 1..N : ~gone[n]} OBVIOUS
    <3>2. PICK K : K = Kept(S, N) OBVIOUS
    <3>3. /\ \A n \in 1..N : Pruned.new[n] = Rank(S, n)
          /\ \A m \in 1..Len(K) : \A b :
               b \in Range(Pruned.g[m])
                 <=> \E c \in Range(g[K[m]]) : ~gone[c.dest] /\ b = [dest |-> Rank(S, c.dest), arc |-> c.arc]
      <4>1. S = {n \in 1..Len(g) : ~remove[n]} /\ K = Kept(S, Len(g)) BY <1>1, <1>4, <3>1, <3>2
      <4>2. g \in Seq(Seq(NodeArc)) /\ \A n \in 1..Len(g) : \A b \in Range(g[n]) : b.dest \in 1..Len(g)
        BY <1>4, <1>5
      <4>3. IsPruned(S, K) BY <4>1, <4>2, PrunedFacts
      <4> QED BY <1>1, <1>4, <4>3 DEF IsPruned
    <3>4. S \subseteq 1..N /\ \A n \in 1..N : n \in S <=> ~gone[n] BY <3>1
    <3>5. /\ K \in Seq(S) /\ Len(K) = Rank(S, N)
          /\ \A n \in S : Rank(S, n) \in 1..Len(K) /\ K[Rank(S, n)] = n
          /\ \A m \in 1..Len(K) : K[m] \in S /\ Rank(S, K[m]) = m
      <4>1. IsNumbering(S, K, N) BY <1>4, <3>2, <3>4, KeptNumbers
      <4> QED BY <4>1 DEF IsNumbering
    <3>6. Len(K) \in Nat BY <3>5
    <3>7. PICK M : M = Len(K) OBVIOUS
    <3>8. PICK lab : lab = [m \in 1..M |-> ids[K[m]]] OBVIOUS
    <3>9. \A m \in 1..M : lab[m] = ids[K[m]] /\ K[m] \in 1..N /\ K[m] \in S /\ Rank(S, K[m]) = m
      BY <3>4, <3>5, <3>7, <3>8
    <3>10. \A n \in S : Rank(S, n) \in 1..M /\ K[Rank(S, n)] = n /\ lab[Rank(S, n)] = ids[n]
      BY <3>5, <3>7, <3>9
    <3>11. 1 \in S
      <4>1. ~gone[1] BY <1>2, <1>3, <2>3, FoundNotGone
      <4> QED BY <1>4, <3>4, <4>1
    <3>12. 1 \in 1..M /\ lab[1] = Begun
      <4>1. Rank(S, 0 + 1) = 1 BY <3>11, RankGrows
      <4> QED BY <1>4, <3>10, <3>11, <4>1
    <3>13. fin \in S BY <1>7, <2>3, <3>4
    <3>14. x.fin \in 1..M /\ lab[x.fin] = GoalOf(e) BY <2>2, <2>3, <2>10, <3>3, <3>10, <3>13
    <3>15. ASSUME NEW m \in 1..M, NEW n \in 1..M, lab[m] = lab[n] PROVE m = n
      <4>1. K[m] = K[n] BY <1>4, <3>9, <3>15
      <4> QED BY <3>9, <4>1
    <3>16. \A m \in 1..M : \A b :
             b \in Range(x.g[m])
               <=> \E c \in Range(g[K[m]]) : ~gone[c.dest] /\ b = [dest |-> Rank(S, c.dest), arc |-> c.arc]
      BY <2>2, <2>10, <3>3, <3>7
    <3>17. ASSUME NEW m \in 1..M, NEW b \in Range(x.g[m])
           PROVE  b.dest \in 1..M /\ b.arc \in Range(ArcsFrom(e, lab[m])) /\ lab[b.dest] = Step(lab[m], b.arc)
      <4>1. PICK c \in Range(g[K[m]]) : ~gone[c.dest] /\ b = [dest |-> Rank(S, c.dest), arc |-> c.arc]
        BY <3>16
      <4>2. c.dest \in 1..N /\ c.arc \in Taken(e, ids[K[m]]) /\ ids[c.dest] = Step(ids[K[m]], c.arc)
        BY <1>5, <3>9
      <4>3. c.dest \in S BY <3>4, <4>1, <4>2
      <4>4. b.dest = Rank(S, c.dest) /\ b.arc = c.arc BY <4>1
      <4> QED BY <3>9, <3>10, <4>2, <4>3, <4>4 DEF Taken
    <3>18. ASSUME NEW m \in 1..M, NEW a \in Range(ArcsFrom(e, lab[m])), Step(lab[m], a) \notin DeadPlaces
           PROVE  \E b \in Range(x.g[m]) : b.arc = a
      <4>1. PICK n : n = K[m] OBVIOUS
      <4>2. n \in 1..N /\ lab[m] = ids[n] BY <3>9, <4>1
      <4>3. a \in Taken(e, ids[n]) BY <4>2 DEF Taken
      <4>4. PICK c \in Range(g[n]) : c.arc = a BY <1>6, <2>8, <3>18, <4>2, <4>3
      <4>5. c.dest \in 1..N /\ ids[c.dest] = Step(ids[n], a) BY <1>5, <4>2, <4>4
      <4>6. ~gone[c.dest] BY <2>5, <3>18, <4>2, <4>5
      <4>7. PICK b : b = [dest |-> Rank(S, c.dest), arc |-> c.arc] OBVIOUS
      <4>8. b \in Range(x.g[m]) BY <3>16, <4>1, <4>4, <4>6, <4>7
      <4> QED BY <4>4, <4>7, <4>8
    <3>19. GraphFits(e, x, M, lab, DeadPlaces)
      BY <2>2, <2>6, <2>7, <3>12, <3>14, <3>15, <3>17, <3>18 DEF GraphFits
    <3> QED BY <1>1, <3>6, <3>7, <3>19, GraphPaths
  <2> QED BY <2>9, <2>10
<1> QED BY <1>11, <1>12

-----------------------------------------------------------------------------
(* The inductive invariant: while derive runs, what it explored; the rest of *)
(* CachedDerivations only says when what is computed is at hand.             *)

Derives == pc \in {"derive to keep", "derive to visit"}
AtHand == pc \in {"keep", "visit"} /\ (Cached => pc = "keep")

DerivationInv ==
  /\ task \in Tasks
  /\ pc \in {"caching", "derive to keep", "keep", "pass"} => Cached
  /\ pc \in {"uncached", "derive to visit"} => ~Cached
  /\ Derives => Explored(Example, id_of_state, g, remove, stack)
  /\ HoldsAll

LEMMA StaysHeld ==
  ASSUME HoldsAll, task' = task, lineno' = lineno, d' = d, AtHand' => AtHand
  PROVE  HoldsAll'
<1> SUFFICES ASSUME AtHand' PROVE PathsOf(d', MaxPath) = Accepting(Example, MaxPath)'
  BY DEF HoldsAll, AtHand
<1>1. PICK e : e = Example OBVIOUS
<1>2. Example' = e BY <1>1 DEF Example
<1>3. PathsOf(d, MaxPath) = Accepting(e, MaxPath) BY <1>1 DEF HoldsAll, AtHand
<1>4. MaxPath \in Nat BY CachingAssumption
<1>5. Accepting(e, MaxPath)' = Accepting(e, MaxPath) BY <1>4, AcceptingStays
<1> QED BY <1>2, <1>3, <1>5

LEMMA ExploredNext ==
  ASSUME task' = task, NEW e, e = Example', NEW ids, ids = id_of_state', NEW arcs, arcs = g',
         NEW gone, gone = remove', NEW calls, calls = stack',
         Explored(e, ids, arcs, gone, calls)
  PROVE  Explored(Example, id_of_state, g, remove, stack)'
<1>1. Explored(e, ids, arcs, gone, calls)' BY SameTask
<1> QED BY <1>1

LEMMA DeriveKeepsExplored ==
  ASSUME IsTask(task), task' = task, Explored(Example, id_of_state, g, remove, stack), Derive
  PROVE  Explored(Example, id_of_state, g, remove, stack)'
<1>1. PICK e, ids, arcs, gone, calls :
        e = Example /\ ids = id_of_state /\ arcs = g /\ gone = remove /\ calls = stack
  OBVIOUS
<1>2. Explored(e, ids, arcs, gone, calls) BY <1>1
<1>3. PICK n : n = Len(calls) OBVIOUS
<1>4. /\ ids \in Seq(Place) /\ DOMAIN ids = 1..Len(ids)
      /\ \A i, j \in 1..Len(ids) : ids[i] = ids[j] => i = j
  BY <1>2 DEF Explored, Sized
<1>5. lineno' = lineno BY DEF Derive, Descend, AddArc, Return
<1>6. e = Example' BY <1>1, <1>5 DEF Example
<1>7. \A q : q \in Known <=> \E j \in 1..Len(ids) : ids[j] = q BY <1>1, <1>4 DEF Known
<1>8. CASE Descend
  <2>1. PICK q : q = Step(ids[calls[n].id], Head(calls[n].todo)) OBVIOUS
  <2>2. calls # <<>> /\ calls[n].todo # <<>> /\ q = Next_ds
    BY <1>1, <1>3, <1>8, <2>1 DEF Descend, Top, Next_ds
  <2>3. \A j \in 1..Len(ids) : ids[j] # q BY <1>7, <1>8, <2>2 DEF Descend
  <2>4. Explored(e, Append(ids, q), Append(arcs, <<>>), Append(gone, FALSE),
                 Append(calls, Frame(e, q, Len(ids) + 1)))
    BY <1>2, <1>3, <2>1, <2>2, <2>3, ExploredNewPlace
  <2>5. /\ id_of_state' = Append(ids, q) /\ g' = Append(arcs, <<>>) /\ remove' = Append(gone, FALSE)
        /\ stack' = Append(calls, Frame(e, q, Len(ids) + 1))
    BY <1>1, <1>8, <2>2 DEF Descend, Unfinished
  <2> QED BY <1>6, <2>4, <2>5, ExploredNext
<1>9. CASE AddArc
  <2>1. PICK a : a = Head(calls[n].todo) OBVIOUS
  <2>2. /\ calls # <<>> /\ calls[n].todo # <<>> /\ Next_ds = Step(ids[calls[n].id], a)
    BY <1>1, <1>3, <1>9, <2>1 DEF AddArc, Top, Next_ds
  <2>3. PICK dst : dst = CHOOSE j \in DOMAIN id_of_state : id_of_state[j] = Next_ds OBVIOUS
  <2>4. dst \in 1..Len(ids) /\ ids[dst] = Step(ids[calls[n].id], a)
    <3>1. \E j \in DOMAIN id_of_state : id_of_state[j] = Next_ds BY <1>1, <1>4, <1>7, <1>9 DEF AddArc
    <3>2. dst \in DOMAIN id_of_state /\ id_of_state[dst] = Next_ds BY <2>3, <3>1
    <3> QED BY <1>1, <1>4, <2>2, <3>2
  <2>5. PICK b0 : b0 = [dest |-> dst, arc |-> a] OBVIOUS
  <2>6. PICK r2 : r2 = Append(arcs[calls[n].id], b0) OBVIOUS
  <2>7. PICK c2 : c2 = [calls[n] EXCEPT !.todo = Tail(@), !.dead = @ /\ gone[dst]] OBVIOUS
  <2>8. /\ g' = IF gone[dst] THEN arcs ELSE [arcs EXCEPT ![calls[n].id] = r2]
        /\ stack' = [calls EXCEPT ![n] = c2]
        /\ id_of_state' = ids /\ remove' = gone
    BY <1>1, <1>3, <1>9, <2>1, <2>3, <2>5, <2>6, <2>7 DEF AddArc, Top
  <2>9. PICK arcs2, calls2 : arcs2 = g' /\ calls2 = stack' OBVIOUS
  <2>10. calls[n] \in Call
    <3>1. calls \in Seq(Call) BY <1>2 DEF Explored, Sized
    <3>2. n \in 1..Len(calls) BY <1>3, <2>2, <3>1
    <3> QED BY <3>1, <3>2
  <2>11. /\ c2 \in Call /\ c2.id = calls[n].id /\ c2.todo = Tail(calls[n].todo)
         /\ (c2.dead <=> calls[n].dead /\ gone[dst])
    <3>1. PICK c : c = calls[n] OBVIOUS
    <3>2. c = [id |-> c.id, todo |-> c.todo, dead |-> c.dead] /\ c.id \in Nat /\ c.todo \in Seq(Acts)
      BY <2>10, <3>1 DEF Call
    <3>3. c2 = [id |-> c.id, todo |-> Tail(c.todo), dead |-> c.dead /\ gone[dst]]
      BY <2>7, <3>1, <3>2
    <3>4. c.todo # <<>> BY <2>2, <3>1
    <3>5. Tail(c.todo) \in Seq(Acts) BY <3>2, <3>4, HeadAndTail
    <3> QED BY <3>1, <3>2, <3>3, <3>5 DEF Call
  <2>12. Explored(e, ids, arcs2, gone, calls2)
    <3>1. AddsArc(e, ids, arcs, gone, calls, n, a, dst, arcs2, calls2, c2, b0, r2)
      BY <1>2, <1>3, <2>1, <2>2, <2>4, <2>5, <2>6, <2>8, <2>9, <2>11 DEF AddsArc
    <3> QED BY <3>1, ExploredKnownPlace
  <2> QED BY <1>6, <2>8, <2>9, <2>12, ExploredNext
<1>10. CASE Return
  <2>1. calls # <<>> /\ calls[n].todo = <<>> BY <1>1, <1>3, <1>10 DEF Return, Top
  <2>2. /\ remove' = [gone EXCEPT ![calls[n].id] = calls[n].dead] /\ stack' = Front(calls)
        /\ id_of_state' = ids /\ g' = arcs
    BY <1>1, <1>3, <1>10 DEF Return, Top
  <2>3. Explored(e, ids, arcs, [gone EXCEPT ![calls[n].id] = calls[n].dead], Front(calls))
    BY <1>2, <1>3, <2>1, ExploredReturn
  <2> QED BY <1>6, <2>2, <2>3, ExploredNext
<1> QED BY <1>8, <1>9, <1>10 DEF Derive

LEMMA DerivationInit == Init => DerivationInv
<1> SUFFICES ASSUME Init PROVE DerivationInv OBVIOUS
<1>1. task \in Tasks BY DEF Init, DerivingInit
<1>2. pc = IF Cached THEN "caching" ELSE "idle" BY DEF Init
<1>3. CASE Cached BY <1>1, <1>2, <1>3 DEF DerivationInv, Derives, HoldsAll
<1>4. CASE ~Cached BY <1>1, <1>2, <1>4 DEF DerivationInv, Derives, HoldsAll
<1> QED BY <1>3, <1>4

LEMMA DerivationStep == DerivationInv /\ [Next]_vars => DerivationInv'
<1> SUFFICES ASSUME DerivationInv, [Next]_vars PROVE DerivationInv' OBVIOUS
<1> USE DEF storeVars
<1>1. /\ task \in Tasks /\ IsTask(task)
      /\ pc \in {"caching", "derive to keep", "keep", "pass"} => Cached
      /\ pc \in {"uncached", "derive to visit"} => ~Cached
      /\ Derives => Explored(Example, id_of_state, g, remove, stack)
      /\ HoldsAll
  BY TasksAssumption DEF DerivationInv
<1>2. task' = task
  BY DEF Next, vars, NextExample, Deriving, Compute, Keep, mark_end, BeginPass, Advance, Visit, NoneFound,
         EndPass, Again, Block
<1>3. Cached' <=> Cached BY <1>2 DEF Cached
<1>4. ASSUME ~Derives', ~AtHand',
             pc' \in {"caching", "derive to keep", "keep", "pass"} => Cached,
             pc' \in {"uncached", "derive to visit"} => ~Cached
      PROVE  DerivationInv'
  <2>1. HoldsAll' BY <1>4 DEF HoldsAll, AtHand
  <2> QED BY <1>1, <1>2, <1>3, <1>4, <2>1 DEF DerivationInv
<1>5. CASE UNCHANGED vars
  <2>1. HoldsAll' BY <1>1, <1>5, StaysHeld DEF vars, derivingVars, AtHand, Cached
  <2>2. Derives' <=> Derives BY <1>5 DEF vars, Derives
  <2>3. Derives' => Explored(Example, id_of_state, g, remove, stack)'
    <3> SUFFICES ASSUME Derives PROVE Explored(Example, id_of_state, g, remove, stack)' BY <2>2
    <3>1. PICK e, ids, arcs, gone, calls :
            e = Example /\ ids = id_of_state /\ arcs = g /\ gone = remove /\ calls = stack
      OBVIOUS
    <3>2. Explored(e, ids, arcs, gone, calls) BY <1>1, <3>1
    <3>3. /\ e = Example' /\ ids = id_of_state' /\ arcs = g' /\ gone = remove' /\ calls = stack'
      BY <1>5, <3>1 DEF vars, derivingVars, Example
    <3> QED BY <1>2, <3>2, <3>3, ExploredNext
  <2>4. pc' = pc BY <1>5 DEF vars
  <2> QED BY <1>1, <1>2, <1>3, <2>1, <2>3, <2>4 DEF DerivationInv
<1>6. CASE NextExample
  <2>1. PICK n : n = examples[next] OBVIOUS
  <2>2. StartDeriving(n) /\ pc \in {"caching", "uncached"}
        /\ pc' = [caching |-> "derive to keep", uncached |-> "derive to visit"][pc]
    BY <1>6, <2>1 DEF NextExample
  <2>3. \/ pc = "caching" /\ pc' = "derive to keep"
        \/ pc = "uncached" /\ pc' = "derive to visit"
    <3>1. CASE pc = "caching" BY <2>2, <3>1
    <3>2. CASE pc = "uncached" BY <2>2, <3>2
    <3> QED BY <2>2, <3>1, <3>2
  <2>4. PICK e : e = task.examples[n] OBVIOUS
  <2>5. PICK ids, arcs, gone, calls :
          ids = <<Begun>> /\ arcs = << <<>> >> /\ gone = <<FALSE>> /\ calls = <<Frame(e, Begun, 1)>>
    OBVIOUS
  <2>6. /\ lineno' = n /\ id_of_state' = ids /\ g' = arcs /\ remove' = gone /\ stack' = calls
    BY <2>2, <2>4, <2>5 DEF StartDeriving, Begun
  <2>7. e = Example' BY <1>2, <2>4, <2>6 DEF Example
  <2>8. Explored(e, ids, arcs, gone, calls) BY <1>1, <2>5, ExploredAtFirst
  <2>9. Explored(Example, id_of_state, g, remove, stack)' BY <1>2, <2>6, <2>7, <2>8, ExploredNext
  <2>10. HoldsAll' BY <2>3 DEF HoldsAll
  <2> QED BY <1>1, <1>2, <1>3, <2>3, <2>9, <2>10 DEF DerivationInv
<1>7. CASE Deriving
  <2>1. Derive /\ Derives /\ pc' = pc BY <1>7 DEF Deriving, Derives
  <2>2. Explored(Example, id_of_state, g, remove, stack)' BY <1>1, <1>2, <2>1, DeriveKeepsExplored
  <2>3. HoldsAll' BY <2>1 DEF HoldsAll, Derives
  <2> QED BY <1>1, <1>2, <1>3, <2>1, <2>2, <2>3 DEF DerivationInv
<1>8. CASE Compute
  <2>1. PICK old : old = IF use_file THEN d.reverse_order ELSE <<>> OBVIOUS
  <2>2. /\ Derives /\ stack = <<>> /\ d' = Computed(old) /\ lineno' = lineno
        /\ pc' = [x \in {"derive to keep", "derive to visit"} |->
                    IF x = "derive to keep" THEN "keep" ELSE "visit"][pc]
    BY <1>8, <2>1 DEF Compute, Derives, derivingVars
  <2>3. \/ pc = "derive to keep" /\ pc' = "keep"
        \/ pc = "derive to visit" /\ pc' = "visit"
    BY <2>2 DEF Derives
  <2>4. MaxPath \in Nat BY CachingAssumption
  <2>5. PathsOf(Computed(old), MaxPath) = Accepting(Example, MaxPath)
    <3>1. Explored(Example, id_of_state, g, remove, <<>>) BY <1>1, <2>2
    <3> QED BY <1>1, <2>4, <3>1, ComputedHoldsAll
  <2>6. PICK e : e = Example OBVIOUS
  <2>7. e = Example' BY <1>2, <2>2, <2>6 DEF Example
  <2>8. Accepting(e, MaxPath)' = Accepting(e, MaxPath) BY <1>2, <2>4, AcceptingStays
  <2>9. PICK x : x = Computed(old) OBVIOUS
  <2>10. PathsOf(d', MaxPath) = Accepting(e, MaxPath) BY <2>2, <2>5, <2>6
  <2>11. HoldsAll' BY <2>7, <2>8, <2>10 DEF HoldsAll
  <2>12. ~Derives' BY <2>3 DEF Derives
  <2> QED BY <1>1, <1>2, <1>3, <2>3, <2>11, <2>12 DEF DerivationInv
<1>9. CASE Keep BY <1>1, <1>3, <1>4, <1>9 DEF Keep, Derives, AtHand
<1>10. CASE mark_end BY <1>1, <1>3, <1>4, <1>10 DEF mark_end, Derives, AtHand
<1>11. CASE BeginPass BY <1>1, <1>3, <1>4, <1>11 DEF BeginPass, Derives, AtHand
<1>12. CASE Advance BY <1>1, <1>3, <1>4, <1>12 DEF Advance, Derives, AtHand
<1>13. CASE Visit
  <2>1. \/ Cached /\ pc' = "pass"
        \/ ~Cached /\ pc' = "uncached"
    BY <1>13 DEF Visit
  <2> QED BY <1>3, <1>4, <2>1 DEF Derives, AtHand
<1>14. CASE NoneFound BY <1>1, <1>3, <1>4, <1>14 DEF NoneFound, Derives, AtHand
<1>15. CASE EndPass BY <1>1, <1>3, <1>4, <1>15 DEF EndPass, Derives, AtHand
<1>16. CASE Again BY <1>1, <1>3, <1>4, <1>16 DEF Again, Derives, AtHand
<1>17. CASE \E i \in 0..Len(store) - 1 : Block(i)
  <2>1. pc' = "block" BY <1>17 DEF Block
  <2> QED BY <1>4, <2>1 DEF Derives, AtHand
<1> QED
  BY <1>5, <1>6, <1>7, <1>8, <1>9, <1>10, <1>11, <1>12, <1>13, <1>14, <1>15, <1>16, <1>17 DEF Next

(* What init_and_compute leaves of an example holds the paths of the transducer *)
(* that read and write it, up to any length, and no others: derive follows each *)
(* arc of each place once, cuts off only what leads nowhere though cycles are   *)
(* left before that is known, and prune renumbers the rest without losing an    *)
(* arc of it.                                                                   *)
THEOREM DerivationsHoldAll == Spec => []HoldsAll
<1>1. DerivationInv => HoldsAll BY DEF DerivationInv
<1> QED BY <1>1, DerivationInit, DerivationStep, PTL DEF Spec

-----------------------------------------------------------------------------
(* The store: which example each of its records is of, and where reading      *)
(* stands                                                                     *)

Lines == 1..Len(task.examples)
Goods == {n \in Lines : Derivable(n)}
Listed == Kept(Goods, Len(task.examples))

IsDerived(x) ==
  x = [lineno |-> x.lineno, weight |-> x.weight, no_goal |-> x.no_goal, g |-> x.g, fin |-> x.fin,
       reverse_order |-> x.reverse_order]

(* the records kept so far are of the first examples that have derivations *)
StoreRight ==
  /\ examples = [j \in Lines |-> j]
  /\ next \in 1..(Len(task.examples) + 1)
  /\ store \in Seq(Range(store)) /\ Len(store) = Rank(Goods, next - 1)
  /\ \A j \in 1..Len(store) : IsDerived(store[j]) /\ store[j].lineno = Listed[j]

(* between passes and blocks: before the first record, or at one, or after the *)
(* last.  Of a file, the record before the cursor is the object at hand.       *)
StandsRight ==
  \/ current_i = Unsigned - 1
  \/ /\ use_file
     /\ current_i \in 0..(Len(store) - 1)
     /\ d.lineno = Listed[current_i + 1]
     /\ current_i < Len(store) - 1 => store_cursor = current_i + 2
  \/ /\ ~use_file
     /\ current_i \in 0..Len(store)
     /\ ~rewind_store /\ store_cursor = current_i + 1

(* in a pass that has had so many records *)
PassRight ==
  /\ visited \in 0..Len(store)
  /\ current_i = IF visited = 0 THEN Unsigned - 1 ELSE visited - 1
  /\ IF use_file THEN store_cursor = visited + 1
     ELSE IF visited = 0 THEN rewind_store ELSE ~rewind_store /\ store_cursor = visited

AtRecord ==
  /\ visited \in 1..Len(store)
  /\ IF use_file THEN d.lineno = Listed[visited] ELSE store_cursor = visited

Caching == pc \in {"caching", "derive to keep", "keep"}
Reading == pc \in {"pass", "visit", "ended", "block"}

RecallInv ==
  Cached =>
    /\ Caching \/ Reading \/ pc = "idle"
    /\ StoreRight /\ IsDerived(d) /\ used \in Nat
    /\ pc \in {"derive to keep", "keep"} => next <= Len(task.examples) /\ lineno = next
    /\ pc = "keep" => d.lineno = lineno /\ (d.no_goal <=> lineno \notin Goods)
    /\ Caching => used = 0
    /\ ~Caching => next = Len(task.examples) + 1
    /\ Reading => used > 0
    /\ used > 0 => StandsRight
    /\ pc \in {"pass", "visit"} => PassRight
    /\ pc \in {"visit", "block"} => AtRecord

(* What is taken from one place to another stays below what an unsigned holds. *)
LEMMA Wraps ==
  ASSUME NEW a \in 0..(Unsigned - 1)
  PROVE  (a + 1) % Unsigned = IF a = Unsigned - 1 THEN 0 ELSE a + 1
<1>1. Unsigned \in Nat /\ Unsigned > 0 BY CachingAssumption
<1>2. CASE a = Unsigned - 1 BY <1>1, <1>2
<1>3. CASE a # Unsigned - 1 BY <1>1, <1>3
<1> QED BY <1>2, <1>3

LEMMA RecordFields ==
  ASSUME NEW x, IsDerived(x), NEW o
  PROVE  LET y == [x EXCEPT !.reverse_order = o]
         IN  IsDerived(y) /\ y.lineno = x.lineno /\ y.no_goal = x.no_goal
<1>1. PICK y : y = [x EXCEPT !.reverse_order = o] OBVIOUS
<1>2. y = [lineno |-> x.lineno, weight |-> x.weight, no_goal |-> x.no_goal, g |-> x.g, fin |-> x.fin,
           reverse_order |-> o]
  BY <1>1 DEF IsDerived
<1>3. IsDerived(y) /\ y.lineno = x.lineno /\ y.no_goal = x.no_goal BY <1>2 DEF IsDerived
<1> QED BY <1>1, <1>3

LEMMA OrderedAndFreed ==
  ASSUME NEW x, IsDerived(x)
  PROVE  /\ IsDerived(get_order(x)) /\ get_order(x).lineno = x.lineno
         /\ IsDerived(free_order(x)) /\ free_order(x).lineno = x.lineno
BY RecordFields DEF get_order, free_order, make_order

LEMMA ComputedRecord ==
  ASSUME NEW old
  PROVE  IsDerived(Computed(old)) /\ Computed(old).lineno = lineno
<1> DEFINE goals == {j \in DOMAIN id_of_state : id_of_state[j] = GoalOf(Example)}
           fin == CHOOSE j \in goals : TRUE
<1>1. PICK x : x = [lineno |-> lineno, weight |-> Example.weight, no_goal |-> ~(goals # {}),
                    g |-> IF ~(goals # {}) THEN <<>> ELSE IF task.prune THEN Pruned.g ELSE g,
                    fin |-> IF ~(goals # {}) THEN 0 ELSE IF task.prune THEN Pruned.new[fin] ELSE fin,
                    reverse_order |-> old]
  OBVIOUS
<1>2. Computed(old) = IF goals # {} /\ cache_backward THEN make_order(x) ELSE x
  BY <1>1 DEF Computed
<1> HIDE DEF goals, fin
<1>3. IsDerived(x) /\ x.lineno = lineno BY <1>1 DEF IsDerived
<1>4. IsDerived(make_order(x)) /\ make_order(x).lineno = x.lineno BY <1>3, RecordFields DEF make_order
<1> QED BY <1>2, <1>3, <1>4

(* the end of a walk of some length, whatever is asked beyond it *)
Reaches(e, q) ==
  \E k \in Nat : \A m \in Nat : \A w : m >= k /\ IsWalks(e, m, w) => \E p \in w[k] : p.at = q

LEMMA ReachesBegun == ASSUME NEW e PROVE Reaches(e, Begun)
<1>1. ASSUME NEW m \in Nat, NEW w, IsWalks(e, m, w) PROVE \E p \in w[0] : p.at = Begun
  <2>1. w[0] = {[at |-> Begun, path |-> <<>>]} BY <1>1 DEF IsWalks
  <2> QED BY <2>1
<1> QED BY <1>1 DEF Reaches

LEMMA ReachesNext ==
  ASSUME NEW e, NEW q, Reaches(e, q), NEW a \in Taken(e, q)
  PROVE  Reaches(e, Step(q, a))
<1>1. PICK k \in Nat : \A m \in Nat : \A w : m >= k /\ IsWalks(e, m, w) => \E p \in w[k] : p.at = q
  BY DEF Reaches
<1>2. ASSUME NEW m \in Nat, NEW w, m >= k + 1, IsWalks(e, m, w)
      PROVE  \E p \in w[k + 1] : p.at = Step(q, a)
  <2>1. PICK p \in w[k] : p.at = q BY <1>1, <1>2
  <2>2. k + 1 \in 0..m /\ k + 1 # 0 /\ (k + 1) - 1 = k BY <1>2
  <2>3. w[k + 1] = UNION {WalkStep(e, r) : r \in w[k]} BY <1>2, <2>2 DEF IsWalks
  <2>4. PICK s : s = [at |-> Step(p.at, a), path |-> Append(p.path, a)] OBVIOUS
  <2>5. s \in WalkStep(e, p) BY <2>1, <2>4 DEF WalkStep, Taken
  <2>6. s \in w[k + 1] BY <2>3, <2>5
  <2> QED BY <2>1, <2>4, <2>6
<1> QED BY <1>2 DEF Reaches

(* every place found is the end of a walk *)
LEMMA PlacesReached ==
  ASSUME NEW e, NEW ids, NEW arcs, NEW gone, NEW calls, Explored(e, ids, arcs, gone, calls)
  PROVE  \A i \in 1..Len(ids) : Reaches(e, ids[i])
<1>1. Len(ids) \in Nat /\ ids[1] = Begun BY DEF Explored, Sized
<1> DEFINE V == {j \in Nat : \A i \in 1..j : i \in 1..Len(ids) => Reaches(e, ids[i])}
<1>2. 0 \in V BY SMT
<1>3. ASSUME NEW j \in Nat, j \in V PROVE j + 1 \in V
  <2> SUFFICES ASSUME NEW i \in 1..(j + 1), i \in 1..Len(ids) PROVE Reaches(e, ids[i]) OBVIOUS
  <2>1. CASE i = 1 BY <1>1, <2>1, ReachesBegun
  <2>2. CASE i # 1
    <3>1. i \in 2..Len(ids) /\ \A h \in 1..(i - 1) : h \in 1..j /\ h \in 1..Len(ids) BY <1>1, <2>2
    <3>2. PICK h \in 1..(i - 1) : \E a \in Taken(e, ids[h]) : ids[i] = Step(ids[h], a)
      BY <3>1 DEF Explored, Reached
    <3>3. PICK a \in Taken(e, ids[h]) : ids[i] = Step(ids[h], a) BY <3>2
    <3>4. Reaches(e, ids[h]) BY <1>3, <3>1
    <3> QED BY <3>3, <3>4, ReachesNext
  <2> QED BY <2>1, <2>2
<1>4. \A j \in Nat : j \in V
  <2> HIDE DEF V
  <2> QED BY NatSetInduction, <1>2, <1>3
<1> QED BY <1>1, <1>4

LEMMA ReachedAccepts ==
  ASSUME NEW e, Reaches(e, GoalOf(e))
  PROVE  \E k \in Nat : Accepting(e, k) # {}
<1>1. PICK k \in Nat : \A m \in Nat : \A w : m >= k /\ IsWalks(e, m, w) => \E p \in w[k] : p.at = GoalOf(e)
  BY DEF Reaches
<1>2. PICK w : /\ IsWalks(e, k, w)
               /\ Accepting(e, k) = {p.path : p \in {q \in UNION {w[i] : i \in 0..k} : q.at = GoalOf(e)}}
  BY AcceptingDef
<1>3. PICK p \in w[k] : p.at = GoalOf(e) BY <1>1, <1>2
<1>4. p \in UNION {w[i] : i \in 0..k} BY <1>3
<1>5. p.path \in Accepting(e, k) BY <1>2, <1>3, <1>4
<1> QED BY <1>5

(* A path longer than compared is no example's only one. *)
LongEnough ==
  \A n \in Lines : \A k \in Nat : Accepting(task.examples[n], k) # {} => Derivable(n)

LEMMA ComputedGoal ==
  ASSUME IsTask(task), LongEnough, lineno \in Lines, NEW old,
         Explored(Example, id_of_state, g, remove, <<>>)
  PROVE  Computed(old).no_goal <=> lineno \notin Goods
<1>1. PICK goals : goals = {j \in DOMAIN id_of_state : id_of_state[j] = GoalOf(Example)} OBVIOUS
<1>2. PICK e, ids : e = Example /\ ids = id_of_state OBVIOUS
<1>3. lineno \in Goods <=> Accepting(e, MaxPath) # {} BY <1>2 DEF Goods, Derivable, Example
<1>4. CASE goals = {}
  <2>1. PICK x : x = Computed(old) OBVIOUS
  <2>2. x.no_goal BY <1>1, <1>4, <2>1, ComputedFacts
  <2>3. PathsOf(x, MaxPath) = {}
    <3>1. MaxPath \in Nat BY CachingAssumption
    <3>2. PICK w : PathsOf(x, MaxPath) = IF x.no_goal THEN {}
                     ELSE {p.path : p \in {q \in UNION {w[i] : i \in 0..MaxPath} : q.at = x.fin}}
      BY DEF PathsOf
    <3> QED BY <2>2, <3>2
  <2>4. PathsOf(x, MaxPath) = Accepting(e, MaxPath)
    BY <1>2, <2>1, CachingAssumption, ComputedHoldsAll
  <2> QED BY <1>3, <2>1, <2>2, <2>3, <2>4
<1>5. CASE goals # {}
  <2>1. ~Computed(old).no_goal BY <1>1, <1>5, ComputedFacts
  <2>2. PICK j \in DOMAIN ids : ids[j] = GoalOf(e) BY <1>1, <1>2, <1>5
  <2>3. Explored(e, ids, g, remove, <<>>) BY <1>2
  <2>4. DOMAIN ids = 1..Len(ids) BY <2>3 DEF Explored, Sized
  <2>5. Reaches(e, GoalOf(e)) BY <2>2, <2>3, <2>4, PlacesReached
  <2>6. PICK k \in Nat : Accepting(e, k) # {} BY <2>5, ReachedAccepts
  <2>7. lineno \in Goods BY <1>2, <2>6 DEF LongEnough, Goods, Example
  <2> QED BY <2>1, <2>7
<1> QED BY <1>4, <1>5

LEMMA LinesStay ==
  ASSUME task' = task
  PROVE  /\ Lines' = Lines /\ Goods' = Goods /\ Listed' = Listed
         /\ LongEnough => LongEnough'
<1>1. ASSUME NEW n, NEW k \in Nat
      PROVE  Accepting(task.examples[n], k)' = Accepting(task.examples[n], k)
  <2>1. PICK e : e = task.examples[n] OBVIOUS
  <2>2. Accepting(e, k)' = Accepting(e, k) BY AcceptingStays
  <2>3. e = task'.examples[n] BY <2>1
  <2> QED BY <2>1, <2>2, <2>3
<1>2. Lines' = Lines BY DEF Lines
<1>3. MaxPath \in Nat BY CachingAssumption
<1>4. \A n : Derivable(n)' <=> Derivable(n) BY <1>1, <1>3 DEF Derivable
<1>5. Goods' = Goods BY <1>2, <1>4 DEF Goods
<1>6. Listed' = Listed BY <1>5 DEF Listed
<1>7. LongEnough => LongEnough' BY <1>1, <1>2, <1>4 DEF LongEnough
<1> QED BY <1>2, <1>5, <1>6, <1>7

LEMMA GoodNumbers ==
  ASSUME IsTask(task)
  PROVE  /\ Len(task.examples) \in Nat /\ Goods \subseteq 1..Len(task.examples)
         /\ IsNumbering(Goods, Listed, Len(task.examples))
<1>1. Len(task.examples) \in Nat BY DEF IsTask
<1>2. Goods \subseteq 1..Len(task.examples) BY DEF Goods, Lines
<1> QED BY <1>1, <1>2, KeptNumbers DEF Listed

(* so many records fit *)
LEMMA StoreFits ==
  ASSUME task \in Tasks, StoreRight
  PROVE  /\ Len(store) \in Nat /\ Len(store) < Unsigned - 1 /\ Unsigned \in Nat
         /\ next = Len(task.examples) + 1 => Len(store) = Len(Listed)
<1>1. IsTask(task) BY TasksAssumption
<1>2. Len(task.examples) \in Nat /\ Len(task.examples) + 1 < Unsigned /\ Unsigned \in Nat
  BY <1>1, CachingAssumption DEF IsTask
<1>3. next - 1 \in 0..Len(task.examples) BY <1>2 DEF StoreRight
<1>4. \A n \in Nat : Rank(Goods, n) \in Nat /\ Rank(Goods, n) <= n
  <2>1. Rank(Goods, 0) = 0 BY RankGrows
  <2>2. \A n \in Nat : /\ Rank(Goods, n) \in Nat
                       /\ Rank(Goods, n + 1) = IF n + 1 \in Goods THEN Rank(Goods, n) + 1 ELSE Rank(Goods, n)
    BY RankGrows
  <2> DEFINE V == {n \in Nat : Rank(Goods, n) <= n}
  <2>3. \A n \in Nat : n \in V
    <3>1. 0 \in V BY <2>1
    <3>2. ASSUME NEW n \in Nat, n \in V PROVE n + 1 \in V
      <4>1. Rank(Goods, n) <= n BY <3>2
      <4> QED BY <2>2, <4>1
    <3> HIDE DEF V
    <3> QED BY NatSetInduction, <3>1, <3>2
  <2> QED BY <2>2, <2>3
<1>5. next - 1 \in Nat /\ next - 1 <= Len(task.examples) BY <1>2, <1>3
<1>6. Len(store) \in Nat /\ Len(store) <= next - 1 BY <1>4, <1>5 DEF StoreRight
<1>7. next = Len(task.examples) + 1 => Len(store) = Len(Listed)
  <2> SUFFICES ASSUME next = Len(task.examples) + 1 PROVE Len(store) = Len(Listed) OBVIOUS
  <2>1. next - 1 = Len(task.examples) BY <1>2
  <2> QED BY <1>1, <2>1, GoodNumbers DEF IsNumbering, StoreRight
<1> QED BY <1>2, <1>5, <1>6, <1>7

LEMMA RecallInit == Init => RecallInv
<1> SUFFICES ASSUME Init, Cached PROVE RecallInv BY DEF RecallInv
<1>1. IsTask(task) BY TasksAssumption DEF Init, DerivingInit
<1>2. pc = "caching" /\ next = 1 /\ store = <<>> /\ used = 0 /\ d = NoDerivations BY DEF Init, DerivingInit
<1>3. Len(task.examples) \in Nat /\ DOMAIN task.examples = 1..Len(task.examples) BY <1>1 DEF IsTask
<1>4. examples = [j \in Lines |-> j] BY <1>3 DEF Init, Lines
<1>5. IsDerived(d) BY <1>2 DEF NoDerivations, IsDerived
<1>6. StoreRight
  <2>1. Rank(Goods, 0) = 0 BY RankGrows
  <2>2. next - 1 = 0 BY <1>2
  <2>3. Len(store) = 0 /\ store \in Seq(Range(store)) BY <1>2
  <2>4. \A j : j \notin 1..0 OBVIOUS
  <2> QED BY <1>2, <1>3, <1>4, <2>1, <2>2, <2>3, <2>4 DEF StoreRight
<1> QED BY <1>2, <1>5, <1>6 DEF RecallInv, Caching, Reading

LEMMA StoreStays ==
  ASSUME StoreRight, task' = task, examples' = examples, next' = next, store' = store
  PROVE  StoreRight'
<1>1. Lines' = Lines /\ Goods' = Goods /\ Listed' = Listed BY LinesStay
<1> QED BY <1>1 DEF StoreRight

(* What a step needs to keep: where it was, and what it may rely on *)
Recalls ==
  /\ Cached /\ RecallInv /\ task \in Tasks /\ IsTask(task) /\ LongEnough
  /\ task' = task /\ Cached' /\ (use_file' <=> use_file)

LEMMA NoneUsed == \A n : n = 0 => ~(n > 0) /\ n \in Nat
OBVIOUS

LEMMA ArrivesCaching ==
  ASSUME Caching', StoreRight', IsDerived(d)', used' = 0,
         (pc \in {"derive to keep", "keep"} => next <= Len(task.examples) /\ lineno = next)',
         (pc = "keep" => d.lineno = lineno /\ (d.no_goal <=> lineno \notin Goods))'
  PROVE  RecallInv'
<1>1. /\ ~Reading' /\ pc' # "idle"
      /\ (pc \notin {"pass", "visit"})' /\ (pc \notin {"visit", "block"})'
  BY DEF Caching, Reading
<1>2. ~(used' > 0) /\ used' \in Nat BY NoneUsed
<1> QED BY <1>1, <1>2 DEF RecallInv

LEMMA ArrivesReading ==
  ASSUME (Reading \/ pc = "idle")', StoreRight', IsDerived(d)', used' \in Nat,
         (next = Len(task.examples) + 1)', (Reading => used > 0)',
         (used > 0 => StandsRight)',
         (pc \in {"pass", "visit"} => PassRight)',
         (pc \in {"visit", "block"} => AtRecord)'
  PROVE  RecallInv'
<1>1. /\ ~Caching' /\ (pc \notin {"derive to keep", "keep"})' /\ pc' # "keep"
  BY DEF Caching, Reading
<1> QED BY <1>1 DEF RecallInv

LEMMA RecallNextExample == ASSUME Recalls, NextExample PROVE RecallInv'
<1>1. pc = "caching"
  <2>1. pc \in {"caching", "uncached"} BY DEF NextExample
  <2>2. Caching \/ Reading \/ pc = "idle" BY DEF Recalls, RecallInv
  <2> QED BY <2>1, <2>2 DEF Caching, Reading
<1>2. pc' = "derive to keep"
  <2>1. pc' = [caching |-> "derive to keep", uncached |-> "derive to visit"][pc] BY DEF NextExample
  <2> QED BY <1>1, <2>1
<1>3. Len(task.examples) \in Nat BY DEF Recalls, IsTask
<1>4. Len(examples) = Len(task.examples) /\ next \in 1..Len(task.examples) /\ examples[next] = next
  <2>1. examples = [j \in 1..Len(task.examples) |-> j] BY DEF Recalls, RecallInv, StoreRight, Lines
  <2>2. Len(examples) = Len(task.examples) BY <1>3, <2>1
  <2>3. next \in 1..(Len(task.examples) + 1) BY DEF Recalls, RecallInv, StoreRight
  <2>4. next <= Len(examples) BY DEF NextExample
  <2>5. next \in 1..Len(task.examples) BY <1>3, <2>2, <2>3, <2>4
  <2> QED BY <2>1, <2>2, <2>5
<1>5. lineno' = next /\ next' = next BY <1>4 DEF NextExample, StartDeriving
<1>6. next <= Len(task'.examples)
  <2>1. next <= Len(task.examples) BY <1>3, <1>4
  <2> QED BY <2>1 DEF Recalls
<1>7. StoreRight' BY StoreStays DEF NextExample, Recalls, RecallInv, storeVars
<1>8. IsDerived(d)' BY DEF NextExample, Recalls, RecallInv, IsDerived
<1>9. Caching /\ Caching' /\ pc' # "keep" BY <1>1, <1>2 DEF Caching
<1>10. used' = 0 BY <1>9 DEF NextExample, Recalls, RecallInv
<1> QED BY <1>2, <1>5, <1>6, <1>7, <1>8, <1>9, <1>10, ArrivesCaching

(* while an example is derived *)
LEMMA DerivingToKeep ==
  ASSUME Recalls, Derives
  PROVE  /\ pc = "derive to keep" /\ used = 0 /\ lineno = next
         /\ next \in 1..Len(task.examples) /\ next <= Len(task.examples)
<1>1. pc = "derive to keep"
  <2>1. pc \in {"derive to keep", "derive to visit"} BY DEF Derives
  <2>2. Caching \/ Reading \/ pc = "idle" BY DEF Recalls, RecallInv
  <2> QED BY <2>1, <2>2 DEF Caching, Reading
<1>2. Caching BY <1>1 DEF Caching
<1>3. used = 0 /\ lineno = next /\ next <= Len(task.examples) BY <1>1, <1>2 DEF Recalls, RecallInv
<1>4. next \in 1..(Len(task.examples) + 1) /\ Len(task.examples) \in Nat
  BY DEF Recalls, RecallInv, StoreRight, IsTask
<1>5. next \in 1..Len(task.examples) BY <1>3, <1>4
<1> QED BY <1>1, <1>3, <1>5

LEMMA RecallDeriving == ASSUME Recalls, Deriving PROVE RecallInv'
<1>1. Derives /\ pc' = pc BY DEF Deriving, Derives
<1>2. StoreRight' BY StoreStays DEF Deriving, Recalls, RecallInv, storeVars
<1>3. lineno' = lineno BY DEF Deriving, Derive, Descend, AddArc, Return
<1>4. next' = next /\ task' = task /\ used' = used BY DEF Deriving, Recalls
<1>5. IsDerived(d)' BY DEF Deriving, Recalls, RecallInv, IsDerived
<1>6. pc = "derive to keep" /\ used = 0 /\ lineno = next /\ next <= Len(task.examples)
  BY <1>1, DerivingToKeep
<1>7. Caching' /\ pc' # "keep" BY <1>1, <1>6 DEF Caching
<1> QED BY <1>1, <1>2, <1>3, <1>4, <1>5, <1>6, <1>7, ArrivesCaching

LEMMA RecallCompute ==
  ASSUME Recalls, Compute, Derives => Explored(Example, id_of_state, g, remove, stack)
  PROVE  RecallInv'
<1>1. Derives BY DEF Compute, Derives
<1>2. pc = "derive to keep" /\ used = 0 /\ lineno = next /\ next <= Len(task.examples)
  BY <1>1, DerivingToKeep
<1>3. pc' = "keep"
  <2>1. pc' = [x \in {"derive to keep", "derive to visit"} |->
                 IF x = "derive to keep" THEN "keep" ELSE "visit"][pc]
    BY DEF Compute
  <2> QED BY <1>2, <2>1
<1>4. StoreRight' BY StoreStays DEF Compute, Recalls, RecallInv, storeVars
<1>5. next' = next /\ task' = task /\ lineno' = lineno /\ used' = used
  BY DEF Compute, Recalls, derivingVars
<1>6. PICK old : d' = Computed(old) BY DEF Compute
<1>7. IsDerived(Computed(old)) /\ Computed(old).lineno = lineno BY ComputedRecord
<1>8. Computed(old).no_goal <=> lineno \notin Goods
  <2>1. lineno \in Lines BY <1>1, DerivingToKeep DEF Lines
  <2>2. Explored(Example, id_of_state, g, remove, <<>>) BY <1>1 DEF Compute
  <2> QED BY <2>1, <2>2, ComputedGoal DEF Recalls
<1>9. Goods' = Goods BY <1>5, LinesStay
<1>10. IsDerived(d)'
  <2>1. PICK x : x = Computed(old) OBVIOUS
  <2>2. IsDerived(x) /\ d' = x BY <1>6, <1>7, <2>1
  <2>3. IsDerived(d') BY <2>2
  <2> QED BY <2>3 DEF IsDerived
<1>11. d'.lineno = lineno' /\ (d'.no_goal <=> lineno' \notin Goods') BY <1>5, <1>6, <1>7, <1>8, <1>9
<1>12. Caching' BY <1>3 DEF Caching
<1> QED BY <1>2, <1>3, <1>4, <1>5, <1>10, <1>11, <1>12, ArrivesCaching

LEMMA AppendSeq ==
  ASSUME NEW s, s \in Seq(Range(s)), NEW x
  PROVE  /\ Append(s, x) \in Seq(Range(Append(s, x)))
         /\ Len(Append(s, x)) = Len(s) + 1 /\ Append(s, x)[Len(s) + 1] = x
         /\ \A j \in 1..Len(s) : Append(s, x)[j] = s[j]
<1> DEFINE U == Range(s) \cup {x}
<1>1. s \in Seq(U) /\ x \in U
  <2>1. Seq(Range(s)) \subseteq Seq(U) OBVIOUS
  <2> QED BY <2>1
<1> HIDE DEF U
<1>2. PICK t : t = Append(s, x) OBVIOUS
<1>3. /\ t \in Seq(U) /\ Len(t) = Len(s) + 1 /\ t[Len(s) + 1] = x
      /\ \A j \in 1..Len(s) : t[j] = s[j]
  BY <1>1, <1>2, AppendProperties
<1>4. t = [j \in 1..Len(t) |-> t[j]] /\ Len(t) \in Nat BY <1>3
<1>5. \A j \in 1..Len(t) : t[j] \in Range(t) BY <1>4 DEF Range
<1>6. t \in Seq(Range(t)) BY <1>4, <1>5
<1> QED BY <1>2, <1>3, <1>6

(* a record of the example at hand, if it has derivations *)
LEMMA KeptInStore ==
  ASSUME IsTask(task), task' = task, StoreRight, IsDerived(d), d.lineno = next,
         (d.no_goal <=> next \notin Goods), next <= Len(task.examples),
         store' = IF d.no_goal THEN store
                  ELSE Append(store, IF use_file THEN [d EXCEPT !.reverse_order = <<>>] ELSE d),
         next' = next + 1, examples' = examples
  PROVE  StoreRight'
<1>1. PICK n, old, new, good, listed, max :
        /\ n = next /\ old = store /\ new = store' /\ good = Goods /\ listed = Listed
        /\ max = Len(task.examples)
  OBVIOUS
<1>2. /\ n \in 1..max /\ max \in Nat /\ old \in Seq(Range(old)) /\ Len(old) = Rank(good, n - 1)
      /\ \A j \in 1..Len(old) : IsDerived(old[j]) /\ old[j].lineno = listed[j]
  BY <1>1, GoodNumbers DEF StoreRight
<1>3. /\ Lines' = Lines /\ Goods' = good /\ Listed' = listed /\ Len(task'.examples) = max
  BY <1>1, LinesStay
<1>4. IsNumbering(good, listed, max) BY <1>1, GoodNumbers
<1>5. Rank(good, n) = IF n \in good THEN Rank(good, n - 1) + 1 ELSE Rank(good, n - 1)
  <2>1. n - 1 \in Nat /\ (n - 1) + 1 = n BY <1>2
  <2> QED BY <2>1, RankGrows
<1>6. /\ new \in Seq(Range(new)) /\ Len(new) = Rank(good, n)
      /\ \A j \in 1..Len(new) : IsDerived(new[j]) /\ new[j].lineno = listed[j]
  <2>1. CASE n \notin good
    <3>1. new = old BY <1>1, <2>1
    <3> QED BY <1>2, <1>5, <2>1, <3>1
  <2>2. CASE n \in good
    <3>1. PICK x : x = IF use_file THEN [d EXCEPT !.reverse_order = <<>>] ELSE d OBVIOUS
    <3>2. new = Append(old, x) BY <1>1, <2>2, <3>1
    <3>3. IsDerived(x) /\ x.lineno = n BY <1>1, <3>1, RecordFields
    <3>4. /\ new \in Seq(Range(new)) /\ Len(new) = Len(old) + 1 /\ new[Len(old) + 1] = x
          /\ \A j \in 1..Len(old) : new[j] = old[j]
      BY <1>2, <3>2, AppendSeq
    <3>5. Rank(good, n) = Len(old) + 1 /\ Len(old) \in Nat BY <1>2, <1>5, <2>2
    <3>6. listed[Rank(good, n)] = n BY <1>4, <2>2 DEF IsNumbering
    <3>7. ASSUME NEW j \in 1..Len(new) PROVE IsDerived(new[j]) /\ new[j].lineno = listed[j]
      <4>1. j \in 1..Len(old) \/ j = Len(old) + 1 BY <3>4, <3>5
      <4>2. CASE j \in 1..Len(old) BY <1>2, <3>4, <4>2
      <4>3. CASE j = Len(old) + 1 BY <3>3, <3>4, <3>5, <3>6, <4>3
      <4> QED BY <4>1, <4>2, <4>3
    <3> QED BY <3>4, <3>5, <3>7
  <2> QED BY <2>1, <2>2
<1>7. next' \in 1..(max + 1) /\ next' - 1 = n BY <1>1, <1>2
<1>8. examples' = [j \in Lines |-> j] BY DEF StoreRight
<1>9. ASSUME NEW j \in 1..Len(store') PROVE IsDerived(store[j])' /\ store'[j].lineno = listed[j]
  <2>1. IsDerived(new[j]) /\ new[j].lineno = listed[j] BY <1>1, <1>6, <1>9
  <2> QED BY <1>1, <2>1 DEF IsDerived
<1> QED BY <1>1, <1>3, <1>6, <1>7, <1>8, <1>9 DEF StoreRight

LEMMA RecallKeep == ASSUME Recalls, Keep PROVE RecallInv'
<1>1. pc = "keep" /\ pc' = "caching" BY DEF Keep
<1>2. Caching' /\ pc' # "keep" /\ (pc \notin {"derive to keep", "keep"})' BY <1>1 DEF Caching
<1>3. /\ used' = 0 /\ lineno = next /\ next <= Len(task.examples)
      /\ d.lineno = lineno /\ (d.no_goal <=> lineno \notin Goods) /\ IsDerived(d) /\ StoreRight
  <2>1. Caching BY <1>1 DEF Caching
  <2>2. used = 0 /\ lineno = next /\ next <= Len(task.examples) BY <1>1, <2>1 DEF Recalls, RecallInv
  <2>3. d.lineno = lineno /\ (d.no_goal <=> lineno \notin Goods) BY <1>1 DEF Recalls, RecallInv
  <2>4. IsDerived(d) /\ StoreRight BY DEF Recalls, RecallInv
  <2>5. used' = used BY DEF Keep
  <2> QED BY <2>2, <2>3, <2>4, <2>5
<1>4. d' = d /\ next' = next + 1 /\ examples' = examples /\ task' = task BY DEF Keep, Recalls
<1>5. IsDerived(d)' BY <1>3, <1>4 DEF IsDerived
<1>6. StoreRight' BY <1>3, <1>4, KeptInStore DEF Recalls, Keep
<1> QED BY <1>2, <1>3, <1>5, <1>6, ArrivesCaching

LEMMA RecallMarkEnd == ASSUME Recalls, mark_end PROVE RecallInv'
<1>1. pc = "caching" /\ pc' = "idle" BY DEF mark_end
<1>2. (Reading \/ pc = "idle")' /\ ~Reading' /\ (pc \notin {"pass", "visit"})'
      /\ (pc \notin {"visit", "block"})'
  BY <1>1 DEF Reading
<1>3. StoreRight' BY StoreStays DEF mark_end, Recalls, RecallInv, storeVars
<1>4. IsDerived(d)' BY DEF mark_end, Recalls, RecallInv, IsDerived
<1>5. used' = 0
  <2>1. Caching BY <1>1 DEF Caching
  <2> QED BY <2>1 DEF mark_end, Recalls, RecallInv
<1>6. ~(used' > 0) /\ used' \in Nat BY <1>5, NoneUsed
<1>7. next' = Len(task'.examples) + 1
  <2>1. next' = next /\ task' = task /\ next > Len(examples) BY DEF mark_end, Recalls
  <2>2. /\ Len(task.examples) \in Nat /\ next \in 1..(Len(task.examples) + 1)
        /\ examples = [j \in 1..Len(task.examples) |-> j]
    BY DEF Recalls, RecallInv, StoreRight, IsTask, Lines
  <2>3. Len(examples) = Len(task.examples) BY <2>2
  <2>4. next = Len(task.examples) + 1 BY <2>1, <2>2, <2>3
  <2> QED BY <2>1, <2>4
<1> QED BY <1>2, <1>3, <1>4, <1>6, <1>7, ArrivesReading

(* What a step between passes and in them finds *)
LEMMA FoundReading ==
  ASSUME Recalls, Reading \/ pc = "idle"
  PROVE  /\ StoreRight /\ IsDerived(d) /\ used \in Nat /\ next = Len(task.examples) + 1
         /\ Reading => used > 0
         /\ used > 0 => StandsRight
         /\ pc \in {"pass", "visit"} => PassRight
         /\ pc \in {"visit", "block"} => AtRecord
         /\ Len(store) \in Nat /\ Len(store) < Unsigned - 1 /\ Unsigned \in Nat /\ Len(store) = Len(Listed)
<1>1. ~Caching BY DEF Caching, Reading
<1>2. /\ StoreRight /\ IsDerived(d) /\ used \in Nat /\ next = Len(task.examples) + 1
      /\ Reading => used > 0
      /\ used > 0 => StandsRight
      /\ pc \in {"pass", "visit"} => PassRight
      /\ pc \in {"visit", "block"} => AtRecord
  BY <1>1 DEF Recalls, RecallInv
<1> QED BY <1>2, StoreFits DEF Recalls

LEMMA RecallAgain == ASSUME Recalls, Again PROVE RecallInv'
<1>1. pc \in {"ended", "block"} /\ pc' = "idle" BY DEF Again
<1>2. Reading /\ (Reading \/ pc = "idle")' /\ ~Reading' /\ (pc \notin {"pass", "visit"})'
      /\ (pc \notin {"visit", "block"})'
  BY <1>1 DEF Reading
<1>3. StoreRight /\ IsDerived(d) /\ used \in Nat /\ next = Len(task.examples) + 1 /\ StandsRight
  BY <1>2, FoundReading
<1>4. /\ StoreRight' BY <1>3, StoreStays DEF Again, Recalls, storeVars
<1>5. IsDerived(d)' BY <1>3 DEF Again, IsDerived
<1>6. used' \in Nat /\ next' = Len(task'.examples) + 1 BY <1>3 DEF Again, Recalls
<1>7. StandsRight'
  <2>1. Listed' = Listed BY LinesStay DEF Recalls
  <2> QED BY <1>3, <2>1 DEF StandsRight, Again, storeVars, Recalls
<1> QED BY <1>2, <1>4, <1>5, <1>6, <1>7, ArrivesReading

LEMMA SuccessorUsed == \A u \in Nat : u + 1 \in Nat /\ u + 1 > 0
OBVIOUS

LEMMA StartOfPass ==
  ASSUME visited' = 0, current_i' = Unsigned - 1, store' = store, Len(store) \in Nat,
         IF use_file THEN store_cursor' = 1 ELSE rewind_store', use_file' <=> use_file
  PROVE  PassRight'
BY DEF PassRight

LEMMA RecallBeginPass == ASSUME Recalls, BeginPass PROVE RecallInv'
<1>1. pc = "idle" /\ pc' = "pass" /\ Cached BY DEF BeginPass, Recalls
<1>2. (Reading \/ pc = "idle") /\ (Reading \/ pc = "idle")' /\ (pc \notin {"visit", "block"})'
  BY <1>1 DEF Reading
<1>3. /\ StoreRight /\ IsDerived(d) /\ used \in Nat /\ next = Len(task.examples) + 1
      /\ Len(store) \in Nat
  BY <1>2, FoundReading
<1>4. /\ store' = store /\ next' = next /\ examples' = examples /\ task' = task /\ d' = d
      /\ used' = used + 1 /\ visited' = 0 /\ Stands(Rewound(Standing))
  BY <1>1 DEF BeginPass, Recalls
<1>5. StoreRight' BY <1>3, <1>4, StoreStays
<1>6. IsDerived(d)' BY <1>3, <1>4 DEF IsDerived
<1>7. \A u \in Nat : u + 1 \in Nat /\ u + 1 > 0 BY SuccessorUsed
<1>8. used' \in Nat /\ used' > 0 /\ next' = Len(task'.examples) + 1 BY <1>3, <1>4, <1>7
<1>9. current_i' = Unsigned - 1
      /\ (IF use_file THEN store_cursor' = 1 ELSE rewind_store')
  BY <1>4 DEF Stands, Rewound
<1>10. StandsRight' BY <1>9 DEF StandsRight
<1>11. PassRight' BY <1>3, <1>4, <1>9, StartOfPass DEF Recalls
<1> QED BY <1>2, <1>5, <1>6, <1>8, <1>10, <1>11, ArrivesReading

(* where advance leaves the reading *)
LEMMA AdvancedInPass ==
  ASSUME PassRight, Len(store) \in Nat, Len(store) < Unsigned - 1, Unsigned \in Nat
  PROVE  /\ Found(Advanced(Standing)) <=> visited < Len(store)
         /\ Advanced(Standing).i = IF visited < Len(store) \/ ~use_file THEN visited ELSE current_i
         /\ Advanced(Standing).cursor = IF use_file THEN visited + 2 ELSE visited + 1
         /\ ~use_file => ~Advanced(Standing).rewind
<1>1. PICK n, v, U : n = Len(store) /\ v = visited /\ U = Unsigned OBVIOUS
<1>2. n \in Nat /\ n < U - 1 /\ U \in Nat /\ v \in 0..n /\ v \in Nat
      /\ current_i = (IF v = 0 THEN U - 1 ELSE v - 1)
  BY <1>1 DEF PassRight
<1>3. current_i \in 0..(Unsigned - 1) BY <1>1, <1>2
<1>4. (current_i + 1) % Unsigned = v
  <2>1. (current_i + 1) % Unsigned = IF current_i = Unsigned - 1 THEN 0 ELSE current_i + 1
    BY <1>3, Wraps
  <2> QED BY <1>1, <1>2, <2>1
<1>5. CASE use_file
  <2>1. store_cursor = v + 1 BY <1>1, <1>5 DEF PassRight
  <2>2. AtEnd(Standing) <=> ~(v < n) BY <1>1, <1>2, <2>1 DEF AtEnd, Standing
  <2>3. PICK at : at = Advanced(Standing) OBVIOUS
  <2>4. at = [i |-> IF AtEnd(Standing) THEN current_i ELSE v, cursor |-> store_cursor + 1,
              rewind |-> rewind_store]
    BY <1>4, <1>5, <2>3 DEF Advanced, Standing
  <2>5. at.i = (IF v < n THEN v ELSE current_i) /\ at.cursor = v + 2
    BY <1>2, <2>1, <2>2, <2>4
  <2>6. Found(at) <=> v < n BY <1>1, <1>2, <1>5, <2>5 DEF Found
  <2> QED BY <1>1, <1>5, <2>3, <2>5, <2>6
<1>6. CASE ~use_file
  <2>1. PICK at : at = Advanced(Standing) OBVIOUS
  <2>2. at.i = v /\ at.cursor = v + 1 /\ ~at.rewind
    <3>1. CASE v = 0
      <4>1. rewind_store BY <1>1, <1>6, <3>1 DEF PassRight
      <4> QED BY <1>6, <2>1, <3>1, <4>1 DEF Advanced, Standing
    <3>2. CASE v # 0
      <4>1. ~rewind_store /\ store_cursor = v BY <1>1, <1>6, <3>2 DEF PassRight
      <4>2. at = [i |-> v, cursor |-> v + 1, rewind |-> rewind_store]
        BY <1>4, <1>6, <2>1, <4>1 DEF Advanced, Standing
      <4> QED BY <4>1, <4>2
    <3> QED BY <3>1, <3>2
  <2>3. Found(at) <=> v < n BY <1>1, <1>2, <1>6, <2>2 DEF Found, AtEnd
  <2> QED BY <1>1, <1>6, <2>1, <2>2, <2>3
<1> QED BY <1>5, <1>6

IsReplaced(s, c, x, t) == t = [s EXCEPT ![c] = x]

LEMMA ReplacedSeq ==
  ASSUME NEW s, s \in Seq(Range(s)), NEW c \in 1..Len(s), NEW x,
         NEW t, IsReplaced(s, c, x, t)
  PROVE  /\ Len(t) = Len(s) /\ t[c] = x /\ t \in Seq(Range(t))
         /\ \A j \in 1..Len(s) : j # c => t[j] = s[j]
<1>2. Len(s) \in Nat /\ s = [j \in 1..Len(s) |-> s[j]] OBVIOUS
<1>3. t = [j \in 1..Len(s) |-> IF j = c THEN x ELSE s[j]] BY <1>2 DEF IsReplaced
<1>4. /\ DOMAIN t = 1..Len(s) /\ t[c] = x /\ \A j \in 1..Len(s) : j # c => t[j] = s[j]
      /\ t = [j \in 1..Len(s) |-> t[j]]
  BY <1>3
<1>5. \A j \in 1..Len(s) : t[j] \in Range(t) BY <1>4 DEF Range
<1>6. t \in Seq(Range(t)) /\ Len(t) = Len(s) BY <1>2, <1>4, <1>5
<1> QED BY <1>4, <1>6

LEMMA EndStands ==
  ASSUME task' = task, use_file' <=> use_file, StandsRight, PassRight, store' = store, d' = d,
         ~Found(Advanced(Standing)), Stands(Advanced(Standing)),
         Len(store) \in Nat, Len(store) < Unsigned - 1, Unsigned \in Nat
  PROVE  StandsRight'
<1>1. Listed' = Listed BY LinesStay
<1>2. ~(visited < Len(store)) BY AdvancedInPass
<1>3. visited = Len(store) BY <1>2 DEF PassRight
<1>4. /\ current_i' = IF ~use_file THEN visited ELSE current_i
      /\ store_cursor' = IF use_file THEN visited + 2 ELSE visited + 1
      /\ ~use_file => ~rewind_store'
  BY <1>2, AdvancedInPass DEF Stands
<1>5. CASE ~use_file
  BY <1>3, <1>4, <1>5 DEF StandsRight
<1>6. CASE use_file
  <2>1. current_i = Unsigned - 1 \/ current_i = Len(store) - 1 BY <1>3 DEF PassRight
  <2>2. CASE current_i = Unsigned - 1 BY <1>4, <1>6, <2>2 DEF StandsRight
  <2>3. CASE current_i = Len(store) - 1 /\ current_i # Unsigned - 1
    <3>1. d.lineno = Listed[current_i + 1] /\ current_i \in 0..(Len(store) - 1)
      BY <1>6, <2>3 DEF StandsRight
    <3>2. current_i' = current_i /\ ~(current_i' < Len(store') - 1) BY <1>4, <1>6, <2>3, <3>1
    <3> QED BY <1>1, <1>6, <3>1, <3>2 DEF StandsRight
  <2> QED BY <2>1, <2>2, <2>3
<1> QED BY <1>5, <1>6

LEMMA LoadedRecord ==
  ASSUME StoreRight, NEW at, NEW n \in 1..Len(store), at.cursor = n + 1, Len(store) \in Nat
  PROVE  IsDerived(Loaded(at)) /\ Loaded(at).lineno = Listed[n]
<1>1. IsDerived(store[n]) /\ store[n].lineno = Listed[n] BY DEF StoreRight
<1>2. at.cursor - 1 = n OBVIOUS
<1>3. PICK x, o : x = store[n] /\ o = d.reverse_order OBVIOUS
<1>4. Loaded(at) = [x EXCEPT !.reverse_order = o] BY <1>2, <1>3 DEF Loaded
<1>5. IsDerived(x) /\ x.lineno = Listed[n] BY <1>1, <1>3
<1>6. PICK y : y = [x EXCEPT !.reverse_order = o] OBVIOUS
<1>7. IsDerived(y) /\ y.lineno = x.lineno BY <1>5, <1>6, RecordFields
<1> QED BY <1>4, <1>5, <1>6, <1>7

LEMMA AdvanceArrives ==
  ASSUME task' = task, use_file' <=> use_file, StoreRight, IsDerived(d), PassRight, store' = store,
         Found(Advanced(Standing)), Stands(Advanced(Standing)), visited' = visited + 1,
         d' = IF use_file THEN Loaded(Advanced(Standing)) ELSE d,
         Len(store) \in Nat, Len(store) < Unsigned - 1, Unsigned \in Nat
  PROVE  IsDerived(d)' /\ StandsRight' /\ PassRight' /\ AtRecord'
<1>1. Listed' = Listed BY LinesStay
<1>2. visited < Len(store) /\ visited \in Nat BY AdvancedInPass DEF PassRight
<1>3. /\ current_i' = visited
      /\ store_cursor' = IF use_file THEN visited + 2 ELSE visited + 1
      /\ ~use_file => ~rewind_store'
  BY <1>2, AdvancedInPass DEF Stands
<1>4. visited' \in 1..Len(store) /\ visited' # 0 /\ current_i' = visited' - 1 BY <1>2, <1>3
<1>5. IsDerived(d') /\ (use_file => d'.lineno = Listed[visited'])
  <2>1. CASE use_file
    <3>1. Advanced(Standing).cursor = visited' + 1 BY <1>2, <2>1, AdvancedInPass
    <3>2. d' = Loaded(Advanced(Standing)) BY <2>1
    <3> QED BY <1>4, <3>1, <3>2, LoadedRecord
  <2>2. CASE ~use_file BY <2>2
  <2> QED BY <2>1, <2>2
<1>6. IsDerived(d)' BY <1>5 DEF IsDerived
<1>7. AtRecord' BY <1>1, <1>2, <1>3, <1>4, <1>5 DEF AtRecord
<1>8. PassRight' BY <1>2, <1>3, <1>4 DEF PassRight
<1>9. StandsRight' BY <1>1, <1>2, <1>3, <1>4, <1>5 DEF StandsRight
<1> QED BY <1>6, <1>7, <1>8, <1>9

LEMMA VisitKeeps ==
  ASSUME IsTask(task), task' = task, use_file' <=> use_file, StoreRight, IsDerived(d), PassRight, StandsRight, AtRecord,
         Len(store) \in Nat,
         next' = next, examples' = examples, visited' = visited,
         store_cursor' = store_cursor, rewind_store' = rewind_store, current_i' = current_i,
         LET x == get_order(Current)
         IN  IF ~use_file THEN store' = [store EXCEPT ![store_cursor] = free_order(x)] /\ d' = d
             ELSE d' = free_order(x) /\ store' = store
  PROVE  StoreRight' /\ IsDerived(d)' /\ StandsRight' /\ PassRight'
<1>1. Lines' = Lines /\ Goods' = Goods /\ Listed' = Listed BY LinesStay
<1>2. PICK x, y : x = Current /\ y = free_order(get_order(Current)) OBVIOUS
<1>3. IsDerived(x) => IsDerived(y) /\ y.lineno = x.lineno BY <1>2, OrderedAndFreed
<1>4. CASE use_file
  <2>1. x = d /\ d' = y /\ store' = store BY <1>2, <1>4 DEF Current
  <2>2. IsDerived(d') /\ d'.lineno = d.lineno BY <1>3, <2>1
  <2>3. StoreRight' BY <2>1, StoreStays
  <2>4. IsDerived(d)' BY <2>2 DEF IsDerived
  <2>5. PassRight' BY <2>1 DEF PassRight
  <2>6. StandsRight' BY <1>1, <1>4, <2>1, <2>2 DEF StandsRight
  <2> QED BY <2>3, <2>4, <2>5, <2>6
<1>5. CASE ~use_file
  <2>1. /\ x = store[store_cursor] /\ d' = d /\ store' = [store EXCEPT ![store_cursor] = y]
    BY <1>2, <1>5 DEF Current
  <2>2. PICK c, old, new : c = store_cursor /\ old = store /\ new = store' OBVIOUS
  <2>3. c \in 1..Len(old) BY <1>5, <2>2 DEF AtRecord
  <2>4. /\ old \in Seq(Range(old)) /\ \A j \in 1..Len(old) : IsDerived(old[j]) /\ old[j].lineno = Listed[j]
    BY <2>2 DEF StoreRight
  <2>5. IsDerived(y) /\ y.lineno = Listed[c] BY <1>3, <2>1, <2>2, <2>3, <2>4
  <2>6. /\ Len(new) = Len(old) /\ new[c] = y /\ new \in Seq(Range(new))
        /\ \A j \in 1..Len(old) : j # c => new[j] = old[j]
    <3>1. IsReplaced(old, c, y, new) BY <2>1, <2>2 DEF IsReplaced
    <3>2. old \in Seq(Range(old)) /\ c \in 1..Len(old) BY <2>3, <2>4
    <3>3. Len(new) = Len(old) BY ONLY <3>1, <3>2, ReplacedSeq
    <3>4. new[c] = y BY ONLY <3>1, <3>2, ReplacedSeq
    <3>5. new \in Seq(Range(new)) BY ONLY <3>1, <3>2, ReplacedSeq
    <3>6. \A j \in 1..Len(old) : j # c => new[j] = old[j] BY ONLY <3>1, <3>2, ReplacedSeq
    <3> QED BY <3>3, <3>4, <3>5, <3>6
  <2>7. ASSUME NEW j \in 1..Len(new) PROVE IsDerived(new[j]) /\ new[j].lineno = Listed[j]
    BY <2>3, <2>4, <2>5, <2>6
  <2>8. ASSUME NEW j \in 1..Len(store') PROVE IsDerived(store[j])' /\ store'[j].lineno = Listed[j]
    <3>1. IsDerived(new[j]) /\ new[j].lineno = Listed[j] BY <2>2, <2>7, <2>8
    <3> QED BY <2>2, <3>1 DEF IsDerived
  <2>9. StoreRight' BY <1>1, <2>2, <2>6, <2>8 DEF StoreRight
  <2>10. IsDerived(d)' BY <2>1 DEF IsDerived
  <2>11. Len(store') = Len(store) BY <2>2, <2>6
  <2>12. PassRight' BY <2>11 DEF PassRight
  <2>13. StandsRight' BY <1>5, <2>11 DEF StandsRight
  <2> QED BY <2>9, <2>10, <2>12, <2>13
<1> QED BY <1>4, <1>5


LEMMA RecallEndPass == ASSUME Recalls, EndPass PROVE RecallInv'
<1>1. pc = "pass" /\ pc' = "ended"
  <2>1. pc = "pass" \/ pc = "uncached" BY DEF EndPass
  <2>2. Caching \/ Reading \/ pc = "idle" BY DEF Recalls, RecallInv
  <2> QED BY <2>1, <2>2 DEF EndPass, Caching, Reading
<1>2. Reading /\ Reading' /\ (Reading \/ pc = "idle")' /\ (pc \notin {"pass", "visit"})'
      /\ (pc \notin {"visit", "block"})' /\ pc \in {"pass", "visit"}
  BY <1>1 DEF Reading
<1>3. /\ StoreRight /\ IsDerived(d) /\ used \in Nat /\ used > 0 /\ next = Len(task.examples) + 1
      /\ StandsRight /\ PassRight
      /\ Len(store) \in Nat /\ Len(store) < Unsigned - 1 /\ Unsigned \in Nat
  BY <1>2, FoundReading
<1>4. /\ store' = store /\ next' = next /\ examples' = examples /\ task' = task /\ d' = d /\ used' = used
      /\ ~Found(Advanced(Standing)) /\ Stands(Advanced(Standing))
  BY <1>1 DEF EndPass, Recalls
<1>5. StoreRight' BY <1>3, <1>4, StoreStays
<1>6. IsDerived(d)' BY <1>3, <1>4 DEF IsDerived
<1>7. used' \in Nat /\ used' > 0 /\ next' = Len(task'.examples) + 1 BY <1>3, <1>4
<1>8. StandsRight' BY <1>3, <1>4, EndStands DEF Recalls
<1> QED BY <1>2, <1>5, <1>6, <1>7, <1>8, ArrivesReading

LEMMA RecallAdvance == ASSUME Recalls, Advance PROVE RecallInv'
<1>1. pc = "pass" /\ pc' = "visit" BY DEF Advance
<1>2. Reading /\ Reading' /\ (Reading \/ pc = "idle")' /\ pc \in {"pass", "visit"}
  BY <1>1 DEF Reading
<1>3. /\ StoreRight /\ IsDerived(d) /\ used \in Nat /\ used > 0 /\ next = Len(task.examples) + 1
      /\ PassRight /\ Len(store) = Len(Listed)
      /\ Len(store) \in Nat /\ Len(store) < Unsigned - 1 /\ Unsigned \in Nat
  BY <1>2, FoundReading
<1>4. /\ store' = store /\ next' = next /\ examples' = examples /\ task' = task /\ used' = used
      /\ Found(Advanced(Standing)) /\ Stands(Advanced(Standing)) /\ visited' = visited + 1
      /\ d' = IF use_file THEN Loaded(Advanced(Standing)) ELSE d
  BY <1>1 DEF Advance, Recalls, storeVars
<1>5. StoreRight' BY <1>3, <1>4, StoreStays
<1>6. used' \in Nat /\ used' > 0 /\ next' = Len(task'.examples) + 1 BY <1>3, <1>4
<1>7. IsDerived(d)' /\ StandsRight' /\ PassRight' /\ AtRecord'
  BY <1>3, <1>4, AdvanceArrives DEF Recalls
<1> QED BY <1>2, <1>5, <1>6, <1>7, ArrivesReading

LEMMA RecallVisit == ASSUME Recalls, Visit PROVE RecallInv'
<1>1. pc = "visit" /\ pc' = "pass" /\ Cached BY DEF Visit, Recalls
<1>2. /\ Reading /\ Reading' /\ (Reading \/ pc = "idle")' /\ (pc \notin {"visit", "block"})'
      /\ pc \in {"pass", "visit"} /\ pc \in {"visit", "block"}
  BY <1>1 DEF Reading
<1>3. /\ StoreRight /\ IsDerived(d) /\ used \in Nat /\ used > 0 /\ next = Len(task.examples) + 1
      /\ PassRight /\ StandsRight /\ AtRecord /\ Len(store) \in Nat
  BY <1>2, FoundReading
<1>4. /\ next' = next /\ examples' = examples /\ task' = task /\ used' = used /\ visited' = visited
      /\ store_cursor' = store_cursor /\ rewind_store' = rewind_store /\ current_i' = current_i
      /\ LET x == get_order(Current)
         IN  IF ~use_file THEN store' = [store EXCEPT ![store_cursor] = free_order(x)] /\ d' = d
             ELSE d' = free_order(x) /\ store' = store
  BY <1>1 DEF Visit, Recalls
<1>5. used' \in Nat /\ used' > 0 /\ next' = Len(task'.examples) + 1 BY <1>3, <1>4
<1>6. StoreRight' /\ IsDerived(d)' /\ StandsRight' /\ PassRight' BY <1>3, <1>4, VisitKeeps DEF Recalls
<1> QED BY <1>2, <1>5, <1>6, ArrivesReading

(* From one record to another, a step at a time. *)
At(a, c, r) == [i |-> a, cursor |-> c, rewind |-> r]
IsMoves(begin, steps, h) == h = [k \in 0..steps |-> IF k = 0 THEN begin ELSE Advanced(h[k - 1])]

(* a place with records ahead *)
Ahead(a, c, r, steps) ==
  /\ a \in Nat /\ c \in Nat /\ steps \in Nat /\ a + steps < Len(store)
  /\ IF use_file THEN steps > 0 => c = a + 2 ELSE ~r

LEMMA AdvancedOnce ==
  ASSUME Len(store) \in Nat, Len(store) < Unsigned - 1, Unsigned \in Nat,
         NEW a \in Nat, NEW c \in Nat, NEW r, a + 1 < Len(store),
         IF use_file THEN c <= Len(store) ELSE ~r
  PROVE  Advanced(At(a, c, r)) = At(a + 1, c + 1, r)
<1>1. (a + 1) % Unsigned = a + 1
  <2>1. a \in 0..(Unsigned - 1) /\ a # Unsigned - 1 OBVIOUS
  <2> QED BY <2>1, Wraps
<1>2. PICK b : b = a + 1 OBVIOUS
<1>3. (a + 1) % Unsigned = b BY <1>1, <1>2
<1>4. CASE use_file
  <2>1. ~AtEnd(At(a, c, r)) BY <1>4 DEF AtEnd, At
  <2> QED BY <1>2, <1>3, <1>4, <2>1 DEF Advanced, At
<1>5. CASE ~use_file
  <2>1. ~At(a, c, r).rewind BY <1>5 DEF At
  <2> QED BY <1>2, <1>3, <1>5, <2>1 DEF Advanced, At
<1> QED BY <1>4, <1>5

LEMMA MovesLand ==
  ASSUME Len(store) \in Nat, Len(store) < Unsigned - 1, Unsigned \in Nat,
         NEW a, NEW c, NEW r, NEW steps, Ahead(a, c, r, steps)
  PROVE  (CHOOSE h : IsMoves(At(a, c, r), steps, h))[steps] = At(a + steps, c + steps, r)
<1> USE DEF Ahead
<1>1. ASSUME NEW k \in 0..steps, k # 0
      PROVE  Advanced(At(a + (k - 1), c + (k - 1), r)) = At(a + k, c + k, r)
  <2>1. PICK b, e : b = a + (k - 1) /\ e = c + (k - 1) OBVIOUS
  <2>2. b \in Nat /\ e \in Nat /\ b + 1 < Len(store) /\ b + 1 = a + k /\ e + 1 = c + k BY <1>1, <2>1
  <2>3. IF use_file THEN e <= Len(store) ELSE ~r
    <3>1. CASE use_file
      <4>1. c = a + 2 BY <1>1, <3>1
      <4> QED BY <1>1, <2>1, <3>1, <4>1
    <3>2. CASE ~use_file BY <3>2
    <3> QED BY <3>1, <3>2
  <2>4. Advanced(At(b, e, r)) = At(b + 1, e + 1, r) BY <2>2, <2>3, AdvancedOnce
  <2> QED BY <2>1, <2>2, <2>4
<1> DEFINE f == [k \in 0..steps |-> At(a + k, c + k, r)]
<1>2. IsMoves(At(a, c, r), steps, f)
  <2>1. ASSUME NEW k \in 0..steps
        PROVE  f[k] = IF k = 0 THEN At(a, c, r) ELSE Advanced(f[k - 1])
    <3>1. CASE k = 0
      <4>1. a + k = a /\ c + k = c BY <3>1
      <4> QED BY <3>1, <4>1
    <3>2. CASE k # 0
      <4>1. k - 1 \in 0..steps BY <3>2
      <4>2. f[k - 1] = At(a + (k - 1), c + (k - 1), r) BY <4>1
      <4> QED BY <1>1, <3>2, <4>2
    <3> QED BY <3>1, <3>2
  <2>2. f = [k \in 0..steps |-> f[k]] OBVIOUS
  <2> HIDE DEF f
  <2> QED BY <2>1, <2>2 DEF IsMoves
<1>3. PICK h : h = CHOOSE x : IsMoves(At(a, c, r), steps, x) OBVIOUS
<1>4. IsMoves(At(a, c, r), steps, h)
  <2> HIDE DEF f
  <2> QED BY <1>2, <1>3
<1> DEFINE V == {k \in Nat : k <= steps => h[k] = At(a + k, c + k, r)}
<1>5. 0 \in V
  <2>1. h[0] = At(a, c, r) BY <1>4 DEF IsMoves
  <2>2. a + 0 = a /\ c + 0 = c OBVIOUS
  <2> QED BY <2>1, <2>2
<1>6. ASSUME NEW k \in Nat, k \in V PROVE k + 1 \in V
  <2> SUFFICES ASSUME k + 1 <= steps PROVE h[k + 1] = At(a + (k + 1), c + (k + 1), r) OBVIOUS
  <2>1. k + 1 \in 0..steps /\ k + 1 # 0 /\ (k + 1) - 1 = k OBVIOUS
  <2>2. h[k + 1] = Advanced(h[k]) BY <1>4, <2>1 DEF IsMoves
  <2>3. h[k] = At(a + k, c + k, r) BY <1>6
  <2>4. Advanced(At(a + k, c + k, r)) = At(a + (k + 1), c + (k + 1), r) BY <1>1, <2>1
  <2> QED BY <2>2, <2>3, <2>4
<1>7. steps \in V
  <2> HIDE DEF V
  <2> QED BY NatSetInduction, <1>5, <1>6
<1> QED BY <1>3, <1>7

LEMMA NoMove ==
  ASSUME NEW begin
  PROVE  (CHOOSE h : IsMoves(begin, 0, h))[0] = begin
<1>1. IsMoves(begin, 0, [k \in 0..0 |-> begin]) BY DEF IsMoves
<1>2. PICK h : h = CHOOSE x : IsMoves(begin, 0, x) OBVIOUS
<1>3. IsMoves(begin, 0, h) BY <1>1, <1>2
<1>4. h[0] = begin BY <1>3 DEF IsMoves
<1> QED BY <1>2, <1>4

(* where operator[] begins, and what it does from there *)
BlockBegin(i) == IF FromStart(i) THEN Advanced(Rewound(Standing)) ELSE Standing
BlockSteps(i) == IF BlockBegin(i).i < i THEN i - BlockBegin(i).i ELSE 0
BlockAt(i) == (CHOOSE h : IsMoves(BlockBegin(i), BlockSteps(i), h))[BlockSteps(i)]

LEMMA BlockDef ==
  ASSUME NEW i, Block(i)
  PROVE  /\ Stands(BlockAt(i))
         /\ d' = IF use_file /\ (FromStart(i) \/ current_i < i) THEN Loaded(BlockAt(i)) ELSE d
BY DEF Block, BlockAt, BlockBegin, BlockSteps, IsMoves

LEMMA BlockArrives ==
  ASSUME task' = task, use_file' <=> use_file, StoreRight, IsDerived(d), used \in Nat,
         used > 0 => StandsRight,
         NEW i \in 0..(Len(store) - 1), used = 0 => i = 0, Block(i),
         Len(store) \in Nat, Len(store) < Unsigned - 1, Unsigned \in Nat
  PROVE  IsDerived(d)' /\ StandsRight' /\ AtRecord'
<1>1. Listed' = Listed /\ store' = store /\ visited' = i + 1 BY LinesStay DEF Block
<1>2. PICK n : n = Len(store) OBVIOUS
<1>3. n \in Nat /\ i \in Nat /\ i < n /\ n < Unsigned - 1 BY <1>2
<1>4. /\ BlockAt(i).i = i
      /\ IF use_file THEN FromStart(i) \/ current_i < i => BlockAt(i).cursor = i + 2
         ELSE BlockAt(i).cursor = i + 1 /\ ~BlockAt(i).rewind
      /\ use_file /\ ~FromStart(i) /\ ~(current_i < i) =>
           /\ current_i = i /\ d.lineno = Listed[i + 1]
           /\ i < n - 1 => BlockAt(i).cursor = i + 2
  <2>1. CASE FromStart(i)
    <3>1. PICK c, r : Advanced(Rewound(Standing)) = At(0, c, r)
                      /\ c = (IF use_file THEN 2 ELSE 1) /\ (~use_file => ~r)
      <4>1. CASE use_file
        <5>1. (Unsigned - 1) + 1 = Unsigned /\ ~(1 > n) /\ Unsigned # 0 BY <1>3
        <5>2. ((Unsigned - 1) + 1) % Unsigned = 0 BY Wraps, <1>3
        <5>3. Rewound(Standing) = At(Unsigned - 1, 1, rewind_store) BY <4>1 DEF Rewound, Standing, At
        <5>4. ~AtEnd(At(Unsigned - 1, 1, rewind_store)) BY <1>2, <5>1 DEF AtEnd, At
        <5>5. Advanced(At(Unsigned - 1, 1, rewind_store)) = At(0, 2, rewind_store)
          <6>1. PICK z, t : z = Unsigned - 1 /\ t = 1 + 1 OBVIOUS
          <6>2. (z + 1) % Unsigned = 0 /\ t = 2 BY <5>2, <6>1
          <6>3. Advanced(At(z, 1, rewind_store)) = At((z + 1) % Unsigned, 1 + 1, rewind_store)
            BY <4>1, <5>4, <6>1 DEF Advanced, At
          <6> QED BY <6>1, <6>2, <6>3
        <5> QED BY <4>1, <5>3, <5>5
      <4>2. CASE ~use_file
        <5>1. Rewound(Standing).rewind = TRUE BY <4>2 DEF Rewound
        <5>2. Advanced(Rewound(Standing)) = At(0, 1, FALSE) BY <4>2, <5>1 DEF Advanced, At
        <5> QED BY <4>2, <5>2
      <4> QED BY <4>1, <4>2
    <3>2. BlockBegin(i) = At(0, c, r) BY <2>1, <3>1 DEF BlockBegin
    <3>3. BlockSteps(i) = i BY <1>3, <3>2 DEF BlockSteps, At
    <3>4. Ahead(0, c, r, i) BY <1>2, <1>3, <3>1 DEF Ahead
    <3>5. BlockAt(i) = At(0 + i, c + i, r) BY <3>2, <3>3, <3>4, MovesLand DEF BlockAt
    <3> QED BY <1>3, <2>1, <3>1, <3>5 DEF At
  <2>2. CASE ~FromStart(i)
    <3>1. i # 0 /\ ~(i < current_i) /\ used > 0 BY <2>2 DEF FromStart
    <3>2. StandsRight BY <3>1
    <3>3. BlockBegin(i) = At(current_i, store_cursor, rewind_store)
      BY <2>2 DEF BlockBegin, Standing, At
    <3>4. current_i # Unsigned - 1 BY <1>3, <3>1
    <3>5. CASE use_file
      <4>1. /\ current_i \in 0..(n - 1) /\ d.lineno = Listed[current_i + 1]
            /\ current_i < n - 1 => store_cursor = current_i + 2
        BY <1>2, <3>2, <3>4, <3>5 DEF StandsRight
      <4>2. CASE current_i < i
        <5>1. store_cursor = current_i + 2 /\ current_i \in Nat BY <1>3, <4>1, <4>2
        <5>2. BlockSteps(i) = i - current_i BY <3>3, <4>2 DEF BlockSteps, At
        <5>3. PICK s : s = i - current_i OBVIOUS
        <5>4. s \in Nat /\ current_i + s = i /\ store_cursor + s = i + 2 BY <1>3, <4>2, <5>1, <5>3
        <5>5. Ahead(current_i, store_cursor, rewind_store, s)
          BY <1>2, <1>3, <3>5, <5>1, <5>4 DEF Ahead
        <5>6. BlockAt(i) = At(current_i + s, store_cursor + s, rewind_store)
          BY <3>3, <5>2, <5>3, <5>5, MovesLand DEF BlockAt
        <5>7. BlockAt(i) = At(i, i + 2, rewind_store) BY <5>4, <5>6
        <5> QED BY <3>5, <4>2, <5>7 DEF At
      <4>3. CASE ~(current_i < i)
        <5>1. current_i = i BY <1>3, <3>1, <4>1, <4>3
        <5>2. BlockSteps(i) = 0 BY <3>3, <4>3 DEF BlockSteps, At
        <5>3. BlockAt(i) = At(i, store_cursor, rewind_store)
          <6>1. BlockBegin(i) = At(i, store_cursor, rewind_store) BY <3>3, <5>1
          <6> QED BY <5>2, <6>1, NoMove DEF BlockAt
        <5> QED BY <2>2, <3>5, <4>1, <4>3, <5>1, <5>3 DEF At
      <4> QED BY <4>2, <4>3
    <3>6. CASE ~use_file
      <4>1. current_i \in 0..n /\ ~rewind_store /\ store_cursor = current_i + 1
        BY <1>2, <3>2, <3>4, <3>6 DEF StandsRight
      <4>2. current_i \in Nat /\ current_i <= i BY <1>3, <3>1, <4>1
      <4>3. BlockSteps(i) = i - current_i BY <1>3, <3>3, <4>2 DEF BlockSteps, At
      <4>4. PICK s : s = i - current_i OBVIOUS
      <4>5. s \in Nat /\ current_i + s = i /\ store_cursor + s = i + 1 BY <1>3, <4>1, <4>2, <4>4
      <4>6. Ahead(current_i, store_cursor, rewind_store, s)
        BY <1>2, <1>3, <3>6, <4>1, <4>2, <4>5 DEF Ahead
      <4>7. BlockAt(i) = At(current_i + s, store_cursor + s, rewind_store)
        BY <3>3, <4>3, <4>4, <4>6, MovesLand DEF BlockAt
      <4>8. BlockAt(i) = At(i, i + 1, rewind_store) BY <4>5, <4>7
      <4> QED BY <3>6, <4>1, <4>8 DEF At
    <3> QED BY <3>5, <3>6
  <2> QED BY <2>1, <2>2
<1>5. IsDerived(d') /\ (use_file => d'.lineno = Listed[i + 1])
  <2>1. CASE use_file /\ (FromStart(i) \/ current_i < i)
    <3>1. d' = Loaded(BlockAt(i)) BY <2>1, BlockDef
    <3>2. BlockAt(i).cursor = (i + 1) + 1 BY <1>3, <1>4, <2>1
    <3>3. i + 1 \in 1..Len(store) BY <1>2, <1>3
    <3> QED BY <3>1, <3>2, <3>3, LoadedRecord
  <2>2. CASE ~(use_file /\ (FromStart(i) \/ current_i < i))
    <3>1. d' = d BY <2>2, BlockDef
    <3> QED BY <1>4, <2>2, <3>1
  <2> QED BY <2>1, <2>2
<1>6. current_i' = i /\ store_cursor' = BlockAt(i).cursor /\ rewind_store' = BlockAt(i).rewind
  BY <1>4, BlockDef DEF Stands
<1>7. IsDerived(d)' BY <1>5 DEF IsDerived
<1>8. AtRecord' BY <1>1, <1>2, <1>3, <1>4, <1>5, <1>6 DEF AtRecord
<1>9. StandsRight'
  <2>1. CASE use_file
    <3>1. i < n - 1 => store_cursor' = i + 2 BY <1>4, <1>6, <2>1
    <3> QED BY <1>1, <1>2, <1>3, <1>5, <1>6, <2>1, <3>1 DEF StandsRight
  <2>2. CASE ~use_file BY <1>1, <1>2, <1>3, <1>4, <1>6, <2>2 DEF StandsRight
  <2> QED BY <2>1, <2>2
<1> QED BY <1>7, <1>8, <1>9

LEMMA RecallBlock == ASSUME Recalls, NEW i \in 0..(Len(store) - 1), Block(i) PROVE RecallInv'
<1>1. pc = "idle" /\ pc' = "block" BY DEF Block
<1>2. /\ (Reading \/ pc = "idle") /\ (Reading \/ pc = "idle")' /\ (pc \notin {"pass", "visit"})'
  BY <1>1 DEF Reading
<1>3. /\ StoreRight /\ IsDerived(d) /\ used \in Nat /\ next = Len(task.examples) + 1
      /\ used > 0 => StandsRight
      /\ Len(store) \in Nat /\ Len(store) < Unsigned - 1 /\ Unsigned \in Nat
  BY <1>2, FoundReading
<1>4. /\ store' = store /\ next' = next /\ examples' = examples /\ task' = task
      /\ used' = used + 1 /\ (used = 0 => i = 0)
  BY DEF Block, Recalls
<1>5. StoreRight' BY <1>3, <1>4, StoreStays
<1>6. used' \in Nat /\ used' > 0 /\ next' = Len(task'.examples) + 1 BY <1>3, <1>4, SuccessorUsed
<1>7. IsDerived(d)' /\ StandsRight' /\ AtRecord' BY <1>3, <1>4, BlockArrives DEF Recalls
<1> QED BY <1>2, <1>5, <1>6, <1>7, ArrivesReading

LEMMA RecallStutter == ASSUME Recalls, UNCHANGED vars PROVE RecallInv'
<1>1. Lines' = Lines /\ Goods' = Goods /\ Listed' = Listed BY LinesStay DEF Recalls
<1> QED
  BY <1>1 DEF vars, derivingVars, storeVars, Recalls, RecallInv, StoreRight, StandsRight, PassRight,
              AtRecord, Caching, Reading, IsDerived

LEMMA RecallStep ==
  DerivationInv /\ LongEnough /\ RecallInv /\ [Next]_vars => LongEnough' /\ RecallInv'
<1> SUFFICES ASSUME DerivationInv, LongEnough, RecallInv, [Next]_vars PROVE LongEnough' /\ RecallInv'
  OBVIOUS
<1>1. task \in Tasks /\ IsTask(task) /\ (Derives => Explored(Example, id_of_state, g, remove, stack))
  BY TasksAssumption DEF DerivationInv
<1>2. task' = task
  BY DEF Next, vars, NextExample, Deriving, Compute, Keep, mark_end, BeginPass, Advance, Visit, NoneFound,
         EndPass, Again, Block
<1>3. LongEnough' BY <1>2, LinesStay
<1>4. (Cached' <=> Cached) /\ (use_file' <=> use_file) BY <1>2 DEF Cached, use_file
<1>5. ASSUME ~Cached PROVE RecallInv' BY <1>4, <1>5 DEF RecallInv
<1>6. ASSUME Cached PROVE RecallInv'
  <2>1. Recalls BY <1>1, <1>2, <1>4, <1>6 DEF Recalls
  <2>2. CASE NextExample BY <2>1, <2>2, RecallNextExample
  <2>3. CASE Deriving BY <2>1, <2>3, RecallDeriving
  <2>4. CASE Compute BY <1>1, <2>1, <2>4, RecallCompute
  <2>5. CASE Keep BY <2>1, <2>5, RecallKeep
  <2>6. CASE mark_end BY <2>1, <2>6, RecallMarkEnd
  <2>7. CASE BeginPass BY <2>1, <2>7, RecallBeginPass
  <2>8. CASE Advance BY <2>1, <2>8, RecallAdvance
  <2>9. CASE Visit BY <2>1, <2>9, RecallVisit
  <2>10. CASE NoneFound BY <1>6, <2>10 DEF NoneFound
  <2>11. CASE EndPass BY <2>1, <2>11, RecallEndPass
  <2>12. CASE Again BY <2>1, <2>12, RecallAgain
  <2>13. CASE \E i \in 0..Len(store) - 1 : Block(i)
    <3>1. PICK i \in 0..(Len(store) - 1) : Block(i) BY <2>13
    <3> QED BY <2>1, <3>1, RecallBlock
  <2>14. CASE UNCHANGED vars BY <2>1, <2>14, RecallStutter
  <2> QED
    BY <2>2, <2>3, <2>4, <2>5, <2>6, <2>7, <2>8, <2>9, <2>10, <2>11, <2>12, <2>13, <2>14 DEF Next
<1> QED BY <1>3, <1>5, <1>6

LEMMA InvRecalls == DerivationInv /\ RecallInv => RecallsExample
<1> SUFFICES ASSUME DerivationInv, RecallInv, Cached, pc \in {"visit", "block"}
             PROVE  LET good == Among([j \in DOMAIN task.examples |-> j],
                                      {n \in DOMAIN task.examples : Derivable(n)})
                    IN  /\ visited \in DOMAIN good
                        /\ use_file \/ store_cursor \in DOMAIN store
                        /\ Current.lineno = good[visited]
  BY DEF RecallsExample
<1>1. ~Caching BY DEF Caching
<1>2. StoreRight /\ next = Len(task.examples) + 1 /\ AtRecord BY <1>1 DEF RecallInv
<1>3. IsTask(task) /\ task \in Tasks BY TasksAssumption DEF DerivationInv
<1>4. /\ Len(store) \in Nat /\ Len(store) = Len(Listed) BY <1>2, <1>3, StoreFits
<1>5. DOMAIN task.examples = 1..Len(task.examples) BY <1>3 DEF IsTask
<1>6. PICK good : good = Among([j \in DOMAIN task.examples |-> j],
                               {n \in DOMAIN task.examples : Derivable(n)})
  OBVIOUS
<1>7. good = Listed BY <1>5, <1>6 DEF Listed, Kept, Goods, Lines
<1>8. DOMAIN good = 1..Len(store) /\ DOMAIN store = 1..Len(store)
  <2>1. Listed \in Seq(Goods) BY <1>3, GoodNumbers DEF IsNumbering
  <2>2. store \in Seq(Range(store)) BY <1>2 DEF StoreRight
  <2> QED BY <1>4, <1>7, <2>1, <2>2
<1>9. visited \in 1..Len(store) BY <1>2 DEF AtRecord
<1>10. CASE use_file BY <1>2, <1>6, <1>7, <1>8, <1>9, <1>10 DEF AtRecord, Current
<1>11. CASE ~use_file
  <2>1. store_cursor = visited BY <1>2, <1>11 DEF AtRecord
  <2>2. store[visited].lineno = Listed[visited] BY <1>2, <1>9 DEF StoreRight
  <2> QED BY <1>6, <1>7, <1>8, <1>9, <1>11, <2>1, <2>2 DEF Current
<1> QED BY <1>10, <1>11

(* What serialize_batch gives back is of the example it is taken for: the so     *)
(* many-th that has derivations, in every pass and for blocks asked for in any   *)
(* order and between passes, from memory or from the file, though operator[]     *)
(* only ever goes forward from where the last call left it, wherever current_i   *)
(* was to begin with.  Paths are compared up to a length that is long enough.    *)
THEOREM ExamplesRecalled == LongEnough /\ Spec => []RecallsExample
<1>1. LongEnough /\ Init => DerivationInv /\ LongEnough /\ RecallInv BY DerivationInit, RecallInit
<1>2. /\ DerivationInv /\ LongEnough /\ RecallInv /\ [Next]_vars
      => (DerivationInv /\ LongEnough /\ RecallInv)'
  BY DerivationStep, RecallStep
<1>3. DerivationInv /\ LongEnough /\ RecallInv => RecallsExample BY InvRecalls
<1> QED BY <1>1, <1>2, <1>3, PTL DEF Spec
=============================================================================
