---------------------------- MODULE ComposeProofs ----------------------------
(***************************************************************************)
(* Proofs about Compose: the worklist numbers every trio once, leaves none *)
(* unexpanded, and makes exactly the arcs of the moves; and about chains   *)
(* of compositions: the recorded chains are right, no arc is made twice.   *)
(***************************************************************************)
EXTENDS CompositionChain, SumTheorems, FiniteSetTheorems, SequenceTheorems

(* The code of the two loops of set_compose, over the arcs of the left and of
   the right machine, is "duplicated ... except switching order of in/out"
   (compose.cc:389): both find the same moves, whichever machine is larger. *)
THEOREM LoopsAgree ==
  ASSUME NEW x, NEW n, NEW t
  PROVE  MovesByLeft(x, n, t) = MovesByRight(x, n, t)
<1> DEFINE A == From(x.lhs, t.qa)
           B == From(x.rhs, t.qb)
           OnlyLeft(m) == \E l \in A : l.out = Eps /\ m \in LeftAlone(n, t, l)
           OnlyRight(m) == \E r \in B : r.in = Eps /\ m \in RightAlone(n, t, r)
           Match(m) == \E l \in A, r \in B :
                         l.out = r.in /\ (l.out = Eps => t.filter = 0) /\ m = Both(n, l, r)
<1>1. ASSUME NEW m
      PROVE  m \in MovesByLeft(x, n, t) <=> OnlyLeft(m) \/ Match(m) \/ OnlyRight(m)
  <2> DEFINE F(l) == IF l.out = Eps
                     THEN LeftAlone(n, t, l)
                            \cup {Both(n, l, r) : r \in {y \in B : y.in = Eps /\ t.filter = 0}}
                     ELSE {Both(n, l, r) : r \in {y \in B : y.in = l.out}}
  <2>1. m \in MovesByLeft(x, n, t) <=> (\E l \in A : m \in F(l)) \/ OnlyRight(m)
    <3> DEFINE InLoop == UNION {F(l) : l \in A}
               After == UNION {RightAlone(n, t, r) : r \in {y \in B : y.in = Eps}}
    <3>1. MovesByLeft(x, n, t) = InLoop \cup After
      BY DEF MovesByLeft
    <3>2. m \in InLoop <=> \E l \in A : m \in F(l)
      OBVIOUS
    <3>3. m \in After <=> OnlyRight(m)
      OBVIOUS
    <3> HIDE DEF InLoop, After, OnlyLeft, OnlyRight, F
    <3> QED BY <3>1, <3>2, <3>3
  <2>2. ASSUME NEW l
        PROVE  m \in F(l) <=>
                 \/ l.out = Eps /\ m \in LeftAlone(n, t, l)
                 \/ \E r \in B : l.out = r.in /\ (l.out = Eps => t.filter = 0) /\ m = Both(n, l, r)
    BY DEF LeftAlone
  <2> HIDE DEF A, B, F
  <2> QED BY <2>1, <2>2
<1>2. ASSUME NEW m
      PROVE  m \in MovesByRight(x, n, t) <=> OnlyLeft(m) \/ Match(m) \/ OnlyRight(m)
  <2> DEFINE F(r) == IF r.in = Eps
                     THEN RightAlone(n, t, r)
                            \cup {Both(n, l, r) : l \in {y \in A : y.out = Eps /\ t.filter = 0}}
                     ELSE {Both(n, l, r) : l \in {y \in A : y.out = r.in}}
  <2>1. m \in MovesByRight(x, n, t) <=> (\E r \in B : m \in F(r)) \/ OnlyLeft(m)
    <3> DEFINE InLoop == UNION {F(r) : r \in B}
               After == UNION {LeftAlone(n, t, l) : l \in {y \in A : y.out = Eps}}
    <3>1. MovesByRight(x, n, t) = InLoop \cup After
      BY DEF MovesByRight
    <3>2. m \in InLoop <=> \E r \in B : m \in F(r)
      OBVIOUS
    <3>3. m \in After <=> OnlyLeft(m)
      OBVIOUS
    <3> HIDE DEF InLoop, After, OnlyLeft, OnlyRight, F
    <3> QED BY <3>1, <3>2, <3>3
  <2>2. ASSUME NEW r
        PROVE  m \in F(r) <=>
                 \/ r.in = Eps /\ m \in RightAlone(n, t, r)
                 \/ \E l \in A : l.out = r.in /\ (l.out = Eps => t.filter = 0) /\ m = Both(n, l, r)
    BY DEF RightAlone
  <2> HIDE DEF A, B, F
  <2> QED BY <2>1, <2>2
<1> QED BY <1>1, <1>2

(* the same moves in any case, hence none that depends on IndexThreshold *)
COROLLARY MovesAreThoseByLeft ==
  ASSUME NEW x, NEW n, NEW t
  PROVE  Moves(x, n, t) = MovesByLeft(x, n, t)
BY LoopsAgree DEF Moves

-----------------------------------------------------------------------------
Shape ==
  /\ numStates \in Nat
  /\ stateMap \in [DOMAIN stateMap -> Nat]
  /\ arcStateMap \in [DOMAIN arcStateMap -> Nat]
  /\ queue \in Seq(DOMAIN stateMap)
  /\ Start \in DOMAIN stateMap /\ source \in DOMAIN stateMap
NumbersUsed ==
  /\ \A t \in DOMAIN stateMap : stateMap[t] < numStates
  /\ \A k \in DOMAIN arcStateMap : arcStateMap[k] < numStates
PendingAreMoves ==
  \A m \in pending :
    \/ \E t \in DOMAIN stateMap : m \in MovesOf(input, stateMap[t], t)
    \/ \E k \in DOMAIN arcStateMap : m \in MovesFromMediate(input, arcStateMap[k], k)
HalvesOfSource == halves \subseteq HalvesOf(input, source)
Idles == pc \in {"done", "invalid"} => pending = {} /\ halves = {} /\ (pc = "done" => queue = <<>>)
Active == pc \in {"compose", "done"}

IInv ==
  /\ Shape /\ NumbersUsed /\ NumbersDistinct /\ QueueDistinct
  /\ PendingAreMoves /\ HalvesOfSource
  /\ (Active => Closed) /\ Sound /\ Idles

-----------------------------------------------------------------------------
LEMMA BeginEstablishes ==
  ASSUME NEW x, Begin(x)
  PROVE  IInv'
<1> USE DEF Begin
<1>1. Shape'
  BY DEF Shape
<1>2. NumbersUsed'
  BY DEF NumbersUsed
<1>3. NumbersDistinct'
  BY DEF NumbersDistinct
<1>4. QueueDistinct'
  BY DEF QueueDistinct
<1>5. PendingAreMoves' /\ HalvesOfSource' /\ Idles'
  BY DEF PendingAreMoves, HalvesOfSource, Idles
<1>6. Visited' = {}
  BY DEF Visited, Waiting
<1>7. Closed'
  BY <1>6 DEF Closed
<1>8. Sound'
  BY DEF Sound
<1> QED BY <1>1, <1>2, <1>3, <1>4, <1>5, <1>7, <1>8 DEF IInv

LEMMA ExpandKeeps ==
  ASSUME IInv, Expand
  PROVE  IInv'
<1> DEFINE t == queue[Len(queue)]
<1>0. /\ pc = "compose" /\ pc' = pc /\ input' = input /\ stateMap' = stateMap
      /\ arcStateMap' = arcStateMap /\ numStates' = numStates /\ arcs' = arcs
      /\ pending = {} /\ halves = {} /\ final' = final
      /\ source' = t /\ pending' = MovesOf(input, stateMap[t], t) /\ halves' = HalvesOf(input, t)
  BY DEF Expand, Expanded
<1>1. queue \in Seq(DOMAIN stateMap) /\ queue # <<>> /\ Len(queue) \in Nat \ {0}
  BY DEF IInv, Shape, Expand
<1>2. /\ queue' \in Seq(DOMAIN stateMap)
      /\ DOMAIN queue = 1..Len(queue)
      /\ DOMAIN queue' = 1..(Len(queue) - 1)
      /\ \A k \in DOMAIN queue' : queue'[k] = queue[k]
      /\ t \in DOMAIN stateMap
  BY <1>1 DEF Expand
<1> HIDE DEF t
<1>3. Shape'
  BY <1>0, <1>2 DEF IInv, Shape
<1>4. NumbersUsed' /\ NumbersDistinct'
  BY <1>0 DEF IInv, NumbersUsed, NumbersDistinct
<1>5. QueueDistinct'
  BY <1>1, <1>2 DEF IInv, QueueDistinct
<1>6. PendingAreMoves' /\ HalvesOfSource' /\ Idles'
  BY <1>0, <1>2 DEF PendingAreMoves, HalvesOfSource, Idles
<1>7. Visited' \subseteq Visited \cup {t}
  BY <1>0, <1>1, <1>2 DEF Visited, Waiting, t
<1>8. Closed'
  <2> DEFINE Made(m) == \E e \in arcs : Makes(stateMap, m, e)
             HalfMade(u, l) == \E e \in arcs : MakesHalf(stateMap, arcStateMap, u, l, e)
  <2>1. /\ \A u \in Visited : \A m \in MovesOf(input, stateMap[u], u) : Made(m)
        /\ \A u \in Visited : \A l \in HalvesOf(input, u) : HalfMade(u, l)
        /\ \A k \in DOMAIN arcStateMap : \A m \in MovesFromMediate(input, arcStateMap[k], k) : Made(m)
    BY <1>0 DEF IInv, Closed, Active
  <2> HIDE DEF Made, HalfMade
  <2>2. \A u \in Visited' : \A m \in MovesOf(input, stateMap[u], u) \ pending' : Made(m)
    BY <2>1, <1>0, <1>7
  <2>3. \A u \in Visited' : \A l \in HalvesOf(input, u) :
          (u = source' /\ l \in halves') \/ HalfMade(u, l)
    BY <2>1, <1>0, <1>7
  <2>4. \A k \in DOMAIN arcStateMap : \A m \in MovesFromMediate(input, arcStateMap[k], k) \ pending' :
          Made(m)
    BY <2>1
  <2> QED BY <2>2, <2>3, <2>4, <1>0 DEF Closed, Made, HalfMade
<1>9. Sound'
  BY <1>0 DEF IInv, Sound
<1> QED BY <1>3, <1>4, <1>5, <1>6, <1>8, <1>9 DEF IInv

LEMMA ComposeArcKeeps ==
  ASSUME IInv, NEW m \in pending, ComposeArc(m)
  PROVE  IInv'
<1> DEFINE new == m.to \notin DOMAIN stateMap
           id == Recorded(m.l, m.r).id
           made == NewArc(m.from, m.l, m.r, stateMap'[m.to], id)
<1>0. /\ pc = "compose" /\ pc' = pc /\ input' = input /\ arcStateMap' = arcStateMap
      /\ source' = source /\ halves' = halves /\ final' = final
      /\ stateMap' = Inserted(stateMap, m.to, numStates)
      /\ queue' = IF new THEN Append(queue, m.to) ELSE queue
      /\ numStates' = IF new THEN numStates + 1 ELSE numStates
      /\ arcs' = arcs \cup {made}
      /\ pending' = pending \ {m}
  BY DEF ComposeArc
<1>1. /\ DOMAIN stateMap' = DOMAIN stateMap \cup {m.to}
      /\ \A t \in DOMAIN stateMap : stateMap'[t] = stateMap[t]
      /\ new => stateMap'[m.to] = numStates
      /\ stateMap' = [t \in DOMAIN stateMap' |-> stateMap'[t]]
  <2> DEFINE map == Inserted(stateMap, m.to, numStates)
  <2>1. /\ DOMAIN map = DOMAIN stateMap \cup {m.to}
        /\ \A t \in DOMAIN stateMap : map[t] = stateMap[t]
        /\ m.to \notin DOMAIN stateMap => map[m.to] = numStates
        /\ map = [t \in DOMAIN map |-> map[t]]
    BY DEF Inserted
  <2>2. stateMap' = map
    BY <1>0
  <2> HIDE DEF map
  <2> QED BY <2>1, <2>2
<1> HIDE DEF id
<1>2. queue \in Seq(DOMAIN stateMap) /\ Len(queue) \in Nat /\ DOMAIN queue = 1..Len(queue)
  BY DEF IInv, Shape
<1>3. /\ queue' \in Seq(DOMAIN stateMap')
      /\ ~new => queue' = queue
      /\ new => /\ DOMAIN queue' = 1..(Len(queue) + 1)
                /\ \A k \in DOMAIN queue : queue'[k] = queue[k]
                /\ queue'[Len(queue) + 1] = m.to
  <2>1. queue \in Seq(DOMAIN stateMap') /\ m.to \in DOMAIN stateMap'
    BY <1>1, <1>2
  <2>2. ~new => queue' = queue
    BY <1>0
  <2>3. new => queue' = Append(queue, m.to)
    BY <1>0
  <2> QED BY <1>2, <2>1, <2>2, <2>3
<1>4. Shape'
  BY <1>0, <1>1, <1>3 DEF IInv, Shape
<1>5. NumbersUsed'
  BY <1>0, <1>1 DEF IInv, NumbersUsed, Shape
<1>6. NumbersDistinct'
  BY <1>0, <1>1 DEF IInv, NumbersDistinct, NumbersUsed, Shape
<1>7. QueueDistinct'
  BY <1>2, <1>3 DEF IInv, QueueDistinct
<1>8. PendingAreMoves'
  BY <1>0, <1>1 DEF IInv, PendingAreMoves
<1>9. HalvesOfSource' /\ Idles'
  BY <1>0 DEF IInv, HalvesOfSource, Idles
<1>10. Visited' \subseteq Visited
  BY <1>1, <1>2, <1>3 DEF Visited, Waiting
<1>11. made.group = id /\ Makes(stateMap', m, made)
  BY <1>1 DEF Makes, NewArc
<1>12. /\ \A u, e : Makes(stateMap, u, e) => Makes(stateMap', u, e)
       /\ \A t \in DOMAIN stateMap : \A l, e :
            MakesHalf(stateMap, arcStateMap, t, l, e) => MakesHalf(stateMap', arcStateMap', t, l, e)
  BY <1>0, <1>1 DEF Makes, MakesHalf
<1> HIDE DEF made
<1>13. Closed'
  <2>1. Closed
    BY <1>0 DEF IInv, Active
  <2>2. \A t \in Visited' : \A u \in MovesOf(input, stateMap'[t], t) \ pending' :
          \E e \in arcs' : Makes(stateMap', u, e)
    BY <2>1, <1>0, <1>1, <1>10, <1>11, <1>12 DEF Closed, Visited
  <2>3. \A t \in Visited' : \A l \in HalvesOf(input, t) :
          (t = source /\ l \in halves) \/ \E e \in arcs' : MakesHalf(stateMap', arcStateMap', t, l, e)
    BY <2>1, <1>0, <1>10, <1>12 DEF Closed, Visited
  <2>4. \A k \in DOMAIN arcStateMap :
          \A u \in MovesFromMediate(input, arcStateMap[k], k) \ pending' :
            \E e \in arcs' : Makes(stateMap', u, e)
    BY <2>1, <1>0, <1>11, <1>12 DEF Closed
  <2> QED BY <2>2, <2>3, <2>4, <1>0 DEF Closed
<1>14. Sound'
  <2> SUFFICES ASSUME NEW e \in arcs'
               PROVE  \/ \E t \in DOMAIN stateMap' : \E u \in MovesOf(input, stateMap'[t], t) :
                            Makes(stateMap', u, e)
                      \/ \E k \in DOMAIN arcStateMap' :
                            \E u \in MovesFromMediate(input, arcStateMap'[k], k) : Makes(stateMap', u, e)
                      \/ \E t \in DOMAIN stateMap' : \E l \in HalvesOf(input, t) :
                            MakesHalf(stateMap', arcStateMap', t, l, e)
    BY <1>0 DEF Sound
  <2>1. CASE e \in arcs
    BY <2>1, <1>0, <1>1, <1>12 DEF IInv, Sound
  <2>2. CASE e = made
    BY <2>2, <1>0, <1>1, <1>11 DEF IInv, PendingAreMoves
  <2> QED BY <2>1, <2>2, <1>0
<1> QED BY <1>0, <1>4, <1>5, <1>6, <1>7, <1>8, <1>9, <1>13, <1>14 DEF IInv

LEMMA ComposeHalfKeeps ==
  ASSUME IInv, NEW l \in halves, ComposeHalf(l)
  PROVE  IInv'
<1> DEFINE k == MediateState(l, source.qb)
           new == k \notin DOMAIN arcStateMap
           id == Recorded(l, NoArc).id
           made == NewArc(stateMap[source], l, NoArc, arcStateMap'[k], id)
           added == MovesFromMediate(input, numStates, k)
<1>0. /\ pc = "compose" /\ pc' = pc /\ input' = input /\ stateMap' = stateMap
      /\ source' = source /\ queue' = queue /\ final' = final
      /\ arcStateMap' = Inserted(arcStateMap, k, numStates)
      /\ numStates' = IF new THEN numStates + 1 ELSE numStates
      /\ pending' = IF new THEN pending \cup added ELSE pending
      /\ arcs' = arcs \cup {made}
      /\ halves' = halves \ {l}
  BY DEF ComposeHalf
<1>1. /\ DOMAIN arcStateMap' = DOMAIN arcStateMap \cup {k}
      /\ \A j \in DOMAIN arcStateMap : arcStateMap'[j] = arcStateMap[j]
      /\ new => arcStateMap'[k] = numStates
      /\ arcStateMap' = [j \in DOMAIN arcStateMap' |-> arcStateMap'[j]]
  <2> DEFINE map == Inserted(arcStateMap, k, numStates)
  <2> HIDE DEF k
  <2>1. /\ DOMAIN map = DOMAIN arcStateMap \cup {k}
        /\ \A j \in DOMAIN arcStateMap : map[j] = arcStateMap[j]
        /\ k \notin DOMAIN arcStateMap => map[k] = numStates
        /\ map = [j \in DOMAIN map |-> map[j]]
    BY DEF Inserted
  <2>2. arcStateMap' = map
    BY <1>0
  <2> HIDE DEF map
  <2> QED BY <2>1, <2>2
<1>2. made.group = id /\ MakesHalf(stateMap', arcStateMap', source, l, made)
  BY <1>0, <1>1 DEF MakesHalf, NewArc
<1>3. \A t \in DOMAIN stateMap : \A j, e :
        MakesHalf(stateMap, arcStateMap, t, j, e) => MakesHalf(stateMap', arcStateMap', t, j, e)
  BY <1>0, <1>1 DEF MakesHalf
<1> HIDE DEF k, id, made, added
<1>4. Shape'
  BY <1>0, <1>1 DEF IInv, Shape
<1>5. NumbersUsed'
  BY <1>0, <1>1 DEF IInv, NumbersUsed, Shape
<1>6. NumbersDistinct'
  BY <1>0, <1>1 DEF IInv, NumbersDistinct, NumbersUsed, Shape
<1>7. QueueDistinct' /\ HalvesOfSource' /\ Idles'
  BY <1>0 DEF IInv, QueueDistinct, HalvesOfSource, Idles
<1>8. new => added = MovesFromMediate(input, arcStateMap'[k], k)
  BY <1>1 DEF added
<1>9. PendingAreMoves'
  BY <1>0, <1>1, <1>8 DEF IInv, PendingAreMoves
<1>10. Visited' = Visited
  BY <1>0 DEF Visited, Waiting
<1>11. Closed'
  <2>1. Closed /\ pending \subseteq pending'
    BY <1>0 DEF IInv, Active
  <2>2. \A t \in Visited : \A u \in MovesOf(input, stateMap[t], t) \ pending' :
          \E e \in arcs' : Makes(stateMap, u, e)
    BY <2>1, <1>0 DEF Closed
  <2>3. \A t \in Visited : \A j \in HalvesOf(input, t) :
          (t = source /\ j \in halves') \/ \E e \in arcs' : MakesHalf(stateMap', arcStateMap', t, j, e)
    BY <2>1, <1>0, <1>2, <1>3 DEF Closed, Visited
  <2>4. \A j \in DOMAIN arcStateMap' :
          \A u \in MovesFromMediate(input, arcStateMap'[j], j) \ pending' :
            \E e \in arcs' : Makes(stateMap, u, e)
    BY <2>1, <1>0, <1>1, <1>8 DEF Closed
  <2> QED BY <2>2, <2>3, <2>4, <1>0, <1>10 DEF Closed
<1>12. Sound'
  <2> SUFFICES ASSUME NEW e \in arcs'
               PROVE  \/ \E t \in DOMAIN stateMap' : \E u \in MovesOf(input, stateMap'[t], t) :
                            Makes(stateMap', u, e)
                      \/ \E j \in DOMAIN arcStateMap' :
                            \E u \in MovesFromMediate(input, arcStateMap'[j], j) : Makes(stateMap', u, e)
                      \/ \E t \in DOMAIN stateMap' : \E j \in HalvesOf(input, t) :
                            MakesHalf(stateMap', arcStateMap', t, j, e)
    BY <1>0 DEF Sound
  <2>1. CASE e \in arcs
    BY <2>1, <1>0, <1>1, <1>3 DEF IInv, Sound
  <2>2. CASE e = made
    BY <2>2, <1>0, <1>2 DEF IInv, HalvesOfSource, Shape
  <2> QED BY <2>1, <2>2, <1>0
<1> QED BY <1>0, <1>4, <1>5, <1>6, <1>7, <1>9, <1>11, <1>12 DEF IInv

LEMMA FinishKeeps ==
  ASSUME IInv, Finish
  PROVE  IInv'
<1>0. /\ pc = "compose" /\ pc' \in {"done", "invalid"}
      /\ input' = input /\ stateMap' = stateMap /\ arcStateMap' = arcStateMap
      /\ queue' = queue /\ source' = source /\ pending' = pending /\ halves' = halves
      /\ pending = {} /\ halves = {} /\ queue = <<>>
  BY DEF Finish, Expanded
<1> DEFINE locked == {LockedArc(t, numStates) : t \in Finals}
<1>1. \/ numStates' = numStates /\ arcs' = arcs
      \/ /\ Cardinality(Finals) > 1
         /\ numStates' = numStates + 1 /\ final' = numStates /\ arcs' = arcs \cup locked
  BY DEF Finish
<1>2. numStates' \in Nat /\ numStates' >= numStates /\ arcs \subseteq arcs'
  BY <1>1 DEF IInv, Shape
<1>3. Shape' /\ NumbersUsed'
  BY <1>0, <1>2 DEF IInv, Shape, NumbersUsed
<1>4. /\ NumbersDistinct' /\ QueueDistinct' /\ PendingAreMoves' /\ HalvesOfSource' /\ Idles'
      /\ Visited' = Visited
  BY <1>0 DEF IInv, NumbersDistinct, QueueDistinct, PendingAreMoves, HalvesOfSource, Idles,
              Visited, Waiting
<1>5. Closed'
  BY <1>0, <1>2, <1>4 DEF IInv, Active, Closed
<1>6. Sound'
  <2>1. CASE numStates' = numStates /\ arcs' = arcs
    BY <2>1, <1>0 DEF IInv, Sound
  <2>2. CASE /\ Cardinality(Finals) > 1
             /\ numStates' = numStates + 1 /\ final' = numStates /\ arcs' = arcs \cup locked
    <3>1. Finals # {}
      BY <2>2, FS_EmptySet
    <3>2. pc' = "done"
      BY <3>1 DEF Finish
    <3>3. ASSUME NEW e \in locked
          PROVE  e.dest = final' /\ e.in = Eps /\ e.out = Eps /\ e.weight = 1 /\ e.from = <<>>
      BY <2>2 DEF LockedArc, NoArc
    <3> HIDE DEF locked
    <3> QED BY <2>2, <3>2, <3>3, <1>0 DEF IInv, Sound
  <2> QED BY <1>1, <2>1, <2>2
<1> QED BY <1>3, <1>4, <1>5, <1>6 DEF IInv

LEMMA IdleHolds ==
  Idle => IInv
<1> SUFFICES ASSUME Idle PROVE IInv
  OBVIOUS
<1>1. Shape /\ NumbersUsed /\ NumbersDistinct /\ QueueDistinct
  BY DEF Idle, Shape, NumbersUsed, NumbersDistinct, QueueDistinct
<1>2. PendingAreMoves /\ HalvesOfSource /\ ~Active /\ Sound /\ Idles
  BY DEF Idle, PendingAreMoves, HalvesOfSource, Active, Sound, Idles
<1> QED BY <1>1, <1>2 DEF IInv

(* the recorder is no part of it *)
LEMMA RestKeeps ==
  ASSUME IInv, UNCHANGED <<pc, input, worklist, arcs, final>>
  PROVE  IInv'
<1>1. /\ pc' = pc /\ input' = input /\ stateMap' = stateMap /\ arcStateMap' = arcStateMap
      /\ numStates' = numStates /\ queue' = queue /\ source' = source /\ pending' = pending
      /\ halves' = halves /\ arcs' = arcs /\ final' = final
  BY DEF worklist
<1>2. Shape' /\ NumbersUsed' /\ NumbersDistinct' /\ QueueDistinct'
  BY <1>1 DEF IInv, Shape, NumbersUsed, NumbersDistinct, QueueDistinct
<1>3. PendingAreMoves' /\ HalvesOfSource' /\ Idles' /\ Sound'
  BY <1>1 DEF IInv, PendingAreMoves, HalvesOfSource, Idles, Sound
<1>4. Active' => Closed'
  BY <1>1 DEF IInv, Active, Closed, Visited, Waiting
<1> QED BY <1>2, <1>3, <1>4 DEF IInv

LEMMA IInvImplies ==
  IInv => Worklist /\ Complete
<1> SUFFICES ASSUME IInv PROVE Worklist /\ Complete
  OBVIOUS
<1>1. Worklist
  BY DEF IInv, Worklist, Active
<1>2. ASSUME pc = "done" PROVE Complete
  <2>0. queue = <<>> /\ pending = {} /\ Closed
    BY <1>2 DEF IInv, Idles, Active
  <2>1. Visited = DOMAIN stateMap
    <3>1. DOMAIN <<>> = {}
      OBVIOUS
    <3>2. Waiting = {}
      BY <2>0, <3>1 DEF Waiting
    <3> QED BY <3>2 DEF Visited
  <2>2. Start \in DOMAIN stateMap
    BY DEF IInv, Shape
  <2> QED BY <2>0, <2>1, <2>2 DEF Closed, Complete, Makes
<1> QED BY <1>1, <1>2 DEF Complete

-----------------------------------------------------------------------------
(* set_compose, for any two machines: a number names one state, a trio that
   has been taken off the queue gets the arcs of all its moves, and there are
   no other arcs; when it is done, no state it has numbered lacks an arc
   (compose.cc:167-551). *)
THEOREM WorklistHolds == Spec => [](Worklist /\ Complete)
<1>1. Init => IInv
  BY IdleHolds DEF Init
<1>2. IInv /\ [Next]_vars => IInv'
  <2> SUFFICES ASSUME IInv, [Next]_vars PROVE IInv'
    OBVIOUS
  <2>1. ASSUME NEW x \in Inputs, Begin(x) PROVE IInv'
    BY <2>1, BeginEstablishes
  <2>2. CASE Expand
    BY <2>2, ExpandKeeps
  <2>3. ASSUME NEW m \in pending, ComposeArc(m) PROVE IInv'
    BY <2>3, ComposeArcKeeps
  <2>4. ASSUME NEW l \in halves, ComposeHalf(l) PROVE IInv'
    BY <2>4, ComposeHalfKeeps
  <2>5. CASE Finish
    BY <2>5, FinishKeeps
  <2>6. CASE UNCHANGED vars
    BY <2>6, RestKeeps DEF vars
  <2> QED BY <2>1, <2>2, <2>3, <2>4, <2>5, <2>6 DEF Next, Step
<1> QED BY <1>1, <1>2, IInvImplies, PTL DEF Spec

LEMMA ChainIInv == ChainSpec => []IInv
<1>1. ChainInit => IInv
  BY IdleHolds DEF ChainInit
<1>2. IInv /\ [ChainNext]_chainVars => IInv'
  <2> SUFFICES ASSUME IInv, [ChainNext]_chainVars PROVE IInv'
    OBVIOUS
  <2>1. CASE ComposeNext
    BY <2>1, BeginEstablishes DEF ComposeNext
  <2>2. CASE ComposeStep
    BY <2>2, ExpandKeeps, ComposeArcKeeps, ComposeHalfKeeps, FinishKeeps DEF ComposeStep
  <2>3. CASE StartChain \/ Shrink
    BY <2>3, RestKeeps DEF StartChain, Shrink
  <2>4. CASE EmptyResult \/ EndChain \/ Stop \/ UNCHANGED chainVars
    BY <2>4, RestKeeps DEF EmptyResult, EndChain, Stop, chainVars, vars
  <2> QED BY <2>1, <2>2, <2>3, <2>4 DEF ChainNext
<1> QED BY <1>1, <1>2, PTL DEF ChainSpec

(* The same in the composition loop of carmel.cc, where a machine that was
   composed and shrunk takes part in the next composition. *)
THEOREM ChainWorklistHolds == ChainSpec => []Worklist
BY ChainIInv, IInvImplies, PTL

-----------------------------------------------------------------------------
(* The chains of input arcs.  P is the set of the arcs of the machines read. *)

NamedSet(P) ==
  \A e \in P :
    /\ e.from \in Seq(Nat) /\ Len(e.from) = 1 /\ e.weight \in Nat
    /\ \A f \in P : e.from = f.from => e = f

Named(P, x) == CHOOSE e \in P : Param(e) = x

ProductIn(P, s) ==
  LET ofLast[n \in 0..Len(s)] ==
        IF n = 0 THEN 1 ELSE Named(P, s[Len(s) - n + 1]).weight * ofLast[n - 1]
  IN  ofLast[Len(s)]

(* the chain is that of an arc with the history from and the weight w *)
Fits(P, chain, from, w) ==
  /\ chain \in Seq(Nat) /\ from \in Seq(Nat) /\ w \in Nat
  /\ \A x \in Nat : Times(x, chain) = IF IsLocked1(Named(P, x)) THEN 0 ELSE Times(x, from)
  /\ ProductIn(P, chain) = w

LEMMA NamedIs ==
  ASSUME NEW P, NamedSet(P), NEW e \in P
  PROVE  /\ Param(e) \in Nat /\ e.from = <<Param(e)>> /\ Named(P, Param(e)) = e
         /\ e.weight \in Nat /\ e.from \in Seq(Nat)
<1>1. /\ e.from \in Seq(Nat) /\ e.weight \in Nat /\ Len(e.from) = 1 BY DEF NamedSet
<1>2. e.from = <<Param(e)>> /\ Param(e) \in Nat BY <1>1 DEF Param
<1>3. \A f \in P : Param(f) = Param(e) => f = e
  <2> SUFFICES ASSUME NEW f \in P, Param(f) = Param(e) PROVE f = e OBVIOUS
  <2>1. f.from \in Seq(Nat) /\ Len(f.from) = 1 BY DEF NamedSet
  <2>2. f.from = <<Param(f)>> BY <2>1 DEF Param
  <2> QED BY <1>2, <2>2 DEF NamedSet
<1>4. Named(P, Param(e)) = e BY <1>3 DEF Named
<1> QED BY <1>1, <1>2, <1>4

(* how often x is in s, as s grows at its ends *)
LEMMA TimesFacts ==
  ASSUME NEW x, NEW s \in Seq(Nat), NEW p \in Nat
  PROVE  /\ Times(x, s) \in Nat /\ Times(x, <<>>) = 0
         /\ Times(x, s \o <<p>>) = Times(x, s) + (IF p = x THEN 1 ELSE 0)
         /\ Times(x, <<p>> \o s) = Times(x, s) + (IF p = x THEN 1 ELSE 0)
<1> DEFINE At(t) == {k \in DOMAIN t : t[k] = x}
           n == Len(s)
<1>1. n \in Nat /\ DOMAIN s = 1..n /\ IsFiniteSet(1..n) BY FS_Interval
<1>2. IsFiniteSet(At(s)) /\ Times(x, s) = Cardinality(At(s)) /\ Times(x, s) \in Nat
  BY <1>1, At(s) \in SUBSET (1..n), FS_Subset, FS_CardinalityType DEF Times
<1>3. Times(x, <<>>) = 0
  <2>1. At(<<>>) = {} OBVIOUS
  <2> QED BY <2>1, FS_EmptySet DEF Times
<1>4. Times(x, s \o <<p>>) = Times(x, s) + (IF p = x THEN 1 ELSE 0)
  <2> DEFINE t == s \o <<p>>
  <2>1. t \in Seq(Nat) /\ Len(t) = n + 1 /\ t[n + 1] = p /\ \A k \in 1..n : t[k] = s[k]
    BY <1>1, <<p>> \in Seq(Nat), Len(<<p>>) = 1, <<p>>[1] = p, ConcatProperties
  <2>2. DOMAIN t = 1..n + 1 BY <1>1, <2>1
  <2> HIDE DEF t
  <2>3. At(t) = IF p = x THEN At(s) \cup {n + 1} ELSE At(s) BY <1>1, <2>1, <2>2
  <2>4. n + 1 \notin At(s) BY <1>1
  <2> HIDE DEF At
  <2>5. Times(x, t) = Cardinality(At(t)) BY DEF Times, At
  <2>6. Cardinality(At(s) \cup {n + 1}) = Cardinality(At(s)) + 1 BY <1>2, <2>4, FS_AddElement
  <2> QED BY <1>2, <2>3, <2>5, <2>6 DEF t
<1>5. Times(x, <<p>> \o s) = Times(x, s) + (IF p = x THEN 1 ELSE 0)
  <2> DEFINE t == <<p>> \o s
             S == {k + 1 : k \in At(s)}
  <2>1. t \in Seq(Nat) /\ Len(t) = n + 1 /\ t[1] = p /\ \A k \in 1..n : t[k + 1] = s[k]
    <3>1. /\ t \in Seq(Nat) /\ Len(t) = 1 + n
          /\ \A k \in 1..1 + n : t[k] = IF k <= 1 THEN <<p>>[k] ELSE s[k - 1]
      BY <1>1, <<p>> \in Seq(Nat), Len(<<p>>) = 1, ConcatProperties
    <3> HIDE DEF t
    <3>2. \A k \in 1..n : t[k + 1] = s[k]
      <4> SUFFICES ASSUME NEW k \in 1..n PROVE t[k + 1] = s[k] OBVIOUS
      <4>1. k + 1 \in 1..1 + n /\ ~(k + 1 <= 1) /\ (k + 1) - 1 = k BY <1>1
      <4> QED BY <3>1, <4>1
    <3> QED BY <1>1, <3>1, <3>2
  <2>2. DOMAIN t = 1..n + 1 BY <1>1, <2>1
  <2> HIDE DEF t
  <2>3. At(t) = IF p = x THEN S \cup {1} ELSE S
    <3>1. ASSUME NEW k \in 1..n + 1, k # 1 PROVE t[k] = s[k - 1] /\ k - 1 \in 1..n
      <4>1. k - 1 \in 1..n /\ (k - 1) + 1 = k BY <1>1, <3>1
      <4> QED BY <2>1, <4>1
    <3>2. ASSUME NEW k \in At(t), k # 1 PROVE k \in S
      <4>1. k \in 1..n + 1 /\ t[k] = x BY <2>2
      <4>2. k - 1 \in At(s) BY <1>1, <3>1, <3>2, <4>1
      <4> QED BY <1>1, <4>1, <4>2
    <3>3. ASSUME NEW k \in At(s) PROVE k + 1 \in At(t)
      BY <1>1, <2>1, <2>2
    <3>4. 1 \in At(t) <=> p = x BY <1>1, <2>1, <2>2
    <3>5. S \subseteq At(t) BY <3>3
    <3>6. \A k \in At(t) : k # 1 => k \in S BY <3>2
    <3> HIDE DEF At, S
    <3>7. CASE p = x BY <3>4, <3>5, <3>6, <3>7
    <3>8. CASE p # x
      <4>1. At(t) \subseteq S BY <3>4, <3>6, <3>8
      <4> QED BY <3>5, <3>8, <4>1
    <3> QED BY <3>7, <3>8
  <2>4. 1 \notin S BY <1>1
  <2>5. IsFiniteSet(S) /\ Cardinality(S) = Cardinality(At(s))
    <3>1. [k \in At(s) |-> k + 1] \in Bijection(At(s), S)
      BY <1>1 DEF Bijection, Injection, Surjection, IsInjective
    <3>2. ExistsBijection(At(s), S) BY <3>1 DEF ExistsBijection
    <3> QED BY <1>2, <3>2, FS_Bijection
  <2> HIDE DEF At, S
  <2>6. Times(x, t) = Cardinality(At(t)) BY DEF Times, At
  <2>7. Cardinality(S \cup {1}) = Cardinality(S) + 1 BY <2>4, <2>5, FS_AddElement
  <2> QED BY <1>2, <2>3, <2>5, <2>6, <2>7 DEF t
<1> QED BY <1>2, <1>3, <1>4, <1>5

(* the product of the last n weights *)
IsProducts(P, s, f) ==
  f = [n \in 0..Len(s) |->
         IF n = 0 THEN 1 ELSE Named(P, s[Len(s) - n + 1]).weight * f[n - 1]]
Products(P, s) == CHOOSE f : IsProducts(P, s, f)

LEMMA ProductsDef ==
  ASSUME NEW P, NEW s \in Seq(Nat)
  PROVE  /\ ProductIn(P, s) = Products(P, s)[Len(s)]
         /\ Products(P, s)[0] = 1
         /\ \A n \in 1..Len(s) :
              Products(P, s)[n] = Named(P, s[Len(s) - n + 1]).weight * Products(P, s)[n - 1]
<1> DEFINE N == Len(s)
           W(n) == Named(P, s[N - n + 1]).weight
           Fix(m, h) == h = [n \in 0..m |-> IF n = 0 THEN 1 ELSE W(n) * h[n - 1]]
           S == {m \in Nat : \E h : Fix(m, h)}
<1>0. N \in Nat OBVIOUS
<1> HIDE DEF N
<1>1. 0 \in S
  <2>1. Fix(0, [n \in 0..0 |-> 1]) OBVIOUS
  <2> QED BY <2>1
<1>2. ASSUME NEW m \in Nat, m \in S PROVE m + 1 \in S
  <2>1. PICK h : Fix(m, h) BY <1>2
  <2> HIDE DEF W
  <2> DEFINE k == [n \in 0..(m + 1) |-> IF n = m + 1 THEN W(m + 1) * h[m] ELSE h[n]]
  <2>2. ASSUME NEW n \in 0..(m + 1) PROVE k[n] = IF n = 0 THEN 1 ELSE W(n) * k[n - 1]
    <3>1. CASE n = 0 BY <2>1, <3>1
    <3>2. CASE n = m + 1
      <4>1. n # 0 /\ n - 1 = m /\ m \in 0..(m + 1) /\ m # m + 1 BY <3>2
      <4>2. k[n] = W(m + 1) * h[m] /\ k[m] = h[m] BY <3>2, <4>1
      <4> QED BY <3>2, <4>1, <4>2
    <3>3. CASE n # 0 /\ n # m + 1
      <4>1. n \in 0..m /\ n - 1 \in 0..m /\ n - 1 # m + 1 /\ n - 1 \in 0..(m + 1) BY <3>3
      <4>2. h[n] = W(n) * h[n - 1] BY <2>1, <4>1, <3>3
      <4>3. k[n] = h[n] /\ k[n - 1] = h[n - 1] BY <4>1, <3>3
      <4> QED BY <4>2, <4>3, <3>3
    <3> QED BY <3>1, <3>2, <3>3
  <2>3. k = [n \in 0..(m + 1) |-> k[n]] OBVIOUS
  <2> HIDE DEF k
  <2>4. Fix(m + 1, k) BY <2>2, <2>3
  <2>5. \E f : Fix(m + 1, f)
    <3> HIDE DEF Fix
    <3> QED BY <2>4
  <2> QED BY <2>5
<1>3. N \in S
  <2> HIDE DEF S
  <2> QED BY NatSetInduction, <1>0, <1>1, <1>2
<1>4. \E f : IsProducts(P, s, f) BY <1>3 DEF IsProducts, N
<1>5. IsProducts(P, s, Products(P, s)) BY <1>4 DEF Products
<1>6. ProductIn(P, s) = Products(P, s)[Len(s)] BY DEF ProductIn, Products, IsProducts
<1>7. PICK f : f = Products(P, s) /\ IsProducts(P, s, f) BY <1>5
<1>8. /\ f[0] = 1
      /\ \A n \in 1..Len(s) : f[n] = Named(P, s[Len(s) - n + 1]).weight * f[n - 1]
  <2>1. Len(s) \in Nat OBVIOUS
  <2>2. \A n \in 0..Len(s) :
          f[n] = IF n = 0 THEN 1 ELSE Named(P, s[Len(s) - n + 1]).weight * f[n - 1]
    BY <1>7 DEF IsProducts
  <2>3. f[0] = 1 BY <2>1, <2>2
  <2>4. \A n \in 1..Len(s) : n \in 0..Len(s) /\ n # 0 BY <2>1
  <2> QED BY <2>2, <2>3, <2>4
<1> QED BY <1>6, <1>7, <1>8

LEMMA ProductFacts ==
  ASSUME NEW P, NEW s \in Seq(Nat), NEW p \in Nat
  PROVE  /\ ProductIn(P, <<>>) = 1
         /\ ProductIn(P, <<p>> \o s) = Named(P, p).weight * ProductIn(P, s)
<1> DEFINE t == <<p>> \o s
           n == Len(s)
           A == Products(P, s)
           B == Products(P, t)
<1>1. /\ n \in Nat /\ t \in Seq(Nat) /\ Len(t) = 1 + n
      /\ \A k \in 1..1 + n : t[k] = IF k <= 1 THEN <<p>>[k] ELSE s[k - 1]
  BY <<p>> \in Seq(Nat), Len(<<p>>) = 1, ConcatProperties
<1> HIDE DEF t
<1>2. /\ ProductIn(P, s) = A[n] /\ A[0] = 1
      /\ \A k \in 1..n : A[k] = Named(P, s[n - k + 1]).weight * A[k - 1]
  BY ProductsDef
<1>3. /\ ProductIn(P, t) = B[1 + n] /\ B[0] = 1
      /\ \A k \in 1..1 + n : B[k] = Named(P, t[(1 + n) - k + 1]).weight * B[k - 1]
  <2>1. /\ ProductIn(P, t) = B[Len(t)] /\ B[0] = 1
        /\ \A k \in 1..Len(t) : B[k] = Named(P, t[Len(t) - k + 1]).weight * B[k - 1]
    BY <1>1, ProductsDef
  <2> HIDE DEF B
  <2> QED BY <1>1, <2>1
<1> DEFINE S == {k \in Nat : k <= n => B[k] = A[k]}
<1> HIDE DEF A, B, n
<1>4. 0 \in S BY <1>2, <1>3
<1>5. ASSUME NEW k \in Nat, k \in S PROVE k + 1 \in S
  <2> SUFFICES ASSUME k + 1 <= n PROVE B[k + 1] = A[k + 1] OBVIOUS
  <2>1. k + 1 \in 1..n /\ k + 1 \in 1..1 + n /\ (k + 1) - 1 = k BY <1>1
  <2>2. (1 + n) - (k + 1) + 1 = (n - (k + 1) + 1) + 1 /\ n - (k + 1) + 1 \in 1..n BY <1>1, <2>1
  <2>3. t[(1 + n) - (k + 1) + 1] = s[n - (k + 1) + 1]
    <3> DEFINE j == n - (k + 1) + 1
    <3>1. j \in 1..n /\ (1 + n) - (k + 1) + 1 = j + 1 BY <2>2
    <3> HIDE DEF j
    <3>2. j + 1 \in 1..1 + n /\ ~(j + 1 <= 1) /\ (j + 1) - 1 = j BY <1>1, <3>1
    <3>3. t[j + 1] = s[j] BY <1>1, <3>2
    <3> QED BY <3>1, <3>3 DEF j
  <2>4. B[k + 1] = Named(P, s[n - (k + 1) + 1]).weight * B[k] BY <1>3, <2>1, <2>3
  <2>5. A[k + 1] = Named(P, s[n - (k + 1) + 1]).weight * A[k] BY <1>2, <2>1
  <2>6. B[k] = A[k] BY <1>1, <1>5
  <2> QED BY <2>4, <2>5, <2>6
<1>6. n \in S
  <2> HIDE DEF S
  <2> QED BY NatSetInduction, <1>1, <1>4, <1>5
<1>7. ProductIn(P, t) = Named(P, p).weight * ProductIn(P, s)
  <2>1. 1 + n \in 1..1 + n /\ (1 + n) - (1 + n) + 1 = 1 /\ (1 + n) - 1 = n BY <1>1
  <2>2. t[1] = p BY <1>1
  <2>3. B[1 + n] = Named(P, p).weight * B[n] BY <1>3, <2>1, <2>2
  <2>4. B[n] = A[n] BY <1>1, <1>6
  <2> QED BY <1>2, <1>3, <2>3, <2>4
<1>8. ProductIn(P, <<>>) = 1
  <2>1. <<>> \in Seq(Nat) /\ Len(<<>>) = 0 OBVIOUS
  <2> QED BY <2>1, ProductsDef
<1> QED BY <1>7, <1>8 DEF t

LEMMA NothingFits ==
  ASSUME NEW P
  PROVE  Fits(P, <<>>, <<>>, 1)
BY TimesFacts, ProductFacts, <<>> \in Seq(Nat), 0 \in Nat DEF Fits

(* an arc b of a machine read joins the chain, whichever side it is on *)
LEMMA ConsFits ==
  ASSUME NEW P, NamedSet(P), NEW b \in P,
         NEW chain, NEW from, NEW w, Fits(P, chain, from, w)
  PROVE  /\ Fits(P, ConsArc(b, chain), from \o b.from, w * b.weight)
         /\ Fits(P, ConsArc(b, chain), b.from \o from, b.weight * w)
<1> DEFINE p == Param(b)
           new == ConsArc(b, chain)
<1>1. p \in Nat /\ b.from = <<p>> /\ Named(P, p) = b /\ b.weight \in Nat BY NamedIs
<1>2. chain \in Seq(Nat) /\ from \in Seq(Nat) /\ w \in Nat /\ ProductIn(P, chain) = w BY DEF Fits
<1> HIDE DEF p
<1>3. new \in Seq(Nat) BY <1>1, <1>2 DEF ConsArc, p
<1>4. from \o b.from \in Seq(Nat) /\ b.from \o from \in Seq(Nat)
  BY <1>1, <1>2, <<p>> \in Seq(Nat), ConcatProperties
<1>5. w * b.weight \in Nat /\ b.weight * w = w * b.weight BY <1>1, <1>2
<1>6. ProductIn(P, new) = b.weight * w
  <2>1. CASE IsLocked1(b)
    <3>1. b.weight = 1 /\ new = chain BY <2>1 DEF IsLocked1, ConsArc
    <3> QED BY <1>2, <3>1
  <2>2. CASE ~IsLocked1(b)
    <3>1. new = <<p>> \o chain BY <2>2 DEF ConsArc, p
    <3> QED BY <1>1, <1>2, <3>1, ProductFacts
  <2> QED BY <2>1, <2>2
<1>7. ASSUME NEW x \in Nat
      PROVE  /\ Times(x, new) = IF IsLocked1(Named(P, x)) THEN 0 ELSE Times(x, from \o b.from)
             /\ Times(x, new) = IF IsLocked1(Named(P, x)) THEN 0 ELSE Times(x, b.from \o from)
  <2>1. /\ Times(x, from \o b.from) = Times(x, from) + (IF p = x THEN 1 ELSE 0)
        /\ Times(x, b.from \o from) = Times(x, from) + (IF p = x THEN 1 ELSE 0)
        /\ Times(x, from) \in Nat
    BY <1>1, <1>2, TimesFacts
  <2>2. Times(x, chain) = IF IsLocked1(Named(P, x)) THEN 0 ELSE Times(x, from) BY DEF Fits
  <2>3. CASE IsLocked1(b)
    <3>1. new = chain BY <2>3 DEF ConsArc
    <3>2. CASE p = x BY <1>1, <2>2, <2>3, <3>1, <3>2
    <3>3. CASE p # x BY <2>1, <2>2, <3>1, <3>3
    <3> QED BY <3>2, <3>3
  <2>4. CASE ~IsLocked1(b)
    <3>1. new = <<p>> \o chain BY <2>4 DEF ConsArc, p
    <3>2. Times(x, new) = Times(x, chain) + (IF p = x THEN 1 ELSE 0) BY <1>1, <1>2, <3>1, TimesFacts
    <3>3. CASE p = x BY <1>1, <2>1, <2>2, <2>4, <3>2, <3>3
    <3>4. CASE p # x
      <4>1. Times(x, new) = Times(x, chain)
        <5>1. Times(x, chain) \in Nat BY <1>1, <1>2, TimesFacts
        <5> QED BY <3>2, <3>4, <5>1
      <4> QED BY <2>1, <2>2, <3>4, <4>1
    <3> QED BY <3>3, <3>4
  <2> QED BY <2>3, <2>4
<1> HIDE DEF new
<1> QED BY <1>3, <1>4, <1>5, <1>6, <1>7 DEF Fits, new

-----------------------------------------------------------------------------
(* The recorder c, when the chains it has are right *)

IsArc(e) ==
  e = [src |-> e.src, in |-> e.in, out |-> e.out, dest |-> e.dest, weight |-> e.weight,
       group |-> e.group, from |-> e.from]

ArcFits(P, c, e) ==
  /\ IsArc(e) /\ e.group \in 0..Len(c.chains) - 1
  /\ Fits(P, Chain(c, e.group), e.from, e.weight)

RecorderFits(P, c) ==
  /\ c \in Recorder /\ ~c.trivial
  /\ Len(c.chains) > 0 /\ c.chains[1] = <<>>
  /\ \A x \in c.epsilon_chains :
       x[2] \in 0..Len(c.chains) - 1 /\ Chain(c, x[2]) = ConsArc(Named(P, x[1]), <<>>)

(* the arcs of one side of a composition: of a machine read, or of one composed *)
SideFits(P, c, side, e) == IF c.is_chain[side] THEN ArcFits(P, c, e) ELSE e \in P

(* d has the chains of c and perhaps more *)
Grows(c, d) ==
  /\ Len(c.chains) <= Len(d.chains) /\ d.is_chain = c.is_chain
  /\ \A k \in 1..Len(c.chains) : d.chains[k] = c.chains[k]

LEMMA GrowsKeeps ==
  ASSUME NEW P, NEW c \in Recorder, NEW d \in Recorder, Grows(c, d), NEW e
  PROVE  /\ ArcFits(P, c, e) => ArcFits(P, d, e)
         /\ \A side : SideFits(P, c, side, e) => SideFits(P, d, side, e)
<1>1. c.chains \in Seq(Seq(Nat)) /\ d.chains \in Seq(Seq(Nat)) BY DEF Recorder
<1>2. Len(c.chains) \in Nat /\ Len(d.chains) \in Nat BY <1>1
<1>3. ASSUME NEW g \in 0..Len(c.chains) - 1
      PROVE  g \in 0..Len(d.chains) - 1 /\ Chain(d, g) = Chain(c, g)
  <2>1. g + 1 \in 1..Len(c.chains) BY <1>2
  <2> QED BY <1>2, <2>1 DEF Grows, Chain
<1>4. ArcFits(P, c, e) => ArcFits(P, d, e) BY <1>3 DEF ArcFits
<1> QED BY <1>4 DEF SideFits, Grows

LEMMA RecorderFields ==
  ASSUME NEW c \in Recorder, NEW s \in Seq(Seq(Nat)), NEW x \in SUBSET (Nat \X Nat)
  PROVE  /\ LET d == [c EXCEPT !.chains = s]
            IN  /\ d \in Recorder /\ d.chains = s /\ d.is_chain = c.is_chain
                /\ d.trivial = c.trivial /\ d.epsilon_chains = c.epsilon_chains
         /\ LET d == [c EXCEPT !.epsilon_chains = x]
            IN  /\ d \in Recorder /\ d.chains = c.chains /\ d.is_chain = c.is_chain
                /\ d.trivial = c.trivial /\ d.epsilon_chains = x
<1>1. c = [trivial |-> c.trivial, chains |-> c.chains, epsilon_chains |-> c.epsilon_chains,
           is_chain |-> c.is_chain]
  BY DEF Recorder
<1>2. /\ c.trivial \in BOOLEAN /\ c.chains \in Seq(Seq(Nat))
      /\ c.epsilon_chains \in SUBSET (Nat \X Nat) /\ c.is_chain \in BOOLEAN \X BOOLEAN
  BY DEF Recorder
<1>3. [c EXCEPT !.chains = s] =
        [trivial |-> c.trivial, chains |-> s, epsilon_chains |-> c.epsilon_chains,
         is_chain |-> c.is_chain]
  BY <1>1
<1>4. [c EXCEPT !.epsilon_chains = x] =
        [trivial |-> c.trivial, chains |-> c.chains, epsilon_chains |-> x,
         is_chain |-> c.is_chain]
  BY <1>1
<1> QED BY <1>2, <1>3, <1>4 DEF Recorder

LEMMA NilFits ==
  ASSUME NEW P, NEW c, RecorderFits(P, c)
  PROVE  NilChain \in 0..Len(c.chains) - 1 /\ Chain(c, NilChain) = <<>>
<1>1. Len(c.chains) \in Nat /\ Len(c.chains) > 0 /\ c.chains[1] = <<>>
  BY DEF RecorderFits, Recorder
<1> QED BY <1>1 DEF NilChain, Chain

LEMMA PushedFits ==
  ASSUME NEW P, NEW c, RecorderFits(P, c), NEW chain \in Seq(Nat)
  PROVE  LET pushed == Pushed(c, chain)
         IN  /\ RecorderFits(P, pushed.c) /\ Grows(c, pushed.c)
             /\ pushed.id \in 0..Len(pushed.c.chains) - 1
             /\ Chain(pushed.c, pushed.id) = chain
             /\ pushed.c.epsilon_chains = c.epsilon_chains
             /\ pushed.id \in Nat
<1> DEFINE d == [c EXCEPT !.chains = Append(@, chain)]
           n == Len(c.chains)
<1>1. c \in Recorder /\ c.chains \in Seq(Seq(Nat)) /\ n \in Nat /\ n > 0
  BY DEF RecorderFits, Recorder
<1>2. CASE chain = <<>>
  <2>1. Pushed(c, chain) = [c |-> c, id |-> NilChain] BY <1>2 DEF Pushed
  <2>2. Grows(c, c) BY <1>1 DEF Grows
  <2> QED BY <1>2, <2>1, <2>2, NilFits DEF NilChain
<1>3. CASE chain # <<>>
  <2>1. Pushed(c, chain) = [c |-> d, id |-> n] BY <1>3 DEF Pushed
  <2>2. /\ d.chains = Append(c.chains, chain) /\ d.is_chain = c.is_chain /\ d.trivial = c.trivial
        /\ d.epsilon_chains = c.epsilon_chains /\ d \in Recorder
    <3>1. Append(c.chains, chain) \in Seq(Seq(Nat)) /\ {} \in SUBSET (Nat \X Nat)
      BY <1>1, AppendProperties
    <3> QED BY <1>1, <3>1, RecorderFields
  <2> HIDE DEF d
  <2>3. /\ Len(d.chains) = n + 1 /\ d.chains[n + 1] = chain
        /\ \A k \in 1..n : d.chains[k] = c.chains[k]
    BY <1>1, <2>2
  <2>4. Grows(c, d) BY <1>1, <2>2, <2>3 DEF Grows
  <2>5. ASSUME NEW g \in 0..n - 1 PROVE g \in 0..Len(d.chains) - 1 /\ Chain(d, g) = Chain(c, g)
    <3>1. g + 1 \in 1..n BY <1>1
    <3> QED BY <1>1, <2>3, <3>1 DEF Chain
  <2>6. RecorderFits(P, d)
    <3>0. 1 \in 1..n /\ n + 1 > 0 /\ c.chains[1] = <<>> BY <1>1 DEF RecorderFits
    <3>1. Len(d.chains) > 0 /\ d.chains[1] = <<>>
      <4> HIDE DEF n
      <4> QED BY <2>3, <3>0
    <3>2. \A x \in d.epsilon_chains :
            x[2] \in 0..Len(d.chains) - 1 /\ Chain(d, x[2]) = ConsArc(Named(P, x[1]), <<>>)
      BY <2>2, <2>5 DEF RecorderFits
    <3>3. ~d.trivial BY <2>2 DEF RecorderFits
    <3> QED BY <2>2, <3>1, <3>2, <3>3 DEF RecorderFits
  <2>7. Chain(d, n) = chain /\ n \in 0..Len(d.chains) - 1 BY <1>1, <2>3 DEF Chain
  <2> QED BY <1>1, <2>1, <2>2, <2>4, <2>6, <2>7
<1> QED BY <1>2, <1>3

(* record_eps, of an arc that stays on its own *)
LEMMA RecordEpsFits ==
  ASSUME NEW P, NamedSet(P), NEW c, RecorderFits(P, c), NEW side \in {1, 2},
         NEW e, SideFits(P, c, side, e)
  PROVE  LET rec == RecordEps(c, e, c.is_chain[side])
         IN  /\ RecorderFits(P, rec.c) /\ Grows(c, rec.c)
             /\ rec.id \in 0..Len(rec.c.chains) - 1
             /\ Fits(P, Chain(rec.c, rec.id), e.from, e.weight)
<1> DEFINE chained == c.is_chain[side]
           chain == ConsArc(e, <<>>)
           known == {x \in c.epsilon_chains : x[1] = Param(e)}
           new == Pushed(c, chain)
           d == [new.c EXCEPT !.epsilon_chains = @ \cup {<<Param(e), new.id>>}]
           rec == RecordEps(c, e, chained)
<1>1. /\ c \in Recorder /\ ~c.trivial /\ Len(c.chains) \in Nat /\ chained \in BOOLEAN
      /\ Grows(c, c)
  BY DEF RecorderFits, Recorder, Grows
<1>2. CASE chained
  <2>1. ArcFits(P, c, e) BY <1>2 DEF SideFits
  <2>2. OriginalId(e) = e.group BY DEF OriginalId, IsLocked1, IsLocked, LockedGroup, NilChain
  <2>3. rec = [c |-> c, id |-> e.group] BY <1>1, <1>2, <2>2 DEF RecordEps
  <2> QED BY <1>1, <2>1, <2>3 DEF ArcFits
<1>3. CASE ~chained
  <2>1. e \in P BY <1>3 DEF SideFits
  <2>2. Param(e) \in Nat /\ Named(P, Param(e)) = e /\ e.weight \in Nat /\ e.from \in Seq(Nat)
    BY <2>1, NamedIs
  <2>3. Fits(P, chain, e.from, e.weight)
    <3>1. Fits(P, chain, e.from \o <<>>, e.weight * 1)
      BY <2>1, <2>2, NothingFits, ConsFits, ConcatEmptySeq
    <3>2. Fits(P, ConsArc(e, <<>>), <<>> \o e.from, 1 * e.weight)
      BY <2>1, NothingFits, ConsFits
    <3>3. <<>> \o e.from = e.from /\ 1 * e.weight = e.weight BY <2>2, ConcatEmptySeq
    <3> QED BY <3>2, <3>3
  <2>4. CASE known # {}
    <3> DEFINE x == CHOOSE x \in known : TRUE
    <3>1. x \in known BY <2>4
    <3> HIDE DEF x
    <3>2. x[2] \in 0..Len(c.chains) - 1 /\ Chain(c, x[2]) = chain
      BY <2>2, <3>1 DEF RecorderFits
    <3>3. rec = [c |-> c, id |-> x[2]] BY <1>1, <1>3, <2>4 DEF RecordEps, x
    <3> QED BY <1>1, <2>3, <3>2, <3>3
  <2>5. CASE known = {}
    <3>1. chain \in Seq(Nat) BY <2>3 DEF Fits
    <3>2. /\ RecorderFits(P, new.c) /\ Grows(c, new.c)
          /\ new.id \in 0..Len(new.c.chains) - 1 /\ Chain(new.c, new.id) = chain
          /\ new.id \in Nat
      BY <3>1, PushedFits
    <3>3. rec = [c |-> d, id |-> new.id] BY <1>1, <1>3, <2>5 DEF RecordEps
    <3> HIDE DEF new
    <3>4. new.c \in Recorder BY <3>2 DEF RecorderFits
    <3>5. /\ d \in Recorder /\ d.chains = new.c.chains /\ d.is_chain = new.c.is_chain
          /\ d.trivial = new.c.trivial
          /\ d.epsilon_chains = new.c.epsilon_chains \cup {<<Param(e), new.id>>}
      <4> DEFINE x == new.c.epsilon_chains \cup {<<Param(e), new.id>>}
      <4>1. new.c.epsilon_chains \in SUBSET (Nat \X Nat) BY <3>4 DEF Recorder
      <4>2. x \in SUBSET (Nat \X Nat) BY <2>2, <3>2, <4>1
      <4>3. <<>> \in Seq(Seq(Nat)) OBVIOUS
      <4>4. d = [new.c EXCEPT !.epsilon_chains = x] OBVIOUS
      <4> HIDE DEF x, d
      <4>5. /\ d \in Recorder /\ d.chains = new.c.chains /\ d.is_chain = new.c.is_chain
            /\ d.trivial = new.c.trivial /\ d.epsilon_chains = x
        BY ZenonT(60), <3>4, <4>2, <4>3, <4>4, RecorderFields
      <4> QED BY <4>5 DEF x
    <3> HIDE DEF d
    <3>6. Grows(c, d) BY <3>2, <3>5 DEF Grows
    <3>7. \A g : Chain(d, g) = Chain(new.c, g) BY <3>5 DEF Chain
    <3>8. RecorderFits(P, d) BY <2>2, <3>2, <3>5, <3>7 DEF RecorderFits
    <3> QED BY <2>3, <3>2, <3>3, <3>5, <3>6, <3>7, <3>8
  <2> QED BY <2>4, <2>5
<1> QED BY <1>1, <1>2, <1>3

(* record, of an arc made of two *)
LEMMA RecordFits ==
  ASSUME NEW P, NamedSet(P), NEW c, RecorderFits(P, c), c.is_chain # <<TRUE, TRUE>>,
         NEW l, SideFits(P, c, 1, l), NEW r, SideFits(P, c, 2, r)
  PROVE  LET rec == Record(c, l, r)
         IN  /\ RecorderFits(P, rec.c) /\ Grows(c, rec.c)
             /\ rec.id \in 0..Len(rec.c.chains) - 1
             /\ Fits(P, Chain(rec.c, rec.id), l.from \o r.from, l.weight * r.weight)
<1> DEFINE chain == ConsChain(c, l, r)
<1>1. ~c.trivial /\ c.is_chain \in BOOLEAN \X BOOLEAN BY DEF RecorderFits, Recorder
<1>2. Fits(P, chain, l.from \o r.from, l.weight * r.weight)
  <2>1. CASE c.is_chain = <<TRUE, FALSE>>
    <3>1. ArcFits(P, c, l) /\ r \in P BY <2>1 DEF SideFits
    <3>2. chain = ConsArc(r, Chain(c, l.group)) BY <2>1 DEF ConsChain
    <3> QED BY <3>1, <3>2, ConsFits DEF ArcFits
  <2>2. CASE c.is_chain = <<FALSE, TRUE>>
    <3>1. l \in P /\ ArcFits(P, c, r) BY <2>2 DEF SideFits
    <3>2. chain = ConsArc(l, Chain(c, r.group)) BY <2>2 DEF ConsChain
    <3> QED BY <3>1, <3>2, ConsFits DEF ArcFits
  <2>3. CASE c.is_chain = <<FALSE, FALSE>>
    <3>1. l \in P /\ r \in P BY <2>3 DEF SideFits
    <3>2. chain = ConsArc(l, ConsArc(r, <<>>)) BY <2>3 DEF ConsChain
    <3>3. Fits(P, ConsArc(r, <<>>), <<>> \o r.from, 1 * r.weight) BY <3>1, NothingFits, ConsFits
    <3>4. <<>> \o r.from = r.from /\ 1 * r.weight = r.weight BY <3>1, NamedIs, ConcatEmptySeq
    <3>5. Fits(P, ConsArc(r, <<>>), r.from, r.weight) BY <3>3, <3>4
    <3> QED BY <3>1, <3>2, <3>5, ConsFits
  <2>4. c.is_chain \in {<<TRUE, FALSE>>, <<FALSE, TRUE>>, <<FALSE, FALSE>>}
    <3>1. PICK a \in BOOLEAN, b \in BOOLEAN : c.is_chain = <<a, b>> BY <1>1
    <3>2. ~(a = TRUE /\ b = TRUE) BY <3>1
    <3>3. a \in {TRUE, FALSE} /\ b \in {TRUE, FALSE} OBVIOUS
    <3> QED BY <3>1, <3>2, <3>3
  <2> QED BY <2>1, <2>2, <2>3, <2>4
<1>3. Record(c, l, r) = Pushed(c, chain) BY <1>1 DEF Record
<1>4. chain \in Seq(Nat) BY <1>2 DEF Fits
<1> HIDE DEF chain
<1> QED BY <1>2, <1>3, <1>4, PushedFits

(* done_composing numbers the chains in use anew *)
LEMMA CompressedFits ==
  ASSUME NEW P, NEW c, RecorderFits(P, c), c.epsilon_chains = {},
         NEW m, "arcs" \in DOMAIN m, \A e \in m.arcs : ArcFits(P, c, e)
  PROVE  LET z == Compressed(c, m)
         IN  /\ RecorderFits(P, z.c)
             /\ \A e \in z.m.arcs : ArcFits(P, z.c, e)
<1> DEFINE used == UsedChains(m)
           L == Len(c.chains)
           N == Cardinality(used)
           new(id) == Cardinality({k \in used : k < id})
           old(j) == CHOOSE id \in used : new(id) = j - 1
           s == [j \in 1..N |-> Chain(c, old(j))]
           d == [c EXCEPT !.chains = s]
           z == Compressed(c, m)
<1>1. c \in Recorder /\ L \in Nat /\ L > 0 /\ c.chains \in Seq(Seq(Nat)) /\ ~c.trivial
  BY DEF RecorderFits, Recorder
<1>2. \A e \in m.arcs : e.group \in 0..L - 1 BY DEF ArcFits
<1>3. used \subseteq 0..L - 1 /\ 0 \in used
  BY <1>1, <1>2 DEF UsedChains, NilChain
<1>4. \A e \in m.arcs : e.group \in used
  BY DEF UsedChains, IsLocked, NilChain, LockedGroup
<1>5. z = [c |-> d, m |-> [m EXCEPT !.arcs = {[e EXCEPT !.group = IF IsLocked(e) THEN @ ELSE new(@)] :
                                               e \in m.arcs}]]
  BY DEF Compressed
<1> HIDE DEF used, L
<1>20. \A k \in used : k \in Nat /\ k \in 0..L - 1 BY <1>1, <1>3
<1>6. /\ IsFiniteSet(used) /\ N \in Nat
      /\ \A U \in SUBSET used : IsFiniteSet(U) /\ Cardinality(U) \in Nat /\ Cardinality(U) <= N
  <2>1. IsFiniteSet(0..L - 1) BY <1>1, FS_Interval
  <2>2. IsFiniteSet(used) BY <1>3, <2>1, FS_Subset
  <2>3. ASSUME NEW U \in SUBSET used
        PROVE  IsFiniteSet(U) /\ Cardinality(U) \in Nat /\ Cardinality(U) <= N
    <3>1. IsFiniteSet(U) /\ Cardinality(U) <= N BY <2>2, FS_Subset
    <3> QED BY <3>1, FS_CardinalityType
  <2> QED BY <2>2, <2>3, FS_CardinalityType
<1>7. ASSUME NEW id \in used PROVE new(id) \in 0..N - 1
  <2> DEFINE B == {k \in used : k < id}
  <2>1. B \in SUBSET used /\ id \notin B /\ B \cup {id} \in SUBSET used BY <1>20
  <2> HIDE DEF B
  <2>2. Cardinality(B) + 1 <= N /\ Cardinality(B) \in Nat
    <3>1. IsFiniteSet(B) /\ Cardinality(B) \in Nat /\ Cardinality(B \cup {id}) <= N BY <1>6, <2>1
    <3>2. Cardinality(B \cup {id}) = Cardinality(B) + 1 BY <2>1, <3>1, FS_AddElement
    <3> QED BY <3>1, <3>2
  <2> QED BY <1>6, <2>2 DEF B
<1>8. ASSUME NEW a \in used, NEW b \in used, a < b PROVE new(a) < new(b)
  <2> DEFINE A == {k \in used : k < a}
             B == {k \in used : k < b}
  <2>1. A \in SUBSET used /\ B \in SUBSET used /\ a \notin A /\ A \cup {a} \in SUBSET B
    <3>1. A \in SUBSET used /\ B \in SUBSET used BY <1>20
    <3>2. a \in Nat /\ b \in Nat BY <1>20
    <3>3. a \notin A /\ a \in B BY <1>8, <3>2
    <3>4. A \subseteq B
      <4> SUFFICES ASSUME NEW k \in used, k < a PROVE k < b OBVIOUS
      <4>1. k \in Nat BY <1>20
      <4> QED BY <1>8, <3>2, <4>1
    <3> HIDE DEF A, B
    <3> QED BY <3>1, <3>3, <3>4
  <2> HIDE DEF A, B
  <2>2. Cardinality(A) + 1 <= Cardinality(B) /\ Cardinality(A) \in Nat /\ Cardinality(B) \in Nat
    <3>1. IsFiniteSet(A) /\ IsFiniteSet(B) /\ Cardinality(A) \in Nat /\ Cardinality(B) \in Nat
      BY <1>6, <2>1
    <3>2. Cardinality(A \cup {a}) = Cardinality(A) + 1 BY <2>1, <3>1, FS_AddElement
    <3>3. Cardinality(A \cup {a}) <= Cardinality(B) BY <2>1, <3>1, FS_Subset
    <3> QED BY <3>1, <3>2, <3>3
  <2> QED BY <2>2 DEF A, B
<1>9. new(0) = 0
  <2>1. {k \in used : k < 0} = {}
    <3> SUFFICES ASSUME NEW k \in used, k < 0 PROVE FALSE OBVIOUS
    <3>1. k \in Nat BY <1>20
    <3> QED BY <3>1
  <2> QED BY <2>1, FS_EmptySet
<1> HIDE DEF new
<1>10. ASSUME NEW a \in used, NEW b \in used, new(a) = new(b) PROVE a = b
  <2>1. a \in Nat /\ b \in Nat /\ new(a) \in Nat /\ new(b) \in Nat BY <1>6, <1>7, <1>20
  <2>2. ~(a < b) /\ ~(b < a) BY <1>8, <1>10, <2>1
  <2> QED BY <2>1, <2>2
<1>11. \A j \in 1..N : \E id \in used : new(id) = j - 1
  <2> DEFINE f == [id \in used |-> new(id) + 1]
  <2>1. \A id \in used : f[id] \in 1..N BY <1>6, <1>7
  <2>2. \A a, b \in used : f[a] = f[b] => a = b
    <3> SUFFICES ASSUME NEW a \in used, NEW b \in used, f[a] = f[b] PROVE a = b OBVIOUS
    <3>1. new(a) = new(b) BY <1>6, <1>7
    <3> QED BY <1>10, <3>1
  <2>3. f \in Injection(used, 1..N) BY <2>1, <2>2 DEF Injection, IsInjective
  <2>4. IsFiniteSet(1..N) /\ Cardinality(1..N) = N
    BY <1>6, FS_Interval
  <2>5. f \in Surjection(used, 1..N) BY <1>6, <2>3, <2>4, FS_Injection
  <2> SUFFICES ASSUME NEW j \in 1..N PROVE \E id \in used : new(id) = j - 1 OBVIOUS
  <2>6. PICK id \in used : f[id] = j BY <2>5 DEF Surjection
  <2> QED BY <1>6, <1>7, <2>6
<1>12. ASSUME NEW j \in 1..N PROVE old(j) \in used /\ new(old(j)) = j - 1
  BY <1>11
<1>13. ASSUME NEW g \in used PROVE Chain(c, g) \in Seq(Nat)
  <2>1. g \in 0..L - 1 /\ L = Len(c.chains) BY <1>20 DEF L
  <2>2. g + 1 \in 1..Len(c.chains) BY <1>1, <2>1
  <2> QED BY <1>1, <2>2 DEF Chain
<1>14. s \in Seq(Seq(Nat)) /\ Len(s) = N
  <2> HIDE DEF old
  <2>1. \A j \in 1..N : Chain(c, old(j)) \in Seq(Nat) BY <1>12, <1>13
  <2>2. s \in [1..N -> Seq(Nat)] BY <2>1
  <2>3. DOMAIN s = 1..N OBVIOUS
  <2> HIDE DEF s, N
  <2> QED BY <1>6, <2>2, <2>3
<1>15. ASSUME NEW g \in used PROVE new(g) \in 0..N - 1 /\ s[new(g) + 1] = Chain(c, g)
  <2>1. new(g) + 1 \in 1..N /\ (new(g) + 1) - 1 = new(g) BY <1>6, <1>7
  <2>2. old(new(g) + 1) = g BY <1>10, <1>12, <2>1
  <2> HIDE DEF old
  <2> QED BY <1>7, <2>1, <2>2
<1> HIDE DEF s
<1>16. /\ d \in Recorder /\ d.chains = s /\ d.trivial = c.trivial
       /\ d.epsilon_chains = {} /\ d.is_chain = c.is_chain
  <2>1. {} \in SUBSET (Nat \X Nat) OBVIOUS
  <2>2. c \in Recorder /\ s \in Seq(Seq(Nat)) BY <1>1, <1>14
  <2>3. d = [c EXCEPT !.chains = s] OBVIOUS
  <2> HIDE DEF d
  <2>4. /\ d \in Recorder /\ d.chains = s /\ d.trivial = c.trivial
        /\ d.epsilon_chains = c.epsilon_chains /\ d.is_chain = c.is_chain
    BY <2>1, <2>2, <2>3, RecorderFields
  <2> QED BY <2>4
<1> HIDE DEF d, z
<1>17. RecorderFits(P, d)
  <2>1. s[1] = <<>> BY <1>3, <1>9, <1>15, NilFits DEF NilChain
  <2>2. Len(s) > 0 BY <1>3, <1>7, <1>6, <1>14
  <2> QED BY <1>1, <1>16, <2>1, <2>2 DEF RecorderFits
<1>18. ASSUME NEW e \in z.m.arcs PROVE ArcFits(P, d, e)
  <2>1. z.m.arcs = {[f EXCEPT !.group = IF IsLocked(f) THEN @ ELSE new(@)] : f \in m.arcs}
    BY <1>5
  <2>2. PICK f \in m.arcs : e = [f EXCEPT !.group = IF IsLocked(f) THEN f.group ELSE new(f.group)]
    BY <2>1
  <2>3. IsArc(f) /\ f.group \in used /\ Fits(P, Chain(c, f.group), f.from, f.weight)
    BY <1>4 DEF ArcFits
  <2>4. e = [f EXCEPT !.group = new(f.group)] BY <1>9, <2>2 DEF IsLocked, LockedGroup
  <2>5. IsArc(e) /\ e.group = new(f.group) /\ e.from = f.from /\ e.weight = f.weight
    BY <2>3, <2>4 DEF IsArc
  <2>6. e.group \in 0..N - 1 /\ Chain(d, e.group) = Chain(c, f.group)
    BY <1>15, <1>16, <2>3, <2>5 DEF Chain
  <2> QED BY <1>14, <1>16, <2>3, <2>5, <2>6 DEF ArcFits
<1>19. z.c = d BY <1>5
<1> QED BY <1>17, <1>18, <1>19 DEF z

(* reduce moves arcs, and changes nothing else of them *)
LEMMA ReducedArcs ==
  ASSUME NEW m, \A f \in m.arcs : IsArc(f), NEW e \in Reduce(m).arcs
  PROVE  \E f \in m.arcs :
           /\ IsArc(e) /\ e.from = f.from /\ e.weight = f.weight /\ e.group = f.group
           /\ \A d \in Reduce(m).arcs :
                d.from = e.from /\ (\A h \in m.arcs : h.from = d.from => h = f) => d = e
<1> DEFINE new(q) == Cardinality({k \in Useful(m) : k < q})
           Carried(f) == [f EXCEPT !.src = new(f.src), !.dest = new(f.dest)]
<1>1. CASE ~m.valid
  <2>1. Reduce(m).arcs = m.arcs BY <1>1 DEF Reduce
  <2> QED BY <2>1
<1>2. CASE m.valid
  <2>1. \A d \in Reduce(m).arcs : \E f \in m.arcs : d = Carried(f) BY <1>2 DEF Reduce
  <2> HIDE DEF new
  <2>2. ASSUME NEW d, NEW f \in m.arcs, d = Carried(f)
        PROVE  IsArc(d) /\ d.from = f.from /\ d.weight = f.weight /\ d.group = f.group
    <3>1. f = [src |-> f.src, in |-> f.in, out |-> f.out, dest |-> f.dest, weight |-> f.weight,
               group |-> f.group, from |-> f.from]
      BY DEF IsArc
    <3>2. d = [src |-> new(f.src), in |-> f.in, out |-> f.out, dest |-> new(f.dest),
               weight |-> f.weight, group |-> f.group, from |-> f.from]
      BY <2>2, <3>1
    <3> QED BY <3>2 DEF IsArc
  <2> HIDE DEF Carried
  <2>3. PICK f \in m.arcs : e = Carried(f) BY <2>1
  <2>4. ASSUME NEW d \in Reduce(m).arcs, d.from = e.from, \A h \in m.arcs : h.from = d.from => h = f
        PROVE  d = e
    <3>1. PICK h \in m.arcs : d = Carried(h) BY <2>1
    <3>2. h = f BY <2>2, <2>4, <3>1
    <3> QED BY <2>3, <3>1, <3>2
  <2> QED BY <2>2, <2>3, <2>4
<1> QED BY <1>1, <1>2

LEMMA ReducedFits ==
  ASSUME NEW P, NEW c, NEW m, \A f \in m.arcs : ArcFits(P, c, f)
  PROVE  \A e \in Reduce(m).arcs : ArcFits(P, c, e)
<1> SUFFICES ASSUME NEW e \in Reduce(m).arcs PROVE ArcFits(P, c, e) OBVIOUS
<1>1. \A f \in m.arcs : IsArc(f) BY DEF ArcFits
<1>2. \E f \in m.arcs : IsArc(e) /\ e.from = f.from /\ e.weight = f.weight /\ e.group = f.group
  BY <1>1, ReducedArcs
<1>3. PICK f \in m.arcs : IsArc(e) /\ e.from = f.from /\ e.weight = f.weight /\ e.group = f.group
  BY <1>2
<1> QED BY <1>3 DEF ArcFits

(* the arcs that m.l and m.r may be *)
Moved(x, m) ==
  \/ m.l \in x.lhs.arcs /\ m.r = NoArc
  \/ m.l = NoArc /\ m.r \in x.rhs.arcs
  \/ m.l \in x.lhs.arcs /\ m.r \in x.rhs.arcs

LEMMA MovesMove ==
  ASSUME NEW x, NEW n, NEW t, NEW m,
         m \in MovesOf(x, n, t) \cup MovesFromMediate(x, n, t)
  PROVE  Moved(x, m) /\ m.from = n
<1>1. CASE m \in MovesFromMediate(x, n, t)
  BY <1>1 DEF MovesFromMediate, M, From, Moved
<1>2. CASE m \in MovesAlone(x, n, t)
  BY <1>2 DEF MovesAlone, M, From, Moved
<1>3. CASE m \in MovesByLeft(x, n, t)
  <2>1. \/ \E l \in From(x.lhs, t.qa) : m \in LeftAlone(n, t, l)
        \/ \E r \in From(x.rhs, t.qb) : m \in RightAlone(n, t, r)
        \/ \E l \in From(x.lhs, t.qa), r \in From(x.rhs, t.qb) : m = Both(n, l, r)
    BY <1>3 DEF MovesByLeft
  <2> QED BY <2>1 DEF LeftAlone, RightAlone, Both, M, From, Moved
<1>4. m \in MovesFromMediate(x, n, t) \/ m \in MovesAlone(x, n, t) \/ m \in MovesByLeft(x, n, t)
  BY MovesAreThoseByLeft DEF MovesOf
<1> QED BY <1>1, <1>2, <1>3, <1>4

(* the arc made of a move, with its chain *)
LEMMA RecordedFits ==
  ASSUME NEW P, NamedSet(P), RecorderFits(P, cascade), cascade.is_chain # <<TRUE, TRUE>>,
         NEW x, \A e \in x.lhs.arcs : SideFits(P, cascade, 1, e),
         \A e \in x.rhs.arcs : SideFits(P, cascade, 2, e),
         NEW m, Moved(x, m), NEW n, NEW dest
  PROVE  LET rec == Recorded(m.l, m.r)
         IN  /\ RecorderFits(P, rec.c) /\ Grows(cascade, rec.c)
             /\ ArcFits(P, rec.c, NewArc(n, m.l, m.r, dest, rec.id))
<1> DEFINE rec == Recorded(m.l, m.r)
           new == NewArc(n, m.l, m.r, dest, rec.id)
<1>1. ASSUME NEW side \in {1, 2}, NEW e, SideFits(P, cascade, side, e)
      PROVE  e # NoArc /\ e.from \in Seq(Nat) /\ e.weight \in Nat
  <2>1. CASE cascade.is_chain[side]
    <3>1. ArcFits(P, cascade, e) BY <1>1, <2>1 DEF SideFits
    <3>2. e.group # -1 BY <3>1 DEF ArcFits
    <3> QED BY <3>1, <3>2 DEF ArcFits, Fits, NoArc, NoGroup
  <2>2. CASE ~cascade.is_chain[side]
    <3>1. e \in P BY <1>1, <2>2 DEF SideFits
    <3>2. NoArc.from = <<>> BY DEF NoArc
    <3> QED BY <3>1, <3>2, NamedIs
  <2> QED BY <2>1, <2>2
<1>2. new.group = rec.id /\ new.from = m.l.from \o m.r.from /\ new.weight = m.l.weight * m.r.weight
      /\ IsArc(new)
  BY DEF NewArc, IsArc
<1>3. NoArc.from = <<>> /\ NoArc.weight = 1 BY DEF NoArc
<1>4. CASE m.l \in x.lhs.arcs /\ m.r = NoArc
  <2>1. SideFits(P, cascade, 1, m.l) BY <1>4
  <2>2. rec = RecordEps(cascade, m.l, cascade.is_chain[1]) BY <1>4 DEF Recorded
  <2>3. /\ RecorderFits(P, rec.c) /\ Grows(cascade, rec.c)
        /\ rec.id \in 0..Len(rec.c.chains) - 1
        /\ Fits(P, Chain(rec.c, rec.id), m.l.from, m.l.weight)
    BY <2>1, <2>2, RecordEpsFits
  <2>4. new.from = m.l.from /\ new.weight = m.l.weight
    <3>1. m.l.from \in Seq(Nat) /\ m.l.weight \in Nat BY <1>1, <2>1
    <3>2. m.l.from \o <<>> = m.l.from /\ m.l.weight * 1 = m.l.weight BY <3>1, ConcatEmptySeq
    <3> QED BY <1>2, <1>3, <1>4, <3>2
  <2> HIDE DEF rec, new
  <2> QED BY <1>2, <2>3, <2>4 DEF ArcFits, rec, new
<1>5. CASE m.l = NoArc /\ m.r \in x.rhs.arcs
  <2>1. SideFits(P, cascade, 2, m.r) BY <1>5
  <2>2. rec = RecordEps(cascade, m.r, cascade.is_chain[2]) BY <1>1, <1>5, <2>1 DEF Recorded
  <2>3. /\ RecorderFits(P, rec.c) /\ Grows(cascade, rec.c)
        /\ rec.id \in 0..Len(rec.c.chains) - 1
        /\ Fits(P, Chain(rec.c, rec.id), m.r.from, m.r.weight)
    BY <2>1, <2>2, RecordEpsFits
  <2>4. new.from = m.r.from /\ new.weight = m.r.weight
    <3>1. m.r.from \in Seq(Nat) /\ m.r.weight \in Nat BY <1>1, <2>1
    <3>2. <<>> \o m.r.from = m.r.from /\ 1 * m.r.weight = m.r.weight BY <3>1, ConcatEmptySeq
    <3> QED BY <1>2, <1>3, <1>5, <3>2
  <2> HIDE DEF rec, new
  <2> QED BY <1>2, <2>3, <2>4 DEF ArcFits, rec, new
<1>6. CASE m.l \in x.lhs.arcs /\ m.r \in x.rhs.arcs
  <2>1. SideFits(P, cascade, 1, m.l) /\ SideFits(P, cascade, 2, m.r) BY <1>6
  <2>2. m.l # NoArc /\ m.r # NoArc BY <1>1, <2>1
  <2>3. rec = Record(cascade, m.l, m.r) BY <2>2 DEF Recorded
  <2>4. /\ RecorderFits(P, rec.c) /\ Grows(cascade, rec.c)
        /\ rec.id \in 0..Len(rec.c.chains) - 1
        /\ Fits(P, Chain(rec.c, rec.id), m.l.from \o m.r.from, m.l.weight * m.r.weight)
    BY <2>1, <2>3, RecordFits
  <2> HIDE DEF rec, new
  <2> QED BY <1>2, <2>4 DEF ArcFits, rec, new
<1> QED BY <1>4, <1>5, <1>6 DEF Moved

-----------------------------------------------------------------------------
(* The composition loop *)

Apart(parts) ==
  /\ NamedApart(parts)
  /\ \A p \in DOMAIN parts : \A e \in parts[p].arcs :
       IsArc(e) /\ e.from \in Seq(Nat) /\ e.weight \in Nat

InputFits(P, c, x) ==
  /\ c.is_chain # <<TRUE, TRUE>>
  /\ \A e \in x.lhs.arcs : SideFits(P, c, 1, e)
  /\ \A e \in x.rhs.arcs : SideFits(P, c, 2, e)

ChainInv ==
  stage # "start" =>
    /\ Apart(Parts)
    /\ ~cascade.trivial =>
         /\ RecorderFits(PartArcs, cascade)
         /\ stage \in {"next", "end"} =>
              IF first THEN result.arcs \subseteq PartArcs
              ELSE \A e \in result.arcs : ArcFits(PartArcs, cascade, e)
         /\ stage = "compose" =>
              /\ InputFits(PartArcs, cascade, input)
              /\ \A e \in arcs : ArcFits(PartArcs, cascade, e)

LEMMA ApartNamed ==
  ASSUME Apart(Parts)
  PROVE  NamedSet(PartArcs)
<1> SUFFICES ASSUME NEW p \in DOMAIN Parts, NEW e \in Parts[p].arcs,
                    NEW q \in DOMAIN Parts, NEW f \in Parts[q].arcs
             PROVE  /\ e.from \in Seq(Nat) /\ Len(e.from) = 1 /\ e.weight \in Nat
                    /\ e.from = f.from => e = f
  BY DEF NamedSet, PartArcs
<1> QED BY DEF Apart, NamedApart

LEMMA JobsApart ==
  ASSUME NEW j \in Jobs, NEW place \in DOMAIN j.parts
  PROVE  /\ Apart(j.parts)
         /\ Apart([j.parts EXCEPT ![place] = Reduce(j.parts[place])])
<1> DEFINE parts == j.parts
           new == [parts EXCEPT ![place] = Reduce(parts[place])]
<1>1. parts \in Seq(Machine) /\ NamedApart(parts) BY JobAssumption DEF Job
<1>2. ASSUME NEW p \in DOMAIN parts, NEW e \in parts[p].arcs
      PROVE  IsArc(e) /\ e.from \in Seq(Nat) /\ e.weight \in Nat
  <2>1. parts[p] \in Machine BY <1>1
  <2>2. e \in Arc BY <2>1 DEF Machine
  <2> QED BY <2>2 DEF Arc, IsArc
<1>3. Apart(parts) BY <1>1, <1>2 DEF Apart
<1>4. DOMAIN new = DOMAIN parts
      /\ \A p \in DOMAIN parts : new[p] = IF p = place THEN Reduce(parts[p]) ELSE parts[p]
  OBVIOUS
<1> HIDE DEF parts, new
<1>5. ASSUME NEW p \in DOMAIN new, NEW e \in new[p].arcs
      PROVE  \E f \in parts[p].arcs : IsArc(e) /\ e.from = f.from /\ e.weight = f.weight
  <2>1. CASE p = place
    <3>1. e \in Reduce(parts[p]).arcs /\ \A f \in parts[p].arcs : IsArc(f) BY <1>2, <1>4, <2>1
    <3> QED BY <2>1, <3>1, ReducedArcs
  <2>2. CASE p # place BY <1>2, <1>4, <2>2
  <2> QED BY <2>1, <2>2
<1>6. ASSUME NEW p \in DOMAIN new, NEW e \in new[p].arcs
      PROVE  IsArc(e) /\ e.from \in Seq(Nat) /\ e.weight \in Nat /\ Len(e.from) = 1
  <2>1. PICK f \in parts[p].arcs : IsArc(e) /\ e.from = f.from /\ e.weight = f.weight BY <1>5
  <2>2. Len(f.from) = 1 BY <1>1, <1>4 DEF NamedApart
  <2> QED BY <1>2, <1>4, <2>1, <2>2
<1>7. ASSUME NEW p \in DOMAIN new, NEW q \in DOMAIN new,
             NEW d \in new[p].arcs, NEW e \in new[q].arcs, d.from = e.from
      PROVE  p = q /\ d = e
  <2>1. PICK f \in parts[p].arcs : IsArc(d) /\ d.from = f.from /\ d.weight = f.weight BY <1>5
  <2>2. PICK g \in parts[q].arcs : IsArc(e) /\ e.from = g.from /\ e.weight = g.weight BY <1>5
  <2>3. p = q /\ f = g
    <3>1. p \in DOMAIN parts /\ q \in DOMAIN parts /\ f.from = g.from BY <1>4, <1>7, <2>1, <2>2
    <3>2. \A a, b \in DOMAIN parts : \A k \in parts[a].arcs, l \in parts[b].arcs :
            k.from = l.from => a = b /\ k = l
      BY <1>1 DEF NamedApart
    <3> QED BY <3>1, <3>2
  <2>4. CASE p # place BY <1>1, <1>4, <1>7, <2>3, <2>4 DEF NamedApart
  <2>5. CASE p = place
    <3> DEFINE m == parts[p]
    <3>1. d \in Reduce(m).arcs /\ e \in Reduce(m).arcs BY <1>4, <2>3, <2>5
    <3>2. \A h \in m.arcs : IsArc(h) BY <1>2, <1>4
    <3> HIDE DEF m
    <3>3. \E h \in m.arcs :
            /\ e.from = h.from
            /\ \A k \in Reduce(m).arcs :
                 k.from = e.from /\ (\A l \in m.arcs : l.from = k.from => l = h) => k = e
      BY <3>1, <3>2, ReducedArcs
    <3>4. PICK h \in m.arcs :
            /\ e.from = h.from
            /\ \A k \in Reduce(m).arcs :
                 k.from = e.from /\ (\A l \in m.arcs : l.from = k.from => l = h) => k = e
      BY <3>3
    <3>5. \A l \in m.arcs : l.from = h.from => l = h BY <1>1, <1>4, <2>5 DEF NamedApart, m
    <3>6. d = e BY <1>7, <3>1, <3>4, <3>5
    <3> QED BY <2>3, <3>6
  <2> QED BY <2>3, <2>4, <2>5
<1>8. NamedApart(new) BY <1>6, <1>7 DEF NamedApart
<1>9. Apart(new) BY <1>6, <1>8 DEF Apart
<1> QED BY <1>3, <1>9 DEF parts, new

LEMMA RecordedTrivial ==
  ASSUME NEW l, NEW r, cascade.trivial
  PROVE  Recorded(l, r).c = cascade
BY DEF Recorded, Record, RecordEps

(* a step of set_compose that makes the arc of a move *)
LEMMA MadeFits ==
  ASSUME ChainInv, stage = "compose", stage' = stage, job' = job, input' = input,
         NEW m, Moved(input, m), NEW n, NEW dest,
         cascade' = Recorded(m.l, m.r).c,
         arcs' = arcs \cup {NewArc(n, m.l, m.r, dest, Recorded(m.l, m.r).id)}
  PROVE  ChainInv'
<1>1. PartArcs' = PartArcs /\ Parts' = Parts BY DEF PartArcs, Parts
<1>2. Apart(Parts) BY DEF ChainInv
<1>3. ASSUME ~cascade'.trivial
      PROVE  /\ RecorderFits(PartArcs, cascade')
             /\ InputFits(PartArcs, cascade', input)
             /\ \A e \in arcs' : ArcFits(PartArcs, cascade', e)
  <2>1. ~cascade.trivial BY <1>3, RecordedTrivial
  <2>2. /\ RecorderFits(PartArcs, cascade) /\ InputFits(PartArcs, cascade, input)
        /\ \A e \in arcs : ArcFits(PartArcs, cascade, e)
    BY <2>1 DEF ChainInv
  <2> DEFINE new == NewArc(n, m.l, m.r, dest, Recorded(m.l, m.r).id)
  <2>3. /\ RecorderFits(PartArcs, cascade') /\ Grows(cascade, cascade')
        /\ ArcFits(PartArcs, cascade', new)
    BY <1>2, <2>2, ApartNamed, RecordedFits DEF InputFits
  <2> HIDE DEF new
  <2>4. cascade \in Recorder /\ cascade' \in Recorder BY <2>2, <2>3 DEF RecorderFits
  <2>5. \A e \in arcs : ArcFits(PartArcs, cascade', e) BY <2>2, <2>3, <2>4, GrowsKeeps
  <2>6. InputFits(PartArcs, cascade', input)
    <3>1. cascade'.is_chain = cascade.is_chain BY <2>3 DEF Grows
    <3>2. \A side, e : SideFits(PartArcs, cascade, side, e) => SideFits(PartArcs, cascade', side, e)
      BY <2>3, <2>4, GrowsKeeps
    <3> QED BY <2>2, <3>1, <3>2 DEF InputFits
  <2>7. arcs' = arcs \cup {new} BY DEF new
  <2> QED BY <2>3, <2>5, <2>6, <2>7
<1> QED BY <1>1, <1>2, <1>3 DEF ChainInv

LEMMA ComposeStepFits ==
  ASSUME IInv, ChainInv, ComposeStep
  PROVE  ChainInv'
<1>1. stage = "compose" /\ stage' = stage /\ job' = job /\ first' = first /\ result' = result
  BY DEF ComposeStep, driver
<1>2. PartArcs' = PartArcs /\ Parts' = Parts BY <1>1 DEF PartArcs, Parts
<1>3. CASE Expand
  <2>1. UNCHANGED <<input, arcs, cascade>> BY <1>3 DEF Expand
  <2> QED BY <1>1, <1>2, <2>1 DEF ChainInv
<1>4. ASSUME NEW m \in pending, ComposeArc(m) PROVE ChainInv'
  <2>1. Moved(input, m) BY MovesMove DEF IInv, PendingAreMoves
  <2>2. /\ input' = input /\ cascade' = Recorded(m.l, m.r).c
        /\ arcs' = arcs \cup {NewArc(m.from, m.l, m.r, stateMap'[m.to], Recorded(m.l, m.r).id)}
    BY <1>4 DEF ComposeArc
  <2> QED BY <1>1, <2>1, <2>2, MadeFits
<1>5. ASSUME NEW l \in halves, ComposeHalf(l) PROVE ChainInv'
  <2> DEFINE m == [l |-> l, r |-> NoArc]
             k == MediateState(l, source.qb)
  <2>1. l \in input.lhs.arcs
    BY DEF IInv, HalvesOfSource, HalvesOf, Halves, From
  <2>2. m.l = l /\ m.r = NoArc OBVIOUS
  <2> HIDE DEF m
  <2>3. Moved(input, m) BY <2>1, <2>2 DEF Moved
  <2>4. /\ input' = input /\ cascade' = Recorded(m.l, m.r).c
        /\ arcs' = arcs \cup {NewArc(stateMap[source], m.l, m.r, arcStateMap'[k], Recorded(m.l, m.r).id)}
    BY <1>5, <2>2 DEF ComposeHalf
  <2> QED BY <1>1, <2>3, <2>4, MadeFits
<1>6. CASE Finish
  <2>1. input' = input /\ cascade' = cascade BY <1>6 DEF Finish
  <2>2. arcs' = arcs \/ arcs' = arcs \cup {LockedArc(t, numStates) : t \in Finals}
    BY <1>6 DEF Finish
  <2>3. ASSUME ~cascade.trivial, NEW e \in arcs' PROVE ArcFits(PartArcs, cascade, e)
    <3>1. CASE e \in arcs BY <1>1, <2>3, <3>1 DEF ChainInv
    <3>2. ASSUME NEW t \in Finals, e = LockedArc(t, numStates) PROVE ArcFits(PartArcs, cascade, e)
      <4>1. RecorderFits(PartArcs, cascade) BY <1>1, <2>3 DEF ChainInv
      <4>2. e = [src |-> stateMap[t], in |-> Eps, out |-> Eps, dest |-> numStates, weight |-> 1,
                 group |-> NilChain, from |-> <<>>]
        BY <2>3, <3>2 DEF LockedArc, NoArc, Locked1GroupId
      <4>3. e.group = NilChain /\ e.weight = 1 /\ e.from = <<>> /\ IsArc(e) BY <4>2 DEF IsArc
      <4> QED BY <4>1, <4>3, NilFits, NothingFits DEF ArcFits
    <3> QED BY <2>2, <2>3, <3>1, <3>2
  <2> QED BY <1>1, <1>2, <2>1, <2>3 DEF ChainInv
<1> QED BY <1>3, <1>4, <1>5, <1>6 DEF ComposeStep

LEMMA StartFits ==
  ASSUME StartChain
  PROVE  ChainInv'
<1>1. PICK j \in Jobs :
        LET place == IF j.right THEN Len(j.parts) ELSE 1
            part == IF j.reduce THEN Reduce(j.parts[place]) ELSE j.parts[place]
        IN  /\ job' = [j EXCEPT !.parts[place] = part]
            /\ result' = part
            /\ cascade' = NewRecorder(j.remember /\ Len(j.parts) > 1)
  BY DEF StartChain
<1> DEFINE place == IF j.right THEN Len(j.parts) ELSE 1
           part == IF j.reduce THEN Reduce(j.parts[place]) ELSE j.parts[place]
<1>2. first' = TRUE /\ stage' = "next" BY DEF StartChain
<1>3. j \in Job /\ j.parts # <<>> BY JobAssumption
<1>4. j.parts \in Seq(Machine) /\ DOMAIN j.parts = 1..Len(j.parts) /\ Len(j.parts) \in Nat \ {0}
  BY <1>3 DEF Job
<1>5. place \in DOMAIN j.parts BY <1>4
<1>6. job' = [j EXCEPT !.parts[place] = part] /\ result' = part
      /\ cascade' = NewRecorder(j.remember /\ Len(j.parts) > 1)
  BY <1>1
<1> HIDE DEF place
<1>7. job'.parts = [j.parts EXCEPT ![place] = part]
  BY <1>3, <1>6 DEF Job
<1>8. Apart(job'.parts)
  <2>1. CASE j.reduce BY <1>5, <1>7, <2>1, JobsApart
  <2>2. CASE ~j.reduce
    <3>1. [j.parts EXCEPT ![place] = j.parts[place]] = j.parts BY <1>4
    <3> QED BY <1>5, <1>7, <2>2, <3>1, JobsApart
  <2> QED BY <2>1, <2>2
<1>9. result'.arcs \subseteq PartArcs'
  <2>1. place \in DOMAIN job'.parts /\ job'.parts[place] = result' BY <1>4, <1>5, <1>6, <1>7
  <2> QED BY <2>1 DEF PartArcs, Parts
<1>10. ASSUME ~cascade'.trivial PROVE RecorderFits(PartArcs', cascade')
  <2> DEFINE c == [trivial |-> FALSE, chains |-> <<<<>>>>, epsilon_chains |-> {},
                   is_chain |-> <<FALSE, FALSE>>]
  <2>1. cascade' = c BY <1>6, <1>10 DEF NewRecorder
  <2>2. <<<<>>>> \in Seq(Seq(Nat)) /\ Len(<<<<>>>>) = 1 OBVIOUS
  <2>3. c \in Recorder BY <2>2 DEF Recorder
  <2> QED BY <2>1, <2>2, <2>3 DEF RecorderFits
<1> QED BY <1>2, <1>8, <1>9, <1>10 DEF ChainInv, Parts

LEMMA ComposeNextFits ==
  ASSUME ChainInv, ComposeNext
  PROVE  ChainInv'
<1> DEFINE x == [lhs |-> IF job.right THEN Parts[i] ELSE result,
                 rhs |-> IF job.right THEN result ELSE Parts[i],
                 groups |-> job.a,
                 cascade |-> PrepareCompose(cascade, first, job.right)]
           flags == IF first THEN <<FALSE, FALSE>>
                    ELSE IF job.right THEN <<FALSE, TRUE>> ELSE <<TRUE, FALSE>>
<1>1. /\ stage = "next" /\ stage' = "compose" /\ More /\ Begin(x) /\ UNCHANGED <<job, first>>
  BY DEF ComposeNext
<1>2. input' = x /\ arcs' = {} /\ cascade' = [cascade EXCEPT !.is_chain = flags]
  BY <1>1 DEF Begin, PrepareCompose
<1>3. PartArcs' = PartArcs /\ Parts' = Parts BY <1>1 DEF PartArcs, Parts
<1>4. Parts[i].arcs \subseteq PartArcs BY <1>1 DEF PartArcs, More
<1>5. Apart(Parts) BY <1>1 DEF ChainInv
<1>6. ASSUME ~cascade'.trivial
      PROVE  RecorderFits(PartArcs, cascade') /\ InputFits(PartArcs, cascade', input')
  <2>1. cascade'.trivial = cascade.trivial
        /\ (cascade \in Recorder =>
              /\ cascade' \in Recorder /\ cascade'.is_chain = flags
              /\ cascade'.chains = cascade.chains
              /\ cascade'.epsilon_chains = cascade.epsilon_chains)
    <3>1. cascade'.trivial = cascade.trivial BY <1>2
    <3>2. ASSUME cascade \in Recorder
          PROVE  /\ cascade' \in Recorder /\ cascade'.is_chain = flags
                 /\ cascade'.chains = cascade.chains
                 /\ cascade'.epsilon_chains = cascade.epsilon_chains
      <4>1. flags \in BOOLEAN \X BOOLEAN OBVIOUS
      <4>2. cascade' = [trivial |-> cascade.trivial, chains |-> cascade.chains,
                        epsilon_chains |-> cascade.epsilon_chains, is_chain |-> flags]
        BY <1>2, <3>2 DEF Recorder
      <4>3. /\ cascade.trivial \in BOOLEAN /\ cascade.chains \in Seq(Seq(Nat))
            /\ cascade.epsilon_chains \in SUBSET (Nat \X Nat)
        BY <3>2 DEF Recorder
      <4> HIDE DEF flags
      <4> QED BY <4>1, <4>2, <4>3 DEF Recorder
    <3> QED BY <3>1, <3>2
  <2>2. ~cascade.trivial BY <1>6, <2>1
  <2>3. /\ RecorderFits(PartArcs, cascade)
        /\ IF first THEN result.arcs \subseteq PartArcs
           ELSE \A e \in result.arcs : ArcFits(PartArcs, cascade, e)
    BY <1>1, <2>2 DEF ChainInv
  <2>4. /\ cascade' \in Recorder /\ cascade'.is_chain = flags
        /\ cascade'.chains = cascade.chains /\ cascade'.epsilon_chains = cascade.epsilon_chains
    BY <2>1, <2>3 DEF RecorderFits
  <2>5. \A g : Chain(cascade', g) = Chain(cascade, g) BY <2>4 DEF Chain
  <2>6. RecorderFits(PartArcs, cascade') BY <2>1, <2>3, <2>4, <2>5 DEF RecorderFits
  <2>7. \A e : ArcFits(PartArcs, cascade, e) => ArcFits(PartArcs, cascade', e)
    BY <2>4, <2>5 DEF ArcFits
  <2>8. InputFits(PartArcs, cascade', x)
    <3>1. CASE first
      <4>1. cascade'.is_chain = <<FALSE, FALSE>> BY <2>4, <3>1
      <4>2. x.lhs.arcs \subseteq PartArcs /\ x.rhs.arcs \subseteq PartArcs BY <1>4, <2>3, <3>1
      <4> HIDE DEF x
      <4> QED BY <4>1, <4>2 DEF InputFits, SideFits
    <3>2. CASE ~first /\ job.right
      <4>1. cascade'.is_chain = <<FALSE, TRUE>> BY <2>4, <3>2
      <4>2. x.lhs.arcs \subseteq PartArcs /\ \A e \in x.rhs.arcs : ArcFits(PartArcs, cascade', e)
        BY <1>4, <2>3, <2>7, <3>2
      <4> HIDE DEF x
      <4> QED BY <4>1, <4>2 DEF InputFits, SideFits
    <3>3. CASE ~first /\ ~job.right
      <4>1. cascade'.is_chain = <<TRUE, FALSE>> BY <2>4, <3>3
      <4>2. x.rhs.arcs \subseteq PartArcs /\ \A e \in x.lhs.arcs : ArcFits(PartArcs, cascade', e)
        BY <1>4, <2>3, <2>7, <3>3
      <4> HIDE DEF x
      <4> QED BY <4>1, <4>2 DEF InputFits, SideFits
    <3> QED BY <3>1, <3>2, <3>3
  <2> QED BY <1>2, <2>6, <2>8
<1> QED BY <1>1, <1>2, <1>3, <1>5, <1>6 DEF ChainInv

LEMMA ShrinkFits ==
  ASSUME ChainInv, Shrink
  PROVE  ChainInv'
<1> DEFINE small == Minimized(Composed)
           changed == small.n # Composed.n \/ Cardinality(small.arcs) # Cardinality(Composed.arcs)
           compress == job.compress = "always" \/ (job.compress = "changed" /\ changed)
           cleared == [cascade EXCEPT !.epsilon_chains = {}]
           done == DoneComposing(cascade, small, compress)
<1>1. /\ stage = "compose" /\ stage' = "next" /\ job' = job /\ first' = FALSE
      /\ result' = done.m /\ cascade' = done.c
  BY DEF Shrink
<1>2. PartArcs' = PartArcs /\ Parts' = Parts BY <1>1 DEF PartArcs, Parts
<1>3. Apart(Parts) BY <1>1 DEF ChainInv
<1>4. ASSUME ~cascade'.trivial
      PROVE  /\ RecorderFits(PartArcs, cascade')
             /\ \A e \in result'.arcs : ArcFits(PartArcs, cascade', e)
  <2>1. ~cascade.trivial
    <3>1. cascade.trivial => done.c = cascade BY DEF DoneComposing
    <3> QED BY <1>1, <1>4, <3>1
  <2>2. RecorderFits(PartArcs, cascade) /\ \A e \in arcs : ArcFits(PartArcs, cascade, e)
    BY <1>1, <2>1 DEF ChainInv
  <2>3. "arcs" \in DOMAIN small /\ \A e \in small.arcs : ArcFits(PartArcs, cascade, e)
    <3>1. Composed.arcs = arcs /\ "arcs" \in DOMAIN Composed BY DEF Composed
    <3>2. \A e \in Reduce(Composed).arcs : ArcFits(PartArcs, cascade, e)
      BY <2>2, <3>1, ReducedFits
    <3>3. "arcs" \in DOMAIN Reduce(Composed) BY <3>1 DEF Reduce
    <3> QED BY <2>2, <3>1, <3>2, <3>3 DEF Minimized
  <2>4. /\ cleared \in Recorder /\ cleared.chains = cascade.chains
        /\ cleared.trivial = cascade.trivial /\ cleared.epsilon_chains = {}
    <3>1. cascade \in Recorder /\ cascade.chains \in Seq(Seq(Nat)) BY <2>2 DEF RecorderFits, Recorder
    <3>2. {} \in SUBSET (Nat \X Nat) OBVIOUS
    <3> QED BY ZenonT(60), <3>1, <3>2, RecorderFields
  <2> HIDE DEF small, changed, cleared
  <2>5. \A g : Chain(cleared, g) = Chain(cascade, g) BY <2>4 DEF Chain
  <2>6. RecorderFits(PartArcs, cleared) BY <2>1, <2>2, <2>4 DEF RecorderFits
  <2>7. \A e \in small.arcs : ArcFits(PartArcs, cleared, e) BY <2>3, <2>4, <2>5 DEF ArcFits
  <2>8. CASE compress
    <3>1. done = Compressed(cleared, small) BY <2>1, <2>8 DEF DoneComposing, cleared
    <3>2. /\ RecorderFits(PartArcs, Compressed(cleared, small).c)
          /\ \A e \in Compressed(cleared, small).m.arcs :
               ArcFits(PartArcs, Compressed(cleared, small).c, e)
      BY <2>3, <2>4, <2>6, <2>7, CompressedFits
    <3> QED BY <1>1, <3>1, <3>2
  <2>9. CASE ~compress
    <3>1. done = [c |-> cleared, m |-> small] BY <2>1, <2>9 DEF DoneComposing, cleared
    <3> QED BY <1>1, <2>6, <2>7, <3>1
  <2> QED BY <2>8, <2>9
<1> QED BY <1>1, <1>2, <1>3, <1>4 DEF ChainInv

LEMMA ChainsAlwaysFit == ChainSpec => []ChainInv
<1>1. ChainInit => ChainInv BY DEF ChainInit, ChainInv
<1>2. IInv /\ ChainInv /\ [ChainNext]_chainVars => ChainInv'
  <2> SUFFICES ASSUME IInv, ChainInv, [ChainNext]_chainVars PROVE ChainInv'
    OBVIOUS
  <2>1. CASE EmptyResult \/ EndChain \/ Stop \/ UNCHANGED chainVars
    <3>1. UNCHANGED <<vars, job, first, result>>
      BY <2>1 DEF EmptyResult, EndChain, Stop, chainVars, driver
    <3>2. UNCHANGED <<arcs, cascade, input>> BY <3>1 DEF vars
    <3>3. PartArcs' = PartArcs /\ Parts' = Parts BY <3>1 DEF PartArcs, Parts
    <3>4. \/ stage' = "empty" /\ stage = "compose"
          \/ stage' = "end" /\ stage \in {"next", "end"}
          \/ stage' = stage
      BY <2>1 DEF EmptyResult, EndChain, Stop, chainVars, driver
    <3> QED BY <3>1, <3>2, <3>3, <3>4 DEF ChainInv
  <2> QED BY <2>1, StartFits, ComposeNextFits, ComposeStepFits, ShrinkFits DEF ChainNext
<1> QED BY <1>1, <1>2, ChainIInv, PTL DEF ChainSpec

(* The chain that an arc of the composed machine names consists of the arcs of
   the machines read that it was made of, those locked with weight 1 left out,
   and the product of their weights is its weight: after every step of every
   composition of the loop, after shrinking and after the chains are numbered
   anew, whatever the machines and the options.  cascade_parameters::update
   computes the weights of the composed machine from these chains. *)
THEOREM ChainsRight == ChainSpec => []ChainsFit
<1>1. ChainInv => ChainsFit
  <2> SUFFICES ASSUME ChainInv, ~cascade.trivial, stage # "start"
               PROVE  /\ stage = "compose" => \A e \in arcs : ChainFits(e)
                      /\ stage \in {"next", "end"} /\ ~first => \A e \in result.arcs : ChainFits(e)
    BY DEF ChainsFit
  <2>1. ASSUME NEW e, ArcFits(PartArcs, cascade, e) PROVE ChainFits(e)
    <3> DEFINE chain == Chain(cascade, e.group)
    <3>1. Fits(PartArcs, chain, e.from, e.weight) BY <2>1 DEF ArcFits
    <3>2. \A x : ArcNamed(x) = Named(PartArcs, x) BY DEF ArcNamed, Named
    <3>3. \A s : Product(s) = ProductIn(PartArcs, s) BY DEF Product, ProductIn, ArcNamed, Named
    <3> HIDE DEF chain
    <3>4. \A x \in Range(chain) \cup Range(e.from) : x \in Nat
      <4>1. chain \in Seq(Nat) /\ e.from \in Seq(Nat) BY <3>1 DEF Fits
      <4> QED BY <4>1 DEF Range
    <3>5. \A x \in Range(chain) \cup Range(e.from) :
            Times(x, chain) = IF IsLocked1(ArcNamed(x)) THEN 0 ELSE Times(x, e.from)
      BY <3>1, <3>2, <3>4 DEF Fits
    <3>6. Product(chain) = e.weight BY <3>1, <3>3 DEF Fits
    <3> QED BY <3>5, <3>6 DEF ChainFits, chain
  <2> QED BY <2>1 DEF ChainInv
<1> QED BY <1>1, ChainsAlwaysFit, PTL

-----------------------------------------------------------------------------
(* No arc is made twice.  What an arc is made of, and where it is, tell it   *)
(* from all others; histories are sequences of the names of input arcs.      *)

Places(A) == \A e, f \in A : e.src = f.src /\ e.dest = f.dest /\ e.from = f.from => e = f

(* the arcs of a machine whose histories have the names N *)
Whole(A, N) ==
  /\ \A e \in A : IsArc(e) /\ e.from \in Seq(N)
  /\ Places(A)

(* a history is of one side's names and then of the other's, in one way only *)
LEMMA SplitOnce ==
  ASSUME NEW L, NEW R, L \cap R = {},
         NEW s, NEW t, NEW u, NEW v,
         s \in Seq(L), t \in Seq(R), u \in Seq(L), v \in Seq(R), s \o t = u \o v
  PROVE  s = u /\ t = v
<1>1. /\ Len(s) \in Nat /\ Len(t) \in Nat /\ Len(u) \in Nat /\ Len(v) \in Nat
      /\ s \in Seq(L \cup R) /\ t \in Seq(L \cup R) /\ u \in Seq(L \cup R) /\ v \in Seq(L \cup R)
  OBVIOUS
<1>2. ASSUME NEW a \in Seq(L), NEW b \in Seq(R), NEW c \in Seq(L), NEW d \in Seq(R),
             a \o b = c \o d
      PROVE  ~(Len(a) < Len(c))
  <2> SUFFICES ASSUME Len(a) < Len(c) PROVE FALSE OBVIOUS
  <2>1. /\ Len(a) \in Nat /\ Len(b) \in Nat /\ Len(c) \in Nat /\ Len(d) \in Nat
        /\ a \in Seq(L \cup R) /\ b \in Seq(L \cup R) /\ c \in Seq(L \cup R) /\ d \in Seq(L \cup R)
    OBVIOUS
  <2>2. /\ Len(a \o b) = Len(a) + Len(b)
        /\ \A n \in 1..Len(a) + Len(b) : (a \o b)[n] = IF n <= Len(a) THEN a[n] ELSE b[n - Len(a)]
    BY <2>1, ConcatProperties
  <2>3. /\ Len(c \o d) = Len(c) + Len(d)
        /\ \A n \in 1..Len(c) + Len(d) : (c \o d)[n] = IF n <= Len(c) THEN c[n] ELSE d[n - Len(c)]
    BY <2>1, ConcatProperties
  <2> DEFINE n == Len(a) + 1
  <2>4. Len(a) + Len(b) = Len(c) + Len(d) BY <1>2, <2>2, <2>3
  <2>5. n \in 1..Len(a) + Len(b) /\ n \in 1..Len(c) + Len(d) /\ n <= Len(c) /\ ~(n <= Len(a))
        /\ n - Len(a) \in 1..Len(b) /\ n \in 1..Len(c)
    BY <2>1, <2>4
  <2> HIDE DEF n
  <2>6. b[n - Len(a)] = c[n] BY <1>2, <2>2, <2>3, <2>5
  <2>7. c[n] \in L /\ b[n - Len(a)] \in R BY <2>5
  <2> QED BY <2>6, <2>7
<1>3. Len(s) = Len(u)
  <2>1. ~(Len(s) < Len(u)) BY <1>2
  <2>2. ~(Len(u) < Len(s)) BY <1>2
  <2> QED BY <1>1, <2>1, <2>2
<1>4. /\ Len(s \o t) = Len(s) + Len(t) /\ Len(u \o v) = Len(u) + Len(v)
      /\ \A n \in 1..Len(s) + Len(t) : (s \o t)[n] = IF n <= Len(s) THEN s[n] ELSE t[n - Len(s)]
      /\ \A n \in 1..Len(u) + Len(v) : (u \o v)[n] = IF n <= Len(u) THEN u[n] ELSE v[n - Len(u)]
  BY <1>1, ConcatProperties
<1>5. Len(t) = Len(v) BY <1>1, <1>3, <1>4
<1>6. ASSUME NEW n \in 1..Len(s) PROVE s[n] = u[n]
  <2>1. n \in 1..Len(s) + Len(t) /\ n \in 1..Len(u) + Len(v) /\ n <= Len(s) /\ n <= Len(u)
    BY <1>1, <1>3, <1>5
  <2> QED BY <1>4, <2>1
<1>7. ASSUME NEW n \in 1..Len(t) PROVE t[n] = v[n]
  <2>1. /\ Len(s) + n \in 1..Len(s) + Len(t) /\ Len(s) + n \in 1..Len(u) + Len(v)
        /\ ~(Len(s) + n <= Len(s)) /\ ~(Len(s) + n <= Len(u))
        /\ Len(s) + n - Len(s) = n /\ Len(s) + n - Len(u) = n
    BY <1>1, <1>3, <1>5
  <2> QED BY <1>4, <2>1
<1>8. s = u BY <1>1, <1>3, <1>6, SeqEqual
<1>9. t = v BY <1>1, <1>5, <1>7, SeqEqual
<1> QED BY <1>8, <1>9

(* What moves of x are made of *)
MoveShape(x, n, t, m) ==
  \/ \E l \in From(x.lhs, t.qa) :
       m = M(n, l, NoArc, T(l.dest, t.qb, IF x.groups THEN 0 ELSE 1))
  \/ \E r \in From(x.rhs, t.qb) :
       m = M(n, NoArc, r, T(t.qa, r.dest, IF x.groups THEN 1 ELSE 2))
  \/ ~x.groups /\ \E l \in From(x.lhs, t.qa), r \in From(x.rhs, t.qb) :
       m = M(n, l, r, T(l.dest, r.dest, 0))

LEMMA MovesShape ==
  ASSUME NEW x, NEW n, NEW t, NEW m \in MovesOf(x, n, t)
  PROVE  MoveShape(x, n, t, m)
<1>1. CASE x.groups
  <2>1. m \in MovesAlone(x, n, t) BY <1>1 DEF MovesOf
  <2>2. \/ \E l \in From(x.lhs, t.qa) : m = M(n, l, NoArc, T(l.dest, t.qb, 0))
        \/ \E r \in From(x.rhs, t.qb) : m = M(n, NoArc, r, T(t.qa, r.dest, 1))
    BY <2>1 DEF MovesAlone
  <2> QED BY <1>1, <2>2 DEF MoveShape
<1>2. CASE ~x.groups
  <2>1. m \in MovesByLeft(x, n, t) BY <1>2, MovesAreThoseByLeft DEF MovesOf
  <2>2. \/ \E l \in From(x.lhs, t.qa) : m \in LeftAlone(n, t, l)
        \/ \E r \in From(x.rhs, t.qb) : m \in RightAlone(n, t, r)
        \/ \E l \in From(x.lhs, t.qa), r \in From(x.rhs, t.qb) : m = Both(n, l, r)
    BY <2>1 DEF MovesByLeft
  <2>3. \/ \E l \in From(x.lhs, t.qa) : m = M(n, l, NoArc, T(l.dest, t.qb, 1))
        \/ \E r \in From(x.rhs, t.qb) : m = M(n, NoArc, r, T(t.qa, r.dest, 2))
        \/ \E l \in From(x.lhs, t.qa), r \in From(x.rhs, t.qb) : m = M(n, l, r, T(l.dest, r.dest, 0))
    BY <2>2 DEF LeftAlone, RightAlone, Both
  <2> QED BY <1>2, <2>3 DEF MoveShape
<1> QED BY <1>1, <1>2

(* the machines composed, and the names on either side *)
Sides(x, L, R) == Whole(x.lhs.arcs, L) /\ Whole(x.rhs.arcs, R) /\ L \cap R = {}

History(m) == m.l.from \o m.r.from

(* the moves of one trio, or of one mediate state, that lead to the same trio *)
LEMMA MovesDiffer ==
  ASSUME NEW x, NEW L, NEW R, Sides(x, L, R), NEW n, NEW t, NEW m, NEW o,
         \/ m \in MovesOf(x, n, t) /\ o \in MovesOf(x, n, t)
         \/ m \in MovesFromMediate(x, n, t) /\ o \in MovesFromMediate(x, n, t),
         m.to = o.to, History(m) = History(o)
  PROVE  m = o
<1>1. ASSUME NEW a \in x.lhs.arcs, NEW b \in x.lhs.arcs,
             a.src = b.src, a.dest = b.dest, a.from = b.from
      PROVE  a = b
  BY <1>1 DEF Sides, Whole, Places
<1>2. ASSUME NEW a \in x.rhs.arcs, NEW b \in x.rhs.arcs,
             a.src = b.src, a.dest = b.dest, a.from = b.from
      PROVE  a = b
  BY <1>2 DEF Sides, Whole, Places
<1>3. \A l \in x.lhs.arcs : l.from \in Seq(L) /\ l.from \o <<>> = l.from
  BY ConcatEmptySeq DEF Sides, Whole
<1>4. \A r \in x.rhs.arcs : r.from \in Seq(R) /\ <<>> \o r.from = r.from
  BY ConcatEmptySeq DEF Sides, Whole
<1>5. NoArc.from = <<>> BY DEF NoArc
<1>6. \A q : From(x.lhs, q) = {e \in x.lhs.arcs : e.src = q} /\ From(x.rhs, q) = {e \in x.rhs.arcs : e.src = q}
  BY DEF From
<1>7. CASE m \in MovesFromMediate(x, n, t) /\ o \in MovesFromMediate(x, n, t)
  <2>1. PICK r \in From(x.rhs, t.r_source) : m = M(n, NoArc, r, T(t.l_dest, r.dest, 0))
    BY <1>7 DEF MovesFromMediate
  <2>2. PICK s \in From(x.rhs, t.r_source) : o = M(n, NoArc, s, T(t.l_dest, s.dest, 0))
    BY <1>7 DEF MovesFromMediate
  <2>3. r.dest = s.dest BY <2>1, <2>2 DEF M, T
  <2>4. History(m) = r.from /\ History(o) = s.from
    BY <1>4, <1>5, <1>6, <2>1, <2>2 DEF M, History
  <2>5. r \in x.rhs.arcs /\ s \in x.rhs.arcs /\ r.src = s.src BY <1>6
  <2>6. r = s BY <1>2, <2>3, <2>4, <2>5
  <2> QED BY <2>1, <2>2, <2>6
<1>8. CASE m \in MovesOf(x, n, t) /\ o \in MovesOf(x, n, t)
  <2> DEFINE IsLeft(p, l) == p = M(n, l, NoArc, T(l.dest, t.qb, IF x.groups THEN 0 ELSE 1))
             IsRight(p, r) == p = M(n, NoArc, r, T(t.qa, r.dest, IF x.groups THEN 1 ELSE 2))
             IsBoth(p, l, r) == ~x.groups /\ p = M(n, l, r, T(l.dest, r.dest, 0))
             A == From(x.lhs, t.qa)
             B == From(x.rhs, t.qb)
  <2>1. \A p \in {m, o} : \/ \E l \in A : IsLeft(p, l)
                          \/ \E r \in B : IsRight(p, r)
                          \/ \E l \in A, r \in B : IsBoth(p, l, r)
    <3> SUFFICES ASSUME NEW p \in {m, o}
                 PROVE  \/ \E l \in A : IsLeft(p, l)
                        \/ \E r \in B : IsRight(p, r)
                        \/ \E l \in A, r \in B : IsBoth(p, l, r)
      OBVIOUS
    <3>1. p \in MovesOf(x, n, t) BY <1>8
    <3>2. MoveShape(x, n, t, p) BY <3>1, MovesShape
    <3> QED BY <3>2 DEF MoveShape
  <2>2. ASSUME NEW p, NEW l \in A, IsLeft(p, l)
        PROVE  p.to.filter = (IF x.groups THEN 0 ELSE 1) /\ p.to.qa = l.dest /\ History(p) = l.from
    BY <1>3, <1>5, <1>6, <2>2 DEF M, T, History
  <2>3. ASSUME NEW p, NEW r \in B, IsRight(p, r)
        PROVE  p.to.filter = (IF x.groups THEN 1 ELSE 2) /\ p.to.qb = r.dest /\ History(p) = r.from
    BY <1>4, <1>5, <1>6, <2>3 DEF M, T, History
  <2>4. ASSUME NEW p, NEW l \in A, NEW r \in B, IsBoth(p, l, r)
        PROVE  /\ p.to.filter = 0 /\ ~x.groups /\ p.to.qa = l.dest /\ p.to.qb = r.dest
               /\ History(p) = l.from \o r.from
    <3>1. p = M(n, l, r, T(l.dest, r.dest, 0)) /\ ~x.groups BY <2>4
    <3> HIDE DEF IsBoth
    <3> QED BY <3>1 DEF M, T, History
  <2> HIDE DEF IsLeft, IsRight, IsBoth, A, B
  <2>5. ASSUME NEW l \in A, NEW k \in A, IsLeft(m, l), IsLeft(o, k) PROVE m = o
    <3>1. l.dest = k.dest /\ l.from = k.from BY <2>2, <2>5
    <3>2. l = k BY <1>1, <1>6, <3>1 DEF A
    <3> QED BY <2>5, <3>2 DEF IsLeft
  <2>6. ASSUME NEW r \in B, NEW s \in B, IsRight(m, r), IsRight(o, s) PROVE m = o
    <3>1. r.dest = s.dest /\ r.from = s.from BY <2>3, <2>6
    <3>2. r = s BY <1>2, <1>6, <3>1 DEF B
    <3> QED BY <2>6, <3>2 DEF IsRight
  <2>7. ASSUME NEW l \in A, NEW r \in B, NEW k \in A, NEW s \in B, IsBoth(m, l, r), IsBoth(o, k, s)
        PROVE  m = o
    <3>0. /\ m.to.qa = l.dest /\ m.to.qb = r.dest /\ History(m) = l.from \o r.from
          /\ o.to.qa = k.dest /\ o.to.qb = s.dest /\ History(o) = k.from \o s.from
      BY <2>4, <2>7
    <3>1. l.dest = k.dest /\ r.dest = s.dest /\ l.from \o r.from = k.from \o s.from BY <3>0
    <3>2. l.from = k.from /\ r.from = s.from
      <4>1. l.from \in Seq(L) /\ k.from \in Seq(L) BY <1>3, <1>6 DEF A
      <4>2. r.from \in Seq(R) /\ s.from \in Seq(R) BY <1>4, <1>6 DEF B
      <4>3. L \cap R = {} BY DEF Sides
      <4> QED BY <3>1, <4>1, <4>2, <4>3, SplitOnce, ZenonT(60)
    <3>3. l = k /\ r = s BY <1>1, <1>2, <1>6, <3>1, <3>2 DEF A, B
    <3> QED BY <2>7, <3>3 DEF IsBoth
  <2>11. ASSUME NEW p, NEW q, NEW l \in A, NEW k \in A, NEW r \in B, IsLeft(p, l), IsBoth(q, k, r)
         PROVE  p.to # q.to
    <3>1. p.to.filter = IF x.groups THEN 0 ELSE 1 BY <2>2, <2>11
    <3>2. q.to.filter = 0 /\ ~x.groups BY <2>4, <2>11
    <3> QED BY <3>1, <3>2
  <2>12. ASSUME NEW p, NEW q, NEW l \in A, NEW r \in B, NEW s \in B, IsRight(p, s), IsBoth(q, l, r)
         PROVE  p.to # q.to
    <3>1. p.to.filter = IF x.groups THEN 1 ELSE 2 BY <2>3, <2>12
    <3>2. q.to.filter = 0 /\ ~x.groups BY <2>4, <2>12
    <3> QED BY <3>1, <3>2
  <2>8. CASE \E l \in A : IsLeft(m, l)
    <3>1. PICK l \in A : IsLeft(m, l) BY <2>8
    <3>2. ~\E r \in B : IsRight(o, r) BY <2>2, <2>3, <3>1
    <3>3. ~\E k \in A, r \in B : IsBoth(o, k, r) BY <2>11, <3>1
    <3>4. \E k \in A : IsLeft(o, k) BY <2>1, <3>2, <3>3
    <3> QED BY <2>5, <3>1, <3>4
  <2>9. CASE \E r \in B : IsRight(m, r)
    <3>1. PICK r \in B : IsRight(m, r) BY <2>9
    <3>2. ~\E l \in A : IsLeft(o, l) BY <2>2, <2>3, <3>1
    <3>3. ~\E k \in A, s \in B : IsBoth(o, k, s) BY <2>12, <3>1
    <3>4. \E s \in B : IsRight(o, s) BY <2>1, <3>2, <3>3
    <3> QED BY <2>6, <3>1, <3>4
  <2>10. CASE \E l \in A, r \in B : IsBoth(m, l, r)
    <3>1. PICK l \in A, r \in B : IsBoth(m, l, r) BY <2>10
    <3>2. ~\E k \in A : IsLeft(o, k) BY <2>11, <3>1
    <3>3. ~\E s \in B : IsRight(o, s) BY <2>12, <3>1
    <3>4. \E k \in A, s \in B : IsBoth(o, k, s) BY <2>1, <3>2, <3>3
    <3> QED BY <2>7, <3>1, <3>4
  <2> QED BY <2>1, <2>8, <2>9, <2>10
<1> QED BY <1>7, <1>8

LEMMA PendingFacts ==
  ASSUME IInv, NEW L, NEW R, Sides(input, L, R), NEW m \in pending
  PROVE  /\ m.from \in Nat /\ m.from < numStates /\ numStates \in Nat
         /\ History(m) \in Seq(L \cup R)
<1>1. PICK n, t : /\ \/ t \in DOMAIN stateMap /\ n = stateMap[t] /\ m \in MovesOf(input, n, t)
                     \/ t \in DOMAIN arcStateMap /\ n = arcStateMap[t]
                        /\ m \in MovesFromMediate(input, n, t)
  BY DEF IInv, PendingAreMoves
<1>2. n \in Nat /\ n < numStates /\ numStates \in Nat BY <1>1 DEF IInv, Shape, NumbersUsed
<1>3. Moved(input, m) /\ m.from = n BY <1>1, MovesMove
<1>4. History(m) \in Seq(L \cup R)
  <2>1. NoArc.from = <<>> /\ <<>> \in Seq(L \cup R) BY DEF NoArc
  <2>2. \A l \in input.lhs.arcs : l.from \in Seq(L \cup R) BY DEF Sides, Whole
  <2>3. \A r \in input.rhs.arcs : r.from \in Seq(L \cup R) BY DEF Sides, Whole
  <2>4. m.l.from \in Seq(L \cup R) /\ m.r.from \in Seq(L \cup R)
    BY <1>3, <2>1, <2>2, <2>3 DEF Moved
  <2> QED BY <2>4, ConcatProperties DEF History
<1> QED BY <1>2, <1>3, <1>4

LEMMA PendingDiffer ==
  ASSUME IInv, NEW L, NEW R, Sides(input, L, R), NEW m \in pending, NEW o \in pending,
         m.from = o.from, m.to = o.to, History(m) = History(o)
  PROVE  m = o
<1> DEFINE OfTrio(p, t) == t \in DOMAIN stateMap /\ p \in MovesOf(input, stateMap[t], t)
           OfMediate(p, k) == k \in DOMAIN arcStateMap /\ p \in MovesFromMediate(input, arcStateMap[k], k)
<1>1. \A p \in pending : (\E t : OfTrio(p, t)) \/ (\E k : OfMediate(p, k))
  BY DEF IInv, PendingAreMoves
<1>2. ASSUME NEW p, NEW t, OfTrio(p, t) PROVE p.from = stateMap[t] BY <1>2, MovesMove
<1>3. ASSUME NEW p, NEW k, OfMediate(p, k) PROVE p.from = arcStateMap[k] BY <1>3, MovesMove
<1>4. /\ \A t, u \in DOMAIN stateMap : stateMap[t] = stateMap[u] => t = u
      /\ \A k, l \in DOMAIN arcStateMap : arcStateMap[k] = arcStateMap[l] => k = l
      /\ \A t \in DOMAIN stateMap, k \in DOMAIN arcStateMap : stateMap[t] # arcStateMap[k]
  BY DEF IInv, NumbersDistinct
<1>5. \/ \E t : OfTrio(m, t) /\ OfTrio(o, t)
      \/ \E k : OfMediate(m, k) /\ OfMediate(o, k)
  <2>1. CASE \E t : OfTrio(m, t)
    <3>1. PICK t : OfTrio(m, t) BY <2>1
    <3>2. ~\E k : OfMediate(o, k) BY <1>2, <1>3, <1>4, <3>1
    <3>3. PICK u : OfTrio(o, u) BY <1>1, <3>2
    <3>4. t = u BY <1>2, <1>4, <3>1, <3>3
    <3> QED BY <3>1, <3>3, <3>4
  <2>2. CASE \E k : OfMediate(m, k)
    <3>1. PICK k : OfMediate(m, k) BY <2>2
    <3>2. ~\E t : OfTrio(o, t) BY <1>2, <1>3, <1>4, <3>1
    <3>3. PICK l : OfMediate(o, l) BY <1>1, <3>2
    <3>4. k = l BY <1>3, <1>4, <3>1, <3>3
    <3> QED BY <3>1, <3>3, <3>4
  <2> QED BY <1>1, <2>1, <2>2
<1> QED BY <1>5, MovesDiffer

(* What is to be made is not there yet, not even with another weight or letter *)
IsMade(e, n, map, to, history) ==
  e.src = n /\ to \in DOMAIN map /\ e.dest = map[to] /\ e.from = history

FreshInv(N) ==
  /\ Whole(arcs, N) /\ IsFiniteSet(arcs) /\ IsFiniteSet(DOMAIN stateMap)
  /\ \A e \in arcs : e.src \in Nat /\ e.src < numStates /\ e.dest \in Nat /\ e.dest < numStates
  /\ \A t \in Waiting :
       /\ \A e \in arcs : e.src # stateMap[t]
       /\ \A m \in pending : m.from # stateMap[t]
       /\ halves # {} => source # t
  /\ \A m \in pending : \A e \in arcs : ~IsMade(e, m.from, stateMap, m.to, History(m))
  /\ \A l \in halves : \A e \in arcs :
       ~IsMade(e, stateMap[source], arcStateMap, MediateState(l, source.qb), l.from)
  /\ pc # "compose" => pending = {} /\ halves = {}

LEMMA NewArcFields ==
  ASSUME NEW n, NEW l, NEW r, NEW dest, NEW g
  PROVE  LET e == NewArc(n, l, r, dest, g)
         IN  e.src = n /\ e.dest = dest /\ e.from = l.from \o r.from /\ IsArc(e)
BY DEF NewArc, IsArc

LEMMA FreshMadeOnce ==
  ASSUME NEW N, FreshInv(N), NEW L, NEW R, Sides(input, L, R), IInv
  PROVE  MadeOnce
<1>1. ASSUME NEW m \in pending, NEW e \in arcs, Makes(stateMap, m, e) PROVE FALSE
  <2>1. m.to \in DOMAIN stateMap /\ e = NewArc(m.from, m.l, m.r, stateMap[m.to], e.group)
    BY <1>1 DEF Makes
  <2>2. e.src = m.from /\ e.dest = stateMap[m.to] /\ e.from = m.l.from \o m.r.from
    <3>1. PICK g : e = NewArc(m.from, m.l, m.r, stateMap[m.to], g) BY <2>1
    <3> QED BY <3>1 DEF NewArc
  <2>3. IsMade(e, m.from, stateMap, m.to, History(m)) BY <2>1, <2>2 DEF IsMade, History
  <2> QED BY <2>3 DEF FreshInv
<1>2. ASSUME NEW l \in halves, NEW e \in arcs, MakesHalf(stateMap, arcStateMap, source, l, e)
      PROVE  FALSE
  <2> DEFINE k == MediateState(l, source.qb)
  <2>1. k \in DOMAIN arcStateMap /\ e = NewArc(stateMap[source], l, NoArc, arcStateMap[k], e.group)
    BY <1>2 DEF MakesHalf
  <2>2. l.from \in Seq(L)
    BY DEF IInv, HalvesOfSource, HalvesOf, Halves, From, Sides, Whole
  <2>3. e.src = stateMap[source] /\ e.dest = arcStateMap[k] /\ e.from = l.from \o <<>>
    <3>1. PICK g : e = NewArc(stateMap[source], l, NoArc, arcStateMap[k], g) BY <2>1
    <3> QED BY <3>1 DEF NewArc, NoArc
  <2>4. IsMade(e, stateMap[source], arcStateMap, k, l.from)
    BY <2>1, <2>2, <2>3, ConcatEmptySeq DEF IsMade
  <2> QED BY <2>4 DEF FreshInv
<1> QED BY <1>1, <1>2 DEF MadeOnce

LEMMA FreshBegin ==
  ASSUME NEW x, Begin(x), NEW N
  PROVE  FreshInv(N)'
<1>1. /\ arcs' = {} /\ pending' = {} /\ halves' = {} /\ stateMap' = [t \in {Start} |-> 0]
  BY DEF Begin
<1>2. IsFiniteSet(arcs') /\ IsFiniteSet(DOMAIN stateMap')
  <2>1. DOMAIN stateMap' = {Start} BY <1>1
  <2> QED BY <1>1, <2>1, FS_EmptySet, FS_Singleton
<1>3. Whole(arcs', N) BY <1>1 DEF Whole, Places
<1> QED BY <1>1, <1>2, <1>3 DEF FreshInv

LEMMA FreshExpand ==
  ASSUME IInv, NEW L, NEW R, Sides(input, L, R), NEW N, FreshInv(N), Expand
  PROVE  FreshInv(N)'
<1> DEFINE t == queue[Len(queue)]
           n == stateMap[t]
<1>1. /\ pc = "compose" /\ pending = {} /\ halves = {} /\ queue # <<>>
      /\ source' = t /\ pending' = MovesOf(input, n, t) /\ halves' = HalvesOf(input, t)
      /\ queue' = SubSeq(queue, 1, Len(queue) - 1)
      /\ UNCHANGED <<pc, input, stateMap, arcStateMap, numStates, arcs>>
  BY DEF Expand, Expanded
<1>2. queue \in Seq(DOMAIN stateMap) /\ QueueDistinct BY DEF IInv, Shape
<1>3. t \in Waiting /\ Waiting' = Waiting \ {t} /\ t \in DOMAIN stateMap
  <2>1. Len(queue) \in Nat \ {0} /\ DOMAIN queue = 1..Len(queue) BY <1>1, <1>2
  <2>2. /\ DOMAIN queue' = 1..Len(queue) - 1
        /\ \A k \in 1..Len(queue) - 1 : queue'[k] = queue[k]
    BY <1>1, <1>2, <2>1
  <2>3. ASSUME NEW u \in Waiting, u # t PROVE u \in Waiting'
    <3>1. PICK k \in DOMAIN queue : u = queue[k] BY DEF Waiting
    <3>2. k \in 1..Len(queue) - 1 BY <2>1, <2>3, <3>1
    <3>3. u = queue'[k] /\ k \in DOMAIN queue' BY <2>2, <3>1, <3>2
    <3> QED BY <3>3 DEF Waiting
  <2>4. ASSUME NEW u \in Waiting' PROVE u \in Waiting /\ u # t
    <3>1. PICK k \in DOMAIN queue' : u = queue'[k] BY DEF Waiting
    <3>2. k \in DOMAIN queue /\ Len(queue) \in DOMAIN queue /\ k # Len(queue) /\ u = queue[k]
      BY <2>1, <2>2, <3>1
    <3> QED BY <1>2, <3>2 DEF Waiting, QueueDistinct
  <2>5. t \in Waiting /\ t \in DOMAIN stateMap BY <1>2, <2>1 DEF Waiting
  <2> HIDE DEF t
  <2> QED BY <2>3, <2>4, <2>5
<1> HIDE DEF t
<1>4. \A e \in arcs : e.src # n BY <1>3 DEF FreshInv
<1>5. ASSUME NEW m \in pending' PROVE m.from = n BY <1>1, MovesMove
<1>6. ASSUME NEW u \in Waiting' PROVE u \in Waiting /\ u \in DOMAIN stateMap /\ stateMap[u] # n /\ u # t
  <2>1. u \in Waiting /\ u # t BY <1>3
  <2>2. u \in DOMAIN stateMap
    <3>1. PICK k \in DOMAIN queue : u = queue[k] BY <2>1 DEF Waiting
    <3> QED BY <1>2, <3>1
  <2> QED BY <1>3, <2>1, <2>2 DEF IInv, NumbersDistinct
<1>7. \A u \in Waiting' :
        /\ \A e \in arcs : e.src # stateMap[u]
        /\ \A m \in pending' : m.from # stateMap[u]
        /\ u # t
  BY <1>5, <1>6 DEF FreshInv
<1>8. \A m \in pending' : \A e \in arcs : ~IsMade(e, m.from, stateMap, m.to, History(m))
  BY <1>4, <1>5 DEF IsMade
<1>9. \A l \in halves' : \A e \in arcs :
        ~IsMade(e, stateMap[t], arcStateMap, MediateState(l, t.qb), l.from)
  BY <1>4 DEF IsMade
<1> QED BY <1>1, <1>7, <1>8, <1>9 DEF FreshInv

(* an arc that was not there *)
LEMMA WholeGrows ==
  ASSUME NEW A, NEW N, Whole(A, N), NEW e, IsArc(e), e.from \in Seq(N),
         \A f \in A : ~(f.src = e.src /\ f.dest = e.dest /\ f.from = e.from)
  PROVE  Whole(A \cup {e}, N)
<1>1. Places(A \cup {e}) BY DEF Whole, Places
<1> QED BY <1>1 DEF Whole

LEMMA FreshComposeArc ==
  ASSUME IInv, NEW L, NEW R, Sides(input, L, R), FreshInv(L \cup R), NEW m, ComposeArc(m)
  PROVE  FreshInv(L \cup R)'
<1> DEFINE N == L \cup R
           new == m.to \notin DOMAIN stateMap
           dest == stateMap'[m.to]
           id == Recorded(m.l, m.r).id
           made == NewArc(m.from, m.l, m.r, dest, id)
<1>1. /\ pc = "compose" /\ m \in pending /\ pending' = pending \ {m}
      /\ stateMap' = Inserted(stateMap, m.to, numStates)
      /\ queue' = IF new THEN Append(queue, m.to) ELSE queue
      /\ numStates' = IF new THEN numStates + 1 ELSE numStates
      /\ arcs' = arcs \cup {made}
      /\ UNCHANGED <<pc, input, arcStateMap, source, halves>>
  BY DEF ComposeArc
<1>2. /\ m.from \in Nat /\ m.from < numStates /\ numStates \in Nat /\ History(m) \in Seq(N)
  BY <1>1, PendingFacts
<1>3. /\ DOMAIN stateMap' = DOMAIN stateMap \cup {m.to}
      /\ \A t \in DOMAIN stateMap : stateMap'[t] = stateMap[t]
      /\ new => stateMap'[m.to] = numStates
  <2> DEFINE map == Inserted(stateMap, m.to, numStates)
  <2>1. map = [x \in DOMAIN stateMap \cup {m.to} |->
                 IF x \in DOMAIN stateMap THEN stateMap[x] ELSE numStates]
    BY DEF Inserted
  <2> HIDE DEF map
  <2>2. stateMap' = map BY <1>1 DEF map
  <2>3. DOMAIN map = DOMAIN stateMap \cup {m.to} BY <2>1
  <2>4. \A t \in DOMAIN stateMap : map[t] = stateMap[t] BY <2>1
  <2>5. m.to \notin DOMAIN stateMap => map[m.to] = numStates BY <2>1
  <2> QED BY <2>2, <2>3, <2>4, <2>5
<1>4. /\ \A t \in DOMAIN stateMap : stateMap[t] \in Nat /\ stateMap[t] < numStates
      /\ source \in DOMAIN stateMap /\ queue \in Seq(DOMAIN stateMap)
  BY DEF IInv, Shape, NumbersUsed
<1>5. NumbersDistinct' BY <1>1, ComposeArcKeeps DEF IInv
<1>6. /\ Whole(arcs, N) /\ IsFiniteSet(arcs) /\ IsFiniteSet(DOMAIN stateMap)
      /\ \A e \in arcs : e.src < numStates /\ e.dest < numStates /\ e.src \in Nat /\ e.dest \in Nat
  BY DEF FreshInv, Whole
<1>7. /\ made.src = m.from /\ made.dest = dest /\ made.from = History(m) /\ IsArc(made)
  BY NewArcFields DEF History
<1>8. dest \in Nat /\ dest < numStates' /\ numStates' \in Nat /\ numStates <= numStates'
  BY <1>1, <1>2, <1>3, <1>4
<1> HIDE DEF made, dest
<1>9. ASSUME NEW e \in arcs PROVE ~(e.src = made.src /\ e.dest = made.dest /\ e.from = made.from)
  <2>1. CASE new BY <1>3, <1>6, <1>7, <1>2, <2>1 DEF dest
  <2>2. CASE ~new BY <1>1, <1>3, <1>7, <2>2 DEF dest, FreshInv, IsMade
  <2> QED BY <2>1, <2>2
<1>10. Whole(arcs', N) BY <1>1, <1>2, <1>6, <1>7, <1>8, <1>9, WholeGrows
<1>11. IsFiniteSet(arcs') /\ IsFiniteSet(DOMAIN stateMap')
  BY <1>1, <1>3, <1>6, FS_AddElement
<1>12. \A e \in arcs' : e.src \in Nat /\ e.src < numStates' /\ e.dest \in Nat /\ e.dest < numStates'
  BY <1>1, <1>2, <1>6, <1>7, <1>8
<1>13. ASSUME NEW t \in Waiting'
       PROVE  /\ \A e \in arcs' : e.src # stateMap'[t]
              /\ \A o \in pending' : o.from # stateMap'[t]
              /\ halves' # {} => source' # t
  <2>1. CASE t \in Waiting
    <3>1. t \in DOMAIN stateMap BY <1>4, <2>1 DEF Waiting
    <3> QED BY <1>1, <1>3, <1>7, <2>1, <3>1 DEF FreshInv
  <2>2. CASE t \notin Waiting
    <3>1. new /\ t = m.to
      <4>1. Waiting' \subseteq Waiting \cup (IF new THEN {m.to} ELSE {})
        <5>1. CASE new BY <1>1, <1>4, <5>1 DEF Waiting
        <5>2. CASE ~new BY <1>1, <5>2 DEF Waiting
        <5> QED BY <5>1, <5>2
      <4> QED BY <2>2, <4>1
    <3>2. stateMap'[t] = numStates BY <1>3, <3>1
    <3>3. \A e \in arcs' : e.src # numStates BY <1>1, <1>2, <1>6, <1>7
    <3>4. \A o \in pending' : o.from # numStates
      <4> SUFFICES ASSUME NEW o \in pending' PROVE o.from # numStates OBVIOUS
      <4>1. o \in pending BY <1>1
      <4>2. o.from \in Nat /\ o.from < numStates BY <4>1, PendingFacts
      <4> QED BY <1>2, <4>2
    <3> QED BY <1>1, <1>4, <3>1, <3>2, <3>3, <3>4
  <2> QED BY <2>1, <2>2
<1>14. ASSUME NEW o \in pending', NEW e \in arcs', IsMade(e, o.from, stateMap', o.to, History(o))
       PROVE  FALSE
  <2>1. /\ o \in pending /\ o # m /\ e.src = o.from /\ o.to \in DOMAIN stateMap'
        /\ e.dest = stateMap'[o.to] /\ e.from = History(o)
    BY <1>1, <1>14 DEF IsMade
  <2>2. CASE e \in arcs
    <3>1. CASE o.to \in DOMAIN stateMap
      <4>1. IsMade(e, o.from, stateMap, o.to, History(o)) BY <1>3, <2>1, <3>1 DEF IsMade
      <4> QED BY <2>1, <2>2, <4>1 DEF FreshInv
    <3>2. CASE o.to \notin DOMAIN stateMap
      <4>1. o.to = m.to /\ new BY <1>3, <2>1, <3>2
      <4>2. e.dest = numStates BY <1>3, <2>1, <4>1
      <4> QED BY <1>2, <1>6, <2>2, <4>2
    <3> QED BY <3>1, <3>2
  <2>3. CASE e = made
    <3>1. o.from = m.from /\ History(o) = History(m) /\ stateMap'[o.to] = stateMap'[m.to]
      BY <1>7, <2>1, <2>3 DEF dest
    <3>2. o.to = m.to BY <1>3, <1>5, <2>1, <3>1 DEF NumbersDistinct
    <3> QED BY <1>1, <2>1, <3>1, <3>2, PendingDiffer
  <2> QED BY <1>1, <2>2, <2>3
<1>15. ASSUME NEW l \in halves', NEW e \in arcs',
              IsMade(e, stateMap'[source'], arcStateMap', MediateState(l, source'.qb), l.from)
       PROVE  FALSE
  <2>1. CASE e \in arcs
    <3>1. IsMade(e, stateMap[source], arcStateMap, MediateState(l, source.qb), l.from)
      BY <1>1, <1>3, <1>4, <1>15
    <3> QED BY <1>1, <2>1, <3>1 DEF FreshInv
  <2>2. CASE e = made
    <3>1. dest = arcStateMap'[MediateState(l, source'.qb)]
          /\ MediateState(l, source'.qb) \in DOMAIN arcStateMap'
      BY <1>7, <1>15, <2>2 DEF IsMade
    <3> QED BY <1>3, <1>5, <3>1 DEF NumbersDistinct, dest
  <2> QED BY <1>1, <2>1, <2>2
<1> QED BY <1>1, <1>10, <1>11, <1>12, <1>13, <1>14, <1>15 DEF FreshInv

LEMMA FreshComposeHalf ==
  ASSUME IInv, NEW L, NEW R, Sides(input, L, R), FreshInv(L \cup R), NEW l, ComposeHalf(l)
  PROVE  FreshInv(L \cup R)'
<1> DEFINE N == L \cup R
           k == MediateState(l, source.qb)
           new == k \notin DOMAIN arcStateMap
           n == stateMap[source]
           dest == arcStateMap'[k]
           made == NewArc(n, l, NoArc, dest, Recorded(l, NoArc).id)
           more == IF new THEN MovesFromMediate(input, numStates, k) ELSE {}
<1>1. /\ pc = "compose" /\ l \in halves /\ halves' = halves \ {l}
      /\ arcStateMap' = Inserted(arcStateMap, k, numStates)
      /\ numStates' = IF new THEN numStates + 1 ELSE numStates
      /\ pending' = pending \cup more
      /\ arcs' = arcs \cup {made}
      /\ UNCHANGED <<pc, input, stateMap, queue, source>>
  BY DEF ComposeHalf
<1>2. /\ DOMAIN arcStateMap' = DOMAIN arcStateMap \cup {k}
      /\ \A j \in DOMAIN arcStateMap : arcStateMap'[j] = arcStateMap[j]
      /\ new => arcStateMap'[k] = numStates
  <2> DEFINE map == Inserted(arcStateMap, k, numStates)
  <2>1. map = [x \in DOMAIN arcStateMap \cup {k} |->
                 IF x \in DOMAIN arcStateMap THEN arcStateMap[x] ELSE numStates]
    BY DEF Inserted
  <2> HIDE DEF map, k
  <2>2. arcStateMap' = map BY <1>1 DEF map
  <2>3. DOMAIN map = DOMAIN arcStateMap \cup {k} BY <2>1
  <2>4. \A j \in DOMAIN arcStateMap : map[j] = arcStateMap[j] BY <2>1
  <2>5. k \notin DOMAIN arcStateMap => map[k] = numStates BY <2>1
  <2> QED BY <2>2, <2>3, <2>4, <2>5
<1>3. /\ \A t \in DOMAIN stateMap : stateMap[t] \in Nat /\ stateMap[t] < numStates
      /\ \A j \in DOMAIN arcStateMap : arcStateMap[j] \in Nat /\ arcStateMap[j] < numStates
      /\ source \in DOMAIN stateMap /\ queue \in Seq(DOMAIN stateMap) /\ numStates \in Nat
      /\ n \in Nat /\ n < numStates
  BY DEF IInv, Shape, NumbersUsed
<1>4. NumbersDistinct' BY <1>1, ComposeHalfKeeps DEF IInv
<1>5. /\ Whole(arcs, N) /\ IsFiniteSet(arcs) /\ IsFiniteSet(DOMAIN stateMap)
      /\ \A e \in arcs : e.src < numStates /\ e.dest < numStates /\ e.src \in Nat /\ e.dest \in Nat
  BY DEF FreshInv, Whole
<1>6. /\ \A h \in halves : h \in input.lhs.arcs /\ h.src = source.qa /\ h.from \in Seq(L)
      /\ \A h \in input.lhs.arcs : h.from \in Seq(L) /\ h.from \in Seq(N)
  BY DEF IInv, HalvesOfSource, HalvesOf, Halves, From, Sides, Whole
<1>7. /\ made.src = n /\ made.dest = dest /\ made.from = l.from /\ IsArc(made)
  <2>1. l.from \o NoArc.from = l.from BY <1>1, <1>6, ConcatEmptySeq DEF NoArc
  <2>2. made.src = n /\ made.dest = dest /\ made.from = l.from \o NoArc.from /\ IsArc(made)
    BY NewArcFields
  <2> HIDE DEF made
  <2> QED BY <2>1, <2>2
<1>8. dest \in Nat /\ dest < numStates' /\ numStates' \in Nat /\ numStates <= numStates'
  BY <1>1, <1>2, <1>3
<1>9. ASSUME NEW m \in more PROVE m.from = numStates BY <1>9, MovesMove
<1> HIDE DEF made, dest, n, more
<1>10. ASSUME NEW e \in arcs PROVE ~(e.src = made.src /\ e.dest = made.dest /\ e.from = made.from)
  <2>1. CASE new BY <1>2, <1>3, <1>5, <1>7, <2>1 DEF dest
  <2>2. CASE ~new BY <1>1, <1>2, <1>7, <2>2 DEF dest, n, FreshInv, IsMade
  <2> QED BY <2>1, <2>2
<1> HIDE DEF k
<1>11. Whole(arcs', N) BY <1>1, <1>3, <1>5, <1>6, <1>7, <1>8, <1>10, WholeGrows
<1>12. IsFiniteSet(arcs') /\ IsFiniteSet(DOMAIN stateMap') BY <1>1, <1>5, FS_AddElement
<1>13. \A e \in arcs' : e.src \in Nat /\ e.src < numStates' /\ e.dest \in Nat /\ e.dest < numStates'
  BY <1>1, <1>3, <1>5, <1>7, <1>8
<1>14. ASSUME NEW t \in Waiting'
       PROVE  /\ \A e \in arcs' : e.src # stateMap'[t]
              /\ \A o \in pending' : o.from # stateMap'[t]
              /\ halves' # {} => source' # t
  <2>1. t \in Waiting /\ t \in DOMAIN stateMap BY <1>1, <1>3 DEF Waiting
  <2>2. source # t BY <1>1, <2>1 DEF FreshInv
  <2>3. n # stateMap[t] BY <1>3, <2>1, <2>2 DEF IInv, NumbersDistinct, n
  <2>4. \A o \in more : o.from # stateMap[t] BY <1>3, <1>9, <2>1
  <2> QED BY <1>1, <1>7, <2>1, <2>2, <2>3, <2>4 DEF FreshInv
<1>15. ASSUME NEW o \in pending', NEW e \in arcs', IsMade(e, o.from, stateMap', o.to, History(o))
       PROVE  FALSE
  <2>1. /\ e.src = o.from /\ o.to \in DOMAIN stateMap /\ e.dest = stateMap[o.to]
        /\ IsMade(e, o.from, stateMap, o.to, History(o))
    BY <1>1, <1>15 DEF IsMade
  <2>2. CASE e = made
    <3>1. arcStateMap'[k] = stateMap'[o.to] /\ k \in DOMAIN arcStateMap' /\ o.to \in DOMAIN stateMap'
      BY <1>1, <1>2, <1>7, <2>1, <2>2 DEF dest
    <3> QED BY <1>4, <3>1 DEF NumbersDistinct
  <2>3. CASE e \in arcs /\ o \in pending BY <2>1, <2>3 DEF FreshInv
  <2>4. CASE e \in arcs /\ o \in more BY <1>3, <1>5, <1>9, <2>1, <2>4
  <2> QED BY <1>1, <2>2, <2>3, <2>4
<1>16. ASSUME NEW h \in halves', NEW e \in arcs',
              IsMade(e, stateMap'[source'], arcStateMap', MediateState(h, source'.qb), h.from)
       PROVE  FALSE
  <2> DEFINE j == MediateState(h, source.qb)
  <2>1. /\ h \in halves /\ h # l /\ e.src = n /\ j \in DOMAIN arcStateMap'
        /\ e.dest = arcStateMap'[j] /\ e.from = h.from
    BY <1>1, <1>16 DEF IsMade, n
  <2>2. CASE e \in arcs
    <3>1. CASE j \in DOMAIN arcStateMap
      <4>1. IsMade(e, stateMap[source], arcStateMap, j, h.from) BY <1>2, <2>1, <3>1 DEF IsMade, n
      <4> QED BY <2>1, <2>2, <4>1 DEF FreshInv
    <3>2. CASE j \notin DOMAIN arcStateMap
      <4> HIDE DEF j
      <4>1. j = k /\ new BY <1>2, <2>1, <3>2
      <4>2. e.dest = numStates BY <1>2, <2>1, <4>1
      <4> QED BY <1>3, <1>5, <2>2, <4>2
    <3> QED BY <3>1, <3>2
  <2>3. CASE e = made
    <3>1. h.from = l.from /\ arcStateMap'[j] = arcStateMap'[k] BY <1>7, <2>1, <2>3 DEF dest
    <3>2. j = k BY <1>2, <1>4, <2>1, <3>1 DEF NumbersDistinct
    <3>3. h.dest = l.dest BY <3>2 DEF k, MediateState
    <3>4. h \in input.lhs.arcs /\ l \in input.lhs.arcs /\ h.src = l.src BY <1>1, <1>6, <2>1
    <3>5. h = l BY <3>1, <3>3, <3>4 DEF Sides, Whole, Places
    <3> QED BY <2>1, <3>5
  <2> QED BY <1>1, <2>2, <2>3
<1> QED BY <1>1, <1>11, <1>12, <1>13, <1>14, <1>15, <1>16 DEF FreshInv

LEMMA FreshFinish ==
  ASSUME IInv, NEW N, FreshInv(N), Finish
  PROVE  FreshInv(N)'
<1> DEFINE n == numStates
           locked == {LockedArc(t, n) : t \in Finals}
<1>1. /\ pc = "compose" /\ pending = {} /\ halves = {} /\ queue = <<>>
      /\ \/ numStates' = n + 1 /\ arcs' = arcs \cup locked
         \/ numStates' = n /\ arcs' = arcs
      /\ UNCHANGED <<input, stateMap, arcStateMap, queue, source, pending, halves>>
  BY DEF Finish, Expanded
<1>2. /\ Whole(arcs, N) /\ IsFiniteSet(arcs) /\ IsFiniteSet(DOMAIN stateMap)
      /\ \A e \in arcs : e.src < n /\ e.dest < n /\ e.src \in Nat /\ e.dest \in Nat
  BY DEF FreshInv, Whole
<1>3. n \in Nat /\ \A t \in DOMAIN stateMap : stateMap[t] \in Nat /\ stateMap[t] < n
  BY DEF IInv, Shape, NumbersUsed
<1>4. ASSUME NEW e \in locked
      PROVE  /\ e.src \in Nat /\ e.src < n /\ e.dest = n /\ e.from = <<>> /\ IsArc(e)
             /\ e = [src |-> e.src, in |-> Eps, out |-> Eps, dest |-> n, weight |-> 1,
                     group |-> Locked1GroupId(cascade), from |-> <<>>]
  <2>1. PICK t \in Finals : e = LockedArc(t, n) BY <1>4
  <2>2. t \in DOMAIN stateMap BY DEF Finals
  <2>3. e = [src |-> stateMap[t], in |-> Eps, out |-> Eps, dest |-> n, weight |-> 1,
             group |-> Locked1GroupId(cascade), from |-> <<>>]
    BY <2>1 DEF LockedArc, NoArc
  <2> QED BY <1>3, <2>2, <2>3 DEF IsArc
<1>5. IsFiniteSet(locked)
  <2>1. Finals \subseteq DOMAIN stateMap BY DEF Finals
  <2>2. IsFiniteSet(Finals) BY <1>2, <2>1, FS_Subset
  <2>3. [t \in Finals |-> LockedArc(t, n)] \in Surjection(Finals, locked) BY DEF Surjection
  <2> QED BY <2>2, <2>3, FS_Surjection
<1> HIDE DEF locked
<1>6. CASE numStates' = n + 1 /\ arcs' = arcs \cup locked
  <2>1. \A e \in locked : e.src \in Nat /\ e.dest \in Nat /\ e.from \in Seq(N) /\ IsArc(e)
    <3> SUFFICES ASSUME NEW e \in locked
                 PROVE  e.src \in Nat /\ e.dest \in Nat /\ e.from \in Seq(N) /\ IsArc(e)
      OBVIOUS
    <3>1. e.src \in Nat /\ e.dest = n /\ e.from = <<>> /\ IsArc(e) BY <1>4
    <3>2. <<>> \in Seq(N) OBVIOUS
    <3> QED BY <1>3, <3>1, <3>2
  <2>2. Places(arcs')
    <3> SUFFICES ASSUME NEW e \in arcs', NEW f \in arcs', e.src = f.src, e.dest = f.dest, e.from = f.from
                 PROVE  e = f
      BY DEF Places
    <3>1. CASE e \in arcs /\ f \in arcs BY <1>2, <3>1 DEF Whole, Places
    <3>2. CASE e \in locked /\ f \in locked BY <1>4, <3>2
    <3>3. ~(e \in arcs /\ f \in locked) /\ ~(e \in locked /\ f \in arcs) BY <1>2, <1>3, <1>4
    <3> QED BY <1>6, <3>1, <3>2, <3>3
  <2>3. Whole(arcs', N) BY <1>2, <1>6, <2>1, <2>2 DEF Whole
  <2>4. IsFiniteSet(arcs') BY <1>2, <1>5, <1>6, FS_Union
  <2>5. \A e \in arcs' : e.src \in Nat /\ e.src < numStates' /\ e.dest \in Nat /\ e.dest < numStates' BY <1>2, <1>3, <1>4, <1>6
  <2>6. Waiting' = {} BY <1>1 DEF Waiting
  <2> QED BY <1>1, <1>2, <2>3, <2>4, <2>5, <2>6 DEF FreshInv
<1>7. CASE numStates' = n /\ arcs' = arcs
  <2>1. Waiting' = {} BY <1>1 DEF Waiting
  <2> QED BY <1>1, <1>2, <1>7, <2>1 DEF FreshInv
<1> QED BY <1>1, <1>6, <1>7

LEMMA FreshRest ==
  ASSUME NEW N, FreshInv(N), UNCHANGED <<pc, input, worklist, arcs>>
  PROVE  FreshInv(N)'
BY DEF FreshInv, worklist, Waiting

-----------------------------------------------------------------------------
(* Shrinking a machine keeps its arcs apart: states that stay keep their order *)

LEMMA WithinTargets ==
  ASSUME NEW steps, NEW q, NEW k \in Nat
  PROVE  Within(steps, q, k) \subseteq {q} \cup {s[2] : s \in steps}
<1> DEFINE After(x) == {x} \cup {s[2] : s \in {y \in steps : y[1] = x}}
           Fix(m, h) == h = [n \in 0..m |-> IF n = 0 THEN {q} ELSE UNION {After(x) : x \in h[n - 1]}]
           S == {m \in Nat : \E h : Fix(m, h)}
           U == {q} \cup {s[2] : s \in steps}
<1>1. 0 \in S
  <2>1. Fix(0, [n \in 0..0 |-> {q}]) OBVIOUS
  <2> QED BY <2>1
<1>2. ASSUME NEW m \in Nat, m \in S PROVE m + 1 \in S
  <2>1. PICK h : Fix(m, h) BY <1>2
  <2> HIDE DEF After
  <2> DEFINE new == UNION {After(x) : x \in h[m]}
             g == [n \in 0..(m + 1) |-> IF n = m + 1 THEN new ELSE h[n]]
  <2>2. ASSUME NEW n \in 0..(m + 1)
        PROVE  g[n] = IF n = 0 THEN {q} ELSE UNION {After(x) : x \in g[n - 1]}
    <3>1. CASE n = 0 BY <2>1, <3>1
    <3>2. CASE n = m + 1
      <4>1. n # 0 /\ n - 1 = m /\ m \in 0..(m + 1) /\ m # m + 1 BY <3>2
      <4>2. g[n] = new /\ g[m] = h[m] BY <3>2, <4>1
      <4> QED BY <3>2, <4>1, <4>2
    <3>3. CASE n # 0 /\ n # m + 1
      <4>1. n \in 0..m /\ n - 1 \in 0..m /\ n - 1 # m + 1 /\ n - 1 \in 0..(m + 1) BY <3>3
      <4>2. h[n] = UNION {After(x) : x \in h[n - 1]} BY <2>1, <4>1, <3>3
      <4>3. g[n] = h[n] /\ g[n - 1] = h[n - 1] BY <4>1, <3>3
      <4> QED BY <4>2, <4>3, <3>3
    <3> QED BY <3>1, <3>2, <3>3
  <2>3. g = [n \in 0..(m + 1) |-> g[n]] OBVIOUS
  <2> HIDE DEF g
  <2>4. Fix(m + 1, g) BY <2>2, <2>3
  <2>5. \E f : Fix(m + 1, f)
    <3> HIDE DEF Fix
    <3> QED BY <2>4
  <2> QED BY <2>5
<1>3. k \in S
  <2> HIDE DEF S
  <2> QED BY NatSetInduction, <1>1, <1>2
<1> DEFINE reached == CHOOSE h : Fix(k, h)
<1>4. Fix(k, reached)
  <2> HIDE DEF Fix
  <2> QED BY <1>3
<1>5. Within(steps, q, k) = reached[k] BY DEF Within
<1> HIDE DEF reached
<1> DEFINE V == {n \in Nat : n <= k => reached[n] \subseteq U}
<1>6. 0 \in V BY <1>4
<1>7. ASSUME NEW n \in Nat, n \in V PROVE n + 1 \in V
  <2> SUFFICES ASSUME n + 1 <= k PROVE reached[n + 1] \subseteq U OBVIOUS
  <2>1. n + 1 \in 0..k /\ n + 1 # 0 /\ (n + 1) - 1 = n OBVIOUS
  <2>2. reached[n + 1] = UNION {After(x) : x \in reached[n]} BY <1>4, <2>1
  <2>3. reached[n] \subseteq U BY <1>7
  <2>4. \A x \in U : After(x) \subseteq U OBVIOUS
  <2> HIDE DEF After, U
  <2> QED BY <2>2, <2>3, <2>4
<1>8. k \in V
  <2> HIDE DEF V
  <2> QED BY NatSetInduction, <1>6, <1>7
<1> QED BY <1>5, <1>8

LEMMA ReducedWhole ==
  ASSUME NEW m, m.n \in Nat, IsFiniteSet(m.arcs), \A e \in m.arcs : e.src \in Nat /\ e.dest \in Nat,
         NEW N, Whole(m.arcs, N)
  PROVE  Whole(Reduce(m).arcs, N)
<1> DEFINE keep == Useful(m)
           new(q) == Cardinality({k \in keep : k < q})
           Carried(f) == [f EXCEPT !.src = new(f.src), !.dest = new(f.dest)]
<1>1. keep \subseteq {0} \cup {e.dest : e \in m.arcs}
  <2> DEFINE steps == {<<e.src, e.dest>> : e \in m.arcs}
  <2>1. Within(steps, 0, m.n) \subseteq {0} \cup {s[2] : s \in steps} BY WithinTargets
  <2>2. {s[2] : s \in steps} \subseteq {e.dest : e \in m.arcs}
    <3> SUFFICES ASSUME NEW s \in steps PROVE s[2] \in {e.dest : e \in m.arcs} OBVIOUS
    <3>1. PICK e \in m.arcs : s = <<e.src, e.dest>> OBVIOUS
    <3>2. s[2] = e.dest BY <3>1
    <3> QED BY <3>2
  <2>3. keep \subseteq Within(steps, 0, m.n) BY DEF Useful
  <2> QED BY <2>1, <2>2, <2>3
<1>2. IsFiniteSet(keep) /\ keep \subseteq Nat
  <2> DEFINE ends == {e.dest : e \in m.arcs}
  <2>1. [e \in m.arcs |-> e.dest] \in Surjection(m.arcs, ends) BY DEF Surjection
  <2>2. IsFiniteSet(ends) BY <2>1, FS_Surjection
  <2>3. ends \subseteq Nat OBVIOUS
  <2> HIDE DEF ends, keep
  <2>4. IsFiniteSet(ends \cup {0}) BY <2>2, FS_AddElement
  <2>5. keep \subseteq ends \cup {0} BY <1>1 DEF ends
  <2>6. IsFiniteSet(keep) BY <2>4, <2>5, FS_Subset
  <2> QED BY <2>3, <2>5, <2>6
<1> HIDE DEF keep
<1>3. ASSUME NEW a \in keep, NEW b \in keep, a < b PROVE new(a) # new(b)
  <2> DEFINE A == {k \in keep : k < a}
             B == {k \in keep : k < b}
  <2>1. a \in Nat /\ b \in Nat BY <1>2
  <2>2. A \subseteq keep /\ B \subseteq keep /\ a \notin A /\ a \in B BY <1>3, <2>1
  <2>3. A \subseteq B
    <3> SUFFICES ASSUME NEW k \in keep, k < a PROVE k < b OBVIOUS
    <3>1. k \in Nat BY <1>2
    <3> QED BY <1>3, <2>1, <3>1
  <2> HIDE DEF A, B
  <2>4. IsFiniteSet(A) /\ IsFiniteSet(B) BY <1>2, <2>2, FS_Subset
  <2>5. Cardinality(A) \in Nat /\ Cardinality(B) \in Nat BY <2>4, FS_CardinalityType
  <2>6. Cardinality(A \cup {a}) = Cardinality(A) + 1 BY <2>2, <2>4, FS_AddElement
  <2>7. Cardinality(A \cup {a}) <= Cardinality(B)
    <3>1. A \cup {a} \subseteq B BY <2>2, <2>3
    <3> QED BY <2>4, <3>1, FS_Subset
  <2>8. Cardinality(A) # Cardinality(B) BY <2>5, <2>6, <2>7
  <2> QED BY <2>8 DEF A, B
<1> HIDE DEF new
<1>4. ASSUME NEW a \in keep, NEW b \in keep, new(a) = new(b) PROVE a = b
  <2>1. a \in Nat /\ b \in Nat BY <1>2
  <2>2. ~(a < b) /\ ~(b < a) BY <1>3, <1>4
  <2> QED BY <2>1, <2>2
<1>5. CASE ~m.valid
  <2>1. Reduce(m).arcs = m.arcs BY <1>5 DEF Reduce
  <2> QED BY <2>1
<1>6. CASE m.valid
  <2>1. \A d \in Reduce(m).arcs : \E f \in m.arcs :
          d = Carried(f) /\ f.src \in keep /\ f.dest \in keep
    <3> SUFFICES ASSUME NEW d \in Reduce(m).arcs
                 PROVE  \E f \in m.arcs : d = Carried(f) /\ f.src \in keep /\ f.dest \in keep
      OBVIOUS
    <3> DEFINE kept == {e \in m.arcs : e.src \in keep /\ e.dest \in keep}
               loops == {e \in kept : e.src = e.dest /\ e.in = Eps /\ e.out = Eps}
    <3>1. Reduce(m).arcs = {Carried(e) : e \in kept \ loops} BY <1>6 DEF Reduce, keep, new
    <3> HIDE DEF Carried
    <3> QED BY <3>1
  <2>2. ASSUME NEW f \in m.arcs
        PROVE  /\ IsArc(Carried(f)) /\ Carried(f).from = f.from
               /\ Carried(f).src = new(f.src) /\ Carried(f).dest = new(f.dest)
    <3>1. f = [src |-> f.src, in |-> f.in, out |-> f.out, dest |-> f.dest, weight |-> f.weight,
               group |-> f.group, from |-> f.from]
      BY DEF Whole, IsArc
    <3> DEFINE a == new(f.src)
               b == new(f.dest)
    <3>2. Carried(f) = [f EXCEPT !.src = a, !.dest = b] OBVIOUS
    <3> HIDE DEF a, b, Carried
    <3>3. Carried(f) = [src |-> a, in |-> f.in, out |-> f.out, dest |-> b,
                        weight |-> f.weight, group |-> f.group, from |-> f.from]
      BY <3>1, <3>2
    <3>4. /\ IsArc(Carried(f)) /\ Carried(f).from = f.from
          /\ Carried(f).src = a /\ Carried(f).dest = b
      BY <3>3 DEF IsArc
    <3> QED BY <3>4 DEF a, b
  <2> HIDE DEF Carried
  <2>3. \A d \in Reduce(m).arcs : IsArc(d) /\ d.from \in Seq(N) BY <2>1, <2>2 DEF Whole
  <2>4. ASSUME NEW d \in Reduce(m).arcs, NEW e \in Reduce(m).arcs,
               d.src = e.src, d.dest = e.dest, d.from = e.from
        PROVE  d = e
    <3>1. PICK f \in m.arcs : d = Carried(f) /\ f.src \in keep /\ f.dest \in keep BY <2>1
    <3>2. PICK g \in m.arcs : e = Carried(g) /\ g.src \in keep /\ g.dest \in keep BY <2>1
    <3>3. new(f.src) = new(g.src) /\ new(f.dest) = new(g.dest) /\ f.from = g.from
      BY <2>2, <2>4, <3>1, <3>2
    <3>4. f.src = g.src /\ f.dest = g.dest BY <1>4, <3>1, <3>2, <3>3
    <3>5. f = g BY <3>3, <3>4 DEF Whole, Places
    <3> QED BY <3>1, <3>2, <3>5
  <2> QED BY <2>3, <2>4 DEF Whole, Places
<1> QED BY <1>5, <1>6

LEMMA CompressedWhole ==
  ASSUME NEW c, NEW m, "arcs" \in DOMAIN m, NEW N, Whole(m.arcs, N)
  PROVE  Whole(Compressed(c, m).m.arcs, N)
<1> DEFINE used == UsedChains(m)
           new(id) == Cardinality({k \in used : k < id})
           Renamed(e) == [e EXCEPT !.group = IF IsLocked(e) THEN @ ELSE new(@)]
           z == Compressed(c, m).m
<1>1. z = [m EXCEPT !.arcs = {Renamed(e) : e \in m.arcs}] BY DEF Compressed
<1> HIDE DEF z
<1>2. z.arcs = {Renamed(e) : e \in m.arcs} BY <1>1
<1> HIDE DEF new
<1>3. ASSUME NEW e \in m.arcs
      PROVE  /\ IsArc(Renamed(e)) /\ Renamed(e).from = e.from
             /\ Renamed(e).src = e.src /\ Renamed(e).dest = e.dest
  <2> DEFINE g == IF IsLocked(e) THEN e.group ELSE new(e.group)
  <2>1. e = [src |-> e.src, in |-> e.in, out |-> e.out, dest |-> e.dest, weight |-> e.weight,
             group |-> e.group, from |-> e.from]
    BY DEF Whole, IsArc
  <2>2. Renamed(e) = [e EXCEPT !.group = g] OBVIOUS
  <2> HIDE DEF g
  <2>3. Renamed(e) = [src |-> e.src, in |-> e.in, out |-> e.out, dest |-> e.dest,
                      weight |-> e.weight, group |-> g, from |-> e.from]
    BY <2>1, <2>2
  <2> HIDE DEF Renamed
  <2> QED BY <2>3 DEF IsArc
<1> HIDE DEF Renamed
<1>4. \A d \in z.arcs : IsArc(d) /\ d.from \in Seq(N) BY <1>2, <1>3 DEF Whole
<1>5. Places(z.arcs) BY <1>2, <1>3 DEF Whole, Places
<1> QED BY <1>4, <1>5 DEF Whole, z

-----------------------------------------------------------------------------
(* The machines of the chain: the names of different parts are different *)

NamesOf(parts, S) == UNION {ParamsOf(parts[p]) : p \in S \cap DOMAIN parts}
ComposedNames == NamesOf(Parts, ComposedParts)

NameInv ==
  /\ stage # "compose" => pending = {} /\ halves = {}
  /\ stage # "start" => i \in Int /\ DOMAIN Parts = 1..Len(Parts)
  /\ stage = "next" => Whole(result.arcs, ComposedNames)
  /\ stage = "compose" =>
       \E L, R : Sides(input, L, R) /\ L \cup R \subseteq ComposedNames /\ FreshInv(L \cup R)

LEMMA WholeWithin ==
  ASSUME NEW A, NEW L, NEW N, Whole(A, L), L \subseteq N
  PROVE  Whole(A, N)
<1>1. \A s \in Seq(L) : s \in Seq(N) OBVIOUS
<1> QED BY <1>1 DEF Whole

LEMMA PartWhole ==
  ASSUME NEW parts, Apart(parts), NEW p \in DOMAIN parts
  PROVE  Whole(parts[p].arcs, ParamsOf(parts[p]))
<1>1. ASSUME NEW e \in parts[p].arcs PROVE IsArc(e) /\ e.from \in Seq(ParamsOf(parts[p]))
  <2>1. e.from \in Seq(Nat) /\ Len(e.from) = 1 /\ IsArc(e) BY DEF Apart, NamedApart
  <2>2. e.from[1] \in ParamsOf(parts[p]) BY DEF ParamsOf, Param
  <2>3. PICK a \in ParamsOf(parts[p]) : e.from[1] = a BY <2>2
  <2>4. e.from = <<a>> BY <2>1, <2>3
  <2> QED BY <2>1, <2>3, <2>4
<1>2. Places(parts[p].arcs) BY DEF Apart, NamedApart, Places
<1> QED BY <1>1, <1>2 DEF Whole

LEMMA PartsDiffer ==
  ASSUME NEW parts, Apart(parts), NEW S, NEW p \in DOMAIN parts, p \notin S
  PROVE  NamesOf(parts, S) \cap ParamsOf(parts[p]) = {}
<1> SUFFICES ASSUME NEW q \in S \cap DOMAIN parts, NEW e \in parts[p].arcs, NEW f \in parts[q].arcs,
                    Param(e) = Param(f)
             PROVE  FALSE
  BY DEF NamesOf, ParamsOf
<1>1. /\ e.from \in Seq(Nat) /\ Len(e.from) = 1 /\ f.from \in Seq(Nat) /\ Len(f.from) = 1
  BY DEF Apart, NamedApart
<1>2. e.from[1] = f.from[1] BY DEF Param
<1>3. e.from = f.from BY <1>1, <1>2
<1>4. p = q BY <1>3 DEF Apart, NamedApart
<1> QED BY <1>4

LEMMA NamesWithin ==
  ASSUME NEW parts, NEW S, NEW U, S \subseteq U
  PROVE  /\ NamesOf(parts, S) \subseteq NamesOf(parts, U)
         /\ \A p \in S \cap DOMAIN parts : ParamsOf(parts[p]) \subseteq NamesOf(parts, S)
BY DEF NamesOf

LEMMA StartNames ==
  ASSUME StartChain, NameInv
  PROVE  NameInv'
<1>1. PICK j \in Jobs :
        LET place == IF j.right THEN Len(j.parts) ELSE 1
            part == IF j.reduce THEN Reduce(j.parts[place]) ELSE j.parts[place]
        IN  /\ job' = [j EXCEPT !.parts[place] = part]
            /\ result' = part
            /\ i' = IF j.right THEN place - 1 ELSE place + 1
  BY DEF StartChain
<1> DEFINE place == IF j.right THEN Len(j.parts) ELSE 1
           part == IF j.reduce THEN Reduce(j.parts[place]) ELSE j.parts[place]
<1>2. /\ stage = "start" /\ stage' = "next" /\ UNCHANGED worklist BY DEF StartChain
<1>3. j \in Job /\ j.parts # <<>> BY JobAssumption
<1>4. j.parts \in Seq(Machine) /\ DOMAIN j.parts = 1..Len(j.parts) /\ Len(j.parts) \in Nat \ {0}
  BY <1>3 DEF Job
<1>5. place \in DOMAIN j.parts /\ place \in Nat BY <1>4
<1>6. /\ job' = [j EXCEPT !.parts[place] = part] /\ result' = part
      /\ i' = IF j.right THEN place - 1 ELSE place + 1
  BY <1>1
<1>7. place = IF j.right THEN Len(j.parts) ELSE 1 OBVIOUS
<1> HIDE DEF place, part
<1>8. job'.parts = [j.parts EXCEPT ![place] = part] /\ job'.right = j.right
  BY <1>3, <1>6 DEF Job
<1>9. Apart(job'.parts) BY <1>2, StartFits DEF ChainInv, Parts
<1>10. /\ place \in DOMAIN job'.parts /\ job'.parts[place] = result'
       /\ Len(job'.parts) = Len(j.parts) /\ DOMAIN job'.parts = 1..Len(job'.parts)
  BY <1>4, <1>5, <1>6, <1>8
<1>11. place \in ComposedParts' BY <1>2, <1>4, <1>5, <1>6, <1>7, <1>8, <1>10 DEF ComposedParts, Parts
<1>12. Whole(result'.arcs, ParamsOf(job'.parts[place])) BY <1>9, <1>10, PartWhole
<1>13. ParamsOf(job'.parts[place]) \subseteq NamesOf(job'.parts, ComposedParts')
  BY <1>10, <1>11 DEF NamesOf
<1>14. Whole(result'.arcs, ComposedNames')
  <2>1. ComposedNames' = NamesOf(job'.parts, ComposedParts') BY DEF ComposedNames, Parts
  <2> QED BY <1>12, <1>13, <2>1, WholeWithin
<1>15. i' \in Int BY <1>5, <1>6
<1> QED BY <1>2, <1>10, <1>14, <1>15 DEF NameInv, worklist, Parts

LEMMA ComposeNextNames ==
  ASSUME ChainInv, NameInv, ComposeNext
  PROVE  NameInv'
<1> DEFINE x == [lhs |-> IF job.right THEN Parts[i] ELSE result,
                 rhs |-> IF job.right THEN result ELSE Parts[i],
                 groups |-> job.a,
                 cascade |-> PrepareCompose(cascade, first, job.right)]
<1>1. PICK n, parts, small : n = i /\ parts = Parts /\ small = ComposedParts OBVIOUS
<1> DEFINE L == IF job.right THEN ParamsOf(parts[n]) ELSE NamesOf(parts, small)
           R == IF job.right THEN NamesOf(parts, small) ELSE ParamsOf(parts[n])
<1>2. /\ stage = "next" /\ stage' = "compose" /\ n \in DOMAIN parts /\ Begin(x)
      /\ UNCHANGED <<job, i>> /\ Parts' = parts /\ n \in Int
  BY <1>1 DEF ComposeNext, More, Parts, NameInv
<1>3. n \notin small /\ small \cup {n} \subseteq ComposedParts'
  <2>1. DOMAIN parts = 1..Len(parts) BY <1>1, <1>2 DEF NameInv
  <2>2. small = IF job.right THEN (n + 1)..Len(parts) ELSE 1..(n - 1)
    BY <1>1, <1>2 DEF ComposedParts
  <2>3. ComposedParts' = IF job.right THEN n..Len(parts) ELSE 1..n
    BY <1>1, <1>2 DEF ComposedParts
  <2> QED BY <1>2, <2>1, <2>2, <2>3
<1>4. Apart(parts) BY <1>1, <1>2 DEF ChainInv
<1>5. Whole(result.arcs, NamesOf(parts, small)) BY <1>1, <1>2 DEF NameInv, ComposedNames
<1>6. Whole(parts[n].arcs, ParamsOf(parts[n])) BY <1>2, <1>4, PartWhole
<1>7. L \cap R = {} BY <1>2, <1>3, <1>4, PartsDiffer
<1>8. input' = x /\ x.lhs.arcs = (IF job.right THEN parts[n].arcs ELSE result.arcs)
      /\ x.rhs.arcs = (IF job.right THEN result.arcs ELSE parts[n].arcs)
  <2>1. input' = x BY <1>2 DEF Begin
  <2> QED BY <1>1, <2>1
<1> HIDE DEF x
<1>9. Sides(input', L, R) BY <1>5, <1>6, <1>7, <1>8 DEF Sides
<1>10. L \cup R \subseteq ComposedNames'
  <2>1. ComposedNames' = NamesOf(parts, ComposedParts') BY <1>2 DEF ComposedNames
  <2>2. NamesOf(parts, small) \subseteq NamesOf(parts, ComposedParts') BY <1>3, NamesWithin
  <2>3. ParamsOf(parts[n]) \subseteq NamesOf(parts, ComposedParts') BY <1>2, <1>3, NamesWithin
  <2> QED BY <2>1, <2>2, <2>3
<1> HIDE DEF L, R
<1>11. PICK A, B : A = L /\ B = R OBVIOUS
<1>12. FreshInv(A \cup B)' BY <1>2, FreshBegin
<1>13. Sides(input', A, B) /\ A \cup B \subseteq ComposedNames' BY <1>9, <1>10, <1>11
<1>14. (\E A1, B1 : Sides(input, A1, B1) /\ A1 \cup B1 \subseteq ComposedNames /\ FreshInv(A1 \cup B1))'
  BY <1>12, <1>13
<1>15. DOMAIN Parts' = 1..Len(Parts') BY <1>1, <1>2 DEF NameInv
<1> QED BY <1>2, <1>14, <1>15 DEF NameInv

LEMMA ComposeStepNames ==
  ASSUME IInv, NameInv, ComposeStep
  PROVE  NameInv'
<1>1. /\ stage = "compose" /\ stage' = stage /\ UNCHANGED <<job, i>> BY DEF ComposeStep, driver
<1>2. ComposedNames' = ComposedNames /\ Parts' = Parts
  BY <1>1 DEF ComposedNames, ComposedParts, Parts
<1>3. PICK L, R : Sides(input, L, R) /\ L \cup R \subseteq ComposedNames /\ FreshInv(L \cup R)
  BY <1>1 DEF NameInv
<1>4. input' = input /\ FreshInv(L \cup R)'
  <2>1. CASE Expand BY <1>3, <2>1, FreshExpand DEF Expand
  <2>2. ASSUME NEW m \in pending, ComposeArc(m) PROVE input' = input /\ FreshInv(L \cup R)'
    BY <1>3, <2>2, FreshComposeArc DEF ComposeArc
  <2>3. ASSUME NEW l \in halves, ComposeHalf(l) PROVE input' = input /\ FreshInv(L \cup R)'
    BY <1>3, <2>3, FreshComposeHalf DEF ComposeHalf
  <2>4. CASE Finish BY <1>3, <2>4, FreshFinish DEF Finish
  <2> QED BY <2>1, <2>2, <2>3, <2>4 DEF ComposeStep
<1>5. (\E A, B : Sides(input, A, B) /\ A \cup B \subseteq ComposedNames /\ FreshInv(A \cup B))'
  BY <1>2, <1>3, <1>4
<1>6. i' \in Int /\ DOMAIN Parts' = 1..Len(Parts') BY <1>1, <1>2 DEF NameInv
<1> QED BY <1>1, <1>5, <1>6 DEF NameInv

LEMMA ShrinkNames ==
  ASSUME IInv, NameInv, Shrink
  PROVE  NameInv'
<1> DEFINE small == Minimized(Composed)
           changed == small.n # Composed.n \/ Cardinality(small.arcs) # Cardinality(Composed.arcs)
           compress == job.compress = "always" \/ (job.compress = "changed" /\ changed)
           done == DoneComposing(cascade, small, compress)
<1>1. /\ stage = "compose" /\ pc = "done" /\ stage' = "next" /\ UNCHANGED <<job, worklist>>
      /\ result' = done.m /\ i' = IF job.right THEN i - 1 ELSE i + 1
  BY DEF Shrink
<1>2. i \in Int /\ DOMAIN Parts = 1..Len(Parts) BY <1>1 DEF NameInv
<1>3. ComposedNames' = ComposedNames /\ Parts' = Parts
  <2>1. ComposedParts' = IF job.right THEN (i' + 1)..Len(Parts) ELSE 1..(i' - 1)
    BY <1>1 DEF ComposedParts, Parts
  <2>2. ComposedParts = IF job.right THEN i..Len(Parts) ELSE 1..i BY <1>1 DEF ComposedParts
  <2>3. ComposedParts' = ComposedParts
    <3>1. CASE job.right
      <4>1. i' + 1 = i BY <1>1, <1>2, <3>1
      <4> QED BY <2>1, <2>2, <3>1, <4>1
    <3>2. CASE ~job.right
      <4>1. i' - 1 = i BY <1>1, <1>2, <3>2
      <4> QED BY <2>1, <2>2, <3>2, <4>1
    <3> QED BY <3>1, <3>2
  <2> QED BY <1>1, <2>3 DEF ComposedNames, Parts
<1>4. PICK L, R : L \cup R \subseteq ComposedNames /\ FreshInv(L \cup R) BY <1>1 DEF NameInv
<1>5. PICK N : N = ComposedNames OBVIOUS
<1>6. /\ Composed.arcs = arcs /\ Composed.n = numStates /\ "arcs" \in DOMAIN Composed
      /\ numStates \in Nat
  BY DEF Composed, IInv, Shape
<1>7. /\ Whole(arcs, N) /\ IsFiniteSet(arcs)
      /\ \A e \in arcs : e.src \in Nat /\ e.dest \in Nat
  <2>1. Whole(arcs, L \cup R) /\ L \cup R \subseteq N BY <1>4, <1>5 DEF FreshInv
  <2>2. Whole(arcs, N) BY <2>1, WholeWithin
  <2> QED BY <1>4, <2>2 DEF FreshInv
<1>8. Whole(small.arcs, N) /\ "arcs" \in DOMAIN small
  <2>1. PICK m : m = Composed OBVIOUS
  <2>2. /\ m.n \in Nat /\ IsFiniteSet(m.arcs) /\ Whole(m.arcs, N)
        /\ \A e \in m.arcs : e.src \in Nat /\ e.dest \in Nat
    BY <1>6, <1>7, <2>1
  <2>3. Whole(Reduce(m).arcs, N) BY <2>2, ReducedWhole
  <2>4. "arcs" \in DOMAIN Reduce(m) BY <1>6, <2>1 DEF Reduce
  <2>5. small = Reduce(m) \/ small = m BY <2>1 DEF Minimized
  <2> QED BY <1>6, <2>1, <2>2, <2>3, <2>4, <2>5
<1>9. Whole(done.m.arcs, N)
  <2> DEFINE cleared == [cascade EXCEPT !.epsilon_chains = {}]
  <2>1. done.m = small \/ done.m = Compressed(cleared, small).m
    <3> HIDE DEF small, compress
    <3> QED BY DEF DoneComposing
  <2> HIDE DEF small, compress, done, cleared
  <2>2. Whole(Compressed(cleared, small).m.arcs, N) BY <1>8, CompressedWhole
  <2> QED BY <1>8, <2>1, <2>2
<1>10. pending = {} /\ halves = {} BY <1>1, <1>4 DEF FreshInv
<1> HIDE DEF done
<1>11. Whole(result'.arcs, ComposedNames') BY <1>1, <1>3, <1>5, <1>9
<1>12. i' \in Int BY <1>1, <1>2
<1> QED BY <1>1, <1>2, <1>3, <1>10, <1>11, <1>12 DEF NameInv, worklist

LEMMA NamesAlwaysApart == ChainSpec => []NameInv
<1>1. ChainInit => NameInv BY DEF ChainInit, NameInv, Idle
<1>2. IInv /\ ChainInv /\ NameInv /\ [ChainNext]_chainVars => NameInv'
  <2> SUFFICES ASSUME IInv, ChainInv, NameInv, [ChainNext]_chainVars PROVE NameInv'
    OBVIOUS
  <2>1. CASE EmptyResult \/ EndChain \/ Stop \/ UNCHANGED chainVars
    <3>1. UNCHANGED <<vars, job, i, result>>
      BY <2>1 DEF EmptyResult, EndChain, Stop, chainVars, driver
    <3>2. UNCHANGED <<pc, input, worklist, arcs, pending, halves>> BY <3>1 DEF vars, worklist
    <3>3. Parts' = Parts /\ (stage' = stage => ComposedNames' = ComposedNames)
      BY <3>1 DEF Parts, ComposedNames, ComposedParts
    <3>4. \/ stage' = "empty" /\ stage = "compose" /\ pc = "invalid"
          \/ stage' = "end" /\ stage = "next"
          \/ stage' = stage
      BY <2>1 DEF EmptyResult, EndChain, Stop, chainVars, driver
    <3>5. CASE stage' = stage /\ stage = "compose"
      <4>1. PICK L, R : Sides(input, L, R) /\ L \cup R \subseteq ComposedNames /\ FreshInv(L \cup R)
        BY <3>5 DEF NameInv
      <4>2. FreshInv(L \cup R)' BY <3>2, <4>1, FreshRest
      <4>3. (\E A, B : Sides(input, A, B) /\ A \cup B \subseteq ComposedNames /\ FreshInv(A \cup B))'
        BY <3>2, <3>3, <3>5, <4>1, <4>2
      <4> QED BY <3>1, <3>3, <3>5, <4>3 DEF NameInv
    <3>6. CASE stage = "compose" /\ stage' = "empty"
      <4>1. PICK N : FreshInv(N) BY <3>6 DEF NameInv
      <4>2. pending = {} /\ halves = {} BY <3>4, <3>6, <4>1 DEF FreshInv
      <4> QED BY <3>1, <3>2, <3>3, <3>6, <4>2 DEF NameInv
    <3>7. CASE stage # "compose" BY <3>1, <3>2, <3>3, <3>4, <3>7 DEF NameInv
    <3> QED BY <3>4, <3>5, <3>6, <3>7
  <2> QED BY <2>1, StartNames, ComposeNextNames, ComposeStepNames, ShrinkNames DEF ChainNext
<1> QED BY <1>1, <1>2, ChainIInv, ChainsAlwaysFit, PTL DEF ChainSpec

(* set_compose makes each arc of a composition once: as long as a move, or an
   arc of the left machine under -a, is yet to be taken, no arc is there that
   it would make, in every composition of the loop, of whatever machines and
   with whatever options.  The arcs of the code are lists: that they are a set
   here loses none of them. *)
THEOREM ChainMadeOnce == ChainSpec => []MadeOnce
<1>1. IInv /\ NameInv => MadeOnce
  <2> SUFFICES ASSUME IInv, NameInv PROVE MadeOnce OBVIOUS
  <2>1. CASE stage = "compose"
    <3>1. PICK L, R : Sides(input, L, R) /\ FreshInv(L \cup R) BY <2>1 DEF NameInv
    <3> QED BY <3>1, FreshMadeOnce
  <2>2. CASE stage # "compose" BY <2>2 DEF NameInv, MadeOnce
  <2> QED BY <2>1, <2>2
<1> QED BY <1>1, ChainIInv, NamesAlwaysApart, PTL
=============================================================================
