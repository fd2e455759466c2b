--------------------------- MODULE LazyKBestProofs ---------------------------
(***************************************************************************)
(* get_best keeps a reference to the last element of a node's memo while   *)
(* it asks the nodes below for theirs, and these, in a cyclic forest, may  *)
(* ask it again.  For every forest nothing is ever pushed behind it.       *)
(***************************************************************************)
EXTENDS LazyKBest, SequenceTheorems, TLAPS

USE DEF IsDerivation

-----------------------------------------------------------------------------
(* Sequences *)

LEMMA LastIn ==
  ASSUME NEW S, NEW s \in Seq(S), s # <<>>
  PROVE  /\ Len(s) \in Nat \ {0}
         /\ Last(s) = s[Len(s)]
         /\ Last(s) \in S
BY DEF Last

LEMMA Shorter ==
  ASSUME NEW S, NEW s \in Seq(S), s # <<>>
  PROVE  /\ SubSeq(s, 1, Len(s) - 1) \in Seq(S)
         /\ Len(SubSeq(s, 1, Len(s) - 1)) = Len(s) - 1
         /\ \A j \in 1..Len(s) - 1 : SubSeq(s, 1, Len(s) - 1)[j] = s[j]
<1>1. Len(s) \in Nat \ {0} /\ \A j \in 1..Len(s) - 1 : s[j] \in S OBVIOUS
<1>2. 1 \in Int /\ Len(s) - 1 \in Int BY <1>1
<1>3. /\ SubSeq(s, 1, Len(s) - 1) \in Seq(S)
      /\ Len(SubSeq(s, 1, Len(s) - 1)) = IF 1 <= Len(s) - 1 THEN Len(s) - 1 - 1 + 1 ELSE 0
      /\ \A j \in 1..Len(s) - 1 - 1 + 1 : SubSeq(s, 1, Len(s) - 1)[j] = s[1 + j - 1]
  BY <1>1, <1>2, SubSeqProperties
<1>4. Len(SubSeq(s, 1, Len(s) - 1)) = Len(s) - 1
  <2>1. ASSUME NEW l \in Nat \ {0} PROVE (IF 1 <= l - 1 THEN l - 1 - 1 + 1 ELSE 0) = l - 1
    OBVIOUS
  <2> QED BY <1>1, <1>3, <2>1
<1>5. \A j \in 1..Len(s) - 1 : j \in 1..Len(s) - 1 - 1 + 1 /\ 1 + j - 1 = j BY <1>1
<1> QED BY <1>3, <1>4, <1>5

LEMMA Longer ==
  ASSUME NEW S, NEW s \in Seq(S), NEW d \in S
  PROVE  /\ Append(s, d) \in Seq(S)
         /\ Len(Append(s, d)) = Len(s) + 1
         /\ Append(s, d)[Len(s) + 1] = d
         /\ \A j \in 1..Len(s) : Append(s, d)[j] = s[j]
         /\ Append(s, d) # <<>>
OBVIOUS

-----------------------------------------------------------------------------
(* The invariant *)

Entry == Hyperedge \cup {NONE, PENDING}
Waiting == [node : Nodes, n : Nat, pending : Hyperedge \cup {NONE}, kid : Nat]

Types ==
  /\ forest \in Forests
  /\ pc \in {"idle", "cycle", "ask", "loop", "select", "answer"}
  /\ memo \in [Nodes -> Seq(Entry)]
  /\ pq \in [Nodes -> SUBSET Hyperedge]
  /\ top \in [Nodes -> Hyperedge]
  /\ asked \in [node : Nodes, n : Nat]
  /\ answer \in Hyperedge \cup {NONE}
  /\ stack \in Seq(Waiting)
  /\ i \in Nat

(* m holds a derivation in place n, counted from 0 *)
Holds(m, x, n) == n + 1 \in 1..Len(m[x]) /\ m[x][n + 1] \in Hyperedge

(* every back pointer of h is to a derivation *)
Based(m, h) ==
  /\ DOMAIN h.bp = Kids(h)
  /\ \A c \in Kids(h) : Holds(m, h.edge.kids[c], h.bp[c])

AllBased ==
  \A x \in Nodes : /\ Len(memo[x]) > 0
                   /\ Based(memo, top[x])
                   /\ \A h \in pq[x] : Based(memo, h)

(* what the a-th frame asked of a kid; what enumerate_kbest asked, for a = 0 *)
WantedNode(a) == IF a = 0 THEN Root ELSE stack[a].pending.edge.kids[stack[a].kid]
WantedN(a) == IF a = 0 THEN i ELSE stack[a].pending.bp[stack[a].kid] + 1

(* asking is well founded: it is for the best, or for what follows a derivation *)
Follows(x, n) == n = 0 \/ Holds(memo, x, n - 1)

(* the a-th frame has asked *)
HasAsked(a) == a < Len(stack) \/ pc \in {"ask", "answer"}

Frames ==
  \A a \in 1..Len(stack) :
    /\ Len(memo[stack[a].node]) = stack[a].n + 1
    /\ ~Holds(memo, stack[a].node, stack[a].n)
    /\ stack[a].node = WantedNode(a - 1) /\ stack[a].n = WantedN(a - 1)
    /\ HasAsked(a) => /\ stack[a].pending \in Hyperedge
                      /\ Based(memo, stack[a].pending)
                      /\ stack[a].kid \in Kids(stack[a].pending)

Distinct == \A a, b \in 1..Len(stack) : stack[a].node = stack[b].node => a = b

Control ==
  /\ pc \in {"idle", "cycle"} => stack = <<>>
  /\ pc \in {"loop", "select"} => stack # <<>>
  /\ pc = "ask" /\ stack = <<>> => Follows(Root, i)
  /\ pc = "ask" => asked.node = WantedNode(Len(stack)) /\ asked.n = WantedN(Len(stack))
  /\ pc = "answer" /\ answer # NONE =>
       /\ Holds(memo, WantedNode(Len(stack)), WantedN(Len(stack)))
       /\ memo[WantedNode(Len(stack))][WantedN(Len(stack)) + 1] = answer

IInv == Types /\ AllBased /\ Frames /\ Distinct /\ Control

LEMMA BackIsLast == IInv => StillBack
BY DEF IInv, Frames, StillBack

LEMMA NoDerivation == NONE \notin Hyperedge /\ PENDING \notin Hyperedge /\ NONE # PENDING
BY SpecialAssumption

-----------------------------------------------------------------------------
(* The forest as built *)

LEMMA FirstHyperedgeType ==
  ASSUME NEW f \in Forests, NEW x \in Nodes, NEW e \in f.edges[x]
  PROVE  /\ FirstHyperedge(f, e) \in Hyperedge
         /\ FirstHyperedge(f, e).edge = e
         /\ FirstHyperedge(f, e).bp = [c \in DOMAIN e.kids |-> 0]
<1>1. IsForest(f) BY ForestsAssumption
<1>2. e \in Edge /\ e.kids \in Seq(Nodes) /\ e.cost \in Nat /\ e.words \in SUBSET Words
  BY <1>1 DEF IsForest, Edge
<1>3. ASSUME NEW c \in DOMAIN e.kids
      PROVE  f.best[e.kids[c]].cost \in Nat /\ f.best[e.kids[c]].words \in SUBSET Words
  BY <1>1, <1>2, <1>3 DEF IsForest
<1>4. [c \in DOMAIN e.kids |-> 0] \in Seq(Nat) BY <1>2
<1>5. e.words \cup UNION {f.best[e.kids[c]].words : c \in DOMAIN e.kids} \in SUBSET Words
  BY <1>2, <1>3
<1>6. e.cost + (IF 1 \in DOMAIN e.kids THEN f.best[e.kids[1]].cost ELSE 0)
             + (IF 2 \in DOMAIN e.kids THEN f.best[e.kids[2]].cost ELSE 0) \in Int
  BY <1>2, <1>3
<1> QED BY <1>2, <1>4, <1>5, <1>6 DEF FirstHyperedge, Hyperedge

LEMMA InitOK == Init => IInv
<1> SUFFICES ASSUME Init PROVE IInv OBVIOUS
<1> USE DEF Init
<1>1. \A x \in Nodes : FirstQueue(forest, x) \subseteq Hyperedge
  BY FirstHyperedgeType DEF FirstQueue
<1>2. pq \in [Nodes -> SUBSET Hyperedge] BY <1>1
<1>3. top \in [Nodes -> Hyperedge]
  <2>1. UNION {pq[x] : x \in Nodes} \subseteq Hyperedge BY <1>2
  <2> QED BY <2>1
<1>4. \A x \in Nodes : memo[x] = <<top[x]>> /\ top[x] \in pq[x] BY DEF BestOf
<1>5. Types
  BY <1>2, <1>3, <1>4, RootAssumption DEF Types, Entry, Waiting
<1>6. ASSUME NEW x \in Nodes, NEW h \in pq[x] PROVE Based(memo, h)
  <2>1. PICK e \in forest.edges[x] : h = FirstHyperedge(forest, e) BY DEF FirstQueue
  <2>2. e.kids \in Seq(Nodes) BY ForestsAssumption DEF IsForest, Edge
  <2>3. h.edge = e /\ h.bp = [c \in DOMAIN e.kids |-> 0] BY <2>1, FirstHyperedgeType
  <2> QED BY <2>2, <2>3, <1>3, <1>4 DEF Based, Kids, Holds
<1>7. AllBased
  <2>1. \A x \in Nodes : Len(memo[x]) > 0 BY <1>4
  <2> HIDE DEF Init
  <2> QED BY <1>4, <1>6, <2>1 DEF AllBased
<1>8. stack = <<>> /\ pc = "idle" OBVIOUS
<1>9. Frames /\ Distinct /\ Control BY <1>8 DEF Frames, Distinct, Control
<1> QED BY <1>5, <1>7, <1>9 DEF IInv

-----------------------------------------------------------------------------
(* Steps that leave the lists alone *)

LEMMA StutterOK == ASSUME IInv, UNCHANGED vars PROVE IInv'
<1> USE DEF vars
<1>1. Types' BY DEF IInv, Types
<1>2. AllBased' BY DEF IInv, AllBased, Based, Holds, Kids
<1>3. Frames' BY DEF IInv, Frames, Based, Holds, Kids, HasAsked, WantedNode, WantedN
<1>4. Distinct' BY DEF IInv, Distinct
<1>5. Control' BY DEF IInv, Control, Holds, WantedNode, WantedN, Follows
<1> QED BY <1>1, <1>2, <1>3, <1>4, <1>5 DEF IInv

LEMMA FrameFields ==
  ASSUME Types, NEW a \in 1..Len(stack)
  PROVE  /\ stack[a] \in Waiting /\ stack[a].node \in Nodes /\ stack[a].n \in Nat
         /\ stack[a].kid \in Nat /\ a \in Nat
<1>1. stack \in Seq(Waiting) BY DEF Types
<1>2. stack[a] \in Waiting BY <1>1
<1> QED BY <1>1, <1>2 DEF Waiting

LEMMA EnumerateOK == ASSUME IInv, Enumerate PROVE IInv'
<1> USE DEF Enumerate
<1>1. stack = <<>> /\ stack' = <<>> /\ pc' = "ask" /\ i' = 0 /\ asked' = [node |-> Root, n |-> 0]
  BY DEF IInv, Control
<1>2. Types' BY <1>1, RootAssumption DEF IInv, Types
<1>3. AllBased' BY DEF IInv, AllBased, Based, Holds, Kids
<1>4. Frames' /\ Distinct' BY <1>1 DEF Frames, Distinct
<1>5. Control' BY <1>1 DEF Control, WantedNode, WantedN, Follows
<1> QED BY <1>2, <1>3, <1>4, <1>5 DEF IInv

LEMMA VisitOK == ASSUME IInv, Visit PROVE IInv'
<1> USE DEF Visit
<1>1. stack = <<>> /\ stack' = <<>> /\ pc' \in {"ask", "idle"} /\ pc = "answer" OBVIOUS
<1>2. Types' BY <1>1, RootAssumption DEF IInv, Types
<1>3. AllBased' BY DEF IInv, AllBased, Based, Holds, Kids
<1>4. Frames' /\ Distinct' BY <1>1 DEF Frames, Distinct
<1>5. ASSUME pc' = "ask"
      PROVE  i' = i + 1 /\ asked' = [node |-> Root, n |-> i + 1] /\ answer # NONE
  BY <1>5
<1>6. ASSUME pc' = "ask" PROVE Holds(memo, Root, i)
  BY <1>1, <1>5, <1>6 DEF IInv, Control, WantedNode, WantedN
<1>7. i \in Nat BY DEF IInv, Types
<1>8. ASSUME pc' = "ask" PROVE Follows(Root, i)'
  BY <1>5, <1>6, <1>7, <1>8 DEF Follows, Holds
<1>9. Control' BY <1>1, <1>5, <1>8 DEF Control, WantedNode, WantedN
<1> QED BY <1>2, <1>3, <1>4, <1>9 DEF IInv

(* what is asked of a kid is for the derivation after one it has *)
LEMMA AskedFollows ==
  ASSUME IInv, pc = "ask"
  PROVE  /\ Follows(asked.node, asked.n)
         /\ asked.node \in Nodes /\ asked.n \in Nat
         /\ memo[asked.node] \in Seq(Entry)
         /\ Len(memo[asked.node]) > 0
<1>1. asked.node \in Nodes /\ asked.n \in Nat BY DEF IInv, Types
<1>2. memo[asked.node] \in Seq(Entry) /\ Len(memo[asked.node]) > 0
  BY <1>1 DEF IInv, Types, AllBased
<1>3. stack \in Seq(Waiting) BY DEF IInv, Types
<1>4. CASE stack = <<>>
  <2>1. Len(stack) = 0 BY <1>4
  <2>2. asked.node = Root /\ asked.n = i /\ Follows(Root, i)
    BY <1>4, <2>1 DEF IInv, Control, WantedNode, WantedN
  <2> QED BY <1>1, <1>2, <2>2
<1>5. CASE stack # <<>>
  <2>1. Len(stack) \in 1..Len(stack) /\ Len(stack) # 0 BY <1>3, <1>5
  <2> DEFINE h == stack[Len(stack)].pending
             c == stack[Len(stack)].kid
  <2>2. h \in Hyperedge /\ Based(memo, h) /\ c \in Kids(h)
    BY <2>1 DEF IInv, Frames, HasAsked
  <2>3. asked.node = h.edge.kids[c] /\ asked.n = h.bp[c] + 1
    BY <2>1 DEF IInv, Control, WantedNode, WantedN
  <2>4. h.bp[c] \in Nat BY <2>2 DEF Hyperedge, Based
  <2>5. Holds(memo, asked.node, h.bp[c]) BY <2>2, <2>3 DEF Based
  <2> HIDE DEF h, c
  <2>6. asked.n - 1 = h.bp[c] BY <2>3, <2>4
  <2> QED BY <1>1, <1>2, <2>5, <2>6 DEF Follows
<1> QED BY <1>4, <1>5

-----------------------------------------------------------------------------
(* Steps that change a list *)

(* Derivations stay where they are. *)
Grows ==
  \A x \in Nodes : \A n \in Nat :
    Holds(memo, x, n) => Holds(memo', x, n) /\ memo'[x][n + 1] = memo[x][n + 1]

LEMMA HyperedgeFields ==
  ASSUME NEW h \in Hyperedge
  PROVE  /\ h.edge \in Edge /\ h.edge.kids \in Seq(Nodes) /\ h.bp \in Seq(Nat)
         /\ h.cost \in Int /\ h.words \in SUBSET Words
         /\ \A c \in Kids(h) : h.edge.kids[c] \in Nodes /\ c \in Nat
         /\ \A c \in DOMAIN h.bp : h.bp[c] \in Nat
<1>1. h.edge \in Edge /\ h.bp \in Seq(Nat) /\ h.cost \in Int /\ h.words \in SUBSET Words
  BY DEF Hyperedge
<1>2. h.edge.kids \in Seq(Nodes) BY <1>1 DEF Edge
<1> QED BY <1>1, <1>2 DEF Kids

LEMMA BasedStays ==
  ASSUME Grows, NEW h \in Hyperedge, Based(memo, h)
  PROVE  Based(memo', h)
BY HyperedgeFields DEF Grows, Based

LEMMA RecallOK == ASSUME IInv, Recall PROVE IInv'
<1> USE DEF Recall
<1> DEFINE d == memo[asked.node][asked.n + 1]
<1>0. pc = "ask" /\ asked.n < Len(memo[asked.node]) OBVIOUS
<1>1. asked.node \in Nodes /\ asked.n \in Nat /\ memo[asked.node] \in Seq(Entry)
      /\ asked.n + 1 \in 1..Len(memo[asked.node])
  BY <1>0, AskedFollows
<1>2. d \in Entry BY <1>1
<1>3. CASE d # PENDING
  <2>1. /\ pc' = "answer" /\ answer' = d
        /\ UNCHANGED <<forest, memo, pq, top, projecteds, asked, stack, i, k, queued>>
    BY <1>3
  <2>2. Types' BY <1>2, <1>3, <2>1 DEF IInv, Types, Entry
  <2>3. AllBased' BY <2>1 DEF IInv, AllBased, Based, Holds, Kids
  <2>4. Distinct' BY <2>1 DEF IInv, Distinct
  <2>5. Frames'
    BY <1>0, <2>1 DEF IInv, Frames, Based, Holds, Kids, HasAsked, WantedNode, WantedN
  <2>6. stack' = stack /\ i' = i /\ memo' = memo BY <2>1
  <2>7. WantedNode(Len(stack)) = asked.node /\ WantedN(Len(stack)) = asked.n
    BY <1>0 DEF IInv, Control
  <2>8. answer' # NONE => Holds(memo, asked.node, asked.n)
    BY <1>1, <1>2, <1>3, <2>1 DEF Holds, Entry
  <2>9. Control'
    BY <2>1, <2>6, <2>7, <2>8 DEF Control, WantedNode, WantedN, Holds
  <2> QED BY <2>2, <2>3, <2>4, <2>5, <2>9 DEF IInv
<1>4. CASE d = PENDING /\ forest.throw_on_cycle
  <2>1. /\ pc' = "cycle" /\ stack' = <<>>
        /\ UNCHANGED <<forest, memo, pq, top, projecteds, asked, answer, i, k, queued>>
    BY <1>4
  <2>2. Types' BY <2>1 DEF IInv, Types
  <2>3. AllBased' BY <2>1 DEF IInv, AllBased, Based, Holds, Kids
  <2>4. Distinct' /\ Frames' /\ Control' BY <2>1 DEF Distinct, Frames, Control
  <2> QED BY <2>2, <2>3, <2>4 DEF IInv
<1>5. CASE d = PENDING /\ ~forest.throw_on_cycle
  <2>1. /\ memo' = [memo EXCEPT ![asked.node] = [@ EXCEPT ![asked.n + 1] = NONE]]
        /\ pc' = "answer" /\ answer' = NONE
        /\ UNCHANGED <<forest, pq, top, projecteds, asked, stack, i, k, queued>>
    BY <1>5
  <2> HIDE DEF Recall
  <2>2. memo \in [Nodes -> Seq(Entry)] BY DEF IInv, Types
  <2>3. [memo[asked.node] EXCEPT ![asked.n + 1] = NONE] \in Seq(Entry)
    BY <1>1 DEF Entry
  <2>4. /\ memo' \in [Nodes -> Seq(Entry)]
        /\ \A x \in Nodes : Len(memo'[x]) = Len(memo[x])
        /\ \A x \in Nodes : \A j \in 1..Len(memo[x]) :
             memo'[x][j] = IF x = asked.node /\ j = asked.n + 1 THEN NONE ELSE memo[x][j]
    BY <1>1, <2>1, <2>2, <2>3
  <2>5. Types' BY <2>1, <2>4 DEF IInv, Types
  <2>6. Grows BY <1>5, <2>4, NoDerivation DEF Grows, Holds
  <2>7. AllBased' BY <2>1, <2>4, <2>6, BasedStays DEF IInv, AllBased, Types
  <2>8. Distinct' BY <2>1 DEF IInv, Distinct
  <2>9. Frames'
    <3> SUFFICES ASSUME NEW a \in 1..Len(stack)
                 PROVE  /\ Len(memo'[stack[a].node]) = stack[a].n + 1
                        /\ ~Holds(memo', stack[a].node, stack[a].n)
                        /\ stack[a].node = WantedNode(a - 1) /\ stack[a].n = WantedN(a - 1)
                        /\ HasAsked(a)' => /\ stack[a].pending \in Hyperedge
                                           /\ Based(memo', stack[a].pending)
                                           /\ stack[a].kid \in Kids(stack[a].pending)
      BY <2>1 DEF Frames, WantedNode, WantedN, Holds, Based, Kids
    <3>1. stack[a] \in Waiting /\ stack[a].node \in Nodes /\ stack[a].n \in Nat
      BY FrameFields DEF IInv
    <3>2. HasAsked(a) BY <1>0 DEF HasAsked
    <3>3. ~Holds(memo, stack[a].node, stack[a].n) /\ Len(memo[stack[a].node]) = stack[a].n + 1
      BY DEF IInv, Frames
    <3>4. ~Holds(memo', stack[a].node, stack[a].n)
      BY <2>4, <3>1, <3>3, NoDerivation DEF Holds
    <3> QED BY <2>4, <2>6, <3>1, <3>2, <3>3, <3>4, BasedStays DEF IInv, Frames
  <2>10. Control' BY <2>1 DEF Control
  <2> QED BY <2>5, <2>7, <2>8, <2>9, <2>10 DEF IInv
<1> QED BY <1>3, <1>4, <1>5

LEMMA ExtendOK == ASSUME IInv, Extend PROVE IInv'
<1> DEFINE x == asked.node
           n == asked.n
           f == [node |-> x, n |-> n, pending |-> NONE, kid |-> 0]
<1>1. /\ pc = "ask" /\ pc' = "loop" /\ n >= Len(memo[x])
      /\ memo' = [memo EXCEPT ![x] = Append(@, PENDING)]
      /\ stack' = Append(stack, f)
      /\ UNCHANGED <<forest, pq, top, asked, answer, i>>
  BY DEF Extend
<1>2. Types BY DEF IInv
<1>3. x \in Nodes /\ n \in Nat /\ memo[x] \in Seq(Entry) /\ Len(memo[x]) > 0 /\ Follows(x, n)
  BY <1>1, AskedFollows
<1>4. n # 0 /\ n = Len(memo[x]) /\ Holds(memo, x, n - 1)
  BY <1>1, <1>3 DEF Follows, Holds
<1>5. memo \in [Nodes -> Seq(Entry)] /\ stack \in Seq(Waiting) /\ f \in Waiting
  BY <1>2, <1>3 DEF Types, Waiting
<1> HIDE DEF f
<1>6. PENDING \in Entry BY DEF Entry
<1>7. /\ memo' \in [Nodes -> Seq(Entry)]
      /\ Len(memo'[x]) = n + 1 /\ memo'[x][n + 1] = PENDING
      /\ \A j \in 1..n : memo'[x][j] = memo[x][j]
      /\ \A y \in Nodes \ {x} : memo'[y] = memo[y]
  BY <1>1, <1>3, <1>4, <1>5, <1>6, Longer
<1>8. /\ stack' \in Seq(Waiting) /\ Len(stack') = Len(stack) + 1 /\ stack' # <<>>
      /\ stack'[Len(stack) + 1] = f /\ \A a \in 1..Len(stack) : stack'[a] = stack[a]
  BY <1>1, <1>5, Longer
<1>9. Types' BY <1>1, <1>7, <1>8 DEF IInv, Types
<1>10. Grows
  <2> SUFFICES ASSUME NEW y \in Nodes, NEW m \in Nat, Holds(memo, y, m)
               PROVE  Holds(memo', y, m) /\ memo'[y][m + 1] = memo[y][m + 1]
    BY DEF Grows
  <2>1. CASE y = x BY <1>3, <1>4, <1>7, <2>1 DEF Holds
  <2>2. CASE y # x BY <1>7, <2>2 DEF Holds
  <2> QED BY <2>1, <2>2
<1>11. AllBased'
  <2>1. \A y \in Nodes : Len(memo'[y]) > 0 BY <1>3, <1>7 DEF IInv, AllBased
  <2> QED BY <1>1, <1>2, <1>10, <2>1, BasedStays DEF IInv, AllBased, Types
<1>12. ASSUME NEW a \in 1..Len(stack) PROVE stack[a].node # x
  <2>1. Len(memo[stack[a].node]) = stack[a].n + 1 /\ ~Holds(memo, stack[a].node, stack[a].n)
    BY DEF IInv, Frames
  <2>2. stack[a].n \in Nat BY <1>2, FrameFields
  <2>3. stack[a].node = x => stack[a].n = n - 1 BY <1>3, <1>4, <2>1, <2>2
  <2> QED BY <1>4, <2>1, <2>3
<1>13. Len(stack) \in Nat BY <1>5
<1>14. f.node = x /\ f.n = n BY DEF f
<1>15. Distinct'
  <2> SUFFICES ASSUME NEW a \in 1..Len(stack) + 1, NEW b \in 1..Len(stack) + 1,
                      stack'[a].node = stack'[b].node
               PROVE  a = b
    BY <1>8 DEF Distinct
  <2>1. CASE a \in 1..Len(stack) /\ b \in 1..Len(stack)
    BY <1>8, <2>1 DEF IInv, Distinct
  <2>2. CASE a = Len(stack) + 1 /\ b \in 1..Len(stack) BY <1>8, <1>12, <1>14, <2>2
  <2>3. CASE b = Len(stack) + 1 /\ a \in 1..Len(stack) BY <1>8, <1>12, <1>14, <2>3
  <2> QED BY <1>13, <2>1, <2>2, <2>3
<1>16. \A a \in 0..Len(stack) : WantedNode(a)' = WantedNode(a) /\ WantedN(a)' = WantedN(a)
  BY <1>1, <1>8, <1>13 DEF WantedNode, WantedN
<1>17. Frames'
  <2> SUFFICES ASSUME NEW a \in 1..Len(stack) + 1
               PROVE  /\ Len(memo'[stack'[a].node]) = stack'[a].n + 1
                      /\ ~Holds(memo', stack'[a].node, stack'[a].n)
                      /\ stack'[a].node = WantedNode(a - 1) /\ stack'[a].n = WantedN(a - 1)
                      /\ a < Len(stack) + 1 => /\ stack'[a].pending \in Hyperedge
                                               /\ Based(memo', stack'[a].pending)
                                               /\ stack'[a].kid \in Kids(stack'[a].pending)
    <3>1. \A a \in 1..Len(stack) + 1 : a - 1 \in 0..Len(stack) BY <1>13
    <3>2. \A a \in 1..Len(stack) + 1 :
            WantedNode(a - 1)' = WantedNode(a - 1) /\ WantedN(a - 1)' = WantedN(a - 1)
      BY <1>16, <3>1
    <3>3. \A a : HasAsked(a)' => a < Len(stack) + 1 BY <1>1, <1>8 DEF HasAsked
    <3> QED BY <1>8, <3>2, <3>3 DEF Frames, Holds, Based, Kids
  <2>1. CASE a \in 1..Len(stack)
    <3>1. stack'[a] = stack[a] /\ stack[a].node \in Nodes \ {x}
      BY <1>2, <1>8, <1>12, <2>1, FrameFields
    <3>2. HasAsked(a) BY <1>1 DEF HasAsked
    <3>3. /\ Len(memo[stack[a].node]) = stack[a].n + 1
          /\ ~Holds(memo, stack[a].node, stack[a].n)
          /\ stack[a].node = WantedNode(a - 1) /\ stack[a].n = WantedN(a - 1)
          /\ stack[a].pending \in Hyperedge
          /\ Based(memo, stack[a].pending)
          /\ stack[a].kid \in Kids(stack[a].pending)
      BY <2>1, <3>2 DEF IInv, Frames
    <3>4. Based(memo', stack[a].pending) BY <1>10, <3>3, BasedStays
    <3>5. memo'[stack[a].node] = memo[stack[a].node] BY <1>7, <3>1
    <3>6. ~Holds(memo', stack[a].node, stack[a].n) BY <3>3, <3>5 DEF Holds
    <3> QED BY <3>1, <3>3, <3>4, <3>5, <3>6
  <2>2. CASE a = Len(stack) + 1
    <3>1. stack'[a] = f /\ a - 1 = Len(stack) BY <1>8, <1>13, <2>2
    <3>2. WantedNode(Len(stack)) = x /\ WantedN(Len(stack)) = n
      BY <1>1 DEF IInv, Control
    <3>3. ~Holds(memo', x, n) BY <1>7, NoDerivation DEF Holds
    <3> QED BY <1>3, <1>7, <1>13, <1>14, <2>2, <3>1, <3>2, <3>3
  <2> QED BY <1>13, <2>1, <2>2
<1>18. Control' BY <1>1, <1>8 DEF Control
<1> QED BY <1>9, <1>11, <1>15, <1>17, <1>18 DEF IInv

-----------------------------------------------------------------------------
(* Steps inside a get_best *)

(* queues keep to hyperedges whose back pointers are to derivations *)
QueuesOK ==
  /\ pq' \in [Nodes -> SUBSET Hyperedge]
  /\ top' \in [Nodes -> Hyperedge]
  /\ \A x \in Nodes : Based(memo, top'[x]) /\ \A h \in pq'[x] : Based(memo, h)

LEMMA QueuesKept == ASSUME IInv, UNCHANGED <<pq, top>> PROVE QueuesOK
BY DEF IInv, Types, AllBased, QueuesOK

LEMMA LastFrame ==
  ASSUME IInv, stack # <<>>
  PROVE  /\ Len(stack) \in 1..Len(stack) /\ Len(stack) \in Nat \ {0}
         /\ Last(stack) = stack[Len(stack)] /\ Last(stack) \in Waiting
         /\ node = stack[Len(stack)].node /\ node \in Nodes
         /\ pending = stack[Len(stack)].pending /\ kid = stack[Len(stack)].kid
<1>1. stack \in Seq(Waiting) BY DEF IInv, Types
<1>2. Len(stack) \in Nat \ {0} /\ Last(stack) = stack[Len(stack)] /\ Last(stack) \in Waiting
  BY <1>1, LastIn
<1> QED BY <1>2 DEF node, pending, kid, Waiting

(* the loop goes on, or comes to its end *)
LEMMA StayOK ==
  ASSUME IInv, QueuesOK, stack # <<>>, pc' \in {"loop", "select"},
         UNCHANGED <<forest, memo, asked, answer, stack, i>>
  PROVE  IInv'
<1>1. Types' BY DEF IInv, Types, QueuesOK
<1>2. AllBased' BY DEF IInv, AllBased, QueuesOK, Based, Holds, Kids
<1>3. \A a : HasAsked(a)' => HasAsked(a) BY DEF HasAsked
<1>4. Frames'
  BY <1>3 DEF IInv, Frames, WantedNode, WantedN, Based, Holds, Kids
<1>5. Distinct' BY DEF IInv, Distinct
<1>6. Control' BY DEF Control
<1> QED BY <1>1, <1>2, <1>4, <1>5, <1>6 DEF IInv

LEMMA AskKidOK ==
  ASSUME IInv, QueuesOK, stack # <<>>, UNCHANGED <<forest, memo, answer, i>>,
         NEW h \in Hyperedge, Based(memo, h), NEW c \in Kids(h), AskKid(h, c)
  PROVE  IInv'
<1> DEFINE l == Len(stack)
           f == [Last(stack) EXCEPT !.pending = h, !.kid = c]
<1>1. l \in 1..l /\ l \in Nat \ {0} /\ stack[l] \in Waiting /\ Last(stack) = stack[l]
  BY LastFrame
<1>2. /\ f \in Waiting
      /\ f.node = stack[l].node /\ f.n = stack[l].n /\ f.pending = h /\ f.kid = c
  BY <1>1, HyperedgeFields DEF Waiting
<1>3. h.edge.kids[c] \in Nodes /\ h.bp[c] \in Nat BY HyperedgeFields DEF Based
<1>4. /\ asked' = [node |-> h.edge.kids[c], n |-> h.bp[c] + 1]
      /\ stack' = SetLast(stack, f) /\ pc' = "ask"
  BY DEF AskKid
<1> HIDE DEF f
<1>5. stack \in Seq(Waiting) BY DEF IInv, Types
<1>6. /\ stack' \in Seq(Waiting) /\ Len(stack') = l /\ stack' # <<>>
      /\ \A a \in 1..l : stack'[a] = IF a = l THEN f ELSE stack[a]
  BY <1>1, <1>2, <1>4, <1>5 DEF SetLast
<1>7. Types' BY <1>3, <1>4, <1>6 DEF IInv, Types, QueuesOK
<1>8. AllBased' BY DEF IInv, AllBased, QueuesOK, Based, Holds, Kids
<1>9. Distinct' BY <1>2, <1>6 DEF IInv, Distinct
<1>10. \A a \in 1..l : /\ WantedNode(a - 1)' = WantedNode(a - 1)
                       /\ WantedN(a - 1)' = WantedN(a - 1)
  BY <1>1, <1>6 DEF WantedNode, WantedN
<1>11. Frames'
  <2> SUFFICES ASSUME NEW a \in 1..l
               PROVE  /\ Len(memo[stack'[a].node]) = stack'[a].n + 1
                      /\ ~Holds(memo, stack'[a].node, stack'[a].n)
                      /\ stack'[a].node = WantedNode(a - 1) /\ stack'[a].n = WantedN(a - 1)
                      /\ stack'[a].pending \in Hyperedge
                      /\ Based(memo, stack'[a].pending)
                      /\ stack'[a].kid \in Kids(stack'[a].pending)
    <3>1. memo' = memo BY DEF AskKid
    <3>2. ASSUME NEW a \in 1..l
          PROVE  (/\ Len(memo[stack[a].node]) = stack[a].n + 1
                  /\ ~Holds(memo, stack[a].node, stack[a].n)
                  /\ stack[a].node = WantedNode(a - 1) /\ stack[a].n = WantedN(a - 1)
                  /\ HasAsked(a) => /\ stack[a].pending \in Hyperedge
                                    /\ Based(memo, stack[a].pending)
                                    /\ stack[a].kid \in Kids(stack[a].pending))'
      BY <1>10, <3>1 DEF Holds, Based, Kids
    <3> QED BY <1>6, <3>2 DEF Frames
  <2>1. CASE a = l BY <1>2, <1>6, <2>1 DEF IInv, Frames
  <2>2. CASE a # l
    <3>1. HasAsked(a) BY <1>1, <2>2 DEF HasAsked
    <3> QED BY <1>6, <2>2, <3>1 DEF IInv, Frames
  <2> QED BY <2>1, <2>2
<1>12. Control'
  BY <1>1, <1>2, <1>4, <1>6 DEF Control, WantedNode, WantedN
<1> QED BY <1>7, <1>8, <1>9, <1>11, <1>12 DEF IInv

LEMMA ReturnOK ==
  ASSUME IInv, QueuesOK, stack # <<>>, UNCHANGED <<forest, asked, i>>,
         NEW d \in Hyperedge \cup {NONE}, Return(d)
  PROVE  IInv'
<1> DEFINE l == Len(stack)
           x == stack[l].node
           n == stack[l].n
<1>1. l \in 1..l /\ l \in Nat \ {0} /\ stack[l] \in Waiting /\ node = x /\ x \in Nodes /\ n \in Nat
  BY LastFrame, FrameFields DEF IInv
<1>2. /\ memo' = [memo EXCEPT ![x] = SetLast(@, d)]
      /\ answer' = d /\ stack' = SubSeq(stack, 1, l - 1) /\ pc' = "answer"
  BY <1>1 DEF Return
<1>3. memo \in [Nodes -> Seq(Entry)] /\ stack \in Seq(Waiting) BY DEF IInv, Types
<1>4. /\ Len(memo[x]) = n + 1 /\ ~Holds(memo, x, n)
      /\ x = WantedNode(l - 1) /\ n = WantedN(l - 1)
  BY <1>1 DEF IInv, Frames
<1>5. memo[x] # <<>> /\ d \in Entry BY <1>1, <1>3, <1>4 DEF Entry
<1>6. /\ memo' \in [Nodes -> Seq(Entry)]
      /\ Len(memo'[x]) = n + 1 /\ memo'[x][n + 1] = d
      /\ \A j \in 1..n + 1 : j # n + 1 => memo'[x][j] = memo[x][j]
      /\ \A y \in Nodes \ {x} : memo'[y] = memo[y]
  <2>1. memo[x] \in Seq(Entry) /\ n + 1 \in 1..n + 1 BY <1>1, <1>3
  <2>2. /\ SetLast(memo[x], d) \in Seq(Entry)
        /\ Len(SetLast(memo[x], d)) = n + 1
        /\ \A j \in 1..n + 1 : SetLast(memo[x], d)[j] = IF j = n + 1 THEN d ELSE memo[x][j]
    BY <1>4, <1>5, <2>1 DEF SetLast
  <2>3. memo'[x] = SetLast(memo[x], d) /\ \A y \in Nodes \ {x} : memo'[y] = memo[y]
    BY <1>1, <1>2, <1>3
  <2>4. memo' \in [Nodes -> Seq(Entry)] BY <1>1, <1>2, <1>3, <2>2
  <2> QED BY <2>1, <2>2, <2>3, <2>4
<1>7. /\ stack' \in Seq(Waiting) /\ Len(stack') = l - 1
      /\ \A a \in 1..l - 1 : stack'[a] = stack[a]
  BY <1>2, <1>3, Shorter
<1>8. Types' BY <1>2, <1>6, <1>7 DEF IInv, Types, QueuesOK
<1>9. Grows
  <2> SUFFICES ASSUME NEW y \in Nodes, NEW m \in Nat, Holds(memo, y, m)
               PROVE  Holds(memo', y, m) /\ memo'[y][m + 1] = memo[y][m + 1]
    BY DEF Grows
  <2>1. CASE y = x
    <3>1. m + 1 \in 1..n + 1 /\ m # n BY <1>4, <2>1 DEF Holds
    <3> QED BY <1>1, <1>6, <2>1, <3>1 DEF Holds
  <2>2. CASE y # x BY <1>6, <2>2 DEF Holds
  <2> QED BY <2>1, <2>2
<1>10. AllBased'
  <2>1. \A y \in Nodes : Len(memo'[y]) > 0 BY <1>1, <1>6 DEF IInv, AllBased
  <2> QED BY <1>9, <2>1, BasedStays DEF AllBased, QueuesOK
<1>11. Distinct' BY <1>1, <1>7 DEF IInv, Distinct
<1>12. \A a \in 0..l - 1 : WantedNode(a)' = WantedNode(a) /\ WantedN(a)' = WantedN(a)
  BY <1>1, <1>7 DEF WantedNode, WantedN
<1>13. Frames'
  <2> SUFFICES ASSUME NEW a \in 1..l - 1
               PROVE  /\ Len(memo'[stack'[a].node]) = stack'[a].n + 1
                      /\ ~Holds(memo', stack'[a].node, stack'[a].n)
                      /\ stack'[a].node = WantedNode(a - 1) /\ stack'[a].n = WantedN(a - 1)
                      /\ stack'[a].pending \in Hyperedge
                      /\ Based(memo', stack'[a].pending)
                      /\ stack'[a].kid \in Kids(stack'[a].pending)
    <3>1. \A a \in 1..l - 1 : WantedNode(a - 1)' = WantedNode(a - 1) /\ WantedN(a - 1)' = WantedN(a - 1)
      <4>1. \A a \in 1..l - 1 : a - 1 \in 0..l - 1 BY <1>1
      <4> QED BY <1>12, <4>1
    <3> QED BY <1>7, <3>1 DEF Frames, Holds, Based, Kids
  <2>1. a \in 1..l /\ a # l /\ a < l BY <1>1
  <2>2. HasAsked(a) BY <2>1 DEF HasAsked
  <2>3. /\ Len(memo[stack[a].node]) = stack[a].n + 1
        /\ ~Holds(memo, stack[a].node, stack[a].n)
        /\ stack[a].node = WantedNode(a - 1) /\ stack[a].n = WantedN(a - 1)
        /\ stack[a].pending \in Hyperedge
        /\ Based(memo, stack[a].pending)
        /\ stack[a].kid \in Kids(stack[a].pending)
    BY <2>1, <2>2 DEF IInv, Frames
  <2>4. stack[a].node \in Nodes \ {x}
    BY <1>1, <2>1, FrameFields DEF IInv, Distinct
  <2>5. memo'[stack[a].node] = memo[stack[a].node] BY <1>6, <2>4
  <2>6. ~Holds(memo', stack[a].node, stack[a].n) BY <2>3, <2>5 DEF Holds
  <2>7. Based(memo', stack[a].pending) BY <1>9, <2>3, BasedStays
  <2> QED BY <1>7, <2>3, <2>5, <2>6, <2>7
<1>14. Control'
  <2>1. l - 1 \in 0..l - 1 BY <1>1
  <2>2. WantedNode(Len(stack))' = x /\ WantedN(Len(stack))' = n
    BY <1>4, <1>7, <1>12, <2>1 DEF WantedNode, WantedN
  <2>3. d # NONE => Holds(memo', x, n) BY <1>1, <1>6 DEF Holds
  <2> QED BY <1>2, <1>6, <2>2, <2>3 DEF Control, Holds
<1> QED BY <1>8, <1>10, <1>11, <1>13, <1>14 DEF IInv

LEMMA PopOK == ASSUME IInv, Pop PROVE IInv'
<1> USE DEF Pop
<1>1. stack # <<>> BY DEF IInv, Control
<1>2. node \in Nodes BY <1>1, LastFrame
<1>3. top[node] \in Hyperedge /\ Based(memo, top[node])
  BY <1>2 DEF IInv, Types, AllBased
<1>4. CASE pq[node] = {}
  <2>1. Return(NONE) /\ UNCHANGED <<forest, asked, i, pq, top>> BY <1>4
  <2>2. QueuesOK BY <2>1, QueuesKept
  <2> QED BY <1>1, <2>1, <2>2, ReturnOK
<1>5. CASE pq[node] # {}
  <2>1. /\ pq' = [pq EXCEPT ![node] = @ \ {top[node]}] /\ top' = top
        /\ UNCHANGED <<forest, i>>
        /\ IF 1 \in Kids(top[node])
           THEN AskKid(top[node], 1) /\ UNCHANGED <<answer, memo>>
           ELSE pc' = "select" /\ UNCHANGED <<asked, stack, answer, memo>>
    BY <1>5
  <2>2. pq \in [Nodes -> SUBSET Hyperedge] /\ top \in [Nodes -> Hyperedge]
    BY DEF IInv, Types
  <2>3. pq' \in [Nodes -> SUBSET Hyperedge] /\ \A x \in Nodes : pq'[x] \subseteq pq[x]
    BY <1>2, <2>1, <2>2
  <2>4. QueuesOK BY <2>1, <2>2, <2>3 DEF IInv, AllBased, QueuesOK
  <2>5. CASE 1 \in Kids(top[node]) BY <1>1, <1>3, <2>1, <2>4, <2>5, AskKidOK
  <2>6. CASE 1 \notin Kids(top[node]) BY <1>1, <2>1, <2>4, <2>6, StayOK
  <2> QED BY <2>5, <2>6
<1> QED BY <1>4, <1>5

LEMMA SuccessorOK ==
  ASSUME IInv, NEW h \in Hyperedge, Based(memo, h), NEW c \in Kids(h),
         NEW d \in Hyperedge, Holds(memo, h.edge.kids[c], h.bp[c] + 1)
  PROVE  Successor(h, c, d) \in Hyperedge /\ Based(memo, Successor(h, c, d))
<1> DEFINE s == Successor(h, c, d)
           was == memo[h.edge.kids[c]][h.bp[c] + 1]
           ws == h.edge.words \cup d.words
                   \cup UNION {memo[h.edge.kids[b]][h.bp[b] + 1].words : b \in {e \in Kids(h) : e # c}}
<1>1. /\ h.edge \in Edge /\ h.bp \in Seq(Nat) /\ h.cost \in Int /\ h.edge.words \in SUBSET Words
      /\ d.cost \in Int /\ d.words \in SUBSET Words
  BY HyperedgeFields DEF Edge
<1>2. c \in DOMAIN h.bp /\ h.bp[c] \in Nat BY HyperedgeFields DEF Based
<1>3. \A b \in Kids(h) : memo[h.edge.kids[b]][h.bp[b] + 1] \in Hyperedge
  BY DEF Based, Holds
<1>4. was.cost \in Int BY <1>3, HyperedgeFields
<1>5. ws \in SUBSET Words
  <2>1. \A b \in Kids(h) : memo[h.edge.kids[b]][h.bp[b] + 1].words \in SUBSET Words
    BY <1>3, HyperedgeFields
  <2> QED BY <1>1, <2>1
<1>6. [h.bp EXCEPT ![c] = @ + 1] \in Seq(Nat) BY <1>1, <1>2
<1>7. h.cost - was.cost + d.cost \in Int BY <1>1, <1>4
<1>8. s = [h EXCEPT !.bp = [h.bp EXCEPT ![c] = @ + 1], !.cost = h.cost - was.cost + d.cost,
                    !.words = ws]
  BY DEF Successor, Hyperedge
<1> HIDE DEF was, ws, s
<1>9. s \in Hyperedge /\ s.edge = h.edge /\ s.bp = [h.bp EXCEPT ![c] = @ + 1]
  BY <1>1, <1>5, <1>6, <1>7, <1>8 DEF Hyperedge
<1>10. Kids(s) = Kids(h) /\ DOMAIN s.bp = DOMAIN h.bp BY <1>9 DEF Kids
<1>11. ASSUME NEW b \in Kids(h) PROVE Holds(memo, s.edge.kids[b], s.bp[b])
  <2>1. CASE b = c BY <1>2, <1>9, <2>1
  <2>2. CASE b # c
    <3>1. s.bp[b] = h.bp[b] BY <1>9, <2>2
    <3> QED BY <1>9, <3>1 DEF Based
  <2> QED BY <2>1, <2>2
<1>12. Based(memo, s) BY <1>10, <1>11 DEF Based
<1> QED BY <1>9, <1>12 DEF s

LEMMA SucceedOK == ASSUME IInv, Succeed PROVE IInv'
<1> USE DEF Succeed
<1>1. stack # <<>> /\ pc = "answer" OBVIOUS
<1>2. node \in Nodes /\ Len(stack) \in 1..Len(stack) /\ Len(stack) # 0
      /\ pending = stack[Len(stack)].pending /\ kid = stack[Len(stack)].kid
  BY <1>1, LastFrame
<1>3. pending \in Hyperedge /\ Based(memo, pending) /\ kid \in Kids(pending)
  BY <1>1, <1>2 DEF IInv, Frames, HasAsked
<1>4. UNCHANGED <<forest, memo, top, answer, i>> OBVIOUS
<1>5. pq \in [Nodes -> SUBSET Hyperedge] /\ top \in [Nodes -> Hyperedge]
      /\ answer \in Hyperedge \cup {NONE}
  BY DEF IInv, Types
<1>6. QueuesOK
  <2>1. CASE answer = NONE
    <3>1. UNCHANGED <<pq, top>> BY <2>1
    <3> QED BY <3>1, QueuesKept
  <2>2. CASE answer # NONE
    <3> DEFINE s == Successor(pending, kid, answer)
    <3>1. pq' = [pq EXCEPT ![node] = @ \cup {s}] BY <2>2
    <3>2. Holds(memo, pending.edge.kids[kid], pending.bp[kid] + 1)
      BY <1>1, <1>2, <2>2 DEF IInv, Control, WantedNode, WantedN
    <3>3. s \in Hyperedge /\ Based(memo, s)
      BY <1>3, <1>5, <2>2, <3>2, SuccessorOK
    <3> HIDE DEF s
    <3>4. pq' \in [Nodes -> SUBSET Hyperedge] /\ \A x \in Nodes : pq'[x] \subseteq pq[x] \cup {s}
      BY <1>2, <1>5, <3>1, <3>3
    <3> QED BY <1>4, <1>5, <3>3, <3>4 DEF IInv, AllBased, QueuesOK
  <2> QED BY <2>1, <2>2
<1>7. CASE kid = 1 /\ HasSecond(pending)
  <2>1. AskKid(pending, 2) /\ 2 \in Kids(pending) BY <1>7 DEF HasSecond
  <2> QED BY <1>1, <1>3, <1>4, <1>6, <2>1, AskKidOK
<1>8. CASE ~(kid = 1 /\ HasSecond(pending))
  <2>1. pc' = "select" /\ UNCHANGED <<asked, stack>> BY <1>8
  <2> QED BY <1>1, <1>4, <1>6, <2>1, StayOK
<1> QED BY <1>7, <1>8

LEMMA SelectOK == ASSUME IInv, Select PROVE IInv'
<1> USE DEF Select
<1>1. stack # <<>> BY DEF IInv, Control
<1>2. node \in Nodes BY <1>1, LastFrame
<1>3. CASE pq[node] = {}
  <2>1. Return(NONE) /\ UNCHANGED <<forest, asked, i, pq, top>> BY <1>3
  <2>2. QueuesOK BY <2>1, QueuesKept
  <2> QED BY <1>1, <2>1, <2>2, ReturnOK
<1>4. CASE pq[node] # {}
  <2>1. PICK h \in BestOf(pq[node]) :
          /\ top' = [top EXCEPT ![node] = h]
          /\ IF permit(projecteds[node], h)
             THEN Return(h)
             ELSE pc' = "loop" /\ UNCHANGED <<memo, answer, stack>>
    BY <1>4
  <2>2. pq \in [Nodes -> SUBSET Hyperedge] /\ top \in [Nodes -> Hyperedge]
    BY DEF IInv, Types
  <2>3. h \in pq[node] /\ h \in Hyperedge /\ Based(memo, h)
    BY <1>2, <2>2 DEF BestOf, IInv, AllBased
  <2>4. UNCHANGED <<forest, pq, asked, i>> OBVIOUS
  <2>5. QueuesOK BY <1>2, <2>1, <2>2, <2>3, <2>4 DEF IInv, AllBased, QueuesOK
  <2>6. CASE permit(projecteds[node], h) BY <1>1, <2>1, <2>3, <2>4, <2>5, <2>6, ReturnOK
  <2>7. CASE ~permit(projecteds[node], h) BY <1>1, <2>1, <2>4, <2>5, <2>7, StayOK
  <2> QED BY <2>6, <2>7
<1> QED BY <1>3, <1>4

-----------------------------------------------------------------------------

LEMMA Inductive == IInv /\ [Next]_vars => IInv'
<1> SUFFICES ASSUME IInv, [Next]_vars PROVE IInv' OBVIOUS
<1>1. CASE Enumerate BY <1>1, EnumerateOK
<1>2. CASE Recall BY <1>2, RecallOK
<1>3. CASE Extend BY <1>3, ExtendOK
<1>4. CASE Pop BY <1>4, PopOK
<1>5. CASE Succeed BY <1>5, SucceedOK
<1>6. CASE Select BY <1>6, SelectOK
<1>7. CASE Visit BY <1>7, VisitOK
<1>8. CASE UNCHANGED vars BY <1>8, StutterOK
<1> QED BY <1>1, <1>2, <1>3, <1>4, <1>5, <1>6, <1>7, <1>8 DEF Next, get_best

LEMMA Invariant == Spec => []IInv
BY InitOK, Inductive, PTL DEF Spec

(* derivation_type& d = memo.back() stays good through next_best, whichever nodes
   it asks and whatever cycles the forest has: a node that waits is never
   extended again, since what it is asked for then it has, or has begun. *)
THEOREM BackStaysBack == Spec => []StillBack
BY BackIsLast, Invariant, PTL

(* No node waits twice, so the depth of the recursion is at most the number of
   nodes, and each back pointer of a hyperedge is to a derivation in the list
   of its kid. *)
THEOREM RecursionIsBounded == Spec => [](Distinct /\ AllBased)
<1>1. IInv => Distinct /\ AllBased BY DEF IInv
<1> QED BY <1>1, Invariant, PTL

-----------------------------------------------------------------------------
(* One path to any choice of back pointers *)

Key(h) == <<h.edge, h.bp>>
Keys == Edge \X Seq(Nat)

AtBest(q) == \A c \in DOMAIN q[2] : q[2][c] = 0
Advanced(q, c) == <<q[1], [q[2] EXCEPT ![c] = @ + 1]>>
(* where a key that is not at its best comes from *)
Before(q) ==
  LET c == IF q[2][1] > 0 THEN 1 ELSE 2
  IN  <<q[1], [q[2] EXCEPT ![c] = @ - 1]>>

Elements(s) == {s[a] : a \in 1..Len(s)}
Known(s, q) == AtBest(q) \/ q \in Elements(s)

(* Of a queue Q and what was ever put into it, s: what was put there comes *)
(* from a key that was, and is no longer, in the queue.                     *)
Once(Q, s) ==
  /\ \A a, b \in 1..Len(s) : s[a] = s[b] => a = b
  /\ \A q \in Elements(s) : Known(s, Before(q))
  /\ \A h \in Q : Known(s, Key(h))
  /\ \A g, h \in Q : Key(g) = Key(h) => g = h
  /\ \A h \in Q : \A q \in Elements(s) : Key(h) # Before(q)

(* h was taken from the queue; its successors from the c-th kid on are to come *)
InReplacement(Q, s, h, c) ==
  /\ Known(s, Key(h))
  /\ \A g \in Q : Key(g) # Key(h)
  /\ c \in {1, 2} /\ (c = 2 => h.bp[1] = 0)
  /\ \A b \in Kids(h) \cap {1, 2} :
       b >= c /\ (b = 2 => h.bp[1] = 0) => Advanced(Key(h), b) \notin Elements(s)

Replacing ==
  \A a \in 1..Len(stack) :
    HasAsked(a) => InReplacement(pq[stack[a].node], queued[stack[a].node],
                                 stack[a].pending, stack[a].kid)

(* the last best is in the queue until its node is asked for the next *)
TopQueued ==
  /\ \A x \in Nodes : Last(memo[x]) \in Hyperedge => top[x] \in pq[x]
  /\ pc = "loop" => top[node] \in pq[node]

QInv ==
  /\ queued \in [Nodes -> Seq(Keys)]
  /\ \A x \in Nodes : Once(pq[x], queued[x])
  /\ Replacing
  /\ TopQueued

LEMMA KeyType ==
  ASSUME NEW h \in Hyperedge
  PROVE  Key(h) \in Keys /\ Key(h)[1] = h.edge /\ Key(h)[2] = h.bp
BY HyperedgeFields DEF Key, Keys

(* the way back from a successor *)
LEMMA BeforeAdvanced ==
  ASSUME NEW q \in Keys, NEW c \in DOMAIN q[2], c = 1 \/ (c = 2 /\ q[2][1] = 0)
  PROVE  /\ Advanced(q, c) \in Keys
         /\ Before(Advanced(q, c)) = q
         /\ ~AtBest(Advanced(q, c))
         /\ Advanced(q, c) # q
<1> DEFINE bp == q[2]
           up == [bp EXCEPT ![c] = @ + 1]
<1>1. q = <<q[1], bp>> /\ q[1] \in Edge /\ bp \in Seq(Nat) BY DEF Keys
<1>2. bp[c] \in Nat /\ c \in 1..Len(bp) /\ Len(bp) \in Nat BY <1>1
<1>3. up \in Seq(Nat) /\ up[c] = bp[c] + 1 /\ DOMAIN up = DOMAIN bp BY <1>1, <1>2
<1>4. Advanced(q, c) = <<q[1], up>> BY DEF Advanced
<1>5. c = IF up[1] > 0 THEN 1 ELSE 2
  <2>1. CASE c = 1 BY <1>2, <1>3, <2>1
  <2>2. CASE c = 2 /\ bp[1] = 0
    <3>1. up[1] = bp[1] BY <1>2, <2>2
    <3> QED BY <2>2, <3>1
  <2> QED BY <2>1, <2>2
<1>6. [up EXCEPT ![c] = @ - 1] = bp
  <2>1. up[c] - 1 = bp[c] BY <1>2, <1>3
  <2>2. [up EXCEPT ![c] = up[c] - 1] = [up EXCEPT ![c] = bp[c]] BY <2>1
  <2>3. [up EXCEPT ![c] = bp[c]] = bp
    <3>1. bp = [b \in DOMAIN bp |-> bp[b]] BY <1>1
    <3>2. [up EXCEPT ![c] = bp[c]] = [b \in DOMAIN bp |-> bp[b]] OBVIOUS
    <3> QED BY <3>1, <3>2
  <2> QED BY <2>2, <2>3
<1> HIDE DEF bp, up
<1>7. Before(<<q[1], up>>) = <<q[1], [up EXCEPT ![c] = @ - 1]>>
  BY <1>5 DEF Before
<1>8. ~AtBest(<<q[1], up>>) BY <1>2, <1>3 DEF AtBest
<1>9. up # bp BY <1>2, <1>3
<1>10. <<q[1], up>> \in Keys BY <1>1, <1>3 DEF Keys
<1>11. <<q[1], up>> # <<q[1], bp>> BY <1>9
<1> QED BY <1>1, <1>4, <1>6, <1>7, <1>8, <1>10, <1>11

LEMMA InitQ == Init => QInv
<1> SUFFICES ASSUME Init PROVE QInv OBVIOUS
<1>1. forest \in Forests /\ stack = <<>> /\ pc = "idle" BY DEF Init
<1>2. ASSUME NEW x \in Nodes PROVE pq[x] = FirstQueue(forest, x) /\ queued[x] = <<>>
  BY DEF Init
<1>3. ASSUME NEW x \in Nodes, NEW h \in pq[x]
      PROVE  AtBest(Key(h)) /\ h = FirstHyperedge(forest, h.edge)
  <2>1. PICK e \in forest.edges[x] : h = FirstHyperedge(forest, e) BY <1>2, <1>3 DEF FirstQueue
  <2>2. h.edge = e /\ h.bp = [c \in DOMAIN e.kids |-> 0] BY <1>1, <2>1, FirstHyperedgeType
  <2> QED BY <2>1, <2>2 DEF AtBest, Key
<1>4. ASSUME NEW x \in Nodes PROVE Once(pq[x], queued[x])
  <2>1. Elements(queued[x]) = {} BY <1>2 DEF Elements
  <2>2. \A g, h \in pq[x] : Key(g) = Key(h) => g = h
    <3>1. \A g, h \in pq[x] : Key(g) = Key(h) => g.edge = h.edge BY DEF Key
    <3> QED BY <1>3, <3>1
  <2>3. queued[x] = <<>> BY <1>2
  <2>4. \A h \in pq[x] : Known(queued[x], Key(h)) BY <1>3 DEF Known
  <2>5. Len(<<>>) = 0 OBVIOUS
  <2> QED BY <2>1, <2>2, <2>3, <2>4, <2>5 DEF Once
<1>5. queued \in [Nodes -> Seq(Keys)] BY DEF Init
<1>6. Replacing BY <1>1 DEF Replacing
<1>7. TopQueued BY <1>1 DEF TopQueued, Init, BestOf
<1> QED BY <1>4, <1>5, <1>6, <1>7 DEF QInv

-----------------------------------------------------------------------------
(* Steps, by what they do to the queues *)

(* The last places of the lists, as far as they hold derivations. *)
LastKept ==
  \A x \in Nodes : Last(memo'[x]) \in Hyperedge => Last(memo[x]) \in Hyperedge

(* no queue changes and no frame begins *)
LEMMA QuietQ ==
  ASSUME IInv, QInv, UNCHANGED <<pq, queued, top>>, LastKept,
         stack' = stack \/ stack' = <<>>,
         \A a \in 1..Len(stack) : stack' = stack /\ HasAsked(a)' => HasAsked(a),
         pc' = "loop" => stack' = stack /\ pc = "loop"
  PROVE  QInv'
<1>1. queued' \in [Nodes -> Seq(Keys)] /\ \A x \in Nodes : Once(pq'[x], queued'[x]) BY DEF QInv
<1>2. Replacing'
  <2>1. CASE stack' = <<>> BY <2>1 DEF Replacing
  <2>2. CASE stack' = stack
    <3> SUFFICES ASSUME NEW a \in 1..Len(stack), HasAsked(a)'
                 PROVE  InReplacement(pq'[stack'[a].node], queued'[stack'[a].node],
                                     stack'[a].pending, stack'[a].kid)
      BY <2>2 DEF Replacing
    <3>1. stack[a].node \in Nodes BY FrameFields DEF IInv
    <3>2. InReplacement(pq[stack[a].node], queued[stack[a].node],
                       stack[a].pending, stack[a].kid)
      BY <2>2 DEF QInv, Replacing
    <3> QED BY <2>2, <3>1, <3>2
  <2> QED BY <2>1, <2>2
<1>3. TopQueued'
  <2>1. pc' = "loop" => node' = node BY DEF node, Last
  <2> QED BY <2>1 DEF QInv, TopQueued, LastKept
<1> QED BY <1>1, <1>2, <1>3 DEF QInv

LEMMA RecallQ == ASSUME IInv, QInv, Recall PROVE QInv'
<1> USE DEF Recall
<1>1. pc = "ask" /\ pc' \in {"answer", "cycle"} /\ UNCHANGED <<pq, queued, top>> OBVIOUS
<1>2. stack' = stack \/ stack' = <<>> OBVIOUS
<1>3. LastKept
  <2>1. CASE memo' = memo BY <2>1 DEF LastKept
  <2>2. CASE memo' = [memo EXCEPT ![asked.node] = [@ EXCEPT ![asked.n + 1] = NONE]]
    <3> HIDE DEF Recall
    <3>1. memo \in [Nodes -> Seq(Entry)] BY DEF IInv, Types
    <3>2. /\ asked.node \in Nodes
          /\ \A y \in Nodes : y # asked.node => memo'[y] = memo[y]
      BY <1>1, <2>2, <3>1, AskedFollows
    <3> DEFINE s == memo[asked.node]
    <3>3. memo'[asked.node] = [s EXCEPT ![asked.n + 1] = NONE] BY <2>2, <3>1, <3>2
    <3>4. s \in Seq(Entry) /\ Len(s) \in 1..Len(s) BY <3>1, <3>2 DEF IInv, AllBased
    <3> HIDE DEF s
    <3> DEFINE u == [s EXCEPT ![asked.n + 1] = NONE]
    <3>5. Len(u) = Len(s) /\ (u[Len(s)] = s[Len(s)] \/ u[Len(s)] = NONE) BY <3>4
    <3>6. u[Len(u)] \in Hyperedge => s[Len(s)] \in Hyperedge BY <3>5, NoDerivation
    <3> QED BY <3>2, <3>3, <3>6 DEF LastKept, Last, s
  <2> QED BY <2>1, <2>2
<1>4. \A a : HasAsked(a) BY <1>1 DEF HasAsked
<1> HIDE DEF Recall
<1> QED BY <1>1, <1>2, <1>3, <1>4, QuietQ

LEMMA EnumerateQ == ASSUME IInv, QInv, Enumerate PROVE QInv'
<1>1. stack = <<>> /\ stack' = stack /\ pc' = "ask" /\ UNCHANGED <<pq, queued, top, memo>>
  BY DEF Enumerate, IInv, Control
<1> QED BY <1>1, QuietQ DEF LastKept

LEMMA VisitQ == ASSUME IInv, QInv, Visit PROVE QInv'
<1>1. stack = <<>> /\ stack' = stack /\ pc' # "loop" /\ UNCHANGED <<pq, queued, top, memo>>
  BY DEF Visit
<1> QED BY <1>1, QuietQ DEF LastKept

LEMMA StutterQ == ASSUME IInv, QInv, UNCHANGED vars PROVE QInv'
<1>1. UNCHANGED <<pq, queued, top, memo, stack, pc>> BY DEF vars
<1> QED BY <1>1, QuietQ DEF LastKept, HasAsked

(* a frame begins on a node whose last best is in the queue *)
LEMMA ExtendQ == ASSUME IInv, QInv, Extend PROVE QInv'
<1> DEFINE x == asked.node
           f == [node |-> x, n |-> asked.n, pending |-> NONE, kid |-> 0]
           l == Len(stack)
<1>1. /\ pc = "ask" /\ pc' = "loop" /\ asked.n >= Len(memo[x])
      /\ memo' = [memo EXCEPT ![x] = Append(@, PENDING)]
      /\ stack' = Append(stack, f)
      /\ UNCHANGED <<pq, queued, top>>
  BY DEF Extend
<1>2. x \in Nodes /\ asked.n \in Nat /\ memo[x] \in Seq(Entry) /\ Len(memo[x]) > 0
      /\ Follows(x, asked.n)
  BY <1>1, AskedFollows
<1>3. Last(memo[x]) \in Hyperedge BY <1>1, <1>2 DEF Follows, Holds, Last
<1>4. memo \in [Nodes -> Seq(Entry)] /\ stack \in Seq(Waiting) /\ f \in Waiting
  BY <1>2 DEF IInv, Types, Waiting
<1>5. f.node = x OBVIOUS
<1> HIDE DEF f
<1>6. /\ Len(stack') = l + 1 /\ l \in Nat /\ stack'[l + 1] = f
      /\ \A a \in 1..l : stack'[a] = stack[a]
  BY <1>1, <1>4, Longer
<1>7. queued' \in [Nodes -> Seq(Keys)] /\ \A y \in Nodes : Once(pq'[y], queued'[y])
  BY <1>1 DEF QInv
<1>8. Replacing'
  <2> SUFFICES ASSUME NEW a \in 1..l + 1, HasAsked(a)'
               PROVE  InReplacement(pq'[stack'[a].node], queued'[stack'[a].node],
                                     stack'[a].pending, stack'[a].kid)
    BY <1>6 DEF Replacing
  <2>1. a \in 1..l /\ stack'[a] = stack[a] BY <1>1, <1>6 DEF HasAsked
  <2>2. HasAsked(a) BY <1>1 DEF HasAsked
  <2>3. InReplacement(pq[stack[a].node], queued[stack[a].node],
                       stack[a].pending, stack[a].kid)
    BY <2>1, <2>2 DEF QInv, Replacing
  <2> QED BY <1>1, <2>1, <2>3
<1>9. TopQueued'
  <2>1. \A y \in Nodes : y # x => memo'[y] = memo[y] BY <1>1, <1>4
  <2>2. memo'[x] = Append(memo[x], PENDING) BY <1>1, <1>2, <1>4
  <2>3. PENDING \in Entry BY DEF Entry
  <2>4. Last(memo'[x]) = PENDING BY <1>2, <2>2, <2>3, Longer DEF Last
  <2>5. node' = x BY <1>5, <1>6 DEF node, Last
  <2>6. top[x] \in pq[x] BY <1>2, <1>3 DEF QInv, TopQueued
  <2> QED BY <1>1, <2>1, <2>4, <2>5, <2>6, NoDerivation DEF TopQueued, QInv
<1> QED BY <1>7, <1>8, <1>9 DEF QInv

(* a frame ends; what it returns is on top of the queue *)
LEMMA ReturnQ ==
  ASSUME IInv, QInv, stack # <<>>, UNCHANGED <<pq, queued>>,
         top' \in [Nodes -> Hyperedge],
         \A y \in Nodes \ {node} : top'[y] = top[y],
         NEW d \in Hyperedge \cup {NONE}, Return(d),
         d \in Hyperedge => top'[node] \in pq[node]
  PROVE  QInv'
<1> DEFINE l == Len(stack)
<1>1. l \in 1..l /\ l \in Nat \ {0} /\ node \in Nodes BY LastFrame
<1>2. memo \in [Nodes -> Seq(Entry)] /\ stack \in Seq(Waiting) BY DEF IInv, Types
<1>3. /\ memo' = [memo EXCEPT ![node] = SetLast(@, d)]
      /\ stack' = SubSeq(stack, 1, l - 1) /\ pc' = "answer"
  BY DEF Return
<1>4. Len(stack') = l - 1 /\ \A a \in 1..l - 1 : stack'[a] = stack[a]
  BY <1>2, <1>3, Shorter
<1>5. queued' \in [Nodes -> Seq(Keys)] /\ \A y \in Nodes : Once(pq'[y], queued'[y])
  BY DEF QInv
<1>6. Replacing'
  <2> SUFFICES ASSUME NEW a \in 1..l - 1
               PROVE  InReplacement(pq'[stack'[a].node], queued'[stack'[a].node],
                                     stack'[a].pending, stack'[a].kid)
    BY <1>4 DEF Replacing
  <2>1. a \in 1..l /\ a < l /\ stack'[a] = stack[a] BY <1>1, <1>4
  <2>2. HasAsked(a) BY <2>1 DEF HasAsked
  <2>3. InReplacement(pq[stack[a].node], queued[stack[a].node],
                       stack[a].pending, stack[a].kid)
    BY <2>1, <2>2 DEF QInv, Replacing
  <2> QED BY <2>1, <2>3
<1>7. TopQueued'
  <2>1. \A y \in Nodes : y # node => memo'[y] = memo[y] BY <1>2, <1>3
  <2>2. memo[node] \in Seq(Entry) /\ Len(memo[node]) \in 1..Len(memo[node])
    BY <1>1, <1>2 DEF IInv, AllBased
  <2>3. memo'[node] = [memo[node] EXCEPT ![Len(memo[node])] = d]
    BY <1>1, <1>2, <1>3 DEF SetLast
  <2>4. Last(memo'[node]) = d BY <2>2, <2>3 DEF Last
  <2> QED BY <1>1, <1>3, <2>1, <2>4, NoDerivation DEF TopQueued, QInv
<1> QED BY <1>5, <1>6, <1>7 DEF QInv

LEMMA SelectQ == ASSUME IInv, QInv, Select PROVE QInv'
<1> USE DEF Select
<1>1. stack # <<>> /\ pc = "select" /\ UNCHANGED <<pq, queued>> BY DEF IInv, Control
<1>2. node \in Nodes BY <1>1, LastFrame
<1>3. pq \in [Nodes -> SUBSET Hyperedge] /\ top \in [Nodes -> Hyperedge]
  BY DEF IInv, Types
<1>4. CASE pq[node] = {}
  <2>1. Return(NONE) /\ UNCHANGED top BY <1>4
  <2> HIDE DEF Select
  <2> QED BY <1>1, <1>3, <2>1, ReturnQ, NoDerivation
<1>5. CASE pq[node] # {}
  <2>1. PICK h \in BestOf(pq[node]) :
          /\ top' = [top EXCEPT ![node] = h]
          /\ IF permit(projecteds[node], h)
             THEN Return(h)
             ELSE pc' = "loop" /\ UNCHANGED <<memo, answer, stack>>
    BY <1>5
  <2> HIDE DEF Select
  <2>2. h \in pq[node] /\ h \in Hyperedge BY <1>2, <1>3 DEF BestOf
  <2>3. /\ top' \in [Nodes -> Hyperedge] /\ top'[node] = h
        /\ \A y \in Nodes \ {node} : top'[y] = top[y]
    BY <1>2, <1>3, <2>1, <2>2
  <2>4. CASE permit(projecteds[node], h) BY <1>1, <2>1, <2>2, <2>3, <2>4, ReturnQ
  <2>5. CASE ~permit(projecteds[node], h)
    <3>1. pc' = "loop" /\ UNCHANGED <<memo, stack>> BY <2>1, <2>5
    <3>2. \A y \in Nodes : Once(pq'[y], queued'[y]) BY <1>1 DEF QInv
    <3>3. Replacing'
      BY <1>1, <3>1 DEF QInv, Replacing, HasAsked
    <3>4. node' = node BY <3>1 DEF node
    <3>5. TopQueued' BY <1>1, <1>2, <2>2, <2>3, <3>1, <3>4 DEF QInv, TopQueued
    <3> QED BY <1>1, <3>2, <3>3, <3>5 DEF QInv
  <2> QED BY <2>4, <2>5
<1> QED BY <1>4, <1>5

(* the list of the node at work does not end with a derivation; no other frame is on it *)
LEMMA AtWork ==
  ASSUME IInv, stack # <<>>
  PROVE  /\ Last(memo[node]) \notin Hyperedge
         /\ \A a \in 1..Len(stack) : a # Len(stack) => stack[a].node # node
<1>1. Len(stack) \in 1..Len(stack) /\ node = stack[Len(stack)].node /\ node \in Nodes
  BY LastFrame
<1>2. /\ Len(memo[node]) = stack[Len(stack)].n + 1
      /\ ~Holds(memo, node, stack[Len(stack)].n)
  BY <1>1 DEF IInv, Frames
<1>3. Len(memo[node]) \in 1..Len(memo[node]) BY <1>1 DEF IInv, AllBased, Types
<1>4. Last(memo[node]) \notin Hyperedge BY <1>2, <1>3 DEF Holds, Last
<1> QED BY <1>1, <1>4 DEF IInv, Distinct

(* the frame at work asks for a kid of h, or is done with its candidates *)
LEMMA WorkQ ==
  ASSUME IInv, QInv, stack # <<>>, UNCHANGED <<memo, top>>,
         queued' \in [Nodes -> Seq(Keys)],
         \A x \in Nodes \ {node} : pq'[x] = pq[x] /\ queued'[x] = queued[x],
         Once(pq'[node], queued'[node]),
         \/ pc' = "select" /\ stack' = stack
         \/ \E h \in Hyperedge : \E c \in {1, 2} :
              AskKid(h, c) /\ InReplacement(pq'[node], queued'[node], h, c)
  PROVE  QInv'
<1> DEFINE l == Len(stack)
<1>1. /\ l \in 1..l /\ l \in Nat \ {0} /\ node = stack[l].node /\ node \in Nodes
      /\ Last(stack) = stack[l] /\ stack[l] \in Waiting /\ stack \in Seq(Waiting)
  BY LastFrame DEF IInv, Types
<1>2. \A x \in Nodes : Once(pq'[x], queued'[x]) BY <1>1 DEF QInv
<1>3. pc' # "loop" /\ Last(memo[node]) \notin Hyperedge
  BY AtWork DEF AskKid
<1>4. TopQueued' BY <1>1, <1>3 DEF TopQueued, QInv
<1>5. ASSUME NEW a \in 1..l, a # l
      PROVE  InReplacement(pq'[stack[a].node], queued'[stack[a].node],
                           stack[a].pending, stack[a].kid)
  <2>1. HasAsked(a) BY <1>1, <1>5 DEF HasAsked
  <2>2. stack[a].node \in Nodes \ {node} BY <1>5, AtWork, FrameFields DEF IInv
  <2> QED BY <2>1, <2>2 DEF QInv, Replacing
<1>6. Replacing'
  <2>1. CASE pc' = "select" /\ stack' = stack
    <3>1. \A a \in 1..l : HasAsked(a)' => a # l BY <1>1, <2>1 DEF HasAsked
    <3> QED BY <1>5, <2>1, <3>1 DEF Replacing
  <2>2. ASSUME NEW h \in Hyperedge, NEW c \in {1, 2}, AskKid(h, c),
               InReplacement(pq'[node], queued'[node], h, c)
        PROVE  Replacing'
    <3> DEFINE f == [stack[l] EXCEPT !.pending = h, !.kid = c]
    <3>1. stack' = [stack EXCEPT ![l] = f] BY <1>1, <2>2 DEF AskKid, SetLast
    <3>2. f.node = node /\ f.pending = h /\ f.kid = c BY <1>1 DEF Waiting
    <3> HIDE DEF f
    <3>3. Len(stack') = l /\ \A a \in 1..l : stack'[a] = IF a = l THEN f ELSE stack[a]
      BY <1>1, <3>1
    <3> SUFFICES ASSUME NEW a \in 1..l
                 PROVE  InReplacement(pq'[stack'[a].node], queued'[stack'[a].node],
                                      stack'[a].pending, stack'[a].kid)
      BY <3>3 DEF Replacing
    <3> QED BY <1>5, <2>2, <3>2, <3>3
  <2> QED BY <2>1, <2>2
<1> QED BY <1>2, <1>4, <1>6 DEF QInv

LEMMA PopQ == ASSUME IInv, QInv, Pop PROVE QInv'
<1> DEFINE h == top[node]
           s == queued[node]
<1>1. stack # <<>> /\ pc = "loop" BY DEF Pop, IInv, Control
<1>2. node \in Nodes /\ queued' = queued /\ UNCHANGED top BY <1>1, LastFrame DEF Pop
<1>3. pq \in [Nodes -> SUBSET Hyperedge] /\ top \in [Nodes -> Hyperedge]
  BY DEF IInv, Types
<1>4. CASE pq[node] = {}
  <2>1. Return(NONE) /\ UNCHANGED pq BY <1>4 DEF Pop
  <2> QED BY <1>1, <1>2, <1>3, <2>1, ReturnQ, NoDerivation
<1>5. CASE pq[node] # {}
  <2>1. /\ pq' = [pq EXCEPT ![node] = @ \ {h}] /\ memo' = memo
        /\ IF 1 \in Kids(h) THEN AskKid(h, 1) ELSE pc' = "select" /\ stack' = stack
    BY <1>5 DEF Pop
  <2>2. h \in pq[node] /\ h \in Hyperedge /\ Based(memo, h)
    BY <1>1, <1>2, <1>3 DEF QInv, TopQueued, IInv, AllBased
  <2>3. pq'[node] = pq[node] \ {h} /\ \A x \in Nodes \ {node} : pq'[x] = pq[x]
    BY <1>2, <1>3, <2>1
  <2>4. Once(pq[node], s) BY <1>2 DEF QInv
  <2>5. Once(pq'[node], s) BY <2>3, <2>4 DEF Once
  <2>6. InReplacement(pq'[node], s, h, 1)
    <3>1. Known(s, Key(h)) BY <2>2, <2>4 DEF Once
    <3>2. \A g \in pq'[node] : Key(g) # Key(h) BY <2>2, <2>3, <2>4 DEF Once
    <3>3. ASSUME NEW b \in Kids(h) \cap {1, 2}, b = 2 => h.bp[1] = 0
          PROVE  Advanced(Key(h), b) \notin Elements(s)
      <4>1. Before(Advanced(Key(h), b)) = Key(h)
        BY <2>2, <3>3, KeyType, BeforeAdvanced DEF Based
      <4> QED BY <2>2, <2>4, <4>1 DEF Once
    <3> HIDE DEF h, s
    <3> QED BY <3>1, <3>2, <3>3 DEF InReplacement
  <2>7. queued' \in [Nodes -> Seq(Keys)] BY <1>2 DEF QInv
  <2>8. \/ pc' = "select" /\ stack' = stack
        \/ \E g \in Hyperedge : \E c \in {1, 2} :
             AskKid(g, c) /\ InReplacement(pq'[node], queued'[node], g, c)
    BY <1>2, <2>1, <2>2, <2>6
  <2>9. Once(pq'[node], queued'[node]) BY <1>2, <2>5
  <2> HIDE DEF h, s
  <2> QED BY <1>1, <1>2, <2>1, <2>3, <2>7, <2>8, <2>9, WorkQ
<1> QED BY <1>4, <1>5

LEMMA SuccessorKey ==
  ASSUME NEW h \in Hyperedge, NEW c, NEW d
  PROVE  Key(Successor(h, c, d)) = Advanced(Key(h), c)
<1>1. h = [edge |-> h.edge, bp |-> h.bp, cost |-> h.cost, words |-> h.words]
  BY DEF Hyperedge
<1> QED BY <1>1 DEF Key, Advanced, Successor

(* the c-th successor of h is put into the queue *)
LEMMA AddedOnce ==
  ASSUME NEW Q \in SUBSET Hyperedge, NEW s \in Seq(Keys), Once(Q, s),
         NEW h \in Hyperedge, DOMAIN h.bp = Kids(h), NEW c \in Kids(h),
         InReplacement(Q, s, h, c),
         NEW g \in Hyperedge, Key(g) = Advanced(Key(h), c)
  PROVE  /\ Append(s, Key(g)) \in Seq(Keys)
         /\ Once(Q \cup {g}, Append(s, Key(g)))
         /\ c = 1 /\ HasSecond(h) => InReplacement(Q \cup {g}, Append(s, Key(g)), h, 2)
<1> DEFINE q == Key(g)
           t == Append(s, q)
<1>1. q \in Keys /\ Before(q) = Key(h) /\ ~AtBest(q) /\ q # Key(h)
  BY KeyType, BeforeAdvanced DEF InReplacement
<1>2. q \notin Elements(s) BY DEF InReplacement
<1> HIDE DEF q
<1>3. /\ t \in Seq(Keys) /\ Len(t) = Len(s) + 1 /\ t[Len(s) + 1] = q /\ Len(s) \in Nat
      /\ \A a \in 1..Len(s) : t[a] = s[a]
  BY <1>1, Longer
<1> HIDE DEF t
<1>4. Elements(t) = Elements(s) \cup {q}
  <2>1. 1..Len(t) = (1..Len(s)) \cup {Len(s) + 1} BY <1>3
  <2> QED BY <1>3, <2>1 DEF Elements
<1>5. \A p : Known(s, p) => Known(t, p) BY <1>4 DEF Known
<1>6. ~Known(s, q) BY <1>1, <1>2 DEF Known
<1>7. Key(g) = q /\ Known(t, q) /\ Known(s, Key(h)) BY <1>4 DEF q, Known, InReplacement
<1>8. Once(Q \cup {g}, t)
  <2>1. ASSUME NEW a \in 1..Len(t), NEW b \in 1..Len(t), t[a] = t[b] PROVE a = b
    <3>1. CASE a \in 1..Len(s) /\ b \in 1..Len(s) BY <1>3, <2>1, <3>1 DEF Once
    <3>2. \A e \in 1..Len(s) : t[e] # q BY <1>2, <1>3 DEF Elements
    <3> QED BY <1>3, <2>1, <3>1, <3>2
  <2>2. \A p \in Elements(t) : Known(t, Before(p)) BY <1>1, <1>4, <1>5, <1>7 DEF Once
  <2>3. \A e \in Q \cup {g} : Known(t, Key(e)) BY <1>5, <1>7 DEF Once
  <2>4. \A e \in Q : Key(e) # q BY <1>6 DEF Once
  <2>5. \A e, f \in Q \cup {g} : Key(e) = Key(f) => e = f BY <1>7, <2>4 DEF Once
  <2>6. ASSUME NEW e \in Q \cup {g}, NEW p \in Elements(t) PROVE Key(e) # Before(p)
    <3>1. CASE p = q BY <1>1, <1>7, <3>1 DEF InReplacement
    <3>2. CASE p # q
      <4>1. p \in Elements(s) /\ Known(s, Before(p)) BY <1>4, <3>2 DEF Once
      <4> QED BY <1>6, <1>7, <4>1 DEF Once
    <3> QED BY <3>1, <3>2
  <2> QED BY <2>1, <2>2, <2>3, <2>5, <2>6 DEF Once
<1>9. ASSUME c = 1, HasSecond(h) PROVE InReplacement(Q \cup {g}, t, h, 2)
  <2>1. 2 \in Kids(h) /\ h.bp[1] = 0 BY <1>9 DEF HasSecond
  <2>2. Known(t, Key(h)) BY <1>5, <1>7
  <2>3. \A e \in Q \cup {g} : Key(e) # Key(h) BY <1>1, <1>7 DEF InReplacement
  <2>4. ASSUME NEW b \in Kids(h) \cap {1, 2}, b >= 2
        PROVE  Advanced(Key(h), b) \notin Elements(t)
    <3>1. b = 2 BY <2>4
    <3>2. Advanced(Key(h), 2) \notin Elements(s) BY <1>9, <2>1 DEF InReplacement
    <3>3. Advanced(Key(h), 2) # Advanced(Key(h), 1)
      <4>1. h.bp \in Seq(Nat) /\ 1 \in DOMAIN h.bp /\ h.bp[1] \in Nat
        BY <1>9, HyperedgeFields
      <4>2. [h.bp EXCEPT ![1] = @ + 1][1] = h.bp[1] + 1 /\ [h.bp EXCEPT ![2] = @ + 1][1] = h.bp[1]
        BY <4>1
      <4>3. [h.bp EXCEPT ![1] = @ + 1] # [h.bp EXCEPT ![2] = @ + 1] BY <4>1, <4>2
      <4> QED BY <4>3 DEF Advanced, Key
    <3> QED BY <1>4, <1>9, <3>1, <3>2, <3>3 DEF q
  <2> QED BY <2>1, <2>2, <2>3, <2>4 DEF InReplacement
<1> QED BY <1>3, <1>8, <1>9 DEF t, q

LEMMA SucceedQ == ASSUME IInv, QInv, Succeed PROVE QInv'
<1> DEFINE Q == pq[node]
           s == queued[node]
<1>1. /\ stack # <<>> /\ pc = "answer" /\ UNCHANGED <<memo, top>>
      /\ IF kid = 1 /\ HasSecond(pending)
         THEN AskKid(pending, 2)
         ELSE pc' = "select" /\ stack' = stack
  BY DEF Succeed
<1>2. node \in Nodes /\ Len(stack) # 0 /\ Len(stack) \in 1..Len(stack) /\ node = stack[Len(stack)].node
      /\ pending = stack[Len(stack)].pending /\ kid = stack[Len(stack)].kid
  BY <1>1, LastFrame
<1>3. HasAsked(Len(stack)) BY <1>1 DEF HasAsked
<1>4. pending \in Hyperedge /\ Based(memo, pending) /\ kid \in Kids(pending)
  BY <1>2, <1>3 DEF IInv, Frames
<1>5. InReplacement(Q, s, pending, kid) BY <1>2, <1>3 DEF QInv, Replacing
<1>6. /\ pq \in [Nodes -> SUBSET Hyperedge] /\ answer \in Hyperedge \cup {NONE}
      /\ queued \in [Nodes -> Seq(Keys)]
  BY DEF IInv, Types, QInv
<1>7. Q \in SUBSET Hyperedge /\ s \in Seq(Keys) /\ Once(Q, s) BY <1>2, <1>6 DEF QInv
<1>8. /\ queued' \in [Nodes -> Seq(Keys)]
      /\ \A x \in Nodes \ {node} : pq'[x] = pq[x] /\ queued'[x] = queued[x]
      /\ Once(pq'[node], queued'[node])
      /\ kid = 1 /\ HasSecond(pending) => InReplacement(pq'[node], queued'[node], pending, 2)
  <2>1. CASE answer = NONE
    <3>1. pq' = pq /\ queued' = queued BY <2>1 DEF Succeed
    <3>2. ASSUME kid = 1, HasSecond(pending) PROVE InReplacement(Q, s, pending, 2)
      BY <1>5, <3>2 DEF InReplacement, HasSecond
    <3> QED BY <1>6, <1>7, <3>1, <3>2
  <2>2. CASE answer # NONE
    <3> DEFINE g == Successor(pending, kid, answer)
    <3>1. /\ pq' = [pq EXCEPT ![node] = @ \cup {g}]
          /\ queued' = [queued EXCEPT ![node] = Append(@, Key(g))]
      BY <2>2 DEF Succeed, Key
    <3>2. Holds(memo, pending.edge.kids[kid], pending.bp[kid] + 1)
      BY <1>1, <1>2, <2>2 DEF IInv, Control, WantedNode, WantedN
    <3>3. g \in Hyperedge BY <1>4, <1>6, <2>2, <3>2, SuccessorOK
    <3>4. Key(g) = Advanced(Key(pending), kid) BY <1>4, SuccessorKey
    <3> HIDE DEF g, Q, s
    <3>5. /\ Append(s, Key(g)) \in Seq(Keys)
          /\ Once(Q \cup {g}, Append(s, Key(g)))
          /\ kid = 1 /\ HasSecond(pending) =>
               InReplacement(Q \cup {g}, Append(s, Key(g)), pending, 2)
      BY <1>4, <1>5, <1>7, <3>3, <3>4, AddedOnce DEF Based
    <3>6. pq'[node] = Q \cup {g} /\ queued'[node] = Append(s, Key(g))
      BY <1>2, <1>6, <3>1 DEF Q, s
    <3>7. queued' \in [Nodes -> Seq(Keys)] BY <1>2, <1>6, <3>1, <3>5 DEF s
    <3>8. \A x \in Nodes \ {node} : pq'[x] = pq[x] /\ queued'[x] = queued[x]
      BY <1>6, <3>1
    <3> QED BY <3>5, <3>6, <3>7, <3>8
  <2> QED BY <2>1, <2>2
<1>9. \/ pc' = "select" /\ stack' = stack
      \/ \E h \in Hyperedge : \E c \in {1, 2} :
           AskKid(h, c) /\ InReplacement(pq'[node], queued'[node], h, c)
  BY <1>1, <1>4, <1>8
<1> QED BY <1>1, <1>8, <1>9, WorkQ

LEMMA InductiveQ == IInv /\ QInv /\ [Next]_vars => QInv'
<1> SUFFICES ASSUME IInv, QInv, [Next]_vars PROVE QInv' OBVIOUS
<1>1. CASE Enumerate BY <1>1, EnumerateQ
<1>2. CASE Recall BY <1>2, RecallQ
<1>3. CASE Extend BY <1>3, ExtendQ
<1>4. CASE Pop BY <1>4, PopQ
<1>5. CASE Succeed BY <1>5, SucceedQ
<1>6. CASE Select BY <1>6, SelectQ
<1>7. CASE Visit BY <1>7, VisitQ
<1>8. CASE UNCHANGED vars BY <1>8, StutterQ
<1> QED BY <1>1, <1>2, <1>3, <1>4, <1>5, <1>6, <1>7, <1>8 DEF Next, get_best

LEMMA InvariantQ == Spec => []QInv
BY InitQ, InductiveQ, Invariant, PTL DEF Spec

(* "one path to any (a, b)": no hyperedge comes into a node's queue twice with
   the same back pointers, whichever of its kids were asked first and however
   often the enumeration was begun again. *)
THEOREM QueuedOnce == Spec => []OnePath
<1>1. QInv => OnePath
  <2> SUFFICES ASSUME QInv, NEW x \in Nodes,
                      NEW a \in 1..Len(queued[x]), NEW b \in 1..Len(queued[x]),
                      queued[x][a] = queued[x][b]
               PROVE  a = b
    BY DEF OnePath
  <2> QED BY DEF QInv, Once
<1> QED BY <1>1, InvariantQ, PTL

-----------------------------------------------------------------------------
(* The order of the lists *)

Derived(m) == {j \in 1..Len(m) : m[j] \in Hyperedge}

Sorted(m) == \A a, b \in Derived(m) : a < b => m[a].cost <= m[b].cost
AllDiffer(m) == \A a, b \in Derived(m) : Key(m[a]) = Key(m[b]) => a = b
Taken(m, s) == \A a \in Derived(m) : Known(s, Key(m[a]))
(* what is in the queue Q costs at least what is listed, and is not listed yet *)
Ahead(m, Q) == \A a \in Derived(m) : \A h \in Q : m[a].cost <= h.cost
Fresh(m, Q) == \A a \in Derived(m) : \A h \in Q : Key(h) # Key(m[a])

Lists(x) ==
  /\ Sorted(memo[x]) /\ AllDiffer(memo[x]) /\ Taken(memo[x], queued[x])
  /\ Ahead(memo[x], pq[x])
  /\ \/ Fresh(memo[x], pq[x])
     \/ /\ Fresh(memo[x], pq[x] \ {top[x]})
        /\ Last(memo[x]) \in Hyperedge \/ (pc = "loop" /\ x = node)

PendingAhead ==
  \A a \in 1..Len(stack) : HasAsked(a) => Ahead(memo[stack[a].node], {stack[a].pending})

LInv == (\A x \in Nodes : Lists(x)) /\ PendingAhead

(* the lists in the order of their costs, and no hyperedge with the same back pointers twice *)
InOrder ==
  \A x \in Nodes : \A a, b \in Listed(x) :
    a < b => /\ memo[x][a].cost <= memo[x][b].cost
             /\ <<memo[x][a].edge, memo[x][a].bp>> # <<memo[x][b].edge, memo[x][b].bp>>

LEMMA ListedIsDerived ==
  ASSUME NEW m \in Seq(Entry)
  PROVE  /\ Derived(m) = {j \in 1..Len(m) : IsDerivation(m[j])}
         /\ \A j \in Derived(m) : m[j] \in Hyperedge /\ m[j].cost \in Int /\ j \in Nat
<1>1. \A j \in 1..Len(m) : m[j] \in Entry /\ j \in Nat OBVIOUS
<1>2. Derived(m) = {j \in 1..Len(m) : IsDerivation(m[j])}
  BY <1>1, NoDerivation DEF Derived, Entry
<1> QED BY <1>1, <1>2, HyperedgeFields DEF Derived

LEMMA InitL == Init => LInv
<1> SUFFICES ASSUME Init PROVE LInv OBVIOUS
<1>1. IInv /\ QInv /\ stack = <<>> BY InitOK, InitQ DEF Init
<1>2. ASSUME NEW x \in Nodes PROVE Lists(x)
  <2>1. memo[x] = <<top[x]>> /\ top[x] \in BestOf(pq[x]) BY DEF Init
  <2>2. top[x] \in Hyperedge BY <1>1 DEF IInv, Types
  <2>3. Derived(memo[x]) = {1} /\ memo[x][1] = top[x] /\ Last(memo[x]) = top[x]
    BY <2>1, <2>2 DEF Derived, Last
  <2>4. Once(pq[x], queued[x]) BY <1>1 DEF QInv
  <2>5. Sorted(memo[x]) /\ AllDiffer(memo[x]) BY <2>3 DEF Sorted, AllDiffer
  <2>6. Taken(memo[x], queued[x]) BY <2>1, <2>3, <2>4 DEF Taken, Once, BestOf
  <2>7. Ahead(memo[x], pq[x]) BY <2>1, <2>3 DEF Ahead, BestOf
  <2>8. Fresh(memo[x], pq[x] \ {top[x]}) BY <2>1, <2>3, <2>4 DEF Fresh, Once, BestOf
  <2> QED BY <2>2, <2>3, <2>5, <2>6, <2>7, <2>8 DEF Lists
<1>3. PendingAhead BY <1>1 DEF PendingAhead
<1> QED BY <1>2, <1>3 DEF LInv

(* the same derivations in the same places *)
Same(m, n) == Derived(n) = Derived(m) /\ \A a \in Derived(m) : n[a] = m[a]

LEMMA SameLists ==
  ASSUME NEW m, NEW n, Same(m, n), NEW Q, NEW s
  PROVE  /\ Sorted(m) => Sorted(n)
         /\ AllDiffer(m) => AllDiffer(n)
         /\ Taken(m, s) => Taken(n, s)
         /\ Ahead(m, Q) => Ahead(n, Q)
         /\ Fresh(m, Q) => Fresh(n, Q)
BY DEF Same, Sorted, AllDiffer, Taken, Ahead, Fresh

LEMMA QuietL ==
  ASSUME IInv, LInv, UNCHANGED <<pq, queued, top>>,
         \A x \in Nodes : Same(memo[x], memo'[x]),
         stack' = stack \/ stack' = <<>>,
         \A a \in 1..Len(stack) : stack' = stack /\ HasAsked(a)' => HasAsked(a),
         (pc' = pc /\ stack' = stack) \/ pc # "loop",
         \A x \in Nodes : Last(memo[x]) \in Hyperedge => Last(memo'[x]) \in Hyperedge
  PROVE  LInv'
<1>1. ASSUME NEW x \in Nodes PROVE Lists(x)'
  <2>1. Lists(x) /\ Same(memo[x], memo'[x]) BY DEF LInv
  <2>2. pc = "loop" /\ x = node => pc' = "loop" /\ x = node' BY DEF node, Last
  <2> QED BY <2>1, <2>2, SameLists DEF Lists
<1>2. PendingAhead'
  <2>1. CASE stack' = <<>> BY <2>1 DEF PendingAhead
  <2>2. CASE stack' = stack
    <3> SUFFICES ASSUME NEW a \in 1..Len(stack), HasAsked(a)'
                 PROVE  Ahead(memo'[stack[a].node], {stack[a].pending})
      BY <2>2 DEF PendingAhead
    <3>1. stack[a].node \in Nodes BY FrameFields DEF IInv
    <3>2. Ahead(memo[stack[a].node], {stack[a].pending}) BY <2>2 DEF LInv, PendingAhead
    <3>3. Same(memo[stack[a].node], memo'[stack[a].node]) BY <3>1
    <3> QED BY <3>2, <3>3, SameLists
  <2> QED BY <2>1, <2>2
<1> QED BY <1>1, <1>2 DEF LInv

LEMMA RecallL == ASSUME IInv, LInv, Recall PROVE LInv'
<1> USE DEF Recall
<1>1. pc = "ask" /\ pc' \in {"answer", "cycle"} /\ UNCHANGED <<pq, queued, top>> OBVIOUS
<1>2. stack' = stack \/ stack' = <<>> OBVIOUS
<1>3. \/ memo' = memo
      \/ /\ memo' = [memo EXCEPT ![asked.node] = [@ EXCEPT ![asked.n + 1] = NONE]]
         /\ memo[asked.node][asked.n + 1] = PENDING
  OBVIOUS
<1> HIDE DEF Recall
<1>4. ASSUME NEW x \in Nodes
      PROVE  /\ Same(memo[x], memo'[x])
             /\ Last(memo'[x]) \in Hyperedge <=> Last(memo[x]) \in Hyperedge
  <2>1. CASE memo' = memo BY <2>1 DEF Same
  <2>2. CASE /\ memo' = [memo EXCEPT ![asked.node] = [@ EXCEPT ![asked.n + 1] = NONE]]
             /\ memo[asked.node][asked.n + 1] = PENDING
    <3>1. memo \in [Nodes -> Seq(Entry)] BY DEF IInv, Types
    <3> DEFINE s == memo[x]
               u == memo'[x]
    <3>2. s \in Seq(Entry) /\ Len(s) \in 1..Len(s) BY <3>1 DEF IInv, AllBased
    <3>3. u = s \/ (u = [s EXCEPT ![asked.n + 1] = NONE] /\ s[asked.n + 1] = PENDING)
      BY <2>2, <3>1
    <3> HIDE DEF s, u
    <3>4. /\ Len(u) = Len(s)
          /\ \A j \in 1..Len(s) : u[j] = s[j] \/ (u[j] = NONE /\ s[j] = PENDING)
      BY <3>2, <3>3
    <3>5. Same(s, u) BY <3>4, NoDerivation DEF Same, Derived
    <3>6. Last(u) \in Hyperedge <=> Last(s) \in Hyperedge BY <3>2, <3>4, NoDerivation DEF Last
    <3> QED BY <3>5, <3>6 DEF s, u
  <2> QED BY <1>3, <2>1, <2>2
<1>5. \A a : HasAsked(a) BY <1>1 DEF HasAsked
<1> QED BY <1>1, <1>2, <1>4, <1>5, QuietL

LEMMA EnumerateL == ASSUME IInv, LInv, Enumerate PROVE LInv'
<1>1. /\ pc # "loop" /\ stack = <<>> /\ stack' = stack
      /\ UNCHANGED <<pq, queued, top, memo>>
  BY DEF Enumerate, IInv, Control
<1> QED BY <1>1, QuietL DEF Same

LEMMA VisitL == ASSUME IInv, LInv, Visit PROVE LInv'
<1>1. /\ pc # "loop" /\ stack = <<>> /\ stack' = stack
      /\ UNCHANGED <<pq, queued, top, memo>>
  BY DEF Visit
<1> QED BY <1>1, QuietL DEF Same

LEMMA StutterL == ASSUME IInv, LInv, UNCHANGED vars PROVE LInv'
<1>1. UNCHANGED <<pq, queued, top, memo, stack, pc>> BY DEF vars
<1> QED BY <1>1, QuietL DEF HasAsked, Same

(* a node is asked for more: its last best is still in its queue *)
LEMMA ExtendL == ASSUME IInv, QInv, LInv, Extend PROVE LInv'
<1> DEFINE x == asked.node
           f == [node |-> x, n |-> asked.n, pending |-> NONE, kid |-> 0]
           l == Len(stack)
<1>1. /\ pc = "ask" /\ pc' = "loop" /\ asked.n >= Len(memo[x])
      /\ memo' = [memo EXCEPT ![x] = Append(@, PENDING)]
      /\ stack' = Append(stack, f)
      /\ UNCHANGED <<pq, queued, top>>
  BY DEF Extend
<1>2. x \in Nodes /\ memo[x] \in Seq(Entry) BY <1>1, AskedFollows
<1>3. memo \in [Nodes -> Seq(Entry)] /\ stack \in Seq(Waiting) /\ f \in Waiting
  BY <1>2 DEF IInv, Types, Waiting
<1>4. f.node = x /\ PENDING \in Entry BY DEF Entry
<1> HIDE DEF f
<1>5. /\ Len(stack') = l + 1 /\ l \in Nat /\ stack'[l + 1] = f
      /\ \A a \in 1..l : stack'[a] = stack[a]
  BY <1>1, <1>3, Longer
<1>6. node' = x BY <1>4, <1>5 DEF node, Last
<1>7. \A y \in Nodes \ {x} : memo'[y] = memo[y] BY <1>1, <1>3
<1>8. Same(memo[x], memo'[x])
  <2> DEFINE s == memo[x]
             u == memo'[x]
  <2>1. u = Append(s, PENDING) BY <1>1, <1>2, <1>3
  <2>2. s \in Seq(Entry) BY <1>2
  <2> HIDE DEF s, u
  <2>3. /\ Len(u) = Len(s) + 1 /\ Len(s) \in Nat /\ u[Len(s) + 1] = PENDING
        /\ \A j \in 1..Len(s) : u[j] = s[j]
    BY <1>4, <2>1, <2>2, Longer
  <2>4. Same(s, u) BY <2>3, NoDerivation DEF Same, Derived
  <2> QED BY <2>4 DEF s, u
<1>9. \A y \in Nodes : Same(memo[y], memo'[y]) BY <1>7, <1>8 DEF Same
<1>10. ASSUME NEW y \in Nodes PROVE Lists(y)'
  <2>1. Lists(y) BY DEF LInv
  <2>2. y # x => Last(memo'[y]) = Last(memo[y]) BY <1>7
  <2>3. Sorted(memo'[y]) /\ AllDiffer(memo'[y]) /\ Taken(memo'[y], queued[y])
        /\ Ahead(memo'[y], pq[y])
    BY <1>9, <2>1, SameLists DEF Lists
  <2>4. \/ Fresh(memo'[y], pq[y])
        \/ /\ Fresh(memo'[y], pq[y] \ {top[y]})
           /\ Last(memo'[y]) \in Hyperedge \/ y = x
    BY <1>1, <1>9, <2>1, <2>2, SameLists DEF Lists
  <2> QED BY <1>1, <1>6, <2>3, <2>4 DEF Lists
<1>11. PendingAhead'
  <2> SUFFICES ASSUME NEW a \in 1..l + 1, HasAsked(a)'
               PROVE  Ahead(memo'[stack'[a].node], {stack'[a].pending})
    BY <1>5 DEF PendingAhead
  <2>1. a \in 1..l /\ stack'[a] = stack[a] BY <1>1, <1>5 DEF HasAsked
  <2>2. HasAsked(a) BY <1>1 DEF HasAsked
  <2>3. Ahead(memo[stack[a].node], {stack[a].pending}) BY <2>1, <2>2 DEF LInv, PendingAhead
  <2>4. stack[a].node \in Nodes BY <2>1, FrameFields DEF IInv
  <2>5. Same(memo[stack[a].node], memo'[stack[a].node]) BY <1>9, <2>4
  <2>6. Ahead(memo'[stack[a].node], {stack[a].pending}) BY <2>3, <2>5, SameLists
  <2> QED BY <2>1, <2>6
<1> QED BY <1>10, <1>11 DEF LInv

(* while a frame works on a node, nothing of its queue but a rejected top is listed *)
LEMMA FreshAtWork ==
  ASSUME IInv, LInv, stack # <<>>
  PROVE  Fresh(memo[node], pq[node] \ {top[node]}) /\ (pc # "loop" => Fresh(memo[node], pq[node]))
<1>1. node \in Nodes /\ Last(memo[node]) \notin Hyperedge BY LastFrame, AtWork
<1>2. Lists(node) BY <1>1 DEF LInv
<1> QED BY <1>1, <1>2 DEF Lists, Fresh

(* what is returned is one of the best of the queue *)
LEMMA ListedNext ==
  ASSUME NEW m \in Seq(Entry), m # <<>>, Last(m) \notin Hyperedge,
         NEW Q \in SUBSET Hyperedge, NEW s, Once(Q, s),
         Sorted(m), AllDiffer(m), Taken(m, s), Ahead(m, Q), Fresh(m, Q),
         NEW h \in BestOf(Q)
  PROVE  LET n == SetLast(m, h)
         IN  /\ Sorted(n) /\ AllDiffer(n) /\ Taken(n, s) /\ Ahead(n, Q)
             /\ Fresh(n, Q \ {h}) /\ Last(n) = h
<1> DEFINE n == SetLast(m, h)
           l == Len(m)
<1>1. h \in Q /\ h \in Hyperedge /\ \A g \in Q : h.cost <= g.cost BY DEF BestOf
<1>2. l \in 1..l /\ l \in Nat BY LastIn
<1>3. Len(n) = l /\ \A j \in 1..l : n[j] = IF j = l THEN h ELSE m[j]
  BY <1>2 DEF SetLast
<1> HIDE DEF n
<1>4. l \notin Derived(m) BY DEF Derived, Last
<1>5. /\ Derived(n) = Derived(m) \cup {l} /\ n[l] = h
      /\ \A a \in Derived(m) : n[a] = m[a] /\ a \in 1..l /\ a # l /\ a < l
  BY <1>1, <1>2, <1>3, <1>4 DEF Derived
<1>6. \A a \in Derived(m) : m[a].cost <= h.cost /\ Key(h) # Key(m[a])
  BY <1>1 DEF Ahead, Fresh
<1>7. h.cost \in Int /\ h.cost <= h.cost BY <1>1, HyperedgeFields
<1>8. Sorted(n)
  <2> SUFFICES ASSUME NEW a \in Derived(n), NEW b \in Derived(n), a < b
               PROVE  n[a].cost <= n[b].cost
    BY DEF Sorted
  <2>1. a # l BY <1>2, <1>5
  <2>2. a \in Derived(m) BY <1>5, <2>1
  <2> QED BY <1>5, <1>6, <2>2 DEF Sorted
<1>9. AllDiffer(n) BY <1>5, <1>6 DEF AllDiffer
<1>10. Taken(n, s) BY <1>1, <1>5 DEF Taken, Once
<1>11. Ahead(n, Q) BY <1>1, <1>5 DEF Ahead
<1>12. Fresh(n, Q \ {h}) BY <1>1, <1>5 DEF Fresh, Once
<1>13. Last(n) = h BY <1>2, <1>3 DEF Last
<1> QED BY <1>8, <1>9, <1>10, <1>11, <1>12, <1>13 DEF n

(* a frame ends: of the lists only its node's changes *)
LEMMA ReturnL ==
  ASSUME IInv, LInv, stack # <<>>, UNCHANGED <<pq, queued>>,
         \A y \in Nodes \ {node} : top'[y] = top[y],
         NEW d, Return(d),
         LET n == SetLast(memo[node], d)
         IN  /\ Sorted(n) /\ AllDiffer(n) /\ Taken(n, queued[node]) /\ Ahead(n, pq[node])
             /\ \/ Fresh(n, pq[node])
                \/ Fresh(n, pq[node] \ {top'[node]}) /\ Last(n) \in Hyperedge
  PROVE  LInv'
<1> DEFINE l == Len(stack)
           n == SetLast(memo[node], d)
<1>1. l \in 1..l /\ l \in Nat \ {0} /\ node \in Nodes BY LastFrame
<1>2. memo \in [Nodes -> Seq(Entry)] /\ stack \in Seq(Waiting) BY DEF IInv, Types
<1>3. /\ memo' = [memo EXCEPT ![node] = SetLast(@, d)]
      /\ stack' = SubSeq(stack, 1, l - 1) /\ pc' = "answer"
  BY DEF Return
<1>4. Len(stack') = l - 1 /\ \A a \in 1..l - 1 : stack'[a] = stack[a]
  BY <1>2, <1>3, Shorter
<1>5. memo'[node] = n /\ \A y \in Nodes \ {node} : memo'[y] = memo[y] BY <1>1, <1>2, <1>3
<1> HIDE DEF n
<1>6. ASSUME NEW y \in Nodes PROVE Lists(y)'
  <2>1. CASE y = node BY <1>5, <2>1 DEF n, Lists
  <2>2. CASE y # node
    <3>1. Lists(y) BY DEF LInv
    <3> QED BY <1>5, <2>2, <3>1 DEF Lists
  <2> QED BY <2>1, <2>2
<1>7. PendingAhead'
  <2> SUFFICES ASSUME NEW a \in 1..l - 1
               PROVE  Ahead(memo'[stack'[a].node], {stack'[a].pending})
    BY <1>4 DEF PendingAhead
  <2>1. a \in 1..l /\ a < l /\ a # l /\ stack'[a] = stack[a] BY <1>1, <1>4
  <2>2. HasAsked(a) BY <2>1 DEF HasAsked
  <2>3. stack[a].node \in Nodes \ {node} BY <2>1, AtWork, FrameFields DEF IInv
  <2>4. Ahead(memo[stack[a].node], {stack[a].pending}) BY <2>1, <2>2 DEF LInv, PendingAhead
  <2> QED BY <1>5, <2>1, <2>3, <2>4
<1> QED BY <1>6, <1>7 DEF LInv

(* there are no more *)
LEMMA ReturnNoneL ==
  ASSUME IInv, LInv, stack # <<>>, UNCHANGED <<pq, queued, top>>, pq[node] = {}, Return(NONE)
  PROVE  LInv'
<1> DEFINE m == memo[node]
           n == SetLast(m, NONE)
<1>1. node \in Nodes /\ Last(m) \notin Hyperedge BY LastFrame, AtWork
<1>2. m \in Seq(Entry) /\ Len(m) \in 1..Len(m) BY <1>1 DEF IInv, Types, AllBased
<1>3. Lists(node) BY <1>1 DEF LInv
<1> HIDE DEF m
<1>4. Len(n) = Len(m) /\ \A j \in 1..Len(m) : n[j] = IF j = Len(m) THEN NONE ELSE m[j]
  BY <1>2 DEF SetLast
<1>5. Same(m, n)
  <2> HIDE DEF n
  <2> QED BY <1>1, <1>2, <1>4, NoDerivation DEF Same, Derived, Last
<1>6. Sorted(n) /\ AllDiffer(n) /\ Taken(n, queued[node]) /\ Ahead(n, pq[node])
  BY <1>3, <1>5, SameLists DEF Lists, m
<1>7. Fresh(n, pq[node]) BY DEF Fresh
<1> HIDE DEF n
<1> QED BY <1>6, <1>7, ReturnL DEF n, m

LEMMA SelectL == ASSUME IInv, QInv, LInv, Select PROVE LInv'
<1>1. stack # <<>> /\ pc = "select" /\ UNCHANGED <<pq, queued>>
  BY DEF IInv, Control, Select
<1>2. node \in Nodes BY <1>1, LastFrame
<1>3. pq \in [Nodes -> SUBSET Hyperedge] /\ top \in [Nodes -> Hyperedge]
      /\ memo \in [Nodes -> Seq(Entry)]
  BY DEF IInv, Types
<1>4. CASE pq[node] = {}
  <2>1. Return(NONE) /\ UNCHANGED top BY <1>4 DEF Select
  <2> QED BY <1>1, <1>4, <2>1, ReturnNoneL
<1>5. CASE pq[node] # {}
  <2>1. PICK h \in BestOf(pq[node]) :
          /\ top' = [top EXCEPT ![node] = h]
          /\ IF permit(projecteds[node], h)
             THEN Return(h)
             ELSE pc' = "loop" /\ UNCHANGED <<memo, answer, stack>>
    BY <1>5 DEF Select
  <2>2. h \in Hyperedge BY <1>2, <1>3 DEF BestOf
  <2>3. top'[node] = h /\ \A y \in Nodes \ {node} : top'[y] = top[y] BY <1>2, <1>3, <2>1
  <2>4. Lists(node) /\ Fresh(memo[node], pq[node]) BY <1>1, <1>2, FreshAtWork DEF LInv
  <2>5. CASE permit(projecteds[node], h)
    <3> DEFINE n == SetLast(memo[node], h)
    <3>1. Return(h) BY <2>1, <2>5
    <3>2. memo[node] \in Seq(Entry) /\ memo[node] # <<>> /\ Last(memo[node]) \notin Hyperedge
      BY <1>1, <1>2, <1>3, AtWork DEF IInv, AllBased
    <3>3. Once(pq[node], queued[node]) /\ pq[node] \in SUBSET Hyperedge
      BY <1>2, <1>3 DEF QInv
    <3>4. /\ Sorted(n) /\ AllDiffer(n) /\ Taken(n, queued[node]) /\ Ahead(n, pq[node])
          /\ Fresh(n, pq[node] \ {h}) /\ Last(n) = h
      BY <2>4, <3>2, <3>3, ListedNext DEF Lists
    <3> HIDE DEF n
    <3> QED BY <1>1, <2>2, <2>3, <3>1, <3>4, ReturnL DEF n
  <2>6. CASE ~permit(projecteds[node], h)
    <3>1. pc' = "loop" /\ UNCHANGED <<memo, stack>> BY <2>1, <2>6
    <3>2. ASSUME NEW y \in Nodes PROVE Lists(y)'
      <4>1. CASE y = node BY <1>1, <2>4, <3>1, <4>1 DEF Lists
      <4>2. CASE y # node
        <5>1. Lists(y) BY DEF LInv
        <5> QED BY <1>1, <2>3, <3>1, <4>2, <5>1 DEF Lists
      <4> QED BY <4>1, <4>2
    <3>3. PendingAhead' BY <1>1, <3>1 DEF LInv, PendingAhead, HasAsked
    <3> QED BY <3>2, <3>3 DEF LInv
  <2> QED BY <2>5, <2>6
<1> QED BY <1>4, <1>5

(* the frame at work asks for a kid of h, or is done with its candidates *)
LEMMA WorkL ==
  ASSUME IInv, LInv, stack # <<>>, UNCHANGED <<memo, top>>,
         \A x \in Nodes \ {node} : pq'[x] = pq[x] /\ queued'[x] = queued[x],
         Taken(memo[node], queued'[node]),
         Ahead(memo[node], pq'[node]), Fresh(memo[node], pq'[node]),
         \/ pc' = "select" /\ stack' = stack
         \/ \E h \in Hyperedge : \E c \in {1, 2} : AskKid(h, c) /\ Ahead(memo[node], {h})
  PROVE  LInv'
<1> DEFINE l == Len(stack)
<1>1. /\ l \in 1..l /\ l \in Nat \ {0} /\ node = stack[l].node /\ node \in Nodes
      /\ Last(stack) = stack[l] /\ stack[l] \in Waiting /\ stack \in Seq(Waiting)
  BY LastFrame DEF IInv, Types
<1>2. ASSUME NEW x \in Nodes PROVE Lists(x)'
  <2>1. Lists(x) BY DEF LInv
  <2>2. CASE x = node BY <2>1, <2>2 DEF Lists
  <2>3. CASE x # node BY <2>1, <2>3 DEF Lists
  <2> QED BY <2>2, <2>3
<1>3. ASSUME NEW a \in 1..l, a # l PROVE Ahead(memo[stack[a].node], {stack[a].pending})
  <2>1. HasAsked(a) BY <1>1, <1>3 DEF HasAsked
  <2> QED BY <2>1 DEF LInv, PendingAhead
<1>4. PendingAhead'
  <2>1. CASE pc' = "select" /\ stack' = stack
    <3>1. \A a \in 1..l : HasAsked(a)' => a # l BY <1>1, <2>1 DEF HasAsked
    <3> QED BY <1>3, <2>1, <3>1 DEF PendingAhead
  <2>2. ASSUME NEW h \in Hyperedge, NEW c \in {1, 2}, AskKid(h, c), Ahead(memo[node], {h})
        PROVE  PendingAhead'
    <3> DEFINE f == [stack[l] EXCEPT !.pending = h, !.kid = c]
    <3>1. stack' = [stack EXCEPT ![l] = f] BY <1>1, <2>2 DEF AskKid, SetLast
    <3>2. f.node = node /\ f.pending = h BY <1>1 DEF Waiting
    <3> HIDE DEF f
    <3>3. Len(stack') = l /\ \A a \in 1..l : stack'[a] = IF a = l THEN f ELSE stack[a]
      BY <1>1, <3>1
    <3> SUFFICES ASSUME NEW a \in 1..l
                 PROVE  Ahead(memo'[stack'[a].node], {stack'[a].pending})
      BY <3>3 DEF PendingAhead
    <3> QED BY <1>3, <2>2, <3>2, <3>3
  <2> QED BY <2>1, <2>2
<1> QED BY <1>2, <1>4 DEF LInv

LEMMA PopL == ASSUME IInv, QInv, LInv, Pop PROVE LInv'
<1> DEFINE h == top[node]
<1>1. stack # <<>> /\ pc = "loop" /\ UNCHANGED <<queued, top>> BY DEF Pop, IInv, Control
<1>2. node \in Nodes BY <1>1, LastFrame
<1>3. pq \in [Nodes -> SUBSET Hyperedge] BY DEF IInv, Types
<1>4. CASE pq[node] = {}
  <2>1. Return(NONE) /\ UNCHANGED pq BY <1>4 DEF Pop
  <2> QED BY <1>1, <1>4, <2>1, ReturnNoneL
<1>5. CASE pq[node] # {}
  <2>1. /\ pq' = [pq EXCEPT ![node] = @ \ {h}] /\ memo' = memo
        /\ IF 1 \in Kids(h) THEN AskKid(h, 1) ELSE pc' = "select" /\ stack' = stack
    BY <1>5 DEF Pop
  <2>2. h \in pq[node] /\ h \in Hyperedge BY <1>1, <1>2, <1>3 DEF QInv, TopQueued
  <2>3. pq'[node] = pq[node] \ {h} /\ \A x \in Nodes \ {node} : pq'[x] = pq[x]
    BY <1>2, <1>3, <2>1
  <2>4. Lists(node) /\ Fresh(memo[node], pq'[node]) BY <1>1, <1>2, <2>3, FreshAtWork DEF LInv
  <2>5. Ahead(memo[node], pq'[node]) /\ Ahead(memo[node], {h}) /\ Taken(memo[node], queued[node])
    BY <2>2, <2>3, <2>4 DEF Lists, Ahead
  <2> HIDE DEF h
  <2> QED BY <1>1, <2>1, <2>2, <2>3, <2>4, <2>5, WorkL
<1> QED BY <1>4, <1>5

(* a successor costs no less: the kid's list is in order *)
LEMMA SuccessorCost ==
  ASSUME IInv, NEW h \in Hyperedge, Based(memo, h), NEW c \in Kids(h), NEW d \in Hyperedge,
         Holds(memo, h.edge.kids[c], h.bp[c] + 1),
         memo[h.edge.kids[c]][h.bp[c] + 2] = d,
         Sorted(memo[h.edge.kids[c]])
  PROVE  Successor(h, c, d).cost >= h.cost
<1> DEFINE m == memo[h.edge.kids[c]]
           was == m[h.bp[c] + 1]
<1>1. h.edge.kids[c] \in Nodes /\ h.bp[c] \in Nat BY HyperedgeFields DEF Based
<1>2. m \in Seq(Entry) BY <1>1 DEF IInv, Types
<1>3. h.bp[c] + 1 \in Derived(m) BY <1>2 DEF Based, Holds, Derived
<1>4. h.bp[c] + 2 \in Derived(m) BY SMTT(30), <1>1, <1>2 DEF Holds, Derived
<1>5. was.cost <= d.cost BY <1>1, <1>3, <1>4 DEF Sorted
<1>6. was.cost \in Int /\ d.cost \in Int /\ h.cost \in Int
  BY <1>2, <1>3, ListedIsDerived, HyperedgeFields
<1>7. Successor(h, c, d).cost = h.cost - was.cost + d.cost BY DEF Successor, Hyperedge
<1> HIDE DEF was
<1> QED BY <1>5, <1>6, <1>7

LEMMA SucceedL == ASSUME IInv, QInv, LInv, Succeed PROVE LInv'
<1> DEFINE m == memo[node]
<1>1. /\ stack # <<>> /\ pc = "answer" /\ UNCHANGED <<memo, top>>
      /\ IF kid = 1 /\ HasSecond(pending)
         THEN AskKid(pending, 2)
         ELSE pc' = "select" /\ stack' = stack
  BY DEF Succeed
<1>2. node \in Nodes /\ Len(stack) # 0 /\ Len(stack) \in 1..Len(stack)
      /\ node = stack[Len(stack)].node
      /\ pending = stack[Len(stack)].pending /\ kid = stack[Len(stack)].kid
  BY <1>1, LastFrame
<1>3. HasAsked(Len(stack)) BY <1>1 DEF HasAsked
<1>4. pending \in Hyperedge /\ Based(memo, pending) /\ kid \in Kids(pending)
  BY <1>2, <1>3 DEF IInv, Frames
<1>5. /\ pq \in [Nodes -> SUBSET Hyperedge] /\ answer \in Hyperedge \cup {NONE}
      /\ queued \in [Nodes -> Seq(Keys)] /\ m \in Seq(Entry)
  BY <1>2 DEF IInv, Types, QInv
<1>6. Lists(node) /\ Ahead(m, {pending}) BY <1>2, <1>3 DEF LInv, PendingAhead
<1>7. Fresh(m, pq[node]) BY <1>1, FreshAtWork
<1>8. /\ \A x \in Nodes \ {node} : pq'[x] = pq[x] /\ queued'[x] = queued[x]
      /\ Taken(m, queued'[node]) /\ Ahead(m, pq'[node]) /\ Fresh(m, pq'[node])
  <2>1. CASE answer = NONE
    <3>1. pq' = pq /\ queued' = queued BY <2>1 DEF Succeed
    <3> QED BY <1>6, <1>7, <3>1 DEF Lists
  <2>2. CASE answer # NONE
    <3> DEFINE g == Successor(pending, kid, answer)
               s == queued[node]
    <3>1. /\ pq' = [pq EXCEPT ![node] = @ \cup {g}]
          /\ queued' = [queued EXCEPT ![node] = Append(@, Key(g))]
      BY <2>2 DEF Succeed, Key
    <3>2. /\ Holds(memo, pending.edge.kids[kid], pending.bp[kid] + 1)
          /\ memo[pending.edge.kids[kid]][pending.bp[kid] + 1 + 1] = answer
      BY <1>1, <1>2, <2>2 DEF IInv, Control, WantedNode, WantedN
    <3>3. pending.edge.kids[kid] \in Nodes /\ pending.bp[kid] + 1 + 1 = pending.bp[kid] + 2
      BY <1>4, HyperedgeFields DEF Based
    <3>4. g \in Hyperedge BY <1>4, <1>5, <2>2, <3>2, SuccessorOK
    <3>5. Sorted(memo[pending.edge.kids[kid]]) BY <3>3 DEF LInv, Lists
    <3>6. g.cost >= pending.cost
      BY <1>4, <1>5, <2>2, <3>2, <3>3, <3>5, SuccessorCost
    <3>7. Key(g) = Advanced(Key(pending), kid) BY <1>4, SuccessorKey
    <3>8. InReplacement(pq[node], s, pending, kid) BY <1>2, <1>3 DEF QInv, Replacing
    <3>9. Key(g) \in Keys /\ ~Known(s, Key(g))
      <4>1. ~AtBest(Key(g))
        BY <1>4, <3>7, <3>8, KeyType, BeforeAdvanced DEF InReplacement, Based
      <4>2. Key(g) \notin Elements(s) BY <1>4, <3>7, <3>8 DEF InReplacement
      <4> QED BY <3>4, <4>1, <4>2, KeyType DEF Known
    <3> HIDE DEF g
    <3>10. pq'[node] = pq[node] \cup {g} /\ queued'[node] = Append(s, Key(g))
           /\ \A x \in Nodes \ {node} : pq'[x] = pq[x] /\ queued'[x] = queued[x]
      BY <1>2, <1>5, <3>1
    <3>11. s \in Seq(Keys) BY <1>2, <1>5
    <3>12. Taken(m, s) BY <1>6 DEF Lists
    <3> HIDE DEF s, m
    <3>13. Elements(s) \subseteq Elements(Append(s, Key(g)))
      BY <3>9, <3>11, Longer DEF Elements
    <3>14. Taken(m, Append(s, Key(g))) BY <3>12, <3>13 DEF Taken, Known
    <3>15. Fresh(m, pq[node] \cup {g}) BY <1>7, <3>9, <3>12 DEF Fresh, Taken
    <3>16. Ahead(m, pq[node] \cup {g})
      <4>1. ASSUME NEW a \in Derived(m) PROVE m[a].cost <= g.cost
        <5>1. m[a].cost \in Int /\ g.cost \in Int /\ pending.cost \in Int
          BY <1>4, <1>5, <3>4, ListedIsDerived, HyperedgeFields
        <5>2. m[a].cost <= pending.cost BY <1>6 DEF Ahead
        <5> QED BY <3>6, <5>1, <5>2
      <4> QED BY <1>6, <4>1 DEF Ahead, Lists, m
    <3> QED BY <3>10, <3>14, <3>15, <3>16
  <2> QED BY <2>1, <2>2
<1>9. \/ pc' = "select" /\ stack' = stack
      \/ \E h \in Hyperedge : \E c \in {1, 2} : AskKid(h, c) /\ Ahead(m, {h})
  BY <1>1, <1>4, <1>6
<1> HIDE DEF m
<1> QED BY <1>1, <1>8, <1>9, WorkL DEF m

LEMMA InductiveL == IInv /\ QInv /\ LInv /\ [Next]_vars => LInv'
<1> SUFFICES ASSUME IInv, QInv, LInv, [Next]_vars PROVE LInv' OBVIOUS
<1>1. CASE Enumerate BY <1>1, EnumerateL
<1>2. CASE Recall BY <1>2, RecallL
<1>3. CASE Extend BY <1>3, ExtendL
<1>4. CASE Pop BY <1>4, PopL
<1>5. CASE Succeed BY <1>5, SucceedL
<1>6. CASE Select BY <1>6, SelectL
<1>7. CASE Visit BY <1>7, VisitL
<1>8. CASE UNCHANGED vars BY <1>8, StutterL
<1> QED BY <1>1, <1>2, <1>3, <1>4, <1>5, <1>6, <1>7, <1>8 DEF Next, get_best

(* The list of every node comes best first and repeats no choice of edge and
   back pointers, in any forest, whatever best the caller gave when it added
   the edges, around free cycles and after an exception too: the queue holds
   nothing better than what is listed, and a successor never costs less. *)
THEOREM ListsInOrder == Spec => []InOrder
<1>1. IInv /\ LInv => InOrder
  <2> SUFFICES ASSUME IInv, LInv, NEW x \in Nodes,
                      NEW a \in Listed(x), NEW b \in Listed(x), a < b
               PROVE  /\ memo[x][a].cost <= memo[x][b].cost
                      /\ Key(memo[x][a]) # Key(memo[x][b])
    BY DEF InOrder, Key
  <2>1. memo[x] \in Seq(Entry) BY DEF IInv, Types
  <2>2. Listed(x) = Derived(memo[x]) BY <2>1, ListedIsDerived DEF Listed
  <2>3. a \in Nat /\ b \in Nat BY <2>1, <2>2, ListedIsDerived
  <2>4. Sorted(memo[x]) /\ AllDiffer(memo[x]) BY DEF LInv, Lists
  <2> QED BY <2>2, <2>3, <2>4 DEF Sorted, AllDiffer
<1>2. Spec => []LInv BY InitL, InductiveL, Invariant, InvariantQ, PTL DEF Spec
<1> QED BY <1>1, <1>2, Invariant, PTL
=============================================================================
