------------------------------ MODULE LazyKBest ------------------------------
(***************************************************************************)
(* graehl/shared/lazy_forest_kbest.hpp: the k best derivations of a        *)
(* forest.  A node keeps a list of its best derivations so far (memo) and  *)
(* a heap of candidates (pq); the next best is computed only when asked    *)
(* for, and asks the nodes below for theirs.                               *)
(*                                                                         *)
(* The recursion of get_best is a stack of frames.  A derivation is its    *)
(* hyperedge with its cost, and the words the duplicate filter projects it *)
(* to.  Of the heap the model keeps what it promises: on top is one of the *)
(* best, and it stays there until popped.                                  *)
(***************************************************************************)
EXTENDS Integers, Sequences, FiniteSets

CONSTANTS
  Nodes,        \* the nodes of the forests (lazy_forest)
  Root,         \* the node that is asked
  Words,        \* what derivations are made of, for the filter
  Forests,      \* forests a caller may build
  Ks,           \* how many derivations a caller may ask for
  CostBound,    \* the reference knows the trees up to this cost
  DepthBound,   \* and no deeper than this
  NONE, PENDING

(* An edge as added, with at most two kids, and with what was chosen of each. *)
Edge == [id : Nat, kids : Seq(Nodes), cost : Nat, words : SUBSET Words]
Hyperedge == [edge : Edge, bp : Seq(Nat), cost : Int, words : SUBSET Words]

(* best: what the caller took for the best of each node when it added edges *)
IsForest(f) ==
  /\ f.edges \in [Nodes -> SUBSET Edge]
  /\ \A x \in Nodes : f.edges[x] # {} /\ \A e \in f.edges[x] : Len(e.kids) <= 2
  /\ f.best \in [Nodes -> [cost : Nat, words : SUBSET Words]]
  /\ f.throw_on_cycle \in BOOLEAN
  /\ f.maxreps \in Nat

ASSUME ForestsAssumption == \A f \in Forests : IsForest(f)
ASSUME RootAssumption == Root \in Nodes /\ Ks \subseteq Nat \ {0} /\ {CostBound, DepthBound} \subseteq Nat
ASSUME SpecialAssumption == NONE # PENDING /\ {NONE, PENDING} \cap Hyperedge = {}

VARIABLES
  forest,       \* as built, with throw_on_cycle and the filter's maxreps
  pc,
  memo,         \* of each node: its best derivations in order; then NONE or PENDING
  pq,           \* of each node: hyperedges, the last of memo and candidates
  top,          \* of each node: pq.front()
  projecteds,   \* of each node: how often the filter has seen each projection
  asked,        \* the arguments of a get_best about to run
  answer,       \* what the last get_best returned
  stack,        \* the get_best calls that wait for a kid's
  i, k,         \* enumerate_kbest
  queued        \* history: for each node, what was ever put into pq

vars == <<forest, pc, memo, pq, top, projecteds, asked, answer, stack, i, k, queued>>

Kids(h) == DOMAIN h.edge.kids
IsDerivation(d) == d \notin {NONE, PENDING}

-----------------------------------------------------------------------------
(* Nodes as built: add the edges, then sort *)

FirstHyperedge(f, e) ==
  LET best(c) == f.best[e.kids[c]]
  IN  [edge |-> e, bp |-> [c \in DOMAIN e.kids |-> 0],
       cost |-> e.cost + (IF 1 \in DOMAIN e.kids THEN best(1).cost ELSE 0)
                       + (IF 2 \in DOMAIN e.kids THEN best(2).cost ELSE 0),
       words |-> e.words \cup UNION {best(c).words : c \in DOMAIN e.kids}]

FirstQueue(f, x) == {FirstHyperedge(f, e) : e \in f.edges[x]}

BestOf(Q) == {h \in Q : \A g \in Q : h.cost <= g.cost}

(* projected_duplicate_filter *)
NoProjections == [w \in SUBSET Words |-> 0]
Counted(seen, d) == IF forest.maxreps = 0 THEN seen ELSE [seen EXCEPT ![d.words] = @ + 1]
permit(seen, d) == forest.maxreps = 0 \/ seen[d.words] < forest.maxreps

Init ==
  /\ forest \in Forests
  /\ pc = "idle"
  /\ pq = [x \in Nodes |-> FirstQueue(forest, x)]
  /\ top \in [Nodes -> UNION {pq[x] : x \in Nodes}]
  /\ \A x \in Nodes : top[x] \in BestOf(pq[x])
  /\ memo = [x \in Nodes |-> <<top[x]>>]
  /\ projecteds = [x \in Nodes |-> Counted(NoProjections, top[x])]
  /\ asked = [node |-> Root, n |-> 0]
  /\ answer = NONE
  /\ stack = <<>>
  /\ i = 0 /\ k = 0
  /\ queued = [x \in Nodes |-> <<>>]

-----------------------------------------------------------------------------
(* enumerate_kbest; it may be called again, also after an exception *)

Enumerate ==
  /\ pc \in {"idle", "cycle"}
  /\ k' \in Ks
  /\ i' = 0
  /\ asked' = [node |-> Root, n |-> 0]
  /\ pc' = "ask"
  /\ UNCHANGED <<forest, memo, pq, top, projecteds, answer, stack, queued>>

(* the i-th best is visited, unless there is none *)
Visit ==
  /\ pc = "answer"
  /\ stack = <<>>
  /\ IF answer # NONE /\ i + 1 < k
     THEN /\ i' = i + 1
          /\ asked' = [node |-> Root, n |-> i + 1]
          /\ pc' = "ask"
     ELSE /\ pc' = "idle"
          /\ UNCHANGED <<i, asked>>
  /\ UNCHANGED <<forest, memo, pq, top, projecteds, answer, stack, k, queued>>

-----------------------------------------------------------------------------
(* get_best, next_best and generate_successor_hyperedge *)

Last(s) == s[Len(s)]
SetLast(s, d) == [s EXCEPT ![Len(s)] = d]

(* get_best of what memo holds; a pending one depends on itself *)
Recall ==
  /\ pc = "ask"
  /\ asked.n < Len(memo[asked.node])
  /\ LET d == memo[asked.node][asked.n + 1]
     IN  IF d # PENDING
         THEN answer' = d /\ pc' = "answer" /\ UNCHANGED <<memo, stack>>
         ELSE IF forest.throw_on_cycle
         THEN pc' = "cycle" /\ stack' = <<>> /\ UNCHANGED <<answer, memo>>
         ELSE /\ memo' = [memo EXCEPT ![asked.node][asked.n + 1] = NONE]
              /\ answer' = NONE
              /\ pc' = "answer"
              /\ UNCHANGED stack
  /\ UNCHANGED <<forest, pq, top, projecteds, asked, i, k, queued>>

Extend_OffByOne ==
  /\ pc = "ask"
  /\ asked.n >= Len(memo[asked.node]) - 1
  /\ memo' = [memo EXCEPT ![asked.node] = Append(@, PENDING)]
  /\ stack' = Append(stack, [node |-> asked.node, n |-> asked.n, pending |-> NONE, kid |-> 0])
  /\ pc' = "loop"
  /\ UNCHANGED <<forest, pq, top, projecteds, asked, answer, i, k, queued>>
Extend ==
  /\ pc = "ask"
  /\ asked.n >= Len(memo[asked.node])
  /\ memo' = [memo EXCEPT ![asked.node] = Append(@, PENDING)]
  /\ stack' = Append(stack, [node |-> asked.node, n |-> asked.n, pending |-> NONE, kid |-> 0])
  /\ pc' = "loop"
  /\ UNCHANGED <<forest, pq, top, projecteds, asked, answer, i, k, queued>>

node == Last(stack).node
pending == Last(stack).pending
kid == Last(stack).kid

Return(d) ==
  /\ memo' = [memo EXCEPT ![node] = SetLast(@, d)]
  /\ answer' = d
  /\ stack' = SubSeq(stack, 1, Len(stack) - 1)
  /\ pc' = "answer"

(* ask for what is next best after the one that h uses for its c-th kid *)
AskKid(h, c) ==
  /\ asked' = [node |-> h.edge.kids[c], n |-> h.bp[c] + 1]
  /\ stack' = SetLast(stack, [Last(stack) EXCEPT !.pending = h, !.kid = c])
  /\ pc' = "ask"

(* the last best is replaced by its successors; with an empty queue there are none *)
Pop ==
  /\ pc = "loop"
  /\ IF pq[node] = {}
     THEN Return(NONE) /\ UNCHANGED <<pq, asked>>
     ELSE /\ pq' = [pq EXCEPT ![node] = @ \ {top[node]}]
          /\ IF 1 \in Kids(top[node])
             THEN AskKid(top[node], 1) /\ UNCHANGED <<answer, memo>>
             ELSE pc' = "select" /\ UNCHANGED <<asked, stack, answer, memo>>
  /\ UNCHANGED <<forest, top, projecteds, i, k, queued>>

(* make_worse: d in place of the c-th kid's derivation *)
Successor_BestKid(h, c, d) ==
  [h EXCEPT !.bp[c] = @ + 1, !.cost = @ - memo[h.edge.kids[c]][1].cost + d.cost]
Successor(h, c, d) ==
  LET was == memo[h.edge.kids[c]][h.bp[c] + 1]
      below == {b \in Kids(h) : b # c}
  IN  [h EXCEPT !.bp[c] = @ + 1,
                !.cost = @ - was.cost + d.cost,
                !.words = h.edge.words \cup d.words
                            \cup UNION {memo[h.edge.kids[b]][h.bp[b] + 1].words : b \in below}]

(* one path to any pair of back pointers: the second kid only if the first is at its best *)
HasSecond_Always(h) == 2 \in Kids(h)
HasSecond(h) == 2 \in Kids(h) /\ h.bp[1] = 0

Succeed ==
  /\ pc = "answer"
  /\ stack # <<>>
  /\ IF answer # NONE
     THEN LET s == Successor(pending, kid, answer)
          IN  /\ pq' = [pq EXCEPT ![node] = @ \cup {s}]
              /\ queued' = [queued EXCEPT ![node] = Append(@, <<s.edge, s.bp>>)]
     ELSE UNCHANGED <<pq, queued>>
  /\ IF kid = 1 /\ HasSecond(pending)
     THEN AskKid(pending, 2)
     ELSE pc' = "select" /\ UNCHANGED <<asked, stack>>
  /\ UNCHANGED <<forest, memo, top, projecteds, answer, i, k>>

(* top() is the next best; the filter may have had its like often enough *)
Select_Retries ==
  /\ pc = "select"
  /\ IF pq[node] = {}
     THEN Return(NONE) /\ UNCHANGED <<top, projecteds>>
     ELSE \E h \in BestOf(pq[node]) :
            /\ top' = [top EXCEPT ![node] = h]
            /\ IF permit(projecteds[node], h)
               THEN projecteds' = [projecteds EXCEPT ![node] = Counted(@, h)] /\ Return(h)
               ELSE UNCHANGED <<pc, projecteds, memo, answer, stack>>
  /\ UNCHANGED <<forest, pq, asked, i, k, queued>>
Select ==
  /\ pc = "select"
  /\ IF pq[node] = {}
     THEN Return(NONE) /\ UNCHANGED <<top, projecteds>>
     ELSE \E h \in BestOf(pq[node]) :
            /\ top' = [top EXCEPT ![node] = h]
            /\ projecteds' = [projecteds EXCEPT ![node] = Counted(@, h)]
            /\ IF permit(projecteds[node], h)
               THEN Return(h)
               ELSE pc' = "loop" /\ UNCHANGED <<memo, answer, stack>>
  /\ UNCHANGED <<forest, pq, asked, i, k, queued>>

get_best == Recall \/ Extend \/ Pop \/ Succeed \/ Select \/ Visit
Next == Enumerate \/ get_best

Spec == Init /\ [][Next]_vars
FairSpec == Spec /\ WF_vars(get_best)

-----------------------------------------------------------------------------
(* What the lists are measured against: the derivation trees themselves *)

(* The trees of all nodes of f; a tree is deeper than the trees it is made of. *)
Trees(f) ==
  LET Combine(e, below) ==
        {[edge |-> e.id, kids |-> ts,
          cost |-> e.cost + (IF 1 \in DOMAIN ts THEN ts[1].cost ELSE 0)
                          + (IF 2 \in DOMAIN ts THEN ts[2].cost ELSE 0),
          words |-> e.words \cup UNION {ts[c].words : c \in DOMAIN ts}]
           : ts \in CASE Len(e.kids) = 0 -> {<<>>}
                       [] Len(e.kids) = 1 -> {<<t>> : t \in below[e.kids[1]]}
                       [] Len(e.kids) = 2 -> below[e.kids[1]] \X below[e.kids[2]]}
      Cheap(S) == {t \in S : t.cost <= CostBound}
      upto[d \in 0..DepthBound] ==
        IF d = 0 THEN [x \in Nodes |-> {}]
        ELSE LET below == upto[d - 1]
             IN  [x \in Nodes |-> Cheap(UNION {Combine(e, below) : e \in f.edges[x]})]
  IN  upto[DepthBound]

Reference == [f \in Forests |-> Trees(f)]

(* Going around a cycle costs something: by its edges, or by what else they need. *)
CycleCost(f) ==
  LET free(e, c) == \* nothing is paid on the way to the c-th kid
        e.cost = 0 /\ \A b \in DOMAIN e.kids \ {c} : f.best[e.kids[b]].cost = 0
      next(x) == {y \in Nodes : \E e \in f.edges[x] : \E c \in DOMAIN e.kids :
                                  e.kids[c] = y /\ free(e, c)}
      reached[d \in 1..Cardinality(Nodes)] ==
        IF d = 1 THEN [x \in Nodes |-> next(x)]
        ELSE LET r == reached[d - 1] IN [x \in Nodes |-> r[x] \cup UNION {next(y) : y \in r[x]}]
  IN  \A x \in Nodes : x \notin reached[Cardinality(Nodes)][x]

CyclesCost == [f \in Forests |-> CycleCost(f)]

Listed(x) == {j \in 1..Len(memo[x]) : IsDerivation(memo[x][j])}
ListedBelow(x, w, c) ==
  Cardinality({j \in Listed(x) : memo[x][j].words = w /\ memo[x][j].cost < c})
TreesBelow(x, w, c) ==
  Cardinality({t \in Reference[forest][x] : t.words = w /\ t.cost < c})
Admitted(n) == IF forest.maxreps = 0 \/ n < forest.maxreps THEN n ELSE forest.maxreps

-----------------------------------------------------------------------------
(* Properties *)

(* When a derivation is in a list, all that are better, and that the filter  *)
(* admits, are in it too, each as often as there are trees, and a node says   *)
(* there are no more only when all were listed: laziness, the order in which  *)
(* nodes were asked and the filters below lose nothing and invent nothing.    *)
(* (The NONE that a call gets of a derivation being computed is its answer, and *)
(* the end of the list only if it is still there when that is computed.)        *)
BestFirst ==
  CyclesCost[forest] =>
    \A x \in Nodes :
      LET known == {memo[x][j].cost : j \in Listed(x)} \cap 0..CostBound
          settled == \A a \in DOMAIN stack : stack[a].node # x
          all == IF settled /\ Last(memo[x]) = NONE THEN {CostBound + 1} ELSE {}
      IN  \A c \in known \cup all, w \in SUBSET Words :
            ListedBelow(x, w, c) = Admitted(TreesBelow(x, w, c))

(* No choice of back pointers is queued twice: "one path to any (a, b)". *)
OnePath ==
  \A x \in Nodes : \A a, b \in 1..Len(queued[x]) :
    queued[x][a] = queued[x][b] => a = b

(* A get_best that waits for a kid's holds a reference to memo.back() *)
(* (derivation_type& d): nothing may be pushed behind it meanwhile.    *)
StillBack == \A a \in 1..Len(stack) : Len(memo[stack[a].node]) = stack[a].n + 1

(* Every enumeration ends, by k, by NONE or by the exception, also where the *)
(* filter rejects and there are trees without end: what it admits is finite,  *)
(* and a list that needs itself to go on is found out.                        *)
EnumerationEnds == pc = "ask" ~> pc \in {"idle", "cycle"}
=============================================================================
