-------------------------------- MODULE Forest --------------------------------
(***************************************************************************)
(* forest-em/forest.hpp: a packed forest of derivations, as an array of    *)
(* nodes.  A node is a rule with its children (and), a choice between its  *)
(* children (or), or stands for a node before it (backref).  All below a   *)
(* node comes in the array between it and next.                            *)
(*                                                                         *)
(* Weights are exact (Ratios).  inside_rec fills its array for the whole   *)
(* forest; here that is a function on the nodes.                           *)
(***************************************************************************)
EXTENDS Ratios, Sequences

OR == 0             \* OR_INT: "0 is not a legit rule ID"

(* [label, next] or, for a backref, [ref, next] *)
IsBackref(f, n) == "ref" \in DOMAIN f[n]
IsOr(f, n) == ~IsBackref(f, n) /\ f[n].label = OR
IsAnd(f, n) == ~IsBackref(f, n) /\ f[n].label # OR

(* the children of n from c on: c, its sibling, and so on up to next *)
Siblings(f, n) ==
  LET from[c \in n + 1..f[n].next] ==
        IF c = f[n].next THEN <<>> ELSE <<c>> \o from[f[c].next]
  IN  from
Kids(f, n) == IF IsBackref(f, n) THEN <<>> ELSE Siblings(f, n)[n + 1]
KidSet(f, n) == {Kids(f, n)[j] : j \in DOMAIN Kids(f, n)}
Target(f, c) == IF IsBackref(f, c) THEN f[c].ref ELSE c

(* as read: everything nested, an or has a child, a backref is to what ends before it *)
IsForest(f) ==
  \A n \in DOMAIN f :
    /\ f[n].next \in n + 1..Len(f) + 1
    /\ \A c \in n + 1..f[n].next - 1 : f[c].next <= f[n].next
    /\ IsOr(f, n) => f[n].next > n + 1
    /\ IsBackref(f, n) => f[n].next = n + 1 /\ f[n].ref < n /\ f[f[n].ref].next <= n
                          /\ ~IsBackref(f, f[n].ref)

-----------------------------------------------------------------------------
(* inside_rec, and compute_inside with the proposal's probabilities *)

Inside_BackrefsAtOne(f, w) ==
  LET inside[n \in DOMAIN f] ==
        IF IsBackref(f, n) THEN One
        ELSE IF IsOr(f, n) THEN SumOver([c \in KidSet(f, n) |-> inside[c]], KidSet(f, n))
        ELSE Times(w[f[n].label], ProductOver([c \in KidSet(f, n) |-> inside[c]], KidSet(f, n)))
  IN  inside
Inside(f, w) ==
  LET inside[n \in DOMAIN f] ==
        IF IsBackref(f, n) THEN inside[f[n].ref]
        ELSE IF IsOr(f, n) THEN SumOver([c \in KidSet(f, n) |-> inside[c]], KidSet(f, n))
        ELSE Times(w[f[n].label], ProductOver([c \in KidSet(f, n) |-> inside[c]], KidSet(f, n)))
  IN  inside

(* record_ancestry: links from parents to children, or what these stand for; those of
   a node come after all of those of the nodes below it *)
outside_order(f) ==
  LET links(n) == [j \in DOMAIN Kids(f, n) |-> <<n, Target(f, Kids(f, n)[j])>>]
      order[n \in DOMAIN f] ==
        LET of[j \in 0..Len(Kids(f, n))] ==
              IF j = 0 THEN <<>> ELSE of[j - 1] \o order[Kids(f, n)[j]]
        IN  of[Len(Kids(f, n))] \o links(n)
  IN  order[1]

(* compute_norm_outside, if inside[1] > 0: outside over the root's inside, backwards *)
NormOutside(f, inside) ==
  LET order == outside_order(f)
      root == [n \in DOMAIN f |-> IF n = 1 THEN Over(One, inside[1]) ELSE Zero]
      Link(outside, p, c) ==
        IF IsOr(f, p) THEN [outside EXCEPT ![c] = Plus(@, outside[p])]
        ELSE IF inside[p] # Zero
        THEN [outside EXCEPT ![c] = Plus(@, Over(Times(outside[p], inside[p]), inside[c]))]
        ELSE outside
      backwards[j \in 0..Len(order)] ==
        IF j = 0 THEN root
        ELSE LET link == order[Len(order) + 1 - j]
             IN  Link(backwards[j - 1], link[1], link[2])
  IN  backwards[Len(order)]

(* visit_inside_norm_outside: for every use of a rule, in order *)
RuleCounts(f, inside, outside) ==
  LET ands[n \in 0..Len(f)] ==
        IF n = 0 THEN <<>>
        ELSE IF IsAnd(f, n)
        THEN Append(ands[n - 1], [rule |-> f[n].label, count |-> Times(inside[n], outside[n])])
        ELSE ands[n - 1]
  IN  ands[Len(f)]

-----------------------------------------------------------------------------
(* viterbi_rec and write_viterbi_rec: the first of the best children of an or.  *)
(* A tree is the list of its nodes, parents first.                              *)

Viterbi_LastChild(f, w) ==
  LET best[n \in DOMAIN f] ==
        IF IsBackref(f, n) THEN best[f[n].ref]
        ELSE IF IsOr(f, n) THEN best[Kids(f, n)[Len(Kids(f, n))]]
        ELSE Times(w[f[n].label], ProductOver([c \in KidSet(f, n) |-> best[c]], KidSet(f, n)))
  IN  best
Viterbi(f, w) ==
  LET best[n \in DOMAIN f] ==
        IF IsBackref(f, n) THEN best[f[n].ref]
        ELSE IF IsOr(f, n) THEN Largest({best[c] : c \in KidSet(f, n)})
        ELSE Times(w[f[n].label], ProductOver([c \in KidSet(f, n) |-> best[c]], KidSet(f, n)))
  IN  best

(* the tree below n, or-nodes decided by choice *)
TreeFrom(f, choice) ==
  LET tree[n \in DOMAIN f] ==
        IF IsBackref(f, n) THEN <<n>> \o tree[f[n].ref]
        ELSE IF IsOr(f, n) THEN <<n>> \o tree[choice[n]]
        ELSE LET of[j \in 0..Len(Kids(f, n))] ==
                   IF j = 0 THEN <<n>> ELSE of[j - 1] \o tree[Kids(f, n)[j]]
             IN  of[Len(Kids(f, n))]
  IN  tree[1]

ViterbiTree(f, w) ==
  LET inside == Viterbi(f, w)
      first(n) == LET j == CHOOSE j \in DOMAIN Kids(f, n) :
                             /\ inside[Kids(f, n)[j]] = inside[n]
                             /\ \A i \in 1..j - 1 : inside[Kids(f, n)[i]] # inside[n]
                  IN  Kids(f, n)[j]
  IN  TreeFrom(f, [n \in {m \in DOMAIN f : IsOr(f, m)} |-> first(n)])

(* choose_random: a tree and the chance to get it.  The children of an or are   *)
(* drawn in proportion to inside^power; below a backref the power is forgotten. *)
Power(x, power) == IF power = 1 THEN x ELSE Times(x, x)
Draws(f, inside, power) ==
  LET draws[n \in DOMAIN f, p \in {1, power}] ==
        IF IsBackref(f, n)
        THEN {[tree |-> <<n>> \o d.tree, chance |-> d.chance] : d \in draws[f[n].ref, 1]}
        ELSE IF IsOr(f, n)
        THEN LET weight == [c \in KidSet(f, n) |-> Power(inside[c], p)]
                 choose_norm == SumOver(weight, KidSet(f, n))
                 chosen(c) == {[tree |-> <<n>> \o d.tree,
                                chance |-> Times(Over(weight[c], choose_norm), d.chance)]
                                 : d \in draws[c, p]}
             IN  UNION {chosen(c) : c \in {k \in KidSet(f, n) : weight[k] # Zero}}
        ELSE LET of[j \in 0..Len(Kids(f, n))] ==
                   IF j = 0 THEN {[tree |-> <<n>>, chance |-> One]}
                   ELSE {[tree |-> a.tree \o b.tree, chance |-> Times(a.chance, b.chance)]
                           : a \in of[j - 1], b \in draws[Kids(f, n)[j], p]}
             IN  of[Len(Kids(f, n))]
  IN  draws[1, power]

-----------------------------------------------------------------------------
(* What these are measured against: the trees themselves *)

Trees(f) ==
  LET trees[n \in DOMAIN f] ==
        IF IsBackref(f, n) THEN {<<n>> \o t : t \in trees[f[n].ref]}
        ELSE IF IsOr(f, n) THEN {<<n>> \o t : t \in UNION {trees[c] : c \in KidSet(f, n)}}
        ELSE LET of[j \in 0..Len(Kids(f, n))] ==
                   IF j = 0 THEN {<<n>>}
                   ELSE {a \o b : a \in of[j - 1], b \in trees[Kids(f, n)[j]]}
             IN  of[Len(Kids(f, n))]
  IN  trees[1]

Uses(f, t, r) == {j \in DOMAIN t : IsAnd(f, t[j]) /\ f[t[j]].label = r}
TreeWeight(f, t, w) ==
  LET ands == {j \in DOMAIN t : IsAnd(f, t[j])}
  IN  ProductOver([j \in ands |-> w[f[t[j]].label]], ands)
=============================================================================
