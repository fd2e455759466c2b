--------------------------- MODULE TrainingCorpus ---------------------------
(***************************************************************************)
(* carmel/src/train.h (training_corpus) and cached_derivs.h: the training  *)
(* examples, the totals kept about them, and what a pass over the corpus   *)
(* does to both in each of the three ways of finding derivations:          *)
(*   "none"    derive every example anew in every pass                     *)
(*   "cached"  keep the derivations (in memory or on disk), replay them    *)
(*   "matrix"  the full forward/backward matrix                            *)
(* Whether an example has a derivation depends on the machine's arcs, not  *)
(* on their weights: it is part of the example here.                       *)
(***************************************************************************)
EXTENDS Sums, Sequences

Example == [weight : Nat \ {0}, ok : BOOLEAN]
Modes == {"none", "cached", "matrix"}

(* A corpus: the list of examples read, the places in it of those not erased
   since, and totalEmpiricalWeight *)
Places(ex) == 1..Len(ex)
TotalWeight(ex, left) ==
  SumTo([j \in Places(ex) |-> IF j \in left THEN ex[j].weight ELSE 0], Len(ex))
CorpusOf(ex) == [ex |-> ex, left |-> Places(ex), total |-> TotalWeight(ex, Places(ex))]

BadExamples(c) == {j \in c.left : ~c.ex[j].ok}
GoodExamples(c) == {j \in c.left : c.ex[j].ok}

(* cache_derivations: for each example, clear_counts(), then count it if it
   has a derivation.  What is left is the count of the last one; nothing is
   erased *)
CacheCorpus(c) ==
  LET last == Len(c.ex)
  IN  [ex |-> c.ex, left |-> c.left,
       total |-> IF last = 0 THEN c.total ELSE IF c.ex[last].ok THEN c.ex[last].weight ELSE 0]

(* one pass over the corpus: foreach_deriv, or estimate_matrix.  The first
   pass erases the examples without a derivation, but for --cache-no-prune
   (the matrix erases them in any case); foreach_deriv then counts what is left *)
Erases(mode, prune, first) == mode = "matrix" \/ (mode = "none" /\ first /\ prune)
Remaining(c, mode, prune, first) == IF Erases(mode, prune, first) THEN GoodExamples(c) ELSE c.left
Counted(mode, first) == mode = "none" /\ first

Pass_NotCleared(c, mode, prune, first) ==
  LET left == Remaining(c, mode, prune, first)
  IN  [ex |-> c.ex, left |-> left,
       total |-> IF Counted(mode, first) THEN c.total + TotalWeight(c.ex, left) ELSE c.total]

Pass(c, mode, prune, first) ==
  LET left == Remaining(c, mode, prune, first)
  IN  [ex |-> c.ex, left |-> left,
       total |-> IF Counted(mode, first) THEN TotalWeight(c.ex, left) ELSE c.total]
=============================================================================
