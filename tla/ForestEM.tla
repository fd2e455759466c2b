------------------------------ MODULE ForestEM ------------------------------
(***************************************************************************)
(* forest-em/forest-em.hpp, FForests: training the weights of rules on a   *)
(* corpus of forests, by EM (overrelaxed_em drives it) or by drawing a     *)
(* tree of every forest (gibbs_base drives it), with NormalizeGroups of    *)
(* graehl/shared/normalize.hpp.                                            *)
(*                                                                         *)
(* Of the Gibbs sampler there is here what it asks FForests for: a sample  *)
(* of a forest under the probabilities it proposes; the rest is in Gibbs.  *)
(***************************************************************************)
EXTENDS OverrelaxedEM, Forest, FiniteSets

CONSTANTS
  Rules,
  Corpora,      \* forests, norm_groups, the weights read, and options
  Random,       \* weights randomize may choose
  Proposals,    \* the sampler's proposal_prob of each rule
  AddOneLimit   \* counts from here on are put aside

Corpus(c) ==
  /\ c.forests # <<>> /\ \A j \in DOMAIN c.forests : IsForest(c.forests[j])
  /\ \A g, h \in c.norm_groups : g \subseteq Rules /\ (g = h \/ g \cap h = {})
  /\ c.init \in [Rules -> Ratio]
  /\ c.prior_count \in Ratio /\ c.add_k_smoothing \in Ratio
  /\ c.zero_zerocounts \in BOOLEAN
  /\ c.power \in {1, 2}

ASSUME CorporaAssumption ==
  /\ \A c \in Corpora : Corpus(c)
  /\ Random \cup Proposals \subseteq [Rules -> Ratio]
  /\ \A w \in Proposals, r \in Rules : w[r] # Zero

VARIABLES
  corpus,
  rule_weights, best_weights,
  counts, overflows,
  forest_no, n_zeroprob,
  total_prob,   \* exp(total_logprob)
  viterbi,      \* the trees written at the end
  sample,       \* the tree drawn of a forest, and the chance it had
  alps          \* history: what estimate ever returned

vars == <<emVars, corpus, rule_weights, best_weights, counts, overflows, forest_no, n_zeroprob,
          total_prob, viterbi, sample, alps>>

total_forests == Len(corpus.forests)
save_best_enable == opt.restarts > 0
NoCounts == [r \in Rules |-> Zero]

Init ==
  /\ EMInit
  /\ corpus \in Corpora
  /\ rule_weights = corpus.init
  /\ best_weights = NoCounts
  /\ counts = NoCounts /\ overflows = NoCounts
  /\ forest_no = 0 /\ n_zeroprob = 0 /\ total_prob = One
  /\ viterbi = <<>>
  /\ sample = [forest |-> 1, weights |-> NoCounts, tree |-> <<>>, chance |-> One]
  /\ alps = {}

-----------------------------------------------------------------------------
(* estimate: begin_visit, every forest, end_visit *)

begin_visit ==
  /\ StartIteration
  /\ IF pc' = "estimate"
     THEN /\ counts' = [r \in Rules |-> Times(corpus.prior_count, <<total_forests, 1>>)]
          /\ forest_no' = 0 /\ n_zeroprob' = 0 /\ total_prob' = One
     ELSE UNCHANGED <<counts, forest_no, n_zeroprob, total_prob>>
  /\ UNCHANGED <<corpus, rule_weights, best_weights, overflows, viterbi, sample, alps>>

(* accumulate_counts: a count near the limit goes to overflows, and starts again *)
Accumulate_Restarts(acc, use) ==
  IF Less(acc.counts[use.rule], AddOneLimit)
  THEN [acc EXCEPT !.counts[use.rule] = Plus(@, use.count)]
  ELSE [acc EXCEPT !.overflows[use.rule] = acc.counts[use.rule],
                   !.counts[use.rule] = use.count]
Accumulate(acc, use) ==
  IF Less(acc.counts[use.rule], AddOneLimit)
  THEN [acc EXCEPT !.counts[use.rule] = Plus(@, use.count)]
  ELSE [acc EXCEPT !.overflows[use.rule] = Plus(@, acc.counts[use.rule]),
                   !.counts[use.rule] = use.count]

(* collect_counts, of a forest that is possible at all *)
Collected(f, inside) ==
  LET uses == RuleCounts(f, inside, NormOutside(f, inside))
      acc[j \in 0..Len(uses)] ==
        IF j = 0 THEN [counts |-> counts, overflows |-> overflows]
        ELSE LET before == acc[j - 1] IN Accumulate(before, uses[j])
  IN  acc[Len(uses)]

VisitForest ==
  /\ pc = "estimate" /\ forest_no < total_forests
  /\ LET f == corpus.forests[forest_no + 1]
         inside == Inside(f, rule_weights)
     IN  IF inside[1] # Zero
         THEN /\ LET acc == Collected(f, inside)
                 IN  counts' = acc.counts /\ overflows' = acc.overflows
              /\ total_prob' = Times(total_prob, inside[1])
              /\ UNCHANGED n_zeroprob
         ELSE /\ n_zeroprob' = n_zeroprob + 1
              /\ UNCHANGED <<counts, overflows, total_prob>>
  /\ forest_no' = forest_no + 1
  /\ UNCHANGED <<emVars, corpus, rule_weights, best_weights, viterbi, sample, alps>>

(* finish_counts *)
end_visit ==
  /\ pc = "estimate" /\ forest_no = total_forests
  /\ counts' = [r \in Rules |-> Plus(counts[r], overflows[r])]
  /\ overflows' = NoCounts
  /\ Estimated([prob |-> total_prob, n |-> forest_no - n_zeroprob])
  /\ alps' = alps \cup {new_alp'}
  /\ UNCHANGED <<corpus, rule_weights, best_weights, forest_no, n_zeroprob, total_prob, viterbi,
                 sample>>

-----------------------------------------------------------------------------
(* maximize, save_best, restore_best, randomize *)

(* NormalizeGroups: from counts to weights; a rule in no group keeps its weight *)
Normalized_AllCounts(g, r) ==
  LET sum == SumOver(counts, {q \in Rules : \E h \in corpus.norm_groups : q \in h})
  IN  IF sum # Zero THEN Over(counts[r], Plus(sum, corpus.add_k_smoothing))
      ELSE IF corpus.zero_zerocounts THEN Zero ELSE <<1, Cardinality(g)>>
Normalized(g, r) ==
  LET sum == SumOver(counts, g)
  IN  IF sum # Zero THEN Over(counts[r], Plus(sum, corpus.add_k_smoothing))
      ELSE IF corpus.zero_zerocounts THEN Zero ELSE <<1, Cardinality(g)>>

Normalize ==
  [r \in Rules |->
     IF \E g \in corpus.norm_groups : r \in g
     THEN Normalized(CHOOSE g \in corpus.norm_groups : r \in g, r)
     ELSE rule_weights[r]]

MaxDiff(w) == Largest({Zero} \cup {Plus(Minus(w[r], rule_weights[r]), Minus(rule_weights[r], w[r])) : r \in Rules})

(* the learning rate is ignored *)
Maximize ==
  /\ rule_weights' = Normalize
  /\ Maximized(MaxDiff(rule_weights'))
  /\ UNCHANGED <<corpus, best_weights, counts, overflows, forest_no, n_zeroprob, total_prob,
                 viterbi, sample, alps>>

save_best_Latest == best_weights' = IF save_best_enable THEN rule_weights ELSE best_weights
save_best ==
  best_weights' = IF IsBest /\ save_best_enable THEN rule_weights ELSE best_weights

Judge ==
  /\ \E little \in BOOLEAN : ResetRate(little) \/ Converge(little) \/ GoOn(little)
  /\ save_best
  /\ UNCHANGED <<corpus, rule_weights, counts, overflows, forest_no, n_zeroprob, total_prob,
                 viterbi, sample, alps>>

Randomize ==
  /\ Restart
  /\ rule_weights' \in Random
  /\ UNCHANGED <<corpus, best_weights, counts, overflows, forest_no, n_zeroprob, total_prob,
                 viterbi, sample, alps>>

restore_best ==
  /\ Finish
  /\ rule_weights' = IF save_best_enable THEN best_weights ELSE rule_weights
  /\ UNCHANGED <<corpus, best_weights, counts, overflows, forest_no, n_zeroprob, total_prob,
                 viterbi, sample, alps>>

BeginTraining ==
  /\ Begin
  /\ UNCHANGED <<corpus, rule_weights, best_weights, counts, overflows, forest_no, n_zeroprob,
                 total_prob, viterbi, sample, alps>>

-----------------------------------------------------------------------------
(* final_iteration writes the best tree of every forest *)
final_iteration ==
  /\ pc = "done" /\ Len(viterbi) < total_forests
  /\ viterbi' = Append(viterbi, ViterbiTree(corpus.forests[Len(viterbi) + 1], rule_weights))
  /\ UNCHANGED <<emVars, corpus, rule_weights, best_weights, counts, overflows, forest_no,
                 n_zeroprob, total_prob, sample, alps>>

(* resample_block, for the sampler, instead of training *)
resample_block ==
  /\ pc \in {"start", "gibbs"}
  /\ pc' = "gibbs"
  /\ \E block \in 1..total_forests, proposal_prob \in Proposals :
       LET f == corpus.forests[block]
       IN  \E d \in Draws(f, Inside(f, proposal_prob), corpus.power) :
             sample' = [forest |-> block, weights |-> proposal_prob,
                        tree |-> d.tree, chance |-> d.chance]
  /\ UNCHANGED <<opt, locals, ran_restarts, best_alp, new_alp, very_first_time, corpus,
                 rule_weights, best_weights, counts, overflows, forest_no, n_zeroprob, total_prob,
                 viterbi, alps>>

Train ==
  \/ BeginTraining \/ begin_visit \/ VisitForest \/ end_visit \/ Judge \/ Maximize
  \/ Randomize \/ restore_best \/ final_iteration
Next == Train \/ resample_block

Spec == Init /\ [][Next]_vars

-----------------------------------------------------------------------------
(* Properties *)

AllForests == UNION {{c.forests[j] : j \in DOMAIN c.forests} : c \in Corpora}
TreesOf == [f \in AllForests |-> Trees(f)]

(* How often r is expected in a tree of f. *)
Expected(f, w, r) ==
  LET all == SumOver([t \in TreesOf[f] |-> TreeWeight(f, t, w)], TreesOf[f])
      weighted == [t \in TreesOf[f] |->
                     Times(TreeWeight(f, t, w), <<Cardinality(Uses(f, t, r)), 1>>)]
  IN  IF all = Zero THEN Zero ELSE Over(SumOver(weighted, TreesOf[f]), all)

(* After a pass, the count of a rule is its prior and, of every forest, how    *)
(* often it is expected in a tree: sharing, backrefs, the order of the outside *)
(* pass and counts put aside at the limit lose nothing.                        *)
CountsExact ==
  pc = "judge" =>
    \A r \in Rules :
      LET expected == [j \in 1..total_forests |-> Expected(corpus.forests[j], rule_weights, r)]
      IN  counts[r] = Plus(Times(corpus.prior_count, <<total_forests, 1>>),
                           SumOver(expected, 1..total_forests))

(* Training that starts from probabilities, and without priors, never makes   *)
(* the corpus less likely.                                                     *)
Ascends ==
  (/\ pc = "judge" /\ ~first_time
   /\ corpus.prior_count = Zero /\ corpus.add_k_smoothing = Zero
   /\ \A g \in corpus.norm_groups : ~Less(One, SumOver(corpus.init, g))
   /\ new_alp.n = last_alp.n)
    => ~Exceeds(last_alp, new_alp)

(* The tree written of a forest is one of its trees, none of which is better. *)
ViterbiBest ==
  \A j \in DOMAIN viterbi :
    LET f == corpus.forests[j]
    IN  /\ viterbi[j] \in TreesOf[f]
        /\ \A t \in TreesOf[f] :
             ~Less(TreeWeight(f, viterbi[j], rule_weights), TreeWeight(f, t, rule_weights))

(* A tree is drawn with the chance it has among the trees of its forest. *)
SamplesExact ==
  (pc = "gibbs" /\ corpus.power = 1) =>
    LET f == corpus.forests[sample.forest]
        weight == [t \in TreesOf[f] |-> TreeWeight(f, t, sample.weights)]
    IN  /\ sample.tree \in TreesOf[f]
        /\ sample.chance = Over(weight[sample.tree], SumOver(weight, TreesOf[f]))

AlpOf(w) ==
  LET inside == [j \in 1..total_forests |-> Inside(corpus.forests[j], w)[1]]
      possible == {j \in 1..total_forests : inside[j] # Zero}
  IN  [prob |-> ProductOver(inside, possible), n |-> Cardinality(possible)]

(* With restarts, training leaves weights that make the corpus as likely as any *)
(* weights estimated, and returns how likely that is; unless the very first     *)
(* estimate was not a number, to which nothing compares.                        *)
BestRestored ==
  (pc = "done" /\ save_best_enable /\ opt.max_iter > 0 /\ IsNumber(best_alp)) =>
    /\ AlpOf(rule_weights) = best_alp
    /\ \A a \in alps : ~Exceeds(a, best_alp)
=============================================================================
