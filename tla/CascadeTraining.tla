-------------------------- MODULE CascadeTraining --------------------------
(***************************************************************************)
(* carmel/src/cascade.h and train.cc: what training a cascade              *)
(* (--train-cascade) does to weights.  Counts are collected on the arcs of *)
(* the composed machine, handed on to the arcs each of these stands for    *)
(* (its chain), the machines of the cascade are normalized, each by its    *)
(* method, and the composed arcs get the products of the new weights.      *)
(*                                                                         *)
(* What an estimate counts is arbitrary, as are perplexities: any          *)
(* iteration may be a new best, and any may be the last of its start.      *)
(***************************************************************************)
EXTENDS Normalization

CONSTANTS
  Weight0,      \* the weights of the machines' arcs before training
  Composed,     \* the arcs of the composed machine
  Chain,        \* Composed -> [Params -> Nat], how often each arc is in the chain
  Locked1,      \* composed arcs that name the nil chain
  Estimates,    \* what an estimate may count on the composed arcs
  Random,       \* the weights a random restart may draw
  Options

OptionType ==
  [methods : [{ArcOf[a].machine : a \in Params} -> Methods],
   max_iter : Nat, restarts : Nat,
   smooth : Ratio, per_arc_prior : BOOLEAN]

ASSUME Weight0Assumption ==
  /\ Weight0 \in [Params -> Ratio]
  /\ \A a \in Params : Plus(Weight0[a], Zero) = Weight0[a]    \* in lowest terms
ASSUME ChainAssumption ==
  /\ Chain \in [Composed -> [Params -> Nat]]
  /\ Locked1 = {c \in Composed : \A a \in Params : Chain[c][a] = 0}
ASSUME EstimateAssumption == Estimates \subseteq [Composed -> Ratio]
ASSUME RandomAssumption ==
  /\ Random \subseteq [Params -> Ratio]
  /\ \A r \in Random, a, b \in Params : IsTied(a) /\ b \in TieGroup(a) => r[b] = r[a]
ASSUME FiniteAssumption == IsFiniteSet(Params) /\ IsFiniteSet(Composed)
ASSUME CascadeOptionAssumption == Options \subseteq OptionType

VARIABLES
  pc, opt,
  weight,       \* of the arcs of the cascade's machines
  composed,     \* of the composed arcs: weights, and counts after maximize
  prior_counts, em_weight, best_weight,     \* arc_counts of the composed arcs
  train_iter, ran_restarts,
  have_good_weights,
  evidence,     \* history: the counts, with priors, that weight was made from
  best          \* history: the weights when the best perplexity was measured

vars == <<pc, opt, weight, composed, prior_counts, em_weight, best_weight, train_iter,
          ran_restarts, have_good_weights, evidence, best>>

NoEvidence == [c \in Composed |-> Zero]
Multiple(n, x) == Times(<<n, 1>>, x)

IsNone(a) == opt.methods[ArcOf[a].machine].group = "none"

-----------------------------------------------------------------------------
(* cascade_parameters *)

Power(x, n) == LET p[i \in 0..n] == IF i = 0 THEN One ELSE Times(p[i - 1], x) IN p[n]

(* update: calculate_chain_weights and update_composed_arc *)
Update(w) ==
  [c \in Composed |-> ProductOver([a \in Params |-> Power(w[a], Chain[c][a])], Params)]

(* distribute_counts: clear_counts, then each count to all of its chain *)
Distributed_NotCleared(w, counts) ==
  [a \in Params |->
     IF IsLocked(a) THEN w[a]
     ELSE Plus(w[a], SumOver([c \in Composed |-> Multiple(Chain[c][a], counts[c])], Composed))]
Distributed(w, counts) ==
  [a \in Params |->
     IF IsLocked(a) THEN w[a]
     ELSE SumOver([c \in Composed |-> Multiple(Chain[c][a], counts[c])], Composed)]

(* save_none, use_counts, load_none *)
UseCounts_NoneNotSaved(w, counts) == Normalize(Distributed(w, counts), opt.methods)
UseCounts(w, counts) ==
  LET used == Normalize(Distributed(w, counts), opt.methods)
  IN  [a \in Params |-> IF IsNone(a) THEN w[a] ELSE used[a]]

(* randomize: one random weight for each tie group *)
Randomized(w, r) ==
  [a \in Params |-> IF IsLocked(a) \/ IsNone(a) THEN w[a] ELSE r[a]]

-----------------------------------------------------------------------------
(* WFST::train, using_cascade *)

Init ==
  /\ pc = "enter"
  /\ opt \in Options
  /\ weight = Weight0
  /\ composed = Update(Weight0)
  /\ prior_counts = NoEvidence
  /\ em_weight = NoEvidence
  /\ best_weight = NoEvidence
  /\ train_iter = 0
  /\ ran_restarts = 0
  /\ have_good_weights = FALSE
  /\ evidence = NoEvidence
  /\ best = Weight0

(* the first normalization; priors are made from the composed arcs as composed *)
Enter ==
  /\ pc = "enter"
  /\ weight' = Normalize(weight, opt.methods)
  /\ prior_counts' = [c \in Composed |->
                        IF opt.per_arc_prior THEN Plus(opt.smooth, composed[c]) ELSE opt.smooth]
  /\ ran_restarts' = opt.restarts
  /\ pc' = IF opt.max_iter <= 1 /\ (opt.max_iter = 1 => opt.restarts = 0)
            THEN "single" ELSE "iterate"
  /\ UNCHANGED <<opt, composed, em_weight, best_weight, train_iter, have_good_weights, evidence,
                 best>>

first_time == train_iter = 0

(* save_counts (not at first), update, and the test of max_iter *)
StartIteration ==
  /\ pc = "iterate"
  /\ em_weight' = IF first_time THEN em_weight ELSE composed
  /\ composed' = Update(weight)
  /\ train_iter' = train_iter + 1
  /\ pc' = IF train_iter' > opt.max_iter /\ have_good_weights THEN "tail" ELSE "estimate"
  /\ UNCHANGED <<opt, weight, prior_counts, best_weight, ran_restarts, have_good_weights, evidence,
                 best>>

(* save_best_counts, when the perplexity is the lowest so far *)
SavedBest_Estimated == composed
SavedBest == em_weight

(* prep_new_weights: the counts take the place of the weights *)
Counted(old, counts) ==
  [c \in Composed |-> IF c \in Locked1 THEN old[c] ELSE Plus(counts[c], prior_counts[c])]

Maximize(counts) ==
  /\ composed' = Counted(composed, counts)
  /\ weight' = UseCounts(weight, composed')
  /\ evidence' = composed'

MayBeKept == train_iter > 1

(* perplexities are finite: the first that may be kept is a new best *)
Iterate ==
  /\ pc = "estimate"
  /\ \E newBest \in BOOLEAN :
       /\ newBest => MayBeKept
       /\ MayBeKept /\ ~have_good_weights => newBest
       /\ best_weight' = IF newBest THEN SavedBest ELSE best_weight
       /\ best' = IF newBest THEN weight ELSE best
       /\ have_good_weights' = (have_good_weights \/ newBest)
  /\ \/ /\ \/ train_iter = 1 /\ ran_restarts < opt.restarts       \* not promising
           \/ train_iter > 1                                  \* converged
        /\ pc' = "tail"
        /\ UNCHANGED <<composed, weight, evidence>>
     \/ /\ \E counts \in Estimates : Maximize(counts)
        /\ pc' = "iterate"
  /\ UNCHANGED <<opt, prior_counts, em_weight, train_iter, ran_restarts>>

(* -M 1 without restarts, and -M 0, which leaves the counts as weights *)
SinglePass ==
  /\ pc = "single"
  /\ \E counts \in Estimates :
       LET counted == Counted(Update(weight), counts)
           trained == UseCounts(UseCounts(weight, counted), counted)
       IN  /\ evidence' = counted
           /\ weight' = IF opt.max_iter = 0 THEN Distributed(weight, counted) ELSE trained
           /\ composed' = IF opt.max_iter = 0 THEN counted ELSE Update(trained)
  /\ pc' = "done"
  /\ UNCHANGED <<opt, prior_counts, em_weight, best_weight, train_iter, ran_restarts,
                 have_good_weights, best>>

(* random_restart *)
MoreRestarts == ran_restarts > 0

Restart ==
  /\ pc = "tail"
  /\ MoreRestarts
  /\ ran_restarts' = ran_restarts - 1
  /\ \E r \in Random : weight' = Normalize(Randomized(weight, r), opt.methods)
  /\ evidence' = NoEvidence
  /\ train_iter' = 0
  /\ pc' = "iterate"
  /\ UNCHANGED <<opt, composed, prior_counts, em_weight, best_weight, have_good_weights, best>>

(* load_best, use_counts_final *)
LoadBest == best_weight
Finish ==
  /\ pc = "tail"
  /\ ~MoreRestarts
  /\ weight' = UseCounts(weight, LoadBest)
  /\ composed' = Update(weight')
  /\ evidence' = LoadBest
  /\ pc' = "done"
  /\ UNCHANGED <<opt, prior_counts, em_weight, best_weight, train_iter, ran_restarts,
                 have_good_weights, best>>

Next == Enter \/ SinglePass \/ StartIteration \/ Iterate \/ Restart \/ Finish
Spec == Init /\ [][Next]_vars

-----------------------------------------------------------------------------

Trained(a) == ~IsLocked(a) /\ ~IsNone(a)

(* Locked arcs, and all arcs of a machine with --normby=N, have the weights
   they came with, although clear_counts, distribute_counts and normalize go
   over them in every iteration (-M 0 asks for counts of what is not locked). *)
FixedKept ==
  \A a \in Params :
    ~Trained(a) => \/ weight[a] = Weight0[a]
                  \/ (~IsLocked(a) /\ pc = "done" /\ opt.max_iter = 0)

(* What training leaves is what had the best perplexity, brought back from the
   counts it was made of, through normalization, after later iterations and
   restarts overwrote it; and the composed machine agrees with it. *)
BestLeft ==
  pc = "done" /\ have_good_weights =>
    /\ weight = best
    /\ composed = Update(best)

Normalizing == pc # "enter" /\ ~(pc = "done" /\ opt.max_iter = 0)

(* A normalization group with a normal arc that has any weight sums to one, locked
   and tied arcs included.  One with no more than one tied arc sums to at most one
   if its locked arcs do: normalize makes room for these in all the groups a tie
   group is in. *)
GroupsAddUp ==
  Normalizing =>
    \A a \in {p \in Params : Trained(p)} :
      LET arcs == NormGroup(a, opt.methods[ArcOf[a].machine].group)
          sum == SumOver(weight, arcs)
          locked == SumOver(weight, {b \in arcs : IsLocked(b)})
      IN  /\ IsNormal(a) /\ weight[a] # Zero => sum = One
          /\ (\A x, y \in arcs : IsTied(x) /\ IsTied(y) => x = y) /\ ~Less(One, locked)
               => ~Less(One, sum)

(* Tied arcs have one weight. *)
TiesHold ==
  Normalizing => \A a, b \in Params :
    Trained(a) /\ IsTied(a) /\ b \in TieGroup(a) => weight[a] = weight[b]

(* Normal arcs of a group share it in proportion to their evidence: all that was
   counted, with priors, on the composed arcs they are part of, each as often
   as they are, and nothing left over from earlier iterations. *)
EvidenceFor(a) ==
  Plus(SumOver([c \in Composed |-> Multiple(Chain[c][a], evidence[c])], Composed),
       opt.methods[ArcOf[a].machine].add_count)
Proportional ==
  Normalizing /\ evidence # NoEvidence =>
    \A a \in {p \in Params : Trained(p) /\ IsNormal(p)} :
      \A b \in NormGroup(a, opt.methods[ArcOf[a].machine].group) :
        IsNormal(b) => Times(weight[a], EvidenceFor(b)) = Times(weight[b], EvidenceFor(a))

=============================================================================
