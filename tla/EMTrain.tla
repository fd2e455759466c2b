------------------------------ MODULE EMTrain ------------------------------
(***************************************************************************)
(* carmel/src/train.cc, WFST::train: expectation-maximization training of  *)
(* a transducer, or of a cascade of transducers through their composition, *)
(* with over-relaxation, random restarts and a choice of the best weights. *)
(*                                                                         *)
(* A setting of all the trained weights is one value w of W.  What the     *)
(* arithmetic of an iteration computes is given by two functions: Ppx[w],  *)
(* the per-example perplexity of the corpus under w, and EM[w], the        *)
(* weights the counts collected under w normalize to.                      *)
(***************************************************************************)
EXTENDS TrainingCorpus

CONSTANTS
  W,          \* settings of the trained weights
  Ppx,        \* W -> perplexity, 1 (every example certain) or more
  EM,         \* W -> W
  Inf,        \* a perplexity above all others: of a corpus of probability 0
  Corpora,    \* the corpora to train on, sequences of examples
  Options     \* option records

EvaluateOnly == -1      \* max_iter for -M -1
OptionType ==
  [max_iter : Nat \cup {EvaluateOnly}, restarts : Nat,
   growth : BOOLEAN,    \* learning_rate_growth_factor > 1
   cascade : BOOLEAN,   \* --train-cascade
   mode : Modes, prune : BOOLEAN,
   slack : Nat,         \* converge_perplexity_ratio, as a difference
   tolerance : Nat]     \* --restart-tolerance, as a difference; Inf accepts all

ASSUME PpxAssumption == /\ Inf \in Nat
                        /\ Ppx \in [W -> Nat]
                        /\ \A w \in W : 1 <= Ppx[w] /\ Ppx[w] < Inf
ASSUME EMAssumption == EM \in [W -> W]
ASSUME EMImproves == \A w \in W : Ppx[EM[w]] <= Ppx[w]
ASSUME OptionAssumption == Options \subseteq OptionType
ASSUME CorpusAssumption == Corpora \subseteq Seq(Example)

(* What a set of arcs holds: weights, or the raw counts collected under the
   weights w, which normalize to EM[w]; "unset" is the zero of a fresh table *)
Arcs == [holds : {"weights", "counts", "unset"}, w : W]
Weights(w) == [holds |-> "weights", w |-> w]
Counts(w) == [holds |-> "counts", w |-> w]

VARIABLES
  pc,
  opt,
  corpus,
  composed,     \* the arcs of the composed machine, on which counts are collected
  parts,        \* cascade: the arcs of the machines that were composed
  none,         \* cascade: what a machine with --normby=N holds
  em_weight, best_weight,               \* arc_counts of the composed arcs
  counted,      \* the weights under which the present counts were collected
  restart_no, ran_restarts, train_iter,
  relaxed,      \* learning_rate > 1
  last_was_reset,
  have_good_weights,
  lastPerplexity, newPerplexity, bestPerplexity,
  best_start,   \* random_restart_acceptor
  first,        \* no pass over the corpus yet
  returned,
  seen          \* history: perplexities evaluated that may be kept as best

arcs == <<composed, parts, none, em_weight, best_weight, counted>>
loop == <<restart_no, ran_restarts, train_iter, relaxed, last_was_reset>>
judged == <<have_good_weights, lastPerplexity, newPerplexity, bestPerplexity, best_start>>
vars == <<pc, opt, corpus, arcs, loop, judged, first, returned, seen>>

first_time == train_iter = 1
using_cascade == opt.cascade

-----------------------------------------------------------------------------
(* Arithmetic of perplexities *)

(* p.ppxper(totalEmpiricalWeight) after a pass over c: infinite (or not a
   number, which compares alike) when the total is 0; the matrix multiplies
   by the probability 0 of an example without derivation, the others skip it *)
Perplexity(w, c, total) ==
  CASE total = 0 -> Inf
    [] total # 0 /\ opt.mode = "matrix" /\ BadExamples(c) # {} -> Inf
    [] total # 0 /\ opt.mode # "matrix" /\ GoodExamples(c) = {} -> 1
    [] OTHER -> Ppx[w]

(* relative_perplexity_ratio(lastPerplexity) >= converge_perplexity_ratio;
   the ratio is 0 or not a number for an infinite perplexity and for 1 *)
FailsToImprove(new, last) ==
  last < Inf /\ new < Inf /\ new # 1 /\ new + opt.slack >= last

(* random_restart_acceptor::accept, after the first start *)
Promising(new, reference) ==
  /\ new < Inf
  /\ reference = Inf \/ new < reference + opt.tolerance
  /\ ~(new = 1 /\ reference = 1)

-----------------------------------------------------------------------------
(* cascade_parameters *)

(* Variants ending in _Something are deliberate faults: substituted for the
   definition that follows, they must break a property (see README.md). *)
Updated_Skipped == composed

(* update(): the composed arcs get the products of the arcs they stand for *)
Updated == IF using_cascade THEN parts ELSE composed

(* use_counts(): distribute the composed arcs' counts and normalize *)
Normalized(a) ==
  IF a.holds = "counts" THEN Weights(EM[a.w]) ELSE [a EXCEPT !.holds = "unset"]

-----------------------------------------------------------------------------
Init ==
  /\ pc = "enter"
  /\ opt \in Options
  /\ corpus \in {CorpusOf(ex) : ex \in Corpora}
  /\ composed \in {Weights(w) : w \in W}
  /\ parts \in {Weights(w) : w \in W} /\ (~using_cascade => parts = composed)
  /\ none = "given"
  /\ em_weight = [holds |-> "unset", w |-> composed.w] /\ best_weight = em_weight
  /\ counted = composed.w
  /\ restart_no = 0 /\ ran_restarts = opt.restarts /\ train_iter = 0
  /\ relaxed = FALSE /\ last_was_reset = FALSE
  /\ have_good_weights = FALSE
  /\ lastPerplexity = Inf /\ newPerplexity = Inf /\ bestPerplexity = Inf
  /\ best_start = Inf
  /\ first = TRUE
  /\ returned = 0
  /\ seen = {}

Growing == opt.growth /\ ~using_cascade   \* overrelaxed EM is disabled for cascades

(* set_composed, normalize, the constructor of forward_backward, and the
   choice between evaluating, a single pass and iterating *)
Enter ==
  /\ pc = "enter"
  /\ corpus' = IF opt.mode = "cached" THEN CacheCorpus(corpus) ELSE corpus
  /\ pc' = IF opt.max_iter = EvaluateOnly THEN "evaluate"
           ELSE IF opt.max_iter = 0 \/ (opt.max_iter = 1 /\ opt.restarts = 0) THEN "single"
           ELSE "iterate"
  /\ UNCHANGED <<opt, arcs, loop, judged, first, returned, seen>>

(* forward_backward::estimate under what the composed arcs c hold.  It throws
   when no example is left *)
Estimate(c) ==
  /\ counted' = c.w
  /\ corpus' = Pass(corpus, opt.mode, opt.prune, first)
  /\ first' = FALSE
  /\ newPerplexity' = Perplexity(c.w, corpus, corpus'.total)

EvaluateCorpus ==
  /\ pc = "evaluate"
  /\ Estimate(composed)
  /\ IF corpus'.left = {} THEN pc' = "thrown" /\ UNCHANGED returned
                          ELSE pc' = "done" /\ returned' = newPerplexity'
  /\ UNCHANGED <<opt, composed, parts, none, em_weight, best_weight, loop, have_good_weights,
                 lastPerplexity, bestPerplexity, best_start, seen>>

(* max_iter = 0: leave the unnormalized counts in the arcs.  max_iter = 1
   without restarts: one maximization, not evaluated *)
SinglePass ==
  /\ pc = "single"
  /\ Estimate(Updated)
  /\ IF corpus'.left = {}
     THEN /\ pc' = "thrown"
          /\ composed' = Updated
          /\ UNCHANGED <<parts, none, returned>>
     ELSE /\ pc' = "done"
          /\ returned' = newPerplexity'
          /\ IF opt.max_iter = 0
             THEN /\ composed' = Counts(counted')
                  /\ parts' = IF using_cascade THEN Counts(counted') ELSE parts
                  /\ none' = IF using_cascade THEN "counts" ELSE none
             ELSE /\ composed' = Normalized(Counts(counted'))
                  /\ parts' = IF using_cascade THEN composed' ELSE parts
                  /\ UNCHANGED none
  /\ UNCHANGED <<opt, em_weight, best_weight, loop, have_good_weights,
                 lastPerplexity, bestPerplexity, best_start, seen>>

-----------------------------------------------------------------------------
(* Iterations *)

MaxIterReached == train_iter' > opt.max_iter /\ have_good_weights

(* the head of the inner loop; the counter saturates above max_iter + 1 *)
StartIteration ==
  /\ pc = "iterate"
  /\ train_iter' = IF train_iter > opt.max_iter + 1 THEN train_iter ELSE train_iter + 1
  /\ em_weight' = IF using_cascade /\ train_iter > 0 THEN composed ELSE em_weight
  /\ composed' = Updated
  /\ pc' = IF MaxIterReached THEN "restart" ELSE "estimate"
  /\ UNCHANGED <<opt, corpus, parts, none, best_weight, counted, restart_no, ran_restarts,
                 relaxed, last_was_reset, judged, first, returned, seen>>

(* a cascade keeps the counts its weights came from: none for the first *)
MayBeKept == using_cascade => ~first_time
NewBest_OfStart == newPerplexity' < lastPerplexity /\ MayBeKept
NewBest == newPerplexity' < bestPerplexity /\ MayBeKept
BestArcs_Composed == composed
BestArcs == IF using_cascade THEN em_weight ELSE composed

(* estimate, and save_best if the perplexity is a new best *)
EstimateAndSave ==
  /\ pc = "estimate"
  /\ Estimate(composed)
  /\ IF corpus'.left = {}
     THEN pc' = "thrown" /\ UNCHANGED <<bestPerplexity, have_good_weights, best_weight, seen>>
     ELSE /\ pc' = "judge"
          /\ bestPerplexity' = IF NewBest THEN newPerplexity' ELSE bestPerplexity
          /\ have_good_weights' = (have_good_weights \/ NewBest)
          /\ best_weight' = IF NewBest THEN BestArcs ELSE best_weight
          /\ seen' = IF MayBeKept THEN seen \cup {newPerplexity'} ELSE seen
  /\ UNCHANGED <<opt, composed, parts, none, em_weight, loop, lastPerplexity, best_start,
                 returned>>

Accepted == restart_no = 0 \/ Promising(newPerplexity, best_start)

(* the first iteration of a start: give it up if it is not promising *)
JudgeStart ==
  /\ pc = "judge" /\ first_time
  /\ best_start' = IF restart_no = 0 THEN newPerplexity ELSE best_start
  /\ pc' = IF Accepted THEN "maximize" ELSE "restart"
  /\ relaxed' = (relaxed \/ (Accepted /\ Growing))
  /\ UNCHANGED <<opt, corpus, arcs, restart_no, ran_restarts, train_iter, last_was_reset,
                 have_good_weights, lastPerplexity, newPerplexity, bestPerplexity,
                 first, returned, seen>>

Failed == ~first_time /\ ~last_was_reset /\ FailsToImprove(newPerplexity, lastPerplexity)

PlainEM_Kept == composed
PlainEM == em_weight

(* relaxation went too far: back to the plain EM weights, without judging them *)
ResetRate ==
  /\ pc = "judge" /\ Failed /\ relaxed
  /\ relaxed' = FALSE
  /\ last_was_reset' = TRUE
  /\ composed' = PlainEM
  /\ pc' = "iterate"
  /\ UNCHANGED <<opt, corpus, parts, none, em_weight, best_weight, counted, restart_no,
                 ran_restarts, train_iter, judged, first, returned, seen>>

(* converged; a cascade that has no weights it can go back to goes on *)
Converge ==
  /\ pc = "judge" /\ Failed /\ ~relaxed
  /\ pc' = IF have_good_weights THEN "restart" ELSE "maximize"
  /\ UNCHANGED <<opt, corpus, arcs, loop, judged, first, returned, seen>>

GoOn ==
  /\ pc = "judge" /\ ~first_time /\ ~Failed
  /\ relaxed' = (relaxed \/ (~last_was_reset /\ Growing))
  /\ last_was_reset' = FALSE
  /\ pc' = "maximize"
  /\ UNCHANGED <<opt, corpus, arcs, restart_no, ran_restarts, train_iter, judged, first,
                 returned, seen>>

(* maximize: counts become the new weights; a cascade's composed arcs keep the
   counts until the next update(), over-relaxed weights can be any.  The
   machines with --normby=N get back what save_none kept *)
Maximize ==
  /\ pc = "maximize"
  /\ LET new == Normalized(Counts(counted))
     IN  IF using_cascade
         THEN /\ composed' = Counts(counted)
              /\ parts' = new
              /\ UNCHANGED em_weight
         ELSE /\ em_weight' = new
              /\ IF relaxed THEN \E w \in W : composed' = Weights(w) ELSE composed' = new
              /\ UNCHANGED parts
  /\ \E small \in BOOLEAN :      \* lastChange <= converge_arc_delta
       /\ using_cascade => ~small
       /\ ~using_cascade /\ composed' = composed => small
       /\ IF small /\ have_good_weights
          THEN pc' = "restart" /\ UNCHANGED lastPerplexity
          ELSE pc' = "iterate" /\ lastPerplexity' = newPerplexity
  /\ UNCHANGED <<opt, corpus, none, best_weight, counted, loop, have_good_weights, newPerplexity,
                 bestPerplexity, best_start, first, returned, seen>>

MoreStarts == ran_restarts > 0
StartsLeft_Kept == ran_restarts
StartsLeft == ran_restarts - 1

(* the tail of the outer loop: another start from random weights, or none;
   restart_no does not count beyond the starts there can be *)
Restart ==
  /\ pc = "restart"
  /\ IF MoreStarts
     THEN /\ pc' = "iterate"
          /\ ran_restarts' = StartsLeft
          /\ restart_no' = IF restart_no < opt.restarts THEN restart_no + 1 ELSE restart_no
          /\ \E w \in W :
               IF using_cascade THEN parts' = Weights(w) /\ UNCHANGED composed
                                ELSE composed' = Weights(w) /\ UNCHANGED parts
          /\ train_iter' = 0
          /\ relaxed' = FALSE /\ last_was_reset' = FALSE
          /\ lastPerplexity' = Inf
     ELSE /\ pc' = "load"
          /\ UNCHANGED <<ran_restarts, restart_no, composed, parts, train_iter, relaxed,
                         last_was_reset, lastPerplexity>>
  /\ UNCHANGED <<opt, corpus, none, em_weight, best_weight, counted, have_good_weights,
                 newPerplexity, bestPerplexity, best_start, first, returned, seen>>

(* load_best and use_counts_final *)
Load ==
  /\ pc = "load"
  /\ IF using_cascade
     THEN /\ parts' = Normalized(best_weight)
          /\ composed' = parts'
     ELSE /\ composed' = best_weight
          /\ UNCHANGED parts
  /\ returned' = bestPerplexity
  /\ pc' = "done"
  /\ UNCHANGED <<opt, corpus, none, em_weight, best_weight, counted, loop, judged, first, seen>>

Terminated == pc \in {"done", "thrown"} /\ UNCHANGED vars

Step ==
  \/ Enter \/ EvaluateCorpus \/ SinglePass
  \/ StartIteration \/ EstimateAndSave
  \/ JudgeStart \/ ResetRate \/ Converge \/ GoOn
  \/ Maximize \/ Restart \/ Load

Next == Step \/ Terminated

Spec == Init /\ [][Next]_vars /\ WF_vars(Step)

-----------------------------------------------------------------------------
(* Properties *)

Finished == pc \in {"done", "thrown"}
Iterating == pc \in {"iterate", "estimate", "judge", "maximize", "restart", "load"}
Trained == IF using_cascade THEN parts ELSE composed
Quality(w) == Perplexity(w, corpus, corpus.total)

TypeOK ==
  /\ pc \in {"enter", "evaluate", "single", "iterate", "estimate", "judge", "maximize",
             "restart", "load", "done", "thrown"}
  /\ opt \in OptionType
  /\ composed \in Arcs /\ parts \in Arcs /\ em_weight \in Arcs /\ best_weight \in Arcs
  /\ none \in {"given", "counts"}
  /\ counted \in W
  /\ restart_no \in Nat /\ ran_restarts \in Nat /\ train_iter \in Nat
  /\ relaxed \in BOOLEAN /\ last_was_reset \in BOOLEAN
  /\ have_good_weights \in BOOLEAN /\ first \in BOOLEAN
  /\ lastPerplexity \in 0..Inf /\ newPerplexity \in 0..Inf /\ bestPerplexity \in 0..Inf
  /\ best_start \in 0..Inf /\ returned \in 0..Inf
  /\ seen \subseteq 0..Inf

(* Counts are only ever collected with arcs that hold weights, and for a
   cascade with the present products of its machines' weights: update() always
   comes between a maximization, which leaves raw counts in the composed arcs,
   and the next estimate. *)
CollectsUnderWeights ==
  pc \in {"estimate", "judge", "maximize"} =>
    /\ pc = "estimate" => composed.holds = "weights" /\ composed = Updated
    /\ pc # "estimate" => counted = composed.w

(* Whenever training stops after several iterations, the machines are left with
   weights of the perplexity it reports, although by then they have been
   replaced by later iterations and starts, and although for a cascade only the
   counts those weights came from were kept. *)
BestReturned ==
  (pc = "done" /\ opt.max_iter # EvaluateOnly /\ (opt.max_iter > 1 \/ opt.restarts > 0)
     /\ opt.max_iter > 0) =>
    /\ Trained.holds = "weights"
    /\ Quality(Trained.w) = returned

(* "Setting weights to model with lowest per-example-perplexity": of all the
   weights evaluated and within reach, none was better than those reported. *)
LowestReturned == pc = "load" => \A q \in seen : bestPerplexity <= q

(* Within a start the perplexity that iterations are compared with never gets
   worse, over-relaxed steps that fail and are taken back included. *)
Descends ==
  [][train_iter' >= train_iter => lastPerplexity' <= lastPerplexity]_vars

(* Training comes to an end. *)
Terminates == <>Finished

(* "totalEmpiricalWeight; // # of examples, if each is weighted equally": the
   perplexity is taken over the examples that have a derivation or, where bad ones
   are kept or erased without a recount, over all that were read; each counts once. *)
WithDerivation(ex) == {j \in Places(ex) : ex[j].ok}
TotalCountsExamples ==
  ~first => \E used \in {WithDerivation(corpus.ex), Places(corpus.ex)} :
              corpus.total = TotalWeight(corpus.ex, used)
=============================================================================
