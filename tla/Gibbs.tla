-------------------------------- MODULE Gibbs --------------------------------
(***************************************************************************)
(* graehl/shared/gibbs.hpp (gibbs_base, gibbs_param) with the options and  *)
(* statistics of gibbs_opts.hpp: blocked Gibbs sampling with random        *)
(* restarts, averaged counts and inference of the prior scale.             *)
(*                                                                         *)
(* A training example is a block; resampling it picks one derivation,      *)
(* which uses some parameters some number of times (block_delta: a bag of  *)
(* parameter ids; with --expectation, weighted ids).  The pseudocount of a *)
(* parameter is its prior plus its uses in the current sample of every     *)
(* block.  Arrays indexed from 0 in C++ are indexed from 1 here.           *)
(*                                                                         *)
(* Random choices (derivation, prior scale, acceptance) and the sample     *)
(* probability, a real number in the code, are arbitrary: every ordering   *)
(* of probabilities between starts occurs.                                 *)
(***************************************************************************)
EXTENDS DeltaSum, Sums, Sequences

CONSTANTS
  NParam, NBlock, NGroup, NScale,
  Norm,         \* Params -> Groups or NONORM: gibbs_param.norm
  Metanorm,     \* Groups -> 1..NScale, or 0 (never scaled): prior_scale
  Prior0,       \* Params -> Nat: the priors given to define_param
  Weight,       \* Blocks -> Nat: imp.block_weight
  Deriv,        \* Blocks -> set of derivations, as bags of parameters
  Options,      \* the option records the program may be started with
  Ratio,        \* the factors a prior may be scaled by
  Prob          \* the probabilities a sample may have

Params == 1..NParam
Blocks == 1..NBlock
Groups == 1..NGroup
Scales == 1..NScale
NONORM == 0
Occ == [Params -> Nat]
EmptyBlock == [i \in Params |-> 0]

Crit == {"all", "sum", "final"}
OptionType ==
  [iter : Nat, burnin : Nat, restarts : Nat, final_counts : BOOLEAN,
   exclude_prior : BOOLEAN, include_self : BOOLEAN, cache_prob : BOOLEAN,
   expectation : BOOLEAN, random_start : BOOLEAN, inference : BOOLEAN,
   inference_start : Nat, inference_end : Nat, restart_fresh : BOOLEAN,
   argmax : Crit,
   pinit : BOOLEAN]     \* carmel_gibbs::pinit_differs_p0: --init-em or --init-from-p0

ASSUME SizeAssumption == /\ NParam \in Nat /\ NBlock \in Nat
                         /\ NGroup \in Nat /\ NScale \in Nat
ASSUME NormAssumption == /\ Norm \in [Params -> Groups \cup {NONORM}]
                         /\ Metanorm \in [Groups -> 0..NScale]
ASSUME ModelAssumption == /\ Prior0 \in [Params -> Nat]
                          /\ Weight \in [Blocks -> Nat]
                          /\ Deriv \in [Blocks -> SUBSET Occ]
ASSUME ChoiceAssumption == /\ Options \subseteq OptionType
                           /\ Ratio \subseteq Nat \ {0}
                           /\ Prob \subseteq Nat

VARIABLES
  pc,           \* the next step of run_starts / run / iteration
  gopt,         \* the validated options
  r,            \* run_starts: which start
  prior,        \* gps[i].prior
  sumcount,     \* gps[i].sumcount
  normsum,      \* per group, the sum of the counts of its parameters
  sample,       \* the current sample of each block
  pcount, psum, \* cache model: the priors, and their sums by group
  ccount, csum, \* cache model: plus the uses seen so far
  cumulative,   \* prior_scale.cumulative: product of accepted ratios
  scales,       \* the ratios being tried
  undo,         \* pcount1 and psum1 of propose_new_priors
  iter, time, blk,
  saved,        \* include_self_save
  p,            \* iteration(): probability of the sample so far
  init_prob,    \* carmel_gibbs: draw from the initial weights, not the counts
  stats,        \* of this start
  priors,       \* run_starts: the priors restored at each fresh start
  best, best_counts, best_sample,
  uses,         \* history: uses of each parameter over the averaged samples
  outcomes      \* history: what each finished start produced

numbers == <<prior, sumcount, normsum>>
cache == <<pcount, psum, ccount, csum>>
scaling == <<cumulative, scales, undo>>
drawing == <<saved, p, init_prob>>
position == <<iter, time, blk>>
chosen == <<priors, best, best_counts, best_sample>>
history == <<uses, outcomes>>
vars == <<pc, gopt, r, numbers, sample, cache, scaling, position, drawing,
          stats, chosen, history>>

-----------------------------------------------------------------------------
(* Options *)

(* Variants ending in _Something are deliberate faults: substituted for the
   definition that follows, they must break a property (see README.md). *)
AtMost(a, b) == IF a > b THEN b ELSE a

(* gibbs_opts::validate *)
Validate(o) ==
  [o EXCEPT !.burnin = IF o.final_counts THEN o.iter ELSE AtMost(@, o.iter),
            !.cache_prob = @ \/ o.restarts > 0]

use_cache_prob == ~gopt.expectation /\ (gopt.cache_prob \/ gopt.inference)
burning == iter >= gopt.burnin
final_t == gopt.iter - gopt.burnin

inferring ==
  LET start == IF gopt.inference_start # 0 THEN gopt.inference_start ELSE gopt.burnin
  IN  /\ gopt.inference
      /\ start <= iter
      /\ gopt.inference_end = 0 \/ iter < gopt.inference_end

-----------------------------------------------------------------------------
(* Counts *)

HasNorm(i) == Norm[i] # NONORM
Count(i) == sumcount[i].x

(* what the members of group g have in v, summed *)
GroupSum(v, g) == SumTo([i \in Params |-> IF Norm[i] = g THEN v[i] ELSE 0], NParam)

(* the weighted uses of parameter i in the samples of all blocks *)
UsesIn(smp, i) == SumTo([b \in Blocks |-> Weight[b] * smp[b][i]], NBlock)

(* addc(block, d) at time t: on the parameters, and on the group sums *)
AddUses_Once(sc, block, d, t) ==
  [i \in Params |-> IF HasNorm(i) /\ block[i] > 0 THEN AddDelta(sc[i], d, t) ELSE sc[i]]
AddUses(sc, block, d, t) ==
  [i \in Params |-> IF HasNorm(i) /\ block[i] > 0 THEN AddDelta(sc[i], d * block[i], t)
                    ELSE sc[i]]
AddToNorms(ns, block, d) == [g \in Groups |-> ns[g] + d * GroupSum(block, g)]

compute_norms(sc) == [g \in Groups |-> GroupSum([i \in Params |-> sc[i].x], g)]

(* gibbs_base::restore_p0, for every parameter *)
restore_p0_KeepsPast(pr, sc) ==
  [i \in Params |-> IF HasNorm(i) THEN [sc[i] EXCEPT !.x = pr[i]] ELSE sc[i]]
restore_p0(pr, sc) == [i \in Params |-> IF HasNorm(i) THEN Clear(pr[i]) ELSE sc[i]]

(* finalize_cumulative_counts: leave in count() the total over the averaged
   samples, with or without one prior per sample *)
exclude_prior(sc) ==
  IF gopt.exclude_prior
  THEN [i \in Params |-> IF HasNorm(i) THEN AddBase(sc[i], -prior[i]) ELSE sc[i]]
  ELSE sc
final_counts_ShortByOne(ds, tmax1) == LET e == Extend(ds, tmax1 - 1) IN [e EXCEPT !.x = e.s]
final_counts(ds, tmax1) == LET e == Extend(ds, tmax1) IN [e EXCEPT !.x = e.s]
Finalized ==
  [i \in Params |->
     IF HasNorm(i) /\ ~gopt.final_counts
     THEN final_counts(exclude_prior(sumcount)[i], final_t + 1)
     ELSE exclude_prior(sumcount)[i]]
FinalNorms_PriorKept == IF gopt.final_counts THEN normsum ELSE compute_norms(Finalized)
FinalNorms ==
  IF gopt.final_counts /\ ~gopt.exclude_prior THEN normsum ELSE compute_norms(Finalized)

(* scale_prior and metanorm::scale_priors.  ScaledBy is the new prior *)
ScaleOf(i) == IF HasNorm(i) THEN Metanorm[Norm[i]] ELSE 0
ScalePriors(new) ==
  /\ prior' = new
  /\ sumcount' = [i \in Params |-> IF ScaleOf(i) > 0
                                   THEN AddBase(sumcount[i], new[i] - prior[i])
                                   ELSE sumcount[i]]
  /\ normsum' = [g \in Groups |->
                   normsum[g] + GroupSum([i \in Params |-> new[i] - prior[i]], g)]
ScaledUp(k) == [i \in Params |-> IF ScaleOf(i) > 0 THEN prior[i] * k[ScaleOf(i)] ELSE prior[i]]
ScaledBack(k) ==
  [i \in Params |-> IF ScaleOf(i) > 0 THEN prior[i] \div k[ScaleOf(i)] ELSE prior[i]]

(* the cache model: recompute_cache_priors *)
CachePriors(pr) == [i \in Params |-> IF HasNorm(i) THEN pr[i] ELSE 0]
CacheSums(pr) == [g \in Groups |-> GroupSum(pr, g)]
SeeUses(cc, block) == [i \in Params |-> IF HasNorm(i) THEN cc[i] + block[i] ELSE cc[i]]
SeeAll(smp) == [i \in Params |-> SumTo([b \in Blocks |-> smp[b][i]], NBlock)]

-----------------------------------------------------------------------------
(* Statistics *)

NoStats == [n |-> 0, sum |-> 0, all |-> 1, final |-> 1]
record(st, q) == [n |-> st.n + 1, sum |-> st.sum + q, all |-> st.all * q, final |-> q]
Score(st) == st[gopt.argmax]
better_OrEqual(a, b) == Score(a) >= Score(b)
better(a, b) == Score(a) > Score(b)

-----------------------------------------------------------------------------
(* run_starts, run and iteration, step by step *)

Init ==
  /\ pc = "init"
  /\ gopt \in {Validate(o) : o \in Options}
  /\ r = 0
  /\ prior = Prior0 /\ priors = Prior0
  /\ sumcount = [i \in Params |-> Clear(0)]
  /\ normsum = [g \in Groups |-> 0]
  /\ sample = [b \in Blocks |-> EmptyBlock] /\ best_sample = sample
  /\ pcount = EmptyBlock /\ ccount = EmptyBlock
  /\ psum = normsum /\ csum = normsum
  /\ cumulative = [m \in Scales |-> 1] /\ scales = cumulative
  /\ undo = [pcount |-> pcount, psum |-> psum]
  /\ iter = 0 /\ time = 0 /\ blk = 1
  /\ saved = EmptyBlock
  /\ p = 1
  /\ init_prob = FALSE
  /\ stats = NoStats /\ best = NoStats
  /\ best_counts = EmptyBlock
  /\ uses = EmptyBlock
  /\ outcomes = <<>>

recompute_cache_priors(pr) ==
  /\ pcount' = IF use_cache_prob THEN CachePriors(pr) ELSE pcount
  /\ psum' = IF use_cache_prob THEN CacheSums(pr) ELSE psum

(* run_starts, before its loop *)
RunStarts ==
  /\ pc = "init"
  /\ recompute_cache_priors(prior)
  /\ ccount' = pcount' /\ csum' = psum'
  /\ cumulative' = [m \in Scales |-> 1]
  /\ priors' = prior
  /\ pc' = "start"
  /\ UNCHANGED <<gopt, r, numbers, sample, scales, undo, position, drawing, stats,
                 best, best_counts, best_sample, history>>

(* one turn of run_starts' loop, and run() up to its first iteration *)
StartRun ==
  /\ pc = "start"
  /\ LET restored == r > 0 /\ gopt.restart_fresh
         pr == IF restored THEN priors ELSE prior
     IN  /\ prior' = pr
         /\ IF restored
            THEN recompute_cache_priors(pr) /\ cumulative' = [m \in Scales |-> 1]
            ELSE UNCHANGED <<pcount, psum, cumulative>>
         /\ sumcount' = restore_p0(pr, sumcount)
         /\ normsum' = CacheSums(pr)
  /\ stats' = NoStats
  /\ iter' = 0 /\ time' = 0
  /\ sample' = [b \in Blocks |-> EmptyBlock]
  /\ uses' = EmptyBlock
  /\ init_prob' = (r = 0 /\ gopt.pinit)     \* imp.init_run(r)
  /\ pc' = "iteration"
  /\ UNCHANGED <<gopt, r, ccount, csum, scales, undo, blk, saved, p, chosen, outcomes>>

(* the cache model before the first block: nothing is seen *)
reset_cache_CountsKept ==
  UNCHANGED ccount /\ csum' = IF use_cache_prob THEN psum ELSE csum
reset_cache ==
  IF use_cache_prob THEN ccount' = pcount /\ csum' = psum ELSE UNCHANGED <<ccount, csum>>

BeginIteration ==
  /\ pc = "iteration"
  /\ reset_cache
  /\ p' = 1
  /\ init_prob' = (init_prob /\ iter = 0)   \* imp.init_iteration(iter)
  /\ blk' = 1
  /\ pc' = IF NBlock > 0 THEN "remove" ELSE "propose"
  /\ UNCHANGED <<gopt, r, numbers, sample, pcount, psum, scaling, iter, time, saved,
                 stats, chosen, history>>

RemoveBlock ==
  /\ pc = "remove"
  /\ IF gopt.include_self
     THEN saved' = sample[blk] /\ UNCHANGED <<sumcount, normsum>>
     ELSE /\ saved' = EmptyBlock
          /\ sumcount' = AddUses(sumcount, sample[blk], -Weight[blk], time)
          /\ normsum' = AddToNorms(normsum, sample[blk], -Weight[blk])
  /\ sample' = [sample EXCEPT ![blk] = EmptyBlock]
  /\ pc' = "resample"
  /\ UNCHANGED <<gopt, r, prior, cache, scaling, position, p, init_prob, stats, chosen, history>>

(* with --expectation the initial counts of a restart are scaled by random
   numbers below 1 (here 0 or 1), and the probability of that sample is 0 *)
Randomizing ==
  gopt.expectation /\ iter = 0 /\ (gopt.random_start \/ r > 0)
Shrunk(d) == {[i \in Params |-> IF i \in kept THEN d[i] ELSE 0] : kept \in SUBSET Params}

ResampleBlock ==
  /\ pc = "resample"
  /\ \E d \in Deriv[blk] :
       IF Randomizing
       THEN /\ \E o \in Shrunk(d) : sample' = [sample EXCEPT ![blk] = o]
            /\ p' = 0
       ELSE /\ sample' = [sample EXCEPT ![blk] = d]
            /\ \E q \in Prob : p' = p * q
  /\ IF gopt.cache_prob /\ ~gopt.expectation
     THEN /\ ccount' = SeeUses(ccount, sample'[blk])
          /\ csum' = AddToNorms(csum, sample'[blk], 1)
     ELSE UNCHANGED <<ccount, csum>>
  /\ pc' = "add"
  /\ UNCHANGED <<gopt, r, numbers, pcount, psum, scaling, position, saved, init_prob, stats,
                 chosen, history>>

AddBlock ==
  /\ pc = "add"
  /\ LET w == Weight[blk]
         without == AddUses(sumcount, saved, -w, time)  \* saved is empty unless include_self
     IN  /\ sumcount' = AddUses(without, sample[blk], w, time)
         /\ normsum' = AddToNorms(AddToNorms(normsum, saved, -w), sample[blk], w)
  /\ blk' = blk + 1
  /\ pc' = IF blk < NBlock THEN "remove" ELSE "propose"
  /\ UNCHANGED <<gopt, r, prior, sample, cache, scaling, iter, time, drawing, stats,
                 chosen, history>>

(* propose_new_priors, up to the coin toss *)
ProposePriors ==
  /\ pc = "propose" /\ iter > 0 /\ inferring
  /\ ~gopt.expectation
  /\ undo' = [pcount |-> pcount, psum |-> psum]
  /\ \E k \in [Scales -> Ratio] :
       /\ scales' = k
       /\ ScalePriors(ScaledUp(k))
       /\ cumulative' = [m \in Scales |-> cumulative[m] * k[m]]
  /\ recompute_cache_priors(prior')
  /\ LET all == SeeAll(sample)
     IN  ccount' = SeeUses(pcount', all) /\ csum' = AddToNorms(psum', all, 1)
  /\ pc' = "judge"
  /\ UNCHANGED <<gopt, r, sample, position, drawing, stats, chosen, history>>

AcceptPriors ==
  /\ pc = "judge"
  /\ pc' = "record"
  /\ UNCHANGED <<gopt, r, numbers, sample, cache, scaling, position, drawing, stats,
                 chosen, history>>

RejectPriors_ScaleKept ==
  /\ pc = "judge"
  /\ pcount' = undo.pcount /\ psum' = undo.psum
  /\ ScalePriors(ScaledBack(scales))
  /\ pc' = "record"
  /\ UNCHANGED <<gopt, r, sample, ccount, csum, scaling, position, drawing, stats,
                 chosen, history>>
RejectPriors ==
  /\ pc = "judge"
  /\ pcount' = undo.pcount /\ psum' = undo.psum
  /\ ScalePriors(ScaledBack(scales))
  /\ cumulative' = [m \in Scales |-> cumulative[m] \div scales[m]]
  /\ pc' = "record"
  /\ UNCHANGED <<gopt, r, sample, ccount, csum, scales, undo, position, drawing, stats,
                 chosen, history>>

(* propose_new_priors throws: prior inference needs the cache model *)
Unimplemented ==
  /\ pc = "propose" /\ iter > 0 /\ inferring
  /\ gopt.expectation
  /\ pc' = "error"
  /\ UNCHANGED <<gopt, r, numbers, sample, cache, scaling, position, drawing, stats,
                 chosen, history>>

(* record_iteration, and the head of run()'s loop *)
RecordIteration_Stalls ==
  /\ pc = "record" \/ (pc = "propose" /\ ~(iter > 0 /\ inferring))
  /\ IF burning
     THEN /\ stats' = record(stats, p)
          /\ uses' = [i \in Params |-> uses[i] + UsesIn(sample, i)]
     ELSE UNCHANGED <<stats, uses>>
  /\ iter' = IF burning THEN iter + 1 ELSE iter
  /\ IF iter < gopt.iter
     THEN time' = iter' - AtMost(gopt.burnin, iter') /\ pc' = "iteration"
     ELSE time' = time /\ pc' = "endrun"
  /\ UNCHANGED <<gopt, r, numbers, sample, cache, scaling, blk, drawing, chosen, outcomes>>
RecordIteration ==
  /\ pc = "record" \/ (pc = "propose" /\ ~(iter > 0 /\ inferring))
  /\ IF burning
     THEN /\ stats' = record(stats, p)
          /\ uses' = [i \in Params |-> uses[i] + UsesIn(sample, i)]
     ELSE UNCHANGED <<stats, uses>>
  /\ iter' = iter + 1
  /\ IF iter < gopt.iter
     THEN time' = iter' - AtMost(gopt.burnin, iter') /\ pc' = "iteration"
     ELSE time' = time /\ pc' = "endrun"
  /\ UNCHANGED <<gopt, r, numbers, sample, cache, scaling, blk, drawing, chosen, outcomes>>

(* what a finished start amounts to: its total uses over the samples from
   burnin to the last, each with the prior unless that is excluded *)
Averaged ==
  [i \in Params |->
     IF ~HasNorm(i) THEN 0
     ELSE uses[i] + (IF gopt.exclude_prior THEN 0 ELSE prior[i] * (final_t + 1))]

(* the rest of the loop of run_starts *)
EndRun ==
  /\ pc = "endrun"
  /\ IF r = 0 \/ better(stats, best)
     THEN /\ best' = stats
          /\ sumcount' = Finalized
          /\ normsum' = FinalNorms
          /\ best_counts' = [i \in Params |-> Finalized[i].x]
          /\ best_sample' = sample
          /\ sample' = best_sample
     ELSE UNCHANGED <<best, sumcount, normsum, best_counts, best_sample, sample>>
  /\ outcomes' = Append(outcomes, [score |-> Score(stats), final |-> stats.final,
                                   sample |-> sample, counts |-> Averaged])
  /\ r' = r + 1
  /\ pc' = IF r < gopt.restarts THEN "start" ELSE "finish"
  /\ UNCHANGED <<gopt, prior, cache, scaling, position, drawing, stats, priors, uses>>

(* run_starts, after its loop *)
FinishStarts ==
  /\ pc = "finish"
  /\ sample' = best_sample
  /\ best_sample' = sample
  /\ IF gopt.restarts > 0
     THEN /\ sumcount' = [i \in Params |-> [sumcount[i] EXCEPT !.x = best_counts[i]]]
          /\ normsum' = compute_norms(sumcount')
     ELSE UNCHANGED <<sumcount, normsum>>
  /\ pc' = "done"
  /\ UNCHANGED <<gopt, r, prior, cache, scaling, position, drawing, stats, priors,
                 best, best_counts, history>>

Terminated == pc \in {"done", "error"} /\ UNCHANGED vars

Step ==
  \/ RunStarts \/ StartRun \/ BeginIteration
  \/ RemoveBlock \/ ResampleBlock \/ AddBlock
  \/ ProposePriors \/ AcceptPriors \/ RejectPriors \/ Unimplemented
  \/ RecordIteration \/ EndRun \/ FinishStarts

Next == Step \/ Terminated

Spec == Init /\ [][Next]_vars /\ WF_vars(Step)

-----------------------------------------------------------------------------
(* Properties *)

TypeOK ==
  /\ pc \in {"init", "start", "iteration", "remove", "resample", "add", "propose",
             "judge", "record", "endrun", "finish", "done", "error"}
  /\ gopt \in OptionType
  /\ r \in Nat /\ iter \in Nat /\ time \in Nat
  /\ blk \in 1..(NBlock + 1)
  /\ pc \in {"remove", "resample", "add"} => blk \in Blocks
  /\ prior \in Occ /\ priors \in Occ /\ uses \in Occ /\ saved \in Occ
  /\ sample \in [Blocks -> Occ] /\ best_sample \in [Blocks -> Occ]
  /\ sumcount \in [Params -> DS]
  /\ normsum \in [Groups -> Int]
  /\ best_counts \in [Params -> Int]
  /\ scales \in [Scales -> Nat \ {0}]
  /\ stats \in [n : Nat, sum : Nat, all : Nat, final : Nat]
  /\ p \in Nat
  /\ init_prob \in BOOLEAN

(* Between restore_p0 and the end of a run, the blocks whose uses are in the
   counts: while a block is being resampled, what it held before. *)
Counted ==
  IF pc \in {"resample", "add"} THEN [sample EXCEPT ![blk] = saved] ELSE sample
Held(i) == UsesIn(Counted, i)
Running == {"iteration", "remove", "resample", "add", "propose", "judge", "record", "endrun"}

(* The counts are never out of step with the samples: the count of every
   parameter is its prior plus its weighted uses in the current samples.  Each
   addc(block, -wt) takes away what addc(block, wt) had put in. *)
CountsExplained ==
  pc \in Running =>
    \A i \in Params : HasNorm(i) =>
      Count(i) = prior[i] + Held(i)

(* normsum is the denominator of every proposal probability: it stays the sum
   of the counts of its group through block moves, prior scaling, finalizing
   and the restoring of the best start. *)
NormsAgree ==
  \A g \in Groups : normsum[g] = GroupSum([i \in Params |-> Count(i)], g)

(* The averaged counts are exact: finalizing the deltas recorded so far gives
   the uses summed over the samples from burnin on, each with one prior (the
   final one, however often it was rescaled) unless priors are excluded. *)
AverageExact ==
  pc = "endrun" =>
    /\ \A i \in Params : HasNorm(i) => Finalized[i].x = Averaged[i]
    /\ stats.n = final_t + 1

(* delta_sum is never asked for a sum it has forgotten (it would throw), and
   addc's assertion time >= tmax holds at every change. *)
PastNotAsked ==
  \A i \in Params : HasNorm(i) =>
    /\ pc \in Running => sumcount[i].tmax <= time
    /\ pc = "endrun" => CanReach(sumcount[i], final_t + 1)

(* The blocks whose uses the cache model has seen so far: with cache_prob those
   resampled in this iteration, and all of them when proposed priors are judged. *)
SeenBlocks ==
  IF pc = "judge" THEN Blocks
  ELSE IF ~gopt.cache_prob THEN {}
  ELSE IF pc = "add" THEN 1..blk ELSE 1..(blk - 1)
SeenUses(smp, seen, i) == SumTo([b \in Blocks |-> IF b \in seen THEN smp[b][i] ELSE 0], NBlock)

PriorsCached == pcount = CachePriors(prior) /\ psum = CacheSums(prior)
UsesCached ==
  pc \in {"remove", "resample", "add", "propose", "judge"} =>
    /\ \A i \in Params : HasNorm(i) => ccount[i] = prior[i] + SeenUses(sample, SeenBlocks, i)
    /\ \A g \in Groups : csum[g] = GroupSum(ccount, g)

(* The cache model is never out of step with priors and samples.  Its copy of
   the priors follows every change of them: fresh restarts, proposals, rejected
   proposals.  Within an iteration its counts are the present priors and the uses
   in the samples drawn since the iteration began, of all samples when proposed
   priors are judged, and its denominators are the sums of these counts; nothing
   is left in them of an earlier iteration or a rejected proposal. *)
CacheCoherent == (use_cache_prob /\ pc # "init") => PriorsCached /\ UsesCached

(* prior_scale.cumulative, printed as the inferred scale, is what the initial
   priors have really been multiplied by, whatever was rejected or restored. *)
ScaleTracked ==
  pc # "init" =>
    \A i \in Params :
      prior[i] = Prior0[i] * (IF ScaleOf(i) > 0 THEN cumulative[ScaleOf(i)] ELSE 1)

(* run_starts returns: every run has finitely many iterations. *)
Terminates == <>(pc \in {"done", "error"})

(* run_starts keeps the best start: what it leaves in sample and the counts is
   the outcome of the first start with the best statistic, whichever start
   ran last. *)
Selection == INSTANCE StartSelection WITH
  Score <- LAMBDA o : o.score,
  best <- IF r = 0 THEN {}
          ELSE {[score |-> Score(best), final |-> best.final,
                 sample |-> IF pc = "done" THEN sample ELSE best_sample,
                 counts |-> best_counts]},
  reported <- IF pc = "done"
              THEN {[score |-> Score(best), final |-> best.final,
                     sample |-> sample, counts |-> [i \in Params |-> Count(i)]]}
              ELSE {}
SelectsBest == Selection!Spec
=============================================================================
