------------------------------- MODULE MCGibbs -------------------------------
(***************************************************************************)
(* Gibbs with four parameters: two sharing a scaled group, one alone in a  *)
(* group whose prior is fixed, one locked; and two blocks, the second with *)
(* weight 2.                                                               *)
(***************************************************************************)
EXTENDS Gibbs

MCNorm == <<1, 1, 2, 0>>
MCMetanorm == <<1, 0>>
MCPrior0 == <<1, 2, 1, 1>>
MCWeight == <<1, 2>>
MCDeriv == << {<<1, 0, 1, 0>>, <<0, 1, 0, 1>>}, {<<2, 0, 0, 0>>, <<0, 1, 1, 0>>} >>
MCRatio == {1, 2}

Default ==
  [iter |-> 2, burnin |-> 0, restarts |-> 0, final_counts |-> FALSE,
   exclude_prior |-> FALSE, include_self |-> FALSE, cache_prob |-> TRUE,
   expectation |-> FALSE, random_start |-> FALSE, inference |-> FALSE,
   inference_start |-> 0, inference_end |-> 0, restart_fresh |-> FALSE,
   argmax |-> "all", pinit |-> FALSE]

(* one start: every way of averaging the counts *)
AveragingOptions ==
  {[Default EXCEPT !.burnin = b, !.final_counts = f, !.exclude_prior = e, !.include_self = s,
                   !.cache_prob = s] :
     b \in 0..3, f \in BOOLEAN, e \in BOOLEAN, s \in BOOLEAN}

(* one start with inference of the priors over some of the iterations *)
InferenceOptions ==
  {[Default EXCEPT !.inference = TRUE, !.burnin = b, !.inference_start = s,
                   !.inference_end = e, !.cache_prob = c, !.expectation = x] :
     b \in 0..1, s \in 0..1, e \in {0, 2}, c \in BOOLEAN, x \in BOOLEAN}

(* restarts of one iteration, under every criterion *)
RestartOptions ==
  {[Default EXCEPT !.iter = 1, !.restarts = 2, !.argmax = a, !.expectation = x,
                   !.final_counts = f, !.pinit = TRUE] :
     a \in Crit, x \in BOOLEAN, f \in BOOLEAN}

(* two starts with inference of the priors, kept or made fresh in between *)
FreshOptions ==
  {[Default EXCEPT !.iter = 1, !.restarts = 1, !.inference = TRUE, !.restart_fresh = f,
                   !.burnin = b] :
     f \in BOOLEAN, b \in 0..1}

OneStartOptions == AveragingOptions \cup InferenceOptions
StartsOptions == RestartOptions \cup FreshOptions

OneBlockDeriv == << {<<1, 0, 1, 0>>, <<0, 2, 0, 1>>} >>
OneWeight == <<2>>
=============================================================================
