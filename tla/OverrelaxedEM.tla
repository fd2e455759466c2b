---------------------------- MODULE OverrelaxedEM ----------------------------
(***************************************************************************)
(* graehl/shared/em.hpp, overrelaxed_em: the training loop, for whatever   *)
(* estimates and maximizes (Exec).  Its actions take what Exec returns as  *)
(* a parameter; a module that models an Exec joins them with its own.      *)
(*                                                                         *)
(* An average log prob is the product of the probabilities of n examples:  *)
(* the log of its n-th root.  Without examples it is not a number.         *)
(***************************************************************************)
EXTENDS Ratios

CONSTANTS
  EMOptions,    \* arguments of overrelaxed_em
  MaxRate       \* MAX_LEARNING_RATE_EXP

(* converge: is converge_relative_avg_logprob_epsilon positive? *)
EMOption == [max_iter : Nat, restarts : Nat, converge : BOOLEAN, delta : Ratio, growth : Nat \ {0}]

ASSUME EMOptionsAssumption == EMOptions \subseteq EMOption /\ MaxRate \in Nat \ {0}

VARIABLES
  opt,
  pc,
  train_iter, ran_restarts,
  best_alp, last_alp, new_alp,
  learning_rate,
  first_time, very_first_time, last_was_reset

locals == <<train_iter, last_alp, learning_rate, first_time, last_was_reset>>
emVars == <<opt, pc, locals, ran_restarts, best_alp, new_alp, very_first_time>>

RatioPower(x, n) ==
  LET to[m \in 0..n] == IF m = 0 THEN One ELSE Times(x, to[m - 1]) IN to[n]

Alp == [prob : Ratio, n : Nat]
MinusInf == [prob |-> Zero, n |-> 1]
IsNumber(a) == a.n > 0

(* a > b, of which nothing is said when one is not a number *)
Exceeds(a, b) ==
  /\ IsNumber(a) /\ IsNumber(b)
  /\ IF a.n = b.n THEN Less(b.prob, a.prob)
     ELSE Less(RatioPower(b.prob, a.n), RatioPower(a.prob, b.n))

EMInit ==
  /\ opt \in EMOptions
  /\ pc = "start"
  /\ train_iter = 0 /\ ran_restarts = opt.restarts
  /\ best_alp = MinusInf /\ last_alp = MinusInf /\ new_alp = MinusInf
  /\ learning_rate = 1
  /\ first_time = TRUE /\ very_first_time = TRUE /\ last_was_reset = FALSE

(* nothing is done for max_iter = 0, not even the best restored *)
Begin ==
  /\ pc = "start"
  /\ pc' = IF opt.max_iter = 0 THEN "done" ELSE "iterate"
  /\ UNCHANGED <<opt, locals, ran_restarts, best_alp, new_alp, very_first_time>>

StartIteration ==
  /\ pc = "iterate"
  /\ train_iter' = train_iter + 1
  /\ pc' = IF train_iter' > opt.max_iter THEN "converged" ELSE "estimate"
  /\ UNCHANGED <<opt, ran_restarts, best_alp, last_alp, new_alp, learning_rate, first_time,
                 very_first_time, last_was_reset>>

(* exec.estimate returned alp *)
Estimated(alp) ==
  /\ new_alp' = alp
  /\ pc' = "judge"
  /\ UNCHANGED <<opt, locals, ran_restarts, best_alp, very_first_time>>

(* rel_dpp < rel_eps: it got worse, or (if eps > 0) too little better; the *)
(* first estimate of a start, and one that is not a number, never are      *)
Unimproved(little) ==
  /\ ~first_time
  /\ IsNumber(new_alp) /\ IsNumber(last_alp)
  /\ Exceeds(last_alp, new_alp) \/ (opt.converge /\ little)

IsBest == Exceeds(new_alp, best_alp) \/ very_first_time

TakeBest ==
  /\ best_alp' = IF IsBest THEN new_alp ELSE best_alp
  /\ very_first_time' = FALSE
  /\ first_time' = FALSE

(* "starting again at learning rate 1": the same weights are estimated again *)
ResetRate(little) ==
  /\ pc = "judge"
  /\ TakeBest
  /\ ~last_was_reset /\ Unimproved(little) /\ learning_rate > 1
  /\ learning_rate' = 1
  /\ last_was_reset' = TRUE
  /\ pc' = "iterate"
  /\ UNCHANGED <<opt, train_iter, ran_restarts, last_alp, new_alp>>

Converge(little) ==
  /\ pc = "judge"
  /\ TakeBest
  /\ ~last_was_reset /\ Unimproved(little) /\ learning_rate = 1
  /\ pc' = "converged"
  /\ UNCHANGED <<opt, train_iter, ran_restarts, last_alp, new_alp, learning_rate, last_was_reset>>

GoOn(little) ==
  /\ pc = "judge"
  /\ TakeBest
  /\ last_was_reset \/ ~Unimproved(little)
  /\ learning_rate' = IF ~last_was_reset /\ learning_rate < MaxRate
                      THEN learning_rate * opt.growth ELSE learning_rate
  /\ last_was_reset' = FALSE
  /\ pc' = "maximize"
  /\ UNCHANGED <<opt, train_iter, ran_restarts, last_alp, new_alp>>

(* exec.maximize changed no weight by more than maxdiff *)
Maximized(maxdiff) ==
  /\ pc = "maximize"
  /\ IF ~Less(opt.delta, maxdiff)
     THEN pc' = "converged" /\ UNCHANGED last_alp
     ELSE pc' = "iterate" /\ last_alp' = new_alp
  /\ UNCHANGED <<opt, train_iter, ran_restarts, best_alp, new_alp, learning_rate, first_time,
                 very_first_time, last_was_reset>>

Restart ==
  /\ pc = "converged" /\ ran_restarts > 0
  /\ ran_restarts' = ran_restarts - 1
  /\ train_iter' = 0 /\ last_alp' = MinusInf /\ learning_rate' = 1
  /\ first_time' = TRUE /\ last_was_reset' = FALSE
  /\ pc' = "iterate"
  /\ UNCHANGED <<opt, best_alp, new_alp, very_first_time>>

Finish ==
  /\ pc = "converged" /\ ran_restarts = 0
  /\ pc' = "done"
  /\ UNCHANGED <<opt, locals, ran_restarts, best_alp, new_alp, very_first_time>>
=============================================================================
