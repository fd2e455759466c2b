----------------------------- MODULE MCEMTrain -----------------------------
(***************************************************************************)
(* EMTrain with five settings of the weights in two basins: EM takes 1 to  *)
(* 2 to 3, and 4 to 5; 3 and 5 are fixed points; under 3 every example is  *)
(* certain.                                                                *)
(***************************************************************************)
EXTENDS EMTrain

MCW == 1..5
MCPpx == <<6, 4, 1, 5, 3>>
MCEM == <<2, 3, 3, 5, 5>>

Ex(w, ok) == [weight |-> w, ok |-> ok]
AllGood == <<Ex(1, TRUE), Ex(2, TRUE)>>
BadFirst == <<Ex(1, FALSE), Ex(2, TRUE)>>
BadLast == <<Ex(1, TRUE), Ex(2, FALSE)>>
AllBad == <<Ex(1, FALSE)>>

Default ==
  [max_iter |-> 4, restarts |-> 0, growth |-> FALSE, cascade |-> FALSE, mode |-> "none",
   prune |-> TRUE, slack |-> 0, tolerance |-> 99]

(* one or two starts, of one machine or a cascade, relaxed or not *)
IterationOptions ==
  {[Default EXCEPT !.max_iter = n, !.restarts = k, !.growth = g, !.cascade = c, !.slack = s,
                   !.tolerance = t] :
     n \in {1, 4}, k \in 0..1, g \in BOOLEAN, c \in BOOLEAN, s \in 0..1, t \in {0, 99}}

(* every way of going through the corpus *)
CorpusOptions ==
  {[Default EXCEPT !.max_iter = n, !.mode = m, !.prune = p, !.cascade = c, !.restarts = k] :
     n \in {EvaluateOnly, 0, 1, 3}, m \in {"none", "matrix"}, p \in BOOLEAN, c \in BOOLEAN,
     k \in 0..1}
TrainOptions == IterationOptions \cup CorpusOptions
CachedOptions == {[Default EXCEPT !.mode = "cached"]}

GoodCorpora == {AllGood}
MixedCorpora == {AllGood, BadFirst, BadLast, AllBad}
=============================================================================
