--------------------------- MODULE EMTrainProofs ---------------------------
(***************************************************************************)
(* EMTrain for any set of weights, perplexities, EM step, corpora and      *)
(* options.  The inductive invariant IInv says, for each place of the      *)
(* program, what the composed arcs, the cascade's machines and the saved   *)
(* arcs hold; BestKept ties the saved arcs to the best perplexity.         *)
(***************************************************************************)
EXTENDS EMTrain, TLAPS

(* Where the program is says which of its modes it was started in. *)
ModeOK ==
  /\ pc = "evaluate" => opt.max_iter = EvaluateOnly
  /\ pc = "single" => opt.max_iter = 0 \/ (opt.max_iter = 1 /\ opt.restarts = 0)
  /\ Iterating => opt.max_iter # EvaluateOnly
  /\ pc \in {"enter", "evaluate", "single"} => restart_no = 0 /\ train_iter = 0 /\ ~have_good_weights
  /\ pc \in {"estimate", "judge", "maximize"} => train_iter > 0
  /\ restart_no > 0 \/ pc \in {"restart", "load"} => have_good_weights
  /\ relaxed => ~using_cascade

(* What the arcs hold. *)
ArcsOK ==
  /\ pc \in {"enter", "evaluate", "single"} =>
       composed.holds = "weights" /\ parts.holds = "weights"
  /\ pc = "iterate" /\ ~using_cascade =>
       /\ composed.holds = "weights"
       /\ train_iter > 0 => em_weight.holds = "weights"
  /\ pc = "iterate" /\ using_cascade =>
       /\ parts.holds = "weights"
       /\ train_iter > 0 => /\ composed.holds = "counts"
                            /\ parts = Weights(EM[composed.w])
  /\ pc \in {"estimate", "judge", "maximize"} =>
       /\ composed.holds = "weights"
       /\ using_cascade => parts = composed
       /\ pc # "estimate" => counted = composed.w
       /\ ~using_cascade /\ train_iter > 1 => em_weight.holds = "weights"
       /\ using_cascade /\ train_iter > 1 /\ pc = "estimate" =>
            /\ em_weight.holds = "counts"
            /\ composed = Weights(EM[em_weight.w])

(* The corpus is settled after the first pass: later passes change nothing. *)
CorpusOK ==
  /\ corpus = [ex |-> corpus.ex, left |-> corpus.left, total |-> corpus.total]
  /\ ~first /\ opt.mode = "matrix" => BadExamples(corpus) = {}
  /\ have_good_weights => ~first

(* The weights saved arcs stand for once they are loaded. *)
Kept == IF using_cascade THEN EM[best_weight.w] ELSE best_weight.w

BestKept ==
  /\ have_good_weights =>
       /\ best_weight.holds = (IF using_cascade THEN "counts" ELSE "weights")
       /\ Quality(Kept) = bestPerplexity
  /\ \A q \in seen : bestPerplexity <= q

IInv == TypeOK /\ ModeOK /\ ArcsOK /\ CorpusOK /\ BestKept /\ BestReturned

-----------------------------------------------------------------------------
(* A perplexity is a number up to Inf. *)
LEMMA PerplexityType ==
  ASSUME NEW w \in W, NEW c, NEW t
  PROVE  Perplexity(w, c, t) \in 0..Inf
BY PpxAssumption DEF Perplexity

(* A pass keeps a corpus a corpus, and every example with a derivation. *)
LEMMA PassFields ==
  ASSUME NEW c, NEW mode \in Modes, NEW prune \in BOOLEAN, NEW fst \in BOOLEAN,
         c = [ex |-> c.ex, left |-> c.left, total |-> c.total]
  PROVE  LET d == Pass(c, mode, prune, fst)
         IN  /\ d = [ex |-> d.ex, left |-> d.left, total |-> d.total]
             /\ d.ex = c.ex
             /\ GoodExamples(d) = GoodExamples(c)
             /\ mode = "matrix" => BadExamples(d) = {}
             /\ mode = "cached" => d = c
             /\ mode = "none" /\ ~fst => d = c
             /\ mode = "matrix" /\ BadExamples(c) = {} => d = c
<1> DEFINE left == Remaining(c, mode, prune, fst)
           total == IF Counted(mode, fst) THEN TotalWeight(c.ex, left) ELSE c.total
           d == Pass(c, mode, prune, fst)
<1>1. d = [ex |-> c.ex, left |-> left, total |-> total]
  BY DEF Pass
<1>2. left = GoodExamples(c) \/ left = c.left
  BY DEF Remaining
<1>3. mode = "matrix" => left = GoodExamples(c) /\ total = c.total
  BY DEF Remaining, Erases, Counted
<1>4. mode = "cached" \/ (mode = "none" /\ ~fst) => left = c.left /\ total = c.total
  BY DEF Remaining, Erases, Counted
<1>5. BadExamples(c) = {} => GoodExamples(c) = c.left
  BY DEF BadExamples, GoodExamples
<1> HIDE DEF left, total
<1>6. d.ex = c.ex /\ d.left = left /\ d.total = total
  BY <1>1
<1> HIDE DEF d
<1>7. d = [ex |-> d.ex, left |-> d.left, total |-> d.total]
  BY <1>1, <1>6
<1>8. GoodExamples(d) = GoodExamples(c)
  BY <1>2, <1>6 DEF GoodExamples
<1>9. mode = "matrix" => BadExamples(d) = {}
  BY <1>3, <1>6 DEF GoodExamples, BadExamples
<1>10. left = c.left /\ total = c.total => d = c
  BY <1>1, c = [ex |-> c.ex, left |-> c.left, total |-> c.total]
<1>11. QED
  BY <1>3, <1>4, <1>5, <1>6, <1>7, <1>8, <1>9, <1>10 DEF d

(* A finite perplexity does not depend on the pass it was computed in. *)
LEMMA PerplexitySettled ==
  ASSUME NEW w, NEW c, NEW d, GoodExamples(d) = GoodExamples(c),
         opt.mode = "matrix" => BadExamples(d) = {},
         Perplexity(w, c, d.total) < Inf, Inf \in Nat
  PROVE  Perplexity(w, d, d.total) = Perplexity(w, c, d.total)
BY DEF Perplexity

-----------------------------------------------------------------------------
(* Types *)
LEMMA OptionFields ==
  ASSUME opt \in OptionType
  PROVE  /\ opt.max_iter \in Nat \cup {EvaluateOnly} /\ opt.restarts \in Nat
         /\ opt.growth \in BOOLEAN /\ opt.cascade \in BOOLEAN
         /\ opt.mode \in Modes /\ opt.prune \in BOOLEAN
         /\ EvaluateOnly = -1
BY DEF OptionType, EvaluateOnly

LEMMA ArcTypes ==
  /\ \A w \in W : Weights(w) \in Arcs /\ Counts(w) \in Arcs
  /\ \A w : Weights(w).holds = "weights" /\ Weights(w).w = w
  /\ \A w : Counts(w).holds = "counts" /\ Counts(w).w = w
  /\ \A a \in Arcs : a.w \in W /\ Normalized(a) \in Arcs
  /\ \A a \in Arcs : a.holds = "counts" => Normalized(a) = Weights(EM[a.w])
<1>1. \A a \in Arcs : [a EXCEPT !.holds = "unset"] \in Arcs
  BY DEF Arcs
<1>2. \A w \in W : EM[w] \in W
  BY EMAssumption
<1>3. QED
  BY <1>1, <1>2 DEF Arcs, Weights, Counts, Normalized

LEMMA InitTypes == Init => TypeOK
<1> SUFFICES ASSUME Init
             PROVE  TypeOK
  OBVIOUS
<1>1. opt \in OptionType
  BY OptionAssumption DEF Init
<1>2. ran_restarts \in Nat
  BY <1>1, OptionFields DEF Init
<1>3. composed \in Arcs /\ parts \in Arcs /\ counted \in W
  BY ArcTypes DEF Init
<1>4. em_weight \in Arcs /\ best_weight \in Arcs
  BY <1>3 DEF Init, Arcs
<1>5. Inf \in 0..Inf /\ 0 \in 0..Inf
  BY PpxAssumption
<1>6. QED
  BY <1>1, <1>2, <1>3, <1>4, <1>5 DEF Init, TypeOK

LEMMA StepTypes == TypeOK /\ [Next]_vars => TypeOK'
<1> SUFFICES ASSUME TypeOK, [Next]_vars
             PROVE  TypeOK'
  OBVIOUS
<1> USE DEF TypeOK, arcs, loop, judged
<1>a. /\ opt.max_iter \in Nat \cup {-1} /\ opt.restarts \in Nat
      /\ opt.growth \in BOOLEAN /\ opt.cascade \in BOOLEAN
  BY OptionFields
<1>b. Updated \in Arcs /\ Inf \in 0..Inf
  BY PpxAssumption DEF Updated
<1>c. ASSUME NEW c \in Arcs, Estimate(c)
      PROVE  counted' \in W /\ first' \in BOOLEAN /\ newPerplexity' \in 0..Inf
  BY <1>c, ArcTypes, PerplexityType DEF Estimate
<1>1. CASE Enter
  BY <1>1 DEF Enter
<1>2. CASE EvaluateCorpus
  BY <1>2, <1>c DEF EvaluateCorpus
<1>3. CASE SinglePass
  <2>1. counted' \in W /\ first' \in BOOLEAN /\ newPerplexity' \in 0..Inf
    BY <1>3, <1>b, <1>c DEF SinglePass
  <2>2. Counts(counted') \in Arcs /\ Normalized(Counts(counted')) \in Arcs
    BY <2>1, ArcTypes
  <2>3. composed' \in Arcs /\ parts' \in Arcs /\ none' \in {"given", "counts"}
    BY <1>3, <1>b, <2>2 DEF SinglePass
  <2>4. QED
    BY <1>3, <2>1, <2>3 DEF SinglePass
<1>4. CASE StartIteration
  BY <1>4, <1>b DEF StartIteration
<1>5. CASE EstimateAndSave
  <2>1. counted' \in W /\ first' \in BOOLEAN /\ newPerplexity' \in 0..Inf
    BY <1>5, <1>c DEF EstimateAndSave
  <2>2. BestArcs \in Arcs
    BY DEF BestArcs
  <2>3. CASE corpus'.left = {}
    BY <1>5, <2>1, <2>3 DEF EstimateAndSave
  <2>4. CASE corpus'.left # {}
    <3>1. bestPerplexity' \in 0..Inf /\ have_good_weights' \in BOOLEAN /\ best_weight' \in Arcs
      BY <1>5, <2>1, <2>2, <2>4 DEF EstimateAndSave, NewBest, MayBeKept, first_time, using_cascade
    <3>2. seen' \subseteq 0..Inf
      BY <1>5, <2>1, <2>4 DEF EstimateAndSave
    <3>3. pc' = "judge"
      BY <1>5, <2>4 DEF EstimateAndSave
    <3>4. QED
      BY <1>5, <2>1, <3>1, <3>2, <3>3 DEF EstimateAndSave
  <2>5. QED
    BY <2>3, <2>4
<1>6. CASE JudgeStart
  BY <1>6 DEF JudgeStart, Growing, using_cascade, Accepted, Promising
<1>7. CASE ResetRate
  BY <1>7 DEF ResetRate, PlainEM
<1>8. CASE Converge
  BY <1>8 DEF Converge
<1>9. CASE GoOn
  BY <1>9 DEF GoOn, Growing, using_cascade
<1>10. CASE Maximize
  <2>1. Counts(counted) \in Arcs /\ Normalized(Counts(counted)) \in Arcs
    BY ArcTypes
  <2>2. composed' \in Arcs /\ parts' \in Arcs /\ em_weight' \in Arcs
    BY <1>10, <2>1, ArcTypes DEF Maximize
  <2>3. pc' \in {"restart", "iterate"} /\ lastPerplexity' \in 0..Inf
    BY <1>10 DEF Maximize
  <2>4. QED
    BY <1>10, <2>2, <2>3 DEF Maximize
<1>11. CASE Restart
  <2>1. composed' \in Arcs /\ parts' \in Arcs
    BY <1>11, ArcTypes DEF Restart
  <2>2. ran_restarts' \in Nat /\ restart_no' \in Nat /\ train_iter' \in Nat
    BY <1>11 DEF Restart, MoreStarts, StartsLeft
  <2>3. QED
    BY <1>11, <1>b, <2>1, <2>2 DEF Restart
<1>12. CASE Load
  <2>1. composed' \in Arcs /\ parts' \in Arcs
    BY <1>12, ArcTypes DEF Load
  <2>2. QED
    BY <1>12, <2>1 DEF Load
<1>13. CASE UNCHANGED vars
  BY <1>13 DEF vars
<1>14. QED
  BY <1>1, <1>2, <1>3, <1>4, <1>5, <1>6, <1>7, <1>8, <1>9, <1>10, <1>11, <1>12, <1>13
     DEF Next, Step, Terminated

(* Types of everything EMTrain keeps: perplexities stay between 0 and Inf, the
   arcs hold settings of W, and the counts of starts never go below 0. *)
THEOREM EMTypes == Spec => []TypeOK
BY InitTypes, StepTypes, PTL DEF Spec

-----------------------------------------------------------------------------
(* The inductive invariant *)
LEMMA InitInv == Init => IInv
<1> SUFFICES ASSUME Init
             PROVE  IInv
  OBVIOUS
<1>1. TypeOK
  BY InitTypes
<1>2. ModeOK
  BY DEF Init, ModeOK, Iterating
<1>3. ArcsOK
  BY ArcTypes DEF Init, ArcsOK
<1>4. CorpusOK
  BY DEF Init, CorpusOK, CorpusOf
<1>5. BestKept /\ BestReturned
  BY DEF Init, BestKept, BestReturned
<1>6. QED
  BY <1>1, <1>2, <1>3, <1>4, <1>5 DEF IInv

(* A step that evaluates nothing and saves nothing keeps what was saved. *)
LEMMA SavedStays ==
  ASSUME CorpusOK, BestKept,
         UNCHANGED <<opt, corpus, first, best_weight, bestPerplexity, have_good_weights, seen>>
  PROVE  CorpusOK' /\ BestKept'
<1>1. CorpusOK'
  BY DEF CorpusOK, BadExamples
<1>2. Kept' = Kept /\ (Quality(Kept))' = Quality(Kept)
  BY DEF Kept, Quality, Perplexity, BadExamples, GoodExamples, using_cascade
<1>3. BestKept'
  BY <1>2 DEF BestKept, using_cascade
<1>4. QED
  BY <1>1, <1>3

(* What an estimate finds and leaves: the corpus is settled after the first
   pass, and a finite perplexity is that of the weights evaluated. *)
LEMMA EstimateSettles ==
  ASSUME NEW c \in Arcs, TypeOK, CorpusOK, opt' = opt, Estimate(c)
  PROVE  /\ corpus' = [ex |-> corpus'.ex, left |-> corpus'.left, total |-> corpus'.total]
         /\ opt.mode = "matrix" => BadExamples(corpus') = {}
         /\ ~first => corpus' = corpus
         /\ newPerplexity' < Inf => Perplexity(c.w, corpus', corpus'.total) = newPerplexity'
<1>1. opt.mode \in Modes /\ opt.prune \in BOOLEAN /\ first \in BOOLEAN
  BY OptionFields DEF TypeOK
<1>2. corpus' = Pass(corpus, opt.mode, opt.prune, first)
  BY DEF Estimate
<1>3. /\ corpus' = [ex |-> corpus'.ex, left |-> corpus'.left, total |-> corpus'.total]
      /\ GoodExamples(corpus') = GoodExamples(corpus)
      /\ opt.mode = "matrix" => BadExamples(corpus') = {}
      /\ opt.mode = "cached" => corpus' = corpus
      /\ opt.mode = "none" /\ ~first => corpus' = corpus
      /\ opt.mode = "matrix" /\ BadExamples(corpus) = {} => corpus' = corpus
  BY <1>1, <1>2, PassFields DEF CorpusOK
<1>4. ~first => corpus' = corpus
  BY <1>1, <1>3 DEF CorpusOK, Modes
<1>5. newPerplexity' = Perplexity(c.w, corpus, corpus'.total)
  BY DEF Estimate
<1>6. newPerplexity' < Inf => Perplexity(c.w, corpus', corpus'.total) = newPerplexity'
  BY <1>3, <1>5, PerplexitySettled, PpxAssumption
<1>7. QED
  BY <1>3, <1>4, <1>6

(* Estimating and saving keeps the saved arcs those of the best perplexity. *)
LEMMA EstimateKeepsBest ==
  ASSUME IInv, EstimateAndSave
  PROVE  CorpusOK' /\ BestKept'
<1> USE DEF IInv
<1>1. composed \in Arcs /\ opt' = opt /\ Estimate(composed) /\ pc = "estimate"
  BY DEF EstimateAndSave, TypeOK
<1>2. /\ corpus' = [ex |-> corpus'.ex, left |-> corpus'.left, total |-> corpus'.total]
      /\ opt.mode = "matrix" => BadExamples(corpus') = {}
      /\ ~first => corpus' = corpus
      /\ newPerplexity' < Inf => Perplexity(composed.w, corpus', corpus'.total) = newPerplexity'
  BY <1>1, EstimateSettles
<1>3. first' = FALSE
  BY <1>1 DEF Estimate
<1>4. CorpusOK'
  BY <1>1, <1>2, <1>3 DEF CorpusOK, BadExamples
<1>5. newPerplexity' \in 0..Inf /\ bestPerplexity \in 0..Inf /\ seen \subseteq 0..Inf
  BY <1>1, StepTypes, ArcTypes, PerplexityType DEF TypeOK, Estimate
<1>6. bestPerplexity \in Int /\ newPerplexity' \in Int /\ Inf \in Int
  BY <1>5, PpxAssumption
<1>7. CASE UNCHANGED <<bestPerplexity, have_good_weights, best_weight, seen>>
  <2>1. have_good_weights => corpus' = corpus
    BY <1>2 DEF CorpusOK
  <2>2. have_good_weights => (Quality(Kept))' = Quality(Kept)
    BY <2>1, <1>1, <1>7
       DEF Kept, Quality, Perplexity, BadExamples, GoodExamples, using_cascade
  <2>3. QED
    BY <1>1, <1>4, <1>7, <2>2 DEF BestKept, using_cascade
<1>8. CASE corpus'.left # {} /\ ~NewBest
  <2>1. UNCHANGED <<bestPerplexity, have_good_weights, best_weight>>
    BY <1>8 DEF EstimateAndSave, NewBest, MayBeKept, first_time, using_cascade, TypeOK
  <2>2. have_good_weights => corpus' = corpus
    BY <1>2 DEF CorpusOK
  <2>3. have_good_weights => (Quality(Kept))' = Quality(Kept)
    BY <2>1, <2>2, <1>1
       DEF Kept, Quality, Perplexity, BadExamples, GoodExamples, using_cascade
  <2>4. \A q \in seen' : bestPerplexity <= q
    <3>1. seen' = IF MayBeKept THEN seen \cup {newPerplexity'} ELSE seen
      BY <1>8 DEF EstimateAndSave
    <3>2. MayBeKept => bestPerplexity <= newPerplexity'
      BY <1>6, <1>8 DEF NewBest
    <3>3. QED
      BY <3>1, <3>2 DEF BestKept
  <2>5. QED
    BY <1>1, <1>4, <2>1, <2>3, <2>4 DEF BestKept, using_cascade
<1>9. CASE corpus'.left # {} /\ NewBest
  <2>1. newPerplexity' < bestPerplexity /\ MayBeKept
    BY <1>9 DEF NewBest
  <2>2. newPerplexity' < Inf
    BY <1>5, <1>6, <2>1
  <2>3. bestPerplexity' = newPerplexity' /\ have_good_weights' /\ best_weight' = BestArcs
    BY <1>9 DEF EstimateAndSave
  <2>4. using_cascade => train_iter > 1
    BY <2>1, <1>1 DEF MayBeKept, first_time, ModeOK, TypeOK
  <2>5. /\ BestArcs.holds = (IF using_cascade THEN "counts" ELSE "weights")
        /\ composed.w = IF using_cascade THEN EM[BestArcs.w] ELSE BestArcs.w
    BY <1>1, <2>4, ArcTypes DEF BestArcs, ArcsOK
  <2>6. Kept' = composed.w
    BY <1>1, <2>3, <2>5 DEF Kept, using_cascade
  <2>7. (Quality(Kept))' = Perplexity(composed.w, corpus', corpus'.total)
    BY <1>1, <2>6 DEF Quality, Perplexity
  <2>8. \A q \in seen' : bestPerplexity' <= q
    <3>1. seen' = seen \cup {newPerplexity'}
      BY <1>9, <2>1 DEF EstimateAndSave
    <3>2. \A q \in seen : newPerplexity' <= q
      BY <1>5, <1>6, <2>1 DEF BestKept
    <3>3. QED
      BY <1>6, <2>3, <3>1, <3>2
  <2>9. QED
    BY <1>1, <1>2, <1>4, <2>2, <2>3, <2>5, <2>7, <2>8 DEF BestKept, using_cascade
<1>10. QED
  BY <1>7, <1>8, <1>9 DEF EstimateAndSave

(* Every step keeps the invariant *)
LEMMA StepInv == IInv /\ [Next]_vars => IInv'
<1> SUFFICES ASSUME IInv, [Next]_vars
             PROVE  IInv'
  OBVIOUS
<1> USE DEF IInv, arcs, loop, judged
<1>t. TypeOK'
  BY StepTypes
<1>i. /\ opt.max_iter \in Nat \cup {-1} /\ opt.restarts \in Nat /\ EvaluateOnly = -1
      /\ train_iter \in Nat /\ restart_no \in Nat
  BY OptionFields DEF TypeOK
<1>1. CASE Enter
  <2>1. CorpusOK'
    BY <1>1 DEF Enter, CorpusOK, CacheCorpus, BadExamples
  <2>2. BestKept'
    BY <1>1 DEF Enter, BestKept, ModeOK
  <2>3. ModeOK'
    BY <1>1 DEF Enter, ModeOK, Iterating, using_cascade
  <2>4. ArcsOK'
    BY <1>1, <1>i DEF Enter, ArcsOK, ModeOK, using_cascade
  <2>5. QED
    BY <1>1, <1>t, <2>1, <2>2, <2>3, <2>4 DEF Enter, BestReturned
<1>2. CASE EvaluateCorpus
  <2>1. opt' = opt /\ pc = "evaluate" /\ pc' \in {"thrown", "done"} /\ composed \in Arcs /\ Estimate(composed)
    BY <1>2 DEF EvaluateCorpus, TypeOK
  <2>2. CorpusOK'
    BY <1>2, <2>1, EstimateSettles DEF EvaluateCorpus, CorpusOK, BadExamples, Estimate, ModeOK
  <2>3. BestKept' /\ ModeOK' /\ ArcsOK'
    BY <1>2, <2>1 DEF EvaluateCorpus, BestKept, ModeOK, ArcsOK, Iterating, using_cascade
  <2>4. BestReturned'
    BY <2>1 DEF ModeOK, BestReturned
  <2>5. QED
    BY <1>t, <2>2, <2>3, <2>4
<1>3. CASE SinglePass
  <2>1. /\ opt' = opt /\ pc = "single" /\ pc' \in {"thrown", "done"}
        /\ Updated \in Arcs /\ Estimate(Updated)
    BY <1>3 DEF SinglePass, TypeOK, Updated
  <2>2. CorpusOK'
    BY <1>3, <2>1, EstimateSettles DEF SinglePass, CorpusOK, BadExamples, Estimate, ModeOK
  <2>3. BestKept' /\ ModeOK' /\ ArcsOK'
    BY <1>3, <2>1 DEF SinglePass, BestKept, ModeOK, ArcsOK, Iterating, using_cascade
  <2>4. BestReturned'
    BY <1>i, <2>1 DEF ModeOK, BestReturned
  <2>5. QED
    BY <1>t, <2>2, <2>3, <2>4
<1>4. CASE StartIteration
  <2>1. CorpusOK' /\ BestKept'
    BY <1>4, SavedStays DEF StartIteration
  <2>2. pc = "iterate" /\ pc' \in {"restart", "estimate"} /\ opt' = opt /\ opt.max_iter \in Nat
    BY <1>4, <1>i DEF StartIteration, ModeOK, Iterating
  <2>3. /\ train_iter' \in Nat /\ train_iter' > 0
        /\ train_iter = 0 => train_iter' = 1
        /\ train_iter > 0 => train_iter' > 1
    BY <1>4, <1>i, <2>2 DEF StartIteration
  <2>4. ModeOK'
    BY <1>4, <1>i, <2>2, <2>3 DEF StartIteration, MaxIterReached, ModeOK, Iterating, using_cascade
  <2>5. ArcsOK'
    <3>1. composed' = IF opt.cascade THEN parts ELSE composed
      BY <1>4 DEF StartIteration, Updated, using_cascade
    <3>2. parts' = parts /\ counted' = counted
      BY <1>4 DEF StartIteration
    <3>3. em_weight' = IF opt.cascade /\ train_iter > 0 THEN composed ELSE em_weight
      BY <1>4 DEF StartIteration, using_cascade
    <3>4. QED
      BY <1>i, <2>2, <2>3, <3>1, <3>2, <3>3 DEF ArcsOK, using_cascade
  <2>6. QED
    BY <1>t, <2>1, <2>2, <2>4, <2>5 DEF BestReturned
<1>5. CASE EstimateAndSave
  <2>1. CorpusOK' /\ BestKept'
    BY <1>5, EstimateKeepsBest
  <2>2. pc = "estimate" /\ pc' \in {"thrown", "judge"} /\ opt' = opt /\ counted' = composed.w
    BY <1>5 DEF EstimateAndSave, Estimate
  <2>3. have_good_weights => have_good_weights'
    BY <1>5 DEF EstimateAndSave
  <2>4. ModeOK'
    BY <1>5, <2>2, <2>3 DEF EstimateAndSave, ModeOK, Iterating, using_cascade
  <2>5. ArcsOK'
    BY <1>5, <2>2 DEF EstimateAndSave, ArcsOK, using_cascade
  <2>6. QED
    BY <1>t, <2>1, <2>2, <2>4, <2>5 DEF BestReturned
<1>6. CASE JudgeStart
  <2>1. CorpusOK' /\ BestKept'
    BY <1>6, SavedStays DEF JudgeStart
  <2>2. pc = "judge" /\ pc' \in {"maximize", "restart"} /\ opt' = opt
    BY <1>6 DEF JudgeStart
  <2>3. pc' = "restart" => restart_no > 0
    BY <1>6, <1>i DEF JudgeStart, Accepted
  <2>4. ModeOK'
    BY <1>6, <2>2, <2>3 DEF JudgeStart, ModeOK, Iterating, Growing, using_cascade
  <2>5. ArcsOK'
    BY <1>6, <2>2 DEF JudgeStart, ArcsOK, using_cascade
  <2>6. QED
    BY <1>t, <2>1, <2>2, <2>4, <2>5 DEF BestReturned
<1>7. CASE ResetRate
  <2>1. CorpusOK' /\ BestKept'
    BY <1>7, SavedStays DEF ResetRate
  <2>2. /\ pc = "judge" /\ pc' = "iterate" /\ opt' = opt /\ ~using_cascade
        /\ train_iter \in Nat /\ train_iter > 1 /\ composed' = em_weight
    BY <1>7, <1>i DEF ResetRate, ModeOK, Failed, first_time, PlainEM
  <2>3. ModeOK'
    BY <1>7, <2>2 DEF ResetRate, ModeOK, Iterating, using_cascade
  <2>4. ArcsOK'
    BY <1>7, <2>2 DEF ResetRate, ArcsOK, using_cascade
  <2>5. QED
    BY <1>t, <2>1, <2>2, <2>3, <2>4 DEF BestReturned
<1>8. CASE Converge
  <2>1. CorpusOK' /\ BestKept'
    BY <1>8, SavedStays DEF Converge
  <2>2. pc = "judge" /\ pc' = (IF have_good_weights THEN "restart" ELSE "maximize") /\ opt' = opt
    BY <1>8 DEF Converge
  <2>3. ModeOK'
    BY <1>8, <2>2 DEF Converge, ModeOK, Iterating, using_cascade
  <2>4. ArcsOK'
    BY <1>8, <2>2 DEF Converge, ArcsOK, using_cascade
  <2>5. QED
    BY <1>t, <2>1, <2>2, <2>3, <2>4 DEF BestReturned
<1>9. CASE GoOn
  <2>1. CorpusOK' /\ BestKept'
    BY <1>9, SavedStays DEF GoOn
  <2>2. pc = "judge" /\ pc' = "maximize" /\ opt' = opt
    BY <1>9 DEF GoOn
  <2>3. ModeOK'
    BY <1>9, <2>2 DEF GoOn, ModeOK, Iterating, Growing, using_cascade
  <2>4. ArcsOK'
    BY <1>9, <2>2 DEF GoOn, ArcsOK, using_cascade
  <2>5. QED
    BY <1>t, <2>1, <2>2, <2>3, <2>4 DEF BestReturned
<1>10. CASE Maximize
  <2>1. CorpusOK' /\ BestKept'
    BY <1>10, SavedStays DEF Maximize
  <2>2. /\ pc = "maximize" /\ pc' \in {"restart", "iterate"} /\ opt' = opt
        /\ pc' = "restart" => have_good_weights
    BY <1>10 DEF Maximize
  <2>3. ModeOK'
    BY <1>10, <2>2 DEF Maximize, ModeOK, Iterating, using_cascade
  <2>4. counted \in W /\ Normalized(Counts(counted)) = Weights(EM[counted])
    BY ArcTypes DEF TypeOK
  <2>5. using_cascade => composed' = Counts(counted) /\ parts' = Weights(EM[counted])
    BY <1>10, <2>4 DEF Maximize
  <2>6. ~using_cascade => composed'.holds = "weights" /\ em_weight'.holds = "weights"
    BY <1>10, <2>4, ArcTypes DEF Maximize
  <2>7. ArcsOK'
    BY <2>2, <2>5, <2>6, ArcTypes DEF ArcsOK, using_cascade
  <2>8. QED
    BY <1>t, <2>1, <2>2, <2>3, <2>7 DEF BestReturned
<1>11. CASE Restart
  <2>1. CorpusOK' /\ BestKept'
    BY <1>11, SavedStays DEF Restart
  <2>2. /\ pc = "restart" /\ pc' \in {"iterate", "load"} /\ opt' = opt
        /\ have_good_weights /\ have_good_weights'
    BY <1>11 DEF Restart, ModeOK
  <2>3. ModeOK'
    BY <1>11, <2>2 DEF Restart, ModeOK, Iterating, using_cascade
  <2>4. pc' = "iterate" =>
          /\ train_iter' = 0
          /\ IF using_cascade THEN parts'.holds = "weights" ELSE composed'.holds = "weights"
    BY <1>11, ArcTypes DEF Restart
  <2>5. ArcsOK'
    BY <2>2, <2>4 DEF ArcsOK, using_cascade
  <2>6. QED
    BY <1>t, <2>1, <2>2, <2>3, <2>5 DEF BestReturned
<1>12. CASE Load
  <2>1. CorpusOK' /\ BestKept'
    BY <1>12, SavedStays DEF Load
  <2>2. pc = "load" /\ pc' = "done" /\ opt' = opt /\ have_good_weights /\ returned' = bestPerplexity
    BY <1>12 DEF Load, ModeOK
  <2>3. ModeOK' /\ ArcsOK'
    BY <1>12, <2>2 DEF Load, ModeOK, ArcsOK, Iterating, using_cascade
  <2>4. using_cascade => parts' = Weights(EM[best_weight.w])
    BY <1>12, <2>2, ArcTypes DEF Load, BestKept, TypeOK
  <2>5. ~using_cascade => composed' = best_weight
    BY <1>12 DEF Load
  <2>6. Trained'.holds = "weights" /\ Trained'.w = Kept
    BY <2>2, <2>4, <2>5, ArcTypes DEF Trained, Kept, BestKept, using_cascade
  <2>7. (Quality(Trained.w))' = Quality(Kept)
    BY <1>12, <2>2, <2>6 DEF Load, Quality, Perplexity, BadExamples, GoodExamples
  <2>8. BestReturned'
    BY <2>2, <2>6, <2>7 DEF BestReturned, BestKept
  <2>9. QED
    BY <1>t, <2>1, <2>3, <2>8
<1>13. CASE UNCHANGED vars
  <2>1. CorpusOK' /\ BestKept'
    BY <1>13, SavedStays DEF vars
  <2>2. ModeOK' /\ ArcsOK'
    BY <1>13 DEF vars, ModeOK, ArcsOK, Iterating, using_cascade
  <2>3. BestReturned'
    BY <1>13 DEF vars, BestReturned, Trained, Quality, Perplexity, BadExamples, GoodExamples,
                 using_cascade
  <2>4. QED
    BY <1>t, <2>1, <2>2, <2>3
<1>14. QED
  BY <1>1, <1>2, <1>3, <1>4, <1>5, <1>6, <1>7, <1>8, <1>9, <1>10, <1>11, <1>12, <1>13
     DEF Next, Step, Terminated

LEMMA InvHolds == Spec => []IInv
BY InitInv, StepInv, PTL DEF Spec

(* The machines are left with the weights whose perplexity training reports,
   although later iterations and starts have overwritten them since and a
   cascade has kept only the counts they came from: load_best and
   use_counts_final undo exactly what save_best did. *)
THEOREM BestIsReturned == Spec => []BestReturned
<1>1. IInv => BestReturned
  BY DEF IInv
<1>2. QED
  BY InvHolds, <1>1, PTL

(* No weights that were evaluated and could have been kept were better. *)
THEOREM LowestIsReturned == Spec => []LowestReturned
<1>1. IInv => LowestReturned
  BY DEF IInv, BestKept, LowestReturned
<1>2. QED
  BY InvHolds, <1>1, PTL

(* update() comes between a maximization and the next estimate: counts are
   collected under the weights the machines have then. *)
THEOREM CountsCollectedUnderWeights == Spec => []CollectsUnderWeights
<1>1. IInv => CollectsUnderWeights
  BY DEF IInv, ArcsOK, CollectsUnderWeights, Updated
<1>2. QED
  BY InvHolds, <1>1, PTL

-----------------------------------------------------------------------------
(* Descent.  Target is what a plain EM step made of the previous weights: it is
   kept beside over-relaxed weights, which may be worse, and taken back when
   they are. *)
Target == IF using_cascade THEN parts.w ELSE em_weight.w

DInv ==
  /\ last_was_reset => ~relaxed /\ train_iter > 1
  /\ pc = "enter" => lastPerplexity = Inf
  /\ pc \in {"judge", "maximize", "restart"} => ~first /\ train_iter > 0
  /\ pc = "iterate" /\ train_iter > 0 =>
       /\ ~first
       /\ Quality(Target) <= lastPerplexity
       /\ ~using_cascade /\ ~relaxed => composed.w = Target
  /\ pc = "iterate" /\ train_iter = 0 => lastPerplexity = Inf
  /\ pc \in {"estimate", "judge"} /\ train_iter > 1 =>
       /\ ~first
       /\ ~using_cascade => Quality(Target) <= lastPerplexity
       /\ ~relaxed => Quality(composed.w) <= lastPerplexity
       /\ pc = "judge" => newPerplexity = Quality(composed.w)
  /\ pc \in {"estimate", "judge", "maximize"} /\ train_iter = 1 => lastPerplexity = Inf
  /\ pc \in {"judge", "maximize"} => Quality(composed.w) <= newPerplexity
  /\ pc = "maximize" => newPerplexity <= lastPerplexity

(* EM improves every weights' quality, and no weights have an infinite
   perplexity where others have a finite one. *)
LEMMA QualityFacts ==
  ASSUME NEW v \in W, NEW w \in W
  PROVE  /\ Quality(w) \in Int /\ Quality(w) <= Inf /\ 1 <= Quality(w)
         /\ EM[w] \in W /\ Quality(EM[w]) <= Quality(w)
         /\ Quality(v) = Inf => Quality(w) = Inf
<1>1. /\ Ppx[v] \in Int /\ 1 <= Ppx[v] /\ Ppx[v] < Inf
      /\ Ppx[w] \in Int /\ 1 <= Ppx[w] /\ Ppx[w] < Inf
  BY PpxAssumption
<1>2. EM[w] \in W
  BY EMAssumption
<1>3. Ppx[EM[w]] \in Int /\ Ppx[EM[w]] <= Ppx[w]
  BY <1>2, PpxAssumption, EMImproves
<1>4. Inf \in Int
  BY PpxAssumption
<1>5. QED
  BY <1>1, <1>2, <1>3, <1>4 DEF Quality, Perplexity

LEMMA InitD == Init => DInv
BY DEF Init, DInv

LEMMA StepD == IInv /\ IInv' /\ DInv /\ [Next]_vars => DInv'
<1> SUFFICES ASSUME IInv, IInv', DInv, [Next]_vars
             PROVE  DInv'
  OBVIOUS
<1> USE DEF arcs, loop, judged
<1>o. opt' = opt
  BY DEF Next, Step, Terminated, vars, Enter, EvaluateCorpus, SinglePass, StartIteration,
         EstimateAndSave, JudgeStart, ResetRate, Converge, GoOn, Maximize, Restart, Load
<1>n. /\ composed.w \in W /\ parts.w \in W /\ em_weight.w \in W /\ counted \in W
      /\ Target \in W /\ train_iter \in Nat /\ opt.max_iter \in Int /\ opt.slack \in Nat
      /\ lastPerplexity \in Int /\ lastPerplexity <= Inf /\ Inf \in Int
      /\ newPerplexity \in Int /\ newPerplexity <= Inf /\ EvaluateOnly = -1
  BY PpxAssumption DEF IInv, TypeOK, Arcs, Target, OptionType, EvaluateOnly
<1>m. pc = "iterate" => opt.max_iter \in Nat
  BY OptionFields DEF IInv, TypeOK, ModeOK, Iterating
<1>p. /\ (Quality(composed.w))' = Perplexity(composed'.w, corpus', corpus'.total)
      /\ (Quality(Target))' = Perplexity(Target', corpus', corpus'.total)
      /\ using_cascade' = using_cascade
      /\ Target' = IF using_cascade THEN parts'.w ELSE em_weight'.w
  BY <1>o DEF Quality, Perplexity, Target, using_cascade
<1>s. corpus' = corpus => /\ (Quality(composed.w))' = Quality(composed'.w)
                          /\ (Quality(Target))' = Quality(Target')
  BY <1>p DEF Quality
<1>1. CASE Enter
  BY <1>1 DEF Enter, DInv, IInv, ModeOK
<1>2. CASE EvaluateCorpus \/ SinglePass
  <2>1. pc' \in {"thrown", "done"} /\ UNCHANGED <<relaxed, last_was_reset, train_iter>>
    BY <1>2 DEF EvaluateCorpus, SinglePass
  <2>2. QED
    BY <2>1 DEF DInv
<1>3. CASE StartIteration
  <2>1. /\ corpus' = corpus /\ pc = "iterate" /\ pc' \in {"restart", "estimate"}
        /\ parts' = parts /\ composed' = Updated
        /\ em_weight' = IF using_cascade /\ train_iter > 0 THEN composed ELSE em_weight
        /\ UNCHANGED <<relaxed, last_was_reset, lastPerplexity, newPerplexity, first>>
    BY <1>3 DEF StartIteration
  <2>2. /\ train_iter' \in Nat /\ train_iter' > 0
        /\ train_iter = 0 <=> train_iter' = 1
    BY <1>3, <1>n, <1>m, <2>1 DEF StartIteration
  <2>3. ~using_cascade => Target' = Target /\ composed' = composed
    BY <1>p, <2>1 DEF Target, Updated
  <2>4. using_cascade => composed'.w = Target /\ ~relaxed
    BY <2>1 DEF Target, Updated, IInv, ModeOK
  <2>5. pc' = "restart" => ~first
    BY <1>3 DEF StartIteration, MaxIterReached, IInv, CorpusOK
  <2>6. QED
    BY <1>n, <1>p, <1>s, <2>1, <2>2, <2>3, <2>4, <2>5 DEF DInv
<1>4. CASE EstimateAndSave
  <2>1. /\ pc = "estimate" /\ pc' \in {"thrown", "judge"} /\ Estimate(composed)
        /\ UNCHANGED <<composed, parts, em_weight, relaxed, last_was_reset, lastPerplexity, train_iter>>
    BY <1>4 DEF EstimateAndSave
  <2>2. /\ ~first => corpus' = corpus
        /\ newPerplexity' < Inf => (Quality(composed.w))' = newPerplexity'
    BY <1>o, <1>p, <2>1, EstimateSettles DEF IInv, TypeOK
  <2>3. ~first => newPerplexity' = Quality(composed.w)
    BY <2>1, <2>2 DEF Estimate, Quality
  <2>4. newPerplexity' \in Int /\ newPerplexity' <= Inf
    BY <1>n DEF IInv, TypeOK
  <2>5. (Quality(composed.w))' \in 0..Inf
    BY <1>n, <1>p, <2>1, PerplexityType
  <2>6. (Quality(composed.w))' <= newPerplexity'
    BY <1>n, <2>2, <2>4, <2>5
  <2>7. first' = FALSE /\ train_iter > 0 /\ Target' = Target
    BY <1>p, <2>1 DEF Estimate, IInv, ModeOK, Target
  <2>8. QED
    BY <1>n, <1>p, <1>s, <2>1, <2>2, <2>3, <2>6, <2>7 DEF DInv
<1>5. CASE JudgeStart
  <2>1. /\ pc = "judge" /\ pc' \in {"maximize", "restart"} /\ train_iter = 1
        /\ UNCHANGED <<corpus, composed, parts, em_weight, last_was_reset, lastPerplexity,
                       newPerplexity, train_iter, first>>
    BY <1>5 DEF JudgeStart, first_time
  <2>2. QED
    BY <1>n, <1>p, <1>s, <2>1 DEF DInv
<1>6. CASE ResetRate
  <2>1. /\ pc = "judge" /\ pc' = "iterate" /\ train_iter > 1 /\ relaxed' = FALSE /\ ~using_cascade
        /\ composed' = em_weight
        /\ UNCHANGED <<corpus, parts, em_weight, lastPerplexity, newPerplexity, train_iter, first>>
    BY <1>6, <1>n DEF ResetRate, Failed, first_time, PlainEM, IInv, ModeOK
  <2>2. QED
    BY <1>n, <1>p, <1>s, <2>1 DEF DInv, Target
<1>7. CASE Converge
  <2>1. /\ pc = "judge" /\ pc' \in {"maximize", "restart"} /\ train_iter > 1 /\ ~relaxed
        /\ UNCHANGED <<corpus, composed, parts, em_weight, relaxed, last_was_reset,
                       lastPerplexity, newPerplexity, train_iter, first>>
    BY <1>7, <1>n DEF Converge, Failed, first_time, IInv, ModeOK
  <2>2. newPerplexity <= lastPerplexity
    BY <2>1 DEF DInv
  <2>3. QED
    BY <1>n, <1>p, <1>s, <2>1, <2>2 DEF DInv
<1>8. CASE GoOn
  <2>1. /\ pc = "judge" /\ pc' = "maximize" /\ train_iter > 1 /\ ~Failed
        /\ last_was_reset' = FALSE
        /\ UNCHANGED <<corpus, composed, parts, em_weight, lastPerplexity, newPerplexity,
                       train_iter, first>>
    BY <1>8, <1>n DEF GoOn, first_time, IInv, ModeOK
  <2>2. CASE ~relaxed
    BY <1>n, <1>p, <1>s, <2>1, <2>2 DEF DInv
  <2>3. CASE relaxed
    <3>1. ~last_was_reset /\ ~using_cascade
      BY <2>3 DEF DInv, IInv, ModeOK
    <3>2. ~FailsToImprove(newPerplexity, lastPerplexity)
      BY <2>1, <3>1, <1>n DEF Failed, first_time
    <3>3. newPerplexity = Quality(composed.w) /\ Quality(Target) <= lastPerplexity
      BY <2>1, <3>1 DEF DInv
    <3>4. newPerplexity = Inf => lastPerplexity = Inf
      <4>1. /\ Quality(composed.w) = Inf => Quality(Target) = Inf
            /\ Quality(Target) \in Int
        BY <1>n, QualityFacts
      <4>2. QED
        BY <1>n, <3>3, <4>1
    <3>5. 1 <= Quality(Target) /\ Quality(Target) \in Int
      BY <1>n, QualityFacts
    <3>6. newPerplexity <= lastPerplexity
      BY <1>n, <3>2, <3>3, <3>4, <3>5 DEF FailsToImprove
    <3>7. QED
      BY <1>n, <1>p, <1>s, <2>1, <3>6 DEF DInv
  <2>4. QED
    BY <2>2, <2>3
<1>9. CASE Maximize
  <2>1. /\ pc = "maximize" /\ pc' \in {"iterate", "restart"} /\ train_iter > 0 /\ ~first
        /\ pc' = "iterate" => lastPerplexity' = newPerplexity
        /\ UNCHANGED <<corpus, relaxed, last_was_reset, newPerplexity, train_iter, first>>
    BY <1>9 DEF Maximize, DInv
  <2>2. Normalized(Counts(counted)) = Weights(EM[counted]) /\ Weights(EM[counted]).w = EM[counted]
    BY <1>n, ArcTypes
  <2>3. /\ Target' = EM[counted]
        /\ ~using_cascade /\ ~relaxed => composed'.w = Target'
    BY <1>9, <1>p, <2>2 DEF Maximize
  <2>4. counted = composed.w /\ Quality(composed.w) <= newPerplexity
    BY <2>1 DEF DInv, IInv, ArcsOK
  <2>5. /\ Quality(EM[counted]) <= Quality(counted)
        /\ Quality(counted) \in Int /\ Quality(EM[counted]) \in Int
    BY <1>n, QualityFacts
  <2>6. Quality(Target') <= newPerplexity
    BY <1>n, <2>3, <2>4, <2>5
  <2>7. QED
    BY <1>n, <1>p, <1>s, <2>1, <2>3, <2>6 DEF DInv
<1>10. CASE Restart
  <2>1. /\ pc' \in {"iterate", "load"}
        /\ pc' = "iterate" => train_iter' = 0 /\ lastPerplexity' = Inf
        /\ last_was_reset' => ~relaxed' /\ train_iter' > 1
    BY <1>10 DEF Restart, DInv
  <2>2. QED
    BY <2>1 DEF DInv
<1>11. CASE Load \/ UNCHANGED vars
  <2>1. CASE Load
    BY <2>1 DEF Load, DInv
  <2>2. CASE UNCHANGED vars
    <3>1. UNCHANGED <<composed, parts, em_weight, relaxed, last_was_reset, lastPerplexity,
                      newPerplexity, train_iter, first, pc, corpus>>
      BY <2>2 DEF vars
    <3>2. Target' = Target
      BY <3>1, <1>p DEF Target
    <3>3. QED
      BY <1>p, <1>s, <3>1, <3>2 DEF DInv
  <2>3. QED
    BY <1>11, <2>1, <2>2
<1>12. QED
  BY <1>1, <1>2, <1>3, <1>4, <1>5, <1>6, <1>7, <1>8, <1>9, <1>10, <1>11 DEF Next, Step, Terminated

LEMMA DInvHolds == Spec => []DInv
<1>1. IInv /\ IInv' /\ DInv /\ [Next]_vars => DInv'
  BY StepD
<1>2. QED
  BY InvHolds, InitD, <1>1, PTL DEF Spec

(* Within a start, an iteration is never compared with a worse perplexity than
   the one before was: an over-relaxed step that makes things worse is taken
   back, and the plain EM step put in its place cannot. *)
THEOREM TrainingDescends == Spec => Descends
<1>1. TypeOK /\ DInv /\ [Next]_vars
      => [train_iter' >= train_iter => lastPerplexity' <= lastPerplexity]_vars
  <2> SUFFICES ASSUME TypeOK, DInv, Next, train_iter' >= train_iter
               PROVE  lastPerplexity' <= lastPerplexity
    OBVIOUS
  <2>1. lastPerplexity \in Int /\ train_iter \in Int
    BY PpxAssumption DEF TypeOK
  <2>2. CASE Maximize
    BY <2>1, <2>2 DEF Maximize, DInv
  <2>3. CASE Restart
    BY <2>1, <2>3 DEF Restart, DInv
  <2>4. CASE Next /\ ~Maximize /\ ~Restart
    <3>1. lastPerplexity' = lastPerplexity
      BY <2>4 DEF Next, Step, Terminated, vars, judged, Enter, EvaluateCorpus, SinglePass,
                  StartIteration, EstimateAndSave, JudgeStart, ResetRate, Converge, GoOn, Load
    <3>2. QED
      BY <2>1, <3>1
  <2>5. QED
    BY <2>2, <2>3, <2>4
<1>2. QED
  BY EMTypes, DInvHolds, <1>1, PTL DEF Spec, Descends

-----------------------------------------------------------------------------
(* The total.  It starts as the weight of all examples; what a pass leaves
   out of it has no derivation. *)

CountsEach(ex, total) ==
  \E used \in {WithDerivation(ex), Places(ex)} : total = TotalWeight(ex, used)

TInv ==
  /\ corpus.left \in {WithDerivation(corpus.ex), Places(corpus.ex)}
  /\ CountsEach(corpus.ex, corpus.total)
  /\ opt.mode # "cached"

NoneCached == \A o \in Options : o.mode # "cached"

(* a pass leaves all the examples or those with a derivation, and recounts them or not *)
LEMMA PassTotal ==
  ASSUME NEW c, NEW mode, NEW prune, NEW fst,
         c.left \in {WithDerivation(c.ex), Places(c.ex)}, CountsEach(c.ex, c.total)
  PROVE  LET d == Pass(c, mode, prune, fst)
         IN  d.left \in {WithDerivation(d.ex), Places(d.ex)} /\ CountsEach(d.ex, d.total)
<1> DEFINE left == Remaining(c, mode, prune, fst)
           d == Pass(c, mode, prune, fst)
<1>1. d = [ex |-> c.ex, left |-> left,
           total |-> IF Counted(mode, fst) THEN TotalWeight(c.ex, left) ELSE c.total]
  BY DEF Pass
<1>2. GoodExamples(c) = WithDerivation(c.ex) BY DEF GoodExamples, WithDerivation
<1>3. left \in {WithDerivation(c.ex), Places(c.ex)} BY <1>2 DEF Remaining
<1> HIDE DEF left
<1>4. d.ex = c.ex /\ d.left = left /\ d.total \in {TotalWeight(c.ex, left), c.total} BY <1>1
<1> HIDE DEF d
<1>5. CountsEach(d.ex, d.total) BY <1>3, <1>4 DEF CountsEach
<1> QED BY <1>3, <1>4, <1>5 DEF d

LEMMA InitTotal == ASSUME NoneCached, Init PROVE TInv
<1>1. opt \in Options BY DEF Init
<1>2. PICK ex \in Corpora : corpus = CorpusOf(ex) BY DEF Init
<1>3. corpus.ex = ex /\ corpus.left = Places(ex) /\ corpus.total = TotalWeight(ex, Places(ex))
  BY <1>2 DEF CorpusOf
<1> QED BY <1>1, <1>3 DEF TInv, CountsEach, NoneCached

LEMMA SameTotal == ASSUME TInv, corpus' = corpus, opt' = opt PROVE TInv'
BY DEF TInv

LEMMA EstimateTotal == ASSUME TInv, NEW c, Estimate(c), opt' = opt PROVE TInv'
<1>1. corpus' = Pass(corpus, opt.mode, opt.prune, first) BY DEF Estimate
<1> QED BY <1>1, PassTotal DEF TInv

LEMMA StepTotal == ASSUME TInv, [Next]_vars PROVE TInv'
<1>1. CASE Enter
  <2>1. opt' = opt /\ corpus' = corpus BY <1>1 DEF Enter, TInv
  <2> QED BY <2>1, SameTotal
<1>2. CASE EvaluateCorpus BY <1>2, EstimateTotal DEF EvaluateCorpus
<1>3. CASE SinglePass BY <1>3, EstimateTotal DEF SinglePass
<1>4. CASE StartIteration BY <1>4, SameTotal DEF StartIteration
<1>5. CASE EstimateAndSave BY <1>5, EstimateTotal DEF EstimateAndSave
<1>6. CASE JudgeStart BY <1>6, SameTotal DEF JudgeStart
<1>7. CASE ResetRate BY <1>7, SameTotal DEF ResetRate
<1>8. CASE Converge BY <1>8, SameTotal DEF Converge
<1>9. CASE GoOn BY <1>9, SameTotal DEF GoOn
<1>10. CASE Maximize BY <1>10, SameTotal DEF Maximize
<1>11. CASE Restart BY <1>11, SameTotal DEF Restart
<1>12. CASE Load BY <1>12, SameTotal DEF Load
<1>13. CASE Terminated \/ UNCHANGED vars BY <1>13, SameTotal DEF Terminated, vars
<1> QED BY <1>1, <1>2, <1>3, <1>4, <1>5, <1>6, <1>7, <1>8, <1>9, <1>10, <1>11, <1>12, <1>13
        DEF Next, Step

(* Without cached derivations, the total every perplexity is taken over counts once
   each example that has a derivation, or each that was read, whatever was erased. *)
THEOREM TotalIsKept == ASSUME NoneCached PROVE Spec => []TotalCountsExamples
<1>1. Init => TInv BY InitTotal
<1>2. TInv /\ [Next]_vars => TInv' BY StepTotal
<1>3. TInv => TotalCountsExamples BY DEF TInv, CountsEach, TotalCountsExamples
<1> QED BY <1>1, <1>2, <1>3, PTL DEF Spec
=============================================================================
