----------------------- MODULE CascadeTrainingProofs -----------------------
(***************************************************************************)
(* For any machines, chains, estimates, methods and options, training a    *)
(* cascade                                                                 *)
(*   - leaves fixed weights alone, and what had the best perplexity: what  *)
(*     UseCounts makes of counts depends on the weights it replaces only   *)
(*     where they are fixed;                                               *)
(*   - gives the arcs of a tie group one weight;                           *)
(*   - leaves normalization groups that sum to one, and are shared in      *)
(*     proportion to the evidence: weights always are what normalize made  *)
(*     of some counts.  For this, the laws of fractions, and of their sums *)
(*     over sets, are proved from the definitions of module Ratios.        *)
(***************************************************************************)
EXTENDS CascadeTraining, SumTheorems, FiniteSetTheorems, TLAPS

(* Priors are asked for only of machines without locked arcs. *)
LockedUnsmoothed ==
  \A o \in Options, a \in Params :
    IsLocked(a) => LET method == o.methods[ArcOf[a].machine]
                   IN  method.group = "none" \/ method.add_count = Zero

Array(w) == w = [a \in Params |-> w[a]]
LockedSame(w) == \A a \in Params : IsLocked(a) => w[a] = Weight0[a]
NoneSame(w) == \A a \in Params : IsNone(a) => w[a] = Weight0[a]

(* what the counts of an estimate make of the cascade *)
Made(counts) == UseCounts(Weight0, counts)

(* TRUE between the first normalization and what -M 0 leaves *)
WeightsOK ==
  /\ Array(weight)
  /\ LockedSame(weight)
  /\ ~(pc = "done" /\ opt.max_iter = 0) => NoneSame(weight)

(* where the counts are that the present weights were made from *)
CountsOK ==
  /\ pc = "iterate" /\ train_iter > 0 => weight = Made(composed)
  /\ pc = "estimate" /\ train_iter > 1 => weight = Made(em_weight)
  /\ have_good_weights => best = Made(best_weight)
  /\ pc \in {"enter", "single"} => train_iter = 0 /\ ~have_good_weights

IInv ==
  /\ opt \in Options
  /\ train_iter \in Nat
  /\ WeightsOK
  /\ CountsOK
  /\ BestLeft

-----------------------------------------------------------------------------
(* normalize leaves locked arcs, unless they are smoothed, and machines that
   are not normalized. *)
LEMMA NormalizeFixed ==
  ASSUME LockedUnsmoothed, opt \in Options, NEW w, LockedSame(w)
  PROVE  LET u == Normalize(w, opt.methods)
         IN  Array(u) /\ LockedSame(u) /\ \A a \in Params : IsNone(a) => u[a] = w[a]
<1> DEFINE s == Smoothed(w, opt.methods)
           u == Normalize(w, opt.methods)
           new(a) == NewWeight(s, a, opt.methods[ArcOf[a].machine].group)
<1>1. u = [a \in Params |-> IF IsNone(a) THEN w[a] ELSE new(a)]
  BY DEF Normalize, IsNone
<1> HIDE DEF u
<1>2. Array(u) BY <1>1, Zenon DEF Array
<1>3. \A a \in Params : IsNone(a) => u[a] = w[a] BY <1>1
<1>4. ASSUME NEW a \in Params, IsLocked(a)
      PROVE  u[a] = Weight0[a]
  <2>1. w[a] = Weight0[a] BY <1>4 DEF LockedSame
  <2>2. CASE IsNone(a) BY <1>3, <2>1, <2>2
  <2>3. CASE ~IsNone(a)
    <3>1. opt.methods[ArcOf[a].machine].add_count = Zero
      BY <1>4, <2>3 DEF LockedUnsmoothed, IsNone
    <3>2. s[a] = Plus(w[a], Zero) BY <3>1 DEF Smoothed
    <3>3. u[a] = new(a) BY <1>1, <2>3
    <3>4. new(a) = s[a] BY <1>4 DEF NewWeight
    <3> QED BY <2>1, <3>2, <3>3, <3>4, Weight0Assumption
  <2> QED BY <2>2, <2>3
<1>5. LockedSame(u) BY <1>4 DEF LockedSame
<1> QED BY <1>2, <1>3, <1>5 DEF u

LEMMA DistributedLocked ==
  ASSUME NEW w, NEW counts
  PROVE  /\ Array(Distributed(w, counts))
         /\ LockedSame(w) => LockedSame(Distributed(w, counts))
BY DEF Distributed, Array, LockedSame

(* What counts make of the cascade does not depend on what they replace. *)
LEMMA UseCountsMakes ==
  ASSUME NEW w, NEW counts, LockedSame(w), NoneSame(w)
  PROVE  UseCounts(w, counts) = Made(counts)
<1>1. Distributed(w, counts) = Distributed(Weight0, counts)
  BY DEF Distributed, LockedSame
<1>2. \A a \in Params : IsNone(a) => w[a] = Weight0[a] BY DEF NoneSame
<1> QED BY <1>1, <1>2 DEF UseCounts, Made

LEMMA MadeFixed ==
  ASSUME LockedUnsmoothed, opt \in Options, NEW counts
  PROVE  Array(Made(counts)) /\ LockedSame(Made(counts)) /\ NoneSame(Made(counts))
<1> DEFINE d == Distributed(Weight0, counts)
           u == Normalize(d, opt.methods)
<1>1. LockedSame(d) BY DistributedLocked DEF LockedSame
<1>2. LockedSame(u)
  <2> HIDE DEF d
  <2> QED BY <1>1, NormalizeFixed
<1> HIDE DEF u
<1>3. Made(counts) = [a \in Params |-> IF IsNone(a) THEN Weight0[a] ELSE u[a]]
  BY DEF Made, UseCounts, u
<1>4. \A a \in Params : Made(counts)[a] = IF IsNone(a) THEN Weight0[a] ELSE u[a]
  BY <1>3
<1>5. Array(Made(counts))
  BY <1>3 DEF Array
<1>6. LockedSame(Made(counts)) BY <1>2, <1>4 DEF LockedSame
<1>7. NoneSame(Made(counts)) BY <1>4 DEF NoneSame
<1> QED BY <1>5, <1>6, <1>7

-----------------------------------------------------------------------------
LEMMA InitInv == Init => IInv
BY Weight0Assumption DEF Init, IInv, WeightsOK, CountsOK, BestLeft, Array, LockedSame, NoneSame

LEMMA EnterInv ==
  ASSUME LockedUnsmoothed, IInv, Enter
  PROVE  IInv'
<1> DEFINE u == Normalize(weight, opt.methods)
<1>1. LockedSame(weight) /\ NoneSame(weight) /\ opt \in Options
  BY DEF IInv, WeightsOK, Enter
<1>2. Array(u) /\ LockedSame(u) /\ NoneSame(u)
  BY <1>1, NormalizeFixed DEF NoneSame
<1>3. weight' = u /\ opt' = opt BY DEF Enter
<1> HIDE DEF u
<1>4. WeightsOK' BY <1>2, <1>3 DEF WeightsOK, Array, LockedSame, NoneSame, IsNone
<1>5. train_iter = 0 /\ ~have_good_weights
  BY DEF IInv, CountsOK, Enter
<1> QED BY <1>4, <1>5 DEF IInv, CountsOK, BestLeft, Enter

LEMMA MadeInv ==
  ASSUME LockedUnsmoothed, opt \in Options, NEW counts, weight' = Made(counts), opt' = opt
  PROVE  WeightsOK'
<1>1. Array(Made(counts)) /\ LockedSame(Made(counts)) /\ NoneSame(Made(counts))
  BY MadeFixed
<1> QED BY <1>1 DEF WeightsOK, Array, LockedSame, NoneSame, IsNone

LEMMA StartIterationInv ==
  ASSUME LockedUnsmoothed, IInv, StartIteration
  PROVE  IInv'
<1>1. opt' = opt /\ weight' = weight /\ best' = best /\ best_weight' = best_weight
  BY DEF StartIteration
<1>2. WeightsOK' BY <1>1 DEF IInv, WeightsOK, Array, LockedSame, NoneSame, IsNone, StartIteration
<1>3. train_iter > 0 => em_weight' = composed
  BY DEF IInv, StartIteration, first_time
<1>4. Made(em_weight)' = Made(em_weight') /\ Made(best_weight)' = Made(best_weight')
  BY <1>1 DEF Made, UseCounts, IsNone
<1>5. CountsOK' BY <1>1, <1>3, <1>4 DEF IInv, CountsOK, StartIteration
<1> QED BY <1>2, <1>5 DEF IInv, BestLeft, StartIteration

LEMMA IterateInv ==
  ASSUME LockedUnsmoothed, IInv, Iterate
  PROVE  IInv'
<1>1. opt' = opt /\ train_iter' = train_iter /\ opt \in Options /\ pc = "estimate"
      /\ train_iter \in Nat
  BY DEF Iterate, IInv
<1>2. \/ have_good_weights' /\ best' = weight /\ best_weight' = em_weight /\ train_iter > 1
      \/ (have_good_weights' => have_good_weights) /\ best' = best /\ best_weight' = best_weight
  <2>1. PICK newBest \in BOOLEAN :
          /\ newBest => train_iter > 1
          /\ best_weight' = IF newBest THEN em_weight ELSE best_weight
          /\ best' = IF newBest THEN weight ELSE best
          /\ have_good_weights' = (have_good_weights \/ newBest)
    BY DEF Iterate, SavedBest, MayBeKept
  <2>2. CASE newBest = TRUE BY <2>1, <2>2
  <2>3. CASE newBest = FALSE
    <3>1. have_good_weights' => have_good_weights BY <2>1, <2>3
    <3> QED BY <2>1, <2>3, <3>1
  <2> QED BY <2>2, <2>3
<1>3. have_good_weights' => best' = Made(best_weight')
  BY <1>1, <1>2 DEF IInv, CountsOK
<1>4. Made(best_weight)' = Made(best_weight') /\ Made(composed)' = Made(composed')
  BY <1>1 DEF Made, UseCounts, IsNone
<1>5. CASE weight' = weight /\ pc' = "tail"
  <2>1. WeightsOK' BY <1>1, <1>5 DEF IInv, WeightsOK, Array, LockedSame, NoneSame, IsNone
  <2> QED BY <1>1, <1>3, <1>4, <1>5, <2>1 DEF IInv, CountsOK, BestLeft
<1>6. CASE pc' = "iterate" /\ \E counts \in Estimates : Maximize(counts)
  <2>1. weight' = UseCounts(weight, composed') BY <1>6 DEF Maximize
  <2>2. weight' = Made(composed')
    BY <1>1, <2>1, UseCountsMakes DEF IInv, WeightsOK
  <2>3. WeightsOK' BY <1>1, <2>2, MadeInv
  <2> QED BY <1>1, <1>3, <1>4, <1>6, <2>2, <2>3 DEF IInv, CountsOK, BestLeft
<1> QED BY <1>5, <1>6 DEF Iterate

LEMMA SinglePassInv ==
  ASSUME LockedUnsmoothed, IInv, SinglePass
  PROVE  IInv'
<1>1. opt' = opt /\ train_iter' = train_iter /\ opt \in Options /\ train_iter \in Nat
      /\ ~have_good_weights' /\ pc' = "done"
  BY DEF SinglePass, IInv, CountsOK
<1>2. LockedSame(weight) /\ NoneSame(weight) BY DEF IInv, WeightsOK, SinglePass
<1>3. PICK counted : weight' = IF opt.max_iter = 0 THEN Distributed(weight, counted)
                               ELSE UseCounts(UseCounts(weight, counted), counted)
  BY DEF SinglePass
<1>4. WeightsOK'
  <2>1. CASE opt.max_iter = 0
    <3>1. weight' = Distributed(weight, counted) BY <1>3, <2>1
    <3>2. Array(Distributed(weight, counted)) /\ LockedSame(Distributed(weight, counted))
      BY <1>2, DistributedLocked
    <3> QED BY <1>1, <2>1, <3>1, <3>2 DEF WeightsOK, Array, LockedSame
  <2>2. CASE opt.max_iter # 0
    <3>1. UseCounts(weight, counted) = Made(counted) BY <1>2, UseCountsMakes
    <3>2. LockedSame(Made(counted)) /\ NoneSame(Made(counted)) BY <1>1, MadeFixed
    <3>3. UseCounts(Made(counted), counted) = Made(counted) BY <3>2, UseCountsMakes
    <3>4. weight' = Made(counted) BY <1>3, <2>2, <3>1, <3>3
    <3> QED BY <1>1, <3>4, MadeInv
  <2> QED BY <2>1, <2>2
<1> QED BY <1>1, <1>4 DEF IInv, CountsOK, BestLeft

LEMMA RestartInv ==
  ASSUME LockedUnsmoothed, IInv, Restart
  PROVE  IInv'
<1>1. opt' = opt /\ opt \in Options /\ pc = "tail" /\ pc' = "iterate" /\ train_iter' = 0
      /\ have_good_weights' = have_good_weights /\ best' = best /\ best_weight' = best_weight
  BY DEF Restart, IInv
<1>2. PICK r \in Random : weight' = Normalize(Randomized(weight, r), opt.methods)
  BY DEF Restart
<1> DEFINE w == Randomized(weight, r)
           u == Normalize(w, opt.methods)
<1>3. LockedSame(w) /\ NoneSame(w)
  BY <1>1 DEF IInv, WeightsOK, Randomized, LockedSame, NoneSame
<1>4. Array(u) /\ LockedSame(u) /\ \A a \in Params : IsNone(a) => u[a] = w[a]
  <2> HIDE DEF w
  <2> QED BY <1>1, <1>3, NormalizeFixed
<1>5. NoneSame(u)
  <2> HIDE DEF w, u
  <2> QED BY <1>3, <1>4 DEF NoneSame
<1>6. WeightsOK'
  <2> HIDE DEF u
  <2>1. weight' = u BY <1>2 DEF u
  <2> QED BY <1>1, <1>4, <1>5, <2>1 DEF WeightsOK, Array, LockedSame, NoneSame, IsNone
<1>7. Made(best_weight)' = Made(best_weight') BY <1>1 DEF Made, UseCounts, IsNone
<1>8. CountsOK' BY <1>1, <1>7 DEF IInv, CountsOK
<1> QED BY <1>1, <1>6, <1>8 DEF IInv, BestLeft

LEMMA FinishInv ==
  ASSUME LockedUnsmoothed, IInv, Finish
  PROVE  IInv'
<1>1. opt' = opt /\ opt \in Options /\ pc = "tail" /\ pc' = "done" /\ train_iter' = train_iter
      /\ have_good_weights' = have_good_weights /\ best' = best /\ best_weight' = best_weight
      /\ weight' = UseCounts(weight, best_weight) /\ composed' = Update(weight')
  BY DEF Finish, IInv, LoadBest
<1>2. weight' = Made(best_weight) BY <1>1, UseCountsMakes DEF IInv, WeightsOK
<1>3. WeightsOK' BY <1>1, <1>2, MadeInv
<1>4. Made(best_weight)' = Made(best_weight') BY <1>1 DEF Made, UseCounts, IsNone
<1>5. CountsOK' BY <1>1, <1>4 DEF IInv, CountsOK
<1>6. have_good_weights => weight' = best' BY <1>1, <1>2 DEF IInv, CountsOK
<1>7. BestLeft'
  <2>1. Update(best)' = Update(best') BY DEF Update
  <2> QED BY <1>1, <1>6, <2>1 DEF BestLeft
<1> QED BY <1>1, <1>3, <1>5, <1>7 DEF IInv

LEMMA StepInv == ASSUME LockedUnsmoothed, IInv, [Next]_vars PROVE IInv'
<1>1. CASE UNCHANGED vars
  BY <1>1 DEF IInv, WeightsOK, CountsOK, BestLeft, Array, LockedSame, NoneSame, IsNone, Made,
              UseCounts, Update, vars
<1> QED BY <1>1, EnterInv, SinglePassInv, StartIterationInv, IterateInv, RestartInv, FinishInv
        DEF Next

(* The inductive invariant. *)
THEOREM CascadeInv == ASSUME LockedUnsmoothed PROVE Spec => []IInv
<1>1. Init => IInv BY InitInv
<1>2. IInv /\ [Next]_vars => IInv' BY StepInv
<1> QED BY <1>1, <1>2, PTL DEF Spec

(* Locked arcs and machines with --normby=N keep their weights (cascade.h:
   clear_counts, distribute_counts, save_none and load_none; fst.cc: normalize),
   if the machines with locked arcs are not smoothed. *)
THEOREM FixedWeightsKept == ASSUME LockedUnsmoothed PROVE Spec => []FixedKept
<1>1. IInv => FixedKept
  BY DEF IInv, WeightsOK, FixedKept, Trained, LockedSame, NoneSame
<1> QED BY <1>1, CascadeInv, PTL

(* What use_counts_final makes of the counts loaded by load_best is what had the
   best perplexity, whatever happened in between. *)
THEOREM BestWeightsLeft == ASSUME LockedUnsmoothed PROVE Spec => []BestLeft
<1>1. IInv => BestLeft BY DEF IInv
<1> QED BY <1>1, CascadeInv, PTL
-----------------------------------------------------------------------------
(* Tied arcs are given one weight by normalize, whatever they had. *)
TiedSame(w) ==
  \A a, b \in Params : Trained(a) /\ IsTied(a) /\ b \in TieGroup(a) => w[a] = w[b]

LEMMA SameTies ==
  ASSUME NEW a \in Params, NEW b \in Params, Trained(a), IsTied(a), b \in TieGroup(a)
  PROVE  /\ ArcOf[b].machine = ArcOf[a].machine
         /\ TieGroup(b) = TieGroup(a)
         /\ IsTied(b) /\ Trained(b) /\ ~IsLocked(a) /\ ~IsLocked(b)
BY DEF TieGroup, MachineArcs, Trained, IsTied, IsLocked, IsNormal, IsNone

LEMMA NormalizeTies ==
  ASSUME NEW w PROVE TiedSame(Normalize(w, opt.methods))
<1> DEFINE s == Smoothed(w, opt.methods)
           u == Normalize(w, opt.methods)
           group(a) == opt.methods[ArcOf[a].machine].group
<1> SUFFICES ASSUME NEW a \in Params, NEW b \in Params,
                    Trained(a), IsTied(a), b \in TieGroup(a)
             PROVE  u[a] = u[b]
  BY DEF TiedSame
<1>1. /\ ArcOf[b].machine = ArcOf[a].machine /\ TieGroup(b) = TieGroup(a)
      /\ IsTied(b) /\ Trained(b) /\ ~IsLocked(a) /\ ~IsLocked(b)
  BY SameTies
<1>2. group(a) # "none" /\ group(b) = group(a)
  BY <1>1 DEF Trained, IsNone
<1>3. u[a] = NewWeight(s, a, group(a)) /\ u[b] = NewWeight(s, b, group(a))
  <2> HIDE DEF s
  <2>1. u = [x \in Params |-> IF group(x) = "none" THEN w[x] ELSE NewWeight(s, x, group(x))]
    BY DEF Normalize, s
  <2> HIDE DEF u, group
  <2> QED BY <1>2, <2>1
<1> HIDE DEF s, u
<1>4. NewWeight(s, a, group(a)) = TiedWeight(s, a, group(a))
  BY <1>1 DEF NewWeight
<1>5. NewWeight(s, b, group(a)) = TiedWeight(s, b, group(a))
  BY <1>1 DEF NewWeight
<1>6. TiedWeight(s, a, group(a)) = TiedWeight(s, b, group(a))
  <2> HIDE DEF group
  <2> QED BY <1>1 DEF TiedWeight
<1> QED BY <1>3, <1>4, <1>5, <1>6

LEMMA UseCountsTies ==
  ASSUME NEW w, NEW counts PROVE TiedSame(UseCounts(w, counts))
<1> DEFINE u == Normalize(Distributed(w, counts), opt.methods)
<1>1. TiedSame(u) BY NormalizeTies
<1>2. UseCounts(w, counts) = [a \in Params |-> IF IsNone(a) THEN w[a] ELSE u[a]]
  BY DEF UseCounts
<1> HIDE DEF u
<1>3. \A a \in Params : Trained(a) => UseCounts(w, counts)[a] = u[a]
  BY <1>2 DEF Trained
<1>4. ASSUME NEW a \in Params, NEW b \in Params, Trained(a), IsTied(a), b \in TieGroup(a)
      PROVE  UseCounts(w, counts)[a] = UseCounts(w, counts)[b]
  BY <1>1, <1>3, <1>4, SameTies DEF TiedSame
<1> QED BY <1>4 DEF TiedSame

LEMMA TiesStep == ASSUME TiesHold, [Next]_vars PROVE TiesHold'
<1>1. opt' = opt BY DEF Next, vars, Enter, SinglePass, StartIteration, Iterate, Restart, Finish
<1>2. ASSUME Normalizing', TiedSame(weight') PROVE TiesHold'
  BY <1>1, <1>2 DEF TiesHold, TiedSame, Trained, IsNone
<1>3. CASE Normalizing /\ weight' = weight
  BY <1>1, <1>3 DEF TiesHold, Trained, IsNone
<1>4. ASSUME NEW w, weight' = Normalize(w, opt.methods) PROVE TiesHold'
  BY <1>2, <1>4, NormalizeTies DEF TiesHold
<1>5. ASSUME NEW w, NEW counts, weight' = UseCounts(w, counts) PROVE TiesHold'
  BY <1>2, <1>5, UseCountsTies DEF TiesHold
<1>6. CASE Enter BY <1>4, <1>6 DEF Enter
<1>7. CASE SinglePass
  <2>1. PICK counted : weight' = IF opt.max_iter = 0 THEN Distributed(weight, counted)
                                 ELSE UseCounts(UseCounts(weight, counted), counted)
    BY <1>7 DEF SinglePass
  <2>2. CASE opt.max_iter = 0
    BY <1>1, <1>7, <2>2 DEF SinglePass, TiesHold, Normalizing
  <2>3. CASE opt.max_iter # 0
    BY <1>5, <2>1, <2>3
  <2> QED BY <2>2, <2>3
<1>8. CASE StartIteration
  BY <1>3, <1>8 DEF StartIteration, Normalizing
<1>9. CASE Iterate
  <2>1. CASE weight' = weight BY <1>3, <1>9, <2>1 DEF Iterate, Normalizing
  <2>2. CASE \E counts \in Estimates : Maximize(counts) BY <1>5, <2>2 DEF Maximize
  <2> QED BY <1>9, <2>1, <2>2 DEF Iterate
<1>10. CASE Restart BY <1>4, <1>10 DEF Restart
<1>11. CASE Finish BY <1>5, <1>11 DEF Finish
<1>12. CASE UNCHANGED vars
  BY <1>1, <1>12 DEF vars, TiesHold, Trained, IsNone, Normalizing
<1> QED BY <1>6, <1>7, <1>8, <1>9, <1>10, <1>11, <1>12 DEF Next

(* After every normalization, of weights, counts or random draws, the arcs of a
   tie group have one weight (fst.cc: normalize), and neither save_none and
   load_none nor load_best ever leave some of them behind. *)
THEOREM TiesAreHeld == Spec => []TiesHold
<1>1. Init => TiesHold BY DEF Init, TiesHold, Normalizing
<1>2. TiesHold /\ [Next]_vars => TiesHold' BY TiesStep
<1> QED BY <1>1, <1>2, PTL DEF Spec

-----------------------------------------------------------------------------
(* Weights as fractions: whole numbers first *)

(* A positive factor can be taken off both sides of an equation. *)
LEMMA CancelFactor ==
  ASSUME NEW a \in Int, NEW b \in Int, NEW c \in Nat, c > 0, a * c = b * c
  PROVE  a = b
<1>1. CASE a < b
  <2>1. (b - a) * c >= c BY <1>1
  <2>2. (b - a) * c = b * c - a * c OBVIOUS
  <2> QED BY <2>1, <2>2
<1>2. CASE b < a
  <2>1. (a - b) * c >= c BY <1>2
  <2>2. (a - b) * c = a * c - b * c OBVIOUS
  <2> QED BY <2>1, <2>2
<1> QED BY <1>1, <1>2

(* A positive factor keeps the order. *)
LEMMA CancelLess ==
  ASSUME NEW a \in Int, NEW b \in Int, NEW c \in Nat, c > 0
  PROVE  a < b <=> a * c < b * c
<1>1. CASE a < b
  <2>1. (b - a) * c >= c BY <1>1
  <2>2. (b - a) * c = b * c - a * c OBVIOUS
  <2> QED BY <1>1, <2>1, <2>2
<1>2. CASE ~(a < b)
  <2>1. (a - b) * c >= 0 BY <1>2
  <2>2. (a - b) * c = a * c - b * c OBVIOUS
  <2> QED BY <1>2, <2>1, <2>2
<1> QED BY <1>1, <1>2

(* Division with remainder. *)
LEMMA Quotient ==
  ASSUME NEW a \in Nat, NEW b \in Nat, b > 0
  PROVE  /\ a \div b \in Nat /\ a % b \in Nat /\ a % b < b
         /\ a = b * (a \div b) + (a % b)
OBVIOUS

(* There is one quotient and one remainder. *)
LEMMA QuotientUnique ==
  ASSUME NEW b \in Nat, b > 0, NEW q \in Nat, NEW r \in Nat, r < b, NEW a, a = b * q + r
  PROVE  a \div b = q /\ a % b = r
<1>1. a \in Nat OBVIOUS
<1>2. PICK p \in Nat, s \in Nat : p = a \div b /\ s = a % b BY <1>1, Quotient
<1>3. s < b /\ a = b * p + s BY <1>1, <1>2, Quotient
<1>4. b * (q - p) = s - r BY <1>3
<1>5. q - p < 1
  <2> SUFFICES ASSUME q - p >= 1 PROVE FALSE BY <1>2
  <2>1. b * (q - p) >= b OBVIOUS
  <2> QED BY <1>3, <1>4, <2>1
<1>6. p - q < 1
  <2> SUFFICES ASSUME p - q >= 1 PROVE FALSE BY <1>2
  <2>1. b * (p - q) >= b OBVIOUS
  <2>2. b * (q - p) = -(b * (p - q)) OBVIOUS
  <2> QED BY <1>3, <1>4, <2>1, <2>2
<1>7. p = q BY <1>5, <1>6
<1> QED BY <1>2, <1>3, <1>7

-----------------------------------------------------------------------------
(* Euclid's algorithm *)

Divides(d, a) == \E k \in Int : a = d * k

(* what divides both is what divides g *)
IsGcd(a, b, g) == \A c \in Nat : Divides(c, a) /\ Divides(c, b) <=> Divides(c, g)

(* Numbers that divide each other are the same. *)
LEMMA DividesEachOther ==
  ASSUME NEW a \in Nat, NEW b \in Nat, Divides(a, b), Divides(b, a)
  PROVE  a = b
<1>1. PICK k \in Int : b = a * k BY DEF Divides
<1>2. PICK l \in Int : a = b * l BY DEF Divides
<1>3. CASE a = 0 BY <1>1, <1>3
<1>4. CASE b = 0 BY <1>2, <1>4
<1>5. CASE a > 0 /\ b > 0
  <2>1. k >= 1
    <3> SUFFICES ASSUME k <= 0 PROVE FALSE OBVIOUS
    <3>1. a * k <= 0 BY <1>5
    <3> QED BY <1>1, <1>5, <3>1
  <2>2. l >= 1
    <3> SUFFICES ASSUME l <= 0 PROVE FALSE OBVIOUS
    <3>1. b * l <= 0 BY <1>5
    <3> QED BY <1>2, <1>5, <3>1
  <2>3. a * k >= a BY <2>1
  <2>4. b * l >= b BY <2>2
  <2> QED BY <1>1, <1>2, <2>3, <2>4
<1> QED BY <1>3, <1>4, <1>5

(* Every number divides itself and zero. *)
LEMMA DividesItself == ASSUME NEW a \in Nat PROVE Divides(a, a) /\ Divides(a, 0)
<1>1. a = a * 1 /\ 0 = a * 0 OBVIOUS
<1> QED BY <1>1 DEF Divides

(* What divides a divisor divides a number if it divides the remainder. *)
LEMMA DividesRemainder ==
  ASSUME NEW c \in Nat, NEW a \in Nat, NEW b \in Nat, b > 0
  PROVE  Divides(c, a) /\ Divides(c, b) <=> Divides(c, b) /\ Divides(c, a % b)
<1>1. PICK q \in Nat, r \in Nat : r = a % b /\ a = b * q + r BY Quotient
<1>2. ASSUME Divides(c, a), Divides(c, b) PROVE Divides(c, r)
  <2>1. PICK k \in Int : a = c * k BY <1>2 DEF Divides
  <2>2. PICK l \in Int : b = c * l BY <1>2 DEF Divides
  <2>3. (c * l) * q = c * (l * q) OBVIOUS
  <2>4. c * (k - l * q) = c * k - c * (l * q) OBVIOUS
  <2>5. r = a - b * q /\ b * q = (c * l) * q BY <1>1, <2>2
  <2>6. r = c * (k - l * q) BY ONLY <2>1, <2>3, <2>4, <2>5
  <2> QED BY <2>6 DEF Divides
<1>3. ASSUME Divides(c, r), Divides(c, b) PROVE Divides(c, a)
  <2>1. PICK k \in Int : r = c * k BY <1>3 DEF Divides
  <2>2. PICK l \in Int : b = c * l BY <1>3 DEF Divides
  <2>3. a = c * (l * q + k) BY <1>1, <2>1, <2>2
  <2> QED BY <2>3 DEF Divides
<1> QED BY <1>1, <1>2, <1>3

(* A greatest common divisor is the only one. *)
LEMMA GcdUnique ==
  ASSUME NEW a, NEW b, NEW g \in Nat, NEW h \in Nat, IsGcd(a, b, g), IsGcd(a, b, h)
  PROVE  g = h
<1>1. Divides(g, h) /\ Divides(h, g) BY DividesItself DEF IsGcd
<1> QED BY <1>1, DividesEachOther

(* One step of Euclid's algorithm keeps the common divisors. *)
LEMMA GcdStep ==
  ASSUME NEW a \in Nat, NEW b \in Nat, b > 0, NEW g
  PROVE  IsGcd(a, b, g) <=> IsGcd(b, a % b, g)
BY DividesRemainder DEF IsGcd

(* Euclid's algorithm ends at zero. *)
LEMMA GcdWithZero == ASSUME NEW a \in Nat PROVE IsGcd(a, 0, a)
BY DividesItself DEF IsGcd

(* what Euclid's recursion is a definition of *)
LEMMA GcdDef ==
  ASSUME NEW a \in Nat, NEW b \in Nat
  PROVE  Gcd[<<a, b>>] = IF b = 0 THEN a ELSE Gcd[<<b, a % b>>]
<1> DEFINE Them(p) == {g \in Nat : IsGcd(p[1], p[2], g)}
           F == [p \in Nat \X Nat |-> CHOOSE g \in Them(p) : TRUE]
           Fix(f) == f = [p \in Nat \X Nat |-> IF p[2] = 0 THEN p[1] ELSE f[<<p[2], p[1] % p[2]>>]]
<1>1. ASSUME NEW p \in Nat \X Nat
      PROVE  F[p] = IF p[2] = 0 THEN p[1] ELSE F[<<p[2], p[1] % p[2]>>]
  <2>1. p[1] \in Nat /\ p[2] \in Nat OBVIOUS
  <2>2. F[p] = CHOOSE g \in Them(p) : TRUE OBVIOUS
  <2>3. CASE p[2] = 0
    <3>1. Them(p) = {p[1]} BY <2>1, <2>3, GcdWithZero, GcdUnique
    <3> QED BY <2>2, <2>3, <3>1
  <2>4. CASE p[2] > 0
    <3>1. PICK q : q = <<p[2], p[1] % p[2]>> OBVIOUS
    <3>2. q \in Nat \X Nat /\ q[1] = p[2] /\ q[2] = p[1] % p[2] BY <2>1, <2>4, <3>1, Quotient
    <3>3. F[q] = CHOOSE g \in Them(q) : TRUE BY <3>2
    <3>4. Them(q) = Them(p) BY <2>1, <2>4, <3>2, GcdStep
    <3>5. F[p] = F[q] BY <2>2, <3>3, <3>4
    <3> QED BY <2>4, <3>1, <3>5
  <2> QED BY <2>1, <2>3, <2>4
<1> HIDE DEF F
<1>2. F = [p \in Nat \X Nat |-> F[p]] BY DEF F
<1>3. Fix(F) BY <1>1, <1>2, Zenon
<1>4. \E f : Fix(f) BY <1>3
<1>5. Gcd = CHOOSE f : Fix(f) BY DEF Gcd
<1> HIDE DEF Fix
<1>6. Fix(Gcd) BY <1>4, <1>5
<1>7. <<a, b>> \in Nat \X Nat OBVIOUS
<1> QED BY <1>6, <1>7 DEF Fix

(* Gcd is the greatest common divisor. *)
LEMMA GcdIsGcd ==
  ASSUME NEW a \in Nat, NEW b \in Nat
  PROVE  Gcd[<<a, b>>] \in Nat /\ IsGcd(a, b, Gcd[<<a, b>>])
<1> DEFINE Right(x, y) == Gcd[<<x, y>>] \in Nat /\ IsGcd(x, y, Gcd[<<x, y>>])
           S == {m \in Nat : \A y \in 0..m : \A x \in Nat : Right(x, y)}
<1>1. 0 \in S
  <2>1. ASSUME NEW x \in Nat PROVE Right(x, 0) BY GcdDef, GcdWithZero
  <2> QED BY <2>1
<1>2. ASSUME NEW m \in Nat, m \in S PROVE m + 1 \in S
  <2>1. ASSUME NEW x \in Nat PROVE Right(x, m + 1)
    <3>1. x % (m + 1) \in 0..m BY Quotient
    <3>2. Right(m + 1, x % (m + 1)) BY <1>2, <3>1
    <3>3. Gcd[<<x, m + 1>>] = Gcd[<<m + 1, x % (m + 1)>>] BY GcdDef
    <3> QED BY <3>2, <3>3, GcdStep
  <2> HIDE DEF Right
  <2> QED BY <1>2, <2>1
<1> HIDE DEF S
<1>3. Nat \subseteq S BY <1>1, <1>2, NatSetInduction
<1>4. b \in S BY <1>3
<1> QED BY <1>4 DEF S

(* The order of the two numbers does not matter. *)
LEMMA GcdSymmetric ==
  ASSUME NEW a \in Nat, NEW b \in Nat
  PROVE  Gcd[<<a, b>>] = Gcd[<<b, a>>]
<1>1. IsGcd(a, b, Gcd[<<b, a>>]) BY GcdIsGcd DEF IsGcd
<1> QED BY <1>1, GcdIsGcd, GcdUnique

(* A common factor is a factor of the greatest. *)
LEMMA GcdScaled ==
  ASSUME NEW a \in Nat, NEW b \in Nat, NEW k \in Nat, k > 0
  PROVE  Gcd[<<k * a, k * b>>] = k * Gcd[<<a, b>>]
<1> DEFINE Right(x, y) == Gcd[<<k * x, k * y>>] = k * Gcd[<<x, y>>]
           S == {m \in Nat : \A y \in 0..m : \A x \in Nat : Right(x, y)}
<1>1. 0 \in S
  <2>1. ASSUME NEW x \in Nat PROVE Right(x, 0)
    <3>1. k * x \in Nat /\ k * 0 = 0 OBVIOUS
    <3> QED BY <3>1, GcdDef
  <2> QED BY <2>1
<1>2. ASSUME NEW m \in Nat, m \in S PROVE m + 1 \in S
  <2>1. ASSUME NEW x \in Nat PROVE Right(x, m + 1)
    <3>1. PICK q \in Nat, r \in Nat : r = x % (m + 1) /\ r < m + 1 /\ x = (m + 1) * q + r
      BY Quotient
    <3>2. PICK y \in Nat, n \in Nat : y = k * x /\ n = k * (m + 1) OBVIOUS
    <3>3. k * r \in Nat /\ k * r < n /\ n > 0
      <4>1. k * (m + 1 - r) >= k BY <3>1
      <4> QED BY <3>1, <3>2, <4>1
    <3>4. y = n * q + k * r BY <3>1, <3>2
    <3>5. y % n = k * r BY <3>3, <3>4, QuotientUnique
    <3>6. Gcd[<<y, n>>] = Gcd[<<n, k * r>>] BY <3>2, <3>3, <3>5, GcdDef
    <3>7. Right(m + 1, r)
      <4>1. r \in 0..m /\ m + 1 \in Nat BY <3>1
      <4> HIDE DEF Right
      <4> QED BY <1>2, <4>1
    <3>8. Gcd[<<x, m + 1>>] = Gcd[<<m + 1, r>>]
      <4>1. PICK n1 \in Nat : n1 = m + 1 /\ n1 # 0 OBVIOUS
      <4>2. r = x % n1 BY <3>1, <4>1
      <4>3. Gcd[<<x, n1>>] = Gcd[<<n1, x % n1>>] BY <4>1, GcdDef
      <4> QED BY <4>1, <4>2, <4>3
    <3> QED BY <3>2, <3>6, <3>7, <3>8
  <2> HIDE DEF Right
  <2> QED BY <1>2, <2>1
<1> HIDE DEF S
<1>3. Nat \subseteq S BY <1>1, <1>2, NatSetInduction
<1>4. b \in S BY <1>3
<1> QED BY <1>4 DEF S

-----------------------------------------------------------------------------
(* Fractions *)

Reduced == {x \in Ratio : Gcd[<<x[1], x[2]>>] = 1}

(* x is n / d *)
IsOver(x, n, d) == x[1] * d = n * x[2]

(* Numerator and denominator. *)
LEMMA RatioParts ==
  ASSUME NEW x \in Ratio
  PROVE  x[1] \in Nat /\ x[2] \in Nat /\ x[2] > 0 /\ x = <<x[1], x[2]>>
BY DEF Ratio

(* Fractions in lowest terms are fractions. *)
LEMMA ReducedRatio == Reduced \subseteq Ratio
BY DEF Reduced

(* One has no other divisor. *)
LEMMA GcdWithOne == ASSUME NEW a \in Nat PROVE Gcd[<<a, 1>>] = 1 /\ Gcd[<<1, a>>] = 1
<1>1. a % 1 = 0 OBVIOUS
<1>2. Gcd[<<a, 1>>] = Gcd[<<1, 0>>] BY <1>1, GcdDef
<1>3. Gcd[<<1, 0>>] = 1 BY GcdDef
<1> QED BY <1>2, <1>3, GcdSymmetric

(* Whole numbers are in lowest terms. *)
LEMMA WholeReduced == ASSUME NEW n \in Nat PROVE <<n, 1>> \in Reduced
<1>1. PICK x : x = <<n, 1>> OBVIOUS
<1>2. x \in Ratio /\ x[1] = n /\ x[2] = 1 BY <1>1 DEF Ratio
<1>3. Gcd[<<x[1], x[2]>>] = 1 BY <1>2, GcdWithOne
<1> QED BY <1>1, <1>2, <1>3 DEF Reduced

(* So are zero and one. *)
LEMMA ZeroAndOne == Zero \in Reduced /\ One \in Reduced /\ Zero # One
BY WholeReduced DEF Zero, One

(* a positive number divides what it is the greatest common divisor with *)
LEMMA GcdDivides ==
  ASSUME NEW a \in Nat, NEW b \in Nat, a > 0 \/ b > 0
  PROVE  /\ Gcd[<<a, b>>] \in Nat /\ Gcd[<<a, b>>] > 0
         /\ \E p \in Nat : a = Gcd[<<a, b>>] * p
         /\ \E p \in Nat : b = Gcd[<<a, b>>] * p
<1>1. PICK g \in Nat : g = Gcd[<<a, b>>] BY GcdIsGcd
<1>2. Divides(g, a) /\ Divides(g, b) BY <1>1, GcdIsGcd, DividesItself DEF IsGcd
<1>3. PICK k \in Int : a = g * k BY <1>2 DEF Divides
<1>4. PICK l \in Int : b = g * l BY <1>2 DEF Divides
<1>5. g > 0 BY <1>3, <1>4
<1>6. \A n \in Nat, m \in Int : n = g * m => m \in Nat
  <2> SUFFICES ASSUME NEW n \in Nat, NEW m \in Int, n = g * m, m < 0 PROVE FALSE OBVIOUS
  <2>1. g * (-m) >= g BY <1>5
  <2>2. g * (-m) = -(g * m) OBVIOUS
  <2> QED BY <1>5, <2>1, <2>2
<1>7. k \in Nat /\ l \in Nat BY <1>3, <1>4, <1>6
<1> QED BY <1>1, <1>3, <1>4, <1>5, <1>7

(* Lowest takes out the common factor *)
LEMMA LowestFacts ==
  ASSUME NEW n \in Nat, NEW d \in Nat, d > 0
  PROVE  /\ Lowest(n, d) \in Reduced
         /\ \E g \in Nat : g > 0 /\ n = g * Lowest(n, d)[1] /\ d = g * Lowest(n, d)[2]
<1>1. PICK g \in Nat : g = Gcd[<<n, d>>] /\ g > 0 BY GcdDivides
<1>2. PICK p \in Nat : n = g * p BY <1>1, GcdDivides
<1>3. PICK q \in Nat : d = g * q BY <1>1, GcdDivides
<1>4. q > 0 BY <1>3
<1>5. n \div g = p /\ d \div g = q
  <2>1. n = g * p + 0 /\ d = g * q + 0 BY <1>2, <1>3
  <2> QED BY <1>1, <2>1, QuotientUnique
<1>6. Lowest(n, d) = <<p, q>> BY <1>1, <1>5 DEF Lowest
<1>7. g * Gcd[<<p, q>>] = g
  <2>1. Gcd[<<g * p, g * q>>] = g * Gcd[<<p, q>>] BY <1>1, GcdScaled
  <2> QED BY <1>1, <1>2, <1>3, <2>1
<1>8. Gcd[<<p, q>>] = 1
  <2>1. PICK h \in Nat : h = Gcd[<<p, q>>] BY GcdIsGcd
  <2>2. h * g = 1 * g BY <1>7, <2>1
  <2>3. h \in Int /\ 1 \in Int /\ g > 0 BY <1>1
  <2>4. h = 1 BY ONLY <2>2, <2>3, CancelFactor
  <2> QED BY <2>1, <2>4
<1>9. <<p, q>> \in Reduced BY <1>4, <1>8 DEF Reduced, Ratio
<1> QED BY <1>1, <1>2, <1>3, <1>6, <1>9

(* Lowest does not change the number. *)
LEMMA LowestIsOver ==
  ASSUME NEW n \in Nat, NEW d \in Nat, d > 0
  PROVE  IsOver(Lowest(n, d), n, d)
<1>1. PICK x : x = Lowest(n, d) OBVIOUS
<1>2. x[1] \in Nat /\ x[2] \in Nat BY <1>1, LowestFacts, ReducedRatio, RatioParts
<1>3. PICK g \in Nat : n = g * x[1] /\ d = g * x[2] BY <1>1, LowestFacts
<1>4. x[1] * (g * x[2]) = (g * x[1]) * x[2] BY <1>2
<1> QED BY <1>1, <1>3, <1>4 DEF IsOver

(* a reduced fraction is known by its value *)
LEMMA SameOver ==
  ASSUME NEW x \in Reduced, NEW y \in Reduced, NEW n \in Nat, NEW d \in Nat, d > 0,
         IsOver(x, n, d), IsOver(y, n, d)
  PROVE  x = y
<1>1. /\ x[1] \in Nat /\ x[2] \in Nat /\ x[2] > 0 /\ x = <<x[1], x[2]>>
      /\ y[1] \in Nat /\ y[2] \in Nat /\ y[2] > 0 /\ y = <<y[1], y[2]>>
  BY ReducedRatio, RatioParts
<1>2. PICK a \in Nat, b \in Nat : a = x[1] /\ b = x[2] BY <1>1
<1>3. PICK p \in Nat, q \in Nat : p = y[1] /\ q = y[2] BY <1>1
<1>4. b > 0 /\ q > 0 /\ x = <<a, b>> /\ y = <<p, q>> BY <1>1, <1>2, <1>3
<1>5. a * d = n * b /\ p * d = n * q BY <1>2, <1>3 DEF IsOver
<1>6. a * q = p * b
  <2>1. (a * q) * d = (a * d) * q /\ (p * b) * d = (p * d) * b OBVIOUS
  <2>2. (n * b) * q = (n * q) * b OBVIOUS
  <2>3. (a * q) * d = (p * b) * d BY <1>5, <2>1, <2>2
  <2> QED BY <2>3, CancelFactor
<1>7. Gcd[<<a, b>>] = 1 /\ Gcd[<<p, q>>] = 1 BY <1>2, <1>3 DEF Reduced
<1>8. Gcd[<<q * a, q * b>>] = q BY <1>4, <1>7, GcdScaled
<1>9. Gcd[<<b * p, b * q>>] = b BY <1>4, <1>7, GcdScaled
<1>10. q * a = b * p /\ q * b = b * q BY <1>6
<1>11. q = b BY <1>8, <1>9, <1>10
<1>12. a = p BY <1>4, <1>6, <1>11, CancelFactor
<1> QED BY <1>4, <1>11, <1>12

(* A fraction is its numerator over its denominator. *)
LEMMA OverItself == ASSUME NEW x \in Ratio PROVE IsOver(x, x[1], x[2])
BY DEF IsOver

(* A fraction may be extended, *)
LEMMA OverScaled ==
  ASSUME NEW x \in Ratio, NEW n \in Nat, NEW d \in Nat, IsOver(x, n, d), NEW k \in Nat
  PROVE  IsOver(x, n * k, d * k)
<1>1. PICK a \in Nat, b \in Nat : a = x[1] /\ b = x[2] BY RatioParts
<1>2. a * (d * k) = (a * d) * k /\ (n * k) * b = (n * b) * k OBVIOUS
<1>3. a * d = n * b BY <1>1 DEF IsOver
<1> QED BY <1>1, <1>2, <1>3 DEF IsOver

(* and a factor taken out of it. *)
LEMMA OverUnscaled ==
  ASSUME NEW x \in Ratio, NEW n \in Nat, NEW d \in Nat, NEW k \in Nat, k > 0,
         IsOver(x, n * k, d * k)
  PROVE  IsOver(x, n, d)
<1>1. PICK a \in Nat, b \in Nat : a = x[1] /\ b = x[2] BY RatioParts
<1>2. a * (d * k) = (a * d) * k /\ (n * k) * b = (n * b) * k OBVIOUS
<1>3. a * (d * k) = (n * k) * b BY <1>1 DEF IsOver
<1>4. (a * d) * k = (n * b) * k BY <1>2, <1>3
<1>5. a * d = n * b BY <1>4, CancelFactor
<1> QED BY <1>1, <1>5 DEF IsOver

(* two fractions that are the same at some denominator are at any *)
LEMMA OverOther ==
  ASSUME NEW x \in Ratio, NEW n \in Nat, NEW d \in Nat, d > 0, IsOver(x, n, d),
         NEW m \in Nat, NEW e \in Nat, n * e = m * d
  PROVE  IsOver(x, m, e)
<1>1. PICK a \in Nat, b \in Nat : a = x[1] /\ b = x[2] BY RatioParts
<1>2. a * d = n * b BY <1>1 DEF IsOver
<1>3. (a * e) * d = (a * d) * e /\ (m * b) * d = (m * d) * b /\ (n * b) * e = (n * e) * b
  OBVIOUS
<1>4. (a * e) * d = (m * b) * d BY <1>2, <1>3
<1>5. a * e = m * b BY <1>4, CancelFactor
<1> QED BY <1>1, <1>5 DEF IsOver

(* Plus adds, over a common denominator, and its sum is in lowest terms. *)
LEMMA PlusFacts ==
  ASSUME NEW x \in Ratio, NEW y \in Ratio
  PROVE  /\ Plus(x, y) \in Reduced
         /\ \A n, m, d \in Nat : d > 0 /\ IsOver(x, n, d) /\ IsOver(y, m, d)
                                  => IsOver(Plus(x, y), n + m, d)
<1>1. PICK a \in Nat, b \in Nat : a = x[1] /\ b = x[2] /\ b > 0 BY RatioParts
<1>2. PICK u \in Nat, v \in Nat : u = y[1] /\ v = y[2] /\ v > 0 BY RatioParts
<1>3. PICK g \in Nat : g = Gcd[<<b, v>>] /\ g > 0 BY <1>1, GcdDivides
<1>4. PICK p \in Nat : b = g * p BY <1>1, <1>3, GcdDivides
<1>5. PICK q \in Nat : v = g * q BY <1>1, <1>3, GcdDivides
<1>6. b \div g = p /\ v \div g = q
  <2>1. b = g * p + 0 /\ v = g * q + 0 BY <1>4, <1>5
  <2> QED BY <1>3, <2>1, QuotientUnique
<1>7. PICK t \in Nat, s \in Nat : t = a * q + u * p /\ s = b * q OBVIOUS
<1>8. q > 0 BY <1>2, <1>5
<1>9. s > 0
  <2>1. b * q >= b BY <1>8
  <2> QED BY <1>1, <1>7, <2>1
<1>10. Plus(x, y) = Lowest(t, s) BY <1>1, <1>2, <1>3, <1>6, <1>7 DEF Plus
<1>11. Plus(x, y) \in Reduced /\ IsOver(Plus(x, y), t, s) BY <1>9, <1>10, LowestFacts, LowestIsOver
<1>12. ASSUME NEW n \in Nat, NEW m \in Nat, NEW d \in Nat, d > 0, IsOver(x, n, d), IsOver(y, m, d)
       PROVE  IsOver(Plus(x, y), n + m, d)
  <2>1. a * d = n * b /\ u * d = m * v BY <1>1, <1>2, <1>12 DEF IsOver
  <2>2. (a * q) * d = (a * d) * q /\ (n * b) * q = n * s BY <1>7
  <2>3. (u * p) * d = (u * d) * p OBVIOUS
  <2>4. (m * v) * p = m * s
    <3>1. v * p = b * q
      <4>1. (g * q) * p = (g * p) * q OBVIOUS
      <4> QED BY ONLY <1>4, <1>5, <4>1
    <3>2. (m * v) * p = m * (v * p) OBVIOUS
    <3> QED BY ONLY <1>7, <3>1, <3>2
  <2>5. (a * q) * d = n * s /\ (u * p) * d = m * s BY ONLY <2>1, <2>2, <2>3, <2>4
  <2>6. t * d = (a * q) * d + (u * p) * d BY <1>7
  <2>7. (n + m) * s = n * s + m * s OBVIOUS
  <2>8. t * d = (n + m) * s BY ONLY <2>5, <2>6, <2>7
  <2>9. Plus(x, y) \in Ratio BY <1>11, ReducedRatio
  <2>10. n + m \in Nat OBVIOUS
  <2> QED BY <1>9, <1>11, <2>8, <2>9, <2>10, OverOther
<1> QED BY <1>11, <1>12

(* A product has no factor in common with what its factors have none with. *)
LEMMA CoprimeProduct ==
  ASSUME NEW a \in Nat, NEW b \in Nat, NEW c \in Nat, Gcd[<<a, c>>] = 1, Gcd[<<b, c>>] = 1
  PROVE  Gcd[<<a * b, c>>] = 1
<1>1. CASE b = 0
  <2>1. c = 1
    <3>1. c = 0 => Gcd[<<b, c>>] = 0 BY <1>1, GcdDef
    <3>2. Gcd[<<c, 0>>] = c BY GcdDef
    <3> QED BY <1>1, <3>1, <3>2, GcdSymmetric
  <2>2. a * b \in Nat OBVIOUS
  <2> QED BY <2>1, <2>2, GcdWithOne
<1>2. CASE b > 0
  <2>1. PICK p \in Nat, q \in Nat : p = a * b /\ q = c * b OBVIOUS
  <2>2. Gcd[<<p, q>>] = b
    <3>1. p = b * a /\ q = b * c BY <2>1
    <3> QED BY <1>2, <3>1, GcdScaled
  <2>3. PICK e \in Nat : e = Gcd[<<p, c>>] BY <2>1, GcdIsGcd
  <2>4. Divides(e, p) /\ Divides(e, c) BY <2>1, <2>3, GcdIsGcd, DividesItself DEF IsGcd
  <2>5. Divides(e, q)
    <3>1. PICK k \in Int : c = e * k BY <2>4 DEF Divides
    <3>2. (e * k) * b = e * (k * b) OBVIOUS
    <3>3. q = e * (k * b) BY ONLY <2>1, <3>1, <3>2
    <3> QED BY <3>3 DEF Divides
  <2>6. Divides(e, b) BY <2>1, <2>2, <2>4, <2>5, GcdIsGcd DEF IsGcd
  <2>7. Divides(e, 1) BY <2>4, <2>6, GcdIsGcd DEF IsGcd
  <2>8. Divides(1, e)
    <3>1. e = 1 * e OBVIOUS
    <3> QED BY <3>1 DEF Divides
  <2>9. e = 1 BY <2>7, <2>8, DividesEachOther
  <2> QED BY <2>1, <2>3, <2>9
<1> QED BY <1>1, <1>2

(* Factors have no factor in common if their products have none. *)
LEMMA CoprimeFactors ==
  ASSUME NEW a \in Nat, NEW b \in Nat, NEW g \in Nat, NEW h \in Nat, Gcd[<<g * a, h * b>>] = 1
  PROVE  Gcd[<<a, b>>] = 1
<1>1. PICK e \in Nat : e = Gcd[<<a, b>>] BY GcdIsGcd
<1>2. PICK p \in Nat, q \in Nat : p = g * a /\ q = h * b OBVIOUS
<1>3. Divides(e, a) /\ Divides(e, b) BY <1>1, GcdIsGcd, DividesItself DEF IsGcd
<1>4. \A n \in Nat, f \in Nat : Divides(e, n) => Divides(e, f * n)
  <2> SUFFICES ASSUME NEW n \in Nat, NEW f \in Nat, Divides(e, n) PROVE Divides(e, f * n) OBVIOUS
  <2>1. PICK k \in Int : n = e * k BY DEF Divides
  <2>2. f * (e * k) = e * (f * k) OBVIOUS
  <2>3. f * n = e * (f * k) BY ONLY <2>1, <2>2
  <2> QED BY <2>3 DEF Divides
<1>5. Divides(e, p) /\ Divides(e, q) BY <1>2, <1>3, <1>4
<1>6. Divides(e, 1) BY <1>2, <1>5, GcdIsGcd DEF IsGcd
<1>7. Divides(1, e)
  <2>1. e = 1 * e OBVIOUS
  <2> QED BY <2>1 DEF Divides
<1>8. e = 1 BY <1>6, <1>7, DividesEachOther
<1> QED BY <1>1, <1>8

(* Times multiplies, and keeps lowest terms. *)
LEMMA TimesFacts ==
  ASSUME NEW x \in Ratio, NEW y \in Ratio
  PROVE  /\ Times(x, y) \in Ratio
         /\ x \in Reduced /\ y \in Reduced => Times(x, y) \in Reduced
         /\ \A n, m, d, e \in Nat : IsOver(x, n, d) /\ IsOver(y, m, e)
                                     => IsOver(Times(x, y), n * m, d * e)
<1>1. PICK a \in Nat, b \in Nat : a = x[1] /\ b = x[2] /\ b > 0 BY RatioParts
<1>2. PICK u \in Nat, v \in Nat : u = y[1] /\ v = y[2] /\ v > 0 BY RatioParts
<1>3. PICK l, r : l = Lowest(a, v) /\ r = Lowest(u, b) OBVIOUS
<1>4. l \in Reduced /\ r \in Reduced BY <1>1, <1>2, <1>3, LowestFacts
<1>5. PICK p \in Nat, q \in Nat : p = l[1] /\ q = l[2] /\ q > 0 BY <1>4, ReducedRatio, RatioParts
<1>6. PICK s \in Nat, t \in Nat : s = r[1] /\ t = r[2] /\ t > 0 BY <1>4, ReducedRatio, RatioParts
<1>7. PICK g \in Nat : g > 0 /\ a = g * p /\ v = g * q BY <1>1, <1>2, <1>3, <1>5, LowestFacts
<1>8. PICK h \in Nat : h > 0 /\ u = h * s /\ b = h * t BY <1>1, <1>2, <1>3, <1>6, LowestFacts
<1>9. Times(x, y) = <<p * s, q * t>> BY <1>1, <1>2, <1>3, <1>5, <1>6 DEF Times
<1>10. p * s \in Nat /\ q * t \in Nat /\ q * t > 0
  <2>1. q * t >= q BY <1>6
  <2> QED BY <1>5, <2>1
<1>11. Times(x, y) \in Ratio /\ Times(x, y)[1] = p * s /\ Times(x, y)[2] = q * t
  BY <1>9, <1>10 DEF Ratio
<1>12. ASSUME x \in Reduced, y \in Reduced PROVE Times(x, y) \in Reduced
  <2>1. Gcd[<<a, b>>] = 1 /\ Gcd[<<u, v>>] = 1 BY <1>1, <1>2, <1>12 DEF Reduced
  <2>2. Gcd[<<p, t>>] = 1 BY <1>7, <1>8, <2>1, CoprimeFactors
  <2>3. Gcd[<<s, q>>] = 1 BY <1>7, <1>8, <2>1, CoprimeFactors
  <2>4. Gcd[<<p, q>>] = 1 /\ Gcd[<<s, t>>] = 1 BY <1>4, <1>5, <1>6 DEF Reduced
  <2>5. Gcd[<<p * s, q>>] = 1 BY <2>3, <2>4, CoprimeProduct
  <2>6. Gcd[<<p * s, t>>] = 1 BY <2>2, <2>4, CoprimeProduct
  <2>7. Gcd[<<q, p * s>>] = 1 /\ Gcd[<<t, p * s>>] = 1 BY <1>10, <2>5, <2>6, GcdSymmetric
  <2>8. Gcd[<<q * t, p * s>>] = 1 BY <1>10, <2>7, CoprimeProduct
  <2>9. Gcd[<<p * s, q * t>>] = 1 BY <1>10, <2>8, GcdSymmetric
  <2> QED BY <1>11, <2>9 DEF Reduced
<1>13. ASSUME NEW n \in Nat, NEW m \in Nat, NEW d \in Nat, NEW e \in Nat,
              IsOver(x, n, d), IsOver(y, m, e)
       PROVE  IsOver(Times(x, y), n * m, d * e)
  <2>1. a * d = n * b /\ u * e = m * v BY <1>1, <1>2, <1>13 DEF IsOver
  <2>2. (g * h) * ((p * s) * (d * e)) = ((g * p) * d) * ((h * s) * e) OBVIOUS
  <2>3. (n * (h * t)) * (m * (g * q)) = (g * h) * ((n * m) * (q * t)) OBVIOUS
  <2>4. (a * d) * (u * e) = (n * b) * (m * v) BY <2>1
  <2>5. (g * h) * ((p * s) * (d * e)) = (g * h) * ((n * m) * (q * t))
    BY ONLY <1>7, <1>8, <2>2, <2>3, <2>4
  <2>6. PICK k \in Nat, i \in Nat, j \in Nat :
          k = g * h /\ i = (p * s) * (d * e) /\ j = (n * m) * (q * t)
    OBVIOUS
  <2>7. k > 0
    <3>1. g * h >= g BY <1>8
    <3> QED BY <1>7, <2>6, <3>1
  <2>8. i * k = j * k BY <2>5, <2>6
  <2>9. i = j BY ONLY <2>7, <2>8, CancelFactor
  <2> QED BY <1>11, <2>6, <2>9 DEF IsOver
<1> QED BY <1>11, <1>12, <1>13

(* Zero is what has the numerator zero, *)
LEMMA IsZero == ASSUME NEW x \in Reduced PROVE x = Zero <=> x[1] = 0
<1>1. x \in Ratio /\ x[1] \in Nat /\ x[2] \in Nat /\ x[2] > 0 BY ReducedRatio, RatioParts
<1>2. ASSUME x[1] = 0 PROVE x = Zero
  <2>1. Zero \in Reduced /\ IsOver(Zero, 0, 1) /\ IsOver(x, 0, 1) BY <1>1, <1>2, ZeroAndOne DEF IsOver, Zero
  <2> QED BY <2>1, SameOver
<1> QED BY <1>2 DEF Zero

(* over any denominator. *)
LEMMA ZeroOver ==
  ASSUME NEW x \in Reduced, NEW n \in Nat, NEW d \in Nat, d > 0, IsOver(x, n, d)
  PROVE  x = Zero <=> n = 0
<1>1. PICK a \in Nat, b \in Nat : a = x[1] /\ b = x[2] /\ b > 0 BY ReducedRatio, RatioParts
<1>2. a * d = n * b BY <1>1 DEF IsOver
<1>3. a = 0 => n = 0
  <2> SUFFICES ASSUME a = 0, n > 0 PROVE FALSE OBVIOUS
  <2>1. n * b >= b OBVIOUS
  <2> QED BY <1>1, <1>2, <2>1
<1>4. n = 0 => a = 0
  <2> SUFFICES ASSUME n = 0, a > 0 PROVE FALSE OBVIOUS
  <2>1. a * d >= d OBVIOUS
  <2> QED BY <1>2, <2>1
<1> QED BY <1>1, <1>3, <1>4, IsZero

(* Over divides. *)
LEMMA OverFacts ==
  ASSUME NEW x \in Reduced, NEW y \in Reduced, y # Zero
  PROVE  /\ Over(x, y) \in Reduced
         /\ \A n, m, d \in Nat : d > 0 /\ IsOver(x, n, d) /\ IsOver(y, m, d)
                                  => IsOver(Over(x, y), n, m)
<1>1. PICK u \in Nat, v \in Nat : u = y[1] /\ v = y[2] /\ v > 0 BY ReducedRatio, RatioParts
<1>2. u > 0 BY <1>1, IsZero
<1>3. PICK z : z = <<v, u>> OBVIOUS
<1>4. z \in Ratio /\ z[1] = v /\ z[2] = u BY <1>2, <1>3 DEF Ratio
<1>5. Gcd[<<v, u>>] = 1
  <2>1. Gcd[<<u, v>>] = 1 BY <1>1 DEF Reduced
  <2> QED BY <2>1, GcdSymmetric
<1>6. z \in Reduced BY <1>4, <1>5 DEF Reduced
<1>7. Over(x, y) = Times(x, z) BY <1>1, <1>3 DEF Over
<1>8. Over(x, y) \in Reduced BY <1>6, <1>7, TimesFacts, ReducedRatio
<1>9. ASSUME NEW n \in Nat, NEW m \in Nat, NEW d \in Nat, d > 0, IsOver(x, n, d), IsOver(y, m, d)
      PROVE  IsOver(Over(x, y), n, m)
  <2>1. IsOver(z, d, m)
    <3>1. u * d = m * v BY <1>1, <1>9 DEF IsOver
    <3>2. v * m = d * u BY <3>1
    <3> QED BY <1>4, <3>2 DEF IsOver
  <2>2. IsOver(Over(x, y), n * d, d * m) BY <1>4, <1>7, <1>9, <2>1, TimesFacts, ReducedRatio
  <2>3. d * m = m * d OBVIOUS
  <2>4. Over(x, y) \in Ratio BY <1>8, ReducedRatio
  <2> QED BY <1>9, <2>2, <2>3, <2>4, OverUnscaled
<1> QED BY <1>8, <1>9

(* what Below is a definition of: the comparison by cross multiplication *)
Crossed(x, y) == x[1] * y[2] < y[1] * x[2]

(* Whole parts decide the order, or what is left, turned over. *)
LEMMA CrossedParts ==
  ASSUME NEW x \in Ratio, NEW y \in Ratio, NEW a, NEW b, NEW r, NEW s,
         a = x[1] \div x[2], b = y[1] \div y[2], r = x[1] % x[2], s = y[1] % y[2]
  PROVE  /\ a \in Nat /\ b \in Nat /\ r \in Nat /\ s \in Nat /\ r < x[2] /\ s < y[2]
         /\ Crossed(x, y) <=> IF a # b THEN a < b
                              ELSE IF s = 0 THEN FALSE ELSE IF r = 0 THEN TRUE
                              ELSE Crossed(<<y[2], s>>, <<x[2], r>>)
<1>1. PICK n \in Nat, d \in Nat : n = x[1] /\ d = x[2] /\ d > 0 BY RatioParts
<1>2. PICK m \in Nat, e \in Nat : m = y[1] /\ e = y[2] /\ e > 0 BY RatioParts
<1>3. a \in Nat /\ r \in Nat /\ r < d /\ n = d * a + r BY <1>1, Quotient
<1>4. b \in Nat /\ s \in Nat /\ s < e /\ m = e * b + s BY <1>2, Quotient
<1>5. Crossed(x, y) <=> n * e < m * d BY <1>1, <1>2 DEF Crossed
<1>6. n * e = (d * e) * a + r * e
  <2>1. (d * a + r) * e = (d * e) * a + r * e OBVIOUS
  <2> QED BY ONLY <1>3, <2>1
<1>7. m * d = (d * e) * b + s * d
  <2>1. (e * b + s) * d = (d * e) * b + s * d OBVIOUS
  <2> QED BY ONLY <1>4, <2>1
<1>8. PICK k \in Nat, i \in Nat, j \in Nat : k = d * e /\ i = r * e /\ j = s * d
  <2>1. d * e \in Nat /\ r * e \in Nat /\ s * d \in Nat BY <1>3, <1>4
  <2> QED BY ONLY <2>1
<1>9. i < k /\ j < k
  <2>1. (d - r) * e >= e BY <1>3
  <2>2. (d - r) * e = d * e - r * e OBVIOUS
  <2>3. (e - s) * d >= d BY <1>4
  <2>4. (e - s) * d = d * e - s * d OBVIOUS
  <2> QED BY <1>1, <1>2, <1>8, <2>1, <2>2, <2>3, <2>4
<1>10. CASE a < b
  <2>1. k * (b - a) >= k BY <1>10
  <2>2. k * (b - a) = k * b - k * a OBVIOUS
  <2>3. k * a + i < k * b + j BY <1>9, <2>1, <2>2
  <2>4. Crossed(x, y) BY <1>5, <1>6, <1>7, <1>8, <2>3
  <2>5. a # b /\ a < b BY <1>3, <1>4, <1>10
  <2> QED BY <1>1, <1>2, <1>3, <1>4, <2>4, <2>5
<1>11. CASE b < a
  <2>1. k * (a - b) >= k BY <1>11
  <2>2. k * (a - b) = k * a - k * b OBVIOUS
  <2>3. ~(k * a + i < k * b + j) BY <1>9, <2>1, <2>2
  <2>4. ~Crossed(x, y) BY <1>5, <1>6, <1>7, <1>8, <2>3
  <2>5. a # b /\ ~(a < b) BY <1>11
  <2> QED BY <1>1, <1>2, <1>3, <1>4, <2>4, <2>5
<1>12. CASE a = b
  <2>1. Crossed(x, y) <=> i < j BY <1>5, <1>6, <1>7, <1>8, <1>12
  <2>2. Crossed(<<e, s>>, <<d, r>>) <=> e * r < d * s BY DEF Crossed
  <2>3. e * r = i /\ d * s = j BY <1>8
  <2>4. s = 0 => ~(i < j) BY <1>8
  <2>5. r = 0 /\ s > 0 => i < j
    <3> SUFFICES ASSUME r = 0, s > 0 PROVE i < j OBVIOUS
    <3>1. s * d >= d OBVIOUS
    <3> QED BY <1>1, <1>8, <3>1
  <2>6. Crossed(x, y) <=> IF s = 0 THEN FALSE ELSE IF r = 0 THEN TRUE ELSE Crossed(<<e, s>>, <<d, r>>)
    <3>1. CASE s = 0 BY <2>1, <2>4, <3>1
    <3>2. CASE s # 0 /\ r = 0 BY <1>4, <2>1, <2>5, <3>2
    <3>3. CASE s # 0 /\ r # 0 BY ONLY <2>1, <2>2, <2>3, <3>3
    <3> QED BY <3>1, <3>2, <3>3
  <2> QED BY <1>1, <1>2, <1>3, <1>4, <1>12, <2>6
<1> QED BY <1>10, <1>11, <1>12

BelowFix(f) ==
  f = [p \in Ratio \X Ratio |->
         LET x == p[1]
             y == p[2]
             a == x[1] \div x[2]
             b == y[1] \div y[2]
             r == x[1] % x[2]
             s == y[1] % y[2]
         IN  IF a # b THEN a < b
             ELSE IF s = 0 THEN FALSE ELSE IF r = 0 THEN TRUE
             ELSE f[<< <<y[2], s>>, <<x[2], r>> >>]]

(* The recursive definition of Below has a solution. *)
LEMMA BelowIsFix == BelowFix(Below)
<1> DEFINE F == [p \in Ratio \X Ratio |-> Crossed(p[1], p[2])]
<1>1. ASSUME NEW p \in Ratio \X Ratio
      PROVE  F[p] = LET x == p[1]
                        y == p[2]
                        a == x[1] \div x[2]
                        b == y[1] \div y[2]
                        r == x[1] % x[2]
                        s == y[1] % y[2]
                    IN  IF a # b THEN a < b
                        ELSE IF s = 0 THEN FALSE ELSE IF r = 0 THEN TRUE
                        ELSE F[<< <<y[2], s>>, <<x[2], r>> >>]
  <2>1. PICK x \in Ratio, y \in Ratio : p = <<x, y>> /\ x = p[1] /\ y = p[2] OBVIOUS
  <2>2. PICK a, b, r, s : a = x[1] \div x[2] /\ b = y[1] \div y[2] /\ r = x[1] % x[2] /\ s = y[1] % y[2]
    OBVIOUS
  <2> HIDE DEF F
  <2>3. /\ a \in Nat /\ b \in Nat /\ r \in Nat /\ s \in Nat
        /\ Crossed(x, y) <=> IF a # b THEN a < b
                             ELSE IF s = 0 THEN FALSE ELSE IF r = 0 THEN TRUE
                             ELSE Crossed(<<y[2], s>>, <<x[2], r>>)
    BY <2>2, CrossedParts
  <2>4. F[p] \in BOOLEAN /\ (F[p] <=> Crossed(x, y))
    <3>1. F[p] = Crossed(p[1], p[2]) BY Zenon DEF F
    <3>2. Crossed(p[1], p[2]) \in BOOLEAN BY DEF Crossed
    <3> QED BY Zenon, <2>1, <3>1, <3>2
  <2>6. r # 0 /\ s # 0 => /\ F[<< <<y[2], s>>, <<x[2], r>> >>] \in BOOLEAN
                          /\ F[<< <<y[2], s>>, <<x[2], r>> >>] <=> Crossed(<<y[2], s>>, <<x[2], r>>)
    <3> SUFFICES ASSUME r # 0, s # 0
                 PROVE  /\ F[<< <<y[2], s>>, <<x[2], r>> >>] \in BOOLEAN
                        /\ F[<< <<y[2], s>>, <<x[2], r>> >>] <=> Crossed(<<y[2], s>>, <<x[2], r>>)
      OBVIOUS
    <3>1. PICK u, v : u = <<y[2], s>> /\ v = <<x[2], r>> OBVIOUS
    <3>2. u \in Ratio /\ v \in Ratio
      <4>1. x[2] \in Nat /\ y[2] \in Nat BY RatioParts
      <4> QED BY <2>3, <3>1, <4>1 DEF Ratio
    <3>3. <<u, v>> \in Ratio \X Ratio /\ <<u, v>>[1] = u /\ <<u, v>>[2] = v BY <3>2
    <3>4. F[<<u, v>>] \in BOOLEAN /\ (F[<<u, v>>] <=> Crossed(u, v))
      <4>1. PICK q : q = <<u, v>> OBVIOUS
      <4>2. q \in Ratio \X Ratio /\ q[1] = u /\ q[2] = v BY <3>3, <4>1
      <4>3. F[q] = Crossed(q[1], q[2]) BY Zenon, <4>2 DEF F
      <4>4. Crossed(q[1], q[2]) \in BOOLEAN BY DEF Crossed
      <4> QED BY Zenon, <4>1, <4>2, <4>3, <4>4
    <3> QED BY <3>1, <3>4
  <2>8. F[p] = IF a # b THEN a < b
               ELSE IF s = 0 THEN FALSE ELSE IF r = 0 THEN TRUE
               ELSE F[<< <<y[2], s>>, <<x[2], r>> >>]
    <3>1. CASE a # b BY ONLY <2>3, <2>4, <3>1
    <3>2. CASE a = b /\ s = 0 BY ONLY <2>3, <2>4, <3>2
    <3>3. CASE a = b /\ s # 0 /\ r = 0 BY ONLY <2>3, <2>4, <3>3
    <3>4. CASE a = b /\ s # 0 /\ r # 0 BY ONLY <2>3, <2>4, <2>6, <3>4
    <3> QED BY <3>1, <3>2, <3>3, <3>4
  <2> QED BY <2>1, <2>2, <2>8
<1> HIDE DEF F
<1>2. F = [p \in Ratio \X Ratio |-> F[p]] BY DEF F
<1>3. BelowFix(F) BY <1>1, <1>2, Zenon DEF BelowFix
<1>4. Below = CHOOSE f : BelowFix(f) BY DEF Below, BelowFix
<1> QED BY <1>3, <1>4

(* Below compares, whichever way it goes down *)
LEMMA LessIsCrossed ==
  ASSUME NEW x \in Ratio, NEW y \in Ratio
  PROVE  Less(x, y) <=> Crossed(x, y)
<1> DEFINE Right(u, v) == Below[<<u, v>>] = Crossed(u, v)
           S == {m \in Nat : \A u \in Ratio, v \in Ratio : u[2] + v[2] <= m => Right(u, v)}
<1>1. 0 \in S
  <2>1. \A u, v \in Ratio : ~(u[2] + v[2] <= 0)
    <3> SUFFICES ASSUME NEW u \in Ratio, NEW v \in Ratio PROVE ~(u[2] + v[2] <= 0) OBVIOUS
    <3>1. u[2] \in Nat /\ v[2] \in Nat /\ u[2] > 0 /\ v[2] > 0 BY RatioParts
    <3> QED BY <3>1
  <2> QED BY <2>1
<1>2. ASSUME NEW m \in Nat, m \in S PROVE m + 1 \in S
  <2>1. ASSUME NEW u \in Ratio, NEW v \in Ratio, u[2] + v[2] <= m + 1 PROVE Right(u, v)
    <3>1. PICK a, b, r, s : a = u[1] \div u[2] /\ b = v[1] \div v[2] /\ r = u[1] % u[2] /\ s = v[1] % v[2]
      OBVIOUS
    <3>2. /\ a \in Nat /\ b \in Nat /\ r \in Nat /\ s \in Nat /\ r < u[2] /\ s < v[2]
          /\ Crossed(u, v) <=> IF a # b THEN a < b
                               ELSE IF s = 0 THEN FALSE ELSE IF r = 0 THEN TRUE
                               ELSE Crossed(<<v[2], s>>, <<u[2], r>>)
      BY <3>1, CrossedParts
    <3>3. Below[<<u, v>>] = IF a # b THEN a < b
                            ELSE IF s = 0 THEN FALSE ELSE IF r = 0 THEN TRUE
                            ELSE Below[<< <<v[2], s>>, <<u[2], r>> >>]
      <4>1. BelowFix(Below) BY BelowIsFix
      <4>2. PICK f : f = Below OBVIOUS
      <4>3. f[<<u, v>>] = IF a # b THEN a < b
                          ELSE IF s = 0 THEN FALSE ELSE IF r = 0 THEN TRUE
                          ELSE f[<< <<v[2], s>>, <<u[2], r>> >>]
        BY <3>1, <4>1, <4>2 DEF BelowFix
      <4> QED BY Zenon, <4>2, <4>3
    <3>4. r # 0 /\ s # 0 => Right(<<v[2], s>>, <<u[2], r>>)
      <4> SUFFICES ASSUME r # 0, s # 0 PROVE Right(<<v[2], s>>, <<u[2], r>>) OBVIOUS
      <4>1. PICK p, q : p = <<v[2], s>> /\ q = <<u[2], r>> OBVIOUS
      <4>2. u[2] \in Nat /\ v[2] \in Nat BY RatioParts
      <4>3. p \in Ratio /\ q \in Ratio /\ p[2] = s /\ q[2] = r BY <3>2, <4>1, <4>2 DEF Ratio
      <4>4. p[2] + q[2] <= m BY <2>1, <3>2, <4>2, <4>3
      <4>5. Right(p, q) BY <1>2, <4>3, <4>4
      <4> QED BY <4>1, <4>5
    <3>5. Crossed(u, v) \in BOOLEAN BY DEF Crossed
    <3>6. CASE a # b BY <3>2, <3>3, <3>5, <3>6
    <3>7. CASE a = b /\ s = 0 BY <3>2, <3>3, <3>5, <3>7
    <3>8. CASE a = b /\ s # 0 /\ r = 0 BY <3>2, <3>3, <3>5, <3>8
    <3>9. CASE a = b /\ s # 0 /\ r # 0 BY <3>2, <3>3, <3>4, <3>5, <3>9 DEF Crossed
    <3> QED BY <3>6, <3>7, <3>8, <3>9
  <2> HIDE DEF Right
  <2>2. \A u \in Ratio, v \in Ratio : u[2] + v[2] <= m + 1 => Right(u, v) BY <2>1
  <2> QED BY <2>2
<1> HIDE DEF S
<1>3. Nat \subseteq S BY <1>1, <1>2, NatSetInduction
<1>4. PICK k \in Nat : k = x[2] + y[2]
  <2>1. x[2] \in Nat /\ y[2] \in Nat BY RatioParts
  <2> QED BY <2>1
<1>5. k \in S /\ x[2] + y[2] <= k BY <1>3, <1>4
<1> QED BY <1>5 DEF S, Less

(* which is that of their numerators over a common denominator. *)
LEMMA LessOver ==
  ASSUME NEW x \in Ratio, NEW y \in Ratio, NEW n \in Nat, NEW m \in Nat, NEW d \in Nat, d > 0,
         IsOver(x, n, d), IsOver(y, m, d)
  PROVE  Less(x, y) <=> n < m
<1>1. PICK a \in Nat, b \in Nat : a = x[1] /\ b = x[2] /\ b > 0 BY RatioParts
<1>2. PICK u \in Nat, v \in Nat : u = y[1] /\ v = y[2] /\ v > 0 BY RatioParts
<1>3. a * d = n * b /\ u * d = m * v BY <1>1, <1>2 DEF IsOver
<1>4. Less(x, y) <=> a * v < u * b BY <1>1, <1>2, LessIsCrossed DEF Crossed
<1>5. PICK k \in Nat, i \in Nat, j \in Nat : k = b * v /\ i = a * v /\ j = u * b OBVIOUS
<1>6. i * d = n * k
  <2>1. (a * v) * d = (a * d) * v /\ (n * b) * v = n * (b * v) OBVIOUS
  <2> QED BY ONLY <1>3, <1>5, <2>1
<1>7. j * d = m * k
  <2>1. (u * b) * d = (u * d) * b /\ (m * v) * b = m * (b * v) OBVIOUS
  <2> QED BY ONLY <1>3, <1>5, <2>1
<1>8. k > 0
  <2>1. b * v >= b BY <1>2
  <2> QED BY <1>1, <1>5, <2>1
<1>9. i < j <=> i * d < j * d BY CancelLess
<1>10. n < m <=> n * k < m * k BY <1>8, CancelLess
<1> QED BY <1>4, <1>5, <1>6, <1>7, <1>9, <1>10

(* Minus subtracts, and stops at zero. *)
LEMMA MinusFacts ==
  ASSUME NEW x \in Ratio, NEW y \in Ratio
  PROVE  /\ Minus(x, y) \in Reduced
         /\ \A n, m, d \in Nat : d > 0 /\ m <= n /\ IsOver(x, n, d) /\ IsOver(y, m, d)
                                  => IsOver(Minus(x, y), n - m, d)
         /\ Less(x, y) => Minus(x, y) = Zero
<1>1. PICK a \in Nat, b \in Nat : a = x[1] /\ b = x[2] /\ b > 0 BY RatioParts
<1>2. PICK u \in Nat, v \in Nat : u = y[1] /\ v = y[2] /\ v > 0 BY RatioParts
<1>3. CASE Less(x, y)
  <2>1. Minus(x, y) = Zero BY <1>3 DEF Minus
  <2>2. \A n, m, d \in Nat : d > 0 /\ IsOver(x, n, d) /\ IsOver(y, m, d) => ~(m <= n)
    BY <1>3, LessOver
  <2> QED BY <2>1, <2>2, ZeroAndOne
<1>4. CASE ~Less(x, y)
  <2>1. PICK g \in Nat : g = Gcd[<<b, v>>] /\ g > 0 BY <1>1, GcdDivides
  <2>2. PICK p \in Nat : b = g * p BY <1>1, <2>1, GcdDivides
  <2>3. PICK q \in Nat : v = g * q BY <1>1, <2>1, GcdDivides
  <2>4. b \div g = p /\ v \div g = q
    <3>1. b = g * p + 0 /\ v = g * q + 0 BY <2>2, <2>3
    <3> QED BY <2>1, <3>1, QuotientUnique
  <2>5. ~(a * v < u * b) BY <1>1, <1>2, <1>4, LessIsCrossed DEF Crossed
  <2>6. PICK i \in Nat, j \in Nat, s \in Nat : i = a * q /\ j = u * p /\ s = b * q OBVIOUS
  <2>7. j <= i
    <3>1. a * (g * q) = i * g /\ u * (g * p) = j * g BY <2>6
    <3>2. ~(i * g < j * g) BY ONLY <2>2, <2>3, <2>5, <3>1
    <3> QED BY <2>1, <3>2, CancelLess
  <2>8. q > 0 BY <1>2, <2>3
  <2>9. s > 0
    <3>1. b * q >= b BY <2>8
    <3> QED BY <1>1, <2>6, <3>1
  <2>10. i - j \in Nat BY <2>7
  <2>11. Minus(x, y) = Lowest(i - j, s) BY <1>1, <1>2, <1>4, <2>1, <2>4, <2>6 DEF Minus
  <2>12. Minus(x, y) \in Reduced /\ IsOver(Minus(x, y), i - j, s)
    BY <2>9, <2>10, <2>11, LowestFacts, LowestIsOver
  <2>13. ASSUME NEW n \in Nat, NEW m \in Nat, NEW d \in Nat, d > 0, m <= n,
                IsOver(x, n, d), IsOver(y, m, d)
         PROVE  IsOver(Minus(x, y), n - m, d)
    <3>1. a * d = n * b /\ u * d = m * v BY <1>1, <1>2, <2>13 DEF IsOver
    <3>2. i * d = n * s
      <4>1. (a * q) * d = (a * d) * q /\ (n * b) * q = n * (b * q) OBVIOUS
      <4> QED BY ONLY <2>6, <3>1, <4>1
    <3>3. j * d = m * s
      <4>1. (u * p) * d = (u * d) * p OBVIOUS
      <4>2. v * p = b * q
        <5>1. (g * q) * p = (g * p) * q OBVIOUS
        <5> QED BY ONLY <2>2, <2>3, <5>1
      <4>3. (m * v) * p = m * (v * p) OBVIOUS
      <4> QED BY ONLY <2>6, <3>1, <4>1, <4>2, <4>3
    <3>4. (i - j) * d = i * d - j * d /\ (n - m) * s = n * s - m * s OBVIOUS
    <3>5. (i - j) * d = (n - m) * s BY ONLY <3>2, <3>3, <3>4
    <3>6. n - m \in Nat /\ Minus(x, y) \in Ratio BY <2>12, <2>13, ReducedRatio
    <3> QED BY <2>9, <2>10, <2>12, <2>13, <3>5, <3>6, OverOther
  <2> QED BY <1>4, <2>12, <2>13
<1> QED BY <1>3, <1>4

-----------------------------------------------------------------------------
(* The laws of arithmetic: of fractions brought to one denominator *)

(* Four fractions have a common denominator. *)
LEMMA CommonDenominator ==
  ASSUME NEW x \in Ratio, NEW y \in Ratio, NEW z \in Ratio, NEW w \in Ratio
  PROVE  \E n, m, k, l, d \in Nat : /\ d > 0 /\ IsOver(x, n, d) /\ IsOver(y, m, d)
                                    /\ IsOver(z, k, d) /\ IsOver(w, l, d)
<1>1. PICK a \in Nat, b \in Nat : a = x[1] /\ b = x[2] /\ b > 0 BY RatioParts
<1>2. PICK e \in Nat, f \in Nat : e = y[1] /\ f = y[2] /\ f > 0 BY RatioParts
<1>3. PICK g \in Nat, h \in Nat : g = z[1] /\ h = z[2] /\ h > 0 BY RatioParts
<1>4. PICK i \in Nat, j \in Nat : i = w[1] /\ j = w[2] /\ j > 0 BY RatioParts
<1>5. PICK p \in Nat, q \in Nat, d \in Nat : p = b * f /\ q = h * j /\ d = p * q OBVIOUS
<1>6. d > 0
  <2>1. b * f >= b /\ h * j >= h BY <1>2, <1>4
  <2>2. p > 0 /\ q > 0 BY <1>1, <1>3, <1>5, <2>1
  <2>3. p * q >= p BY <2>2
  <2> QED BY <1>5, <2>2, <2>3
<1>7. PICK n \in Nat, m \in Nat, k \in Nat, l \in Nat :
        n = a * (f * q) /\ m = e * (b * q) /\ k = g * (j * p) /\ l = i * (h * p)
  OBVIOUS
<1>8. IsOver(x, n, d)
  <2>1. a * ((b * f) * q) = (a * (f * q)) * b OBVIOUS
  <2> QED BY ONLY <1>1, <1>5, <1>7, <2>1 DEF IsOver
<1>9. IsOver(y, m, d)
  <2>1. e * ((b * f) * q) = (e * (b * q)) * f OBVIOUS
  <2> QED BY ONLY <1>2, <1>5, <1>7, <2>1 DEF IsOver
<1>10. IsOver(z, k, d)
  <2>1. g * (p * (h * j)) = (g * (j * p)) * h OBVIOUS
  <2> QED BY ONLY <1>3, <1>5, <1>7, <2>1 DEF IsOver
<1>11. IsOver(w, l, d)
  <2>1. i * (p * (h * j)) = (i * (h * p)) * j OBVIOUS
  <2> QED BY ONLY <1>4, <1>5, <1>7, <2>1 DEF IsOver
<1> QED BY <1>6, <1>8, <1>9, <1>10, <1>11

(* Addition, *)
LEMMA PlusCommutes == ASSUME NEW x \in Ratio, NEW y \in Ratio PROVE Plus(x, y) = Plus(y, x)
<1>1. PICK n \in Nat, m \in Nat, d \in Nat : d > 0 /\ IsOver(x, n, d) /\ IsOver(y, m, d)
  BY CommonDenominator
<1>2. IsOver(Plus(x, y), n + m, d) /\ IsOver(Plus(y, x), m + n, d) BY <1>1, PlusFacts
<1>3. n + m = m + n /\ n + m \in Nat OBVIOUS
<1> QED BY <1>1, <1>2, <1>3, PlusFacts, SameOver

(* in any order, *)
LEMMA PlusAssociates ==
  ASSUME NEW x \in Ratio, NEW y \in Ratio, NEW z \in Ratio
  PROVE  Plus(Plus(x, y), z) = Plus(x, Plus(y, z))
<1>1. PICK n \in Nat, m \in Nat, k \in Nat, d \in Nat :
        d > 0 /\ IsOver(x, n, d) /\ IsOver(y, m, d) /\ IsOver(z, k, d)
  BY CommonDenominator
<1>2. Plus(x, y) \in Ratio /\ Plus(y, z) \in Ratio BY PlusFacts, ReducedRatio
<1>3. n + m \in Nat /\ m + k \in Nat /\ (n + m) + k \in Nat /\ n + (m + k) = (n + m) + k OBVIOUS
<1>4. IsOver(Plus(x, y), n + m, d) /\ IsOver(Plus(y, z), m + k, d) BY <1>1, PlusFacts
<1>5. IsOver(Plus(Plus(x, y), z), (n + m) + k, d) BY <1>1, <1>2, <1>3, <1>4, PlusFacts
<1>6. IsOver(Plus(x, Plus(y, z)), n + (m + k), d) BY <1>1, <1>2, <1>3, <1>4, PlusFacts
<1> QED BY <1>1, <1>2, <1>3, <1>5, <1>6, PlusFacts, SameOver

(* of zero, *)
LEMMA PlusZero == ASSUME NEW x \in Reduced PROVE Plus(x, Zero) = x /\ Plus(Zero, x) = x
<1>1. x \in Ratio /\ Zero \in Ratio BY ReducedRatio, ZeroAndOne
<1>2. PICK n \in Nat, d \in Nat : n = x[1] /\ d = x[2] /\ d > 0 BY <1>1, RatioParts
<1>3. IsOver(x, n, d) BY <1>1, <1>2, OverItself
<1>4. IsOver(Zero, 0, d) BY <1>2 DEF IsOver, Zero
<1>5. n + 0 = n /\ 0 \in Nat BY <1>2
<1>6. IsOver(Plus(x, Zero), n, d)
  <2>1. IsOver(Plus(x, Zero), n + 0, d) BY <1>1, <1>2, <1>3, <1>4, <1>5, PlusFacts
  <2> QED BY <1>5, <2>1
<1>7. Plus(x, Zero) = x BY <1>1, <1>2, <1>3, <1>6, PlusFacts, SameOver
<1> QED BY <1>1, <1>7, PlusCommutes

(* multiplication, *)
LEMMA TimesCommutes == ASSUME NEW x \in Reduced, NEW y \in Reduced PROVE Times(x, y) = Times(y, x)
<1>1. x \in Ratio /\ y \in Ratio BY ReducedRatio
<1>2. PICK n \in Nat, m \in Nat, d \in Nat : d > 0 /\ IsOver(x, n, d) /\ IsOver(y, m, d)
  BY <1>1, CommonDenominator
<1>3. IsOver(Times(x, y), n * m, d * d) /\ IsOver(Times(y, x), m * n, d * d)
  BY <1>1, <1>2, TimesFacts
<1>4. n * m = m * n /\ n * m \in Nat /\ d * d \in Nat /\ d * d > 0 BY <1>2
<1> QED BY <1>1, <1>3, <1>4, TimesFacts, SameOver

(* in any order, *)
LEMMA TimesAssociates ==
  ASSUME NEW x \in Reduced, NEW y \in Reduced, NEW z \in Reduced
  PROVE  Times(Times(x, y), z) = Times(x, Times(y, z))
<1>1. x \in Ratio /\ y \in Ratio /\ z \in Ratio BY ReducedRatio
<1>2. PICK n \in Nat, m \in Nat, k \in Nat, d \in Nat :
        d > 0 /\ IsOver(x, n, d) /\ IsOver(y, m, d) /\ IsOver(z, k, d)
  BY <1>1, CommonDenominator
<1>3. Times(x, y) \in Reduced /\ Times(y, z) \in Reduced BY <1>1, TimesFacts
<1>4. IsOver(Times(x, y), n * m, d * d) /\ IsOver(Times(y, z), m * k, d * d)
  BY <1>1, <1>2, TimesFacts
<1>5. n * m \in Nat /\ m * k \in Nat /\ d * d \in Nat OBVIOUS
<1>6. IsOver(Times(Times(x, y), z), (n * m) * k, (d * d) * d)
  BY <1>1, <1>2, <1>3, <1>4, <1>5, TimesFacts, ReducedRatio
<1>7. IsOver(Times(x, Times(y, z)), n * (m * k), d * (d * d))
  BY <1>1, <1>2, <1>3, <1>4, <1>5, TimesFacts, ReducedRatio
<1>8. PICK i \in Nat, j \in Nat : i = (n * m) * k /\ j = (d * d) * d OBVIOUS
<1>9. n * (m * k) = i /\ d * (d * d) = j BY <1>8
<1>10. j > 0
  <2>1. d * d >= d /\ (d * d) * d >= d * d BY <1>2
  <2> QED BY <1>2, <1>8, <2>1
<1>11. IsOver(Times(Times(x, y), z), i, j) /\ IsOver(Times(x, Times(y, z)), i, j)
  BY <1>6, <1>7, <1>8, <1>9
<1>12. Times(Times(x, y), z) \in Reduced /\ Times(x, Times(y, z)) \in Reduced
  BY <1>1, <1>3, TimesFacts, ReducedRatio
<1> QED BY <1>10, <1>11, <1>12, SameOver

(* by one, *)
LEMMA TimesOne == ASSUME NEW x \in Reduced PROVE Times(One, x) = x /\ Times(x, One) = x
<1>1. x \in Ratio /\ One \in Reduced /\ One \in Ratio BY ReducedRatio, ZeroAndOne
<1>2. PICK n \in Nat, d \in Nat : n = x[1] /\ d = x[2] /\ d > 0 BY <1>1, RatioParts
<1>3. IsOver(x, n, d) /\ IsOver(One, 1, 1) BY <1>1, <1>2, OverItself DEF One
<1>4. n * 1 = n /\ d * 1 = d /\ 1 \in Nat OBVIOUS
<1>5. IsOver(Times(x, One), n, d)
  <2>1. IsOver(Times(x, One), n * 1, d * 1) BY <1>1, <1>3, <1>4, TimesFacts
  <2> QED BY <1>4, <2>1
<1>6. Times(x, One) = x BY <1>1, <1>2, <1>3, <1>5, TimesFacts, SameOver
<1> QED BY <1>1, <1>6, TimesCommutes

(* even of a fraction not in lowest terms *)
LEMMA ZeroTimes == ASSUME NEW x \in Ratio PROVE Times(Zero, x) = Zero
<1>1. PICK a \in Nat, b \in Nat : a = x[1] /\ b = x[2] /\ b > 0 BY RatioParts
<1>2. PICK l, r : l = Lowest(0, b) /\ r = Lowest(a, 1) OBVIOUS
<1>3. l \in Reduced /\ IsOver(l, 0, b) BY <1>1, <1>2, LowestFacts, LowestIsOver
<1>4. l = Zero BY <1>1, <1>3, ZeroOver
<1>5. r \in Reduced /\ IsOver(r, a, 1) BY <1>1, <1>2, LowestFacts, LowestIsOver
<1>6. r = <<a, 1>>
  <2>1. <<a, 1>> \in Reduced BY WholeReduced
  <2>2. IsOver(<<a, 1>>, a, 1) BY DEF IsOver
  <2> QED BY <1>5, <2>1, <2>2, SameOver
<1>7. Times(Zero, x) = <<0 * a, 1 * 1>> BY <1>1, <1>2, <1>4, <1>6 DEF Times, Zero
<1>8. 0 * a = 0 /\ 1 * 1 = 1 OBVIOUS
<1> QED BY <1>7, <1>8 DEF Zero

(* the share of x when l is divided in proportion to what adds up to s *)
Share(l, x, s) == Over(Times(l, x), s)

(* A share is a fraction. *)
LEMMA ShareFacts ==
  ASSUME NEW l \in Reduced, NEW x \in Reduced, NEW s \in Reduced, s # Zero
  PROVE  /\ Share(l, x, s) \in Reduced
         /\ \A i, n, k, d \in Nat : d > 0 /\ IsOver(l, i, d) /\ IsOver(x, n, d) /\ IsOver(s, k, d)
                                     => k > 0 /\ IsOver(Share(l, x, s), i * n, k * d)
<1>1. l \in Ratio /\ x \in Ratio /\ s \in Ratio BY ReducedRatio
<1>2. Times(l, x) \in Reduced BY <1>1, TimesFacts
<1>3. Share(l, x, s) \in Reduced BY <1>2, OverFacts DEF Share
<1>4. ASSUME NEW i \in Nat, NEW n \in Nat, NEW k \in Nat, NEW d \in Nat, d > 0,
             IsOver(l, i, d), IsOver(x, n, d), IsOver(s, k, d)
      PROVE  k > 0 /\ IsOver(Share(l, x, s), i * n, k * d)
  <2>1. k > 0 BY <1>4, ZeroOver
  <2>2. IsOver(Times(l, x), i * n, d * d) BY <1>1, <1>4, TimesFacts
  <2>3. IsOver(s, k * d, d * d) BY <1>1, <1>4, OverScaled
  <2>4. i * n \in Nat /\ k * d \in Nat /\ d * d \in Nat OBVIOUS
  <2>5. d * d > 0
    <3>1. d * d >= d BY <1>4
    <3> QED BY <1>4, <3>1
  <2> QED BY <1>2, <2>1, <2>2, <2>3, <2>4, <2>5, OverFacts DEF Share
<1> QED BY <1>3, <1>4

(* shares are in proportion *)
LEMMA SharesInProportion ==
  ASSUME NEW l \in Reduced, NEW x \in Reduced, NEW y \in Reduced, NEW s \in Reduced, s # Zero
  PROVE  Times(Share(l, x, s), y) = Times(Share(l, y, s), x)
<1>1. l \in Ratio /\ x \in Ratio /\ y \in Ratio /\ s \in Ratio BY ReducedRatio
<1>2. PICK i \in Nat, n \in Nat, m \in Nat, k \in Nat, d \in Nat :
        d > 0 /\ IsOver(l, i, d) /\ IsOver(x, n, d) /\ IsOver(y, m, d) /\ IsOver(s, k, d)
  BY <1>1, CommonDenominator, ZenonT(30)
<1>3. k > 0 /\ IsOver(Share(l, x, s), i * n, k * d) /\ IsOver(Share(l, y, s), i * m, k * d)
  BY <1>2, ShareFacts
<1>4. Share(l, x, s) \in Reduced /\ Share(l, y, s) \in Reduced BY ShareFacts
<1>5. PICK e \in Nat, p \in Nat, q \in Nat : e = k * d /\ p = i * n /\ q = i * m OBVIOUS
<1>6. IsOver(Times(Share(l, x, s), y), p * m, e * d) /\ IsOver(Times(Share(l, y, s), x), q * n, e * d)
  BY <1>1, <1>2, <1>3, <1>4, <1>5, TimesFacts, ReducedRatio
<1>7. p * m = q * n
  <2>1. (i * n) * m = (i * m) * n OBVIOUS
  <2> QED BY ONLY <1>5, <2>1
<1>8. e * d > 0
  <2>1. k * d >= d /\ (k * d) * d >= k * d BY <1>2, <1>3
  <2> QED BY <1>2, <1>5, <2>1
<1>9. e * d \in Nat /\ p * m \in Nat OBVIOUS
<1>10. Times(Share(l, x, s), y) \in Reduced /\ Times(Share(l, y, s), x) \in Reduced
  BY <1>1, <1>4, TimesFacts, ReducedRatio
<1> QED BY <1>6, <1>7, <1>8, <1>9, <1>10, SameOver

(* the share of a sum is the sum of the shares *)
LEMMA ShareOfSum ==
  ASSUME NEW l \in Reduced, NEW x \in Reduced, NEW y \in Reduced, NEW s \in Reduced, s # Zero
  PROVE  Share(l, Plus(x, y), s) = Plus(Share(l, x, s), Share(l, y, s))
<1>1. l \in Ratio /\ x \in Ratio /\ y \in Ratio /\ s \in Ratio BY ReducedRatio
<1>2. PICK i \in Nat, n \in Nat, m \in Nat, k \in Nat, d \in Nat :
        d > 0 /\ IsOver(l, i, d) /\ IsOver(x, n, d) /\ IsOver(y, m, d) /\ IsOver(s, k, d)
  BY <1>1, CommonDenominator, ZenonT(30)
<1>3. Plus(x, y) \in Reduced /\ IsOver(Plus(x, y), n + m, d) BY <1>1, <1>2, PlusFacts
<1>4. k > 0 /\ IsOver(Share(l, x, s), i * n, k * d) /\ IsOver(Share(l, y, s), i * m, k * d)
  BY <1>2, ShareFacts
<1>5. n + m \in Nat OBVIOUS
<1>6. IsOver(Share(l, Plus(x, y), s), i * (n + m), k * d) BY <1>2, <1>3, <1>5, ShareFacts
<1>7. /\ Share(l, x, s) \in Reduced /\ Share(l, y, s) \in Reduced
      /\ Share(l, Plus(x, y), s) \in Reduced
  BY <1>3, ShareFacts
<1>8. PICK e \in Nat, p \in Nat, q \in Nat : e = k * d /\ p = i * n /\ q = i * m OBVIOUS
<1>9. e > 0
  <2>1. k * d >= d BY <1>4
  <2> QED BY <1>2, <1>8, <2>1
<1>10. IsOver(Plus(Share(l, x, s), Share(l, y, s)), p + q, e)
  BY <1>4, <1>7, <1>8, <1>9, PlusFacts, ReducedRatio
<1>11. i * (n + m) = p + q
  <2>1. i * (n + m) = i * n + i * m OBVIOUS
  <2> QED BY ONLY <1>8, <2>1
<1>12. p + q \in Nat OBVIOUS
<1>13. Plus(Share(l, x, s), Share(l, y, s)) \in Reduced BY <1>7, PlusFacts, ReducedRatio
<1> QED BY <1>6, <1>7, <1>8, <1>9, <1>10, <1>11, <1>12, <1>13, SameOver

(* The share of everything is everything. *)
LEMMA ShareOfAll ==
  ASSUME NEW l \in Reduced, NEW s \in Reduced, s # Zero
  PROVE  Share(l, s, s) = l /\ Share(l, Zero, s) = Zero
<1>1. l \in Ratio /\ s \in Ratio /\ Zero \in Ratio /\ Zero \in Reduced BY ReducedRatio, ZeroAndOne
<1>2. PICK i \in Nat, k \in Nat, d \in Nat : d > 0 /\ IsOver(l, i, d) /\ IsOver(s, k, d)
  BY <1>1, CommonDenominator
<1>3. k > 0 /\ IsOver(Share(l, s, s), i * k, k * d) BY <1>2, ShareFacts
<1>4. PICK e \in Nat, p \in Nat : e = d * k /\ p = i * k OBVIOUS
<1>5. e > 0
  <2>1. d * k >= d BY <1>3
  <2> QED BY <1>2, <1>4, <2>1
<1>6. IsOver(l, p, e) BY <1>1, <1>2, <1>4, OverScaled
<1>7. k * d = e BY <1>4
<1>8. Share(l, s, s) = l BY <1>3, <1>4, <1>5, <1>6, <1>7, ShareFacts, SameOver
<1>9. IsOver(Zero, 0, d) BY <1>2 DEF IsOver, Zero
<1>10. IsOver(Share(l, Zero, s), i * 0, k * d) BY <1>1, <1>2, <1>9, ShareFacts
<1>11. i * 0 = 0 OBVIOUS
<1>12. Share(l, Zero, s) = Zero
  BY <1>1, <1>4, <1>5, <1>7, <1>10, <1>11, ShareFacts, ZeroOver
<1> QED BY <1>8, <1>12

-----------------------------------------------------------------------------
(* The order: ~Less(y, x) is x <= y *)

(* The order is total, and nothing becomes less by an addition. *)
LEMMA LessOrder ==
  ASSUME NEW x \in Ratio, NEW y \in Ratio, NEW z \in Ratio
  PROVE  /\ ~Less(x, x) /\ ~Less(x, Zero)
         /\ ~Less(x, y) /\ ~Less(y, z) => ~Less(x, z)
         /\ ~Less(x, y) \/ ~Less(y, x)
         /\ ~Less(Plus(x, y), x) /\ ~Less(Plus(x, y), y)
<1>1. PICK n \in Nat, m \in Nat, k \in Nat, d \in Nat :
        d > 0 /\ IsOver(x, n, d) /\ IsOver(y, m, d) /\ IsOver(z, k, d)
  BY CommonDenominator
<1>2. /\ Less(x, y) <=> n < m
      /\ Less(y, x) <=> m < n
      /\ Less(x, x) <=> n < n
      /\ Less(y, z) <=> m < k
      /\ Less(x, z) <=> n < k
  BY <1>1, LessOver
<1>3. Zero \in Ratio /\ IsOver(Zero, 0, d) /\ 0 \in Nat BY <1>1, ZeroAndOne, ReducedRatio DEF IsOver, Zero
<1>4. Less(x, Zero) <=> n < 0 BY <1>1, <1>3, LessOver
<1>5. Plus(x, y) \in Ratio /\ IsOver(Plus(x, y), n + m, d) BY <1>1, PlusFacts, ReducedRatio
<1>6. n + m \in Nat OBVIOUS
<1>7. (Less(Plus(x, y), x) <=> n + m < n) /\ (Less(Plus(x, y), y) <=> n + m < m)
  BY <1>1, <1>5, <1>6, LessOver
<1> QED BY <1>2, <1>4, <1>7

(* Sums of larger numbers are larger. *)
LEMMA PlusMonotone ==
  ASSUME NEW x \in Ratio, NEW y \in Ratio, NEW z \in Ratio, NEW w \in Ratio,
         ~Less(x, y), ~Less(z, w)
  PROVE  ~Less(Plus(x, z), Plus(y, w))
<1>1. PICK n \in Nat, m \in Nat, k \in Nat, l \in Nat, d \in Nat :
        d > 0 /\ IsOver(x, n, d) /\ IsOver(y, m, d) /\ IsOver(z, k, d) /\ IsOver(w, l, d)
  BY CommonDenominator, ZenonT(30)
<1>2. ~(n < m) /\ ~(k < l) BY <1>1, LessOver
<1>3. /\ Plus(x, z) \in Ratio /\ IsOver(Plus(x, z), n + k, d)
      /\ Plus(y, w) \in Ratio /\ IsOver(Plus(y, w), m + l, d)
  BY <1>1, PlusFacts, ReducedRatio
<1>4. n + k \in Nat /\ m + l \in Nat OBVIOUS
<1>5. Less(Plus(x, z), Plus(y, w)) <=> n + k < m + l BY <1>1, <1>3, <1>4, LessOver
<1> QED BY <1>2, <1>5

(* What is taken away may be added again. *)
LEMMA PlusMinus ==
  ASSUME NEW x \in Ratio, NEW y \in Reduced, ~Less(y, x)
  PROVE  Plus(x, Minus(y, x)) = y
<1>1. y \in Ratio BY ReducedRatio
<1>2. PICK n \in Nat, m \in Nat, d \in Nat : d > 0 /\ IsOver(x, n, d) /\ IsOver(y, m, d)
  BY <1>1, CommonDenominator
<1>3. n <= m BY <1>1, <1>2, LessOver
<1>4. PICK k \in Nat : k = m - n BY <1>3
<1>5. Minus(y, x) \in Ratio /\ IsOver(Minus(y, x), k, d) BY <1>1, <1>2, <1>3, <1>4, MinusFacts, ReducedRatio
<1>6. IsOver(Plus(x, Minus(y, x)), n + k, d) BY <1>2, <1>5, PlusFacts
<1>7. n + k = m BY <1>4
<1> QED BY <1>2, <1>5, <1>6, <1>7, PlusFacts, SameOver

(* what is not too large for x leaves room for x *)
LEMMA MinusMonotone ==
  ASSUME NEW x \in Ratio, NEW y \in Ratio, NEW z \in Ratio, ~Less(y, x)
  PROVE  ~Less(Minus(z, x), Minus(z, y))
<1>1. PICK n \in Nat, m \in Nat, k \in Nat, d \in Nat :
        d > 0 /\ IsOver(x, n, d) /\ IsOver(y, m, d) /\ IsOver(z, k, d)
  BY CommonDenominator
<1>2. n <= m BY <1>1, LessOver
<1>3. Minus(z, x) \in Ratio /\ Minus(z, y) \in Ratio BY MinusFacts, ReducedRatio
<1>4. CASE Less(z, y)
  <2>1. Minus(z, y) = Zero BY <1>4, MinusFacts
  <2> QED BY <1>3, <2>1, LessOrder
<1>5. CASE ~Less(z, y)
  <2>1. m <= k BY <1>1, <1>5, LessOver
  <2>2. PICK i \in Nat, j \in Nat : i = k - n /\ j = k - m BY <1>2, <2>1
  <2>3. IsOver(Minus(z, x), i, d) /\ IsOver(Minus(z, y), j, d)
    BY <1>1, <1>2, <2>1, <2>2, MinusFacts
  <2>4. Less(Minus(z, x), Minus(z, y)) <=> i < j BY <1>1, <1>3, <2>3, LessOver
  <2> QED BY <1>2, <2>2, <2>4
<1> QED BY <1>4, <1>5

(* a part of a whole times a number is at most that number *)
LEMMA PartOf ==
  ASSUME NEW x \in Reduced, NEW y \in Reduced, y # Zero, ~Less(y, x), NEW z \in Reduced
  PROVE  Times(Over(x, y), z) \in Reduced /\ ~Less(z, Times(Over(x, y), z))
<1>1. x \in Ratio /\ y \in Ratio /\ z \in Ratio BY ReducedRatio
<1>2. PICK n \in Nat, m \in Nat, k \in Nat, d \in Nat :
        d > 0 /\ IsOver(x, n, d) /\ IsOver(y, m, d) /\ IsOver(z, k, d)
  BY <1>1, CommonDenominator
<1>3. n <= m /\ m > 0 BY <1>1, <1>2, LessOver, ZeroOver
<1>4. Over(x, y) \in Reduced /\ IsOver(Over(x, y), n, m) BY <1>2, OverFacts
<1>5. Times(Over(x, y), z) \in Reduced BY <1>1, <1>4, TimesFacts, ReducedRatio
<1>6. IsOver(Times(Over(x, y), z), n * k, m * d) BY <1>1, <1>2, <1>4, TimesFacts, ReducedRatio
<1>7. IsOver(z, k * m, d * m) BY <1>1, <1>2, OverScaled
<1>8. PICK e \in Nat, p \in Nat, q \in Nat : e = d * m /\ p = n * k /\ q = k * m OBVIOUS
<1>9. e > 0
  <2>1. d * m >= d BY <1>3
  <2> QED BY <1>2, <1>8, <2>1
<1>10. m * d = e BY <1>8
<1>11. Less(z, Times(Over(x, y), z)) <=> q < p
  BY <1>1, <1>5, <1>6, <1>7, <1>8, <1>9, <1>10, LessOver, ReducedRatio
<1>12. p <= q
  <2>1. (m - n) * k >= 0 BY <1>3
  <2>2. (m - n) * k = k * m - n * k OBVIOUS
  <2> QED BY <1>8, <2>1, <2>2
<1> QED BY <1>5, <1>11, <1>12

(* A sum is zero if what is added is. *)
LEMMA PlusIsZero ==
  ASSUME NEW x \in Reduced, NEW y \in Reduced
  PROVE  Plus(x, y) = Zero <=> x = Zero /\ y = Zero
<1>1. x \in Ratio /\ y \in Ratio BY ReducedRatio
<1>2. PICK n \in Nat, m \in Nat, d \in Nat : d > 0 /\ IsOver(x, n, d) /\ IsOver(y, m, d)
  BY <1>1, CommonDenominator
<1>3. Plus(x, y) \in Reduced /\ IsOver(Plus(x, y), n + m, d) BY <1>1, <1>2, PlusFacts
<1>4. n + m \in Nat OBVIOUS
<1>5. (x = Zero <=> n = 0) /\ (y = Zero <=> m = 0) /\ (Plus(x, y) = Zero <=> n + m = 0)
  BY <1>2, <1>3, <1>4, ZeroOver
<1> QED BY <1>5

-----------------------------------------------------------------------------
(* Sums over sets *)

(* A set of sets with {} and closed under one more element of S contains S. *)
LEMMA FiniteSetInduction ==
  ASSUME NEW S, IsFiniteSet(S), NEW P, {} \in P,
         \A T \in SUBSET S : \A x \in S \ T : T \in P => T \cup {x} \in P
  PROVE  S \in P
<1> DEFINE N == {n \in Nat : \A T \in SUBSET S : Cardinality(T) = n => T \in P}
<1>1. 0 \in N
  <2>1. ASSUME NEW T \in SUBSET S, Cardinality(T) = 0 PROVE T \in P
    <3>1. T = {} BY <2>1, FS_Subset, FS_EmptySet
    <3> QED BY <3>1
  <2> QED BY <2>1
<1>2. ASSUME NEW n \in Nat, n \in N PROVE n + 1 \in N
  <2>1. ASSUME NEW T \in SUBSET S, Cardinality(T) = n + 1 PROVE T \in P
    <3>1. IsFiniteSet(T) BY FS_Subset
    <3>2. T # {} /\ (n + 1) - 1 = n
      <4>1. n + 1 # 0 /\ (n + 1) - 1 = n BY ONLY n \in Nat
      <4>2. T # {} BY ONLY <2>1, <3>1, <4>1, FS_EmptySet
      <4> QED BY <4>1, <4>2
    <3>3. PICK x \in T : TRUE BY <3>2
    <3>4. Cardinality(T \ {x}) = n
      <4> HIDE DEF N
      <4> QED BY <2>1, <3>1, <3>2, <3>3, FS_RemoveElement
    <3>5. T \ {x} \in P BY <1>2, <3>4
    <3>6. T = (T \ {x}) \cup {x} /\ x \in S \ (T \ {x}) BY <3>3
    <3> QED BY <3>5, <3>6
  <2> HIDE DEF N
  <2>2. \A T \in SUBSET S : Cardinality(T) = n + 1 => T \in P BY <2>1
  <2> QED BY <2>2 DEF N
<1>3. Cardinality(S) \in Nat BY FS_CardinalityType
<1>4. Cardinality(S) \in N
  <2> HIDE DEF N
  <2> QED BY <1>1, <1>2, <1>3, NatSetInduction
<1> QED BY <1>4

(* what the folds of SumOver and ProductOver have at the subset s *)
FirstOf(s) == CHOOSE x \in s : TRUE
Nothing(adds) == IF adds THEN Zero ELSE One
Put(adds, x, y) == IF adds THEN Plus(x, y) ELSE Times(x, y)
FoldAt(adds, f, h, s) == IF s = {} THEN Nothing(adds) ELSE Put(adds, f[FirstOf(s)], h[s \ {FirstOf(s)}])
FoldFix(adds, f, D, h) == h = [s \in D |-> FoldAt(adds, f, h, s)]
Folding(adds, f, S) == CHOOSE h : FoldFix(adds, f, SUBSET S, h)

(* The recursion of the folds has a solution. *)
LEMMA FoldingIsFix ==
  ASSUME NEW adds, NEW f, NEW S, IsFiniteSet(S)
  PROVE  FoldFix(adds, f, SUBSET S, Folding(adds, f, S))
<1> DEFINE D(n) == {s \in SUBSET S : Cardinality(s) <= n}
           N == {n \in Nat : \E h : FoldFix(adds, f, D(n), h)}
<1>1. \A s \in SUBSET S : IsFiniteSet(s) /\ Cardinality(s) \in Nat BY FS_Subset, FS_CardinalityType
<1>2. \A s \in SUBSET S : s # {} => /\ FirstOf(s) \in s /\ s \ {FirstOf(s)} \in SUBSET S
                                    /\ Cardinality(s \ {FirstOf(s)}) = Cardinality(s) - 1
  <2> SUFFICES ASSUME NEW s \in SUBSET S, s # {}
               PROVE  /\ FirstOf(s) \in s /\ s \ {FirstOf(s)} \in SUBSET S
                      /\ Cardinality(s \ {FirstOf(s)}) = Cardinality(s) - 1
    OBVIOUS
  <2>1. FirstOf(s) \in s BY DEF FirstOf
  <2> QED BY <1>1, <2>1, FS_RemoveElement
<1>3. 0 \in N
  <2>1. \A s \in D(0) : s = {} BY <1>1, FS_EmptySet
  <2> DEFINE k == [s \in D(0) |-> Nothing(adds)]
  <2>2. \A s \in D(0) : FoldAt(adds, f, k, s) = Nothing(adds) BY <2>1 DEF FoldAt
  <2>3. FoldFix(adds, f, D(0), k)
    <3> HIDE DEF D
    <3> QED BY <2>2 DEF FoldFix
  <2> HIDE DEF D, k
  <2> QED BY <2>3
<1>4. ASSUME NEW n \in Nat, n \in N PROVE n + 1 \in N
  <2>1. PICK h : FoldFix(adds, f, D(n), h) BY <1>4
  <2> DEFINE k == [s \in D(n + 1) |-> FoldAt(adds, f, h, s)]
  <2>2. \A s \in D(n) : s \in D(n + 1) /\ k[s] = h[s]
    <3>1. \A s \in D(n) : s \in D(n + 1) BY <1>1
    <3>2. \A s \in D(n) : h[s] = FoldAt(adds, f, h, s)
      <4> HIDE DEF D
      <4> QED BY <2>1 DEF FoldFix
    <3> HIDE DEF D
    <3> QED BY <3>1, <3>2
  <2>3. \A s \in D(n + 1) : s # {} => s \ {FirstOf(s)} \in D(n) BY <1>1, <1>2
  <2>4. \A s \in D(n + 1) : k[s] = FoldAt(adds, f, k, s)
    <3>1. \A s \in D(n + 1) : k[s] = FoldAt(adds, f, h, s) OBVIOUS
    <3> HIDE DEF D, k
    <3> QED BY <2>2, <2>3, <3>1 DEF FoldAt
  <2>5. FoldFix(adds, f, D(n + 1), k)
    <3>1. k = [s \in D(n + 1) |-> k[s]] OBVIOUS
    <3> HIDE DEF D, k
    <3> QED BY <2>4, <3>1 DEF FoldFix
  <2> HIDE DEF D, k
  <2> QED BY <2>5
<1>5. Cardinality(S) \in N
  <2>1. Cardinality(S) \in Nat BY FS_CardinalityType
  <2> HIDE DEF N
  <2> QED BY <1>3, <1>4, <2>1, NatSetInduction
<1>6. D(Cardinality(S)) = SUBSET S
  <2>1. \A s \in SUBSET S : Cardinality(s) <= Cardinality(S) BY FS_Subset
  <2> QED BY <2>1
<1>7. \E h : FoldFix(adds, f, SUBSET S, h)
  <2>1. PICK h : FoldFix(adds, f, D(Cardinality(S)), h) BY <1>5
  <2> HIDE DEF D
  <2> QED BY <1>6, <2>1
<1> QED BY <1>7 DEF Folding

(* Folding a part of a set does not depend on the rest of it. *)
LEMMA FoldingSmaller ==
  ASSUME NEW adds, NEW f, NEW S, IsFiniteSet(S), NEW T \in SUBSET S
  PROVE  Folding(adds, f, S)[T] = Folding(adds, f, T)[T]
<1> DEFINE P == {n \in Nat : \A s \in SUBSET T : Cardinality(s) <= n => Folding(adds, f, S)[s] = Folding(adds, f, T)[s]}
<1>1. IsFiniteSet(T) BY FS_Subset
<1>2. PICK g, h : g = Folding(adds, f, S) /\ h = Folding(adds, f, T) OBVIOUS
<1>3. FoldFix(adds, f, SUBSET S, g) /\ FoldFix(adds, f, SUBSET T, h) BY <1>1, <1>2, FoldingIsFix
<1>4. \A s \in SUBSET T : /\ IsFiniteSet(s) /\ Cardinality(s) \in Nat
                          /\ g[s] = FoldAt(adds, f, g, s)
                          /\ h[s] = FoldAt(adds, f, h, s)
  <2>1. \A s \in SUBSET T : s \in SUBSET S OBVIOUS
  <2>2. \A s \in SUBSET T : IsFiniteSet(s) /\ Cardinality(s) \in Nat BY <1>1, FS_Subset, FS_CardinalityType
  <2> QED BY <1>3, <2>1, <2>2 DEF FoldFix
<1>5. 0 \in P
  <2>1. ASSUME NEW s \in SUBSET T, Cardinality(s) <= 0 PROVE g[s] = h[s]
    <3>1. Cardinality(s) = 0
      <4>1. Cardinality(s) \in Nat BY <1>4
      <4> QED BY ONLY <2>1, <4>1
    <3>2. s = {} BY <1>4, <3>1, FS_EmptySet
    <3> QED BY <1>4, <3>2 DEF FoldAt
  <2> QED BY <1>2, <2>1
<1>6. ASSUME NEW n \in Nat, n \in P PROVE n + 1 \in P
  <2>1. ASSUME NEW s \in SUBSET T, Cardinality(s) <= n + 1 PROVE g[s] = h[s]
    <3>1. CASE s = {} BY <1>4, <3>1 DEF FoldAt
    <3>2. CASE s # {}
      <4>1. FirstOf(s) \in s BY <3>2 DEF FirstOf
      <4>2. PICK t : t = s \ {FirstOf(s)} OBVIOUS
      <4>3. t \in SUBSET T BY <4>2
      <4>4. Cardinality(t) = Cardinality(s) - 1
        <5>1. IsFiniteSet(s) BY <1>4
        <5> HIDE DEF P
        <5> QED BY ONLY <4>1, <4>2, <5>1, FS_RemoveElement
      <4>5. Cardinality(t) <= n
        <5>1. Cardinality(s) \in Nat BY <1>4
        <5> QED BY ONLY <2>1, <4>4, <5>1, n \in Nat
      <4>6. g[t] = h[t] BY <1>2, <1>6, <4>3, <4>5
      <4> QED BY <1>4, <3>2, <4>2, <4>6 DEF FoldAt
    <3> QED BY <3>1, <3>2
  <2> QED BY <1>2, <2>1
<1>7. Cardinality(T) \in P
  <2>1. Cardinality(T) \in Nat BY <1>4
  <2> HIDE DEF P
  <2> QED BY <1>5, <1>6, <2>1, NatSetInduction
<1> QED BY <1>4, <1>7

(* A fold takes one element, and folds the rest; *)
LEMMA FoldingDef ==
  ASSUME NEW adds, NEW f, NEW S, IsFiniteSet(S), S # {}
  PROVE  Folding(adds, f, S)[S] =
           Put(adds, f[FirstOf(S)], Folding(adds, f, S \ {FirstOf(S)})[S \ {FirstOf(S)}])
<1>1. PICK T : T = S \ {FirstOf(S)} OBVIOUS
<1>2. PICK h : h = Folding(adds, f, S) OBVIOUS
<1>3. FoldFix(adds, f, SUBSET S, h) BY <1>2, FoldingIsFix
<1>4. h[S] = Put(adds, f[FirstOf(S)], h[T])
  <2>1. S \in SUBSET S OBVIOUS
  <2>2. h[S] = FoldAt(adds, f, h, S) BY <1>3, <2>1 DEF FoldFix
  <2> QED BY <1>1, <2>2 DEF FoldAt
<1>5. h[T] = Folding(adds, f, T)[T] BY <1>1, <1>2, FoldingSmaller
<1> QED BY <1>1, <1>2, <1>4, <1>5

(* the empty set leaves the base. *)
LEMMA FoldingNothing ==
  ASSUME NEW adds, NEW f
  PROVE  Folding(adds, f, {})[{}] = Nothing(adds)
<1>1. PICK h : h = Folding(adds, f, {}) OBVIOUS
<1>2. FoldFix(adds, f, SUBSET {}, h) BY <1>1, FS_EmptySet, FoldingIsFix
<1>3. h[{}] = FoldAt(adds, f, h, {}) BY <1>2 DEF FoldFix
<1> QED BY <1>1, <1>3 DEF FoldAt

(* Sums and products are folds. *)
LEMMA FoldsAre ==
  ASSUME NEW f, NEW S
  PROVE  SumOver(f, S) = Folding(TRUE, f, S)[S] /\ ProductOver(f, S) = Folding(FALSE, f, S)[S]
<1> DEFINE Sums(h) == h = [s \in SUBSET S |-> IF s = {} THEN Zero ELSE Plus(f[CHOOSE x \in s : TRUE], h[s \ {CHOOSE x \in s : TRUE}])]
           Products(h) == h = [s \in SUBSET S |-> IF s = {} THEN One ELSE Times(f[CHOOSE x \in s : TRUE], h[s \ {CHOOSE x \in s : TRUE}])]
<1>1. SumOver(f, S) = (CHOOSE h : Sums(h))[S]
  BY DEF SumOver, FoldFunctionOnSet, MapThenFoldSet
<1>2. ProductOver(f, S) = (CHOOSE h : Products(h))[S]
  BY DEF ProductOver, FoldFunctionOnSet, MapThenFoldSet
<1>3. \A h : Sums(h) <=> FoldFix(TRUE, f, SUBSET S, h)
  BY DEF FoldFix, FoldAt, Nothing, Put, FirstOf
<1>4. \A h : Products(h) <=> FoldFix(FALSE, f, SUBSET S, h)
  BY DEF FoldFix, FoldAt, Nothing, Put, FirstOf
<1>5. Folding(TRUE, f, S) = CHOOSE h : Sums(h)
  <2> HIDE DEF Sums
  <2> QED BY <1>3 DEF Folding
<1>6. Folding(FALSE, f, S) = CHOOSE h : Products(h)
  <2> HIDE DEF Products
  <2> QED BY <1>4 DEF Folding
<1> QED BY <1>1, <1>2, <1>5, <1>6

(* A sum takes one element first, and so *)
LEMMA SumOverDef ==
  ASSUME NEW f, NEW S, IsFiniteSet(S)
  PROVE  SumOver(f, S) = IF S = {} THEN Zero
                         ELSE Plus(f[FirstOf(S)], SumOver(f, S \ {FirstOf(S)}))
<1>1. CASE S = {}
  <2>1. SumOver(f, {}) = Zero BY FoldsAre, FoldingNothing DEF Nothing
  <2> QED BY <1>1, <2>1
<1>2. CASE S # {}
  <2>1. PICK T : T = S \ {FirstOf(S)} OBVIOUS
  <2>2. Folding(TRUE, f, S)[S] = Plus(f[FirstOf(S)], Folding(TRUE, f, T)[T])
    BY <1>2, <2>1, FoldingDef DEF Put
  <2>3. SumOver(f, S) = Folding(TRUE, f, S)[S] /\ SumOver(f, T) = Folding(TRUE, f, T)[T]
    BY FoldsAre
  <2> QED BY <1>2, <2>1, <2>2, <2>3
<1> QED BY <1>1, <1>2

(* does a product. *)
LEMMA ProductOverDef ==
  ASSUME NEW f, NEW S, IsFiniteSet(S)
  PROVE  ProductOver(f, S) = IF S = {} THEN One
                             ELSE Times(f[FirstOf(S)], ProductOver(f, S \ {FirstOf(S)}))
<1>1. CASE S = {}
  <2>1. ProductOver(f, {}) = One BY FoldsAre, FoldingNothing DEF Nothing
  <2> QED BY <1>1, <2>1
<1>2. CASE S # {}
  <2>1. PICK T : T = S \ {FirstOf(S)} OBVIOUS
  <2>2. Folding(FALSE, f, S)[S] = Times(f[FirstOf(S)], Folding(FALSE, f, T)[T])
    <3>1. PICK adds : adds = FALSE OBVIOUS
    <3>2. Folding(adds, f, S)[S] = Put(adds, f[FirstOf(S)], Folding(adds, f, T)[T])
      BY <1>2, <2>1, FoldingDef
    <3>3. Put(FALSE, f[FirstOf(S)], Folding(FALSE, f, T)[T])
            = Times(f[FirstOf(S)], Folding(FALSE, f, T)[T])
      BY DEF Put
    <3> QED BY <3>1, <3>2, <3>3
  <2>3. ProductOver(f, S) = Folding(FALSE, f, S)[S] /\ ProductOver(f, T) = Folding(FALSE, f, T)[T]
    BY FoldsAre
  <2> QED BY <1>2, <2>1, <2>2, <2>3
<1> QED BY <1>1, <1>2

(* what is folded, and in which order *)
Total(adds, f, S) == Folding(adds, f, S)[S]

Closed(adds, R) == Nothing(adds) \in R /\ \A x, y \in R : Put(adds, x, y) \in R
InAnyOrder(adds, R) ==
  /\ Closed(adds, R)
  /\ \A x, y, z \in R : Put(adds, x, Put(adds, y, z)) = Put(adds, y, Put(adds, x, z))

(* A fold over a set that is closed stays in it. *)
LEMMA FoldType ==
  ASSUME NEW adds, NEW f, NEW S, IsFiniteSet(S), NEW R, Closed(adds, R), \A x \in S : f[x] \in R
  PROVE  Total(adds, f, S) \in R
<1> DEFINE N == {n \in Nat : \A T \in SUBSET S : Cardinality(T) = n => Total(adds, f, T) \in R}
<1>1. \A T \in SUBSET S : IsFiniteSet(T) /\ Cardinality(T) \in Nat BY FS_Subset, FS_CardinalityType
<1>2. 0 \in N
  <2>1. ASSUME NEW T \in SUBSET S, Cardinality(T) = 0 PROVE Total(adds, f, T) \in R
    <3>1. T = {} BY <1>1, <2>1, FS_EmptySet
    <3> QED BY <3>1, FoldingNothing DEF Total, Closed
  <2> QED BY <2>1
<1>3. ASSUME NEW n \in Nat, n \in N PROVE n + 1 \in N
  <2>1. ASSUME NEW T \in SUBSET S, Cardinality(T) = n + 1 PROVE Total(adds, f, T) \in R
    <3>1. T # {} BY <2>1, FS_EmptySet
    <3>2. FirstOf(T) \in T BY <3>1 DEF FirstOf
    <3>3. PICK U \in SUBSET S : U = T \ {FirstOf(T)} OBVIOUS
    <3>4. Cardinality(U) = n
      <4>1. IsFiniteSet(T) /\ (n + 1) - 1 = n BY <1>1
      <4> QED BY ONLY <2>1, <3>2, <3>3, <4>1, FS_RemoveElement
    <3>5. Total(adds, f, U) \in R BY <1>3, <3>4
    <3>6. Total(adds, f, T) = Put(adds, f[FirstOf(T)], Total(adds, f, U))
      BY <1>1, <3>1, <3>3, FoldingDef DEF Total
    <3>7. f[FirstOf(T)] \in R BY <3>2
    <3> QED BY <3>5, <3>6, <3>7 DEF Closed
  <2> HIDE DEF N
  <2>2. \A T \in SUBSET S : Cardinality(T) = n + 1 => Total(adds, f, T) \in R BY <2>1
  <2> QED BY <2>2 DEF N
<1>4. Cardinality(S) \in N
  <2>1. Cardinality(S) \in Nat BY FS_CardinalityType
  <2> HIDE DEF N
  <2> QED BY <1>2, <1>3, <2>1, NatSetInduction
<1> QED BY <1>4

(* it does not matter which element is taken first *)
LEMMA FoldTake ==
  ASSUME NEW adds, NEW f, NEW S, IsFiniteSet(S), NEW R, InAnyOrder(adds, R),
         \A x \in S : f[x] \in R, NEW e \in S
  PROVE  Total(adds, f, S) = Put(adds, f[e], Total(adds, f, S \ {e}))
<1> DEFINE Right(T) == \A x \in T : Total(adds, f, T) = Put(adds, f[x], Total(adds, f, T \ {x}))
           N == {n \in Nat : \A T \in SUBSET S : Cardinality(T) = n => Right(T)}
<1>1. \A T \in SUBSET S : IsFiniteSet(T) /\ Cardinality(T) \in Nat BY FS_Subset, FS_CardinalityType
<1>2. 0 \in N
  <2>1. ASSUME NEW T \in SUBSET S, Cardinality(T) = 0 PROVE Right(T)
    <3>1. T = {} BY <1>1, <2>1, FS_EmptySet
    <3> QED BY <3>1
  <2> QED BY <2>1
<1>3. ASSUME NEW n \in Nat, n \in N PROVE n + 1 \in N
  <2>0. \A T \in SUBSET S : \A x \in T :
          Cardinality(T) = n => Total(adds, f, T) = Put(adds, f[x], Total(adds, f, T \ {x}))
    BY <1>3
  <2>1. ASSUME NEW T \in SUBSET S, Cardinality(T) = n + 1, NEW x \in T
        PROVE  Total(adds, f, T) = Put(adds, f[x], Total(adds, f, T \ {x}))
    <3>1. PICK c \in T : c = FirstOf(T) BY DEF FirstOf
    <3>2. Total(adds, f, T) = Put(adds, f[c], Total(adds, f, T \ {c}))
      <4>1. IsFiniteSet(T) /\ T # {} BY <1>1
      <4> QED BY ONLY <3>1, <4>1, FoldingDef DEF Total
    <3>3. CASE x = c BY <3>2, <3>3
    <3>4. CASE x # c
      <4>1. PICK U \in SUBSET S, V \in SUBSET S, W \in SUBSET S :
              U = T \ {c} /\ V = T \ {x} /\ W = (T \ {c}) \ {x}
        OBVIOUS
      <4>2. x \in U /\ c \in V /\ U \ {x} = W /\ V \ {c} = W BY <3>4, <4>1
      <4>3. Cardinality(U) = n /\ Cardinality(V) = n
        <5>1. IsFiniteSet(T) /\ (n + 1) - 1 = n BY <1>1
        <5>2. U = T \ {c} /\ V = T \ {x} BY <4>1
        <5> QED BY ONLY <2>1, <5>1, <5>2, x \in T, c \in T, FS_RemoveElement
      <4>4. Total(adds, f, U) = Put(adds, f[x], Total(adds, f, W)) BY <2>0, <4>2, <4>3
      <4>5. Total(adds, f, V) = Put(adds, f[c], Total(adds, f, W)) BY <2>0, <4>2, <4>3
      <4>6. Total(adds, f, W) \in R
        <5>1. IsFiniteSet(W) /\ \A y \in W : f[y] \in R BY <1>1
        <5>2. Closed(adds, R) BY DEF InAnyOrder
        <5> QED BY ONLY <5>1, <5>2, FoldType
      <4>7. f[c] \in R /\ f[x] \in R OBVIOUS
      <4>8. Put(adds, f[c], Put(adds, f[x], Total(adds, f, W)))
              = Put(adds, f[x], Put(adds, f[c], Total(adds, f, W)))
        BY ONLY <4>6, <4>7, InAnyOrder(adds, R) DEF InAnyOrder
      <4> QED BY <3>2, <4>1, <4>4, <4>5, <4>8
    <3> QED BY <3>3, <3>4
  <2> QED BY <2>1
<1>4. Cardinality(S) \in N
  <2>1. Cardinality(S) \in Nat BY FS_CardinalityType
  <2> HIDE DEF N
  <2> QED BY <1>2, <1>3, <2>1, NatSetInduction
<1> QED BY <1>4

(* Fractions may be added in any order, *)
LEMMA SumsInAnyOrder == InAnyOrder(TRUE, Ratio)
<1>1. Zero \in Ratio BY ZeroAndOne, ReducedRatio
<1>2. \A x, y \in Ratio : Plus(x, y) \in Ratio BY PlusFacts, ReducedRatio
<1>3. ASSUME NEW x \in Ratio, NEW y \in Ratio, NEW z \in Ratio
      PROVE  Plus(x, Plus(y, z)) = Plus(y, Plus(x, z))
  <2>1. Plus(Plus(x, y), z) = Plus(x, Plus(y, z)) /\ Plus(Plus(y, x), z) = Plus(y, Plus(x, z))
    BY PlusAssociates
  <2> QED BY <2>1, PlusCommutes
<1> QED BY <1>1, <1>2, <1>3 DEF InAnyOrder, Closed, Nothing, Put

(* and multiplied in any order. *)
LEMMA ProductsInAnyOrder == Closed(FALSE, Ratio) /\ InAnyOrder(FALSE, Reduced)
<1>1. One \in Reduced /\ One \in Ratio BY ZeroAndOne, ReducedRatio
<1>2. \A x, y \in Ratio : Times(x, y) \in Ratio BY TimesFacts
<1>3. \A x, y \in Reduced : Times(x, y) \in Reduced BY TimesFacts, ReducedRatio
<1>4. ASSUME NEW x \in Reduced, NEW y \in Reduced, NEW z \in Reduced
      PROVE  Times(x, Times(y, z)) = Times(y, Times(x, z))
  <2>1. Times(Times(x, y), z) = Times(x, Times(y, z)) /\ Times(Times(y, x), z) = Times(y, Times(x, z))
    BY TimesAssociates
  <2> QED BY <2>1, TimesCommutes
<1> QED BY <1>1, <1>2, <1>3, <1>4 DEF InAnyOrder, Closed, Nothing, Put

(* Sums are fractions in lowest terms. *)
LEMMA SumType ==
  ASSUME NEW f, NEW S, IsFiniteSet(S), \A x \in S : f[x] \in Ratio
  PROVE  SumOver(f, S) \in Reduced
<1>1. CASE S = {} BY <1>1, SumOverDef, ZeroAndOne
<1>2. CASE S # {}
  <2>1. PICK T \in SUBSET S : T = S \ {FirstOf(S)} OBVIOUS
  <2>2. IsFiniteSet(T) BY FS_Subset
  <2>3. Total(TRUE, f, T) \in Ratio BY <2>2, SumsInAnyOrder, FoldType DEF InAnyOrder
  <2>4. SumOver(f, T) \in Ratio BY <2>3, FoldsAre DEF Total
  <2>5. f[FirstOf(S)] \in Ratio BY <1>2 DEF FirstOf
  <2>6. SumOver(f, S) = Plus(f[FirstOf(S)], SumOver(f, T)) BY <1>2, <2>1, SumOverDef
  <2> QED BY <2>4, <2>5, <2>6, PlusFacts
<1> QED BY <1>1, <1>2

(* Products are fractions, in lowest terms if their factors are. *)
LEMMA ProductType ==
  ASSUME NEW f, NEW S, IsFiniteSet(S)
  PROVE  /\ (\A x \in S : f[x] \in Ratio) => ProductOver(f, S) \in Ratio
         /\ (\A x \in S : f[x] \in Reduced) => ProductOver(f, S) \in Reduced
<1>1. Closed(FALSE, Ratio) /\ Closed(FALSE, Reduced) BY ProductsInAnyOrder DEF InAnyOrder
<1>2. (\A x \in S : f[x] \in Ratio) => Total(FALSE, f, S) \in Ratio BY <1>1, FoldType
<1>3. (\A x \in S : f[x] \in Reduced) => Total(FALSE, f, S) \in Reduced BY <1>1, FoldType
<1> QED BY <1>2, <1>3, FoldsAre DEF Total

(* Any element may be taken out of a sum, *)
LEMMA SumTake ==
  ASSUME NEW f, NEW S, IsFiniteSet(S), \A x \in S : f[x] \in Ratio, NEW y \in S
  PROVE  SumOver(f, S) = Plus(f[y], SumOver(f, S \ {y}))
<1>1. PICK R, adds : R = Ratio /\ adds = TRUE OBVIOUS
<1>2. InAnyOrder(adds, R) /\ \A x \in S : f[x] \in R BY <1>1, SumsInAnyOrder
<1>3. Total(adds, f, S) = Put(adds, f[y], Total(adds, f, S \ {y})) BY <1>2, FoldTake
<1>4. Total(TRUE, f, S) = Put(TRUE, f[y], Total(TRUE, f, S \ {y})) BY <1>1, <1>3
<1> QED BY <1>4, FoldsAre DEF Total, Put

(* or a product, *)
LEMMA ProductTake ==
  ASSUME NEW f, NEW S, IsFiniteSet(S), \A x \in S : f[x] \in Reduced, NEW y \in S
  PROVE  ProductOver(f, S) = Times(f[y], ProductOver(f, S \ {y}))
<1>1. PICK R, adds : R = Reduced /\ adds = FALSE OBVIOUS
<1>2. InAnyOrder(adds, R) /\ \A x \in S : f[x] \in R BY <1>1, ProductsInAnyOrder
<1>3. Total(adds, f, S) = Put(adds, f[y], Total(adds, f, S \ {y})) BY <1>2, FoldTake
<1>4. Total(FALSE, f, S) = Put(FALSE, f[y], Total(FALSE, f, S \ {y})) BY <1>1, <1>3
<1> QED BY <1>4, FoldsAre DEF Total, Put

(* or be added to a sum. *)
LEMMA SumAdd ==
  ASSUME NEW f, NEW S, IsFiniteSet(S), NEW y, y \notin S, \A x \in S \cup {y} : f[x] \in Ratio
  PROVE  /\ SumOver(f, S \cup {y}) = Plus(f[y], SumOver(f, S))
         /\ SumOver(f, {}) = Zero
<1>1. PICK T : T = S \cup {y} OBVIOUS
<1>2. IsFiniteSet(T) BY <1>1, FS_AddElement
<1>3. y \in T /\ T \ {y} = S BY <1>1
<1>4. SumOver(f, T) = Plus(f[y], SumOver(f, S)) BY <1>1, <1>2, <1>3, SumTake
<1>5. SumOver(f, {}) = Zero BY FS_EmptySet, SumOverDef
<1> QED BY <1>1, <1>4, <1>5

(* Sums of the same numbers are the same. *)
LEMMA SumSame ==
  ASSUME NEW f, NEW g, NEW S, IsFiniteSet(S), \A x \in S : f[x] \in Ratio /\ g[x] = f[x]
  PROVE  SumOver(g, S) = SumOver(f, S)
<1> DEFINE P == {T \in SUBSET S : SumOver(g, T) = SumOver(f, T)}
<1>1. {} \in P BY FS_EmptySet, SumOverDef
<1>2. ASSUME NEW T \in SUBSET S, NEW y \in S \ T, T \in P PROVE T \cup {y} \in P
  <2>1. IsFiniteSet(T) BY FS_Subset
  <2>2. \A x \in T \cup {y} : f[x] \in Ratio /\ g[x] \in Ratio OBVIOUS
  <2>3. /\ SumOver(f, T \cup {y}) = Plus(f[y], SumOver(f, T))
        /\ SumOver(g, T \cup {y}) = Plus(g[y], SumOver(g, T))
    BY <2>1, <2>2, SumAdd
  <2> QED BY <1>2, <2>3
<1>3. S \in P
  <2> HIDE DEF P
  <2> QED BY <1>1, <1>2, FiniteSetInduction
<1> QED BY <1>3

(* The sum over two disjoint sets is that of their sums. *)
LEMMA SumSplit ==
  ASSUME NEW f, NEW S, IsFiniteSet(S), NEW R, IsFiniteSet(R), S \cap R = {},
         \A x \in S \cup R : f[x] \in Ratio
  PROVE  SumOver(f, S \cup R) = Plus(SumOver(f, S), SumOver(f, R))
<1> DEFINE P == {T \in SUBSET S : SumOver(f, T \cup R) = Plus(SumOver(f, T), SumOver(f, R))}
<1>1. {} \in P
  <2>1. SumOver(f, R) \in Reduced BY SumType
  <2>2. SumOver(f, {}) = Zero BY FS_EmptySet, SumOverDef
  <2>3. {} \cup R = R OBVIOUS
  <2> QED BY <2>1, <2>2, <2>3, PlusZero
<1>2. ASSUME NEW T \in SUBSET S, NEW y \in S \ T, T \in P PROVE T \cup {y} \in P
  <2>1. IsFiniteSet(T) BY FS_Subset
  <2>2. PICK U : U = T \cup R OBVIOUS
  <2>3. IsFiniteSet(U) BY <2>1, <2>2, FS_Union
  <2>4. y \notin U /\ (T \cup {y}) \cup R = U \cup {y} BY <2>2
  <2>5. \A x \in U \cup {y} : f[x] \in Ratio BY <2>2
  <2>6. SumOver(f, U \cup {y}) = Plus(f[y], SumOver(f, U)) BY <2>3, <2>4, <2>5, SumAdd
  <2>7. SumOver(f, T \cup {y}) = Plus(f[y], SumOver(f, T)) BY <2>1, SumAdd
  <2>8. SumOver(f, T) \in Ratio /\ SumOver(f, R) \in Ratio BY <2>1, SumType, ReducedRatio
  <2>9. SumOver(f, U) = Plus(SumOver(f, T), SumOver(f, R)) BY <1>2, <2>2
  <2>10. Plus(f[y], Plus(SumOver(f, T), SumOver(f, R))) = Plus(Plus(f[y], SumOver(f, T)), SumOver(f, R))
    BY <2>8, PlusAssociates
  <2> QED BY <2>4, <2>6, <2>7, <2>9, <2>10
<1>3. S \in P
  <2> HIDE DEF P
  <2> QED BY <1>1, <1>2, FiniteSetInduction
<1> QED BY <1>3

(* all the shares together *)
LEMMA SumShares ==
  ASSUME NEW f, NEW g, NEW S, IsFiniteSet(S), NEW l \in Reduced, NEW s \in Reduced, s # Zero,
         \A x \in S : f[x] \in Reduced /\ g[x] = Share(l, f[x], s)
  PROVE  SumOver(g, S) = Share(l, SumOver(f, S), s)
<1> DEFINE P == {T \in SUBSET S : SumOver(g, T) = Share(l, SumOver(f, T), s)}
<1>1. {} \in P BY FS_EmptySet, SumOverDef, ShareOfAll
<1>2. ASSUME NEW T \in SUBSET S, NEW y \in S \ T, T \in P PROVE T \cup {y} \in P
  <2>1. IsFiniteSet(T) BY FS_Subset
  <2>2. \A x \in T \cup {y} : f[x] \in Ratio /\ g[x] \in Ratio BY ShareFacts, ReducedRatio
  <2>3. /\ SumOver(f, T \cup {y}) = Plus(f[y], SumOver(f, T))
        /\ SumOver(g, T \cup {y}) = Plus(g[y], SumOver(g, T))
    BY <2>1, <2>2, SumAdd
  <2>4. SumOver(f, T) \in Reduced BY <2>1, <2>2, SumType
  <2>5. f[y] \in Reduced /\ g[y] = Share(l, f[y], s) OBVIOUS
  <2>6. Share(l, Plus(f[y], SumOver(f, T)), s) = Plus(Share(l, f[y], s), Share(l, SumOver(f, T), s))
    BY <2>4, <2>5, ShareOfSum
  <2> QED BY <1>2, <2>3, <2>5, <2>6
<1>3. S \in P
  <2> HIDE DEF P
  <2> QED BY <1>1, <1>2, FiniteSetInduction
<1> QED BY <1>3

(* Zeros add up to zero. *)
LEMMA SumOfZeros ==
  ASSUME NEW f, NEW S, IsFiniteSet(S), \A x \in S : f[x] = Zero
  PROVE  SumOver(f, S) = Zero
<1> DEFINE P == {T \in SUBSET S : SumOver(f, T) = Zero}
<1>1. {} \in P BY FS_EmptySet, SumOverDef
<1>2. ASSUME NEW T \in SUBSET S, NEW y \in S \ T, T \in P PROVE T \cup {y} \in P
  <2>1. IsFiniteSet(T) BY FS_Subset
  <2>2. \A x \in T \cup {y} : f[x] \in Ratio BY ZeroAndOne, ReducedRatio
  <2>3. SumOver(f, T \cup {y}) = Plus(f[y], SumOver(f, T)) BY <2>1, <2>2, SumAdd
  <2>4. f[y] = Zero OBVIOUS
  <2> QED BY <1>2, <2>3, <2>4, PlusZero, ZeroAndOne
<1>3. S \in P
  <2> HIDE DEF P
  <2> QED BY <1>1, <1>2, FiniteSetInduction
<1> QED BY <1>3

(* Larger numbers have a larger sum, *)
LEMMA SumMonotone ==
  ASSUME NEW f, NEW g, NEW S, IsFiniteSet(S),
         \A x \in S : f[x] \in Ratio /\ g[x] \in Ratio /\ ~Less(f[x], g[x])
  PROVE  ~Less(SumOver(f, S), SumOver(g, S))
<1> DEFINE P == {T \in SUBSET S : ~Less(SumOver(f, T), SumOver(g, T))}
<1>1. {} \in P BY FS_EmptySet, SumOverDef, LessOrder, ZeroAndOne, ReducedRatio
<1>2. ASSUME NEW T \in SUBSET S, NEW y \in S \ T, T \in P PROVE T \cup {y} \in P
  <2>1. IsFiniteSet(T) BY FS_Subset
  <2>2. \A x \in T \cup {y} : f[x] \in Ratio /\ g[x] \in Ratio OBVIOUS
  <2>3. /\ SumOver(f, T \cup {y}) = Plus(f[y], SumOver(f, T))
        /\ SumOver(g, T \cup {y}) = Plus(g[y], SumOver(g, T))
    BY <2>1, <2>2, SumAdd
  <2>4. SumOver(f, T) \in Ratio /\ SumOver(g, T) \in Ratio BY <2>1, <2>2, SumType, ReducedRatio
  <2>5. f[y] \in Ratio /\ g[y] \in Ratio /\ ~Less(f[y], g[y]) OBVIOUS
  <2>6. ~Less(SumOver(f, T), SumOver(g, T)) BY <1>2
  <2> QED BY <2>3, <2>4, <2>5, <2>6, PlusMonotone
<1>3. S \in P
  <2> HIDE DEF P
  <2> QED BY <1>1, <1>2, FiniteSetInduction
<1> QED BY <1>3

(* which is not less than any of them. *)
LEMMA SumHasPart ==
  ASSUME NEW f, NEW S, IsFiniteSet(S), \A x \in S : f[x] \in Ratio, NEW y \in S
  PROVE  ~Less(SumOver(f, S), f[y])
<1>1. SumOver(f, S) = Plus(f[y], SumOver(f, S \ {y})) BY SumTake
<1>2. IsFiniteSet(S \ {y}) BY FS_RemoveElement
<1>3. SumOver(f, S \ {y}) \in Ratio BY <1>2, SumType, ReducedRatio
<1> QED BY <1>1, <1>3, LessOrder

(* What is not more than zero is zero. *)
LEMMA NotZeroAbove ==
  ASSUME NEW x \in Reduced, NEW y \in Ratio, ~Less(x, y), x = Zero, y \in Reduced
  PROVE  y = Zero
<1>1. x \in Ratio BY ReducedRatio
<1>2. PICK n \in Nat, m \in Nat, d \in Nat : d > 0 /\ IsOver(x, n, d) /\ IsOver(y, m, d)
  BY <1>1, CommonDenominator
<1>3. ~(n < m) BY <1>1, <1>2, LessOver
<1>4. n = 0 BY <1>2, ZeroOver
<1>5. m = 0 BY <1>3, <1>4
<1> QED BY <1>2, <1>5, ZeroOver

(* a sum with a part that is not zero is not zero *)
LEMMA SumNotZero ==
  ASSUME NEW f, NEW S, IsFiniteSet(S), \A x \in S : f[x] \in Reduced,
         NEW y \in S, f[y] # Zero
  PROVE  SumOver(f, S) # Zero
<1>1. \A x \in S : f[x] \in Ratio BY ReducedRatio
<1>2. SumOver(f, S) \in Reduced /\ ~Less(SumOver(f, S), f[y]) BY <1>1, SumType, SumHasPart
<1> QED BY <1>1, <1>2, NotZeroAbove

(* The sum of one number is that number. *)
LEMMA SumOfOne ==
  ASSUME NEW f, NEW x, f[x] \in Reduced
  PROVE  SumOver(f, {x}) = f[x]
<1>1. f[x] \in Ratio BY ReducedRatio
<1>2. {} \cup {x} = {x} /\ x \notin {} OBVIOUS
<1>3. SumOver(f, {} \cup {x}) = Plus(f[x], SumOver(f, {})) /\ SumOver(f, {}) = Zero
  BY <1>1, <1>2, FS_EmptySet, SumAdd
<1> QED BY <1>2, <1>3, PlusZero

(* Finitely many fractions have a largest. *)
LEMMA LargestFacts ==
  ASSUME NEW S, IsFiniteSet(S), S # {}, S \subseteq Ratio
  PROVE  Largest(S) \in S /\ \A y \in S : ~Less(Largest(S), y)
<1> DEFINE Tops(T) == {x \in T : \A y \in T : ~Less(x, y)}
           P == {T \in SUBSET S : T # {} => Tops(T) # {}}
<1>1. {} \in P OBVIOUS
<1>2. ASSUME NEW T \in SUBSET S, NEW x \in S \ T, T \in P PROVE T \cup {x} \in P
  <2>1. CASE T = {}
    <3>1. x \in Tops(T \cup {x}) BY <2>1, LessOrder
    <3> QED BY <3>1
  <2>2. CASE T # {}
    <3>1. PICK z \in Tops(T) : TRUE BY <1>2, <2>2
    <3>2. z \in T /\ \A y \in T : ~Less(z, y) BY <3>1
    <3>3. CASE ~Less(z, x)
      <4>1. z \in Tops(T \cup {x}) BY <3>2, <3>3
      <4> QED BY <4>1
    <3>4. CASE Less(z, x)
      <4>1. z \in Ratio /\ x \in Ratio BY <3>2
      <4>2. ~Less(x, z) /\ ~Less(x, x) BY <3>4, <4>1, LessOrder
      <4>3. \A y \in T : ~Less(x, y)
        <5>1. \A y \in T : y \in Ratio OBVIOUS
        <5> QED BY <3>2, <4>1, <4>2, <5>1, LessOrder
      <4>4. x \in Tops(T \cup {x}) BY <4>2, <4>3
      <4> QED BY <4>4
    <3> QED BY <3>3, <3>4
  <2> QED BY <2>1, <2>2
<1>3. S \in P
  <2> HIDE DEF P
  <2> QED BY <1>1, <1>2, FiniteSetInduction
<1> QED BY <1>3 DEF Largest

-----------------------------------------------------------------------------
(* Weights, counts and priors are fractions. *)

PowerFix(x, n, h) == h = [i \in 0..n |-> IF i = 0 THEN One ELSE Times(h[i - 1], x)]
Powers(x, n) == CHOOSE h : PowerFix(x, n, h)

(* The recursive definition in Power has a solution. *)
LEMMA PowersDef == ASSUME NEW x, NEW n \in Nat PROVE PowerFix(x, n, Powers(x, n))
<1> DEFINE S == {m \in Nat : \E h : PowerFix(x, m, h)}
<1>1. 0 \in S
  <2>1. PowerFix(x, 0, [i \in 0..0 |-> One]) BY DEF PowerFix
  <2> QED BY <2>1
<1>2. ASSUME NEW m \in Nat, m \in S PROVE m + 1 \in S
  <2>1. PICK h : PowerFix(x, m, h) BY <1>2
  <2>2. h = [i \in 0..m |-> IF i = 0 THEN One ELSE Times(h[i - 1], x)] BY <2>1 DEF PowerFix
  <2> DEFINE k == [i \in 0..(m + 1) |-> IF i = m + 1 THEN Times(h[m], x) ELSE h[i]]
  <2>3. ASSUME NEW i \in 0..(m + 1) PROVE k[i] = IF i = 0 THEN One ELSE Times(k[i - 1], x)
    <3>1. CASE i = 0
      <4>1. 0 \in 0..m /\ 0 # m + 1 OBVIOUS
      <4>2. h[0] = One BY <2>2, <4>1
      <4> QED BY <3>1, <4>1, <4>2
    <3>2. CASE i = m + 1
      <4>1. i # 0 /\ i - 1 = m /\ m \in 0..(m + 1) /\ m # m + 1 BY <3>2
      <4>2. k[i] = Times(h[m], x) /\ k[m] = h[m] BY <3>2, <4>1
      <4> QED BY <4>1, <4>2
    <3>3. CASE i # 0 /\ i # m + 1
      <4>1. /\ i \in 0..m /\ i - 1 # m + 1 /\ i - 1 \in 0..(m + 1) BY <3>3
      <4>2. h[i] = Times(h[i - 1], x) BY <2>2, <4>1, <3>3
      <4>3. k[i] = h[i] /\ k[i - 1] = h[i - 1] BY <4>1, <3>3
      <4> QED BY <4>2, <4>3, <3>3
    <3> QED BY <3>1, <3>2, <3>3
  <2>4. PowerFix(x, m + 1, k)
    <3>1. k = [i \in 0..(m + 1) |-> k[i]] OBVIOUS
    <3> HIDE DEF k
    <3> QED BY <2>3, <3>1 DEF PowerFix
  <2> HIDE DEF k
  <2> QED BY <2>4
<1>3. n \in S
  <2> HIDE DEF S
  <2> QED BY NatSetInduction, <1>1, <1>2
<1>4. \E h : PowerFix(x, n, h) BY <1>3
<1> QED BY <1>4 DEF Powers

(* Powers are fractions. *)
LEMMA PowerType == ASSUME NEW x \in Ratio, NEW n \in Nat PROVE Power(x, n) \in Ratio
<1> DEFINE p == Powers(x, n)
           S == {m \in Nat : m <= n => p[m] \in Ratio}
<1>1. p = [i \in 0..n |-> IF i = 0 THEN One ELSE Times(p[i - 1], x)]
  BY PowersDef DEF PowerFix
<1>2. Power(x, n) = p[n] BY DEF Power, Powers, PowerFix
<1> HIDE DEF p
<1>3. 0 \in S
  <2>1. p[0] = One BY <1>1
  <2> QED BY <2>1 DEF One, Ratio
<1>4. ASSUME NEW m \in Nat, m \in S PROVE m + 1 \in S
  <2>1. SUFFICES ASSUME m + 1 <= n PROVE p[m + 1] \in Ratio OBVIOUS
  <2>2. m <= n /\ m + 1 \in 0..n /\ m + 1 # 0 /\ (m + 1) - 1 = m BY <2>1
  <2>3. p[m] \in Ratio BY <1>4, <2>2
  <2>4. p[m + 1] = Times(p[m], x) BY <1>1, <2>2
  <2> QED BY <2>3, <2>4, TimesFacts
<1>5. n \in S
  <2> HIDE DEF S
  <2> QED BY NatSetInduction, <1>3, <1>4
<1> QED BY <1>2, <1>5

(* update: products along chains are fractions. *)
LEMMA UpdateType ==
  ASSUME NEW w \in [Params -> Ratio] PROVE Update(w) \in [Composed -> Ratio]
<1>1. ASSUME NEW c \in Composed
      PROVE  ProductOver([a \in Params |-> Power(w[a], Chain[c][a])], Params) \in Ratio
  <2> DEFINE f == [a \in Params |-> Power(w[a], Chain[c][a])]
  <2>1. ASSUME NEW a \in Params PROVE f[a] \in Ratio
    <3>1. w[a] \in Ratio /\ Chain[c][a] \in Nat BY ChainAssumption
    <3>2. f[a] = Power(w[a], Chain[c][a]) OBVIOUS
    <3> QED BY <3>1, <3>2, PowerType
  <2> HIDE DEF f
  <2>2. ProductOver(f, Params) \in Ratio BY <2>1, ProductType, FiniteAssumption
  <2> QED BY <2>2 DEF f
<1> QED BY <1>1 DEF Update

(* all that is counted on the composed arcs a is part of *)
CountFor(a, counts) == SumOver([c \in Composed |-> Multiple(Chain[c][a], counts[c])], Composed)

(* What is counted for an arc is a fraction. *)
LEMMA CountForType ==
  ASSUME NEW counts \in [Composed -> Ratio], NEW a \in Params
  PROVE  CountFor(a, counts) \in Ratio
<1> DEFINE f == [c \in Composed |-> Multiple(Chain[c][a], counts[c])]
<1>1. ASSUME NEW c \in Composed PROVE f[c] \in Ratio
  <2>1. counts[c] \in Ratio /\ Chain[c][a] \in Nat BY ChainAssumption
  <2>2. <<Chain[c][a], 1>> \in Ratio BY <2>1 DEF Ratio
  <2>3. f[c] = Times(<<Chain[c][a], 1>>, counts[c]) BY DEF Multiple
  <2> QED BY <2>1, <2>2, <2>3, TimesFacts
<1> HIDE DEF f
<1>2. SumOver(f, Composed) \in Ratio BY <1>1, SumType, ReducedRatio, FiniteAssumption
<1> QED BY <1>2 DEF CountFor, f

(* distribute_counts: locked arcs keep their weights, the others get what is counted. *)
LEMMA DistributedType ==
  ASSUME NEW w \in [Params -> Ratio], NEW counts \in [Composed -> Ratio]
  PROVE  /\ Distributed(w, counts) \in [Params -> Ratio]
         /\ \A a \in Params : ~IsLocked(a) => Distributed(w, counts)[a] = CountFor(a, counts)
<1>1. Distributed(w, counts) = [a \in Params |-> IF IsLocked(a) THEN w[a] ELSE CountFor(a, counts)]
  BY DEF Distributed, CountFor
<1>2. \A a \in Params : w[a] \in Ratio /\ CountFor(a, counts) \in Ratio BY CountForType
<1> QED BY <1>1, <1>2

(* Priors are fractions. *)
LEMMA OptionsType ==
  ASSUME opt \in Options
  PROVE  /\ opt.smooth \in Ratio
         /\ \A a \in Params : opt.methods[ArcOf[a].machine].add_count \in Ratio
<1>1. opt \in OptionType BY CascadeOptionAssumption
<1>2. opt.smooth \in Ratio BY <1>1 DEF OptionType
<1>3. opt.methods \in [{ArcOf[a].machine : a \in Params} -> Methods] BY <1>1 DEF OptionType
<1>4. ASSUME NEW a \in Params PROVE opt.methods[ArcOf[a].machine] \in Methods BY <1>3
<1> QED BY <1>2, <1>4 DEF Methods

(* Sums with them are fractions in lowest terms. *)
LEMMA SmoothedType ==
  ASSUME opt \in Options, NEW w \in [Params -> Ratio]
  PROVE  Smoothed(w, opt.methods) \in [Params -> Reduced]
<1>1. ASSUME NEW a \in Params
      PROVE  Plus(w[a], opt.methods[ArcOf[a].machine].add_count) \in Reduced
  BY OptionsType, PlusFacts
<1> QED BY <1>1 DEF Smoothed

-----------------------------------------------------------------------------
(* What normalize makes of the arcs of a group, from the counts s. *)

(* Normalization groups and tie groups are finite, and part the arcs. *)
LEMMA GroupFacts ==
  ASSUME NEW a \in Params, NEW g
  PROVE  /\ a \in NormGroup(a, g) /\ NormGroup(a, g) \subseteq Params
         /\ IsFiniteSet(NormGroup(a, g))
         /\ \A b \in NormGroup(a, g) : /\ NormGroup(b, g) = NormGroup(a, g)
                                       /\ ArcOf[b].machine = ArcOf[a].machine
         /\ a \in TieGroup(a) /\ TieGroup(a) \subseteq Params /\ IsFiniteSet(TieGroup(a))
<1>1. a \in NormGroup(a, g) /\ NormGroup(a, g) \subseteq Params
  BY DEF NormGroup, MachineArcs
<1>2. a \in TieGroup(a) /\ TieGroup(a) \subseteq Params
  BY DEF TieGroup, MachineArcs
<1>3. IsFiniteSet(NormGroup(a, g)) /\ IsFiniteSet(TieGroup(a))
  BY <1>1, <1>2, FS_Subset, FiniteAssumption
<1>4. ASSUME NEW b \in NormGroup(a, g)
      PROVE  NormGroup(b, g) = NormGroup(a, g) /\ ArcOf[b].machine = ArcOf[a].machine
  BY <1>4 DEF NormGroup, MachineArcs
<1> QED BY <1>1, <1>2, <1>3, <1>4

LockedOf(a, g) == {b \in NormGroup(a, g) : IsLocked(b)}
NormalOf(a, g) == {b \in NormGroup(a, g) : IsNormal(b)}
ReservedOf(a, g) == {b \in NormGroup(a, g) : ~IsNormal(b)}

(* The arcs of a group that are of one kind have a sum. *)
LEMMA PartFacts ==
  ASSUME NEW s \in [Params -> Reduced], NEW a \in Params, NEW g,
         NEW S, S \subseteq NormGroup(a, g)
  PROVE  IsFiniteSet(S) /\ S \subseteq Params /\ SumOver(s, S) \in Reduced
<1>1. IsFiniteSet(S) /\ S \subseteq Params BY GroupFacts, FS_Subset
<1>2. \A x \in S : s[x] \in Ratio BY <1>1, ReducedRatio
<1> QED BY <1>1, <1>2, SumType

(* So do the locked ones; *)
LEMMA LockedSumType ==
  ASSUME NEW s \in [Params -> Reduced], NEW a \in Params, NEW g
  PROVE  LockedSum(s, a, g) = SumOver(s, LockedOf(a, g)) /\ LockedSum(s, a, g) \in Reduced
<1>1. LockedSum(s, a, g) = SumOver(s, LockedOf(a, g)) BY DEF LockedSum, LockedOf
<1>2. LockedOf(a, g) \subseteq NormGroup(a, g) BY DEF LockedOf
<1> QED BY <1>1, <1>2, PartFacts

(* and that of the others is not less than any of them. *)
LEMMA FreeSumHas ==
  ASSUME NEW s \in [Params -> Reduced], NEW a \in Params, NEW g, ~IsLocked(a)
  PROVE  FreeSum(s, a, g) \in Reduced /\ ~Less(FreeSum(s, a, g), s[a])
<1> DEFINE S == {b \in NormGroup(a, g) : ~IsLocked(b)}
<1>1. FreeSum(s, a, g) = SumOver(s, S) BY DEF FreeSum
<1>2. S \subseteq NormGroup(a, g) OBVIOUS
<1>3. a \in S BY GroupFacts
<1> HIDE DEF S
<1>4. IsFiniteSet(S) /\ S \subseteq Params /\ SumOver(s, S) \in Reduced BY <1>2, PartFacts
<1>5. \A x \in S : s[x] \in Ratio BY <1>4, ReducedRatio
<1>6. ~Less(SumOver(s, S), s[a]) BY <1>3, <1>4, <1>5, SumHasPart
<1> QED BY <1>1, <1>4, <1>6

(* Tied arcs get a weight that leaves room for the locked arcs of their groups. *)
LEMMA TiedWeightFacts ==
  ASSUME NEW s \in [Params -> Reduced], NEW a \in Params, NEW g, IsTied(a)
  PROVE  /\ TiedWeight(s, a, g) \in Reduced
         /\ ~Less(One, LockedSum(s, a, g))
              => ~Less(One, Plus(LockedSum(s, a, g), TiedWeight(s, a, g)))
<1> DEFINE T == TieGroup(a)
           L == {LockedSum(s, b, g) : b \in T}
           F == [b \in T |-> FreeSum(s, b, g)]
<1>1. T \subseteq Params /\ IsFiniteSet(T) /\ a \in T BY GroupFacts
<1>2. \A b \in T : ~IsLocked(b)
  BY DEF TieGroup, IsTied, IsLocked
<1>3. PICK max : max = Largest(L) OBVIOUS
<1>4. PICK arcs : arcs = SumOver(s, T) OBVIOUS
<1>5. PICK groups : groups = SumOver(F, T) OBVIOUS
<1>6. PICK locked : locked = LockedSum(s, a, g) OBVIOUS
<1>7. PICK tied : tied = TiedWeight(s, a, g) OBVIOUS
<1>8. tied = IF Less(max, One) /\ arcs # Zero
             THEN Times(Over(arcs, groups), Minus(One, max)) ELSE Zero
  BY <1>3, <1>4, <1>5, <1>7 DEF TiedWeight
<1>9. locked \in Reduced BY <1>6, LockedSumType
<1>10. max \in Reduced /\ ~Less(max, locked)
  <2>1. L \subseteq Reduced
    <3>1. \A b \in T : LockedSum(s, b, g) \in Reduced
      BY <1>1, LockedSumType
    <3> QED BY <3>1
  <2>2. locked \in L BY <1>1, <1>6
  <2>3. IsFiniteSet(L)
    <3> DEFINE K == [b \in T |-> LockedSum(s, b, g)]
    <3>1. K \in Surjection(T, L) BY DEF Surjection
    <3> HIDE DEF K, L, T
    <3> QED BY <1>1, <3>1, FS_Surjection
  <2> HIDE DEF L
  <2>4. L \subseteq Ratio /\ L # {} BY <2>1, <2>2, ReducedRatio
  <2>5. max \in L /\ \A y \in L : ~Less(max, y) BY <1>3, <2>3, <2>4, LargestFacts
  <2> QED BY <2>1, <2>2, <2>5
<1>11. arcs \in Reduced /\ groups \in Reduced /\ ~Less(groups, arcs)
  <2>1. ASSUME NEW b \in T
        PROVE  /\ s[b] \in Ratio /\ F[b] \in Ratio /\ ~Less(F[b], s[b])
    <3>1. b \in Params /\ ~IsLocked(b) BY <1>1, <1>2
    <3>2. FreeSum(s, b, g) \in Reduced /\ ~Less(FreeSum(s, b, g), s[b])
      BY <3>1, FreeSumHas
    <3>3. F[b] = FreeSum(s, b, g) OBVIOUS
    <3> HIDE DEF F
    <3> QED BY <3>1, <3>2, <3>3, ReducedRatio
  <2> HIDE DEF F, T
  <2>2. SumOver(s, T) \in Reduced BY <1>1, <2>1, SumType
  <2>3. SumOver(F, T) \in Reduced BY <1>1, <2>1, SumType
  <2>4. ~Less(SumOver(F, T), SumOver(s, T)) BY <1>1, <2>1, SumMonotone
  <2> QED BY <1>4, <1>5, <2>2, <2>3, <2>4
<1> HIDE DEF T, L, F
<1>12. Zero \in Reduced /\ One \in Reduced BY ZeroAndOne
<1>13. \A x \in Reduced : x \in Ratio BY ReducedRatio
<1>14. CASE Less(max, One) /\ arcs # Zero
  <2>1. groups # Zero BY <1>11, <1>13, <1>14, NotZeroAbove
  <2>2. PICK room : room = Minus(One, max) OBVIOUS
  <2>3. PICK need : need = Minus(One, locked) OBVIOUS
  <2>4. room \in Reduced /\ need \in Reduced
    BY <1>9, <1>10, <1>12, <1>13, <2>2, <2>3, MinusFacts
  <2>5. tied = Times(Over(arcs, groups), room) BY <1>8, <1>14, <2>2
  <2>6. tied \in Reduced /\ ~Less(room, tied)
    BY <1>11, <2>1, <2>4, <2>5, PartOf
  <2>7. ~Less(need, room) BY <1>9, <1>10, <1>12, <1>13, <2>2, <2>3, MinusMonotone
  <2>8. ~Less(need, tied) BY <1>13, <2>4, <2>6, <2>7, LessOrder
  <2>9. ASSUME ~Less(One, locked) PROVE ~Less(One, Plus(locked, tied))
    <3>1. Plus(locked, need) = One BY <1>9, <1>12, <1>13, <2>3, <2>9, PlusMinus
    <3>2. ~Less(locked, locked) BY <1>9, <1>13, LessOrder
    <3>3. ~Less(Plus(locked, need), Plus(locked, tied))
      BY <1>9, <1>13, <2>4, <2>6, <2>8, <3>2, PlusMonotone
    <3> QED BY <3>1, <3>3
  <2> QED BY <1>6, <1>7, <2>6, <2>9
<1>15. CASE ~(Less(max, One) /\ arcs # Zero)
  <2>1. tied = Zero BY <1>8, <1>15
  <2>2. Plus(locked, Zero) = locked BY <1>9, PlusZero
  <2> QED BY <1>6, <1>7, <1>12, <2>1, <2>2
<1> QED BY <1>14, <1>15

(* What the tied and locked arcs of a's group take of it. *)
Taken(s, a, g) ==
  SumOver([b \in ReservedOf(a, g) |-> IF IsTied(b) THEN TiedWeight(s, b, g) ELSE s[b]],
          ReservedOf(a, g))
NormalSum(s, a, g) == SumOver(s, NormalOf(a, g))

(* A normal arc gets its share of what remains; the arcs of its group share the same. *)
LEMMA NormalWeightIs ==
  ASSUME NEW s \in [Params -> Reduced], NEW a \in Params, NEW g
  PROVE  /\ Remaining(s, a, g) = Minus(One, Taken(s, a, g))
         /\ NormalWeight(s, a, g) =
              IF Remaining(s, a, g) # Zero /\ NormalSum(s, a, g) # Zero
              THEN Share(Remaining(s, a, g), s[a], NormalSum(s, a, g)) ELSE Zero
         /\ \A b \in NormGroup(a, g) : /\ Remaining(s, b, g) = Remaining(s, a, g)
                                       /\ NormalSum(s, b, g) = NormalSum(s, a, g)
<1>1. Remaining(s, a, g) = Minus(One, Taken(s, a, g))
  BY DEF Remaining, Taken, ReservedOf
<1>2. NormalWeight(s, a, g) =
        IF Remaining(s, a, g) # Zero /\ NormalSum(s, a, g) # Zero
        THEN Share(Remaining(s, a, g), s[a], NormalSum(s, a, g)) ELSE Zero
  BY DEF NormalWeight, NormalSum, NormalOf, Share
<1>3. ASSUME NEW b \in NormGroup(a, g)
      PROVE  /\ Remaining(s, b, g) = Remaining(s, a, g)
             /\ NormalSum(s, b, g) = NormalSum(s, a, g)
  <2>1. NormGroup(b, g) = NormGroup(a, g) BY GroupFacts
  <2> QED BY <2>1 DEF Remaining, NormalSum, NormalOf
<1> QED BY <1>1, <1>2, <1>3

(* What is taken, and what remains, are fractions, *)
LEMMA TakenType ==
  ASSUME NEW s \in [Params -> Reduced], NEW a \in Params, NEW g
  PROVE  Taken(s, a, g) \in Reduced /\ Remaining(s, a, g) \in Reduced
<1> DEFINE R == ReservedOf(a, g)
           F == [b \in R |-> IF IsTied(b) THEN TiedWeight(s, b, g) ELSE s[b]]
<1>1. R \subseteq NormGroup(a, g) BY DEF ReservedOf
<1>2. IsFiniteSet(R) /\ R \subseteq Params BY <1>1, PartFacts
<1>3. ASSUME NEW b \in R PROVE F[b] \in Ratio
  <2>1. b \in Params BY <1>2
  <2>2. CASE IsTied(b)
    <3>1. TiedWeight(s, b, g) \in Reduced BY <2>1, <2>2, TiedWeightFacts
    <3> QED BY <2>2, <3>1, ReducedRatio
  <2>3. CASE ~IsTied(b)
    <3>1. F[b] = s[b] BY <2>3
    <3> QED BY <2>1, <3>1, ReducedRatio
  <2> QED BY <2>2, <2>3
<1>4. Taken(s, a, g) = SumOver(F, R) BY DEF Taken
<1> HIDE DEF R, F
<1>5. Taken(s, a, g) \in Reduced BY <1>2, <1>3, <1>4, SumType
<1>6. Remaining(s, a, g) = Minus(One, Taken(s, a, g)) BY NormalWeightIs
<1>7. Minus(One, Taken(s, a, g)) \in Reduced BY <1>5, ZeroAndOne, ReducedRatio, MinusFacts
<1> QED BY <1>5, <1>6, <1>7

(* as is what was counted for the normal arcs. *)
LEMMA NormalSumType ==
  ASSUME NEW s \in [Params -> Reduced], NEW a \in Params, NEW g
  PROVE  NormalSum(s, a, g) \in Reduced
<1>1. NormalOf(a, g) \subseteq NormGroup(a, g) BY DEF NormalOf
<1> QED BY <1>1, PartFacts DEF NormalSum

(* normalize makes fractions in lowest terms. *)
LEMMA NewWeightType ==
  ASSUME NEW s \in [Params -> Reduced], NEW a \in Params, NEW g
  PROVE  NewWeight(s, a, g) \in Reduced
<1>1. CASE IsLocked(a) BY <1>1 DEF NewWeight
<1>2. CASE ~IsLocked(a) /\ IsTied(a) BY <1>2, TiedWeightFacts DEF NewWeight
<1>3. CASE ~IsLocked(a) /\ ~IsTied(a)
  <2>1. NewWeight(s, a, g) = NormalWeight(s, a, g) BY <1>3 DEF NewWeight
  <2>2. PICK left : left = Remaining(s, a, g) OBVIOUS
  <2>3. PICK sum : sum = NormalSum(s, a, g) OBVIOUS
  <2>4. left \in Reduced /\ sum \in Reduced BY <2>2, <2>3, TakenType, NormalSumType
  <2>5. NormalWeight(s, a, g) =
          IF left # Zero /\ sum # Zero THEN Share(left, s[a], sum) ELSE Zero
    BY <2>2, <2>3, NormalWeightIs
  <2>6. CASE left # Zero /\ sum # Zero
    <3>1. Share(left, s[a], sum) \in Reduced BY <2>4, <2>6, ShareFacts
    <3> QED BY <2>1, <2>5, <2>6, <3>1
  <2>7. CASE ~(left # Zero /\ sum # Zero) BY <2>1, <2>5, <2>7, ZeroAndOne
  <2> QED BY <2>6, <2>7
<1> QED BY <1>1, <1>2, <1>3

(* Normal arcs of a group share it as they were counted. *)
LEMMA NewInProportion ==
  ASSUME NEW s \in [Params -> Reduced], NEW a \in Params, NEW g, IsNormal(a),
         NEW b \in NormGroup(a, g), IsNormal(b)
  PROVE  Times(NewWeight(s, a, g), s[b]) = Times(NewWeight(s, b, g), s[a])
<1>1. b \in Params BY GroupFacts
<1>2. /\ NewWeight(s, a, g) = NormalWeight(s, a, g)
      /\ NewWeight(s, b, g) = NormalWeight(s, b, g)
  BY DEF NewWeight, IsLocked, IsNormal, IsTied, LockedGroup, NoGroup
<1>3. PICK left : left = Remaining(s, a, g) OBVIOUS
<1>4. PICK sum : sum = NormalSum(s, a, g) OBVIOUS
<1>5. left \in Reduced /\ sum \in Reduced BY <1>3, <1>4, TakenType, NormalSumType
<1>6. NormalWeight(s, a, g) =
        IF left # Zero /\ sum # Zero THEN Share(left, s[a], sum) ELSE Zero
  BY <1>3, <1>4, NormalWeightIs
<1>7. NormalWeight(s, b, g) =
        IF left # Zero /\ sum # Zero THEN Share(left, s[b], sum) ELSE Zero
  BY <1>1, <1>3, <1>4, NormalWeightIs
<1>8. s[a] \in Reduced /\ s[b] \in Reduced BY <1>1
<1>9. CASE left # Zero /\ sum # Zero
  BY <1>2, <1>5, <1>6, <1>7, <1>8, <1>9, SharesInProportion
<1>10. CASE ~(left # Zero /\ sum # Zero)
  <2>1. Times(Zero, s[a]) = Zero /\ Times(Zero, s[b]) = Zero
    BY <1>8, ReducedRatio, ZeroTimes
  <2> QED BY <1>2, <1>6, <1>7, <1>10, <2>1
<1> QED BY <1>9, <1>10

(* What a group sums to: all there is if its normal arcs get any of it, and
   otherwise what its tied and locked arcs have taken. *)
LEMMA GroupTotal ==
  ASSUME NEW s \in [Params -> Reduced], NEW a \in Params, NEW g, NEW u,
         \A b \in NormGroup(a, g) : u[b] = NewWeight(s, b, g)
  PROVE  SumOver(u, NormGroup(a, g)) =
           IF Remaining(s, a, g) # Zero /\ NormalSum(s, a, g) # Zero
           THEN One ELSE Taken(s, a, g)
<1> DEFINE G == NormGroup(a, g)
           R == ReservedOf(a, g)
           M == NormalOf(a, g)
           F == [b \in R |-> IF IsTied(b) THEN TiedWeight(s, b, g) ELSE s[b]]
<1>1. G \subseteq Params /\ R \subseteq G /\ M \subseteq G /\ G = R \cup M /\ R \cap M = {}
  BY GroupFacts DEF ReservedOf, NormalOf
<1>2. IsFiniteSet(R) /\ IsFiniteSet(M) BY <1>1, PartFacts
<1>3. ASSUME NEW b \in G PROVE b \in Params /\ u[b] \in Reduced /\ u[b] \in Ratio
  <2>1. b \in Params BY <1>1
  <2>2. NewWeight(s, b, g) \in Reduced BY <2>1, NewWeightType
  <2> QED BY <2>1, <2>2, ReducedRatio
<1>4. ASSUME NEW b \in R PROVE F[b] = u[b]
  <2>1. ~IsNormal(b) /\ b \in NormGroup(a, g) BY DEF ReservedOf
  <2>2. u[b] = NewWeight(s, b, g) BY <2>1
  <2>3. NewWeight(s, b, g) = IF IsTied(b) THEN TiedWeight(s, b, g) ELSE s[b]
    BY <2>1 DEF NewWeight, IsTied
  <2> QED BY <2>2, <2>3
<1>5. Taken(s, a, g) = SumOver(F, R) BY DEF Taken
<1>6. PICK left : left = Remaining(s, a, g) OBVIOUS
<1>7. PICK sum : sum = NormalSum(s, a, g) OBVIOUS
<1>8. PICK taken : taken = Taken(s, a, g) OBVIOUS
<1>9. left \in Reduced /\ sum \in Reduced /\ taken \in Reduced
  BY <1>6, <1>7, <1>8, TakenType, NormalSumType
<1>10. ASSUME NEW b \in M
       PROVE  u[b] = IF left # Zero /\ sum # Zero THEN Share(left, s[b], sum) ELSE Zero
  <2>1. b \in NormGroup(a, g) /\ IsNormal(b) BY DEF NormalOf
  <2>2. b \in Params BY <2>1, GroupFacts
  <2>3. u[b] = NewWeight(s, b, g) BY <2>1
  <2>4. NewWeight(s, b, g) = NormalWeight(s, b, g)
    BY <2>1 DEF NewWeight, IsLocked, IsNormal, IsTied, LockedGroup, NoGroup
  <2>5. Remaining(s, b, g) = left /\ NormalSum(s, b, g) = sum
    BY <1>6, <1>7, <2>1, NormalWeightIs
  <2>6. NormalWeight(s, b, g) =
          IF Remaining(s, b, g) # Zero /\ NormalSum(s, b, g) # Zero
          THEN Share(Remaining(s, b, g), s[b], NormalSum(s, b, g)) ELSE Zero
    BY <2>2, NormalWeightIs
  <2> QED BY <2>3, <2>4, <2>5, <2>6
<1>11. left = Minus(One, taken) BY <1>6, <1>8, NormalWeightIs
<1>12. sum = SumOver(s, M) BY <1>7 DEF NormalSum
<1>13. SumOver(u, G) = Plus(SumOver(u, R), SumOver(u, M))
  <2> HIDE DEF G, R, M
  <2>1. \A x \in R \cup M : u[x] \in Ratio BY <1>1, <1>3
  <2>2. SumOver(u, R \cup M) = Plus(SumOver(u, R), SumOver(u, M))
    BY <1>1, <1>2, <2>1, SumSplit
  <2> QED BY <1>1, <2>2
<1>14. SumOver(u, R) = taken
  <2> HIDE DEF G, R, M, F
  <2>1. \A x \in R : u[x] \in Ratio /\ F[x] = u[x] BY <1>1, <1>3, <1>4
  <2>2. SumOver(F, R) = SumOver(u, R) BY <1>2, <2>1, SumSame
  <2> QED BY <1>5, <1>8, <2>2
<1> HIDE DEF G, R, M, F
<1>15. \A x \in M : s[x] \in Reduced BY <1>1
<1>16. ASSUME left # Zero, sum # Zero PROVE SumOver(u, G) = One
  <2>1. \A x \in M : s[x] \in Reduced /\ u[x] = Share(left, s[x], sum)
    BY <1>10, <1>15, <1>16
  <2>2. SumOver(u, M) = Share(left, SumOver(s, M), sum)
    BY <1>2, <1>9, <1>16, <2>1, SumShares
  <2>3. SumOver(u, M) = left BY <1>9, <1>12, <1>16, <2>2, ShareOfAll
  <2>4. ~Less(One, taken) BY <1>9, <1>11, <1>16, ZeroAndOne, ReducedRatio, MinusFacts
  <2>5. Plus(taken, left) = One BY <1>9, <1>11, <2>4, ZeroAndOne, ReducedRatio, PlusMinus
  <2> QED BY <1>13, <1>14, <2>3, <2>5
<1>17. ASSUME ~(left # Zero /\ sum # Zero) PROVE SumOver(u, G) = taken
  <2>1. \A x \in M : u[x] = Zero BY <1>10, <1>17
  <2>2. SumOver(u, M) = Zero BY <1>2, <2>1, SumOfZeros
  <2> QED BY <1>9, <1>13, <1>14, <2>2, PlusZero
<1> QED BY <1>6, <1>7, <1>8, <1>16, <1>17 DEF G

(* With at most one tied arc in it, normalize makes room for the locked arcs. *)
LEMMA TakenLeavesRoom ==
  ASSUME NEW s \in [Params -> Reduced], NEW a \in Params, NEW g,
         \A x, y \in NormGroup(a, g) : IsTied(x) /\ IsTied(y) => x = y,
         ~Less(One, LockedSum(s, a, g))
  PROVE  ~Less(One, Taken(s, a, g))
<1> DEFINE R == ReservedOf(a, g)
           K == LockedOf(a, g)
           F == [b \in R |-> IF IsTied(b) THEN TiedWeight(s, b, g) ELSE s[b]]
<1>1. Taken(s, a, g) = SumOver(F, R) BY DEF Taken
<1>2. PICK locked : locked = LockedSum(s, a, g) OBVIOUS
<1>3. locked = SumOver(s, K) /\ locked \in Reduced BY <1>2, LockedSumType
<1>4. K \subseteq NormGroup(a, g) /\ R \subseteq NormGroup(a, g) BY DEF LockedOf, ReservedOf
<1>5. IsFiniteSet(K) /\ K \subseteq Params /\ IsFiniteSet(R) /\ R \subseteq Params
  BY <1>4, PartFacts
<1>6. \A b \in K : ~IsTied(b) /\ b \in R
  BY DEF LockedOf, ReservedOf, IsTied, IsLocked, IsNormal, LockedGroup, NoGroup
<1>7. \A b \in R : b \in K \/ IsTied(b)
  BY DEF LockedOf, ReservedOf, IsTied
<1>8. \A b \in K : F[b] = s[b] /\ s[b] \in Ratio
  <2>1. ASSUME NEW b \in K PROVE F[b] = s[b] /\ s[b] \in Ratio
    <3>1. b \in R /\ ~IsTied(b) /\ b \in Params BY <1>5, <1>6
    <3>2. F[b] = s[b] BY <3>1
    <3> QED BY <3>1, <3>2, ReducedRatio
  <2> QED BY <2>1
<1>9. SumOver(F, K) = locked
  <2> HIDE DEF F, K, R
  <2> QED BY <1>3, <1>5, <1>8, SumSame
<1>10. CASE \A b \in R : ~IsTied(b)
  <2>1. R = K BY <1>6, <1>7, <1>10
  <2> QED BY <1>1, <1>2, <1>9, <2>1
<1>11. CASE \E b \in R : IsTied(b)
  <2>1. PICK t \in R : IsTied(t) BY <1>11
  <2>2. t \in NormGroup(a, g) /\ t \in Params BY <1>4, <1>5
  <2>3. t \notin K BY <1>6, <2>1
  <2>4. R = K \cup {t}
    <3>1. \A b \in R : b \in K \/ b = t BY <1>4, <1>7, <2>1
    <3> QED BY <1>6, <2>1, <3>1
  <2>5. PICK tied : tied = TiedWeight(s, t, g) OBVIOUS
  <2>6. F[t] = tied BY <2>1, <2>5
  <2>7. LockedSum(s, t, g) = locked
    <3>1. NormGroup(t, g) = NormGroup(a, g) BY <2>2, GroupFacts
    <3> QED BY <1>2, <3>1 DEF LockedSum
  <2>8. tied \in Reduced /\ ~Less(One, Plus(locked, tied))
    BY <1>2, <2>1, <2>2, <2>5, <2>7, TiedWeightFacts
  <2> HIDE DEF F, K, R
  <2>9. SumOver(F, K \cup {t}) = Plus(tied, locked)
    <3>1. tied \in Ratio BY <2>8, ReducedRatio
    <3>2. \A x \in K \cup {t} : F[x] \in Ratio
      BY <1>8, <2>6, <3>1
    <3> QED BY <1>5, <1>9, <2>3, <2>6, <3>2, SumAdd
  <2>10. Plus(tied, locked) = Plus(locked, tied) BY <1>3, <2>8, ReducedRatio, PlusCommutes
  <2> QED BY <1>1, <2>4, <2>8, <2>9, <2>10
<1> QED BY <1>10, <1>11

-----------------------------------------------------------------------------
(* Between the first normalization and what -M 0 leaves, weights are what
   normalize made of some counts: of the evidence, once there is any. *)
Fractions ==
  /\ weight \in [Params -> Ratio]
  /\ composed \in [Composed -> Ratio]
  /\ prior_counts \in [Composed -> Ratio]
  /\ em_weight \in [Composed -> Ratio]
  /\ best_weight \in [Composed -> Ratio]
  /\ pc = "enter" => evidence = NoEvidence

GroupOf(a) == opt.methods[ArcOf[a].machine].group
TrainedFrom(u, s) == \A a \in Params : ~IsNone(a) => u[a] = NewWeight(s, a, GroupOf(a))
EvidenceIn(a, counts) == Plus(CountFor(a, counts), opt.methods[ArcOf[a].machine].add_count)
AsCounted(s, counts) == \A a \in Params : Trained(a) => s[a] = EvidenceIn(a, counts)

Normalized ==
  Normalizing => \E s \in [Params -> Reduced] :
                   TrainedFrom(weight, s) /\ (evidence # NoEvidence => AsCounted(s, evidence))

NormalInv == opt \in Options /\ Fractions /\ Normalized

(* normalize makes its weights of the smoothed ones. *)
LEMMA NormalizeFractions ==
  ASSUME opt \in Options, NEW w \in [Params -> Ratio]
  PROVE  /\ Normalize(w, opt.methods) \in [Params -> Ratio]
         /\ TrainedFrom(Normalize(w, opt.methods), Smoothed(w, opt.methods))
<1>1. PICK s \in [Params -> Reduced] : s = Smoothed(w, opt.methods) BY SmoothedType
<1>2. Normalize(w, opt.methods) =
        [a \in Params |-> IF IsNone(a) THEN w[a] ELSE NewWeight(s, a, GroupOf(a))]
  BY <1>1 DEF Normalize, IsNone, GroupOf
<1>3. ASSUME NEW a \in Params
      PROVE  (IF IsNone(a) THEN w[a] ELSE NewWeight(s, a, GroupOf(a))) \in Ratio
  <2>1. NewWeight(s, a, GroupOf(a)) \in Ratio BY NewWeightType, ReducedRatio
  <2>2. w[a] \in Ratio OBVIOUS
  <2> QED BY <2>1, <2>2
<1>4. Normalize(w, opt.methods) \in [Params -> Ratio] BY <1>2, <1>3
<1>5. TrainedFrom(Normalize(w, opt.methods), s) BY <1>2 DEF TrainedFrom
<1> QED BY <1>1, <1>4, <1>5

(* use_counts makes them of the counts. *)
LEMMA UseCountsFractions ==
  ASSUME opt \in Options, NEW w \in [Params -> Ratio], NEW counts \in [Composed -> Ratio]
  PROVE  /\ UseCounts(w, counts) \in [Params -> Ratio]
         /\ \E s \in [Params -> Reduced] :
              TrainedFrom(UseCounts(w, counts), s) /\ AsCounted(s, counts)
<1>1. PICK d \in [Params -> Ratio] :
        /\ d = Distributed(w, counts)
        /\ \A a \in Params : ~IsLocked(a) => d[a] = CountFor(a, counts)
  BY DistributedType
<1>2. PICK s \in [Params -> Reduced] : s = Smoothed(d, opt.methods) BY SmoothedType
<1>3. PICK v \in [Params -> Ratio] : v = Normalize(d, opt.methods) /\ TrainedFrom(v, s)
  BY <1>2, NormalizeFractions
<1>4. UseCounts(w, counts) = [a \in Params |-> IF IsNone(a) THEN w[a] ELSE v[a]]
  BY <1>1, <1>3 DEF UseCounts
<1>5. UseCounts(w, counts) \in [Params -> Ratio] BY <1>4
<1>6. TrainedFrom(UseCounts(w, counts), s) BY <1>3, <1>4 DEF TrainedFrom
<1>7. AsCounted(s, counts)
  <2>1. ASSUME NEW a \in Params, Trained(a) PROVE s[a] = EvidenceIn(a, counts)
    <3>1. s[a] = Plus(d[a], opt.methods[ArcOf[a].machine].add_count) BY <1>2 DEF Smoothed
    <3>2. d[a] = CountFor(a, counts) BY <1>1, <2>1 DEF Trained
    <3> QED BY <3>1, <3>2 DEF EvidenceIn
  <2> QED BY <2>1 DEF AsCounted
<1> QED BY <1>5, <1>6, <1>7

(* prep_new_weights: counts with priors are fractions. *)
LEMMA CountedType ==
  ASSUME Fractions, NEW old \in [Composed -> Ratio], NEW counts \in [Composed -> Ratio]
  PROVE  Counted(old, counts) \in [Composed -> Ratio]
<1>1. ASSUME NEW c \in Composed PROVE Plus(counts[c], prior_counts[c]) \in Ratio
  <2>1. counts[c] \in Ratio /\ prior_counts[c] \in Ratio BY DEF Fractions
  <2> QED BY <2>1, PlusFacts, ReducedRatio
<1> QED BY <1>1 DEF Counted

(* No counts at all are counts. *)
LEMMA NoEvidenceType == NoEvidence \in [Composed -> Ratio]
BY DEF NoEvidence, Zero, Ratio

(* Before the first normalization nothing is normalized. *)
LEMMA NormalInit == Init => NormalInv
<1> SUFFICES ASSUME Init PROVE NormalInv OBVIOUS
<1>1. Weight0 \in [Params -> Ratio] BY Weight0Assumption
<1>2. Update(Weight0) \in [Composed -> Ratio] BY <1>1, UpdateType
<1>3. Fractions BY <1>1, <1>2, NoEvidenceType DEF Init, Fractions
<1>4. Normalized BY DEF Init, Normalized, Normalizing
<1> QED BY <1>3, <1>4 DEF Init, NormalInv

(* The options do not change. *)
LEMMA NormalizedNext ==
  ASSUME opt' = opt, NEW s \in [Params -> Reduced], TrainedFrom(weight', s),
         evidence' # NoEvidence => AsCounted(s, evidence')
  PROVE  Normalized'
<1>1. (TrainedFrom(weight, s))' BY DEF TrainedFrom, IsNone, GroupOf
<1>2. evidence' # NoEvidence => (AsCounted(s, evidence))'
  BY DEF AsCounted, EvidenceIn, Trained, IsNone
<1> QED BY <1>1, <1>2 DEF Normalized

(* Weights and evidence left alone stay normalized. *)
LEMMA NormalizedSame ==
  ASSUME opt' = opt, weight' = weight, evidence' = evidence, Normalized, Normalizing
  PROVE  Normalized'
<1>1. PICK s \in [Params -> Reduced] :
        TrainedFrom(weight, s) /\ (evidence # NoEvidence => AsCounted(s, evidence))
  BY DEF Normalized
<1> QED BY <1>1, NormalizedNext

(* normalize is applied to weights that nothing was counted for *)
LEMMA NormalizedAnew ==
  ASSUME opt' = opt, opt \in Options, NEW w \in [Params -> Ratio],
         weight' = Normalize(w, opt.methods), evidence' = NoEvidence
  PROVE  weight' \in [Params -> Ratio] /\ Normalized'
<1>1. PICK s \in [Params -> Reduced] : s = Smoothed(w, opt.methods) BY SmoothedType
<1>2. weight' \in [Params -> Ratio] /\ TrainedFrom(weight', s) BY <1>1, NormalizeFractions
<1> QED BY <1>2, NormalizedNext

(* use_counts leaves weights made of the counts it was given *)
LEMMA NormalizedCounts ==
  ASSUME opt' = opt, opt \in Options, NEW w \in [Params -> Ratio],
         NEW counts \in [Composed -> Ratio],
         weight' = UseCounts(w, counts), evidence' = counts
  PROVE  weight' \in [Params -> Ratio] /\ Normalized'
<1>1. PICK s \in [Params -> Reduced] : TrainedFrom(weight', s) /\ AsCounted(s, counts)
  BY UseCountsFractions
<1>2. weight' \in [Params -> Ratio] BY UseCountsFractions
<1> QED BY <1>1, <1>2, NormalizedNext

(* The first normalization. *)
LEMMA NormalEnter == ASSUME NormalInv, Enter PROVE NormalInv'
<1>1. opt' = opt /\ opt \in Options /\ Fractions /\ pc = "enter" BY DEF NormalInv, Enter
<1>2. weight \in [Params -> Ratio] BY <1>1 DEF Fractions
<1>3. weight' = Normalize(weight, opt.methods) /\ evidence' = NoEvidence
  BY <1>1 DEF Enter, Fractions
<1>4. weight' \in [Params -> Ratio] /\ Normalized' BY <1>1, <1>2, <1>3, NormalizedAnew
<1>5. prior_counts' \in [Composed -> Ratio]
  <2>1. opt.smooth \in Ratio BY <1>1, OptionsType
  <2>2. ASSUME NEW c \in Composed PROVE Plus(opt.smooth, composed[c]) \in Ratio
    <3>1. composed[c] \in Ratio BY <1>1 DEF Fractions
    <3> QED BY <2>1, <3>1, PlusFacts, ReducedRatio
  <2>3. prior_counts' = [c \in Composed |->
          IF opt.per_arc_prior THEN Plus(opt.smooth, composed[c]) ELSE opt.smooth]
    BY DEF Enter
  <2> QED BY <2>1, <2>2, <2>3
<1>6. pc' # "enter" BY DEF Enter
<1> QED BY <1>1, <1>4, <1>5, <1>6 DEF NormalInv, Fractions, Enter

(* save_counts and update. *)
LEMMA NormalStartIteration == ASSUME NormalInv, StartIteration PROVE NormalInv'
<1>1. /\ opt' = opt /\ opt \in Options /\ Fractions /\ pc = "iterate" /\ weight' = weight
      /\ evidence' = evidence /\ pc' # "enter" /\ composed' = Update(weight)
      /\ em_weight' \in {em_weight, composed} /\ UNCHANGED <<prior_counts, best_weight>>
  BY DEF NormalInv, StartIteration
<1>2. Normalizing /\ Normalized BY <1>1 DEF NormalInv, Normalizing
<1>3. Normalized' BY <1>1, <1>2, NormalizedSame
<1>4. composed' \in [Composed -> Ratio] BY <1>1, UpdateType DEF Fractions
<1> QED BY <1>1, <1>3, <1>4 DEF NormalInv, Fractions

(* save_best_counts and maximize. *)
LEMMA NormalIterate == ASSUME NormalInv, Iterate PROVE NormalInv'
<1>1. /\ opt' = opt /\ opt \in Options /\ Fractions /\ pc = "estimate"
      /\ pc' # "enter" /\ UNCHANGED <<prior_counts, em_weight>>
      /\ best_weight' \in {best_weight, em_weight}
  BY DEF NormalInv, Iterate, SavedBest
<1>2. Normalizing /\ Normalized BY <1>1 DEF NormalInv, Normalizing
<1>3. CASE UNCHANGED <<composed, weight, evidence>>
  <2>1. Normalized' BY <1>1, <1>2, <1>3, NormalizedSame
  <2> QED BY <1>1, <1>3, <2>1 DEF NormalInv, Fractions
<1>4. CASE \E counts \in Estimates : Maximize(counts)
  <2>1. PICK counts \in Estimates : Maximize(counts) BY <1>4
  <2>2. counts \in [Composed -> Ratio] /\ composed \in [Composed -> Ratio]
        /\ weight \in [Params -> Ratio]
    BY <1>1, EstimateAssumption DEF Fractions
  <2>3. PICK counted \in [Composed -> Ratio] : counted = Counted(composed, counts)
    BY <1>1, <2>2, CountedType
  <2>4. composed' = counted /\ weight' = UseCounts(weight, counted) /\ evidence' = counted
    BY <2>1, <2>3 DEF Maximize
  <2>5. weight' \in [Params -> Ratio] /\ Normalized' BY <1>1, <2>2, <2>4, NormalizedCounts
  <2> QED BY <1>1, <2>4, <2>5 DEF NormalInv, Fractions
<1> QED BY <1>3, <1>4 DEF Iterate

(* -M 1 uses the counts twice; -M 0 leaves them. *)
LEMMA NormalSinglePass == ASSUME NormalInv, SinglePass PROVE NormalInv'
<1>1. /\ opt' = opt /\ opt \in Options /\ Fractions /\ pc' = "done"
      /\ UNCHANGED <<prior_counts, em_weight, best_weight>>
  BY DEF NormalInv, SinglePass
<1>2. weight \in [Params -> Ratio] BY <1>1 DEF Fractions
<1>3. PICK counts \in Estimates :
        LET counted == Counted(Update(weight), counts)
            trained == UseCounts(UseCounts(weight, counted), counted)
        IN  /\ evidence' = counted
            /\ weight' = IF opt.max_iter = 0 THEN Distributed(weight, counted) ELSE trained
            /\ composed' = IF opt.max_iter = 0 THEN counted ELSE Update(trained)
  BY DEF SinglePass
<1>4. PICK counted \in [Composed -> Ratio] : counted = Counted(Update(weight), counts)
  BY <1>1, <1>2, CountedType, UpdateType, EstimateAssumption
<1>5. PICK w \in [Params -> Ratio] : w = UseCounts(weight, counted)
  BY <1>1, <1>2, UseCountsFractions
<1>6. PICK trained \in [Params -> Ratio] : trained = UseCounts(w, counted)
  BY <1>1, UseCountsFractions
<1>7. /\ evidence' = counted
      /\ weight' = IF opt.max_iter = 0 THEN Distributed(weight, counted) ELSE trained
      /\ composed' = IF opt.max_iter = 0 THEN counted ELSE Update(trained)
  BY <1>3, <1>4, <1>5, <1>6
<1>8. CASE opt.max_iter = 0
  <2>1. Distributed(weight, counted) \in [Params -> Ratio] BY <1>2, DistributedType
  <2>2. Normalized' BY <1>1, <1>8 DEF Normalized, Normalizing
  <2> QED BY <1>1, <1>7, <1>8, <2>1, <2>2 DEF NormalInv, Fractions
<1>9. CASE opt.max_iter # 0
  <2>1. weight' = UseCounts(w, counted) BY <1>6, <1>7, <1>9
  <2>2. weight' \in [Params -> Ratio] /\ Normalized' BY <1>1, <1>7, <2>1, NormalizedCounts
  <2>3. composed' \in [Composed -> Ratio] BY <1>7, <1>9, UpdateType
  <2> QED BY <1>1, <2>2, <2>3 DEF NormalInv, Fractions
<1> QED BY <1>8, <1>9

(* A random restart normalizes what it drew. *)
LEMMA NormalRestart == ASSUME NormalInv, Restart PROVE NormalInv'
<1>1. /\ opt' = opt /\ opt \in Options /\ Fractions /\ pc' = "iterate" /\ evidence' = NoEvidence
      /\ UNCHANGED <<composed, prior_counts, em_weight, best_weight>>
  BY DEF NormalInv, Restart
<1>2. PICK r \in Random : weight' = Normalize(Randomized(weight, r), opt.methods)
  BY DEF Restart
<1>3. PICK w \in [Params -> Ratio] : w = Randomized(weight, r)
  <2>1. r \in [Params -> Ratio] /\ weight \in [Params -> Ratio]
    BY <1>1, RandomAssumption DEF Fractions
  <2> QED BY <2>1 DEF Randomized
<1>4. weight' \in [Params -> Ratio] /\ Normalized' BY <1>1, <1>2, <1>3, NormalizedAnew
<1> QED BY <1>1, <1>4 DEF NormalInv, Fractions

(* load_best and use_counts_final. *)
LEMMA NormalFinish == ASSUME NormalInv, Finish PROVE NormalInv'
<1>1. /\ opt' = opt /\ opt \in Options /\ Fractions /\ pc' = "done"
      /\ weight' = UseCounts(weight, best_weight) /\ evidence' = best_weight
      /\ composed' = Update(weight') /\ UNCHANGED <<prior_counts, em_weight, best_weight>>
  BY DEF NormalInv, Finish, LoadBest
<1>2. weight \in [Params -> Ratio] /\ best_weight \in [Composed -> Ratio]
  BY <1>1 DEF Fractions
<1>3. weight' \in [Params -> Ratio] /\ Normalized' BY <1>1, <1>2, NormalizedCounts
<1>4. composed' \in [Composed -> Ratio] BY <1>1, <1>3, UpdateType
<1> QED BY <1>1, <1>3, <1>4 DEF NormalInv, Fractions

(* Every step keeps weights normalized. *)
LEMMA NormalStep == ASSUME NormalInv, [Next]_vars PROVE NormalInv'
<1>1. CASE UNCHANGED vars
  <2>1. opt' = opt /\ weight' = weight /\ evidence' = evidence /\ pc' = pc BY <1>1 DEF vars
  <2>2. Normalized'
    <3>1. CASE Normalizing BY <2>1, <3>1, NormalizedSame DEF NormalInv
    <3>2. CASE ~Normalizing BY <2>1, <3>2 DEF Normalized, Normalizing
    <3> QED BY <3>1, <3>2
  <2> QED BY <1>1, <2>2 DEF NormalInv, Fractions, vars
<1> QED BY <1>1, NormalEnter, NormalSinglePass, NormalStartIteration, NormalIterate,
           NormalRestart, NormalFinish DEF Next

(* The inductive invariant: weights are fractions, and normalized ones. *)
THEOREM NormalizedWeights == Spec => []NormalInv
<1>1. Init => NormalInv BY NormalInit
<1>2. NormalInv /\ [Next]_vars => NormalInv' BY NormalStep
<1> QED BY <1>1, <1>2, PTL DEF Spec

(* Normalized weights add up. *)
LEMMA NormalizedAddUp == NormalInv => GroupsAddUp
<1> SUFFICES ASSUME NormalInv, Normalizing, NEW a \in Params, Trained(a)
             PROVE  LET arcs == NormGroup(a, opt.methods[ArcOf[a].machine].group)
                        sum == SumOver(weight, arcs)
                        locked == SumOver(weight, {b \in arcs : IsLocked(b)})
                    IN  /\ IsNormal(a) /\ weight[a] # Zero => sum = One
                        /\ (\A x, y \in arcs : IsTied(x) /\ IsTied(y) => x = y)
                             /\ ~Less(One, locked) => ~Less(One, sum)
  BY DEF GroupsAddUp
<1>1. PICK s \in [Params -> Reduced] : TrainedFrom(weight, s) BY DEF NormalInv, Normalized
<1>2. PICK g : g = GroupOf(a) OBVIOUS
<1> DEFINE G == NormGroup(a, g)
           K == LockedOf(a, g)
<1>3. ASSUME NEW b \in G PROVE weight[b] = NewWeight(s, b, g)
  <2>1. b \in Params /\ ArcOf[b].machine = ArcOf[a].machine BY GroupFacts
  <2>2. ~IsNone(b) /\ GroupOf(b) = g BY <1>2, <2>1 DEF Trained, IsNone, GroupOf
  <2> QED BY <1>1, <2>1, <2>2 DEF TrainedFrom
<1>4. SumOver(weight, G) = IF Remaining(s, a, g) # Zero /\ NormalSum(s, a, g) # Zero
                           THEN One ELSE Taken(s, a, g)
  BY <1>3, GroupTotal
<1>5. ASSUME IsNormal(a), weight[a] # Zero PROVE SumOver(weight, G) = One
  <2>1. weight[a] = NewWeight(s, a, g) BY <1>3, GroupFacts
  <2>2. NewWeight(s, a, g) = NormalWeight(s, a, g)
    BY <1>5 DEF NewWeight, IsLocked, IsNormal, IsTied, LockedGroup, NoGroup
  <2>3. Remaining(s, a, g) # Zero /\ NormalSum(s, a, g) # Zero
    BY <1>5, <2>1, <2>2, NormalWeightIs
  <2> QED BY <1>4, <2>3
<1>6. SumOver(weight, K) = LockedSum(s, a, g)
  <2>1. K \subseteq G BY DEF LockedOf
  <2>2. IsFiniteSet(K) /\ K \subseteq Params BY <2>1, PartFacts
  <2>3. \A b \in K : s[b] \in Ratio /\ weight[b] = s[b]
    <3>1. ASSUME NEW b \in K PROVE s[b] \in Ratio /\ weight[b] = s[b]
      <4>1. b \in G /\ IsLocked(b) /\ b \in Params BY <2>2 DEF LockedOf
      <4>2. weight[b] = NewWeight(s, b, g) BY <1>3, <4>1
      <4> QED BY <4>1, <4>2, ReducedRatio DEF NewWeight
    <3> QED BY <3>1
  <2> HIDE DEF K, G
  <2>4. SumOver(weight, K) = SumOver(s, K) BY <2>2, <2>3, SumSame
  <2> QED BY <2>4, LockedSumType DEF K
<1>7. ASSUME \A x, y \in G : IsTied(x) /\ IsTied(y) => x = y, ~Less(One, SumOver(weight, K))
      PROVE  ~Less(One, SumOver(weight, G))
  <2>1. ~Less(One, Taken(s, a, g)) BY <1>6, <1>7, TakenLeavesRoom
  <2>2. ~Less(One, One) BY ZeroAndOne, ReducedRatio, LessOrder
  <2> QED BY <1>4, <2>1, <2>2
<1> QED BY <1>2, <1>5, <1>7 DEF GroupOf, LockedOf

(* Normalized weights are in proportion to the evidence. *)
LEMMA NormalizedShares == NormalInv => Proportional
<1> SUFFICES ASSUME NormalInv, Normalizing, evidence # NoEvidence,
                    NEW a \in Params, Trained(a), IsNormal(a),
                    NEW b \in NormGroup(a, GroupOf(a)), IsNormal(b)
             PROVE  Times(weight[a], EvidenceFor(b)) = Times(weight[b], EvidenceFor(a))
  BY DEF Proportional, GroupOf
<1>1. PICK s \in [Params -> Reduced] : TrainedFrom(weight, s) /\ AsCounted(s, evidence)
  BY DEF NormalInv, Normalized
<1>2. PICK g : g = GroupOf(a) OBVIOUS
<1>3. b \in Params /\ ArcOf[b].machine = ArcOf[a].machine BY GroupFacts
<1>4. ~IsNone(a) /\ ~IsNone(b) /\ GroupOf(b) = g /\ Trained(b)
  BY <1>2, <1>3 DEF Trained, IsNone, GroupOf, IsLocked, IsNormal, LockedGroup, NoGroup
<1>5. weight[a] = NewWeight(s, a, g) /\ weight[b] = NewWeight(s, b, g)
  BY <1>1, <1>2, <1>3, <1>4 DEF TrainedFrom
<1>6. s[a] = EvidenceFor(a) /\ s[b] = EvidenceFor(b)
  BY <1>1, <1>3, <1>4 DEF AsCounted, EvidenceIn, CountFor, EvidenceFor
<1>7. Times(NewWeight(s, a, g), s[b]) = Times(NewWeight(s, b, g), s[a])
  BY <1>2, NewInProportion
<1> QED BY <1>5, <1>6, <1>7

(* Whatever counts, draws and restarts went before, normalize leaves groups that
   sum to one if a normal arc has any weight, and to at most one if the locked
   arcs do and no two arcs of the group are tied. *)
THEOREM GroupsSumUp == Spec => []GroupsAddUp
BY NormalizedWeights, NormalizedAddUp, PTL

(* The arcs of a group share it in proportion to what was counted on all
   composed arcs they are part of: neither update, distribute_counts, save_none
   nor load_best leaves anything of earlier iterations behind. *)
THEOREM SharedInProportion == Spec => []Proportional
BY NormalizedWeights, NormalizedShares, PTL
=============================================================================
