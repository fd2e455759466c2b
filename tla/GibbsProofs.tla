----------------------------- MODULE GibbsProofs -----------------------------
(***************************************************************************)
(* Theorems about the Gibbs sampler and the delta_sum it counts with, for  *)
(* every model, data set and choice of options: the delta_sum integrates   *)
(* its signal, the group sums and counts stay explained by the samples,    *)
(* and the finalized counts are exactly the uses summed over the samples   *)
(* from burnin on; and the sampler implements the choice among starts.     *)
(***************************************************************************)
EXTENDS Gibbs, DeltaSumSignal, SumTheorems, SequenceTheorems

-----------------------------------------------------------------------------
(* First the running integrals the sampler counts with.  For every horizon,  *)
(* every set of changes and every order of the calls, a delta_sum integrates *)
(* the signal it was told about.  The invariant is inductive as it stands:   *)
(* the value from tmax on and the integral up to every time not yet          *)
(* forgotten determine each other's next value.                              *)

(* the integral, stated over all times; SignalTypeOK and TracksValue go with it *)
SignalInv == SignalTypeOK /\ TracksValue /\ IntegralExact

LEMMA SignalSum ==
  ASSUME SignalTypeOK, NEW t \in Times
  PROVE  SumTo(signal, t) \in Int
<1>1. t \in Nat /\ \A k \in 1..t : k \in Units
  BY HorizonAssumption DEF Times, Units
<1> QED BY <1>1, SumToInt DEF SignalTypeOK

(* the units of time in t..T: what a change at t is multiplied by *)
Late(t, T) == [k \in 1..T |-> IF k > t THEN 1 ELSE 0]

LEMMA LateSum ==
  ASSUME NEW t \in Nat, NEW T \in Nat
  PROVE  SumTo(Late(t, T), T) = IF T > t THEN T - t ELSE 0
<1> DEFINE u == Late(t, T)
<1> DEFINE S == {m \in Nat : m <= T => SumTo(u, m) = IF m > t THEN m - t ELSE 0}
<1>1. 0 \in S BY SumToDef
<1>2. ASSUME NEW m \in Nat, m \in S PROVE m + 1 \in S
  <2> SUFFICES ASSUME m + 1 <= T
               PROVE  SumTo(u, m + 1) = IF m + 1 > t THEN (m + 1) - t ELSE 0
    OBVIOUS
  <2>1. SumTo(u, m + 1) = SumTo(u, m) + u[m + 1]
    <3> HIDE DEF u
    <3> QED BY SumToDef
  <2>2. SumTo(u, m) = IF m > t THEN m - t ELSE 0 BY <1>2
  <2>3. u[m + 1] = IF m + 1 > t THEN 1 ELSE 0 BY DEF Late
  <2> QED BY <2>1, <2>2, <2>3
<1>3. T \in S
  <2> HIDE DEF S
  <2> QED BY NatSetInduction, <1>1, <1>2
<1> QED BY <1>3

(* a constant signal integrates to its value times the time *)
LEMMA ConstantSum ==
  ASSUME NEW T \in Nat, NEW c \in Int, NEW g, \A k \in 1..T : g[k] = c
  PROVE  SumTo(g, T) = c * T
<1> DEFINE S == {m \in Nat : m <= T => SumTo(g, m) = c * m}
<1>1. 0 \in S BY SumToDef
<1>2. ASSUME NEW m \in Nat, m \in S PROVE m + 1 \in S
  <2> SUFFICES ASSUME m + 1 <= T PROVE SumTo(g, m + 1) = c * (m + 1) OBVIOUS
  <2>1. SumTo(g, m) = c * m /\ g[m + 1] = c BY <1>2
  <2>2. SumTo(g, m + 1) = SumTo(g, m) + g[m + 1] BY SumToDef
  <2>3. c * m + c = c * (m + 1) OBVIOUS
  <2> QED BY <2>1, <2>2, <2>3
<1>3. T \in S
  <2> HIDE DEF S
  <2> QED BY NatSetInduction, <1>1, <1>2
<1> QED BY <1>3

(* The three facts survive a change of d from time t on, early or late. *)
LEMMA AddDeltaKeeps ==
  ASSUME SignalInv, NEW d \in Int, NEW t \in Times,
         ds' = AddDelta(ds, d, t), signal' = Raise(d, t)
  PROVE  SignalInv'
<1> USE HorizonAssumption DEF SignalInv, Times, Units
<1>1. t \in Nat /\ ds \in DS /\ ds.x \in Int /\ ds.tmax \in Times /\ ds.s \in Int
  BY DEF SignalTypeOK, DS
<1>2. SignalTypeOK'
  <2>1. ds' \in DS /\ ds'.tmax \in Times
    <3>1. /\ ds.x + d \in Int
          /\ ds.s + ds.x * (t - ds.tmax) \in Int
          /\ ds.s + d * (ds.tmax - t) \in Int
      BY <1>1
    <3> QED BY <1>1, <3>1 DEF AddDelta, DS
  <2>2. signal' \in [Units -> Int] BY DEF Raise, SignalTypeOK
  <2> QED BY <2>1, <2>2 DEF SignalTypeOK
<1>3. TracksValue'
  BY <1>1 DEF TracksValue, SignalTypeOK, Raise, AddDelta, DS
<1>4. ASSUME NEW T \in Times, CanReach(ds', T)
      PROVE  SumAt(ds', T) = SumTo(signal', T)
  <2>1. T \in Nat /\ \A k \in 1..T : k \in Units OBVIOUS
  <2> DEFINE u == Late(t, T)
  <2>2. \A k \in 1..T : signal[k] \in Int /\ u[k] \in Int /\ signal'[k] = signal[k] + d * u[k]
    BY <1>1, <2>1 DEF SignalTypeOK, Raise, Late
  <2>3. SumTo(signal', T) = SumTo(signal, T) + d * (IF T > t THEN T - t ELSE 0)
    <3> HIDE DEF u
    <3>1. SumTo(signal', T) = SumTo(signal, T) + d * SumTo(u, T)
      BY <2>1, <2>2, SumToLinear
    <3> QED BY <1>1, <2>1, <3>1, LateSum DEF u
  <2>4. CanReach(ds, T) BY <1>1, <1>4 DEF CanReach, AddDelta
  <2>5. SumAt(ds, T) = SumTo(signal, T) BY <2>4 DEF IntegralExact
  <2>6. SumAt(ds', T) = SumAt(ds, T) + (IF T > t THEN d * (T - t) ELSE 0)
    <3>1. CASE T = 0
      BY <1>1, <3>1 DEF SumAt
    <3>2. CASE T > 0 /\ t >= ds.tmax
      <4>1. T >= t BY <1>1, <1>4, <3>2 DEF CanReach, AddDelta
      <4>2. SumAt(ds', T) = (ds.s + ds.x * (t - ds.tmax)) + (ds.x + d) * (T - t)
        BY <1>1, <3>2 DEF SumAt, AddDelta
      <4>3. SumAt(ds, T) = ds.s + ds.x * (T - ds.tmax)
        BY <1>1, <3>2 DEF SumAt
      <4>4. ds.x * (t - ds.tmax) + ds.x * (T - t) = ds.x * (T - ds.tmax) BY <1>1, <2>1
      <4>5. (ds.x + d) * (T - t) = ds.x * (T - t) + d * (T - t) BY <1>1, <2>1
      <4>6. T = t => d * (T - t) = 0 BY <1>1
      <4>7. (IF T > t THEN d * (T - t) ELSE 0) = d * (T - t) BY <1>1, <2>1, <4>1, <4>6
      <4>8. \A v1, v2, v3, v4, v5 \in Int : v2 + v3 = v4 => (v1 + v2) + (v3 + v5) = (v1 + v4) + v5
        OBVIOUS
      <4>9. /\ ds.s \in Int /\ ds.x * (t - ds.tmax) \in Int /\ ds.x * (T - t) \in Int
            /\ ds.x * (T - ds.tmax) \in Int /\ d * (T - t) \in Int
        BY <1>1, <2>1
      <4> QED BY <4>2, <4>3, <4>4, <4>5, <4>7, <4>8, <4>9
    <3>3. CASE T > 0 /\ t < ds.tmax
      <4>1. T > t BY <1>1, <2>4, <3>3 DEF CanReach
      <4>2. SumAt(ds', T) = (ds.s + d * (ds.tmax - t)) + (ds.x + d) * (T - ds.tmax)
        BY <1>1, <3>3 DEF SumAt, AddDelta, DS
      <4>3. SumAt(ds, T) = ds.s + ds.x * (T - ds.tmax)
        BY <1>1, <3>3 DEF SumAt
      <4>4. d * (ds.tmax - t) + d * (T - ds.tmax) = d * (T - t) BY <1>1, <2>1
      <4>5. (ds.x + d) * (T - ds.tmax) = ds.x * (T - ds.tmax) + d * (T - ds.tmax) BY <1>1, <2>1
      <4> QED BY <1>1, <2>1, <4>1, <4>2, <4>3, <4>4, <4>5
    <3> QED BY <1>1, <2>1, <3>1, <3>2, <3>3
  <2> QED BY <1>1, <2>1, <2>3, <2>5, <2>6
<1>5. IntegralExact' BY <1>4 DEF IntegralExact
<1> QED BY <1>2, <1>3, <1>5

(* A new object knows its constant signal. *)
Fresh(x0) == ds = Clear(x0) /\ signal = [u \in Units |-> x0]

FreshKnown == \A x0 \in Int : Fresh(x0) => SignalInv

LEMMA ClearKnows == FreshKnown
<1> SUFFICES ASSUME NEW x0 \in Int, Fresh(x0) PROVE SignalInv BY DEF FreshKnown
<1> USE DEF Fresh
<1> USE HorizonAssumption DEF Times, Units
<1>1. SignalTypeOK BY DEF SignalTypeOK, DS, Clear
<1>2. TracksValue BY DEF TracksValue, Clear
<1>3. ASSUME NEW T \in Times PROVE SumAt(ds, T) = SumTo(signal, T)
  <2>1. T \in Nat /\ \A k \in 1..T : signal[k] = x0 OBVIOUS
  <2>2. SumTo(signal, T) = x0 * T BY <2>1, ConstantSum
  <2>3. SumAt(ds, T) = x0 * T BY <2>1 DEF SumAt, Clear
  <2> QED BY <2>2, <2>3
<1> QED BY <1>1, <1>2, <1>3 DEF SignalInv, IntegralExact

(* "same as add_delta(d,0)" (the comment on addbase) *)
LEMMA AddBaseIsEarlyDelta ==
  ASSUME NEW o \in DS, NEW d \in Int
  PROVE  AddBase(o, d) = AddDelta(o, d, 0)
<1>1. o.x \in Int /\ o.tmax \in Nat /\ o.s \in Int BY DEF DS
<1>2. CASE o.tmax = 0
  <2>1. o.s + d * o.tmax = o.s /\ o.s + o.x * (0 - o.tmax) = o.s BY <1>1, <1>2
  <2> QED BY <1>2, <2>1 DEF AddBase, AddDelta
<1>3. CASE o.tmax # 0
  <2>1. ~(0 >= o.tmax) /\ o.tmax - 0 = o.tmax BY <1>1, <1>3
  <2> QED BY <2>1 DEF AddBase, AddDelta
<1> QED BY <1>2, <1>3

LEMMA ExtendKeeps ==
  ASSUME SignalInv, NEW t \in Times, CanReach(ds, t),
         ds' = Extend(ds, t), UNCHANGED signal
  PROVE  SignalInv'
<1> USE HorizonAssumption DEF SignalInv, Times, Units
<1>1. /\ t \in Nat /\ ds \in DS /\ ds.x \in Int /\ ds.tmax \in Nat /\ ds.s \in Int
      /\ t >= ds.tmax
  BY DEF SignalTypeOK, DS, CanReach
<1>2. ds' = [x |-> ds.x, tmax |-> t, s |-> ds.s + ds.x * (t - ds.tmax)]
  BY <1>1 DEF Extend, DS
<1>3. SignalTypeOK'
  <2>1. ds.s + ds.x * (t - ds.tmax) \in Int BY <1>1
  <2> QED BY <1>1, <1>2, <2>1 DEF SignalTypeOK, DS
<1>4. TracksValue' BY <1>1, <1>2 DEF TracksValue
<1>5. ASSUME NEW T \in Times, CanReach(ds', T)
      PROVE  SumAt(ds', T) = SumTo(signal', T)
  <2>1. T \in Nat /\ T >= t /\ CanReach(ds, T) BY <1>1, <1>2, <1>5 DEF CanReach
  <2>2. SumAt(ds, T) = SumTo(signal, T) BY <2>1 DEF IntegralExact
  <2>3. ds.x * (t - ds.tmax) + ds.x * (T - t) = ds.x * (T - ds.tmax) BY <1>1, <2>1
  <2>4. SumAt(ds', T) = SumAt(ds, T) BY <1>1, <1>2, <2>1, <2>3 DEF SumAt
  <2> QED BY <2>2, <2>4
<1> QED BY <1>3, <1>4, <1>5 DEF IntegralExact

LEMMA SignalStep == SignalInv /\ [SignalNext]_signalVars => SignalInv'
<1> SUFFICES ASSUME SignalInv, [SignalNext]_signalVars PROVE SignalInv' OBVIOUS
<1> USE HorizonAssumption, ChangeAssumption
<1>1. ds \in DS /\ ds.x \in Int BY DEF SignalInv, SignalTypeOK, DS
<1>2. ASSUME NEW d \in Change, NEW t \in Times, CallAddDelta(d, t) PROVE SignalInv'
  <2>1. d \in Int OBVIOUS
  <2> QED BY <1>2, <2>1, AddDeltaKeeps DEF CallAddDelta
<1>3. ASSUME NEW d \in Change, CallAddBase(d) PROVE SignalInv'
  <2>1. d \in Int /\ 0 \in Times BY DEF Times
  <2>2. ds' = AddDelta(ds, d, 0) BY <1>1, <1>3, <2>1, AddBaseIsEarlyDelta DEF CallAddBase
  <2> QED BY <1>3, <2>1, <2>2, AddDeltaKeeps DEF CallAddBase
<1>4. ASSUME NEW v \in Change, NEW t \in Times, CallAddVal(v, t) PROVE SignalInv'
  <2>1. v - ds.x \in Int BY <1>1
  <2>2. signal' = Raise(v - ds.x, t)
    <3>1. ASSUME NEW u \in Units, u > t PROVE signal[u] + (v - ds.x) = v
      <4>1. u > ds.tmax BY <1>1, <1>4, <3>1 DEF CallAddVal, CanReach, Units, Times, DS
      <4>2. signal[u] = ds.x BY <4>1 DEF SignalInv, TracksValue
      <4> QED BY <1>1, <4>2
    <3> QED BY <1>4, <3>1 DEF CallAddVal, Raise
  <2> QED BY <1>4, <2>1, <2>2, AddDeltaKeeps DEF CallAddVal, AddVal
<1>5. ASSUME NEW t \in Times, CallExtend(t) PROVE SignalInv'
  BY <1>5, ExtendKeeps DEF CallExtend
<1>6. ASSUME NEW y \in Change, CallClear(y) PROVE SignalInv'
  <2>1. y \in Int OBVIOUS
  <2>2. Fresh(y)' BY <1>6 DEF CallClear, Fresh
  <2>3. FreshKnown' BY ClearKnows, PTL
  <2> QED BY <2>1, <2>2, <2>3 DEF FreshKnown
<1>7. CASE UNCHANGED signalVars
  BY <1>7 DEF signalVars, SignalInv, SignalTypeOK, TracksValue, IntegralExact
<1> QED BY <1>2, <1>3, <1>4, <1>5, <1>6, <1>7 DEF SignalNext

LEMMA SignalBegins == SignalInit => SignalInv
BY ChangeAssumption, ClearKnows DEF SignalInit, Fresh, FreshKnown

(* The object always holds numbers, and no call moves it past the horizon. *)
THEOREM DeltaSumTypes == SignalSpec => []SignalTypeOK
<1>1. SignalInv => SignalTypeOK BY DEF SignalInv
<1> QED BY <1>1, SignalBegins, SignalStep, PTL DEF SignalSpec

(* Whatever the calls and their order, late and retroactive ones included,
   every sum delta_sum will still answer is the integral of the signal. *)
THEOREM DeltaSumIntegrates == SignalSpec => [](TracksValue /\ IntegralExact)
<1>1. SignalInv => TracksValue /\ IntegralExact BY DEF SignalInv
<1> QED BY <1>1, SignalBegins, SignalStep, PTL DEF SignalSpec

-----------------------------------------------------------------------------
(* The counts of the sampler. *)

(* What a delta_sum knows of a quantity whose integral up to t is a. *)
Known(o, t, a) ==
  /\ o \in DS
  /\ o.tmax <= t
  /\ o.tmax = 0 => o.s = 0
  /\ o.s + o.x * (t - o.tmax) = a

LEMMA DSFields ==
  ASSUME NEW o \in DS PROVE o.x \in Int /\ o.tmax \in Nat /\ o.s \in Int
BY DEF DS

(* A change at the present time t moves the value, not the integral. *)
LEMMA KnownDelta ==
  ASSUME NEW o \in DS, NEW t \in Nat, NEW a \in Int, NEW e \in Int, Known(o, t, a)
  PROVE  Known(AddDelta(o, e, t), t, a) /\ AddDelta(o, e, t).x = o.x + e
<1>1. o.x \in Int /\ o.tmax \in Nat /\ o.s \in Int /\ t >= o.tmax BY DSFields DEF Known
<1>2. AddDelta(o, e, t) = [x |-> o.x + e, tmax |-> t, s |-> o.s + o.x * (t - o.tmax)]
  BY <1>1 DEF AddDelta
<1>3. o.s + o.x * (t - o.tmax) = a BY DEF Known
<1>4. AddDelta(o, e, t) \in DS BY <1>1, <1>2, <1>3 DEF DS
<1>5. t = 0 => a = 0
  <2> SUFFICES ASSUME t = 0 PROVE a = 0 OBVIOUS
  <2>1. o.tmax = 0 /\ o.s = 0 BY <1>1 DEF Known
  <2> QED BY <1>1, <1>3, <2>1
<1>6. a + (o.x + e) * (t - t) = a BY <1>1
<1> QED BY <1>2, <1>3, <1>4, <1>5, <1>6 DEF Known

LEMMA AddBaseType ==
  ASSUME NEW o \in DS, NEW e \in Int
  PROVE  AddBase(o, e) \in DS /\ AddBase(o, e).x = o.x + e
<1>1. o.x \in Int /\ o.tmax \in Nat /\ o.s \in Int BY DSFields
<1>2. o.s + e * o.tmax \in Int /\ o.x + e \in Int BY <1>1
<1> QED BY <1>1, <1>2 DEF AddBase, DS

(* A change of base moves the integral as if it had always been there. *)
LEMMA KnownBase ==
  ASSUME NEW o \in DS, NEW t \in Nat, NEW a \in Int, NEW e \in Int, Known(o, t, a)
  PROVE  Known(AddBase(o, e), t, a + e * t) /\ AddBase(o, e).x = o.x + e
<1>1. o.x \in Int /\ o.tmax \in Nat /\ o.s \in Int BY DSFields
<1>2. AddBase(o, e) = [x |-> o.x + e, tmax |-> o.tmax, s |-> o.s + e * o.tmax]
  BY DEF AddBase
<1>3. AddBase(o, e) \in DS
  <2>1. o.s + e * o.tmax \in Int BY <1>1
  <2> QED BY <1>1, <1>2, <2>1 DEF DS
<1>4. o.tmax = 0 => o.s + e * o.tmax = 0 BY <1>1 DEF Known
<1>5. (o.s + e * o.tmax) + (o.x + e) * (t - o.tmax) = (o.s + o.x * (t - o.tmax)) + e * t
  <2>1. (o.x + e) * (t - o.tmax) = o.x * (t - o.tmax) + e * (t - o.tmax) BY <1>1
  <2>2. e * o.tmax + e * (t - o.tmax) = e * t BY <1>1
  <2> QED BY <1>1, <2>1, <2>2
<1> QED BY <1>2, <1>3, <1>4, <1>5 DEF Known

(* Waiting one unit of time adds the present value to the integral. *)
LEMMA KnownLater ==
  ASSUME NEW o \in DS, NEW t \in Nat, NEW a \in Int, Known(o, t, a)
  PROVE  Known(o, t + 1, a + o.x)
<1>1. o.x \in Int /\ o.tmax \in Nat /\ o.s \in Int BY DSFields
<1>2. o.s + o.x * ((t + 1) - o.tmax) = (o.s + o.x * (t - o.tmax)) + o.x
  <2>1. \A x, m \in Int : x * (m + 1) = x * m + x OBVIOUS
  <2>2. (t + 1) - o.tmax = (t - o.tmax) + 1 /\ t - o.tmax \in Int BY <1>1
  <2>3. o.x * ((t + 1) - o.tmax) = o.x * (t - o.tmax) + o.x BY <1>1, <2>1, <2>2
  <2>4. o.x * (t - o.tmax) \in Int BY <1>1, <2>2
  <2> QED BY <1>1, <2>3, <2>4
<1> QED BY <1>1, <1>2 DEF Known

-----------------------------------------------------------------------------
(* Sums over the parameters of a group *)

LEMMA GroupSumInt ==
  ASSUME NEW v \in [Params -> Int], NEW g \in Groups
  PROVE  GroupSum(v, g) \in Int
<1> DEFINE f == [i \in Params |-> IF Norm[i] = g THEN v[i] ELSE 0]
<1>1. NParam \in Nat /\ \A k \in 1..NParam : f[k] \in Int BY SizeAssumption DEF Params
<1>2. SumTo(f, NParam) \in Int
  <2> HIDE DEF f
  <2> QED BY <1>1, SumToInt
<1> QED BY <1>2 DEF GroupSum

(* w is v + d * u on the parameters that have a group *)
LEMMA GroupSumLinear ==
  ASSUME NEW v \in [Params -> Int], NEW u \in [Params -> Int], NEW w \in [Params -> Int],
         NEW d \in Int, NEW g \in Groups,
         \A i \in Params : HasNorm(i) => w[i] = v[i] + d * u[i]
  PROVE  GroupSum(w, g) = GroupSum(v, g) + d * GroupSum(u, g)
<1> DEFINE fv == [i \in Params |-> IF Norm[i] = g THEN v[i] ELSE 0]
           fu == [i \in Params |-> IF Norm[i] = g THEN u[i] ELSE 0]
           fw == [i \in Params |-> IF Norm[i] = g THEN w[i] ELSE 0]
<1>1. NParam \in Nat /\ g # NONORM /\ Params = 1..NParam
  BY SizeAssumption DEF Params, Groups, NONORM
<1>2. ASSUME NEW k \in 1..NParam
      PROVE  fv[k] \in Int /\ fu[k] \in Int /\ fw[k] = fv[k] + d * fu[k]
  <2>1. CASE Norm[k] = g
    <3>1. k \in Params /\ HasNorm(k) BY <1>1, <2>1 DEF HasNorm
    <3>2. w[k] = v[k] + d * u[k] BY <3>1
    <3> QED BY <2>1, <3>1, <3>2
  <2>2. CASE Norm[k] # g BY <1>1, <2>2
  <2> QED BY <2>1, <2>2
<1>3. SumTo(fw, NParam) = SumTo(fv, NParam) + d * SumTo(fu, NParam)
  <2> HIDE DEF fv, fu, fw
  <2> QED BY <1>1, <1>2, SumToLinear
<1> QED BY <1>3 DEF GroupSum

(* NormsAgree, of any group sums and counts *)
CountsOf(sc) == [i \in Params |-> sc[i].x]
NormsOf(ns, sc) == \A g \in Groups : ns[g] = GroupSum(CountsOf(sc), g)

LEMMA CountsOfType ==
  ASSUME NEW sc \in [Params -> DS] PROVE CountsOf(sc) \in [Params -> Int]
BY DSFields DEF CountsOf

(* sc2 has the counts of sc plus d * u, and ns2 the sums to match *)
LEMMA NormsFollow ==
  ASSUME NEW sc \in [Params -> DS], NEW sc2 \in [Params -> DS], NEW d \in Int,
         NEW u \in [Params -> Int], NEW ns \in [Groups -> Int], NEW ns2,
         NormsOf(ns, sc),
         \A i \in Params : HasNorm(i) => sc2[i].x = sc[i].x + d * u[i],
         ns2 = [g \in Groups |-> ns[g] + d * GroupSum(u, g)]
  PROVE  NormsOf(ns2, sc2) /\ ns2 \in [Groups -> Int]
<1>1. CountsOf(sc) \in [Params -> Int] /\ CountsOf(sc2) \in [Params -> Int] BY CountsOfType
<1>2. \A i \in Params : HasNorm(i) => CountsOf(sc2)[i] = CountsOf(sc)[i] + d * u[i]
  BY DEF CountsOf
<1>3. ASSUME NEW g \in Groups PROVE ns2[g] = GroupSum(CountsOf(sc2), g) /\ ns2[g] \in Int
  <2>1. GroupSum(CountsOf(sc2), g) = GroupSum(CountsOf(sc), g) + d * GroupSum(u, g)
    BY <1>1, <1>2, GroupSumLinear
  <2>2. GroupSum(u, g) \in Int /\ ns[g] \in Int BY GroupSumInt
  <2> QED BY <2>1, <2>2 DEF NormsOf
<1> QED BY <1>3 DEF NormsOf

-----------------------------------------------------------------------------
(* Uses *)

LEMMA UsesInNat ==
  ASSUME NEW smp \in [Blocks -> Occ], NEW i \in Params
  PROVE  UsesIn(smp, i) \in Nat
<1> DEFINE f == [b \in Blocks |-> Weight[b] * smp[b][i]]
<1>1. NBlock \in Nat /\ Blocks = 1..NBlock BY SizeAssumption DEF Blocks
<1>2. ASSUME NEW k \in 1..NBlock PROVE f[k] \in Nat
  <2>1. Weight[k] \in Nat /\ smp[k] \in Occ BY <1>1, ModelAssumption
  <2>2. smp[k][i] \in Nat BY <2>1 DEF Occ
  <2> QED BY <1>1, <2>1, <2>2
<1>3. SumTo(f, NBlock) \in Nat
  <2> HIDE DEF f
  <2> QED BY <1>1, <1>2, SumToNat
<1> QED BY <1>3 DEF UsesIn

(* only block c holds something else *)
LEMMA UsesInOneChange ==
  ASSUME NEW smp \in [Blocks -> Occ], NEW c \in Blocks, NEW o \in Occ, NEW i \in Params
  PROVE  UsesIn([smp EXCEPT ![c] = o], i)
           = UsesIn(smp, i) + (Weight[c] * o[i] - Weight[c] * smp[c][i])
<1> DEFINE new == [smp EXCEPT ![c] = o]
           f == [b \in Blocks |-> Weight[b] * smp[b][i]]
           h == [b \in Blocks |-> Weight[b] * new[b][i]]
           u == Unit(c, NBlock)
           e == Weight[c] * o[i] - Weight[c] * smp[c][i]
<1>1. NBlock \in Nat /\ Blocks = 1..NBlock BY SizeAssumption DEF Blocks
<1>2. /\ Weight[c] * o[i] \in Int
      /\ Weight[c] * smp[c][i] \in Int
      /\ e \in Int
  <2>1. Weight[c] \in Nat /\ o[i] \in Nat /\ smp[c][i] \in Nat
    BY ModelAssumption DEF Occ
  <2> QED BY <2>1
<1>3. ASSUME NEW k \in 1..NBlock
      PROVE  f[k] \in Int /\ u[k] \in Int /\ h[k] = f[k] + e * u[k]
  <2>1. Weight[k] \in Nat /\ smp[k] \in Occ /\ k \in Blocks BY <1>1, ModelAssumption
  <2>2. smp[k][i] \in Nat BY <2>1 DEF Occ
  <2>3. f[k] = Weight[k] * smp[k][i] /\ f[k] \in Int BY <2>1, <2>2
  <2>4. CASE k = c
    <3>1. new[k] = o /\ u[k] = 1 BY <2>4 DEF Unit
    <3>2. h[k] = Weight[c] * o[i] BY <2>1, <2>4, <3>1
    <3>3. Weight[c] * o[i] = Weight[c] * smp[c][i] + e * 1 BY <1>2
    <3> QED BY <2>3, <2>4, <3>1, <3>2, <3>3
  <2>5. CASE k # c
    <3>1. new[k] = smp[k] /\ u[k] = 0 BY <2>1, <2>5 DEF Unit
    <3>2. h[k] = f[k] /\ e * 0 = 0 BY <1>2, <2>1, <3>1
    <3> HIDE DEF e, f, h, u
    <3> QED BY <1>2, <2>3, <3>1, <3>2
  <2> QED BY <2>4, <2>5
<1>4. SumTo(h, NBlock) = SumTo(f, NBlock) + e
  <2>1. SumTo(u, NBlock) = 1 BY <1>1, SumToUnit
  <2> HIDE DEF f, h, e, u
  <2>2. SumTo(h, NBlock) = SumTo(f, NBlock) + e * SumTo(u, NBlock)
    <3>1. NBlock \in Nat /\ e \in Int BY <1>1, <1>2
    <3> QED BY ONLY <3>1, <1>3, SumToLinear
  <2> QED BY <1>2, <2>1, <2>2
<1> QED BY <1>4 DEF UsesIn

LEMMA NoUses ==
  ASSUME NEW i \in Params
  PROVE  UsesIn([b \in Blocks |-> EmptyBlock], i) = 0
<1> DEFINE f == [b \in Blocks |-> Weight[b] * [c \in Blocks |-> EmptyBlock][b][i]]
<1>1. NBlock \in Nat /\ Blocks = 1..NBlock BY SizeAssumption DEF Blocks
<1>2. ASSUME NEW k \in 1..NBlock PROVE f[k] = 0
  <2>1. Weight[k] \in Nat BY <1>1, ModelAssumption
  <2>2. f[k] = Weight[k] * 0 BY <1>1 DEF EmptyBlock
  <2> QED BY <2>1, <2>2
<1>3. SumTo(f, NBlock) = 0
  <2> HIDE DEF f
  <2> QED BY <1>1, <1>2, SumToZero
<1> QED BY <1>3 DEF UsesIn

(* addc of a block: what it does to the deltas and to the group sums *)
LEMMA AddUsesEffect ==
  ASSUME NEW sc \in [Params -> DS], NEW block \in Occ, NEW d \in Int, NEW t \in Nat,
         NEW i \in Params
  PROVE  /\ AddUses(sc, block, d, t)[i] \in DS
         /\ HasNorm(i) => AddUses(sc, block, d, t)[i].x = sc[i].x + d * block[i]
         /\ ~HasNorm(i) => AddUses(sc, block, d, t)[i] = sc[i]
         /\ \A a \in Int : Known(sc[i], t, a) => Known(AddUses(sc, block, d, t)[i], t, a)
<1> DEFINE new == AddUses(sc, block, d, t)[i]
<1>1. block[i] \in Nat /\ d * block[i] \in Int /\ sc[i] \in DS BY DEF Occ
<1>2. CASE HasNorm(i) /\ block[i] > 0
  <2>1. new = AddDelta(sc[i], d * block[i], t) BY <1>2 DEF AddUses
  <2>2. new \in DS /\ new.x = sc[i].x + d * block[i]
    <3>1. sc[i].x \in Int /\ sc[i].tmax \in Nat /\ sc[i].s \in Int BY <1>1, DSFields
    <3>2. /\ sc[i].s + sc[i].x * (t - sc[i].tmax) \in Int
          /\ sc[i].s + (d * block[i]) * (sc[i].tmax - t) \in Int
          /\ sc[i].x + d * block[i] \in Int
      BY <1>1, <3>1
    <3> QED BY <2>1, <3>1, <3>2 DEF AddDelta, DS
  <2>3. ASSUME NEW a \in Int, Known(sc[i], t, a) PROVE Known(new, t, a)
    BY <1>1, <2>1, <2>3, KnownDelta
  <2> QED BY <1>2, <2>2, <2>3
<1>3. CASE ~(HasNorm(i) /\ block[i] > 0)
  <2>1. new = sc[i] BY <1>3 DEF AddUses
  <2>2. HasNorm(i) => d * block[i] = 0
    <3>1. HasNorm(i) => block[i] = 0 BY <1>1, <1>3
    <3> QED BY <3>1
  <2>3. sc[i].x \in Int BY <1>1, DSFields
  <2> QED BY <1>1, <2>1, <2>2, <2>3
<1> QED BY <1>2, <1>3

LEMMA AddUsesNorms ==
  ASSUME NEW sc \in [Params -> DS], NEW ns \in [Groups -> Int], NormsOf(ns, sc),
         NEW block \in Occ, NEW d \in Int, NEW t \in Nat
  PROVE  /\ AddUses(sc, block, d, t) \in [Params -> DS]
         /\ NormsOf(AddToNorms(ns, block, d), AddUses(sc, block, d, t))
         /\ AddToNorms(ns, block, d) \in [Groups -> Int]
<1>1. AddUses(sc, block, d, t) \in [Params -> DS]
  <2>1. \A i \in Params : AddUses(sc, block, d, t)[i] \in DS BY AddUsesEffect
  <2> QED BY <2>1 DEF AddUses
<1>2. block \in [Params -> Int] BY DEF Occ
<1>3. \A i \in Params : HasNorm(i) => AddUses(sc, block, d, t)[i].x = sc[i].x + d * block[i]
  BY AddUsesEffect
<1>4. AddToNorms(ns, block, d) = [g \in Groups |-> ns[g] + d * GroupSum(block, g)]
  BY DEF AddToNorms
<1> DEFINE sc2 == AddUses(sc, block, d, t)
           ns2 == AddToNorms(ns, block, d)
<1> HIDE DEF sc2, ns2
<1>5. /\ sc2 \in [Params -> DS]
      /\ \A i \in Params : HasNorm(i) => sc2[i].x = sc[i].x + d * block[i]
      /\ ns2 = [g \in Groups |-> ns[g] + d * GroupSum(block, g)]
  BY <1>1, <1>3, <1>4 DEF sc2, ns2
<1>6. NormsOf(ns2, sc2) /\ ns2 \in [Groups -> Int]
  BY <1>2, <1>5, NormsFollow, SMTT(30)
<1> QED BY <1>1, <1>6 DEF sc2, ns2

-----------------------------------------------------------------------------
(* The inductive invariant.  Counts alone are not inductive for the average:
   it takes the clock, and what each delta_sum knows at every step. *)

BeforeEnd == Running \ {"endrun"}

ClockOK ==
  /\ gopt.burnin <= gopt.iter
  /\ gopt.final_counts => gopt.burnin = gopt.iter
  /\ pc \in BeforeEnd => /\ iter <= gopt.iter
                         /\ time = IF iter > gopt.burnin THEN iter - gopt.burnin ELSE 0
                         /\ stats.n = time
  /\ pc = "endrun" => time = final_t /\ stats.n = time + 1

(* the time the samples recorded so far cover *)
Elapsed == IF pc = "endrun" THEN time + 1 ELSE time
Due(i) == uses[i] + prior[i] * Elapsed

Integrals ==
  pc \in Running =>
    \A i \in Params : HasNorm(i) => /\ Known(sumcount[i], Elapsed, Due(i))
                                    /\ sumcount[i].tmax <= time

IInv == TypeOK /\ ClockOK /\ NormsAgree /\ CountsExplained /\ Integrals

LEMMA NormsAgreeIs == NormsAgree <=> NormsOf(normsum, sumcount)
BY DEF NormsAgree, NormsOf, CountsOf, Count

LEMMA OptionFields ==
  ASSUME NEW o \in OptionType
  PROVE  /\ o.iter \in Nat /\ o.burnin \in Nat /\ o.restarts \in Nat
         /\ o.final_counts \in BOOLEAN /\ o.exclude_prior \in BOOLEAN
         /\ o.include_self \in BOOLEAN /\ o.pinit \in BOOLEAN
BY DEF OptionType

LEMMA EmptyOcc == EmptyBlock \in Occ BY DEF EmptyBlock, Occ

LEMMA InitOK == Init => IInv
<1> SUFFICES ASSUME Init PROVE IInv OBVIOUS
<1>1. PICK o \in Options : gopt = Validate(o) BY DEF Init
<1>2. o \in OptionType BY ChoiceAssumption
<1>3. /\ gopt \in OptionType /\ gopt.burnin <= gopt.iter
      /\ gopt.final_counts => gopt.burnin = gopt.iter
  <2>1. /\ o.iter \in Nat /\ o.burnin \in Nat /\ o.restarts \in Nat
        /\ o.final_counts \in BOOLEAN /\ o.cache_prob \in BOOLEAN
    BY <1>2 DEF OptionType
  <2> DEFINE b == IF o.final_counts THEN o.iter ELSE AtMost(o.burnin, o.iter)
             c == o.cache_prob \/ o.restarts > 0
  <2>2. b \in Nat /\ b <= o.iter /\ (o.final_counts => b = o.iter) /\ c \in BOOLEAN
    BY <2>1 DEF AtMost
  <2>3. gopt = [[o EXCEPT !.burnin = b] EXCEPT !.cache_prob = c] BY <1>1 DEF Validate
  <2> HIDE DEF b, c
  <2>4. [o EXCEPT !.burnin = b] \in OptionType BY <1>2, <2>2 DEF OptionType
  <2>5. gopt \in OptionType BY <2>2, <2>3, <2>4 DEF OptionType
  <2>6. gopt.iter = o.iter /\ gopt.burnin = b /\ gopt.final_counts = o.final_counts
    BY <1>2, <2>3 DEF OptionType
  <2> QED BY <2>2, <2>5, <2>6
<1>4. TypeOK
  <2>1. pc = "init" /\ blk = 1 /\ 1 \in 1..(NBlock + 1) /\ EmptyBlock \in [Params -> Int]
    BY SizeAssumption DEF Init, EmptyBlock
  <2>2. sumcount \in [Params -> DS] BY DEF Init, Clear, DS
  <2>3. stats \in [n : Nat, sum : Nat, all : Nat, final : Nat] BY DEF Init, NoStats
  <2>4. /\ sample \in [Blocks -> Occ] /\ best_sample \in [Blocks -> Occ]
        /\ normsum \in [Groups -> Int] /\ best_counts \in [Params -> Int]
        /\ scales \in [Scales -> Nat \ {0}]
    BY <2>1, EmptyOcc DEF Init
  <2>5. prior \in Occ /\ priors \in Occ /\ uses \in Occ /\ saved \in Occ
    BY EmptyOcc, ModelAssumption DEF Init, Occ
  <2>6. pc = "init" /\ r = 0 /\ iter = 0 /\ time = 0 /\ p = 1 /\ init_prob = FALSE
    BY DEF Init
  <2> QED BY <1>3, <2>1, <2>2, <2>3, <2>4, <2>5, <2>6 DEF TypeOK
<1>5. NormsAgree
  <2>1. ASSUME NEW g \in Groups PROVE GroupSum([i \in Params |-> Count(i)], g) = 0
    <3> DEFINE f == [i \in Params |-> IF Norm[i] = g THEN [j \in Params |-> Count(j)][i] ELSE 0]
    <3>1. NParam \in Nat /\ Params = 1..NParam BY SizeAssumption DEF Params
    <3>2. \A k \in 1..NParam : f[k] = 0 BY <3>1 DEF Init, Clear, Count
    <3>3. SumTo(f, NParam) = 0
      <4> HIDE DEF f
      <4> QED BY <3>1, <3>2, SumToZero
    <3> QED BY <3>3 DEF GroupSum
  <2> QED BY <2>1 DEF NormsAgree, Init
<1>6. pc \notin Running BY DEF Init, Running
<1> QED BY <1>3, <1>4, <1>5, <1>6 DEF IInv, ClockOK, BeforeEnd, CountsExplained, Integrals, Init

(* A step that changes neither the numbers nor what they are compared with. *)
LEMMA Untouched ==
  ASSUME IInv, UNCHANGED <<gopt, numbers, sample, time, blk, uses, saved>>,
         pc \in Running => pc' \in Running, pc \notin Running => pc' \notin Running,
         (pc = "endrun") = (pc' = "endrun"),
         pc \notin {"resample", "add"}, pc' \notin {"resample", "add"}
  PROVE  NormsAgree' /\ CountsExplained' /\ Integrals'
<1> USE DEF IInv, numbers
<1>1. NormsAgree' BY DEF NormsAgree, Count
<1>2. Counted' = Counted BY DEF Counted
<1>3. CountsExplained' BY <1>2 DEF CountsExplained, Held, Count
<1>4. Elapsed' = Elapsed /\ \A i \in Params : Due(i)' = Due(i) BY DEF Elapsed, Due
<1>5. Integrals' BY <1>4 DEF Integrals
<1> QED BY <1>1, <1>3, <1>5

LEMMA RunStartsOK == ASSUME IInv, RunStarts PROVE IInv'
<1> USE DEF RunStarts, numbers, position, drawing, history
<1>1. TypeOK' BY DEF IInv, TypeOK
<1>2. ClockOK' BY DEF IInv, ClockOK, BeforeEnd, Running
<1>3. NormsAgree' /\ CountsExplained' /\ Integrals'
  BY Untouched DEF Running
<1> QED BY <1>1, <1>2, <1>3 DEF IInv

LEMMA BeginIterationOK == ASSUME IInv, BeginIteration PROVE IInv'
<1> USE DEF BeginIteration, reset_cache, numbers, drawing, scaling, chosen, history
<1>1. TypeOK'
  <2>1. 1 \in 1..(NBlock + 1) /\ (NBlock > 0 => 1 \in Blocks) BY SizeAssumption DEF Blocks
  <2>2. init_prob' \in BOOLEAN BY DEF IInv, TypeOK
  <2> QED BY <2>1, <2>2 DEF IInv, TypeOK
<1>2. ClockOK' BY DEF IInv, ClockOK, BeforeEnd, Running
<1>3. NormsAgree' BY DEF IInv, NormsAgree, Count
<1>4. Counted' = Counted /\ pc \in Running BY DEF Counted, Running
<1>5. CountsExplained' BY <1>4 DEF IInv, CountsExplained, Held, Count
<1>6. Elapsed' = Elapsed /\ \A i \in Params : Due(i)' = Due(i) BY DEF Elapsed, Due
<1>7. Integrals' BY <1>4, <1>6 DEF IInv, Integrals
<1> QED BY <1>1, <1>2, <1>3, <1>5, <1>7 DEF IInv

LEMMA StartRunOK == ASSUME IInv, StartRun PROVE IInv'
<1> DEFINE pr == IF r > 0 /\ gopt.restart_fresh THEN priors ELSE prior
<1>1. pr \in Occ /\ prior' = pr BY DEF IInv, TypeOK, StartRun
<1>2. \A i \in Params : sumcount'[i] = IF HasNorm(i) THEN Clear(pr[i]) ELSE sumcount[i]
  BY DEF StartRun, restore_p0
<1>3. sumcount' \in [Params -> DS]
  <2>1. ASSUME NEW i \in Params PROVE sumcount'[i] \in DS
    <3>1. Clear(pr[i]) \in DS BY <1>1 DEF Clear, DS, Occ
    <3>2. sumcount[i] \in DS BY DEF IInv, TypeOK
    <3> QED BY <1>2, <3>1, <3>2
  <2> QED BY <2>1 DEF StartRun, restore_p0
<1>4. pr \in [Params -> Int] BY <1>1 DEF Occ
<1>5. normsum' \in [Groups -> Int]
  <2>1. \A g \in Groups : GroupSum(pr, g) \in Int BY <1>4, GroupSumInt
  <2> QED BY <2>1 DEF StartRun, CacheSums
<1> HIDE DEF pr
<1>6. TypeOK'
  <2>1. /\ pc' = "iteration" /\ iter' = 0 /\ time' = 0 /\ blk' = blk /\ r' = r /\ gopt' = gopt
        /\ sample' = [b \in Blocks |-> EmptyBlock] /\ uses' = EmptyBlock /\ saved' = saved
        /\ stats' = NoStats /\ p' = p /\ scales' = scales
        /\ init_prob' \in BOOLEAN
        /\ UNCHANGED <<priors, best_sample, best_counts>>
    BY DEF StartRun, chosen
  <2>2. sample' \in [Blocks -> Occ] BY <2>1, EmptyOcc
  <2>3. NoStats \in [n : Nat, sum : Nat, all : Nat, final : Nat] BY DEF NoStats
  <2> QED BY <1>1, <1>3, <1>5, <2>1, <2>2, <2>3, EmptyOcc DEF IInv, TypeOK
<1>7. ClockOK'
  BY DEF IInv, TypeOK, ClockOK, StartRun, BeforeEnd, NoStats, OptionType
<1>8. NormsAgree'
  <2>1. ASSUME NEW g \in Groups
        PROVE  normsum'[g] = GroupSum([i \in Params |-> sumcount'[i].x], g)
    <3> DEFINE v == [i \in Params |-> sumcount'[i].x]
    <3>1. v \in [Params -> Int] BY <1>3, DSFields
    <3>2. \A i \in Params : HasNorm(i) => v[i] = pr[i] + 0 * pr[i]
      <4>1. ASSUME NEW i \in Params, HasNorm(i) PROVE v[i] = pr[i] + 0 * pr[i]
        <5>1. sumcount'[i] = Clear(pr[i]) BY <1>2, <4>1
        <5>2. v[i] = pr[i] /\ pr[i] \in Int BY <1>4, <5>1 DEF Clear
        <5> HIDE DEF v
        <5> QED BY <5>2
      <4> QED BY <4>1
    <3>3. GroupSum(v, g) = GroupSum(pr, g) + 0 * GroupSum(pr, g)
      <4> HIDE DEF v
      <4> QED BY <1>4, <3>1, <3>2, GroupSumLinear, 0 \in Int
    <3>4. GroupSum(pr, g) \in Int BY <1>4, GroupSumInt
    <3>5. normsum'[g] = GroupSum(pr, g) BY DEF StartRun, CacheSums, pr
    <3> QED BY <3>3, <3>4, <3>5
  <2> QED BY <2>1 DEF NormsAgree, Count
<1>9. CountsExplained'
  <2>1. Counted' = [b \in Blocks |-> EmptyBlock] BY DEF StartRun, Counted
  <2>2. ASSUME NEW i \in Params, HasNorm(i) PROVE sumcount'[i].x = prior'[i] + UsesIn(Counted', i)
    <3>1. UsesIn(Counted', i) = 0 BY <2>1, NoUses
    <3>2. sumcount'[i] = Clear(pr[i]) /\ pr[i] \in Int BY <1>2, <1>4, <2>2
    <3>3. sumcount'[i].x = pr[i] BY <3>2 DEF Clear
    <3> QED BY <1>1, <3>1, <3>2, <3>3
  <2> QED BY <2>2 DEF CountsExplained, Held, Count
<1>10. Integrals'
  <2>1. Elapsed' = 0 /\ time' = 0 BY DEF StartRun, Elapsed
  <2>2. ASSUME NEW i \in Params, HasNorm(i)
        PROVE  Known(sumcount'[i], Elapsed', Due(i)') /\ sumcount'[i].tmax <= time'
    <3>1. sumcount'[i] = Clear(pr[i]) /\ pr[i] \in Int BY <1>2, <1>4, <2>2
    <3>2. Due(i)' = 0
      <4>1. uses'[i] = 0 BY DEF StartRun, EmptyBlock
      <4> QED BY <1>1, <2>1, <3>1, <4>1 DEF Due
    <3> QED BY <2>1, <3>1, <3>2 DEF Known, Clear, DS
  <2> QED BY <2>2 DEF Integrals
<1> QED BY <1>6, <1>7, <1>8, <1>9, <1>10 DEF IInv

LEMMA RemoveBlockOK == ASSUME IInv, RemoveBlock PROVE IInv'
<1>1. /\ sumcount \in [Params -> DS] /\ normsum \in [Groups -> Int]
      /\ blk \in Blocks /\ sample \in [Blocks -> Occ] /\ sample[blk] \in Occ
      /\ Weight[blk] \in Nat /\ -Weight[blk] \in Int /\ time \in Nat
      /\ prior \in Occ /\ uses \in Occ
  <2>1. blk \in Blocks BY DEF IInv, TypeOK, RemoveBlock
  <2>2. Weight[blk] \in Nat BY <2>1, ModelAssumption
  <2> QED BY <2>1, <2>2 DEF IInv, TypeOK
<1>2. NormsOf(normsum, sumcount) BY NormsAgreeIs DEF IInv
<1>3. sample' = [sample EXCEPT ![blk] = EmptyBlock] /\ sample' \in [Blocks -> Occ]
  BY <1>1, EmptyOcc DEF RemoveBlock
<1>4. saved' \in Occ BY <1>1, EmptyOcc DEF RemoveBlock
<1>5. sumcount' \in [Params -> DS] /\ normsum' \in [Groups -> Int] /\ NormsOf(normsum', sumcount')
  <2>1. CASE gopt.include_self BY <1>1, <1>2, <2>1 DEF RemoveBlock
  <2>2. CASE ~gopt.include_self BY <1>1, <1>2, <2>2, AddUsesNorms DEF RemoveBlock
  <2> QED BY <2>1, <2>2
<1>6. TypeOK'
  <2>1. /\ pc' = "resample"
        /\ UNCHANGED <<gopt, r, prior, scales, iter, time, blk, p, stats, init_prob, priors,
                       uses, best_sample, best_counts>>
    BY DEF RemoveBlock, position, scaling, chosen, history
  <2> QED BY <1>1, <1>3, <1>4, <1>5, <2>1 DEF IInv, TypeOK
<1>7. ClockOK'
  BY DEF IInv, ClockOK, RemoveBlock, BeforeEnd, Running, position
<1>8. NormsAgree' BY <1>5 DEF NormsAgree, NormsOf, CountsOf, Count
<1>9. pc \in Running /\ pc' \in Running BY DEF RemoveBlock, Running
<1>10. ASSUME NEW i \in Params, HasNorm(i)
       PROVE  /\ sumcount'[i].x = prior'[i] + UsesIn(Counted', i)
              /\ Known(sumcount'[i], Elapsed', Due(i)')
              /\ sumcount'[i].tmax <= time'
  <2>1. Elapsed' = Elapsed /\ Elapsed = time /\ Due(i)' = Due(i) /\ time' = time /\ prior' = prior
    BY DEF RemoveBlock, Elapsed, Due, position, history
  <2>2. Known(sumcount[i], time, Due(i)) /\ Due(i) \in Int
    BY <1>1, <1>9, <1>10, <2>1 DEF IInv, Integrals, Due, Occ
  <2>3. Counted = sample /\ sumcount[i].x = prior[i] + UsesIn(sample, i)
    BY <1>9, <1>10 DEF IInv, CountsExplained, Held, Count, Counted, RemoveBlock
  <2>4. CASE gopt.include_self
    <3>1. sumcount' = sumcount /\ saved' = sample[blk] BY <2>4 DEF RemoveBlock
    <3>2. Counted' = sample
      <4>1. Counted' = [sample' EXCEPT ![blk] = sample[blk]]
        BY <3>1 DEF Counted, RemoveBlock, position
      <4> QED BY <1>1, <1>3, <4>1
    <3>3. sumcount[i].tmax <= time BY <1>9, <1>10 DEF IInv, Integrals
    <3> QED BY <2>1, <2>2, <2>3, <3>1, <3>2, <3>3
  <2>5. CASE ~gopt.include_self
    <3>1. saved' = EmptyBlock /\ sumcount' = AddUses(sumcount, sample[blk], -Weight[blk], time)
      BY <2>5 DEF RemoveBlock
    <3>2. Counted' = [sample EXCEPT ![blk] = EmptyBlock]
      <4>1. Counted' = [sample' EXCEPT ![blk] = EmptyBlock]
        BY <3>1 DEF Counted, RemoveBlock, position
      <4> QED BY <1>1, <1>3, <4>1
    <3>3. sumcount'[i].x = sumcount[i].x + (-Weight[blk]) * sample[blk][i]
      BY <1>1, <1>10, <3>1, AddUsesEffect
    <3>4. Known(sumcount'[i], time, Due(i))
      BY <1>1, <2>2, <3>1, AddUsesEffect
    <3>5. UsesIn(Counted', i) = UsesIn(sample, i)
                                + (Weight[blk] * EmptyBlock[i] - Weight[blk] * sample[blk][i])
      BY <1>1, <3>2, EmptyOcc, UsesInOneChange
    <3>6. /\ EmptyBlock[i] = 0 /\ sample[blk][i] \in Nat /\ prior[i] \in Nat
          /\ UsesIn(sample, i) \in Nat
      BY <1>1, UsesInNat DEF EmptyBlock, Occ
    <3>7. /\ Weight[blk] * EmptyBlock[i] = 0
          /\ (-Weight[blk]) * sample[blk][i] = -(Weight[blk] * sample[blk][i])
          /\ Weight[blk] * sample[blk][i] \in Int
      BY <1>1, <3>6
    <3>8. sumcount'[i].x = prior'[i] + UsesIn(Counted', i)
      BY <2>1, <2>3, <3>3, <3>5, <3>6, <3>7
    <3> QED BY <2>1, <3>4, <3>8 DEF Known
  <2> QED BY <2>4, <2>5
<1>11. CountsExplained' BY <1>10 DEF CountsExplained, Held, Count
<1>12. Integrals' BY <1>10 DEF Integrals
<1> QED BY <1>6, <1>7, <1>8, <1>11, <1>12 DEF IInv

LEMMA ResampleBlockOK == ASSUME IInv, ResampleBlock PROVE IInv'
<1>1. blk \in Blocks /\ sample \in [Blocks -> Occ] /\ saved \in Occ /\ p \in Nat
  BY DEF IInv, TypeOK, ResampleBlock
<1>2. PICK o \in Occ : sample' = [sample EXCEPT ![blk] = o]
  <2>1. PICK d \in Deriv[blk] :
          IF Randomizing
          THEN \E o \in Shrunk(d) : sample' = [sample EXCEPT ![blk] = o]
          ELSE sample' = [sample EXCEPT ![blk] = d]
    BY DEF ResampleBlock
  <2>2. d \in Occ BY <1>1, ModelAssumption
  <2>3. ASSUME NEW o \in Shrunk(d) PROVE o \in Occ BY <2>2 DEF Shrunk, Occ
  <2> QED BY <2>1, <2>2, <2>3
<1>3. p' \in Nat
  <2>1. p' = 0 \/ \E q \in Prob : p' = p * q BY DEF ResampleBlock
  <2>2. CASE p' = 0 BY <2>2
  <2>3. ASSUME NEW q \in Prob, p' = p * q PROVE p' \in Nat
    <3>1. q \in Nat BY ChoiceAssumption
    <3> QED BY <1>1, <2>3, <3>1
  <2> QED BY <2>1, <2>2, <2>3
<1>4. /\ pc = "resample" /\ pc' = "add"
      /\ UNCHANGED <<gopt, r, numbers, scales, iter, time, blk, saved, stats, init_prob,
                     priors, uses, best_sample, best_counts>>
  BY DEF ResampleBlock, position, scaling, chosen, history
<1>5. sample' \in [Blocks -> Occ] BY <1>1, <1>2
<1>6. TypeOK' BY <1>1, <1>3, <1>4, <1>5 DEF IInv, TypeOK, numbers
<1>7. ClockOK' BY <1>4 DEF IInv, ClockOK, BeforeEnd, Running
<1>8. NormsAgree' BY <1>4 DEF IInv, NormsAgree, Count, numbers
<1>9. Counted' = Counted
  <2>1. Counted = [sample EXCEPT ![blk] = saved] BY <1>4 DEF Counted
  <2>2. Counted' = [sample' EXCEPT ![blk] = saved] BY <1>4 DEF Counted
  <2> QED BY <1>1, <1>2, <2>1, <2>2
<1>10. CountsExplained'
  BY <1>4, <1>9 DEF IInv, CountsExplained, Held, Count, numbers, Running
<1>11. Elapsed' = Elapsed /\ \A i \in Params : Due(i)' = Due(i)
  BY <1>4 DEF Elapsed, Due, numbers
<1>12. Integrals' BY <1>4, <1>11 DEF IInv, Integrals, numbers, Running
<1> QED BY <1>6, <1>7, <1>8, <1>10, <1>12 DEF IInv

LEMMA AddBlockOK == ASSUME IInv, AddBlock PROVE IInv'
<1> DEFINE w == Weight[blk]
           without == AddUses(sumcount, saved, -w, time)
           lower == AddToNorms(normsum, saved, -w)
<1>1. /\ sumcount \in [Params -> DS] /\ normsum \in [Groups -> Int]
      /\ blk \in Blocks /\ sample \in [Blocks -> Occ] /\ sample[blk] \in Occ /\ saved \in Occ
      /\ w \in Nat /\ -w \in Int /\ w \in Int /\ time \in Nat
      /\ prior \in Occ /\ uses \in Occ
  <2>1. blk \in Blocks BY DEF IInv, TypeOK, AddBlock
  <2>2. w \in Nat BY <2>1, ModelAssumption
  <2> QED BY <2>1, <2>2 DEF IInv, TypeOK
<1>2. sumcount' = AddUses(without, sample[blk], w, time)
      /\ normsum' = AddToNorms(lower, sample[blk], w)
  BY DEF AddBlock
<1> HIDE DEF w
<1>3. without \in [Params -> DS] /\ NormsOf(lower, without) /\ lower \in [Groups -> Int]
  <2>1. NormsOf(normsum, sumcount) BY NormsAgreeIs DEF IInv
  <2> QED BY <1>1, <2>1, AddUsesNorms
<1> HIDE DEF without, lower
<1>4. sumcount' \in [Params -> DS] /\ normsum' \in [Groups -> Int] /\ NormsOf(normsum', sumcount')
  BY <1>1, <1>2, <1>3, AddUsesNorms
<1>5. /\ pc = "add" /\ pc' = (IF blk < NBlock THEN "remove" ELSE "propose") /\ blk' = blk + 1
      /\ UNCHANGED <<gopt, r, prior, sample, scales, iter, time, saved, p, stats, init_prob,
                     priors, uses, best_sample, best_counts>>
  BY DEF AddBlock, scaling, drawing, chosen, history
<1>6. TypeOK'
  <2>1. blk + 1 \in 1..(NBlock + 1) /\ (blk < NBlock => blk + 1 \in Blocks)
    BY <1>1, SizeAssumption DEF Blocks
  <2>2. pc' \in {"remove", "resample", "add"} => blk' \in Blocks BY <1>5, <2>1
  <2> QED BY <1>4, <1>5, <2>1, <2>2 DEF IInv, TypeOK
<1>7. pc \in BeforeEnd /\ pc' \in BeforeEnd BY <1>5 DEF BeforeEnd, Running
<1>8. ClockOK' BY <1>5, <1>7 DEF IInv, ClockOK, BeforeEnd
<1>9. NormsAgree' BY <1>4 DEF NormsAgree, NormsOf, CountsOf, Count
<1>10. ASSUME NEW i \in Params, HasNorm(i)
       PROVE  /\ sumcount'[i].x = prior'[i] + UsesIn(Counted', i)
              /\ Known(sumcount'[i], Elapsed', Due(i)')
              /\ sumcount'[i].tmax <= time'
  <2>1. Elapsed' = Elapsed /\ Elapsed = time /\ Due(i)' = Due(i) /\ time' = time /\ prior' = prior
    BY <1>5 DEF Elapsed, Due
  <2>2. Known(sumcount[i], time, Due(i)) /\ Due(i) \in Int
    BY <1>1, <1>7, <1>10, <2>1 DEF IInv, Integrals, Due, Occ, BeforeEnd
  <2>3. Counted = [sample EXCEPT ![blk] = saved] /\ sumcount[i].x = prior[i] + UsesIn(Counted, i)
    BY <1>5, <1>7, <1>10 DEF IInv, CountsExplained, Held, Count, Counted, BeforeEnd
  <2>4. Counted' = sample BY <1>5 DEF Counted
  <2>5. Known(without[i], time, Due(i)) /\ without[i].x = sumcount[i].x + (-w) * saved[i]
    BY <1>1, <1>10, <2>2, AddUsesEffect DEF without
  <2>6. Known(sumcount'[i], time, Due(i)) /\ sumcount'[i].x = without[i].x + w * sample[blk][i]
    BY <1>1, <1>2, <1>3, <1>10, <2>2, <2>5, AddUsesEffect
  <2>7. UsesIn(Counted, i) = UsesIn(sample, i) + (w * saved[i] - w * sample[blk][i])
    BY <1>1, <2>3, UsesInOneChange DEF w
  <2>8. /\ sample[blk][i] \in Nat /\ saved[i] \in Nat /\ prior[i] \in Nat
        /\ UsesIn(sample, i) \in Nat
    BY <1>1, UsesInNat DEF Occ
  <2>9. /\ (-w) * saved[i] = -(w * saved[i])
        /\ w * saved[i] \in Int /\ w * sample[blk][i] \in Int
    BY <1>1, <2>8
  <2>10. sumcount'[i].x = prior'[i] + UsesIn(Counted', i)
    BY <2>1, <2>3, <2>4, <2>5, <2>6, <2>7, <2>8, <2>9
  <2> QED BY <2>1, <2>6, <2>10 DEF Known
<1>11. CountsExplained' BY <1>10 DEF CountsExplained, Held, Count
<1>12. Integrals' BY <1>10 DEF Integrals
<1> QED BY <1>6, <1>8, <1>9, <1>11, <1>12 DEF IInv

(* Scaling the priors, or scaling them back: the counts, group sums and
   integrals move with them, as if the priors had been so from the start. *)
LEMMA ScalePriorsKeep ==
  ASSUME IInv, NEW new \in Occ, ScalePriors(new),
         \A i \in Params : ScaleOf(i) = 0 => new[i] = prior[i],
         UNCHANGED <<sample, time, uses>>,
         pc \in {"propose", "judge"}, pc' \in {"judge", "record"}
  PROVE  /\ prior' \in Occ /\ sumcount' \in [Params -> DS] /\ normsum' \in [Groups -> Int]
         /\ NormsAgree' /\ CountsExplained' /\ Integrals'
<1> DEFINE change == [i \in Params |-> new[i] - prior[i]]
<1>1. /\ sumcount \in [Params -> DS] /\ normsum \in [Groups -> Int] /\ prior \in Occ
      /\ time \in Nat /\ uses \in Occ /\ sample \in [Blocks -> Occ]
  BY DEF IInv, TypeOK
<1>2. change \in [Params -> Int]
  <2>1. ASSUME NEW i \in Params PROVE new[i] - prior[i] \in Int BY <1>1 DEF Occ
  <2> QED BY <2>1
<1>3. ASSUME NEW i \in Params
      PROVE  /\ sumcount'[i] = IF ScaleOf(i) > 0 THEN AddBase(sumcount[i], change[i]) ELSE sumcount[i]
             /\ change[i] \in Int
             /\ ScaleOf(i) \in Nat
             /\ ~(ScaleOf(i) > 0) => change[i] = 0
  <2>1. ScaleOf(i) \in Nat
    BY NormAssumption, SizeAssumption DEF ScaleOf, HasNorm, NONORM
  <2>2. ~(ScaleOf(i) > 0) => new[i] = prior[i] /\ prior[i] \in Nat BY <1>1, <2>1 DEF Occ
  <2>3. change[i] = new[i] - prior[i] /\ change[i] \in Int BY <1>2
  <2>4. sumcount'[i] = IF ScaleOf(i) > 0 THEN AddBase(sumcount[i], new[i] - prior[i])
                       ELSE sumcount[i]
    BY DEF ScalePriors
  <2> QED BY <2>1, <2>2, <2>3, <2>4
<1>4. ASSUME NEW i \in Params
      PROVE  sumcount'[i] \in DS /\ sumcount'[i].x = sumcount[i].x + 1 * change[i]
  <2>1. /\ sumcount[i].x \in Int /\ sumcount[i].tmax \in Nat /\ sumcount[i].s \in Int
        /\ sumcount[i] \in DS /\ change[i] \in Int
    BY <1>1, <1>3, DSFields
  <2> HIDE DEF change
  <2>2. CASE ScaleOf(i) > 0
    <3>1. sumcount'[i] = AddBase(sumcount[i], change[i]) BY <1>3, <2>2
    <3>2. AddBase(sumcount[i], change[i]) \in DS
          /\ AddBase(sumcount[i], change[i]).x = sumcount[i].x + change[i]
      BY <2>1, AddBaseType
    <3> QED BY <2>1, <3>1, <3>2
  <2>3. CASE ~(ScaleOf(i) > 0) BY <1>3, <2>1, <2>3
  <2> QED BY <2>2, <2>3
<1>5. sumcount' \in [Params -> DS] BY <1>4 DEF ScalePriors
<1>6. normsum' = [g \in Groups |-> normsum[g] + 1 * GroupSum(change, g)]
  <2>1. \A g \in Groups : GroupSum(change, g) \in Int BY <1>2, GroupSumInt
  <2>2. normsum' = [g \in Groups |-> normsum[g] + GroupSum(change, g)] BY DEF ScalePriors
  <2> HIDE DEF change
  <2> QED BY <2>1, <2>2
<1>7. NormsOf(normsum', sumcount') /\ normsum' \in [Groups -> Int]
  <2>1. NormsOf(normsum, sumcount) BY NormsAgreeIs DEF IInv
  <2>2. \A i \in Params : HasNorm(i) => sumcount'[i].x = sumcount[i].x + 1 * change[i] BY <1>4
  <2> HIDE DEF change
  <2> QED BY <1>1, <1>2, <1>5, <1>6, <2>1, <2>2, NormsFollow, SMTT(30)
<1>8. NormsAgree' BY <1>7 DEF NormsAgree, NormsOf, CountsOf, Count
<1>9. prior' = new /\ pc \in Running /\ pc' \in Running BY DEF ScalePriors, Running
<1>10. ASSUME NEW i \in Params, HasNorm(i)
       PROVE  /\ sumcount'[i].x = prior'[i] + UsesIn(Counted', i)
              /\ Known(sumcount'[i], Elapsed', Due(i)')
              /\ sumcount'[i].tmax <= time'
  <2>1. Elapsed = time /\ Elapsed' = time /\ time' = time BY DEF Elapsed
  <2>2. Counted = sample /\ Counted' = sample BY DEF Counted
  <2>3. sumcount[i].x = prior[i] + UsesIn(sample, i)
    BY <1>9, <1>10, <2>2 DEF IInv, CountsExplained, Held, Count
  <2>4. /\ Known(sumcount[i], time, Due(i)) /\ sumcount[i].tmax <= time
        /\ Due(i) = uses[i] + prior[i] * time
        /\ Due(i)' = uses[i] + new[i] * time
    BY <1>9, <1>10, <2>1 DEF IInv, Integrals, Due
  <2>5. prior[i] \in Nat /\ new[i] \in Nat /\ uses[i] \in Nat /\ UsesIn(sample, i) \in Nat
    BY <1>1, UsesInNat DEF Occ
  <2>6. change[i] = new[i] - prior[i] /\ change[i] \in Int BY <1>3
  <2> HIDE DEF change
  <2>7. sumcount'[i].x = new[i] + UsesIn(sample, i) BY <1>4, <2>3, <2>5, <2>6
  <2>8. Due(i) \in Int /\ Due(i)' = Due(i) + change[i] * time
    <3>1. \A a, b, t \in Int : b * t = a * t + (b - a) * t OBVIOUS
    <3>2. new[i] * time = prior[i] * time + (new[i] - prior[i]) * time BY <1>1, <2>5, <3>1
    <3>3. /\ prior[i] * time \in Int /\ new[i] * time \in Int
          /\ (new[i] - prior[i]) * time \in Int
      BY <1>1, <2>5
    <3> QED BY <2>4, <2>5, <2>6, <3>2, <3>3
  <2>9. Known(sumcount'[i], time, Due(i)') /\ sumcount'[i].tmax <= time
    <3>1. CASE ScaleOf(i) > 0
      <4>1. sumcount'[i] = AddBase(sumcount[i], change[i]) BY <1>3, <3>1
      <4>2. Known(AddBase(sumcount[i], change[i]), time, Due(i) + change[i] * time)
        BY <1>1, <2>4, <2>6, <2>8, KnownBase
      <4>3. AddBase(sumcount[i], change[i]).tmax = sumcount[i].tmax BY DEF AddBase
      <4> QED BY <2>4, <2>8, <4>1, <4>2, <4>3
    <3>2. CASE ~(ScaleOf(i) > 0)
      <4>1. sumcount'[i] = sumcount[i] /\ change[i] = 0 BY <1>3, <3>2
      <4>2. Due(i)' = Due(i) BY <1>1, <2>8, <4>1
      <4> QED BY <2>4, <4>1, <4>2
    <3> QED BY <3>1, <3>2
  <2> QED BY <1>9, <2>1, <2>2, <2>7, <2>9
<1>11. CountsExplained' BY <1>10 DEF CountsExplained, Held, Count
<1>12. Integrals' BY <1>10 DEF Integrals
<1> QED BY <1>5, <1>7, <1>8, <1>9, <1>11, <1>12

LEMMA ProposePriorsOK == ASSUME IInv, ProposePriors PROVE IInv'
<1>1. PICK k \in [Scales -> Ratio] : scales' = k /\ ScalePriors(ScaledUp(k))
  BY DEF ProposePriors
<1>2. k \in [Scales -> Nat \ {0}] BY ChoiceAssumption
<1>3. ASSUME NEW i \in Params
      PROVE  ScaledUp(k)[i] \in Nat /\ (ScaleOf(i) = 0 => ScaledUp(k)[i] = prior[i])
  <2>1. prior[i] \in Nat BY DEF IInv, TypeOK, Occ
  <2>2. ScaleOf(i) \in 0..NScale
    BY NormAssumption, SizeAssumption DEF ScaleOf, HasNorm, NONORM
  <2>3. CASE ScaleOf(i) > 0
    <3>1. ScaleOf(i) \in Scales BY <2>2, <2>3, SizeAssumption DEF Scales
    <3>2. k[ScaleOf(i)] \in Nat BY <1>2, <3>1
    <3>3. ScaledUp(k)[i] = prior[i] * k[ScaleOf(i)] BY <2>3 DEF ScaledUp
    <3> QED BY <2>1, <2>3, <3>2, <3>3
  <2>4. CASE ~(ScaleOf(i) > 0) BY <2>1, <2>4 DEF ScaledUp
  <2> QED BY <2>3, <2>4
<1>4. ScaledUp(k) \in Occ BY <1>3 DEF ScaledUp, Occ
<1>5. /\ pc = "propose" /\ pc' = "judge"
      /\ UNCHANGED <<gopt, r, sample, iter, time, blk, saved, p, init_prob, stats, priors, uses,
                     best_sample, best_counts>>
  BY DEF ProposePriors, position, drawing, chosen, history
<1>6. /\ prior' \in Occ /\ sumcount' \in [Params -> DS] /\ normsum' \in [Groups -> Int]
      /\ NormsAgree' /\ CountsExplained' /\ Integrals'
  BY <1>1, <1>3, <1>4, <1>5, ScalePriorsKeep
<1>7. TypeOK' BY <1>1, <1>2, <1>5, <1>6 DEF IInv, TypeOK
<1>8. ClockOK' BY <1>5 DEF IInv, ClockOK, BeforeEnd, Running
<1> QED BY <1>6, <1>7, <1>8 DEF IInv

LEMMA RejectPriorsOK == ASSUME IInv, RejectPriors PROVE IInv'
<1> DEFINE new == ScaledBack(scales)
<1>1. scales \in [Scales -> Nat \ {0}] BY DEF IInv, TypeOK
<1>2. ASSUME NEW i \in Params
      PROVE  new[i] \in Nat /\ (ScaleOf(i) = 0 => new[i] = prior[i])
  <2>1. prior[i] \in Nat BY DEF IInv, TypeOK, Occ
  <2>2. ScaleOf(i) \in 0..NScale
    BY NormAssumption, SizeAssumption DEF ScaleOf, HasNorm, NONORM
  <2>3. CASE ScaleOf(i) > 0
    <3>1. ScaleOf(i) \in Scales BY <2>2, <2>3, SizeAssumption DEF Scales
    <3>2. scales[ScaleOf(i)] \in Nat /\ scales[ScaleOf(i)] > 0 BY <1>1, <3>1
    <3>3. new[i] = prior[i] \div scales[ScaleOf(i)] BY <2>3 DEF ScaledBack
    <3>4. \A a, b \in Nat : b > 0 => a \div b \in Nat OBVIOUS
    <3> QED BY <2>1, <2>3, <3>2, <3>3, <3>4
  <2>4. CASE ~(ScaleOf(i) > 0) BY <2>1, <2>4 DEF ScaledBack
  <2> QED BY <2>3, <2>4
<1>3. new \in Occ BY <1>2 DEF ScaledBack, Occ
<1>4. /\ pc = "judge" /\ pc' = "record" /\ ScalePriors(new)
      /\ UNCHANGED <<gopt, r, sample, scales, iter, time, blk, saved, p, init_prob, stats, priors,
                     uses, best_sample, best_counts>>
  BY DEF RejectPriors, position, drawing, chosen, history
<1> HIDE DEF new
<1>5. /\ prior' \in Occ /\ sumcount' \in [Params -> DS] /\ normsum' \in [Groups -> Int]
      /\ NormsAgree' /\ CountsExplained' /\ Integrals'
  BY <1>2, <1>3, <1>4, ScalePriorsKeep
<1>6. TypeOK' BY <1>1, <1>4, <1>5 DEF IInv, TypeOK
<1>7. ClockOK' BY <1>4 DEF IInv, ClockOK, BeforeEnd, Running
<1> QED BY <1>5, <1>6, <1>7 DEF IInv

LEMMA AcceptPriorsOK == ASSUME IInv, AcceptPriors PROVE IInv'
<1> USE DEF AcceptPriors, numbers, position, drawing, scaling, chosen, history
<1>1. TypeOK' BY DEF IInv, TypeOK
<1>2. ClockOK' BY DEF IInv, ClockOK, BeforeEnd, Running
<1>3. NormsAgree' /\ CountsExplained' /\ Integrals' BY Untouched DEF Running
<1> QED BY <1>1, <1>2, <1>3 DEF IInv

LEMMA UnimplementedOK == ASSUME IInv, Unimplemented PROVE IInv'
<1> USE DEF Unimplemented, numbers, position, drawing, scaling, chosen, history
<1>1. TypeOK' BY DEF IInv, TypeOK
<1>2. ClockOK' BY DEF IInv, ClockOK, BeforeEnd, Running
<1>3. NormsAgree' BY DEF IInv, NormsAgree, Count
<1>4. CountsExplained' /\ Integrals' BY DEF CountsExplained, Integrals, Running
<1> QED BY <1>1, <1>2, <1>3, <1>4 DEF IInv

LEMMA RecordIterationOK == ASSUME IInv, RecordIteration PROVE IInv'
<1> DEFINE Later == IF iter + 1 > gopt.burnin THEN iter + 1 - gopt.burnin ELSE 0
<1>1. /\ gopt.iter \in Nat /\ gopt.burnin \in Nat /\ gopt.burnin <= gopt.iter
      /\ iter \in Nat /\ time \in Nat /\ prior \in Occ /\ uses \in Occ
      /\ sumcount \in [Params -> DS] /\ sample \in [Blocks -> Occ]
      /\ stats \in [n : Nat, sum : Nat, all : Nat, final : Nat] /\ p \in Nat
  BY OptionFields DEF IInv, TypeOK, ClockOK
<1>2. /\ pc \in {"record", "propose"} /\ pc \in BeforeEnd /\ iter' = iter + 1
      /\ UNCHANGED <<gopt, r, prior, sumcount, normsum, sample, blk, scales, saved, p, init_prob,
                     priors, best_sample, best_counts>>
  BY DEF RecordIteration, numbers, scaling, drawing, chosen, BeforeEnd, Running
<1>3. iter <= gopt.iter /\ stats.n = time /\ time = IF iter > gopt.burnin THEN iter - gopt.burnin ELSE 0
  BY <1>2 DEF IInv, ClockOK
<1>4. /\ iter < gopt.iter => time' = Later /\ pc' = "iteration"
      /\ ~(iter < gopt.iter) => time' = time /\ pc' = "endrun"
  <2>1. /\ iter < gopt.iter => time' = iter' - AtMost(gopt.burnin, iter') /\ pc' = "iteration"
        /\ ~(iter < gopt.iter) => time' = time /\ pc' = "endrun"
    BY Zenon DEF RecordIteration
  <2>2. iter' - AtMost(gopt.burnin, iter') = Later BY <1>1, <1>2 DEF AtMost
  <2> HIDE DEF Later
  <2> QED BY <2>1, <2>2
<1>5. IF burning THEN stats' = record(stats, p) /\ uses' = [i \in Params |-> uses[i] + UsesIn(sample, i)]
                 ELSE stats' = stats /\ uses' = uses
  BY DEF RecordIteration
<1>6. stats' \in [n : Nat, sum : Nat, all : Nat, final : Nat]
      /\ stats'.n = IF burning THEN time + 1 ELSE time
  BY <1>1, <1>3, <1>5 DEF record
<1>7. uses' \in Occ
  <2>1. \A i \in Params : UsesIn(sample, i) \in Nat /\ uses[i] \in Nat BY <1>1, UsesInNat DEF Occ
  <2> QED BY <1>1, <1>5, <2>1 DEF Occ
<1>8. /\ time' \in Nat /\ time <= time'
      /\ Elapsed = time
      /\ Elapsed' = IF burning THEN time + 1 ELSE time
      /\ ~burning => time = 0
      /\ pc' \in {"iteration", "endrun"}
  <2>1. CASE iter < gopt.iter
    <3>1. pc' = "iteration" /\ time' = Later BY <1>4, <2>1
    <3> QED BY <1>1, <1>2, <1>3, <3>1 DEF AtMost, Elapsed, burning
  <2>2. CASE ~(iter < gopt.iter)
    <3>1. pc' = "endrun" /\ time' = time BY <1>4, <2>2
    <3> QED BY <1>1, <1>2, <1>3, <2>2, <3>1 DEF Elapsed, burning
  <2> QED BY <2>1, <2>2
<1>9. TypeOK' BY <1>2, <1>6, <1>7, <1>8, <1>1 DEF IInv, TypeOK
<1>10. ClockOK'
  <2>1. CASE iter < gopt.iter
    <3>1. pc' = "iteration" /\ time' = Later BY <1>4, <2>1
    <3>2. iter' <= gopt'.iter BY <1>1, <1>2, <2>1
    <3>3. time' = IF iter' > gopt'.burnin THEN iter' - gopt'.burnin ELSE 0
      BY <1>1, <1>2, <3>1 DEF AtMost
    <3>4. stats'.n = time' BY <1>1, <1>2, <1>3, <1>6, <3>1 DEF AtMost, burning
    <3> QED BY <1>2, <3>1, <3>2, <3>3, <3>4 DEF IInv, ClockOK
  <2>2. CASE ~(iter < gopt.iter)
    <3>1. pc' = "endrun" /\ time' = time BY <1>4, <2>2
    <3>2. burning /\ time = gopt.iter - gopt.burnin BY <1>1, <1>3, <2>2 DEF burning
    <3>3. stats'.n = time' + 1 BY <1>6, <3>1, <3>2
    <3> QED BY <1>2, <3>1, <3>2, <3>3 DEF IInv, ClockOK, BeforeEnd, final_t
  <2> QED BY <2>1, <2>2
<1>11. NormsAgree' BY <1>2 DEF IInv, NormsAgree, Count
<1>12. Counted = sample /\ Counted' = sample BY <1>2, <1>8 DEF Counted
<1>13. CountsExplained'
  BY <1>2, <1>12 DEF IInv, CountsExplained, Held, Count, BeforeEnd
<1>14. ASSUME NEW i \in Params, HasNorm(i)
       PROVE  Known(sumcount'[i], Elapsed', Due(i)') /\ sumcount'[i].tmax <= time'
  <2>1. /\ Known(sumcount[i], time, Due(i)) /\ sumcount[i].tmax <= time
        /\ Due(i) = uses[i] + prior[i] * time
        /\ sumcount[i].x = prior[i] + UsesIn(sample, i)
    BY <1>2, <1>8, <1>12, <1>14 DEF IInv, Integrals, CountsExplained, Held, Count, Due, BeforeEnd
  <2>2. /\ prior[i] \in Nat /\ uses[i] \in Nat /\ UsesIn(sample, i) \in Nat /\ sumcount[i] \in DS
        /\ sumcount[i].tmax \in Nat
    BY <1>1, UsesInNat, DSFields DEF Occ
  <2>3. Due(i) \in Int BY <1>1, <2>1, <2>2
  <2>4. CASE burning
    <3>1. Due(i)' = (uses[i] + UsesIn(sample, i)) + prior[i] * (time + 1)
      BY <1>2, <1>5, <1>8, <2>4 DEF Due
    <3>2. \A a, t \in Int : a * (t + 1) = a * t + a OBVIOUS
    <3>3. prior[i] * (time + 1) = prior[i] * time + prior[i] /\ prior[i] * time \in Int
      BY <1>1, <2>2, <3>2
    <3>4. Due(i)' = Due(i) + sumcount[i].x BY <2>1, <2>2, <3>1, <3>3
    <3>5. Known(sumcount[i], time + 1, Due(i) + sumcount[i].x) BY <1>1, <2>1, <2>2, <2>3, KnownLater
    <3> QED BY <1>1, <1>2, <1>8, <2>1, <2>2, <2>4, <3>4, <3>5
  <2>5. CASE ~burning
    <3>1. Due(i)' = Due(i) BY <1>2, <1>5, <1>8, <2>1, <2>5 DEF Due
    <3> QED BY <1>1, <1>2, <1>8, <2>1, <2>2, <2>5, <3>1
  <2> QED BY <2>4, <2>5
<1>15. Integrals' BY <1>14 DEF Integrals
<1> QED BY <1>9, <1>10, <1>11, <1>13, <1>15 DEF IInv

(* what excluding the prior and finalizing do to one parameter *)
LEMMA ExcludePrior ==
  ASSUME sumcount \in [Params -> DS], prior \in Occ, NEW i \in Params
  PROVE  LET o == sumcount[i]
             e == exclude_prior(sumcount)[i]
         IN  /\ e \in DS
             /\ e = IF HasNorm(i) /\ gopt.exclude_prior THEN AddBase(o, -prior[i]) ELSE o
<1>1. sumcount[i] \in DS /\ prior[i] \in Nat /\ -prior[i] \in Int BY DEF Occ
<1>2. exclude_prior(sumcount)[i]
        = IF HasNorm(i) /\ gopt.exclude_prior THEN AddBase(sumcount[i], -prior[i]) ELSE sumcount[i]
  BY DEF exclude_prior
<1> QED BY <1>1, <1>2, AddBaseType

LEMMA FinalizedType ==
  ASSUME sumcount \in [Params -> DS], prior \in Occ, final_t \in Nat
  PROVE  Finalized \in [Params -> DS]
<1>1. ASSUME NEW i \in Params PROVE Finalized[i] \in DS
  <2> DEFINE o == exclude_prior(sumcount)[i]
  <2>1. o \in DS BY ExcludePrior
  <2>2. Finalized[i] = IF HasNorm(i) /\ ~gopt.final_counts THEN final_counts(o, final_t + 1) ELSE o
    BY DEF Finalized
  <2> HIDE DEF o
  <2>3. o.x \in Int /\ o.tmax \in Nat /\ o.s \in Int BY <2>1, DSFields
  <2>4. o.s + o.x * ((final_t + 1) - o.tmax) \in Int /\ final_t + 1 \in Nat BY <2>3
  <2>5. final_counts(o, final_t + 1) \in DS BY <2>3, <2>4 DEF final_counts, Extend, DS
  <2> QED BY <2>1, <2>2, <2>5
<1> QED BY <1>1 DEF Finalized

LEMMA EndRunOK == ASSUME IInv, EndRun PROVE IInv'
<1>1. /\ sumcount \in [Params -> DS] /\ prior \in Occ /\ normsum \in [Groups -> Int]
      /\ sample \in [Blocks -> Occ] /\ best_sample \in [Blocks -> Occ] /\ r \in Nat
      /\ best_counts \in [Params -> Int]
  BY DEF IInv, TypeOK
<1>2. final_t \in Nat
  BY OptionFields DEF IInv, TypeOK, ClockOK, final_t
<1>3. Finalized \in [Params -> DS] BY <1>1, <1>2, FinalizedType
<1>4. NormsOf(FinalNorms, Finalized) /\ FinalNorms \in [Groups -> Int]
  <2>1. CASE gopt.final_counts /\ ~gopt.exclude_prior
    <3>1. FinalNorms = normsum BY <2>1 DEF FinalNorms
    <3>2. Finalized = sumcount BY <1>1, <2>1 DEF Finalized, exclude_prior
    <3>3. NormsOf(normsum, sumcount) BY NormsAgreeIs DEF IInv
    <3> QED BY <1>1, <3>1, <3>2, <3>3
  <2>2. CASE ~(gopt.final_counts /\ ~gopt.exclude_prior)
    <3>1. FinalNorms = [g \in Groups |-> GroupSum(CountsOf(Finalized), g)]
      BY <2>2 DEF FinalNorms, compute_norms, CountsOf
    <3>2. CountsOf(Finalized) \in [Params -> Int] BY <1>3, CountsOfType
    <3>3. \A g \in Groups : GroupSum(CountsOf(Finalized), g) \in Int BY <3>2, GroupSumInt
    <3> QED BY <3>1, <3>3 DEF NormsOf
  <2> QED BY <2>1, <2>2
<1>5. /\ pc = "endrun" /\ pc' \in {"start", "finish"} /\ r' = r + 1
      /\ UNCHANGED <<gopt, prior, scales, iter, time, blk, saved, p, init_prob, stats, priors, uses>>
  BY DEF EndRun, scaling, position, drawing
<1>6. /\ sumcount' \in [Params -> DS] /\ normsum' \in [Groups -> Int]
      /\ NormsOf(normsum', sumcount')
      /\ best_counts' \in [Params -> Int]
      /\ sample' \in [Blocks -> Occ] /\ best_sample' \in [Blocks -> Occ]
  <2>1. CASE r = 0 \/ better(stats, best)
    <3>1. /\ sumcount' = Finalized /\ normsum' = FinalNorms
          /\ best_counts' = CountsOf(Finalized)
          /\ best_sample' = sample /\ sample' = best_sample
      BY <2>1 DEF EndRun, CountsOf
    <3>2. CountsOf(Finalized) \in [Params -> Int] BY <1>3, CountsOfType
    <3> QED BY <1>1, <1>3, <1>4, <3>1, <3>2
  <2>2. CASE ~(r = 0 \/ better(stats, best))
    <3>1. UNCHANGED <<sumcount, normsum, best_counts, best_sample, sample>> BY <2>2 DEF EndRun
    <3>2. NormsOf(normsum, sumcount) BY NormsAgreeIs DEF IInv
    <3> QED BY <1>1, <3>1, <3>2
  <2> QED BY <2>1, <2>2
<1>7. TypeOK' BY <1>1, <1>5, <1>6 DEF IInv, TypeOK
<1>8. ClockOK' BY <1>5 DEF IInv, ClockOK, BeforeEnd, Running
<1>9. NormsAgree' BY <1>6 DEF NormsAgree, NormsOf, CountsOf, Count
<1>10. CountsExplained' /\ Integrals' BY <1>5 DEF CountsExplained, Integrals, Running
<1> QED BY <1>7, <1>8, <1>9, <1>10 DEF IInv

LEMMA FinishStartsOK == ASSUME IInv, FinishStarts PROVE IInv'
<1>1. /\ sumcount \in [Params -> DS] /\ normsum \in [Groups -> Int]
      /\ sample \in [Blocks -> Occ] /\ best_sample \in [Blocks -> Occ]
      /\ best_counts \in [Params -> Int]
  BY DEF IInv, TypeOK
<1>2. /\ pc' = "done" /\ sample' = best_sample /\ best_sample' = sample
      /\ UNCHANGED <<gopt, r, prior, scales, iter, time, blk, saved, p, init_prob, stats, priors,
                     best_counts, uses>>
  BY DEF FinishStarts, scaling, position, drawing, history
<1>3. sumcount' \in [Params -> DS] /\ normsum' \in [Groups -> Int] /\ NormsOf(normsum', sumcount')
  <2>1. CASE gopt.restarts > 0
    <3>1. sumcount' = [i \in Params |-> [sumcount[i] EXCEPT !.x = best_counts[i]]]
          /\ normsum' = compute_norms(sumcount')
      BY <2>1 DEF FinishStarts
    <3>2. sumcount' \in [Params -> DS] BY <1>1, <3>1 DEF DS
    <3>3. normsum' = [g \in Groups |-> GroupSum(CountsOf(sumcount'), g)]
      BY <3>1 DEF compute_norms, CountsOf
    <3>4. CountsOf(sumcount') \in [Params -> Int] BY <3>2, CountsOfType
    <3>5. \A g \in Groups : GroupSum(CountsOf(sumcount'), g) \in Int BY <3>4, GroupSumInt
    <3> QED BY <3>2, <3>3, <3>5 DEF NormsOf
  <2>2. CASE ~(gopt.restarts > 0)
    <3>1. sumcount' = sumcount /\ normsum' = normsum BY <2>2 DEF FinishStarts
    <3>2. NormsOf(normsum, sumcount) BY NormsAgreeIs DEF IInv
    <3> QED BY <1>1, <3>1, <3>2
  <2> QED BY <2>1, <2>2
<1>4. TypeOK' BY <1>1, <1>2, <1>3 DEF IInv, TypeOK
<1>5. ClockOK' BY <1>2 DEF IInv, ClockOK, BeforeEnd, Running
<1>6. NormsAgree' BY <1>3 DEF NormsAgree, NormsOf, CountsOf, Count
<1>7. CountsExplained' /\ Integrals' BY <1>2 DEF CountsExplained, Integrals, Running
<1> QED BY <1>4, <1>5, <1>6, <1>7 DEF IInv

LEMMA StutterOK == ASSUME IInv, UNCHANGED vars PROVE IInv'
<1> USE DEF vars, numbers, position, drawing, scaling, chosen, history
<1>1. TypeOK' BY DEF IInv, TypeOK
<1>2. ClockOK' BY DEF IInv, ClockOK, final_t
<1>3. NormsAgree' BY DEF IInv, NormsAgree, Count
<1>4. Counted' = Counted BY DEF Counted
<1>5. CountsExplained' BY <1>4 DEF IInv, CountsExplained, Held, Count
<1>6. Elapsed' = Elapsed /\ \A i \in Params : Due(i)' = Due(i) BY DEF Elapsed, Due
<1>7. Integrals' BY <1>6 DEF IInv, Integrals
<1> QED BY <1>1, <1>2, <1>3, <1>5, <1>7 DEF IInv

LEMMA Inductive == IInv /\ [Next]_vars => IInv'
<1> SUFFICES ASSUME IInv, [Next]_vars PROVE IInv' OBVIOUS
<1> USE RunStartsOK, StartRunOK, BeginIterationOK, RemoveBlockOK, ResampleBlockOK, AddBlockOK,
        ProposePriorsOK, AcceptPriorsOK, RejectPriorsOK, UnimplementedOK, RecordIterationOK,
        EndRunOK, FinishStartsOK, StutterOK
<1>1. CASE Step BY <1>1 DEF Step
<1>2. CASE Terminated BY <1>2 DEF Terminated
<1>3. CASE UNCHANGED vars BY <1>3
<1> QED BY <1>1, <1>2, <1>3 DEF Next

LEMMA Invariant == Spec => []IInv
<1>1. Init => IInv BY InitOK
<1>2. IInv /\ [Next]_vars => IInv' BY Inductive
<1> QED BY <1>1, <1>2, PTL DEF Spec

(* Every variable keeps its type through every step of every run: counts stay
   integers, samples stay bags of parameters, the block index never leaves the
   sample. *)
THEOREM GibbsTypes == Spec => []TypeOK
<1>1. IInv => TypeOK BY DEF IInv
<1> QED BY <1>1, Invariant, PTL

(* addc, restore_p0, scale_priors, finalize_cumulative_counts and restore
   never let a count drift from its prior plus the weighted uses in the current
   samples, nor a group's sum from the counts of its members. *)
THEOREM CountsAndNorms == Spec => [](CountsExplained /\ NormsAgree)
<1>1. IInv => CountsExplained /\ NormsAgree BY DEF IInv
<1> QED BY <1>1, Invariant, PTL

(* delta_sum is never asked about a time it has forgotten. *)
THEOREM NoForgottenTime == Spec => []PastNotAsked
<1>1. IInv => PastNotAsked
  <2> SUFFICES ASSUME IInv, NEW i \in Params, HasNorm(i)
               PROVE  /\ pc \in Running => sumcount[i].tmax <= time
                      /\ pc = "endrun" => CanReach(sumcount[i], final_t + 1)
    BY DEF PastNotAsked
  <2>1. pc \in Running => sumcount[i].tmax <= time BY DEF IInv, Integrals
  <2>2. ASSUME pc = "endrun" PROVE CanReach(sumcount[i], final_t + 1)
    <3>1. time = final_t /\ time \in Nat /\ sumcount[i] \in DS BY <2>2 DEF IInv, TypeOK, ClockOK
    <3>2. sumcount[i].tmax <= time /\ sumcount[i].tmax \in Nat
      BY <2>1, <2>2, <3>1, DSFields DEF Running
    <3> QED BY <3>1, <3>2 DEF CanReach
  <2> QED BY <2>1, <2>2
<1> QED BY <1>1, Invariant, PTL

(* Whatever was sampled, rescaled and rejected on the way, what a run leaves
   in its counts is exactly the uses summed over the samples from burnin on,
   each with the final prior unless priors are excluded. *)
THEOREM AveragesAreExact == Spec => []AverageExact
<1>1. IInv => AverageExact
  <2> SUFFICES ASSUME IInv, pc = "endrun" PROVE AverageExact BY DEF AverageExact
  <2>1. /\ sumcount \in [Params -> DS] /\ prior \in Occ /\ uses \in Occ /\ time \in Nat
        /\ final_t = time /\ stats.n = time + 1
        /\ gopt.final_counts => time = 0
    BY OptionFields DEF IInv, TypeOK, ClockOK, final_t
  <2>2. ASSUME NEW i \in Params, HasNorm(i) PROVE Finalized[i].x = Averaged[i]
    <3> DEFINE o == sumcount[i]
               e == exclude_prior(sumcount)[i]
               left == IF gopt.exclude_prior THEN 0 ELSE prior[i]
    <3>1. /\ o \in DS /\ prior[i] \in Nat /\ -prior[i] \in Int /\ uses[i] \in Nat
          /\ o.x \in Int /\ o.tmax \in Nat /\ o.s \in Int /\ left \in Int
      BY <2>1, DSFields DEF Occ
    <3>2. Known(o, time + 1, uses[i] + prior[i] * (time + 1)) /\ o.tmax <= time
      BY <2>2 DEF IInv, Integrals, Elapsed, Due, Running
    <3>3. Averaged[i] = uses[i] + left * (time + 1)
      <4>1. 0 * (time + 1) = 0 BY <2>1
      <4> QED BY <2>1, <2>2, <4>1 DEF Averaged
    <3>4. e = IF gopt.exclude_prior THEN AddBase(o, -prior[i]) ELSE o
      BY <2>1, <2>2, ExcludePrior
    <3> HIDE DEF o, e
    <3>5. Known(e, time + 1, uses[i] + left * (time + 1)) /\ e.tmax <= time
      <4>1. CASE gopt.exclude_prior
        <5>1. uses[i] + prior[i] * (time + 1) \in Int BY <2>1, <3>1
        <5>2. Known(e, time + 1, (uses[i] + prior[i] * (time + 1)) + (-prior[i]) * (time + 1))
          <6> HIDE DEF left
          <6>1. time + 1 \in Nat BY <2>1
          <6>2. e = AddBase(o, -prior[i]) BY <3>4, <4>1
          <6>3. \A a \in Int : Known(o, time + 1, a)
                  => Known(AddBase(o, -prior[i]), time + 1, a + (-prior[i]) * (time + 1))
            BY ONLY <3>1, <6>1, KnownBase
          <6> QED BY <3>2, <5>1, <6>2, <6>3
        <5>3. (uses[i] + prior[i] * (time + 1)) + (-prior[i]) * (time + 1)
                = uses[i] + left * (time + 1)
          <6>1. \A a, t \in Int : (-a) * t = -(a * t) /\ a * t \in Int /\ 0 * t = 0 OBVIOUS
          <6>2. (-prior[i]) * (time + 1) = -(prior[i] * (time + 1)) /\ prior[i] * (time + 1) \in Int
                /\ 0 * (time + 1) = 0
            BY <2>1, <3>1, <6>1
          <6> QED BY <3>1, <4>1, <6>2
        <5>4. e.tmax = o.tmax BY <3>4, <4>1 DEF AddBase
        <5> HIDE DEF left
        <5> QED BY <3>2, <5>2, <5>3, <5>4
      <4>2. CASE ~gopt.exclude_prior BY <3>2, <3>4, <4>2
      <4> QED BY <4>1, <4>2
    <3> HIDE DEF left
    <3>6. e.x \in Int /\ e.tmax \in Nat /\ e.s \in Int
          /\ e.s + e.x * ((time + 1) - e.tmax) = uses[i] + left * (time + 1)
          /\ (e.tmax = 0 => e.s = 0)
      BY <3>5, DSFields DEF Known
    <3>7. CASE gopt.final_counts
      <4>1. Finalized[i] = e BY <3>7 DEF Finalized, e
      <4>2. time = 0 /\ e.tmax = 0 /\ e.s = 0 BY <2>1, <3>5, <3>6, <3>7
      <4>3. e.x = uses[i] + left * (time + 1) BY <3>1, <3>6, <4>2
      <4> QED BY <3>3, <4>1, <4>3
    <3>8. CASE ~gopt.final_counts
      <4>1. Finalized[i] = final_counts(e, time + 1) BY <2>1, <2>2, <3>8 DEF Finalized, e
      <4>2. final_counts(e, time + 1).x = e.s + e.x * ((time + 1) - e.tmax)
        BY DEF final_counts, Extend
      <4> QED BY <3>3, <3>6, <4>1, <4>2
    <3> QED BY <3>7, <3>8
  <2> QED BY <2>1, <2>2 DEF AverageExact
<1> QED BY <1>1, Invariant, PTL

(* The counts are what the samples explain, in every state in which they are
   used. *)
THEOREM CountsAreExplained == Spec => []CountsExplained
<1>1. IInv => CountsExplained BY DEF IInv
<1> QED BY <1>1, Invariant, PTL

-----------------------------------------------------------------------------
(* The priors: how often they have been scaled, and the cache's copy.  While a
   proposal is judged the cumulative scale is a multiple of the ratios tried,
   and what propose_new_priors put aside is the cache of the priors scaled
   back. *)

Multiples(cum) == \A i \in Params :
  prior[i] = Prior0[i] * (IF ScaleOf(i) > 0 THEN cum[ScaleOf(i)] ELSE 1)
Tried == \E old \in [Scales -> Nat \ {0}] : cumulative = [m \in Scales |-> old[m] * scales[m]]
PutAside ==
  use_cache_prob =>
    undo.pcount = CachePriors(ScaledBack(scales)) /\ undo.psum = CacheSums(ScaledBack(scales))

CachedOK == (use_cache_prob /\ pc # "init") => PriorsCached
SInv ==
  /\ priors = Prior0
  /\ pc = "init" => prior = Prior0
  /\ pc # "init" => cumulative \in [Scales -> Nat \ {0}] /\ Multiples(cumulative)
  /\ pc = "judge" => Tried /\ PutAside
  /\ CachedOK

LEMMA DivTimes ==
  ASSUME NEW a \in Nat, NEW k \in Nat \ {0} PROVE (a * k) \div k = a
BY SMTT(20)

LEMMA ScaleOfType == \A i \in Params : ScaleOf(i) > 0 => ScaleOf(i) \in Scales
BY NormAssumption, SizeAssumption DEF ScaleOf, HasNorm, Scales, Groups, NONORM

LEMMA Products ==
  ASSUME NEW a \in Nat, NEW b \in Nat, NEW c \in Nat PROVE (a * b) * c = a * (b * c) /\ a * b \in Nat
BY SMTT(20)

(* Scaling by k multiplies the priors, and scaling back divides what was scaled. *)
LEMMA ScaledTwice ==
  ASSUME TypeOK, NEW cum \in [Scales -> Nat \ {0}], NEW k \in [Scales -> Nat \ {0}],
         Multiples(cum)
  PROVE  \A i \in Params :
           /\ ScaledUp(k)[i] = Prior0[i] * (IF ScaleOf(i) > 0 THEN cum[ScaleOf(i)] * k[ScaleOf(i)] ELSE 1)
           /\ ScaleOf(i) > 0 => ScaledUp(k)[i] \div k[ScaleOf(i)] = prior[i]
           /\ ~(ScaleOf(i) > 0) => ScaledUp(k)[i] = prior[i]
<1> SUFFICES ASSUME NEW i \in Params
             PROVE  /\ ScaledUp(k)[i] = Prior0[i] * (IF ScaleOf(i) > 0 THEN cum[ScaleOf(i)] * k[ScaleOf(i)] ELSE 1)
                    /\ ScaleOf(i) > 0 => ScaledUp(k)[i] \div k[ScaleOf(i)] = prior[i]
                    /\ ~(ScaleOf(i) > 0) => ScaledUp(k)[i] = prior[i]
  OBVIOUS
<1>1. prior[i] \in Nat /\ Prior0[i] \in Nat BY ModelAssumption DEF TypeOK, Occ
<1>2. CASE ScaleOf(i) > 0
  <2>1. cum[ScaleOf(i)] \in Nat \ {0} /\ k[ScaleOf(i)] \in Nat \ {0} BY <1>2, ScaleOfType
  <2>2. prior[i] = Prior0[i] * cum[ScaleOf(i)] BY <1>2 DEF Multiples
  <2>3. ScaledUp(k)[i] = prior[i] * k[ScaleOf(i)] BY <1>2 DEF ScaledUp
  <2>4. (prior[i] * k[ScaleOf(i)]) \div k[ScaleOf(i)] = prior[i] BY <1>1, <2>1, DivTimes
  <2>5. (Prior0[i] * cum[ScaleOf(i)]) * k[ScaleOf(i)] = Prior0[i] * (cum[ScaleOf(i)] * k[ScaleOf(i)])
    BY <1>1, <2>1, Products
  <2> QED BY <1>2, <2>2, <2>3, <2>4, <2>5
<1>3. CASE ~(ScaleOf(i) > 0)
  <2>1. ScaledUp(k)[i] = prior[i] BY <1>3 DEF ScaledUp
  <2>2. prior[i] = Prior0[i] * 1 BY <1>3 DEF Multiples
  <2> QED BY <1>3, <2>1, <2>2
<1> QED BY <1>2, <1>3

LEMMA ScalesInit == Init => SInv
BY DEF Init, SInv, CachedOK

LEMMA ScalesRunStarts == ASSUME TypeOK, SInv, RunStarts PROVE SInv'
<1>1. prior = Prior0 /\ prior' = prior /\ priors' = prior /\ pc' = "start" /\ gopt' = gopt
      /\ cumulative' = [m \in Scales |-> 1]
  BY DEF SInv, RunStarts, numbers
<1>2. cumulative' \in [Scales -> Nat \ {0}] BY <1>1
<1>3. Multiples(cumulative)'
  <2>1. \A i \in Params : Prior0[i] \in Nat BY ModelAssumption
  <2>2. \A i \in Params : Prior0[i] * 1 = Prior0[i] BY <2>1
  <2> QED BY <1>1, <2>2, ScaleOfType DEF Multiples
<1>4. CachedOK'
  BY <1>1 DEF RunStarts, recompute_cache_priors, CachedOK, PriorsCached, use_cache_prob
<1> QED BY <1>1, <1>2, <1>3, <1>4 DEF SInv

LEMMA ScalesStartRun == ASSUME TypeOK, SInv, StartRun PROVE SInv'
<1>1. pc = "start" /\ pc' = "iteration" /\ gopt' = gopt /\ priors' = priors /\ priors = Prior0
  BY DEF SInv, StartRun, chosen
<1>2. CASE r > 0 /\ gopt.restart_fresh
  <2>1. prior' = Prior0 /\ cumulative' = [m \in Scales |-> 1] /\ recompute_cache_priors(prior')
    BY <1>1, <1>2 DEF StartRun
  <2>2. Multiples(cumulative)'
    <3>1. \A i \in Params : Prior0[i] * 1 = Prior0[i] BY ModelAssumption
    <3> QED BY <2>1, <3>1, ScaleOfType DEF Multiples
  <2>3. CachedOK' BY <1>1, <2>1 DEF recompute_cache_priors, CachedOK, PriorsCached, use_cache_prob
  <2> QED BY <1>1, <2>1, <2>2, <2>3 DEF SInv
<1>3. CASE ~(r > 0 /\ gopt.restart_fresh)
  <2>1. prior' = prior /\ UNCHANGED <<pcount, psum, cumulative>> BY <1>3 DEF StartRun
  <2>2. CachedOK' BY <1>1, <2>1 DEF SInv, CachedOK, PriorsCached, use_cache_prob
  <2>3. cumulative' \in [Scales -> Nat \ {0}] /\ Multiples(cumulative)'
    BY <1>1, <2>1 DEF SInv, Multiples
  <2> QED BY <1>1, <2>2, <2>3 DEF SInv
<1> QED BY <1>2, <1>3

LEMMA ScalesPropose == ASSUME TypeOK, SInv, ProposePriors PROVE SInv'
<1>1. pc = "propose" /\ pc' = "judge" /\ gopt' = gopt /\ priors' = priors /\ priors = Prior0
  BY DEF SInv, ProposePriors, chosen
<1>2. undo' = [pcount |-> pcount, psum |-> psum] /\ recompute_cache_priors(prior')
  BY DEF ProposePriors
<1>3. cumulative \in [Scales -> Nat \ {0}] /\ Multiples(cumulative) /\ CachedOK
  BY <1>1 DEF SInv
<1>4. PICK k \in [Scales -> Ratio] : /\ scales' = k
                                     /\ prior' = ScaledUp(k)
                                     /\ cumulative' = [m \in Scales |-> cumulative[m] * k[m]]
  BY DEF ProposePriors, ScalePriors
<1>5. k \in [Scales -> Nat \ {0}] BY ChoiceAssumption
<1>6. \A m \in Scales : cumulative[m] * k[m] \in Nat \ {0}
  <2> SUFFICES ASSUME NEW m \in Scales PROVE cumulative[m] * k[m] \in Nat \ {0} OBVIOUS
  <2>1. cumulative[m] \in Nat \ {0} /\ k[m] \in Nat \ {0} BY <1>3, <1>5
  <2>2. \A a, b \in Nat \ {0} : a * b \in Nat \ {0} BY SMTT(20)
  <2> QED BY <2>1, <2>2
<1>7. cumulative' \in [Scales -> Nat \ {0}] BY <1>4, <1>6
<1>8. Multiples(cumulative)'
  <2> SUFFICES ASSUME NEW i \in Params
               PROVE  prior'[i] = Prior0[i] * (IF ScaleOf(i) > 0 THEN cumulative'[ScaleOf(i)] ELSE 1)
    BY DEF Multiples, ScaleOf
  <2>1. ScaledUp(k)[i] = Prior0[i] * (IF ScaleOf(i) > 0 THEN cumulative[ScaleOf(i)] * k[ScaleOf(i)] ELSE 1)
    BY <1>3, <1>5, ScaledTwice
  <2>2. ScaleOf(i) > 0 => cumulative'[ScaleOf(i)] = cumulative[ScaleOf(i)] * k[ScaleOf(i)]
    BY <1>4, ScaleOfType
  <2> QED BY <1>4, <2>1, <2>2
<1>9. Tried'
  <2>1. cumulative' = [m \in Scales |-> cumulative[m] * scales'[m]] BY <1>4
  <2> QED BY <1>3, <2>1 DEF Tried
<1>10. ScaledBack(scales)' = prior
  <2>1. ScaledBack(scales)' = [i \in Params |-> IF ScaleOf(i) > 0 THEN prior'[i] \div k[ScaleOf(i)] ELSE prior'[i]]
    BY <1>4 DEF ScaledBack
  <2>2. \A i \in Params : /\ ScaleOf(i) > 0 => prior'[i] \div k[ScaleOf(i)] = prior[i]
                          /\ ~(ScaleOf(i) > 0) => prior'[i] = prior[i]
    BY <1>3, <1>4, <1>5, ScaledTwice
  <2>3. prior = [i \in Params |-> prior[i]] BY DEF TypeOK, Occ
  <2>4. \A i \in Params : ScaledBack(scales)'[i] = prior[i] BY <2>1, <2>2
  <2>5. ScaledBack(scales)' = [i \in Params |-> ScaledBack(scales)'[i]] BY <2>1
  <2> QED BY <2>3, <2>4, <2>5
<1>11. PutAside'
  <2> SUFFICES ASSUME use_cache_prob'
               PROVE  undo'.pcount = CachePriors(prior) /\ undo'.psum = CacheSums(prior)
    BY <1>10 DEF PutAside, CachePriors, CacheSums
  <2> QED BY <1>1, <1>2, <1>3 DEF CachedOK, PriorsCached, use_cache_prob
<1>12. CachedOK' BY <1>1, <1>2 DEF recompute_cache_priors, CachedOK, PriorsCached, use_cache_prob
<1> QED BY <1>1, <1>7, <1>8, <1>9, <1>11, <1>12 DEF SInv

LEMMA ScalesReject == ASSUME TypeOK, SInv, RejectPriors PROVE SInv'
<1>1. pc = "judge" /\ pc' = "record" /\ gopt' = gopt /\ priors' = priors /\ priors = Prior0
  BY DEF SInv, RejectPriors, chosen
<1>2. /\ pcount' = undo.pcount /\ psum' = undo.psum
      /\ prior' = ScaledBack(scales)
      /\ cumulative' = [m \in Scales |-> cumulative[m] \div scales[m]]
  BY DEF RejectPriors, ScalePriors
<1>3. Multiples(cumulative) /\ Tried /\ PutAside BY <1>1 DEF SInv
<1>4. PICK old \in [Scales -> Nat \ {0}] : cumulative = [m \in Scales |-> old[m] * scales[m]]
  BY <1>3 DEF Tried
<1>5. scales \in [Scales -> Nat \ {0}] BY DEF TypeOK
<1>6. \A m \in Scales : cumulative[m] \div scales[m] = old[m]
  <2> SUFFICES ASSUME NEW m \in Scales PROVE cumulative[m] \div scales[m] = old[m] OBVIOUS
  <2>1. old[m] \in Nat /\ scales[m] \in Nat \ {0} BY <1>5
  <2>2. (old[m] * scales[m]) \div scales[m] = old[m] BY <2>1, DivTimes
  <2> QED BY <1>4, <2>2
<1>7. cumulative' \in [Scales -> Nat \ {0}] /\ \A m \in Scales : cumulative'[m] = old[m] BY <1>2, <1>6
<1>8. Multiples(cumulative)'
  <2> SUFFICES ASSUME NEW i \in Params
               PROVE  prior'[i] = Prior0[i] * (IF ScaleOf(i) > 0 THEN cumulative'[ScaleOf(i)] ELSE 1)
    BY DEF Multiples, ScaleOf
  <2>1. CASE ScaleOf(i) > 0
    <3> DEFINE m == ScaleOf(i)
    <3>1. m \in Scales BY <2>1, ScaleOfType
    <3>2. old[m] \in Nat /\ scales[m] \in Nat \ {0} /\ Prior0[i] \in Nat
      BY <1>5, <3>1, ModelAssumption
    <3>3. prior[i] = Prior0[i] * (old[m] * scales[m]) BY <1>3, <1>4, <2>1, <3>1 DEF Multiples
    <3>4. prior[i] = (Prior0[i] * old[m]) * scales[m] /\ Prior0[i] * old[m] \in Nat
      BY <3>2, <3>3, Products
    <3>5. prior[i] \div scales[m] = Prior0[i] * old[m] BY <3>2, <3>4, DivTimes
    <3>6. prior'[i] = prior[i] \div scales[m] BY <1>2, <2>1 DEF ScaledBack
    <3> QED BY <1>7, <2>1, <3>1, <3>5, <3>6
  <2>2. CASE ~(ScaleOf(i) > 0) BY <1>2, <1>3, <2>2 DEF ScaledBack, Multiples
  <2> QED BY <2>1, <2>2
<1>9. CachedOK' BY <1>1, <1>2, <1>3 DEF PutAside, CachedOK, PriorsCached, use_cache_prob
<1> QED BY <1>1, <1>7, <1>8, <1>9 DEF SInv

LEMMA ScalesUntouched ==
  ASSUME SInv, UNCHANGED <<gopt, prior, priors, pcount, psum, cumulative>>,
         pc # "init", pc' # "init", pc' # "judge"
  PROVE  SInv'
BY DEF SInv, CachedOK, PriorsCached, use_cache_prob, Multiples

LEMMA ScalesStep == ASSUME TypeOK, SInv, Step PROVE SInv'
<1> USE DEF numbers, cache, scaling, drawing, position, chosen, history
<1>1. CASE RunStarts BY <1>1, ScalesRunStarts
<1>2. CASE StartRun BY <1>2, ScalesStartRun
<1>3. CASE BeginIteration BY <1>3, ScalesUntouched DEF BeginIteration, reset_cache
<1>4. CASE RemoveBlock BY <1>4, ScalesUntouched DEF RemoveBlock
<1>5. CASE ResampleBlock BY <1>5, ScalesUntouched DEF ResampleBlock
<1>6. CASE AddBlock BY <1>6, ScalesUntouched DEF AddBlock
<1>7. CASE ProposePriors BY <1>7, ScalesPropose
<1>8. CASE AcceptPriors BY <1>8, ScalesUntouched DEF AcceptPriors
<1>9. CASE RejectPriors BY <1>9, ScalesReject
<1>10. CASE Unimplemented BY <1>10, ScalesUntouched DEF Unimplemented
<1>11. CASE RecordIteration BY <1>11, ScalesUntouched DEF RecordIteration
<1>12. CASE EndRun BY <1>12, ScalesUntouched DEF EndRun
<1>13. CASE FinishStarts BY <1>13, ScalesUntouched DEF FinishStarts
<1> QED BY <1>1, <1>2, <1>3, <1>4, <1>5, <1>6, <1>7, <1>8, <1>9, <1>10, <1>11, <1>12, <1>13
        DEF Step

LEMMA ScalesStutter == ASSUME SInv, UNCHANGED vars PROVE SInv'
BY DEF vars, numbers, cache, scaling, chosen, SInv, CachedOK, PriorsCached, use_cache_prob,
       Multiples, Tried, PutAside, ScaledBack, CachePriors, CacheSums

LEMMA ScalesInvariant == Spec => []SInv
<1>1. TypeOK /\ SInv /\ [Next]_vars => SInv'
  <2> SUFFICES ASSUME TypeOK, SInv, [Next]_vars PROVE SInv' OBVIOUS
  <2>1. CASE Step BY <2>1, ScalesStep
  <2>2. CASE Terminated BY <2>2, ScalesStutter DEF Terminated
  <2>3. CASE UNCHANGED vars BY <2>3, ScalesStutter
  <2> QED BY <2>1, <2>2, <2>3 DEF Next
<1>2. Init => SInv BY ScalesInit
<1> QED BY <1>1, <1>2, GibbsTypes, PTL DEF Spec

(* However often propose_new_priors scaled the priors, undid it, or a fresh
   start restored them, the scale reported is what they were multiplied by. *)
THEOREM ScaleIsTracked == Spec => []ScaleTracked
<1>1. SInv => ScaleTracked BY DEF SInv, ScaleTracked, Multiples
<1> QED BY <1>1, ScalesInvariant, PTL

-----------------------------------------------------------------------------
(* The uses the cache model has seen: an iteration begins with the priors    *)
(* alone, and adds the uses of each block when it is drawn.                   *)

InIteration == {"remove", "resample", "add", "propose", "judge"}
SumsAgree(cc, cs) == \A g \in Groups : cs[g] = GroupSum(cc, g)

LEMMA CachePriorsOK ==
  ASSUME NEW pr \in Occ
  PROVE  /\ CachePriors(pr) \in Occ
         /\ \A i \in Params : HasNorm(i) => CachePriors(pr)[i] = pr[i]
         /\ SumsAgree(CachePriors(pr), CacheSums(pr))
<1> DEFINE cp == CachePriors(pr)
<1>1. cp \in Occ /\ \A i \in Params : HasNorm(i) => cp[i] = pr[i] BY DEF CachePriors, Occ
<1>2. cp \in [Params -> Int] /\ pr \in [Params -> Int] BY <1>1 DEF Occ
<1>3. ASSUME NEW g \in Groups PROVE GroupSum(cp, g) = GroupSum(pr, g)
  <2>1. \A i \in Params : HasNorm(i) => cp[i] = pr[i] + 0 * pr[i] BY <1>1, <1>2
  <2>2. GroupSum(cp, g) = GroupSum(pr, g) + 0 * GroupSum(pr, g)
    <3> HIDE DEF cp
    <3> QED BY <1>2, <2>1, GroupSumLinear, 0 \in Int
  <2>3. GroupSum(pr, g) \in Int BY <1>2, GroupSumInt
  <2> QED BY <2>2, <2>3
<1>4. SumsAgree(cp, CacheSums(pr)) BY <1>3 DEF SumsAgree, CacheSums
<1> QED BY <1>1, <1>4

LEMMA SeeUsesOK ==
  ASSUME NEW cc \in Occ, NEW block \in Occ, NEW cs, SumsAgree(cc, cs)
  PROVE  /\ SeeUses(cc, block) \in Occ
         /\ \A i \in Params : HasNorm(i) => SeeUses(cc, block)[i] = cc[i] + block[i]
         /\ SumsAgree(SeeUses(cc, block), AddToNorms(cs, block, 1))
<1> DEFINE new == SeeUses(cc, block)
<1>1. /\ new \in Occ
      /\ \A i \in Params : HasNorm(i) => new[i] = cc[i] + block[i]
  BY DEF SeeUses, Occ
<1>2. cc \in [Params -> Int] /\ block \in [Params -> Int] /\ new \in [Params -> Int]
  BY <1>1 DEF Occ
<1>3. ASSUME NEW g \in Groups PROVE AddToNorms(cs, block, 1)[g] = GroupSum(new, g)
  <2>1. \A i \in Params : HasNorm(i) => new[i] = cc[i] + 1 * block[i] BY <1>1, <1>2
  <2>2. GroupSum(new, g) = GroupSum(cc, g) + 1 * GroupSum(block, g)
    <3> HIDE DEF new
    <3> QED BY <1>2, <2>1, GroupSumLinear, 1 \in Int
  <2>3. AddToNorms(cs, block, 1)[g] = cs[g] + 1 * GroupSum(block, g) BY DEF AddToNorms
  <2> QED BY <2>2, <2>3 DEF SumsAgree
<1> QED BY <1>1, <1>3 DEF SumsAgree

LEMMA SeenNothing ==
  ASSUME NEW smp, NEW i \in Params PROVE SeenUses(smp, {}, i) = 0
<1> DEFINE f == [b \in Blocks |-> IF b \in {} THEN smp[b][i] ELSE 0]
<1>1. NBlock \in Nat /\ \A k \in 1..NBlock : f[k] = 0 BY SizeAssumption DEF Blocks
<1>2. SumTo(f, NBlock) = 0
  <2> HIDE DEF f
  <2> QED BY <1>1, SumToZero
<1> QED BY <1>2 DEF SeenUses

LEMMA SeenInt ==
  ASSUME NEW smp \in [Blocks -> Occ], NEW seen, NEW i \in Params
  PROVE  SeenUses(smp, seen, i) \in Int
<1> DEFINE f == [b \in Blocks |-> IF b \in seen THEN smp[b][i] ELSE 0]
<1>1. NBlock \in Nat /\ \A k \in 1..NBlock : f[k] \in Int
  BY SizeAssumption DEF Blocks, Occ
<1>2. SumTo(f, NBlock) \in Int
  <2> HIDE DEF f
  <2> QED BY <1>1, SumToInt
<1> QED BY <1>2 DEF SeenUses

(* what a block not seen holds does not matter *)
LEMMA SeenOthers ==
  ASSUME NEW smp, NEW new, NEW seen, NEW i \in Params,
         \A b \in Blocks : b \in seen => new[b] = smp[b]
  PROVE  SeenUses(new, seen, i) = SeenUses(smp, seen, i)
<1>1. [b \in Blocks |-> IF b \in seen THEN new[b][i] ELSE 0]
        = [b \in Blocks |-> IF b \in seen THEN smp[b][i] ELSE 0]
  OBVIOUS
<1> QED BY <1>1 DEF SeenUses

LEMMA SeenOneMore ==
  ASSUME NEW smp \in [Blocks -> Occ], NEW c \in Blocks, NEW o \in Occ, NEW i \in Params
  PROVE  SeenUses([smp EXCEPT ![c] = o], 1..c, i) = SeenUses(smp, 1..(c - 1), i) + o[i]
<1> DEFINE new == [smp EXCEPT ![c] = o]
           f == [b \in Blocks |-> IF b \in 1..(c - 1) THEN smp[b][i] ELSE 0]
           h == [b \in Blocks |-> IF b \in 1..c THEN new[b][i] ELSE 0]
           u == Unit(c, NBlock)
<1>1. NBlock \in Nat /\ Blocks = 1..NBlock /\ c \in Nat BY SizeAssumption DEF Blocks
<1>2. o[i] \in Nat BY DEF Occ
<1>3. ASSUME NEW k \in 1..NBlock
      PROVE  f[k] \in Int /\ u[k] \in Int /\ h[k] = f[k] + o[i] * u[k]
  <2>1. k \in Blocks /\ smp[k][i] \in Nat BY <1>1 DEF Occ
  <2>2. f[k] \in Int BY <2>1
  <2>3. CASE k = c
    <3>1. u[k] = 1 /\ new[k] = o BY <2>1, <2>3 DEF Unit
    <3>2. f[k] = 0 /\ h[k] = o[i] BY <1>1, <2>1, <2>3, <3>1
    <3> QED BY <1>2, <3>1, <3>2
  <2>4. CASE k # c
    <3>1. u[k] = 0 /\ new[k] = smp[k] BY <2>1, <2>4 DEF Unit
    <3>2. k \in 1..(c - 1) <=> k \in 1..c BY <1>1, <2>4
    <3>3. h[k] = f[k] BY <2>1, <3>1, <3>2
    <3> HIDE DEF f, h, u
    <3> QED BY <1>2, <2>2, <3>1, <3>3
  <2> QED BY <2>3, <2>4
<1>4. SumTo(u, NBlock) = 1 BY <1>1, SumToUnit
<1> HIDE DEF f, h, u
<1>5. SumTo(h, NBlock) = SumTo(f, NBlock) + o[i] * SumTo(u, NBlock)
  <2>1. NBlock \in Nat /\ o[i] \in Int BY <1>1, <1>2
  <2> QED BY ONLY <2>1, <1>3, SumToLinear
<1>6. SumTo(f, NBlock) \in Int BY <1>1, <1>3, SumToInt
<1>7. SumTo(h, NBlock) = SumTo(f, NBlock) + o[i] BY <1>2, <1>4, <1>5, <1>6
<1> QED BY <1>7 DEF SeenUses, f, h

LEMMA SeenAll ==
  ASSUME NEW smp \in [Blocks -> Occ]
  PROVE  SeeAll(smp) \in Occ /\ \A i \in Params : SeenUses(smp, Blocks, i) = SeeAll(smp)[i]
<1>1. ASSUME NEW i \in Params
      PROVE  SeeAll(smp)[i] \in Nat /\ SeenUses(smp, Blocks, i) = SeeAll(smp)[i]
  <2> DEFINE f == [b \in Blocks |-> smp[b][i]]
  <2>1. NBlock \in Nat /\ \A k \in 1..NBlock : f[k] \in Nat
    BY SizeAssumption DEF Blocks, Occ
  <2>2. SumTo(f, NBlock) \in Nat
    <3> HIDE DEF f
    <3> QED BY <2>1, SumToNat
  <2>3. [b \in Blocks |-> IF b \in Blocks THEN smp[b][i] ELSE 0] = f OBVIOUS
  <2> QED BY <2>2, <2>3 DEF SeenUses, SeeAll
<1>2. SeeAll(smp) = [i \in Params |-> SeeAll(smp)[i]] BY DEF SeeAll
<1> QED BY <1>1, <1>2 DEF Occ

UInv ==
  (use_cache_prob /\ pc \in InIteration) =>
    /\ ccount \in Occ
    /\ \A i \in Params : HasNorm(i) => ccount[i] = prior[i] + SeenUses(sample, SeenBlocks, i)
    /\ SumsAgree(ccount, csum)

LEMMA SeenBegin == ASSUME TypeOK, SInv, BeginIteration PROVE UInv'
<1> SUFFICES ASSUME use_cache_prob'
             PROVE  /\ ccount' \in Occ
                    /\ \A i \in Params : HasNorm(i) =>
                         ccount'[i] = prior'[i] + SeenUses(sample', SeenBlocks', i)
                    /\ SumsAgree(ccount', csum')
  BY DEF UInv, SumsAgree, HasNorm, SeenUses
<1>1. pc = "iteration" /\ gopt' = gopt /\ prior' = prior /\ reset_cache /\ blk' = 1
      /\ pc' \in {"remove", "propose"}
  BY DEF BeginIteration, numbers
<1>2. use_cache_prob BY <1>1 DEF use_cache_prob
<1>3. ccount' = CachePriors(prior) /\ csum' = CacheSums(prior)
  BY <1>1, <1>2 DEF reset_cache, SInv, CachedOK, PriorsCached
<1>4. SeenBlocks' = {}
  <2>1. 1..(1 - 1) = {} OBVIOUS
  <2> QED BY <1>1, <2>1 DEF SeenBlocks
<1>5. prior \in Occ BY DEF TypeOK
<1>6. \A i \in Params : prior[i] \in Nat /\ SeenUses(sample', {}, i) = 0
  BY <1>5, SeenNothing DEF Occ
<1> QED BY <1>1, <1>3, <1>4, <1>5, <1>6, CachePriorsOK

LEMMA SeenRemove == ASSUME TypeOK, UInv, RemoveBlock PROVE UInv'
<1> SUFFICES ASSUME use_cache_prob' PROVE UInv' BY DEF UInv
<1>1. /\ pc = "remove" /\ pc' = "resample" /\ gopt' = gopt /\ prior' = prior /\ blk' = blk
      /\ ccount' = ccount /\ csum' = csum
      /\ sample' = [sample EXCEPT ![blk] = EmptyBlock]
  BY DEF RemoveBlock, cache, position
<1>2. /\ ccount \in Occ /\ SumsAgree(ccount, csum)
      /\ \A i \in Params : HasNorm(i) => ccount[i] = prior[i] + SeenUses(sample, SeenBlocks, i)
  BY <1>1 DEF UInv, use_cache_prob, InIteration
<1>3. SeenBlocks' = SeenBlocks /\ blk \notin SeenBlocks /\ blk \in Blocks /\ sample \in [Blocks -> Occ]
  <2>1. blk \in Blocks /\ sample \in [Blocks -> Occ] BY <1>1 DEF TypeOK
  <2>2. blk \notin 1..(blk - 1) BY <2>1, SizeAssumption DEF Blocks
  <2> QED BY <1>1, <2>1, <2>2 DEF SeenBlocks
<1>4. \A i \in Params : SeenUses(sample', SeenBlocks, i) = SeenUses(sample, SeenBlocks, i)
  <2>1. \A b \in Blocks : b \in SeenBlocks => sample'[b] = sample[b] BY <1>1, <1>3
  <2> QED BY <2>1, SeenOthers
<1> QED BY <1>1, <1>2, <1>3, <1>4 DEF UInv, SumsAgree

LEMMA SeenResample == ASSUME TypeOK, TypeOK', UInv, ResampleBlock PROVE UInv'
<1> SUFFICES ASSUME use_cache_prob' PROVE UInv' BY DEF UInv
<1>1. /\ pc = "resample" /\ pc' = "add" /\ gopt' = gopt /\ prior' = prior /\ blk' = blk
      /\ \E o : sample' = [sample EXCEPT ![blk] = o]
  BY DEF ResampleBlock, numbers, position
<1>2. /\ ccount \in Occ /\ SumsAgree(ccount, csum)
      /\ \A i \in Params : HasNorm(i) => ccount[i] = prior[i] + SeenUses(sample, SeenBlocks, i)
  BY <1>1 DEF UInv, use_cache_prob, InIteration
<1>3. blk \in Blocks /\ sample \in [Blocks -> Occ] /\ sample' \in [Blocks -> Occ] /\ prior \in Occ
  BY <1>1 DEF TypeOK
<1>4. PICK o : o = sample'[blk] OBVIOUS
<1>5. o \in Occ /\ sample' = [sample EXCEPT ![blk] = o] BY <1>1, <1>3, <1>4
<1>6. ~gopt.expectation BY <1>1 DEF use_cache_prob
<1>7. CASE gopt.cache_prob
  <2>1. ccount' = SeeUses(ccount, o) /\ csum' = AddToNorms(csum, o, 1)
    BY <1>4, <1>6, <1>7 DEF ResampleBlock
  <2>2. SeenBlocks = 1..(blk - 1) /\ SeenBlocks' = 1..blk
    BY <1>1, <1>7 DEF SeenBlocks
  <2>3. /\ ccount' \in Occ /\ SumsAgree(ccount', csum')
        /\ \A i \in Params : HasNorm(i) => ccount'[i] = ccount[i] + o[i]
    BY <1>2, <1>5, <2>1, SeeUsesOK
  <2>4. ASSUME NEW i \in Params, HasNorm(i)
        PROVE  ccount'[i] = prior[i] + SeenUses(sample', SeenBlocks', i)
    <3>1. SeenUses(sample', 1..blk, i) = SeenUses(sample, 1..(blk - 1), i) + o[i]
      <4>1. SeenUses([sample EXCEPT ![blk] = o], 1..blk, i)
              = SeenUses(sample, 1..(blk - 1), i) + o[i]
        BY <1>3, <1>5, SeenOneMore
      <4> QED BY <1>5, <4>1
    <3>2. ccount[i] = prior[i] + SeenUses(sample, 1..(blk - 1), i) BY <1>2, <2>2, <2>4
    <3>3. ccount'[i] = ccount[i] + o[i] BY <2>3, <2>4
    <3>4. SeenUses(sample, 1..(blk - 1), i) \in Int BY <1>3, SeenInt
    <3>5. prior[i] \in Int /\ o[i] \in Int BY <1>3, <1>5 DEF Occ
    <3>6. PICK u : u = SeenUses(sample, 1..(blk - 1), i) OBVIOUS
    <3>7. (prior[i] + u) + o[i] = prior[i] + (u + o[i]) BY <3>4, <3>5, <3>6
    <3>8. ccount'[i] = prior[i] + SeenUses(sample', 1..blk, i)
      BY ONLY <3>1, <3>2, <3>3, <3>6, <3>7
    <3> QED BY <2>2, <3>8
  <2> QED BY <1>1, <2>3, <2>4 DEF UInv, SumsAgree
<1>8. CASE ~gopt.cache_prob
  <2>1. ccount' = ccount /\ csum' = csum BY <1>8 DEF ResampleBlock
  <2>2. SeenBlocks = {} /\ SeenBlocks' = {} BY <1>1, <1>8 DEF SeenBlocks
  <2>3. \A i \in Params : SeenUses(sample, {}, i) = 0 /\ SeenUses(sample', {}, i) = 0
    BY SeenNothing
  <2> QED BY <1>1, <1>2, <2>1, <2>2, <2>3 DEF UInv, SumsAgree
<1> QED BY <1>7, <1>8

LEMMA SeenAdd == ASSUME TypeOK, UInv, AddBlock PROVE UInv'
<1> SUFFICES ASSUME use_cache_prob' PROVE UInv' BY DEF UInv
<1>1. /\ pc = "add" /\ pc' \in {"remove", "propose"} /\ gopt' = gopt /\ prior' = prior
      /\ blk' = blk + 1 /\ ccount' = ccount /\ csum' = csum /\ sample' = sample
  BY DEF AddBlock, cache
<1>2. /\ ccount \in Occ /\ SumsAgree(ccount, csum)
      /\ \A i \in Params : HasNorm(i) => ccount[i] = prior[i] + SeenUses(sample, SeenBlocks, i)
  BY <1>1 DEF UInv, use_cache_prob, InIteration
<1>3. SeenBlocks' = SeenBlocks
  <2>1. blk \in Nat BY <1>1, SizeAssumption DEF TypeOK, Blocks
  <2>2. (blk + 1) - 1 = blk BY <2>1
  <2> QED BY <1>1, <2>2 DEF SeenBlocks
<1> QED BY <1>1, <1>2, <1>3 DEF UInv, SumsAgree

LEMMA SeenPropose == ASSUME TypeOK, TypeOK', ProposePriors PROVE UInv'
<1> SUFFICES ASSUME use_cache_prob' PROVE UInv' BY DEF UInv
<1>1. /\ pc' = "judge" /\ gopt' = gopt /\ sample' = sample /\ recompute_cache_priors(prior')
      /\ ccount' = SeeUses(pcount', SeeAll(sample))
      /\ csum' = AddToNorms(psum', SeeAll(sample), 1)
  BY DEF ProposePriors
<1>2. pcount' = CachePriors(prior') /\ psum' = CacheSums(prior')
  BY <1>1 DEF recompute_cache_priors, use_cache_prob
<1>3. prior' \in Occ /\ sample \in [Blocks -> Occ] BY DEF TypeOK
<1>4. SeeAll(sample) \in Occ /\ \A i \in Params : SeenUses(sample, Blocks, i) = SeeAll(sample)[i]
  BY <1>3, SeenAll
<1>5. /\ pcount' \in Occ /\ SumsAgree(pcount', psum')
      /\ \A i \in Params : HasNorm(i) => pcount'[i] = prior'[i]
  BY <1>2, <1>3, CachePriorsOK
<1>6. /\ ccount' \in Occ /\ SumsAgree(ccount', csum')
      /\ \A i \in Params : HasNorm(i) => ccount'[i] = pcount'[i] + SeeAll(sample)[i]
  BY <1>1, <1>4, <1>5, SeeUsesOK
<1>7. SeenBlocks' = Blocks BY <1>1 DEF SeenBlocks
<1> QED BY <1>1, <1>4, <1>5, <1>6, <1>7 DEF UInv, SumsAgree

LEMMA SeenOutside == ASSUME pc' \notin InIteration PROVE UInv'
BY DEF UInv

LEMMA SeenStutter == ASSUME UInv, UNCHANGED vars PROVE UInv'
BY DEF vars, numbers, cache, position, UInv, use_cache_prob, SumsAgree, SeenBlocks

LEMMA SeenStep == ASSUME TypeOK, TypeOK', SInv, UInv, [Next]_vars PROVE UInv'
<1> USE DEF InIteration
<1>1. CASE RunStarts BY <1>1, SeenOutside DEF RunStarts
<1>2. CASE StartRun BY <1>2, SeenOutside DEF StartRun
<1>3. CASE BeginIteration BY <1>3, SeenBegin
<1>4. CASE RemoveBlock BY <1>4, SeenRemove
<1>5. CASE ResampleBlock BY <1>5, SeenResample
<1>6. CASE AddBlock BY <1>6, SeenAdd
<1>7. CASE ProposePriors BY <1>7, SeenPropose
<1>8. CASE AcceptPriors BY <1>8, SeenOutside DEF AcceptPriors
<1>9. CASE RejectPriors BY <1>9, SeenOutside DEF RejectPriors
<1>10. CASE Unimplemented BY <1>10, SeenOutside DEF Unimplemented
<1>11. CASE RecordIteration BY <1>11, SeenOutside DEF RecordIteration
<1>12. CASE EndRun BY <1>12, SeenOutside DEF EndRun
<1>13. CASE FinishStarts BY <1>13, SeenOutside DEF FinishStarts
<1>14. CASE Terminated \/ UNCHANGED vars BY <1>14, SeenStutter DEF Terminated
<1> QED BY <1>1, <1>2, <1>3, <1>4, <1>5, <1>6, <1>7, <1>8, <1>9, <1>10, <1>11, <1>12, <1>13,
           <1>14 DEF Next, Step

LEMMA SeenInvariant == Spec => []UInv
<1>1. Init => UInv BY DEF Init, UInv, InIteration
<1>2. TypeOK /\ TypeOK' /\ SInv /\ UInv /\ [Next]_vars => UInv' BY SeenStep
<1> QED BY <1>1, <1>2, GibbsTypes, ScalesInvariant, PTL DEF Spec

(* The cached priors and their sums are those of the priors in force, although
   a rejected proposal restores one by swapping and the other by dividing; the
   cache's counts are these priors and the uses drawn so far in the iteration,
   block by block or all at once, and its denominators are their sums. *)
THEOREM CacheIsCoherent == Spec => []CacheCoherent
<1>1. ASSUME SInv, UInv PROVE CacheCoherent
  <2> SUFFICES ASSUME use_cache_prob, pc # "init" PROVE PriorsCached /\ UsesCached
    BY DEF CacheCoherent
  <2>1. PriorsCached BY <1>1 DEF SInv, CachedOK
  <2>2. UsesCached BY <1>1 DEF UInv, UsesCached, InIteration, SumsAgree
  <2> QED BY <2>1, <2>2
<1> QED BY <1>1, ScalesInvariant, SeenInvariant, PTL

-----------------------------------------------------------------------------
(* The sampler implements StartSelection: every start of run_starts adds its *)
(* outcome and keeps the better one, every other step is a stutter, and what *)
(* is left at the end is reported.                                           *)

Ended == {"finish", "done"}
Outcome == [score : Nat, final : Nat, sample : [Blocks -> Occ], counts : [Params -> Int]]

(* What run_starts relies on between its starts: which start it is, and that
   what has no counts is no part of what a start leaves. *)
Kept ==
  /\ outcomes \in Seq(Outcome)
  /\ pc \in Ended => r > 0
  /\ pc \notin Ended => r <= gopt.restarts
  /\ \A i \in Params : ~HasNorm(i) => sumcount[i].x = 0 /\ best_counts[i] = 0
  /\ pc = "finish" /\ gopt.restarts = 0 => \A i \in Params : sumcount[i].x = best_counts[i]

LEMMA KeptInit == ASSUME Init, TypeOK PROVE Kept
<1>1. gopt.restarts \in Nat BY OptionFields DEF TypeOK
<1> QED BY <1>1 DEF Init, Kept, Ended, EmptyBlock, Clear, HasNorm

LEMMA ScoreType == ASSUME TypeOK PROVE Score(stats) \in Nat
<1>1. gopt.argmax \in {"all", "sum", "final"} BY DEF TypeOK, OptionType, Crit
<1>2. /\ stats.all \in Nat /\ stats.sum \in Nat /\ stats.final \in Nat
  BY DEF TypeOK
<1> QED BY <1>1, <1>2 DEF Score

LEMMA AveragedType == ASSUME TypeOK PROVE Averaged \in [Params -> Int]
<1>1. gopt.iter \in Nat /\ gopt.burnin \in Nat BY OptionFields DEF TypeOK
<1>2. ASSUME NEW i \in Params PROVE uses[i] \in Int /\ prior[i] \in Int
  BY DEF TypeOK, Occ
<1>3. final_t + 1 \in Int BY <1>1 DEF final_t
<1> QED BY <1>2, <1>3 DEF Averaged

(* a sampler's step that leaves what a start is judged by *)
Judging == <<gopt, r, best_counts, outcomes>>

LEMMA KeptWhileRunning ==
  ASSUME TypeOK, Kept, UNCHANGED Judging, pc \notin Ended, pc' \notin Ended,
         \A i \in Params : ~HasNorm(i) => sumcount'[i].x = sumcount[i].x
  PROVE  Kept'
BY DEF Kept, Judging, Ended, HasNorm

LEMMA NoNormNoChange ==
  ASSUME NEW i \in Params, ~HasNorm(i)
  PROVE  /\ \A sc, block, d, t : AddUses(sc, block, d, t)[i] = sc[i]
         /\ \A pr, sc : restore_p0(pr, sc)[i] = sc[i]
         /\ ScaleOf(i) = 0
         /\ Finalized[i].x = sumcount[i].x
<1>1. \A sc, block, d, t : AddUses(sc, block, d, t)[i] = sc[i] BY DEF AddUses
<1>2. \A pr, sc : restore_p0(pr, sc)[i] = sc[i] BY DEF restore_p0
<1>3. ScaleOf(i) = 0 BY DEF ScaleOf
<1>4. exclude_prior(sumcount)[i] = sumcount[i] BY DEF exclude_prior
<1>5. Finalized[i].x = sumcount[i].x BY <1>4 DEF Finalized
<1> QED BY <1>1, <1>2, <1>3, <1>5

LEMMA FinalizedIsAveraged ==
  ASSUME IInv, Kept, AverageExact, pc = "endrun"
  PROVE  [i \in Params |-> Finalized[i].x] = Averaged
<1>1. ASSUME NEW i \in Params PROVE Finalized[i].x = Averaged[i]
  <2>1. CASE HasNorm(i) BY <2>1 DEF AverageExact
  <2>2. CASE ~HasNorm(i) BY <2>2, NoNormNoChange DEF Averaged, Kept
  <2> QED BY <2>1, <2>2
<1> QED BY <1>1 DEF Averaged

LEMMA EndRunKept == ASSUME IInv, Kept, AverageExact, EndRun PROVE Kept'
<1> USE DEF EndRun
<1>1. TypeOK BY DEF IInv
<1>2. gopt.restarts \in Nat /\ r \in Nat BY <1>1, OptionFields DEF TypeOK
<1>3. outcomes' \in Seq(Outcome)
  <2>1. stats.final \in Nat /\ sample \in [Blocks -> Occ] BY <1>1 DEF TypeOK
  <2>2. [score |-> Score(stats), final |-> stats.final, sample |-> sample, counts |-> Averaged]
          \in Outcome
    BY <1>1, <2>1, ScoreType, AveragedType DEF Outcome
  <2> QED BY <2>2 DEF Kept
<1>4. ASSUME NEW i \in Params, ~HasNorm(i) PROVE sumcount'[i].x = 0 /\ best_counts'[i] = 0
  BY <1>4, NoNormNoChange DEF Kept
<1>5. pc' \in Ended => r' > 0 BY <1>2
<1>6. pc' \notin Ended => r' <= gopt'.restarts BY <1>2 DEF Ended
<1>7. pc' = "finish" /\ gopt'.restarts = 0 => \A i \in Params : sumcount'[i].x = best_counts'[i]
  BY <1>2 DEF Kept, Ended
<1>8. \A i \in Params : HasNorm(i)' <=> HasNorm(i) BY DEF HasNorm
<1> QED BY <1>3, <1>4, <1>5, <1>6, <1>7 DEF Kept, HasNorm

LEMMA FinishStartsKept == ASSUME IInv, Kept, FinishStarts PROVE Kept'
<1> USE DEF FinishStarts, history
<1>1. \A i \in Params : sumcount[i] \in DS BY DEF IInv, TypeOK
<1>2. ASSUME NEW i \in Params, ~HasNorm(i) PROVE sumcount'[i].x = 0 /\ best_counts'[i] = 0
  BY <1>1, <1>2 DEF Kept, DS
<1>3. pc' = "done" /\ pc \in Ended BY DEF Ended
<1> QED BY <1>2, <1>3 DEF Kept, Ended, HasNorm

LEMMA KeptStep == ASSUME IInv, Kept, AverageExact, Step PROVE Kept'
<1> USE DEF numbers, cache, scaling, drawing, position, chosen, history, Judging, Ended
<1>0. TypeOK BY DEF IInv
<1>1. CASE RunStarts BY <1>0, <1>1, KeptWhileRunning DEF RunStarts
<1>2. CASE StartRun BY <1>0, <1>2, KeptWhileRunning, NoNormNoChange DEF StartRun
<1>3. CASE BeginIteration BY <1>0, <1>3, KeptWhileRunning DEF BeginIteration, reset_cache
<1>4. CASE RemoveBlock BY <1>0, <1>4, KeptWhileRunning, NoNormNoChange DEF RemoveBlock
<1>5. CASE ResampleBlock BY <1>0, <1>5, KeptWhileRunning DEF ResampleBlock
<1>6. CASE AddBlock BY <1>0, <1>6, KeptWhileRunning, NoNormNoChange DEF AddBlock
<1>7. CASE ProposePriors BY <1>0, <1>7, KeptWhileRunning, NoNormNoChange DEF ProposePriors, ScalePriors
<1>8. CASE AcceptPriors BY <1>0, <1>8, KeptWhileRunning DEF AcceptPriors
<1>9. CASE RejectPriors BY <1>0, <1>9, KeptWhileRunning, NoNormNoChange DEF RejectPriors, ScalePriors
<1>10. CASE Unimplemented BY <1>0, <1>10, KeptWhileRunning DEF Unimplemented
<1>11. CASE RecordIteration BY <1>0, <1>11, KeptWhileRunning DEF RecordIteration
<1>12. CASE EndRun BY <1>12, EndRunKept
<1>13. CASE FinishStarts BY <1>13, FinishStartsKept
<1> QED BY <1>1, <1>2, <1>3, <1>4, <1>5, <1>6, <1>7, <1>8, <1>9, <1>10, <1>11, <1>12, <1>13
        DEF Step

LEMMA KeptStutter == ASSUME Kept, UNCHANGED vars PROVE Kept'
BY DEF vars, numbers, chosen, history, Kept, HasNorm

LEMMA KeptInvariant == Spec => []Kept
<1>1. IInv /\ AverageExact /\ Kept /\ [Next]_vars => Kept'
  <2> SUFFICES ASSUME IInv, AverageExact, Kept, [Next]_vars PROVE Kept' OBVIOUS
  <2>1. CASE Step BY <2>1, KeptStep
  <2>2. CASE Terminated BY <2>2, KeptStutter DEF Terminated
  <2>3. CASE UNCHANGED vars BY <2>3, KeptStutter
  <2> QED BY <2>1, <2>2, <2>3 DEF Next
<1>2. Init /\ IInv => Kept BY KeptInit DEF IInv
<1> QED BY <1>1, <1>2, Invariant, AveragesAreExact, PTL DEF Spec

-----------------------------------------------------------------------------
(* The steps, as those of StartSelection *)

BestOutcome ==
  [score |-> Score(best), final |-> best.final,
   sample |-> IF pc = "done" THEN sample ELSE best_sample, counts |-> best_counts]

LEMMA SelectionInit == Init => Selection!Init
BY DEF Init, Selection!Init

(* the end of a start *)
LEMMA EndRunTries == ASSUME IInv, Kept, AverageExact, EndRun PROVE Selection!Try
<1> DEFINE o == [score |-> Score(stats), final |-> stats.final, sample |-> sample, counts |-> Averaged]
<1>1. outcomes' = Append(outcomes, o) /\ outcomes \in Seq(Outcome) BY DEF EndRun, Kept
<1>2. o \in Outcome
  BY ScoreType, AveragedType DEF IInv, TypeOK, Outcome
<1>3. o.score = Score(stats) OBVIOUS
<1>4. BestOutcome.score = Score(best) BY DEF BestOutcome
<1>5. r \in Nat /\ r' = r + 1 /\ r' # 0 BY DEF EndRun, IInv, TypeOK
<1>6. pc # "done" /\ pc' # "done" BY DEF EndRun
<1>7. CASE r = 0 \/ better(stats, best)
  <2>1. best' = stats /\ best_sample' = sample BY <1>7 DEF EndRun
  <2>2. best_counts' = Averaged
    BY <1>7, FinalizedIsAveraged DEF EndRun
  <2>3. BestOutcome' = o
    BY <1>6, <2>1, <2>2 DEF BestOutcome, EndRun, Score
  <2>4. r # 0 => Score(stats) > Score(best) BY <1>7 DEF better
  <2> HIDE DEF o
  <2>5. Len(outcomes') = Len(outcomes) + 1 /\ outcomes'[Len(outcomes')] = o BY <1>1, <1>2
  <2> QED BY <1>1, <1>3, <1>4, <1>5, <1>6, <2>3, <2>4, <2>5 DEF Selection!Try, BestOutcome
<1>8. CASE ~(r = 0 \/ better(stats, best))
  <2>1. UNCHANGED <<best, best_counts, best_sample, gopt>> BY <1>8 DEF EndRun
  <2>2. BestOutcome' = BestOutcome
    BY <1>6, <2>1 DEF BestOutcome, Score
  <2>3. r # 0 /\ ~(Score(stats) > Score(best)) BY <1>8 DEF better
  <2> HIDE DEF o
  <2>5. Len(outcomes') = Len(outcomes) + 1 /\ outcomes'[Len(outcomes')] = o BY <1>1, <1>2
  <2> QED BY <1>1, <1>3, <1>4, <1>5, <1>6, <2>2, <2>3, <2>5 DEF Selection!Try, BestOutcome
<1> QED BY <1>7, <1>8

(* what is left in sample and the counts, reported *)
LEMMA FinishReports == ASSUME IInv, Kept, FinishStarts PROVE Selection!Report
<1> USE DEF FinishStarts, history
<1>1. r > 0 /\ r # 0 /\ r' = r BY DEF Kept, Ended, IInv, TypeOK
<1>2. /\ \A i \in Params : sumcount[i] \in DS
      /\ best_counts \in [Params -> Int]
      /\ gopt.restarts \in Nat
  BY OptionFields DEF IInv, TypeOK
<1>3. ASSUME NEW i \in Params PROVE Count(i)' = best_counts[i]
  <2>1. CASE gopt.restarts > 0 BY <1>2, <2>1 DEF Count, DS
  <2>2. CASE gopt.restarts = 0 BY <2>2 DEF Count, Kept
  <2> QED BY <1>2, <2>1, <2>2
<1>4. [i \in Params |-> Count(i)]' = best_counts BY <1>2, <1>3
<1>5. sample' = best_sample /\ pc = "finish" /\ pc' = "done" /\ outcomes' = outcomes
      /\ best' = best /\ gopt' = gopt /\ best_counts' = best_counts
  OBVIOUS
<1>6. Score(best)' = Score(best) BY <1>5 DEF Score
<1> QED BY <1>1, <1>4, <1>5, <1>6 DEF Selection!Report

LEMMA RunningStutters ==
  ASSUME UNCHANGED <<gopt, r, best, best_counts, best_sample, outcomes>>,
         pc # "done", pc' # "done"
  PROVE  UNCHANGED Selection!vars
BY DEF Selection!vars, Score

LEMMA SelectionStep ==
  ASSUME IInv, Kept, AverageExact, [Next]_vars
  PROVE  [Selection!Next]_(Selection!vars)
<1> USE DEF numbers, cache, scaling, drawing, position, chosen, history
<1>1. CASE RunStarts BY <1>1, RunningStutters DEF RunStarts
<1>2. CASE StartRun BY <1>2, RunningStutters DEF StartRun
<1>3. CASE BeginIteration BY <1>3, RunningStutters DEF BeginIteration, reset_cache
<1>4. CASE RemoveBlock BY <1>4, RunningStutters DEF RemoveBlock
<1>5. CASE ResampleBlock BY <1>5, RunningStutters DEF ResampleBlock
<1>6. CASE AddBlock BY <1>6, RunningStutters DEF AddBlock
<1>7. CASE ProposePriors BY <1>7, RunningStutters DEF ProposePriors
<1>8. CASE AcceptPriors BY <1>8, RunningStutters DEF AcceptPriors
<1>9. CASE RejectPriors BY <1>9, RunningStutters DEF RejectPriors
<1>10. CASE Unimplemented BY <1>10, RunningStutters DEF Unimplemented
<1>11. CASE RecordIteration BY <1>11, RunningStutters DEF RecordIteration
<1>12. CASE EndRun BY <1>12, EndRunTries DEF Selection!Next
<1>13. CASE FinishStarts BY <1>13, FinishReports DEF Selection!Next
<1>14. CASE UNCHANGED vars
  BY <1>14 DEF vars, Selection!vars, Score, Count
<1> QED BY <1>1, <1>2, <1>3, <1>4, <1>5, <1>6, <1>7, <1>8, <1>9, <1>10, <1>11, <1>12, <1>13, <1>14
        DEF Next, Step, Terminated

(* run_starts implements StartSelection, for any number of starts and whichever
   statistic they are judged by: what is left in the samples and the counts is
   the outcome of the first start none was better than, although every start
   overwrites them. *)
THEOREM StartsAreSelected == Spec => SelectsBest
<1>1. Init => Selection!Init BY SelectionInit
<1>2. IInv /\ Kept /\ AverageExact /\ [Next]_vars => [Selection!Next]_(Selection!vars)
  BY SelectionStep
<1> QED BY <1>1, <1>2, Invariant, KeptInvariant, AveragesAreExact, PTL
        DEF Spec, SelectsBest, Selection!Spec
=============================================================================
