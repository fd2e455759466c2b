--------------------------- MODULE DeltaSumSignal ---------------------------
(***************************************************************************)
(* A delta_sum and the signal it is told about.  "ds" is the object;       *)
(* "signal" is a history variable: signal[u] is the value the callers gave *)
(* the quantity during [u-1, u), for u in 1..Horizon.  Any sequence of     *)
(* calls is allowed, late changes and retroactive base changes included.   *)
(***************************************************************************)
EXTENDS DeltaSum, Sums

CONSTANTS
  Horizon,    \* the last time any call mentions
  Change,     \* the amounts a call may add
  Limit       \* bound on the magnitude of values, for model checking

ASSUME HorizonAssumption == Horizon \in Nat
ASSUME ChangeAssumption == Change \subseteq Int
ASSUME LimitAssumption == Limit \in Nat

VARIABLES
  ds,         \* the delta_sum
  signal      \* history: what the quantity was, unit of time by unit of time

signalVars == <<ds, signal>>

Times == 0..Horizon
Units == 1..Horizon

SignalInit ==
  \E x0 \in Change :
    /\ ds = Clear(x0)
    /\ signal = [u \in Units |-> x0]

(* add d from time t on *)
Raise(d, t) == [u \in Units |-> IF u > t THEN signal[u] + d ELSE signal[u]]
InLimit(v) == -Limit <= v /\ v <= Limit
Small == InLimit(ds'.x) /\ \A u \in Units : InLimit(signal'[u])

CallAddDelta(d, t) ==
  /\ ds' = AddDelta(ds, d, t)
  /\ signal' = Raise(d, t)
  /\ Small

CallAddBase(d) ==
  /\ ds' = AddBase(ds, d)
  /\ signal' = Raise(d, 0)
  /\ Small

CallAddVal(v, t) ==
  /\ CanReach(ds, t)
  /\ ds' = AddVal(ds, v, t)
  /\ signal' = [u \in Units |-> IF u > t THEN v ELSE signal[u]]

CallExtend(t) ==
  /\ CanReach(ds, t)
  /\ ds' = Extend(ds, t)
  /\ UNCHANGED signal

CallClear(x0) ==
  /\ ds' = Clear(x0)
  /\ signal' = [u \in Units |-> x0]

SignalNext ==
  \/ \E d \in Change, t \in Times : CallAddDelta(d, t)
  \/ \E d \in Change : CallAddBase(d)
  \/ \E v \in Change, t \in Times : CallAddVal(v, t)
  \/ \E t \in Times : CallExtend(t)
  \/ \E x0 \in Change : CallClear(x0)

SignalSpec == SignalInit /\ [][SignalNext]_signalVars

-----------------------------------------------------------------------------
(* Types: the object holds numbers and its time never passes the horizon. *)
SignalTypeOK ==
  /\ ds \in DS
  /\ ds.tmax \in Times
  /\ signal \in [Units -> Int]

(* The value held is the value of the signal from tmax on: delta_sum.hpp
   says it tracks "the current instantaneous value x at time tmax". *)
TracksValue == \A u \in Units : u > ds.tmax => signal[u] = ds.x

(* Every integral the object still claims to know (sum(t) for t >= tmax) is
   the integral of the signal, whatever the order the changes came in. *)
IntegralExact == \A t \in Times : CanReach(ds, t) => SumAt(ds, t) = SumTo(signal, t)
=============================================================================
