------------------------------ MODULE DeltaSum ------------------------------
(***************************************************************************)
(* graehl/shared/delta_sum.hpp: the integral over time of a quantity that  *)
(* is reported only when it changes, kept in constant space.               *)
(*                                                                         *)
(*   x     the value now          tmax  the latest time reported           *)
(*   s     the integral of the value over 0..tmax                          *)
(*                                                                         *)
(* The operators below are the member functions; each returns the object   *)
(* after the call.  Doubles are integers here: every property is about     *)
(* which terms are added, none about rounding.                             *)
(***************************************************************************)
EXTENDS Integers

DS == [x : Int, tmax : Nat, s : Int]

(* clear(x0), and the constructor, which calls it *)
Clear(x0) == [x |-> x0, tmax |-> 0, s |-> 0]

(* Variants ending in _Something are deliberate faults: substituted for the
   operator that follows, they must break the properties (see README.md). *)

(* addbase(d): pretend the value had always been d larger *)
AddBase(ds, d) == [x |-> ds.x + d, tmax |-> ds.tmax, s |-> ds.s + d * ds.tmax]

(* extend(t) and sum(t) throw for a time before tmax: the past is forgotten *)
CanReach(ds, t) == t >= ds.tmax
Extend(ds, t) == [x |-> ds.x, tmax |-> t, s |-> ds.s + ds.x * (t - ds.tmax)]

(* sum(t), for t <= 0 or CanReach(ds, t) *)
SumAt(ds, t) == IF t <= 0 THEN 0 ELSE ds.s + ds.x * (t - ds.tmax)

(* add_delta(d, t): a change at a new time first accounts for the time since
   tmax; a change reported late is charged for the time already integrated *)
AddDelta_LateUncharged(ds, d, t) ==
  IF t >= ds.tmax
  THEN [x |-> ds.x + d, tmax |-> t, s |-> ds.s + ds.x * (t - ds.tmax)]
  ELSE [ds EXCEPT !.x = @ + d]
AddDelta(ds, d, t) ==
  IF t >= ds.tmax
  THEN [x |-> ds.x + d, tmax |-> t, s |-> ds.s + ds.x * (t - ds.tmax)]
  ELSE [x |-> ds.x + d, tmax |-> ds.tmax, s |-> ds.s + d * (ds.tmax - t)]

(* add_val(v, t) asserts CanReach(ds, t) *)
AddVal(ds, v, t) == AddDelta(ds, v - ds.x, t)
=============================================================================
