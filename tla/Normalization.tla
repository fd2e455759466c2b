---------------------------- MODULE Normalization ----------------------------
(***************************************************************************)
(* carmel/src/fst.cc, WFST::normalize: the weights of a machine's arcs,    *)
(* normalized per state (joint) or per state and input letter              *)
(* (conditional).  Arcs may be locked, or tied: those of a tie group get   *)
(* one weight, whichever normalization groups they are in.                 *)
(*                                                                         *)
(* The arcs of all machines are the elements of Params, their weights a    *)
(* function on it.  method.scale is the identity here (its default).       *)
(***************************************************************************)
EXTENDS Ratios, FiniteSets

CONSTANTS
  Params,   \* the arcs of the machines
  ArcOf     \* Params -> [machine, src, in, group]

LockedGroup == 0    \* FSTArc::locked_group
NoGroup == -1       \* FSTArc::no_group

IsLocked(a) == ArcOf[a].group = LockedGroup
IsNormal(a) == ArcOf[a].group = NoGroup
IsTied(a) == ~IsLocked(a) /\ ~IsNormal(a)

Methods == [group : {"conditional", "joint", "none"}, add_count : Ratio]

MachineArcs(m) == {a \in Params : ArcOf[a].machine = m}

(* NormGroupIter: the arcs normalized together with a *)
NormGroup(a, group) ==
  {b \in MachineArcs(ArcOf[a].machine) :
     /\ ArcOf[b].src = ArcOf[a].src
     /\ group = "conditional" => ArcOf[b].in = ArcOf[a].in}

TieGroup(a) == {b \in MachineArcs(ArcOf[a].machine) : ArcOf[b].group = ArcOf[a].group}

FreeSum(w, a, group) == SumOver(w, {b \in NormGroup(a, group) : ~IsLocked(b)})
LockedSum(w, a, group) == SumOver(w, {b \in NormGroup(a, group) : IsLocked(b)})

(* the weight of the arcs tied to a: their counts out of the counts of the
   groups they are in, less what the fullest of these needs for locked arcs *)
TiedWeight_OwnGroup(w, a, group) ==
  LET maxLocked == LockedSum(w, a, group)
      arcs == SumOver(w, TieGroup(a))
      groups == SumOver([b \in TieGroup(a) |-> FreeSum(w, b, group)], TieGroup(a))
  IN  IF Less(maxLocked, One) /\ arcs # Zero
      THEN Times(Over(arcs, groups), Minus(One, maxLocked)) ELSE Zero
TiedWeight_NoRoom(w, a, group) ==
  LET arcs == SumOver(w, TieGroup(a))
      groups == SumOver([b \in TieGroup(a) |-> FreeSum(w, b, group)], TieGroup(a))
  IN  IF arcs # Zero THEN Over(arcs, groups) ELSE Zero
TiedWeight(w, a, group) ==
  LET maxLocked == Largest({LockedSum(w, b, group) : b \in TieGroup(a)})
      arcs == SumOver(w, TieGroup(a))
      groups == SumOver([b \in TieGroup(a) |-> FreeSum(w, b, group)], TieGroup(a))
  IN  IF Less(maxLocked, One) /\ arcs # Zero
      THEN Times(Over(arcs, groups), Minus(One, maxLocked)) ELSE Zero

(* what the tied and locked arcs of a's group leave to the normal ones *)
Remaining(w, a, group) ==
  LET of(b) == IF IsTied(b) THEN TiedWeight(w, b, group) ELSE w[b]
      reserved == {b \in NormGroup(a, group) : ~IsNormal(b)}
  IN  Minus(One, SumOver([b \in reserved |-> of(b)], reserved))

NormalWeight(w, a, group) ==
  LET sum == SumOver(w, {b \in NormGroup(a, group) : IsNormal(b)})
      left == Remaining(w, a, group)
  IN  IF left # Zero /\ sum # Zero THEN Over(Times(left, w[a]), sum) ELSE Zero

(* every weight grows by add_count first *)
Smoothed(w, methods) ==
  [a \in Params |-> Plus(w[a], methods[ArcOf[a].machine].add_count)]

NewWeight(w, a, group) ==
  IF IsLocked(a) THEN w[a]
  ELSE IF IsTied(a) THEN TiedWeight(w, a, group) ELSE NormalWeight(w, a, group)

(* WFST::normalize of every machine, each by its own method *)
Normalize(w, methods) ==
  [a \in Params |->
     LET group == methods[ArcOf[a].machine].group
     IN  IF group = "none" THEN w[a] ELSE NewWeight(Smoothed(w, methods), a, group)]
=============================================================================
