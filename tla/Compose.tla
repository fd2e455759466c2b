------------------------------- MODULE Compose -------------------------------
(***************************************************************************)
(* carmel/src/compose.cc, WFST::set_compose: the composition lhs o rhs of  *)
(* two transducers.  Its states are trios: a state of each machine and the *)
(* state of a filter that leaves one order for the moves in which one      *)
(* machine stays where it is.  Trios get numbers when an arc first leads   *)
(* to them, and wait in a queue until their own arcs are made.             *)
(*                                                                         *)
(* The order in which the arcs of one trio are made is left open: it is    *)
(* that of a list or of a hash table.                                      *)
(***************************************************************************)
EXTENDS CascadeChains

CONSTANTS
  Inputs,             \* what may be composed: records as below
  IndexThreshold      \* WFST::indexThreshold

Composition == [lhs : Machine, rhs : Machine,
                groups : BOOLEAN,        \* preserveGroups (-a)
                cascade : Recorder]
ASSUME InputAssumption == Inputs \subseteq Composition
ASSUME ThresholdAssumption == IndexThreshold \in Nat

VARIABLES
  pc,             \* "idle", "compose", "done", "invalid"
  input,          \* what is being composed
  stateMap,       \* trio -> number
  arcStateMap,    \* -a: mediate state -> number
  numStates,
  queue,          \* trios to expand, the next one last
  source,         \* the trio being expanded
  pending,        \* the moves from it that have yet to be made arcs
  halves,         \* -a: the arcs of lhs from it that have yet to be taken to a mediate state
  arcs, final,
  cascade

worklist == <<stateMap, arcStateMap, numStates, queue, source, pending, halves>>
vars == <<pc, input, worklist, arcs, final, cascade>>

Trio == [qa : Nat, qb : Nat, filter : 0..2]
T(qa, qb, f) == [qa |-> qa, qb |-> qb, filter |-> f]
Start == T(0, 0, 0)
Mediate == [l_dest : Nat, r_source : Nat, letter : Alphabet]

(* in place of the arc of a machine that stays where it is *)
NoArc == [src |-> -1, in |-> Eps, out |-> Eps, dest |-> -1, weight |-> 1, group |-> NoGroup,
          from |-> <<>>]
Move == [from : Nat, l : Arc \cup {NoArc}, r : Arc \cup {NoArc}, to : Trio]
M(from, l, r, to) == [from |-> from, l |-> l, r |-> r, to |-> to]

-----------------------------------------------------------------------------
(* The moves of the input x from a trio t, numbered n *)

(* the filter of three states: 0 after a move of both machines, 1 (2) after
   one of lhs (rhs) alone *)
LeftAlone_Unfiltered(n, t, l) == {M(n, l, NoArc, T(l.dest, t.qb, 1))}
LeftAlone(n, t, l) ==
  IF t.filter = 2 THEN {} ELSE {M(n, l, NoArc, T(l.dest, t.qb, 1))}
RightAlone(n, t, r) ==
  IF t.filter = 1 THEN {} ELSE {M(n, NoArc, r, T(t.qa, r.dest, 2))}
Both(n, l, r) == M(n, l, r, T(l.dest, r.dest, 0))

(* the loop over the arcs of lhs; those of rhs by a loop or by an index; and
   then rhs alone *)
MovesByLeft(x, n, t) ==
  LET left == From(x.lhs, t.qa)
      right == From(x.rhs, t.qb)
      With(l) ==
        IF l.out = Eps
        THEN LeftAlone(n, t, l) \cup {Both(n, l, r) : r \in {y \in right : y.in = Eps /\ t.filter = 0}}
        ELSE {Both(n, l, r) : r \in {y \in right : y.in = l.out}}
  IN  (UNION {With(l) : l \in left})
        \cup (UNION {RightAlone(n, t, r) : r \in {y \in right : y.in = Eps}})

(* the loop over the arcs of rhs; those of lhs by an index; and then lhs alone *)
MovesByRight(x, n, t) ==
  LET left == From(x.lhs, t.qa)
      right == From(x.rhs, t.qb)
      With(r) ==
        IF r.in = Eps
        THEN RightAlone(n, t, r) \cup {Both(n, l, r) : l \in {y \in left : y.out = Eps /\ t.filter = 0}}
        ELSE {Both(n, l, r) : l \in {y \in left : y.out = r.in}}
  IN  (UNION {With(r) : r \in right})
        \cup (UNION {LeftAlone(n, t, l) : l \in {y \in left : y.out = Eps}})

(* the larger side is indexed, if it is large enough *)
Moves(x, n, t) ==
  LET sizeA == Cardinality(From(x.lhs, t.qa))
      sizeB == Cardinality(From(x.rhs, t.qb))
  IN  IF sizeA > sizeB /\ sizeA > IndexThreshold THEN MovesByRight(x, n, t) ELSE MovesByLeft(x, n, t)

(* -a, the filter of two states: 1 after a move of rhs alone.  The moves of
   one machine alone, *)
MovesAlone(x, n, t) ==
  {M(n, l, NoArc, T(l.dest, t.qb, 0)) :
     l \in {y \in From(x.lhs, t.qa) : y.out = Eps /\ t.filter = 0}}
  \cup {M(n, NoArc, r, T(t.qa, r.dest, 1)) : r \in {y \in From(x.rhs, t.qb) : y.in = Eps}}

(* and the moves of both: an arc of lhs to a state that stands for its
   destination, the state of rhs and the letter between; an arc of rhs from there *)
Halves(x, t) ==
  {l \in From(x.lhs, t.qa) : l.out # Eps /\ \E r \in From(x.rhs, t.qb) : r.in = l.out}
MediateState(l, qb) == [l_dest |-> l.dest, r_source |-> qb, letter |-> l.out]
MovesFromMediate(x, n, k) ==
  {M(n, NoArc, r, T(k.l_dest, r.dest, 0)) :
     r \in {y \in From(x.rhs, k.r_source) : y.in = k.letter}}

MovesOf(x, n, t) == IF x.groups THEN MovesAlone(x, n, t) ELSE Moves(x, n, t)
HalvesOf(x, t) == IF x.groups THEN Halves(x, t) ELSE {}

-----------------------------------------------------------------------------
(* cascade.record, record1, record2, as the arc is made of two or of one *)
Recorded(l, r) ==
  IF r = NoArc THEN RecordEps(cascade, l, cascade.is_chain[1])
  ELSE IF l = NoArc THEN RecordEps(cascade, r, cascade.is_chain[2])
  ELSE Record(cascade, l, r)

NewArc(n, l, r, dest, group) ==
  [src |-> n, in |-> l.in, out |-> r.out, dest |-> dest, weight |-> l.weight * r.weight,
   group |-> group, from |-> l.from \o r.from]

(* HashTable::insert: what is in the table stays *)
Inserted_Overwrites(map, k, v) == [x \in DOMAIN map \cup {k} |-> IF x = k THEN v ELSE map[x]]
Inserted(map, k, v) ==
  [x \in DOMAIN map \cup {k} |-> IF x \in DOMAIN map THEN map[x] ELSE v]

Begin(i) ==
  /\ input' = i /\ cascade' = i.cascade
  /\ stateMap' = [t \in {Start} |-> 0]
  /\ arcStateMap' = [k \in {} |-> 0]
  /\ numStates' = 1
  /\ queue' = <<Start>>
  /\ source' = Start
  /\ pending' = {} /\ halves' = {} /\ arcs' = {}
  /\ final' = 0
  /\ pc' = IF i.lhs.valid /\ i.rhs.valid THEN "compose" ELSE "invalid"

Expanded == pending = {} /\ halves = {}

Expand_NotPopped ==
  /\ pc = "compose" /\ Expanded /\ queue # <<>>
  /\ LET t == queue[Len(queue)]
     IN  /\ source' = t
         /\ pending' = MovesOf(input, stateMap[t], t)
         /\ halves' = HalvesOf(input, t)
  /\ UNCHANGED <<pc, input, stateMap, arcStateMap, numStates, queue, arcs, final, cascade>>

(* take a trio off the queue *)
Expand ==
  /\ pc = "compose" /\ Expanded /\ queue # <<>>
  /\ LET t == queue[Len(queue)]
     IN  /\ source' = t
         /\ pending' = MovesOf(input, stateMap[t], t)
         /\ halves' = HalvesOf(input, t)
  /\ queue' = SubSeq(queue, 1, Len(queue) - 1)
  /\ UNCHANGED <<pc, input, stateMap, arcStateMap, numStates, arcs, final, cascade>>

(* COMPOSEARC_GROUP *)
ComposeArc(m) ==
  /\ pc = "compose" /\ m \in pending
  /\ LET new == m.to \notin DOMAIN stateMap
         rec == Recorded(m.l, m.r)
     IN  /\ stateMap' = Inserted(stateMap, m.to, numStates)
         /\ queue' = IF new THEN Append(queue, m.to) ELSE queue
         /\ numStates' = IF new THEN numStates + 1 ELSE numStates
         /\ arcs' = arcs \cup {NewArc(m.from, m.l, m.r, stateMap'[m.to], rec.id)}
         /\ cascade' = rec.c
         /\ pending' = pending \ {m}
  /\ UNCHANGED <<pc, input, arcStateMap, source, halves, final>>

(* -a: an arc of lhs to its mediate state, made and filled when it is new *)
ComposeHalf(l) ==
  /\ pc = "compose" /\ l \in halves
  /\ LET k == MediateState(l, source.qb)
         new == k \notin DOMAIN arcStateMap
         rec == Recorded(l, NoArc)
     IN  /\ arcStateMap' = Inserted(arcStateMap, k, numStates)
         /\ numStates' = IF new THEN numStates + 1 ELSE numStates
         /\ pending' = IF new THEN pending \cup MovesFromMediate(input, numStates, k) ELSE pending
         /\ arcs' = arcs \cup {NewArc(stateMap[source], l, NoArc, arcStateMap'[k], rec.id)}
         /\ cascade' = rec.c
         /\ halves' = halves \ {l}
  /\ UNCHANGED <<pc, input, stateMap, queue, source, final>>

(* one final state of the trios of the two finals; locked arcs to a new one
   when there are several *)
Finals == {t \in DOMAIN stateMap : t.qa = input.lhs.final /\ t.qb = input.rhs.final}
LockedArc(t, dest) ==
  [NoArc EXCEPT !.src = stateMap[t], !.dest = dest, !.group = Locked1GroupId(cascade)]

Finish ==
  /\ pc = "compose" /\ Expanded /\ queue = <<>>
  /\ pc' = IF Finals = {} THEN "invalid" ELSE "done"
  /\ IF Cardinality(Finals) > 1
     THEN /\ final' = numStates
          /\ numStates' = numStates + 1
          /\ arcs' = arcs \cup {LockedArc(t, numStates) : t \in Finals}
     ELSE /\ final' \in IF Finals = {} THEN {final} ELSE {stateMap[t] : t \in Finals}
          /\ UNCHANGED <<numStates, arcs>>
  /\ UNCHANGED <<input, stateMap, arcStateMap, queue, source, pending, halves, cascade>>

Composed == [valid |-> pc = "done", n |-> numStates, final |-> final, arcs |-> arcs]

Step == Expand \/ (\E m \in pending : ComposeArc(m)) \/ (\E l \in halves : ComposeHalf(l)) \/ Finish

NoMachine == [valid |-> FALSE, n |-> 0, final |-> 0, arcs |-> {}]
Idle ==
  /\ pc = "idle"
  /\ input = [lhs |-> NoMachine, rhs |-> NoMachine, groups |-> FALSE, cascade |-> NewRecorder(FALSE)]
  /\ stateMap = [t \in {Start} |-> 0]
  /\ arcStateMap = [k \in {} |-> 0]
  /\ numStates = 1
  /\ queue = <<>> /\ source = Start
  /\ pending = {} /\ halves = {} /\ arcs = {}
  /\ final = 0
  /\ cascade = NewRecorder(FALSE)

Init == Idle
Next == (pc # "compose" /\ \E i \in Inputs : Begin(i)) \/ Step
Spec == Init /\ [][Next]_vars

-----------------------------------------------------------------------------
(* What set_compose does with the worklist: a number names one state; every
   trio that has a number waits in the queue, or is being expanded, or has all
   the arcs of its moves; no arc is there without a move that makes it. *)
Waiting == {queue[k] : k \in DOMAIN queue}
Visited == DOMAIN stateMap \ Waiting

(* the arc e is the move m's; that to the mediate state of lhs's arc l from t *)
Makes(map, m, e) ==
  m.to \in DOMAIN map /\ e = NewArc(m.from, m.l, m.r, map[m.to], e.group)
MakesHalf(map, mediates, t, l, e) ==
  LET k == MediateState(l, t.qb)
  IN  k \in DOMAIN mediates /\ e = NewArc(map[t], l, NoArc, mediates[k], e.group)

NumbersDistinct ==
  /\ \A t, u \in DOMAIN stateMap : stateMap[t] = stateMap[u] => t = u
  /\ \A k, l \in DOMAIN arcStateMap : arcStateMap[k] = arcStateMap[l] => k = l
  /\ \A t \in DOMAIN stateMap, k \in DOMAIN arcStateMap : stateMap[t] # arcStateMap[k]
QueueDistinct == \A k, l \in DOMAIN queue : queue[k] = queue[l] => k = l
Closed ==
  /\ \A t \in Visited : \A m \in MovesOf(input, stateMap[t], t) \ pending :
       \E e \in arcs : Makes(stateMap, m, e)
  /\ \A t \in Visited : \A l \in HalvesOf(input, t) :
       (t = source /\ l \in halves) \/ \E e \in arcs : MakesHalf(stateMap, arcStateMap, t, l, e)
  /\ \A k \in DOMAIN arcStateMap : \A m \in MovesFromMediate(input, arcStateMap[k], k) \ pending :
       \E e \in arcs : Makes(stateMap, m, e)

Sound ==
  \A e \in arcs :
    \/ \E t \in DOMAIN stateMap : \E m \in MovesOf(input, stateMap[t], t) : Makes(stateMap, m, e)
    \/ \E k \in DOMAIN arcStateMap : \E m \in MovesFromMediate(input, arcStateMap[k], k) : Makes(stateMap, m, e)
    \/ \E t \in DOMAIN stateMap : \E l \in HalvesOf(input, t) : MakesHalf(stateMap, arcStateMap, t, l, e)
    \/ pc = "done" /\ e.dest = final /\ e.in = Eps /\ e.out = Eps /\ e.weight = 1 /\ e.from = <<>>

Worklist == pc \in {"compose", "done"} => NumbersDistinct /\ QueueDistinct /\ Closed /\ Sound

(* When set_compose is done, the machine has the arcs of every move of every
   trio it numbered *)
Complete ==
  pc = "done" =>
    /\ Start \in DOMAIN stateMap
    /\ \A t \in DOMAIN stateMap : \A m \in MovesOf(input, stateMap[t], t) :
         m.to \in DOMAIN stateMap /\ \E e \in arcs : Makes(stateMap, m, e)
=============================================================================
