----------------------------- MODULE MCLazyKBest -----------------------------
(***************************************************************************)
(* Forests of three nodes: shared kids with ties and repeated words,       *)
(* cycles that cost something, and cycles that are free.                   *)
(***************************************************************************)
EXTENDS LazyKBest

E(id, kids, cost, words) == [id |-> id, kids |-> kids, cost |-> cost, words |-> words]
B(cost, words) == [cost |-> cost, words |-> words]

Forest(r, a, b, br, ba, bb, throws, maxreps) ==
  [edges |-> [R |-> r, A |-> a, B |-> b], best |-> [R |-> br, A |-> ba, B |-> bb],
   throw_on_cycle |-> throws, maxreps |-> maxreps]

(* R -> A A | B; the leaves of A tie and repeat their words *)
Ties(n) ==
  Forest({E(1, <<"A", "A">>, 0, {}), E(2, <<"B">>, 1, {})},
         {E(4, <<>>, 0, {"w"}), E(5, <<>>, 1, {"w"}), E(6, <<>>, 1, {"v"})},
         {E(7, <<>>, 0, {"v"})},
         B(0, {"w"}), B(0, {"w"}), B(0, {"v"}), TRUE, n)

(* R -> A B | A; B -> A: A is asked by both *)
Shared(n) ==
  Forest({E(1, <<"A", "B">>, 0, {}), E(2, <<"A">>, 5, {})},
         {E(4, <<>>, 0, {"w"}), E(5, <<>>, 2, {"v"})},
         {E(7, <<>>, 0, {"v"}), E(8, <<"A">>, 2, {})},
         B(0, {"v", "w"}), B(0, {"w"}), B(0, {"v"}), TRUE, n)

(* R and A lead back to R, at a cost *)
Costly ==
  Forest({E(1, <<>>, 0, {"w"}), E(2, <<"R">>, 3, {}), E(3, <<"A", "R">>, 0, {})},
         {E(4, <<>>, 1, {"v"}), E(5, <<"R">>, 3, {})},
         {E(6, <<>>, 0, {})},
         B(0, {"w"}), B(1, {"v"}), B(0, {}), TRUE, 0)

(* Infinitely many trees, of two projections: a filter that admits five of each *)
(* rejects some before it passes nine; one that admits four never finds a ninth. *)
Endless(n, throws) ==
  Forest({E(1, <<>>, 0, {"w"}), E(2, <<"R">>, 3, {}), E(3, <<"R">>, 1, {"v"})},
         {E(4, <<>>, 0, {})},
         {E(5, <<>>, 0, {})},
         B(0, {"w"}), B(0, {}), B(0, {}), throws, n)

(* R -> A and A -> R are free *)
Free(throws) ==
  Forest({E(1, <<>>, 0, {}), E(2, <<"A">>, 0, {}), E(3, <<>>, 1, {})},
         {E(4, <<"R">>, 0, {}), E(5, <<"B", "R">>, 2, {})},
         {E(6, <<>>, 0, {}), E(7, <<>>, 2, {})},
         B(0, {}), B(0, {}), B(0, {}), throws, 0)

MCForests ==
  {Ties(n) : n \in 0..2} \cup {Shared(n) : n \in 0..1} \cup {Costly}
    \cup {Endless(n, t) : n \in {4, 5}, t \in BOOLEAN} \cup {Free(t) : t \in BOOLEAN}
MCKs == {3, 9}
MCNodes == {"R", "A", "B"}
=============================================================================
