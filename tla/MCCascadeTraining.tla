------------------------- MODULE MCCascadeTraining -------------------------
(***************************************************************************)
(* Three machines: A, conditional, with a locked arc and two tied arcs in  *)
(* different groups; B, joint; N, with --normby=N.                         *)
(***************************************************************************)
EXTENDS CascadeTraining

P(m, q, in, g) == [machine |-> m, src |-> q, in |-> in, group |-> g]
MCArcOf ==
  [a1 |-> P("A", 0, "x", NoGroup), a2 |-> P("A", 0, "x", 7), a3 |-> P("A", 0, "y", LockedGroup),
   a4 |-> P("A", 0, "y", 7), a5 |-> P("A", 0, "y", NoGroup),
   b1 |-> P("B", 0, "x", NoGroup), b2 |-> P("B", 0, "y", NoGroup),
   n1 |-> P("N", 0, "x", NoGroup)]
MCParams == DOMAIN MCArcOf
MCWeight0 ==
  [a1 |-> One, a2 |-> One, a3 |-> <<1, 3>>, a4 |-> One, a5 |-> One,
   b1 |-> One, b2 |-> <<3, 1>>, n1 |-> <<2, 1>>]

Bag(S) == [a \in MCParams |-> IF a \in S THEN 1 ELSE 0]
MCChain ==
  [c1 |-> Bag({"a1", "b1"}), c2 |-> [Bag({"a2", "b2", "n1"}) EXCEPT !["b2"] = 2],
   c3 |-> Bag({"a3", "b1"}), c4 |-> Bag({"a4"}), c5 |-> Bag({"a5", "b2"}),
   c6 |-> Bag({})]
MCComposed == DOMAIN MCChain
MCLocked1 == {"c6"}

N(i, j, k, l, m) ==
  [c1 |-> <<i, 1>>, c2 |-> <<j, 1>>, c3 |-> <<k, 1>>, c4 |-> <<l, 1>>, c5 |-> <<m, 1>>, c6 |-> Zero]
MCEstimates ==
  {N(1, 1, 0, 2, 1), N(0, 1, 3, 0, 0), N(2, 0, 1, 0, 1), N(0, 0, 1, 1, 0), N(0, 0, 0, 0, 0)}
MCRandom ==
  {[a \in MCParams |-> One],
   [a \in MCParams |-> IF MCArcOf[a].group = 7 THEN <<1, 2>> ELSE IF a = "b1" THEN <<1, 3>> ELSE One]}

M(g, k) == [group |-> g, add_count |-> k]
Opt(n, k, add, per) ==
  [methods |-> [A |-> M("conditional", Zero), B |-> M("joint", add), N |-> M("none", One)],
   max_iter |-> n, restarts |-> k, smooth |-> Zero, per_arc_prior |-> per]
CascadeOptions ==
  {Opt(n, 0, add, FALSE) : n \in {0, 1, 2}, add \in {Zero, One}}
    \cup {Opt(1, 1, Zero, FALSE), Opt(2, 1, Zero, TRUE), Opt(3, 0, One, TRUE), [Opt(1, 0, Zero, FALSE) EXCEPT !.smooth = One]}
LockedSmoothed ==
  {[Opt(1, 0, Zero, FALSE) EXCEPT !.methods = [@ EXCEPT !["A"] = M("conditional", One)]]}
=============================================================================
