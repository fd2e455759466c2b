----------------------------- MODULE MCForestEM -----------------------------
(***************************************************************************)
(* Small forests with shared parts, rules in two groups and in none, and   *)
(* a forest that is impossible at first.                                   *)
(***************************************************************************)
EXTENDS ForestEM

N(label, next) == [label |-> label, next |-> next]
B(ref, next) == [ref |-> ref, next |-> next]

(* (OR (1 #1(OR 3 4) #1) (2 #1)) *)
Shared == <<N(OR, 9), N(1, 7), N(OR, 6), N(3, 5), N(4, 6), B(3, 7), N(2, 9), B(3, 9)>>
(* (OR 3 4) and (OR (1 3) (1 4 4) 5) *)
Flat == <<N(OR, 4), N(3, 3), N(4, 4)>>
Three == <<N(OR, 8), N(1, 4), N(3, 4), N(1, 7), N(4, 6), N(4, 7), N(5, 8)>>
Leaf(r) == <<N(r, 2)>>
(* (2 #1(1 5) (OR #1 4)) *)
Backs == <<N(2, 7), N(1, 4), N(5, 4), N(OR, 7), B(2, 6), N(4, 7)>>

MCRules == 1..5
W(a, b, c, d, e) == <<a, b, c, d, e>>
Half == <<1, 2>>
Uniform == W(Half, Half, Half, Half, One)

C(forests, init, prior, add_k, zeroes, power) ==
  [forests |-> forests, norm_groups |-> {{1, 2}, {3, 4}}, init |-> init, prior_count |-> prior,
   add_k_smoothing |-> add_k, zero_zerocounts |-> zeroes, power |-> power]

MCCorpora ==
  {C(<<Shared, Leaf(1)>>, Uniform, Zero, Zero, FALSE, 1),
   C(<<Flat, Leaf(3)>>, W(One, One, One, One, One), Zero, Zero, FALSE, 1),
   C(<<Three>>, W(One, One, One, Half, Half), Zero, One, FALSE, 1),
   C(<<Backs>>, W(Half, Half, Half, Half, One), Zero, Zero, FALSE, 1),
   C(<<Flat, Flat>>, Uniform, One, Zero, FALSE, 1),
   C(<<Flat, Leaf(2)>>, W(Half, Zero, Half, Half, One), Zero, Zero, TRUE, 1),
   C(<<Backs>>, W(Half, Zero, <<1, 4>>, <<3, 4>>, One), Zero, Zero, FALSE, 1),
   C(<<Shared>>, Uniform, Zero, Zero, FALSE, 2)}

MCRandom == {W(Half, Half, Half, Half, One), W(<<1, 4>>, <<3, 4>>, Half, Half, One)}
MCProposals == {Uniform, W(<<1, 3>>, <<2, 3>>, <<3, 4>>, <<1, 4>>, Half)}

E(iters, restarts, converge, delta, growth) ==
  [max_iter |-> iters, restarts |-> restarts, converge |-> converge, delta |-> delta, growth |-> growth]
MCOptions ==
  {E(0, 0, FALSE, Zero, 1), E(3, 0, FALSE, Zero, 1), E(2, 2, TRUE, Zero, 1), E(3, 1, TRUE, Zero, 2),
   E(2, 1, FALSE, One, 1)}
=============================================================================
