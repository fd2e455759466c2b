---------------------------- MODULE MCDerivations ----------------------------
(***************************************************************************)
(* Transducers of three states and some of a few arcs: with or without     *)
(* labels, between the same states, in cycles, leading nowhere; examples   *)
(* with one, several or no derivations.                                    *)
(***************************************************************************)
EXTENDS CachedDerivations

A(src, in, out, dest) == [src |-> src, in |-> in, out |-> out, dest |-> dest]

(* from start to final reading a: directly, through 1, and twice alike; 2 leads nowhere *)
Labelled == <<A(0, "a", "x", 3), A(0, "a", Eps, 1), A(1, Eps, "x", 3), A(0, "a", "x", 3),
              A(0, Eps, "x", 2), A(3, "a", "x", 3), A(2, Eps, "x", 2)>>
(* the same word over arcs that write and arcs that read *)
Apart == <<A(0, "a", Eps, 0), A(0, Eps, "x", 0), A(0, "a", "x", 0), A(0, Eps, Eps, 3), A(0, Eps, Eps, 3)>>
(* cycles without labels, one on the way and one beside it *)
Cycles == <<A(0, Eps, Eps, 1), A(1, Eps, Eps, 2), A(2, Eps, Eps, 0), A(1, "a", "x", 3),
            A(2, Eps, Eps, 1), A(0, "a", Eps, 2)>>
(* all of it leads nowhere for some *)
Narrow == <<A(0, "a", "x", 1), A(1, "a", Eps, 3), A(1, Eps, "x", 2)>>

E(in, out, w) == [in |-> in, out |-> out, weight |-> <<w, 1>>]
One1 == E(<<"a">>, <<"x">>, 1)
Two2 == E(<<"a", "a">>, <<"x", "x">>, 2)
Two1 == E(<<"a", "a">>, <<"x">>, 1)
None == E(<<>>, <<"x">>, 1)

T(arcs, ex, cache_level, prune) ==
  [arcs |-> arcs, final |-> 3, examples |-> ex, cache_level |-> cache_level, prune |-> prune]

MCTasks ==
  {T(arcs, ex, cache_level, prune) :
     arcs \in {Labelled, Apart, Cycles, Narrow},
     ex \in {<<One1, None, Two2, Two1>>, <<Two1, One1, One1>>, <<None>>},
     cache_level \in {"nothing", "forward", "forward_backward", "disk"},
     prune \in BOOLEAN}

Half == <<1, 2>>
MCWeights == {[a \in 1..7 |-> Half], [a \in 1..7 |-> IF a \in {1, 3} THEN <<1, 4>> ELSE One]}
=============================================================================
