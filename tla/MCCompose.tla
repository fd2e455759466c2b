------------------------------ MODULE MCCompose ------------------------------
(***************************************************************************)
(* Chains of two and three small transducers in which both sides of a      *)
(* match have empty letters: before, between and after letters that match, *)
(* on either side alone and on both, and in loops.                         *)
(***************************************************************************)
EXTENDS CompositionChain

MCLetters == {"x", "y"}

(* arcs as <<src, in, out, dest, weight, group>>, named from k + 1 on *)
Transducer(k, n, f, list) ==
  [valid |-> TRUE, n |-> n, final |-> f,
   arcs |-> {[src |-> list[j][1], in |-> list[j][2], out |-> list[j][3], dest |-> list[j][4],
              weight |-> list[j][5], group |-> list[j][6], from |-> <<k + j>>] :
                j \in DOMAIN list}]

(* x, deleted once or twice, around a letter that is kept; a dead end *)
Deletes == Transducer(0, 4, 2,
  <<<<0, "x", Eps, 1, 2, NoGroup>>, <<0, "x", Eps, 0, 1, LockedGroup>>,
    <<0, "x", "x", 1, 1, LockedGroup>>, <<1, "y", "x", 2, 3, 4>>, <<1, "y", Eps, 3, 5, NoGroup>>>>)
(* insertions at the start, between and at the end *)
Inserts == Transducer(10, 3, 2,
  <<<<0, Eps, "y", 1, 7, NoGroup>>, <<0, "x", "y", 2, 5, LockedGroup>>,
    <<1, "x", "x", 2, 1, LockedGroup>>, <<2, Eps, "x", 2, 2, 4>>>>)
(* a letter deleted at the end: several trios of the finals *)
DeletesLast == Transducer(20, 2, 1,
  <<<<0, "x", "x", 1, 2, NoGroup>>, <<0, "y", Eps, 1, 3, 4>>, <<1, "y", Eps, 1, 1, LockedGroup>>>>)
InsertsLast == Transducer(30, 3, 2,
  <<<<0, "x", "y", 1, 3, 4>>, <<0, Eps, "x", 1, 5, NoGroup>>, <<1, Eps, "y", 2, 2, NoGroup>>,
    <<0, "x", "x", 2, 2, LockedGroup>>>>)
(* two arcs to one state with one letter, from different states *)
Merges == Transducer(40, 3, 2,
  <<<<0, "x", "x", 2, 2, 4>>, <<0, "y", Eps, 1, 3, NoGroup>>, <<1, "x", "x", 2, 5, NoGroup>>>>)
(* what nothing matches *)
Mismatch == Transducer(50, 2, 1, <<<<0, "x", "y", 1, 2, NoGroup>>>>)
Acceptor == Transducer(60, 2, 1,
  <<<<0, "y", "y", 0, 1, LockedGroup>>, <<0, "x", "x", 1, 1, LockedGroup>>, <<1, "y", Eps, 1, 2, NoGroup>>>>)

JobsOf(chains, rights, orders, reductions, compressions) ==
  {[parts |-> c, right |-> r, a |-> a, remember |-> m, reduce |-> d,
    order |-> o, compress |-> z] :
     c \in chains, r \in rights, a \in BOOLEAN, m \in BOOLEAN, d \in reductions,
     o \in orders, z \in compressions}

Pairs == {<<Deletes, Inserts>>, <<DeletesLast, InsertsLast>>, <<Merges, Inserts>>,
          <<Mismatch, InsertsLast>>}
Triples == {<<Merges, InsertsLast, Acceptor>>}
MCJobs ==
  JobsOf(Pairs, {FALSE}, {"up", "down"}, BOOLEAN, {"changed"})
    \cup JobsOf({<<Merges, Inserts>>}, {TRUE}, {"any"}, {TRUE}, {"changed"})
    \cup JobsOf(Triples, BOOLEAN, {"up"}, {TRUE}, {"no", "always"})
=============================================================================
