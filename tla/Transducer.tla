----------------------------- MODULE Transducer -----------------------------
(***************************************************************************)
(* carmel/src/fst.h, state.h and fst.cc: weighted transducers, as far as   *)
(* composition reads and builds them.  A machine is a record: its number   *)
(* of states (0 is the start), its final state and its arcs.               *)
(*                                                                         *)
(* Letters are names: the maps between the two alphabets that meet in a    *)
(* composition take a letter to the letter of the same name.               *)
(***************************************************************************)
EXTENDS Integers, FiniteSets, Sequences, SequencesExt

CONSTANT Letters

Eps == "*e*"
Alphabet == Letters \cup {Eps}

NoGroup == -1       \* FSTArc::no_group
LockedGroup == 0    \* FSTArc::locked_group
IsLocked(e) == e.group = LockedGroup

(* from: history, the arcs of the input machines that the arc stands for, by
   name; <<p>> for the arc p of an input machine *)
Arc == [src : Nat, in : Alphabet, out : Alphabet, dest : Nat, weight : Nat, group : Int,
        from : Seq(Nat)]
Machine == [valid : BOOLEAN, n : Nat, final : Nat, arcs : SUBSET Arc]

From(m, q) == {e \in m.arcs : e.src = q}

-----------------------------------------------------------------------------
(* WFST::reduce *)

(* the states reached from q by at most k of the steps *)
Within(steps, q, k) ==
  LET After(x) == {x} \cup {s[2] : s \in {y \in steps : y[1] = x}}
      reached[i \in 0..k] == IF i = 0 THEN {q} ELSE UNION {After(x) : x \in reached[i - 1]}
  IN  reached[k]

Useful(m) ==
  Within({<<e.src, e.dest>> : e \in m.arcs}, 0, m.n)
    \cap Within({<<e.dest, e.src>> : e \in m.arcs}, m.final, m.n)

(* the states that are on no path from start to final go, those that stay are
   numbered anew in their order; then the empty loops go *)
Reduce(m) ==
  LET keep == Useful(m)
      new(q) == Cardinality({k \in keep : k < q})
      kept == {e \in m.arcs : e.src \in keep /\ e.dest \in keep}
      loops == {e \in kept : e.src = e.dest /\ e.in = Eps /\ e.out = Eps}
  IN  IF ~m.valid THEN m
      ELSE [valid |-> m.final \in keep,
            n |-> Cardinality(keep),
            final |-> IF m.final \in keep THEN new(m.final) ELSE 0,
            arcs |-> {[e EXCEPT !.src = new(e.src), !.dest = new(e.dest)] : e \in kept \ loops}]

-----------------------------------------------------------------------------
(* Paths, for what the properties say of machines *)

(* the paths of at most k arcs from start to final, all of whose beginnings
   are short enough *)
PathsWithin(m, k, Short(_)) ==
  LET at(path) == IF path = <<>> THEN 0 ELSE path[Len(path)].dest
      ofLength[i \in 0..k] ==
        IF i = 0 THEN {<<>>}
        ELSE UNION {{x \in {Append(path, e) : e \in From(m, at(path))} : Short(x)} :
                      path \in ofLength[i - 1]}
  IN  IF m.valid THEN {path \in UNION {ofLength[i] : i \in 0..k} : at(path) = m.final}
      ELSE {}
Paths(m, k) == PathsWithin(m, k, LAMBDA path : TRUE)

Word(letters) == SelectSeq(letters, LAMBDA x : x # Eps)
Input(path) == Word([i \in DOMAIN path |-> path[i].in])
Output(path) == Word([i \in DOMAIN path |-> path[i].out])

(* the input machines' arcs along the path *)
Along(path) == FlattenSeq([i \in DOMAIN path |-> path[i].from])
=============================================================================
