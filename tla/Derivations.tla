----------------------------- MODULE Derivations -----------------------------
(***************************************************************************)
(* carmel/src/derivations.h: the derivations of one example (an input and  *)
(* an output) through a transducer, as a graph.  A state of it is a place  *)
(* in the input, a state of the transducer and a place in the output;      *)
(* derive explores them depth first, and leaves out what is already known  *)
(* to lead nowhere.  An arc names the transducer's arc it takes (the index *)
(* in arcs_table).                                                         *)
(***************************************************************************)
EXTENDS Ratios, SequencesExt, FiniteSets

CONSTANTS
  Eps,          \* epsilon_index
  Tasks         \* transducer, examples and the way of caching

(* arcs: [src, in, out, dest], in the order of visit_arcs; state 0 is the start *)
IsTask(t) ==
  /\ Len(t.arcs) \in Nat /\ DOMAIN t.arcs = 1..Len(t.arcs)
  /\ \A a \in DOMAIN t.arcs : {t.arcs[a].src, t.arcs[a].dest} \subseteq Nat
  /\ t.final \in Nat
  /\ Len(t.examples) \in Nat /\ DOMAIN t.examples = 1..Len(t.examples)
  /\ \A j \in DOMAIN t.examples : /\ t.examples[j].weight \in Ratio
                                  /\ Eps \notin Range(t.examples[j].in \o t.examples[j].out)
  /\ t.cache_level \in {"nothing", "forward", "forward_backward", "disk"}
  /\ t.prune \in BOOLEAN

ASSUME TasksAssumption == \A t \in Tasks : IsTask(t)

VARIABLES
  task,
  lineno,       \* the example
  id_of_state,  \* the states found, in order
  g,            \* the arcs of each
  remove,       \* is it known to lead nowhere?
  stack,        \* calls of derive: the state, the arcs still to be followed, dead
  d             \* the derivations object computed last, or loaded last from disk

derivingVars == <<lineno, id_of_state, g, remove, stack>>

Cached == task.cache_level # "nothing"
use_file == task.cache_level = "disk"
cache_backward == task.cache_level = "forward_backward"

NoDerivations == [lineno |-> 0, weight |-> Zero, g |-> <<>>, fin |-> 0, no_goal |-> TRUE,
                  reverse_order |-> <<>>]

DerivingInit ==
  /\ task \in Tasks
  /\ lineno = 0
  /\ id_of_state = <<>> /\ g = <<>> /\ remove = <<>> /\ stack = <<>>
  /\ d = NoDerivations

-----------------------------------------------------------------------------
(* derive and add_arcs *)

Example == task.examples[lineno]
GoalOf(e) == <<Len(e.in), task.final, Len(e.out)>>

(* SelectSeq, of those in S: an operator of operators is beyond the provers *)
Among(s, S) ==
  LET upTo[j \in 0..Len(s)] ==
        IF j = 0 THEN <<>>
        ELSE IF s[j] \in S THEN Append(upTo[j - 1], s[j]) ELSE upTo[j - 1]
  IN  upTo[Len(s)]

(* wfst_io_index: the arcs of a state with these labels *)
Index(s, in, out) ==
  Among([a \in DOMAIN task.arcs |-> a],
        {a \in DOMAIN task.arcs :
           task.arcs[a].src = s /\ task.arcs[a].in = in /\ task.arcs[a].out = out})

(* the arcs that can be taken from q, in the order in which they are *)
ArcsFrom(e, q) ==
  LET With(in) ==
        Index(q[2], in, Eps)
          \o (IF q[3] < Len(e.out) THEN Index(q[2], in, e.out[q[3] + 1]) ELSE <<>>)
  IN  With(Eps) \o (IF q[1] < Len(e.in) THEN With(e.in[q[1] + 1]) ELSE <<>>)

Step(q, a) ==
  LET arc == task.arcs[a]
      Past(label) == IF label = Eps THEN 0 ELSE 1
  IN  <<q[1] + Past(arc.in), arc.dest, q[3] + Past(arc.out)>>

Frame(e, q, id) == [id |-> id, todo |-> ArcsFrom(e, q), dead |-> q # GoalOf(e)]

(* init_and_compute, up to the first call *)
StartDeriving(n) ==
  /\ lineno' = n
  /\ LET q == <<0, 0, 0>>
     IN  id_of_state' = <<q>> /\ stack' = <<Frame(task.examples[n], q, 1)>>
  /\ g' = << <<>> >>
  /\ remove' = <<FALSE>>

Top == stack[Len(stack)]
Next_ds == Step(id_of_state[Top.id], Head(Top.todo))
Known == {id_of_state[j] : j \in DOMAIN id_of_state}

(* a state is not known to be dead until all its arcs were followed *)
Unfinished_Dead == TRUE
Unfinished == FALSE

Descend ==
  /\ stack # <<>> /\ Top.todo # <<>> /\ Next_ds \notin Known
  /\ id_of_state' = Append(id_of_state, Next_ds)
  /\ g' = Append(g, <<>>)
  /\ remove' = Append(remove, Unfinished)
  /\ stack' = Append(stack, Frame(Example, Next_ds, Len(id_of_state) + 1))
  /\ UNCHANGED lineno

AddArc ==
  /\ stack # <<>> /\ Top.todo # <<>> /\ Next_ds \in Known
  /\ LET dst == CHOOSE j \in DOMAIN id_of_state : id_of_state[j] = Next_ds
     IN  /\ g' = IF remove[dst] THEN g
                 ELSE [g EXCEPT ![Top.id] = Append(@, [dest |-> dst, arc |-> Head(Top.todo)])]
         /\ stack' = [stack EXCEPT ![Len(stack)] =
                        [Top EXCEPT !.todo = Tail(@), !.dead = @ /\ remove[dst]]]
  /\ UNCHANGED <<lineno, id_of_state, remove>>

Return ==
  /\ stack # <<>> /\ Top.todo = <<>>
  /\ remove' = [remove EXCEPT ![Top.id] = Top.dead]
  /\ stack' = Front(stack)
  /\ UNCHANGED <<lineno, id_of_state, g>>

Derive == Descend \/ AddArc \/ Return

(* prune: the states that lead nowhere go, the others are numbered anew *)
Pruned ==
  LET new(n) == Cardinality({k \in 1..n : ~remove[k]})
      kept == Among([n \in DOMAIN g |-> n], {n \in DOMAIN g : ~remove[n]})
      arcs(n) == Among(g[n], {a \in Range(g[n]) : ~remove[a.dest]})
      renamed(n) == [j \in DOMAIN arcs(n) |-> [arcs(n)[j] EXCEPT !.dest = new(@)]]
  IN  [g |-> [j \in DOMAIN kept |-> renamed(kept[j])], new |-> [n \in DOMAIN g |-> new(n)]]

(* reverse_topo_order: a state after all it leads to, but for cycles *)
OrderFrom(graph, n) ==
  LET from[acc \in [begun : SUBSET Nat, order : Seq(Nat)], s \in Nat] ==
        IF s \in acc.begun THEN acc
        ELSE LET after == FoldLeft(LAMBDA x, a : from[x, a.dest],
                                   [acc EXCEPT !.begun = @ \cup {s}], graph[s])
             IN  [after EXCEPT !.order = Append(@, s)]
  IN  from[[begun |-> {}, order |-> <<>>], n].order

(* push_backs to whatever reverse_order holds *)
make_order(x) ==
  [x EXCEPT !.reverse_order = @ \o OrderFrom(x.g, 1)]
get_order(x) == IF cache_backward THEN x ELSE make_order(x)
free_order_Kept(x) == x
free_order(x) == IF cache_backward THEN x ELSE [x EXCEPT !.reverse_order = <<>>]

(* compute, once derive has returned.  reverse_order is not cleared by init *)
Computed(old) ==
  LET goals == {j \in DOMAIN id_of_state : id_of_state[j] = GoalOf(Example)}
      found == goals # {}
      fin == CHOOSE j \in goals : TRUE
      x == [lineno |-> lineno, weight |-> Example.weight, no_goal |-> ~found,
            g |-> IF ~found THEN <<>> ELSE IF task.prune THEN Pruned.g ELSE g,
            fin |-> IF ~found THEN 0 ELSE IF task.prune THEN Pruned.new[fin] ELSE fin,
            reverse_order |-> old]
  IN  IF found /\ cache_backward THEN make_order(x) ELSE x

-----------------------------------------------------------------------------
(* compute_fb and collect_counts *)

(* propagate_paths_in_order *)
Propagate(graph, order, weights, from) ==
  LET one(w, s) == FoldLeft(LAMBDA v, a : [v EXCEPT ![a.dest] = Plus(@, Times(v[s], weights[a.arc]))],
                            w, graph[s])
  IN  FoldLeft(one, [s \in DOMAIN graph |-> IF s = from THEN One ELSE Zero], order)

(* add_reversed_arcs *)
Reversed(graph) ==
  LET into(n, s) == LET arcs == SelectSeq(graph[s], LAMBDA a : a.dest = n)
                    IN  [j \in DOMAIN arcs |-> [dest |-> s, arc |-> arcs[j].arc]]
  IN  [n \in DOMAIN graph |-> FlattenSeq([s \in DOMAIN graph |-> into(n, s)])]

(* the counts after x has been visited; x has its order *)
collect_counts(x, counts, weights) ==
  LET f == Propagate(x.g, Reverse(x.reverse_order), weights, 1)
      b == Propagate(Reversed(x.g), x.reverse_order, weights, x.fin)
      contrib(s, a) == Over(Times(Times(weights[a.arc], Times(f[s], b[a.dest])), x.weight), f[x.fin])
      ofState(c, s) == FoldLeft(LAMBDA e, a : [e EXCEPT ![a.arc] = Plus(@, contrib(s, a))], c, x.g[s])
  IN  FoldLeft(ofState, counts, [s \in DOMAIN x.g |-> s])

-----------------------------------------------------------------------------
(* What these are measured against: the paths of the transducer that read and *)
(* write the example, of at most k arcs                                       *)

Accepting(e, k) ==
  LET after[i \in 0..k] ==
        IF i = 0 THEN {[at |-> <<0, 0, 0>>, path |-> <<>>]}
        ELSE UNION {{[at |-> Step(p.at, a), path |-> Append(p.path, a)] : a \in Range(ArcsFrom(e, p.at))}
                      : p \in after[i - 1]}
  IN  {p.path : p \in {q \in UNION {after[i] : i \in 0..k} : q.at = GoalOf(e)}}

(* the paths of a derivation graph, of at most k arcs *)
PathsOf(x, k) ==
  LET after[i \in 0..k] ==
        IF i = 0 THEN {[at |-> 1, path |-> <<>>]}
        ELSE UNION {{[at |-> a.dest, path |-> Append(p.path, a.arc)] : a \in Range(x.g[p.at])}
                      : p \in after[i - 1]}
  IN  IF x.no_goal THEN {}
      ELSE {p.path : p \in {q \in UNION {after[i] : i \in 0..k} : q.at = x.fin}}
=============================================================================
