-------------------------- MODULE CachedDerivations --------------------------
(***************************************************************************)
(* carmel/src/cached_derivs.h and graehl/shared/serialize_batch.hpp: the   *)
(* derivations of all examples are computed once and kept, in memory or in *)
(* a file that is read again in every pass, or computed again every time.  *)
(* A pass collects counts (train.cc, estimate); the sampler asks for the   *)
(* derivations of a block by its number.                                   *)
(*                                                                         *)
(* store stands for the list in memory or the records of the file, which   *)
(* do not hold reverse_order; current_from_f is d.                         *)
(***************************************************************************)
EXTENDS Derivations

CONSTANTS
  Weights,      \* what maximizing may leave as the arcs' weights
  MaxPasses,    \* passes, and blocks asked for
  MaxPath,      \* the length up to which paths are compared
  Unsigned      \* unsigned numbers are below it

ASSUME CachingAssumption ==
  /\ \A t \in Tasks, w \in Weights : \A a \in DOMAIN t.arcs : w[a] \in Ratio /\ w[a] # Zero
  /\ MaxPasses \in Nat /\ MaxPath \in Nat
  /\ Unsigned \in Nat
  /\ \A t \in Tasks : Len(t.examples) + 1 < Unsigned

VARIABLES
  pc,
  examples,     \* those of the corpus that are left
  next,         \* the place in them of the loop
  first,        \* no pass has ended yet
  store, store_cursor, rewind_store, current_i,
  weights, counts,
  used,         \* passes begun and blocks asked for
  visited       \* how many derivations the pass has had, or the block asked for and one

storeVars == <<store, store_cursor, rewind_store, current_i>>
vars == <<task, derivingVars, d, pc, examples, next, first, storeVars, weights, counts, used, visited>>

Init ==
  /\ DerivingInit
  /\ pc = IF Cached THEN "caching" ELSE "idle"
  /\ examples = [j \in DOMAIN task.examples |-> j]
  /\ next = 1 /\ first = TRUE
  /\ store = <<>>
  /\ store_cursor \in 1..2 /\ rewind_store \in BOOLEAN /\ current_i \in {0, 1, Unsigned - 1}  \* not initialized
  /\ weights \in Weights
  /\ counts = [a \in DOMAIN task.arcs |-> Zero]
  /\ used = 0 /\ visited = 0

-----------------------------------------------------------------------------
(* cache_derivations: start_new, init_and_compute, keep_new or drop_new *)

NextExample ==
  /\ pc \in {"caching", "uncached"} /\ next <= Len(examples)
  /\ StartDeriving(examples[next])
  /\ pc' = [caching |-> "derive to keep", uncached |-> "derive to visit"][pc]
  /\ UNCHANGED <<task, d, examples, next, first, storeVars, weights, counts, used, visited>>

Deriving ==
  /\ pc \in {"derive to keep", "derive to visit"}
  /\ Derive
  /\ UNCHANGED <<task, d, pc, examples, next, first, storeVars, weights, counts, used, visited>>

(* in a file, the object is the one used before *)
Compute ==
  /\ pc \in {"derive to keep", "derive to visit"} /\ stack = <<>>
  /\ d' = Computed(IF use_file THEN d.reverse_order ELSE <<>>)
  /\ pc' = [x \in {"derive to keep", "derive to visit"} |->
              IF x = "derive to keep" THEN "keep" ELSE "visit"][pc]
  /\ UNCHANGED <<task, derivingVars, examples, next, first, storeVars, weights, counts, used, visited>>

Keep ==
  /\ pc = "keep"
  /\ store' = IF d.no_goal THEN store
              ELSE Append(store, IF use_file THEN [d EXCEPT !.reverse_order = <<>>] ELSE d)
  /\ next' = next + 1
  /\ pc' = "caching"
  /\ UNCHANGED <<task, derivingVars, d, examples, first, store_cursor, rewind_store, current_i,
                 weights, counts, used, visited>>

mark_end ==
  /\ pc = "caching" /\ next > Len(examples)
  /\ pc' = "idle"
  /\ UNCHANGED <<task, derivingVars, d, examples, next, first, storeVars, weights, counts, used,
                 visited>>

-----------------------------------------------------------------------------
(* serialize_batch: where reading stands, as [i, cursor, rewind].  In a file, *)
(* cursor is the next record, and the one after the last says END_RECORDS.    *)

Standing == [i |-> current_i, cursor |-> store_cursor, rewind |-> rewind_store]
Stands(at) == current_i' = at.i /\ store_cursor' = at.cursor /\ rewind_store' = at.rewind

Rewound(at) ==
  [i |-> Unsigned - 1, cursor |-> IF use_file THEN 1 ELSE at.cursor,
   rewind |-> IF use_file THEN at.rewind ELSE TRUE]

AtEnd(at) == at.cursor > Len(store)

Advanced(at) ==
  IF use_file
  THEN [at EXCEPT !.cursor = @ + 1, !.i = IF AtEnd(at) THEN @ ELSE (@ + 1) % Unsigned]
  ELSE IF at.rewind THEN [i |-> 0, cursor |-> 1, rewind |-> FALSE]
  ELSE [at EXCEPT !.cursor = @ + 1, !.i = (@ + 1) % Unsigned]

(* did advance, which left it here, find another? *)
Found(at) == IF use_file THEN at.cursor <= Len(store) + 1 ELSE ~AtEnd(at)

Loaded(at) == [store[at.cursor - 1] EXCEPT !.reverse_order = d.reverse_order]

(* current *)
Current == IF use_file THEN d ELSE store[store_cursor]

-----------------------------------------------------------------------------
(* foreach_deriv *)

BeginPass ==
  /\ pc = "idle" /\ used < MaxPasses
  /\ weights' \in Weights
  /\ counts' = [a \in DOMAIN task.arcs |-> Zero]
  /\ used' = used + 1 /\ visited' = 0
  /\ IF Cached
     THEN Stands(Rewound(Standing)) /\ pc' = "pass" /\ UNCHANGED <<store, next>>
     ELSE pc' = "uncached" /\ next' = 1 /\ UNCHANGED storeVars
  /\ UNCHANGED <<task, derivingVars, d, examples, first>>

EndPass ==
  /\ \/ pc = "pass" /\ ~Found(Advanced(Standing)) /\ Stands(Advanced(Standing)) /\ UNCHANGED store
     \/ pc = "uncached" /\ next > Len(examples) /\ UNCHANGED storeVars
  /\ pc' = "ended"
  /\ first' = FALSE
  /\ UNCHANGED <<task, derivingVars, d, examples, next, weights, counts, used, visited>>

Advance ==
  /\ pc = "pass" /\ Found(Advanced(Standing))
  /\ Stands(Advanced(Standing))
  /\ d' = IF use_file THEN Loaded(Advanced(Standing)) ELSE d
  /\ visited' = visited + 1
  /\ pc' = "visit"
  /\ UNCHANGED <<task, derivingVars, examples, next, first, store, weights, counts, used>>

(* the estimate's visit of the derivations at hand *)
Visit ==
  /\ pc = "visit" /\ (Cached \/ ~d.no_goal)
  /\ LET x == get_order(IF Cached THEN Current ELSE d)
     IN  /\ counts' = collect_counts(x, counts, weights)
         /\ IF Cached /\ ~use_file
            THEN store' = [store EXCEPT ![store_cursor] = free_order(x)] /\ UNCHANGED d
            ELSE d' = free_order(x) /\ UNCHANGED store
  /\ IF Cached THEN pc' = "pass" /\ UNCHANGED <<next, visited>>
     ELSE pc' = "uncached" /\ next' = next + 1 /\ visited' = visited + 1
  /\ UNCHANGED <<task, derivingVars, examples, first, store_cursor, rewind_store, current_i, weights,
                 used>>

(* an example without derivations; the first pass, if it prunes, erases it *)
NoneFound ==
  /\ pc = "visit" /\ ~Cached /\ d.no_goal
  /\ IF first /\ task.prune
     THEN examples' = RemoveAt(examples, next) /\ UNCHANGED next
     ELSE next' = next + 1 /\ UNCHANGED examples
  /\ pc' = "uncached"
  /\ UNCHANGED <<task, derivingVars, d, first, storeVars, weights, counts, used, visited>>

Again ==
  /\ pc \in {"ended", "block"}
  /\ pc' = "idle"
  /\ UNCHANGED <<task, derivingVars, d, examples, next, first, storeVars, weights, counts, used,
                 visited>>

-----------------------------------------------------------------------------
(* operator[]: forward from here, or from the beginning *)

FromStart_Zero(i) == i = 0
FromStart(i) == i = 0 \/ i < current_i

(* the first block the sampler asks for is 0 *)
Block(i) ==
  /\ pc = "idle" /\ Cached /\ used < MaxPasses
  /\ used = 0 => i = 0
  /\ LET begin == IF FromStart(i) THEN Advanced(Rewound(Standing)) ELSE Standing
         steps == IF begin.i < i THEN i - begin.i ELSE 0
         there[k \in 0..steps] == IF k = 0 THEN begin ELSE Advanced(there[k - 1])
         at == there[steps]
     IN  /\ Stands(at)
         /\ d' = IF use_file /\ (FromStart(i) \/ current_i < i) THEN Loaded(at) ELSE d
  /\ visited' = i + 1
  /\ used' = used + 1
  /\ pc' = "block"
  /\ UNCHANGED <<task, derivingVars, examples, next, first, store, weights, counts>>

Next ==
  \/ NextExample \/ Deriving \/ Compute \/ Keep \/ mark_end
  \/ BeginPass \/ Advance \/ Visit \/ NoneFound \/ EndPass \/ Again
  \/ \E i \in 0..Len(store) - 1 : Block(i)

Spec == Init /\ [][Next]_vars

-----------------------------------------------------------------------------
(* Properties *)

Derivable(n) == Accepting(task.examples[n], MaxPath) # {}

(* What is computed of an example holds every derivation of it and nothing *)
(* else, whatever was pruned: also when arcs without labels make cycles,   *)
(* and a state is used before it is known whether it leads to the goal.    *)
HoldsAll ==
  pc \in {"keep", "visit"} /\ (Cached => pc = "keep") =>
    PathsOf(d, MaxPath) = Accepting(Example, MaxPath)

(* arcs without labels, after each other, for ever *)
HasCycle ==
  LET step(S) == {task.arcs[a].dest : a \in {b \in DOMAIN task.arcs :
                    task.arcs[b].src \in S /\ task.arcs[b].in = Eps /\ task.arcs[b].out = Eps}}
      after[k \in 0..Len(task.arcs) + 1] ==
        IF k = 0 THEN {task.arcs[a].src : a \in DOMAIN task.arcs} ELSE step(after[k - 1])
  IN  after[Len(task.arcs) + 1] # {}

(* How often arc a is expected in a derivation of e. *)
Expected(e, a) ==
  LET paths == Accepting(e, MaxPath)
      weight(p) == LET w == [j \in DOMAIN p |-> weights[p[j]]] IN ProductOver(w, DOMAIN p)
      all == SumOver([p \in paths |-> weight(p)], paths)
      uses(p) == Cardinality({j \in DOMAIN p : p[j] = a})
  IN  IF paths = {} THEN Zero
      ELSE Over(SumOver([p \in paths |-> Times(<<uses(p), 1>>, weight(p))], paths), all)

(* However the derivations are kept, and in whichever pass, the counts of an  *)
(* arc are how often it is expected in the derivations of the examples, times *)
(* their weights.  Not so on machines with cycles of empty labels, of which    *)
(* the code warns: no order of states has all that a state on a cycle needs     *)
(* before it.                                                                 *)
CountsOfPass ==
  (pc = "ended" /\ ~HasCycle) =>
    \A a \in DOMAIN task.arcs :
      LET expected == [j \in DOMAIN task.examples |->
                         Times(task.examples[j].weight, Expected(task.examples[j], a))]
      IN  counts[a] = SumOver(expected, DOMAIN task.examples)

(* The derivations at hand are those of the example they are taken for: the   *)
(* so many-th with derivations, in passes, and for blocks asked for in any    *)
(* order and between passes.                                                  *)
RecallsExample ==
  (Cached /\ pc \in {"visit", "block"}) =>
    LET good == Among([j \in DOMAIN task.examples |-> j], {n \in DOMAIN task.examples : Derivable(n)})
    IN  /\ visited \in DOMAIN good
        /\ use_file \/ store_cursor \in DOMAIN store
        /\ Current.lineno = good[visited]
=============================================================================
