# A TLA+ model of carmel

carmel trains, composes and searches weighted finite-state transducers; the
library under `src/graehl/shared` holds the sampler, the EM driver, the k-best
search and the stores it shares with other tools, of which `forest-em` trains
weights on packed forests. This directory models the parts of it whose
correctness is a matter of long sequences of steps rather than of a single
function: composing cascades, training them by expectation-maximization and by
Gibbs sampling, keeping derivations and forests between passes, and enumerating
the best derivations lazily.

Everything here is single-threaded code. What makes it hard is not interleaving
but state that lives long: counts and denominators maintained by increments over
thousands of iterations, undone by inverse operations, restored after restarts;
state numbers handed out while a worklist grows, and records about arcs that must
survive reduction and renumbering; weights overwritten by counts, by later
iterations and by later starts, and brought back at the end from whatever was
saved; caches and stores read from wherever the last reader left them;
recursion into lists that are still being written. A unit test sees one call;
these faults need several.

## 1. The system

| Component (source) | State | Operations | What makes it correct |
|---|---|---|---|
| **delta_sum** (`graehl/shared/delta_sum.hpp`) | value, last time, integral up to it | add a change at a time (late ones too), add a base retroactively, extend, clear, sum | the integral it knows is that of the quantity it was told about |
| **Gibbs sampler** (`gibbs.hpp`, `gibbs_opts.hpp`, `carmel/src/gibbs.cc`) | per parameter prior and delta_sum, denominators per group, sample per block, cache model, cumulative prior scale, best start | run_starts, run, iteration, resample_block, propose_new_priors, finalize, restore | counts are prior plus uses, denominators are sums of counts, averages are exact, the best start is what is left |
| **EM training** (`carmel/src/train.cc`, `fst.h`, `train.h`) | arc weights, counts, kept weights, learning rate, perplexities | estimate, maximize, over-relax and reset, restart, save and load the best | the weights left have the perplexity reported, the lowest kept; training ends |
| **Cascade parameters** (`cascade.h`) | machines, chains tying a composed arc to the arcs it stands for, saved counts, saved weights of fixed machines | record and compress chains; update, distribute_counts, normalize, save_none / load_none, save and load of counts, random_restart | chains name the right arcs; counts reach every arc of a chain as often as it is there; the best comes back; nothing fixed moves |
| **WFST core** (`fst.cc`, `state.h`, `arc.h`, `weight.h`) | states, arcs, groups | normalize, reduce, consolidate, tie | weights of a normalization group sum to one, tied arcs agree, locked arcs stay |
| **Composition** (`compose.cc`, the loop in `carmel.cc`) | numbers of the trios (two states and a filter state) reached, queue, mediate states | expand a trio, make an arc, fill a mediate state, join the finals; compose a chain from either side | one path per tuple of matching paths, no more, no fewer; every arc's recorded chain is what it stands for |
| **Derivations and passes over the corpus** (`derivations.h`, `cached_derivs.h`, `serialize_batch.hpp`, `train.h`) | derivation graph per example and the order of its states, the list or the file of graphs, the place reading stands | explore, prune, order, forward-backward; keep, rewind, advance, operator[]; count and erase examples | the graph holds exactly the derivations; every pass visits every example once; a replay gives the example asked for |
| **Shared EM driver** (`em.hpp`) | perplexities, learning rate, restarts | overrelaxed_em | improving steps are kept, failing ones undone, the best restored |
| **forest-em** (`forest.hpp`, `forest-em.hpp`, `normalize.hpp`) | rule weights, counts and overflow table, best weights, inside and outside per forest | inside, outside, count, normalize, Viterbi tree, random tree, save and restore the best | counts are the expected ones; trees written are the best, trees drawn have the right chance |
| **swapbatch** (`swapbatch.hpp`, `stackalloc.hpp`) | batches on disk, one mapped, headers between objects, iterators | read all, enumerate, iterate, operator[] | every object once, in order, whatever is mapped |
| **Lazy k-best** (`lazy_forest_kbest.hpp`) | per node the list of best derivations, a candidate heap, a duplicate filter | get_best, next_best, generate successors | derivations come in order, none twice, none missing |
| Eppstein's k-best and graphs (`kbest.h`, `graph.h`) | side-track heaps | shortest paths, k best paths | not modelled, but for the topological order and path sums derivations use |
| Text format, symbol tables, command line, containers | | parsing, printing | not modelled: conversions with little control |
| `gextract`, `sblm`, `clm`, `cipher`, `util` scripts | | | not modelled: prototypes and data preparation |

How they interact: the command line composes a cascade of transducers
(Composition), which leaves for every composed arc the chain of the component
arcs it stands for (Cascade parameters). EM training asks the derivation cache
for each example's derivations, collects counts on composed arcs, distributes
them over the chains, normalizes (WFST core) and calls back `update` to refresh
the composed arcs. The Gibbs sampler is a base class: it calls back into its
implementation (`carmel_gibbs`, and `FForests` in forest-em) for `init_run`,
`init_iteration`, `resample_block` and printing, and reads and writes the
parameters in between. `overrelaxed_em` in turn drives `FForests`, whose forests
come from a swapbatch. The lazy k-best search is given a forest by its caller and
calls nothing but itself.

## 2. The modules

| Module | Models | Used by |
|---|---|---|
| `Sums` | finite sums of numbers as a recursive function | `DeltaSumSignal`, `Gibbs`, `TrainingCorpus` |
| `DeltaSum` | `delta_sum_f` as operators on records | `Gibbs`, `DeltaSumSignal` |
| `DeltaSumSignal` | a delta_sum whose operations are called in any order, next to the signal it was told about | `MCDeltaSum` |
| `StartSelection` | abstract: a search with restarts keeps the first of the best outcomes | `Gibbs` (refinement) |
| `Gibbs` | `gibbs_base` with its options and statistics and the callbacks of `carmel_gibbs` | `MCGibbs` |
| `TrainingCorpus` | examples, totals and what a pass does to them in the three modes of finding derivations | `EMTrain` |
| `EMTrain` | `WFST::train`, with estimate, maximize, save and load of the best, restart acceptance and the protocol of cascade parameters | `MCEMTrain` |
| `Ratios` | `Weight` as an exact fraction | the modules below that compute weights |
| `Normalization` | `WFST::normalize`: groups, ties, locked arcs, smoothing | `CascadeTraining` |
| `CascadeTraining` | the same training loop with real arithmetic on a cascade: chains, counts, priors, normalization, fixed machines, restarts, the best brought back | `MCCascadeTraining` |
| `Transducer` | arcs, groups, machines; `reduce`; paths, for what properties say | `CascadeChains` |
| `CascadeChains` | what `cascade_parameters` records while machines are composed | `Compose` |
| `Compose` | `set_compose` | `CompositionChain` |
| `CompositionChain` | the composition loop of `main`: a whole cascade, composed, shrunk, its chains compressed | `MCCompose` |
| `Derivations` | `derivations`: depth-first construction, pruning, order, forward-backward, counts | `CachedDerivations` |
| `CachedDerivations` | `cached_derivs` over `serialize_batch`: keeping, passes, random access | `MCDerivations` |
| `OverrelaxedEM` | `overrelaxed_em`, its Exec a parameter of the actions | `ForestEM` |
| `Forest` | packed forests: inside, outside, uses of rules, best and random trees | `ForestEM` |
| `ForestEM` | `FForests` driven by `overrelaxed_em` and asked for samples by the sampler | `MCForestEM` |
| `SwapBatch` | the store of objects in batches and the three ways through it | `MCSwapBatch` |
| `LazyKBest` | the lazy k-best search with its recursion as a stack | `MCLazyKBest` |
| `SumTheorems`, `GibbsProofs` (with `delta_sum`), `EMTrainProofs`, `CascadeTrainingProofs`, `ComposeProofs`, `DerivationProofs`, `LazyKBestProofs`, `SwapBatchProofs` | theorems and their proofs | |

Definitions whose name has the form `Name_Something` stand just before `Name`
and are deliberate faults of the kind one could write by mistake. They are part
of no specification; each one, put in the place of the definition that follows
it, makes a property fail, which shows that the property depends on that code.

### delta_sum

A record `[x, tmax, s]` as in the code. `DeltaSumSignal` keeps beside it the
signal itself, a function from unit intervals to values: a change at `t` raises
the signal from `t` on, also when it is reported after later changes; a base
change raises it everywhere; `clear` starts anew. `IntegralExact` says that every
integral the object still claims to know is the sum over the signal.

### Gibbs

One action per step of `run_starts`, `run` and `iteration`: `RunStarts`,
`StartRun` (restore the priors if restarts are fresh, rebuild counts from them,
the callbacks of a new run), `BeginIteration`, then for each block `RemoveBlock`,
`ResampleBlock` and `AddBlock`, then `ProposePriors` with `AcceptPriors` or
`RejectPriors`, `RecordIteration`, and at the end `EndRun` and `FinishStarts`.
`pc` names the next of them. A sample of a block is a bag of parameters. The
derivation drawn, the ratio priors are scaled by and whether a proposal is
accepted are arbitrary, so is the probability of a sample, from a small set of
numbers: sampled probabilities are real numbers in the code, and every ordering
of them occurs here. With `--expectation`, a sample is an expected count vector;
here it is a bag as well, and its initial scaling by random fractions chooses a
part of it (`Randomizing`).

`uses` and `outcomes` are history variables: the uses of every parameter summed
over the samples that are averaged, and what every finished start produced.

Seen on the way: `--init-em` works on the first start only (`init_run` tests
`r == 0`), and random_path rewrites forward weights of derivations kept in memory,
so that the `p_init` of later starts would be another one. By default the best
start is chosen by the product over all samples, not by the final one.
`parse_gibbs_opts` looks at `gopt.expectation` before it is set
(`carmel.cc:265-267`).

### EMTrain

A setting of all the weights is one value `w`. Two functions give what the
arithmetic computes: `Ppx[w]`, the perplexity of the corpus under `w`, and
`EM[w]`, what the counts collected under `w` normalize to. A set of arcs holds
either weights or raw counts (`[holds, w]`), which is what can be confused: the
code stores both in the same `arc.weight`. The arcs of the composed machine, of
the cascade's machines, `em_weight` and `best_weight` are such sets.

One action per stretch of `train` between decisions: `Enter`, `EvaluateCorpus`
(`-M -1`), `SinglePass` (`-M 0` and `-M 1`), `StartIteration` (save counts,
update, the test of `max_iter`), `EstimateAndSave`, the three outcomes of judging
an iteration (`ResetRate`, `Converge`, `GoOn`) and of judging a start
(`JudgeStart`), `Maximize`, `Restart`, `Load`. Over-relaxed weights can be any,
as can a random restart. Whether the largest change of a weight is below
`converge_arc_delta` is arbitrary, but true when nothing changed. `Perplexity`
keeps the numeric edges that steer control: infinite for a total of 0 or a zero
probability, and comparisons with it or with a perplexity of exactly 1 that come
out false because the ratio is not a number or zero.

`seen`, `champion`, `start` and `improved` are history variables: the
perplexities that could have been kept, and the first perplexity of the start
that holds the best.

Seen on the way: `-M n` does not bound the iterations while no weights count as
good, which an infinite perplexity never lets happen; with cached derivations no
example is erased, so training without a single derivation is not given up;
restarts are judged against the first start and not the best; `-M -1` estimates a
cascade without `update`, with composed weights as they were composed; `-M 1`
without restarts returns the perplexity from before the maximization; with
over-relaxation a machine that is no cascade is normalized twice (`train.cc:916`);
the usage text gives `-M 256` as default, the code has 500.

### CascadeTraining and Normalization

The same loop, seen from what it does to weights. Every arc of the cascade's
machines (`Params`) has an exact weight; `Chain` says how often each is part of a
composed arc. The composed arcs hold weights or counts, whichever the code put
there last. `Update` multiplies weights along chains; `Distributed` clears the
arcs that are not locked and adds to each the counts of the composed arcs it is
in; `Normalize` is `WFST::normalize` for each machine by its method;
`UseCounts` puts them together with `save_none` and `load_none`. What an estimate
counts is any member of `Estimates`, and any iteration may turn out the best:
the perplexity protocol is `EMTrain`'s.

`Normalization` follows the passes of the code: free and locked sums of every
group, for every tie group the sums over all groups it has arcs in and the
largest share these need for locked arcs, then the weights of tied arcs and last
of normal ones out of what is left. The scale of a method is its default.

`evidence` (the counts the present weights were made of) and `best` (the weights
when the best perplexity was measured) are history variables. The code keeps
neither: it keeps counts of the composed machine (`em_weight`, `best_weight`), and
must find the weights again by distributing and normalizing them (`BestLeft`).

Several tie groups that meet in one normalization group may together take more
than there is (`fst.cc:101-104` says so), and then nothing is left for normal arcs:
`GroupsAddUp` says that a group is full if a normal arc has any weight, and that one
tied arc at most leaves the room locked arcs need. Every machine has finitely many
arcs (`FiniteAssumption`), or its sums would mean nothing. `-M 0`
leaves counts as weights, also over machines that `--normby=N` fixes.

### Composition

A machine is a record of its number of states, its final state and its set of
arcs. Letters are names: the maps `computeMap` builds between the two alphabets
take a letter to the one of the same name. `from` is history: the input arcs, by
name, that a composed arc stands for, in the order of the machines.

`Compose` has one action per step of the worklist. `Begin` numbers the start;
`Expand` takes the last trio off the queue and determines its moves; `ComposeArc`
is `COMPOSEARC_GROUP`: the destination gets a number and a place in the queue if
it is new, the arc is recorded with the cascade and added; `ComposeHalf` (only with
`-a`) takes an arc of the left machine to a mediate state and, when that state is
new, makes its moves pending; `Finish` finds the final trios and joins them. The
moves of a trio follow the code's loops: `MovesByLeft` (an index of the right
machine, or none), `MovesByRight` (an index of the left machine), and the simpler
filter of `-a`. The code makes the arcs of a trio in the order of a list or of a
hash table; the model takes them in any order, `CompositionChain` in the orders
its jobs name.

`CascadeChains` is a record with the operations of `cascade_parameters` as
operators that return it changed. `ConsChain` and its overloads are one
operator by the cases of `is_chain`. An arc of the composed machine names its
chain by its group number, and number 0 is both the nil chain and the locked
group, as in the code; `Compressed` renumbers the chains that unlocked arcs name.

`CompositionChain` is the loop of `main`: the first machine is minimized
(`StartChain`), each further one composed on the side `-r` asks for
(`ComposeNext`, `ComposeStep`), the result reduced and the chains compressed
(`Shrink`), until the chain is done, or a composition is empty.

Not modelled here: pruning, `-C`, state names, and machines made from input lines.
`reduce` drops loops whose letters are both empty and with them the paths through
them; the instances have no such loops, nor compositions that make them.
`WFST::index` (`fst.h:628`) and `State::indexBy` (`state.h:158`) keep an index
already made, whichever direction it was made for; composition makes and drops
its own, so the model has no stale one.

### Derivations and CachedDerivations

A state of a derivation graph is a place in the input, a state of the transducer
and a place in the output. `derive` is recursive: `stack` has its calls, each with
the arcs still to be followed and `dead`. `Descend`, `AddArc` and `Return` are its
three steps. A state met again may be unfinished (a cycle) or known to be dead;
`remove` says which, and arcs to dead states are left out. `Computed` prunes and
renumbers; `make_order` appends the reverse topological order to whatever
`reverse_order` held, as the code does, whose `init` does not clear it;
`collect_counts` is forward-backward by two sweeps in that order. The arithmetic
is exact.

`CachedDerivations` first keeps all graphs (`NextExample`, `Deriving`, `Compute`,
`Keep`), in memory or as records of a file, and then, as callers wish, makes
passes (`BeginPass`, `Advance`, `Visit`, `EndPass`) under new weights or asks for
blocks by number (`Block`, the sampler's `operator[]`). Where reading stands is a
record of `current_i` (unsigned, set to the largest number by rewind), the
cursor and, for the list in memory, the flag to begin anew; the members the constructor
leaves as they are start with any of a few values. In a file, one object `d` is
loaded over and over. Without caching, every pass computes every graph again, and
the first erases examples that have none.

Not modelled: arcs of weight zero (0/0 in counts), I/O errors, statistics and
random paths. `disk` excludes keeping backward arcs, as the options do.

### OverrelaxedEM, Forest and ForestEM

`OverrelaxedEM` has the branches of `overrelaxed_em` as actions, and what
`exec.estimate` and `exec.maximize` return as their parameters. An average log
probability is kept as the product of the probabilities with the number of
factors, so that comparing is exact (powers of products), and without examples it
is not a number.

`Forest` reads the array of nodes as the code does: everything below a node stands
between it and its `next`, a backref names a node before it. `Inside`,
`outside_order` (the links in the order `record_ancestry` makes them),
`NormOutside` (those links backwards), `RuleCounts`, `ViterbiTree` and `Draws`
(each tree with its chance).

`ForestEM` joins them: `begin_visit` (counts set to the priors), `VisitForest` for
one forest at a time with counts put aside at `AddOneLimit` (`Accumulate`),
`end_visit`, `Judge` with `save_best`, `Maximize`, `Randomize`, `restore_best`,
`final_iteration` writing the trees, or `resample_block` for the sampler.

Seen on the way: forest-em ignores the learning rate and its `undo_maximize` is
empty, so that a step that fails is not undone; without restarts `save_best` and
`restore_best` do nothing, though `forest-em.README:100-105` speaks of the initial
parameters being output; a first estimate that is not a number is never replaced
as the best; `-Z` adds per-forest counts a second time; `choose_random`
through a backref drops `power` (so `SamplesExact` is about power 1).

### SwapBatch

An object is its number in the stream; only its size matters. Space is counted in
headers. `Store`, `Overflow` (begin a batch, read the object again, fail at the
second time), `EndOfStream` (one more object is begun, for which an empty batch may
have been made) and `EndAtDelimiter` read; then callers go through by `enumerate`, by
iterators, or by `operator[]`, as often as they like, each of which leaves mapped what
it leaves mapped. A loop may also be left at an object (`Found`, as
`find_group_holding` does), and the iterator kept from it dereferenced at any later
time (`Revisit`, as `watch_report` does between iterations), so that a pass may find any
batch mapped when it begins. Loops and `operator[]` share one iterator variable: one
pass ends before the next begins.

Seen on the way: `operator++` reads the header at an address without looking which
batch is mapped there, so two passes at once, or `operator[]` continuing after
another pass, would read another batch's header. No caller in the repository does
either, and the model does not: each `++` follows the dereference that maps its batch.
What is checked is that this is enough. `iterator::operator==` compares
`o.header == o.header`. A second `read_all` would misplace objects after a first
that met the end.

### LazyKBest

`memo` has for each node its best derivations, then `NONE` if there are no more, or
`PENDING` while the next is computed; `pq` its candidates. The heap is what it
promises: some best element on top, which stays there until popped (`top`). The
recursion is `stack`: `Extend` opens a call, `Pop` takes the last best off the
queue and asks its first kid for what comes after, `Succeed` queues the successor
and asks the second kid, `Select` takes the new top or goes on if the filter has
seen its like often enough, `Recall` answers from the list, with the exception on a
cycle or without.

Properties compare lists with the trees of the forest, enumerated up to
`CostBound` and `DepthBound`. In a forest with a free cycle, `NONE` instead of the
exception loses derivations by design, so `BestFirst` is about forests whose
cycles cost something.

Not modelled: `fix_edges` (adding edges after the first is computed), and
projections that tell infinitely many derivations of a kid apart but not what is
built of them, with which the loop of `get_best` would not end.

Seen on the way: with a duplicate filter, a candidate that is rejected asks for
its successors, and in a cyclic forest these may need the very derivation that is
being computed (`Endless` in the MC module). `get_best` then throws, or goes on
with `NONE`, saying that "there must be a negative cost (or maybe 0-cost) cycle"
(`lazy_forest_kbest.hpp:681`), though every cycle costs something.
`postpone_selfloop` breaks the heap's order; `sort_except_front` with an empty list
leaves the first best uncounted by the filter.

## 3. The runs

All runs use small numbers and every option that matters. No bound cuts a
behaviour off where it could still change what a property says: programs with
restarts and iterations end by themselves, counters that saturate (`train_iter` one
above `max_iter` + 1, `restart_no` at the number of restarts) do so where the code can
no longer tell values apart.

| Run | Instance | Shows |
|---|---|---|
| `DeltaSum` | horizon 3, changes -1 to 2, values of at most 2 | `IntegralExact` for calls in any order |
| `GibbsOneStart` | 4 parameters (two in a scaled group, one in a group that is not, one locked), 2 blocks of weight 1 and 2 with two derivations each, 2 iterations, burnin 0 to 3, with and without final counts, excluded priors, include-self, the cache model, and with inference of the priors over different iterations | counts and denominators never drift (`CountsExplained`, `NormsAgree`), averages are exact (`AverageExact`), the cache follows priors and samples (`CacheCoherent`), rejected proposals leave no trace (`ScaleTracked`), the run ends (`Terminates`) |
| `GibbsStarts` | 1 block, 2 or 3 starts, two probabilities, the three criteria, fresh or drifting priors | `SelectsBest` (it implements `StartSelection`), no sum is asked for a forgotten time (`PastNotAsked`) |
| `EMTrain` | 5 settings of the weights in two basins, corpora of one or two examples with and without derivations, `-M` -1, 0, 1, 3 and 4, one or two starts, with and without over-relaxation, cascade, matrix, pruning, tolerance and slack | `CollectsUnderWeights`, `BestReturned`, `LowestReturned`, `TotalCountsExamples`, `Descends`, `Terminates` |
| `CascadeTraining` | machine A, conditional, with a locked arc and two tied arcs in different groups; B, joint; N, fixed; six composed arcs, one using an arc twice and one with the nil chain; five estimates (zero counts too), `-M` 0 to 3, a restart, smoothing, priors, per arc or not | `FixedKept`, `BestLeft`, `GroupsAddUp`, `TiesHold`, `Proportional` |
| `Compose` | four pairs and one triple of machines of 2 to 4 states, with empty letters before, between and after matches, on both sides and in loops, several finals, dead ends and a pair that does not match; from either side, with and without `-a`, `-d` and `--train-cascade`, compressed never, when something changed, always; arcs in rising and falling order, one pair in every order | `Worklist` (distinct numbers, each trio queued, expanded or being expanded, arcs exactly those of the moves), `MadeOnce`, `PathsOnce` (one composed path per tuple of matching paths), `ChainsFit` (each chain is the bag of trained input arcs the composed arc stands for, with its weight as product), `Ends` |
| `Derivations` | four transducers (ambiguous with dead ends, reading and writing apart, cycles of empty labels, mostly dead), three corpora with examples of one, several and no derivations, the four ways of caching, pruned or not, up to three passes and blocks in any order under two settings of the weights | `HoldsAll`, `CountsOfPass`, `RecallsExample` |
| `ForestEM` | eight corpora of one or two forests over five rules (shared parts, nested choices, repeated rules, backrefs, impossible forests), priors, smoothing, up to three iterations and two restarts, the limit of adding one at 1/2 | `CountsExact`, `Ascends`, `ViterbiBest`, `SamplesExact`, `BestRestored` |
| `SwapBatch` | all streams of up to five objects of sizes 1, 2, 4 and 5 in batches of 6 | `StoredInOrder`, `SeesAll`, `ScansEnd` |
| `LazyKBest` | forests of three nodes with ties, shared kids, duplicates, costly and free cycles, and endlessly many trees of two projections, with a filter that admits enough of them and one that does not; the 3 and the 9 best, asked again and again | `StillBack`, `OnePath`, `BestFirst`, `EnumerationEnds` |

Why the bounds are enough:

- `PathsOnce` looks at paths with at most 3 arcs in each part (`PathBound`): the
  filter's state is forgotten at each match, and 3 arcs are two moves alone of one
  machine beside a match, at every place. `IndexThreshold` is 1, so that states with
  one arc are below it, and all three loops of `set_compose` are taken.
- Two blocks suffice for everything about the order of removal and adding, as a
  step touches one block and the sums over the others; two parameters of one group
  and one of another show a denominator that misses a term or takes a wrong one.
  Two starts are needed to overwrite the best one, three to lose the best in the
  middle.
- In `CascadeTraining` a second iteration is what tells saved counts from those
  just collected, a third one loses a best in the middle; two tied arcs in two
  groups, one of which has a locked arc, are what normalization's second pass is
  for.
- In `Derivations`, paths are compared up to 5 arcs (`MaxPath`), which is all of
  them for graphs without cycles and more than once around a cycle; expected
  counts are compared on machines without such cycles. `Unsigned` is 8, above every
  number of records plus one, so that a wrap-around is the code's own.
- A batch of 6 holds an object of size 4 with both headers exactly, one of 5 never;
  five objects make up to five batches with empty ones at the end.
- In `LazyKBest`, lists are compared with the trees below cost 8 (`CostBound`), none of
  which is deeper than 9 (`DepthBound`) where cycles cost something; 3 derivations
  leave every forest unfinished, 9 exhaust some.

Runs expected to end in a violation show where the code and what is said of it
disagree:

| Run | Property | What happens |
|---|---|---|
| `EMCachedTotal` | `TotalCountsExamples` | with cached derivations the total weight of the corpus is that of its last example: `clear_counts` is called in the loop |
| `CascadeLocked` | `FixedKept` | with `--priors`, `normalize` adds the prior to a locked arc before it looks whether it is locked, and so at every iteration, though a comment beside it calls it the original weight |

### Fairness

`Gibbs` and `EMTrain` assume `WF_vars(Step)`, `CompositionChain` weak fairness of
`ChainNext`: the program is one thread that runs until it returns, and nothing it
waits for can fail to come. `LazyKBest` and `SwapBatch` assume it of the steps
inside a call (`get_best`, `Step`), and nothing of their callers, who may stop asking.
Which of several enabled steps is taken is never assumed fair. The other modules
state no fairness, as no liveness is checked of them. Runs say `CHECK_DEADLOCK FALSE`
where the program modelled returns and is not called again, or throws.

## 4. The proofs

First in `GibbsProofs`: `DeltaSumTypes` and `DeltaSumIntegrates`, for every horizon
and set of changes. The invariant: value and integral are those of the signal at
`tmax`, and a delta_sum at time 0 has integrated nothing. `SumTheorems` has the
facts about finite sums (type, equality, zero, addition, a change in one place,
scaling), proved by induction on the prefix.

Then, of the sampler: `GibbsTypes`, `CountsAndNorms`, `CountsAreExplained`,
`NoForgottenTime`, `AveragesAreExact`, for any number of parameters, blocks, groups
and scales, any derivations and options. `IInv` adds to the properties two facts:
`ClockOK`, which relates time, iteration and burnin, and `Integrals`, which says of
every parameter at every point what its delta_sum would return for the samples
averaged so far: the uses recorded, plus a prior for each unit of time passed.
Without it `AverageExact`, which speaks of the end of a run, could not be carried
through the iterations, and without `CountsExplained` for the block being resampled
the denominators could not be. `ScaleIsTracked` and `CacheIsCoherent` rest on a
second invariant, `SInv`: present priors are the original ones times the scale, also
while a proposal is on trial, and the cache's copy of the priors is the present one.
`CacheIsCoherent` needs a third, `UInv`, of the other half of the cache: within an
iteration each count is the prior plus the uses in the samples drawn so far
(`SeenUses`), each denominator the sum of its counts. Every block adds its new sample
(`SeenOneMore`), the removal of an old one does not matter, as it is not among those
seen (`SeenOthers`), and at the end all blocks are seen (`SeenAll`).

Last in `GibbsProofs`: `StartsAreSelected`, that `Gibbs` implements
`StartSelection`. A start's last step adds its outcome and keeps the better; all
others are stutters; the final step reports the best. `Kept` is what this needs
between starts: which start it is, and that what has no counts stays without.
It uses `IInv` and `AverageExact`, which says what a start's counts are.

`EMTrainProofs`: `EMTypes`, `BestIsReturned`, `LowestIsReturned`,
`CountsCollectedUnderWeights`, `TrainingDescends`, for any weights, perplexities,
EM step, corpora and options, and `TotalIsKept`, for options that do not cache
derivations (`NoneCached`; the other case is the violation above): a pass leaves all the
examples or those with a derivation, and recounts what is left or nothing (`TInv`).
`IInv` says for
each place in the program what composed, component and saved arcs hold (`ArcsOK`),
that the corpus is settled after the first pass (`CorpusOK`), and that the saved
arcs, once loaded, have the best perplexity (`BestKept`). `DInv`, on top of it, keeps
what a plain EM step made of the previous weights no worse than the perplexity
compared with.

`CascadeTrainingProofs`: `FixedWeightsKept`, `BestWeightsLeft`, `TiesAreHeld`,
`GroupsSumUp` and `SharedInProportion`, for any machines, chains, estimates and
options. The first two assume that machines
with locked arcs get no priors (`LockedUnsmoothed`; the other case is the violation
above). Their invariant (`CascadeInv`) says where, at every place in the program,
the counts are that the present and the best weights were made of, and rests on one
fact: what `UseCounts` makes of counts depends on the weights it replaces only
where they are fixed, so the same counts give the same weights at any later time.
`TiesAreHeld` needs neither: two tied arcs see the same tie group, so the same
weight is computed for both.

`GroupsSumUp` and `SharedInProportion` have one invariant (`NormalInv`): between the
first normalization and what `-M 0` leaves, there are counts `s` such that the weights
are what `normalize` makes of `s`, and if anything was counted since the last restart,
`s` is that evidence, as handed on through the chains. The two properties then speak
of one call of `normalize`: shares of `s` are in proportion (`NewInProportion`), a group
gets all there is or what its tied and locked arcs have taken (`GroupTotal`), and a tied
arc takes no more than its fullest group can spare (`TiedWeightFacts`, which also shows
what the comment at `fst.cc:188` claims, that a tie group with counts never divides
by zero). All of this is about exact fractions, so the module first proves from the
definitions of `Ratios`, with nothing assumed: that Euclid's algorithm finds the greatest
common divisor; that `Plus`, `Times`, `Over`, `Minus` and `Less` are the operations and the
order of the numbers they stand for; their laws; and that a sum over a finite set,
defined by a fold that takes elements in an order of its own, may be taken in any
order, split and scaled. Recursive functions get their equations by induction
on what bounds them (`GcdDef`, `BelowIsFix`, `FoldingIsFix`, `PowersDef`).

`ComposeProofs`: `LoopsAgree`, the two loops that duplicate each other make the
same moves; `WorklistHolds`, for any input machines: `Worklist` holds always, and a
machine that is done has all the arcs of every trio reached (`Complete`);
`ChainWorklistHolds`, the same inside any chain of compositions and whatever
order arcs are taken in. `IInv` adds that the queue holds trios with numbers and
numbers are below `numStates` (else a new number could be an old one), and that
what is pending are moves of a trio or mediate state already numbered (else
`Sound` would not survive `ComposeArc`).

`ChainsRight`, in `ComposeProofs` too, is `ChainsFit` for any machines and options.
`ChainInv` follows the chains through the loop: after the first composition, what
goes into the next one is an arc of a machine read (its own chain) or an arc whose
chain fits (`SideFits`), and which of the two it is, is what `is_chain` says; what
the recorder remembers of arcs that moved alone (`epsilon_chains`) fits as well. The
lemmas are one per operation of the recorder (`PushedFits`, `RecordFits`,
`RecordEpsFits`, `CompressedFits`), and say that it keeps the chains there are and
that the one it returns is right; `ReducedFits` says it of `reduce`. A chain is only
known by how often each arc occurs in it and by its product (`TimesFacts`,
`ProductFacts`), since the order is that of the compositions.

`ChainMadeOnce` is `MadeOnce` for any machines and options. No two arcs of a
machine have the same source, destination and history (`Whole`), and the histories
of the two machines composed are of different names: so a composed history splits
into its two halves in one way only (`SplitOnce`), and two moves of one state that
agree on all three are the same move (`MovesDiffer`; where only one machine moves,
the filter state they lead to says which). `FreshInv` adds that what is pending
is not made yet and that no arc leaves a trio still in the queue. Shrinking keeps this,
since the states that stay are numbered in their order (`ReducedWhole`), and so does
the renumbering of chains; `NameInv` carries it around the loop, where the part composed
next has names that no part before it had.

`DerivationProofs`: `DerivationsHoldAll` (`HoldsAll`), for any transducers, examples, ways of
caching and lengths of paths. `DerivationInv` says of the depth-first construction, while it
runs (`Explored`), what it knows at any point: the places found differ and the start is
the first; each waiting call has followed, of its place's arcs, all but those it holds;
each arc followed has its arc in the graph unless it led to a place given up
(`ArcsRight`, `AllFollowed`); and a place given up does not accept and leads only to
places given up (`GoneDead`, with `CallsDead` for the calls still running). The last is what
cycles endanger, and is inductive only because a place counts as alive until its call
returns. At the end every place found is given up or complete, so none given up
accepts at any distance (`NoPath`), and graph and transducer have the same paths by
induction on their length (`GraphPaths`); pruning keeps that
(`PrunedFacts`), since the states kept are numbered in their order (`KeptNumbers`).

`ExamplesRecalled` (`RecallsExample`) stands on it: an example is left out of the store
only if the construction says it has no derivation, and the construction is right about
that. `RecallInv` says that the records kept so far are of the first examples that have
derivations, in their order (`StoreRight`), and where reading stands: between passes
and blocks (`StandsRight`), in a pass that has had so many records (`PassRight`), and at
a record (`AtRecord`). `StandsRight` is what must hold when a pass leaves off anywhere
and a block is asked for next: `current_i` before the first record, or at the record the
cursor is at, or, of a file, at the one in memory with the cursor behind it; going
forward from there or from the beginning both arrive (`MovesLand`). The theorem assumes
`LongEnough`: paths are compared up to `MaxPath` arcs, and an example that has any path
has one no longer than that.

`LazyKBestProofs`: `BackStaysBack`, that a waiting `get_best`'s reference stays the
last of its list, and `RecursionIsBounded`, for any forest. The argument: a node
that waits has as its last entry the one it was asked for, which is no derivation
yet; it can only be asked for what follows a derivation of its list, since back
pointers name only derivations already listed (`AllBased`), and that it has begun
already. `Frames` says this of every frame, `Distinct` that no node waits twice,
`Control` what is about to happen to the topmost.

`QueuedOnce` (`OnePath`) and `ListsInOrder` stand on it. For the first, `QInv`: a
choice of back pointers has one choice before it (`Before`: the second kid's pointer
goes back first only if the first kid's is at its best), what was ever queued has what
was before it queued, what still waits in the queue has no successor queued yet, and a
hyperedge taken from the queue whose successors are being asked for has only those of
the kids already asked (`InReplacement`). For the second, `LInv`: a list is in order
and repeats nothing, what its queue or the pending replacement holds costs no less
than what is listed, and a successor costs no less since the kid's own list is in
order.

`SwapBatchProofs`: `KeptInOrder`, `EverythingSeen` and `IndexInRange`, for any
capacity, any objects that fit a batch and any order of the three kinds of scan.
The storage's invariant (`SInv`) says which objects each batch holds, that each header
leads to that of the next object of its batch and the last one to a header without
object, that what is behind `top` is free, and that the first batch is empty only if
the store is; the scans' (`VInv`) says, at each place of each loop, that what was
visited is what lies before the present position. The chains are recursive functions
over headers: the proofs go by the number of headers left (`ChainFacts`, `NextFromOK`).

Assumptions on constants are their types, that perplexities are between 1 and
`Inf`, that weights are in lowest terms, that machines have finitely many arcs, the
two named above, `NamedApart` (the arcs of the machines read are objects of their
own: a chain holds pointers to them, and two arcs have two addresses), and
`EMImproves`: a plain EM step does not make the perplexity worse. The last is the
theory of EM, not something this code can be checked for; it holds for maximum
likelihood, and only `TrainingDescends` uses it, and `Terminates` on the instance checked.
`ExamplesRecalled` has a hypothesis of its own, `LongEnough` (above).

Only model-checked:

- termination and the other liveness properties (beyond the prover);
- `PathsOnce` (sequences of moves of any length, an induction over data);
- `BestFirst`: about all the trees of a forest;
- `CountsOfPass`: what forward-backward sums up over a graph in the order of its
  states;
- all of `ForestEM`: its definitions are recursive functions over nodes, so what
  they compute for every input is an induction over data.

The sums of `Sums` are a recursive function, not a RECURSIVE operator, so that
modules using them stay within the prover's reach.

## 5. Not modelled

Most of the repository's lines are not control but data: containers
(`dynamic_array`, `small_vector`, hash functions, iterators), option parsing and
usage text (`configure.hpp`, most of `carmel.cc`), formatting and parsing
(`wfstio.cc`, `weight.h`, print functions), wrappers for platforms, and several
tools and scripts with a single pass over their input. A model of them would say
again what the code says, so the share of lines modelled is small and will stay
small; the parts with state that lives over many steps are the ones above.

Of those, these are left out:

- consolidation (`-C`), which replaces paths by sums, and pruning: `PathsOnce` would
  have to be restated over weights; a cascade trained on a consolidated machine
  keeps one chain of the arcs merged;
- Eppstein's k-best paths (`kbest.h`), shortest distances, minimization and
  determinization: pure algorithms on graphs with no protocol around them;
- `fem` output of cascades, Gibbs parameters of a cascade, the deprecated matrix
  forward-backward beyond its effect on the corpus;
- checkpoints, watching and per-forest counts of forest-em;
- I/O errors while derivations are written to disk, and floating-point rounding:
  weights are exact;
- `gextract`, a Python prototype whose sampler repeats the C++ one.

## 6. What could follow

1. `CountsOfPass` from the order of the states of a graph, now that the graph is known
   to hold all derivations.
2. `SamplesExact` and `BestRestored` of `ForestEM` from the lemmas about fractions and
   sums that `CascadeTrainingProofs` has.
3. Consolidation in `CompositionChain`, with paths compared by sums of weights.
