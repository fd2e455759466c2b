-------------------------- MODULE CompositionChain --------------------------
(***************************************************************************)
(* carmel/src/carmel.cc, the composition loop of main: a chain of          *)
(* transducers is composed two at a time, from the left or (-r) from the   *)
(* right, each composition shrunk before it takes part in the next.  With  *)
(* --train-cascade the recorder keeps the chains of input arcs through all *)
(* of it.                                                                  *)
(***************************************************************************)
EXTENDS Compose

CONSTANTS
  Jobs,           \* chains of machines, with the command line's options
  PathBound       \* properties look at paths of at most this many input arcs

Job == [parts : Seq(Machine),
        right : BOOLEAN,        \* -r
        a : BOOLEAN,            \* -a
        remember : BOOLEAN,     \* --train-cascade
        reduce : BOOLEAN,       \* without -d
        order : {"any", "up", "down"},  \* in which the arcs of a state are taken
        compress : {"no", "changed", "always"}]   \* --train-cascade-compress[-always]
(* carmel reads at least one machine, and each arc is an object of its own *)
NamedApart(parts) ==
  /\ \A p \in DOMAIN parts : \A e \in parts[p].arcs : Len(e.from) = 1
  /\ \A p, q \in DOMAIN parts : \A e \in parts[p].arcs, f \in parts[q].arcs :
       e.from = f.from => p = q /\ e = f
ASSUME JobAssumption ==
  /\ Jobs \subseteq Job
  /\ \A j \in Jobs : j.parts # <<>> /\ NamedApart(j.parts)

VARIABLES
  stage,      \* "start", "next", "compose", "end", "empty"
  job,
  i,          \* the part to compose next
  first,
  result

driver == <<stage, job, i, first, result>>
chainVars == <<vars, driver>>

Parts == job.parts
Minimized(m) == IF job.reduce THEN Reduce(m) ELSE m
More == i \in DOMAIN Parts

StartChain ==
  /\ stage = "start"
  /\ \E j \in Jobs :
       LET place == IF j.right THEN Len(j.parts) ELSE 1
           part == IF j.reduce THEN Reduce(j.parts[place]) ELSE j.parts[place]
       IN  /\ job' = [j EXCEPT !.parts[place] = part]
           /\ result' = part
           /\ i' = IF j.right THEN place - 1 ELSE place + 1
           /\ cascade' = NewRecorder(j.remember /\ Len(j.parts) > 1)
  /\ first' = TRUE
  /\ stage' = "next"
  /\ UNCHANGED <<pc, input, worklist, arcs, final>>

ComposeNext ==
  /\ stage = "next" /\ More /\ result.valid
  /\ Begin([lhs |-> IF job.right THEN Parts[i] ELSE result,
            rhs |-> IF job.right THEN result ELSE Parts[i],
            groups |-> job.a,
            cascade |-> PrepareCompose(cascade, first, job.right)])
  /\ stage' = "compose"
  /\ UNCHANGED <<job, i, first, result>>

(* the order of the arcs, by the names of the input arcs they are made of *)
Key(e) == FoldSeq(LAMBDA x, k : 100 * k + x, 0, e.from)
MoveKey(m) == 10000 * Key(m.l) + Key(m.r)
Precedes(k, l) == CASE job.order = "any" -> TRUE
                    [] job.order = "up" -> k <= l
                    [] job.order = "down" -> k >= l
NextMove(m) == \A x \in pending : Precedes(MoveKey(m), MoveKey(x))
NextHalf(l) ==
  /\ job.order # "any" => pending = {}
  /\ \A x \in halves : Precedes(Key(l), Key(x))

ComposeStep ==
  /\ stage = "compose"
  /\ \/ Expand
     \/ \E m \in pending : NextMove(m) /\ ComposeArc(m)
     \/ \E l \in halves : NextHalf(l) /\ ComposeHalf(l)
     \/ Finish
  /\ UNCHANGED driver

(* cm.shrink and cascade.done_composing *)
Shrink ==
  /\ stage = "compose" /\ pc = "done"
  /\ LET small == Minimized(Composed)
         changed == small.n # Composed.n \/ Cardinality(small.arcs) # Cardinality(Composed.arcs)
         done == DoneComposing(cascade, small,
                   job.compress = "always" \/ (job.compress = "changed" /\ changed))
     IN  result' = done.m /\ cascade' = done.c
  /\ i' = IF job.right THEN i - 1 ELSE i + 1
  /\ first' = FALSE
  /\ stage' = "next"
  /\ UNCHANGED <<pc, input, worklist, arcs, final, job>>

EmptyResult_GoesOn ==
  /\ stage = "compose" /\ pc = "invalid"
  /\ stage' = "next"
  /\ UNCHANGED <<vars, job, i, first, result>>
EmptyResult ==
  /\ stage = "compose" /\ pc = "invalid"
  /\ stage' = "empty"
  /\ UNCHANGED <<vars, job, i, first, result>>

EndChain ==
  /\ stage = "next" /\ (~More \/ ~result.valid)
  /\ stage' = "end"
  /\ UNCHANGED <<vars, job, i, first, result>>

ChainInit ==
  /\ Idle
  /\ stage = "start" /\ i = 0 /\ first = TRUE
  /\ job = [parts |-> <<>>, right |-> FALSE, a |-> FALSE, remember |-> FALSE,
            reduce |-> FALSE, order |-> "any", compress |-> "no"]
  /\ result = Composed

Stop == stage \in {"end", "empty"} /\ UNCHANGED chainVars
ChainNext == StartChain \/ ComposeNext \/ ComposeStep \/ Shrink \/ EmptyResult \/ EndChain \/ Stop
ChainSpec == ChainInit /\ [][ChainNext]_chainVars /\ WF_chainVars(ChainNext)

-----------------------------------------------------------------------------
(* No arc is made twice: what is yet to be made is not there yet *)
MadeOnce ==
  /\ \A m \in pending : ~\E e \in arcs : Makes(stateMap, m, e)
  /\ \A l \in halves : ~\E e \in arcs : MakesHalf(stateMap, arcStateMap, source, l, e)

(* the parts composed so far *)
ComposedParts ==
  IF job.right THEN (IF stage = "compose" THEN i ELSE i + 1)..Len(Parts)
  ELSE 1..(IF stage = "compose" THEN i ELSE i - 1)
ParamsOf(m) == {Param(e) : e \in m.arcs}

(* A path of the composition, and one path of each part such that each reads
   what the one before writes *)
AlongPart(path, p) == SelectSeq(Along(path), LAMBDA x : x \in ParamsOf(Parts[p]))
PathTuples ==
  LET first_part == CHOOSE p \in ComposedParts : \A q \in ComposedParts : p <= q
      last_part == first_part + Cardinality(ComposedParts) - 1
      upTo[p \in ComposedParts] ==
        IF p = first_part THEN {<<path>> : path \in Paths(Parts[p], PathBound)}
        ELSE UNION {{Append(t, path) : path \in {x \in Paths(Parts[p], PathBound) :
                                                  Input(x) = Output(t[Len(t)])}} :
                      t \in upTo[p - 1]}
  IN  {[k \in DOMAIN t |-> Along(t[k])] : t \in upTo[last_part]}
EachOnce(m) ==
  LET first_part == CHOOSE p \in ComposedParts : \A q \in ComposedParts : p <= q
      Short(path) == \A p \in ComposedParts : Len(AlongPart(path, p)) <= PathBound
      paths == PathsWithin(m, (PathBound + 1) * Len(Parts), Short)
      split(path) == [k \in 1..Cardinality(ComposedParts) |-> AlongPart(path, first_part + k - 1)]
  IN  /\ {split(path) : path \in paths} = PathTuples
      /\ Cardinality(paths) = Cardinality(PathTuples)

(* The filter leaves exactly one path of the composition for each tuple of
   matching paths of the parts, with and without -a ("the transducer will
   have equivalent paths", carmel.cc:1671), and so does shrinking it. *)
PathsOnce ==
  /\ stage = "compose" /\ pc = "done" => EachOnce(Composed)
  /\ stage = "end" /\ result.valid => EachOnce(result)

(* The chain of every composed arc names the input arcs that the arc stands
   for, but for those locked with weight 1; its weight is their product.
   This holds while machines are composed, shrunk and their chains compressed,
   so that update() may recompute every weight from the chains. *)
PartArcs == UNION {Parts[p].arcs : p \in DOMAIN Parts}
ArcNamed(x) == CHOOSE e \in PartArcs : Param(e) = x
Product(s) ==
  LET ofLast[n \in 0..Len(s)] ==
        IF n = 0 THEN 1 ELSE ArcNamed(s[Len(s) - n + 1]).weight * ofLast[n - 1]
  IN  ofLast[Len(s)]
Times(x, s) == Cardinality({k \in DOMAIN s : s[k] = x})
ChainFits(e) ==
  LET chain == Chain(cascade, e.group)
  IN  /\ \A x \in Range(chain) \cup Range(e.from) :
           Times(x, chain) = IF IsLocked1(ArcNamed(x)) THEN 0 ELSE Times(x, e.from)
      /\ Product(chain) = e.weight
ChainsFit ==
  ~cascade.trivial /\ stage # "start" =>
    /\ stage = "compose" => \A e \in arcs : ChainFits(e)
    /\ stage \in {"next", "end"} /\ ~first => \A e \in result.arcs : ChainFits(e)

(* Every chain of compositions comes to an end: each trio is expanded once *)
Ends == <>(stage \in {"end", "empty"})
=============================================================================
