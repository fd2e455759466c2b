---------------------------- MODULE CascadeChains ----------------------------
(***************************************************************************)
(* carmel/src/cascade.h, cascade_parameters during composition: for each   *)
(* arc of the composed machine, the chain of arcs of the input machines    *)
(* whose weights its weight is the product of.  An arc of the composed     *)
(* machine names its chain by its group number.                            *)
(*                                                                         *)
(* The operators take the recorder c and return it changed, with the       *)
(* number of the chain: [c |-> ..., id |-> ...].  A pointer to an arc of   *)
(* an input machine is the arc's name.                                     *)
(***************************************************************************)
EXTENDS Transducer

NilChain == 0       \* the chain of arcs that are all locked with weight 1

(* epsilon_chains: the chain made for an arc that moved alone; is_chain: the
   arcs of the first, second machine of a composition are chains already *)
Recorder ==
  [trivial : BOOLEAN, chains : Seq(Seq(Nat)), epsilon_chains : SUBSET (Nat \X Nat),
   is_chain : BOOLEAN \X BOOLEAN]

NewRecorder(remember) ==
  [trivial |-> ~remember,
   chains |-> IF remember THEN <<<<>>>> ELSE <<>>,
   epsilon_chains |-> {}, is_chain |-> <<FALSE, FALSE>>]

Chain(c, id) == c.chains[id + 1]
Param(e) == e.from[1]
IsLocked1(e) == IsLocked(e) /\ e.weight = 1
OriginalId(e) == IF IsLocked1(e) THEN NilChain ELSE e.group
Locked1GroupId(c) == IF c.trivial THEN LockedGroup ELSE NilChain

ConsArc(e, chain) == IF IsLocked1(e) THEN chain ELSE <<Param(e)>> \o chain

ConsChain(c, a, b) ==
  CASE c.is_chain = <<TRUE, TRUE>> -> Reverse(Chain(c, a.group)) \o Chain(c, b.group)
    [] c.is_chain = <<TRUE, FALSE>> -> ConsArc(b, Chain(c, a.group))
    [] c.is_chain = <<FALSE, TRUE>> -> ConsArc(a, Chain(c, b.group))
    [] c.is_chain = <<FALSE, FALSE>> -> ConsArc(a, ConsArc(b, <<>>))

(* push_back on the chains, but for the empty chain *)
Pushed(c, chain) ==
  IF chain = <<>> THEN [c |-> c, id |-> NilChain]
  ELSE [c |-> [c EXCEPT !.chains = Append(@, chain)], id |-> Len(c.chains)]

(* record: an arc made of two *)
Record(c, a, b) ==
  IF c.trivial THEN [c |-> c, id |-> NoGroup] ELSE Pushed(c, ConsChain(c, a, b))

(* record_eps: an arc made of one, the other machine staying where it is *)
RecordEps_NeverChained(c, e, chained) ==
  LET known == {x \in c.epsilon_chains : x[1] = Param(e)}
      new == Pushed(c, ConsArc(e, <<>>))
  IN  IF c.trivial THEN [c |-> c, id |-> e.group]
      ELSE IF known # {} THEN [c |-> c, id |-> (CHOOSE x \in known : TRUE)[2]]
      ELSE [c |-> [new.c EXCEPT !.epsilon_chains = @ \cup {<<Param(e), new.id>>}], id |-> new.id]
RecordEps(c, e, chained) ==
  LET known == {x \in c.epsilon_chains : x[1] = Param(e)}
      new == Pushed(c, ConsArc(e, <<>>))
  IN  IF c.trivial THEN [c |-> c, id |-> e.group]
      ELSE IF chained THEN [c |-> c, id |-> OriginalId(e)]
      ELSE IF known # {} THEN [c |-> c, id |-> (CHOOSE x \in known : TRUE)[2]]
      ELSE [c |-> [new.c EXCEPT !.epsilon_chains = @ \cup {<<Param(e), new.id>>}], id |-> new.id]

PrepareCompose(c, first, right_assoc) ==
  [c EXCEPT !.is_chain = IF first THEN <<FALSE, FALSE>>
                         ELSE IF right_assoc THEN <<FALSE, TRUE>> ELSE <<TRUE, FALSE>>]

-----------------------------------------------------------------------------
(* done_composing, with compress_chains: the chains that no arc of the
   composed machine names go, the others are numbered anew *)
UsedChains(m) == {NilChain} \cup {e.group : e \in {x \in m.arcs : ~IsLocked(x)}}

Compressed(c, m) ==
  LET used == UsedChains(m)
      new(id) == Cardinality({k \in used : k < id})
      old(i) == CHOOSE id \in used : new(id) = i - 1
  IN  [c |-> [c EXCEPT !.chains = [i \in 1..Cardinality(used) |-> Chain(c, old(i))]],
       m |-> [m EXCEPT !.arcs = {[e EXCEPT !.group = IF IsLocked(e) THEN @ ELSE new(@)] :
                                   e \in m.arcs}]]

DoneComposing(c, m, compress) ==
  LET cleared == [c EXCEPT !.epsilon_chains = {}]
  IN  IF c.trivial THEN [c |-> c, m |-> m]
      ELSE IF compress THEN Compressed(cleared, m) ELSE [c |-> cleared, m |-> m]
=============================================================================
