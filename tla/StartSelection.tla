--------------------------- MODULE StartSelection ---------------------------
(***************************************************************************)
(* What a search with random restarts promises, whatever a single start    *)
(* does: it tries starts one after another, each with some outcome, and    *)
(* reports the outcome with the best score; of equals, the earliest.       *)
(***************************************************************************)
EXTENDS Integers, Sequences

CONSTANT Score(_)      \* the score of an outcome: an integer, larger is better

VARIABLES outcomes,    \* what each start so far produced, in order
          best,        \* {the best of them}, or {}
          reported     \* the outcome handed to the caller in a singleton, or {}

vars == <<outcomes, best, reported>>

Init == outcomes = <<>> /\ best = {} /\ reported = {}

(* the next start ends with some outcome, the last element of outcomes' *)
Try ==
  /\ reported = {}
  /\ Len(outcomes') = Len(outcomes) + 1
  /\ LET o == outcomes'[Len(outcomes')]
     IN  /\ outcomes' = Append(outcomes, o)
         /\ best' = IF \A b \in best : Score(o) > Score(b) THEN {o} ELSE best
  /\ UNCHANGED reported

Report ==
  /\ reported = {}
  /\ best # {}
  /\ reported' = best
  /\ UNCHANGED <<outcomes, best>>

Next == Try \/ Report

Spec == Init /\ [][Next]_vars
=============================================================================
