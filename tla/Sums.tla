-------------------------------- MODULE Sums --------------------------------
(***************************************************************************)
(* Sums of the first N values of an array of numbers.  The C++ code walks  *)
(* its arrays (gps, sample, normsum) by index; a sum over 1..N is what     *)
(* such a loop accumulates.  The sum is a recursive FUNCTION, so that the  *)
(* proof modules can reason about it.                                      *)
(***************************************************************************)
EXTENDS Integers

(* PrefixSums(g, N)[n] = g[1] + ... + g[n], for n in 0..N *)
PrefixSums(g, N) ==
  LET S[n \in 0..N] == IF n = 0 THEN 0 ELSE S[n - 1] + g[n] IN S

SumTo(g, N) == PrefixSums(g, N)[N]
=============================================================================
