------------------------------- MODULE Ratios -------------------------------
(***************************************************************************)
(* graehl/shared/weight.h: a Weight is a nonnegative real number, kept as  *)
(* its logarithm.  Here it is a fraction in lowest terms, so that sums,    *)
(* products and quotients of weights are exact.                            *)
(***************************************************************************)
EXTENDS Integers, Functions

Ratio == Nat \X (Nat \ {0})
Zero == <<0, 1>>
One == <<1, 1>>

(* the greatest common divisor of p[1] and p[2] *)
Gcd[p \in Nat \X Nat] == IF p[2] = 0 THEN p[1] ELSE Gcd[<<p[2], p[1] % p[2]>>]

Lowest(n, d) == LET g == Gcd[<<n, d>>] IN <<n \div g, d \div g>>

(* common factors are taken out first: TLC's integers are small *)
Plus(x, y) ==
  LET g == Gcd[<<x[2], y[2]>>]
  IN  Lowest(x[1] * (y[2] \div g) + y[1] * (x[2] \div g), x[2] * (y[2] \div g))
Times(x, y) ==
  LET a == Lowest(x[1], y[2])
      b == Lowest(y[1], x[2])
  IN  <<a[1] * b[1], a[2] * b[2]>>
Over(x, y) == Times(x, <<y[2], y[1]>>)

(* x < y, by whole parts first, then by what is left, turned over *)
Below[p \in Ratio \X Ratio] ==
  LET x == p[1]
      y == p[2]
      a == x[1] \div x[2]
      b == y[1] \div y[2]
      r == x[1] % x[2]
      s == y[1] % y[2]
  IN  IF a # b THEN a < b
      ELSE IF s = 0 THEN FALSE ELSE IF r = 0 THEN TRUE
      ELSE Below[<< <<y[2], s>>, <<x[2], r>> >>]
Less(x, y) == Below[<<x, y>>]

(* operator-: never below zero *)
Minus(x, y) ==
  IF Less(x, y) THEN Zero
  ELSE LET g == Gcd[<<x[2], y[2]>>]
       IN  Lowest(x[1] * (y[2] \div g) - y[1] * (x[2] \div g), x[2] * (y[2] \div g))

(* the sum and the product of f[x] for the x in S *)
SumOver(f, S) == FoldFunctionOnSet(Plus, Zero, f, S)
ProductOver(f, S) == FoldFunctionOnSet(Times, One, f, S)

Largest(S) == CHOOSE x \in S : \A y \in S : ~Less(x, y)
=============================================================================
