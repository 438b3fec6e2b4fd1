--------------------------- MODULE DistanceValues ---------------------------
(***************************************************************************)
(* The float distances of src/src/distances.c as exact non-negative        *)
(* rationals in lowest terms, so that equal values are equal records and   *)
(* the code's exact float comparisons (==, <, <=) keep their meaning.      *)
(* Rounding of float sums and quotients is not modelled (see README).      *)
(***************************************************************************)
EXTENDS Naturals

RECURSIVE GCD(_, _)
GCD(a, b) == IF b = 0 THEN a ELSE GCD(b, a % b)

\* The value n/d, d > 0, in lowest terms.
Frac(n, d) == LET g == GCD(n, d) IN [num |-> n \div g, den |-> d \div g]

\* A whole-number distance, as read from a matrix of the configuration.
Dist(v) == Frac(v, 1)

\* FLT_MAX, the start value of the code's minimum scans: above every distance.
FLT_MAX == [num |-> 1, den |-> 0]

\* a < b and a <= b on distances (FLT_MAX compares above every finite value).
DLess(a, b) == a.num * b.den < b.num * a.den
DLeq(a, b) == ~DLess(b, a)

\* a + b, and a divided by the positive whole number k.
DAdd(a, b) == Frac(a.num * b.den + b.num * a.den, a.den * b.den)
DDiv(a, k) == Frac(a.num, a.den * k)

\* The smallest of a non-empty set of distances.
DMin(S) == CHOOSE x \in S : \A y \in S : DLeq(x, y)
=============================================================================
