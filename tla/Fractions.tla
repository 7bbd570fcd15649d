----------------------------- MODULE Fractions -----------------------------
(* Exact fractions, in place of the floats of the nodal solver: a numerator  *)
(* and a positive denominator without a common factor.                       *)
EXTENDS Integers, FiniteSetsExt

Magnitude(n) == IF n < 0 THEN -n ELSE n

Gcd[m \in Nat, n \in Nat] == IF n = 0 THEN m ELSE Gcd[n, m % n]

Frac(n, d) ==
    LET g == Gcd[Magnitude(n), Magnitude(d)]
        s == IF d < 0 THEN -1 ELSE 1
    IN [num |-> (s * n) \div g, den |-> (s * d) \div g]

Whole(n) == [num |-> n, den |-> 1]
Zero == Whole(0)
One == Whole(1)

Fraction == [num : Int, den : Nat \ {0}]

Sums == [p, q \in Fraction |-> Frac(p.num * q.den + q.num * p.den, p.den * q.den)]
Products == [p, q \in Fraction |-> Frac(p.num * q.num, p.den * q.den)]
Quotients == [p, q \in Fraction |-> Frac(p.num * q.den, p.den * q.num)]

Plus(p, q) == Sums[p, q]
Times(p, q) == Products[p, q]
Over(p, q) == Quotients[p, q]
Negated(p) == [p EXCEPT !.num = -@]
Minus(p, q) == Plus(p, Negated(q))
Less(p, q) == p.num * q.den < q.num * p.den

Size(p) == [p EXCEPT !.num = Magnitude(@)]
Lesser(p, q) == IF Less(q, p) THEN q ELSE p
Greatest(p, q) == IF Less(p, q) THEN q ELSE p
Clamped(p, low, high) == Greatest(low, Lesser(p, high))

\* The conversion of a float to int: towards zero.
Truncated(p) == IF p.num < 0 THEN -(Magnitude(p.num) \div p.den) ELSE p.num \div p.den

\* The conversion of std::round: halves away from zero.
Rounded(p) ==
    LET half == Plus(Size(p), Frac(1, 2)) IN
    IF p.num < 0 THEN -Truncated(half) ELSE Truncated(half)

SumOver(S, Term(_)) == FoldSet(LAMBDA e, sum : Plus(sum, Term(e)), Zero, S)
=============================================================================
