------------------------------ MODULE Rational ------------------------------
(***************************************************************************)
(* The exact rational numbers of both programs (rational.cc of mini-gpt    *)
(* and of mdpsim): a pair <<numerator, denominator>> in lowest terms with  *)
(* a positive denominator.  The sums and products of the code are those of *)
(* int; the small numbers used here stay far below its bounds.             *)
(***************************************************************************)
EXTENDS Integers

Abs(n) == IF n < 0 THEN -n ELSE n

\* gcd: Euclid's algorithm on the absolute values.
Euclid[n, m \in Nat] == IF m > 0 THEN Euclid[m, n % m] ELSE n
Gcd(n, m) == Euclid[Abs(n), Abs(m)]

Lcm(n, m) == (n \div Gcd(n, m)) * m

\* Rational::multipliers: what brings two denominators to their least common multiple.
Multipliers(n, m) == [k \in {n, m} |-> Lcm(n, m) \div k]

\* Rational::Rational( int, int ): a denominator 0 is an error the program ends with.
Divided(n, m, d) == IF m < 0 THEN <<-(n \div d), -(m \div d)>> ELSE <<n \div d, m \div d>>
Rat(n, m) == Divided(n, m, Gcd(n, m))

\* Rational::Rational( const char* ): "a", "a/b" or "a.b" with k digits after the point.
Text(a, separator, b, k) ==
  CASE separator = ""  -> <<a, 1>>
    [] separator = "/" -> Rat(a, b)
    [] separator = "." -> LET q == Rat(b, 10^k) IN <<q[1] + a * q[2], q[2]>>

\* Both numerators over the least common denominator.
Common(q, p) ==
  LET m == Multipliers(q[2], p[2]) IN <<q[1] * m[q[2]], p[1] * m[p[2]], q[2] * m[q[2]]>>
Difference(c) == c[1] - c[2]

Lt(q, p) == Difference(Common(q, p)) < 0
Le(q, p) == Difference(Common(q, p)) <= 0
Eq(q, p) == Difference(Common(q, p)) = 0
Ge(q, p) == Difference(Common(q, p)) >= 0
Gt(q, p) == Difference(Common(q, p)) > 0

Sum(c)      == Rat(c[1] + c[2], c[3])
Plus(q, p)  == Sum(Common(q, p))
Minus(q, p) == Plus(q, <<-p[1], p[2]>>)

\* The product cancels crosswise before it multiplies; a quotient is the product with the
\* inverse, whose sign the result takes into its numerator.
Crossed(q, p, d1, d2) == Rat((q[1] \div d1) * (p[1] \div d2), (q[2] \div d2) * (p[2] \div d1))
Prod(q, p) == Crossed(q, p, Gcd(q[1], p[2]), Gcd(p[1], q[2]))
Quot(q, p) == Prod(q, <<p[2], p[1]>>)
=============================================================================
