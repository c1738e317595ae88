---------------------------- MODULE ExactComplex ----------------------------
(***************************************************************************)
(* Complex arithmetic without rounding, for the executors: a float is a    *)
(* residue modulo the prime P, a complex number a pair <<re, im>> of them. *)
(* The cosine and the sine of 2 pi k/n exist for every n that divides      *)
(* P - 1 (as (w^k + w^-k)/2 and (w^k - w^-k)/(2i) for w of order n and i   *)
(* of order 4), with every identity between them that the algorithms use.  *)
(* An algorithm that is right over the complex numbers is right here;      *)
(* products stay below 2^31 for P < 2^15.5.                                *)
(***************************************************************************)
EXTENDS Integers, SequencesExt

CONSTANTS
    P,          \* 15121 = 1 + 2^4 * 3^3 * 5 * 7, 24481 = 1 + 2^5 * 3^2 * 5 * 17
    Generator   \* of the multiplicative group modulo P

add(a, b) == (a + b) % P
sub(a, b) == (a - b) % P
mul(a, b) == (a * b) % P
neg(a)    == (0 - a) % P

pow[e \in Nat] ==
    IF e = 0 THEN 1
    ELSE LET h == pow[e \div 2] IN mul(mul(h, h), IF e % 2 = 1 THEN Generator ELSE 1)
Exp(e) == pow[e % (P - 1)]
ASSUME FieldAssumption ==
    /\ P \in 2..46340 /\ \A d \in 2..215 : d < P => P % d # 0
    /\ (P - 1) % 8 = 0
    /\ \A e \in 1..P - 2 : (P - 1) % e = 0 => pow[e] # 1
recip(a) == CHOOSE b \in 1..P - 1 : mul(a, b) = 1

Orders == {n \in 1..100 : (P - 1) % n = 0}
Half == recip(2)
ImagUnit == Exp((P - 1) \div 4)

(* <<cos(2 pi k/n), sin(2 pi k/n)>> for k in 0..n-1.                       *)
Unit ==
    [n \in Orders |->
        LET w(k) == Exp(k * ((P - 1) \div n))
        IN  [k \in 0..n - 1 |->
                << mul(Half, add(w(k), w(n - k))),
                   mul(recip(mul(2, ImagUnit)), sub(w(k), w(n - k))) >>]]

RootHalf == Unit[8][1][1]           \* cos(pi/4) = 1/sqrt 2

Conj(z)    == <<z[1], neg(z[2])>>
CAdd(y, z) == <<add(y[1], z[1]), add(y[2], z[2])>>
CSub(y, z) == <<sub(y[1], z[1]), sub(y[2], z[2])>>
CMul(y, z) == << sub(mul(y[1], z[1]), mul(y[2], z[2])),
                 add(mul(y[1], z[2]), mul(y[2], z[1])) >>
Scale(c, z) == <<mul(c, z[1]), mul(c, z[2])>>
CZero == <<0, 0>>
CSum(s) == FoldLeft(CAdd, CZero, s)

(* exp(-2 pi i k/n), or exp(+2 pi i k/n) for the inverse.                  *)
Root(n, k, inverse) == IF inverse THEN Unit[n][k % n] ELSE Conj(Unit[n][k % n])
=============================================================================
