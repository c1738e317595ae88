------------------------------ MODULE Textbook ------------------------------
(***************************************************************************)
(* What the stages of a transform mean: the textbook sums, not the         *)
(* algorithms that compute them.                                           *)
(***************************************************************************)
EXTENDS ExactComplex

(* X_k = sum_j x_j exp(-+2 pi i jk/n).                                     *)
Dft(x, n, inverse) ==
    [k \in 0..n - 1 |->
        CSum([j \in 1..n |-> CMul(x[j - 1], Root(n, (j - 1) * k, inverse))])]

(* Row r, column c of the orthonormal Haar matrix of n points with these   *)
(* levels: the averages first, then the details, the coarsest first.       *)
HaarEntry(n, levels, r, c) ==
    LET isAverage == r < n \div 2^levels
        l == IF isAverage THEN levels
             ELSE CHOOSE m \in 1..levels : n \div 2^m <= r /\ r < n \div 2^(m - 1)
        i == IF isAverage THEN r ELSE r - n \div 2^l
        weight == FoldLeft(mul, 1, [m \in 1..l |-> RootHalf])
    IN  IF c \div 2^l # i THEN 0
        ELSE IF isAverage \/ c % 2^l < 2^(l - 1) THEN weight ELSE neg(weight)

(* The real parts of the first n points; the rest is left alone.  The      *)
(* matrix is orthogonal, so the inverse is its transpose.                  *)
Haar(x, n, levels, inverse) ==
    LET sum(i) == FoldLeft(add, 0,
                     [j \in 1..n |-> mul(x[j - 1][1],
                                         IF inverse THEN HaarEntry(n, levels, j - 1, i)
                                         ELSE HaarEntry(n, levels, i, j - 1))])
    IN  [i \in DOMAIN x |-> IF i < n THEN <<sum(i), x[i][2]>> ELSE x[i]]

(* A pointwise function of the real parts.                                 *)
Pointwise1(x, idx) == [i \in DOMAIN x |-> <<add(mul(x[i][1], x[i][1]), idx), x[i][2]>>]

StageMeaning(x, s) ==
    CASE s.kind = "fft"  -> Dft(x, s.n, s.inv)
      [] s.kind = "dwt"  -> Haar(x, s.n, s.levels, s.inv)
      [] s.kind = "call" -> Pointwise1(x, s.idx)
      [] s.kind = "threshold" -> [i \in DOMAIN x |-> IF i >= s.keep /\ s.all THEN <<0, x[i][2]>>
                                                    ELSE x[i]]
      [] s.kind = "bfly" -> [i \in DOMAIN x |-> IF i < s.n THEN Dft(x, s.n, FALSE)[i]
                                                ELSE x[i]]
      [] s.kind = "sum" -> LET xs == [j \in 1..Cardinality(DOMAIN x) |-> x[j - 1]]
                           IN  [x EXCEPT ![0] = CSum(xs)]
      [] s.kind = "none" -> x
(* The stages one after the other.                                         *)
Meaning(does, x) == FoldLeft(StageMeaning, x, does)
=============================================================================
