----------------------------- MODULE MCDwtPair ------------------------------
(* The wavelet transforms that the runs of DwtPair make.                   *)
EXTENDS DwtPair

Dwt(fam, conv, backend, norm, n, levels, inverse) ==
    [fam |-> fam, conv |-> conv, backend |-> backend, norm |-> norm, n |-> n,
     levels |-> levels, inv |-> inverse, flags |-> {}]

Conventions == DOMAIN FamilyOf \cup UserFilters \cup {"unspec"}
Backends == {"auto", "lift", "fir"}
Every == {Dwt(fam, conv, backend, "default", 4, 0, FALSE) :
              fam \in Families, conv \in Conventions, backend \in Backends}
Deep == {Dwt(fam, "unspec", "auto", "default", 16, levels, FALSE) :
             fam \in Families, levels \in {3, 5}}
            \cup {Dwt("d4", "unspec", "fir", "default", 8, 0, FALSE),
                  Dwt("haar", "haar-mean", "fir", "default", 8, 2, FALSE)}
Odd == {Dwt("haar", "unspec", "auto", "default", 12, 0, FALSE),
        Dwt("cdf53", "unspec", "auto", "ortho", 4, 0, FALSE),
        Dwt("cdf97", "unspec", "auto", "default", 4, 2, TRUE),
        Dwt("sym4", "unspec", "fir", "ortho", 2, 0, FALSE),
        Dwt("db4", "unspec", "auto", "default", 4, 0, FALSE),
        Dwt("haar", "analysis-only", "auto", "default", 4, 0, TRUE),
        [Dwt("haar", "unspec", "auto", "default", 4, 0, FALSE) EXCEPT !.flags = {"bluestein"}]}
All == Every \cup Deep \cup Odd

(* What a user brings filters to, and the integer 5/3.                     *)
Custom == {Dwt("haar", "custom-pr", "auto", "default", 4, 0, FALSE)}
Lifting == {Dwt("cdf53", "cdf53-int", "lift", "default", n, 0, FALSE) : n \in {2, 4, 8, 16}}

(* A filter of eight taps that is orthogonal to its even shifts modulo     *)
(* 37441.                                                                  *)
Sym4Like == <<31384, 9403, 18227, 22351, 36081, 17471, 3519, 5942>>

Callers == {Pair(1, 1, Half, Half), [Pair(1, 1, Half, Half) EXCEPT !.hs = <<>>, !.gs = <<>>],
            Orthogonal(D4H)}
=============================================================================
