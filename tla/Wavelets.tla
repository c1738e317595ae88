------------------------------ MODULE Wavelets ------------------------------
(***************************************************************************)
(* The discrete wavelet transform: conventions and backends, and one level *)
(* of each filter bank, by lifting or by convolution (src/faf_wavelets.c,  *)
(* src/faf_dwt_fir.c, faf_create_dwt in src/faf_core.c).  A signal is an   *)
(* array of real numbers: residues, as in ExactComplex.                    *)
(***************************************************************************)
EXTENDS FftIr, ExactComplex

CONSTANTS
    Sym4H,         \* the published filter, which is a rounding of one like this
    MaxStackTaps   \* FAF_FIR_MAX_STACK_TAPS

(* The filter is orthogonal to its shifts by two, and of norm one.         *)
OrthoFilter(h) ==
    \A k \in 0..(Len(h) \div 2) - 1 :
        FoldLeft(add, 0, [i \in 1..Len(h) - 2 * k |-> mul(h[i], h[i + 2 * k])])
            = IF k = 0 THEN 1 ELSE 0
ASSUME Sym4Assumption == Len(Sym4H) = 8 /\ OrthoFilter(Sym4H)

-----------------------------------------------------------------------------
(* Which family a convention is for; the user's own filters go with any.   *)
FamilyOf ==
    [c \in {"haar-ortho", "haar-lazy", "haar-mean", "d4-ortho", "sym4-ortho",
            "cdf53-int", "cdf53-energy", "cdf97-jpeg", "cdf97-ortho"} |->
        CASE c \in {"haar-ortho", "haar-lazy", "haar-mean"} -> "haar"
          [] c = "d4-ortho" -> "d4"
          [] c = "sym4-ortho" -> "sym4"
          [] c \in {"cdf53-int", "cdf53-energy"} -> "cdf53"
          [] c \in {"cdf97-jpeg", "cdf97-ortho"} -> "cdf97"]
UserFilters == {"custom-pr", "analysis-only"}
LiftingOnly == {"cdf53-int", "cdf97-jpeg"}
Families == {"haar", "d4", "sym4", "cdf53", "cdf97"}

DefaultConvention(fam) ==
    CASE fam = "haar" -> "haar-ortho" [] fam = "d4" -> "d4-ortho"
      [] fam = "sym4" -> "sym4-ortho" [] fam = "cdf53" -> "cdf53-int"
      [] fam = "cdf97" -> "cdf97-jpeg"
ValidConvention(fam, conv) == conv \in UserFilters \/ FamilyOf[conv] = fam

(* Every family has up to eight taps, or is cdf97.                         *)
(* Mutant of ResolveBackend: the user's filters are left to lifting.       *)
ResolveLifting(conv, asked) ==
    LET b == IF asked = "auto" THEN "lift" ELSE asked
    IN  IF b = "fir" /\ conv \in LiftingOnly THEN "clash" ELSE b
ResolveBackend(conv, asked) ==
    LET b == IF asked # "auto" THEN asked
             ELSE IF conv \in UserFilters THEN "fir" ELSE "lift"
    IN  IF \/ b = "fir" /\ conv \in LiftingOnly
           \/ b = "lift" /\ conv \in UserFilters
        THEN "clash" ELSE b

(* faf_create_dwt: what it makes of a request, Refused when the fields     *)
(* disagree.  No filters of the user are there yet.                        *)
DepthOf(levels, deepest) == IF levels = 0 THEN deepest ELSE levels
Refused == [made |-> FALSE]
NoTaps == [h |-> <<>>, g |-> <<>>, hs |-> <<>>, gs |-> <<>>]
CreateDwt(c) ==
    LET conv == IF c.conv = "unspec" THEN DefaultConvention(c.fam) ELSE c.conv
        backend == ResolveBackend(conv, c.backend)
        deepest == Log2(c.n)
    IN  IF \/ "bluestein" \in c.flags
           \/ ~IsPow2(c.n) \/ c.n < 2 \/ c.fam \notin Families
           \/ ~ValidConvention(c.fam, conv)
           \/ c.norm = "ortho" /\ conv \in LiftingOnly
           \/ backend = "clash" \/ c.levels > deepest
        THEN Refused
        ELSE [made |-> TRUE, fam |-> c.fam, conv |-> conv, backend |-> backend, n |-> c.n,
              levels |-> DepthOf(c.levels, deepest), inv |-> c.inv, flags |-> c.flags,
              norm |-> IF c.norm # "default" THEN c.norm
                       ELSE IF c.fam \in {"cdf53", "cdf97"} THEN "jpeg2000" ELSE "ortho",
              taps |-> NoTaps]

-----------------------------------------------------------------------------
(* One level on the first n cells of x.  The averages end up in the first  *)
(* half and the details in the second.                                     *)
Halves(x, n, low(_), high(_)) ==
    LET half == n \div 2
        s == <<>> \o [i \in 1..n |-> IF i <= half THEN low(i - 1) ELSE high(i - half - 1)]
    IN  [i \in DOMAIN x |-> IF i < n THEN s[i + 1] ELSE x[i]]
Interleaved(x, n, even(_), odd(_)) ==
    LET s == <<>> \o [i \in 1..n |-> IF i % 2 = 1 THEN even((i - 1) \div 2)
                                     ELSE odd((i - 1) \div 2)]
    IN  [i \in DOMAIN x |-> IF i < n THEN s[i + 1] ELSE x[i]]

(* What the sum and the difference are multiplied by, and the average and  *)
(* the detail on the way back.                                             *)
HaarWeights(conv) ==
    CASE conv = "haar-lazy" -> << <<1, 1>>, <<Half, Half>> >>
      [] conv = "haar-mean" -> << <<Half, 1>>, <<1, Half>> >>
      [] OTHER -> << <<RootHalf, RootHalf>>, <<RootHalf, RootHalf>> >>
HaarFwd(x, n, w) ==
    Halves(x, n, LAMBDA i : mul(w[1], add(x[2 * i], x[2 * i + 1])),
                 LAMBDA i : mul(w[2], sub(x[2 * i], x[2 * i + 1])))
HaarInv(x, n, w) ==
    LET a(i) == mul(w[1], x[i])
        d(i) == mul(w[2], x[(n \div 2) + i])
    IN  Interleaved(x, n, LAMBDA i : add(a(i), d(i)), LAMBDA i : sub(a(i), d(i)))

(* The filter bank of a convolution: h and g over x from 2k on, around the *)
(* end; the synthesis is the transpose for hs and gs.                      *)
Dot(f, x, at, n) == FoldLeft(add, 0, [i \in 1..Len(f) |-> mul(f[i], x[(at + i - 1) % n])])
(* Mutant of PolyFwd: the filters start one later.                         *)
PolyFwdLate(x, n, h, g) ==
    Halves(x, n, LAMBDA k : Dot(h, x, 2 * k + 1, n), LAMBDA k : Dot(g, x, 2 * k + 1, n))
PolyFwd(x, n, h, g) ==
    Halves(x, n, LAMBDA k : Dot(h, x, 2 * k, n), LAMBDA k : Dot(g, x, 2 * k, n))
PolyInv(x, n, hs, gs) ==
    LET half == n \div 2
        spread(k, i) == add(mul(hs[i], x[k]), mul(gs[i], x[half + k]))
        pairs(m) == {p \in (0..half - 1) \X (1..Len(hs)) : (2 * p[1] + p[2] - 1) % n = m}
        cell(m) == FoldLeft(add, 0, [j \in 1..Cardinality(pairs(m)) |->
                                        LET p == SetToSeq(pairs(m))[j] IN spread(p[1], p[2])])
    IN  Interleaved(x, n, LAMBDA i : cell(2 * i), LAMBDA i : cell(2 * i + 1))

(* The same loops when the array is also the work memory: a result is      *)
(* written over what later ones still read, and the synthesis clears it.   *)
PolyFwdOver(x, n, h, g) ==
    FoldLeft(LAMBDA y, k : [y EXCEPT ![k - 1] = Dot(h, y, 2 * (k - 1), n),
                                     ![(n \div 2) + k - 1] = Dot(g, y, 2 * (k - 1), n)],
             x, [k \in 1..n \div 2 |-> k])
PolyInvOver(x, n, hs, gs) == [i \in DOMAIN x |-> IF i < n THEN 0 ELSE x[i]]

Qmf(h) == [i \in 1..Len(h) |-> IF i % 2 = 1 THEN h[Len(h) + 1 - i] ELSE neg(h[Len(h) + 1 - i])]
Sqrt3 == mul(2, Unit[12][1][1])
D4H == LET c == mul(recip(4), RootHalf)
       IN  << mul(c, add(1, Sqrt3)), mul(c, add(3, Sqrt3)),
              mul(c, sub(3, Sqrt3)), mul(c, sub(1, Sqrt3)) >>
FiltFwd(x, n, h) == PolyFwd(x, n, h, Qmf(h))
FiltInv(x, n, h) == PolyInv(x, n, h, Qmf(h))

-----------------------------------------------------------------------------
(* Lifting.  After the split, d[i] gains c times s[i] + s[i+1], or s[i]    *)
(* gains c times d[i-1] + d[i]; the inverse takes the same away, last step *)
(* first.  Any coefficients of 9/7 do: none of what is checked needs the   *)
(* published ones.                                                         *)
Lift(x, n, step) ==
    LET half == n \div 2
        c == step[2]
    IN  IF step[1] = "predict"
        THEN Halves(x, n, LAMBDA i : x[i],
                          LAMBDA i : add(x[half + i], mul(c, add(x[i], x[(i + 1) % half]))))
        ELSE Halves(x, n, LAMBDA i : add(x[i], mul(c, add(x[half + ((i + half - 1) % half)],
                                                          x[half + i]))),
                          LAMBDA i : x[half + i])
SplitEven(x, n) == Halves(x, n, LAMBDA i : x[2 * i], LAMBDA i : x[2 * i + 1])
Merge(x, n) == Interleaved(x, n, LAMBDA i : x[i], LAMBDA i : x[(n \div 2) + i])

Undo(steps) == [k \in 1..Len(steps) |-> LET s == steps[Len(steps) + 1 - k]
                                        IN  <<s[1], neg(s[2])>>]
Cdf53Steps == << <<"predict", neg(Half)>>, <<"update", recip(4)>> >>
Cdf97Steps == << <<"predict", 5>>, <<"update", 7>>, <<"predict", 11>>, <<"update", 13>> >>
Cdf97K == 17
Scaled(x, n, cs, cd) ==
    Halves(x, n, LAMBDA i : mul(cs, x[i]), LAMBDA i : mul(cd, x[(n \div 2) + i]))
Lifted(x, n, steps) == FoldLeft(LAMBDA y, s : Lift(y, n, s), x, steps)

Cdf53Fwd(x, n) == Lifted(SplitEven(x, n), n, Cdf53Steps)
(* Mutant of Cdf53Inv: the steps are undone in the order they were done.   *)
Cdf53InvForward(x, n) ==
    Merge(Lifted(x, n, << <<"predict", Half>>, <<"update", neg(recip(4))>> >>), n)
Cdf53Inv(x, n) == Merge(Lifted(x, n, Undo(Cdf53Steps)), n)
Cdf97Fwd(x, n) ==
    Scaled(Lifted(SplitEven(x, n), n, Cdf97Steps), n, Cdf97K, recip(Cdf97K))
Cdf97Inv(x, n) ==
    Merge(Lifted(Scaled(x, n, recip(Cdf97K), Cdf97K), n, Undo(Cdf97Steps)), n)

-----------------------------------------------------------------------------
(* faf_dwt_level_conv: what is not Haar has one kernel, whatever the       *)
(* convention.                                                             *)
LevelConv(x, n, fam, conv, inverse) ==
    LET w == HaarWeights(conv)
    IN  CASE n < 2 \/ n % 2 = 1 -> x
          [] fam = "haar"  -> IF inverse THEN HaarInv(x, n, w[2]) ELSE HaarFwd(x, n, w[1])
          [] fam = "d4"    -> IF inverse THEN FiltInv(x, n, D4H) ELSE FiltFwd(x, n, D4H)
          [] fam = "sym4"  -> IF inverse THEN FiltInv(x, n, Sym4H) ELSE FiltFwd(x, n, Sym4H)
          [] fam = "cdf53" -> IF inverse THEN Cdf53Inv(x, n) ELSE Cdf53Fwd(x, n)
          [] fam = "cdf97" -> IF inverse THEN Cdf97Inv(x, n) ELSE Cdf97Fwd(x, n)

(* faf_dwt_builtin_taps; NoTaps where there are none.                      *)
Pair(a, b, c, d) == [h |-> <<a, a>>, g |-> <<b, neg(b)>>, hs |-> <<c, c>>, gs |-> <<d, neg(d)>>]
Orthogonal(h) == [h |-> h, g |-> Qmf(h), hs |-> h, gs |-> Qmf(h)]
BuiltinTaps(fam, conv) ==
    CASE fam = "haar" -> CASE conv = "haar-lazy" -> Pair(1, 1, Half, Half)
                           [] conv = "haar-mean" -> Pair(Half, 1, 1, Half)
                           [] OTHER -> Pair(RootHalf, RootHalf, RootHalf, RootHalf)
      [] fam = "d4" /\ conv \in {"unspec", "d4-ortho"} -> Orthogonal(D4H)
      [] fam = "sym4" /\ conv \in {"unspec", "sym4-ortho"} -> Orthogonal(Sym4H)
      [] OTHER -> NoTaps

(* The filters that the convolution backend uses.                          *)
TapsOf(t) == IF t.backend # "fir" THEN NoTaps
             ELSE IF t.taps # NoTaps THEN t.taps ELSE BuiltinTaps(t.fam, t.conv)
(* A kernel that is not a convolution over the transform's work memory     *)
(* allocates, and so does one that converts more of the user's taps to     *)
(* double precision than its stack holds; either leaves the array as it is *)
(* when it cannot.                                                         *)
KernelAllocates(t) ==
    \/ TapsOf(t) = NoTaps
    \/ TapsOf(t) = t.taps /\ Len(IF t.inv THEN t.taps.hs ELSE t.taps.h) > MaxStackTaps

(* faf_dwt_apply_level; over: the array is the work memory itself.         *)
ApplyLevel(x, n, t, over) ==
    LET f == TapsOf(t)
    IN  IF f = NoTaps THEN LevelConv(x, n, t.fam, t.conv, t.inv)
        ELSE IF t.inv THEN IF f.hs = <<>> THEN x
                           ELSE IF over THEN PolyInvOver(x, n, f.hs, f.gs)
                           ELSE PolyInv(x, n, f.hs, f.gs)
        ELSE IF over THEN PolyFwdOver(x, n, f.h, f.g) ELSE PolyFwd(x, n, f.h, f.g)
=============================================================================
