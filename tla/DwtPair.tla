------------------------------ MODULE DwtPair -------------------------------
(***************************************************************************)
(* A caller makes a wavelet transform, derives the inverse, may bind       *)
(* filters of his own to either, analyses a signal and gives the result to *)
(* the inverse (src/faf_core.c, src/faf_wavelets.c, src/faf_dwt_fir.c), in *)
(* any order that a sequential program can choose.  A call goes through    *)
(* the planes of the split interpreter or, when they cannot be allocated,  *)
(* through the interleaved one.                                            *)
(***************************************************************************)
EXTENDS Wavelets

CONSTANTS
    Requests,   \* [fam, conv, backend, norm, n, levels, inv, flags]
    TapSets     \* what callers bind: filters as in NoTaps

VARIABLES
    request,    \* what is asked of faf_create_dwt
    fwd,        \* the transform, or Refused
    inv,        \* its inverse, or Refused
    madeFrom,   \* fwd when the inverse was derived; Refused once the inverse
                \* has been given filters of its own
    usedBy,     \* fwd when the signal was analysed
    x,          \* the signal
    y,          \* the array of the call
    lengths,    \* of the levels that are left
    path,       \* "planes" or "interleaved"
    starved,    \* a kernel could not allocate in one of the calls
    phase       \* "asked", "idle", "analysing", "synthesising"

vars == <<request, fwd, inv, madeFrom, usedBy, x, y, lengths, path, starved, phase>>

Cells == 0..request.n - 1
Zero == [i \in {} |-> 0]
Impulse(k) == [i \in Cells |-> IF i = k THEN 1 ELSE 0]
LengthsOf(t) ==
    LET stages == DwtStages(t.fam, t.n, t.levels, t.inv)
    IN  [k \in 1..Len(stages) |-> stages[k].a1]

Init == /\ request \in Requests
        /\ fwd = Refused /\ inv = Refused /\ madeFrom = Refused /\ usedBy = Refused
        /\ x = Zero /\ y = Zero /\ lengths = <<>>
        /\ path = "planes" /\ starved = FALSE /\ phase = "asked"

Create == /\ phase = "asked" /\ phase' = "idle"
          /\ fwd' = CreateDwt(request)
          /\ UNCHANGED <<request, inv, madeFrom, usedBy, x, y, lengths, path, starved>>

(* faf_dwt_set_taps, on any transform that takes the user's filters;       *)
(* without a synthesis it is one-way, and stays so.                        *)
WithTaps(t, f) ==
    [t EXCEPT !.taps = f, !.conv = IF f.hs = <<>> THEN "analysis-only" ELSE @]
SetTaps ==
    /\ phase = "idle"
    /\ \E f \in TapSets :
           \/ /\ fwd.made /\ fwd.conv \in UserFilters
              /\ fwd' = WithTaps(fwd, f)
              /\ UNCHANGED <<inv, madeFrom>>
           \/ /\ inv.made /\ inv.conv \in UserFilters
              /\ inv' = WithTaps(inv, f) /\ madeFrom' = Refused
              /\ UNCHANGED fwd
    /\ UNCHANGED <<request, usedBy, x, y, lengths, path, starved, phase>>

(* faf_create_inverse: the resolved request the other way round, with the  *)
(* user's filters as they are now.                                         *)
(* Mutants of InverseOf: one-way transforms are derived from too, and the  *)
(* filters stay behind.                                                    *)
InverseAlways(t) == [CreateDwt([t EXCEPT !.inv = ~t.inv]) EXCEPT !.taps = t.taps]
InverseBare(t) ==
    IF t.conv = "analysis-only" THEN Refused ELSE CreateDwt([t EXCEPT !.inv = ~t.inv])
InverseOf(t) ==
    LET made == CreateDwt([t EXCEPT !.inv = ~t.inv])
    IN  IF t.conv = "analysis-only" \/ ~made.made THEN Refused
        ELSE [made EXCEPT !.taps = t.taps]
MakeInverse ==
    /\ phase = "idle" /\ fwd.made
    /\ inv' = InverseOf(fwd) /\ madeFrom' = fwd
    /\ UNCHANGED <<request, fwd, usedBy, x, y, lengths, path, starved, phase>>

Paths == {"planes", "interleaved"}
Analyse ==
    /\ phase = "idle" /\ phase' = "analysing" /\ fwd.made
    /\ \E k \in Cells : x' = Impulse(k)
    /\ y' = x' /\ usedBy' = fwd /\ lengths' = LengthsOf(fwd)
    /\ path' \in Paths /\ starved' = FALSE
    /\ UNCHANGED <<request, fwd, inv, madeFrom>>
Synthesise ==
    /\ phase = "idle" /\ phase' = "synthesising" /\ inv.made /\ usedBy.made
    /\ lengths = <<>>
    /\ lengths' = LengthsOf(inv)
    /\ path' \in IF path = "planes" THEN Paths ELSE {path}
    /\ UNCHANGED <<request, fwd, inv, madeFrom, usedBy, x, y, starved>>

Running == IF phase = "analysing" THEN usedBy ELSE inv
Level ==
    /\ phase \in {"analysing", "synthesising"} /\ lengths # <<>>
    /\ y' = ApplyLevel(y, Head(lengths), Running, path = "interleaved")
    /\ lengths' = Tail(lengths)
    /\ UNCHANGED <<request, fwd, inv, madeFrom, usedBy, x, path, starved, phase>>
StarvedLevel ==
    /\ phase \in {"analysing", "synthesising"} /\ lengths # <<>>
    /\ KernelAllocates(Running)
    /\ starved' = TRUE /\ lengths' = Tail(lengths)
    /\ UNCHANGED <<request, fwd, inv, madeFrom, usedBy, x, y, path, phase>>
(* After the synthesis the caller has his signal, and starts again.        *)
Return ==
    /\ phase \in {"analysing", "synthesising"} /\ lengths = <<>>
    /\ phase' = "idle"
    /\ usedBy' = IF phase = "analysing" THEN usedBy ELSE Refused
    /\ UNCHANGED <<request, fwd, inv, madeFrom, x, y, lengths, path, starved>>

Next == Create \/ SetTaps \/ MakeInverse \/ Analyse \/ Synthesise
            \/ Level \/ StarvedLevel \/ Return
Spec == Init /\ [][Next]_vars

-----------------------------------------------------------------------------
TypeOK ==
    /\ request \in Requests
    /\ \A t \in {fwd, inv, madeFrom, usedBy} :
           t # Refused => /\ t.n = request.n /\ t.fam = request.fam
                          /\ t.levels \in 1..Log2(t.n) /\ t.backend \in {"lift", "fir"}
                          /\ t.taps \in TapSets \cup {NoTaps}
    /\ DOMAIN x \in {{}, Cells} /\ DOMAIN y = DOMAIN x
    /\ \A i \in DOMAIN y : y[i] \in 0..P - 1
    /\ path \in Paths /\ starved \in BOOLEAN
    /\ phase \in {"asked", "idle", "analysing", "synthesising"}

Analysed == phase = "analysing" /\ lengths = <<>>
SameFilters == inv.taps = usedBy.taps /\ inv.taps.hs # <<>>
Restored ==
    /\ phase = "synthesising" /\ lengths = <<>>
    /\ IF madeFrom = Refused THEN SameFilters ELSE madeFrom = usedBy
Undisturbed == ~starved /\ path = "planes"

(* The inverse gives the signal back that the transform it was derived     *)
(* from took apart: any family, convention, backend and depth, filters of  *)
(* the user's or not, also when the transform's are changed between the    *)
(* calls, and when both are given the same ones by faf_dwt_set_taps.       *)
RoundTrip == Restored /\ Undisturbed => y = x

(* docs/DWT.md:60-64 gives the sums that the convolution backend computes; *)
(* a transform has one meaning, whichever interpreter runs it.             *)
RoundTripAnywhere == Restored /\ ~starved => y = x

(* include/fastandfourier.h:907, "@return 0 on success, non-zero on error": *)
(* the calls of the model return 0, as nobody learns that a kernel had no  *)
(* memory, so an inverse after its transform has to give the signal back.  *)
ZeroIsSuccess == Restored /\ path = "planes" => y = x

(* The filters that the request names, as functions on their places.       *)
Named(t) ==
    LET from0(s) == [i \in 0..Len(s) - 1 |-> s[i + 1]]
        both(f) == [low |-> from0(f.h), high |-> from0(f.g)]
    IN  IF t.taps # NoTaps THEN both(t.taps)
        ELSE IF t.fam = "cdf53"
        THEN LET e == recip(8)
             IN  [low  |-> [i \in -2..2 |-> CASE i = 0 -> mul(6, e)
                                              [] i \in {-1, 1} -> mul(2, e)
                                              [] OTHER -> neg(e)],
                  high |-> [i \in 0..2 |-> IF i = 1 THEN 1 ELSE neg(Half)]]
        ELSE both(BuiltinTaps(t.fam, IF t.conv \in UserFilters THEN "unspec" ELSE t.conv))

(* The filter of a band l levels down, over the signal itself: the low     *)
(* filter of the levels above it, spread, and its own.                     *)
Spread(f, k) == [i \in {j * k : j \in DOMAIN f} |-> f[i \div k]]
Convolved(a, b) ==
    LET at(m) == {p \in (DOMAIN a) \X (DOMAIN b) : p[1] + p[2] = m}
    IN  [m \in {i + j : i \in DOMAIN a, j \in DOMAIN b} |->
            FoldSet(LAMBDA p, s : add(mul(a[p[1]], b[p[2]]), s), 0, at(m))]
Lows(f, l) == FoldLeft(LAMBDA a, k : Convolved(a, Spread(f.low, 2^(k - 1))),
                       [i \in {0} |-> 1], [k \in 1..l |-> k])
Band(f, l, last) == Convolved(Lows(f, l - 1), Spread(last, 2^(l - 1)))
Coefficient(f, l, k, signal) ==
    FoldSet(LAMBDA i, s : add(mul(f[i], signal[(((2^l) * k) + i) % request.n]), s),
            0, DOMAIN f)
IsBankOf(t, signal, coefficients) ==
    LET n == request.n
        f == Named(t)
        deep == t.levels
    IN  /\ LET b == Band(f, deep, f.low)
           IN  \A k \in 0..n \div 2^deep - 1 :
                   coefficients[k] = Coefficient(b, deep, k, signal)
        /\ \A l \in 1..deep :
               LET b == Band(f, l, f.high)
               IN  \A k \in 0..n \div 2^l - 1 :
                       coefficients[n \div 2^l + k] = Coefficient(b, l, k, signal)

(* The analysis is the filter bank of docs/DWT.md:60-64, level after level *)
(* on the averages: cell k of band l is the band's filter at 2^l k.  Both  *)
(* backends compute it, the lifting of 5/3 too, which rounds nothing: its  *)
(* taps are at -2..2 and 0..2 from 2k, where those of the others start at  *)
(* 2k.  (docs/DWT.md:31-33 says that lifting is not that convolution:      *)
(* LiftingIsAnotherOperator.)                                              *)
FilterBank ==
    Analysed /\ Undisturbed /\ usedBy.fam # "cdf97" /\ ~usedBy.inv => IsBankOf(usedBy, x, y)

(* docs/DWT.md:31-33, "JPEG2000 5/3 is a lifting spec. Implementing it as  *)
(* convolution of the 5/3 taps is a different operator": some signal tells *)
(* the two apart.  Both are linear, so impulses do.                        *)
Analysis(t, signal) ==
    FoldLeft(LAMBDA a, n : ApplyLevel(a, n, t, FALSE), signal, LengthsOf(t))
LiftingIsAnotherOperator ==
    fwd.made /\ fwd.conv = "cdf53-int" /\ ~fwd.inv =>
        \E k \in Cells : ~IsBankOf(fwd, Impulse(k), Analysis(fwd, Impulse(k)))

(* include/fastandfourier.h:826-827, "If ht and gt are both NULL, the      *)
(* transform becomes analysis-only (inverse is illegal)", and 253: such a  *)
(* transform is never executed the other way round.                        *)
OneWayNeverBackwards ==
    phase \in {"analysing", "synthesising"} =>
        ~(Running.inv /\ Running.conv = "analysis-only")

(* What faf_create_inverse gives can be run: it has a synthesis, in        *)
(* whatever order the transform was given filters, lost its synthesis, got *)
(* one again and was inverted.  (Filters bound to the inverse itself, and  *)
(* an inverse asked for as analysis-only, are OneWayNeverBackwards.)       *)
DerivedHasSynthesis ==
    madeFrom # Refused /\ inv.made =>
        /\ inv.conv # "analysis-only" /\ madeFrom.conv # "analysis-only"
        /\ inv.taps # NoTaps => inv.taps.hs # <<>>

(* The inverse is the transform it was derived from, the other way round:  *)
(* what faf_create_dwt made of "unspec", "auto", "default" and 0 levels    *)
(* for the one it takes over for the other, and the user's filters come    *)
(* along, until the inverse is given others.  It is refused for one-way    *)
(* transforms only.                                                        *)
Mirror(t) ==
    [made |-> TRUE, fam |-> t.fam, conv |-> t.conv, backend |-> t.backend, n |-> t.n,
     levels |-> t.levels, inv |-> ~t.inv, flags |-> t.flags, norm |-> t.norm,
     taps |-> t.taps]
Mirrored ==
    madeFrom # Refused =>
        IF inv.made THEN inv = Mirror(madeFrom) ELSE madeFrom.conv = "analysis-only"
=============================================================================
