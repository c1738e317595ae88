------------------------------ MODULE Kernels -------------------------------
(***************************************************************************)
(* The transforms that are not programs: codelets, split radix, the timed  *)
(* alternative, Rader's and Bluestein's algorithms, the real FFT, and the  *)
(* scaling that faf_execute applies (src/faf_fft_kernels.c,                *)
(* faf_fft_splitradix.c, faf_fft_rader.c, faf_bluestein.c, faf_rfft.c,     *)
(* faf_core.c), and the filter bank of the CWT, which rests on the real    *)
(* FFT (faf_cwt.c).  A caller transforms a signal and then transforms the  *)
(* result back; SrDif is recursive, so nothing is proved here.             *)
(***************************************************************************)
EXTENDS Butterflies, Sizes

CONSTANT Jobs    \* [kind, n, flags, norm], and of a CWT also [psi, gains]

VARIABLES
    job,    \* the transform
    tables, \* the roots and spectra made with it and with its inverse
    x,      \* the signal
    y,      \* what the transform was given last, then what it made of it
    phase   \* "new", "made", "given", "forward", "back"

vars == <<job, tables, x, y, phase>>

-----------------------------------------------------------------------------
(* The same array, with every cell computed before it is used.             *)
Kept(a) == LET s == <<>> \o [i \in 1..Cardinality(DOMAIN a) |-> a[i - 1]]
           IN  [i \in DOMAIN a |-> s[i + 1]]

(* Codelets.                                                               *)

(* The twelve butterflies of the eight-point codelet: <<i, j, k>> adds and *)
(* subtracts W_8^k b[j] at b[i].                                           *)
(* Mutant of Octet: the twiddle of the third pair of the second stage.     *)
OctetSwapped(inverse) ==
    << <<0,1,0>>, <<2,3,0>>, <<4,5,0>>, <<6,7,0>>,
       <<0,2,0>>, <<1,3,2>>, <<4,6,2>>, <<5,7,0>>,
       <<0,4,0>>, <<1,5,1>>, <<2,6,2>>, <<3,7,3>> >>
Octet(inverse) ==
    << <<0,1,0>>, <<2,3,0>>, <<4,5,0>>, <<6,7,0>>,
       <<0,2,0>>, <<1,3,2>>, <<4,6,0>>, <<5,7,2>>,
       <<0,4,0>>, <<1,5,1>>, <<2,6,2>>, <<3,7,3>> >>
Kernel8(a, inverse) ==
    LET cross(b, c) == LET w == CMul(b[c[2]], Root(8, c[3], inverse))
                       IN  Kept([b EXCEPT ![c[1]] = CAdd(b[c[1]], w),
                                     ![c[2]] = CSub(b[c[1]], w)])
        rev == <<0, 4, 2, 6, 1, 5, 3, 7>>
    IN  FoldLeft(cross, [i \in 0..7 |-> a[rev[i + 1]]], Octet(inverse))

DftDirect(a, n, inverse) ==
    [k \in Cells(n) |-> CSum([j \in 1..n |-> CMul(a[j - 1], Root(n, (k * (j - 1)) % n, inverse))])]

Codelet(a, n, inverse) ==
    CASE n = 2 -> Dft2(a)
      [] n = 4 -> Dft4(a, inverse)
      [] n = 8 -> Kernel8(a, inverse)
      [] OTHER -> DftDirect(a, n, inverse)

-----------------------------------------------------------------------------
(* Split radix.  The table holds, for n, n/2, ..., 16, a quarter as many   *)
(* pairs of roots; in complex numbers, level m takes m/2 places.           *)
SrLevels(n) == [j \in 1..Log2(n) - 3 |-> n \div 2^(j - 1)]
GenSrTwiddles(n, inverse) ==
    FoldLeft(LAMBDA tab, m :
                 tab \o [c \in 1..m \div 2 |->
                            LET k == (c - 1) \div 2
                            IN  Root(m, IF c % 2 = 1 THEN k ELSE 3 * k, inverse)],
             <<>>, SrLevels(n))

SrStage(a, n, tw, at, inverse) ==
    LET q == n \div 4
        j(z) == TimesI(IF inverse THEN neg(1) ELSE 1, z)
        t2(k) == CSub(a[k], a[k + 2 * q])
        t3(k) == j(CSub(a[k + q], a[k + 3 * q]))
    IN  [i \in Cells(n) |->
            LET k == i % q
            IN  CASE i < q     -> CAdd(a[k], a[k + 2 * q])
                  [] q <= i /\ i < 2 * q -> CAdd(a[k + q], a[k + 3 * q])
                  [] 2 * q <= i /\ i < 3 * q -> CMul(CSub(t2(k), t3(k)), tw[at + 2 * k + 1])
                  [] OTHER     -> CMul(CAdd(t2(k), t3(k)), tw[at + 2 * k + 2])]

Slice(a, from, len) == [i \in Cells(len) |-> a[from + i]]

(* Where the table of the next level starts, and that of the one after it  *)
(* for the two quarters.                                                   *)
(* Mutant of QuarterTable: the quarters read the table of the half.        *)
QuarterTableNext(at, n) == at + n \div 2
QuarterTable(at, n) == at + n \div 2 + n \div 4

RECURSIVE SrDif(_, _, _, _, _)
SrDif(a, n, tw, at, inverse) ==
    IF n = 1 THEN a
    ELSE IF n \in {2, 4, 8} THEN Codelet(a, n, inverse)
    ELSE LET t == Kept(SrStage(a, n, tw, at, inverse))
             even == SrDif(Kept(Slice(t, 0, n \div 2)), n \div 2, tw, at + n \div 2, inverse)
             one == SrDif(Slice(t, n \div 2, n \div 4), n \div 4, tw, QuarterTable(at, n), inverse)
             three == SrDif(Slice(t, 3 * (n \div 4), n \div 4), n \div 4, tw,
                            QuarterTable(at, n), inverse)
         IN  [i \in Cells(n) |-> IF i % 2 = 0 THEN even[i \div 2]
                                 ELSE IF i % 4 = 1 THEN one[i \div 4] ELSE three[i \div 4]]
SrDifExecute(a, n, inverse) == SrDif(a, n, GenSrTwiddles(n, inverse), 0, inverse)

(* The radix-2 kernel that FAF_FLAG_MEASURE may choose, with a full table. *)
DitExecute(a, n, inverse) ==
    FoldLeft(LAMBDA b, k : Kept(FftStageOf(b, n, FftStage(2^k, 1, n \div 2^k),
                                      Table(n, n, inverse), inverse)),
             SwapUp(a, n, Repeat(2, Log2(n))), [k \in 1..Log2(n) |-> k])

(* What a generated program computes (Executor checks the programs).       *)
MixedExecute(a, n, inverse) ==
    LET fac == Factors(n)
    IN  FoldLeft(LAMBDA b, s : Kept(FftStageOf(b, n, s, Table(n, n, inverse), inverse)),
                 [i \in Cells(n) |-> a[DigitReverse(i, fac)]], FftStages(n, fac))

DirectOf(a, n, flags, inverse) ==
    CASE FftPath(n, flags) = "codelet" -> Codelet(a, n, inverse)
      [] FftPath(n, flags) = "splitradix" /\ "dit" \in flags -> DitExecute(a, n, inverse)
      [] FftPath(n, flags) = "splitradix" -> SrDifExecute(a, n, inverse)
      [] OTHER -> MixedExecute(a, n, inverse)
DirectFft(a, n, flags, inverse) == Kept(DirectOf(Kept(a), n, flags, inverse))

-----------------------------------------------------------------------------
(* Rader: x[g^j] and exp(-+2 pi i g^-j/n) are convolved with FFTs of n - 1.*)
Powers(b, n) == [j \in Cells(n - 1) |-> ModPow(b, j, n)]
RaderIn(n)  == Powers(PrimitiveRoot(n), n)
(* Mutant of RaderOut: the result is stored in the order of the input.     *)
RaderOutForward(n) == Powers(PrimitiveRoot(n), n)
RaderOut(n) == Powers(ModPow(PrimitiveRoot(n), n - 2, n), n)
RaderKernel(n, inverse) ==
    LET rout == RaderOut(n)
    IN  DirectFft([j \in Cells(n - 1) |-> Root(n, rout[j], inverse)], n - 1, {"seven"}, FALSE)
RaderExecute(a, n, b) ==
    LET m == n - 1
        rin == RaderIn(n)
        rout == RaderOut(n)
        f == DirectFft([j \in Cells(m) |-> a[rin[j]]], m, {"seven"}, FALSE)
        c == DirectFft([j \in Cells(m) |-> CMul(f[j], b[j])], m, {"seven"}, TRUE)
        at(k) == CHOOSE j \in Cells(m) : rout[j] = k
    IN  [k \in Cells(n) |-> IF k = 0 THEN CSum([j \in 1..n |-> a[j - 1]])
                            ELSE CAdd(a[0], Scale(recip(m), c[at(k)]))]

-----------------------------------------------------------------------------
(* Bluestein: the chirp exp(-+pi i k^2/n), and the spectrum of its         *)
(* conjugate, wrapped around a cycle of M points.                          *)
ChirpAt(k, n, inverse) == Root(2 * n, (k * k) % (2 * n), inverse)
(* Mutant of BluesteinKernel: the kernel is not wrapped around.            *)
BluesteinOneSided(n, inverse) ==
    LET M == BluesteinLength(n)
    IN  DirectFft([l \in Cells(M) |-> IF l < n THEN Conj(ChirpAt(l, n, inverse)) ELSE CZero],
                  M, {}, FALSE)
BluesteinKernel(n, inverse) ==
    LET M == BluesteinLength(n)
    IN  DirectFft([l \in Cells(M) |-> IF l < n THEN Conj(ChirpAt(l, n, inverse))
                                      ELSE IF M - l < n THEN Conj(ChirpAt(M - l, n, inverse))
                                      ELSE CZero],
                  M, {}, FALSE)
BluesteinRun(a, n, b, inverse) ==
    LET M == BluesteinLength(n)
        phi(k) == ChirpAt(k, n, inverse)
        f == DirectFft([k \in Cells(M) |-> IF k < n THEN CMul(a[k], phi(k)) ELSE CZero],
                       M, {}, FALSE)
        c == DirectFft([k \in Cells(M) |-> CMul(f[k], b[k])], M, {}, TRUE)
    IN  [k \in Cells(n) |-> CMul(Scale(recip(M), c[k]), phi(k))]

(* What creation computes for each direction: the spectrum to multiply by. *)
Spectrum(n, flags, inverse) ==
    CASE FftPath(n, flags) = "rader"     -> RaderKernel(n, inverse)
      [] FftPath(n, flags) = "bluestein" -> BluesteinKernel(n, inverse)
      [] OTHER -> [k \in {} |-> CZero]
Unscaled(a, n, flags, b, inverse) ==
    CASE FftPath(n, flags) = "rader"     -> RaderExecute(a, n, b)
      [] FftPath(n, flags) = "bluestein" -> BluesteinRun(a, n, b, inverse)
      [] OTHER -> DirectFft(a, n, flags, inverse)

-----------------------------------------------------------------------------
(* The real FFT.  Entry k - 1 of the super-twiddles serves bins k and      *)
(* nc - k, one after the other: in the middle the second value stays.      *)
SuperTwiddle(k, nc, inverse) ==
    CMul(Root(2 * nc, k, inverse), Root(4, 1, inverse))
Pairs(nc) == [k \in 1..nc \div 2 |-> k]
RfftPost(f, nc) ==
    LET pair(X, k) ==
            LET g == Conj(f[nc - k])
                w == CMul(CSub(f[k], g), SuperTwiddle(k, nc, FALSE))
                s == CAdd(f[k], g)
            IN  [X EXCEPT ![k] = Scale(Half, CAdd(s, w)),
                          ![nc - k] = Scale(Half, Conj(CSub(s, w)))]
    IN  FoldLeft(LAMBDA u, v : Kept(pair(u, v)), [k \in 0..nc |-> CASE k = 0  -> <<add(f[0][1], f[0][2]), 0>>
                                        [] k = nc -> <<sub(f[0][1], f[0][2]), 0>>
                                        [] OTHER  -> CZero], Pairs(nc))
(* Mutant of IrfftPre: the pair of bins is packed without conjugating.     *)
IrfftPreMirrored(X, nc) ==
    LET pair(f, k) ==
            LET g == Conj(X[nc - k])
                o == CMul(CSub(X[k], g), SuperTwiddle(k, nc, TRUE))
                e == CAdd(X[k], g)
            IN  [f EXCEPT ![k] = CAdd(e, o), ![nc - k] = CSub(e, o)]
    IN  FoldLeft(LAMBDA u, v : Kept(pair(u, v)), [k \in Cells(nc) |->
                           IF k = 0 THEN <<add(X[0][1], X[nc][1]), sub(X[0][1], X[nc][1])>>
                           ELSE CZero], Pairs(nc))
IrfftPre(X, nc) ==
    LET pair(f, k) ==
            LET g == Conj(X[nc - k])
                o == CMul(CSub(X[k], g), SuperTwiddle(k, nc, TRUE))
                e == CAdd(X[k], g)
            IN  [f EXCEPT ![k] = CAdd(e, o), ![nc - k] = Conj(CSub(e, o))]
    IN  FoldLeft(LAMBDA u, v : Kept(pair(u, v)), [k \in Cells(nc) |->
                           IF k = 0 THEN <<add(X[0][1], X[nc][1]), sub(X[0][1], X[nc][1])>>
                           ELSE CZero], Pairs(nc))
RfftExecute(a, n) ==
    LET nc == n \div 2
    IN  RfftPost(DirectFft([k \in Cells(nc) |-> <<a[2 * k][1], a[2 * k + 1][1]>>],
                           nc, {}, FALSE), nc)
IrfftExecute(X, n) ==
    LET nc == n \div 2
        z == DirectFft(IrfftPre(X, nc), nc, {}, TRUE)
    IN  [i \in Cells(n) |-> <<z[i \div 2][(i % 2) + 1], 0>>]

-----------------------------------------------------------------------------
(* apply_fft_norm.  Square roots are of squares here.                      *)
SqrtOf(n) == CHOOSE r \in 1..n : r * r = n
(* Mutant of NormScale: forward scales both ways.                          *)
NormBothWays(n, norm, inverse) ==
    CASE norm = "none"    -> IF inverse THEN recip(n) ELSE 1
      [] norm = "ortho"   -> recip(SqrtOf(n))
      [] norm = "forward" -> recip(n)
NormScale(n, norm, inverse) ==
    CASE norm = "none"    -> IF inverse THEN recip(n) ELSE 1
      [] norm = "ortho"   -> recip(SqrtOf(n))
      [] norm = "forward" -> IF inverse THEN 1 ELSE recip(n)
ApplyNorm(a, n, norm, inverse) ==
    [k \in DOMAIN a |-> Scale(NormScale(n, norm, inverse), a[k])]

(* The CWT.  job.psi has the wavelets' responses in fifths, a sequence of  *)
(* rows over the bins, and job.gains what the chosen normalization         *)
(* multiplies each by.  The lowpass takes what the wavelets leave of 1,    *)
(* and is not multiplied; Nyquist is no wavelet's.                         *)
Bins(n) == 0..n \div 2
Shadow(j) == [r \in DOMAIN j.psi |->
                 [k \in Bins(j.n) |-> IF k \in {0, j.n \div 2} THEN 0 ELSE j.psi[r][k]]]
Squares(rows, k) == FoldLeft(LAMBDA s, row : s + row[k] * row[k], 0, rows)
Lowpass(j) ==
    [k \in Bins(j.n) |-> LET rest == 25 - Squares(Shadow(j), k)
                         IN  IF rest > 0 THEN SqrtOf(rest) ELSE 0]
ShadowRows(j) ==
    (IF "lowpass" \in j.flags THEN <<Lowpass(j)>> ELSE <<>>) \o Shadow(j)
LiveRows(j) ==
    (IF "lowpass" \in j.flags THEN <<Lowpass(j)>> ELSE <<>>)
    \o [r \in DOMAIN j.psi |-> [k \in Bins(j.n) |-> j.gains[r] * Shadow(j)[r][k]]]

Over(rows, of) ==
    [r \in DOMAIN rows |-> [k \in DOMAIN rows[r] |->
        IF Squares(of, k) = 0 THEN 0
        ELSE mul(5 * rows[r][k], recip(Squares(of, k) % P))]]
(* Mutant of DualRows: the dual of the shadow.                             *)
DualOfShadow(j) == Over(ShadowRows(j), ShadowRows(j))
DualRows(j) == Over(LiveRows(j), LiveRows(j))

CwtExecute(a, n, rows) ==
    LET X == RfftExecute(a, n)
        product(row) == [k \in Bins(n) |-> Scale(mul(row[k], recip(5)), X[k])]
        real(Y) == [Y EXCEPT ![0][2] = 0, ![n \div 2][2] = 0]
    IN  [r \in DOMAIN rows |->
            ApplyNorm(IrfftExecute(real(product(rows[r])), n), n, "none", TRUE)]
IcwtExecute(w, n, dual) ==
    LET Y == [r \in DOMAIN dual |-> RfftExecute(w[r], n)]
        acc == [k \in Bins(n) |->
                   CSum([r \in DOMAIN dual |-> Scale(dual[r][k], Y[r][k])])]
    IN  ApplyNorm(IrfftExecute([acc EXCEPT ![0][2] = 0, ![n \div 2][2] = 0], n),
                  n, "none", TRUE)

(* faf_execute of a transform or of its faf_create_inverse.                *)
Run(j, tab, a, inverse) ==
    CASE j.kind = "cwt" /\ ~inverse -> CwtExecute(a, j.n, tab[FALSE])
      [] j.kind = "cwt" /\ inverse  -> IcwtExecute(a, j.n, tab[TRUE])
      [] OTHER ->
            ApplyNorm(CASE j.kind = "fft" -> Unscaled(a, j.n, j.flags, tab[inverse], inverse)
                        [] j.kind = "rfft" /\ ~inverse -> RfftExecute(a, j.n)
                        [] j.kind = "rfft" /\ inverse  -> IrfftExecute(a, j.n),
                      j.n, j.norm, inverse)

-----------------------------------------------------------------------------
(* Units that determine a transform; one in each cell when it is long.     *)
Given(kind, n) == CASE kind \in {"rfft", "cwt"} -> {Delta(n, k, <<1, 0>>) : k \in Cells(n)}
                    [] kind = "fft" /\ n > 30 -> {Delta(n, k, <<1, 2>>) : k \in Cells(n)}
                    [] OTHER -> Signals(n)
Init == /\ job \in Jobs
        /\ tables = [inverse \in {} |-> CZero] /\ x = CZero /\ y = CZero /\ phase = "new"

Create == /\ phase = "new" /\ phase' = "made"
          /\ tables' = [inverse \in BOOLEAN |->
                           CASE job.kind = "fft" -> Spectrum(job.n, job.flags, inverse)
                             [] job.kind = "cwt" -> IF inverse THEN DualRows(job) ELSE LiveRows(job)
                             [] OTHER -> [k \in {} |-> CZero]]
          /\ UNCHANGED <<job, x, y>>
Give == /\ phase = "made" /\ phase' = "given"
        /\ x' \in Given(job.kind, job.n)
        /\ y' = x'
        /\ UNCHANGED <<job, tables>>
Forward == /\ phase = "given" /\ phase' = "forward"
           /\ y' = Run(job, tables, x, FALSE)
           /\ UNCHANGED <<job, tables, x>>
Back    == /\ phase = "forward" /\ phase' = "back"
           /\ y' = Run(job, tables, y, TRUE)
           /\ UNCHANGED <<job, tables, x>>
Next == Create \/ Give \/ Forward \/ Back
Spec == Init /\ [][Next]_vars

-----------------------------------------------------------------------------
(* What comes back is what went in, whichever algorithm either direction   *)
(* takes and however it is scaled; of a bank of wavelets without a lowpass,*)
(* the part of the signal that lies in bins where some wavelet is not zero *)
(* (faf_execute, faf_core.c:1298; faf_icwt_execute, faf_cwt.c:849).        *)
Part(a, n, bins) ==
    LET X == Dft(a, n, FALSE)
        m(k) == IF k <= n \div 2 THEN k ELSE n - k
    IN  ApplyNorm(Dft([k \in Cells(n) |-> IF m(k) \in bins THEN X[k] ELSE CZero], n, TRUE),
                  n, "none", TRUE)
RoundTrip ==
    phase = "back" =>
        y = IF job.kind = "cwt" /\ "lowpass" \notin job.flags
            THEN Part(x, job.n, {k \in 1..job.n \div 2 - 1 :
                                    \E r \in DOMAIN job.psi : job.psi[r][k] # 0})
            ELSE x

(* The transform is the textbook sum, scaled as its norm says; a real one  *)
(* gives the bins from 0 to n/2.  A row of a CWT is the signal convolved   *)
(* around the circle with a filter of the row's real, even response.       *)
Definition ==
    phase = "forward" =>
        LET X == Dft(x, job.n, FALSE)
            m(k) == IF k <= job.n \div 2 THEN k ELSE job.n - k
            by == CASE job.norm = "none" -> 1 [] job.norm = "ortho" -> recip(SqrtOf(job.n))
                    [] OTHER -> recip(job.n)
            filtered(row) ==
                Dft([k \in Cells(job.n) |-> Scale(row[m(k)], X[k])], job.n, TRUE)
        IN  IF job.kind = "cwt"
            THEN \A r \in DOMAIN y : \A i \in Cells(job.n) :
                    Scale(5 * job.n, y[r][i]) = filtered(tables[FALSE][r])[i]
            ELSE \A k \in DOMAIN y : y[k] = Scale(by, X[k])
=============================================================================
