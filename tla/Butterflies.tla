----------------------------- MODULE Butterflies ----------------------------
(***************************************************************************)
(* The kernels that the interpreters and the hand-written transforms share *)
(* (src/faf_fft_stage.c; bit reversal and the eight-point butterfly of     *)
(* src/faf_vm.c; the Haar level of src/faf_wavelets.c), over ExactComplex. *)
(* An array is a function on 0..n-1.                                       *)
(***************************************************************************)
EXTENDS FftIr, Textbook

Cells(n) == 0..n - 1

(* A unit in one place: the transforms are linear over the reals, so these *)
(* determine them.                                                         *)
Delta(n, k, z) == [i \in Cells(n) |-> IF i = k THEN z ELSE CZero]
Signals(n) == {Delta(n, k, z) : k \in Cells(n), z \in {<<1, 0>>, <<0, 1>>}}

TimesI(u, z) == <<neg(mul(u, z[2])), mul(u, z[1])>>      \* u * i * z, u real

Dft2(a) == [k \in 0..1 |-> IF k = 0 THEN CAdd(a[0], a[1]) ELSE CSub(a[0], a[1])]

(* Mutant of Dft3: the last two outputs are swapped.                       *)
Dft3Swapped(a, inverse) ==
    LET s  == CAdd(a[1], a[2])
        c  == CSub(a[0], Scale(Half, s))
        us == IF inverse THEN Unit[3][1][2] ELSE neg(Unit[3][1][2])
        d  == TimesI(us, CSub(a[1], a[2]))
    IN  [k \in 0..2 |-> CASE k = 0 -> CAdd(a[0], s)
                          [] k = 1 -> CSub(c, d)
                          [] k = 2 -> CAdd(c, d)]
Dft3(a, inverse) ==
    LET s  == CAdd(a[1], a[2])
        c  == CSub(a[0], Scale(Half, s))
        us == IF inverse THEN Unit[3][1][2] ELSE neg(Unit[3][1][2])
        d  == TimesI(us, CSub(a[1], a[2]))
    IN  [k \in 0..2 |-> CASE k = 0 -> CAdd(a[0], s)
                          [] k = 1 -> CAdd(c, d)
                          [] k = 2 -> CSub(c, d)]

Dft4(a, inverse) ==
    LET t0 == CAdd(a[0], a[2])   t1 == CSub(a[0], a[2])
        t2 == CAdd(a[1], a[3])
        t3 == TimesI(IF inverse THEN 1 ELSE neg(1), CSub(a[1], a[3]))
    IN  [k \in 0..3 |-> CASE k = 0 -> CAdd(t0, t2)
                          [] k = 1 -> CAdd(t1, t3)
                          [] k = 2 -> CSub(t0, t2)
                          [] k = 3 -> CSub(t1, t3)]

(* dft5, dft7: the sums, with the roots of unity in a table.               *)
DftSum(a, r, inverse) ==
    [k \in Cells(r) |->
        CSum([j \in 1..r |-> CMul(a[j - 1], Root(r, ((j - 1) * k) % r, inverse))])]

SmallDft(a, r, inverse) ==
    CASE r = 2 -> Dft2(a)
      [] r = 3 -> Dft3(a, inverse)
      [] r = 4 -> Dft4(a, inverse)
      [] r \in {5, 7} -> DftSum(a, r, inverse)

(* twiddle_mul: an index beyond the table leaves the value as it is.       *)
TwiddleMul(z, tw, idx) ==
    IF idx >= tw.ntw THEN z ELSE CMul(z, Root(tw.root, idx, tw.inv))

(* faf_fft_stage_split: the butterflies of each whole group of the array.  *)
FftStageOf(a, n, inst, tw, inverse) ==
    LET group == inst.a0
        r  == IF inst.a1 \in {3, 4, 5, 7} THEN inst.a1 ELSE 2
        m  == group \div r
        Butterfly(base, j) ==
            SmallDft([p \in Cells(r) |->
                         IF p = 0 THEN a[base + j]
                         ELSE TwiddleMul(a[base + j + p * m], tw, j * p * inst.a2)],
                     r, inverse)
    IN  IF m = 0 THEN a
        ELSE [i \in DOMAIN a |->
                 IF i >= (n \div group) * group THEN a[i]
                 ELSE LET off == i % group
                      IN  Butterfly(i - off, off % m)[off \div m]]

(* bitrev_split: bit reversal for a power of two, digit reversal otherwise,*)
(* done by swaps.                                                          *)
Radices(n) == IF IsPow2(n) THEN Repeat(2, Log2(n)) ELSE Factors(n)
BitRev(a, n) == SwapUp(a, n, Radices(n))

(* BFLY8, as the interpreter computes it on a[0..7].                       *)
Bfly8(a) ==
    LET s(k)   == IF k < 4 THEN CAdd(a[k], a[k + 4]) ELSE CSub(a[k - 4], a[k])
        t4 == Scale(RootHalf, CSub(s(4), TimesI(1, s(4))))
        t5 == TimesI(1, s(5))
        t6 == Scale(neg(RootHalf), CAdd(s(6), TimesI(1, s(6))))
        t7 == TimesI(1, s(7))
        lo == << CAdd(s(0), s(2)), CSub(s(1), TimesI(1, s(3))),
                 CSub(s(0), s(2)), CAdd(s(1), TimesI(1, s(3))) >>
        hi == << CAdd(t4, t6), CSub(t5, t7), CSub(t4, t6), CAdd(t5, t7) >>
    IN  [k \in 0..7 |-> LET q == k \div 2 + 1
                        IN  IF k % 2 = 0 THEN CAdd(lo[q], hi[q])
                                         ELSE CSub(lo[q], hi[q])]

(* One level of the orthonormal Haar transform on the real parts of the    *)
(* first len registers: haar_fwd, haar_inv.                                *)
HaarLevel(a, len, inverse) ==
    LET half == len \div 2
        re(i) == a[i][1]
        new(i) ==
            IF inverse
            THEN LET lo == re(i \div 2)   d == re(half + i \div 2)
                 IN  IF i % 2 = 0 THEN add(lo, d) ELSE sub(lo, d)
            ELSE LET k == i % half
                 IN  IF i < half THEN add(re(2 * k), re(2 * k + 1))
                                 ELSE sub(re(2 * k), re(2 * k + 1))
    IN  [i \in DOMAIN a |-> IF i < len THEN <<mul(RootHalf, new(i)), a[i][2]>>
                                       ELSE a[i]]
=============================================================================
