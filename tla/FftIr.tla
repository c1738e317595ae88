------------------------------- MODULE FftIr --------------------------------
(***************************************************************************)
(* The intermediate representation and the generators that fill it: the    *)
(* mixed-radix factorization and digit reversal (src/faf_fft_stage.c), the *)
(* programs the C API generates (src/faf_transforms.c).  An instruction is *)
(* its opcode and three arguments.  Nothing here is recursive, so that     *)
(* modules with proofs can build on it.                                    *)
(***************************************************************************)
EXTENDS Integers, FiniteSets, SequencesExt

CONSTANTS
    MaxInst,  \* MAX_INST, CHIRP_MAX_INST: 65536 in the code
    MaxFft    \* MAX_FFT_SIZE, FAF_MAX_REGISTERS / 2: 65536 in the code

Inst(op, a0, a1, a2) == [op |-> op, a0 |-> a0, a1 |-> a1, a2 |-> a2]
Nop  == Inst("NOP", 0, 0, 0)      \* what calloc leaves in a slot
End  == Inst("END", 0, 0, 0)
Load(r, i)  == Inst("LOAD", r, i, 0)
Store(i, r) == Inst("STORE", i, r, 0)
FftStage(group, a1, step) == Inst("FFT_STAGE", group, a1, step)
DwtStage(fam, len, inv) == Inst("DWT_STAGE", fam, len, IF inv THEN 1 ELSE 0)

-----------------------------------------------------------------------------
(* Sizes are C ints where they are parsed, so 30 bits hold them.           *)
Log2(n) == Cardinality({k \in 1..30 : 2^k <= n})
IsPow2(n) == \E k \in 0..30 : n = 2^k

(* How often p divides n, for n > 0.                                       *)
Multiplicity(p, n) == Cardinality({e \in 1..Log2(n) : n % (p^e) = 0})

Repeat(x, k) == [i \in 1..k |-> x]
Product(s) == FoldLeft(LAMBDA x, y : x * y, 1, s)

(* faf_factor_7smooth takes all fours first, then at most one two, then    *)
(* the threes, fives and sevens.                                           *)
Factors(n) ==
    LET twos == Multiplicity(2, n)
    IN  Repeat(4, twos \div 2) \o Repeat(2, twos % 2)
            \o Repeat(3, Multiplicity(3, n)) \o Repeat(5, Multiplicity(5, n))
            \o Repeat(7, Multiplicity(7, n))
Is7Smooth(n) == n > 0 /\ Product(Factors(n)) = n
Is5Smooth(n) == Is7Smooth(n) /\ n % 7 # 0

(* The digits of i in the mixed radix of fac, least significant first,     *)
(* read back most significant first.                                       *)
DigitReverse(i, fac) ==
    FoldLeft(LAMBDA acc, f : [rev |-> (acc.rev * f) + (acc.rest % f),
                              rest |-> acc.rest \div f],
             [rev |-> 0, rest |-> i], fac).rev

(* Mutant of SwapUp: every pair is swapped twice.                          *)
SwapBoth(a, n, fac) ==
    FoldLeft(LAMBDA b, k : [b EXCEPT ![k - 1] = b[DigitReverse(k - 1, fac)],
                                     ![DigitReverse(k - 1, fac)] = b[k - 1]],
             a, [k \in 1..n |-> k])
(* bitrev_split, faf_digitrev_split: one element after the other, i is     *)
(* swapped with its digit reversal whenever that is larger than i.         *)
SwapUp(a, n, fac) ==
    FoldLeft(LAMBDA b, k : LET i == k - 1
                               j == DigitReverse(i, fac)
                           IN  IF j > i THEN [b EXCEPT ![i] = b[j], ![j] = b[i]]
                                        ELSE b,
             a, [k \in 1..n |-> k])

-----------------------------------------------------------------------------
(* The stages of a transform of length n with the radices of fac: the      *)
(* group of stage k is the product of the first k radices, and radix 2 is  *)
(* encoded as 1.                                                           *)
FftStages(n, fac) ==
    [k \in 1..Len(fac) |->
        LET group == Product(SubSeq(fac, 1, k))
        IN  FftStage(group, IF fac[k] = 2 THEN 1 ELSE fac[k], n \div group)]

(* One stage a level, lengths n, n/2, ..., down to two; the inverse runs   *)
(* them the other way.                                                     *)
DwtStageCount(n, levels) == IF levels < Log2(n) THEN levels ELSE Log2(n)
DwtStages(fam, n, levels, inv) ==
    LET m == DwtStageCount(n, levels)
    IN  [k \in 1..m |-> DwtStage(fam, n \div 2^(IF inv THEN m - k ELSE k - 1), inv)]

-----------------------------------------------------------------------------
(* The code array of the C API's generators: MaxInst zeroed slots, and     *)
(* add_inst, which drops what no longer fits.                              *)
Generated(insts) ==
    [ninst |-> IF Len(insts) < MaxInst THEN Len(insts) ELSE MaxInst,
     code  |-> [k \in 0..MaxInst - 1 |-> IF k < Len(insts) THEN insts[k + 1] ELSE Nop]]

(* A program: n LOADs, value k from input perm[k], the body and n STOREs.  *)
(* Mutant of Wrapped: END is forgotten.                                    *)
WrappedNoEnd(perm, body) ==
    LET n == Cardinality(DOMAIN perm)
    IN  Generated([k \in 1..n |-> Load(k - 1, perm[k - 1])] \o body
                      \o [k \in 1..n |-> Store(k - 1, k - 1)])
Wrapped(perm, body) ==
    LET n == Cardinality(DOMAIN perm)
    IN  Generated([k \in 1..n |-> Load(k - 1, perm[k - 1])] \o body
                      \o [k \in 1..n |-> Store(k - 1, k - 1)] \o <<End>>)
DigitReversal(n, fac) == [i \in 0..n - 1 |-> DigitReverse(i, fac)]

(* A table of ntw powers of the root of unity of order root.               *)
Table(root, ntw, inv) == [root |-> root, ntw |-> ntw, inv |-> inv]
NoTable == Table(1, 0, FALSE)

Transform(n, g, tw, inv, does) ==
    [n |-> n, code |-> g.code, ninst |-> g.ninst, tw |-> tw, inv |-> inv, does |-> does]

GenFftRadix2(size, inv) ==
    LET n   == IF size > MaxFft THEN MaxFft ELSE size
        fac == Repeat(2, Log2(n))
    IN  Transform(size, Wrapped(DigitReversal(n, fac), FftStages(n, fac)),
                  Table(n, n \div 2, inv), inv, <<[kind |-> "fft", n |-> size, inv |-> inv]>>)

GenFftMixed(n, inv) ==
    LET fac == Factors(n)
    IN  Transform(n, Wrapped(DigitReversal(n, fac), FftStages(n, fac)),
                  Table(n, n, inv), inv, <<[kind |-> "fft", n |-> n, inv |-> inv]>>)

GenDwt(fam, size, levels, inv) ==
    LET n == IF size > MaxFft THEN MaxFft ELSE size
    IN  Transform(size, Wrapped([i \in 0..n - 1 |-> i], DwtStages(fam, n, levels, inv)),
                  NoTable, inv,
                  <<[kind |-> "dwt", n |-> size, levels |-> levels, inv |-> inv]>>)
=============================================================================
