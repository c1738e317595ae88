----------------------------- MODULE MCExecutor -----------------------------
(* Small instances of Executor: the programs of the C API's generators.    *)
EXTENDS Executor

Fwd(gen(_, _), sizes) == {gen(n, FALSE) : n \in sizes}
Bwd(gen(_, _), sizes) == {gen(n, TRUE) : n \in sizes}

MixedFfts == Fwd(GenFftMixed, {6, 9, 10, 12, 14, 15, 18}) \cup Bwd(GenFftMixed, {12, 15})
Radix2Ffts == Fwd(GenFftRadix2, {8, 16}) \cup Bwd(GenFftRadix2, {8})
Dwts == {GenDwt(0, n, l, i) : n \in {4, 8}, l \in {1, 2}, i \in BOOLEAN}

(* With 8 for half of the instructions that fit: n = 32768 in the code.     *)
HalfFullDwt == {GenDwt(0, 8, 1, FALSE)}

GeneratedPrograms == MixedFfts \cup Radix2Ffts \cup Dwts
=============================================================================
