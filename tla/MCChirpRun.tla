----------------------------- MODULE MCChirpRun -----------------------------
(* Small instances of ChirpRun: pipelines over 4, 8 or 12 points.          *)
EXTENDS ChirpRun

Form == INSTANCE ChirpForms

Map(k) == Form!Call(k)
Fwd(n) == Form!Fft(n, FALSE)
Bwd(n) == Form!Fft(n, TRUE)
Dwt(n, l) == Form!Dwt(n, l, FALSE)
Idwt(n, l) == Form!Dwt(n, l, TRUE)
Radix(r) == Form!Bfly(r)
Spare == {Form!Slot("list"), Form!Slot("twiddle")}

(* An FFT with what may stand beside it, and the wavelet pipelines of the  *)
(* manual.                                                                 *)
Meaningful ==
    {<<Fwd(4), g>> : g \in Spare \cup {Map(1), Radix(4)}}
    \cup {<<g, Bwd(8)>> : g \in {Map(1), Radix(4), Dwt(8, 2)}}
    \cup {<<Fwd(9), Map(2)>>, <<Map(1), Bwd(9), Dwt(8, 2)>>}
    \cup {<<g, Form!Threshold(l), Idwt(8, 1)>> : g \in {Dwt(8, 1), Form!Lift}, l \in {0, 1}}

(* Pipelines of all kinds, also those that do not mean what they say.      *)
Mixed ==
    {<<f, g>> : f \in {Fwd(4), Bwd(9), Dwt(4, 1), Form!Fft(16, FALSE)},
               g \in Spare \cup {Radix(2), Radix(8), Form!Slot("reduce"), Bwd(12), Idwt(8, 2)}}

AnyPipeline == Meaningful \cup Mixed

(* A call of a pipeline that means what it says leaves in the caller's     *)
(* buffer the composition of what its forms mean.                          *)
RunsMeaningful == prog \in Meaningful => RunsPipeline

(* The manual's mixed-radix example (4 * 3 for 2^8 * 3 * 5), butterflies   *)
(* and reduction.                                                          *)
MixedRadix == {<<Fwd(12), Form!Slot("twiddle")>>}
Radix8 == {<<Dwt(8, 1), Radix(8)>>}
Radix2 == {<<Dwt(4, 1), Radix(2)>>}
SumOfAll == {<<Dwt(4, 1), Form!Slot("reduce")>>}
=============================================================================
