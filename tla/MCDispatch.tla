----------------------------- MODULE MCDispatch -----------------------------
(***************************************************************************)
(* The requests that the runs of Dispatch make.                            *)
(***************************************************************************)
EXTENDS Dispatch

Ask(maker, n, prec, layout, flags) == Request(maker, n, prec, "fwd", layout, flags)

(* Each algorithm of the FFT in two precisions or layouts, and each type.  *)
Transforms ==
    {Ask("fft", 12, "f32", "split", {}), Ask("fft", 12, "f64", "interleaved", {}),
     Ask("fft", 32, "f32", "interleaved", {"measure"}), Ask("fft", 16, "f64", "split", {}),
     Ask("fft", 1, "f64", "split", {}), Ask("fft", 15, "f32", "split", {"bluestein"}),
     Ask("fft", 15, "f32", "interleaved", {}), Ask("fft", 11, "f32", "split", {}),
     Ask("fft", 29, "f64", "interleaved", {}), Ask("fft", 14, "f32", "split", {"bluestein"}),
     Ask("fft", 14, "f64", "interleaved", {"bluestein"}), Ask("fft", 14, "f32", "split", {}),
     Ask("stft", 15, "f32", "interleaved", {}), Ask("dct", 8, "f32", "interleaved", {}),
     Ask("dwt", 8, "f64", "interleaved", {}), Ask("rfft", 16, "f32", "hermitian", {}),
     Ask("rfft", 30, "f64", "interleaved", {}), Ask("cwt", 8, "f32", "real", {"lowpass", "strict"}),
     Ask("cwt", 8, "f64", "real", {}), Ask("pipeline", 8, "f32", "hermitian", {"irfft", "ops"}),
     Ask("pipeline", 8, "f32", "hermitian", {"irfft", "ops", "unknown"}),
     Ask("pipeline", 8, "f64", "hermitian", {"irfft"}), Ask("pipeline", 8, "f64", "hermitian", {})}

(* What the code does not live up to: a window over the work memory of     *)
(* split radix, Bluestein's flag where another algorithm was created,      *)
(* layouts that creation takes and execution does not keep to, and a       *)
(* pipeline whose tail has another precision.                              *)
WindowedPower == {Ask("stft", 16, "f32", "interleaved", {})}
WindowedSplit == {Ask("stft", 15, "f32", "split", {})}
FlaggedRader == {Ask("fft", 11, "f32", "split", {"bluestein"})}
FlaggedSmooth == {Ask("fft", 15, "f32", "interleaved", {"bluestein"})}
RealWavelet == {Ask("dwt", 8, "f32", "real", {})}
MixedTail == {Ask("pipeline", 8, "f32", "hermitian", {"irfft", "tail64"})}
FlatHead == {Ask("pipeline", 8, "f32", "interleaved", {"irfft"})}

(* The theorems about objects and calls suppose this of the requests.      *)
ASSUME HypothesesHold ==
    /\ WindowsApart /\ SizesAgree /\ FlagsMeant /\ CallsMeant /\ HeadsMeant
    /\ LengthsFound

(* The advice of faf_is_size_supported and faf_get_recommended_size: a     *)
(* length is called supported if and only if the constructor takes it, and *)
(* the length that is recommended is at least the one asked for and can be *)
(* created, for real signals and wavelets as the next that can be.  Stated *)
(* once, before the caller's first request.  The code does not keep to it  *)
(* everywhere: Misjudged lengths are called supported and refused, or the  *)
(* other way round, and for Unhelped ones the length that is recommended   *)
(* is refused.                                                             *)
SizeTypes == {"fft", "rfft", "cwt", "dwt", "dct1", "dct", "dst", "mdct", "stft"}
Minima == 0..100
Misjudged == {<<"dwt", 1>>, <<"dct1", 1>>, <<"mdct", 0>>}
                 \cup {<<"stft", n>> : n \in {m \in Minima \ {0} : ~Creates("stft", m)}}
Unhelped == {<<"dwt", 0>>, <<"dwt", 1>>, <<"mdct", 0>>, <<"mdct", 1>>,
             <<"rfft", 25>>, <<"cwt", 25>>}
AdviceHolds ==
    call.maker = "none" =>
        \A type \in SizeTypes, n \in Minima :
            LET best == RecommendedSize(type, n)
            IN  /\ <<type, n>> \notin Misjudged => SizeSupported(type, n) = Creates(type, n)
                /\ best >= n
                /\ <<type, n>> \notin Unhelped =>
                       /\ Creates(type, best)
                       /\ type \in {"rfft", "cwt", "dwt"} =>
                              \A m \in n..best - 1 : ~Creates(type, m)

(* include/fastandfourier.h:1117-1120, "Check if size is supported for     *)
(* transform type ... True if supported", and docs/SIZES.md:13, "DCT / DST *)
(* | unrestricted (already)": what it calls supported is what is created.  *)
SupportedIsCreated ==
    call.maker = "none" =>
        \A type \in SizeTypes, n \in Minima : SizeSupported(type, n) = Creates(type, n)

(* docs/SIZES.md:29, "faf_get_recommended_size(FAF_TRANSFORM_RFFT, n_min); *)
(* next even 5-smooth".                                                    *)
RecommendedIsEven ==
    call.maker = "none" =>
        \A n \in Minima :
            RecommendedSize("rfft", n) % 2 = 0 /\ Is5Smooth(RecommendedSize("rfft", n))
=============================================================================
