----------------------------- MODULE MCKernels ------------------------------
(* The transforms that the run of Kernels checks.                          *)
EXTENDS Kernels

Job(kind, n, flags, norm) == [kind |-> kind, n |-> n, flags |-> flags, norm |-> norm]

Codelets == {Job("fft", n, {}, "none") : n \in {2, 3, 4, 5, 6, 8, 9, 10, 12}}
PowersOfTwo == {Job("fft", 16, {}, "ortho"), Job("fft", 64, {}, "none"),
                Job("fft", 32, {"dit"}, "forward")}
Convolutions == {Job("fft", 13, {}, "none"), Job("fft", 39, {"bluestein"}, "none")}
Mixed == {Job("fft", 15, {}, "none"), Job("fft", 36, {}, "ortho")}
Reals == {Job("rfft", n, {}, "none") : n \in {2, 4, 6, 10, 32}}
             \cup {Job("rfft", 16, {}, "ortho"), Job("rfft", 30, {}, "forward")}

(* Wavelets of 8 and 12 points: apart, over one another with something    *)
(* left and with nothing left, and a bin that no wavelet reaches.          *)
Bank(n, flags, norm, gains, psi) ==
    [kind |-> "cwt", n |-> n, flags |-> flags, norm |-> norm, gains |-> gains, psi |-> psi]
Row(values) == [k \in 0..Len(values) |-> IF k = 0 THEN 0 ELSE values[k]]
Eight == <<Row(<<3, 4, 5, 2>>), Row(<<0, 3, 4, 1>>)>>
Twelve == <<Row(<<5, 3, 0, 0, 0, 0>>), Row(<<0, 4, 3, 0, 0, 0>>)>>
Banks == {Bank(8, flags, norm, <<2, 7>>, Eight) : flags \in {{}, {"lowpass"}}, norm \in {"l1"}}
         \cup {Bank(12, flags, "l2", <<1, 1>>, Twelve) : flags \in {{}, {"lowpass"}}}
         \cup {Bank(2, {"lowpass"}, "bandpass", <<3>>, <<Row(<<4>>)>>)}
Algorithms == Banks \cup Codelets \cup PowersOfTwo \cup Convolutions \cup Mixed \cup Reals
=============================================================================
