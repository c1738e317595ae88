------------------------------- MODULE Sizes --------------------------------
(***************************************************************************)
(* Which lengths a transform can have, which algorithm a length gets, and  *)
(* the advice the library gives about lengths (src/faf_core.c,             *)
(* src/faf_fft_stage.c, src/faf_fft_splitradix.c).                         *)
(***************************************************************************)
EXTENDS FftIr

CodeletSizes == (2..10) \cup {12}
IsPrime(n) == n >= 2 /\ \A d \in 2..(n - 1) : n % d # 0

(* Rader's convolution has length n - 1, which a 7-smooth FFT has to do.   *)
RaderEligible(n) == n >= 11 /\ IsPrime(n) /\ Is7Smooth(n - 1)

ModPow(b, e, p) == FoldLeft(LAMBDA r, k : (r * b) % p, 1, [k \in 1..e |-> k])

(* faf_primitive_root: the least g none of whose powers (p-1)/q, q a prime *)
(* factor of p - 1, is 1.                                                  *)
PrimitiveRoot(p) ==
    LET generates(g) == \A q \in 2..p - 1 :
            IsPrime(q) /\ (p - 1) % q = 0 => ModPow(g, (p - 1) \div q, p) # 1
    IN  CHOOSE g \in 2..p - 1 : generates(g) /\ \A h \in 2..g - 1 : ~generates(h)

(* faf_next_5_smooth; there is a power of two before the end of its search.*)
NextSmooth(min) ==
    IF min <= 1 THEN 1
    ELSE CHOOSE k \in min..(2 * min + 31) :
             Is5Smooth(k) /\ \A j \in min..k - 1 : ~Is5Smooth(j)

NextPow2(n) == CHOOSE k \in {2^j : j \in 0..30} : k >= n /\ (k = 1 \/ k \div 2 < n)

(* faf_sr_twiddle_count: each level of 16 points and more has a table as   *)
(* long as itself.                                                         *)
SrTwiddleCount(n) == Cardinality({e \in (4..Log2(n)) \X (1..n) : e[2] <= 2^e[1]})

(* The length of the two convolutions of Bluestein's algorithm.            *)
BluesteinLength(n) == NextSmooth(2 * n - 1)

-----------------------------------------------------------------------------
(* The algorithm faf_create_fft_ex chooses; "seven" is its allow_7smooth.  *)
Direct(n, flags) ==
    Is5Smooth(n) \/ n \in CodeletSizes \/ ("seven" \in flags /\ Is7Smooth(n))
FftPath(n, flags) ==
    IF Direct(n, flags)
    THEN CASE n \in CodeletSizes -> "codelet"
           [] n \notin CodeletSizes /\ IsPow2(n) /\ n >= 16 -> "splitradix"
           [] n \notin CodeletSizes /\ IsPow2(n) /\ ~(n >= 16) -> "radix2"
           [] n \notin CodeletSizes /\ ~IsPow2(n) -> "mixed"
    ELSE IF RaderEligible(n) THEN "rader"
    ELSE IF "bluestein" \in flags THEN "bluestein" ELSE "none"

(* Whether a creator takes the length, without a flag.                     *)
Creates(type, n) ==
    CASE type = "fft"  -> FftPath(n, {}) # "none"
      [] type \in {"rfft", "cwt"} -> n >= 2 /\ n % 2 = 0 /\ Is5Smooth(n)
      [] type = "dwt"  -> n >= 2 /\ IsPow2(n)
      [] type \in {"dct1", "dct", "dst"} -> n > 0
      [] type = "mdct" -> n % 2 = 0
      [] type = "stft" -> FftPath(n, {}) # "none"

(* faf_is_size_supported; "dct1", the DCT of type I, is the one cosine     *)
(* transform it treats apart, and of the STFT it knows nothing.            *)
SizeSupported(type, n) ==
    /\ n # 0
    /\ CASE type = "fft"  -> Is5Smooth(n) \/ n \in CodeletSizes \/ RaderEligible(n)
         [] type = "dwt"  -> IsPow2(n)
         [] type \in {"rfft", "cwt"} -> Is5Smooth(n) /\ n % 2 = 0 /\ n >= 2
         [] type = "mdct" -> n % 2 = 0
         [] type = "dct1" -> n >= 2
         [] type \in {"dct", "dst"} -> n > 0
         [] OTHER -> TRUE

(* Mutant of RecommendedSize: the sizes only FFTs have are offered to all. *)
RecommendedUneven(type, min) ==
    CASE type \in {"fft", "rfft", "cwt"} ->
             IF Is5Smooth(min) \/ min \in CodeletSizes \/ RaderEligible(min)
             THEN min ELSE NextSmooth(min)
      [] OTHER -> NextPow2(min)
(* faf_get_recommended_size.                                               *)
RecommendedSize(type, min) ==
    CASE type = "fft" -> IF Is5Smooth(min) \/ min \in CodeletSizes \/ RaderEligible(min)
                         THEN min ELSE NextSmooth(min)
      [] type \in {"rfft", "cwt"} ->
             LET n == IF NextSmooth(min) < 2 THEN 2 ELSE NextSmooth(min)
             IN  IF n % 2 = 0 THEN n ELSE NextSmooth(n + 1)
      [] OTHER -> NextPow2(min)
=============================================================================
