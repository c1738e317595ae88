--------------------------- MODULE MCChirpCompile ---------------------------
(* Small instances of ChirpCompile: pipelines of up to three forms.        *)
EXTENDS ChirpCompile

(* A pipeline of nothing but one FFT is compiled by another function.      *)
UpTo(m, forms) ==
    {p \in UNION {[1..k -> forms] : k \in 1..m} : ~(Len(p) = 1 /\ p[1].kind = "fft")}

Plain == {Call(1), Threshold(1), Bfly(2), Bfly(4), Bfly(8)}
            \cup {Slot(k) : k \in {"twiddle", "reduce", "list"}}
Wrong == {Slot("unknown"), Slot("refused"), Fft(7, FALSE), Dwt(6, 1, FALSE)}
Sized == {Fft(4, FALSE), Fft(6, FALSE), Fft(8, TRUE), Dwt(8, 1, FALSE), Dwt(8, 5, TRUE),
          Dwt(4, 0, FALSE)}
Inheriting == {Lift, Family, Undo, Dwt(0, 1, FALSE), Fft(0, FALSE)}

OwnSize(f) == IF f.kind \in {"fft", "dwt"} THEN SizeOr(f.size, DefaultSize) ELSE 0
TakesState(f) == f.kind \in {"family", "inverse"} \/ (f.kind = "dwt" /\ f.size = 0)
(* The size and the levels that a form takes from the transform were put   *)
(* there by a DWT before it, and that size is the largest of the pipeline, *)
(* which is what the second pass sees from its start.  (lift) takes the    *)
(* size too, but is one stage whatever it is.                              *)
Settled(p) ==
    \A i \in DOMAIN p : TakesState(p[i]) =>
        \E j \in 1..i - 1 :
            /\ p[j].kind = "dwt"
            /\ \A k \in DOMAIN p : OwnSize(p[k]) <= OwnSize(p[j])

Short == {Call(1), Threshold(1), Slot("unknown")} \cup Sized \cup Inheriting
AllPrograms == UpTo(2, Plain \cup Wrong \cup Sized \cup Inheriting) \cup UpTo(3, Short)

(* Where the tables and the instructions also mean what the text says: one *)
(* size and direction of FFT, no inverse DWT beside one that is not a      *)
(* power of two, and (inverse) only for a DWT of the largest size.         *)
AgreeingForms(fft) ==
    Plain \cup Wrong \cup {fft, Dwt(8, 2, FALSE), Undo}
        \cup (IF IsPow2(fft.size) THEN {Dwt(8, 2, TRUE)} ELSE {})
Ffts == {Fft(8, FALSE), Fft(8, TRUE), Fft(12, FALSE)}
Agreeing(p) == Settled(p) /\ \E f \in Ffts : \A i \in DOMAIN p : p[i] \in AgreeingForms(f)
SettledPrograms ==
    {p \in AllPrograms \cup UNION {UpTo(3, AgreeingForms(f)) : f \in Ffts} : Settled(p)}

(* A finished array holds, at the place counted for it, every stage of     *)
(* every transform of the pipeline, and no error was swallowed.            *)
ComputesAgreeing == pass = "done" /\ Agreeing(prog) => ComputesPipeline

(* The one table and the one flag of the transform are those that each of  *)
(* its FFT stages needs.                                                   *)
TablesFitAgreeing == pass = "done" /\ Agreeing(prog) => TablesFit

(* A transform and its inverse, an FFT beside an inverse DWT, a nearest    *)
(* stage that is not the largest, and an FFT of the largest size there is. *)
ThereAndBack == {<<Fft(8, FALSE), Fft(8, TRUE)>>}
FftAndIdwt == {<<Fft(9, FALSE), Dwt(2, 1, TRUE)>>}
TwoDwts == {<<Dwt(8, 1, FALSE), Dwt(4, 1, FALSE), Undo>>}
FullFft == {<<Fft(8, FALSE), Slot("twiddle")>>}
=============================================================================
