----------------------------- MODULE ChirpForms -----------------------------
(***************************************************************************)
(* The forms of a Chirp pipeline, as the parser and the scopes make them   *)
(* from the text (chirp_node in src/chirp.c); (inverse NAME) is the        *)
(* inverse form of what NAME is bound to.                                  *)
(***************************************************************************)
EXTENDS Naturals

(* A size or a level count of 0 means that the keyword is missing.         *)
Form(kind, size, levels, inverse, idx) ==
    [kind |-> kind, size |-> size, levels |-> levels, inverse |-> inverse, idx |-> idx]
Fft(size, inverse)         == Form("fft", size, 0, inverse, 0)
Dwt(size, levels, inverse) == Form("dwt", size, levels, inverse, 0)
Lift      == Form("lift", 0, 0, FALSE, 0)      \* (lift :predict haar ...)
Family    == Form("family", 0, 0, FALSE, 0)    \* haar, (haar)
Undo      == Form("inverse", 0, 0, TRUE, 0)    \* (inverse)
Call(idx) == Form("call", 0, 0, FALSE, idx)    \* a builtin, by its index
Bfly(r)   == Form("bfly", 0, 0, FALSE, r)
Threshold(l) == Form("threshold", 0, 0, FALSE, l)
Slot(kind)== Form(kind, 0, 0, FALSE, 0)        \* twiddle, reduce, and list,
                                               \* unknown, refused:
(* (name) with a name nobody registered; the same without parentheses; and *)
(* a form that is rejected before it has an effect (an unknown wavelet,    *)
(* layout, convention or tap set, an (inverse NAME) of what is not bound). *)
Kinds == {"fft", "dwt", "lift", "family", "inverse", "call", "bfly",
          "threshold", "twiddle", "reduce", "list", "unknown", "refused"}
Forms == [kind : Kinds, size : Nat, levels : Nat, inverse : BOOLEAN, idx : Nat]
=============================================================================
