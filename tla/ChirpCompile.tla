---------------------------- MODULE ChirpCompile ----------------------------
(***************************************************************************)
(* The compiler of Chirp pipelines (src/chirp.c): chirp_compile walks the  *)
(* forms of a pipeline twice with the same function, first to count the    *)
(* instructions and to find the size of the transform, then to write them  *)
(* into an array of the size counted.  Both walks read and change the      *)
(* transform that is being built, and the second one starts with what the  *)
(* first one left in it.                                                   *)
(***************************************************************************)
EXTENDS FftIr, ChirpForms

CONSTANT Programs   \* the pipelines compiled, sequences of forms

ASSUME ProgramsAssumption == Programs \subseteq Seq(Forms)

DefaultSize == 64

VARIABLES
    prog, pass, pos,        \* pass: "count", "emit", "done", "rejected"
    tn, levels, type, inv,  \* t->n, levels, type and the inverse flag
    tw,                     \* t->twiddles[0]
    err,                    \* the error string is not empty
    cnt,                    \* inst_count
    io, ninst, code,        \* io_count, t->n_inst, t->code
    scratch,                \* floats in t->scratch
    marks                   \* auxiliary: cnt before each form in pass 1

transform == <<tn, levels, type, inv, tw>>
vars == <<prog, pass, pos, transform, err, cnt, io, ninst, code, scratch, marks>>

-----------------------------------------------------------------------------
(* Mutant of Emit: the test for the array is dropped.                      *)
EmitAnyway(insts) ==
    /\ cnt' = cnt + Len(insts)
    /\ code' = [k \in DOMAIN code \cup cnt..cnt + Len(insts) - 1 |->
                   IF k \in cnt..cnt + Len(insts) - 1 /\ k < MaxInst
                   THEN insts[k - cnt + 1] ELSE code[k]]
(* chirp_emit_inst: there is no array in the first pass, and in the second *)
(* it writes below the constant limit, whatever the size of the array.  A  *)
(* write outside of the array leaves no trace here.                        *)
Emit(insts) ==
    /\ cnt' = cnt + Len(insts)
    /\ code' = [k \in DOMAIN code |->
                   IF k \in cnt..cnt + Len(insts) - 1 /\ k < MaxInst
                   THEN insts[k - cnt + 1] ELSE code[k]]
EmitNothing == UNCHANGED <<cnt, code>>

(* Mutant of Twiddles: the direction comes from the transform's flag.      *)
TwiddlesByFlag(n, inverse) ==
    IF tw # NoTable THEN tw
    ELSE Table(n, IF IsPow2(n) THEN n \div 2 ELSE n, inverse \/ inv)
(* chirp_ensure_fft_twiddles: only the first FFT form makes a table.       *)
Twiddles(n, inverse) ==
    IF tw # NoTable THEN tw
    ELSE Table(n, IF IsPow2(n) THEN n \div 2 ELSE n, inverse)

BitReverse == Inst("BITREV", 0, 0, 0)
(* Mutant of Fft5Stages: the bit reversal is left out.                     *)
Fft5StagesUnordered(n) ==
    FftStages(n, IF IsPow2(n) THEN Repeat(2, Log2(n)) ELSE Factors(n))
Fft5Stages(n) ==
    <<BitReverse>> \o FftStages(n, IF IsPow2(n) THEN Repeat(2, Log2(n)) ELSE Factors(n))

Larger(a, b) == IF a > b THEN a ELSE b
SizeOr(n, default) == IF n = 0 THEN default ELSE n
SizeNow == SizeOr(tn, DefaultSize)

(* One form that emits one instruction and changes nothing else.           *)
OneSlot == {"call", "bfly", "threshold", "twiddle", "reduce", "list"}
SlotOf(f) ==
    CASE f.kind = "call"      -> Inst("CALL_BUILTIN", f.idx, 0, 0)
      [] f.kind = "bfly"      -> Inst(CASE f.idx = 4 -> "BFLY4" [] f.idx = 8 -> "BFLY8"
                                        [] OTHER -> "BFLY2", 0, 0, 0)
      [] f.kind = "threshold" -> Inst("THRESHOLD", 0,
                                      IF levels > 0 /\ tn > 0 THEN tn \div 2^levels ELSE 0, f.idx)
      [] f.kind = "twiddle"   -> Inst("TWIDDLE_MUL", 0, 0, 0)
      [] f.kind = "reduce"    -> Inst("REDUCE_SUM", 0, 0, 0)
      [] f.kind = "list"      -> Nop

-----------------------------------------------------------------------------
Init ==
    /\ prog \in Programs
    /\ pass = "count" /\ pos = 1
    /\ tn = 0 /\ levels = 0 /\ type = "fft" /\ inv = FALSE /\ tw = NoTable
    /\ err = FALSE /\ cnt = 0 /\ io = 0 /\ ninst = 0 /\ scratch = 0
    /\ code = [k \in {} |-> Nop]
    /\ marks = <<>>

Walking == pass \in {"count", "emit"} /\ pos <= Len(prog)
This == prog[pos]

(* chirp_compile_node_emit of the next form.                               *)
Visit(kinds) ==
    /\ Walking
    /\ This.kind \in kinds
    /\ pos' = pos + 1
    /\ marks' = IF pass = "count" THEN Append(marks, cnt) ELSE marks
    /\ UNCHANGED <<prog, pass, io, ninst, scratch>>

(* The size is taken, and the type and the direction set, before the size  *)
(* is refused.                                                             *)
CompileFft ==
    /\ Visit({"fft"})
    /\ LET n == SizeOr(This.size, DefaultSize)
       IN  /\ tn' = Larger(n, tn)
           /\ IF Is5Smooth(n)
              THEN /\ tw' = Twiddles(Larger(n, tn), This.inverse)
                   /\ Emit(Fft5Stages(n))
                   /\ UNCHANGED err
              ELSE /\ err' = TRUE
                   /\ EmitNothing
                   /\ UNCHANGED tw
    /\ type' = "fft"
    /\ inv' = (inv \/ This.inverse)
    /\ UNCHANGED levels

CompileDwt ==
    /\ Visit({"dwt"})
    /\ LET n == SizeOr(SizeOr(This.size, tn), DefaultSize)
           clamped == IF This.levels \in 1..Log2(n) THEN This.levels ELSE Log2(n)
       IN  IF IsPow2(n) /\ n >= 2
           THEN /\ tn' = Larger(n, tn)
                /\ levels' = clamped
                /\ type' = "dwt"
                /\ inv' = (inv \/ This.inverse)
                /\ Emit(DwtStages(0, n, clamped, This.inverse))
                /\ UNCHANGED <<tw, err>>
           ELSE /\ err' = TRUE
                /\ EmitNothing
                /\ UNCHANGED transform

CompileLift ==
    /\ Visit({"lift"})
    /\ levels' = SizeOr(levels, 1)
    /\ type' = "dwt"
    /\ Emit(DwtStages(0, SizeNow, 1, FALSE))
    /\ UNCHANGED <<tn, inv, tw, err>>

CompileFamily ==
    /\ Visit({"family"})
    /\ Emit(DwtStages(0, SizeNow, SizeOr(levels, 1), FALSE))
    /\ UNCHANGED <<transform, err>>

(* (inverse) undoes what t->n and t->levels say.  The test of the family   *)
(* never refuses: a fresh transform has the family 0, which is Haar.       *)
CompileInverse ==
    /\ Visit({"inverse"})
    /\ IF tn = 0 THEN err' = TRUE /\ EmitNothing
                 ELSE Emit(DwtStages(0, tn, levels, TRUE)) /\ UNCHANGED err
    /\ UNCHANGED transform

CompileSlot ==
    /\ Visit(OneSlot)
    /\ Emit(<<SlotOf(This)>>)
    /\ UNCHANGED <<transform, err>>

(* An unknown bare name is an error, but its slot is counted and written.  *)
CompileUnknown ==
    /\ Visit({"unknown"})
    /\ err' = TRUE
    /\ Emit(<<Inst("CALL_BUILTIN", 0, 0, 0)>>)
    /\ UNCHANGED transform

CompileRefused ==
    /\ Visit({"refused"})
    /\ err' = TRUE
    /\ EmitNothing
    /\ UNCHANGED transform

-----------------------------------------------------------------------------
(* Between the passes: an error ends the compilation, otherwise the array  *)
(* is allocated, zeroed, and filled with the LOADs.                        *)
PassOneOver == pass = "count" /\ pos > Len(prog)

Reject ==
    /\ PassOneOver /\ err
    /\ pass' = "rejected"
    /\ UNCHANGED <<prog, pos, transform, err, cnt, io, ninst, code, scratch, marks>>

NoMemory ==
    /\ PassOneOver /\ ~err
    /\ pass' = "rejected" /\ err' = TRUE
    /\ tn' = SizeNow /\ io' = SizeNow /\ ninst' = cnt + 2 * SizeNow + 1
    /\ UNCHANGED <<prog, pos, levels, type, inv, tw, cnt, code, scratch, marks>>

(* Mutants of BeginEmit: no room for END, and a walk that starts at the    *)
(* LOADs instead of behind them.                                           *)
BeginEmitNoEnd ==
    /\ PassOneOver /\ ~err
    /\ pass' = "emit" /\ pos' = 1
    /\ tn' = SizeNow /\ io' = SizeNow
    /\ ninst' = cnt + 2 * SizeNow
    /\ cnt' = SizeNow
    /\ code' = [k \in 0..cnt + 2 * SizeNow - 1 |-> IF k < SizeNow THEN Load(k, k) ELSE Nop]
    /\ UNCHANGED <<prog, levels, type, inv, tw, err, scratch, marks>>
BeginEmitAtZero ==
    /\ PassOneOver /\ ~err
    /\ pass' = "emit" /\ pos' = 1
    /\ tn' = SizeNow /\ io' = SizeNow
    /\ ninst' = cnt + 2 * SizeNow + 1
    /\ cnt' = 0
    /\ code' = [k \in 0..cnt + 2 * SizeNow |-> IF k < SizeNow THEN Load(k, k) ELSE Nop]
    /\ UNCHANGED <<prog, levels, type, inv, tw, err, scratch, marks>>
BeginEmit ==
    /\ PassOneOver /\ ~err
    /\ pass' = "emit" /\ pos' = 1
    /\ tn' = SizeNow /\ io' = SizeNow
    /\ ninst' = cnt + 2 * SizeNow + 1
    /\ cnt' = SizeNow
    /\ code' = [k \in 0..cnt + 2 * SizeNow |-> IF k < SizeNow THEN Load(k, k) ELSE Nop]
    /\ UNCHANGED <<prog, levels, type, inv, tw, err, scratch, marks>>

(* STOREs and END, which no limit guards, and the work memory of the type. *)
(* The error string is not looked at again.                                *)
Finish ==
    /\ pass = "emit" /\ pos > Len(prog)
    /\ pass' = "done"
    /\ cnt' = cnt + io + 1
    /\ code' = [k \in DOMAIN code |-> IF k \in cnt..cnt + io - 1 THEN Store(k - cnt, k - cnt)
                                      ELSE IF k = cnt + io THEN End ELSE code[k]]
    /\ scratch' = IF type = "dwt" THEN tn ELSE 4 * tn
    /\ UNCHANGED <<prog, pos, transform, err, io, ninst, marks>>

Compile ==
    \/ CompileFft \/ CompileDwt \/ CompileLift \/ CompileFamily
    \/ CompileInverse \/ CompileSlot \/ CompileUnknown \/ CompileRefused
    \/ Reject \/ NoMemory \/ BeginEmit \/ Finish

(* chirp_compile returned.                                                 *)
Over == pass \in {"done", "rejected"}
Next == Compile \/ (Over /\ UNCHANGED vars)

Spec == Init /\ [][Next]_vars
FairSpec == Spec /\ WF_vars(Compile)

-----------------------------------------------------------------------------
(* The variables keep their types.                                         *)
TypeOK ==
    /\ prog \in Seq(Forms)
    /\ pass \in {"count", "emit", "done", "rejected"}
    /\ pos \in 1..Len(prog) + 1
    /\ {tn, levels, cnt, io, ninst, scratch} \subseteq Nat
    /\ type \in {"fft", "dwt"}
    /\ {inv, err} \subseteq BOOLEAN
    /\ tw \in [root : Nat, ntw : Nat, inv : BOOLEAN]
    /\ DOMAIN code = IF pass \in {"emit", "done"} THEN 0..ninst - 1 ELSE {}
    /\ marks \in Seq(Nat)
    /\ Len(marks) = IF pass = "count" THEN pos - 1 ELSE Len(prog)

(* No instruction is written past the end of the array that the first pass *)
(* measured: the two passes agree on the number of instructions although   *)
(* the second one starts from the state the first one left.                *)
CodeInBounds == pass \in {"emit", "done"} => cnt <= ninst

(* Form by form: in the second pass every form starts to write at the slot *)
(* where the first pass counted it, behind the LOADs.                      *)
PassesInStep ==
    pass = "emit" =>
        cnt - io = IF pos <= Len(prog) THEN marks[pos] ELSE ninst - 2 * io - 1

(* What a form of the language means in instructions, whatever its place   *)
(* in the pipeline; (inverse) is the inverse of the nearest DWT before it. *)
DwtOf(f, inverse) ==
    DwtStages(0, f.size, IF f.levels \in 1..Log2(f.size) THEN f.levels ELSE Log2(f.size),
              inverse)
FftOf(f) ==
    <<Inst("BITREV", 0, 0, 0)>> \o
    FftStages(f.size, IF IsPow2(f.size) THEN Repeat(2, Log2(f.size)) ELSE Factors(f.size))
MeaningOf(i) ==
    LET f == prog[i]
    IN  CASE f.kind = "fft" -> FftOf(f)
          [] f.kind = "dwt" -> DwtOf(f, f.inverse)
          [] f.kind = "inverse" ->
               DwtOf(prog[Max({j \in 1..i - 1 : prog[j].kind = "dwt" /\ ~prog[j].inverse})],
                     TRUE)
          [] OTHER -> <<>>
MeansStages(i) == prog[i].kind \in {"fft", "dwt"}
                    \/ /\ prog[i].kind = "inverse"
                       /\ \E j \in 1..i - 1 : prog[j].kind = "dwt" /\ ~prog[j].inverse

(* A finished array holds, at the place counted for it, every stage of     *)
(* every transform of the pipeline, and no error was swallowed: LOADs,     *)
(* stages in the order of the text, STOREs, END.                           *)
ComputesPipeline ==
    pass = "done" =>
        /\ ~err
        /\ code[ninst - 1] = End
        /\ \A k \in 0..io - 1 : /\ code[k] = Load(k, k)
                                /\ code[ninst - 1 - io + k] = Store(k, k)
        /\ \A i \in DOMAIN prog : MeansStages(i) =>
             \A k \in DOMAIN MeaningOf(i) : code[io + marks[i] + k - 1] = MeaningOf(i)[k]

(* The table and the direction of a finished program are those of each of  *)
(* its FFT stages: the stage steps through a table of its own length and   *)
(* direction, and the transform's flag, which the butterflies of a radix   *)
(* above 2 obey, is the direction its form asked for.                      *)
TablesFit ==
    pass = "done" =>
        \A i \in DOMAIN prog : prog[i].kind = "fft" =>
            /\ tw.inv = prog[i].inverse
            /\ IsPow2(prog[i].size) \/ inv = prog[i].inverse
            /\ \A k \in DOMAIN MeaningOf(i) :
                 MeaningOf(i)[k].op = "FFT_STAGE" => MeaningOf(i)[k].a0 * MeaningOf(i)[k].a2 = tw.root

=============================================================================
