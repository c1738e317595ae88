------------------------- MODULE ChirpCompileProofs -------------------------
(***************************************************************************)
(* Proofs about ChirpCompile, for every set of pipelines of every length   *)
(* and every limit MaxInst: the variables keep their types, and the second *)
(* pass stays in step with the first, and so inside the array, for every   *)
(* pipeline whose forms bring their own sizes.                             *)
(***************************************************************************)
EXTENDS ChirpCompile, FiniteSetTheorems, TLAPS

-----------------------------------------------------------------------------
(* The operators the emitted stages are built from.                        *)

(* A logarithm is a natural number.                                        *)
LEMMA Log2Nat == ASSUME NEW n PROVE Log2(n) \in Nat
<1>1. IsFiniteSet(1..30)
  <2>1. 1 \in Int /\ 30 \in Int
    OBVIOUS
  <2> QED
    BY <2>1, FS_Interval, Zenon
<1>2. IsFiniteSet({k \in 1..30 : 2^k <= n})
  BY <1>1, FS_Subset, {k \in 1..30 : 2^k <= n} \subseteq 1..30
<1> QED
  BY <1>2, FS_CardinalityType DEF Log2

(* So is the multiplicity of a factor.                                     *)
LEMMA MultiplicityNat == ASSUME NEW p, NEW n PROVE Multiplicity(p, n) \in Nat
<1> DEFINE S == {e \in 1..Log2(n) : n % (p^e) = 0}
<1>1. IsFiniteSet(1..Log2(n))
  <2>1. 1 \in Int /\ Log2(n) \in Int
    BY Log2Nat
  <2> QED
    BY <2>1, FS_Interval, Zenon
<1>2. IsFiniteSet(S)
  BY <1>1, FS_Subset, S \subseteq 1..Log2(n)
<1> QED
  BY <1>2, FS_CardinalityType DEF Multiplicity

(* The factors of a number are a sequence.                                 *)
LEMMA FactorsSeq == ASSUME NEW n PROVE Factors(n) \in Seq(Nat)
<1>1. ASSUME NEW x \in Nat, NEW k \in Nat PROVE Repeat(x, k) \in Seq(Nat)
  BY <1>1 DEF Repeat
<1> DEFINE twos == Multiplicity(2, n)
<1>2. twos \in Nat /\ twos \div 2 \in Nat /\ twos % 2 \in Nat
  <2>1. twos \in Nat
    BY MultiplicityNat
  <2> QED
    BY <2>1
<1>3. Multiplicity(3, n) \in Nat /\ Multiplicity(5, n) \in Nat /\ Multiplicity(7, n) \in Nat
  BY MultiplicityNat
<1>4. /\ Repeat(4, twos \div 2) \in Seq(Nat)
      /\ Repeat(2, twos % 2) \in Seq(Nat)
      /\ Repeat(3, Multiplicity(3, n)) \in Seq(Nat)
      /\ Repeat(5, Multiplicity(5, n)) \in Seq(Nat)
      /\ Repeat(7, Multiplicity(7, n)) \in Seq(Nat)
  BY <1>1, <1>2, <1>3
<1> QED
  BY <1>4 DEF Factors

(* An FFT is a number of instructions that its size determines.            *)
LEMMA FftWidth == ASSUME NEW n PROVE Len(Fft5Stages(n)) \in Nat
<1> DEFINE fac == IF IsPow2(n) THEN Repeat(2, Log2(n)) ELSE Factors(n)
           stages == FftStages(n, fac)
<1>1. Repeat(2, Log2(n)) \in Seq(Nat)
  BY Log2Nat DEF Repeat
<1>2. fac \in Seq(Nat)
  BY <1>1, FactorsSeq
<1>3. Len(fac) \in Nat
  BY <1>2
<1>4. DOMAIN stages = 1..Len(fac) /\ stages \in Seq(Range(stages))
  BY <1>3 DEF FftStages, Range
<1> DEFINE Letters == Range(stages) \cup {BitReverse}
<1>5. stages \in Seq(Letters) /\ <<BitReverse>> \in Seq(Letters)
  BY <1>4
<1>6. <<BitReverse>> \o stages \in Seq(Letters)
  BY <1>5
<1> QED
  BY <1>6 DEF Fft5Stages

(* So is a DWT.                                                            *)
LEMMA DwtWidth ==
    ASSUME NEW fam, NEW n, NEW levels_ \in Nat, NEW inverse
    PROVE  Len(DwtStages(fam, n, levels_, inverse)) \in Nat
<1>1. DwtStageCount(n, levels_) \in Nat
  BY Log2Nat DEF DwtStageCount
<1> QED
  BY <1>1 DEF DwtStages

-----------------------------------------------------------------------------
(* Type correctness.                                                       *)

Walks == CompileFft \/ CompileDwt \/ CompileLift \/ CompileFamily
            \/ CompileInverse \/ CompileSlot \/ CompileUnknown \/ CompileRefused

LEMMA ProgramFacts ==
    ASSUME TypeOK
    PROVE  /\ prog \in Seq(Forms)
           /\ Walking => pos \in 1..Len(prog) /\ This \in Forms
<1>1. prog \in Seq(Forms)
  BY DEF TypeOK
<1>2. pos \in 1..Len(prog) + 1
  BY DEF TypeOK
<1> QED
  BY <1>1, <1>2 DEF Walking, This

LEMMA SizeNowNat == ASSUME TypeOK PROVE SizeNow \in Nat
BY DEF TypeOK, SizeNow, SizeOr, DefaultSize

(* What emitting a sequence of some length does to the count and the array.*)
LEMMA EmitType ==
    ASSUME TypeOK, NEW insts, Len(insts) \in Nat, Emit(insts)
    PROVE  cnt' \in Nat /\ cnt' = cnt + Len(insts) /\ DOMAIN code' = DOMAIN code
BY DEF TypeOK, Emit

(* A form that is visited leaves a well-typed transform and a longer count.*)
LEMMA WalkFacts ==
    ASSUME TypeOK, Walks
    PROVE  /\ Walking
           /\ pos' = pos + 1
           /\ marks' = IF pass = "count" THEN Append(marks, cnt) ELSE marks
           /\ UNCHANGED <<prog, pass, io, ninst, scratch>>
           /\ tn' \in Nat /\ levels' \in Nat /\ cnt' \in Nat
           /\ type' \in {"fft", "dwt"} /\ inv' \in BOOLEAN /\ err' \in BOOLEAN
           /\ tw' \in [root : Nat, ntw : Nat, inv : BOOLEAN]
           /\ DOMAIN code' = DOMAIN code
<1> USE DEF TypeOK
<1>0. /\ tn \in Nat /\ levels \in Nat /\ cnt \in Nat
      /\ type \in {"fft", "dwt"} /\ inv \in BOOLEAN /\ err \in BOOLEAN
      /\ tw \in [root : Nat, ntw : Nat, inv : BOOLEAN]
  OBVIOUS
<1>1. CASE CompileFft
  <2>1. This \in Forms /\ Walking
    BY <1>1, ProgramFacts DEF CompileFft, Visit
  <2> DEFINE n == SizeOr(This.size, DefaultSize)
  <2>2. n \in Nat /\ Larger(n, tn) \in Nat
    BY <2>1, <1>0 DEF Forms, SizeOr, DefaultSize, Larger
  <2>3. Twiddles(Larger(n, tn), This.inverse) \in [root : Nat, ntw : Nat, inv : BOOLEAN]
    <3> DEFINE m == Larger(n, tn)
               k == IF IsPow2(m) THEN m \div 2 ELSE m
    <3>1. m \in Nat /\ k \in Nat
      BY <2>2
    <3>2. This.inverse \in BOOLEAN
      BY <2>1 DEF Forms
    <3> HIDE DEF m, k
    <3>3. Table(m, k, This.inverse) \in [root : Nat, ntw : Nat, inv : BOOLEAN]
      BY <3>1, <3>2 DEF Table
    <3> QED
      BY <3>3, <1>0 DEF Twiddles, m, k
  <2>4. Len(Fft5Stages(n)) \in Nat
    BY FftWidth
  <2>5. cnt' \in Nat /\ DOMAIN code' = DOMAIN code
    BY <1>1, <2>4, EmitType DEF CompileFft, EmitNothing
  <2>6. inv' \in BOOLEAN
    BY <1>1, <1>0, <2>1 DEF CompileFft, Forms
  <2> QED
    BY <1>1, <1>0, <2>1, <2>2, <2>3, <2>5, <2>6 DEF CompileFft, Visit
<1>2. CASE CompileDwt
  <2>1. This \in Forms /\ Walking
    BY <1>2, ProgramFacts DEF CompileDwt, Visit
  <2> DEFINE n == SizeOr(SizeOr(This.size, tn), DefaultSize)
             clamped == IF This.levels \in 1..Log2(n) THEN This.levels ELSE Log2(n)
  <2>2. n \in Nat /\ Larger(n, tn) \in Nat
    BY <2>1, <1>0 DEF Forms, SizeOr, DefaultSize, Larger
  <2>3. clamped \in Nat
    BY <2>1, Log2Nat DEF Forms
  <2>4. Len(DwtStages(0, n, clamped, This.inverse)) \in Nat
    BY <2>3, DwtWidth
  <2> HIDE DEF n, clamped
  <2>5. cnt' \in Nat /\ DOMAIN code' = DOMAIN code
    BY <1>2, <2>4, EmitType DEF CompileDwt, EmitNothing, n, clamped
  <2>6. inv' \in BOOLEAN
    BY <1>2, <1>0, <2>1 DEF CompileDwt, Forms, transform
  <2> QED
    BY <1>2, <1>0, <2>1, <2>2, <2>3, <2>5, <2>6
       DEF CompileDwt, Visit, transform, n, clamped
<1>3. CASE CompileLift
  <2>1. Len(DwtStages(0, SizeNow, 1, FALSE)) \in Nat
    BY DwtWidth
  <2>2. cnt' \in Nat /\ DOMAIN code' = DOMAIN code
    BY <1>3, <2>1, EmitType DEF CompileLift
  <2> QED
    BY <1>3, <1>0, <2>2 DEF CompileLift, Visit, SizeOr
<1>4. CASE CompileFamily
  <2>1. SizeOr(levels, 1) \in Nat
    BY <1>0 DEF SizeOr
  <2>2. Len(DwtStages(0, SizeNow, SizeOr(levels, 1), FALSE)) \in Nat
    BY <2>1, DwtWidth
  <2>3. cnt' \in Nat /\ DOMAIN code' = DOMAIN code
    BY <1>4, <2>2, EmitType DEF CompileFamily
  <2> QED
    BY <1>4, <1>0, <2>3 DEF CompileFamily, Visit, transform
<1>5. CASE CompileInverse
  <2>1. Len(DwtStages(0, tn, levels, TRUE)) \in Nat
    BY <1>0, DwtWidth
  <2>2. cnt' \in Nat /\ DOMAIN code' = DOMAIN code
    BY <1>5, <2>1, EmitType DEF CompileInverse, EmitNothing
  <2> QED
    BY <1>5, <1>0, <2>2 DEF CompileInverse, Visit, transform
<1>6. CASE CompileSlot
  <2>1. Len(<<SlotOf(This)>>) = 1
    OBVIOUS
  <2>2. cnt' \in Nat /\ DOMAIN code' = DOMAIN code
    BY <1>6, <2>1, EmitType DEF CompileSlot
  <2> QED
    BY <1>6, <1>0, <2>2 DEF CompileSlot, Visit, transform
<1>7. CASE CompileUnknown
  <2>1. Len(<<Inst("CALL_BUILTIN", 0, 0, 0)>>) = 1
    OBVIOUS
  <2>2. cnt' \in Nat /\ DOMAIN code' = DOMAIN code
    BY <1>7, <2>1, EmitType DEF CompileUnknown
  <2> QED
    BY <1>7, <1>0, <2>2 DEF CompileUnknown, Visit, transform
<1>8. CASE CompileRefused
  BY <1>8, <1>0 DEF CompileRefused, Visit, EmitNothing, transform
<1> QED
  BY <1>1, <1>2, <1>3, <1>4, <1>5, <1>6, <1>7, <1>8 DEF Walks

(* The types are inductive.                                                *)
LEMMA TypeInit == Init => TypeOK
<1> SUFFICES ASSUME Init PROVE TypeOK
  OBVIOUS
<1>1. prog \in Seq(Forms)
  BY ProgramsAssumption DEF Init
<1>2. NoTable \in [root : Nat, ntw : Nat, inv : BOOLEAN]
  BY DEF NoTable, Table
<1>3. pass = "count" /\ pos = 1 /\ marks = <<>>
  BY DEF Init
<1>4. pos \in 1..Len(prog) + 1
  BY <1>1, <1>3
<1>5. marks \in Seq(Nat) /\ Len(marks) = 0
  BY <1>3
<1>6. DOMAIN code = {}
  BY DEF Init
<1>7. {tn, levels, cnt, io, ninst, scratch} \subseteq Nat /\ {inv, err} \subseteq BOOLEAN
  <2>1. tn = 0 /\ levels = 0 /\ cnt = 0 /\ io = 0 /\ ninst = 0 /\ scratch = 0
    BY DEF Init
  <2>2. inv = FALSE /\ err = FALSE
    BY DEF Init
  <2>3. {inv, err} \subseteq BOOLEAN
    BY <2>2
  <2> QED
    BY <2>1, <2>3
<1>8. type = "fft" /\ tw \in [root : Nat, ntw : Nat, inv : BOOLEAN]
  BY <1>2 DEF Init
<1> QED
  BY <1>1, <1>3, <1>4, <1>5, <1>6, <1>7, <1>8 DEF TypeOK

LEMMA TypeStep == TypeOK /\ [Next]_vars => TypeOK'
<1> SUFFICES ASSUME TypeOK, [Next]_vars PROVE TypeOK'
  OBVIOUS
<1>0. prog \in Seq(Forms) /\ (Walking => pos \in 1..Len(prog))
  BY ProgramFacts
<1>a. /\ prog \in Seq(Forms) /\ pos \in 1..Len(prog) + 1 /\ Len(prog) \in Nat
      /\ pass \in {"count", "emit", "done", "rejected"}
      /\ tn \in Nat /\ levels \in Nat /\ cnt \in Nat /\ io \in Nat /\ ninst \in Nat
      /\ scratch \in Nat /\ type \in {"fft", "dwt"} /\ inv \in BOOLEAN /\ err \in BOOLEAN
      /\ tw \in [root : Nat, ntw : Nat, inv : BOOLEAN]
      /\ marks \in Seq(Nat)
      /\ Len(marks) = IF pass = "count" THEN pos - 1 ELSE Len(prog)
      /\ DOMAIN code = IF pass \in {"emit", "done"} THEN 0..ninst - 1 ELSE {}
  BY <1>0 DEF TypeOK
<1>1. CASE Walks
  <2>1. /\ Walking /\ pos' = pos + 1 /\ UNCHANGED <<prog, pass, io, ninst, scratch>>
        /\ marks' = IF pass = "count" THEN Append(marks, cnt) ELSE marks
        /\ tn' \in Nat /\ levels' \in Nat /\ cnt' \in Nat
        /\ type' \in {"fft", "dwt"} /\ inv' \in BOOLEAN /\ err' \in BOOLEAN
        /\ tw' \in [root : Nat, ntw : Nat, inv : BOOLEAN]
        /\ DOMAIN code' = DOMAIN code
    BY <1>1, WalkFacts
  <2>2. pos' \in 1..Len(prog) + 1
    BY <1>a, <2>1 DEF Walking
  <2>3. marks' \in Seq(Nat) /\ Len(marks') = IF pass = "count" THEN pos' - 1 ELSE Len(prog)
    BY <1>a, <2>1
  <2> QED
    BY <1>a, <2>1, <2>2, <2>3 DEF TypeOK
<1>2. CASE Reject \/ NoMemory
  <2>1. SizeNow \in Nat /\ cnt + 2 * SizeNow + 1 \in Nat
    BY <1>a, SizeNowNat
  <2>2. CASE Reject
    BY <2>2, <1>a DEF Reject, PassOneOver, TypeOK, transform
  <2>3. CASE NoMemory
    <3>1. /\ pass' = "rejected" /\ err' = TRUE /\ tn' \in Nat /\ io' \in Nat /\ ninst' \in Nat
          /\ UNCHANGED <<prog, pos, levels, type, inv, tw, cnt, code, scratch, marks>>
          /\ pass = "count" /\ pos = Len(prog) + 1
      BY <2>1, <2>3, <1>a DEF NoMemory, PassOneOver
    <3> QED
      BY <3>1, <1>a DEF TypeOK
  <2> QED
    BY <1>2, <2>2, <2>3
<1>3. CASE BeginEmit
  <2>1. SizeNow \in Nat /\ cnt + 2 * SizeNow + 1 \in Nat
    BY <1>a, SizeNowNat
  <2>2. DOMAIN code' = 0..ninst' - 1
    BY <1>3, <1>a, <2>1 DEF BeginEmit
  <2> QED
    BY <1>3, <1>a, <2>1, <2>2 DEF BeginEmit, PassOneOver, TypeOK
<1>4. CASE Finish
  <2>1. scratch' \in Nat
    BY <1>4, <1>a DEF Finish
  <2>2. DOMAIN code' = DOMAIN code
    BY <1>4 DEF Finish
  <2> QED
    BY <1>4, <1>a, <2>1, <2>2 DEF Finish, TypeOK, transform
<1>5. CASE UNCHANGED vars
  BY <1>5, <1>a DEF vars, transform, TypeOK
<1> QED
  BY <1>1, <1>2, <1>3, <1>4, <1>5 DEF Next, Compile, Walks

(* Every variable keeps its type, whatever the pipelines.                  *)
THEOREM TypeCorrect == Spec => []TypeOK
<1> QED
  BY TypeInit, TypeStep, PTL DEF Spec

-----------------------------------------------------------------------------
(* The two passes.                                                         *)

(* Every DWT of the pipeline names its size, and no form takes its size or *)
(* its levels from the ones before it.                                     *)
SizedForm(f) ==
    /\ f.kind \notin {"lift", "family", "inverse"}
    /\ f.kind = "dwt" => f.size # 0
Sized(p) == \A i \in 1..Len(p) : SizedForm(p[i])

(* The instructions of such a form, in either pass.                        *)
ClampedLevels(f) == IF f.levels \in 1..Log2(f.size) THEN f.levels ELSE Log2(f.size)
Width(f) ==
    CASE f.kind = "fft" -> IF Is5Smooth(SizeOr(f.size, DefaultSize))
                           THEN Len(Fft5Stages(SizeOr(f.size, DefaultSize))) ELSE 0
      [] f.kind = "dwt" -> IF IsPow2(f.size) /\ f.size >= 2
                           THEN Len(DwtStages(0, f.size, ClampedLevels(f), f.inverse)) ELSE 0
      [] f.kind \in OneSlot \cup {"unknown"} -> 1
      [] OTHER -> 0

LEMMA WidthNat == ASSUME NEW f \in Forms PROVE Width(f) \in Nat
<1>1. Len(Fft5Stages(SizeOr(f.size, DefaultSize))) \in Nat
  BY FftWidth
<1>2. ClampedLevels(f) \in Nat
  BY Log2Nat DEF ClampedLevels, Forms
<1>3. Len(DwtStages(0, f.size, ClampedLevels(f), f.inverse)) \in Nat
  BY <1>2, DwtWidth
<1> QED
  BY <1>1, <1>3 DEF Width

(* A sized form advances the count by its width, in both passes.           *)
LEMMA WalkWidth ==
    ASSUME TypeOK, Walks, SizedForm(This)
    PROVE  cnt' = cnt + Width(This)
<1>0. This \in Forms /\ cnt \in Nat /\ tn \in Nat
  <2>1. Walking
    BY WalkFacts
  <2> QED
    BY <2>1, ProgramFacts DEF TypeOK
<1>1. CASE CompileFft
  <2>1. This.kind = "fft"
    BY <1>1 DEF CompileFft, Visit
  <2> DEFINE n == SizeOr(This.size, DefaultSize)
  <2>2. Width(This) = IF Is5Smooth(n) THEN Len(Fft5Stages(n)) ELSE 0
    BY <2>1 DEF Width, OneSlot
  <2>3. cnt' = IF Is5Smooth(n) THEN cnt + Len(Fft5Stages(n)) ELSE cnt
    BY <1>1 DEF CompileFft, Emit, EmitNothing
  <2> QED
    BY <1>0, <2>2, <2>3
<1>2. CASE CompileDwt
  <2>1. This.kind = "dwt"
    BY <1>2 DEF CompileDwt, Visit
  <2>2. SizeOr(SizeOr(This.size, tn), DefaultSize) = This.size
    BY <1>0, <2>1 DEF SizedForm, SizeOr, Forms
  <2> DEFINE stages == DwtStages(0, This.size, ClampedLevels(This), This.inverse)
             legal == IsPow2(This.size) /\ This.size >= 2
  <2>3. Width(This) = IF legal THEN Len(stages) ELSE 0
    BY <2>1 DEF Width, OneSlot
  <2>4. cnt' = IF legal THEN cnt + Len(stages) ELSE cnt
    BY <1>2, <2>2 DEF CompileDwt, Emit, EmitNothing, ClampedLevels
  <2> QED
    BY <1>0, <2>3, <2>4
<1>3. CASE CompileLift \/ CompileFamily \/ CompileInverse
  BY <1>3 DEF CompileLift, CompileFamily, CompileInverse, Visit, SizedForm
<1>4. CASE CompileSlot \/ CompileUnknown
  <2>1. This.kind \in OneSlot \cup {"unknown"}
    BY <1>4 DEF CompileSlot, CompileUnknown, Visit
  <2>2. Width(This) = 1
    BY <2>1 DEF Width, OneSlot
  <2>3. Len(<<SlotOf(This)>>) = 1 /\ Len(<<Inst("CALL_BUILTIN", 0, 0, 0)>>) = 1
    OBVIOUS
  <2> QED
    BY <1>4, <2>2, <2>3 DEF CompileSlot, CompileUnknown, Emit
<1>5. CASE CompileRefused
  <2>1. This.kind = "refused"
    BY <1>5 DEF CompileRefused, Visit
  <2> QED
    BY <1>0, <1>5, <2>1 DEF CompileRefused, EmitNothing, Width, OneSlot
<1> QED
  BY <1>1, <1>2, <1>3, <1>4, <1>5 DEF Walks

(* Start is where the form i starts, counted from the first form: what the *)
(* first pass noted, and behind the last form visited in it, the total.    *)
(* The two passes are in step because both keep to these places.           *)
Total == IF pass = "count" THEN cnt ELSE ninst - 2 * io - 1
Start(ms, total, i) == IF i <= Len(ms) THEN ms[i] ELSE total
Spaced(ms, total, p) ==
    \A i \in 1..Len(ms) : /\ Start(ms, total, i + 1) = Start(ms, total, i) + Width(p[i])
                         /\ ms[i] <= total
InStepInv ==
    pass # "rejected" /\ Sized(prog) =>
        /\ Start(marks, Total, 1) = 0
        /\ Spaced(marks, Total, prog)
        /\ pass = "emit" => cnt = io + Start(marks, Total, pos)
        /\ pass = "done" => cnt = ninst

LEMMA InStepInit == Init => InStepInv
<1> SUFFICES ASSUME Init PROVE InStepInv
  OBVIOUS
<1>1. marks = <<>> /\ pass = "count" /\ cnt = 0
  BY DEF Init
<1>2. Len(marks) = 0 /\ Start(marks, Total, 1) = 0
  BY <1>1 DEF Start, Total
<1>3. Spaced(marks, Total, prog)
  BY <1>2 DEF Spaced
<1> QED
  BY <1>1, <1>2, <1>3 DEF InStepInv

(* A form visited in the first pass appends its place; one visited in the  *)
(* second finds it.                                                        *)
LEMMA InStepWalk ==
    ASSUME TypeOK, InStepInv, Walks, Sized(prog)
    PROVE  InStepInv'
<1>0. /\ prog \in Seq(Forms) /\ Walking /\ pos \in 1..Len(prog) /\ This \in Forms
      /\ SizedForm(This) /\ Len(prog) \in Nat
  BY WalkFacts, ProgramFacts DEF Sized, This
<1>1. /\ cnt \in Nat /\ io \in Nat /\ ninst \in Nat /\ marks \in Seq(Nat)
      /\ Len(marks) = IF pass = "count" THEN pos - 1 ELSE Len(prog)
      /\ pass \in {"count", "emit"}
  BY <1>0 DEF TypeOK, Walking
<1>2. /\ pos' = pos + 1 /\ UNCHANGED <<prog, pass, io, ninst>>
      /\ marks' = IF pass = "count" THEN Append(marks, cnt) ELSE marks
      /\ cnt' = cnt + Width(This) /\ Width(This) \in Nat
  BY <1>0, WalkFacts, WalkWidth, WidthNat
<1>3. /\ Start(marks, Total, 1) = 0
      /\ Spaced(marks, Total, prog)
      /\ pass = "emit" => cnt = io + Start(marks, Total, pos)
  BY <1>1 DEF InStepInv
<1>4. CASE pass = "count"
  <2>1. /\ Len(marks') = pos /\ marks'[pos] = cnt /\ Total = cnt /\ Total' = cnt + Width(This)
        /\ \A i \in 1..pos - 1 : marks'[i] = marks[i] /\ marks[i] \in Nat
    <3>1. marks' = Append(marks, cnt) /\ Len(marks) = pos - 1
      BY <1>1, <1>2, <1>4
    <3>2. Total = cnt /\ Total' = cnt + Width(This)
      BY <1>2, <1>4 DEF Total
    <3> QED
      BY <1>0, <1>1, <3>1, <3>2
  <2>2. Start(marks, Total, pos) = cnt
    BY <1>0, <1>1, <1>4, <2>1 DEF Start
  <2>3. \A i \in 1..pos : Start(marks', Total', i) = Start(marks, Total, i)
    BY <1>0, <1>1, <1>4, <2>1, <2>2 DEF Start
  <2>4. Start(marks', Total', pos + 1) = cnt + Width(This)
    BY <1>0, <1>1, <2>1 DEF Start
  <2>5. ASSUME NEW i \in 1..pos
        PROVE  /\ Start(marks', Total', i + 1) = Start(marks', Total', i) + Width(prog[i])
               /\ marks'[i] <= Total'
    <3>1. CASE i = pos
      BY <3>1, <1>0, <1>1, <1>2, <2>1, <2>2, <2>3, <2>4 DEF This
    <3>2. CASE i # pos
      <4>1. i \in 1..Len(marks) /\ i + 1 \in 1..pos
        BY <3>2, <1>0, <1>1, <1>4
      <4>2. /\ Start(marks, Total, i + 1) = Start(marks, Total, i) + Width(prog[i])
            /\ marks[i] <= cnt
        BY <4>1, <1>3, <2>1 DEF Spaced
      <4>3. /\ Start(marks', Total', i + 1) = Start(marks, Total, i + 1)
            /\ Start(marks', Total', i) = Start(marks, Total, i)
        BY <4>1, <2>3
      <4>4. marks'[i] = marks[i] /\ marks[i] \in Nat
        BY <1>0, <1>1, <1>4, <2>1, <4>1
      <4>5. marks'[i] <= Total'
        BY <1>1, <1>2, <2>1, <4>2, <4>4
      <4> QED
        BY <4>2, <4>3, <4>5
    <3> QED
      BY <3>1, <3>2
  <2>6. Start(marks', Total', 1) = 0
    BY <1>0, <1>3, <2>3
  <2>7. Spaced(marks', Total', prog')
    BY <1>2, <2>1, <2>5 DEF Spaced
  <2> QED
    BY <1>2, <1>4, <2>6, <2>7 DEF InStepInv
<1>5. CASE pass = "emit"
  <2>1. Total' = Total /\ \A i \in Nat : Start(marks', Total', i) = Start(marks, Total, i)
    BY <1>2, <1>5 DEF Total, Start
  <2>2. Start(marks, Total, pos + 1) = Start(marks, Total, pos) + Width(This)
    BY <1>0, <1>1, <1>3, <1>5 DEF This, Spaced
  <2>3. Start(marks, Total, pos) \in Int
    <3>1. pos \in 1..Len(marks)
      BY <1>0, <1>1, <1>5
    <3> QED
      BY <3>1, <1>1 DEF Start
  <2>4. cnt' = io' + Start(marks', Total', pos')
    BY <1>0, <1>1, <1>2, <1>3, <1>5, <2>1, <2>2, <2>3
  <2>5. marks' = marks /\ prog' = prog
    BY <1>2, <1>5
  <2>6. Spaced(marks', Total', prog')
    BY <1>1, <1>3, <2>1, <2>5
  <2>7. Start(marks', Total', 1) = 0
    BY <1>3, <2>1
  <2> QED
    BY <1>2, <1>5, <2>4, <2>6, <2>7 DEF InStepInv
<1> QED
  BY <1>1, <1>4, <1>5

LEMMA InStepStep == TypeOK /\ InStepInv /\ [Next]_vars => InStepInv'
<1> SUFFICES ASSUME TypeOK, InStepInv, [Next]_vars, pass' # "rejected", Sized(prog)'
             PROVE  InStepInv'
  BY DEF InStepInv
<1>0. /\ cnt \in Nat /\ io \in Nat /\ ninst \in Nat /\ marks \in Seq(Nat)
      /\ prog \in Seq(Forms) /\ pos \in 1..Len(prog) + 1 /\ Len(prog) \in Nat
      /\ Len(marks) = IF pass = "count" THEN pos - 1 ELSE Len(prog)
  BY ProgramFacts DEF TypeOK
<1>1. CASE Walks
  <2>1. prog' = prog
    BY <1>1, WalkFacts
  <2>2. Sized(prog)
    BY <2>1 DEF Sized
  <2> QED
    BY <1>1, <2>2, InStepWalk
<1>2. CASE Reject \/ NoMemory
  BY <1>2 DEF Reject, NoMemory
<1>3. CASE BeginEmit
  <2>1. SizeNow \in Nat
    BY SizeNowNat
  <2>2. /\ pass = "count" /\ pass' = "emit" /\ pos = Len(prog) + 1 /\ pos' = 1
        /\ io' = SizeNow /\ ninst' = cnt + 2 * SizeNow + 1 /\ cnt' = SizeNow
        /\ marks' = marks /\ prog' = prog
    BY <1>0, <1>3 DEF BeginEmit, PassOneOver
  <2>3. Total' = Total /\ \A i \in Nat : Start(marks', Total', i) = Start(marks, Total, i)
    BY <1>0, <2>1, <2>2 DEF Total, Start
  <2>4. Sized(prog)
    BY <2>2 DEF Sized
  <2>5. /\ Start(marks, Total, 1) = 0
        /\ Spaced(marks, Total, prog)
    BY <2>2, <2>4 DEF InStepInv
  <2>6. Spaced(marks', Total', prog')
    BY <1>0, <2>2, <2>3, <2>5
  <2>7. Start(marks', Total', 1) = 0
    BY <2>3, <2>5
  <2>8. cnt' = io' + Start(marks', Total', pos')
    BY <2>1, <2>2, <2>7
  <2> QED
    BY <2>2, <2>6, <2>7, <2>8 DEF InStepInv
<1>4. CASE Finish
  <2>1. /\ pass = "emit" /\ pass' = "done" /\ pos = Len(prog) + 1 /\ cnt' = cnt + io + 1
        /\ UNCHANGED <<prog, io, ninst, marks>>
    BY <1>0, <1>4 DEF Finish
  <2>2. Total' = Total /\ \A i \in Nat : Start(marks', Total', i) = Start(marks, Total, i)
    BY <2>1 DEF Total, Start
  <2>3. Sized(prog)
    BY <2>1 DEF Sized
  <2>4. /\ Start(marks, Total, 1) = 0 /\ cnt = io + Start(marks, Total, pos)
        /\ Spaced(marks, Total, prog)
    BY <2>1, <2>3 DEF InStepInv
  <2>5. Start(marks, Total, pos) = ninst - 2 * io - 1
    BY <1>0, <2>1 DEF Start, Total
  <2>6. cnt' = ninst'
    BY <1>0, <2>1, <2>4, <2>5
  <2>7. Spaced(marks', Total', prog')
    BY <1>0, <2>1, <2>2, <2>4
  <2>8. Start(marks', Total', 1) = 0
    BY <2>2, <2>4
  <2> QED
    BY <2>1, <2>6, <2>7, <2>8 DEF InStepInv
<1>5. CASE UNCHANGED vars
  BY <1>5 DEF vars, transform, InStepInv, Start, Total, Sized
<1> QED
  BY <1>1, <1>2, <1>3, <1>4, <1>5 DEF Next, Compile, Walks

(* The invariant gives the two properties.                                 *)
LEMMA InStepGives ==
    TypeOK /\ InStepInv => (Sized(prog) => CodeInBounds /\ PassesInStep)
<1> SUFFICES ASSUME TypeOK, InStepInv, Sized(prog), pass \in {"emit", "done"}
             PROVE  CodeInBounds /\ PassesInStep
  BY DEF CodeInBounds, PassesInStep
<1>0. /\ cnt \in Nat /\ io \in Nat /\ ninst \in Nat /\ marks \in Seq(Nat)
      /\ prog \in Seq(Forms) /\ pos \in 1..Len(prog) + 1 /\ Len(prog) \in Nat
      /\ Len(marks) = Len(prog) /\ pass # "count"
  BY ProgramFacts DEF TypeOK
<1>1. CASE pass = "done"
  <2>1. cnt = ninst
    BY <1>1 DEF InStepInv
  <2> QED
    BY <1>0, <1>1, <2>1 DEF CodeInBounds, PassesInStep
<1>2. CASE pass = "emit"
  <2>1. /\ cnt = io + Start(marks, Total, pos)
        /\ \A i \in 1..Len(marks) : marks[i] <= Total
        /\ Total = ninst - 2 * io - 1
    BY <1>2 DEF InStepInv, Total, Spaced
  <2>2. CASE pos <= Len(prog)
    <3>1. pos \in 1..Len(marks) /\ Start(marks, Total, pos) = marks[pos] /\ marks[pos] \in Nat
      BY <1>0, <2>2 DEF Start
    <3> QED
      BY <1>0, <1>2, <2>1, <2>2, <3>1 DEF CodeInBounds, PassesInStep
  <2>3. CASE pos = Len(prog) + 1
    <3>1. Start(marks, Total, pos) = ninst - 2 * io - 1
      BY <1>0, <2>1, <2>3 DEF Start
    <3> QED
      BY <1>0, <1>2, <2>1, <2>3, <3>1 DEF CodeInBounds, PassesInStep
  <2> QED
    BY <1>0, <2>2, <2>3
<1> QED
  BY <1>1, <1>2

(* A pipeline whose forms bring their own sizes is never written past the  *)
(* end of the array the first pass measured.                               *)
THEOREM SizedInBounds == Spec => [](Sized(prog) => CodeInBounds)
<1>1. TypeOK /\ InStepInv => (Sized(prog) => CodeInBounds)
  BY InStepGives
<1> QED
  BY <1>1, TypeInit, TypeStep, InStepInit, InStepStep, PTL DEF Spec

(* Every form of such a pipeline is written where it was counted.          *)
THEOREM SizedInStep == Spec => [](Sized(prog) => PassesInStep)
<1>1. TypeOK /\ InStepInv => (Sized(prog) => PassesInStep)
  BY InStepGives
<1> QED
  BY <1>1, TypeInit, TypeStep, InStepInit, InStepStep, PTL DEF Spec
=============================================================================
