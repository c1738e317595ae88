------------------------------ MODULE Executor ------------------------------
(***************************************************************************)
(* One call of an interpreter of the IR (src/faf_vm.c), an instruction a   *)
(* step, over the arithmetic of ExactComplex:                              *)
(*   "vm"       faf_vm_execute_f32, register file sized by                 *)
(*              compute_max_registers, direct-threaded: the fetch has no   *)
(*              bound but the END it expects;                              *)
(*   "split"    faf_execute_split_f32 / _f64 out of place (and in place    *)
(*              with scratch): the output planes are the registers;        *)
(*   "inplace"  the same in place without scratch: registers on the heap,  *)
(*              LOAD and STORE work on one pair of planes.                 *)
(***************************************************************************)
EXTENDS Butterflies

CONSTANTS
    Transforms,  \* the transforms that are called
    Modes,       \* the interpreters that are used
    RegAlign     \* complex registers in a cache line: 32 in the code

VARIABLES
    t,       \* the transform
    mode,    \* the interpreter of this call
    arg,     \* what the caller passed (auxiliary: in place, in changes)
    in, out, regs, ip,
    status   \* "idle", "run", "returned"

vars == <<t, mode, arg, in, out, regs, ip, status>>

Junk == <<P, P>>       \* what the caller left in out; not a number

(* A registered unary builtin, applied to the real parts.  Which functions *)
(* are registered is up to the program; these differ and do not commute.   *)
Builtin(idx, x) == add(mul(x, x), idx)

-----------------------------------------------------------------------------
(* compute_max_registers, in complex registers.                            *)
WholeArray == {"FFT_STAGE", "BITREV", "DWT_STAGE", "THRESHOLD", "CALL_BUILTIN"}
MaxRegister(tr) ==
    LET used == {tr.code[k] : k \in Cells(tr.ninst)}
        regsOf(i) == IF i.op \in {"NOP", "END"} THEN {}
                     ELSE IF i.op \in WholeArray THEN {tr.n - 1} ELSE {i.a0, i.a1}
    IN  Max({0} \cup UNION {regsOf(i) : i \in used})
(* Mutant of NumRegs: the highest register is taken for the number of them.*)
NumRegsShort(tr) ==
    LET lines == (MaxRegister(tr) + RegAlign - 1) \div RegAlign
    IN  Min({lines * RegAlign, MaxFft})
NumRegs(tr) ==
    LET lines == (MaxRegister(tr) + RegAlign) \div RegAlign
    IN  Min({lines * RegAlign, MaxFft})

(* The bound the handlers test a register against.                         *)
Guard == IF mode = "vm" THEN MaxFft ELSE t.n

(* The registers an instruction reads and writes once its guard let it.    *)
Touches(i) ==
    CASE i.op = "LOAD"  -> {i.a0}
      [] i.op = "STORE" -> {i.a1}
      [] i.op = "BFLY2" -> {i.a0, i.a1}
      [] i.op = "BFLY4" -> i.a0..i.a0 + 3
      [] i.op = "BFLY8" -> i.a0..i.a0 + 7
      [] i.op \in {"TWIDDLE_MUL", "REDUCE_SUM"} -> {i.a0}
      [] i.op \in {"FFT_STAGE", "BITREV", "CALL_BUILTIN"} -> Cells(t.n)
      [] i.op = "THRESHOLD" -> i.a1..t.n - 1
      [] i.op = "DWT_STAGE" -> IF i.a1 <= t.n THEN Cells(i.a1) ELSE {}
      [] OTHER -> {}
Guarded(i) == i.op \in WholeArray \/ \A r \in Touches(i) : r < Guard

-----------------------------------------------------------------------------
Init ==
    /\ t \in Transforms
    /\ mode = CHOOSE m \in Modes : TRUE
    /\ arg = <<>> /\ in = <<>> /\ out = <<>> /\ regs = <<>>
    /\ ip = 0 /\ status = "idle"

Call(m, x) ==
    /\ status \in {"idle", "returned"}
    /\ mode' = m /\ arg' = x /\ in' = x
    /\ out' = [i \in Cells(t.n) |-> Junk]
    /\ regs' = [i \in Cells(IF m = "vm" THEN NumRegs(t) ELSE t.n) |-> CZero]
    /\ ip' = 0 /\ status' = "run"
    /\ UNCHANGED t

CodeEnd == IF mode = "vm" THEN Cardinality(DOMAIN t.code) ELSE t.ninst
Running == status = "run" /\ ip < CodeEnd
Cur == t.code[ip]

(* Fetch an instruction with one of these opcodes and go on with the next. *)
Dispatch(ops) ==
    /\ Running
    /\ Cur.op \in ops
    /\ ip' = ip + 1
    /\ UNCHANGED <<t, mode, arg, status>>

ExecLoad ==
    /\ Dispatch({"LOAD"})
    /\ regs' = IF Guarded(Cur) /\ (mode = "vm" \/ Cur.a1 < t.n)
               THEN [regs EXCEPT ![Cur.a0] = in[Cur.a1]] ELSE regs
    /\ UNCHANGED <<in, out>>

(* The planes STORE writes are out, the registers, or in.                  *)
ExecStore ==
    /\ Dispatch({"STORE"})
    /\ LET ok == Guarded(Cur) /\ (mode = "vm" \/ Cur.a0 < t.n)
           stored(a) == [a EXCEPT ![Cur.a0] = regs[Cur.a1]]
       IN  /\ out'  = IF ok /\ mode = "vm" THEN stored(out) ELSE out
           /\ regs' = IF ok /\ mode = "split" THEN stored(regs) ELSE regs
           /\ in'   = IF ok /\ mode = "inplace" THEN stored(in) ELSE in

Registers(ops, new) ==
    /\ Dispatch(ops)
    /\ regs' = IF Guarded(Cur) THEN new ELSE regs
    /\ UNCHANGED <<in, out>>

Patch(base, width, b) ==
    [i \in DOMAIN regs |-> IF i \in base..base + width - 1 THEN b[i - base] ELSE regs[i]]
Window(base, width) == [k \in Cells(width) |-> regs[base + k]]

ExecBfly2 ==
    Registers({"BFLY2"}, [regs EXCEPT ![Cur.a0] = CAdd(regs[Cur.a0], regs[Cur.a1]),
                                      ![Cur.a1] = CSub(regs[Cur.a0], regs[Cur.a1])])
ExecBfly4 ==
    Registers({"BFLY4"}, Patch(Cur.a0, 4, Dft4(Window(Cur.a0, 4), FALSE)))
ExecBfly8 ==
    Registers({"BFLY8"}, Patch(Cur.a0, 8, Bfly8(Window(Cur.a0, 8))))

(* Without a table TWIDDLE_MUL does nothing; with one it does not look at  *)
(* the table's length.                                                     *)
ExecTwiddleMul ==
    Registers({"TWIDDLE_MUL"},
              IF t.tw = NoTable THEN regs
              ELSE [regs EXCEPT ![Cur.a0] = CMul(@, Root(t.tw.root, Cur.a1, t.tw.inv))])

ExecFftStage ==
    Registers({"FFT_STAGE"}, FftStageOf(regs, t.n, Cur, t.tw, t.inv))

ExecBitRev == Registers({"BITREV"}, BitRev(regs, t.n))

ExecDwtStage ==
    Registers({"DWT_STAGE"}, IF Cur.a1 < 2 \/ Cur.a1 > t.n THEN regs
                             ELSE HaarLevel(regs, Cur.a1, Cur.a2 = 1))

ExecCallBuiltin ==
    Registers({"CALL_BUILTIN"},
              [i \in DOMAIN regs |-> IF i < t.n THEN <<Builtin(Cur.a0, regs[i][1]), regs[i][2]>>
                                     ELSE regs[i]])

(* There is no order among residues: the threshold a2 is 0, which changes  *)
(* nothing, or 1, which stands for one above every value.                  *)
ExecThreshold ==
    Registers({"THRESHOLD"},
              [i \in DOMAIN regs |-> IF Cur.a2 = 1 /\ i \in Touches(Cur) THEN <<0, regs[i][2]>>
                                     ELSE regs[i]])

(* The compilers leave a1, the length, at zero; only "vm" has a handler.   *)
ExecReduceSum ==
    Registers({"REDUCE_SUM"}, IF mode = "vm" THEN [regs EXCEPT ![Cur.a0] = <<0, @[2]>>]
                              ELSE regs)

ExecNop ==
    /\ Dispatch({"NOP", "REDUCE_MAX", "REDUCE_MIN"})
    /\ UNCHANGED <<in, out, regs>>

(* END, or in "split" and "inplace" the end of the instructions.           *)
Return ==
    /\ status = "run"
    /\ IF Running THEN Cur.op = "END" ELSE mode # "vm"
    /\ status' = "returned"
    /\ UNCHANGED <<t, mode, arg, in, out, regs, ip>>

(* What the generators of the C API emit; ChirpRun adds what only          *)
(* pipelines use.                                                          *)
Exec == ExecLoad \/ ExecStore \/ ExecFftStage \/ ExecDwtStage \/ Return

Next == Exec \/ \E m \in Modes, x \in Signals(t.n) : Call(m, x)

Spec == Init /\ [][Next]_vars
FairSpec == Spec /\ WF_vars(Exec)

-----------------------------------------------------------------------------
(* What MemorySafe asks of a program: it fits in its code array, an END    *)
(* stands among its instructions, LOAD and STORE stay inside the buffers,  *)
(* a wide butterfly inside the cache line of its first register, the swaps *)
(* of BITREV inside the signal and TWIDDLE_MUL inside the table.           *)
Width(op) == CASE op = "BFLY4" -> 4 [] op = "BFLY8" -> 8 [] OTHER -> 1
InBounds(tr, i) ==
    /\ i.a0 \in Nat /\ i.a1 \in Nat
    /\ i.op = "LOAD" => i.a1 < tr.n
    /\ i.op = "STORE" => i.a0 < tr.n
    /\ i.op \in {"BFLY4", "BFLY8"} =>
           \E line \in 0..i.a0 : i.a0 >= line * RegAlign /\ i.a0 + Width(i.op) <= (line + 1) * RegAlign
    /\ i.op = "BITREV" =>
           \A k \in Cells(tr.n) : DigitReverse(k, Radices(tr.n)) \in Cells(tr.n)
    /\ i.op = "TWIDDLE_MUL" => tr.tw = NoTable \/ i.a1 < tr.tw.ntw
WellFormed(tr) ==
    /\ tr.n \in 1..MaxFft
    /\ LET slots == Cardinality(DOMAIN tr.code)
       IN  /\ IsFiniteSet(DOMAIN tr.code) /\ DOMAIN tr.code = Cells(slots)
           /\ tr.ninst \in 0..slots
    /\ \E k \in Cells(tr.ninst) : tr.code[k].op = "END"
    /\ \A k \in Cells(tr.ninst) : InBounds(tr, tr.code[k])

(* Every instruction fetched is one of the program's, and every register,  *)
(* input, output and twiddle index that a handler uses after its own tests *)
(* is inside the array it indexes.  compute_max_registers has to foresee   *)
(* this for "vm": its handlers test against a constant, not the allocation.*)
MemorySafe ==
    /\ status = "run" /\ mode = "vm" => Running
    /\ Running /\ Guarded(Cur) =>
         /\ Touches(Cur) \subseteq DOMAIN regs
         /\ Cur.op = "LOAD" => mode # "vm" \/ Cur.a1 \in DOMAIN in
         /\ Cur.op = "STORE" => mode # "vm" \/ Cur.a0 \in DOMAIN out
         /\ Cur.op = "TWIDDLE_MUL" /\ t.tw # NoTable => Cur.a1 < t.tw.ntw

(* A call returns.                                                         *)
Returns == status = "run" ~> status = "returned"

(* Whichever interpreter runs it, in place or not, a call leaves in the    *)
(* caller's buffer what the transform means.                               *)
Result == CASE mode = "vm" -> out [] mode = "split" -> regs [] mode = "inplace" -> in
LeavesMeaning == status = "returned" => Result = Meaning(t.does, arg)
IsSignal(x) == \E n \in Orders : x \in [Cells(n) -> {CZero, <<1, 0>>, <<0, 1>>}]
Promise == INSTANCE TransformCall WITH
    Input <- IsSignal,
    does <- t.does,
    result <- IF status = "returned" THEN Result ELSE <<>>
ImplementsTransformCall == Promise!Spec
=============================================================================
