------------------------------ MODULE ChirpRun ------------------------------
(***************************************************************************)
(* A Chirp pipeline compiled (ChirpCompile) and then executed (Executor),  *)
(* as faf_execute_f32 does with what chirp_compile returned.               *)
(***************************************************************************)
EXTENDS Executor

CONSTANT Programs
VARIABLES prog, pass, pos, tn, levels, type, inv, tw, err, cnt, io, ninst, code, scratch, marks
compiler == <<prog, pass, pos, tn, levels, type, inv, tw, err, cnt, io, ninst, code, scratch,
              marks>>

Chirp == INSTANCE ChirpCompile

(* What the manual says that the forms of a pipeline do to n values; a     *)
(* threshold leaves the averages of the nearest transform before it.       *)
LevelsOf(f, n) == IF f.kind = "lift" THEN 1
                  ELSE IF f.levels \in 1..Log2(n) THEN f.levels ELSE Log2(n)
Wavelet == {"dwt", "lift"}
DoesForm(p, i, n) ==
    LET f == p[i]
        size == Chirp!SizeOr(f.size, n)
        before == {j \in 1..i - 1 : p[j].kind \in Wavelet}
    IN  CASE f.kind = "fft"   -> [kind |-> "fft", n |-> size, inv |-> f.inverse]
          [] f.kind \in Wavelet -> [kind |-> "dwt", n |-> size, inv |-> f.inverse,
                                    levels |-> LevelsOf(f, size)]
          [] f.kind = "threshold" ->
               [kind |-> "threshold", all |-> f.idx = 1,
                keep |-> IF before = {} THEN 0 ELSE n \div 2^LevelsOf(p[Max(before)], n)]
          [] f.kind = "call"  -> [kind |-> "call", idx |-> f.idx]
          [] f.kind = "bfly"  -> [kind |-> "bfly", n |-> f.idx]
          [] f.kind = "reduce" -> [kind |-> "sum"]
          [] OTHER            -> [kind |-> "none"]
Does(p, n) == [i \in DOMAIN p |-> DoesForm(p, i, n)]

(* What the compiler made, as the interpreters see it.                     *)
Compiled ==
    Transform(tn, [ninst |-> ninst, code |-> code], tw, inv, Does(prog, tn))

RunInit ==
    /\ Chirp!Init
    /\ t = Transform(0, [ninst |-> 0, code |-> code], NoTable, FALSE, <<>>)
    /\ mode = CHOOSE m \in Modes : TRUE
    /\ arg = <<>> /\ in = <<>> /\ out = <<>> /\ regs = <<>>
    /\ ip = 0 /\ status = "compiling"

HandOver ==
    /\ status = "compiling" /\ pass = "done"
    /\ t' = Compiled /\ status' = "idle"
    /\ UNCHANGED <<compiler, mode, arg, in, out, regs, ip>>

NothingToCall == pass = "rejected" /\ UNCHANGED <<compiler, vars>>

RunNext ==
    \/ Chirp!Compile /\ UNCHANGED vars
    \/ HandOver
    \/ status # "compiling" /\ Next /\ UNCHANGED compiler
    \/ ExecBfly2 /\ UNCHANGED compiler
    \/ ExecBfly4 /\ UNCHANGED compiler
    \/ ExecBfly8 /\ UNCHANGED compiler
    \/ ExecTwiddleMul /\ UNCHANGED compiler
    \/ ExecBitRev /\ UNCHANGED compiler
    \/ ExecThreshold /\ UNCHANGED compiler
    \/ ExecCallBuiltin /\ UNCHANGED compiler
    \/ ExecReduceSum /\ UNCHANGED compiler
    \/ ExecNop /\ UNCHANGED compiler
    \/ NothingToCall

RunSpec == RunInit /\ [][RunNext]_<<compiler, vars>>

-----------------------------------------------------------------------------
(* Whatever the pipeline, its execution stays inside the registers, the    *)
(* buffers and the twiddle table.                                          *)
SafeRun == status # "compiling" => MemorySafe

(* A call leaves in the caller's buffer the composition of what the forms  *)
(* of the pipeline mean, in the order of the text.                         *)
RunsPipeline == LeavesMeaning
=============================================================================
