------------------------------ MODULE Dispatch ------------------------------
(***************************************************************************)
(* Execution: the way of a call of faf_execute through the functions that  *)
(* serve it, down to the kernels and the inner transforms                  *)
(* (src/faf_core.c, faf_vm.c, faf_rfft.c, faf_bluestein.c, faf_cwt.c,      *)
(* faf_fft_rader.c, faf_fft_splitradix.c, faf_pipeline.c), on the objects  *)
(* that Lifecycle creates.                                                 *)
(*                                                                         *)
(* What a function computes is not here (Butterflies, Kernels, Executor):  *)
(* here is which memory it touches, with what it needs there and what room *)
(* there is, in bytes; what it refuses; and which functions it calls with  *)
(* which buffers.                                                          *)
(***************************************************************************)
EXTENDS Lifecycle

CONSTANT JitThreshold   \* FAF_JIT_AUTO_THRESHOLD

VARIABLE walk    \* the functions that have not returned, the innermost last

vars == <<heap, ptr, stack, call, walk>>

-----------------------------------------------------------------------------
(* Memory.  A plane is where some elements start, and the room from there: *)
(* in a table of a transform, or in memory of the caller.                  *)

Null == [at |-> <<>>, room |-> 0]
Outside(name, bytes) == [at |-> name, room |-> bytes]
Room(t, slot) == IF Points(Block(t), slot) THEN heap[Target(Block(t), slot)].bytes ELSE 0
Least(a, b) == IF a < b THEN a ELSE b
(* count elements from the first one on, in a table laid out by hand.      *)
Plane(t, slot, first, count) ==
    LET e == Elem(heap[t].req)
        left == Room(t, slot) - first * e
    IN  [at |-> <<t, slot, first>>,
         room |-> IF left < 0 THEN 0 ELSE Least(left, count * e)]

Buffer(layout, n, re, im) == [layout |-> layout, n |-> n, re |-> re, im |-> im]
Flat(re) == Buffer("flat", 0, re, Null)
SplitAt(t, slot, n, first) ==
    Buffer("split", n, Plane(t, slot, first, n), Plane(t, slot, first + n, n))

Call(fn, t, in, out) == [fn |-> fn, t |-> t, in |-> in, out |-> out, i |-> 1]
Touch(plane, bytes) == [plane |-> plane, need |-> bytes]
Slot(t, slot, bytes) == Touch([at |-> <<t, slot, 0>>, room |-> Room(t, slot)], bytes)

Req(t)      == heap[t].req
Type(t)     == Req(t).maker
N(t)        == Req(t).n
E(t)        == Elem(Req(t))
Has(t, at)  == Points(Block(t), at)
Part(t, at) == Target(Block(t), at)
Kernel(t)   == heap[t].fn # "none"     \* execute_func
Backward(t)  == Req(t).dir = "inv"
Bins(t)     == N(t) \div 2 + 1
SplitBytes(b, bytes) == {Touch(b.re, bytes), Touch(b.im, bytes)}
Spectrum(t, b) == IF b.layout = "interleaved" THEN {Touch(b.re, 2 * Bins(t) * E(t))}
                  ELSE SplitBytes(b, Bins(t) * E(t))

-----------------------------------------------------------------------------
(* faf_execute: the first that applies.                                    *)
(* Mutant of Route: interleaved buffers are looked at first.               *)
RouteByLayout(t) ==
    IF Type(t) \in {"pipeline", "rfft"} THEN Type(t)
    ELSE IF Req(t).layout = "interleaved" THEN "vm"
    ELSE IF "bluestein" \in Req(t).flags /\ Has(t, "inner") THEN "bluestein"
    ELSE IF Type(t) \in {"cwt", "icwt"} THEN Type(t)
    ELSE IF Req(t).layout = "real" THEN "flat" ELSE "split"
Route(t) ==
    IF Type(t) \in {"pipeline", "rfft"} THEN Type(t)
    ELSE IF "bluestein" \in Req(t).flags /\ Has(t, "inner") THEN "bluestein"
    ELSE IF Type(t) \in {"cwt", "icwt"} THEN Type(t)
    ELSE CASE Req(t).layout = "interleaved" -> "vm"
           [] Req(t).layout = "real"        -> "flat"
           [] OTHER                         -> "split"

SpectrumIn(f)  == IF Backward(f.t) THEN f.in ELSE f.out
SignalIn(f)    == IF Backward(f.t) THEN f.out ELSE f.in
BothIm(f)      == f.in.im # Null /\ f.out.im # Null

(* The arguments a function turns down before it touches anything.         *)
Refused(f) ==
    LET t == f.t IN
    CASE f.fn = "execute" ->
             /\ Route(t) \in {"vm", "flat", "split"}
             /\ \/ f.in.layout # Req(t).layout \/ f.out.layout # Req(t).layout
                \/ Route(t) = "split" /\ ~BothIm(f)
      [] f.fn = "split" -> ~BothIm(f) \/ (~Kernel(t) /\ ~Has(t, "code"))
      [] f.fn = "interpret" -> ~Has(t, "code")
      [] f.fn = "kernel" ->
             CASE heap[t].fn = "dif"   -> ~Has(t, "t0") \/ ~Has(t, "t1")
               [] heap[t].fn = "dit"   -> ~Has(t, "t2")
               [] heap[t].fn = "rader" -> \E at \in {"inner", "inner_inv", "t0", "t1", "t2", "t3"} :
                                              ~Has(t, at)
               [] OTHER -> FALSE
      [] f.fn = "bluestein" ->
             \/ \E at \in {"inner", "inner_inv", "scratch"} : ~Has(t, at)
             \/ f.in.layout # Req(t).layout \/ f.out.layout # Req(t).layout
             \/ f.in.n # N(t) \/ f.out.n # N(t)
             \/ Req(t).layout # "interleaved" /\ (Req(t).layout # "split" \/ ~BothIm(f))
      [] f.fn = "rfft" ->
             \/ ~Has(t, "inner")
             \/ SignalIn(f).layout # "real" \/ SignalIn(f).n # N(t)
             \/ SpectrumIn(f).layout # Req(t).layout \/ SpectrumIn(f).n # Bins(t)
             \/ Req(t).layout = "hermitian" /\ SpectrumIn(f).im = Null
      [] f.fn = "cwt" -> \/ f.in.layout # "real" \/ f.out.layout # "real"
                         \/ f.in.n # N(t) \/ f.in.re.at = f.out.re.at
      [] f.fn = "icwt" -> \/ f.in.layout # "real" \/ f.out.layout # "real"
                          \/ f.out.n # N(t)
      [] f.fn = "pipeline" ->
             \/ f.in.layout # "real" \/ f.in.n # N(t)
             \/ IF Has(t, "inner_inv") THEN f.out.layout # "real" \/ f.out.n # N(t)
                ELSE f.out.layout # "hermitian" \/ f.out.n # Bins(t) \/ f.out.im = Null
      [] OTHER -> FALSE

-----------------------------------------------------------------------------
(* The work memory of a function.  faf_execute_f32 deinterleaves into the  *)
(* scratch if it is large enough, else into memory it allocates.           *)
Scratch(t, planes) == Room(t, "scratch") >= planes * N(t) * E(t)
FlatPlanes(t, k) ==
    IF Scratch(t, IF Kernel(t) THEN 2 ELSE 4) THEN SplitAt(t, "scratch", N(t), k * N(t))
    ELSE Buffer("split", N(t), Outside(<<"heap", k>>, N(t) * E(t)),
                               Outside(<<"heap", k + 1>>, N(t) * E(t)))
(* Mutant of FlatTarget: the result goes where the input was deinterleaved. *)
FlatSame(t) == FlatPlanes(t, 0)
FlatTarget(t) == FlatPlanes(t, 2)
(* faf_execute_split_f32 without a kernel: the outputs are the registers,  *)
(* so in place the input is copied first.                                  *)
InPlace(f) == f.in.re.at = f.out.re.at \/ f.in.im.at = f.out.im.at
CodeTable(t) ==
    CASE Type(t) = "dwt" -> 0
      [] Type(t) \in {"dct", "dst", "mdct"} -> Least(N(t), MaxFft) * E(t)
      [] OTHER -> IF FftPath(N(t), Req(t).flags) = "mixed" THEN 2 * N(t) * E(t)
                  ELSE N(t) * E(t)
BluM(t)  == N(Part(t, "inner"))
Bank(t)  == Part(t, "bank")
WorkOf(f) ==
    LET t == f.t IN
    CASE f.fn \in {"bluestein", "rfft", "pipeline"} -> {<<t, "scratch">>}
      [] f.fn = "flat" /\ Scratch(t, IF Kernel(t) THEN 2 ELSE 4) -> {<<t, "scratch">>}
      [] f.fn = "split" /\ ~Kernel(t) /\ InPlace(f) /\ Scratch(t, 2) -> {<<t, "scratch">>}
      [] f.fn = "kernel" /\ heap[t].fn = "dif"   -> {<<t, "t1">>}
      [] f.fn = "kernel" /\ heap[t].fn = "rader" -> {<<t, "t3">>}
      [] f.fn = "interpret" /\ Type(t) = "dwt" -> {<<t, "scratch">>}
      [] f.fn \in {"cwt", "icwt"} -> {<<Bank(t), "X_re">>, <<Bank(t), "Y_re">>}
      [] OTHER -> {}

(* Where memory is allocated at run time, and where a compiled kernel may  *)
(* do the work (JitCache).                                                 *)
Flagged(t) == "bluestein" \in Req(t).flags /\ Req(t).layout = "interleaved"
AllocatesPlanes(f) ==
    f.fn = "flat" /\ ~Flagged(f.t) /\ ~Scratch(f.t, IF Kernel(f.t) THEN 2 ELSE 4)
AllocatesAtRun(f) ==
    \/ f.fn = "vm" /\ Type(f.t) = "stft" /\ Req(f.t).prec = "f32" /\ Has(f.t, "t1")
    \/ AllocatesPlanes(f) /\ Kernel(f.t)
    \/ f.fn = "split" /\ ~Kernel(f.t) /\ InPlace(f) /\ ~Scratch(f.t, 2)
    \/ f.fn = "interpret"
Jitted(f) ==
    /\ Req(f.t).prec = "f32"
    /\ \/ f.fn \in {"vm", "flat"} /\ ~Kernel(f.t) /\ Has(f.t, "code")
             /\ N(f.t) >= JitThreshold
       \/ f.fn = "pipeline" /\ Has(f.t, "inner_inv") /\ f.in.layout = "real"
             /\ f.out.layout = "real"

-----------------------------------------------------------------------------
(* What a function itself reads and writes.                                *)
Accesses(f) ==
    LET t == f.t
        n == N(t)
        e == E(t)
        ends(bytes) == {Touch(f.in.re, bytes), Touch(f.out.re, bytes)}
    IN
    CASE f.fn = "vm" /\ Type(t) = "stft" /\ Req(t).prec = "f32" ->
             {Slot(t, "t1", n * 4), Touch(f.in.re, 2 * n * e)}
      [] f.fn = "flat" -> ends(2 * n * e)
      [] f.fn = "interpret" -> ends(2 * n * e) \cup {Slot(t, "t0", CodeTable(t))}
      [] f.fn = "split" /\ ~Kernel(t) ->
             SplitBytes(f.in, n * e) \cup SplitBytes(f.out, n * e)
             \cup {Slot(t, "t0", CodeTable(t))}
      [] f.fn = "kernel" ->
             SplitBytes(f.in, n * e) \cup SplitBytes(f.out, n * e) \cup
             CASE heap[t].fn = "dif" ->
                      {Slot(t, "t0", SrTwiddleCount(n) * e), Slot(t, "t1", 2 * n * e)}
               [] heap[t].fn = "dit" -> {Slot(t, "t2", 2 * n * e)}
               [] heap[t].fn = "rader" ->
                      {Slot(t, "t0", (n - 1) * e), Slot(t, "t1", (n - 1) * e),
                       Slot(t, "t2", 2 * (n - 1) * 4), Slot(t, "t3", 2 * (n - 1) * e)}
               [] OTHER -> {}
      [] f.fn = "bluestein" ->
             {Slot(t, "t0", 2 * n * e), Slot(t, "t1", 2 * BluM(t) * e),
              Slot(t, "scratch", 4 * BluM(t) * e)}
             \cup IF Req(t).layout = "interleaved" THEN ends(2 * n * e)
                  ELSE SplitBytes(f.in, n * e) \cup SplitBytes(f.out, n * e)
      [] f.fn = "rfft" ->
             {Touch(SignalIn(f).re, n * e), Slot(t, "t1", (n \div 4) * 2 * e),
              Slot(t, "scratch", (4 * (n \div 2) + 2 * Bins(t)) * e)}
             \cup Spectrum(t, SpectrumIn(f))
      [] f.fn \in {"cwt", "icwt"} ->
             LET b == Bank(t)
                 rows == Rows(Req(b))
                 psi == IF f.fn = "cwt" THEN "Psi"
                        ELSE IF e = 8 THEN "Psi_dual" ELSE "Psi_dual_f32"
                 needs == Least(rows - 1, rows) * Padded(Req(b)) + Bins(t)
             IN  {Touch(f.in.re, (IF f.fn = "cwt" THEN n ELSE rows * n) * e),
                  Touch(f.out.re, (IF f.fn = "cwt" THEN rows * n ELSE n) * e),
                  Slot(b, psi, needs * e)}
                 \cup {Slot(b, at, Bins(t) * e) : at \in {"X_re", "X_im", "Y_re", "Y_im"}}
      [] f.fn = "pipeline" ->
             {Slot(t, "scratch", 2 * Bins(t) * e)}
             \cup (IF Jitted(f) THEN ends(n * e) ELSE {})
             \cup IF Has(t, "inner_inv") THEN {} ELSE SplitBytes(f.out, Bins(t) * e)
      [] OTHER -> {}

-----------------------------------------------------------------------------
(* Which functions it calls, in order, with which buffers.                 *)
Rest(plane, bytes) == [plane EXCEPT !.at = Append(@, bytes),
                                    !.room = IF @ > bytes THEN @ - bytes ELSE 0]
Row(b, k, n, e) == Buffer("real", n, Rest(b.re, k * n * e), Null)
BankBuffer(b, re, im) ==
    Buffer("hermitian", Bins(b), Plane(b, re, 0, Bins(b)), Plane(b, im, 0, Bins(b)))
Interleaved(t, b) == Buffer("interleaved", N(t), b.re, Null)

Callees(f) ==
    LET t == f.t
        n == N(t)
        e == E(t)
    IN
    CASE f.fn = "execute" -> <<Call(Route(t), t, f.in, f.out)>>
      [] f.fn = "vm" ->
             <<Call("flat", t,
                    IF Type(t) = "stft" /\ Req(t).prec = "f32" /\ Has(t, "t1")
                    THEN Flat(Outside(<<"windowed">>, 2 * n * e)) ELSE Flat(f.in.re),
                    Flat(f.out.re))>>
      [] f.fn = "flat" ->
             IF Flagged(t)
             THEN <<Call("execute", t, Interleaved(t, f.in), Interleaved(t, f.out))>>
             ELSE IF Kernel(t)
             THEN <<Call("kernel", t, FlatPlanes(t, 0), FlatPlanes(t, 0))>>
             ELSE <<Call("split", t, FlatPlanes(t, 0), FlatTarget(t))>>
      [] f.fn = "split" -> IF Kernel(t) THEN <<Call("kernel", t, f.in, f.out)>> ELSE <<>>
      [] f.fn = "kernel" /\ heap[t].fn = "rader" ->
             LET a == SplitAt(t, "t3", n - 1, 0)
             IN  <<Call("split", Part(t, "inner"), a, a),
                   Call("split", Part(t, "inner_inv"), a, a)>>
      [] f.fn = "bluestein" ->
             LET a == SplitAt(t, "scratch", BluM(t), 0)
                 A == SplitAt(t, "scratch", BluM(t), 2 * BluM(t))
             IN  <<Call("execute", Part(t, "inner"), a, A),
                   Call("execute", Part(t, "inner_inv"), A, a)>>
      [] f.fn = "rfft" ->
             LET pack == SplitAt(t, "scratch", n \div 2, 0)
                 half == SplitAt(t, "scratch", n \div 2, 2 * (n \div 2))
             IN  <<IF Backward(t) THEN Call("split", Part(t, "inner"), half, pack)
                   ELSE Call("split", Part(t, "inner"), pack, half)>>
      [] f.fn \in {"cwt", "icwt"} ->
             LET b == Bank(t)
                 X == BankBuffer(b, "X_re", "X_im")
                 Y == BankBuffer(b, "Y_re", "Y_im")
                 rows == Rows(Req(b))
             IN  IF f.fn = "cwt"
                 THEN <<Call("execute", Part(b, "rfft"), f.in, X)>> \o
                      [k \in 1..rows |-> Call("execute", Part(b, "irfft"), Y,
                                              Row(f.out, k - 1, n, e))]
                 ELSE [k \in 1..rows |-> Call("execute", Part(b, "rfft"),
                                              Row(f.in, k - 1, n, e), Y)]
                      \o <<Call("execute", Part(b, "irfft"), X, Buffer("real", n, f.out.re, Null))>>
      [] f.fn = "pipeline" ->
             LET spec == [SplitAt(t, "scratch", Bins(t), 0) EXCEPT !.layout = "hermitian"]
             IN  <<Call("execute", Part(t, "inner"), f.in, spec)>> \o
                 If(Has(t, "inner_inv"), <<Call("execute", Part(t, "inner_inv"), spec, f.out)>>)
      [] OTHER -> <<>>

-----------------------------------------------------------------------------
(* The caller.  A buffer is as long as its layout and its length say; the  *)
(* lengths nobody looks at are right: those of complex and wavelet         *)
(* transforms, of a scalogram, of what a compiled pipeline is given.       *)
Here(name, layout, n, e) ==
    CASE layout = "interleaved" -> Buffer(layout, n, Outside(<<name>>, 2 * n * e), Null)
      [] layout = "real"        -> Buffer(layout, n, Outside(<<name>>, n * e), Null)
      [] OTHER -> Buffer(layout, n, Outside(<<name>>, n * e), Outside(<<name, "im">>, n * e))
Lengths(h) ==
    CASE Type(h) = "cwt"  -> {N(h), Bins(h)} \X {Rows(Req(h)) * N(h)}
      [] Type(h) = "icwt" -> {Rows(Req(h)) * N(h)} \X {N(h), Bins(h)}
      [] Type(h) = "pipeline" /\ Req(h).prec = "f32" /\ Has(h, "inner_inv") -> {<<N(h), N(h)>>}
      [] Type(h) \in {"rfft", "pipeline"} \/ Route(h) = "bluestein" ->
             {N(h), Bins(h)} \X {N(h), Bins(h)}
      [] OTHER -> {<<N(h), N(h)>>}
Offered(h) ==
    {Call("execute", h, Here("in", p[1], n[1], E(h)), Here(q, p[2], n[2], E(h))) :
        p \in Layouts \X Layouts, n \in Lengths(h), q \in {"in", "out"}}
    \cup {Call("execute", h, [Here("in", "split", N(h), E(h)) EXCEPT !.im = Null],
                             Here("out", "split", N(h), E(h)))}
(* In place, one buffer is both.                                           *)
Possible(f) == f.in.re.at = f.out.re.at => f.in = f.out

(* What the documentation of the transform asks for.                       *)
Legal(f) ==
    LET t == f.t
        is(b, layout, n) == b.layout = layout /\ b.n = n /\ (layout = "split" => b.im # Null)
    IN  CASE Type(t) = "rfft" -> /\ is(SignalIn(f), "real", N(t))
                                 /\ is(SpectrumIn(f), Req(t).layout, Bins(t))
          [] Type(t) = "cwt"  -> /\ is(f.in, "real", N(t)) /\ f.in.re.at # f.out.re.at
                                 /\ f.out.layout = "real"
          [] Type(t) = "icwt" -> is(f.out, "real", N(t)) /\ f.in.layout = "real"
          [] Type(t) = "pipeline" ->
                 /\ is(f.in, "real", N(t))
                 /\ IF Has(t, "inner_inv") THEN is(f.out, "real", N(t))
                    ELSE is(f.out, "hermitian", Bins(t))
          [] OTHER -> is(f.in, Req(t).layout, N(t)) /\ is(f.out, Req(t).layout, N(t))

Calls == Len(walk)
Now   == walk[Calls]
(* Mutant of Back: the caller repeats its call.                            *)
BackAgain(w) == IF Len(w) = 1 THEN <<>> ELSE SubSeq(w, 1, Len(w) - 1)
Back(w) == IF Len(w) = 1 THEN <<>>
           ELSE [SubSeq(w, 1, Len(w) - 1) EXCEPT ![Len(w) - 1].i = @ + 1]

Execute(h) ==
    /\ Idle /\ walk = <<>> /\ h \in Handles
    /\ \E f \in Offered(h) : Possible(f) /\ walk' = <<f>>
    /\ UNCHANGED lifeVars

(* -1 is passed on by everyone.                                            *)
Refuse == /\ walk # <<>> /\ Refused(Now)
          /\ walk' = <<>> /\ UNCHANGED lifeVars

OutOfMemory == /\ walk # <<>> /\ ~Refused(Now) /\ Now.i = 1 /\ AllocatesAtRun(Now)
               /\ walk' = <<>> /\ UNCHANGED lifeVars

(* Without a kernel there is another way when the planes are refused: the  *)
(* interpreter of interleaved registers.                                   *)
FallBack == /\ walk # <<>> /\ ~Refused(Now) /\ Now.i = 1
            /\ AllocatesPlanes(Now) /\ ~Kernel(Now.t)
            /\ walk' = Append(walk, Call("interpret", Now.t, Now.in, Now.out))
            /\ UNCHANGED lifeVars

CallNext == /\ walk # <<>> /\ ~Refused(Now) /\ Now.i <= Len(Callees(Now))
            /\ walk' = Append(walk, Callees(Now)[Now.i])
            /\ UNCHANGED lifeVars

Return == /\ walk # <<>> /\ ~Refused(Now) /\ Now.i > Len(Callees(Now))
          /\ walk' = Back(walk) /\ UNCHANGED lifeVars

(* The kernel of the JIT cache did it.                                     *)
ServeByKernel == /\ walk # <<>> /\ ~Refused(Now) /\ Now.i = 1 /\ Jitted(Now)
                 /\ walk' = Back(walk) /\ UNCHANGED lifeVars

Stay(A) == walk = <<>> /\ A /\ UNCHANGED walk
Next ==
    \/ Stay(\/ \E r \in Requests : Create(r)
            \/ \E h \in Handles : CreateInverse(h) \/ Destroy(h)
            \/ Step \/ Free)
    \/ \E h \in Handles : Execute(h)
    \/ Refuse \/ OutOfMemory \/ FallBack \/ CallNext \/ Return \/ ServeByKernel

(* What goes on by itself once the caller has called.                      *)
Work == \/ Stay(Step \/ Free) \/ Refuse \/ OutOfMemory \/ FallBack
        \/ CallNext \/ Return \/ ServeByKernel

DispatchInit == Init /\ walk = <<>>
Spec == DispatchInit /\ [][Next]_vars
(* The code of a call runs on.                                             *)
FairSpec == Spec /\ WF_vars(Work)

-----------------------------------------------------------------------------
TypeOK ==
    /\ LifeTypeOK
    /\ \A k \in 1..Calls : walk[k].i \in 1..Len(Callees(walk[k])) + 1

(* No function on the way of a call touches a table, work memory or a      *)
(* buffer of the caller past its end, whatever the layouts and lengths     *)
(* that are checked; what Lifecycle allocates is what execution needs.     *)
SafeCalls ==
    walk # <<>> /\ ~Refused(Now) =>
        \A a \in Accesses(Now) : a.need <= a.plane.room

(* A function never uses work memory that one of its callers still uses.   *)
WorkApart ==
    \A k, l \in 1..Calls : k < l => WorkOf(walk[k]) \cap WorkOf(walk[l]) = {}

(* A function is never called for a transform that it is already at work   *)
(* for: every call ends.                                                   *)
NoReentry ==
    \A k, l \in 1..Calls : walk[k].fn = walk[l].fn /\ walk[k].t = walk[l].t => k = l

(* A call that the documentation allows is refused by no function on its   *)
(* way: a transform that was created can be executed.  (A DCT, DST or MDCT *)
(* whose program was refused memory is returned without it.)               *)
Hollow(t) == Type(t) \in {"dct", "dst", "mdct"} /\ ~Has(t, "code")
LegalCallsServed ==
    walk # <<>> /\ Legal(walk[1]) /\ ~Hollow(walk[1].t) => ~Refused(Now)

(* Every creation, destruction and execution ends.                         *)
CallsEnd == (walk # <<>> \/ ~Idle) ~> (walk = <<>> /\ Idle)

(* The window of an STFT is applied before its FFT.                        *)
WindowFirst ==
    walk # <<>> /\ Type(Now.t) = "stft" /\ Now.fn \in {"split", "kernel"} =>
        \E k \in 1..Calls : walk[k].in.re.at = <<"windowed">>

-----------------------------------------------------------------------------
(* What the theorems about calls suppose of Requests.                      *)

(* With interleaved buffers, Bluestein's flag only where there are inner   *)
(* transforms for it: where another algorithm does the work,               *)
(* faf_execute_f32 calls faf_execute again without end.  And no MDCT of no *)
(* elements, whose planes are all at one place.                            *)
FlagsMeant ==
    \A r \in Requests :
        /\ r.n > 0
        /\ /\ "bluestein" \in r.flags /\ r.layout = "interleaved"
           /\ r.maker \in {"fft", "stft", "dct", "dst", "mdct"}
           => /\ r.maker \in {"fft", "stft"}
              /\ FftPath(r.n, r.flags) \in {"rader", "bluestein"}
(* Bluestein's flag not where Rader's algorithm is taken without it, no    *)
(* layout of real elements where execution takes complex ones, and a tail  *)
(* of a pipeline in double precision only after such a head: with the      *)
(* others the code reads or writes past an end.                            *)
CallsMeant ==
    \A r \in Requests :
        /\ "bluestein" \in r.flags /\ r.maker \in {"fft", "stft"} =>
               FftPath(r.n, r.flags) # "rader"
        /\ r.layout = "real" => r.maker \notin {"dwt", "dct", "dst", "mdct"}
        /\ "tail64" \in r.flags /\ r.maker = "pipeline" => r.prec = "f64"
(* The head of a spectral pipeline gives planes: execution has no others.  *)
HeadsMeant == \A r \in Requests : r.maker = "pipeline" => r.layout = "hermitian"
(* The search for the length of Bluestein's convolution finds one.         *)
LengthsFound == \A r \in Requests : BluesteinLength(r.n) \in Nat
=============================================================================
