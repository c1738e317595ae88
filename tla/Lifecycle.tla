------------------------------ MODULE Lifecycle -----------------------------
(***************************************************************************)
(* Creation and destruction of transforms: which blocks of memory each     *)
(* creator asks for and in which order, what it gives back when one of     *)
(* them is refused, which constructors call which, and what destroy frees  *)
(* (src/faf_core.c, faf_rfft.c, faf_bluestein.c, faf_fft_rader.c,          *)
(* faf_cwt.c, and the spectral pipelines of chirp.c).                      *)
(*                                                                         *)
(* A constructor is a sequence of steps (Steps) that the frame on top of   *)
(* the stack goes through.  Every allocation may be refused.  Pointers are *)
(* a relation: ptr holds one record for each pointer that is not null.     *)
(* Lengths are in bytes, with the code's rounding.  The transforms that    *)
(* constructors run to fill tables (the spectra of Bluestein's and Rader's *)
(* kernels, the wrap check of the CWT) read blocks that are there by then. *)
(***************************************************************************)
EXTENDS Sizes

CONSTANTS
    Requests,    \* what the caller asks for
    MaxHandles,  \* transforms the caller holds before it creates another
    MaxBlocks,   \* blocks that can be live at once: above what is ever needed
    Scales       \* wavelet scales of a CWT bank

VARIABLES
    heap,   \* live blocks: [kind, bytes, req, fn], by their address
    ptr,    \* pointers: [by |-> who holds it, at |-> where, to |-> address]
    stack,  \* constructors that have not returned, the innermost last
    call    \* the caller's last call: [maker, answer, told, denied]

lifeVars == <<heap, ptr, stack, call>>

Align64(b) == ((b + 63) \div 64) * 64
Elem(r) == IF r.prec = "f64" THEN 8 ELSE 4

-----------------------------------------------------------------------------
(* Requests: the configuration, and the function it is given to.  flags    *)
(* has the FAF_FLAG_s and, by name, what only one constructor looks at:    *)
(* "seven" (allow_7smooth), "lowpass" and "strict" (CWT), "analysis" (a    *)
(* DWT without a synthesis), "irfft", "tail64", "ops" and "unknown" (a     *)
(* pipeline ends in an inverse, that in a precision of its own, has        *)
(* operations between, has one whose builtin is not registered).           *)

Request(maker, n, prec, dir, layout, flags) ==
    [maker |-> maker, n |-> n, prec |-> prec, dir |-> dir, layout |-> layout,
     flags |-> flags]
Makers == {"fft", "stft", "rfft", "cwt", "icwt", "dwt", "dct", "dst", "mdct", "pipeline"}
Layouts == {"split", "hermitian", "real", "interleaved"}
Flags == {"measure", "bluestein", "seven", "lowpass", "strict", "analysis",
          "irfft", "ops", "unknown", "tail64"}
RequestSet == [maker : Makers, n : Nat, prec : {"f32", "f64"}, dir : {"fwd", "inv"},
               layout : Layouts, flags : SUBSET Flags]
ASSUME RequestsAssumption == Requests \subseteq RequestSet
ASSUME LimitsAssumption == Scales \in Nat /\ MaxFft \in Nat

Inner(r, n, dir, flags) == Request("fft", n, r.prec, dir, "split", flags)
InnerReal(r, dir) == Request("rfft", r.n, r.prec, dir, "hermitian", {})

(* What is not refused before anything is allocated.                       *)
Accepts(r) ==
    CASE r.maker \in {"fft", "stft"} ->
             FftPath(r.n, r.flags) # "none" /\ r.layout \notin {"real", "hermitian"}
      [] r.maker = "rfft" ->
             /\ Creates("rfft", r.n) /\ "bluestein" \notin r.flags
             /\ r.layout \in {"hermitian", "interleaved"}
      [] r.maker \in {"cwt", "icwt", "bank"} -> Creates("cwt", r.n)
      [] r.maker = "dwt" -> Creates("dwt", r.n) /\ "bluestein" \notin r.flags
      [] r.maker \in {"dct", "dst", "mdct"} -> Creates(r.maker, r.n)
      [] r.maker = "pipeline" ->
             Creates("rfft", r.n) /\ r.layout \in {"hermitian", "interleaved"}

-----------------------------------------------------------------------------
(* The steps of the constructors.                                          *)

New(kind)    == [op |-> "new", kind |-> kind, tells |-> TRUE]
NewQuiet(kind) == [New(kind) EXCEPT !.tells = FALSE]
Alloc(at, b) == [op |-> "alloc", at |-> at, bytes |-> b]
Generate(b)  == [op |-> "generate", bytes |-> b]   \* code and table, or neither
Check(ats)   == [op |-> "check", ats |-> ats, tells |-> TRUE]
CheckQuiet(ats) == [Check(ats) EXCEPT !.tells = FALSE]
Make(at, r)  == [op |-> "make", at |-> at, req |-> r]
Test         == [op |-> "test"]      \* scratch for a computation, a validation
Reject       == [op |-> "reject"]
Use(fn)      == [op |-> "use", fn |-> fn]
Measure(b)   == [op |-> "measure", bytes |-> b]
WindowTable(b) == [op |-> "window", bytes |-> b]

Need(at, b) == <<Alloc(at, b), Check({at})>>
If(c, steps) == IF c THEN steps ELSE <<>>

(* Mutant of SplitRadixSteps: the work memory holds one plane.             *)
SplitRadixHalfWork(r) ==
    <<New("transform")>> \o Need("t0", Align64(SrTwiddleCount(r.n) * Elem(r)))
    \o Need("t1", Align64(r.n * Elem(r))) \o <<Use("dif")>>
    \o Need("scratch", Align64(4 * r.n * Elem(r)))
    \o If("measure" \in r.flags /\ r.n >= 32, <<Measure(Align64(2 * r.n * Elem(r)))>>)
SplitRadixSteps(r) ==
    <<New("transform")>> \o Need("t0", Align64(SrTwiddleCount(r.n) * Elem(r)))
    \o Need("t1", Align64(2 * r.n * Elem(r))) \o <<Use("dif")>>
    \o Need("scratch", Align64(4 * r.n * Elem(r)))
    \o If("measure" \in r.flags /\ r.n >= 32, <<Measure(Align64(2 * r.n * Elem(r)))>>)

(* Mutant of CodeletSteps: the transform does not learn its kernel.        *)
CodeletNoKernel(r) ==
    <<New("transform")>> \o Need("scratch", Align64(4 * r.n * Elem(r)))
CodeletSteps(r) ==
    <<New("transform"), Use("codelet")>> \o Need("scratch", Align64(4 * r.n * Elem(r)))

GeneratedSteps(r, table) ==
    <<New("transform"), Generate(table), Check({"code"})>>
    \o Need("scratch", Align64(4 * r.n * Elem(r)))

(* Mutant of RaderSteps: the inner transforms are asked for as the public  *)
(* constructor would.                                                      *)
RaderPublicInner(r) ==
    LET m == r.n - 1
        b == Align64(m * Elem(r))
    IN  <<New("transform"), Make("inner", Inner(r, m, "fwd", {})),
          Make("inner_inv", Inner(r, m, "inv", {}))>>
        \o Need("t2", Align64(2 * m * 4))
        \o <<Alloc("t0", b), Alloc("t1", b), Check({"t0", "t1"})>>
        \o Need("t3", Align64(2 * m * Elem(r))) \o <<Use("rader")>>
        \o Need("scratch", Align64(4 * r.n * Elem(r)))
RaderSteps(r) ==
    LET m == r.n - 1
        b == Align64(m * Elem(r))
    IN  <<New("transform"), Make("inner", Inner(r, m, "fwd", {"seven"})),
          Make("inner_inv", Inner(r, m, "inv", {"seven"}))>>
        \o Need("t2", Align64(2 * m * 4))
        \o <<Alloc("t0", b), Alloc("t1", b), Check({"t0", "t1"})>>
        \o Need("t3", Align64(2 * m * Elem(r))) \o <<Use("rader")>>
        \o Need("scratch", Align64(4 * r.n * Elem(r)))

BluesteinSteps(r) ==
    LET M == BluesteinLength(r.n)
    IN  <<New("transform"), Make("inner", Inner(r, M, "fwd", {})),
          Make("inner_inv", Inner(r, M, "inv", {})),
          Alloc("t0", 2 * r.n * Elem(r)), Alloc("t1", 2 * M * Elem(r)),
          Check({"t0", "t1"})>>
        \o Need("scratch", Align64(6 * M * Elem(r)))

FftSteps(r) ==
    CASE FftPath(r.n, r.flags) = "codelet"    -> CodeletSteps(r)
      [] FftPath(r.n, r.flags) = "splitradix" -> SplitRadixSteps(r)
      [] FftPath(r.n, r.flags) = "radix2"     -> GeneratedSteps(r, r.n * Elem(r))
      [] FftPath(r.n, r.flags) = "mixed"      -> GeneratedSteps(r, 2 * r.n * Elem(r))
      [] FftPath(r.n, r.flags) = "rader"      -> RaderSteps(r)
      [] FftPath(r.n, r.flags) = "bluestein"  -> BluesteinSteps(r)

(* The result of faf_create_fft becomes the STFT.                          *)
StftSteps(r) == <<Make("self", [r EXCEPT !.maker = "fft", !.dir = "fwd"]),
                  WindowTable(r.n * 4)>>

(* DCT, DST and MDCT do not look whether there is code, and have no scratch.*)
RealSteps(r) ==
    <<New("transform"),
      Generate((IF r.n > MaxFft THEN MaxFft ELSE r.n) * Elem(r))>>

DwtSteps(r) ==
    <<New("transform")>> \o Need("scratch", Align64(r.n * Elem(r)))
    \o <<Generate(0), Check({"code"})>>

RfftSteps(r) ==
    LET nc == r.n \div 2
        ntw == nc \div 2
    IN  <<New("transform"), Make("inner", Inner(r, nc, r.dir, {}))>>
        \o If(ntw > 0, Need("t1", ntw * 2 * Elem(r)))
        \o Need("scratch", Align64((4 * nc + 2 * (nc + 1)) * Elem(r)))

Rows(r) == Scales + (IF "lowpass" \in r.flags THEN 1 ELSE 0)
Padded(r) == ((r.n \div 2 + 1 + 15) \div 16) * 16
BankSteps(r) ==
    LET nbins == r.n \div 2 + 1
        table == Rows(r) * Padded(r)
        plane == Align64(Padded(r) * Elem(r))
    IN  <<New("bank"), Alloc("scales", Align64(Scales * 8)),
          Alloc("freqs_hz", Align64(Scales * 8)), Alloc("Psi_l2", Align64(table * 8)),
          Alloc("A", Align64(nbins * 8)), Alloc("Psi_dual", Align64(table * 8)),
          Alloc("xi", Align64(nbins * 8)), Alloc("Psi", Align64(table * Elem(r))),
          Check({"scales", "freqs_hz", "Psi_l2", "A", "Psi_dual", "xi", "Psi"}), Test>>
        \o If(r.prec = "f32", Need("Psi_dual_f32", Align64(table * 4)))
        \o If("strict" \in r.flags, <<Test>>)
        \o <<Make("rfft", InnerReal(r, "fwd")), Make("irfft", InnerReal(r, "inv")),
             Alloc("X_re", plane), Alloc("X_im", plane), Alloc("Y_re", plane),
             Alloc("Y_im", plane), Check({"X_re", "X_im", "Y_re", "Y_im"}), Test>>
(* Mutant of CwtSteps: the last allocation fails without a word.           *)
CwtQuiet(r) == <<Make("bank", [r EXCEPT !.maker = "bank"]), NewQuiet("transform")>>
CwtSteps(r) == <<Make("bank", [r EXCEPT !.maker = "bank"]), New("transform")>>

(* chirp_compile_spectral_pipeline.  The tail is the inverse of the head,  *)
(* or has a :precision of its own.                                         *)
TailPrec(r) == IF "tail64" \in r.flags THEN "f64" ELSE r.prec
PipelineSteps(r) ==
    <<Make("inner", [InnerReal(r, "fwd") EXCEPT !.layout = r.layout])>>
    \o If("irfft" \in r.flags,
          <<Make("inner_inv", [InnerReal(r, "inv") EXCEPT !.layout = r.layout,
                                                          !.prec = TailPrec(r)])>>)
    \o <<NewQuiet("transform")>>
    \o If("ops" \in r.flags, <<Alloc("code", 16), CheckQuiet({"code"})>>)
    \o If("unknown" \in r.flags, <<Reject>>)
    \o Need("scratch", Align64((r.n \div 2 + 1) * 2 * Elem(r)))

Steps(r) ==
    CASE r.maker = "fft"      -> FftSteps(r)
      [] r.maker = "stft"     -> StftSteps(r)
      [] r.maker \in {"dct", "dst", "mdct"} -> RealSteps(r)
      [] r.maker = "dwt"      -> DwtSteps(r)
      [] r.maker = "rfft"     -> RfftSteps(r)
      [] r.maker = "bank"     -> BankSteps(r)
      [] r.maker \in {"cwt", "icwt"} -> CwtSteps(r)
      [] r.maker = "pipeline" -> PipelineSteps(r)

-----------------------------------------------------------------------------
(* Who holds pointers.                                                     *)
Caller      == <<"caller", 0>>
Destroyer   == <<"destroyer", 0>>     \* pointers that destroy has yet to free
Frame(k)    == <<"frame", k>>         \* "self" and local variables
Block(b)    == <<"block", b>>

Held(by)    == {p \in ptr : p.by = by}
Points(by, at) == \E p \in ptr : p.by = by /\ p.at = at
Target(by, at) == (CHOOSE p \in ptr : p.by = by /\ p.at = at).to
Handles     == {p.to : p \in Held(Caller)}

Pointer(by, at, to) == [by |-> by, at |-> at, to |-> to]
(* An assignment to a pointer: what it pointed to is not freed.            *)
Assign(by, at, to) == {p \in ptr : ~(p.by = by /\ p.at = at)} \cup {Pointer(by, at, to)}

Depth == Len(stack)
Top   == stack[Depth]
Me    == Frame(Depth)
Self  == Target(Me, "self")
Idle  == stack = <<>> /\ Held(Destroyer) = {}
Cur   == Steps(Top.req)[Top.pc]
AtStep(op) == /\ stack # <<>> /\ Top.pc \in 1..Len(Steps(Top.req))
              /\ Cur.op = op

Advance == stack' = [stack EXCEPT ![Depth].pc = @ + 1]
Deny    == call' = [call EXCEPT !.denied = TRUE]

Record(kind, bytes, r) == [kind |-> kind, bytes |-> bytes, req |-> r, fn |-> "none"]

Stored(h, b, block) == [c \in DOMAIN h \cup {b} |-> IF c = b THEN block ELSE h[c]]

(* The allocator: any free address will do, so the least one.              *)
Fresh(b, used) == b \in 1..MaxBlocks /\ b \notin used /\ \A c \in 1..b - 1 : c \in used

(* A failing constructor has destroy free the object under construction    *)
(* and its own local objects (pc 0), then returns NULL.                    *)
(* Mutant of GiveUp: only the object under construction is destroyed.      *)
GiveUpSelf(k) ==
    {IF p.by = Frame(k) /\ p.at = "self" THEN Pointer(Destroyer, "", p.to) ELSE p :
        p \in {q \in ptr : q.by = Frame(k) => q.at = "self"}}
GiveUp(k) == {IF p.by = Frame(k) THEN Pointer(Destroyer, "", p.to) ELSE p : p \in ptr}
Fail(tells) ==
    /\ stack' = [stack EXCEPT ![Depth].pc = 0]
    /\ ptr' = GiveUp(Depth)
    /\ call' = [call EXCEPT !.told = @ \/ tells]
    /\ UNCHANGED heap

-----------------------------------------------------------------------------
Init == /\ heap = <<>> /\ ptr = {} /\ stack = <<>>
        /\ call = [maker |-> "none", answer |-> "none", told |-> FALSE, denied |-> FALSE]

Enter(r) ==
    IF Accepts(r)
    THEN /\ stack' = <<[req |-> r, pc |-> 1]>>
         /\ call' = [maker |-> r.maker, answer |-> "none", told |-> FALSE, denied |-> FALSE]
    ELSE /\ call' = [maker |-> r.maker, answer |-> "null", told |-> TRUE, denied |-> TRUE]
         /\ UNCHANGED stack

Create(r) ==
    /\ Idle /\ Cardinality(Handles) < MaxHandles
    /\ Enter(r)
    /\ UNCHANGED <<heap, ptr>>

Flipped(dir) == IF dir = "inv" THEN "fwd" ELSE "inv"
(* faf_create_inverse.  An STFT is forward whatever it is asked for.       *)
Invertible(r) == r.maker \notin {"icwt", "pipeline"} /\ "analysis" \notin r.flags
InverseOf(r) == IF r.maker = "cwt" THEN [r EXCEPT !.maker = "icwt"]
                ELSE [r EXCEPT !.dir = Flipped(@)]
CreateInverse(h) ==
    /\ Idle /\ h \in Handles /\ Cardinality(Handles) <= MaxHandles
    /\ IF Invertible(heap[h].req) THEN Enter(InverseOf(heap[h].req))
       ELSE /\ call' = [call EXCEPT !.answer = "null", !.told = TRUE, !.denied = TRUE]
            /\ UNCHANGED stack
    /\ UNCHANGED <<heap, ptr>>

-----------------------------------------------------------------------------
(* One step of the constructor on top of the stack.                        *)

(* calloc of the object itself; it takes over what was made before it.     *)
StepNew ==
    /\ AtStep("new")
    /\ \/ \E b \in 1..MaxBlocks :
            /\ Fresh(b, DOMAIN heap)
            /\ heap' = Stored(heap, b, Record(Cur.kind, 0, Top.req))
            /\ ptr' = {IF p.by = Me THEN Pointer(Block(b), p.at, p.to) ELSE p : p \in ptr}
                          \cup {Pointer(Me, "self", b)}
            /\ Advance /\ UNCHANGED call
       \/ /\ stack' = [stack EXCEPT ![Depth].pc = 0]
          /\ ptr' = GiveUp(Depth)
          /\ call' = [call EXCEPT !.told = @ \/ Cur.tells, !.denied = TRUE]
          /\ UNCHANGED heap

StepAlloc ==
    /\ AtStep("alloc") /\ Advance
    /\ \/ \E b \in 1..MaxBlocks :
            /\ Fresh(b, DOMAIN heap)
            /\ heap' = Stored(heap, b, Record("table", Cur.bytes, Top.req))
            /\ ptr' = Assign(Block(Self), Cur.at, b)
            /\ UNCHANGED call
       \/ Deny /\ UNCHANGED <<heap, ptr>>

(* The generators free their code when the table is refused.               *)
StepGenerate ==
    /\ AtStep("generate") /\ Advance
    /\ \/ \E b, c \in 1..MaxBlocks :
            /\ Fresh(b, DOMAIN heap) /\ Fresh(c, DOMAIN heap \cup {b})
            /\ IF Cur.bytes = 0
               THEN /\ heap' = Stored(heap, b, Record("table", 16 * MaxInst, Top.req))
                    /\ ptr' = Assign(Block(Self), "code", b)
               ELSE /\ heap' = Stored(Stored(heap, b, Record("table", 16 * MaxInst, Top.req)),
                                       c, Record("table", Cur.bytes, Top.req))
                    /\ ptr' = Assign(Block(Self), "code", b)
                                \cup {Pointer(Block(Self), "t0", c)}
            /\ UNCHANGED call
       \/ Deny /\ UNCHANGED <<heap, ptr>>

StepCheck ==
    /\ AtStep("check")
    /\ IF \A at \in Cur.ats : Points(Block(Self), at)
       THEN Advance /\ UNCHANGED <<heap, ptr, call>>
       ELSE Fail(Cur.tells)

StepTest ==
    /\ AtStep("test")
    /\ \/ Advance /\ UNCHANGED <<heap, ptr, call>>
       \/ /\ stack' = [stack EXCEPT ![Depth].pc = 0]
          /\ ptr' = GiveUp(Depth)
          /\ call' = [call EXCEPT !.told = TRUE, !.denied = TRUE]
          /\ UNCHANGED heap

StepReject ==
    /\ AtStep("reject")
    /\ stack' = [stack EXCEPT ![Depth].pc = 0]
    /\ ptr' = GiveUp(Depth)
    /\ call' = [call EXCEPT !.told = TRUE, !.denied = TRUE]
    /\ UNCHANGED heap

StepUse ==
    /\ AtStep("use") /\ Advance
    /\ heap' = [heap EXCEPT ![Self].fn = Cur.fn]
    /\ UNCHANGED <<ptr, call>>

(* maybe_measure_pot2: the table is kept only if the other kernel wins; a  *)
(* refused allocation, also one of the timing's, decides nothing.          *)
StepMeasure ==
    /\ AtStep("measure") /\ Advance
    /\ \/ UNCHANGED <<heap, ptr>>
       \/ \E b \in 1..MaxBlocks :
            /\ Fresh(b, DOMAIN heap)
            /\ heap' = Stored([heap EXCEPT ![Self].fn = "dit"],
                              b, Record("table", Cur.bytes, Top.req))
            /\ ptr' = Assign(Block(Self), "t2", b)
    /\ UNCHANGED call

StepWindow ==
    /\ AtStep("window")
    /\ \/ \E b \in 1..MaxBlocks :
            /\ Fresh(b, DOMAIN heap)
            /\ heap' = Stored([heap EXCEPT ![Self].req = Top.req],
                              b, Record("table", Cur.bytes, Top.req))
            /\ ptr' = Assign(Block(Self), "t1", b)
            /\ Advance /\ UNCHANGED call
       \/ /\ stack' = [stack EXCEPT ![Depth].pc = 0]
          /\ ptr' = GiveUp(Depth)
          /\ Deny /\ UNCHANGED heap

StepMake ==
    /\ AtStep("make")
    /\ IF Accepts(Cur.req)
       THEN /\ stack' = Append(stack, [req |-> Cur.req, pc |-> 1])
            /\ UNCHANGED <<heap, ptr, call>>
       ELSE Fail(TRUE)

-----------------------------------------------------------------------------
(* The innermost constructor returns.                                      *)

Outer == stack[Depth - 1]
OuterStep == Steps(Outer.req)[Outer.pc]
(* Where the constructor that called puts the result: a field of its       *)
(* object, or a local variable.                                            *)
Receiver == IF Depth = 1 THEN Caller
            ELSE IF Points(Frame(Depth - 1), "self") /\ OuterStep.at # "self"
            THEN Block(Target(Frame(Depth - 1), "self"))
            ELSE Frame(Depth - 1)

ReturnMade ==
    /\ stack # <<>> /\ Top.pc = Len(Steps(Top.req)) + 1
    /\ ptr' = {p \in ptr : p.by # Me}
                 \cup {Pointer(Receiver, IF Depth = 1 THEN "handle" ELSE OuterStep.at, Self)}
    /\ IF Depth = 1
       THEN stack' = <<>> /\ call' = [call EXCEPT !.answer = "made"]
       ELSE /\ stack' = [SubSeq(stack, 1, Depth - 1) EXCEPT ![Depth - 1].pc = @ + 1]
            /\ UNCHANGED call
    /\ UNCHANGED heap

ReturnNull ==
    /\ stack # <<>> /\ Top.pc = 0 /\ Held(Destroyer) = {}
    /\ IF Depth = 1
       THEN /\ stack' = <<>> /\ call' = [call EXCEPT !.answer = "null"]
            /\ UNCHANGED ptr
       ELSE /\ stack' = [SubSeq(stack, 1, Depth - 1) EXCEPT ![Depth - 1].pc = 0]
            /\ ptr' = GiveUp(Depth - 1)
            /\ UNCHANGED call
    /\ UNCHANGED heap

-----------------------------------------------------------------------------
(* faf_destroy_transform.                                                  *)

Destroy(h) ==
    /\ Idle /\ h \in Handles
    /\ ptr' = {IF p.by = Caller /\ p.to = h THEN Pointer(Destroyer, "", h) ELSE p : p \in ptr}
    /\ UNCHANGED <<heap, stack, call>>

(* The pointers that destroy frees with a block.                           *)
Freed(kind) ==
    CASE kind = "transform" -> {"bank", "inner", "inner_inv", "code", "scratch"}
                                   \cup {"t0", "t1", "t2", "t3"}
      [] kind = "bank" -> {"scales", "freqs_hz", "Psi", "Psi_l2", "A", "Psi_dual",
                           "Psi_dual_f32", "xi", "X_re", "X_im", "Y_re", "Y_im",
                           "rfft", "irfft"}
      [] OTHER -> {}

(* One block at a time; the order makes no difference here.                *)
Free ==
    /\ Held(Destroyer) # {}
    /\ LET p == CHOOSE q \in Held(Destroyer) : TRUE
           b == p.to
           kids == {q \in Held(Block(b)) : q.at \in Freed(heap[b].kind)}
       IN  /\ heap' = [c \in DOMAIN heap \ {b} |-> heap[c]]
           /\ ptr' = (ptr \ ({p} \cup Held(Block(b))))
                        \cup {Pointer(Destroyer, "", q.to) : q \in kids}
    /\ UNCHANGED <<stack, call>>

Step == \/ StepNew \/ StepAlloc \/ StepGenerate \/ StepCheck \/ StepTest \/ StepReject
        \/ StepUse \/ StepMeasure \/ StepWindow \/ StepMake
        \/ ReturnMade \/ ReturnNull

LifeNext == \/ \E r \in Requests : Create(r)
            \/ \E h \in Handles : CreateInverse(h) \/ Destroy(h)
            \/ Step \/ Free

LifeSpec == Init /\ [][LifeNext]_lifeVars

-----------------------------------------------------------------------------
Slots == Freed("transform") \cup Freed("bank")

LifeTypeOK ==
    /\ \A b \in DOMAIN heap : b \in 1..MaxBlocks
    /\ \A p \in ptr : p.to \in 1..MaxBlocks
    /\ \A k \in 1..Depth : stack[k].pc \in 0..Len(Steps(stack[k].req)) + 1
    /\ call.answer \in {"none", "made", "null"}
    /\ call.told \in BOOLEAN /\ call.denied \in BOOLEAN

(* No pointer, of the caller, of a constructor or in a live block, is      *)
(* left to a block that was freed.                                         *)
NoDangling ==
    \A p \in ptr : /\ p.to \in DOMAIN heap
                   /\ \A b \in 1..MaxBlocks : p.by = Block(b) => b \in DOMAIN heap
(* Two pointers never lead to one block: what destroy frees, nothing else  *)
(* frees again.                                                            *)
OneOwner == \A p, q \in ptr : p.to = q.to => p = q
(* And whatever fails on the way, no block is lost: each live one can be   *)
(* reached by the caller, by a constructor at work or by destroy.          *)
NoLeak == \A b \in DOMAIN heap : \E p \in ptr : p.to = b
Owned == NoDangling /\ OneOwner /\ NoLeak

(* When a creator returns NULL, it has told why: faf_get_error is not that *)
(* of an earlier call.  The window of an STFT and the object and the code  *)
(* of a pipeline are the allocations whose failure is not told.            *)
NullExplained ==
    call.answer = "null" => call.told \/ call.maker \in {"stft", "pipeline"}

(* A legal request is answered with NULL only if memory was refused or a   *)
(* CWT did not validate: no constructor asks another one for a transform   *)
(* that does not exist.                                                    *)
LegalRequestsMade == call.answer = "null" => call.denied

-----------------------------------------------------------------------------
(* Which requests the code answers as promised: what the theorems about    *)
(* NoLeak and LegalRequestsMade suppose of Requests.                       *)

(* The window of an STFT goes where the transform it is made of may have   *)
(* its work memory (split radix) or a table (Rader, Bluestein): requests   *)
(* that keep clear of that.                                                *)
Plain(r) == FftPath(r.n, r.flags) \notin {"splitradix", "rader", "bluestein"}
WindowsApart == \A r \in Requests : r.maker = "stft" => Plain(r)

(* The arithmetic that constructors rely on: half of a 5-smooth even       *)
(* number and the length of Bluestein's convolution are 5-smooth.          *)
SizesAgree ==
    \A r \in Requests : /\ Creates("rfft", r.n) => Is5Smooth(r.n \div 2)
                        /\ Is5Smooth(BluesteinLength(r.n))
=============================================================================
