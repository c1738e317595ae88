# FastAndFourier: specifications, model checking, proofs

FastAndFourier is a C library for Fourier and wavelet transforms. A transform
is compiled to a small instruction set (the IR). The IR is generated by the C
API, or compiled from a pipeline of a Lisp-like language, Chirp. It is run by
an interpreter or turned into C, compiled by the system's compiler and loaded.
Some sizes skip the IR and have hand-written kernels.

This directory holds TLA+ modules for the parts of the library in which a
mistake is hard to see in a test, the TLC configurations that check them on
small instances, and theorems about them that TLAPS has checked.
Names are those of the code wherever TLA+ allows.

Run everything from this directory:

    tlc -workers 2 -config JitThreads.cfg MCJitCache    # one run; the tables below list all
    tlapm JitCacheProofs.tla                            # one module of proofs

## 1. The system

| Component | Source | State it keeps | Operations | Talks to |
|---|---|---|---|---|
| Core | `src/faf_core.c` | the transform: size, code, tables, work memory, inner transforms, pinned kernel; a thread-local error | create, create_inverse, destroy, execute | every other part |
| IR generators | `src/faf_transforms.c`, `src/faf_fft_stage.c` | none | fill the code array of a transform | interpreters, JIT |
| VM | `src/faf_vm.c` | registers of one call | execute interleaved (direct-threaded), split planes, in place | stage kernels, builtins, JIT |
| JIT | `src/jit/faf_jit.c` | pinned kernel of a transform, mapped libraries, temporary files, a disk cache shared by processes | execute_jit_cached, execute_jit_ex, destroy | compiler, dlopen, file system |
| Chirp compiler | `src/chirp.c` | the transform being built, scopes, an error string | parse, two passes over a pipeline, spectral pipelines | registry, core |
| Chirp registry | `src/chirp.c`, `src/chirp_builtins.c` | tables of builtins, vectors and tap sets | register, look up, clean up | VM and JIT by index |
| Fused pipeline | `src/faf_pipeline.c` | none of its own | real to real through a spectrum | RFFT, JIT, registry |
| FFT kernels | `faf_fft_splitradix.c`, `faf_fft_kernels.c`, `faf_fft_rader.c`, `faf_bluestein.c`, `faf_rfft.c` | work memory of the transform | execute_func | core |
| Wavelets | `faf_wavelets.c`, `faf_dwt_fir.c` | none | one level, forward or inverse, lifting or filters | VM, core |
| CWT | `faf_cwt*.c` | a plan | design, transform, reconstruct | FFT |
| SIMD, CUDA | `src/arch/` | none | stage kernels | VM, core |

The components interact by calls, and by the state of one transform object:
its code array, tables, flags and work memory are written by a creator or
compiler, read by interpreters and the JIT, and freed by destroy. The JIT alone
is meant to be entered by several threads at once on one transform, and alone
keeps state outside of the process.

What is hard here, and what each part must get right:

* **JIT.** First calls race for one pin; losers must close their own kernel. A
  kernel must not be unmapped while somebody is in it. The disk cache outlives
  processes, is written by several of them and holds machine code. Every path
  must clean up, and a process may die on any.
* **Chirp compiler.** The same function runs twice, first to count, then to
  write into an array of the size counted, and reads state that the first run
  changed. The flags and tables of a transform are shared by all of its forms.
* **Interpreters.** The register file is sized by a scan of the code while the
  handlers test against a constant. The direct-threaded fetch stops at END and
  nowhere else. Three interpreters have to agree. The permutation, the order of
  the factors and the twiddle steps have to fit each other.
* **Creation and destruction.** A constructor allocates tables, work memory and
  up to two inner transforms, which have inner transforms themselves. Any of it
  may be refused; everything made before must be freed once, and NULL explained.
* **Dispatch.** Type, layout, flag, size and kernel decide the path; functions
  call each other on parts of one block of work memory, and each checks only
  some of its arguments.
* **Kernels.** Offsets into shared tables, index permutations, the wrap of a
  convolution, two bins treated in one step: wrong only for some sizes.
* **Wavelets.** Two backends have to compute one filter bank, an inverse derived
  at one time has to undo a transform whose filters may be set at another.
* **Registry.** Compiled programs keep indexes; cleanup and registration move
  what the indexes mean, and a kind kept beside a pointer says how it is called.

`PROJECT.json` lists the components with what is modelled of each, and every
hazard at its line with the properties that cover it.

## 2. Modules

    KernelPin              what the pinning protocol promises
       ^ implements
    JitCache  <- MCJitCache, JitCacheProofs

    TransformCall          what a call of a transform promises
       ^ implements
    Executor  <- MCExecutor, ExecutorProofs     Butterflies (FftIr, Textbook, ExactComplex)
       ^ extends
    ChirpRun  <- MCChirpRun           ChirpCompile and Executor composed
       | instance
    ChirpCompile <- MCChirpCompile, ChirpCompileProofs      ChirpForms, FftIr

    Dispatch <- MCDispatch, LifecycleProofs, DispatchProofs        execution, on
       ^ extends                                                   the objects of
    Lifecycle              creation and destruction      Sizes, FftIr

    Kernels  <- MCKernels             Butterflies, Sizes
    DwtPair  <- MCDwtPair, DwtPairProofs        Wavelets (FftIr, ExactComplex)
    Registry <- MCRegistry, RegistryProofs

    Recursion              induction for proofs: RegistryProofs, ExecutorProofs

### JitCache and KernelPin

`JitCache` is the call protocol of `faf_execute_jit_cached` and
`faf_execute_jit_ex` (jit/faf_jit.c 1047-1241) with `try_load_cached_kernel`,
`save_kernel_to_cache`, `faf_jit_destroy` and `faf_destroy_transform`. One
action is what a thread does between two accesses to shared state: a cached
call reads the pin (`BeginFast`, `BeginSlow`), tries the disk (`LoadHit`,
`LoadMiss`), compiles (`Compile`, which may fail at gcc, dlopen or dlsym), saves
in three steps (`SaveOpen` truncates, `SaveCopy` twice), and tries the
compare-and-swap (`PinWon`, `PinLost`) or runs its own (`RunUnpinned`);
`DestroyCtx` is the cleanup every path ends with. `Crash` kills a process of
`Crashable` between any two steps, so that files stay as they are and handles
go; the other processes go on and read them. With `WritesFail` a block may be
lost on its way to the disk (the code looks at no result of fwrite). A shared
object is two chunks, each of which remembers the transform it was compiled
from, or is missing: a file rewritten half way is a file with two origins. `lib` maps a handle to a
temporary object or to a cache file, because dlopen of a cache file maps the
inode and a rewrite in place changes mapped code.

`KernelPin` has no files and no compiler: calls acquire a kernel, give it to
the transform or run it themselves, run a pinned one, return, unmap; a
transform retires with its kernel. `JitCache` implements it (`ImplementsKernelPin`).

Taken as given: `dlopen` returns a handle that is not in use; flags that enter
the hash are the defaults; a transform is not destroyed while a call uses it
(the contract of the header); `calloc` of small objects may fail only where
the code looks at the result.

### FftIr, Butterflies, ExactComplex, Textbook, TransformCall, Executor

`FftIr` has the instructions, `faf_factor_7smooth`, `faf_digit_reverse`, the
swap permutation, stage lists, and the programs of `faf_gen_fft_radix2`,
`faf_gen_fft_mixed` and `faf_gen_dwt`, with the limit `MaxInst` beyond which
`add_inst` drops. It has no recursion, so that modules with proofs can use it.

`Butterflies` has the kernels of faf_fft_stage.c that interpreters and
hand-written transforms share: butterflies of radix 2, 3, 4, 5, 7 and 8, a
stage, bit reversal, a Haar level.

`ExactComplex` replaces float arithmetic by arithmetic modulo a prime `P` with a
`Generator` (15121 for programs, 37441 where orders of 13, 64 or 80 occur), in
which roots of unity of the orders used exist with every identity between
them, as do sqrt 2 and i. An algorithm that is right over the complex numbers
is right here exactly, and equality is a meaningful test; rounding is outside
of the model. `Textbook` has the definitions of what transforms mean: the sum of the DFT,
the rows of the Haar matrix. It shares no algorithm with `Executor`.

`Executor` is one call of an interpreter, an instruction a step. Its modes are
the direct-threaded VM ("vm"), the split-plane interpreter ("split") and the
same in place without work memory ("inplace"). They differ in what LOAD reads,
where STORE writes, which bound guards a register and what ends the program. An
action is one handler. `ExecReduceSum` and `ExecNop` take the operands the
compilers leave (a length of zero). `TransformCall` is what the caller was
promised; `Executor` implements it for the programs of the C API.

Thresholds are 0 or above every value, since residues have no order. Builtins
are one family of functions that do not commute; which functions a program
registers is its business.

### ChirpCompile and ChirpRun

`ChirpCompile` is `chirp_compile` of a pipeline (chirp.c 2161-2279). A form
(`ChirpForms`) is what the parser and the scopes make of it. Each action is the case of
`chirp_compile_node_emit` for the next form, whole: what it does to `t->n`,
`t->levels`, type, flag and table, what it emits, and the error paths with the
effects that precede them. Both passes use the same actions: `Emit` writes
where an array exists. Between them stand `Reject`, `NoMemory` and `BeginEmit`;
`Finish` writes STOREs and END. An unwritten slot of the array is a NOP; a write beyond it is
counted and leaves no trace. `marks` is auxiliary: where each form was counted.

A single FFT in a pipeline is compiled by another function, and is left out of
the instances (that function creates what `Lifecycle` creates). Families are Haar; (inverse NAME) is the inverse form of what
NAME is bound to. Small allocations succeed, apart from the code array.

`ChirpRun` composes the two: what the compiler returns is handed to the
interpreters. `Does` says what the manual says the forms do.

### Sizes, Lifecycle and Dispatch

`Sizes` has the pure functions on lengths: which a constructor takes, which
algorithm a length gets, the length of a convolution, the primitive root of
Rader's prime, and the advice of `faf_is_size_supported` and
`faf_get_recommended_size`.

`Lifecycle` is memory. A constructor is a sequence of steps (`Steps`): New,
Alloc, Generate, Check, Make (call another constructor), Use (set the kernel),
Measure, Test, in the order of the source. Frames on `stack` execute them; each
allocation succeeds or is refused. `heap` maps addresses to blocks with their
sizes in bytes; `ptr` is the relation of who points where, so a block lost or
owned twice is visible. On failure `GiveUp` hands what the frame owns to
destroy, as the error paths do, and `Free` frees block by block what
`faf_destroy_transform` or `faf_cwt_bank_destroy` frees. `CreateInverse` derives
a request from a transform. The code array of pipelines is compiled in
ChirpCompile and not here; spectral pipelines are. `WindowsApart` and
`SizesAgree` say of which requests the code keeps its promises (no STFT over a
transform that fills the slot of the window; derived sizes are 5-smooth where
the code relies on it). The theorems suppose them, and TLC finds them true of
the requests of the run (`HypothesesHold` in `MCDispatch`).

`Dispatch` is `faf_execute` on these objects. `walk` is the stack of the
functions in a call: execute, vm, flat, interpret, split, kernel, bluestein,
rfft, cwt, icwt, pipeline. For each, `Refused` has its argument checks, `Accesses` the
memory it touches (each with the bytes needed and the room there is from that
place), `WorkOf` the work memory it uses, `Callees` which functions it calls
with which buffers. Where memory is allocated at run time it may be refused:
`OutOfMemory` ends the call, and `FallBack` gives a program whose planes were
refused to the interleaved interpreter (faf_vm.c:1059). The caller offers buffers of every layout, in place or not,
of right and wrong lengths where a length is looked at. Lengths nobody looks at
are right: the library documents them as the caller's duty.

### Kernels

What hand-written transforms compute: codelets, split radix (the recursion with
its table of all levels), the iterative kernel that FAF_FLAG_MEASURE may choose,
mixed radix, Rader, Bluestein, the real FFT, normalization, and the CWT: filter
bank from given prototypes, lowpass, dual frame, transform and inverse. A caller
creates a pair, gives a signal, transforms it and transforms it back. Inner
transforms are those of the code, so that Rader of 13 runs the codelet of 12 and Bluestein
of 39 two mixed-radix FFTs of 80. `SrDif` is recursive, as in the code.

### Wavelets and DwtPair

`Wavelets` has one level of each filter bank by lifting and by convolution, and
`faf_create_dwt`'s resolution of family, convention, backend, norm and depth.
Filters with irrational taps are given by roots that exist modulo `P`; the eight
taps of sym4, a rounded table in the code, by a filter that is orthogonal as
theirs is nearly (`Sym4Assumption`).

`DwtPair` is a caller who creates a transform, derives an inverse, may bind
filters of his own to either, analyses and synthesises, in any order. Filters
without a synthesis mark the transform they are bound to as one-way. A call goes
through planes or, when those are refused, the interleaved interpreter, whose
levels use the transform's scratch; a kernel that needs memory, for a level by
lifting or for more taps than fit on its stack, may not get it (`StarvedLevel`).

### Registry

The tables of builtins, vectors and tap sets with their limits, and who changes
them: the five functions that register, the standard library with its aliases,
(bind), `chirp_cleanup`. A name is a stem, a prefix and a suffix of precision,
which is all that the code looks at. `Compile` resolves a name in a program's
lets and looks its index up; `Execute` is CALL_BUILTIN with that index and the
casts that the kind of the entry decides.

## 3. Runs

Passing runs:

| Run | Instance | Checks |
|---|---|---|
| `jit_threads` | 3 threads, 2 fused pipelines, 5 handles | types; one owner for every kernel; nobody in an unmapped kernel or at a stale address; bounded waste; KernelPin |
| `jit_disk` | 2 processes that may both be killed, 3 transforms with 2 programs of one size, 2 cache files | temporary files; every piece of a kernel is of the own program |
| `jit_pay_once` | 2 threads, 1 chain that the disk takes, crashes, fairness | kernels are incomplete during a save only; after the pin, cached calls stop compiling |
| `exec_generated` | 20 programs of 4 to 18 points, 3 interpreters, a basis of the signals, fairness | accesses inside, calls return, the result is the textbook's |
| `chirp_settled` | 6644 pipelines of up to 3 of 27 forms | types; the second pass inside the array and in step with the first; where sizes and directions agree, the finished program is what the text says, and its table and direction fit |
| `chirp_run` | 39 pipelines of 4 to 16 points, compiled and run, 3 interpreters, a basis of the signals | accesses inside; for the 13 that mean what they say, the right result |
| `lifecycle` | 23 requests with every refusal of memory, their inverses, every execution of what was made, fairness | ownership; NULL explained and only with cause; memory, work memory and recursion of calls; legal calls served; advice on sizes; calls end |
| `kernels` | 28 transforms of 2 to 64 points, a basis of the signals, 3 norms | the defining sum; forward and back give the signal |
| `dwt_pairs` | 5 families with 12 conventions and 3 backends, up to 16 points, filters set at any time on either of the pair | the inverse restores; it is its transform the other way round; analysis is the filter bank; what can be derived can be run |
| `registry` | a table of 11 builtins, 8 user requests, 8 of filters, 20 programs, 3 requests between cleanups | calls fit and are served, lets substitute, the standard registration is idempotent |

What the properties say:

* `HandlesOwned`: a mapped kernel has exactly one owner that will close it and
  a closed one has none. `RunsMappedKernel`: no thread is inside a kernel that
  was closed. `NoTempFilesLeft`: only a dead process leaves temporary files.
* `RunsOwnPieces`: every piece of the machine code a thread is in was built from
  its own program, whatever crashes, lost writes and saves at the same time did
  to the file. `CutOnlyMidSave`: pieces are missing only while somebody saves
  them. It holds among the threads of a process and as long as no process dies
  and no write is lost; `jit_disk`, where processes die, violates it (below).
  `RunsOwnProgram`, that the code is whole too, is what the code's comment
  promises and `jit_save_finding` refutes.
  `NoStalePointers`: code with addresses in it runs only in their process and
  while the transform lives.
* `WastedBounded`, `PaysOnce`: at most one thrown-away compilation per other
  thread; after a pin no call pays again.
* `MemorySafe` (`SafeRun` for Chirp): each register, input, output and twiddle
  index that survives a handler's own tests is inside the array it indexes, and
  the fetch stays in the program. `Returns`: calls end.
* `ImplementsTransformCall`, `RunsMeaningful`: the caller's buffer ends up with
  what the stages mean, in every interpreter.
* `CodeInBounds`: nothing is written past the array the first pass measured.
  `PassesInStep`: each form is written at the slot where it was counted.
* `ComputesAgreeing` (`ComputesPipeline`, for the pipelines of `Agreeing`):
  LOADs, each stage of each form in place and in order, STOREs, END, no
  swallowed error. `TablesFitAgreeing`: each FFT stage finds a table of its own
  length and direction.
* `Owned`: no pointer to a freed block, no block with two pointers, none without.
  So two transforms, an inverse included, share no memory. `NullExplained`: a
  creator that returns NULL has set the error of this call.
  `LegalRequestsMade`: it does so only when memory was refused or a certificate
  failed. `AdviceHolds`: the size helpers agree with the constructors, for
  nine kinds of transform and lengths from 0 to 100, but for the lengths in
  `Misjudged` (STFTs no FFT path takes; a DWT or DCT-I of 1, an MDCT of 0) and
  `Unhelped` (25 for real FFTs and CWTs; 0 and 1 for DWTs and MDCTs). Without
  these exceptions it fails, in two ways (below). Pipelines have no such advice.
* `SafeCalls`: every function of a call finds the room it needs in tables, work
  memory and checked buffers, so allocation formulas and index formulas agree.
  `WorkApart`: no function uses work memory that one of its callers is using.
  `NoReentry`, `CallsEnd`: no recursion into the same function on the same
  transform, and every creation, destruction and execution ends.
  `LegalCallsServed`: no function down the way refuses a call the header allows.
* `Definition`, `RoundTrip` (kernels): the forward result is the defining sum
  with its norm; the pair gives the signal back.
* `RoundTrip`, `FilterBank`, `DerivedHasSynthesis` (wavelets): an inverse undoes
  the transform as it was when the inverse was made, or the one that was given the
  same filters; each band is the convolution, over the signal itself, with the
  filters the request names, also for the 5/3 by lifting, which rounds nothing;
  an inverse that faf_create_inverse gives has a synthesis. Filters that are then
  bound to the inverse itself may take it away (`OneWayNeverBackwards`, below).
  `Mirrored`: until then an inverse has the convention,
  backend, norm, depth and filters of its transform, and is refused only for
  one-way banks, although it is made by resolving again what was resolved.
* `CallFits`: whatever index a program kept, the function it reaches is called
  with its own signature, precision and context, if what the user registered
  agrees on the name (`Agreed`: one kind for a stem; a single name, not of the
  prefixed form that gets aliases, for what has a context; `Covered`: the
  program's precision was registered). `CallServed`: such a call reaches a function of the name the
  program wrote. `LetsMean`, `StandardAgain`: as their comments say.

`TypeOK` of Dispatch and of DwtPair, and `PinStable` (which KernelPin implies),
hold on the same instances and are not in the configurations: the invariants
above say more.

Runs that end in a violation state what a document or comment of the
repository says and show that the code does otherwise. `PROJECT.json` quotes
the line for each.

| Run | Property | The code |
|---|---|---|
| `jit_save_finding` | `RunsOwnProgram` | a cache file is rewritten in place under its readers |
| `dwt_fallback_finding` | `RoundTripAnywhere` | without planes, filters overwrite the signal they read |

Other disagreements are one substitution away: take the configuration named,
change constants as said, put the property in place of those there (without
SYMMETRY), and TLC shows a counterexample.

| Configuration | Change | Property | What the documents say, and the code does |
|---|---|---|---|
| `JitDisk` | | `CutOnlyMidSave` | README.md:30, "with an on-disk cache across process runs", and include/fastandfourier.h:928, "compiled (or loaded from the on-disk cache)": a process killed between two blocks of a save (jit/faf_jit.c:202) leaves half a shared object under its final name, which every later one opens |
| `JitPayOnce` | | `HitKeepsEntry` | README.md:30 again: a hit leaves so_path naming the cache file, and the cleanup deletes it (jit/faf_jit.c:239) |
| `JitDisk` | `Transforms = {t1, t2}`, `Prog <- ProgCalls` | `NoStalePointers` | jit/faf_jit.c:1056 keeps kernels that "bake process-local pointers" off the disk: those with CALL_BUILTIN are saved (jit/faf_jit.c:1041) |
| `JitThreads` | | `AtMostOneWasted` | jit/faf_jit.c:1154, "at most one extra compilation is wasted", include/fastandfourier.h:931: n first calls waste n - 1 |
| `ChirpSettled` | `Programs <- AllPrograms` | `CodeInBounds` | chirp.c:2161, "First pass: count instructions and resolve the transform size": (pipeline haar (dwt :family haar :size 4)) emits more than was counted, past its array (chirp.c:2206) |
| `ChirpSettled` | `Programs <- TwoDwts` | `ComputesPipeline` | CHIRP.md:98, (inverse) "inverts the nearest preceding invertible stage": it takes the largest size and the last levels |
| `ChirpSettled` | `Programs <- ThereAndBack` | `TablesFit` | CHIRP.md:121, "executes each expression in order": (fft) and (ifft) in one pipeline share the first one's direction (chirp.c:1015) |
| `ChirpSettled` | `Programs <- FftAndIdwt` | `TablesFit` | the same line: (idwt) turns the radix-3 butterflies of an (fft) beside it (chirp.c:1497) |
| `ChirpSettled` | `Programs <- FullFft`, `MaxInst = 8` | `ComputesPipeline` | README.md:341, "bounded register file (N ≤ 65536)": at 65536 points every form is dropped (chirp.c:942) |
| `ChirpRunAll` | `Programs <- MixedRadix` | `RunsPipeline` | CHIRP.md:143, "(fft :size 3840) ... legal, mixed-radix": BITREV swaps, which for different factors is no digit reversal (faf_fft_stage.c:143) |
| `ChirpRunAll` | `Programs <- Radix8` | `RunsPipeline` | CHIRP.md:308, "Radix-8 butterfly": (bfly 8) is none (faf_vm.c:487) |
| `ChirpRunAll` | `Programs <- Radix2` | `RunsPipeline` | CHIRP.md:306, "Radix-2 butterfly": (bfly 2) pairs element 0 with itself (chirp.c:1357) |
| `ChirpRunAll` | `Programs <- SumOfAll` | `RunsPipeline` | CHIRP.md:345, "Sum all elements": reduce-sum does not sum (chirp.c:1579) |
| `ExecGenerated` | `MaxInst = 16`, `MaxFft = 16`, `RegAlign = 8`, `Modes = {"inplace"}`, `Transforms <- HalfFullDwt` | `LeavesMeaning` | README.md:341 again: a DWT of 32768 points loses its last STORE and its END (faf_transforms.c:26) |
| `Lifecycle` | `Requests <- WindowedPower` | `Owned`, `SafeCalls` | faf_core.c:1016, "Store Hann window in twiddles[1]": that is where split radix keeps 2n floats of work memory, which leaks; n are left for it |
| `Lifecycle` | `Requests <- WindowedSplit` | `WindowFirst` | faf_core.c:1370, "STFT: apply window to input before FFT": only in f32 and interleaved |
| `Lifecycle` | `Requests <- FlaggedRader` | `SafeCalls` | docs/SIZES.md:36-43 gives a prime with a smooth n - 1 to Rader: with FAF_FLAG_BLUESTEIN set it is executed by Bluestein's code on Rader's tables (faf_core.c:1310) |
| `Lifecycle` | `Requests <- FlaggedSmooth` | `NoReentry` | the same table: a 5-smooth size with that flag, interleaved, recurses without end (faf_vm.c:979) |
| `Lifecycle` | `Requests <- RealWavelet` | `SafeCalls` | include/fastandfourier.h:279, "float[n] — native for DWT / DCT": 2n floats are read and written (faf_core.c:1354) |
| `Lifecycle` | `Requests <- MixedTail` | `SafeCalls` | CHIRP.md:180, "(irfft) accepts the same keywords": with :precision f64 after an f32 head it reads twice the spectrum there is (chirp.c:1992) |
| `Lifecycle` | `Requests <- FlatHead` | `LegalCallsServed` | a pipeline whose head has `:layout interleaved` compiles, and each call of it is refused (faf_rfft.c:268) |
| `Lifecycle` | | `SupportedIsCreated` | include/fastandfourier.h:1117, "Check if size is supported for transform type", and docs/SIZES.md:13, "DCT / DST: unrestricted (already)": the default is true, also for STFTs of 14, which faf_create_stft refuses (faf_core.c:406); a DCT-I of 1 is called unsupported (faf_core.c:393) and created, a DWT of 1 called supported and refused |
| `Lifecycle` | | `RecommendedIsEven` | docs/SIZES.md:29, "next even 5-smooth": for a real FFT of 25 it is 27 (faf_core.c:424) |
| `DwtPairs` | `Requests <- Lifting` | `LiftingIsAnotherOperator` | docs/DWT.md:31-33, "JPEG2000 5/3 is a lifting spec. Implementing it as convolution of the 5/3 taps is a different operator": the lifting steps round nothing (faf_wavelets.c:466-470), so they are that convolution |
| `DwtPairs` | `Requests <- Custom` | `OneWayNeverBackwards` | include/fastandfourier.h:826, "the transform becomes analysis-only (inverse is illegal)": faf_dwt_set_taps marks an inverse so too (faf_core.c:989), and it executes |
| `DwtPairs` | `Requests <- Odd` | `OneWayNeverBackwards` | include/fastandfourier.h:253, "User-supplied h, g — inverse illegal": asked for inverse and analysis-only at once, a transform is created and executes (faf_core.c:843) |
| `DwtFallbackFinding` | | `ZeroIsSuccess` | include/fastandfourier.h:907, "0 on success, non-zero on error": a lifting kernel without memory leaves its level out (faf_wavelets.c:221), and the call returns 0 |
| `Registry` | | `CallFitsAny` | README.md:242-252 registers a function with a ctx, and CHIRP.md names builtins bare: a bare name takes the function of name_f32 with its own ctx, an f32-only function is called as double (chirp.c:408), the alias of a prefixed name has no ctx (chirp_builtins.c:58) |
| `Registry` | `FilterRequests <- Unequal` | `AllTapsFit` | CHIRP.md:101, (bind ... :h-syn hs :g-syn gs): the length of gs is not looked at (chirp.c:1158) |

Met while modelling, and stated by the guards or exceptions named:

* `Hollow`: faf_create_dct, _dst and _mdct return a transform without code when
  the code array is refused. `NullExplained` excepts STFTs and pipelines.
* `Lengths`: the fused pipeline's compiled kernel runs before the length check
  whose message is at faf_pipeline.c:36.
* `StarvedLevel`: lifting kernels leave a level out when malloc fails, and so does
  convolution in double precision with more than 64 taps (faf_dwt_fir.c:306).
* `DwtPair`: an inverse made before `faf_dwt_set_taps` keeps the old filters; with
  custom-pr and none set, the built-in ones are used.
* `Ends`: (let a b) (let b a) (pipeline a) is resolved for ever.
* A user's function under a bare standard name, as sin, is never called: sin_f32
  is found first (chirp.c:408).

### Bounds

* Three threads are what the race needs: a winner, a loser, and one that
  arrives between. Two transforms show that they do not disturb each other.
  Five handles are one for each call and transform at once, so that no thread
  waits for one. Two chunks are the least in which a copy can be half done.
* `jit_disk`: two processes are a writer and one that reads what it leaves, also
  after its death; each has a thread. Three transforms are two with
  one program, in different processes, and one with another, so that a file
  could have pieces of both. Lost writes are off (`WritesFail = FALSE`): with one
  process that may die and `WritesFail = TRUE` it passes too, in six million states.
  `jit_threads` and `jit_pay_once` have the races inside of a process.
* Sizes of the executor go up to 18 points. 6 to 18 has every pair of different
  radices, two equal ones, and a stage after each; the interpreters have no
  other threshold on size. `MaxInst`, `MaxFft` and `RegAlign` stand for 65536,
  65536 and 32. Where the run is not about a limit they are out of its reach;
  the substitution above scales them down. `RegAlign` 8 is as wide as the widest
  butterfly, the least for which the padding of the register file covers
  (bfly 8), as 32 does in the code; `exec_generated` uses 1, the strictest.
* The signals are units and imaginary units in each place. The transforms are
  linear over the reals, so these determine them; pipelines with a builtin,
  which is not linear, are tested at the same points only.
* `lifecycle`: each request exercises a constructor or algorithm of its own (each
  FFT path in two precisions or layouts, pipelines with each kind of end). The
  caller holds one transform and its inverse. Constructors have no loop over
  data, so sizes matter by the path they take and by rounding to 64 bytes; the CWT
  leads to the deepest nesting. `MaxBlocks` 90 is above what is ever live;
  `JitThreshold` 8 stands for 128. `Scales` 2 has a first row and another.
* `kernels`: 64 points are three levels of split radix (16 is one); 13 is the
  least Rader prime with a codelet inside, 39 Bluestein with a mixed-radix
  convolution of 80. The codelet of 7 is left out, since 7 does not divide
  P - 1. Signals: units in each place, which determine a linear map.
* `dwt_pairs`: 16 points and 3 levels wrap the longest filter (8 taps) around
  signals of 4, 8 and 16. Families, conventions and backends are all pairs,
  on 4 points.
  `MaxStackTaps` 3 stands for 64: the filters of four taps and more are above it.
* `registry`: 11 entries are the ten of a library of two functions with
  their aliases and one more: after requests of the user, the limit falls inside
  the aliases. Three
  requests are two to disagree and one between.
* Three forms are enough for one to set, one to change and one to inherit the
  shared state of the compiler. Theorems drop this bound where they apply.

### Fairness

`jit_pay_once` assumes that a thread inside a call goes on: gcc, a copy loop
and a kernel end. Nothing says that a thread ever calls. `exec_generated`
assumes the same of the one thread that interprets. `chirp_run` needs no
fairness: it has no loop, and a fetch beyond the program violates `SafeRun`.
`lifecycle` assumes that code once entered goes on (weak fairness of `Work`, the
steps of constructors, destroy and executors), which is what a thread that is
not stopped does; whether the caller ever calls again is left open. `dwt_pairs`,
`kernels` and `registry` have safety properties only, and stop when the caller
has nothing left to ask.

## 4. Proofs

All of them hold for every value of the constants under the assumptions named
in the modules, which TLC evaluates on the instances. A theorem that needs more
says so in its statement.

`JitCacheProofs` (`JitAssumption`: threads and transforms have processes, the
sets are disjoint, equal code has equal opcodes; `ThreadsAssumption`: threads
are finitely many):
* `TypeCorrect`.
* `HandleOwnership`, `KernelsMapped`, `NoTempFiles`, for any number of threads,
  processes, transforms and crashes. `HandlesOwned` is not inductive: to close a
  handle is safe only if no other thread runs it, which depends on where every
  thread is in its call. `IInv` adds that (`CallInv`: which program points hold
  a handle, a temporary name, a running kernel and whose) to ownership
  (`OwnInv`). Four lemmas say what acquiring, giving, closing and retiring do to
  owners, and each action is one of them or none.
* `PinRefinement`: the whole protocol implements KernelPin, step by step and
  crashes and disk included, from the same invariant (the run that checks it has
  neither). `PinsStay`: a pin is never replaced.
* `BoundedWaste`. The bound alone is not inductive, as a loser needs to know
  that it has not lost before. `LossInv` counts the threads that may still lose
  (`Racing`): losses and racers together stay below the threads of the process,
  and nobody joins the race once there is a pin.
* `PointersFresh`: code with addresses in it runs only where they are good, if
  no program with CALL_BUILTIN is taken by the cache (`CallsStayOffDisk`; the
  row of `ProgCalls` above shows why). `ContentInv` says what a file and a
  mapped handle can contain.
* `OwnPieces`: each piece of the kernel a thread is in was built from the program
  it called, with any number of processes that read and write the cache, whoever
  is killed and whatever is lost. It needs to know what a file may hold for those
  who have it: `NameInv` says that a file serves one hash at a time (`UsedFor`: it
  has the name, is being written, or is mapped by a call or a pin of that hash)
  and holds pieces of that hash only (`Holds`). A file that lost its name keeps
  its readers, so names alone would not be inductive.
* `CutsEnd`: `CutOnlyMidSave` as long as every process is alive (`AllAlive`) and
  no write is lost (`~WritesFail`), for any number of processes. `SavedInv`: a file
  in use is whole, or open in a save that will complete it. The first crash may end
  it for good, as the row of `CutOnlyMidSave` above shows.

`RegistryProofs` (`LimitsAssumption`, `RequestsAssumption`,
`StandardAssumption`, `ProgramsAssumption`, `FiltersAssumption`: limits are
numbers, what the user asks is what the API can be asked, the library names no
stem twice):
* `TypeCorrect` (no table past its limit, no name twice) and `TapSetsFit` (a set
  of filters is read within its vectors, `TapsFit`; but for the array of :g-syn,
  whose length the code does not compare), from `TypeInv`.
* `LetsKeepMeaning`: the code's walk from slot to slot resolves to what
  substitution gives, for any number of lets (`ProgInv`).
* `CallsFit` and `CallsServed`. An entry is written by several requests and read
  through an index kept since long ago. `FitInv` says of each entry that it
  agrees with all requests of its stem at once, whichever came last, and
  `Placed` that an index keeps its name until a cleanup.
* `StandardTwice`: to register the library again changes nothing, also when the
  table fills up among the aliases (`SettledInv`: the table is a fixed point).

Registering is a fold over the library. `Recursion` has induction over numbers
without an operator as a parameter: `Least` and `UpTo` take a set of numbers,
`Iterates` a sequence of functions.

`ExecutorProofs` (`LineAssumption`: a cache line of registers is a multiple of
eight; `SizeAssumption`: the code array has room for an instruction):
* `WellFormedSafe`: `MemorySafe` for any set of programs that are `WellFormed`
  (they fit, have an END, and their LOADs, STOREs, bit reversals and table
  indexes stay inside what the caller passes), however often they are called,
  in every interpreter. The VM's handlers test a register against
  `FAF_MAX_FFT_SIZE` and not against what was allocated, so this is the soundness
  of `compute_max_registers`: the scan sees the first register of an
  instruction, and a wide butterfly stays in the cache line of its first register,
  whose end the rounded size contains (`ScanCovers`, `Rounding`,
  `TouchesInside`). The invariant, `RunInv`, has the pointer at or before an END
  that is still ahead.
* `EmittedWellFormed`: what `faf_gen_fft_radix2`, `faf_gen_fft_mixed` and
  `faf_gen_dwt` emit is well-formed, for every length, if it `Fits` the code
  array. `ReversalInside` is the lemma that a digit reversal stays below the
  product of its radices; lengths have none above seven (`FactorsSmall`).
* `GeneratedSafe` joins the two. `Fits` is needed: the row of `ExecGenerated` with
  a DWT that loses its END shows why.

`Recursion` has the folds of the library for these proofs: `FoldChain` unfolds
`FoldLeft`, `MaxUpTo` the maximum of a set.

`LifecycleProofs` (`RequestsAssumption`, `LimitsAssumption`) is about
`Dispatch`'s specification, so that calls of `faf_execute` are included:
* `NothingFreedTwice`: no pointer to freed memory, no block with two pointers,
  for every set of requests, all handles and every refusal of memory.
* `NothingLost`: with it no block is lost (`Owned`), if no STFT is asked for over
  a transform that fills the slot of the window (`WindowsApart`; the row of
  `WindowedPower` shows why).
* `NullIsExplained`: a creator that returns NULL has set the error in this call.
* `NullIsForced`: a legal request is refused only for want of memory, or by the
  certificate of the CWT, if derived sizes are 5-smooth (`SizesAgree`).

Its first part goes through the eleven constructors: the steps of each fill
only slots that destroy frees, none twice, touch the object only when it exists
and check what they rely on (`StepsGood`). The invariant, `Kept`, says for every
frame of the stack what it holds at its step, by those steps: `CoreInv` has
pointers, slots and nesting, `Reached` that nothing is lost, `Answered` the
excuse of every NULL. Ownership alone is not inductive, since whether a step
overwrites a pointer depends on which steps came before.

`DispatchProofs` goes on from `Kept`, for calls with any buffers:
* `CallsNeverReenter`: `NoReentry`, so no call recurses without end.
* `CallsWorkApart`: no function works in memory that a caller of it is using.

* `CallsStaySafe`: no function touches a table, work memory or a buffer past its
  end.
* `LegalNeverRefused`: `LegalCallsServed`, so what could be created can be executed.

All suppose `FlagsMeant`: with interleaved buffers Bluestein's flag is only set
where there are inner transforms, and no request has zero elements. The row of
`FlaggedSmooth` shows why. `Wiring` says that what is in each slot of a
transform is what the constructor's step for the slot asked for, with its size
or its request, and that what its steps check is there. From it follows what
each constructor's transform has (`SplitRadixHas` to `BankHas`).
`Legitimate` says that every request, those for inner transforms included,
stems from one of the caller's. So a transform works only through transforms of
a lower rank (`RankInside`: pipelines and CWT above real FFTs, above Bluestein,
above Rader, above the rest), and the functions that serve one transform call
each other downwards (`Below`), which is an order (`BelowAll`; the
interpreter that a call falls back on is at the bottom and has registers of its
own). `OnWay`, the invariant of the walk, has every function on it below all that called it.

`SafeCalls` is not inductive: what a function needs of a buffer that it does not
check depends on who called it. `Roomy` says what each function may rely on
where it is called: planes long enough for what it will index, the right lengths
where it looks at none, and which types reach it. What a constructor allocated
gives the room of its tables (`SplitRadixRooms` to `BankRooms`); `SafeAll` then
has the bytes of each function, and `RoomyCalled` that its callees get what they
rely on, plane by plane of the scratch and row by row of a scalogram.
`CallsStaySafe` supposes `WindowsApart`, that Bluestein's length exists
(`LengthsFound`), and `CallsMeant`, which leaves out the three rows above that
overrun: `FlaggedRader`, `RealWavelet` and `MixedTail`. TLC finds all of them
true of the run's requests.

`LegalCallsServed` is about the first and the last function of the walk, so
`Welcome` says of each one between what it must be given to refuse nothing:
layouts, lengths and imaginary planes, a type that gets there, a kernel or a
program (`CodeHas`). `ServedWell` shows that this is enough, `WelcomeCalled`
that it is passed on, and `Favoured`, the invariant, that it holds on the whole
way if the caller's request is legal. It supposes `HeadsMeant` too, which leaves
out the row of `FlatHead`.

`DwtPairProofs`:
* `DerivedSynthesis`: what faf_create_inverse gives has a synthesis, in whatever
  order filters come and go on the transform, until the inverse is given its own.
* `InverseMirrors`: until then an inverse is its transform the other way round.
  `PairInv` says that a transform is resolved, that resolving it again changes
  nothing, and that filters without a synthesis mark it.

`ChirpCompileProofs` (`ProgramsAssumption`: pipelines are sequences of forms):
* `TypeCorrect`: also that the array has as many slots as were counted.
* `SizedInBounds`, `SizedInStep`: a pipeline, of any length, whose forms bring
  their own sizes (`Sized`: each DWT has a size, and no lift, bare family name or
  (inverse)) is never written past its array, and every form lands where it was
  counted. The bound alone is not inductive. `InStepInv` says that the places
  noted are spaced by the widths of the forms and that both passes are at the
  place of the next form; `WalkWidth` is the lemma that a sized form advances
  the count by the same width whatever state it meets.
  The row of `AllPrograms` above shows why the restriction is needed.

Only model-checked:
* liveness (`Returns`, `PaysOnce`, `CallsEnd`), which TLAPS does not prove;
* results (`ImplementsTransformCall`, `RunsMeaningful`, `ComputesAgreeing`,
  `TablesFitAgreeing`, `Definition`, both `RoundTrip`, `FilterBank`): they are
  sums over data, and `Kernels` and `AdviceHolds` rest on recursion over numbers;
* `SizesAgree` itself: that halves of 5-smooth even numbers are 5-smooth is
  a search over numbers, checked for the requests of the run;
* `SafeRun`, which is `MemorySafe` for compiled pipelines: the compiler is an
  instance in `ChirpRun`, and the facts proved of it with the library's
  sequences and sets do not carry over to the renamed copies;
* the compiler on pipelines that inherit sizes.

## 5. Plan

Done: everything of section 2, and the proofs above. Next is one more proof:
`ChirpCompile` with `Settled` in place of `Sized`, so that `SizedInBounds` also
covers pipelines that inherit sizes and settle.

Not modelled, and not planned: rounding; the text of generated C (and with it
that a pipeline's kernel ignores the inner transform's return value,
jit/faf_jit.c:362); SIMD and CUDA versions of kernels, which are stateless; the
wavelets' formulas, scale spacing, L1 inverse and numerical certificates of the
CWT; lexing and parsing (a ninth keyword argument of a form is dropped,
chirp.c:699); what spectral operations compute; two threads in one transform or
in the global registry, which the code does not protect and no text promises
(docs/CWT.md:218 forbids the first); opcodes that no generator or compiler
emits; examples, benchmarks and tests.
