------------------------------ MODULE JitCache ------------------------------
(***************************************************************************)
(* The JIT of FastAndFourier (src/jit/faf_jit.c): faf_execute_jit_cached   *)
(* and faf_execute_jit_ex, called by the threads of several processes on   *)
(* transforms that the threads of one process share, with the kernel       *)
(* pinned on the transform (t->jit_cache), the kernels that dlopen maps,   *)
(* the temporary files under /tmp and the cache of shared objects under    *)
(* ~/.cache/fastandfourier that every process of a user shares.            *)
(*                                                                         *)
(* A thread is in one call at a time; pc says where.  What a thread does   *)
(* between two accesses to shared state is one step.  gcc, dlopen, calloc  *)
(* and fopen may fail, and on a full disk fread and fwrite.                *)
(***************************************************************************)
EXTENDS Naturals, FiniteSets

CONSTANTS
    Procs,       \* operating-system processes; each runs once
    Threads,     \* threads
    Transforms,  \* faf_transform objects
    Handles,     \* values dlopen can return in one process
    Inodes,      \* files the cache directory can hold
    Homes,       \* ProcOf of threads and transforms
    Prog,        \* what a transform holds that the JIT reads
    Crashable,   \* the processes that may be killed
    WritesFail,  \* whether a block may be lost while a kernel is saved
    NULL

(* The process a thread runs in, or a transform was created in.            *)
ProcOf(x) == Homes[x]

(* The fields hash_transform reads, and those compile_ex decides by.       *)
JitPrograms == [n : Nat, type : STRING, prec : STRING, code : STRING,
             ops : SUBSET {"FFT_STAGE", "CALL_BUILTIN", "BITREV"},
             exec : BOOLEAN]

ASSUME JitAssumption ==
    /\ \A x \in Threads \cup Transforms : ProcOf(x) \in Procs
    /\ \A t \in Transforms : Prog[t] \in JitPrograms
    /\ Crashable \subseteq Procs /\ WritesFail \in BOOLEAN
    /\ NULL \notin Threads \cup Transforms \cup Handles \cup Inodes
    /\ Transforms \cap Inodes = {} /\ Transforms \cap Threads = {}
    /\ \A s, t \in Transforms :
          Prog[s].code = Prog[t].code => Prog[s].ops = Prog[t].ops

ASSUME ThreadsAssumption == IsFiniteSet(Threads)

CallModes == {"cached", "ex"}
Chunk == 1..2   \* the copy loop of save_kernel_to_cache, as two writes
PCs == {"idle", "load", "compile", "save", "copy1", "copy2", "call",
        "run", "fast", "destroy"}

VARIABLES
    alive,    \* alive[p]: process p is running
    life,     \* life[t]: the transform has not been destroyed
    pinned,   \* pinned[t]: the handle in t->jit_cache, or NULL
    lib,      \* lib[p][h]: what handle h maps in process p, or NULL: the
              \* transform its temporary .so was built for, or a cache file
    pc, mode, \* per thread
    tr,       \* the transform of the call, or NULL
    hnd,      \* ctx->handle
    fn,       \* the mapping the kernel pointer points into
    so,       \* what ctx->so_path names: "none", "tmp" or "cache"; c_path
              \* is set exactly when so_path is a temporary name
    wr,       \* the cache file the thread has open for writing
    tmpC, tmpSo,  \* temporary files that exist, by the thread that made them
    entry,    \* entry[k]: the cache file with the name of hash k, or NULL
    content,  \* content[i][c]: the transform whose kernel chunk c of cache
              \* file i was copied from, or NULL when it is missing
    wasted    \* wasted[t]: compilations thrown away after a lost race

threadVars == <<pc, mode, tr, hnd, fn, so, wr>>
diskVars   == <<entry, content>>
vars == <<alive, life, pinned, lib, threadVars, tmpC, tmpSo, diskVars, wasted>>
-----------------------------------------------------------------------------
(* Only the listed powers of two occur as sizes here.                      *)
IsPowerOf2(n) == n \in {2 ^ k : k \in 0..16}

(* Mutant of HashKey: the instructions are left out of the hash.           *)
HashKeyNoCode(t) == <<Prog[t].n, Prog[t].type, Prog[t].prec>>

(* hash_transform, which names the file of a transform's kernel.           *)
HashKey(t) == <<Prog[t].n, Prog[t].type, Prog[t].prec, Prog[t].code>>
Keys == {HashKey(t) : t \in Transforms}

(* Mutant of IrBakesProcessPointers: the fused pipeline is forgotten.      *)
IrBakesStagesOnly(t) == "FFT_STAGE" \in Prog[t].ops

(* ir_bakes_process_pointers                                               *)
IrBakesProcessPointers(t) ==
    \/ Prog[t].type = "PIPELINE"
    \/ "FFT_STAGE" \in Prog[t].ops

(* pointer_baked and the size test of faf_jit_compile_ex.                  *)
PointerBaked(t) == Prog[t].exec \/ IrBakesProcessPointers(t)
DiskCached(t) == ~PointerBaked(t) /\ IsPowerOf2(Prog[t].n)

(* What the generators really write as literals into the kernel of t: the  *)
(* address of t, of its parts or of a function of the process.             *)
KernelHoldsPointers(t) ==
    \/ Prog[t].exec
    \/ Prog[t].type = "PIPELINE"
    \/ Prog[t].ops \cap {"FFT_STAGE", "CALL_BUILTIN"} # {}
    \/ "BITREV" \in Prog[t].ops /\ ~IsPowerOf2(Prog[t].n)

(* What the kernel mapped at h in process p consists of, now: a temporary  *)
(* .so never changes, a cache file is whatever was last written to it.     *)
Chunks(p, h) == IF lib[p][h] \in Inodes THEN content[lib[p][h]]
                ELSE [c \in Chunk |-> lib[p][h]]

(* A file with no piece missing.  (Builds of one program are the same      *)
(* bytes, so two saves of it may mix.)                                     *)
Whole(i) == \A c \in Chunk : content[i][c] # NULL

FreeHandles(p) == {h \in Handles : lib[p][h] = NULL}
FreeInodes == {i \in Inodes : /\ \A k \in Keys : entry[k] # i
                              /\ \A p \in Procs, h \in Handles : lib[p][h] # i
                              /\ \A th \in Threads : wr[th] # i}

-----------------------------------------------------------------------------
Init ==
    /\ alive = [p \in Procs |-> TRUE]
    /\ life = [t \in Transforms |-> TRUE]
    /\ pinned = [t \in Transforms |-> NULL]
    /\ lib = [p \in Procs |-> [h \in Handles |-> NULL]]
    /\ pc = [th \in Threads |-> "idle"]
    /\ mode = [th \in Threads |-> "cached"]
    /\ tr = [th \in Threads |-> NULL]
    /\ hnd = [th \in Threads |-> NULL]
    /\ fn = [th \in Threads |-> NULL]
    /\ so = [th \in Threads |-> "none"]
    /\ wr = [th \in Threads |-> NULL]
    /\ tmpC = {} /\ tmpSo = {}
    /\ entry = [k \in Keys |-> NULL]
    /\ content = [i \in Inodes |-> [c \in Chunk |-> NULL]]
    /\ wasted = [t \in Transforms |-> 0]

(* faf_execute_jit_cached with a kernel already pinned: the fast path.     *)
BeginFast(th, t) ==
    /\ pc[th] = "idle" /\ alive[ProcOf(th)]
    /\ ProcOf(t) = ProcOf(th) /\ life[t]
    /\ pinned[t] # NULL
    /\ pc' = [pc EXCEPT ![th] = "fast"]
    /\ mode' = [mode EXCEPT ![th] = "cached"]
    /\ tr' = [tr EXCEPT ![th] = t]
    /\ fn' = [fn EXCEPT ![th] = pinned[t]]
    /\ UNCHANGED <<alive, life, pinned, lib, hnd, so, wr, tmpC, tmpSo,
                   diskVars, wasted>>

(* Mutant of BeginSlow: the fast path is not looked for.                   *)
BeginSlowAlways(th, t, m) ==
    /\ pc[th] = "idle" /\ alive[ProcOf(th)]
    /\ ProcOf(t) = ProcOf(th) /\ life[t]
    /\ pc' = [pc EXCEPT ![th] = "load"]
    /\ mode' = [mode EXCEPT ![th] = m]
    /\ tr' = [tr EXCEPT ![th] = t]
    /\ UNCHANGED <<alive, life, pinned, lib, hnd, fn, so, wr, tmpC, tmpSo,
                   diskVars, wasted>>

(* faf_execute_jit_cached with nothing pinned, or faf_execute_jit_ex,      *)
(* which never looks: a fresh context.                                     *)
BeginSlow(th, t, m) ==
    /\ pc[th] = "idle" /\ alive[ProcOf(th)]
    /\ ProcOf(t) = ProcOf(th) /\ life[t]
    /\ m = "cached" => pinned[t] = NULL
    /\ pc' = [pc EXCEPT ![th] = "load"]
    /\ mode' = [mode EXCEPT ![th] = m]
    /\ tr' = [tr EXCEPT ![th] = t]
    /\ UNCHANGED <<alive, life, pinned, lib, hnd, fn, so, wr, tmpC, tmpSo,
                   diskVars, wasted>>

(* try_load_cached_kernel finds a file it can map.  A damaged file may be  *)
(* mapped too: dlopen reads the headers, in chunk 1, not every page.       *)
LoadHit(th) ==
    LET t == tr[th]  p == ProcOf(th) IN
    /\ pc[th] = "load" /\ DiskCached(t)
    /\ entry[HashKey(t)] # NULL /\ content[entry[HashKey(t)]][1] # NULL
    /\ \E h \in FreeHandles(p) :
          /\ lib' = [lib EXCEPT ![p][h] = entry[HashKey(t)]]
          /\ hnd' = [hnd EXCEPT ![th] = h]
          /\ fn' = [fn EXCEPT ![th] = h]
    /\ so' = [so EXCEPT ![th] = "cache"]
    /\ pc' = [pc EXCEPT ![th] = "call"]
    /\ UNCHANGED <<alive, life, pinned, mode, tr, wr, tmpC, tmpSo, diskVars,
                   wasted>>

(* The transform is not cached on disk, the file is not there, or dlopen   *)
(* or dlsym refuses a damaged one.                                         *)
LoadMiss(th) ==
    LET k == HashKey(tr[th]) IN
    /\ pc[th] = "load"
    /\ \/ ~DiskCached(tr[th])
       \/ entry[k] = NULL
       \/ entry[k] # NULL /\ ~Whole(entry[k])
    /\ pc' = [pc EXCEPT ![th] = "compile"]
    /\ UNCHANGED <<alive, life, pinned, lib, mode, tr, hnd, fn, so, wr, tmpC,
                   tmpSo, diskVars, wasted>>

(* Generate the C file, run gcc, dlopen the result and find the kernel in  *)
(* it.  gcc fails: no shared object; dlopen or dlsym fails: no handle.     *)
Compile(th) ==
    LET t == tr[th]  p == ProcOf(th) IN
    /\ pc[th] = "compile"
    /\ so' = [so EXCEPT ![th] = "tmp"]
    /\ tmpC' = tmpC \cup {th}
    /\ \/ /\ tmpSo' \in {tmpSo, tmpSo \cup {th}}
          /\ pc' = [pc EXCEPT ![th] = "destroy"]
          /\ UNCHANGED <<lib, hnd, fn>>
       \/ /\ tmpSo' = tmpSo \cup {th}
          /\ \E h \in FreeHandles(p) :
                /\ lib' = [lib EXCEPT ![p][h] = t]
                /\ hnd' = [hnd EXCEPT ![th] = h]
                /\ fn' = [fn EXCEPT ![th] = h]
          /\ pc' = [pc EXCEPT ![th] = IF DiskCached(t) THEN "save"
                                      ELSE "call"]
    /\ UNCHANGED <<alive, life, pinned, mode, tr, wr, diskVars, wasted>>

(* save_kernel_to_cache, fopen(cached_so, "wb"): create the file or cut    *)
(* the one that is there to length 0, whoever else has it open or mapped.  *)
SaveOpen(th) ==
    LET k == HashKey(tr[th]) IN
    /\ pc[th] = "save"
    /\ \E i \in IF entry[k] # NULL THEN {entry[k]} ELSE FreeInodes :
          /\ entry' = [entry EXCEPT ![k] = i]
          /\ content' = [content EXCEPT ![i] = [c \in Chunk |-> NULL]]
          /\ wr' = [wr EXCEPT ![th] = i]
    /\ pc' = [pc EXCEPT ![th] = "copy1"]
    /\ UNCHANGED <<alive, life, pinned, lib, mode, tr, hnd, fn, so, tmpC,
                   tmpSo, wasted>>

(* The cache directory or one of the two files cannot be opened.           *)
SaveSkip(th) ==
    /\ pc[th] = "save"
    /\ pc' = [pc EXCEPT ![th] = "call"]
    /\ UNCHANGED <<alive, life, pinned, lib, mode, tr, hnd, fn, so, wr, tmpC,
                   tmpSo, diskVars, wasted>>

(* What is in the cache after block c was written; nobody looks at what    *)
(* fread and fwrite return.                                                *)
Writes(th, c) == {[content EXCEPT ![wr[th]][c] = tr[th]]}
                     \cup (IF WritesFail THEN {content} ELSE {})

(* Mutant of SaveCopy: the loop ends after its first round.                *)
SaveCopyOnce(th) ==
    /\ pc[th] = "copy1"
    /\ content' \in Writes(th, 1)
    /\ pc' = [pc EXCEPT ![th] = "call"]
    /\ wr' = [wr EXCEPT ![th] = NULL]
    /\ UNCHANGED <<alive, life, pinned, lib, mode, tr, hnd, fn, so, tmpC,
                   tmpSo, entry, wasted>>

(* One round of the fread/fwrite loop; the second one ends with fclose.    *)
SaveCopy(th) ==
    /\ \/ /\ pc[th] = "copy1"
          /\ content' \in Writes(th, 1)
          /\ pc' = [pc EXCEPT ![th] = "copy2"]
          /\ UNCHANGED wr
       \/ /\ pc[th] = "copy2"
          /\ content' \in Writes(th, 2)
          /\ pc' = [pc EXCEPT ![th] = "call"]
          /\ wr' = [wr EXCEPT ![th] = NULL]
    /\ UNCHANGED <<alive, life, pinned, lib, mode, tr, hnd, fn, so, tmpC,
                   tmpSo, entry, wasted>>

(* Mutants of PinWon: the handle is not taken out of the context, and a    *)
(* plain store in place of the compare-and-swap.                           *)
PinWonKeepsHandle(th) ==
    /\ pc[th] = "call" /\ mode[th] = "cached" /\ pinned[tr[th]] = NULL
    /\ pinned' = [pinned EXCEPT ![tr[th]] = hnd[th]]
    /\ pc' = [pc EXCEPT ![th] = "run"]
    /\ UNCHANGED <<alive, life, lib, mode, tr, hnd, fn, so, wr, tmpC, tmpSo,
                   diskVars, wasted>>

PinStored(th) ==
    /\ pc[th] = "call" /\ mode[th] = "cached"
    /\ pinned' = [pinned EXCEPT ![tr[th]] = hnd[th]]
    /\ hnd' = [hnd EXCEPT ![th] = NULL]
    /\ pc' = [pc EXCEPT ![th] = "run"]
    /\ UNCHANGED <<alive, life, lib, mode, tr, fn, so, wr, tmpC, tmpSo,
                   diskVars, wasted>>

(* The compare-and-swap on t->jit_cache.  The winner's handle leaves the   *)
(* context; the loser gets its own back.                                   *)
PinWon(th) ==
    /\ pc[th] = "call" /\ mode[th] = "cached" /\ pinned[tr[th]] = NULL
    /\ pinned' = [pinned EXCEPT ![tr[th]] = hnd[th]]
    /\ hnd' = [hnd EXCEPT ![th] = NULL]
    /\ pc' = [pc EXCEPT ![th] = "run"]
    /\ UNCHANGED <<alive, life, lib, mode, tr, fn, so, wr, tmpC, tmpSo,
                   diskVars, wasted>>

(* Mutant of PinLost: the loser does not get its handle back.              *)
PinLostForgets(th) ==
    /\ pc[th] = "call" /\ mode[th] = "cached" /\ pinned[tr[th]] # NULL
    /\ hnd' = [hnd EXCEPT ![th] = NULL]
    /\ wasted' = [wasted EXCEPT ![tr[th]] = @ + 1]
    /\ pc' = [pc EXCEPT ![th] = "run"]
    /\ UNCHANGED <<alive, life, pinned, lib, mode, tr, fn, so, wr, tmpC, tmpSo,
                   diskVars>>

PinLost(th) ==
    /\ pc[th] = "call" /\ mode[th] = "cached" /\ pinned[tr[th]] # NULL
    /\ wasted' = [wasted EXCEPT ![tr[th]] = @ + 1]
    /\ pc' = [pc EXCEPT ![th] = "run"]
    /\ UNCHANGED <<alive, life, pinned, lib, mode, tr, hnd, fn, so, wr, tmpC,
                   tmpSo, diskVars>>

(* faf_execute_jit_ex, which pins nothing, and a failed calloc.            *)
RunUnpinned(th) ==
    /\ pc[th] = "call"
    /\ pc' = [pc EXCEPT ![th] = "run"]
    /\ UNCHANGED <<alive, life, pinned, lib, mode, tr, hnd, fn, so, wr, tmpC,
                   tmpSo, diskVars, wasted>>

(* The kernel returns.                                                     *)
RunDone(th) ==
    /\ \/ pc[th] = "run" /\ pc' = [pc EXCEPT ![th] = "destroy"]
                         /\ UNCHANGED <<tr, fn>>
       \/ pc[th] = "fast" /\ pc' = [pc EXCEPT ![th] = "idle"]
                          /\ tr' = [tr EXCEPT ![th] = NULL]
                          /\ fn' = [fn EXCEPT ![th] = NULL]
    /\ UNCHANGED <<alive, life, pinned, lib, mode, hnd, so, wr, tmpC, tmpSo,
                   diskVars, wasted>>

(* Mutants of DestroyCtx: the C file is left, and the handle is freed but  *)
(* the context is kept for the next call.                                  *)
DestroyCtxKeepsC(th) ==
    LET p == ProcOf(th)  k == HashKey(tr[th]) IN
    /\ pc[th] = "destroy"
    /\ lib' = IF hnd[th] = NULL THEN lib
              ELSE [lib EXCEPT ![p][hnd[th]] = NULL]
    /\ entry' = IF so[th] = "cache" THEN [entry EXCEPT ![k] = NULL] ELSE entry
    /\ tmpSo' = IF so[th] = "tmp" THEN tmpSo \ {th} ELSE tmpSo
    /\ hnd' = [hnd EXCEPT ![th] = NULL] /\ fn' = [fn EXCEPT ![th] = NULL]
    /\ tr' = [tr EXCEPT ![th] = NULL] /\ so' = [so EXCEPT ![th] = "none"]
    /\ pc' = [pc EXCEPT ![th] = "idle"]
    /\ UNCHANGED <<alive, life, pinned, mode, wr, tmpC, content, wasted>>

DestroyCtxKept(th) ==
    /\ pc[th] = "destroy"
    /\ lib' = IF hnd[th] = NULL THEN lib
              ELSE [lib EXCEPT ![ProcOf(th)][hnd[th]] = NULL]
    /\ pc' = [pc EXCEPT ![th] = "idle"]
    /\ UNCHANGED <<alive, life, pinned, mode, tr, hnd, fn, so, wr, tmpC, tmpSo,
                   diskVars, wasted>>

(* faf_jit_destroy: close the handle if the context still has one, remove  *)
(* the file so_path names (after a hit that is the cache file itself) and  *)
(* the C file.                                                             *)
DestroyCtx(th) ==
    LET p == ProcOf(th)  k == HashKey(tr[th]) IN
    /\ pc[th] = "destroy"
    /\ lib' = IF hnd[th] = NULL THEN lib
              ELSE [lib EXCEPT ![p][hnd[th]] = NULL]
    /\ entry' = IF so[th] = "cache" THEN [entry EXCEPT ![k] = NULL] ELSE entry
    /\ tmpSo' = IF so[th] = "tmp" THEN tmpSo \ {th} ELSE tmpSo
    /\ tmpC' = IF so[th] = "tmp" THEN tmpC \ {th} ELSE tmpC
    /\ hnd' = [hnd EXCEPT ![th] = NULL]
    /\ fn' = [fn EXCEPT ![th] = NULL]
    /\ tr' = [tr EXCEPT ![th] = NULL]
    /\ so' = [so EXCEPT ![th] = "none"]
    /\ pc' = [pc EXCEPT ![th] = "idle"]
    /\ UNCHANGED <<alive, life, pinned, mode, wr, content, wasted>>

(* faf_destroy_transform, as far as the JIT goes.  The caller sees to it   *)
(* that no call on the transform is in progress.  so_path and c_path of    *)
(* t->jit_cache are never set, so no file goes.                            *)
DestroyTransform(t) ==
    /\ alive[ProcOf(t)] /\ life[t]
    /\ \A th \in Threads : tr[th] # t
    /\ life' = [life EXCEPT ![t] = FALSE]
    /\ pinned' = [pinned EXCEPT ![t] = NULL]
    /\ lib' = IF pinned[t] = NULL THEN lib
              ELSE [lib EXCEPT ![ProcOf(t)][pinned[t]] = NULL]
    /\ UNCHANGED <<alive, threadVars, tmpC, tmpSo, diskVars, wasted>>

(* Process p is killed, or falls over a damaged kernel: its memory goes,   *)
(* the files stay as they are.                                             *)
Crash(p) ==
    LET mine(f, v) == [x \in DOMAIN f |-> IF ProcOf(x) = p THEN v ELSE f[x]] IN
    /\ alive[p] /\ p \in Crashable
    /\ alive' = [alive EXCEPT ![p] = FALSE]
    /\ lib' = [lib EXCEPT ![p] = [h \in Handles |-> NULL]]
    /\ life' = mine(life, FALSE) /\ pinned' = mine(pinned, NULL)
    /\ pc' = mine(pc, "idle") /\ tr' = mine(tr, NULL)
    /\ hnd' = mine(hnd, NULL) /\ fn' = mine(fn, NULL)
    /\ so' = mine(so, "none") /\ wr' = mine(wr, NULL)
    /\ UNCHANGED <<mode, tmpC, tmpSo, diskVars, wasted>>

(* No transform is left, or no process that could use one.                 *)
Stopped ==
    /\ \A th \in Threads : pc[th] = "idle"
    /\ \A t \in Transforms : ~life[t]
    /\ UNCHANGED vars

ThreadStep(th) ==
    \/ LoadHit(th) \/ LoadMiss(th) \/ Compile(th)
    \/ SaveOpen(th) \/ SaveSkip(th) \/ SaveCopy(th)
    \/ PinWon(th) \/ PinLost(th) \/ RunUnpinned(th)
    \/ RunDone(th) \/ DestroyCtx(th)

Next ==
    \/ \E th \in Threads, t \in Transforms :
          BeginFast(th, t) \/ \E m \in CallModes : BeginSlow(th, t, m)
    \/ \E th \in Threads : ThreadStep(th)
    \/ \E t \in Transforms : DestroyTransform(t)
    \/ \E p \in Procs : Crash(p)
    \/ Stopped

Spec == Init /\ [][Next]_vars

(* A thread inside a call keeps running: gcc, the copy and the kernel end. *)
FairSpec == Spec /\ \A th \in Threads : WF_vars(ThreadStep(th))
-----------------------------------------------------------------------------
TypeOK ==
    /\ alive \in [Procs -> BOOLEAN] /\ life \in [Transforms -> BOOLEAN]
    /\ pinned \in [Transforms -> Handles \cup {NULL}]
    /\ lib \in [Procs -> [Handles -> Transforms \cup Inodes \cup {NULL}]]
    /\ pc \in [Threads -> PCs] /\ mode \in [Threads -> CallModes]
    /\ tr \in [Threads -> Transforms \cup {NULL}]
    /\ hnd \in [Threads -> Handles \cup {NULL}]
    /\ fn \in [Threads -> Handles \cup {NULL}]
    /\ so \in [Threads -> {"none", "tmp", "cache"}]
    /\ wr \in [Threads -> Inodes \cup {NULL}]
    /\ tmpC \subseteq Threads /\ tmpSo \subseteq Threads
    /\ entry \in [Keys -> Inodes \cup {NULL}]
    /\ content \in [Inodes -> [Chunk -> Transforms \cup {NULL}]]
    /\ wasted \in [Transforms -> Nat]
    /\ \A th \in Threads : pc[th] = "idle" <=> tr[th] = NULL

Running(th) == pc[th] \in {"run", "fast"}

(* Who will close handle h of process p: the calls whose context holds it  *)
(* and the transforms it is pinned on.                                     *)
Owners(p, h) ==
    {th \in Threads : ProcOf(th) = p /\ hnd[th] = h}
        \cup {t \in Transforms : ProcOf(t) = p /\ pinned[t] = h}

(* Every mapped kernel has exactly one owner that will close it, and what  *)
(* is closed has none: the CAS of faf_execute_jit_cached, where the winner *)
(* gives its handle away and the loser takes it back, leaks no handle and  *)
(* closes none twice.                                                      *)
HandlesOwned ==
    \A p \in Procs, h \in Handles :
        IF lib[p][h] = NULL THEN Owners(p, h) = {}
        ELSE \E x \in Threads \cup Transforms : Owners(p, h) = {x}

(* No thread is inside a kernel whose library has been closed, whichever   *)
(* thread compiled it and however its own context ends.                    *)
RunsMappedKernel ==
    \A th \in Threads :
        Running(th) => fn[th] # NULL /\ lib[ProcOf(th)][fn[th]] # NULL

(* The temporary files of a call go with it; only a killed process leaves  *)
(* any behind (faf_jit_destroy is reached on every path).                  *)
NoTempFilesLeft ==
    \A th \in tmpC \cup tmpSo : so[th] = "tmp" \/ ~alive[ProcOf(th)]

(* Every piece of the kernel that a thread is inside was built from the    *)
(* program of the transform it called: what crashes, full disks and saves  *)
(* of other threads and processes at the same time leave in a cache file   *)
(* is incomplete at worst, never of another program (hash_transform).      *)
RunsOwnPieces ==
    \A th \in Threads : Running(th) =>
        \A c \in Chunk :
            LET built == Chunks(ProcOf(th), fn[th])[c] IN
            built # NULL => Prog[built] = Prog[tr[th]]

(* README.md:30, "with an on-disk cache across process runs", and          *)
(* include/fastandfourier.h:928, "compiled (or loaded from the on-disk     *)
(* cache)": a piece is missing from a kernel that a thread is inside only  *)
(* while somebody is saving it (save_kernel_to_cache), not for ever after. *)
CutOnlyMidSave ==
    \A th \in Threads : Running(th) =>
        \/ \A c \in Chunk : Chunks(ProcOf(th), fn[th])[c] # NULL
        \/ \E x \in Threads : wr[x] = lib[ProcOf(th)][fn[th]]

(* src/jit/faf_jit.c:1153-1154, "A compare-and-swap guards the cache write *)
(* so concurrent first calls are safe": the kernel a thread is inside is   *)
(* the whole program of the transform it was called on.                    *)
RunsOwnProgram ==
    \A th \in Threads : Running(th) =>
        \A c \in Chunk :
            LET built == Chunks(ProcOf(th), fn[th])[c] IN
            built # NULL /\ Prog[built] = Prog[tr[th]]

(* A kernel that has addresses of its process and transform written into   *)
(* it runs only while both are there.                                      *)
NoStalePointers ==
    \A th \in Threads : Running(th) =>
        \A c \in Chunk :
            LET built == Chunks(ProcOf(th), fn[th])[c] IN
            built # NULL /\ KernelHoldsPointers(built)
                => ProcOf(built) = ProcOf(th) /\ life[built]

(* Concurrent first calls throw away at most one compilation per other     *)
(* thread of the process.                                                  *)
WastedBounded ==
    \A t \in Transforms : wasted[t] # 0 =>
        wasted[t] < Cardinality({th \in Threads : ProcOf(th) = ProcOf(t)})

(* Once a transform has a kernel it keeps that one for life.               *)
PinStable ==
    [][\A t \in Transforms :
          pinned[t] # NULL /\ life'[t] => pinned'[t] = pinned[t]]_vars

(* Pay once: from some moment after the pin on, every                      *)
(* faf_execute_jit_cached of the transform takes the fast path.            *)
PaysOnce ==
    \A t \in Transforms :
        pinned[t] # NULL ~>
            [](\A th \in Threads :
                  tr[th] = t /\ mode[th] = "cached" => pc[th] = "fast")

(* The call protocol without files and compiler: the JIT does no more than *)
(* KernelPin allows, whatever the interleaving.                            *)
Pin == INSTANCE KernelPin WITH
    mapped <- [p \in Procs |-> {h \in Handles : lib[p][h] # NULL}],
    own <- hnd,
    pin <- pinned,
    run <- [th \in Threads |-> IF Running(th) THEN fn[th] ELSE NULL]

ImplementsKernelPin == Pin!Spec

(* README.md:30, "with an on-disk cache across process runs": nothing that *)
(* the library does takes a kernel out of the cache again, least of all    *)
(* using it (faf_jit_destroy).                                             *)
HitKeepsEntry == [][\A k \in Keys : entry[k] # NULL => entry'[k] # NULL]_vars

(* src/jit/faf_jit.c:1154, "at most one extra compilation is wasted".      *)
AtMostOneWasted == \A t \in Transforms : wasted[t] <= 1
=============================================================================
