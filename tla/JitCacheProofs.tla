--------------------------- MODULE JitCacheProofs ---------------------------
(***************************************************************************)
(* Proofs about JitCache for any number of processes, threads, transforms, *)
(* handles and files: the handle of every mapped kernel has one owner, no  *)
(* thread is inside a closed one, no temporary file outlives its call, and *)
(* the call protocol of faf_execute_jit_cached, without its files and its  *)
(* compiler, is that of KernelPin: a kernel once pinned is kept, and       *)
(* racing calls waste a bounded number of compilations.  And what mapped   *)
(* kernels contain: no kernel with the addresses of a dead transform or of *)
(* another process runs, no piece of one is of another program than that   *)
(* of its transform, and, unless a process was killed or a write failed,   *)
(* pieces are missing only while a save is under way.                      *)
(***************************************************************************)
EXTENDS JitCache, FiniteSetTheorems, TLAPS

(* Assigning one cell of a table of tables keeps its type.                 *)
LEMMA TableType ==
  ASSUME NEW S, NEW T, NEW V, NEW f \in [S -> [T -> V]],
         NEW x, NEW y, NEW v \in V
  PROVE  [f EXCEPT ![x][y] = v] \in [S -> [T -> V]]
  OBVIOUS

(* Every step keeps the types.                                             *)
LEMMA TypeStep == TypeOK /\ [Next]_vars => TypeOK'
<1> USE JitAssumption
<1> SUFFICES ASSUME TypeOK, [Next]_vars PROVE TypeOK'
  OBVIOUS
<1> USE DEF TypeOK
<1>1. ASSUME NEW th \in Threads, NEW t \in Transforms, BeginFast(th, t)
      PROVE  TypeOK'
  BY <1>1 DEF BeginFast, PCs, CallModes, diskVars
<1>2. ASSUME NEW th \in Threads, NEW t \in Transforms, NEW m \in CallModes,
             BeginSlow(th, t, m)
      PROVE  TypeOK'
  BY <1>2 DEF BeginSlow, PCs, CallModes, diskVars
<1>3. ASSUME NEW th \in Threads, LoadHit(th) PROVE TypeOK'
  <2>1. PICK h \in FreeHandles(ProcOf(th)) :
           /\ lib' = [lib EXCEPT ![ProcOf(th)][h] = entry[HashKey(tr[th])]]
           /\ hnd' = [hnd EXCEPT ![th] = h]
           /\ fn' = [fn EXCEPT ![th] = h]
    BY <1>3 DEF LoadHit
  <2>2. h \in Handles
    BY DEF FreeHandles
  <2>3. hnd' \in [Threads -> Handles \cup {NULL}]
        /\ fn' \in [Threads -> Handles \cup {NULL}]
    BY <2>1, <2>2
  <2>4. tr[th] \in Transforms
    BY <1>3 DEF LoadHit
  <2>5. lib' \in [Procs -> [Handles -> Transforms \cup Inodes \cup {NULL}]]
    <3>1. entry[HashKey(tr[th])] \in Transforms \cup Inodes \cup {NULL}
      BY <2>4 DEF Keys
    <3>2. [lib EXCEPT ![ProcOf(th)][h] = entry[HashKey(tr[th])]]
             \in [Procs -> [Handles -> Transforms \cup Inodes \cup {NULL}]]
      BY <3>1, TableType, Zenon
    <3> QED
      BY <2>1, <3>2, Zenon
  <2> QED
    BY <1>3, <2>3, <2>5 DEF LoadHit, PCs, diskVars
<1>4. ASSUME NEW th \in Threads, LoadMiss(th) PROVE TypeOK'
  BY <1>4 DEF LoadMiss, PCs, diskVars
<1>5. ASSUME NEW th \in Threads, Compile(th) PROVE TypeOK'
  <2>1. /\ pc[th] = "compile" /\ tr[th] \in Transforms
        /\ pc' \in [Threads -> PCs]
        /\ so' \in [Threads -> {"none", "tmp", "cache"}]
        /\ tmpC' \subseteq Threads /\ tmpSo' \subseteq Threads
    BY <1>5 DEF Compile, PCs
  <2>2. /\ lib' \in [Procs -> [Handles -> Transforms \cup Inodes \cup {NULL}]]
        /\ hnd' \in [Threads -> Handles \cup {NULL}]
        /\ fn' \in [Threads -> Handles \cup {NULL}]
    <3>1. CASE UNCHANGED <<lib, hnd, fn>>
      BY <3>1
    <3>2. CASE \E h \in FreeHandles(ProcOf(th)) :
                  /\ lib' = [lib EXCEPT ![ProcOf(th)][h] = tr[th]]
                  /\ hnd' = [hnd EXCEPT ![th] = h]
                  /\ fn' = [fn EXCEPT ![th] = h]
      <4>1. PICK h \in FreeHandles(ProcOf(th)) :
               /\ lib' = [lib EXCEPT ![ProcOf(th)][h] = tr[th]]
               /\ hnd' = [hnd EXCEPT ![th] = h]
               /\ fn' = [fn EXCEPT ![th] = h]
        BY <3>2
      <4>2. tr[th] \in Transforms \cup Inodes \cup {NULL}
        BY <2>1
      <4>3. [lib EXCEPT ![ProcOf(th)][h] = tr[th]]
               \in [Procs -> [Handles -> Transforms \cup Inodes \cup {NULL}]]
        BY <4>2, TableType, Zenon
      <4> QED
        BY <4>1, <4>3 DEF FreeHandles
    <3> QED
      BY <1>5, <3>1, <3>2 DEF Compile
  <2>3. \A x \in Threads : pc'[x] = "idle" <=> tr'[x] = NULL
    BY <1>5 DEF Compile, PCs
  <2> QED
    BY <1>5, <2>1, <2>2, <2>3 DEF Compile, diskVars
<1>6. ASSUME NEW th \in Threads, SaveOpen(th) PROVE TypeOK'
  <2>1. tr[th] \in Transforms
    BY <1>6 DEF SaveOpen
  <2>2. PICK i \in IF entry[HashKey(tr[th])] # NULL
                   THEN {entry[HashKey(tr[th])]} ELSE FreeInodes :
           /\ entry' = [entry EXCEPT ![HashKey(tr[th])] = i]
           /\ content' = [content EXCEPT ![i] = [c \in Chunk |-> NULL]]
           /\ wr' = [wr EXCEPT ![th] = i]
    BY <1>6 DEF SaveOpen
  <2>3. i \in Inodes
    BY <2>1, <2>2 DEF FreeInodes, Keys
  <2>4. [c \in Chunk |-> NULL] \in [Chunk -> Transforms \cup {NULL}]
    OBVIOUS
  <2>5. content' \in [Inodes -> [Chunk -> Transforms \cup {NULL}]]
    BY <2>2, <2>4
  <2> QED
    BY <1>6, <2>2, <2>3, <2>5 DEF SaveOpen, PCs
<1>7. ASSUME NEW th \in Threads, SaveSkip(th) PROVE TypeOK'
  BY <1>7 DEF SaveSkip, PCs, diskVars
<1>8. ASSUME NEW th \in Threads, SaveCopy(th) PROVE TypeOK'
  <2>1. tr[th] \in Transforms
    BY <1>8 DEF SaveCopy
  <2>2. content' \in [Inodes -> [Chunk -> Transforms \cup {NULL}]]
    <3>1. tr[th] \in Transforms \cup {NULL}
      BY <2>1
    <3>2. \A c : [content EXCEPT ![wr[th]][c] = tr[th]]
                    \in [Inodes -> [Chunk -> Transforms \cup {NULL}]]
      BY <3>1, TableType, Zenon
    <3>3. \/ content' = [content EXCEPT ![wr[th]][1] = tr[th]]
          \/ content' = [content EXCEPT ![wr[th]][2] = tr[th]]
          \/ content' = content
      BY <1>8 DEF SaveCopy, Writes
    <3>4. CASE content' = [content EXCEPT ![wr[th]][1] = tr[th]]
      BY <3>2, <3>4, Zenon
    <3>5. CASE content' = [content EXCEPT ![wr[th]][2] = tr[th]]
      BY <3>2, <3>5, Zenon
    <3> QED
      BY <3>3, <3>4, <3>5
  <2>3. UNCHANGED <<alive, life, pinned, lib, mode, tr, hnd, fn, so, tmpC,
                    tmpSo, entry, wasted>>
    BY <1>8 DEF SaveCopy
  <2>4. /\ wr' = wr \/ wr' = [wr EXCEPT ![th] = NULL]
        /\ \/ pc' = [pc EXCEPT ![th] = "copy2"]
           \/ pc' = [pc EXCEPT ![th] = "call"]
        /\ pc[th] # "idle"
    BY <1>8 DEF SaveCopy
  <2>5. wr' \in [Threads -> Inodes \cup {NULL}]
    BY <2>4
  <2>6. pc' \in [Threads -> PCs]
        /\ \A x \in Threads : pc'[x] = "idle" <=> pc[x] = "idle"
    BY <2>4 DEF PCs
  <2> QED
    BY <2>2, <2>3, <2>5, <2>6
<1>9. ASSUME NEW th \in Threads, PinWon(th) PROVE TypeOK'
  BY <1>9 DEF PinWon, PCs, diskVars
<1>10. ASSUME NEW th \in Threads, PinLost(th) PROVE TypeOK'
  <2>1. tr[th] \in Transforms
    BY <1>10 DEF PinLost
  <2>2. wasted' \in [Transforms -> Nat]
    BY <1>10, <2>1 DEF PinLost
  <2> QED
    BY <1>10, <2>2 DEF PinLost, PCs, diskVars
<1>11. ASSUME NEW th \in Threads, RunUnpinned(th) PROVE TypeOK'
  BY <1>11 DEF RunUnpinned, PCs, diskVars
<1>12. ASSUME NEW th \in Threads, RunDone(th) PROVE TypeOK'
  <2>1. CASE pc' = [pc EXCEPT ![th] = "destroy"] /\ UNCHANGED <<tr, fn>> /\ pc[th] = "run"
    BY <1>12, <2>1 DEF RunDone, PCs, diskVars
  <2>2. CASE /\ pc' = [pc EXCEPT ![th] = "idle"]
             /\ tr' = [tr EXCEPT ![th] = NULL] /\ fn' = [fn EXCEPT ![th] = NULL]
    BY <1>12, <2>2 DEF RunDone, PCs, diskVars
  <2> QED
    BY <1>12, <2>1, <2>2 DEF RunDone
<1>13. ASSUME NEW th \in Threads, DestroyCtx(th) PROVE TypeOK'
  BY <1>13 DEF DestroyCtx, PCs
<1>14. ASSUME NEW t \in Transforms, DestroyTransform(t) PROVE TypeOK'
  BY <1>14 DEF DestroyTransform, threadVars, diskVars
<1>15. ASSUME NEW p \in Procs, Crash(p) PROVE TypeOK'
  <2>1. /\ alive' \in [Procs -> BOOLEAN] /\ life' \in [Transforms -> BOOLEAN]
        /\ pinned' \in [Transforms -> Handles \cup {NULL}]
    BY <1>15 DEF Crash
  <2>2. lib' \in [Procs -> [Handles -> Transforms \cup Inodes \cup {NULL}]]
    BY <1>15 DEF Crash
  <2>3. /\ pc' \in [Threads -> PCs] /\ tr' \in [Threads -> Transforms \cup {NULL}]
        /\ \A th \in Threads : pc'[th] = "idle" <=> tr'[th] = NULL
    BY <1>15 DEF Crash, PCs
  <2>4. /\ hnd' \in [Threads -> Handles \cup {NULL}]
        /\ fn' \in [Threads -> Handles \cup {NULL}]
        /\ wr' \in [Threads -> Inodes \cup {NULL}]
    BY <1>15 DEF Crash
  <2>5. so' \in [Threads -> {"none", "tmp", "cache"}]
    BY <1>15 DEF Crash
  <2>6. UNCHANGED <<mode, tmpC, tmpSo, entry, content, wasted>>
    BY <1>15 DEF Crash, diskVars
  <2> QED
    BY <2>1, <2>2, <2>3, <2>4, <2>5, <2>6
<1>16. CASE UNCHANGED vars
  BY <1>16 DEF vars, threadVars, diskVars
<1> QED
  BY <1>1, <1>2, <1>3, <1>4, <1>5, <1>6, <1>7, <1>8, <1>9, <1>10, <1>11,
     <1>12, <1>13, <1>14, <1>15, <1>16
     DEF Next, ThreadStep, Stopped

(* Type correctness of every variable.                                     *)
THEOREM TypeCorrect == Spec => []TypeOK
<1>1. Init => TypeOK
  BY JitAssumption DEF Init, TypeOK, PCs, CallModes
<1> QED
  BY <1>1, TypeStep, PTL DEF Spec
-----------------------------------------------------------------------------
(* What a call holds at each point of its way.                             *)
CallInv ==
    /\ \A th \in Threads :
          /\ tr[th] # NULL => ProcOf(tr[th]) = ProcOf(th) /\ life[tr[th]]
          /\ pc[th] \in {"idle", "load", "compile", "fast"}
                => hnd[th] = NULL /\ so[th] = "none"
          /\ pc[th] \in {"save", "copy1", "copy2", "call"}
                => hnd[th] # NULL /\ fn[th] = hnd[th]
          /\ pc[th] = "run" =>
                /\ fn[th] # NULL
                /\ \/ hnd[th] = fn[th]
                   \/ hnd[th] = NULL /\ pinned[tr[th]] = fn[th]
          /\ pc[th] = "fast" => fn[th] # NULL /\ pinned[tr[th]] = fn[th]
    /\ \A t \in Transforms : pinned[t] # NULL => life[t]

(* HandlesOwned in parts: an owner's handle is mapped, two owners have two *)
(* handles, and a mapped handle has an owner.                              *)
HeldMapped ==
    /\ \A th \in Threads : hnd[th] # NULL => lib[ProcOf(th)][hnd[th]] # NULL
    /\ \A t \in Transforms :
          pinned[t] # NULL => lib[ProcOf(t)][pinned[t]] # NULL

HeldOnce ==
    /\ \A x, y \in Threads : ProcOf(x) = ProcOf(y) /\ hnd[x] = hnd[y]
                                => x = y \/ hnd[x] = NULL
    /\ \A x, y \in Transforms : ProcOf(x) = ProcOf(y) /\ pinned[x] = pinned[y]
                                => x = y \/ pinned[x] = NULL
    /\ \A x \in Threads, y \in Transforms :
          ProcOf(x) = ProcOf(y) /\ hnd[x] = pinned[y] => hnd[x] = NULL

MappedHeld ==
    \A p \in Procs, h \in Handles : lib[p][h] # NULL =>
        \/ \E th \in Threads : ProcOf(th) = p /\ hnd[th] = h
        \/ \E t \in Transforms : ProcOf(t) = p /\ pinned[t] = h

OwnInv == HeldMapped /\ HeldOnce /\ MappedHeld
IInv == TypeOK /\ CallInv /\ OwnInv

(* The types that the steps below rest on.                                 *)
HoldTypes ==
    /\ lib \in [Procs -> [Handles -> Transforms \cup Inodes \cup {NULL}]]
    /\ hnd \in [Threads -> Handles \cup {NULL}]
    /\ pinned \in [Transforms -> Handles \cup {NULL}]
    /\ \A x \in Threads \cup Transforms : ProcOf(x) \in Procs
    /\ NULL \notin Handles \cup Transforms \cup Inodes

(* A thread without a handle gets a fresh one from dlopen.                 *)
LEMMA AcquireOwn ==
  ASSUME HoldTypes, OwnInv, NEW th \in Threads, NEW h \in Handles,
         NEW v \in Transforms \cup Inodes,
         lib[ProcOf(th)][h] = NULL, hnd[th] = NULL,
         lib' = [lib EXCEPT ![ProcOf(th)][h] = v],
         hnd' = [hnd EXCEPT ![th] = h], UNCHANGED pinned
  PROVE  OwnInv'
<1> USE DEF HoldTypes
<1>1. HeldMapped'
  BY DEF OwnInv, HeldMapped
<1>2. HeldOnce'
  BY DEF OwnInv, HeldOnce, HeldMapped
<1>3. MappedHeld'
  <2> SUFFICES ASSUME NEW p \in Procs, NEW g \in Handles, lib'[p][g] # NULL
               PROVE  \/ \E x \in Threads : ProcOf(x) = p /\ hnd'[x] = g
                      \/ \E x \in Transforms : ProcOf(x) = p /\ pinned'[x] = g
    BY DEF MappedHeld
  <2>1. CASE p = ProcOf(th) /\ g = h
    BY <2>1
  <2>2. CASE ~(p = ProcOf(th) /\ g = h)
    <3>1. lib'[p][g] = IF p = ProcOf(th) /\ g = h THEN v ELSE lib[p][g]
      <4>1. ProcOf(th) \in Procs
        OBVIOUS
      <4> QED
        BY <4>1
    <3>2. \/ \E x \in Threads : ProcOf(x) = p /\ hnd[x] = g
          \/ \E x \in Transforms : ProcOf(x) = p /\ pinned[x] = g
      BY <2>2, <3>1 DEF OwnInv, MappedHeld
    <3> QED
      BY <3>2
  <2> QED
    BY <2>1, <2>2
<1> QED
  BY <1>1, <1>2, <1>3 DEF OwnInv

(* The winner of the compare-and-swap gives its handle to the transform.   *)
LEMMA GiveOwn ==
  ASSUME HoldTypes, OwnInv, NEW th \in Threads, NEW t \in Transforms,
         ProcOf(t) = ProcOf(th), pinned[t] = NULL, hnd[th] # NULL,
         pinned' = [pinned EXCEPT ![t] = hnd[th]],
         hnd' = [hnd EXCEPT ![th] = NULL], UNCHANGED lib
  PROVE  OwnInv'
<1> USE DEF HoldTypes
<1>1. HeldMapped'
  BY DEF OwnInv, HeldMapped
<1>2. HeldOnce'
  BY DEF OwnInv, HeldOnce
<1>3. MappedHeld'
  <2> SUFFICES ASSUME NEW p \in Procs, NEW g \in Handles, lib'[p][g] # NULL
               PROVE  \/ \E x \in Threads : ProcOf(x) = p /\ hnd'[x] = g
                      \/ \E x \in Transforms : ProcOf(x) = p /\ pinned'[x] = g
    BY DEF MappedHeld
  <2>1. \/ \E x \in Threads : ProcOf(x) = p /\ hnd[x] = g
        \/ \E x \in Transforms : ProcOf(x) = p /\ pinned[x] = g
    BY DEF OwnInv, MappedHeld
  <2>2. CASE ProcOf(th) = p /\ hnd[th] = g
    BY <2>2
  <2>3. CASE ~(ProcOf(th) = p /\ hnd[th] = g)
    BY <2>1, <2>3
  <2> QED
    BY <2>2, <2>3
<1> QED
  BY <1>1, <1>2, <1>3 DEF OwnInv

(* A context closes its handle.                                            *)
LEMMA CloseOwn ==
  ASSUME HoldTypes, OwnInv, NEW th \in Threads, hnd[th] # NULL,
         lib' = [lib EXCEPT ![ProcOf(th)][hnd[th]] = NULL],
         hnd' = [hnd EXCEPT ![th] = NULL], UNCHANGED pinned
  PROVE  OwnInv'
<1> USE DEF HoldTypes
<1>1. HeldMapped'
  BY DEF OwnInv, HeldMapped, HeldOnce
<1>2. HeldOnce'
  BY DEF OwnInv, HeldOnce
<1>3. MappedHeld'
  <2> SUFFICES ASSUME NEW p \in Procs, NEW g \in Handles, lib'[p][g] # NULL
               PROVE  \/ \E x \in Threads : ProcOf(x) = p /\ hnd'[x] = g
                      \/ \E x \in Transforms : ProcOf(x) = p /\ pinned'[x] = g
    BY DEF MappedHeld
  <2>1. lib[p][g] # NULL /\ ~(ProcOf(th) = p /\ hnd[th] = g)
    <3>1. ProcOf(th) \in Procs /\ hnd[th] \in Handles
      OBVIOUS
    <3>2. lib'[p][g] = IF p = ProcOf(th) /\ g = hnd[th]
                       THEN NULL ELSE lib[p][g]
      BY <3>1
    <3> QED
      BY <3>2
  <2>2. \/ \E x \in Threads : ProcOf(x) = p /\ hnd[x] = g
        \/ \E x \in Transforms : ProcOf(x) = p /\ pinned[x] = g
    BY <2>1 DEF OwnInv, MappedHeld
  <2> QED
    BY <2>1, <2>2
<1> QED
  BY <1>1, <1>2, <1>3 DEF OwnInv

(* A transform closes its kernel when it is destroyed.                     *)
LEMMA RetireOwn ==
  ASSUME HoldTypes, OwnInv, NEW t \in Transforms, pinned[t] # NULL,
         lib' = [lib EXCEPT ![ProcOf(t)][pinned[t]] = NULL],
         pinned' = [pinned EXCEPT ![t] = NULL], UNCHANGED hnd
  PROVE  OwnInv'
<1> USE DEF HoldTypes
<1>1. HeldMapped'
  BY DEF OwnInv, HeldMapped, HeldOnce
<1>2. HeldOnce'
  BY DEF OwnInv, HeldOnce
<1>3. MappedHeld'
  <2> SUFFICES ASSUME NEW p \in Procs, NEW g \in Handles, lib'[p][g] # NULL
               PROVE  \/ \E x \in Threads : ProcOf(x) = p /\ hnd'[x] = g
                      \/ \E x \in Transforms : ProcOf(x) = p /\ pinned'[x] = g
    BY DEF MappedHeld
  <2>1. lib[p][g] # NULL /\ ~(ProcOf(t) = p /\ pinned[t] = g)
    <3>1. ProcOf(t) \in Procs /\ pinned[t] \in Handles
      OBVIOUS
    <3>2. lib'[p][g] = IF p = ProcOf(t) /\ g = pinned[t]
                       THEN NULL ELSE lib[p][g]
      BY <3>1
    <3> QED
      BY <3>2
  <2>2. \/ \E x \in Threads : ProcOf(x) = p /\ hnd[x] = g
        \/ \E x \in Transforms : ProcOf(x) = p /\ pinned[x] = g
    BY <2>1 DEF OwnInv, MappedHeld
  <2> QED
    BY <2>1, <2>2
<1> QED
  BY <1>1, <1>2, <1>3 DEF OwnInv
-----------------------------------------------------------------------------
(* Ownership is kept by every step.                                        *)
LEMMA OwnStep == IInv /\ [Next]_vars => OwnInv'
<1> SUFFICES ASSUME IInv, [Next]_vars PROVE OwnInv'
  OBVIOUS
<1>0. HoldTypes /\ OwnInv
  BY JitAssumption DEF IInv, TypeOK, HoldTypes
<1>same. ASSUME UNCHANGED <<lib, hnd, pinned>> PROVE OwnInv'
  BY <1>0, <1>same DEF OwnInv, HeldMapped, HeldOnce, MappedHeld
<1>1. ASSUME NEW th \in Threads, NEW t \in Transforms, BeginFast(th, t)
      PROVE  OwnInv'
  BY <1>1, <1>same DEF BeginFast
<1>2. ASSUME NEW th \in Threads, NEW t \in Transforms, NEW m \in CallModes,
             BeginSlow(th, t, m)
      PROVE  OwnInv'
  BY <1>2, <1>same DEF BeginSlow
<1>3. ASSUME NEW th \in Threads, LoadHit(th) PROVE OwnInv'
  <2>1. PICK h \in FreeHandles(ProcOf(th)) :
           /\ lib' = [lib EXCEPT ![ProcOf(th)][h] = entry[HashKey(tr[th])]]
           /\ hnd' = [hnd EXCEPT ![th] = h]
    BY <1>3 DEF LoadHit
  <2>2. h \in Handles /\ lib[ProcOf(th)][h] = NULL
    BY DEF FreeHandles
  <2>3. tr[th] \in Transforms
    BY <1>3 DEF LoadHit, IInv, TypeOK
  <2>4. entry[HashKey(tr[th])] \in Transforms \cup Inodes
    BY <1>3, <2>3 DEF LoadHit, IInv, TypeOK, Keys
  <2>5. hnd[th] = NULL /\ UNCHANGED pinned
    BY <1>3 DEF LoadHit, IInv, CallInv
  <2> QED
    BY <1>0, <2>1, <2>2, <2>4, <2>5, AcquireOwn
<1>4. ASSUME NEW th \in Threads, LoadMiss(th) PROVE OwnInv'
  BY <1>4, <1>same DEF LoadMiss
<1>5. ASSUME NEW th \in Threads, Compile(th) PROVE OwnInv'
  <2>1. CASE UNCHANGED <<lib, hnd, fn>>
    BY <1>5, <2>1, <1>same DEF Compile
  <2>2. CASE \E h \in FreeHandles(ProcOf(th)) :
                /\ lib' = [lib EXCEPT ![ProcOf(th)][h] = tr[th]]
                /\ hnd' = [hnd EXCEPT ![th] = h]
    <3>1. PICK h \in FreeHandles(ProcOf(th)) :
             /\ lib' = [lib EXCEPT ![ProcOf(th)][h] = tr[th]]
             /\ hnd' = [hnd EXCEPT ![th] = h]
      BY <2>2
    <3>2. h \in Handles /\ lib[ProcOf(th)][h] = NULL
      BY DEF FreeHandles
    <3>3. tr[th] \in Transforms \cup Inodes
      BY <1>5 DEF Compile, IInv, TypeOK
    <3>4. hnd[th] = NULL /\ UNCHANGED pinned
      BY <1>5 DEF Compile, IInv, CallInv
    <3> QED
      BY <1>0, <3>1, <3>2, <3>3, <3>4, AcquireOwn
  <2> QED
    BY <1>5, <2>1, <2>2 DEF Compile
<1>6. ASSUME NEW th \in Threads, SaveOpen(th) PROVE OwnInv'
  BY <1>6, <1>same DEF SaveOpen
<1>7. ASSUME NEW th \in Threads, SaveSkip(th) PROVE OwnInv'
  BY <1>7, <1>same DEF SaveSkip
<1>8. ASSUME NEW th \in Threads, SaveCopy(th) PROVE OwnInv'
  BY <1>8, <1>same DEF SaveCopy
<1>9. ASSUME NEW th \in Threads, PinWon(th) PROVE OwnInv'
  <2>1. tr[th] \in Transforms
    BY <1>9 DEF PinWon, IInv, TypeOK
  <2>2. ProcOf(tr[th]) = ProcOf(th) /\ hnd[th] # NULL
    BY <1>9, <2>1, JitAssumption DEF PinWon, IInv, CallInv
  <2> QED
    BY <1>0, <1>9, <2>1, <2>2, GiveOwn DEF PinWon
<1>10. ASSUME NEW th \in Threads, PinLost(th) PROVE OwnInv'
  BY <1>10, <1>same DEF PinLost
<1>11. ASSUME NEW th \in Threads, RunUnpinned(th) PROVE OwnInv'
  BY <1>11, <1>same DEF RunUnpinned
<1>12. ASSUME NEW th \in Threads, RunDone(th) PROVE OwnInv'
  BY <1>12, <1>same DEF RunDone
<1>13. ASSUME NEW th \in Threads, DestroyCtx(th) PROVE OwnInv'
  <2>1. CASE hnd[th] = NULL
    <3>1. hnd' = hnd
      BY <1>13, <2>1 DEF DestroyCtx, IInv, TypeOK
    <3> QED
      BY <1>13, <2>1, <3>1, <1>same DEF DestroyCtx
  <2>2. CASE hnd[th] # NULL
    BY <1>0, <1>13, <2>2, CloseOwn DEF DestroyCtx
  <2> QED
    BY <2>1, <2>2
<1>14. ASSUME NEW t \in Transforms, DestroyTransform(t) PROVE OwnInv'
  <2>1. CASE pinned[t] = NULL
    <3>1. pinned' = pinned
      BY <1>14, <2>1 DEF DestroyTransform, IInv, TypeOK
    <3> QED
      BY <1>14, <2>1, <3>1, <1>same DEF DestroyTransform, threadVars
  <2>2. CASE pinned[t] # NULL
    BY <1>0, <1>14, <2>2, RetireOwn DEF DestroyTransform, threadVars
  <2> QED
    BY <2>1, <2>2
<1>15. ASSUME NEW p \in Procs, Crash(p) PROVE OwnInv'
  <2>1. /\ \A x \in Threads : hnd'[x] = IF ProcOf(x) = p THEN NULL ELSE hnd[x]
        /\ \A x \in Transforms :
              pinned'[x] = IF ProcOf(x) = p THEN NULL ELSE pinned[x]
        /\ \A q \in Procs, g \in Handles :
              lib'[q][g] = IF q = p THEN NULL ELSE lib[q][g]
    <3>1. DOMAIN hnd = Threads /\ DOMAIN pinned = Transforms
          /\ DOMAIN lib = Procs
      BY <1>0 DEF HoldTypes
    <3>2. /\ lib' = [lib EXCEPT ![p] = [h \in Handles |-> NULL]]
          /\ hnd' = [x \in Threads |-> IF ProcOf(x) = p THEN NULL ELSE hnd[x]]
          /\ pinned' = [x \in Transforms |->
                           IF ProcOf(x) = p THEN NULL ELSE pinned[x]]
      BY <1>15, <3>1 DEF Crash
    <3> QED
      BY <3>1, <3>2
  <2>2. HeldMapped'
    BY <1>0, <2>1 DEF HoldTypes, OwnInv, HeldMapped
  <2>3. HeldOnce'
    BY <1>0, <2>1 DEF HoldTypes, OwnInv, HeldOnce
  <2>4. MappedHeld'
    <3> SUFFICES ASSUME NEW q \in Procs, NEW g \in Handles, lib'[q][g] # NULL
                 PROVE  \/ \E x \in Threads : ProcOf(x) = q /\ hnd'[x] = g
                        \/ \E x \in Transforms :
                              ProcOf(x) = q /\ pinned'[x] = g
      BY DEF MappedHeld
    <3>1. q # p /\ lib[q][g] # NULL
      BY <2>1
    <3>2. \/ \E x \in Threads : ProcOf(x) = q /\ hnd[x] = g
          \/ \E x \in Transforms : ProcOf(x) = q /\ pinned[x] = g
      BY <1>0, <3>1 DEF OwnInv, MappedHeld
    <3> QED
      BY <2>1, <3>1, <3>2
  <2> QED
    BY <2>2, <2>3, <2>4 DEF OwnInv
<1>16. CASE UNCHANGED vars
  BY <1>16, <1>same DEF vars, threadVars
<1> QED
  BY <1>1, <1>2, <1>3, <1>4, <1>5, <1>6, <1>7, <1>8, <1>9, <1>10, <1>11,
     <1>12, <1>13, <1>14, <1>15, <1>16
     DEF Next, ThreadStep, Stopped
-----------------------------------------------------------------------------
(* What calls hold is kept by every step.                                  *)
LEMMA CallStep == IInv /\ [Next]_vars => CallInv'
<1> SUFFICES ASSUME IInv, [Next]_vars PROVE CallInv'
  OBVIOUS
<1> USE JitAssumption DEF IInv, TypeOK, CallInv, PCs
<1>1. ASSUME NEW th \in Threads, NEW t \in Transforms, BeginFast(th, t)
      PROVE  CallInv'
  BY <1>1 DEF BeginFast
<1>2. ASSUME NEW th \in Threads, NEW t \in Transforms, NEW m \in CallModes,
             BeginSlow(th, t, m)
      PROVE  CallInv'
  BY <1>2 DEF BeginSlow
<1>3. ASSUME NEW th \in Threads, LoadHit(th) PROVE CallInv'
  <2>1. PICK h \in Handles :
           /\ hnd' = [hnd EXCEPT ![th] = h]
           /\ fn' = [fn EXCEPT ![th] = h]
    BY <1>3 DEF LoadHit, FreeHandles
  <2> QED
    BY <1>3, <2>1 DEF LoadHit
<1>4. ASSUME NEW th \in Threads, LoadMiss(th) PROVE CallInv'
  BY <1>4 DEF LoadMiss
<1>5. ASSUME NEW th \in Threads, Compile(th) PROVE CallInv'
  BY <1>5 DEF Compile, FreeHandles
<1>6. ASSUME NEW th \in Threads, SaveOpen(th) PROVE CallInv'
  BY <1>6 DEF SaveOpen
<1>7. ASSUME NEW th \in Threads, SaveSkip(th) PROVE CallInv'
  BY <1>7 DEF SaveSkip
<1>8. ASSUME NEW th \in Threads, SaveCopy(th) PROVE CallInv'
  BY <1>8 DEF SaveCopy
<1>9. ASSUME NEW th \in Threads, PinWon(th) PROVE CallInv'
  BY <1>9 DEF PinWon
<1>10. ASSUME NEW th \in Threads, PinLost(th) PROVE CallInv'
  BY <1>10 DEF PinLost
<1>11. ASSUME NEW th \in Threads, RunUnpinned(th) PROVE CallInv'
  BY <1>11 DEF RunUnpinned
<1>12. ASSUME NEW th \in Threads, RunDone(th) PROVE CallInv'
  BY <1>12 DEF RunDone
<1>13. ASSUME NEW th \in Threads, DestroyCtx(th) PROVE CallInv'
  BY <1>13 DEF DestroyCtx
<1>14. ASSUME NEW t \in Transforms, DestroyTransform(t) PROVE CallInv'
  BY <1>14 DEF DestroyTransform, threadVars
<1>15. ASSUME NEW p \in Procs, Crash(p) PROVE CallInv'
  <2>1. \A x \in Threads :
           IF ProcOf(x) = p
           THEN pc'[x] = "idle" /\ tr'[x] = NULL /\ hnd'[x] = NULL
                /\ so'[x] = "none"
           ELSE pc'[x] = pc[x] /\ tr'[x] = tr[x] /\ hnd'[x] = hnd[x]
                /\ so'[x] = so[x] /\ fn'[x] = fn[x]
    BY <1>15 DEF Crash
  <2>2. \A x \in Transforms :
           IF ProcOf(x) = p THEN life'[x] = FALSE /\ pinned'[x] = NULL
           ELSE life'[x] = life[x] /\ pinned'[x] = pinned[x]
    BY <1>15 DEF Crash
  <2>3. ASSUME NEW x \in Threads, tr'[x] # NULL
        PROVE  /\ ProcOf(x) # p /\ tr'[x] = tr[x] /\ tr[x] \in Transforms
               /\ ProcOf(tr[x]) = ProcOf(x) /\ life[tr[x]]
    BY <2>1, <2>3
  <2>4. \A t \in Transforms : pinned'[t] # NULL => life'[t]
    BY <2>2
  <2> QED
    BY <2>1, <2>2, <2>3, <2>4
<1>16. CASE UNCHANGED vars
  BY <1>16 DEF vars, threadVars
<1> QED
  BY <1>1, <1>2, <1>3, <1>4, <1>5, <1>6, <1>7, <1>8, <1>9, <1>10, <1>11,
     <1>12, <1>13, <1>14, <1>15, <1>16
     DEF Next, ThreadStep, Stopped
-----------------------------------------------------------------------------
(* The inductive invariant.                                                *)
LEMMA Inductive == Spec => []IInv
<1>1. Init => CallInv /\ OwnInv
  BY JitAssumption
     DEF Init, CallInv, OwnInv, HeldMapped, HeldOnce, MappedHeld
<1>2. TypeOK /\ CallInv /\ OwnInv /\ [Next]_vars => CallInv' /\ OwnInv'
  BY CallStep, OwnStep DEF IInv
<1> QED
  BY <1>1, <1>2, TypeCorrect, PTL DEF Spec, IInv

(* Every mapped kernel has exactly one owner that will close it, and a     *)
(* closed handle has none: faf_jit_destroy and faf_destroy_transform leak  *)
(* no handle and close none twice, for any number of racing first calls.   *)
THEOREM HandleOwnership == Spec => []HandlesOwned
<1>1. IInv => HandlesOwned
  <2> SUFFICES ASSUME IInv, NEW p \in Procs, NEW h \in Handles
               PROVE  IF lib[p][h] = NULL THEN Owners(p, h) = {}
                      ELSE \E x \in Threads \cup Transforms :
                              Owners(p, h) = {x}
    BY DEF HandlesOwned
  <2>0. HoldTypes /\ OwnInv /\ h # NULL
    BY JitAssumption DEF IInv, TypeOK, HoldTypes
  <2>1. CASE lib[p][h] = NULL
    <3>1. Owners(p, h) = {}
      BY <2>0, <2>1 DEF Owners, OwnInv, HeldMapped
    <3> QED
      BY <2>1, <3>1
  <2>2. CASE lib[p][h] # NULL
    <3>1. PICK x : x \in Owners(p, h)
      BY <2>0, <2>2 DEF Owners, OwnInv, MappedHeld
    <3>2. ASSUME NEW y \in Owners(p, h), NEW z \in Owners(p, h) PROVE y = z
      BY <2>0, <3>2 DEF Owners, OwnInv, HeldOnce
    <3>3. Owners(p, h) = {x} /\ x \in Threads \cup Transforms
      BY <3>1, <3>2 DEF Owners
    <3> QED
      BY <2>2, <3>3
  <2> QED
    BY <2>1, <2>2
<1> QED
  BY <1>1, Inductive, PTL

(* No thread is inside a kernel whose library has been closed: neither the *)
(* end of another call nor a lost race takes it away.                      *)
THEOREM KernelsMapped == Spec => []RunsMappedKernel
<1>1. IInv => RunsMappedKernel
  <2> SUFFICES ASSUME IInv, NEW th \in Threads, Running(th)
               PROVE  fn[th] # NULL /\ lib[ProcOf(th)][fn[th]] # NULL
    BY DEF RunsMappedKernel
  <2>1. tr[th] \in Transforms /\ ProcOf(tr[th]) = ProcOf(th) /\ fn[th] # NULL
    BY DEF IInv, TypeOK, CallInv, Running
  <2>2. hnd[th] = fn[th] \/ pinned[tr[th]] = fn[th]
    BY DEF IInv, CallInv, Running
  <2> QED
    BY <2>1, <2>2 DEF IInv, OwnInv, HeldMapped
<1> QED
  BY <1>1, Inductive, PTL

(* A call removes its temporary files, on every path; only a killed        *)
(* process leaves any behind.                                              *)
THEOREM NoTempFiles == Spec => []NoTempFilesLeft
<1>1. Init => NoTempFilesLeft
  BY DEF Init, NoTempFilesLeft
<1>2. IInv /\ NoTempFilesLeft /\ [Next]_vars => NoTempFilesLeft'
  <2> SUFFICES ASSUME IInv, NoTempFilesLeft, [Next]_vars,
                      NEW x \in (tmpC \cup tmpSo)'
               PROVE  so'[x] = "tmp" \/ ~alive'[ProcOf(x)]
    BY DEF NoTempFilesLeft
  <2> DEFINE Kept == UNCHANGED <<alive, so, tmpC, tmpSo>>
  <2>5. ASSUME NEW th \in Threads, NEW t \in Transforms,
               BeginFast(th, t) \/ \E m \in CallModes : BeginSlow(th, t, m)
        PROVE  Kept
    BY <2>5 DEF BeginFast, BeginSlow
  <2>6. ASSUME NEW th \in Threads,
               LoadMiss(th) \/ SaveOpen(th) \/ SaveSkip(th) \/ SaveCopy(th)
        PROVE  Kept
    BY <2>6 DEF LoadMiss, SaveOpen, SaveSkip, SaveCopy
  <2>7. ASSUME NEW th \in Threads,
               PinWon(th) \/ PinLost(th) \/ RunUnpinned(th) \/ RunDone(th)
        PROVE  Kept
    BY <2>7 DEF PinWon, PinLost, RunUnpinned, RunDone
  <2>8. /\ UNCHANGED vars => Kept
        /\ \A t \in Transforms : DestroyTransform(t) => Kept
    BY DEF vars, threadVars, DestroyTransform
  <2> HIDE DEF Kept
  <2>9. \/ \E th \in Threads : LoadHit(th) \/ Compile(th) \/ DestroyCtx(th)
        \/ \E p \in Procs : Crash(p)
        \/ Kept
    BY <2>5, <2>6, <2>7, <2>8 DEF Next, ThreadStep, Stopped
  <2> USE DEF Kept
  <2> USE JitAssumption DEF IInv, TypeOK, NoTempFilesLeft
  <2>same. CASE Kept
    BY <2>same
  <2>1. ASSUME NEW th \in Threads, LoadHit(th)
        PROVE  so'[x] = "tmp" \/ ~alive'[ProcOf(x)]
    BY <2>1 DEF LoadHit, CallInv
  <2>2. ASSUME NEW th \in Threads, Compile(th)
        PROVE  so'[x] = "tmp" \/ ~alive'[ProcOf(x)]
    BY <2>2 DEF Compile
  <2>3. ASSUME NEW th \in Threads, DestroyCtx(th)
        PROVE  so'[x] = "tmp" \/ ~alive'[ProcOf(x)]
    BY <2>3 DEF DestroyCtx
  <2>4. ASSUME NEW p \in Procs, Crash(p)
        PROVE  so'[x] = "tmp" \/ ~alive'[ProcOf(x)]
    BY <2>4 DEF Crash
  <2> QED
    BY <2>1, <2>2, <2>3, <2>4, <2>9, <2>same
<1> QED
  BY <1>1, <1>2, Inductive, PTL DEF Spec
-----------------------------------------------------------------------------
(* JitCache implements KernelPin.                                          *)

(* What KernelPin calls mapped and run.                                    *)
Mapped == [p \in Procs |-> {h \in Handles : lib[p][h] # NULL}]
Inside == [th \in Threads |-> IF Running(th) THEN fn[th] ELSE NULL]

(* dlopen adds a handle to those mapped in the process.                    *)
LEMMA MappedAdds ==
  ASSUME HoldTypes, NEW p \in Procs, NEW h \in Handles,
         NEW v \in Transforms \cup Inodes,
         lib' = [lib EXCEPT ![p][h] = v]
  PROVE  Mapped' = [Mapped EXCEPT ![p] = @ \cup {h}]
<1> USE DEF HoldTypes
<1>1. ASSUME NEW q \in Procs
      PROVE  Mapped'[q] = [Mapped EXCEPT ![p] = @ \cup {h}][q]
  <2>1. CASE q = p
    <3>1. \A g \in Handles : lib'[p][g] = IF g = h THEN v ELSE lib[p][g]
      OBVIOUS
    <3> QED
      BY <2>1, <3>1 DEF Mapped
  <2>2. CASE q # p
    BY <2>2 DEF Mapped
  <2> QED
    BY <2>1, <2>2
<1> QED
  BY <1>1 DEF Mapped

(* dlclose takes it away.                                                  *)
LEMMA MappedDrops ==
  ASSUME HoldTypes, NEW p \in Procs, NEW h \in Handles,
         lib' = [lib EXCEPT ![p][h] = NULL]
  PROVE  Mapped' = [Mapped EXCEPT ![p] = @ \ {h}]
<1> USE DEF HoldTypes
<1>1. ASSUME NEW q \in Procs
      PROVE  Mapped'[q] = [Mapped EXCEPT ![p] = @ \ {h}][q]
  <2>1. CASE q = p
    <3>1. \A g \in Handles : lib'[p][g] = IF g = h THEN NULL ELSE lib[p][g]
      OBVIOUS
    <3> QED
      BY <2>1, <3>1 DEF Mapped
  <2>2. CASE q # p
    BY <2>2 DEF Mapped
  <2> QED
    BY <2>1, <2>2
<1> QED
  BY <1>1 DEF Mapped

(* The abstract state a step leaves alone when it touches neither the      *)
(* handles nor a running kernel.                                           *)
LEMMA PinStutter ==
  ASSUME UNCHANGED <<lib, hnd, pinned>>, Inside' = Inside
  PROVE  UNCHANGED Pin!vars
  BY DEF Pin!vars, Mapped, Inside

(* Every step of JitCache is a step of KernelPin or changes nothing that   *)
(* KernelPin speaks of.                                                    *)
LEMMA PinStep == IInv /\ [Next]_vars => [Pin!Next]_(Pin!vars)
<1> SUFFICES ASSUME IInv, [Next]_vars PROVE Pin!Next \/ UNCHANGED Pin!vars
  OBVIOUS
<1> USE JitAssumption
<1>0. HoldTypes /\ OwnInv /\ CallInv /\ TypeOK
  BY DEF IInv, TypeOK, HoldTypes
<1>idle. \A th \in Threads : ~Running(th) => Inside[th] = NULL
  BY DEF Inside
<1>1. ASSUME NEW th \in Threads, NEW t \in Transforms, BeginFast(th, t)
      PROVE  Pin!Next
  <2>1. hnd[th] = NULL /\ Inside[th] = NULL /\ ProcOf(t) = ProcOf(th)
        /\ pinned[t] # NULL
    BY <1>0, <1>1 DEF BeginFast, CallInv, Inside, Running
  <2>2. Inside' = [Inside EXCEPT ![th] = pinned[t]]
    BY <1>0, <1>1 DEF BeginFast, TypeOK, PCs, Inside, Running
  <2>3. UNCHANGED <<Mapped, hnd, pinned>>
    BY <1>1 DEF BeginFast, Mapped
  <2>4. Pin!RunPinned(th, t)
    BY <2>1, <2>2, <2>3 DEF Pin!RunPinned, Pin!Idle, Mapped, Inside, ProcOf
  <2> QED
    BY <2>4 DEF Pin!Next
<1>2. ASSUME NEW th \in Threads, NEW t \in Transforms, NEW m \in CallModes,
             BeginSlow(th, t, m)
      PROVE  UNCHANGED Pin!vars
  BY <1>0, <1>2, PinStutter DEF BeginSlow, TypeOK, PCs, Inside, Running
<1>3. ASSUME NEW th \in Threads, NEW h \in FreeHandles(ProcOf(th)),
             NEW v \in Transforms \cup Inodes,
             lib' = [lib EXCEPT ![ProcOf(th)][h] = v],
             hnd' = [hnd EXCEPT ![th] = h],
             hnd[th] = NULL, ~Running(th), UNCHANGED pinned,
             Inside' = Inside
      PROVE  Pin!Next
  <2>1. h \in Handles /\ lib[ProcOf(th)][h] = NULL /\ ProcOf(th) \in Procs
    BY <1>0, <1>3 DEF FreeHandles, HoldTypes
  <2>2. h \notin Mapped[Homes[th]]
    BY <2>1 DEF Mapped, ProcOf
  <2>3. Mapped' = [Mapped EXCEPT ![Homes[th]] = @ \cup {h}]
    BY <1>0, <1>3, <2>1, MappedAdds DEF ProcOf
  <2>4. Inside[th] = NULL
    BY <1>3, <1>idle
  <2>5. Pin!Acquire(th)
    BY <1>3, <2>1, <2>2, <2>3, <2>4 DEF Pin!Acquire, Pin!Idle, Mapped, Inside
  <2> QED
    BY <2>5 DEF Pin!Next
<1>4. ASSUME NEW th \in Threads, LoadHit(th) PROVE Pin!Next
  <2>1. PICK h \in FreeHandles(ProcOf(th)) :
           /\ lib' = [lib EXCEPT ![ProcOf(th)][h] = entry[HashKey(tr[th])]]
           /\ hnd' = [hnd EXCEPT ![th] = h]
           /\ fn' = [fn EXCEPT ![th] = h]
    BY <1>4 DEF LoadHit
  <2>2. tr[th] \in Transforms /\ entry[HashKey(tr[th])] # NULL
    BY <1>0, <1>4 DEF LoadHit, TypeOK
  <2>3. entry[HashKey(tr[th])] \in Inodes
    BY <1>0, <2>2 DEF TypeOK, Keys
  <2>4. hnd[th] = NULL /\ ~Running(th) /\ pinned' = pinned
    BY <1>0, <1>4 DEF LoadHit, CallInv, Running
  <2>5. Inside' = Inside
    BY <1>0, <1>4, <2>1 DEF LoadHit, TypeOK, PCs, Inside, Running
  <2> QED
    BY <1>3, <2>1, <2>3, <2>4, <2>5
<1>5. ASSUME NEW th \in Threads, LoadMiss(th) PROVE UNCHANGED Pin!vars
  BY <1>0, <1>5, PinStutter DEF LoadMiss, TypeOK, PCs, Inside, Running
<1>6. ASSUME NEW th \in Threads, Compile(th)
      PROVE  Pin!Next \/ UNCHANGED Pin!vars
  <2>1. /\ pc[th] = "compile" /\ hnd[th] = NULL /\ ~Running(th)
        /\ tr[th] \in Transforms /\ UNCHANGED pinned
    BY <1>0, <1>6 DEF Compile, CallInv, TypeOK, Running
  <2>2. Inside' = Inside
    BY <1>0, <1>6 DEF Compile, TypeOK, PCs, Inside, Running
  <2>3. CASE UNCHANGED <<lib, hnd, fn>>
    BY <2>1, <2>2, <2>3, PinStutter
  <2>4. CASE \E h \in FreeHandles(ProcOf(th)) :
                /\ lib' = [lib EXCEPT ![ProcOf(th)][h] = tr[th]]
                /\ hnd' = [hnd EXCEPT ![th] = h]
                /\ fn' = [fn EXCEPT ![th] = h]
    <3>1. PICK h \in FreeHandles(ProcOf(th)) :
             /\ lib' = [lib EXCEPT ![ProcOf(th)][h] = tr[th]]
             /\ hnd' = [hnd EXCEPT ![th] = h]
      BY <2>4
    <3> QED
      BY <1>3, <2>1, <2>2, <3>1
  <2> QED
    BY <1>6, <2>3, <2>4 DEF Compile
<1>7. ASSUME NEW th \in Threads, SaveOpen(th) \/ SaveSkip(th) \/ SaveCopy(th)
      PROVE  UNCHANGED Pin!vars
  <2>1. UNCHANGED <<lib, hnd, pinned, fn>>
    BY <1>7 DEF SaveOpen, SaveSkip, SaveCopy
  <2>2. Inside' = Inside
    BY <1>0, <1>7 DEF SaveOpen, SaveSkip, SaveCopy, TypeOK, PCs, Inside, Running
  <2> QED
    BY <2>1, <2>2, PinStutter
<1>8. ASSUME NEW th \in Threads, PinWon(th) PROVE Pin!Next
  <2>1. PICK t \in Transforms : t = tr[th]
    BY <1>0, <1>8 DEF PinWon, TypeOK
  <2>2. /\ ProcOf(t) = ProcOf(th) /\ pinned[t] = NULL
        /\ hnd[th] # NULL /\ fn[th] = hnd[th] /\ Inside[th] = NULL
    BY <1>0, <1>8, <2>1 DEF PinWon, CallInv, TypeOK, Inside, Running
  <2>3. Inside' = [Inside EXCEPT ![th] = hnd[th]]
    BY <1>0, <1>8, <2>2 DEF PinWon, TypeOK, PCs, Inside, Running
  <2>4. /\ Mapped' = Mapped
        /\ pinned' = [pinned EXCEPT ![t] = hnd[th]]
        /\ hnd' = [hnd EXCEPT ![th] = NULL]
    BY <1>8, <2>1 DEF PinWon, Mapped
  <2>5. Pin!PinAndRun(th, t)
    BY <2>2, <2>3, <2>4 DEF Pin!PinAndRun, Mapped, Inside, ProcOf
  <2> QED
    BY <2>5 DEF Pin!Next
<1>9. ASSUME NEW th \in Threads, PinLost(th) \/ RunUnpinned(th) PROVE Pin!Next
  <2>1. hnd[th] # NULL /\ fn[th] = hnd[th] /\ Inside[th] = NULL
    BY <1>0, <1>9 DEF PinLost, RunUnpinned, CallInv, Inside, Running
  <2>2. Inside' = [Inside EXCEPT ![th] = hnd[th]]
    BY <1>0, <1>9, <2>1 DEF PinLost, RunUnpinned, TypeOK, PCs, Inside, Running
  <2>3. UNCHANGED <<Mapped, hnd, pinned>>
    BY <1>9 DEF PinLost, RunUnpinned, Mapped
  <2>4. Pin!RunOwn(th)
    BY <2>1, <2>2, <2>3 DEF Pin!RunOwn, Mapped, Inside
  <2> QED
    BY <2>4 DEF Pin!Next
<1>10. ASSUME NEW th \in Threads, RunDone(th) PROVE Pin!Next
  <2>1. Inside[th] # NULL
    BY <1>0, <1>10 DEF RunDone, CallInv, Inside, Running
  <2>2. Inside' = [Inside EXCEPT ![th] = NULL]
    BY <1>0, <1>10 DEF RunDone, TypeOK, PCs, Inside, Running
  <2>3. UNCHANGED <<Mapped, hnd, pinned>>
    BY <1>10 DEF RunDone, Mapped
  <2>4. Pin!Return(th)
    BY <2>1, <2>2, <2>3 DEF Pin!Return, Mapped, Inside
  <2> QED
    BY <2>4 DEF Pin!Next
<1>11. ASSUME NEW th \in Threads, DestroyCtx(th)
       PROVE  Pin!Next \/ UNCHANGED Pin!vars
  <2>1. Inside' = Inside /\ Inside[th] = NULL /\ UNCHANGED pinned
    BY <1>0, <1>11 DEF DestroyCtx, TypeOK, PCs, Inside, Running
  <2>2. hnd' = [hnd EXCEPT ![th] = NULL]
    BY <1>11 DEF DestroyCtx
  <2>3. CASE hnd[th] = NULL
    <3>1. lib' = lib /\ hnd' = hnd
      BY <1>0, <1>11, <2>2, <2>3 DEF DestroyCtx, HoldTypes
    <3> QED
      BY <2>1, <3>1, PinStutter
  <2>4. CASE hnd[th] # NULL
    <3>1. lib' = [lib EXCEPT ![ProcOf(th)][hnd[th]] = NULL]
      BY <1>11, <2>4 DEF DestroyCtx
    <3>2. Mapped' = [Mapped EXCEPT ![Homes[th]] = @ \ {hnd[th]}]
      BY <1>0, <2>4, <3>1, MappedDrops DEF HoldTypes, ProcOf
    <3>3. Pin!Unmap(th)
      BY <2>1, <2>2, <2>4, <3>2 DEF Pin!Unmap, Mapped, Inside
    <3> QED
      BY <3>3 DEF Pin!Next
  <2> QED
    BY <2>3, <2>4
<1>12. ASSUME NEW t \in Transforms, DestroyTransform(t)
       PROVE  Pin!Next \/ UNCHANGED Pin!vars
  <2>1. /\ Inside' = Inside /\ UNCHANGED hnd
        /\ pinned' = [pinned EXCEPT ![t] = NULL]
    BY <1>12 DEF DestroyTransform, threadVars, Inside, Running
  <2>2. CASE pinned[t] = NULL
    <3>1. lib' = lib /\ pinned' = pinned
      BY <1>0, <1>12, <2>1, <2>2 DEF DestroyTransform, HoldTypes
    <3> QED
      BY <2>1, <3>1, PinStutter
  <2>3. CASE pinned[t] # NULL
    <3>1. lib' = [lib EXCEPT ![ProcOf(t)][pinned[t]] = NULL]
      BY <1>12, <2>3 DEF DestroyTransform
    <3>2. Mapped' = [Mapped EXCEPT ![Homes[t]] = @ \ {pinned[t]}]
      BY <1>0, <2>3, <3>1, MappedDrops DEF HoldTypes, ProcOf
    <3>3. ASSUME NEW th \in Threads, ProcOf(th) = ProcOf(t),
                 Inside[th] = pinned[t]
          PROVE  FALSE
      <4>1. Running(th) /\ fn[th] = pinned[t] /\ tr[th] # t
        BY <1>12, <2>3, <3>3 DEF DestroyTransform, Inside
      <4>2. tr[th] \in Transforms /\ ProcOf(tr[th]) = ProcOf(t)
        BY <1>0, <3>3, <4>1 DEF Running, TypeOK, CallInv
      <4>3. hnd[th] = fn[th] \/ pinned[tr[th]] = fn[th]
        BY <1>0, <4>1 DEF Running, CallInv
      <4> QED
        BY <1>0, <2>3, <3>3, <4>1, <4>2, <4>3 DEF OwnInv, HeldOnce
    <3>4. Pin!Retire(t)
      BY <2>1, <2>3, <3>2, <3>3 DEF Pin!Retire, Mapped, Inside, ProcOf
    <3> QED
      BY <3>4 DEF Pin!Next
  <2> QED
    BY <2>2, <2>3
<1>13. ASSUME NEW p \in Procs, Crash(p) PROVE Pin!Next
  <2>1. Mapped' = [Mapped EXCEPT ![p] = {}]
    BY <1>0, <1>13 DEF Crash, HoldTypes, Mapped
  <2>2. hnd' = [x \in Threads |-> IF Homes[x] = p THEN NULL ELSE hnd[x]]
    BY <1>0, <1>13 DEF Crash, HoldTypes, ProcOf
  <2>3. pinned' = [x \in Transforms |-> IF Homes[x] = p THEN NULL ELSE pinned[x]]
    BY <1>0, <1>13 DEF Crash, HoldTypes, ProcOf
  <2>4. Inside' = [x \in Threads |-> IF Homes[x] = p THEN NULL ELSE Inside[x]]
    BY <1>0, <1>13 DEF Crash, TypeOK, ProcOf, Inside, Running
  <2>5. DOMAIN hnd = Threads /\ DOMAIN pinned = Transforms
        /\ DOMAIN Inside = Threads
    BY <1>0 DEF HoldTypes, Inside
  <2>6. Pin!Die(p)
    BY <2>1, <2>2, <2>3, <2>4, <2>5 DEF Pin!Die, Mapped, Inside
  <2> QED
    BY <2>6 DEF Pin!Next
<1>14. CASE UNCHANGED vars
  BY <1>14, PinStutter DEF vars, threadVars, Inside, Running
<1> QED
  BY <1>1, <1>2, <1>4, <1>5, <1>6, <1>7, <1>8, <1>9, <1>10, <1>11, <1>12,
     <1>13, <1>14
     DEF Next, ThreadStep, Stopped

(* The JIT with its files, compiler and compare-and-swap does no more than *)
(* the call protocol of KernelPin allows, crashes included.                *)
THEOREM PinRefinement == Spec => ImplementsKernelPin
<1>1. Init => Pin!Init
  BY DEF Init, Pin!Init, Running
<1> QED
  BY <1>1, PinStep, Inductive, PTL DEF Spec, ImplementsKernelPin, Pin!Spec
-----------------------------------------------------------------------------
(* A step of faf_execute_jit_cached, of its racing callers or of another   *)
(* process never replaces the kernel pinned on a living transform.         *)
THEOREM PinsStay == Spec => PinStable
<1>1. IInv /\ [Next]_vars =>
        [\A t \in Transforms :
            pinned[t] # NULL /\ life'[t] => pinned'[t] = pinned[t]]_vars
  <2> SUFFICES ASSUME IInv, Next, NEW t \in Transforms,
                      pinned[t] # NULL, life'[t]
               PROVE  pinned'[t] = pinned[t]
    OBVIOUS
  <2> USE JitAssumption DEF IInv, TypeOK
  <2>1. CASE UNCHANGED pinned
    BY <2>1
  <2>2. ASSUME NEW th \in Threads, PinWon(th) PROVE pinned'[t] = pinned[t]
    BY <2>2 DEF PinWon
  <2>3. ASSUME NEW s \in Transforms, DestroyTransform(s)
        PROVE  pinned'[t] = pinned[t]
    BY <2>3 DEF DestroyTransform
  <2>4. ASSUME NEW p \in Procs, Crash(p) PROVE pinned'[t] = pinned[t]
    <3>1. ProcOf(t) # p
      BY <2>4 DEF Crash
    <3> QED
      BY <2>4, <3>1 DEF Crash
  <2>5. \/ UNCHANGED pinned
        \/ \E th \in Threads : PinWon(th)
        \/ \E s \in Transforms : DestroyTransform(s)
        \/ \E p \in Procs : Crash(p)
    BY DEF Next, ThreadStep, Stopped, vars, BeginFast, BeginSlow, LoadHit,
           LoadMiss, Compile, SaveOpen, SaveSkip, SaveCopy, PinLost,
           RunUnpinned, RunDone, DestroyCtx
  <2> QED
    BY <2>1, <2>2, <2>3, <2>4, <2>5
<1> QED
  BY <1>1, Inductive, PTL DEF Spec, PinStable
-----------------------------------------------------------------------------
(* The threads that could call t, and those that have found nothing pinned *)
(* and may still lose the race for it.                                     *)
Peers(t) == {th \in Threads : ProcOf(th) = ProcOf(t)}
Racing(t) ==
    {th \in Threads :
        /\ tr[th] = t /\ mode[th] = "cached"
        /\ pc[th] \in {"load", "compile", "save", "copy1", "copy2", "call"}}

(* Nothing is lost before a kernel is pinned; from then on nobody joins    *)
(* the race, and everybody in it loses at most once.                       *)
LossInv ==
    \A t \in Transforms :
        /\ wasted[t] = 0 \/ wasted[t] < Cardinality(Peers(t))
        /\ life[t] /\ pinned[t] = NULL => wasted[t] = 0
        /\ life[t] /\ pinned[t] # NULL =>
              wasted[t] + Cardinality(Racing(t)) < Cardinality(Peers(t))

(* The racing threads are peers, and the sets are finite.                  *)
LEMMA RacingPeers ==
  ASSUME CallInv, NEW t \in Transforms
  PROVE  /\ Racing(t) \subseteq Peers(t)
         /\ IsFiniteSet(Peers(t)) /\ IsFiniteSet(Racing(t))
         /\ Cardinality(Peers(t)) \in Nat /\ Cardinality(Racing(t)) \in Nat
<1>1. Racing(t) \subseteq Peers(t)
  BY JitAssumption DEF CallInv, Racing, Peers
<1>2. Peers(t) \subseteq Threads
  BY DEF Peers
<1>3. IsFiniteSet(Peers(t))
  BY <1>2, ThreadsAssumption, FS_Subset
<1>4. IsFiniteSet(Racing(t))
  BY <1>1, <1>3, FS_Subset
<1> QED
  BY <1>1, <1>3, <1>4, FS_CardinalityType

(* Every step keeps the bound.                                             *)
LEMMA LossStep == IInv /\ LossInv /\ [Next]_vars => LossInv'
<1> SUFFICES ASSUME IInv, LossInv, [Next]_vars, NEW t \in Transforms
             PROVE  /\ wasted'[t] = 0 \/ wasted'[t] < Cardinality(Peers(t))
                    /\ life'[t] /\ pinned'[t] = NULL => wasted'[t] = 0
                    /\ life'[t] /\ pinned'[t] # NULL =>
                          wasted'[t] + Cardinality(Racing(t)')
                             < Cardinality(Peers(t))
  BY DEF LossInv, Peers
<1> DEFINE Goal ==
      /\ wasted'[t] = 0 \/ wasted'[t] < Cardinality(Peers(t))
      /\ life'[t] /\ pinned'[t] = NULL => wasted'[t] = 0
      /\ life'[t] /\ pinned'[t] # NULL =>
            wasted'[t] + Cardinality(Racing(t)') < Cardinality(Peers(t))
<1> SUFFICES Goal
  OBVIOUS
<1> USE JitAssumption
<1>0. TypeOK /\ CallInv
  BY DEF IInv
<1>1. /\ wasted[t] \in Nat
      /\ wasted[t] = 0 \/ wasted[t] < Cardinality(Peers(t))
      /\ life[t] /\ pinned[t] = NULL => wasted[t] = 0
      /\ life[t] /\ pinned[t] # NULL =>
            wasted[t] + Cardinality(Racing(t)) < Cardinality(Peers(t))
  BY <1>0 DEF LossInv, TypeOK
<1>2. /\ Racing(t) \subseteq Peers(t)
      /\ IsFiniteSet(Peers(t)) /\ IsFiniteSet(Racing(t))
      /\ Cardinality(Peers(t)) \in Nat /\ Cardinality(Racing(t)) \in Nat
  BY <1>0, RacingPeers
<1>quiet. ASSUME wasted'[t] = wasted[t],
                 life'[t] => life[t] /\ pinned'[t] = pinned[t],
                 Racing(t)' \subseteq Racing(t)
          PROVE  Goal
  <2>1. Cardinality(Racing(t)') \in Nat
        /\ Cardinality(Racing(t)') <= Cardinality(Racing(t))
    BY <1>2, <1>quiet, FS_Subset, FS_CardinalityType
  <2> QED
    BY <1>1, <1>2, <1>quiet, <2>1
<1>3. ASSUME NEW th \in Threads, NEW s \in Transforms, BeginFast(th, s)
      PROVE  Goal
  <2>1. Racing(t)' \subseteq Racing(t)
    BY <1>0, <1>3 DEF BeginFast, TypeOK, Racing
  <2> QED
    BY <1>3, <1>quiet, <2>1 DEF BeginFast
<1>4. ASSUME NEW th \in Threads, NEW s \in Transforms, NEW m \in CallModes,
             BeginSlow(th, s, m)
      PROVE  Goal
  <2>1. CASE s = t /\ m = "cached"
    BY <1>1, <1>4, <2>1 DEF BeginSlow
  <2>2. CASE ~(s = t /\ m = "cached")
    <3>1. Racing(t)' \subseteq Racing(t)
      BY <1>0, <1>4, <2>2 DEF BeginSlow, TypeOK, Racing
    <3> QED
      BY <1>4, <1>quiet, <3>1 DEF BeginSlow
  <2> QED
    BY <2>1, <2>2
<1>5. ASSUME NEW th \in Threads,
             \/ LoadHit(th) \/ LoadMiss(th) \/ Compile(th)
             \/ SaveOpen(th) \/ SaveSkip(th) \/ SaveCopy(th)
      PROVE  Goal
  <2>1. /\ UNCHANGED <<wasted, life, pinned, tr, mode>>
        /\ pc[th] \in {"load", "compile", "save", "copy1", "copy2"}
        /\ \A x \in Threads : x # th => pc'[x] = pc[x]
    BY <1>0, <1>5
       DEF LoadHit, LoadMiss, Compile, SaveOpen, SaveSkip, SaveCopy, TypeOK
  <2>2. Racing(t)' \subseteq Racing(t)
    BY <2>1 DEF Racing
  <2> QED
    BY <1>quiet, <2>1, <2>2
<1>6. ASSUME NEW th \in Threads, PinWon(th) PROVE Goal
  <2>1. /\ UNCHANGED <<wasted, life, tr, mode>> /\ pinned[tr[th]] = NULL
        /\ tr[th] \in Transforms /\ ProcOf(tr[th]) = ProcOf(th)
        /\ pinned' = [pinned EXCEPT ![tr[th]] = hnd[th]]
        /\ pc' = [pc EXCEPT ![th] = "run"]
    BY <1>0, <1>6 DEF PinWon, TypeOK, CallInv
  <2>2. Racing(t)' \subseteq Racing(t) \ {th}
    BY <1>0, <2>1 DEF Racing, TypeOK
  <2>3. CASE tr[th] = t
    <3>1. wasted[t] = 0 /\ th \in Peers(t)
      BY <1>0, <1>1, <2>1, <2>3 DEF CallInv, Peers
    <3>2. Racing(t)' \subseteq Peers(t) \ {th}
      BY <1>2, <2>2
    <3>3. /\ IsFiniteSet(Peers(t) \ {th})
          /\ Cardinality(Peers(t) \ {th}) = Cardinality(Peers(t)) - 1
      BY <1>2, <3>1, FS_RemoveElement
    <3>4. /\ Cardinality(Racing(t)') \in Nat
          /\ Cardinality(Racing(t)') <= Cardinality(Peers(t)) - 1
      BY <3>2, <3>3, FS_Subset, FS_CardinalityType
    <3> QED
      BY <1>2, <2>1, <3>1, <3>4
  <2>4. CASE tr[th] # t
    <3>1. pinned'[t] = pinned[t]
      BY <1>0, <2>1, <2>4 DEF TypeOK
    <3> QED
      BY <1>quiet, <2>1, <2>2, <3>1
  <2> QED
    BY <2>3, <2>4
<1>7. ASSUME NEW th \in Threads, PinLost(th) PROVE Goal
  <2>1. /\ UNCHANGED <<pinned, life, tr, mode>> /\ pinned[tr[th]] # NULL
        /\ tr[th] \in Transforms /\ life[tr[th]] /\ pc[th] = "call"
        /\ mode[th] = "cached" /\ pc' = [pc EXCEPT ![th] = "run"]
        /\ wasted' = [wasted EXCEPT ![tr[th]] = @ + 1]
    BY <1>0, <1>7 DEF PinLost, TypeOK, CallInv
  <2>2. Racing(t)' \subseteq Racing(t) \ {th}
    BY <1>0, <2>1 DEF Racing, TypeOK
  <2>3. CASE tr[th] = t
    <3>1. th \in Racing(t) /\ wasted'[t] = wasted[t] + 1
      BY <1>0, <2>1, <2>3 DEF Racing, TypeOK
    <3>2. /\ IsFiniteSet(Racing(t) \ {th})
          /\ Cardinality(Racing(t) \ {th}) = Cardinality(Racing(t)) - 1
      BY <1>2, <3>1, FS_RemoveElement
    <3>3. /\ Cardinality(Racing(t)') \in Nat
          /\ Cardinality(Racing(t)') <= Cardinality(Racing(t)) - 1
      BY <2>2, <3>2, FS_Subset, FS_CardinalityType
    <3> QED
      BY <1>1, <1>2, <2>1, <2>3, <3>1, <3>3
  <2>4. CASE tr[th] # t
    <3>1. wasted'[t] = wasted[t]
      BY <1>0, <2>1, <2>4 DEF TypeOK
    <3> QED
      BY <1>quiet, <2>1, <2>2, <3>1
  <2> QED
    BY <2>3, <2>4
<1>8. ASSUME NEW th \in Threads,
             RunUnpinned(th) \/ RunDone(th) \/ DestroyCtx(th)
      PROVE  Goal
  <2>1. /\ UNCHANGED <<wasted, life, pinned, mode>>
        /\ pc'[th] \in {"run", "destroy", "idle"}
        /\ \A x \in Threads : x # th => pc'[x] = pc[x] /\ tr'[x] = tr[x]
    BY <1>0, <1>8 DEF RunUnpinned, RunDone, DestroyCtx, TypeOK
  <2>2. Racing(t)' \subseteq Racing(t)
    BY <2>1 DEF Racing
  <2> QED
    BY <1>quiet, <2>1, <2>2
<1>9. ASSUME NEW s \in Transforms, DestroyTransform(s) PROVE Goal
  <2>1. /\ UNCHANGED <<wasted, mode, pc, tr>>
        /\ life' = [life EXCEPT ![s] = FALSE]
        /\ pinned' = [pinned EXCEPT ![s] = NULL]
    BY <1>9 DEF DestroyTransform, threadVars
  <2>2. life'[t] => life[t] /\ pinned'[t] = pinned[t]
    BY <1>0, <2>1 DEF TypeOK
  <2>3. Racing(t)' \subseteq Racing(t)
    BY <2>1 DEF Racing
  <2> QED
    BY <1>quiet, <2>1, <2>2, <2>3
<1>10. ASSUME NEW p \in Procs, Crash(p) PROVE Goal
  <2>1. /\ UNCHANGED <<wasted, mode>>
        /\ life'[t] => life[t] /\ pinned'[t] = pinned[t]
        /\ \A x \in Threads : IF ProcOf(x) = p THEN pc'[x] = "idle"
                              ELSE pc'[x] = pc[x] /\ tr'[x] = tr[x]
    BY <1>0, <1>10 DEF Crash, TypeOK
  <2>2. Racing(t)' \subseteq Racing(t)
    BY <2>1 DEF Racing
  <2> QED
    BY <1>quiet, <2>1, <2>2
<1>11. CASE UNCHANGED vars
  <2>1. Racing(t)' \subseteq Racing(t)
    BY <1>11 DEF vars, threadVars, Racing
  <2> QED
    BY <1>11, <1>quiet, <2>1 DEF vars
<1> QED
  BY <1>3, <1>4, <1>5, <1>6, <1>7, <1>8, <1>9, <1>10, <1>11
     DEF Next, ThreadStep, Stopped

(* Racing first calls of faf_execute_jit_cached throw away at most one     *)
(* compilation per other thread of the process, over the whole life of the *)
(* transform.                                                              *)
THEOREM BoundedWaste == Spec => []WastedBounded
<1>1. Init => LossInv
  BY DEF Init, LossInv
<1>2. IInv /\ LossInv => WastedBounded
  BY DEF LossInv, WastedBounded, Peers
<1> QED
  BY <1>1, <1>2, LossStep, Inductive, PTL DEF Spec

-----------------------------------------------------------------------------
(* What mapped kernels contain.                                            *)

(* Reading a table of tables after one cell was assigned.                  *)
LEMMA TableValue ==
  ASSUME NEW S, NEW T, NEW V, NEW f \in [S -> [T -> V]],
         NEW x, NEW y, NEW v, NEW s \in S, NEW t \in T
  PROVE  [f EXCEPT ![x][y] = v][s][t]
            = IF s = x /\ t = y THEN v ELSE f[s][t]
  OBVIOUS

(* What handle h of process p may map when it was made for transform t:    *)
(* the build of t itself, or a cache file if t takes part in the cache.    *)
MapsFor(p, h, t) ==
    \/ lib[p][h] = t
    \/ lib[p][h] \in Inodes /\ DiskCached(t)

(* Only disk-cached transforms are saved, and a handle, held by a call or  *)
(* pinned, maps what was made for its transform.                           *)
ContentInv ==
    /\ \A th \in Threads :
          pc[th] \in {"save", "copy1", "copy2"} => DiskCached(tr[th])
    /\ \A i \in Inodes, c \in Chunk :
          content[i][c] # NULL => DiskCached(content[i][c])
    /\ \A th \in Threads :
          hnd[th] # NULL => MapsFor(ProcOf(th), hnd[th], tr[th])
    /\ \A t \in Transforms :
          pinned[t] # NULL => MapsFor(ProcOf(t), pinned[t], t)

(* How one step can change the handle of a call: it is kept, with what it  *)
(* maps and the transform of the call; it goes; or it is a new one, made   *)
(* by dlopen of the cache file or of the build.                            *)
HandleStep(th) ==
    \/ /\ hnd'[th] = hnd[th] /\ tr'[th] = tr[th]
       /\ lib'[ProcOf(th)][hnd[th]] = lib[ProcOf(th)][hnd[th]]
    \/ hnd'[th] = NULL
    \/ /\ pc[th] = "load" /\ tr'[th] = tr[th] /\ DiskCached(tr[th])
       /\ entry[HashKey(tr[th])] \in Inodes
       /\ lib'[ProcOf(th)][hnd'[th]] = entry[HashKey(tr[th])]
    \/ /\ pc[th] = "compile" /\ tr'[th] = tr[th]
       /\ lib'[ProcOf(th)][hnd'[th]] = tr[th]

(* And the pin of a transform: it is kept, it goes, or a call gives its    *)
(* handle away.                                                            *)
PinChange(t) ==
    \/ /\ pinned'[t] = pinned[t]
       /\ lib'[ProcOf(t)][pinned[t]] = lib[ProcOf(t)][pinned[t]]
    \/ pinned'[t] = NULL
    \/ \E th \in Threads :
          /\ tr[th] = t /\ hnd[th] # NULL /\ ProcOf(th) = ProcOf(t)
          /\ pinned'[t] = hnd[th] /\ UNCHANGED lib

(* Every step changes handles and pins in these ways only.                 *)
LEMMA HandleSteps ==
  ASSUME IInv, Next
  PROVE  /\ \A x \in Threads : hnd[x] # NULL \/ hnd'[x] # NULL => HandleStep(x)
         /\ \A t \in Transforms :
               pinned[t] # NULL \/ pinned'[t] # NULL => PinChange(t)
<1> DEFINE Goal ==
      /\ \A x \in Threads : hnd[x] # NULL \/ hnd'[x] # NULL => HandleStep(x)
      /\ \A t \in Transforms :
            pinned[t] # NULL \/ pinned'[t] # NULL => PinChange(t)
<1> SUFFICES Goal
  OBVIOUS
<1> USE JitAssumption
<1>0. HoldTypes /\ OwnInv /\ CallInv /\ TypeOK
  BY DEF IInv, TypeOK, HoldTypes
<1>a. ASSUME NEW th \in Threads, NEW h \in Handles,
             NEW v \in Transforms \cup Inodes,
             lib[ProcOf(th)][h] = NULL, hnd[th] = NULL,
             lib' = [lib EXCEPT ![ProcOf(th)][h] = v],
             hnd' = [hnd EXCEPT ![th] = h], UNCHANGED <<pinned, tr>>
      PROVE  /\ hnd'[th] = h /\ lib'[ProcOf(th)][h] = v
             /\ \A x \in Threads \ {th} : hnd[x] # NULL => HandleStep(x)
             /\ \A x \in Threads \ {th} : hnd'[x] = hnd[x]
             /\ \A t \in Transforms : pinned[t] # NULL => PinChange(t)
  <2>1. hnd'[th] = h /\ lib'[ProcOf(th)][h] = v
        /\ \A x \in Threads \ {th} : hnd'[x] = hnd[x]
    BY <1>0, <1>a DEF HoldTypes
  <2>2. \A q \in Procs, g \in Handles :
           lib[q][g] # NULL => lib'[q][g] = lib[q][g]
    BY <1>0, <1>a DEF HoldTypes
  <2>3. \A x \in Threads \ {th} : hnd[x] # NULL => HandleStep(x)
    BY <1>0, <1>a, <2>1, <2>2 DEF HoldTypes, OwnInv, HeldMapped, HandleStep
  <2>4. \A t \in Transforms : pinned[t] # NULL => PinChange(t)
    BY <1>0, <1>a, <2>2 DEF HoldTypes, OwnInv, HeldMapped, PinChange
  <2> QED
    BY <2>1, <2>3, <2>4
<1>s. ASSUME NEW th \in Threads, UNCHANGED <<hnd, lib, pinned>>,
             hnd[th] # NULL => tr'[th] = tr[th],
             \A x \in Threads : x # th => tr'[x] = tr[x]
      PROVE  Goal
  BY <1>s DEF HandleStep, PinChange
<1>1. ASSUME NEW th \in Threads, NEW t \in Transforms, BeginFast(th, t)
      PROVE  Goal
  BY <1>0, <1>1, <1>s DEF BeginFast, CallInv, TypeOK
<1>2. ASSUME NEW th \in Threads, NEW t \in Transforms, NEW m \in CallModes,
             BeginSlow(th, t, m)
      PROVE  Goal
  BY <1>0, <1>2, <1>s DEF BeginSlow, CallInv, TypeOK
<1>3. ASSUME NEW th \in Threads, LoadHit(th) PROVE Goal
  <2>1. PICK h \in FreeHandles(ProcOf(th)) :
           /\ lib' = [lib EXCEPT ![ProcOf(th)][h] = entry[HashKey(tr[th])]]
           /\ hnd' = [hnd EXCEPT ![th] = h]
    BY <1>3 DEF LoadHit
  <2>2. h \in Handles /\ lib[ProcOf(th)][h] = NULL
    BY DEF FreeHandles
  <2>3. tr[th] \in Transforms /\ entry[HashKey(tr[th])] # NULL
    BY <1>0, <1>3 DEF LoadHit, TypeOK
  <2>4. entry[HashKey(tr[th])] \in Inodes
    BY <1>0, <2>3 DEF TypeOK, Keys
  <2>5. hnd[th] = NULL /\ UNCHANGED <<pinned, tr>> /\ DiskCached(tr[th])
        /\ pc[th] = "load"
    BY <1>0, <1>3 DEF LoadHit, CallInv
  <2>6. /\ hnd'[th] = h /\ lib'[ProcOf(th)][h] = entry[HashKey(tr[th])]
        /\ \A x \in Threads \ {th} : hnd[x] # NULL => HandleStep(x)
        /\ \A x \in Threads \ {th} : hnd'[x] = hnd[x]
        /\ \A t \in Transforms : pinned[t] # NULL => PinChange(t)
    BY <1>a, <2>1, <2>2, <2>4, <2>5
  <2>7. HandleStep(th)
    BY <2>4, <2>5, <2>6 DEF HandleStep
  <2> QED
    BY <2>5, <2>6, <2>7
<1>4. ASSUME NEW th \in Threads, LoadMiss(th) PROVE Goal
  BY <1>4, <1>s DEF LoadMiss
<1>5. ASSUME NEW th \in Threads, Compile(th) PROVE Goal
  <2>1. /\ pc[th] = "compile" /\ hnd[th] = NULL /\ tr[th] \in Transforms
        /\ UNCHANGED <<pinned, tr>>
    BY <1>0, <1>5 DEF Compile, CallInv, TypeOK
  <2>2. CASE UNCHANGED <<lib, hnd, fn>>
    BY <2>1, <2>2, <1>s
  <2>3. CASE \E h \in FreeHandles(ProcOf(th)) :
                /\ lib' = [lib EXCEPT ![ProcOf(th)][h] = tr[th]]
                /\ hnd' = [hnd EXCEPT ![th] = h]
                /\ fn' = [fn EXCEPT ![th] = h]
    <3>1. PICK h \in FreeHandles(ProcOf(th)) :
             /\ lib' = [lib EXCEPT ![ProcOf(th)][h] = tr[th]]
             /\ hnd' = [hnd EXCEPT ![th] = h]
      BY <2>3
    <3>2. h \in Handles /\ lib[ProcOf(th)][h] = NULL
      BY DEF FreeHandles
    <3>3. /\ hnd'[th] = h /\ lib'[ProcOf(th)][h] = tr[th]
          /\ \A x \in Threads \ {th} : hnd[x] # NULL => HandleStep(x)
          /\ \A x \in Threads \ {th} : hnd'[x] = hnd[x]
          /\ \A t \in Transforms : pinned[t] # NULL => PinChange(t)
      BY <1>a, <2>1, <3>1, <3>2
    <3>4. HandleStep(th)
      BY <2>1, <3>3 DEF HandleStep
    <3> QED
      BY <2>1, <3>3, <3>4
  <2> QED
    BY <1>5, <2>2, <2>3 DEF Compile
<1>6. ASSUME NEW th \in Threads, SaveOpen(th) \/ SaveSkip(th) \/ SaveCopy(th)
      PROVE  Goal
  BY <1>6, <1>s DEF SaveOpen, SaveSkip, SaveCopy
<1>7. ASSUME NEW th \in Threads, PinWon(th) PROVE Goal
  <2>1. /\ tr[th] \in Transforms /\ ProcOf(tr[th]) = ProcOf(th)
        /\ hnd[th] # NULL
    BY <1>0, <1>7 DEF PinWon, CallInv, TypeOK
  <2>2. \A x \in Threads : HandleStep(x)
    BY <1>0, <1>7 DEF PinWon, HandleStep, HoldTypes
  <2>3. \A t \in Transforms : PinChange(t)
    BY <1>0, <1>7, <2>1 DEF PinWon, PinChange, HoldTypes
  <2> QED
    BY <2>2, <2>3
<1>8. ASSUME NEW th \in Threads, PinLost(th) \/ RunUnpinned(th) PROVE Goal
  BY <1>8, <1>s DEF PinLost, RunUnpinned
<1>9. ASSUME NEW th \in Threads, RunDone(th) PROVE Goal
  BY <1>0, <1>9, <1>s DEF RunDone, CallInv, TypeOK
<1>10. ASSUME NEW th \in Threads, DestroyCtx(th) PROVE Goal
  <2>1. hnd' = [hnd EXCEPT ![th] = NULL] /\ tr' = [tr EXCEPT ![th] = NULL]
        /\ UNCHANGED pinned
    BY <1>10 DEF DestroyCtx
  <2>2. CASE hnd[th] = NULL
    <3>1. UNCHANGED <<hnd, lib>>
      BY <1>0, <1>10, <2>1, <2>2 DEF DestroyCtx, HoldTypes
    <3> QED
      BY <1>0, <1>s, <2>1, <2>2, <3>1 DEF TypeOK
  <2>3. CASE hnd[th] # NULL
    <3>1. \A q \in Procs, g \in Handles :
             ~(q = ProcOf(th) /\ g = hnd[th]) => lib'[q][g] = lib[q][g]
      BY <1>0, <1>10, <2>3 DEF DestroyCtx, HoldTypes
    <3>2. \A x \in Threads : hnd[x] # NULL \/ hnd'[x] # NULL => HandleStep(x)
      <4> SUFFICES ASSUME NEW x \in Threads, hnd[x] # NULL \/ hnd'[x] # NULL
                   PROVE  HandleStep(x)
        OBVIOUS
      <4>1. CASE x = th
        BY <1>0, <2>1, <4>1 DEF HandleStep, HoldTypes
      <4>2. CASE x # th
        <5>1. hnd'[x] = hnd[x] /\ tr'[x] = tr[x] /\ hnd[x] # NULL
          BY <1>0, <2>1, <4>2 DEF HoldTypes, TypeOK
        <5>2. ~(ProcOf(x) = ProcOf(th) /\ hnd[x] = hnd[th])
          BY <1>0, <2>3, <4>2 DEF OwnInv, HeldOnce
        <5> QED
          BY <1>0, <3>1, <5>1, <5>2 DEF HandleStep, HoldTypes
      <4> QED
        BY <4>1, <4>2
    <3>3. \A t \in Transforms :
             pinned[t] # NULL \/ pinned'[t] # NULL => PinChange(t)
      BY <1>0, <2>1, <2>3, <3>1 DEF PinChange, HoldTypes, OwnInv, HeldOnce
    <3> QED
      BY <3>2, <3>3
  <2> QED
    BY <2>2, <2>3
<1>11. ASSUME NEW t \in Transforms, DestroyTransform(t) PROVE Goal
  <2>1. pinned' = [pinned EXCEPT ![t] = NULL] /\ UNCHANGED <<hnd, tr>>
    BY <1>11 DEF DestroyTransform, threadVars
  <2>2. \A q \in Procs, g \in Handles :
           ~(pinned[t] # NULL /\ q = ProcOf(t) /\ g = pinned[t])
              => lib'[q][g] = lib[q][g]
    BY <1>0, <1>11 DEF DestroyTransform, HoldTypes
  <2>3. \A x \in Threads : hnd[x] # NULL \/ hnd'[x] # NULL => HandleStep(x)
    BY <1>0, <2>1, <2>2 DEF HandleStep, HoldTypes, OwnInv, HeldOnce
  <2>4. \A s \in Transforms :
           pinned[s] # NULL \/ pinned'[s] # NULL => PinChange(s)
    BY <1>0, <2>1, <2>2 DEF PinChange, HoldTypes, OwnInv, HeldOnce
  <2> QED
    BY <2>3, <2>4
<1>12. ASSUME NEW p \in Procs, Crash(p) PROVE Goal
  <2>1. \A q \in Procs : q # p => lib'[q] = lib[q]
    BY <1>0, <1>12 DEF Crash, HoldTypes
  <2>2. \A x \in Threads :
           IF ProcOf(x) = p THEN hnd'[x] = NULL
           ELSE hnd'[x] = hnd[x] /\ tr'[x] = tr[x]
    BY <1>0, <1>12 DEF Crash, TypeOK
  <2>3. \A t \in Transforms :
           pinned'[t] = IF ProcOf(t) = p THEN NULL ELSE pinned[t]
    BY <1>0, <1>12 DEF Crash, TypeOK
  <2> QED
    BY <2>1, <2>2, <2>3 DEF HandleStep, PinChange
<1>13. CASE UNCHANGED vars
  BY <1>13 DEF vars, threadVars, HandleStep, PinChange
<1> QED
  BY <1>1, <1>2, <1>3, <1>4, <1>5, <1>6, <1>7, <1>8, <1>9, <1>10, <1>11,
     <1>12, <1>13
     DEF Next, ThreadStep, Stopped
-----------------------------------------------------------------------------
(* The saved chunks come from disk-cached transforms.                      *)
LEMMA SavedStep ==
  ASSUME IInv, ContentInv, Next
  PROVE  /\ \A th \in Threads :
               pc'[th] \in {"save", "copy1", "copy2"} => DiskCached(tr'[th])
         /\ \A i \in Inodes, c \in Chunk :
               content'[i][c] # NULL => DiskCached(content'[i][c])
<1> DEFINE Goal ==
      /\ \A th \in Threads :
            pc'[th] \in {"save", "copy1", "copy2"} => DiskCached(tr'[th])
      /\ \A i \in Inodes, c \in Chunk :
            content'[i][c] # NULL => DiskCached(content'[i][c])
<1> SUFFICES Goal
  OBVIOUS
<1> USE JitAssumption
<1>0. TypeOK /\ CallInv
  BY DEF IInv
<1>1. /\ \A th \in Threads :
            pc[th] \in {"save", "copy1", "copy2"} => DiskCached(tr[th])
      /\ \A i \in Inodes, c \in Chunk :
            content[i][c] # NULL => DiskCached(content[i][c])
  BY DEF ContentInv
<1>2. ASSUME NEW th \in Threads, UNCHANGED content,
             pc'[th] \in {"save", "copy1", "copy2"}
                => DiskCached(tr'[th]),
             \A x \in Threads : x # th => pc'[x] = pc[x] /\ tr'[x] = tr[x]
      PROVE  Goal
  BY <1>1, <1>2
<1>3. ASSUME NEW th \in Threads, NEW t \in Transforms,
             BeginFast(th, t) \/ \E m \in CallModes : BeginSlow(th, t, m)
      PROVE  Goal
  <2>1. /\ UNCHANGED content /\ pc'[th] \in {"fast", "load"}
        /\ \A x \in Threads : x # th => pc'[x] = pc[x] /\ tr'[x] = tr[x]
    BY <1>0, <1>3 DEF BeginFast, BeginSlow, TypeOK, diskVars
  <2> QED
    BY <1>2, <2>1
<1>4. ASSUME NEW th \in Threads, LoadHit(th) PROVE Goal
  BY <1>0, <1>4, <1>2 DEF LoadHit, TypeOK, diskVars
<1>5. ASSUME NEW th \in Threads, LoadMiss(th) PROVE Goal
  BY <1>0, <1>5, <1>2 DEF LoadMiss, TypeOK, diskVars
<1>6. ASSUME NEW th \in Threads, Compile(th) PROVE Goal
  <2>1. /\ UNCHANGED <<content, tr>>
        /\ \/ pc' = [pc EXCEPT ![th] = "destroy"]
           \/ pc' = [pc EXCEPT ![th] = IF DiskCached(tr[th]) THEN "save" ELSE "call"]
    BY <1>6 DEF Compile, diskVars
  <2>2. /\ pc'[th] \in {"save", "copy1", "copy2"} => DiskCached(tr'[th])
        /\ \A x \in Threads : x # th => pc'[x] = pc[x] /\ tr'[x] = tr[x]
    BY <1>0, <2>1 DEF TypeOK
  <2> QED
    BY <1>2, <2>1, <2>2
<1>7. ASSUME NEW th \in Threads, SaveOpen(th) PROVE Goal
  <2>1. PICK i : content' = [content EXCEPT ![i] = [c \in Chunk |-> NULL]]
    BY <1>7 DEF SaveOpen
  <2>2. \A j \in Inodes, c \in Chunk :
           content'[j][c] # NULL => content'[j][c] = content[j][c]
    BY <1>0, <2>1 DEF TypeOK
  <2>3. DiskCached(tr[th]) /\ tr' = tr
        /\ \A x \in Threads : x # th => pc'[x] = pc[x]
    BY <1>0, <1>1, <1>7 DEF SaveOpen, TypeOK
  <2> QED
    BY <1>1, <2>2, <2>3
<1>8. ASSUME NEW th \in Threads, SaveSkip(th) PROVE Goal
  BY <1>0, <1>8, <1>2 DEF SaveSkip, TypeOK, diskVars
<1>9. ASSUME NEW th \in Threads, SaveCopy(th) PROVE Goal
  <2>1. /\ pc[th] \in {"copy1", "copy2"} /\ tr' = tr
        /\ \A x \in Threads : x # th => pc'[x] = pc[x]
    BY <1>0, <1>9 DEF SaveCopy, TypeOK
  <2>2. DiskCached(tr[th])
    BY <1>1, <2>1
  <2>3. \/ content' = [content EXCEPT ![wr[th]][1] = tr[th]]
        \/ content' = [content EXCEPT ![wr[th]][2] = tr[th]]
        \/ content' = content
    BY <1>9 DEF SaveCopy, Writes
  <2>4. \A j \in Inodes, c \in Chunk :
           content'[j][c] = content[j][c] \/ content'[j][c] = tr[th]
    <3> content \in [Inodes -> [Chunk -> Transforms \cup {NULL}]]
      BY <1>0 DEF TypeOK
    <3> QED
      BY <2>3, TableValue
  <2> QED
    BY <1>1, <2>1, <2>2, <2>4
<1>10. ASSUME NEW th \in Threads,
              \/ PinWon(th) \/ PinLost(th) \/ RunUnpinned(th)
              \/ RunDone(th) \/ DestroyCtx(th)
       PROVE  Goal
  <2> DEFINE Quiet == /\ UNCHANGED content /\ pc'[th] \in {"run", "destroy", "idle"}
                      /\ \A x \in Threads : x # th => pc'[x] = pc[x] /\ tr'[x] = tr[x]
  <2>1. ASSUME PinWon(th) \/ PinLost(th) \/ RunUnpinned(th) PROVE Quiet
    <3>1. UNCHANGED <<content, tr>> /\ pc' = [pc EXCEPT ![th] = "run"]
      BY <2>1 DEF PinWon, PinLost, RunUnpinned, diskVars
    <3> QED
      BY <1>0, <3>1 DEF TypeOK
  <2>2. ASSUME RunDone(th) \/ DestroyCtx(th) PROVE Quiet
    <3>1. /\ UNCHANGED content
          /\ pc' = [pc EXCEPT ![th] = "destroy"] \/ pc' = [pc EXCEPT ![th] = "idle"]
          /\ tr' = tr \/ tr' = [tr EXCEPT ![th] = NULL]
      BY <2>2 DEF RunDone, DestroyCtx, diskVars
    <3> QED
      BY <1>0, <3>1 DEF TypeOK
  <2>3. Quiet
    BY <1>10, <2>1, <2>2
  <2> QED
    BY <1>2, <2>3
<1>11. ASSUME NEW t \in Transforms, DestroyTransform(t) PROVE Goal
  BY <1>1, <1>11 DEF DestroyTransform, threadVars, diskVars
<1>12. ASSUME NEW p \in Procs, Crash(p) PROVE Goal
  <2>1. \A x \in Threads :
           IF ProcOf(x) = p THEN pc'[x] = "idle"
           ELSE pc'[x] = pc[x] /\ tr'[x] = tr[x]
    BY <1>0, <1>12 DEF Crash, TypeOK
  <2> QED
    BY <1>1, <1>12, <2>1 DEF Crash, diskVars
<1>13. CASE UNCHANGED vars
  BY <1>1, <1>13 DEF vars, threadVars, diskVars
<1> QED
  BY <1>3, <1>4, <1>5, <1>6, <1>7, <1>8, <1>9, <1>10, <1>11, <1>12, <1>13
     DEF Next, ThreadStep, Stopped

(* What kernels were made for is kept by every step.                       *)
LEMMA ContentStep == IInv /\ ContentInv /\ [Next]_vars => ContentInv'
<1> SUFFICES ASSUME IInv, ContentInv, [Next]_vars PROVE ContentInv'
  OBVIOUS
<1>1. CASE Next
  <2>1. ASSUME NEW x \in Threads, hnd'[x] # NULL
        PROVE  \/ lib'[ProcOf(x)][hnd'[x]] = tr'[x]
               \/ lib'[ProcOf(x)][hnd'[x]] \in Inodes /\ DiskCached(tr'[x])
    <3>1. HandleStep(x)
      BY <1>1, <2>1, HandleSteps
    <3> QED
      BY <2>1, <3>1 DEF HandleStep, ContentInv, MapsFor
  <2>2. ASSUME NEW t \in Transforms, pinned'[t] # NULL
        PROVE  \/ lib'[ProcOf(t)][pinned'[t]] = t
               \/ lib'[ProcOf(t)][pinned'[t]] \in Inodes /\ DiskCached(t)
    <3>1. PinChange(t)
      BY <1>1, <2>2, HandleSteps
    <3>2. CASE pinned'[t] = pinned[t]
               /\ lib'[ProcOf(t)][pinned[t]] = lib[ProcOf(t)][pinned[t]]
      BY <2>2, <3>2 DEF ContentInv, MapsFor
    <3>3. CASE \E th \in Threads :
                  /\ tr[th] = t /\ hnd[th] # NULL /\ ProcOf(th) = ProcOf(t)
                  /\ pinned'[t] = hnd[th] /\ UNCHANGED lib
      BY <2>2, <3>3 DEF ContentInv, MapsFor
    <3> QED
      BY <2>2, <3>1, <3>2, <3>3 DEF PinChange
  <2> QED
    BY <1>1, <2>1, <2>2, SavedStep DEF ContentInv, MapsFor
<1>2. CASE UNCHANGED vars
  BY <1>2 DEF vars, threadVars, diskVars, ContentInv, MapsFor
<1> QED
  BY <1>1, <1>2

LEMMA ContentKept == Spec => []ContentInv
<1>1. Init => ContentInv
  BY DEF Init, ContentInv
<1> QED
  BY <1>1, ContentStep, Inductive, PTL DEF Spec

(* The kernel a thread is inside was made for the transform of its call.   *)
LEMMA RunningMaps ==
  ASSUME IInv, ContentInv, NEW th \in Threads, Running(th)
  PROVE  /\ tr[th] \in Transforms /\ ProcOf(tr[th]) = ProcOf(th)
         /\ life[tr[th]]
         /\ MapsFor(ProcOf(th), fn[th], tr[th])
         /\ \/ hnd[th] = fn[th] /\ hnd[th] # NULL
            \/ pinned[tr[th]] = fn[th] /\ pinned[tr[th]] # NULL
<1>1. tr[th] \in Transforms /\ ProcOf(tr[th]) = ProcOf(th) /\ life[tr[th]]
      /\ fn[th] # NULL
  BY JitAssumption DEF IInv, TypeOK, CallInv, Running
<1>2. hnd[th] = fn[th] \/ pinned[tr[th]] = fn[th]
  BY DEF IInv, CallInv, Running
<1> QED
  BY <1>1, <1>2 DEF ContentInv

(* What ir_bakes_process_pointers does not ask about.                      *)
CallsStayOffDisk ==
    \A t \in Transforms : "CALL_BUILTIN" \in Prog[t].ops => ~DiskCached(t)

(* A kernel with addresses of its process and transform written into it    *)
(* runs only while both are there, if no program that calls a builtin is   *)
(* taken by the disk cache; when one is, the address of the builtin goes   *)
(* to disk and the property fails.                                         *)
THEOREM PointersFresh == CallsStayOffDisk => (Spec => []NoStalePointers)
<1> SUFFICES ASSUME CallsStayOffDisk PROVE Spec => []NoStalePointers
  OBVIOUS
<1>1. \A t \in Transforms : DiskCached(t) => ~KernelHoldsPointers(t)
  BY JitAssumption
     DEF CallsStayOffDisk, DiskCached, PointerBaked, IrBakesProcessPointers,
         KernelHoldsPointers, JitPrograms
<1>2. IInv /\ ContentInv => NoStalePointers
  <2> SUFFICES ASSUME IInv, ContentInv, NEW th \in Threads, Running(th),
                      NEW c \in Chunk,
                      Chunks(ProcOf(th), fn[th])[c] # NULL,
                      KernelHoldsPointers(Chunks(ProcOf(th), fn[th])[c])
               PROVE  /\ ProcOf(Chunks(ProcOf(th), fn[th])[c]) = ProcOf(th)
                      /\ life[Chunks(ProcOf(th), fn[th])[c]]
    BY DEF NoStalePointers
  <2>1. /\ tr[th] \in Transforms /\ ProcOf(tr[th]) = ProcOf(th)
        /\ life[tr[th]] /\ MapsFor(ProcOf(th), fn[th], tr[th])
    BY RunningMaps
  <2>2. CASE lib[ProcOf(th)][fn[th]] \in Inodes
    <3>1. Chunks(ProcOf(th), fn[th])[c] = content[lib[ProcOf(th)][fn[th]]][c]
      BY <2>2 DEF Chunks
    <3>2. /\ Chunks(ProcOf(th), fn[th])[c] \in Transforms
          /\ DiskCached(Chunks(ProcOf(th), fn[th])[c])
      BY <2>2, <3>1 DEF ContentInv, IInv, TypeOK
    <3> QED
      BY <1>1, <3>2
  <2>3. CASE lib[ProcOf(th)][fn[th]] \notin Inodes
    <3>1. Chunks(ProcOf(th), fn[th])[c] = tr[th]
      BY <2>1, <2>3 DEF Chunks, MapsFor
    <3> QED
      BY <2>1, <3>1
  <2> QED
    BY <2>2, <2>3
<1> QED
  BY <1>2, Inductive, ContentKept, PTL
-----------------------------------------------------------------------------
(* What cache files hold, and for whom.                                    *)

Copies == {"copy1", "copy2"}

(* What is in cache file i was built for programs of hash k.               *)
Holds(i, k) ==
    \A c \in Chunk : content[i][c] # NULL => HashKey(content[i][c]) = k

(* Cache file i serves hash k: it has the name of k, a call that saves k   *)
(* writes it, or a call or a transform of that hash has it mapped.         *)
UsedFor(i, k) ==
    \/ k \in Keys /\ entry[k] = i
    \/ \E th \in Threads :
          /\ HashKey(tr[th]) = k
          /\ \/ wr[th] = i
             \/ hnd[th] # NULL /\ lib[ProcOf(th)][hnd[th]] = i
    \/ \E t \in Transforms :
          /\ HashKey(t) = k
          /\ pinned[t] # NULL /\ lib[ProcOf(t)][pinned[t]] = i

(* A thread has a file open exactly while it copies; a file serves one     *)
(* hash, for all who have it, and holds nothing else.                      *)
Writers == \A th \in Threads : wr[th] # NULL <=> pc[th] \in Copies

NameInv ==
    /\ Writers
    /\ \A i \in Inodes, k, l \in Keys : UsedFor(i, k) /\ UsedFor(i, l) => k = l
    /\ \A i \in Inodes, k \in Keys : UsedFor(i, k) => Holds(i, k)

AllAlive == \A p \in Procs : alive[p]

(* How one step can change what a thread writes: nothing is left open, the *)
(* copy goes on, or a file is opened.                                      *)
WriteStep(th) ==
    \/ /\ pc'[th] \notin Copies /\ wr'[th] = NULL
       /\ \/ wr[th] = NULL
          \/ pc[th] = "copy2" /\ SaveCopy(th)
          \/ ~AllAlive'
    \/ /\ pc[th] \in Copies /\ pc'[th] = pc[th]
       /\ wr'[th] = wr[th] /\ tr'[th] = tr[th]
    \/ /\ SaveCopy(th) /\ pc[th] = "copy1" /\ pc'[th] = "copy2"
       /\ wr'[th] = wr[th] /\ tr'[th] = tr[th]
    \/ /\ SaveOpen(th) /\ pc'[th] = "copy1"
       /\ wr'[th] # NULL /\ tr'[th] = tr[th]

(* Every step changes it in these ways only.                               *)
LEMMA WriteSteps ==
  ASSUME TypeOK, Writers, Next
  PROVE  \A x \in Threads : WriteStep(x)
<1> DEFINE Goal == \A x \in Threads : WriteStep(x)
<1> USE JitAssumption
<1>t. /\ pc \in [Threads -> PCs] /\ tr \in [Threads -> Transforms \cup {NULL}]
      /\ wr \in [Threads -> Inodes \cup {NULL}] /\ alive \in [Procs -> BOOLEAN]
      /\ NULL \notin Inodes
  BY DEF TypeOK
<1>w. \A x \in Threads : wr[x] # NULL <=> pc[x] \in Copies
  BY DEF Writers
<1>k. ASSUME NEW x \in Threads,
             pc'[x] = pc[x], wr'[x] = wr[x], tr'[x] = tr[x]
      PROVE  WriteStep(x)
  <2>1. CASE pc[x] \in Copies
    BY <1>k, <2>1 DEF WriteStep
  <2>2. CASE pc[x] \notin Copies
    <3>1. wr[x] = NULL
      BY <1>w, <2>2
    <3> QED
      BY <1>k, <2>2, <3>1 DEF WriteStep
  <2> QED
    BY <2>1, <2>2
<1>s. ASSUME NEW th \in Threads, NEW v, v \notin Copies,
             pc' = [pc EXCEPT ![th] = v], pc[th] \notin Copies, UNCHANGED wr,
             \A x \in Threads : x # th => tr'[x] = tr[x]
      PROVE  Goal
  <2> SUFFICES ASSUME NEW x \in Threads PROVE WriteStep(x)
    OBVIOUS
  <2>1. CASE x = th
    <3>1. wr[x] = NULL /\ wr'[x] = NULL
      BY <1>s, <1>w, <2>1
    <3>2. pc'[x] \notin Copies
      BY <1>s, <1>t, <2>1
    <3> QED
      BY <3>1, <3>2 DEF WriteStep
  <2>2. CASE x # th
    BY <1>s, <1>t, <1>k, <2>2
  <2> QED
    BY <2>1, <2>2
<1>1. ASSUME NEW th \in Threads, NEW t \in Transforms,
             BeginFast(th, t) \/ \E m \in CallModes : BeginSlow(th, t, m)
      PROVE  Goal
  <2>1. /\ pc[th] = "idle" /\ UNCHANGED wr /\ tr' = [tr EXCEPT ![th] = t]
        /\ \/ pc' = [pc EXCEPT ![th] = "fast"]
           \/ pc' = [pc EXCEPT ![th] = "load"]
    BY <1>1 DEF BeginFast, BeginSlow
  <2>2. \A x \in Threads : x # th => tr'[x] = tr[x]
    BY <1>t, <2>1
  <2> QED
    BY <1>s, <2>1, <2>2 DEF Copies
<1>2. ASSUME NEW th \in Threads,
             \/ LoadHit(th) \/ LoadMiss(th) \/ Compile(th) \/ SaveSkip(th)
             \/ PinWon(th) \/ PinLost(th) \/ RunUnpinned(th)
      PROVE  Goal
  <2>1. /\ pc[th] \in {"load", "compile", "save", "call"}
        /\ UNCHANGED <<wr, tr>>
        /\ \E v \in {"call", "compile", "destroy", "save", "run"} :
              pc' = [pc EXCEPT ![th] = v]
    BY <1>2 DEF LoadHit, LoadMiss, Compile, SaveSkip, PinWon, PinLost,
                RunUnpinned
  <2> QED
    BY <1>s, <2>1 DEF Copies
<1>3. ASSUME NEW th \in Threads, SaveOpen(th) PROVE Goal
  <2>1. PICK i \in IF entry[HashKey(tr[th])] # NULL
                   THEN {entry[HashKey(tr[th])]} ELSE FreeInodes :
           wr' = [wr EXCEPT ![th] = i]
    BY <1>3 DEF SaveOpen
  <2>2. i # NULL /\ pc' = [pc EXCEPT ![th] = "copy1"] /\ UNCHANGED tr
    BY <1>3, <1>t, <2>1 DEF SaveOpen, FreeInodes
  <2>3. WriteStep(th)
    BY <1>3, <1>t, <2>1, <2>2 DEF WriteStep
  <2>4. \A x \in Threads : x # th => WriteStep(x)
    BY <1>t, <1>k, <2>1, <2>2
  <2> QED
    BY <2>3, <2>4
<1>4. ASSUME NEW th \in Threads, SaveCopy(th) PROVE Goal
  <2>1. CASE pc[th] = "copy1"
    <3>1. pc' = [pc EXCEPT ![th] = "copy2"] /\ UNCHANGED <<wr, tr>>
      BY <1>4, <2>1 DEF SaveCopy
    <3>2. WriteStep(th)
      BY <1>4, <1>t, <2>1, <3>1 DEF WriteStep
    <3>3. \A x \in Threads : x # th => WriteStep(x)
      BY <1>t, <1>k, <3>1
    <3> QED
      BY <3>2, <3>3
  <2>2. CASE pc[th] = "copy2"
    <3>1. /\ pc' = [pc EXCEPT ![th] = "call"]
          /\ wr' = [wr EXCEPT ![th] = NULL] /\ UNCHANGED tr
      BY <1>4, <2>2 DEF SaveCopy
    <3>2. WriteStep(th)
      BY <1>4, <1>t, <2>2, <3>1 DEF WriteStep, Copies
    <3>3. \A x \in Threads : x # th => WriteStep(x)
      BY <1>t, <1>k, <3>1
    <3> QED
      BY <3>2, <3>3
  <2> QED
    BY <1>4, <2>1, <2>2 DEF SaveCopy
<1>5. ASSUME NEW th \in Threads, RunDone(th) \/ DestroyCtx(th) PROVE Goal
  <2>1. /\ pc[th] \in {"run", "fast", "destroy"} /\ UNCHANGED wr
        /\ tr' = tr \/ tr' = [tr EXCEPT ![th] = NULL]
        /\ \E v \in {"destroy", "idle"} : pc' = [pc EXCEPT ![th] = v]
    BY <1>5 DEF RunDone, DestroyCtx
  <2>2. \A x \in Threads : x # th => tr'[x] = tr[x]
    BY <1>t, <2>1
  <2> QED
    BY <1>s, <2>1, <2>2 DEF Copies
<1>6. ASSUME NEW t \in Transforms, DestroyTransform(t) PROVE Goal
  BY <1>6, <1>k DEF DestroyTransform, threadVars
<1>7. ASSUME NEW p \in Procs, Crash(p) PROVE Goal
  <2>1. ~AllAlive'
    BY <1>7, <1>t DEF Crash, AllAlive
  <2>2. \A x \in Threads :
           IF ProcOf(x) = p THEN pc'[x] = "idle" /\ wr'[x] = NULL
           ELSE pc'[x] = pc[x] /\ wr'[x] = wr[x] /\ tr'[x] = tr[x]
    BY <1>7, <1>t DEF Crash
  <2> SUFFICES ASSUME NEW x \in Threads PROVE WriteStep(x)
    OBVIOUS
  <2>3. CASE ProcOf(x) = p
    BY <2>1, <2>2, <2>3 DEF WriteStep, Copies
  <2>4. CASE ProcOf(x) # p
    BY <1>k, <2>2, <2>4
  <2> QED
    BY <2>3, <2>4
<1>8. CASE UNCHANGED vars
  BY <1>8, <1>k DEF vars, threadVars
<1> QED
  BY <1>1, <1>2, <1>3, <1>4, <1>5, <1>6, <1>7, <1>8
     DEF Next, ThreadStep, Stopped

(* What one round of the copy changes.                                     *)
LEMMA CopyEffect ==
  ASSUME IInv, Writers, NEW th \in Threads, SaveCopy(th)
  PROVE  /\ tr[th] \in Transforms /\ wr[th] \in Inodes
         /\ \A i \in Inodes, c \in Chunk :
               \/ content'[i][c] = content[i][c]
               \/ i = wr[th] /\ content'[i][c] = tr[th]
         /\ ~WritesFail =>
               content'[wr[th]][IF pc[th] = "copy1" THEN 1 ELSE 2] = tr[th]
<1>1. tr[th] \in Transforms /\ wr[th] \in Inodes /\ pc[th] \in Copies
  BY DEF SaveCopy, IInv, TypeOK, Writers, Copies
<1>2. content \in [Inodes -> [Chunk -> Transforms \cup {NULL}]]
  BY DEF IInv, TypeOK
<1>3. PICK d \in Chunk : d = (IF pc[th] = "copy1" THEN 1 ELSE 2)
  BY DEF Chunk
<1>4. content' \in Writes(th, d)
  BY <1>3 DEF SaveCopy
<1>5. \/ content' = [content EXCEPT ![wr[th]][d] = tr[th]]
      \/ WritesFail /\ content' = content
  BY <1>4 DEF Writes
<1>6. ASSUME content' = [content EXCEPT ![wr[th]][d] = tr[th]]
      PROVE  \A i \in Inodes, c \in Chunk : content'[i][c]
                = IF i = wr[th] /\ c = d THEN tr[th] ELSE content[i][c]
  BY <1>2, <1>6, TableValue
<1>7. CASE content' = [content EXCEPT ![wr[th]][d] = tr[th]]
  BY <1>1, <1>3, <1>6, <1>7
<1>8. CASE WritesFail /\ content' = content
  BY <1>1, <1>8
<1> QED
  BY <1>5, <1>7, <1>8

(* A save gets a file for its hash: the one that has the name, cut to      *)
(* length 0, or one that nobody uses.                                      *)
Opens(th, i) ==
    LET k == HashKey(tr[th]) IN
    /\ SaveOpen(th) /\ k \in Keys /\ i \in Inodes
    /\ entry[k] = i \/ i \in FreeInodes
    /\ entry' = [entry EXCEPT ![k] = i]
    /\ wr' = [wr EXCEPT ![th] = i]
    /\ \A c \in Chunk : content'[i][c] = NULL
    /\ \A j \in Inodes : j # i => content'[j] = content[j]

LEMMA SaveOpens ==
  ASSUME IInv, NEW th \in Threads, SaveOpen(th)
  PROVE  \E i \in Inodes : Opens(th, i)
<1>1. tr[th] \in Transforms
  BY DEF SaveOpen, IInv, TypeOK
<1>2. HashKey(tr[th]) \in Keys
  BY <1>1 DEF Keys
<1>3. PICK i \in IF entry[HashKey(tr[th])] # NULL
                 THEN {entry[HashKey(tr[th])]} ELSE FreeInodes :
         /\ entry' = [entry EXCEPT ![HashKey(tr[th])] = i]
         /\ content' = [content EXCEPT ![i] = [c \in Chunk |-> NULL]]
         /\ wr' = [wr EXCEPT ![th] = i]
  BY DEF SaveOpen
<1>4. i \in Inodes /\ (entry[HashKey(tr[th])] = i \/ i \in FreeInodes)
  BY <1>2, <1>3 DEF IInv, TypeOK, FreeInodes
<1>5. /\ \A c \in Chunk : content'[i][c] = NULL
      /\ \A j \in Inodes : j # i => content'[j] = content[j]
  BY <1>3, <1>4 DEF IInv, TypeOK
<1> QED
  BY <1>2, <1>3, <1>4, <1>5 DEF Opens

(* The cache on disk changes by a save or loses a name.                    *)
LEMMA DiskSteps ==
  ASSUME IInv, Next
  PROVE  \/ \E th \in Threads : SaveOpen(th) \/ SaveCopy(th)
         \/ /\ UNCHANGED content
            /\ \A k \in Keys : entry'[k] = entry[k] \/ entry'[k] = NULL
<1>1. ASSUME NEW th \in Threads, DestroyCtx(th)
      PROVE  \A k \in Keys : entry'[k] = entry[k] \/ entry'[k] = NULL
  <2>1. \/ entry' = entry
        \/ entry' = [entry EXCEPT ![HashKey(tr[th])] = NULL]
    BY <1>1 DEF DestroyCtx
  <2>2. entry \in [Keys -> Inodes \cup {NULL}]
    BY DEF IInv, TypeOK
  <2> QED
    BY <2>1, <2>2
<1>2. ASSUME NEW th \in Threads, DestroyCtx(th) PROVE UNCHANGED content
  BY <1>2 DEF DestroyCtx
<1>3. \/ UNCHANGED diskVars
      \/ \E th \in Threads : SaveOpen(th) \/ SaveCopy(th) \/ DestroyCtx(th)
  BY DEF Next, ThreadStep, Stopped, vars, BeginFast, BeginSlow, LoadHit,
         LoadMiss, Compile, SaveSkip, PinWon, PinLost, RunUnpinned, RunDone,
         DestroyTransform, Crash
<1> QED
  BY <1>1, <1>2, <1>3 DEF diskVars

(* Two saves, or a save and a copy, are not one step.                      *)
LEMMA OneSave ==
  ASSUME IInv, NEW th \in Threads, NEW x \in Threads,
         SaveOpen(th) \/ SaveCopy(th), SaveOpen(x)
  PROVE  x = th /\ SaveOpen(th)
<1>1. pc \in [Threads -> PCs]
  BY DEF IInv, TypeOK
<1>2. pc[x] = "save" /\ pc' = [pc EXCEPT ![x] = "copy1"]
  BY DEF SaveOpen
<1>3. pc'[x] # pc[x]
  BY <1>1, <1>2
<1>4. \/ pc' = [pc EXCEPT ![th] = "copy1"] \/ pc' = [pc EXCEPT ![th] = "copy2"]
      \/ pc' = [pc EXCEPT ![th] = "call"]
  BY DEF SaveOpen, SaveCopy
<1>5. x = th
  BY <1>1, <1>3, <1>4
<1>6. ~SaveCopy(x)
  BY <1>2 DEF SaveCopy
<1> QED
  BY <1>5, <1>6

(* A file that nobody uses serves no hash.                                 *)
LEMMA FreeUnused ==
  ASSUME IInv, NEW i \in FreeInodes, NEW k, UsedFor(i, k)
  PROVE  FALSE
<1>1. /\ \A l \in Keys : entry[l] # i
      /\ \A p \in Procs, h \in Handles : lib[p][h] # i
      /\ \A th \in Threads : wr[th] # i
  BY DEF FreeInodes
<1>2. \A x \in Threads \cup Transforms : ProcOf(x) \in Procs
  BY JitAssumption
<1>3. /\ \A x \in Threads : hnd[x] # NULL => hnd[x] \in Handles
      /\ \A t \in Transforms : pinned[t] # NULL => pinned[t] \in Handles
  BY DEF IInv, TypeOK
<1> QED
  BY <1>1, <1>2, <1>3 DEF UsedFor

(* After a step a file serves the hashes it did, or a save of one opened   *)
(* it.                                                                     *)
LEMMA UseSteps ==
  ASSUME IInv, Writers, Next, NEW i \in Inodes, NEW k \in Keys, UsedFor(i, k)'
  PROVE  UsedFor(i, k) \/ \E th \in Threads : Opens(th, i) /\ k = HashKey(tr[th])
<1> DEFINE Opened == \E th \in Threads : Opens(th, i) /\ k = HashKey(tr[th])
<1> SUFFICES UsedFor(i, k) \/ Opened
  OBVIOUS
<1>0. TypeOK /\ NULL \notin Inodes /\ Transforms \cap Inodes = {}
  BY JitAssumption DEF IInv
<1>1. CASE entry'[k] = i
  <2>1. ASSUME NEW th \in Threads, SaveOpen(th) PROVE UsedFor(i, k) \/ Opened
    <3>1. PICK j \in Inodes : Opens(th, j)
      BY <2>1, SaveOpens
    <3>2. entry' = [entry EXCEPT ![HashKey(tr[th])] = j]
      BY <3>1 DEF Opens
    <3>3. \/ k = HashKey(tr[th]) /\ j = i
          \/ entry[k] = i
      BY <1>0, <1>1, <3>2 DEF TypeOK
    <3> QED
      BY <3>1, <3>3 DEF UsedFor
  <2>2. ASSUME NEW th \in Threads, SaveCopy(th) PROVE UsedFor(i, k)
    BY <1>1, <2>2 DEF SaveCopy, UsedFor
  <2>3. CASE \A l \in Keys : entry'[l] = entry[l] \/ entry'[l] = NULL
    BY <1>0, <1>1, <2>3 DEF UsedFor
  <2> QED
    BY <2>1, <2>2, <2>3, DiskSteps
<1>2. ASSUME NEW th \in Threads, HashKey(tr'[th]) = k, wr'[th] = i
      PROVE  UsedFor(i, k) \/ Opened
  <2>1. WriteStep(th)
    BY <1>0, WriteSteps
  <2>2. CASE wr'[th] = wr[th] /\ tr'[th] = tr[th]
    BY <1>2, <2>2 DEF UsedFor
  <2>3. CASE SaveOpen(th) /\ tr'[th] = tr[th]
    <3>1. PICK j \in Inodes : Opens(th, j)
      BY <2>3, SaveOpens
    <3>2. wr'[th] = j
      BY <1>0, <3>1 DEF Opens, TypeOK
    <3> QED
      BY <1>2, <2>3, <3>1, <3>2
  <2> QED
    BY <1>0, <1>2, <2>1, <2>2, <2>3 DEF WriteStep
<1>3. ASSUME NEW th \in Threads, HashKey(tr'[th]) = k, hnd'[th] # NULL,
             lib'[ProcOf(th)][hnd'[th]] = i
      PROVE  UsedFor(i, k)
  <2>1. HandleStep(th)
    BY <1>3, HandleSteps
  <2>2. CASE /\ hnd'[th] = hnd[th] /\ tr'[th] = tr[th]
             /\ lib'[ProcOf(th)][hnd[th]] = lib[ProcOf(th)][hnd[th]]
    BY <1>3, <2>2 DEF UsedFor
  <2>3. CASE /\ pc[th] = "load" /\ tr'[th] = tr[th]
             /\ lib'[ProcOf(th)][hnd'[th]] = entry[HashKey(tr[th])]
    BY <1>3, <2>3 DEF UsedFor
  <2>4. CASE /\ pc[th] = "compile" /\ tr'[th] = tr[th]
             /\ lib'[ProcOf(th)][hnd'[th]] = tr[th]
    <3>1. tr[th] \in Transforms
      BY <1>0, <2>4 DEF TypeOK
    <3> QED
      BY <1>0, <1>3, <2>4, <3>1
  <2> QED
    BY <1>3, <2>1, <2>2, <2>3, <2>4 DEF HandleStep
<1>4. ASSUME NEW t \in Transforms, HashKey(t) = k, pinned'[t] # NULL,
             lib'[ProcOf(t)][pinned'[t]] = i
      PROVE  UsedFor(i, k)
  <2>1. PinChange(t)
    BY <1>4, HandleSteps
  <2>2. CASE /\ pinned'[t] = pinned[t]
             /\ lib'[ProcOf(t)][pinned[t]] = lib[ProcOf(t)][pinned[t]]
    BY <1>4, <2>2 DEF UsedFor
  <2>3. CASE \E th \in Threads :
                /\ tr[th] = t /\ hnd[th] # NULL /\ ProcOf(th) = ProcOf(t)
                /\ pinned'[t] = hnd[th] /\ UNCHANGED lib
    BY <1>4, <2>3 DEF UsedFor
  <2> QED
    BY <1>4, <2>1, <2>2, <2>3 DEF PinChange
<1>5. \/ entry'[k] = i
      \/ \E th \in Threads :
            /\ HashKey(tr'[th]) = k
            /\ \/ wr'[th] = i
               \/ hnd'[th] # NULL /\ lib'[ProcOf(th)][hnd'[th]] = i
      \/ \E t \in Transforms :
            /\ HashKey(t) = k
            /\ pinned'[t] # NULL /\ lib'[ProcOf(t)][pinned'[t]] = i
  BY DEF UsedFor
<1> QED
  BY <1>1, <1>2, <1>3, <1>4, <1>5

(* Files serve one hash each, for good.                                    *)
LEMMA NameStep == IInv /\ NameInv /\ [Next]_vars => NameInv'
<1> SUFFICES ASSUME IInv, NameInv, [Next]_vars PROVE NameInv'
  OBVIOUS
<1>0. TypeOK /\ Writers
  BY DEF IInv, NameInv
<1>1. CASE Next
  <2>1. Writers'
    <3>1. \A x \in Threads : WriteStep(x)
      BY <1>0, <1>1, WriteSteps
    <3> QED
      BY <1>0, <3>1 DEF WriteStep, Writers, Copies
  <2>2. ASSUME NEW i \in Inodes, NEW th \in Threads, Opens(th, i),
               NEW k \in Keys, UsedFor(i, k)
        PROVE  k = HashKey(tr[th])
    <3>1. i \notin FreeInodes
      BY <2>2, FreeUnused
    <3>2. UsedFor(i, HashKey(tr[th])) /\ HashKey(tr[th]) \in Keys
      BY <2>2, <3>1 DEF Opens, UsedFor
    <3> QED
      BY <2>2, <3>2 DEF NameInv
  <2>3. ASSUME NEW i \in Inodes, NEW k \in Keys, NEW l \in Keys,
               UsedFor(i, k)', UsedFor(i, l)'
        PROVE  k = l
    <3>1. UsedFor(i, k) \/ \E th \in Threads : Opens(th, i) /\ k = HashKey(tr[th])
      BY <1>0, <1>1, <2>3, UseSteps
    <3>2. UsedFor(i, l) \/ \E th \in Threads : Opens(th, i) /\ l = HashKey(tr[th])
      BY <1>0, <1>1, <2>3, UseSteps
    <3>3. CASE UsedFor(i, k) /\ UsedFor(i, l)
      BY <3>3 DEF NameInv
    <3>4. ASSUME NEW th \in Threads, NEW x \in Threads,
                 Opens(th, i), Opens(x, i)
          PROVE  th = x
      BY <3>4, OneSave DEF Opens
    <3> QED
      BY <2>2, <3>1, <3>2, <3>3, <3>4
  <2>4. ASSUME NEW i \in Inodes, NEW k \in Keys, UsedFor(i, k)'
        PROVE  Holds(i, k)'
    <3>1. UsedFor(i, k) \/ \E th \in Threads : Opens(th, i) /\ k = HashKey(tr[th])
      BY <1>0, <1>1, <2>4, UseSteps
    <3>2. ASSUME NEW th \in Threads, SaveOpen(th) PROVE Holds(i, k)'
      <4>1. PICK j \in Inodes : Opens(th, j)
        BY <3>2, SaveOpens
      <4>2. CASE i = j
        BY <4>1, <4>2 DEF Opens, Holds
      <4>3. CASE i # j
        <5>1. UsedFor(i, k)
          <6> SUFFICES ASSUME NEW x \in Threads, Opens(x, i) PROVE FALSE
            BY <3>1
          <6>1. x = th
            BY <3>2, OneSave DEF Opens
          <6>2. /\ wr' = [wr EXCEPT ![th] = i] /\ wr' = [wr EXCEPT ![th] = j]
            BY <4>1, <6>1 DEF Opens
          <6> QED
            BY <1>0, <4>3, <6>2 DEF TypeOK
        <5>2. content'[i] = content[i]
          BY <4>1, <4>3 DEF Opens
        <5> QED
          BY <5>1, <5>2 DEF NameInv, Holds
      <4> QED
        BY <4>2, <4>3
    <3>3. ASSUME NEW th \in Threads, SaveCopy(th) PROVE Holds(i, k)'
      <4>1. UsedFor(i, k)
        BY <3>1, <3>3, OneSave DEF Opens, SaveOpen, SaveCopy
      <4>2. Holds(i, k)
        BY <4>1 DEF NameInv
      <4>3. /\ tr[th] \in Transforms
            /\ \A c \in Chunk : \/ content'[i][c] = content[i][c]
                                \/ i = wr[th] /\ content'[i][c] = tr[th]
        BY <1>0, <3>3, CopyEffect
      <4>4. i = wr[th] => HashKey(tr[th]) = k
        <5>1. HashKey(tr[th]) \in Keys
          BY <4>3 DEF Keys
        <5>2. i = wr[th] => UsedFor(i, HashKey(tr[th]))
          BY DEF UsedFor
        <5> QED
          BY <4>1, <5>1, <5>2 DEF NameInv
      <4> QED
        BY <4>2, <4>3, <4>4 DEF Holds
    <3>4. CASE /\ UNCHANGED content
               /\ \A th \in Threads : ~SaveOpen(th)
      BY <3>1, <3>4 DEF Opens, NameInv, Holds
    <3> QED
      BY <1>1, <3>2, <3>3, <3>4, DiskSteps
  <2> QED
    BY <2>1, <2>3, <2>4 DEF NameInv
<1>2. CASE UNCHANGED vars
  BY <1>2 DEF vars, threadVars, diskVars, NameInv, Writers, UsedFor, Holds
<1> QED
  BY <1>1, <1>2

LEMMA NamesKept == Spec => []NameInv
<1>1. Init => NameInv
  <2> SUFFICES ASSUME Init PROVE NameInv
    OBVIOUS
  <2>1. Writers
    BY DEF Init, Writers, Copies
  <2>2. \A i \in Inodes, k \in Keys : ~UsedFor(i, k)
    BY JitAssumption DEF Init, UsedFor
  <2> QED
    BY <2>1, <2>2 DEF NameInv
<1> QED
  BY <1>1, NameStep, Inductive, PTL DEF Spec

(* Two disk-cached transforms with one hash have one program: the hash has *)
(* every field the generator reads, but exec, which keeps off the disk.    *)
LEMMA SameHash ==
  ASSUME NEW s \in Transforms, NEW t \in Transforms,
         DiskCached(s), DiskCached(t), HashKey(s) = HashKey(t)
  PROVE  Prog[s] = Prog[t]
<1>1. /\ Prog[s].n = Prog[t].n /\ Prog[s].type = Prog[t].type
      /\ Prog[s].prec = Prog[t].prec /\ Prog[s].code = Prog[t].code
  BY DEF HashKey
<1>2. Prog[s].exec = FALSE /\ Prog[t].exec = FALSE
  BY JitAssumption DEF DiskCached, PointerBaked, JitPrograms
<1>3. Prog[s].ops = Prog[t].ops
  BY <1>1, JitAssumption
<1> QED
  BY <1>1, <1>2, <1>3, JitAssumption DEF JitPrograms

(* The cache file a thread is inside serves the hash of its transform.     *)
LEMMA RunningUses ==
  ASSUME IInv, ContentInv, NEW th \in Threads, Running(th),
         lib[ProcOf(th)][fn[th]] \in Inodes
  PROVE  /\ DiskCached(tr[th]) /\ tr[th] \in Transforms
         /\ HashKey(tr[th]) \in Keys
         /\ UsedFor(lib[ProcOf(th)][fn[th]], HashKey(tr[th]))
<1>1. /\ tr[th] \in Transforms /\ ProcOf(tr[th]) = ProcOf(th)
      /\ MapsFor(ProcOf(th), fn[th], tr[th])
      /\ \/ hnd[th] = fn[th] /\ hnd[th] # NULL
         \/ pinned[tr[th]] = fn[th] /\ pinned[tr[th]] # NULL
  BY RunningMaps
<1>2. DiskCached(tr[th]) /\ HashKey(tr[th]) \in Keys
  BY <1>1, JitAssumption DEF MapsFor, Keys
<1> QED
  BY <1>1, <1>2 DEF UsedFor

(* Whatever is killed in the middle of a copy, whatever a full disk loses  *)
(* and however many calls of however many processes save at the same time, *)
(* each piece of the kernel that a thread is inside was built from the     *)
(* program of its transform: files never change hash, and hash_transform   *)
(* tells apart the programs that go to disk.                               *)
THEOREM OwnPieces == Spec => []RunsOwnPieces
<1>1. IInv /\ ContentInv /\ NameInv => RunsOwnPieces
  <2> SUFFICES ASSUME IInv, ContentInv, NameInv,
                      NEW th \in Threads, Running(th), NEW c \in Chunk,
                      Chunks(ProcOf(th), fn[th])[c] # NULL
               PROVE  Prog[Chunks(ProcOf(th), fn[th])[c]] = Prog[tr[th]]
    BY DEF RunsOwnPieces
  <2> DEFINE i == lib[ProcOf(th)][fn[th]]
  <2>1. CASE i \in Inodes
    <3>1. Chunks(ProcOf(th), fn[th])[c] = content[i][c]
      BY <2>1 DEF Chunks
    <3>2. /\ DiskCached(tr[th]) /\ tr[th] \in Transforms
          /\ HashKey(tr[th]) \in Keys /\ UsedFor(i, HashKey(tr[th]))
      BY <2>1, RunningUses
    <3>3. Holds(i, HashKey(tr[th]))
      BY <2>1, <3>2 DEF NameInv
    <3>4. HashKey(content[i][c]) = HashKey(tr[th])
      BY <3>1, <3>3 DEF Holds
    <3>5. content[i][c] \in Transforms /\ DiskCached(content[i][c])
      BY <2>1, <3>1 DEF ContentInv, IInv, TypeOK
    <3> QED
      BY <3>1, <3>2, <3>4, <3>5, SameHash
  <2>2. CASE i \notin Inodes
    <3>1. MapsFor(ProcOf(th), fn[th], tr[th])
      BY RunningMaps
    <3> QED
      BY <2>2, <3>1 DEF Chunks, MapsFor
  <2> QED
    BY <2>1, <2>2
<1> QED
  BY <1>1, Inductive, ContentKept, NamesKept, PTL
-----------------------------------------------------------------------------
(* While nobody was killed and no write fails, a file in use is whole or   *)
(* open in a save, and the save that is on its second block follows one    *)
(* that wrote the first or is about to.                                    *)
SavedInv ==
    AllAlive =>
        /\ \A x \in Threads : pc[x] = "copy2" =>
              \/ content[wr[x]][1] # NULL
              \/ \E y \in Threads : wr[y] = wr[x] /\ pc[y] = "copy1"
        /\ \A i \in Inodes, k \in Keys : UsedFor(i, k) =>
              Whole(i) \/ \E x \in Threads : wr[x] = i

(* What was written stays until a save cuts the file.                      *)
LEMMA ChunkStays ==
  ASSUME IInv, Writers, Next, NEW i \in Inodes, NEW c \in Chunk,
         content[i][c] # NULL, content'[i][c] = NULL
  PROVE  \E th \in Threads : wr'[th] = i /\ pc'[th] = "copy1"
<1>1. CASE UNCHANGED content
  BY <1>1
<1>2. ASSUME NEW th \in Threads, SaveCopy(th) PROVE FALSE
  <2>1. tr[th] \in Transforms
        /\ (content'[i][c] = content[i][c] \/ content'[i][c] = tr[th])
    BY <1>2, CopyEffect
  <2> QED
    BY <2>1, JitAssumption
<1>3. ASSUME NEW th \in Threads, SaveOpen(th)
      PROVE  wr'[th] = i /\ pc'[th] = "copy1"
  <2>1. PICK j \in Inodes : Opens(th, j)
    BY <1>3, SaveOpens
  <2>2. j = i
    BY <2>1 DEF Opens
  <2>3. wr' = [wr EXCEPT ![th] = i] /\ pc' = [pc EXCEPT ![th] = "copy1"]
    BY <2>1, <2>2 DEF Opens, SaveOpen
  <2> QED
    BY <2>3 DEF IInv, TypeOK
<1> QED
  BY <1>1, <1>2, <1>3, DiskSteps

(* A save keeps its file open until its second block is written.           *)
LEMMA WriterStays ==
  ASSUME IInv, Writers, Next, AllAlive', NEW x \in Threads, wr[x] # NULL
  PROVE  \/ wr'[x] = wr[x] /\ pc'[x] = pc[x]
         \/ /\ SaveCopy(x) /\ pc[x] = "copy1"
            /\ wr'[x] = wr[x] /\ pc'[x] = "copy2"
         \/ SaveCopy(x) /\ pc[x] = "copy2"
<1>1. WriteStep(x)
  BY WriteSteps DEF IInv
<1>2. pc[x] \in Copies
  BY DEF Writers
<1>3. ~SaveOpen(x)
  BY <1>2 DEF SaveOpen, Copies
<1> QED
  BY <1>1, <1>3 DEF WriteStep

LEMMA SavedKept ==
  ASSUME ~WritesFail, IInv, NameInv, SavedInv, [Next]_vars
  PROVE  SavedInv'
<1> SUFFICES ASSUME AllAlive'
             PROVE  /\ \A x \in Threads : pc'[x] = "copy2" =>
                          \/ content'[wr'[x]][1] # NULL
                          \/ \E y \in Threads : /\ wr'[y] = wr'[x]
                                                /\ pc'[y] = "copy1"
                    /\ \A i \in Inodes, k \in Keys : UsedFor(i, k)' =>
                          Whole(i)' \/ \E x \in Threads : wr'[x] = i
  BY DEF SavedInv
<1>0. Writers /\ NULL \notin Inodes /\ NULL \notin Transforms
  BY JitAssumption DEF NameInv
<1>a. AllAlive
  <2>1. \A p \in Procs : alive'[p] => alive[p]
    <3>1. alive' = alive \/ \E p \in Procs : alive' = [alive EXCEPT ![p] = FALSE]
      BY DEF Next, ThreadStep, Stopped, vars, BeginFast, BeginSlow, LoadHit,
             LoadMiss, Compile, SaveOpen, SaveSkip, SaveCopy, PinWon, PinLost,
             RunUnpinned, RunDone, DestroyCtx, DestroyTransform, Crash
    <3> QED
      BY <3>1 DEF IInv, TypeOK
  <2> QED
    BY <2>1 DEF AllAlive
<1>b. /\ \A x \in Threads : pc[x] = "copy2" =>
            \/ content[wr[x]][1] # NULL
            \/ \E y \in Threads : wr[y] = wr[x] /\ pc[y] = "copy1"
      /\ \A i \in Inodes, k \in Keys : UsedFor(i, k) =>
            Whole(i) \/ \E x \in Threads : wr[x] = i
  BY <1>a DEF SavedInv
<1>1. CASE Next
  <2>1. ASSUME NEW x \in Threads, pc'[x] = "copy2"
        PROVE  \/ content'[wr'[x]][1] # NULL
               \/ \E y \in Threads : wr'[y] = wr'[x] /\ pc'[y] = "copy1"
    <3>1. WriteStep(x)
      BY <1>0, <1>1, WriteSteps DEF IInv
    <3>2. CASE SaveCopy(x) /\ pc[x] = "copy1" /\ wr'[x] = wr[x]
      <4>1. content'[wr[x]][1] = tr[x] /\ tr[x] \in Transforms
        BY <1>0, <3>2, CopyEffect
      <4> QED
        BY <1>0, <3>2, <4>1
    <3>3. CASE pc[x] = "copy2" /\ wr'[x] = wr[x]
      <4>1. wr[x] \in Inodes
        BY <1>0, <3>3 DEF Writers, Copies, IInv, TypeOK
      <4>2. CASE content[wr[x]][1] # NULL
        BY <1>0, <1>1, <3>3, <4>1, <4>2, ChunkStays DEF Chunk
      <4>3. ASSUME NEW y \in Threads, wr[y] = wr[x], pc[y] = "copy1"
            PROVE  \/ content'[wr[x]][1] # NULL
                   \/ wr'[y] = wr[x] /\ pc'[y] = "copy1"
        <5>1. wr[y] # NULL
          BY <1>0, <4>1, <4>3
        <5>2. \/ wr'[y] = wr[y] /\ pc'[y] = pc[y]
              \/ SaveCopy(y)
          BY <1>0, <1>1, <5>1, WriterStays
        <5>3. CASE SaveCopy(y)
          <6>1. content'[wr[y]][1] = tr[y] /\ tr[y] \in Transforms
            BY <1>0, <4>3, <5>3, CopyEffect
          <6> QED
            BY <1>0, <4>3, <6>1
        <5> QED
          BY <4>3, <5>2, <5>3
      <4> QED
        BY <1>b, <3>3, <4>2, <4>3
    <3> QED
      BY <2>1, <3>1, <3>2, <3>3 DEF WriteStep, Copies
  <2>2. ASSUME NEW i \in Inodes, NEW k \in Keys, UsedFor(i, k)'
        PROVE  \/ \A c \in Chunk : content'[i][c] # NULL
               \/ \E x \in Threads : wr'[x] = i
    <3>1. CASE \E th \in Threads : Opens(th, i)
      BY <3>1 DEF Opens, IInv, TypeOK
    <3>2. CASE UsedFor(i, k)
      <4>1. CASE Whole(i)
        BY <1>0, <1>1, <4>1, ChunkStays DEF Whole
      <4>2. ASSUME NEW x \in Threads, wr[x] = i, SaveCopy(x), pc[x] = "copy2",
                   \A y \in Threads : wr'[y] # i
            PROVE  \A c \in Chunk : content'[i][c] # NULL
        <5>1. content'[i][2] = tr[x] /\ tr[x] \in Transforms
          BY <1>0, <4>2, CopyEffect
        <5>2. content[i][1] # NULL
          <6> SUFFICES ASSUME NEW y \in Threads, wr[y] = i, pc[y] = "copy1"
                       PROVE  FALSE
            BY <1>b, <4>2
          <6>1. wr[y] # NULL
            BY <1>0
          <6> QED
            BY <1>0, <1>1, <4>2, <6>1, WriterStays
        <5>3. content'[i][1] # NULL
          BY <1>0, <1>1, <4>2, <5>2, ChunkStays DEF Chunk
        <5> QED
          BY <1>0, <5>1, <5>3 DEF Chunk
      <4>3. ASSUME NEW x \in Threads, wr[x] = i
            PROVE  \/ \A c \in Chunk : content'[i][c] # NULL
                   \/ \E y \in Threads : wr'[y] = i
        <5>1. wr[x] # NULL
          BY <1>0, <4>3
        <5>2. wr'[x] = wr[x] \/ (SaveCopy(x) /\ pc[x] = "copy2")
          BY <1>0, <1>1, <5>1, WriterStays
        <5> QED
          BY <4>2, <4>3, <5>2
      <4> QED
        BY <1>b, <3>2, <4>1, <4>3
    <3> QED
      BY <1>0, <1>1, <2>2, <3>1, <3>2, UseSteps
  <2> QED
    BY <2>1, <2>2 DEF Whole
<1>2. CASE UNCHANGED vars
  BY <1>2, <1>b DEF vars, threadVars, diskVars, UsedFor, Whole
<1> QED
  BY <1>1, <1>2

(* However many calls of however many processes save at the same time, a   *)
(* kernel is only cut short while one of them is at work, as long as no    *)
(* process was killed and every write goes through.  Both are needed: one  *)
(* crash leaves a cut file for good.                                       *)
THEOREM CutsEnd == ~WritesFail => (Spec => [](AllAlive => CutOnlyMidSave))
<1> SUFFICES ASSUME ~WritesFail PROVE Spec => [](AllAlive => CutOnlyMidSave)
  OBVIOUS
<1>1. Init => SavedInv
  <2> SUFFICES ASSUME Init PROVE SavedInv
    OBVIOUS
  <2>1. \A x \in Threads : pc[x] = "idle"
    BY DEF Init
  <2>2. \A i \in Inodes, k \in Keys : ~UsedFor(i, k)
    BY JitAssumption DEF Init, UsedFor
  <2> QED
    BY <2>1, <2>2 DEF SavedInv
<1>2. IInv /\ NameInv /\ SavedInv /\ [Next]_vars => SavedInv'
  BY SavedKept
<1>3. IInv /\ ContentInv /\ SavedInv => (AllAlive => CutOnlyMidSave)
  <2> SUFFICES ASSUME IInv, ContentInv, SavedInv, AllAlive,
                      NEW th \in Threads, Running(th)
               PROVE  \/ \A c \in Chunk : Chunks(ProcOf(th), fn[th])[c] # NULL
                      \/ \E x \in Threads : wr[x] = lib[ProcOf(th)][fn[th]]
    BY DEF CutOnlyMidSave
  <2> DEFINE i == lib[ProcOf(th)][fn[th]]
  <2>1. CASE i \in Inodes
    <3>1. UsedFor(i, HashKey(tr[th])) /\ HashKey(tr[th]) \in Keys
      BY <2>1, RunningUses
    <3>2. Whole(i) \/ \E x \in Threads : wr[x] = i
      BY <2>1, <3>1 DEF SavedInv
    <3> QED
      BY <2>1, <3>2 DEF Whole, Chunks
  <2>2. CASE i \notin Inodes
    <3>1. MapsFor(ProcOf(th), fn[th], tr[th]) /\ tr[th] \in Transforms
      BY RunningMaps
    <3> QED
      BY <2>2, <3>1, JitAssumption DEF Chunks, MapsFor
  <2> QED
    BY <2>1, <2>2
<1> QED
  BY <1>1, <1>2, <1>3, Inductive, ContentKept, NamesKept, PTL DEF Spec
=============================================================================
