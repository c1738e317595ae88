--------------------------- MODULE ExecutorProofs ---------------------------
(***************************************************************************)
(* Proofs about Executor: an interpreter that runs a well-formed program   *)
(* stays inside the register file that compute_max_registers sized, inside *)
(* the caller's buffers and inside the twiddle table, and never runs past  *)
(* its END, for every program, length, size of the register file and input.*)
(***************************************************************************)
EXTENDS Executor, Recursion, FiniteSetTheorems, TLAPS

-----------------------------------------------------------------------------
(* The size of the register file.                                          *)

(* Of two numbers the smaller one.                                         *)
LEMMA Lower ==
    ASSUME NEW a \in Nat, NEW b \in Nat
    PROVE  Min({a, b}) = IF a <= b THEN a ELSE b
<1> DEFINE m == IF a <= b THEN a ELSE b
<1>1. m \in {a, b} /\ \A y \in {a, b} : m <= y
  OBVIOUS
<1>2. \A x \in {a, b} : (\A y \in {a, b} : x <= y) => x = m
  OBVIOUS
<1> QED
  BY <1>1, <1>2 DEF Min

(* The registers that the scan of compute_max_registers sees.              *)
Scanned(tr, i) ==
    IF i.op \in {"NOP", "END"} THEN {}
    ELSE IF i.op \in WholeArray THEN {tr.n - 1} ELSE {i.a0, i.a1}

LEMMA ScanCovers ==
    ASSUME NEW tr, WellFormed(tr)
    PROVE  /\ MaxRegister(tr) \in Nat
           /\ \A k \in Cells(tr.ninst) : \A r \in Scanned(tr, tr.code[k]) : r <= MaxRegister(tr)
<1> DEFINE used == {tr.code[k] : k \in Cells(tr.ninst)}
           S == {0} \cup UNION {Scanned(tr, i) : i \in used}
<1>1. tr.n \in Nat /\ tr.n >= 1 /\ tr.ninst \in Nat
  <2>1. Cardinality(DOMAIN tr.code) \in Nat
    BY FS_CardinalityType DEF WellFormed
  <2> QED
    BY <2>1 DEF WellFormed
<1>2. ASSUME NEW k \in Cells(tr.ninst)
      PROVE  Scanned(tr, tr.code[k]) \subseteq Nat
  <2>1. tr.code[k].a0 \in Nat /\ tr.code[k].a1 \in Nat
    BY DEF WellFormed, InBounds
  <2> QED
    BY <1>1, <2>1 DEF Scanned
<1>3. S \subseteq Nat /\ S # {}
  BY <1>2
<1> DEFINE Bounded == {m \in Nat : \E b \in Nat : \A k \in Cells(m) :
                          m <= tr.ninst => \A r \in Scanned(tr, tr.code[k]) : r <= b}
<1>4. 0 \in Bounded
  BY DEF Cells
<1>5. ASSUME NEW m \in 0..tr.ninst, m \in Bounded, m < tr.ninst PROVE m + 1 \in Bounded
  <2>1. PICK b \in Nat : \A k \in Cells(m) : \A r \in Scanned(tr, tr.code[k]) : r <= b
    BY <1>1, <1>5
  <2>2. m \in Cells(tr.ninst)
    BY <1>1, <1>5 DEF Cells
  <2>3. tr.code[m].a0 \in Nat /\ tr.code[m].a1 \in Nat
    BY <2>2 DEF WellFormed, InBounds
  <2> DEFINE c == b + tr.n + tr.code[m].a0 + tr.code[m].a1
  <2>4. c \in Nat /\ c >= b
    BY <1>1, <2>3
  <2>5. \A r \in Scanned(tr, tr.code[m]) : r <= c
    BY <1>1, <2>3 DEF Scanned
  <2>6. ASSUME NEW k \in Cells(m + 1), NEW r \in Scanned(tr, tr.code[k]) PROVE r <= c
    <3>1. CASE k = m
      BY <2>5, <3>1
    <3>2. CASE k # m
      <4>1. k \in Cells(m)
        BY <1>1, <3>2 DEF Cells
      <4>2. k \in Cells(tr.ninst)
        BY <1>1, <1>5, <4>1 DEF Cells
      <4>3. r \in Nat /\ r <= b
        BY <1>2, <2>1, <4>1, <4>2
      <4> QED
        BY <2>4, <4>3
    <3> QED
      BY <3>1, <3>2
  <2>7. m + 1 \in Nat
    BY <1>1
  <2> HIDE DEF c
  <2> QED
    BY <2>4, <2>6, <2>7
<1>6. tr.ninst \in Bounded
  <2> HIDE DEF Bounded
  <2>1. \A k \in 0..tr.ninst : k \in Bounded
    BY <1>1, <1>4, <1>5, UpTo
  <2> QED
    BY <1>1, <2>1
<1>7. PICK b \in Nat : \A k \in Cells(tr.ninst) : \A r \in Scanned(tr, tr.code[k]) : r <= b
  BY <1>1, <1>6
<1>8. \A x \in S : x <= b
  BY <1>7
<1>9. Max(S) \in S /\ \A x \in S : x <= Max(S)
  <2> HIDE DEF S
  <2> QED
    BY <1>3, <1>8, Highest
<1>10. MaxRegister(tr) = Max(S)
  BY DEF MaxRegister, Scanned
<1>11. ASSUME NEW k \in Cells(tr.ninst), NEW r \in Scanned(tr, tr.code[k]) PROVE r \in S
  OBVIOUS
<1> HIDE DEF S
<1> QED
  BY <1>3, <1>9, <1>10, <1>11

(* What execution supposes of the build: there are registers, and a cache  *)
(* line holds some.                                                        *)
LineAssumption == RegAlign \in Nat \ {0} /\ MaxFft \in Nat \ {0}

(* Whole cache lines that hold the highest register hold its whole line,   *)
(* unless the fixed maximum cuts them off.                                 *)
LEMMA Rounding ==
    ASSUME NEW m \in Nat, NEW a \in Nat \ {0}
    PROVE  LET lines == (m + a) \div a
           IN  lines \in Nat /\ m < lines * a /\ \A l \in Nat : l * a <= m => (l + 1) * a <= lines * a
<1> DEFINE lines == (m + a) \div a
<1>1. lines \in Nat
  OBVIOUS
<1>2. m + a < (lines + 1) * a
  OBVIOUS
<1>3. (lines + 1) * a = lines * a + a
  BY <1>1
<1>4. lines * a \in Nat
  BY <1>1
<1>5. m < lines * a
  BY <1>2, <1>3, <1>4
<1>6. ASSUME NEW l \in Nat, l * a <= m PROVE (l + 1) * a <= lines * a
  <2>1. l * a < lines * a /\ l * a \in Nat
    BY <1>4, <1>5, <1>6
  <2>2. l < lines
    <3>1. SUFFICES ASSUME lines <= l PROVE FALSE
      BY <1>1
    <3>2. lines * a <= l * a
      BY <1>1, <3>1
    <3> QED
      BY <1>4, <2>1, <3>2
  <2>3. l + 1 <= lines
    BY <1>1, <2>2
  <2> QED
    BY <1>1, <2>3
<1> QED
  BY <1>1, <1>5, <1>6

(* The register file holds the line of every register scanned.             *)
LEMMA FileCovers ==
    ASSUME NEW tr, WellFormed(tr), LineAssumption
    PROVE  /\ NumRegs(tr) \in Nat
           /\ \A k \in Cells(tr.ninst) : \A s \in Scanned(tr, tr.code[k]) :
                  /\ s \in Nat
                  /\ s < MaxFft => s < NumRegs(tr)
                  /\ \A l \in Nat : l * RegAlign <= s =>
                         \A r \in Nat : r < (l + 1) * RegAlign /\ r < MaxFft => r < NumRegs(tr)
<1> DEFINE m == MaxRegister(tr)
           lines == (m + RegAlign) \div RegAlign
<1>1. m \in Nat /\ RegAlign \in Nat \ {0} /\ MaxFft \in Nat
  BY ScanCovers DEF LineAssumption
<1>2. lines \in Nat /\ m < lines * RegAlign
      /\ \A l \in Nat : l * RegAlign <= m => (l + 1) * RegAlign <= lines * RegAlign
  BY <1>1, Rounding
<1>3. lines * RegAlign \in Nat
  BY <1>1, <1>2
<1>4. NumRegs(tr) = IF lines * RegAlign <= MaxFft THEN lines * RegAlign ELSE MaxFft
  BY <1>1, <1>3, Lower DEF NumRegs
<1>5. ASSUME NEW k \in Cells(tr.ninst), NEW s \in Scanned(tr, tr.code[k])
      PROVE  /\ s \in Nat
             /\ s < MaxFft => s < NumRegs(tr)
             /\ \A l \in Nat : l * RegAlign <= s =>
                    \A r \in Nat : r < (l + 1) * RegAlign /\ r < MaxFft => r < NumRegs(tr)
  <2>1. s \in Nat
    <3>1. tr.n \in Nat /\ tr.n >= 1
      BY DEF WellFormed
    <3>2. tr.code[k].a0 \in Nat /\ tr.code[k].a1 \in Nat
      BY DEF WellFormed, InBounds
    <3> QED
      BY <3>1, <3>2 DEF Scanned
  <2>2. s <= m
    BY ScanCovers
  <2>3. s < lines * RegAlign
    BY <1>1, <1>2, <1>3, <2>1, <2>2
  <2>4. ASSUME NEW l \in Nat, l * RegAlign <= s,
               NEW r \in Nat, r < (l + 1) * RegAlign, r < MaxFft
        PROVE  r < NumRegs(tr)
    <3>1. l * RegAlign \in Nat /\ (l + 1) * RegAlign \in Nat
      BY <1>1
    <3>2. l * RegAlign <= m
      BY <1>1, <2>1, <2>2, <2>4, <3>1
    <3>3. (l + 1) * RegAlign <= lines * RegAlign
      BY <1>2, <3>2
    <3>4. r < lines * RegAlign
      BY <1>3, <2>4, <3>1, <3>3
    <3> QED
      BY <1>4, <2>4, <3>4
  <2> HIDE DEF lines
  <2> QED
    BY <1>4, <2>1, <2>3, <2>4
<1> HIDE DEF lines
<1> QED
  BY <1>1, <1>3, <1>4, <1>5

-----------------------------------------------------------------------------
(* A call.                                                                 *)

Interpreters == {"vm", "split", "inplace"}

(* A call that runs has not passed an END, and its arrays have the sizes   *)
(* they were made with.                                                    *)
Before(tr, i) == i \in Nat /\ \E e \in Cells(tr.ninst) : tr.code[e].op = "END" /\ i <= e
RunInv ==
    /\ t \in Transforms
    /\ status = "run" =>
           /\ mode \in Modes
           /\ Before(t, ip)
           /\ DOMAIN in = Cells(t.n) /\ DOMAIN out = Cells(t.n)
           /\ DOMAIN regs = Cells(IF mode = "vm" THEN NumRegs(t) ELSE t.n)

LEMMA Fetched ==
    ASSUME WellFormed(t), Before(t, ip)
    PROVE  ip \in Cells(t.ninst) /\ ip < CodeEnd
<1>1. PICK e \in Cells(t.ninst) : ip <= e /\ ip \in Nat
  BY DEF Before
<1> DEFINE slots == Cardinality(DOMAIN t.code)
<1>2. slots \in Nat /\ t.ninst <= slots /\ t.ninst \in Nat
  <2>1. slots \in Nat
    BY FS_CardinalityType DEF WellFormed
  <2>2. t.ninst \in 0..slots
    BY DEF WellFormed
  <2> QED
    BY <2>1, <2>2
<1>3. t.ninst \in Nat
  BY <1>2
<1>4. ip \in Cells(t.ninst)
  BY <1>1, <1>3 DEF Cells
<1>6. ip < t.ninst
  BY <1>3, <1>4 DEF Cells
<1>7. CodeEnd = IF mode = "vm" THEN slots ELSE t.ninst
  BY DEF CodeEnd
<1>8. ip \in Nat
  BY <1>1
<1> HIDE DEF slots
<1> QED
  BY <1>2, <1>4, <1>6, <1>7, <1>8

(* Every register that a handler uses after its own test is in the file.   *)
LEMMA TouchesInside ==
    ASSUME WellFormed(t), LineAssumption, mode \in Interpreters, ip \in Cells(t.ninst),
           DOMAIN regs = Cells(IF mode = "vm" THEN NumRegs(t) ELSE t.n), Guarded(Cur)
    PROVE  Touches(Cur) \subseteq DOMAIN regs
<1>1. /\ InBounds(t, Cur) /\ Cur.a0 \in Nat /\ Cur.a1 \in Nat
      /\ t.n \in Nat /\ t.n >= 1 /\ t.n <= MaxFft
  <2>1. InBounds(t, Cur)
    BY DEF WellFormed, Cur
  <2>2. Cur.a0 \in Nat /\ Cur.a1 \in Nat
    BY <2>1 DEF InBounds
  <2>3. t.n \in Nat /\ t.n >= 1 /\ t.n <= MaxFft
    BY DEF WellFormed, LineAssumption
  <2> QED
    BY <2>1, <2>2, <2>3
<1>2. CASE Cur.op \in WholeArray
  <2>1. Touches(Cur) \subseteq Cells(t.n)
    BY <1>1, <1>2 DEF Touches, WholeArray, Cells
  <2>2. CASE mode = "vm"
    <3>1. t.n - 1 \in Scanned(t, t.code[ip])
      BY <1>2 DEF Scanned, Cur, WholeArray
    <3>2. t.n - 1 < MaxFft
      BY <1>1 DEF LineAssumption
    <3>3. t.n - 1 < NumRegs(t) /\ NumRegs(t) \in Nat
      BY <3>1, <3>2, FileCovers
    <3> QED
      BY <1>1, <2>1, <2>2, <3>3 DEF Cells
  <2>3. CASE mode # "vm"
    BY <2>1, <2>3
  <2> QED
    BY <2>2, <2>3
<1>3. CASE Cur.op \notin WholeArray
  <2>1. \A r \in Touches(Cur) : r \in Nat /\ r < Guard
    <3>1. \A r \in Touches(Cur) : r < Guard
      BY <1>3 DEF Guarded
    <3>2. \A r \in Touches(Cur) : r \in Nat
      BY <1>1 DEF Touches, Cells
    <3> QED
      BY <3>1, <3>2
  <2>2. CASE mode # "vm"
    BY <1>1, <2>1, <2>2 DEF Guard, Cells
  <2>3. CASE mode = "vm"
    <3>0. NumRegs(t) \in Nat /\ MaxFft \in Nat /\ RegAlign \in Nat
      BY FileCovers DEF LineAssumption
    <3>1. ASSUME NEW r \in Touches(Cur) PROVE r < NumRegs(t)
      <4>1. r \in Nat /\ r < MaxFft
        BY <2>1, <2>3 DEF Guard
      <4>2. Cur.op \notin {"NOP", "END"}
        BY DEF Touches
      <4>3. Scanned(t, t.code[ip]) = {Cur.a0, Cur.a1}
        BY <1>3, <4>2 DEF Scanned, Cur
      <4>4. CASE Cur.op \in {"BFLY4", "BFLY8"}
        <5>1. PICK line \in 0..Cur.a0 : /\ Cur.a0 >= line * RegAlign
                                  /\ Cur.a0 + Width(Cur.op) <= (line + 1) * RegAlign
          BY <1>1, <4>4 DEF InBounds
        <5>2. r < Cur.a0 + Width(Cur.op) /\ Cur.a0 + Width(Cur.op) \in Nat
          BY <1>1, <4>1, <4>4 DEF Touches, Width
        <5>3. line \in Nat /\ line * RegAlign \in Nat /\ (line + 1) * RegAlign \in Nat
          BY <3>0
        <5>4. line * RegAlign <= Cur.a0 /\ r < (line + 1) * RegAlign
          BY <1>1, <4>1, <5>1, <5>2, <5>3
        <5> QED
          BY <4>1, <4>3, <5>4, FileCovers
      <4>5. CASE Cur.op \notin {"BFLY4", "BFLY8"}
        <5>1. r \in {Cur.a0, Cur.a1}
          BY <1>3, <4>5 DEF Touches, WholeArray
        <5> QED
          BY <4>1, <4>3, <5>1, FileCovers
      <4> QED
        BY <4>4, <4>5
    <3> QED
      BY <2>1, <2>3, <3>0, <3>1 DEF Cells
  <2> QED
    BY <2>2, <2>3
<1> QED
  BY <1>2, <1>3

(* A state of the invariant is safe.                                       *)
LEMMA SafeHere ==
    ASSUME WellFormed(t), LineAssumption, Modes \subseteq Interpreters, RunInv
    PROVE  MemorySafe
<1>1. CASE status # "run"
  BY <1>1 DEF MemorySafe, Running
<1>2. CASE status = "run"
  <2>1. /\ mode \in Interpreters /\ Before(t, ip)
        /\ DOMAIN in = Cells(t.n) /\ DOMAIN out = Cells(t.n)
        /\ DOMAIN regs = Cells(IF mode = "vm" THEN NumRegs(t) ELSE t.n)
    BY <1>2 DEF RunInv
  <2>2. ip \in Cells(t.ninst) /\ Running
    BY <1>2, <2>1, Fetched DEF Running
  <2>3. InBounds(t, Cur)
    BY <2>2 DEF WellFormed, Cur
  <2>4. ASSUME Guarded(Cur) PROVE Touches(Cur) \subseteq DOMAIN regs
    BY <2>1, <2>2, <2>4, TouchesInside
  <2>5. /\ Cur.op = "LOAD" => Cur.a1 \in DOMAIN in
        /\ Cur.op = "STORE" => Cur.a0 \in DOMAIN out
        /\ Cur.op = "TWIDDLE_MUL" /\ t.tw # NoTable => Cur.a1 < t.tw.ntw
    <3>1. t.n \in Nat
      BY DEF WellFormed
    <3> QED
      BY <2>1, <2>3, <3>1 DEF InBounds, Cells
  <2> QED
    BY <2>2, <2>4, <2>5 DEF MemorySafe
<1> QED
  BY <1>1, <1>2

LEMMA RunInit == Init => RunInv
BY DEF Init, RunInv

(* A call starts before the END, with registers and buffers of its own.    *)
LEMMA CallKeeps ==
    ASSUME WellFormed(t), RunInv, NEW m \in Modes, NEW x \in Signals(t.n), Call(m, x)
    PROVE  RunInv'
<1>1. PICK e \in Cells(t.ninst) : t.code[e].op = "END"
  BY DEF WellFormed
<1>2. e \in Nat /\ 0 <= e
  BY DEF Cells, WellFormed
<1>3. Before(t, 0)
  BY <1>1, <1>2 DEF Before
<1>4. DOMAIN x = Cells(t.n)
  BY DEF Signals, Delta
<1>5. /\ t' = t /\ mode' = m /\ in' = x /\ ip' = 0
      /\ out' = [i \in Cells(t.n) |-> Junk]
      /\ regs' = [i \in Cells(IF m = "vm" THEN NumRegs(t) ELSE t.n) |-> CZero]
  BY DEF Call
<1>6. NumRegs(t)' = NumRegs(t)
  BY <1>5 DEF NumRegs, MaxRegister
<1>7. t' \in Transforms
  BY <1>5 DEF RunInv
<1>8. DOMAIN regs' = Cells(IF mode' = "vm" THEN NumRegs(t)' ELSE t'.n)
  BY <1>5, <1>6
<1> QED
  BY <1>3, <1>4, <1>5, <1>7, <1>8 DEF RunInv

(* An instruction that is not END leads to the next one, before the END.   *)
LEMMA Advance ==
    ASSUME RunInv, NEW ops, "END" \notin ops, Dispatch(ops),
           DOMAIN in' = DOMAIN in, DOMAIN out' = DOMAIN out, DOMAIN regs' = DOMAIN regs
    PROVE  RunInv'
<1>1. /\ status = "run" /\ Cur.op \in ops /\ ip' = ip + 1
      /\ t' = t /\ mode' = mode /\ status' = status
  BY DEF Dispatch, Running
<1>2. PICK e \in Cells(t.ninst) : t.code[e].op = "END" /\ ip <= e /\ ip \in Nat
  BY <1>1 DEF RunInv, Before
<1>3. ip # e
  BY <1>1, <1>2 DEF Cur
<1>4. e \in Int
  BY DEF Cells
<1>5. ip + 1 <= e /\ ip + 1 \in Nat
  BY <1>2, <1>3, <1>4
<1>6. Before(t', ip')
  BY <1>1, <1>2, <1>5 DEF Before
<1>7. NumRegs(t)' = NumRegs(t)
  BY <1>1 DEF NumRegs, MaxRegister
<1>8. t \in Transforms /\ mode \in Modes /\ DOMAIN in = Cells(t.n) /\ DOMAIN out = Cells(t.n)
      /\ DOMAIN regs = Cells(IF mode = "vm" THEN NumRegs(t) ELSE t.n)
  BY <1>1 DEF RunInv
<1> QED
  BY <1>1, <1>6, <1>7, <1>8 DEF RunInv

(* The swaps of BITREV stay inside the registers, so it leaves their       *)
(* number.                                                                 *)
LEMMA SwapsKeep ==
    ASSUME NEW a, NEW n \in Nat, NEW fac, Cells(n) \subseteq DOMAIN a,
           \A k \in Cells(n) : DigitReverse(k, fac) \in Cells(n)
    PROVE  DOMAIN SwapUp(a, n, fac) = DOMAIN a
<1> DEFINE D == DOMAIN a
           T == {a} \cup [D -> {a[x] : x \in D}]
           J(k) == DigitReverse(k - 1, fac)
           Swapped(b, k) == IF J(k) > k - 1 THEN [b EXCEPT ![k - 1] = b[J(k)], ![J(k)] = b[k - 1]]
                            ELSE b
           F == [k \in 1..n |-> [b \in T |-> Swapped(b, k)]]
           s == [k \in 1..n |-> k]
           Again(f) == [u \in SUBSET (1..n) |->
                           IF u = {} THEN a ELSE Swapped(f[u \ {Max(u)}], Max(u))]
           iter == CHOOSE f : f = Again(f)
<1>0. DOMAIN s = 1..n /\ \A k \in 1..n : s[k] = k
  OBVIOUS
<1>1. ASSUME NEW k \in 1..n, NEW b \in T PROVE Swapped(b, k) \in T
  <2>1. k - 1 \in D /\ J(k) \in D
    BY DEF Cells
  <2>2. DOMAIN b = D /\ \A x \in D : b[x] \in {a[y] : y \in D}
    OBVIOUS
  <2>3. [b EXCEPT ![k - 1] = b[J(k)], ![J(k)] = b[k - 1]] \in [D -> {a[x] : x \in D}]
    <3> HIDE DEF D, J
    <3> QED
      BY <2>1, <2>2
  <2> QED
    BY <2>3
<1>2. F \in Steps(n, T) /\ a \in T
  <2> HIDE DEF T, Swapped
  <2>1. F \in Steps(n, T)
    BY <1>1 DEF Steps
  <2> QED
    BY <2>1 DEF T
<1>3. PICK f \in [SUBSET (1..n) -> T] : Unfolds(n, a, F, f)
  <2> HIDE DEF F, T
  <2> QED
    BY <1>2, SubsetRecursion
<1>4. f = Again(f)
  <2> HIDE DEF Swapped, T
  <2>1. ASSUME NEW u \in SUBSET (1..n), u # {}
        PROVE  F[Max(u)][f[u \ {Max(u)}]] = Again(f)[u]
    <3>1. Max(u) \in 1..n /\ f[u \ {Max(u)}] \in T
      BY <1>3, <2>1, MaxUpTo
    <3> QED
      BY <2>1, <3>1
  <2>2. ASSUME NEW u \in SUBSET (1..n) PROVE f[u] = Again(f)[u]
    <3>1. CASE u = {}
      BY <1>3, <3>1 DEF Unfolds
    <3>2. CASE u # {}
      <4>1. f[u] = F[Max(u)][f[u \ {Max(u)}]]
        BY <1>3, <3>2 DEF Unfolds
      <4> QED
        BY <2>1, <3>2, <4>1
    <3> QED
      BY <3>1, <3>2
  <2> QED
    BY <2>2
<1>5. iter = Again(iter)
  <2> HIDE DEF Again
  <2> QED
    BY <1>4
<1>6. SwapUp(a, n, fac) = iter[1..n]
  <2> DEFINE Body(g) == [u \in SUBSET (1..n) |->
                           IF u = {} THEN a ELSE Swapped(g[u \ {Max(u)}], s[Max(u)])]
  <2>1. SwapUp(a, n, fac) = (CHOOSE g : g = Body(g))[1..n]
    BY <1>0 DEF SwapUp, FoldLeft, MapThenFoldSet
  <2>2. ASSUME NEW g PROVE Body(g) = Again(g)
    <3>1. \A u \in SUBSET (1..n) : u # {} => s[Max(u)] = Max(u)
      BY <1>0, MaxUpTo
    <3> HIDE DEF Swapped, s
    <3> QED
      BY <3>1
  <2> HIDE DEF Body, Again
  <2> QED
    BY <2>1, <2>2
<1> HIDE DEF iter
<1>7. iter[{}] = a
  BY <1>5
<1>8. ASSUME NEW u \in SUBSET (1..n), u # {}, iter[u \ {Max(u)}] \in T
      PROVE  iter[u] = F[Max(u)][iter[u \ {Max(u)}]]
  <2> HIDE DEF Swapped, T
  <2>1. iter[u] = Swapped(iter[u \ {Max(u)}], Max(u))
    BY <1>5, <1>8
  <2>2. Max(u) \in 1..n
    BY <1>8, MaxUpTo
  <2> QED
    BY <1>8, <2>1, <2>2
<1>9. iter[1..n] \in T
  <2> HIDE DEF F, Again, T
  <2>1. UnfoldsIn(n, T, a, F, iter)
    BY <1>7, <1>8 DEF UnfoldsIn
  <2>2. \A k \in 0..n : iter[1..k] \in T
    BY <1>2, <2>1, FoldChain
  <2> QED
    BY <2>2
<1> QED
  BY <1>6, <1>9

LEMMA BitRevKeeps ==
    ASSUME WellFormed(t), LineAssumption, Modes \subseteq Interpreters, RunInv, ExecBitRev,
           Guarded(Cur)
    PROVE  DOMAIN BitRev(regs, t.n) = DOMAIN regs
<1>1. status = "run" /\ Cur.op = "BITREV"
  BY DEF ExecBitRev, Registers, Dispatch, Running
<1>2. /\ mode \in Interpreters /\ Before(t, ip) /\ t.n \in Nat
      /\ DOMAIN regs = Cells(IF mode = "vm" THEN NumRegs(t) ELSE t.n)
  BY <1>1 DEF RunInv, WellFormed
<1>3. ip \in Cells(t.ninst)
  BY <1>2, Fetched
<1>4. Touches(Cur) \subseteq DOMAIN regs
  BY <1>2, <1>3, TouchesInside
<1>5. Cells(t.n) \subseteq DOMAIN regs
  BY <1>1, <1>4 DEF Touches
<1>6. InBounds(t, Cur)
  BY <1>3 DEF WellFormed, Cur
<1>7. \A k \in Cells(t.n) : DigitReverse(k, Radices(t.n)) \in Cells(t.n)
  BY <1>1, <1>6 DEF InBounds
<1> QED
  BY <1>2, <1>5, <1>7, SwapsKeep DEF BitRev

(* The handlers leave the arrays their sizes.                              *)
AnyHandler ==
    \/ ExecLoad \/ ExecStore \/ ExecBfly2 \/ ExecBfly4 \/ ExecBfly8 \/ ExecTwiddleMul
    \/ ExecFftStage \/ ExecBitRev \/ ExecDwtStage \/ ExecCallBuiltin \/ ExecThreshold
    \/ ExecReduceSum \/ ExecNop

LEMMA RegistersKeep ==
    ASSUME RunInv, NEW ops, "END" \notin ops, NEW new, Registers(ops, new),
           Guarded(Cur) => DOMAIN new = DOMAIN regs
    PROVE  RunInv'
<1>1. Dispatch(ops) /\ in' = in /\ out' = out /\ DOMAIN regs' = DOMAIN regs
  BY DEF Registers
<1> QED
  BY <1>1, Advance

LEMMA HandlersKeep ==
    ASSUME WellFormed(t), LineAssumption, Modes \subseteq Interpreters, RunInv, AnyHandler
    PROVE  RunInv'
<1>1. CASE ExecLoad
  <2>1. Dispatch({"LOAD"}) /\ in' = in /\ out' = out /\ DOMAIN regs' = DOMAIN regs
    BY <1>1 DEF ExecLoad
  <2> QED
    BY <2>1, Advance
<1>2. CASE ExecStore
  <2>1. /\ Dispatch({"STORE"}) /\ DOMAIN in' = DOMAIN in /\ DOMAIN out' = DOMAIN out
        /\ DOMAIN regs' = DOMAIN regs
    BY <1>2 DEF ExecStore
  <2> QED
    BY <2>1, Advance
<1>3. CASE ExecBfly2
  <2> DEFINE new == [regs EXCEPT ![Cur.a0] = CAdd(regs[Cur.a0], regs[Cur.a1]),
                                 ![Cur.a1] = CSub(regs[Cur.a0], regs[Cur.a1])]
  <2>1. Registers({"BFLY2"}, new) /\ DOMAIN new = DOMAIN regs
    BY <1>3 DEF ExecBfly2
  <2> QED
    BY <2>1, RegistersKeep
<1>4. CASE ExecBfly4
  <2> DEFINE new == Patch(Cur.a0, 4, Dft4(Window(Cur.a0, 4), FALSE))
  <2>1. Registers({"BFLY4"}, new)
    BY <1>4 DEF ExecBfly4
  <2>2. DOMAIN new = DOMAIN regs
    BY DEF Patch
  <2> QED
    BY <2>1, <2>2, RegistersKeep
<1>5. CASE ExecBfly8
  <2> DEFINE new == Patch(Cur.a0, 8, Bfly8(Window(Cur.a0, 8)))
  <2>1. Registers({"BFLY8"}, new)
    BY <1>5 DEF ExecBfly8
  <2>2. DOMAIN new = DOMAIN regs
    BY DEF Patch
  <2> QED
    BY <2>1, <2>2, RegistersKeep
<1>6. CASE ExecTwiddleMul
  <2> DEFINE new == IF t.tw = NoTable THEN regs
              ELSE [regs EXCEPT ![Cur.a0] = CMul(@, Root(t.tw.root, Cur.a1, t.tw.inv))]
  <2>1. Registers({"TWIDDLE_MUL"}, new) /\ DOMAIN new = DOMAIN regs
    BY <1>6 DEF ExecTwiddleMul
  <2> QED
    BY <2>1, RegistersKeep
<1>7. CASE ExecFftStage
  <2> DEFINE new == FftStageOf(regs, t.n, Cur, t.tw, t.inv)
  <2>1. Registers({"FFT_STAGE"}, new)
    BY <1>7 DEF ExecFftStage
  <2>2. DOMAIN new = DOMAIN regs
    BY DEF FftStageOf
  <2> QED
    BY <2>1, <2>2, RegistersKeep
<1>8. CASE ExecBitRev
  <2> DEFINE new == BitRev(regs, t.n)
  <2>1. Registers({"BITREV"}, new)
    BY <1>8 DEF ExecBitRev
  <2>2. Guarded(Cur) => DOMAIN new = DOMAIN regs
    BY <1>8, BitRevKeeps
  <2> QED
    BY <2>1, <2>2, RegistersKeep
<1>9. CASE ExecDwtStage
  <2> DEFINE new == IF Cur.a1 < 2 \/ Cur.a1 > t.n THEN regs
                    ELSE HaarLevel(regs, Cur.a1, Cur.a2 = 1)
  <2>1. Registers({"DWT_STAGE"}, new)
    BY <1>9 DEF ExecDwtStage
  <2>2. DOMAIN new = DOMAIN regs
    BY DEF HaarLevel
  <2> QED
    BY <2>1, <2>2, RegistersKeep
<1>10. CASE ExecCallBuiltin
  <2> DEFINE new == [i \in DOMAIN regs |->
                        IF i < t.n THEN <<Builtin(Cur.a0, regs[i][1]), regs[i][2]>> ELSE regs[i]]
  <2>1. Registers({"CALL_BUILTIN"}, new) /\ DOMAIN new = DOMAIN regs
    BY <1>10 DEF ExecCallBuiltin
  <2> QED
    BY <2>1, RegistersKeep
<1>11. CASE ExecThreshold
  <2> DEFINE new == [i \in DOMAIN regs |->
                        IF Cur.a2 = 1 /\ i \in Touches(Cur) THEN <<0, regs[i][2]>> ELSE regs[i]]
  <2>1. Registers({"THRESHOLD"}, new) /\ DOMAIN new = DOMAIN regs
    BY <1>11 DEF ExecThreshold
  <2> QED
    BY <2>1, RegistersKeep
<1>12. CASE ExecReduceSum
  <2> DEFINE new == IF mode = "vm" THEN [regs EXCEPT ![Cur.a0] = <<0, @[2]>>] ELSE regs
  <2>1. Registers({"REDUCE_SUM"}, new) /\ DOMAIN new = DOMAIN regs
    BY <1>12 DEF ExecReduceSum
  <2> QED
    BY <2>1, RegistersKeep
<1>13. CASE ExecNop
  <2>1. Dispatch({"NOP", "REDUCE_MAX", "REDUCE_MIN"}) /\ in' = in /\ out' = out /\ regs' = regs
    BY <1>13 DEF ExecNop
  <2> QED
    BY <2>1, Advance
<1> QED
  BY <1>1, <1>2, <1>3, <1>4, <1>5, <1>6, <1>7, <1>8, <1>9, <1>10, <1>11, <1>12, <1>13
     DEF AnyHandler

LEMMA ReturnKeeps ==
    ASSUME RunInv, Return
    PROVE  RunInv'
BY DEF RunInv, Return

-----------------------------------------------------------------------------
(* The folds of FftIr, one factor after the other.                         *)

LEMMA ProductChain ==
    ASSUME NEW n \in Nat, NEW s \in [1..n -> Nat]
    PROVE  \E g \in [0..n -> Nat] : /\ g[0] = 1 /\ g[n] = Product(s)
                                    /\ \A k \in 1..n : g[k] = g[k - 1] * s[k]
<1> DEFINE F == [k \in 1..n |-> [y \in Nat |-> y * s[k]]]
           Again(f) == [u \in SUBSET (1..n) |->
                           IF u = {} THEN 1 ELSE f[u \ {Max(u)}] * s[Max(u)]]
           iter == CHOOSE f : f = Again(f)
<1>0. DOMAIN s = 1..n
  OBVIOUS
<1>1. F \in Steps(n, Nat)
  BY DEF Steps
<1>2. PICK f \in [SUBSET (1..n) -> Nat] : Unfolds(n, 1, F, f)
  <2> HIDE DEF F
  <2> QED
    BY <1>1, SubsetRecursion
<1>3. f = Again(f)
  <2>1. ASSUME NEW u \in SUBSET (1..n), u # {}
        PROVE  F[Max(u)][f[u \ {Max(u)}]] = f[u \ {Max(u)}] * s[Max(u)]
    <3>1. Max(u) \in 1..n /\ f[u \ {Max(u)}] \in Nat
      BY <1>2, <2>1, MaxUpTo
    <3> QED
      BY <3>1
  <2> HIDE DEF F
  <2>2. \A u \in SUBSET (1..n) : f[u] = Again(f)[u]
    BY <1>2, <2>1 DEF Unfolds
  <2> QED
    BY <2>2
<1>4. iter = Again(iter)
  <2> HIDE DEF Again
  <2> QED
    BY <1>3
<1>5. Product(s) = iter[1..n]
  BY <1>0 DEF Product, FoldLeft, MapThenFoldSet
<1> HIDE DEF iter
<1>6. iter[{}] = 1
  BY <1>4
<1>7. ASSUME NEW u \in SUBSET (1..n), u # {}, iter[u \ {Max(u)}] \in Nat
      PROVE  iter[u] = F[Max(u)][iter[u \ {Max(u)}]]
  <2>1. iter[u] = iter[u \ {Max(u)}] * s[Max(u)]
    BY <1>4, <1>7
  <2>2. Max(u) \in 1..n
    BY <1>7, MaxUpTo
  <2> QED
    BY <1>7, <2>1, <2>2
<1> DEFINE g == [k \in 0..n |-> iter[1..k]]
<1>8. /\ iter[1..0] = 1 /\ \A k \in 0..n : iter[1..k] \in Nat
      /\ \A k \in 1..n : iter[1..k] = F[k][iter[1..k - 1]]
  <2> HIDE DEF F, Again
  <2>1. UnfoldsIn(n, Nat, 1, F, iter)
    BY <1>6, <1>7 DEF UnfoldsIn
  <2> QED
    BY <1>1, <2>1, FoldChain
<1>9. g \in [0..n -> Nat] /\ g[0] = 1 /\ \A k \in 1..n : g[k] = F[k][g[k - 1]]
  <2>1. \A k \in 1..n : k \in 0..n /\ k - 1 \in 0..n
    OBVIOUS
  <2> HIDE DEF F
  <2> QED
    BY <1>8, <2>1
<1>10. g[n] = Product(s)
  BY <1>5
<1>11. \A k \in 1..n : k - 1 \in 0..n /\ F[k][g[k - 1]] = g[k - 1] * s[k]
  <2> HIDE DEF g
  <2> TAKE k \in 1..n
  <2>1. k - 1 \in 0..n
    OBVIOUS
  <2>2. g[k - 1] \in Nat
    BY <1>9, <2>1
  <2> QED
    BY <2>1, <2>2
<1> HIDE DEF g, F
<1> QED
  BY <1>9, <1>10, <1>11

Digits == [rev : Int, rest : Int]
LEMMA ReverseChain ==
    ASSUME NEW n \in Nat, NEW s \in [1..n -> Nat \ {0}], NEW x \in Int
    PROVE  \E g \in [0..n -> Digits] :
               /\ g[0].rev = 0 /\ g[n].rev = DigitReverse(x, s)
               /\ \A k \in 1..n : g[k].rev = (g[k - 1].rev * s[k]) + (g[k - 1].rest % s[k])
<1> DEFINE first == [rev |-> 0, rest |-> x]
           F == [k \in 1..n |-> [y \in Digits |->
                    [rev |-> (y.rev * s[k]) + (y.rest % s[k]), rest |-> y.rest \div s[k]]]]
           Again(f) == [u \in SUBSET (1..n) |->
                           IF u = {} THEN first
                           ELSE [rev |-> (f[u \ {Max(u)}].rev * s[Max(u)])
                                             + (f[u \ {Max(u)}].rest % s[Max(u)]),
                                 rest |-> f[u \ {Max(u)}].rest \div s[Max(u)]]]
           iter == CHOOSE f : f = Again(f)
<1>0. DOMAIN s = 1..n
  OBVIOUS
<1>1. F \in Steps(n, Digits) /\ first \in Digits
  <2>1. ASSUME NEW k \in 1..n, NEW y \in Digits
        PROVE  [rev |-> (y.rev * s[k]) + (y.rest % s[k]), rest |-> y.rest \div s[k]] \in Digits
    <3>1. y.rev \in Int /\ y.rest \in Int /\ s[k] \in Nat \ {0}
      BY DEF Digits
    <3>2. y.rev * s[k] \in Int /\ y.rest % s[k] \in Int /\ y.rest \div s[k] \in Int
      BY <3>1
    <3> QED
      BY <3>2 DEF Digits
  <2> QED
    BY <2>1 DEF Steps, Digits
<1>2. PICK f \in [SUBSET (1..n) -> Digits] : Unfolds(n, first, F, f)
  <2> HIDE DEF F, first
  <2> QED
    BY <1>1, SubsetRecursion
<1>3. f = Again(f)
  <2>1. ASSUME NEW u \in SUBSET (1..n), u # {}
        PROVE  F[Max(u)][f[u \ {Max(u)}]] = Again(f)[u]
    <3>1. Max(u) \in 1..n /\ f[u \ {Max(u)}] \in Digits
      BY <1>2, <2>1, MaxUpTo
    <3> QED
      BY <2>1, <3>1
  <2>2. ASSUME NEW u \in SUBSET (1..n) PROVE f[u] = Again(f)[u]
    <3>1. CASE u = {}
      BY <1>2, <3>1 DEF Unfolds
    <3>2. CASE u # {}
      <4>1. f[u] = F[Max(u)][f[u \ {Max(u)}]]
        BY <1>2, <3>2 DEF Unfolds
      <4> QED
        BY <2>1, <3>2, <4>1
    <3> QED
      BY <3>1, <3>2
  <2> QED
    BY <2>2
<1>4. iter = Again(iter)
  <2> HIDE DEF Again
  <2> QED
    BY <1>3
<1>5. DigitReverse(x, s) = iter[1..n].rev
  BY <1>0 DEF DigitReverse, FoldLeft, MapThenFoldSet
<1> HIDE DEF iter
<1>6. iter[{}] = first
  BY <1>4
<1>7. ASSUME NEW u \in SUBSET (1..n), u # {}, iter[u \ {Max(u)}] \in Digits
      PROVE  iter[u] = F[Max(u)][iter[u \ {Max(u)}]]
  <2>1. iter[u] = Again(iter)[u]
    BY <1>4
  <2>2. Max(u) \in 1..n
    BY <1>7, MaxUpTo
  <2> QED
    BY <1>7, <2>1, <2>2
<1> DEFINE g == [k \in 0..n |-> iter[1..k]]
<1>8. /\ iter[1..0] = first /\ \A k \in 0..n : iter[1..k] \in Digits
      /\ \A k \in 1..n : iter[1..k] = F[k][iter[1..k - 1]]
  <2> HIDE DEF F, Again, first
  <2>1. UnfoldsIn(n, Digits, first, F, iter)
    BY <1>6, <1>7 DEF UnfoldsIn
  <2> QED
    BY <1>1, <2>1, FoldChain
<1>9. g \in [0..n -> Digits] /\ g[0] = first /\ \A k \in 1..n : g[k] = F[k][g[k - 1]]
  <2>1. \A k \in 1..n : k \in 0..n /\ k - 1 \in 0..n
    OBVIOUS
  <2> HIDE DEF F, first
  <2> QED
    BY <1>8, <2>1
<1>10. g[n].rev = DigitReverse(x, s)
  BY <1>5
<1>11. \A k \in 1..n : F[k][g[k - 1]].rev = (g[k - 1].rev * s[k]) + (g[k - 1].rest % s[k])
  <2> HIDE DEF g
  <2> TAKE k \in 1..n
  <2>1. k - 1 \in 0..n
    OBVIOUS
  <2>2. g[k - 1] \in Digits
    BY <1>9, <2>1
  <2> QED
    BY <2>2
<1>12. g[0].rev = 0
  BY <1>9
<1> HIDE DEF g, F
<1>13. \A k \in 1..n : g[k].rev = (g[k - 1].rev * s[k]) + (g[k - 1].rest % s[k])
  BY <1>9, <1>11
<1> QED
  BY <1>9, <1>10, <1>12, <1>13

-----------------------------------------------------------------------------
(* Digit reversal stays inside the signal.                                 *)

(* Reading the digits of a number backwards gives a number below the       *)
(* product of the radices.                                                 *)
LEMMA DigitBound ==
    ASSUME NEW n \in Nat, NEW s \in [1..n -> 2..7], NEW x \in Int
    PROVE  DigitReverse(x, s) \in 0..Product(s) - 1
<1>1. s \in [1..n -> Nat] /\ s \in [1..n -> Nat \ {0}]
  OBVIOUS
<1>2. PICK g \in [0..n -> Nat] : /\ g[0] = 1 /\ g[n] = Product(s)
                                 /\ \A k \in 1..n : g[k] = g[k - 1] * s[k]
  BY <1>1, ProductChain
<1>3. PICK r \in [0..n -> Digits] :
               /\ r[0].rev = 0 /\ r[n].rev = DigitReverse(x, s)
               /\ \A k \in 1..n : r[k].rev = (r[k - 1].rev * s[k]) + (r[k - 1].rest % s[k])
  BY <1>1, ReverseChain
<1> DEFINE Q == {k \in 0..n : r[k].rev \in 0..g[k] - 1}
<1>4. 0 \in Q
  BY <1>2, <1>3
<1>5. ASSUME NEW k \in 0..n, k \in Q, k < n PROVE k + 1 \in Q
  <2>1. k + 1 \in 1..n /\ k + 1 \in 0..n /\ (k + 1) - 1 = k
    BY <1>5
  <2> DEFINE f == s[k + 1]
             d == r[k].rest % f
             v == r[k].rev
             p == g[k]
  <2>2. f \in 2..7 /\ r[k] \in Digits /\ p \in Nat
    BY <2>1
  <2>3. d \in 0..f - 1
    <3>1. r[k].rest \in Int
      BY <2>2 DEF Digits
    <3> HIDE DEF f
    <3> QED
      BY <2>2, <3>1
  <2>4. v \in 0..p - 1
    BY <1>5
  <2>5. r[k + 1].rev = (v * f) + d /\ g[k + 1] = p * f
    BY <1>2, <1>3, <2>1
  <2> HIDE DEF f, d, v, p
  <2>6. (v * f) + d \in 0..(p * f) - 1
    <3>1. \/ f = 2 \/ f = 3 \/ f = 4 \/ f = 5 \/ f = 6 \/ f = 7
      BY <2>2
    <3> QED
      BY <2>2, <2>3, <2>4, <3>1
  <2> QED
    BY <2>1, <2>5, <2>6
<1>6. n \in Q
  <2> HIDE DEF Q
  <2>1. \A k \in 0..n : k \in Q
    BY <1>4, <1>5, UpTo
  <2> QED
    BY <2>1
<1> QED
  BY <1>2, <1>3, <1>6

LEMMA CountNat == ASSUME NEW a \in Int, NEW b \in Int, NEW S, S \subseteq a..b
                  PROVE  Cardinality(S) \in Nat
<1>1. IsFiniteSet(a..b)
  BY FS_Interval, Zenon
<1> QED
  BY <1>1, FS_Subset, FS_CardinalityType

LEMMA LogNat == ASSUME NEW n PROVE Log2(n) \in Nat
<1>1. 1 \in Int /\ 30 \in Int /\ {k \in 1..30 : 2^k <= n} \subseteq 1..30
  OBVIOUS
<1> QED
  BY <1>1, CountNat DEF Log2

LEMMA TimesNat == ASSUME NEW p, NEW n PROVE Multiplicity(p, n) \in Nat
<1>1. 1 \in Int /\ Log2(n) \in Int /\ {e \in 1..Log2(n) : n % (p^e) = 0} \subseteq 1..Log2(n)
  BY LogNat
<1> QED
  BY <1>1, CountNat DEF Multiplicity

(* The radices of a length are numbers from 2 to 7.                        *)
LEMMA FactorsSmall == ASSUME NEW n PROVE Factors(n) \in [1..Len(Factors(n)) -> 2..7] /\ Len(Factors(n)) \in Nat
<1>1. ASSUME NEW x \in 2..7, NEW k \in Nat PROVE Repeat(x, k) \in Seq(2..7)
  BY <1>1 DEF Repeat
<1> DEFINE twos == Multiplicity(2, n)
<1>2. twos \div 2 \in Nat /\ twos % 2 \in Nat
  <2>1. twos \in Nat
    BY TimesNat
  <2> HIDE DEF twos
  <2> QED
    BY <2>1
<1>3. /\ Repeat(4, twos \div 2) \in Seq(2..7) /\ Repeat(2, twos % 2) \in Seq(2..7)
      /\ Repeat(3, Multiplicity(3, n)) \in Seq(2..7)
      /\ Repeat(5, Multiplicity(5, n)) \in Seq(2..7)
      /\ Repeat(7, Multiplicity(7, n)) \in Seq(2..7)
  <2>1. 2 \in 2..7 /\ 3 \in 2..7 /\ 4 \in 2..7 /\ 5 \in 2..7 /\ 7 \in 2..7
    OBVIOUS
  <2> HIDE DEF twos
  <2> QED
    BY <1>1, <1>2, <2>1, TimesNat
<1>4. \A u, v \in Seq(2..7) : u \o v \in Seq(2..7)
  OBVIOUS
<1>5. Factors(n) \in Seq(2..7)
  <2>1. Factors(n) = Repeat(4, twos \div 2) \o Repeat(2, twos % 2)
            \o Repeat(3, Multiplicity(3, n)) \o Repeat(5, Multiplicity(5, n))
            \o Repeat(7, Multiplicity(7, n))
    BY DEF Factors
  <2> HIDE DEF twos
  <2> QED
    BY <1>3, <1>4, <2>1
<1> QED
  BY <1>5

(* The powers of two.                                                      *)
LEMMA Powers ==
    /\ 2^0 = 1 /\ \A k \in 0..30 : 2^k \in Nat \ {0}
    /\ \A k \in 0..29 : 2^(k + 1) = 2 * 2^k
    /\ \A a, b \in 0..30 : a < b => 2^a < 2^b
<1> DEFINE p(k) == 2^k
<1>1. /\ p(0) = 1 /\ p(1) = 2 /\ p(2) = 4 /\ p(3) = 8 /\ p(4) = 16 /\ p(5) = 32 /\ p(6) = 64
      /\ p(7) = 128 /\ p(8) = 256 /\ p(9) = 512 /\ p(10) = 1024 /\ p(11) = 2048
      /\ p(12) = 4096 /\ p(13) = 8192 /\ p(14) = 16384 /\ p(15) = 32768 /\ p(16) = 65536
      /\ p(17) = 131072 /\ p(18) = 262144 /\ p(19) = 524288 /\ p(20) = 1048576
      /\ p(21) = 2097152 /\ p(22) = 4194304 /\ p(23) = 8388608 /\ p(24) = 16777216
      /\ p(25) = 33554432 /\ p(26) = 67108864 /\ p(27) = 134217728 /\ p(28) = 268435456
      /\ p(29) = 536870912 /\ p(30) = 1073741824
  OBVIOUS
<1> HIDE DEF p
<1>2. \A k \in 0..29 : p(k + 1) = 2 * p(k)
  BY <1>1
<1>3. \A k \in 0..30 : p(k) \in Nat \ {0}
  BY <1>1
<1> DEFINE Q == {b \in 0..30 : \A a \in 0..30 : a < b => p(a) < p(b)}
<1>4. 0 \in Q
  OBVIOUS
<1>5. ASSUME NEW k \in 0..30, k \in Q, k < 30 PROVE k + 1 \in Q
  <2>1. ASSUME NEW a \in 0..30, a < k + 1 PROVE p(a) < p(k + 1)
    <3>1. p(a) <= p(k)
      BY <1>3, <1>5, <2>1
    <3>2. k \in 0..29
      BY <1>5
    <3> QED
      BY <1>2, <1>3, <3>1, <3>2
  <2> QED
    BY <1>5, <2>1
<1>6. \A b \in 0..30 : b \in Q
  <2> HIDE DEF Q
  <2>1. 30 \in Nat
    OBVIOUS
  <2> QED
    BY <1>4, <1>5, <2>1, UpTo
<1>7. \A a, b \in 0..30 : a < b => p(a) < p(b)
  BY <1>6
<1> QED
  BY <1>1, <1>2, <1>3, <1>7 DEF p

LEMMA LogOfPower ==
    ASSUME NEW k \in 0..30
    PROVE  Log2(2^k) = k
<1> DEFINE p(j) == 2^j
<1>1. \A a, b \in 0..30 : a < b => p(a) < p(b)
  BY Powers
<1>2. \A a \in 0..30 : p(a) \in Nat
  BY Powers
<1> HIDE DEF p
<1>3. {j \in 1..30 : p(j) <= p(k)} = 1..k
  <2>1. ASSUME NEW j \in 1..30 PROVE p(j) <= p(k) <=> j <= k
    <3>1. j \in 0..30
      OBVIOUS
    <3>2. CASE j < k
      BY <1>1, <1>2, <3>1, <3>2
    <3>3. CASE j > k
      BY <1>1, <1>2, <3>1, <3>3
    <3>4. CASE j = k
      BY <1>2, <3>1, <3>4
    <3> QED
      BY <3>1, <3>2, <3>3, <3>4
  <2> QED
    BY <2>1
<1>4. Cardinality(1..k) = k
  <2>1. 1 \in Int /\ k \in Int
    OBVIOUS
  <2>2. Cardinality(1..k) = IF 1 > k THEN 0 ELSE k - 1 + 1
    BY <2>1, FS_Interval, Zenon
  <2> QED
    BY <2>2
<1>5. Log2(2^k) = Cardinality({j \in 1..30 : p(j) <= p(k)})
  BY DEF Log2, p
<1> QED
  BY <1>3, <1>4, <1>5

(* That many twos have the power of two as their product.                  *)
LEMMA ProductOfTwos ==
    ASSUME NEW k \in 0..30
    PROVE  Repeat(2, k) \in [1..k -> 2..7] /\ Product(Repeat(2, k)) = 2^k
<1> DEFINE s == Repeat(2, k)
           p == [j \in 0..30 |-> 2^j]
<1>0. k \in Nat /\ k \in 0..k /\ 0 \in 0..k
  OBVIOUS
<1>1. s \in [1..k -> 2..7] /\ s \in [1..k -> Nat] /\ \A j \in 1..k : s[j] = 2
  BY DEF Repeat
<1>2. PICK g \in [0..k -> Nat] : /\ g[0] = 1 /\ g[k] = Product(s)
                                 /\ \A j \in 1..k : g[j] = g[j - 1] * s[j]
  <2> HIDE DEF s
  <2> QED
    BY <1>0, <1>1, ProductChain
<1>3. p[0] = 1 /\ (\A j \in 0..29 : p[j + 1] = 2 * p[j]) /\ p[k] = 2^k
  <2>1. \A j \in 0..29 : j + 1 \in 0..30 /\ j \in 0..30
    OBVIOUS
  <2> QED
    BY <2>1, Powers
<1> HIDE DEF s, p
<1> DEFINE Q == {j \in 0..k : g[j] = p[j]}
<1>4. 0 \in Q
  BY <1>0, <1>2, <1>3
<1>5. ASSUME NEW j \in 0..k, j \in Q, j < k PROVE j + 1 \in Q
  <2>1. j + 1 \in 1..k /\ j \in 0..29 /\ (j + 1) - 1 = j
    BY <1>5
  <2>2. g[j + 1] = g[j] * 2
    BY <1>1, <1>2, <2>1
  <2>3. g[j] = p[j] /\ g[j] \in Nat
    BY <1>5
  <2>4. p[j + 1] = 2 * p[j]
    BY <1>3, <2>1
  <2>5. g[j + 1] = p[j + 1]
    BY <2>2, <2>3, <2>4
  <2> QED
    BY <2>1, <2>5
<1>6. k \in Q
  <2> HIDE DEF Q
  <2>1. \A j \in 0..k : j \in Q
    BY <1>0, <1>4, <1>5, UpTo
  <2> QED
    BY <1>0, <2>1
<1>7. Product(s) = 2^k
  BY <1>2, <1>3, <1>6
<1> QED
  BY <1>1, <1>7 DEF s

(* BITREV and the LOADs of the generators: the length is a power of two or *)
(* has no prime factor above seven.                                        *)
LEMMA ReversalInside ==
    ASSUME NEW n \in Nat, IsPow2(n) \/ Is7Smooth(n), NEW k \in Int
    PROVE  DigitReverse(k, Radices(n)) \in Cells(n)
<1>1. CASE IsPow2(n)
  <2>1. PICK e \in 0..30 : n = 2^e
    BY <1>1 DEF IsPow2
  <2>2. Radices(n) = Repeat(2, e)
    BY <1>1, <2>1, LogOfPower DEF Radices
  <2>3. DigitReverse(k, Repeat(2, e)) \in 0..Product(Repeat(2, e)) - 1
    <3>1. Repeat(2, e) \in [1..e -> 2..7]
      BY ProductOfTwos
    <3> QED
      BY <3>1, DigitBound
  <2> QED
    BY <2>1, <2>2, <2>3, ProductOfTwos DEF Cells
<1>2. CASE ~IsPow2(n)
  <2>1. Radices(n) = Factors(n) /\ Product(Factors(n)) = n
    BY <1>2 DEF Radices, Is7Smooth
  <2>2. DigitReverse(k, Factors(n)) \in 0..Product(Factors(n)) - 1
    BY FactorsSmall, DigitBound
  <2> QED
    BY <2>1, <2>2 DEF Cells
<1> QED
  BY <1>1, <1>2

-----------------------------------------------------------------------------
(* What the generators of the C API emit is well-formed.                   *)

StageLike(i) == i.op \in {"FFT_STAGE", "DWT_STAGE"} /\ i.a0 \in Nat /\ i.a1 \in Nat

Join(u, v, p, q, S) ==
    /\ u \o v \in Seq(S) /\ Len(u \o v) = p + q
    /\ \A k \in 1..p : (u \o v)[k] = u[k]
    /\ \A k \in p + 1..p + q : (u \o v)[k] = v[k - p]
LEMMA Joined ==
    ASSUME NEW S, NEW u \in Seq(S), NEW v \in Seq(S), NEW p \in Nat, NEW q \in Nat,
           Len(u) = p, Len(v) = q
    PROVE  Join(u, v, p, q, S)
BY DEF Join

LEMMA Wider == ASSUME NEW S, NEW R, S \subseteq R, NEW u \in Seq(S) PROVE u \in Seq(R)
OBVIOUS

(* LOADs of a permutation, stages, STOREs and END, if they fit.            *)
LEMMA WrappedFormed ==
    ASSUME NEW n \in Nat, n >= 1, n <= MaxFft, MaxFft \in Nat, MaxInst \in Nat,
           NEW perm \in [0..n - 1 -> 0..n - 1],
           NEW Stages, \A i \in Stages : StageLike(i), NEW body \in Seq(Stages),
           2 * n + Len(body) + 1 <= MaxInst,
           NEW tr, tr.n = n, tr.code = Wrapped(perm, body).code,
           tr.ninst = Wrapped(perm, body).ninst
    PROVE  WellFormed(tr)
<1> DEFINE loads == [k \in 1..n |-> Load(k - 1, perm[k - 1])]
           stores == [k \in 1..n |-> Store(k - 1, k - 1)]
           insts == loads \o body \o stores \o <<End>>
           m == Len(body)
           l == 2 * n + m + 1
           Insts == Stages \cup [op : {"LOAD", "STORE", "END"}, a0 : Nat, a1 : Nat, a2 : Int]
<1>1. Cardinality(DOMAIN perm) = n
  <2>1. 0 \in Int /\ n - 1 \in Int
    OBVIOUS
  <2>2. Cardinality(0..n - 1) = IF 0 > n - 1 THEN 0 ELSE (n - 1) - 0 + 1
    BY <2>1, FS_Interval, Zenon
  <2> QED
    BY <2>2
<1>2. Wrapped(perm, body) = Generated(insts)
  BY <1>1 DEF Wrapped
<1>3. /\ loads \in Seq(Insts) /\ stores \in Seq(Insts) /\ body \in Seq(Insts)
      /\ <<End>> \in Seq(Insts)
  <2>1. ASSUME NEW k \in 1..n
        PROVE  Load(k - 1, perm[k - 1]) \in Insts /\ Store(k - 1, k - 1) \in Insts
    <3>1. k - 1 \in Nat /\ perm[k - 1] \in Nat
      OBVIOUS
    <3> QED
      BY <3>1 DEF Load, Store, Inst
  <2>2. loads \in Seq(Insts) /\ stores \in Seq(Insts)
    <3> HIDE DEF Insts
    <3>1. loads \in [1..n -> Insts] /\ stores \in [1..n -> Insts]
      BY <2>1
    <3> HIDE DEF loads, stores
    <3> QED
      BY <3>1
  <2>3. End \in Insts
    BY DEF End, Inst
  <2>4. Stages \subseteq Insts
    OBVIOUS
  <2> HIDE DEF Insts, loads, stores
  <2>6. body \in Seq(Insts)
    BY <2>4, Wider
  <2>7. <<End>> \in Seq(Insts)
    BY <2>3
  <2> QED
    BY <2>2, <2>6, <2>7
<1>4. Len(loads) = n /\ Len(stores) = n /\ m \in Nat /\ Len(<<End>>) = 1
  OBVIOUS
<1>5. /\ Len(insts) = l
      /\ \A k \in 1..n : insts[k] = loads[k]
      /\ \A k \in n + 1..n + m : insts[k] = body[k - n]
      /\ \A k \in n + m + 1..2 * n + m : insts[k] = stores[k - n - m]
      /\ insts[l] = End
  <2> HIDE DEF loads, stores, Insts, m
  <2> DEFINE first == loads \o body
             second == first \o stores
  <2>1. /\ first \in Seq(Insts) /\ Len(first) = n + m
        /\ \A k \in 1..n : first[k] = loads[k]
        /\ \A k \in n + 1..n + m : first[k] = body[k - n]
    <3>1. Join(loads, body, n, m, Insts)
      <4>1. Len(body) = m
        BY DEF m
      <4> QED
        BY <1>3, <1>4, <4>1, Joined
    <3> QED
      BY <3>1 DEF Join
  <2> HIDE DEF first
  <2>2. /\ second \in Seq(Insts) /\ Len(second) = 2 * n + m
        /\ \A k \in 1..n + m : second[k] = first[k]
        /\ \A k \in n + m + 1..2 * n + m : second[k] = stores[k - n - m]
    <3>1. /\ second \in Seq(Insts) /\ Len(second) = (n + m) + n
          /\ \A k \in 1..n + m : second[k] = first[k]
          /\ \A k \in (n + m) + 1..(n + m) + n : second[k] = stores[k - (n + m)]
      <4>1. n + m \in Nat
        BY <1>4
      <4>2. Join(first, stores, n + m, n, Insts)
        BY <1>3, <1>4, <2>1, <4>1, Joined
      <4> QED
        BY <4>2 DEF Join
    <3>2. (n + m) + n = 2 * n + m
      BY <1>4
    <3>3. ASSUME NEW k \in n + m + 1..2 * n + m PROVE second[k] = stores[k - n - m]
      <4>1. k \in (n + m) + 1..(n + m) + n /\ k - (n + m) = k - n - m
        BY <1>4
      <4> HIDE DEF second
      <4> QED
        BY <3>1, <4>1
    <3> HIDE DEF second
    <3> QED
      BY <3>1, <3>2, <3>3
  <2> HIDE DEF second
  <2>3. /\ Len(second \o <<End>>) = l
        /\ \A k \in 1..2 * n + m : (second \o <<End>>)[k] = second[k]
        /\ (second \o <<End>>)[l] = End
    <3> DEFINE last == <<End>>
    <3>1. last \in Seq(Insts) /\ Len(last) = 1 /\ last[1] = End
      BY <1>3
    <3> HIDE DEF last
    <3>2. /\ Len(second \o last) = 2 * n + m + 1
          /\ \A k \in 1..2 * n + m : (second \o last)[k] = second[k]
          /\ \A k \in 2 * n + m + 1..2 * n + m + 1 :
                 (second \o last)[k] = last[k - (2 * n + m)]
      <4>1. 2 * n + m \in Nat /\ 1 \in Nat
        BY <1>4
      <4>2. Join(second, last, 2 * n + m, 1, Insts)
        BY <2>2, <3>1, <4>1, Joined
      <4> QED
        BY <4>2 DEF Join
    <3>3. (second \o last)[2 * n + m + 1] = last[1]
      <4>1. 2 * n + m + 1 \in 2 * n + m + 1..2 * n + m + 1
            /\ (2 * n + m + 1) - (2 * n + m) = 1
        BY <1>4
      <4> QED
        BY <3>2, <4>1
    <3> QED
      BY <3>1, <3>2, <3>3 DEF last, m
  <2>4. insts = second \o <<End>>
    BY DEF first, second
  <2> HIDE DEF insts
  <2>5. \A k \in 1..n : k \in 1..n + m /\ k \in 1..2 * n + m
    BY <1>4
  <2>6. \A k \in n + 1..n + m : k \in 1..n + m /\ k \in 1..2 * n + m
    BY <1>4
  <2>7. \A k \in n + m + 1..2 * n + m : k \in 1..2 * n + m
    BY <1>4
  <2> HIDE DEF l, loads, stores, first, second
  <2>8. /\ Len(insts) = l /\ insts[l] = End
        /\ \A k \in 1..2 * n + m : insts[k] = second[k]
    BY <2>3, <2>4
  <2>9. ASSUME NEW k \in 1..n PROVE insts[k] = loads[k]
    BY <2>1, <2>2, <2>5, <2>8
  <2>10. ASSUME NEW k \in n + 1..n + m PROVE insts[k] = body[k - n]
    BY <2>1, <2>2, <2>6, <2>8
  <2>11. ASSUME NEW k \in n + m + 1..2 * n + m PROVE insts[k] = stores[k - n - m]
    BY <2>2, <2>7, <2>8
  <2> QED
    BY <2>8, <2>9, <2>10, <2>11, Zenon
<1> HIDE DEF insts
<1>6. tr.ninst = l /\ DOMAIN tr.code = Cells(MaxInst) /\ l \in Nat /\ l <= MaxInst
      /\ \A k \in Cells(l) : tr.code[k] = insts[k + 1]
  <2>1. l \in Nat /\ l <= MaxInst
    BY <1>4
  <2>2. /\ Generated(insts).ninst = l
        /\ Generated(insts).code = [k \in 0..MaxInst - 1 |-> IF k < l THEN insts[k + 1] ELSE Nop]
    <3> HIDE DEF l
    <3> QED
      BY <1>5, <2>1 DEF Generated
  <2> HIDE DEF l
  <2> QED
    BY <1>2, <2>1, <2>2 DEF Cells
<1>7. ASSUME NEW k \in Cells(l) PROVE InBounds(tr, tr.code[k])
  <2>0. k \in Nat /\ k < l /\ tr.code[k] = insts[k + 1]
    BY <1>6 DEF Cells
  <2>1. CASE k < n
    <3>1. k + 1 \in 1..n /\ (k + 1) - 1 = k /\ k \in 0..n - 1
      BY <2>0, <2>1
    <3>2. tr.code[k] = Load(k, perm[k])
      BY <1>5, <2>0, <3>1
    <3>3. perm[k] \in 0..n - 1
      BY <3>1
    <3> QED
      BY <2>0, <3>2, <3>3 DEF InBounds, Load, Inst
  <2>2. CASE k >= n /\ k < n + m
    <3>1. k + 1 \in n + 1..n + m /\ (k + 1) - n \in 1..m
      BY <1>4, <2>0, <2>2
    <3>2. tr.code[k] \in Stages
      <4>1. tr.code[k] = body[(k + 1) - n]
        BY <1>5, <2>0, <3>1
      <4> HIDE DEF l
      <4> QED
        BY <3>1, <4>1
    <3> QED
      BY <3>2 DEF InBounds, StageLike
  <2>3. CASE k >= n + m /\ k < 2 * n + m
    <3>1. k + 1 \in n + m + 1..2 * n + m /\ (k + 1) - n - m \in 1..n
          /\ ((k + 1) - n - m) - 1 \in 0..n - 1
      <4> HIDE DEF l, m
      <4> QED
        BY <1>4, <2>0, <2>3
    <3>2. tr.code[k] = Store(((k + 1) - n - m) - 1, ((k + 1) - n - m) - 1)
      BY <1>5, <2>0, <3>1
    <3> QED
      BY <3>1, <3>2 DEF InBounds, Store, Inst
  <2>4. CASE k >= 2 * n + m
    <3>1. k + 1 = l
      <4>1. m \in Nat /\ l = 2 * n + m + 1
        BY <1>4
      <4>2. k \in Nat /\ k < l
        BY <2>0
      <4> HIDE DEF m, l
      <4> QED
        BY <2>4, <4>1, <4>2
    <3>2. tr.code[k] = End
      <4> HIDE DEF l
      <4> QED
        BY <1>5, <2>0, <3>1
    <3> QED
      BY <3>2 DEF InBounds, End, Inst
  <2> HIDE DEF l
  <2> QED
    BY <1>4, <2>0, <2>1, <2>2, <2>3, <2>4
<1>8. l - 1 \in Cells(l) /\ tr.code[l - 1].op = "END"
  <2>1. l - 1 \in Cells(l) /\ (l - 1) + 1 = l
    BY <1>6 DEF Cells
  <2>2. tr.code[l - 1] = End
    <3> HIDE DEF l
    <3> QED
      BY <1>5, <1>6, <2>1
  <2> QED
    BY <2>1, <2>2 DEF End, Inst
<1> HIDE DEF l
<1>9. IsFiniteSet(Cells(MaxInst)) /\ Cardinality(Cells(MaxInst)) = MaxInst
  <2>1. 0 \in Int /\ MaxInst - 1 \in Int
    OBVIOUS
  <2>2. /\ IsFiniteSet(0..MaxInst - 1)
        /\ Cardinality(0..MaxInst - 1) = IF 0 > MaxInst - 1 THEN 0 ELSE (MaxInst - 1) - 0 + 1
    BY <2>1, FS_Interval, Zenon
  <2> QED
    BY <2>2 DEF Cells
<1> QED
  BY <1>6, <1>7, <1>8, <1>9 DEF WellFormed

(* The stages of an FFT.                                                   *)
LEMMA FftStageLike ==
    ASSUME NEW n, NEW m \in Nat, NEW fac \in [1..m -> 2..7]
    PROVE  \E S : (\A i \in S : StageLike(i)) /\ FftStages(n, fac) \in Seq(S)
                  /\ Len(FftStages(n, fac)) = m
<1> DEFINE stages == FftStages(n, fac)
           S == {stages[k] : k \in 1..m}
           group(k) == Product(SubSeq(fac, 1, k))
<1>1. fac \in Seq(Nat) /\ Len(fac) = m
  OBVIOUS
<1>2. stages = [k \in 1..m |->
                   FftStage(group(k), IF fac[k] = 2 THEN 1 ELSE fac[k], n \div group(k))]
  BY <1>1 DEF FftStages
<1>3. ASSUME NEW k \in 1..m PROVE StageLike(stages[k])
  <2>1. SubSeq(fac, 1, k) \in [1..k -> Nat]
    <3>1. 1 \in 1..Len(fac) + 1 /\ k \in 1 - 1..Len(fac) /\ k - 1 + 1 = k
      BY <1>1
    <3>2. SubSeq(fac, 1, k) \in Seq(Nat) /\ Len(SubSeq(fac, 1, k)) = k
      BY <1>1, <3>1
    <3>3. \A u \in Seq(Nat) : u \in [1..Len(u) -> Nat]
      OBVIOUS
    <3> QED
      BY <3>2, <3>3
  <2>2. group(k) \in Nat
    <3>1. k \in Nat
      OBVIOUS
    <3>2. PICK g \in [0..k -> Nat] : g[k] = group(k)
      BY <2>1, <3>1, ProductChain
    <3> QED
      BY <3>2
  <2>3. stages[k] = FftStage(group(k), IF fac[k] = 2 THEN 1 ELSE fac[k], n \div group(k))
    BY <1>2
  <2>4. fac[k] \in Nat
    OBVIOUS
  <2> HIDE DEF group, stages
  <2> QED
    BY <2>2, <2>3, <2>4 DEF StageLike, FftStage, Inst
<1>4. stages \in Seq(S) /\ Len(stages) = m
  <2>1. DOMAIN stages = 1..m /\ stages \in [1..m -> S]
    BY <1>2
  <2> HIDE DEF stages
  <2> QED
    BY <2>1
<1>5. \A i \in S : StageLike(i)
  BY <1>3
<1> QED
  BY <1>4, <1>5

(* The levels of a DWT.                                                    *)
LEMMA LogSmall == ASSUME NEW n PROVE Log2(n) \in 0..30
<1>1. 1 \in Int /\ 30 \in Int /\ {k \in 1..30 : 2^k <= n} \subseteq 1..30
  OBVIOUS
<1>2. IsFiniteSet(1..30) /\ Cardinality(1..30) = IF 1 > 30 THEN 0 ELSE 30 - 1 + 1
  BY <1>1, FS_Interval, Zenon
<1>3. Log2(n) <= 30
  BY <1>1, <1>2, FS_Subset DEF Log2
<1> QED
  BY <1>3, LogNat

(* A sequence of k stage instructions.                                     *)
Staged(body, k) ==
    \E S : (\A i \in S : StageLike(i)) /\ body \in Seq(S) /\ Len(body) = k

LEMMA DwtStageLike ==
    ASSUME NEW fam \in Nat, NEW n \in Nat, NEW levels \in Nat, NEW back
    PROVE  Staged(DwtStages(fam, n, levels, back), DwtStageCount(n, levels))
<1> DEFINE m == DwtStageCount(n, levels)
           stages == DwtStages(fam, n, levels, back)
           S == {stages[k] : k \in 1..m}
           e(k) == IF back THEN m - k ELSE k - 1
<1>1. m \in 0..30
  BY LogSmall DEF DwtStageCount
<1>2. stages = [k \in 1..m |-> DwtStage(fam, n \div 2^e(k), back)]
  BY DEF DwtStages
<1> HIDE DEF m, stages
<1>3. ASSUME NEW k \in 1..m PROVE StageLike(stages[k])
  <2>1. m - k \in 0..30 /\ k - 1 \in 0..30
    BY <1>1
  <2>2. e(k) \in 0..30
    BY <2>1
  <2> HIDE DEF e
  <2>3. 2^e(k) \in Nat \ {0}
    BY <2>2, Powers
  <2>4. n \div 2^e(k) \in Nat
    <3> DEFINE d == 2^e(k)
    <3>1. d \in Nat \ {0}
      BY <2>3
    <3> HIDE DEF d
    <3>2. n \div d \in Nat
      BY <3>1
    <3> QED
      BY <3>2 DEF d
  <2>5. stages[k] = DwtStage(fam, n \div 2^e(k), back)
    BY <1>2
  <2> QED
    BY <2>4, <2>5 DEF StageLike, DwtStage, Inst
<1>4. stages \in Seq(S) /\ Len(stages) = m
  <2>1. DOMAIN stages = 1..m /\ stages \in [1..m -> S]
    BY <1>2
  <2>2. m \in Nat
    BY <1>1
  <2> QED
    BY <2>1, <2>2
<1>5. \A i \in S : StageLike(i)
  BY <1>3
<1> QED
  BY <1>4, <1>5 DEF m, stages, Staged

(* A length and a number of stages whose program fits, END included, in    *)
(* the code array and whose values fit in the register file.               *)
Fits(n, stages) == n \in 1..MaxFft /\ (2 * n) + stages + 1 <= MaxInst
SizeAssumption == MaxInst \in Nat /\ MaxFft \in Nat

(* The programs of the C API: an FFT of a length without a prime factor    *)
(* above seven, one of a power of two, a DWT of any length and depth.      *)
EmittedMixed(tr) == \E n \in Nat, back \in BOOLEAN :
    Is7Smooth(n) /\ Fits(n, Len(Factors(n))) /\ tr = GenFftMixed(n, back)
EmittedRadix2(tr) == \E e \in 0..30, back \in BOOLEAN :
    Fits(2^e, e) /\ tr = GenFftRadix2(2^e, back)
EmittedDwt(tr) == \E fam \in Nat, n \in Nat, levels \in Nat, back \in BOOLEAN :
    Fits(n, DwtStageCount(n, levels)) /\ tr = GenDwt(fam, n, levels, back)
Emitted(tr) == EmittedMixed(tr) \/ EmittedRadix2(tr) \/ EmittedDwt(tr)

LEMMA MixedFormed ==
    ASSUME SizeAssumption, NEW tr, EmittedMixed(tr)
    PROVE  WellFormed(tr)
<1>1. PICK n \in Nat, back \in BOOLEAN :
          Is7Smooth(n) /\ Fits(n, Len(Factors(n))) /\ tr = GenFftMixed(n, back)
  BY DEF EmittedMixed
<1> DEFINE fac == Factors(n)
           perm == DigitReversal(n, fac)
           body == FftStages(n, fac)
<1>2. Len(fac) \in Nat /\ fac \in [1..Len(fac) -> 2..7]
  BY FactorsSmall
<1>3. perm \in [0..n - 1 -> 0..n - 1]
  <2>1. Product(fac) = n
    BY <1>1 DEF Is7Smooth
  <2>2. \A k \in Int : DigitReverse(k, fac) \in 0..n - 1
    <3> HIDE DEF fac
    <3> QED
      BY <1>2, <2>1, DigitBound
  <2> HIDE DEF fac
  <2> QED
    BY <2>2 DEF DigitReversal
<1> HIDE DEF fac, perm
<1>4. PICK S : (\A i \in S : StageLike(i)) /\ body \in Seq(S) /\ Len(body) = Len(fac)
  BY <1>2, FftStageLike
<1>5. /\ tr.n = n /\ tr.code = Wrapped(perm, body).code
      /\ tr.ninst = Wrapped(perm, body).ninst
  BY <1>1 DEF GenFftMixed, Transform, fac, perm
<1>6. n >= 1 /\ n <= MaxFft /\ MaxFft \in Nat /\ MaxInst \in Nat
      /\ 2 * n + Len(body) + 1 <= MaxInst
  BY <1>1, <1>4 DEF Fits, SizeAssumption, fac
<1> HIDE DEF body
<1> QED
  BY <1>3, <1>4, <1>5, <1>6, WrappedFormed

LEMMA Radix2Formed ==
    ASSUME SizeAssumption, NEW tr, EmittedRadix2(tr)
    PROVE  WellFormed(tr)
<1>1. PICK e \in 0..30, back \in BOOLEAN : Fits(2^e, e) /\ tr = GenFftRadix2(2^e, back)
  BY DEF EmittedRadix2
<1> DEFINE n == 2^e
           fac == Repeat(2, e)
           perm == DigitReversal(n, fac)
           body == FftStages(n, fac)
<1>2. e \in Nat /\ fac \in [1..e -> 2..7] /\ Product(fac) = n /\ Log2(n) = e /\ n \in Nat
  <2>1. fac \in [1..e -> 2..7] /\ Product(fac) = n
    BY ProductOfTwos
  <2>2. Log2(n) = e
    BY LogOfPower
  <2>3. n \in Nat
    BY Powers
  <2>4. e \in Nat
    OBVIOUS
  <2> HIDE DEF n, fac
  <2> QED
    BY <2>1, <2>2, <2>3, <2>4
<1>3. ~(n > MaxFft)
  BY <1>1, <1>2 DEF Fits, SizeAssumption
<1>4. /\ tr.n = n /\ tr.code = Wrapped(perm, body).code
      /\ tr.ninst = Wrapped(perm, body).ninst
  BY <1>1, <1>2, <1>3 DEF GenFftRadix2, Transform
<1>5. n >= 1 /\ n <= MaxFft /\ MaxFft \in Nat /\ MaxInst \in Nat /\ 2 * n + e + 1 <= MaxInst
  BY <1>1, <1>2 DEF Fits, SizeAssumption
<1> HIDE DEF n, fac
<1>6. perm \in [0..n - 1 -> 0..n - 1]
  <2>1. \A k \in Int : DigitReverse(k, fac) \in 0..n - 1
    BY <1>2, DigitBound
  <2> QED
    BY <2>1 DEF DigitReversal
<1> HIDE DEF perm
<1>7. PICK S : (\A i \in S : StageLike(i)) /\ body \in Seq(S) /\ Len(body) = e
  BY <1>2, FftStageLike
<1> HIDE DEF body
<1> QED
  BY <1>2, <1>4, <1>5, <1>6, <1>7, WrappedFormed

LEMMA DwtFormed ==
    ASSUME SizeAssumption, NEW tr, EmittedDwt(tr)
    PROVE  WellFormed(tr)
<1>1. PICK fam \in Nat, n \in Nat, levels \in Nat, back \in BOOLEAN :
          Fits(n, DwtStageCount(n, levels)) /\ tr = GenDwt(fam, n, levels, back)
  BY DEF EmittedDwt
<1> DEFINE perm == [i \in 0..n - 1 |-> i]
           body == DwtStages(fam, n, levels, back)
<1>2. PICK S : /\ \A i \in S : StageLike(i)
               /\ body \in Seq(S) /\ Len(body) = DwtStageCount(n, levels)
  <2>1. Staged(body, DwtStageCount(n, levels))
    BY DwtStageLike
  <2> HIDE DEF body
  <2> QED
    BY <2>1 DEF Staged
<1>3. n >= 1 /\ n <= MaxFft /\ MaxFft \in Nat /\ MaxInst \in Nat
      /\ 2 * n + Len(body) + 1 <= MaxInst
  BY <1>1, <1>2 DEF Fits, SizeAssumption
<1>4. /\ tr.n = n /\ tr.code = Wrapped(perm, body).code
      /\ tr.ninst = Wrapped(perm, body).ninst
  BY <1>1, <1>3 DEF GenDwt, Transform
<1>5. perm \in [0..n - 1 -> 0..n - 1]
  OBVIOUS
<1> HIDE DEF perm, body
<1> QED
  BY <1>2, <1>3, <1>4, <1>5, WrappedFormed

-----------------------------------------------------------------------------
(* The executor.                                                           *)

LEMMA RunInvStep ==
    ASSUME LineAssumption, Modes \subseteq Interpreters, \A tr \in Transforms : WellFormed(tr),
           RunInv, [Next]_vars
    PROVE  RunInv'
<1>1. WellFormed(t)
  BY DEF RunInv
<1>2. CASE Exec
  <2>1. AnyHandler \/ Return
    BY <1>2 DEF Exec, AnyHandler
  <2> QED
    BY <1>1, <2>1, HandlersKeep, ReturnKeeps
<1>3. CASE \E m \in Modes, x \in Signals(t.n) : Call(m, x)
  BY <1>1, <1>3, CallKeeps
<1>4. CASE UNCHANGED vars
  <2>1. t' = t /\ mode' = mode /\ in' = in /\ out' = out /\ regs' = regs /\ ip' = ip
        /\ status' = status
    BY <1>4 DEF vars
  <2>2. NumRegs(t)' = NumRegs(t)
    BY <2>1 DEF NumRegs, MaxRegister
  <2> QED
    BY <2>1, <2>2 DEF RunInv
<1> QED
  BY <1>2, <1>3, <1>4 DEF Next

(* Whatever well-formed programs are called, by whichever interpreter, as  *)
(* often and with whatever signals: no call runs past END, and every       *)
(* register, input, output and twiddle that a handler uses after its own   *)
(* tests exists.  For "vm" this is the soundness of compute_max_registers: *)
(* the handlers test against MaxFft, not against what was allocated.       *)
THEOREM WellFormedSafe ==
    ASSUME LineAssumption, Modes \subseteq Interpreters, \A tr \in Transforms : WellFormed(tr)
    PROVE  Spec => []MemorySafe
<1>1. RunInv /\ [Next]_vars => RunInv'
  BY RunInvStep
<1>2. RunInv => MemorySafe
  <2>1. RunInv => WellFormed(t)
    BY DEF RunInv
  <2> QED
    BY <2>1, SafeHere
<1> QED
  BY <1>1, <1>2, RunInit, PTL DEF Spec

(* What the generators of the C API emit is well-formed as long as it fits *)
(* in the code array: the inputs that LOAD reads in digit-reversed order   *)
(* are inputs, and the END is there.                                       *)
THEOREM EmittedWellFormed ==
    ASSUME SizeAssumption, NEW tr, Emitted(tr)
    PROVE  WellFormed(tr)
BY MixedFormed, Radix2Formed, DwtFormed DEF Emitted

(* Every transform that the C API generates code for, of every length that *)
(* fits, executes inside its memory.                                       *)
THEOREM GeneratedSafe ==
    ASSUME LineAssumption, SizeAssumption, Modes \subseteq Interpreters,
           \A tr \in Transforms : Emitted(tr)
    PROVE  Spec => []MemorySafe
<1>1. \A tr \in Transforms : WellFormed(tr)
  BY EmittedWellFormed
<1> QED
  BY <1>1, WellFormedSafe
=============================================================================
