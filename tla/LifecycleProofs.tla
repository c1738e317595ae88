--------------------------- MODULE LifecycleProofs --------------------------
(***************************************************************************)
(* Who owns what while transforms are made, used and destroyed: proofs for *)
(* every set of requests, any number of handles and every refusal of       *)
(* memory.                                                                 *)
(*                                                                         *)
(* The first part looks at the constructors step by step: for every        *)
(* request, the steps fill only slots that destroy frees, no slot twice,   *)
(* work on the object under construction only when there is one, check all *)
(* that they rely on, and ask other constructors for lengths that those    *)
(* take.  The second is the invariant of the heap, the pointers and the    *)
(* constructors at work.                                                   *)
(***************************************************************************)
EXTENDS Dispatch, SequenceTheorems, TLAPS

-----------------------------------------------------------------------------
(* The steps of a constructor, looked at one by one.                       *)

Kind(r) == IF r.maker = "bank" THEN "bank" ELSE "transform"
IsRequest(r) ==
    /\ r.maker \in Makers \cup {"bank"}
    /\ r = Request(r.maker, r.n, r.prec, r.dir, r.layout, r.flags)

(* The slots a step may fill: a transform that becomes the object under    *)
(* construction comes with what it has.                                    *)
Inherited == IF WindowsApart THEN Freed("transform") \ {"t1"} ELSE Freed("transform")
Fills(step) ==
    CASE step.op = "alloc"    -> {step.at}
      [] step.op = "make"     -> IF step.at = "self" THEN {"self"} \cup Inherited
                                ELSE {step.at}
      [] step.op = "new"      -> {"self"}
      [] step.op = "generate" -> {"code", "t0"}
      [] step.op = "measure"  -> {"t2"}
      [] step.op = "window"   -> {"t1"}
      [] OTHER -> {}
(* Those of which it is sure, unless memory is refused.                    *)
Surely(step) ==
    CASE step.op = "new"      -> {"self"}
      [] step.op = "make"     -> {step.at}
      [] step.op = "alloc"    -> {step.at}
      [] step.op = "generate" -> {"code"}
      [] OTHER -> {}
Ops == {"new", "alloc", "generate", "check", "make", "test", "reject", "use",
        "measure", "window"}
(* Those that work on the object under construction.                       *)
NeedsSelf(step) == step.op \in {"alloc", "generate", "check", "use", "measure", "window"}

(* A size that a caller asked for, or one without inner transforms.        *)
Sized(r) == \/ \E q \in Requests : q.n = r.n
            \/ r.maker = "fft" /\ Direct(r.n, r.flags)
(* What constructors ask of others.                                        *)
Derives(q, r) ==
    \/ q.maker = "bank" /\ q.n = r.n
    \/ q.maker = "rfft" /\ q.n = r.n /\ q.flags = {}
    \/ /\ q.maker = "fft" /\ q.layout = "split" /\ "bluestein" \notin q.flags
       /\ \/ q.n = r.n - 1 /\ r.n >= 11
          \/ q.n = r.n \div 2
          \/ q.n = BluesteinLength(r.n) /\ r.maker = "fft" /\ "bluestein" \in r.flags
    \/ /\ r.maker = "stft" /\ q.maker = "fft" /\ q.n = r.n /\ q.prec = r.prec
       /\ q.layout = r.layout /\ q.flags = r.flags
StepFits(step, r) ==
    /\ step.op \in Ops
    /\ Fills(step) \subseteq Freed(Kind(r)) \cup {"self"}
    /\ step.op = "new" => step.kind = Kind(r) /\ (step.tells \/ r.maker = "pipeline")
    /\ step.op = "check" => "self" \notin step.ats /\ (step.tells \/ r.maker = "pipeline")
    /\ step.op = "alloc" => step.at # "self"
    /\ step.op = "window" => r.maker = "stft"
    /\ step.op = "make" =>
           /\ IsRequest(step.req) /\ step.req.maker \in {"fft", "rfft", "bank"}
           /\ Derives(step.req, r)
           /\ SizesAgree /\ Sized(r) => Accepts(step.req) /\ Sized(step.req)
           /\ step.at = "self" => /\ r.maker = "stft" /\ step.req.maker = "fft"
                                  /\ step.req.n = r.n /\ step.req.flags = r.flags

(* A beginning of the steps for r: it fills only slots of A, each once,    *)
(* secures those of C, works on no object before there is one, and checks  *)
(* only what has been allocated.                                           *)
Secures(s, C) == \A at \in C : \E j \in 1..Len(s) : at \in Surely(s[j])
Orderly(s, i, r) ==
    /\ StepFits(s[i], r)
    /\ NeedsSelf(s[i]) => \E j \in 1..i - 1 : "self" \in Surely(s[j])
    /\ s[i].op = "check" => \A at \in s[i].ats : \E j \in 1..i - 1 : at \in Surely(s[j])
    /\ s[i].op # "window" \/ WindowsApart => \A j \in 1..i - 1 : Fills(s[i]) \cap Fills(s[j]) = {}
Stretch(s, r, A, C) ==
    /\ \E S : s \in Seq(S)
    /\ \A i \in 1..Len(s) : Orderly(s, i, r) /\ Fills(s[i]) \subseteq A
    /\ Secures(s, C)

-----------------------------------------------------------------------------
(* What each kind of step fills and secures.                               *)
LEMMA StepKinds ==
    /\ \A k : /\ New(k).op = "new" /\ New(k).kind = k /\ New(k).tells
              /\ NewQuiet(k).op = "new" /\ NewQuiet(k).kind = k
    /\ \A at, b : Alloc(at, b).op = "alloc" /\ Alloc(at, b).at = at
    /\ \A b : Generate(b).op = "generate" /\ Measure(b).op = "measure"
              /\ WindowTable(b).op = "window"
    /\ \A a : /\ Check(a).op = "check" /\ Check(a).ats = a /\ Check(a).tells
              /\ CheckQuiet(a).op = "check" /\ CheckQuiet(a).ats = a
    /\ \A at, q : Make(at, q).op = "make" /\ Make(at, q).at = at /\ Make(at, q).req = q
    /\ Test.op = "test" /\ Reject.op = "reject" /\ \A fn : Use(fn).op = "use"
  BY DEF New, NewQuiet, Alloc, Generate, Measure, WindowTable, Check, CheckQuiet, Make,
         Test, Reject, Use

LEMMA FillsOf ==
    /\ \A k : /\ Fills(New(k)) = {"self"} /\ Surely(New(k)) = {"self"}
              /\ Fills(NewQuiet(k)) = {"self"} /\ Surely(NewQuiet(k)) = {"self"}
    /\ \A at, b : Fills(Alloc(at, b)) = {at} /\ Surely(Alloc(at, b)) = {at}
    /\ \A b : /\ Fills(Generate(b)) = {"code", "t0"} /\ Surely(Generate(b)) = {"code"}
              /\ Fills(Measure(b)) = {"t2"} /\ Fills(WindowTable(b)) = {"t1"}
    /\ \A a : Fills(Check(a)) = {} /\ Fills(CheckQuiet(a)) = {}
    /\ \A at, q : /\ Surely(Make(at, q)) = {at}
                  /\ at = "self" => Fills(Make(at, q)) = {"self"} \cup Inherited
                  /\ at # "self" => Fills(Make(at, q)) = {at}
    /\ Fills(Test) = {} /\ Fills(Reject) = {} /\ \A fn : Fills(Use(fn)) = {}
  <1>1. \A x : x.op = "make" => Surely(x) = {x.at}
    BY DEF Surely
  <1>6. \A x : x.op = "make" /\ x.at = "self" => Fills(x) = {"self"} \cup Inherited
    BY DEF Fills
  <1>7. \A x : x.op = "make" /\ x.at # "self" => Fills(x) = {x.at}
    BY DEF Fills
  <1>8. \A x : /\ x.op = "new" => (Fills(x) = {"self"} /\ Surely(x) = {"self"})
               /\ x.op = "alloc" => (Fills(x) = {x.at} /\ Surely(x) = {x.at})
               /\ x.op = "generate" => (Fills(x) = {"code", "t0"} /\ Surely(x) = {"code"})
               /\ x.op = "measure" => Fills(x) = {"t2"}
               /\ x.op = "window" => Fills(x) = {"t1"}
               /\ x.op \in {"check", "test", "reject", "use"} => Fills(x) = {}
    BY DEF Fills, Surely
  <1>2. /\ \A k : /\ Fills(New(k)) = {"self"} /\ Surely(New(k)) = {"self"}
                  /\ Fills(NewQuiet(k)) = {"self"} /\ Surely(NewQuiet(k)) = {"self"}
        /\ \A at, b : Fills(Alloc(at, b)) = {at} /\ Surely(Alloc(at, b)) = {at}
    BY <1>8, StepKinds
  <1>3. \A b : /\ Fills(Generate(b)) = {"code", "t0"} /\ Surely(Generate(b)) = {"code"}
               /\ Fills(Measure(b)) = {"t2"} /\ Fills(WindowTable(b)) = {"t1"}
    BY <1>8, StepKinds
  <1>4. \A at, q : /\ Surely(Make(at, q)) = {at}
                   /\ at = "self" => Fills(Make(at, q)) = {"self"} \cup Inherited
                   /\ at # "self" => Fills(Make(at, q)) = {at}
    BY <1>1, <1>6, <1>7, StepKinds
  <1>5. /\ \A a : Fills(Check(a)) = {} /\ Fills(CheckQuiet(a)) = {}
        /\ Fills(Test) = {} /\ Fills(Reject) = {} /\ \A fn : Fills(Use(fn)) = {}
    BY <1>8, StepKinds
  <1> QED
    BY <1>2, <1>3, <1>4, <1>5

(* No object has a slot called self.                                       *)
LEMMA NoSelfSlot == \A k : "self" \notin Freed(k)
  BY DEF Freed

LEMMA FreedBy ==
    ASSUME NEW r
    PROVE  /\ r.maker = "bank" =>
                  Freed(Kind(r)) = {"scales", "freqs_hz", "Psi", "Psi_l2", "A", "Psi_dual",
                                    "Psi_dual_f32", "xi", "X_re", "X_im", "Y_re", "Y_im",
                                    "rfft", "irfft"}
           /\ r.maker # "bank" =>
                  Freed(Kind(r)) = {"bank", "inner", "inner_inv", "code", "scratch",
                                    "t0", "t1", "t2", "t3"}
  BY DEF Freed, Kind

-----------------------------------------------------------------------------
(* Stretches grow by a step at a time.                                     *)
LEMMA NoSteps == \A r : Stretch(<<>>, r, {}, {})
  BY DEF Stretch, Secures

LEMMA Weaker ==
    ASSUME NEW s, NEW r, NEW A, NEW B, NEW C, NEW D,
           Stretch(s, r, A, C), A \subseteq B, D \subseteq C
    PROVE  Stretch(s, r, B, D)
  BY DEF Stretch, Secures

LEMMA AddStep ==
    ASSUME NEW s, NEW x, NEW r, NEW A, NEW C,
           Stretch(s, r, A, C), StepFits(x, r), NeedsSelf(x) => "self" \in C,
           x.op = "check" => x.ats \subseteq C,
           x.op # "window" \/ WindowsApart => Fills(x) \cap A = {},
           NEW B, NEW D,
           A \cup Fills(x) \subseteq B, D \subseteq C \cup Surely(x)
    PROVE  Stretch(s \o <<x>>, r, B, D)
  <1> DEFINE u == s \o <<x>>
             n == Len(s)
  <1>1. PICK S : s \in Seq(S)
    BY DEF Stretch
  <1>2. /\ u \in Seq(S \cup {x}) /\ n \in Nat /\ Len(u) = n + 1 /\ u[n + 1] = x
        /\ \A i \in 1..n : u[i] = s[i]
    BY <1>1
  <1>3. /\ \A i \in 1..n : Orderly(s, i, r) /\ Fills(s[i]) \subseteq A
        /\ Secures(s, C)
    BY DEF Stretch
  <1> HIDE DEF u, n
  <1>4. \A i \in 1..n : 1..i - 1 \subseteq 1..n
    BY <1>2
  <1>5. ASSUME NEW i \in 1..n PROVE Orderly(u, i, r) /\ Fills(u[i]) \subseteq A
    <2>1. u[i] = s[i] /\ \A j \in 1..i - 1 : u[j] = s[j]
      BY <1>2, <1>4
    <2>2. Orderly(s, i, r) /\ Fills(s[i]) \subseteq A
      BY <1>3
    <2> QED
      BY <2>1, <2>2 DEF Orderly
  <1>6. Orderly(u, n + 1, r)
    <2>1. 1..n + 1 - 1 = 1..n
      BY <1>2
    <2>2. NeedsSelf(x) => \E j \in 1..n : "self" \in Surely(u[j])
      BY <1>2, <1>3 DEF Secures, n
    <2>3. x.op = "check" => \A at \in x.ats : \E j \in 1..n : at \in Surely(u[j])
      BY <1>2, <1>3 DEF Secures, n
    <2>4. x.op # "window" \/ WindowsApart => \A j \in 1..n : Fills(x) \cap Fills(u[j]) = {}
      BY <1>2, <1>3
    <2> QED
      BY <1>2, <2>1, <2>2, <2>3, <2>4 DEF Orderly
  <1>7. 1..Len(u) = 1..n \cup {n + 1}
    BY <1>2
  <1>8. \A i \in 1..Len(u) : Orderly(u, i, r) /\ Fills(u[i]) \subseteq B
    BY <1>2, <1>5, <1>6, <1>7
  <1>9. Secures(u, D)
    BY <1>2, <1>3, <1>7 DEF Secures, n
  <1>11. \E T : u \in Seq(T)
    BY <1>2
  <1> QED
    BY <1>8, <1>9, <1>11 DEF Stretch, u

(* An allocation and its check.                                            *)
LEMMA AddNeed ==
    ASSUME NEW s, NEW r, NEW A, NEW C, NEW at \in Freed(Kind(r)), NEW b,
           Stretch(s, r, A, C), "self" \in C, at \notin A
    PROVE  Stretch(s \o Need(at, b), r, A \cup {at}, C \cup {at})
  <1> DEFINE x == Alloc(at, b)
             y == Check({at})
  <1>1. /\ x.op = "alloc" /\ x.at = at /\ Fills(x) = {at} /\ Surely(x) = {at}
        /\ y.op = "check" /\ y.ats = {at} /\ y.tells /\ Fills(y) = {}
    BY StepKinds, FillsOf
  <1>2. StepFits(x, r) /\ StepFits(y, r)
    BY <1>1, NoSelfSlot DEF StepFits, Ops
  <1>3. Need(at, b) = <<x>> \o <<y>>
    BY DEF Need
  <1>4. PICK S : s \in Seq(S)
    BY DEF Stretch
  <1> HIDE DEF x, y
  <1>5. s \o Need(at, b) = (s \o <<x>>) \o <<y>>
    <2>1. s \in Seq(S \cup {x, y}) /\ <<x>> \in Seq(S \cup {x, y}) /\ <<y>> \in Seq(S \cup {x, y})
      BY <1>4
    <2> QED
      BY <2>1, <1>3, ConcatAssociative
  <1>6. Stretch(s \o <<x>>, r, A \cup {at}, C \cup {at})
    BY <1>1, <1>2, AddStep
  <1>7. Stretch((s \o <<x>>) \o <<y>>, r, A \cup {at}, C \cup {at})
    BY <1>1, <1>2, <1>6, AddStep
  <1> QED
    BY <1>5, <1>7

LEMMA AddIf ==
    ASSUME NEW s, NEW t, NEW c \in BOOLEAN, NEW r, NEW A, NEW B, NEW C,
           Stretch(s, r, A, C), A \subseteq B,
           c => Stretch(s \o t, r, B, C)
    PROVE  Stretch(s \o If(c, t), r, B, C)
  <1>1. CASE c
    BY <1>1 DEF If
  <1>2. CASE ~c
    <2>1. PICK S : s \in Seq(S)
      BY DEF Stretch
    <2>2. s \o <<>> = s
      BY <2>1
    <2> QED
      BY <1>2, <2>2, Weaker DEF If
  <1> QED
    BY <1>1, <1>2

-----------------------------------------------------------------------------
(* Each step of a constructor fits it.                                     *)
LEMMA StepsFit ==
    ASSUME NEW r
    PROVE  /\ StepFits(New(Kind(r)), r)
           /\ r.maker = "pipeline" => StepFits(NewQuiet(Kind(r)), r)
           /\ \A at \in Freed(Kind(r)) : \A b : StepFits(Alloc(at, b), r)
           /\ r.maker # "bank" => \A b : StepFits(Generate(b), r) /\ StepFits(Measure(b), r)
           /\ r.maker = "stft" => \A b : StepFits(WindowTable(b), r)
           /\ \A a : "self" \notin a => StepFits(Check(a), r)
           /\ r.maker = "pipeline" => \A a : "self" \notin a => StepFits(CheckQuiet(a), r)
           /\ StepFits(Test, r) /\ StepFits(Reject, r) /\ \A fn : StepFits(Use(fn), r)
  <1>1. StepFits(New(Kind(r)), r) /\ (r.maker = "pipeline" => StepFits(NewQuiet(Kind(r)), r))
    BY StepKinds, FillsOf DEF StepFits, Ops
  <1>2. \A at \in Freed(Kind(r)) : \A b : StepFits(Alloc(at, b), r)
    BY StepKinds, FillsOf, NoSelfSlot DEF StepFits, Ops
  <1>3. r.maker # "bank" => \A b : StepFits(Generate(b), r) /\ StepFits(Measure(b), r)
    BY StepKinds, FillsOf, FreedBy DEF StepFits, Ops
  <1>4. r.maker = "stft" => \A b : StepFits(WindowTable(b), r)
    BY StepKinds, FillsOf, FreedBy DEF StepFits, Ops
  <1>5. /\ \A a : "self" \notin a => StepFits(Check(a), r)
        /\ r.maker = "pipeline" => \A a : "self" \notin a => StepFits(CheckQuiet(a), r)
    BY StepKinds, FillsOf DEF StepFits, Ops
  <1>6. StepFits(Test, r) /\ StepFits(Reject, r) /\ \A fn : StepFits(Use(fn), r)
    BY StepKinds, FillsOf DEF StepFits, Ops
  <1> QED
    BY <1>1, <1>2, <1>3, <1>4, <1>5, <1>6

LEMMA MakeFits ==
    ASSUME NEW r, NEW at \in Freed(Kind(r)), NEW q,
           IsRequest(q), q.maker \in {"fft", "rfft", "bank"}, Derives(q, r),
           SizesAgree /\ Sized(r) => Accepts(q) /\ Sized(q)
    PROVE  StepFits(Make(at, q), r)
  BY StepKinds, FillsOf, NoSelfSlot DEF StepFits, Ops

LEMMA Paths ==
    ASSUME NEW n, NEW flags
    PROVE  /\ Direct(n, flags) => FftPath(n, flags) \in {"codelet", "splitradix", "radix2", "mixed"}
           /\ ~Direct(n, flags) =>
                  \/ FftPath(n, flags) = "rader" /\ RaderEligible(n)
                  \/ FftPath(n, flags) \in {"bluestein", "none"}
           /\ FftPath(n, flags) = "bluestein" => "bluestein" \in flags
  <1>1. CASE Direct(n, flags)
    <2>1. CASE n \in CodeletSizes
      BY <1>1, <2>1 DEF FftPath
    <2>2. CASE n \notin CodeletSizes /\ IsPow2(n) /\ n >= 16
      BY <1>1, <2>2 DEF FftPath
    <2>3. CASE n \notin CodeletSizes /\ IsPow2(n) /\ ~(n >= 16)
      BY <1>1, <2>3 DEF FftPath
    <2>4. CASE n \notin CodeletSizes /\ ~IsPow2(n)
      BY <1>1, <2>4 DEF FftPath
    <2> QED
      BY <2>1, <2>2, <2>3, <2>4
  <1>2. CASE ~Direct(n, flags)
    BY <1>2 DEF FftPath
  <1> QED
    BY <1>1, <1>2

(* Requests that constructors derive from their own.                       *)
Same(q, maker, n, prec, dir, layout, flags) ==
    /\ q.maker = maker /\ q.n = n /\ q.prec = prec /\ q.dir = dir /\ q.layout = layout
    /\ q.flags = flags /\ q = Request(maker, n, prec, dir, layout, flags)
LEMMA Derived ==
    ASSUME NEW r, IsRequest(r), NEW q
    PROVE  /\ \A m : q = [r EXCEPT !.maker = m]
                      => Same(q, m, r.n, r.prec, r.dir, r.layout, r.flags)
           /\ \A m, d : q = [r EXCEPT !.maker = m, !.dir = d]
                         => Same(q, m, r.n, r.prec, d, r.layout, r.flags)
           /\ \A d : q = [r EXCEPT !.dir = d]
                      => Same(q, r.maker, r.n, r.prec, d, r.layout, r.flags)
           /\ \A l : q = [r EXCEPT !.layout = l]
                      => Same(q, r.maker, r.n, r.prec, r.dir, l, r.flags)
           /\ \A l, p : q = [r EXCEPT !.layout = l, !.prec = p]
                         => Same(q, r.maker, r.n, p, r.dir, l, r.flags)
  <1>1. \E a, b, c, d, e, f : r = Request(a, b, c, d, e, f)
    BY DEF IsRequest
  <1>2. PICK a, b, c, d, e, f : r = Request(a, b, c, d, e, f)
    BY <1>1
  <1>3. r = [maker |-> a, n |-> b, prec |-> c, dir |-> d, layout |-> e, flags |-> f]
    BY <1>2 DEF Request
  <1>4. ASSUME NEW m, q = [r EXCEPT !.maker = m]
        PROVE  Same(q, m, r.n, r.prec, r.dir, r.layout, r.flags)
    BY <1>3, <1>4 DEF Same, Request
  <1>5. ASSUME NEW m, NEW k, q = [r EXCEPT !.maker = m, !.dir = k]
        PROVE  Same(q, m, r.n, r.prec, k, r.layout, r.flags)
    BY <1>3, <1>5 DEF Same, Request
  <1>6. ASSUME NEW k, q = [r EXCEPT !.dir = k]
        PROVE  Same(q, r.maker, r.n, r.prec, k, r.layout, r.flags)
    BY <1>3, <1>6 DEF Same, Request
  <1>7. ASSUME NEW l, q = [r EXCEPT !.layout = l]
        PROVE  Same(q, r.maker, r.n, r.prec, r.dir, l, r.flags)
    BY <1>3, <1>7 DEF Same, Request
  <1>8. ASSUME NEW l, NEW p, q = [r EXCEPT !.layout = l, !.prec = p]
        PROVE  Same(q, r.maker, r.n, p, r.dir, l, r.flags)
    BY <1>3, <1>8 DEF Same, Request
  <1> QED
    BY <1>4, <1>5, <1>6, <1>7, <1>8

LEMMA InnerRequest ==
    ASSUME NEW r, NEW n, NEW dir, NEW flags
    PROVE  /\ IsRequest(Inner(r, n, dir, flags)) /\ Inner(r, n, dir, flags).maker = "fft"
           /\ Inner(r, n, dir, flags).n = n /\ Inner(r, n, dir, flags).flags = flags
           /\ Inner(r, n, dir, flags).layout = "split"
           /\ Direct(n, flags) => Accepts(Inner(r, n, dir, flags)) /\ Sized(Inner(r, n, dir, flags))
  <1> DEFINE q == Inner(r, n, dir, flags)
  <1>1. q = Request("fft", n, r.prec, dir, "split", flags)
    BY DEF Inner
  <1>2. /\ q.maker = "fft" /\ q.n = n /\ q.flags = flags /\ q.layout = "split"
        /\ q.prec = r.prec /\ q.dir = dir
    BY <1>1 DEF Request
  <1>3. Direct(n, flags) => FftPath(n, flags) # "none"
    BY Paths
  <1> HIDE DEF q
  <1>4. Direct(n, flags) => Accepts(q) /\ Sized(q)
    BY <1>2, <1>3 DEF Accepts, Sized
  <1>5. IsRequest(q)
    BY <1>1, <1>2 DEF IsRequest, Makers
  <1> QED
    BY <1>2, <1>4, <1>5 DEF q

(* One step of each kind after the others.                                 *)
LEMMA AddAlloc ==
    ASSUME NEW s, NEW r, NEW A, NEW C, NEW at \in Freed(Kind(r)), NEW b,
           Stretch(s, r, A, C), "self" \in C, at \notin A
    PROVE  Stretch(s \o <<Alloc(at, b)>>, r, A \cup {at}, C \cup {at})
  <1> DEFINE x == Alloc(at, b)
  <1>1. x.op = "alloc" /\ Fills(x) = {at} /\ Surely(x) = {at} /\ StepFits(x, r)
    BY StepKinds, FillsOf, StepsFit
  <1> HIDE DEF x
  <1>2. Stretch(s \o <<x>>, r, A \cup {at}, C \cup {at})
    BY <1>1, AddStep
  <1> QED
    BY <1>2 DEF x

LEMMA AddMake ==
    ASSUME NEW s, NEW r, NEW A, NEW C, NEW at \in Freed(Kind(r)), NEW q,
           Stretch(s, r, A, C), at \notin A,
           IsRequest(q), q.maker \in {"fft", "rfft", "bank"}, Derives(q, r),
           SizesAgree /\ Sized(r) => Accepts(q) /\ Sized(q)
    PROVE  Stretch(s \o <<Make(at, q)>>, r, A \cup {at}, C \cup {at})
  <1> DEFINE x == Make(at, q)
  <1>1. x.op = "make" /\ Fills(x) = {at} /\ Surely(x) = {at}
    BY StepKinds, FillsOf, NoSelfSlot
  <1>2. StepFits(x, r)
    BY MakeFits
  <1>3. ~NeedsSelf(x) /\ x.op # "check"
    BY <1>1 DEF NeedsSelf
  <1> HIDE DEF x
  <1>4. Stretch(s \o <<x>>, r, A \cup {at}, C \cup {at})
    BY <1>1, <1>2, <1>3, AddStep
  <1> QED
    BY <1>4 DEF x

LEMMA AddCheck ==
    ASSUME NEW s, NEW r, NEW A, NEW C, NEW a,
           Stretch(s, r, A, C), "self" \in C, a \subseteq C, "self" \notin a
    PROVE  Stretch(s \o <<Check(a)>>, r, A, C)
  <1> DEFINE x == Check(a)
  <1>1. x.op = "check" /\ x.ats = a /\ Fills(x) = {} /\ StepFits(x, r)
    BY StepKinds, FillsOf, StepsFit
  <1> HIDE DEF x
  <1>2. Stretch(s \o <<x>>, r, A, C)
    BY <1>1, AddStep
  <1> QED
    BY <1>2 DEF x

LEMMA AddOther ==
    ASSUME NEW s, NEW r, NEW A, NEW C, NEW x,
           Stretch(s, r, A, C), StepFits(x, r), x.op \in {"use", "test", "reject"},
           x.op = "use" => "self" \in C
    PROVE  Stretch(s \o <<x>>, r, A, C)
  <1>1. Fills(x) = {}
    BY DEF Fills
  <1>2. NeedsSelf(x) => "self" \in C
    BY DEF NeedsSelf
  <1> QED
    BY <1>1, <1>2, AddStep

(* A literal sequence is appended step by step.                            *)
LEMMA OneByOne ==
    ASSUME NEW s, \E S : s \in Seq(S), NEW t, \E S : t \in Seq(S), NEW x
    PROVE  s \o (t \o <<x>>) = (s \o t) \o <<x>> /\ \E S : t \o <<x>> \in Seq(S)
  <1>1. PICK R : s \in Seq(R)
    OBVIOUS
  <1>2. PICK T : t \in Seq(T)
    OBVIOUS
  <1>3. /\ s \in Seq(R \cup T \cup {x}) /\ t \in Seq(R \cup T \cup {x})
        /\ <<x>> \in Seq(R \cup T \cup {x})
    BY <1>1, <1>2
  <1>4. t \o <<x>> \in Seq(R \cup T \cup {x})
    BY <1>3
  <1> QED
    BY <1>3, <1>4, ConcatAssociative

LEMMA Pairs == \A a, b : <<a>> \o <<b>> = <<a, b>>
  <1> SUFFICES ASSUME NEW a, NEW b PROVE <<a>> \o <<b>> = <<a, b>>
    OBVIOUS
  <1> DEFINE u == <<a>>
             v == <<b>>
  <1>1. /\ u \in Seq({a, b}) /\ Len(u) = 1 /\ u[1] = a
        /\ v \in Seq({a, b}) /\ Len(v) = 1 /\ v[1] = b
    OBVIOUS
  <1> HIDE DEF u, v
  <1>2. u \o v \in Seq({a, b}) /\ Len(u \o v) = 2 /\ (u \o v)[1] = a /\ (u \o v)[2] = b
    BY <1>1, ConcatProperties
  <1>3. <<a, b>> = u \o v
    BY <1>2
  <1>4. u \o v = <<a, b>>
    BY <1>3, Zenon
  <1> QED
    BY <1>4 DEF u, v

LEMMA Third == \A a, b, c : <<a, b>> \o <<c>> = <<a, b, c>>
  <1>1. \A a, b, c : <<a, b, c>> = <<a, b>> \o <<c>>
    OBVIOUS
  <1> QED
    BY <1>1, Zenon

LEMMA Fourth == \A a, b, c, d : <<a, b, c>> \o <<d>> = <<a, b, c, d>>
  <1>1. \A a, b, c, d : <<a, b, c, d>> = <<a, b, c>> \o <<d>>
    OBVIOUS
  <1> QED
    BY <1>1, Zenon

LEMMA Fifth == \A a, b, c, d, e : <<a, b, c, d>> \o <<e>> = <<a, b, c, d, e>>
  <1> TAKE a, b, c, d, e
  <1> DEFINE u == <<a, b, c, d>> \o <<e>>
             v == <<a, b, c, d, e>>
  <1>1. v = u
    OBVIOUS
  <1> HIDE DEF u, v
  <1>2. u = v
    BY <1>1
  <1> QED
    BY <1>2 DEF u, v

LEMMA Sixth == \A a, b, c, d, e, f : <<a, b, c, d, e>> \o <<f>> = <<a, b, c, d, e, f>>
  <1> TAKE a, b, c, d, e, f
  <1> DEFINE u == <<a, b, c, d, e>> \o <<f>>
             v == <<a, b, c, d, e, f>>
  <1>1. v = u
    OBVIOUS
  <1> HIDE DEF u, v
  <1>2. u = v
    BY <1>1
  <1> QED
    BY <1>2 DEF u, v

LEMMA Seventh ==
    \A a, b, c, d, e, f, g :
        <<a, b, c, d, e, f>> \o <<g>> = <<a, b, c, d, e, f, g>>
  <1> TAKE a, b, c, d, e, f, g
  <1> DEFINE u == <<a, b, c, d, e, f>> \o <<g>>
             v == <<a, b, c, d, e, f, g>>
  <1>1. v = u
    OBVIOUS
  <1> HIDE DEF u, v
  <1>2. u = v
    BY <1>1
  <1> QED
    BY <1>2 DEF u, v

LEMMA Triples == \A a, b, c : (<<a>> \o <<b>>) \o <<c>> = <<a, b, c>>
  <1> TAKE a, b, c
  <1> DEFINE u == <<a>> \o <<b>>
  <1>1. u = <<a, b>>
    BY Pairs, Zenon
  <1> HIDE DEF u
  <1>2. u \o <<c>> = <<a, b, c>>
    BY <1>1, Third, Zenon
  <1> QED
    BY <1>2, Zenon DEF u

LEMMA ThreeMore ==
    ASSUME NEW s, \E S : s \in Seq(S), NEW a, NEW b, NEW c
    PROVE  /\ s \o <<a, b, c>> = ((s \o <<a>>) \o <<b>>) \o <<c>>
           /\ \E S : <<a, b, c>> \in Seq(S)
  <1> DEFINE t1 == <<a>>
             t2 == t1 \o <<b>>
             t3 == t2 \o <<c>>
  <1>1. t3 = <<a, b, c>>
    BY Triples, Zenon
  <1>2. \E S : t1 \in Seq(S)
    <2>1. t1 \in Seq({a})
      OBVIOUS
    <2> QED
      BY <2>1
  <1> HIDE DEF t1
  <1>3. s \o t2 = (s \o t1) \o <<b>> /\ \E S : t2 \in Seq(S)
    BY <1>2, OneByOne
  <1> HIDE DEF t2
  <1>4. s \o t3 = (s \o t2) \o <<c>> /\ \E S : t3 \in Seq(S)
    BY <1>3, OneByOne
  <1> QED
    BY <1>1, <1>3, <1>4 DEF t1

LEMMA IsList == \A s, r, A, C : Stretch(s, r, A, C) => \E S : s \in Seq(S)
  BY DEF Stretch

-----------------------------------------------------------------------------
(* The constructors, one by one.                                           *)
LEMMA NewFits ==
    ASSUME NEW r
    PROVE  Stretch(<<New(Kind(r))>>, r, {"self"}, {"self"})
  <1> DEFINE x == New(Kind(r))
  <1>1. StepFits(x, r) /\ Fills(x) = {"self"} /\ Surely(x) = {"self"} /\ x.op = "new"
    BY StepsFit, FillsOf, StepKinds
  <1>2. ~NeedsSelf(x) /\ x.op # "check"
    BY <1>1 DEF NeedsSelf
  <1> HIDE DEF x
  <1> DEFINE e == <<>>
  <1>3. Stretch(e, r, {}, {})
    BY NoSteps
  <1>4. e \o <<x>> = <<x>>
    OBVIOUS
  <1> HIDE DEF e
  <1>5. Stretch(e \o <<x>>, r, {"self"}, {"self"})
    BY <1>1, <1>2, <1>3, AddStep
  <1> QED
    BY <1>4, <1>5 DEF x

LEMMA CodeletFits ==
    ASSUME NEW r, Kind(r) = "transform"
    PROVE  Stretch(CodeletSteps(r), r, {"self", "scratch"}, {"self"})
  <1> DEFINE x == New("transform")
             y == Use("codelet")
             b == Align64(4 * r.n * Elem(r))
  <1>1. Stretch(<<x>>, r, {"self"}, {"self"})
    BY NewFits
  <1>2. StepFits(y, r) /\ Fills(y) = {} /\ y.op = "use"
    BY StepsFit, FillsOf, StepKinds
  <1> HIDE DEF x, y, b
  <1>3. Stretch(<<x>> \o <<y>>, r, {"self"}, {"self"})
    BY <1>1, <1>2, AddStep
  <1>4. "scratch" \in Freed(Kind(r))
    BY DEF Freed
  <1>5. Stretch((<<x>> \o <<y>>) \o Need("scratch", b), r, {"self", "scratch"}, {"self"})
    <2>1. Stretch((<<x>> \o <<y>>) \o Need("scratch", b), r,
                  {"self"} \cup {"scratch"}, {"self"} \cup {"scratch"})
      BY <1>3, <1>4, AddNeed
    <2> QED
      BY <2>1, Weaker
  <1>6. CodeletSteps(r) = (<<x>> \o <<y>>) \o Need("scratch", b)
    BY DEF CodeletSteps, x, y, b
  <1> QED
    BY <1>5, <1>6

LEMMA SplitRadixFits ==
    ASSUME NEW r, Kind(r) = "transform", r.maker # "bank"
    PROVE  Stretch(SplitRadixSteps(r), r, {"self", "t0", "t1", "t2", "scratch"}, {"self"})
  <1> DEFINE x == New("transform")
             y == Use("dif")
             z == Measure(Align64(2 * r.n * Elem(r)))
             a == Align64(SrTwiddleCount(r.n) * Elem(r))
             b == Align64(2 * r.n * Elem(r))
             c == Align64(4 * r.n * Elem(r))
             s1 == <<x>> \o Need("t0", a)
             s2 == s1 \o Need("t1", b)
             s3 == s2 \o <<y>>
             s4 == s3 \o Need("scratch", c)
  <1>1. Stretch(<<x>>, r, {"self"}, {"self"})
    BY NewFits
  <1>2. /\ StepFits(y, r) /\ Fills(y) = {} /\ y.op = "use"
        /\ StepFits(z, r) /\ Fills(z) = {"t2"} /\ z.op = "measure"
    BY StepsFit, FillsOf, StepKinds
  <1>3. {"t0", "t1", "scratch"} \subseteq Freed(Kind(r))
    BY DEF Freed
  <1>4. SplitRadixSteps(r) = s4 \o If("measure" \in r.flags /\ r.n >= 32, <<z>>)
    BY DEF SplitRadixSteps
  <1> HIDE DEF x, y, z, a, b, c
  <1>5. Stretch(s1, r, {"self"} \cup {"t0"}, {"self"} \cup {"t0"})
    BY <1>1, <1>3, AddNeed
  <1> HIDE DEF s1
  <1>6. Stretch(s2, r, {"self"} \cup {"t0"} \cup {"t1"}, {"self"} \cup {"t0"} \cup {"t1"})
    BY <1>5, <1>3, AddNeed
  <1> HIDE DEF s2
  <1>7. Stretch(s3, r, {"self", "t0", "t1"}, {"self"})
    BY <1>6, <1>2, AddStep
  <1> HIDE DEF s3
  <1>8. Stretch(s4, r, {"self", "t0", "t1"} \cup {"scratch"}, {"self"} \cup {"scratch"})
    BY <1>7, <1>3, AddNeed
  <1> HIDE DEF s4
  <1>9. Stretch(s4 \o <<z>>, r, {"self", "t0", "t1", "t2", "scratch"}, {"self"})
    BY <1>8, <1>2, AddStep
  <1>10. Stretch(s4, r, {"self", "t0", "t1", "scratch"}, {"self"})
    BY <1>8, Weaker
  <1> QED
    BY <1>4, <1>9, <1>10, AddIf

LEMMA GeneratedFits ==
    ASSUME NEW r, NEW table, Kind(r) = "transform", r.maker # "bank"
    PROVE  Stretch(GeneratedSteps(r, table), r, {"self", "code", "t0", "scratch"}, {"self"})
  <1> DEFINE x == New("transform")
             y == Generate(table)
             z == Check({"code"})
             b == Align64(4 * r.n * Elem(r))
  <1>1. Stretch(<<x>>, r, {"self"}, {"self"})
    BY NewFits
  <1>2. /\ StepFits(y, r) /\ Fills(y) = {"code", "t0"} /\ Surely(y) = {"code"}
        /\ y.op = "generate"
    BY StepsFit, FillsOf, StepKinds
  <1>3. GeneratedSteps(r, table) = ((<<x>> \o <<y>>) \o <<z>>) \o Need("scratch", b)
    <2>1. <<x, y, z>> = (<<x>> \o <<y>>) \o <<z>>
      OBVIOUS
    <2> QED
      BY <2>1 DEF GeneratedSteps
  <1>4. "scratch" \in Freed(Kind(r))
    BY DEF Freed
  <1> HIDE DEF x, y, b
  <1>5. Stretch(<<x>> \o <<y>>, r, {"self", "code", "t0"}, {"self", "code"})
    BY <1>1, <1>2, AddStep
  <1>6. Stretch((<<x>> \o <<y>>) \o <<z>>, r, {"self", "code", "t0"}, {"self", "code"})
    BY <1>5, AddCheck
  <1> HIDE DEF z
  <1>7. Stretch(((<<x>> \o <<y>>) \o <<z>>) \o Need("scratch", b), r,
                {"self", "code", "t0", "scratch"}, {"self"})
    <2> HIDE DEF z
    <2>1. Stretch(((<<x>> \o <<y>>) \o <<z>>) \o Need("scratch", b), r,
                  {"self", "code", "t0"} \cup {"scratch"}, {"self", "code"} \cup {"scratch"})
      BY <1>4, <1>6, AddNeed
    <2> QED
      BY <2>1, Weaker
  <1> QED
    BY <1>3, <1>7

LEMMA RaderFits ==
    ASSUME NEW r, Kind(r) = "transform", RaderEligible(r.n)
    PROVE  Stretch(RaderSteps(r), r, {"self"} \cup Freed("transform"), {"self"})
  <1> DEFINE m == r.n - 1
             b == Align64(m * Elem(r))
             i == Inner(r, m, "fwd", {"seven"})
             j == Inner(r, m, "inv", {"seven"})
             b1 == Align64(2 * m * 4)
             b2 == Align64(2 * m * Elem(r))
             b3 == Align64(4 * r.n * Elem(r))
             y == Use("rader")
             e == <<New("transform")>>
             s0 == (e \o <<Make("inner", i)>>) \o <<Make("inner_inv", j)>>
             s1 == s0 \o Need("t2", b1)
             s2 == ((s1 \o <<Alloc("t0", b)>>) \o <<Alloc("t1", b)>>) \o <<Check({"t0", "t1"})>>
             s3 == s2 \o Need("t3", b2)
             s4 == s3 \o <<y>>
             s5 == s4 \o Need("scratch", b3)
  <1>1. Stretch(e, r, {"self"}, {"self"})
    BY NewFits
  <1>2. Direct(m, {"seven"})
    BY DEF RaderEligible, Direct
  <1>3. /\ IsRequest(i) /\ i.maker = "fft" /\ Accepts(i) /\ Sized(i)
        /\ IsRequest(j) /\ j.maker = "fft" /\ Accepts(j) /\ Sized(j)
        /\ Derives(i, r) /\ Derives(j, r)
    <2>1. r.n >= 11
      BY DEF RaderEligible
    <2>2. /\ IsRequest(i) /\ i.maker = "fft" /\ Accepts(i) /\ Sized(i)
          /\ IsRequest(j) /\ j.maker = "fft" /\ Accepts(j) /\ Sized(j)
          /\ i.n = m /\ j.n = m /\ i.flags = {"seven"} /\ j.flags = {"seven"}
          /\ i.layout = "split" /\ j.layout = "split"
      BY <1>2, InnerRequest
    <2> HIDE DEF i, j
    <2> QED
      BY <2>1, <2>2 DEF Derives
  <1>4. {"inner", "inner_inv", "t0", "t1", "t2", "t3", "scratch"} \subseteq Freed(Kind(r))
    BY DEF Freed
  <1>5. StepFits(y, r) /\ y.op = "use"
    BY StepsFit, StepKinds
  <1>6. RaderSteps(r) = (((((<<New("transform"), Make("inner", i), Make("inner_inv", j)>>
                            \o Need("t2", b1))
                           \o <<Alloc("t0", b), Alloc("t1", b), Check({"t0", "t1"})>>)
                          \o Need("t3", b2)) \o <<y>>) \o Need("scratch", b3))
    BY DEF RaderSteps
  <1>7. s0 = <<New("transform"), Make("inner", i), Make("inner_inv", j)>>
    BY Triples, Zenon
  <1> HIDE DEF e, i, j, b, b1, b2, b3, y, m
  <1>8. Stretch(s0, r, {"self", "inner", "inner_inv"}, {"self"})
    <2>1. Stretch(e \o <<Make("inner", i)>>, r, {"self"} \cup {"inner"}, {"self"} \cup {"inner"})
      BY <1>1, <1>3, <1>4, AddMake
    <2>2. Stretch(s0, r, {"self"} \cup {"inner"} \cup {"inner_inv"},
                         {"self"} \cup {"inner"} \cup {"inner_inv"})
      BY <2>1, <1>3, <1>4, AddMake
    <2> QED
      BY <2>2, Weaker
  <1> HIDE DEF s0
  <1>9. Stretch(s1, r, {"self", "inner", "inner_inv", "t2"}, {"self"})
    <2>1. Stretch(s1, r, {"self", "inner", "inner_inv"} \cup {"t2"}, {"self"} \cup {"t2"})
      BY <1>8, <1>4, AddNeed
    <2> QED
      BY <2>1, Weaker
  <1> HIDE DEF s1
  <1>10. Stretch(s2, r, {"self", "inner", "inner_inv", "t0", "t1", "t2"}, {"self"})
    <2> DEFINE a == s1 \o <<Alloc("t0", b)>>
    <2>1. Stretch(a, r, {"self", "inner", "inner_inv", "t2"} \cup {"t0"}, {"self"} \cup {"t0"})
      BY <1>9, <1>4, AddAlloc
    <2> HIDE DEF a
    <2>2. Stretch(a \o <<Alloc("t1", b)>>, r,
                  {"self", "inner", "inner_inv", "t2"} \cup {"t0"} \cup {"t1"},
                  {"self"} \cup {"t0"} \cup {"t1"})
      BY <2>1, <1>4, AddAlloc
    <2>3. Stretch(s2, r,
                  {"self", "inner", "inner_inv", "t2"} \cup {"t0"} \cup {"t1"},
                  {"self"} \cup {"t0"} \cup {"t1"})
      BY <2>2, AddCheck DEF a
    <2> QED
      BY <2>3, Weaker
  <1>11. s1 \o <<Alloc("t0", b), Alloc("t1", b), Check({"t0", "t1"})>> = s2
    BY <1>9, IsList, ThreeMore
  <1> HIDE DEF s2
  <1>12. Stretch(s3, r, {"self", "inner", "inner_inv", "t0", "t1", "t2"} \cup {"t3"},
                        {"self"} \cup {"t3"})
    BY <1>10, <1>4, AddNeed
  <1> HIDE DEF s3
  <1>13. Stretch(s4, r, {"self", "inner", "inner_inv", "t0", "t1", "t2", "t3"}, {"self"})
    <2>1. Stretch(s4, r, {"self", "inner", "inner_inv", "t0", "t1", "t2"} \cup {"t3"},
                         {"self"} \cup {"t3"})
      BY <1>12, <1>5, AddOther
    <2> QED
      BY <2>1, Weaker
  <1> HIDE DEF s4
  <1>14. Stretch(s5, r, {"self"} \cup Freed("transform"), {"self"})
    <2>1. Stretch(s5, r, {"self", "inner", "inner_inv", "t0", "t1", "t2", "t3"} \cup {"scratch"},
                         {"self"} \cup {"scratch"})
      BY <1>13, <1>4, AddNeed
    <2>2. {"self", "inner", "inner_inv", "t0", "t1", "t2", "t3"} \cup {"scratch"}
              \subseteq {"self"} \cup Freed("transform")
      BY DEF Freed
    <2> QED
      BY <2>1, <2>2, Weaker
  <1>15. RaderSteps(r) = s5
    BY <1>6, <1>7, <1>11 DEF s1, s3, s4
  <1> QED
    BY <1>14, <1>15

LEMMA BluesteinFits ==
    ASSUME NEW r, Kind(r) = "transform", r.maker = "fft", "bluestein" \in r.flags,
           SizesAgree /\ Sized(r) => Is5Smooth(BluesteinLength(r.n))
    PROVE  Stretch(BluesteinSteps(r), r, {"self"} \cup Freed("transform"), {"self"})
  <1> DEFINE m == BluesteinLength(r.n)
             i == Inner(r, m, "fwd", {})
             j == Inner(r, m, "inv", {})
             b0 == 2 * r.n * Elem(r)
             b1 == 2 * m * Elem(r)
             b2 == Align64(6 * m * Elem(r))
             e == <<New("transform")>>
             s0 == (e \o <<Make("inner", i)>>) \o <<Make("inner_inv", j)>>
             s1 == ((s0 \o <<Alloc("t0", b0)>>) \o <<Alloc("t1", b1)>>) \o <<Check({"t0", "t1"})>>
             s2 == s1 \o Need("scratch", b2)
  <1>1. Stretch(e, r, {"self"}, {"self"})
    BY NewFits
  <1>2. SizesAgree /\ Sized(r) => Direct(m, {})
    BY DEF Direct
  <1>3. /\ IsRequest(i) /\ i.maker = "fft"
        /\ SizesAgree /\ Sized(r) => Accepts(i) /\ Sized(i)
        /\ IsRequest(j) /\ j.maker = "fft"
        /\ SizesAgree /\ Sized(r) => Accepts(j) /\ Sized(j)
        /\ Derives(i, r) /\ Derives(j, r)
    <2>1. /\ IsRequest(i) /\ i.maker = "fft" /\ IsRequest(j) /\ j.maker = "fft"
          /\ i.n = m /\ j.n = m /\ i.flags = {} /\ j.flags = {}
          /\ i.layout = "split" /\ j.layout = "split"
          /\ SizesAgree /\ Sized(r) => Accepts(i) /\ Sized(i) /\ Accepts(j) /\ Sized(j)
      BY <1>2, InnerRequest
    <2> HIDE DEF i, j
    <2> QED
      BY <2>1 DEF Derives
  <1>4. {"inner", "inner_inv", "t0", "t1", "scratch"} \subseteq Freed(Kind(r))
    BY DEF Freed
  <1>6. BluesteinSteps(r) = <<New("transform"), Make("inner", i), Make("inner_inv", j),
                              Alloc("t0", b0), Alloc("t1", b1), Check({"t0", "t1"})>>
                            \o Need("scratch", b2)
    BY DEF BluesteinSteps
  <1>7. s1 = <<New("transform"), Make("inner", i), Make("inner_inv", j),
               Alloc("t0", b0), Alloc("t1", b1), Check({"t0", "t1"})>>
    <2> DEFINE x1 == New("transform")
               x2 == Make("inner", i)
               x3 == Make("inner_inv", j)
               x4 == Alloc("t0", b0)
               x5 == Alloc("t1", b1)
               x6 == Check({"t0", "t1"})
    <2> DEFINE y2 == <<x1>> \o <<x2>>
               y3 == y2 \o <<x3>>
               y4 == y3 \o <<x4>>
               y5 == y4 \o <<x5>>
    <2>1. s1 = y5 \o <<x6>>
      OBVIOUS
    <2> HIDE DEF x1, x2, x3, x4, x5, x6, s1
    <2>2. y2 = <<x1, x2>>
      BY Pairs, Zenon
    <2> HIDE DEF y2
    <2>3. y3 = <<x1, x2, x3>>
      BY <2>2, Third, Zenon
    <2> HIDE DEF y3
    <2>4. y4 = <<x1, x2, x3, x4>>
      BY <2>3, Fourth, Zenon
    <2> HIDE DEF y4
    <2>5. y5 = <<x1, x2, x3, x4, x5>>
      BY <2>4, Fifth, Zenon
    <2> HIDE DEF y5
    <2>6. s1 = <<x1, x2, x3, x4, x5, x6>>
      BY <2>1, <2>5, Sixth, Zenon
    <2> QED
      BY <2>6 DEF x1, x2, x3, x4, x5, x6
  <1> HIDE DEF e, i, j, b0, b1, b2, m
  <1>8. Stretch(s0, r, {"self", "inner", "inner_inv"}, {"self"})
    <2>1. Stretch(e \o <<Make("inner", i)>>, r, {"self"} \cup {"inner"}, {"self"} \cup {"inner"})
      BY <1>1, <1>3, <1>4, AddMake
    <2>2. Stretch(s0, r, {"self"} \cup {"inner"} \cup {"inner_inv"},
                         {"self"} \cup {"inner"} \cup {"inner_inv"})
      BY <2>1, <1>3, <1>4, AddMake
    <2> QED
      BY <2>2, Weaker
  <1> HIDE DEF s0
  <1>9. Stretch(s1, r, {"self", "inner", "inner_inv", "t0", "t1"}, {"self"})
    <2> DEFINE a == s0 \o <<Alloc("t0", b0)>>
    <2>1. Stretch(a, r, {"self", "inner", "inner_inv"} \cup {"t0"}, {"self"} \cup {"t0"})
      BY <1>8, <1>4, AddAlloc
    <2> HIDE DEF a
    <2>2. Stretch(a \o <<Alloc("t1", b1)>>, r,
                  {"self", "inner", "inner_inv"} \cup {"t0"} \cup {"t1"},
                  {"self"} \cup {"t0"} \cup {"t1"})
      BY <2>1, <1>4, AddAlloc
    <2>3. Stretch(s1, r,
                  {"self", "inner", "inner_inv"} \cup {"t0"} \cup {"t1"},
                  {"self"} \cup {"t0"} \cup {"t1"})
      BY <2>2, AddCheck DEF a
    <2> QED
      BY <2>3, Weaker
  <1> HIDE DEF s1
  <1>10. Stretch(s2, r, {"self"} \cup Freed("transform"), {"self"})
    <2>1. Stretch(s2, r, {"self", "inner", "inner_inv", "t0", "t1"} \cup {"scratch"},
                         {"self"} \cup {"scratch"})
      BY <1>9, <1>4, AddNeed
    <2>2. {"self", "inner", "inner_inv", "t0", "t1"} \cup {"scratch"}
              \subseteq {"self"} \cup Freed("transform")
      BY DEF Freed
    <2> QED
      BY <2>1, <2>2, Weaker
  <1> QED
    BY <1>6, <1>7, <1>10

LEMMA StftFits ==
    ASSUME NEW r, r.maker = "stft", IsRequest(r), Accepts(r)
    PROVE  Stretch(StftSteps(r), r, {"self"} \cup Freed("transform"), {"self"})
  <1> DEFINE q == [r EXCEPT !.maker = "fft", !.dir = "fwd"]
             x == Make("self", q)
             y == WindowTable(r.n * 4)
             e == <<>>
             w == <<x>>
  <1>1. /\ IsRequest(q) /\ q.maker = "fft" /\ q.n = r.n /\ q.flags = r.flags
        /\ q.layout = r.layout /\ q.prec = r.prec
    <2> DEFINE p == [r EXCEPT !.maker = "fft", !.dir = "fwd"]
    <2>1. Same(p, "fft", r.n, r.prec, "fwd", r.layout, r.flags)
      BY Derived
    <2>2. "fft" \in Makers
      BY DEF Makers
    <2> HIDE DEF p
    <2>3. /\ p.maker = "fft" /\ p.n = r.n /\ p.flags = r.flags /\ p.layout = r.layout
          /\ p.prec = r.prec
          /\ p = Request(p.maker, p.n, p.prec, p.dir, p.layout, p.flags)
      BY <2>1 DEF Same
    <2>4. IsRequest(p)
      BY <2>2, <2>3 DEF IsRequest
    <2> QED
      BY <2>3, <2>4 DEF p
  <1>2. StftSteps(r) = <<x, y>>
    BY DEF StftSteps
  <1> HIDE DEF q
  <1>3. Accepts(q)
    BY <1>1 DEF Accepts
  <1>4. Sized(r) => Sized(q)
    BY <1>1 DEF Sized
  <1>5. /\ x.op = "make" /\ x.at = "self" /\ x.req = q
        /\ Fills(x) = {"self"} \cup Inherited /\ Surely(x) = {"self"}
        /\ y.op = "window" /\ Fills(y) = {"t1"} /\ StepFits(y, r)
    BY StepKinds, FillsOf, StepsFit
  <1> HIDE DEF x, y
  <1>6. Inherited \subseteq Freed("transform") /\ (WindowsApart => "t1" \notin Inherited)
    BY DEF Inherited
  <1>7. "t1" \in Freed("transform") /\ Kind(r) = "transform"
    BY DEF Freed, Kind
  <1>8. StepFits(x, r)
    <2>1. Derives(q, r)
      BY <1>1 DEF Derives
    <2> QED
      BY <1>1, <1>3, <1>4, <1>5, <1>6, <1>7, <2>1 DEF StepFits, Ops
  <1>9. Stretch(e, r, {}, {})
    BY NoSteps
  <1>10. w = e \o <<x>>
    OBVIOUS
  <1> HIDE DEF e
  <1>11. ~NeedsSelf(x) /\ x.op # "check" /\ NeedsSelf(y) /\ y.op # "check"
    BY <1>5 DEF NeedsSelf
  <1>12. Stretch(e \o <<x>>, r, {"self"} \cup Inherited, {"self"})
    BY <1>5, <1>8, <1>9, <1>11, AddStep
  <1>13. Stretch(w, r, {"self"} \cup Inherited, {"self"})
    BY <1>10, <1>12, Zenon
  <1> HIDE DEF w
  <1>14. "self" # "t1"
    OBVIOUS
  <1>15. Stretch(w \o <<y>>, r, {"self"} \cup Freed("transform"), {"self"})
    BY <1>5, <1>6, <1>7, <1>11, <1>13, <1>14, AddStep
  <1>16. w \o <<y>> = <<x, y>>
    BY Pairs, Zenon DEF w
  <1> QED
    BY <1>2, <1>15, <1>16

LEMMA RealFits ==
    ASSUME NEW r, Kind(r) = "transform", r.maker # "bank"
    PROVE  Stretch(RealSteps(r), r, {"self"} \cup Freed("transform"), {"self"})
  <1> DEFINE x == New("transform")
             y == Generate((IF r.n > MaxFft THEN MaxFft ELSE r.n) * Elem(r))
             w == <<x>>
  <1>1. Stretch(w, r, {"self"}, {"self"})
    BY NewFits
  <1>2. /\ StepFits(y, r) /\ Fills(y) = {"code", "t0"} /\ y.op = "generate"
    BY StepsFit, FillsOf, StepKinds
  <1>3. {"code", "t0"} \subseteq Freed("transform")
    BY DEF Freed
  <1>4. RealSteps(r) = <<x, y>>
    BY DEF RealSteps
  <1> HIDE DEF x, y
  <1>5. w \o <<y>> = <<x, y>>
    BY Pairs, Zenon
  <1> HIDE DEF w
  <1>6. Stretch(w \o <<y>>, r, {"self", "code", "t0"}, {"self"})
    BY <1>1, <1>2, AddStep
  <1>7. {"self", "code", "t0"} \subseteq {"self"} \cup Freed("transform")
    BY <1>3
  <1>8. Stretch(w \o <<y>>, r, {"self"} \cup Freed("transform"), {"self"})
    BY <1>6, <1>7, Weaker
  <1> QED
    BY <1>4, <1>5, <1>8

LEMMA DwtFits ==
    ASSUME NEW r, Kind(r) = "transform", r.maker # "bank"
    PROVE  Stretch(DwtSteps(r), r, {"self"} \cup Freed("transform"), {"self"})
  <1> DEFINE x == New("transform")
             y == Generate(0)
             z == Check({"code"})
             b == Align64(r.n * Elem(r))
             s1 == <<x>> \o Need("scratch", b)
             s2 == s1 \o <<y>>
             s3 == s2 \o <<z>>
  <1>1. Stretch(<<x>>, r, {"self"}, {"self"})
    BY NewFits
  <1>2. /\ StepFits(y, r) /\ Fills(y) = {"code", "t0"} /\ Surely(y) = {"code"}
        /\ y.op = "generate"
    BY StepsFit, FillsOf, StepKinds
  <1>3. {"code", "t0", "scratch"} \subseteq Freed("transform") /\ "scratch" \in Freed(Kind(r))
    BY DEF Freed
  <1>4. DwtSteps(r) = s1 \o <<y, z>>
    BY DEF DwtSteps
  <1> HIDE DEF x, y, b
  <1>5. Stretch(s1, r, {"self"} \cup {"scratch"}, {"self"} \cup {"scratch"})
    BY <1>1, <1>3, AddNeed
  <1> HIDE DEF s1
  <1>6. Stretch(s2, r, {"self", "scratch", "code", "t0"}, {"self", "code"})
    BY <1>2, <1>5, AddStep
  <1> HIDE DEF s2
  <1>7. Stretch(s3, r, {"self", "scratch", "code", "t0"}, {"self", "code"})
    BY <1>6, AddCheck
  <1> HIDE DEF z
  <1>8. DwtSteps(r) = s3
    <2> DEFINE v == <<y>>
    <2>1. v \o <<z>> = <<y, z>>
      BY Pairs, Zenon
    <2>2. \E S : v \in Seq(S)
      <3>1. v \in Seq({y})
        OBVIOUS
      <3> QED
        BY <3>1
    <2>3. \E S : s1 \in Seq(S)
      BY <1>5, IsList
    <2> HIDE DEF v
    <2>4. s1 \o (v \o <<z>>) = (s1 \o v) \o <<z>>
      BY <2>2, <2>3, OneByOne
    <2> QED
      BY <1>4, <2>1, <2>4 DEF s2, v
  <1> HIDE DEF s3
  <1>9. {"self", "scratch", "code", "t0"} \subseteq {"self"} \cup Freed("transform")
    BY <1>3
  <1> QED
    BY <1>7, <1>8, <1>9, Weaker

LEMMA RfftFits ==
    ASSUME NEW r, r.maker = "rfft", Accepts(r)
    PROVE  Stretch(RfftSteps(r), r, {"self"} \cup Freed("transform"), {"self"})
  <1> DEFINE nc == r.n \div 2
             i == Inner(r, nc, r.dir, {})
             c == nc \div 2 > 0
             b1 == (nc \div 2) * 2 * Elem(r)
             b2 == Align64((4 * nc + 2 * (nc + 1)) * Elem(r))
             x == New("transform")
             e == <<x>>
             s0 == e \o <<Make("inner", i)>>
             s1 == s0 \o If(c, Need("t1", b1))
             s2 == s1 \o Need("scratch", b2)
  <1>1. Kind(r) = "transform" /\ {"inner", "t1", "scratch"} \subseteq Freed(Kind(r))
        /\ {"self", "inner", "t1", "scratch"} \subseteq {"self"} \cup Freed("transform")
    BY DEF Kind, Freed
  <1>2. Stretch(e, r, {"self"}, {"self"})
    BY <1>1, NewFits
  <1>3. SizesAgree /\ Sized(r) => Direct(nc, {})
    <2>1. Creates("rfft", r.n)
      BY DEF Accepts
    <2> QED
      BY <2>1 DEF Sized, SizesAgree, Direct
  <1>4. /\ IsRequest(i) /\ i.maker = "fft" /\ (SizesAgree /\ Sized(r) => Accepts(i) /\ Sized(i))
        /\ Derives(i, r)
    <2>1. /\ IsRequest(i) /\ i.maker = "fft" /\ (SizesAgree /\ Sized(r) => Accepts(i) /\ Sized(i))
          /\ i.n = nc /\ i.flags = {} /\ i.layout = "split"
      BY <1>3, InnerRequest
    <2> HIDE DEF i
    <2> QED
      BY <2>1 DEF Derives
  <1>5. RfftSteps(r) = (<<x, Make("inner", i)>> \o If(c, Need("t1", b1))) \o Need("scratch", b2)
    BY DEF RfftSteps
  <1>6. c \in BOOLEAN
    OBVIOUS
  <1> HIDE DEF i, c, b1, b2, x, nc
  <1>7. s0 = <<x, Make("inner", i)>>
    BY Pairs, Zenon
  <1> HIDE DEF e
  <1>8. Stretch(s0, r, {"self"} \cup {"inner"}, {"self"} \cup {"inner"})
    BY <1>1, <1>2, <1>4, AddMake
  <1> HIDE DEF s0
  <1>9. Stretch(s1, r, {"self", "inner", "t1"}, {"self"})
    <2>1. Stretch(s0, r, {"self", "inner"}, {"self"})
      BY <1>8, Weaker
    <2>2. Stretch(s0 \o Need("t1", b1), r, {"self", "inner"} \cup {"t1"}, {"self"} \cup {"t1"})
      BY <1>1, <2>1, AddNeed
    <2>3. Stretch(s0 \o Need("t1", b1), r, {"self", "inner", "t1"}, {"self"})
      BY <2>2, Weaker
    <2> DEFINE t == Need("t1", b1)
    <2> HIDE DEF t
    <2>4. Stretch(s0 \o If(c, t), r, {"self", "inner", "t1"}, {"self"})
      BY <1>6, <2>1, <2>3, AddIf DEF t
    <2> QED
      BY <2>4 DEF t
  <1> HIDE DEF s1
  <1>10. Stretch(s2, r, {"self", "inner", "t1"} \cup {"scratch"}, {"self"} \cup {"scratch"})
    BY <1>1, <1>9, AddNeed
  <1>11. Stretch(s2, r, {"self"} \cup Freed("transform"), {"self"})
    BY <1>1, <1>10, Weaker
  <1> QED
    BY <1>5, <1>7, <1>11 DEF s1

LEMMA InnerRealFits ==
    ASSUME NEW r, NEW dir, Creates("rfft", r.n), r.maker # "fft"
    PROVE  /\ IsRequest(InnerReal(r, dir)) /\ InnerReal(r, dir).maker = "rfft"
           /\ Accepts(InnerReal(r, dir)) /\ InnerReal(r, dir).n = r.n
           /\ InnerReal(r, dir).flags = {}
           /\ Sized(r) => Sized(InnerReal(r, dir))
  <1> DEFINE q == InnerReal(r, dir)
  <1>1. q = Request("rfft", r.n, r.prec, dir, "hermitian", {})
    BY DEF InnerReal
  <1>2. /\ q.maker = "rfft" /\ q.n = r.n /\ q.prec = r.prec /\ q.dir = dir
        /\ q.layout = "hermitian" /\ q.flags = {}
    BY <1>1 DEF Request
  <1> HIDE DEF q
  <1>3. IsRequest(q)
    BY <1>1, <1>2 DEF IsRequest, Makers
  <1>4. Accepts(q)
    BY <1>2 DEF Accepts
  <1>5. Sized(r) => Sized(q)
    BY <1>2 DEF Sized
  <1> QED
    BY <1>2, <1>3, <1>4, <1>5 DEF q

LEMMA BankFits ==
    ASSUME NEW r, r.maker = "bank", Accepts(r)
    PROVE  Stretch(BankSteps(r), r, {"self"} \cup Freed("bank"), {"self"})
  <1> DEFINE nbins == r.n \div 2 + 1
             table == Rows(r) * Padded(r)
             plane == Align64(Padded(r) * Elem(r))
             x == New("bank")
             i == InnerReal(r, "fwd")
             j == InnerReal(r, "inv")
             b9 == Align64(table * 4)
             b1 == Align64(Scales * 8)
             b2 == Align64(Scales * 8)
             b3 == Align64(table * 8)
             b4 == Align64(nbins * 8)
             b5 == Align64(table * 8)
             b6 == Align64(nbins * 8)
             b7 == Align64(table * Elem(r))
             K == {"scales", "freqs_hz", "Psi_l2", "A", "Psi_dual", "xi", "Psi"}
             L == {"X_re", "X_im", "Y_re", "Y_im"}
             c == r.prec = "f32"
             d == "strict" \in r.flags
             s0 == <<x>>
             y1 == Alloc("scales", b1)
             y2 == Alloc("freqs_hz", b2)
             y3 == Alloc("Psi_l2", b3)
             y4 == Alloc("A", b4)
             y5 == Alloc("Psi_dual", b5)
             y6 == Alloc("xi", b6)
             y7 == Alloc("Psi", b7)
             y8 == Check(K)
             y9 == Test
             z1 == Make("rfft", i)
             z2 == Make("irfft", j)
             z3 == Alloc("X_re", plane)
             z4 == Alloc("X_im", plane)
             z5 == Alloc("Y_re", plane)
             z6 == Alloc("Y_im", plane)
             z7 == Check(L)
             z8 == Test
             s1 == s0 \o <<y1>>
             s2 == s1 \o <<y2>>
             s3 == s2 \o <<y3>>
             s4 == s3 \o <<y4>>
             s5 == s4 \o <<y5>>
             s6 == s5 \o <<y6>>
             s7 == s6 \o <<y7>>
             s8 == s7 \o <<y8>>
             s9 == s8 \o <<y9>>
             s10 == s9 \o If(c, Need("Psi_dual_f32", b9))
             s11 == s10 \o If(d, <<Test>>)
             s12 == s11 \o <<z1>>
             s13 == s12 \o <<z2>>
             s14 == s13 \o <<z3>>
             s15 == s14 \o <<z4>>
             s16 == s15 \o <<z5>>
             s17 == s16 \o <<z6>>
             s18 == s17 \o <<z7>>
             s19 == s18 \o <<z8>>
             a0 == {"self"}
             a1 == a0 \cup {"scales"}
             a2 == a1 \cup {"freqs_hz"}
             a3 == a2 \cup {"Psi_l2"}
             a4 == a3 \cup {"A"}
             a5 == a4 \cup {"Psi_dual"}
             a6 == a5 \cup {"xi"}
             a7 == a6 \cup {"Psi"}
             a8 == a7 \cup {"Psi_dual_f32"}
             a9 == a8 \cup {"rfft"}
             a10 == a9 \cup {"irfft"}
             a11 == a10 \cup {"X_re"}
             a12 == a11 \cup {"X_im"}
             a13 == a12 \cup {"Y_re"}
             a14 == a13 \cup {"Y_im"}
             c1 == a0 \cup {"X_re"}
             c2 == c1 \cup {"X_im"}
             c3 == c2 \cup {"Y_re"}
             c4 == c3 \cup {"Y_im"}
  <1>1. Freed(Kind(r)) = {"scales", "freqs_hz", "Psi_l2", "A", "Psi_dual", "xi", "Psi"}
                            \cup {"X_re", "X_im", "Y_re", "Y_im"}
                            \cup {"Psi_dual_f32", "rfft", "irfft"}
    BY DEF Freed, Kind
  <1>2. Kind(r) = "bank" /\ Freed(Kind(r)) = Freed("bank")
    BY DEF Kind
  <1>3. Creates("rfft", r.n)
    BY DEF Accepts, Creates
  <1>4. /\ IsRequest(i) /\ i.maker = "rfft" /\ (SizesAgree /\ Sized(r) => Accepts(i) /\ Sized(i))
        /\ IsRequest(j) /\ j.maker = "rfft" /\ (SizesAgree /\ Sized(r) => Accepts(j) /\ Sized(j))
        /\ Derives(i, r) /\ Derives(j, r)
    BY <1>3, InnerRealFits DEF Derives
  <1>5. StepFits(Test, r) /\ Test.op = "test"
    BY StepsFit, StepKinds
  <1>6. BankSteps(r) =
            ((<<x, y1, y2, y3, y4, y5, y6, y7, y8, y9>>
              \o If(c, Need("Psi_dual_f32", b9))) \o If(d, <<Test>>))
            \o <<z1, z2, z3, z4, z5, z6, z7, z8>>
    BY DEF BankSteps
  <1>7. c \in BOOLEAN /\ d \in BOOLEAN
    OBVIOUS
  <1>8. Stretch(s0, r, a0, a0)
    BY <1>2, NewFits
  <1> HIDE DEF nbins, table, plane, x, i, j, b1, b2, b3, b4, b5, b6, b7, b9, c, d, y1, y2, y3,
               y4, y5, y6, y7, y8, y9, z1, z2, z3, z4, z5, z6, z7, z8
  <1>9. s9 = <<x, y1, y2, y3, y4, y5, y6, y7, y8, y9>>
    <2>1. s1 = <<x, y1>>
      BY Pairs, Zenon
    <2> HIDE DEF s1
    <2>2. s2 = <<x, y1, y2>>
      BY <2>1, Third, Zenon
    <2> HIDE DEF s2
    <2>3. s3 = <<x, y1, y2, y3>>
      BY <2>2, Fourth, Zenon
    <2> HIDE DEF s3
    <2>4. s4 = <<x, y1, y2, y3, y4>>
      BY <2>3, Fifth, Zenon
    <2> HIDE DEF s4
    <2>5. s5 = <<x, y1, y2, y3, y4, y5>>
      BY <2>4, Sixth, Zenon
    <2> HIDE DEF s5
    <2>6. s6 = <<x, y1, y2, y3, y4, y5, y6>>
      BY <2>5, Seventh, Zenon
    <2> HIDE DEF s6
    <2>7. s7 = <<x, y1, y2, y3, y4, y5, y6, y7>>
      <3> DEFINE u == <<x, y1, y2, y3, y4, y5, y6>> \o <<y7>>
                 v == <<x, y1, y2, y3, y4, y5, y6, y7>>
      <3>1. s7 = u
        BY <2>6, Zenon
      <3>2. v = u
        OBVIOUS
      <3> HIDE DEF u, v
      <3>3. s7 = v
        BY <3>1, <3>2
      <3> QED
        BY <3>3 DEF v
    <2> HIDE DEF s7
    <2>8. s8 = <<x, y1, y2, y3, y4, y5, y6, y7, y8>>
      <3> DEFINE u == <<x, y1, y2, y3, y4, y5, y6, y7>> \o <<y8>>
                 v == <<x, y1, y2, y3, y4, y5, y6, y7, y8>>
      <3>1. s8 = u
        BY <2>7, Zenon
      <3>2. v = u
        OBVIOUS
      <3> HIDE DEF u, v
      <3>3. s8 = v
        BY <3>1, <3>2
      <3> QED
        BY <3>3 DEF v
    <2> HIDE DEF s8
    <2>9. s9 = <<x, y1, y2, y3, y4, y5, y6, y7, y8, y9>>
      <3> DEFINE u == <<x, y1, y2, y3, y4, y5, y6, y7, y8>> \o <<y9>>
                 v == <<x, y1, y2, y3, y4, y5, y6, y7, y8, y9>>
      <3>1. s9 = u
        BY <2>8, Zenon
      <3>2. v = u
        OBVIOUS
      <3> HIDE DEF u, v
      <3>3. s9 = v
        BY <3>1, <3>2
      <3> QED
        BY <3>3 DEF v
    <2> QED
      BY <2>9
  <1> HIDE DEF s0
  <1>10. Stretch(s1, r, a1, a1)
    BY <1>1, <1>8, AddAlloc DEF y1
  <1> HIDE DEF s1
  <1>11. Stretch(s2, r, a2, a2)
    BY <1>1, <1>10, AddAlloc DEF y2
  <1> HIDE DEF s2
  <1>12. Stretch(s3, r, a3, a3)
    BY <1>1, <1>11, AddAlloc DEF y3
  <1> HIDE DEF s3
  <1>13. Stretch(s4, r, a4, a4)
    BY <1>1, <1>12, AddAlloc DEF y4
  <1> HIDE DEF s4
  <1>14. Stretch(s5, r, a5, a5)
    BY <1>1, <1>13, AddAlloc DEF y5
  <1> HIDE DEF s5
  <1>15. Stretch(s6, r, a6, a6)
    BY <1>1, <1>14, AddAlloc DEF y6
  <1> HIDE DEF s6
  <1>16. Stretch(s7, r, a7, a7)
    BY <1>1, <1>15, AddAlloc DEF y7
  <1> HIDE DEF s7
  <1>17. Stretch(s8, r, a7, a0)
    <2>1. Stretch(s8, r, a7, a7)
      BY <1>16, AddCheck DEF y8
    <2> QED
      BY <2>1, Weaker
  <1> HIDE DEF s8, K
  <1>18. Stretch(s9, r, a7, a0)
    BY <1>5, <1>17, AddOther DEF y9
  <1> HIDE DEF s9
  <1>19. Stretch(s10, r, a8, a0)
    <2> DEFINE t == Need("Psi_dual_f32", b9)
    <2>1. Stretch(s9 \o t, r, a8, a0 \cup {"Psi_dual_f32"})
      BY <1>1, <1>18, AddNeed
    <2>2. Stretch(s9 \o t, r, a8, a0)
      BY <2>1, Weaker
    <2> HIDE DEF t
    <2>3. Stretch(s9 \o If(c, t), r, a8, a0)
      BY <1>7, <1>18, <2>2, AddIf
    <2> QED
      BY <2>3 DEF t
  <1> HIDE DEF s10
  <1>20. Stretch(s11, r, a8, a0)
    <2> DEFINE t == <<Test>>
    <2>1. Stretch(s10 \o t, r, a8, a0)
      BY <1>5, <1>19, AddOther
    <2> HIDE DEF t
    <2>2. Stretch(s10 \o If(d, t), r, a8, a0)
      BY <1>7, <1>19, <2>1, AddIf
    <2> QED
      BY <2>2 DEF t
  <1>21. s11 \o <<z1, z2, z3, z4, z5, z6, z7, z8>> = s19
    <2> DEFINE t3 == <<z1, z2, z3>>
               t4 == t3 \o <<z4>>
               t5 == t4 \o <<z5>>
               t6 == t5 \o <<z6>>
               t7 == t6 \o <<z7>>
               t8 == t7 \o <<z8>>
    <2> HIDE DEF s11
    <2>1. \E S : s11 \in Seq(S)
      BY <1>20, IsList
    <2>3. s11 \o t3 = s14 /\ \E S : t3 \in Seq(S)
      BY <2>1, ThreeMore
    <2>13. t3 = <<z1, z2, z3>>
      OBVIOUS
    <2> HIDE DEF t3
    <2>4. s11 \o t4 = (s11 \o t3) \o <<z4>> /\ \E S : t4 \in Seq(S)
      BY <2>1, <2>3, OneByOne
    <2>14. t4 = <<z1, z2, z3, z4>>
      BY <2>13, Fourth, Zenon
    <2> HIDE DEF t4
    <2>5. s11 \o t5 = (s11 \o t4) \o <<z5>> /\ \E S : t5 \in Seq(S)
      BY <2>1, <2>4, OneByOne
    <2>15. t5 = <<z1, z2, z3, z4, z5>>
      BY <2>14, Fifth, Zenon
    <2> HIDE DEF t5
    <2>6. s11 \o t6 = (s11 \o t5) \o <<z6>> /\ \E S : t6 \in Seq(S)
      BY <2>1, <2>5, OneByOne
    <2>16. t6 = <<z1, z2, z3, z4, z5, z6>>
      BY <2>15, Sixth, Zenon
    <2> HIDE DEF t6
    <2>7. s11 \o t7 = (s11 \o t6) \o <<z7>> /\ \E S : t7 \in Seq(S)
      BY <2>1, <2>6, OneByOne
    <2>17. t7 = <<z1, z2, z3, z4, z5, z6, z7>>
      BY <2>16, Seventh, Zenon
    <2> HIDE DEF t7
    <2>8. s11 \o t8 = (s11 \o t7) \o <<z8>> /\ \E S : t8 \in Seq(S)
      BY <2>1, <2>7, OneByOne
    <2>18. t8 = <<z1, z2, z3, z4, z5, z6, z7, z8>>
      <3> DEFINE u == <<z1, z2, z3, z4, z5, z6, z7>> \o <<z8>>
                 v == <<z1, z2, z3, z4, z5, z6, z7, z8>>
      <3>1. t8 = u
        BY <2>17, Zenon
      <3>2. v = u
        OBVIOUS
      <3> HIDE DEF u, v
      <3>3. t8 = v
        BY <3>1, <3>2
      <3> QED
        BY <3>3 DEF v
    <2> HIDE DEF t8
    <2> QED
      BY <2>3, <2>4, <2>5, <2>6, <2>7, <2>8, <2>18
  <1> HIDE DEF s11
  <1>22. Stretch(s12, r, a9, a0)
    <2>1. Stretch(s12, r, a9, a0 \cup {"rfft"})
      BY <1>1, <1>4, <1>20, AddMake DEF z1
    <2> QED
      BY <2>1, Weaker
  <1> HIDE DEF s12
  <1>23. Stretch(s13, r, a10, a0)
    <2>1. Stretch(s13, r, a10, a0 \cup {"irfft"})
      BY <1>1, <1>4, <1>22, AddMake DEF z2
    <2> QED
      BY <2>1, Weaker
  <1> HIDE DEF s13
  <1>24. Stretch(s14, r, a11, c1)
    BY <1>1, <1>23, AddAlloc DEF z3
  <1> HIDE DEF s14
  <1>25. Stretch(s15, r, a12, c2)
    BY <1>1, <1>24, AddAlloc DEF z4
  <1> HIDE DEF s15
  <1>26. Stretch(s16, r, a13, c3)
    BY <1>1, <1>25, AddAlloc DEF z5
  <1> HIDE DEF s16
  <1>27. Stretch(s17, r, a14, c4)
    BY <1>1, <1>26, AddAlloc DEF z6
  <1> HIDE DEF s17
  <1>28. Stretch(s18, r, a14, c4)
    BY <1>27, AddCheck DEF z7
  <1> HIDE DEF s18, L
  <1>29. Stretch(s19, r, a14, c4)
    BY <1>5, <1>28, AddOther DEF z8
  <1> HIDE DEF s19
  <1>30. a14 \subseteq {"self"} \cup Freed("bank")
    BY <1>1, <1>2
  <1>31. BankSteps(r) = s19
    BY <1>6, <1>9, <1>21 DEF s10, s11
  <1> QED
    BY <1>29, <1>30, <1>31, Weaker

LEMMA CwtFits ==
    ASSUME NEW r, r.maker \in {"cwt", "icwt"}, IsRequest(r), Accepts(r)
    PROVE  Stretch(CwtSteps(r), r, {"self"} \cup Freed("transform"), {"self"})
  <1> DEFINE q == [r EXCEPT !.maker = "bank"]
             x == Make("bank", q)
             y == New("transform")
             e == <<>>
             w == <<x>>
  <1>1. Kind(r) = "transform" /\ "bank" \in Freed(Kind(r))
        /\ {"self", "bank"} \subseteq {"self"} \cup Freed("transform")
    BY DEF Kind, Freed
  <1>2. CwtSteps(r) = <<x, y>>
    BY DEF CwtSteps
  <1>3. /\ q.maker = "bank" /\ q.n = r.n /\ q.layout = r.layout /\ q.flags = r.flags
        /\ q = Request(q.maker, q.n, q.prec, q.dir, q.layout, q.flags)
    <2> HIDE DEF q
    <2>1. Same(q, "bank", r.n, r.prec, r.dir, r.layout, r.flags)
      BY Derived DEF q
    <2> QED
      BY <2>1 DEF Same
  <1> HIDE DEF q
  <1>4. IsRequest(q)
    BY <1>3 DEF IsRequest
  <1>5. Accepts(q) /\ (Sized(r) => Sized(q)) /\ Derives(q, r)
    BY <1>3 DEF Accepts, Sized, Derives
  <1>6. StepFits(y, r) /\ Fills(y) = {"self"} /\ Surely(y) = {"self"} /\ y.op = "new"
    BY <1>1, StepsFit, FillsOf, StepKinds
  <1> HIDE DEF y
  <1>7. ~NeedsSelf(y) /\ y.op # "check"
    BY <1>6 DEF NeedsSelf
  <1>8. Stretch(e, r, {}, {})
    BY NoSteps
  <1>9. w = e \o <<x>>
    OBVIOUS
  <1> HIDE DEF e
  <1>10. Stretch(e \o <<x>>, r, {} \cup {"bank"}, {} \cup {"bank"})
    BY <1>1, <1>3, <1>4, <1>5, <1>8, AddMake
  <1>11. Stretch(w, r, {"bank"}, {})
    <2>1. Stretch(w, r, {} \cup {"bank"}, {} \cup {"bank"})
      BY <1>9, <1>10, Zenon
    <2> HIDE DEF w
    <2> QED
      BY <2>1, Weaker
  <1>12. w \o <<y>> = <<x, y>>
    BY Pairs, Zenon
  <1> HIDE DEF w
  <1>13. Stretch(w \o <<y>>, r, {"self"} \cup Freed("transform"), {"self"})
    BY <1>1, <1>6, <1>7, <1>11, AddStep
  <1> QED
    BY <1>2, <1>12, <1>13

LEMMA PipelineFits ==
    ASSUME NEW r, r.maker = "pipeline", Accepts(r)
    PROVE  Stretch(PipelineSteps(r), r, {"self"} \cup Freed("transform"), {"self"})
  <1> DEFINE i == [InnerReal(r, "fwd") EXCEPT !.layout = r.layout]
             j == [InnerReal(r, "inv") EXCEPT !.layout = r.layout, !.prec = TailPrec(r)]
             b == Align64((r.n \div 2 + 1) * 2 * Elem(r))
             c1 == "irfft" \in r.flags
             c2 == "ops" \in r.flags
             c3 == "unknown" \in r.flags
             x == Make("inner", i)
             u1 == <<Make("inner_inv", j)>>
             z == NewQuiet("transform")
             a == Alloc("code", 16)
             k == CheckQuiet({"code"})
             u2 == <<a, k>>
             u3 == <<Reject>>
             e == <<>>
             s0 == <<x>>
             s1 == s0 \o If(c1, u1)
             s2 == s1 \o <<z>>
             s3 == s2 \o If(c2, u2)
             s4 == s3 \o If(c3, u3)
             s5 == s4 \o Need("scratch", b)
  <1>1. /\ Kind(r) = "transform" /\ {"inner", "inner_inv", "code", "scratch"} \subseteq Freed(Kind(r))
        /\ {"self", "inner", "inner_inv", "code", "scratch"} \subseteq {"self"} \cup Freed("transform")
    BY DEF Kind, Freed
  <1>2. PipelineSteps(r) = s5
    BY DEF PipelineSteps
  <1>3. c1 \in BOOLEAN /\ c2 \in BOOLEAN /\ c3 \in BOOLEAN
    OBVIOUS
  <1>4. Creates("rfft", r.n) /\ r.layout \in {"hermitian", "interleaved"}
    BY DEF Accepts
  <1>5. ASSUME NEW q, NEW dir, NEW prec, Same(q, "rfft", r.n, prec, dir, r.layout, {})
        PROVE  /\ IsRequest(q) /\ q.maker = "rfft" /\ Accepts(q) /\ (Sized(r) => Sized(q))
               /\ Derives(q, r)
    <2>1. /\ q.maker = "rfft" /\ q.n = r.n /\ q.flags = {} /\ q.layout = r.layout
          /\ q = Request(q.maker, q.n, q.prec, q.dir, q.layout, q.flags)
      BY <1>5 DEF Same
    <2> QED
      BY <1>4, <2>1 DEF IsRequest, Accepts, Sized, Makers, Derives
  <1>6. \A dir : /\ IsRequest(InnerReal(r, dir)) /\ InnerReal(r, dir).maker = "rfft"
                 /\ InnerReal(r, dir).n = r.n /\ InnerReal(r, dir).flags = {}
    BY <1>4, InnerRealFits
  <1>7. Same(i, "rfft", r.n, i.prec, i.dir, r.layout, {})
    <2> DEFINE p == InnerReal(r, "fwd")
    <2> HIDE DEF p, i
    <2>1. Same(i, p.maker, p.n, p.prec, p.dir, r.layout, p.flags)
      BY <1>6, Derived DEF p, i
    <2> QED
      BY <1>6, <2>1 DEF Same, p
  <1>8. Same(j, "rfft", r.n, j.prec, j.dir, r.layout, {})
    <2> DEFINE p == InnerReal(r, "inv")
    <2> HIDE DEF p, j
    <2>1. Same(j, p.maker, p.n, TailPrec(r), p.dir, r.layout, p.flags)
      BY <1>6, Derived DEF p, j
    <2> QED
      BY <1>6, <2>1 DEF Same, p
  <1> HIDE DEF i, j
  <1>9. /\ IsRequest(i) /\ i.maker = "rfft" /\ Accepts(i) /\ (Sized(r) => Sized(i))
        /\ IsRequest(j) /\ j.maker = "rfft" /\ Accepts(j) /\ (Sized(r) => Sized(j))
        /\ Derives(i, r) /\ Derives(j, r)
    BY <1>5, <1>7, <1>8
  <1>10. /\ StepFits(z, r) /\ Fills(z) = {"self"} /\ Surely(z) = {"self"} /\ z.op = "new"
         /\ StepFits(Reject, r) /\ Reject.op = "reject"
         /\ StepFits(k, r) /\ Fills(k) = {} /\ k.op = "check" /\ k.ats = {"code"}
    BY <1>1, StepsFit, FillsOf, StepKinds
  <1>11. ~NeedsSelf(z) /\ z.op # "check"
    BY <1>10 DEF NeedsSelf
  <1> HIDE DEF b, c1, c2, c3, z, k
  <1>12. Stretch(e, r, {}, {})
    BY NoSteps
  <1>13. s0 = e \o <<x>>
    OBVIOUS
  <1> HIDE DEF e
  <1>14. Stretch(e \o <<x>>, r, {} \cup {"inner"}, {} \cup {"inner"})
    BY <1>1, <1>9, <1>12, AddMake
  <1>15. Stretch(s0, r, {} \cup {"inner"}, {} \cup {"inner"})
    BY <1>13, <1>14, Zenon
  <1> HIDE DEF s0, x
  <1>16. Stretch(s0, r, {"inner"}, {})
    BY <1>15, Weaker
  <1>17. Stretch(s1, r, {"inner", "inner_inv"}, {})
    <2>1. Stretch(s0 \o u1, r, {"inner"} \cup {"inner_inv"}, {} \cup {"inner_inv"})
      BY <1>1, <1>9, <1>16, AddMake
    <2> HIDE DEF u1
    <2>2. Stretch(s0 \o u1, r, {"inner", "inner_inv"}, {})
      BY <2>1, Weaker
    <2> QED
      BY <1>3, <1>16, <2>2, AddIf
  <1> HIDE DEF s1, u1
  <1>18. Stretch(s2, r, {"self", "inner", "inner_inv"}, {"self"})
    BY <1>10, <1>11, <1>17, AddStep
  <1> HIDE DEF s2
  <1>19. Stretch(s3, r, {"self", "inner", "inner_inv", "code"}, {"self"})
    <2> DEFINE v == <<a>>
    <2>1. Stretch(s2 \o v, r, {"self", "inner", "inner_inv"} \cup {"code"}, {"self"} \cup {"code"})
      BY <1>1, <1>18, AddAlloc
    <2>2. \E S : v \in Seq(S)
      <3>1. v \in Seq({a})
        OBVIOUS
      <3> QED
        BY <3>1
    <2>3. v \o <<k>> = u2
      BY Pairs, Zenon
    <2> HIDE DEF v
    <2>4. Stretch((s2 \o v) \o <<k>>, r, {"self", "inner", "inner_inv", "code"}, {"self"})
      BY <1>10, <2>1, AddStep
    <2>5. \E S : s2 \in Seq(S)
      BY <1>18, IsList
    <2>6. s2 \o (v \o <<k>>) = (s2 \o v) \o <<k>>
      BY <2>2, <2>5, OneByOne
    <2> HIDE DEF u2
    <2>7. Stretch(s2 \o u2, r, {"self", "inner", "inner_inv", "code"}, {"self"})
      BY <2>3, <2>4, <2>6
    <2> QED
      BY <1>3, <1>18, <2>7, AddIf
  <1> HIDE DEF s3, u2
  <1>20. Stretch(s4, r, {"self", "inner", "inner_inv", "code"}, {"self"})
    <2>1. Stretch(s3 \o u3, r, {"self", "inner", "inner_inv", "code"}, {"self"})
      BY <1>10, <1>19, AddOther
    <2> HIDE DEF u3
    <2> QED
      BY <1>3, <1>19, <2>1, AddIf
  <1> HIDE DEF s4
  <1>21. Stretch(s5, r, {"self", "inner", "inner_inv", "code"} \cup {"scratch"},
                        {"self"} \cup {"scratch"})
    BY <1>1, <1>20, AddNeed
  <1> HIDE DEF s5
  <1>22. {"self", "inner", "inner_inv", "code"} \cup {"scratch"}
             \subseteq {"self"} \cup Freed("transform")
    BY <1>1
  <1>23. Stretch(s5, r, {"self"} \cup Freed("transform"), {"self"})
    BY <1>21, <1>22, Weaker
  <1> QED
    BY <1>2, <1>23

LEMMA FftFits ==
    ASSUME NEW r, r.maker = "fft", Accepts(r)
    PROVE  /\ Stretch(FftSteps(r), r, {"self"} \cup Freed("transform"), {"self"})
           /\ Plain(r) => Stretch(FftSteps(r), r, {"self", "code", "t0", "scratch"}, {"self"})
  <1> DEFINE path == FftPath(r.n, r.flags)
             few == {"self", "code", "t0", "scratch"}
             all == {"self"} \cup Freed("transform")
  <1>1. Kind(r) = "transform" /\ r.maker # "bank"
    BY DEF Kind
  <1>2. few \subseteq all /\ {"self", "t0", "t1", "t2", "scratch"} \subseteq all
        /\ {"self", "scratch"} \subseteq few
    BY DEF Freed
  <1>3. path # "none"
    BY DEF Accepts
  <1>4. /\ Direct(r.n, r.flags) => path \in {"codelet", "splitradix", "radix2", "mixed"}
        /\ ~Direct(r.n, r.flags) => \/ path = "rader" /\ RaderEligible(r.n)
                                    \/ path \in {"bluestein", "none"}
    BY Paths
  <1>5. Plain(r) <=> path \notin {"splitradix", "rader", "bluestein"}
    BY DEF Plain
  <1> HIDE DEF few, all
  <1>6. CASE path = "codelet"
    <2>1. FftSteps(r) = CodeletSteps(r)
      BY <1>6 DEF FftSteps
    <2>2. Stretch(CodeletSteps(r), r, {"self", "scratch"}, {"self"})
      BY <1>1, CodeletFits
    <2>3. {"self", "scratch"} \subseteq all
      BY <1>2
    <2>4. Stretch(CodeletSteps(r), r, few, {"self"}) /\ Stretch(CodeletSteps(r), r, all, {"self"})
      BY <1>2, <2>2, <2>3, Weaker
    <2> QED
      BY <2>1, <2>4 DEF few, all
  <1>7. CASE path = "splitradix"
    <2>1. FftSteps(r) = SplitRadixSteps(r)
      BY <1>7 DEF FftSteps
    <2>2. Stretch(SplitRadixSteps(r), r, {"self", "t0", "t1", "t2", "scratch"}, {"self"})
      BY <1>1, SplitRadixFits
    <2>3. Stretch(SplitRadixSteps(r), r, all, {"self"})
      BY <1>2, <2>2, Weaker
    <2> QED
      BY <1>5, <1>7, <2>1, <2>3 DEF all
  <1>8. CASE path \in {"radix2", "mixed"}
    <2>1. \E b : FftSteps(r) = GeneratedSteps(r, b)
      BY <1>8 DEF FftSteps
    <2>2. PICK b : FftSteps(r) = GeneratedSteps(r, b)
      BY <2>1
    <2>3. Stretch(GeneratedSteps(r, b), r, few, {"self"})
      BY <1>1, GeneratedFits DEF few
    <2>4. Stretch(GeneratedSteps(r, b), r, all, {"self"})
      BY <1>2, <2>3, Weaker
    <2> QED
      BY <2>2, <2>3, <2>4 DEF few, all
  <1>9. CASE path = "rader"
    <2>1. FftSteps(r) = RaderSteps(r)
      BY <1>9 DEF FftSteps
    <2>2. RaderEligible(r.n)
      BY <1>4, <1>9
    <2> QED
      BY <1>1, <1>5, <1>9, <2>1, <2>2, RaderFits
  <1>10. CASE path = "bluestein"
    <2>1. FftSteps(r) = BluesteinSteps(r)
      BY <1>10 DEF FftSteps
    <2>2. SizesAgree /\ Sized(r) => Is5Smooth(BluesteinLength(r.n))
      BY <1>4, <1>10 DEF SizesAgree, Sized
    <2>3. "bluestein" \in r.flags
      BY <1>10, Paths
    <2> QED
      BY <1>1, <1>5, <1>10, <2>1, <2>2, <2>3, BluesteinFits
  <1> QED
    BY <1>3, <1>4, <1>6, <1>7, <1>8, <1>9, <1>10

LEMMA StepsGood ==
    ASSUME NEW r, IsRequest(r), Accepts(r)
    PROVE  Stretch(Steps(r), r, {"self"} \cup Freed(Kind(r)), {"self"})
  <1>1. r.maker \in Makers \cup {"bank"}
    BY DEF IsRequest
  <1>2. r.maker # "bank" => Kind(r) = "transform"
    BY DEF Kind
  <1>3. CASE r.maker = "fft"
    BY <1>2, <1>3, FftFits DEF Steps
  <1>4. CASE r.maker = "stft"
    BY <1>2, <1>4, StftFits DEF Steps
  <1>5. CASE r.maker \in {"dct", "dst", "mdct"}
    BY <1>2, <1>5, RealFits DEF Steps
  <1>6. CASE r.maker = "dwt"
    BY <1>2, <1>6, DwtFits DEF Steps
  <1>7. CASE r.maker = "rfft"
    BY <1>2, <1>7, RfftFits DEF Steps
  <1>8. CASE r.maker = "bank"
    <2>1. Kind(r) = "bank"
      BY <1>8 DEF Kind
    <2> QED
      BY <1>8, <2>1, BankFits DEF Steps
  <1>9. CASE r.maker \in {"cwt", "icwt"}
    BY <1>2, <1>9, CwtFits DEF Steps
  <1>10. CASE r.maker = "pipeline"
    BY <1>2, <1>10, PipelineFits DEF Steps
  <1> QED
    BY <1>1, <1>3, <1>4, <1>5, <1>6, <1>7, <1>8, <1>9, <1>10 DEF Makers

-----------------------------------------------------------------------------
(* Those who hold pointers are different ones.                             *)
LEMMA Holders ==
    /\ Caller # Destroyer
    /\ \A k : Frame(k) # Caller /\ Frame(k) # Destroyer
    /\ \A b : Block(b) # Caller /\ Block(b) # Destroyer
    /\ \A k, b : Frame(k) # Block(b)
    /\ \A j, k : Frame(j) = Frame(k) => j = k
    /\ \A b, c : Block(b) = Block(c) => b = c
  BY DEF Caller, Destroyer, Frame, Block

LEMMA Pointers ==
    \A by, at, to : /\ Pointer(by, at, to).by = by /\ Pointer(by, at, to).at = at
                    /\ Pointer(by, at, to).to = to
  BY DEF Pointer

-----------------------------------------------------------------------------
(* The invariant, over the heap h, the pointers q, the stack s and the call *)
(* c: everything the theorems need of a state.                             *)

(* What a request keeps to, the caller's and those made of it.             *)
Proper(r) ==
    /\ IsRequest(r)
    /\ WindowsApart /\ r.maker = "stft" => Plain(r)
    /\ SizesAgree => Sized(r)

(* Pointers are held by someone who is there, lead to live blocks, and no  *)
(* two to the same; a block has only pointers that destroy frees.          *)
Holding(h, by, n) ==
    \/ by = Caller \/ by = Destroyer
    \/ \E k \in 1..n : by = Frame(k)
    \/ \E b \in DOMAIN h : by = Block(b)
Sound(h, q, n) ==
    \A p \in q : p = Pointer(p.by, p.at, p.to) /\ p.to \in DOMAIN h /\ Holding(h, p.by, n)
Single(q) == \A p \in q : \A o \in q : p.to = o.to => p = o
Tidy(h, q) == \A b \in DOMAIN h : \A p \in q : p.by = Block(b) => p.at \in Freed(h[b].kind)
Reached(h, q) == \A b \in DOMAIN h : \E p \in q : p.to = b
Entries(h) ==
    \A b \in DOMAIN h :
        /\ h[b] = [kind |-> h[b].kind, bytes |-> h[b].bytes, req |-> h[b].req, fn |-> h[b].fn]
        /\ Proper(h[b].req)

(* A constructor at work: what the steps behind it may have filled, and    *)
(* what they are sure to have.                                             *)
Gave(f, at) == \E j \in 1..f.pc - 1 : at \in Fills(Steps(f.req)[j])
Assured(f, at) == \E j \in 1..f.pc - 1 : at \in Surely(Steps(f.req)[j])
Holds(q, k, p) == p \in q /\ p.by = Frame(k)
OwnSelf(q, k, p) == Holds(q, k, p) /\ p.at = "self"
Frames(f) ==
    /\ f = [req |-> f.req, pc |-> f.pc]
    /\ Proper(f.req) /\ Accepts(f.req)
    /\ f.pc \in 0..Len(Steps(f.req)) + 1
AtWork(h, q, f, k, c) ==
    /\ Frames(f)
    /\ \A p : Holds(q, k, p) => Gave(f, p.at)
    /\ Assured(f, "self") => \E p : OwnSelf(q, k, p)
    /\ \A p : OwnSelf(q, k, p) =>
           /\ \A o : Holds(q, k, o) => o = p
           /\ h[p.to].kind = Kind(f.req)
           /\ \A o \in q : o.by = Block(p.to) => Gave(f, o.at)
    /\ \A at : Assured(f, at) /\ at # "self" /\ ~c.denied =>
           \E o \in q : /\ o.at = at
                        /\ o.by = Frame(k) \/ \E p : OwnSelf(q, k, p) /\ o.by = Block(p.to)
Waits(f, g) ==
    /\ f.pc \in 1..Len(Steps(f.req))
    /\ Steps(f.req)[f.pc].op = "make" /\ Steps(f.req)[f.pc].req = g.req
Nested(s) ==
    /\ \E S : s \in Seq(S)
    /\ \A k \in 1..Len(s) - 1 : Waits(s[k], s[k + 1])
CoreInv(h, q, s, c) ==
    /\ Sound(h, q, Len(s)) /\ Single(q) /\ Tidy(h, q) /\ Entries(h)
    /\ Nested(s)
    /\ \A k \in 1..Len(s) : AtWork(h, q, s[k], k, c)
LifeInv(h, q, s, c) == CoreInv(h, q, s, c) /\ (WindowsApart => Reached(h, q))

-----------------------------------------------------------------------------
(* A frame whose pointers, and those of the object it builds, stay as they *)
(* are is where it was.                                                    *)
LEMMA Undisturbed ==
    ASSUME NEW h, NEW q, NEW h2, NEW q2, NEW f, NEW k, NEW c, NEW c2,
           AtWork(h, q, f, k, c), c.denied => c2.denied,
           \A p : Holds(q, k, p) <=> Holds(q2, k, p),
           \A p : OwnSelf(q, k, p) =>
               /\ h2[p.to].kind = h[p.to].kind
               /\ \A o : o.by = Block(p.to) => (o \in q <=> o \in q2)
    PROVE  AtWork(h2, q2, f, k, c2)
  <1>1. \A p : OwnSelf(q, k, p) <=> OwnSelf(q2, k, p)
    BY DEF OwnSelf
  <1>2. Frames(f) /\ \A p : Holds(q2, k, p) => Gave(f, p.at)
    BY DEF AtWork
  <1>3. Assured(f, "self") => \E p : OwnSelf(q2, k, p)
    BY <1>1 DEF AtWork
  <1>4. ASSUME NEW p, OwnSelf(q2, k, p)
        PROVE  /\ \A o : Holds(q2, k, o) => o = p
               /\ h2[p.to].kind = Kind(f.req)
               /\ \A o \in q2 : o.by = Block(p.to) => Gave(f, o.at)
    BY <1>1, <1>4 DEF AtWork
  <1>5. ASSUME NEW at, Assured(f, at), at # "self", ~c2.denied
        PROVE  \E o \in q2 : /\ o.at = at
                             /\ o.by = Frame(k) \/ \E p : OwnSelf(q2, k, p) /\ o.by = Block(p.to)
    <2>1. PICK o \in q : /\ o.at = at
                         /\ o.by = Frame(k) \/ \E p : OwnSelf(q, k, p) /\ o.by = Block(p.to)
      BY <1>5 DEF AtWork
    <2>2. CASE o.by = Frame(k)
      BY <2>1, <2>2 DEF Holds
    <2>3. CASE \E p : OwnSelf(q, k, p) /\ o.by = Block(p.to)
      BY <1>1, <2>1, <2>3
    <2> QED
      BY <2>1, <2>2, <2>3
  <1> QED
    BY <1>2, <1>3, <1>4, <1>5 DEF AtWork

(* One step further.                                                       *)
LEMMA NextGave ==
    ASSUME NEW f, NEW g, Frames(f), f.pc \in 1..Len(Steps(f.req)),
           g = [f EXCEPT !.pc = @ + 1]
    PROVE  /\ Frames(g) /\ g.req = f.req /\ g.pc = f.pc + 1
           /\ \A at : Gave(g, at) <=> Gave(f, at) \/ at \in Fills(Steps(f.req)[f.pc])
           /\ \A at : Assured(g, at) <=> Assured(f, at) \/ at \in Surely(Steps(f.req)[f.pc])
  <1>1. PICK r, i : f = [req |-> r, pc |-> i]
    BY DEF Frames
  <1>2. f.req = r /\ f.pc = i /\ g = [req |-> r, pc |-> i + 1]
    BY <1>1
  <1>3. g.req = r /\ g.pc = i + 1
    BY <1>2
  <1>4. i \in 1..Len(Steps(r)) /\ i \in 0..Len(Steps(r)) + 1 /\ Proper(r) /\ Accepts(r)
    BY <1>2 DEF Frames
  <1>5. Len(Steps(r)) \in Nat
    <2>1. Stretch(Steps(r), r, {"self"} \cup Freed(Kind(r)), {"self"})
      BY <1>4, StepsGood DEF Proper
    <2> QED
      BY <2>1 DEF Stretch
  <1>6. Frames(g)
    BY <1>2, <1>3, <1>4, <1>5 DEF Frames
  <1>7. 1..g.pc - 1 = (1..f.pc - 1) \cup {f.pc}
    BY <1>2, <1>3, <1>4, <1>5
  <1> QED
    BY <1>2, <1>3, <1>6, <1>7 DEF Gave, Assured

(* What is known of the step a constructor is at.                          *)
LEMMA StepKnown ==
    ASSUME NEW f, Frames(f)
    PROVE  /\ f.pc \in 1..Len(Steps(f.req)) =>
                  /\ StepFits(Steps(f.req)[f.pc], f.req)
                  /\ NeedsSelf(Steps(f.req)[f.pc]) => Assured(f, "self")
                  /\ Steps(f.req)[f.pc].op = "check" =>
                         \A at \in Steps(f.req)[f.pc].ats : Assured(f, at) /\ at # "self"
                  /\ Steps(f.req)[f.pc].op # "window" \/ WindowsApart =>
                         \A at \in Fills(Steps(f.req)[f.pc]) : ~Gave(f, at)
           /\ f.pc = Len(Steps(f.req)) + 1 => Assured(f, "self")
           /\ \A at : Gave(f, at) => at \in {"self"} \cup Freed(Kind(f.req))
           /\ Len(Steps(f.req)) \in Nat
  <1> DEFINE s == Steps(f.req)
             i == f.pc
  <1>1. Stretch(s, f.req, {"self"} \cup Freed(Kind(f.req)), {"self"})
    BY StepsGood DEF Frames, Proper
  <1>2. Len(s) \in Nat
    BY <1>1 DEF Stretch
  <1> HIDE DEF s
  <1>3. \A j \in 1..Len(s) : Orderly(s, j, f.req)
                             /\ Fills(s[j]) \subseteq {"self"} \cup Freed(Kind(f.req))
    BY <1>1 DEF Stretch
  <1>4. ASSUME i \in 1..Len(s)
        PROVE  /\ StepFits(s[i], f.req)
               /\ NeedsSelf(s[i]) => \E j \in 1..i - 1 : "self" \in Surely(s[j])
               /\ s[i].op = "check" => \A at \in s[i].ats :
                      (\E j \in 1..i - 1 : at \in Surely(s[j])) /\ at # "self"
               /\ s[i].op # "window" \/ WindowsApart =>
                      \A at \in Fills(s[i]) : ~\E j \in 1..i - 1 : at \in Fills(s[j])
    <2>1. Orderly(s, i, f.req)
      BY <1>3, <1>4
    <2>2. s[i].op = "check" => "self" \notin s[i].ats
      BY <2>1 DEF Orderly, StepFits
    <2> QED
      BY <2>1, <2>2 DEF Orderly
  <1>5. i = Len(s) + 1 => \E j \in 1..i - 1 : "self" \in Surely(s[j])
    <2>1. i = Len(s) + 1 => 1..i - 1 = 1..Len(s)
      BY <1>2
    <2> QED
      BY <1>1, <2>1 DEF Stretch, Secures
  <1>6. 1..i - 1 \subseteq 1..Len(s)
    BY <1>2 DEF Frames, s
  <1>7. \A at : Gave(f, at) => at \in {"self"} \cup Freed(Kind(f.req))
    BY <1>3, <1>6 DEF Gave, s
  <1> QED
    BY <1>2, <1>4, <1>5, <1>7 DEF Gave, Assured, s

(* The constructor goes on with the pointers it has: its step is sure of   *)
(* nothing, or of what is there, or memory was refused.                    *)
LEMMA Advanced ==
    ASSUME NEW h, NEW q, NEW h2, NEW f, NEW g, NEW k, NEW c, NEW c2,
           AtWork(h, q, f, k, c), f.pc \in 1..Len(Steps(f.req)),
           g = [f EXCEPT !.pc = @ + 1], c.denied => c2.denied,
           "self" \in Surely(Steps(f.req)[f.pc]) => \E p : OwnSelf(q, k, p),
           \A at \in Surely(Steps(f.req)[f.pc]) : at = "self" \/ c2.denied,
           \A p : OwnSelf(q, k, p) => h2[p.to].kind = h[p.to].kind
    PROVE  AtWork(h2, q, g, k, c2)
  <1>1. AtWork(h2, q, f, k, c2)
    BY Undisturbed
  <1>2. /\ Frames(g) /\ g.req = f.req
        /\ \A at : Gave(g, at) <=> Gave(f, at) \/ at \in Fills(Steps(f.req)[f.pc])
        /\ \A at : Assured(g, at) <=> Assured(f, at) \/ at \in Surely(Steps(f.req)[f.pc])
    BY NextGave DEF AtWork
  <1>3. \A p : OwnSelf(q, k, p) =>
            /\ \A o : Holds(q, k, o) => o = p
            /\ h2[p.to].kind = Kind(g.req)
            /\ \A o \in q : o.by = Block(p.to) => Gave(g, o.at)
    BY <1>1, <1>2 DEF AtWork
  <1>4. \A at : Assured(g, at) /\ at # "self" /\ ~c2.denied =>
            \E o \in q : /\ o.at = at
                         /\ o.by = Frame(k) \/ \E p : OwnSelf(q, k, p) /\ o.by = Block(p.to)
    BY <1>1, <1>2 DEF AtWork
  <1>5. /\ \A p : Holds(q, k, p) => Gave(g, p.at)
        /\ Assured(g, "self") => \E p : OwnSelf(q, k, p)
    BY <1>1, <1>2 DEF AtWork
  <1> QED
    BY <1>2, <1>3, <1>4, <1>5 DEF AtWork

(* Only the frame on top of the stack moves.                               *)
Spares(h, q, h2, q2, n) ==
    \A k \in 1..n - 1 :
        /\ \A p : Holds(q, k, p) <=> Holds(q2, k, p)
        /\ \A p : OwnSelf(q, k, p) =>
               /\ h2[p.to].kind = h[p.to].kind
               /\ \A o : o.by = Block(p.to) => (o \in q <=> o \in q2)
LEMMA TopMoves ==
    ASSUME NEW h, NEW q, NEW s, NEW c, NEW h2, NEW q2, NEW c2, NEW i,
           CoreInv(h, q, s, c), s # <<>>,
           Sound(h2, q2, Len(s)), Single(q2), Tidy(h2, q2), Entries(h2),
           AtWork(h2, q2, [s[Len(s)] EXCEPT !.pc = i], Len(s), c2), c.denied => c2.denied,
           Spares(h, q, h2, q2, Len(s))
    PROVE  CoreInv(h2, q2, [s EXCEPT ![Len(s)].pc = i], c2)
  <1> DEFINE n == Len(s)
             s2 == [s EXCEPT ![n].pc = i]
  <1>1. PICK S : s \in Seq(S)
    BY DEF CoreInv, Nested
  <1>2. n \in Nat \ {0} /\ n \in 1..n
    BY <1>1
  <1>3. /\ s2 = [s EXCEPT ![n] = [s[n] EXCEPT !.pc = i]] /\ \E T : s2 \in Seq(T)
    <2>1. s2 \in Seq(S \cup {[s[n] EXCEPT !.pc = i]})
      BY <1>1, <1>2
    <2> QED
      BY <2>1
  <1>4. Len(s2) = n /\ s2[n] = [s[n] EXCEPT !.pc = i] /\ \A k \in 1..n - 1 : s2[k] = s[k]
    BY <1>1, <1>2
  <1>5. s2[n].req = s[n].req
    <2>1. AtWork(h, q, s[n], n, c)
      BY <1>2 DEF CoreInv
    <2>2. s[n] = [req |-> s[n].req, pc |-> s[n].pc]
      BY <2>1 DEF AtWork, Frames
    <2> QED
      BY <1>4, <2>2
  <1> HIDE DEF n, s2
  <1>6. \A k \in 1..n - 1 : Waits(s2[k], s2[k + 1])
    <2> TAKE k \in 1..n - 1
    <2>1. Waits(s[k], s[k + 1])
      BY DEF CoreInv, Nested, n
    <2>3. k + 1 = n \/ k + 1 \in 1..n - 1
      BY <1>2
    <2>2. s2[k] = s[k] /\ s2[k + 1].req = s[k + 1].req
      BY <1>4, <1>5, <2>3
    <2> QED
      BY <2>1, <2>2 DEF Waits
  <1>7. \A k \in 1..n - 1 : AtWork(h2, q2, s2[k], k, c2)
    <2> TAKE k \in 1..n - 1
    <2>1. AtWork(h, q, s[k], k, c)
      BY <1>2 DEF CoreInv, n
    <2>2. AtWork(h2, q2, s[k], k, c2)
      BY <2>1, Undisturbed DEF n, Spares
    <2> QED
      BY <1>4, <2>2
  <1>8. AtWork(h2, q2, s2[n], n, c2)
    BY <1>4 DEF n
  <1>9. 1..n = (1..n - 1) \cup {n}
    BY <1>2
  <1> QED
    BY <1>3, <1>4, <1>6, <1>7, <1>8, <1>9 DEF CoreInv, Nested, n, s2

(* The frame on top gives up: destroy gets what it held.                   *)
Abandoned(q, k) == {IF p.by = Frame(k) THEN Pointer(Destroyer, "", p.to) ELSE p : p \in q}
Doomed(b) == Pointer(Destroyer, "", b)
LEMMA DoomedPointer ==
    \A b : /\ Doomed(b).by = Destroyer /\ Doomed(b).to = b
           /\ Doomed(b) = Pointer(Doomed(b).by, Doomed(b).at, Doomed(b).to)
  BY DEF Doomed, Pointer
LEMMA Abandons ==
    ASSUME NEW h, NEW q, NEW s, NEW c, NEW c2,
           LifeInv(h, q, s, c), s # <<>>, c.denied => c2.denied
    PROVE  LifeInv(h, Abandoned(q, Len(s)), [s EXCEPT ![Len(s)].pc = 0], c2)
  <1> DEFINE n == Len(s)
             q2 == Abandoned(q, n)
             g == [s[n] EXCEPT !.pc = 0]
  <1>1. PICK S : s \in Seq(S)
    BY DEF LifeInv, CoreInv, Nested
  <1>2. n \in Nat \ {0} /\ n \in 1..n
    BY <1>1
  <1>3. /\ \A p \in q : p.by # Frame(n) => p \in q2
        /\ \A p \in q : p.by = Frame(n) => Doomed(p.to) \in q2
        /\ \A o \in q2 : \/ o \in q /\ o.by # Frame(n)
                         \/ \E p \in q : p.by = Frame(n) /\ o = Doomed(p.to)
    BY DEF Abandoned, Doomed
  <1>4. AtWork(h, q, s[n], n, c)
    BY <1>2 DEF LifeInv, CoreInv
  <1> HIDE DEF n, q2
  <1>5. Sound(h, q, n) /\ Single(q) /\ Tidy(h, q) /\ Entries(h)
    BY DEF LifeInv, CoreInv, n
  <1>6. Sound(h, q2, n)
    <2> SUFFICES ASSUME NEW o \in q2
                 PROVE  o = Pointer(o.by, o.at, o.to) /\ o.to \in DOMAIN h /\ Holding(h, o.by, n)
      BY DEF Sound
    <2>1. CASE o \in q
      BY <1>5, <2>1 DEF Sound
    <2>2. CASE \E p \in q : p.by = Frame(n) /\ o = Doomed(p.to)
      BY <1>5, <2>2, DoomedPointer DEF Sound, Holding
    <2> QED
      BY <1>3, <2>1, <2>2
  <1>7. Single(q2)
    <2> SUFFICES ASSUME NEW o \in q2, NEW u \in q2, o.to = u.to PROVE o = u
      BY DEF Single
    <2>1. \A v \in q2 : \E p \in q : /\ p.to = v.to
                                     /\ p.by = Frame(n) => v = Doomed(p.to)
                                     /\ p.by # Frame(n) => v = p
      BY <1>3, DoomedPointer
    <2>2. PICK p \in q : /\ p.to = o.to
                         /\ p.by = Frame(n) => o = Doomed(p.to)
                         /\ p.by # Frame(n) => o = p
      BY <2>1
    <2>3. PICK r \in q : /\ r.to = u.to
                         /\ r.by = Frame(n) => u = Doomed(r.to)
                         /\ r.by # Frame(n) => u = r
      BY <2>1
    <2>4. p = r
      BY <1>5, <2>2, <2>3 DEF Single
    <2> QED
      BY <2>2, <2>3, <2>4
  <1>8. \A b : \A o : o.by = Block(b) => (o \in q <=> o \in q2)
    BY <1>3, Holders, DoomedPointer
  <1>9. Tidy(h, q2)
    BY <1>5, <1>8 DEF Tidy
  <1>10. Reached(h, q) => Reached(h, q2)
    BY <1>3, DoomedPointer DEF Reached
  <1>11. \A k \in 1..n - 1 : \A p : Holds(q, k, p) <=> Holds(q2, k, p)
    <2> TAKE k \in 1..n - 1
    <2>1. Frame(k) # Frame(n) /\ Frame(k) # Destroyer
      BY <1>2, Holders
    <2> QED
      BY <1>3, <2>1, DoomedPointer DEF Holds
  <1>12. \A p : ~Holds(q2, n, p)
    BY <1>3, Holders, DoomedPointer DEF Holds
  <1>13. AtWork(h, q2, g, n, c2)
    <2>1. Frames(s[n])
      BY <1>4 DEF AtWork
    <2>2. PICK r, i : s[n] = [req |-> r, pc |-> i]
      BY <2>1 DEF Frames
    <2>3. g.req = s[n].req /\ g.pc = 0 /\ g = [req |-> g.req, pc |-> g.pc]
      BY <2>2
    <2> HIDE DEF g
    <2>4. Len(Steps(s[n].req)) \in Nat
      BY <2>1, StepKnown
    <2>5. Frames(g)
      BY <2>1, <2>3, <2>4 DEF Frames
    <2>6. 1..g.pc - 1 = {}
      BY <2>3
    <2>7. \A at : ~Assured(g, at)
      BY <2>6 DEF Assured
    <2> QED
      BY <1>12, <2>5, <2>7 DEF AtWork, OwnSelf
  <1>14. Spares(h, q, h, q2, n)
    BY <1>8, <1>11 DEF Spares
  <1> USE DEF n
  <1> HIDE DEF g
  <1>15. CoreInv(h, q2, [s EXCEPT ![Len(s)].pc = 0], c2)
    <2>1. CoreInv(h, q, s, c)
      BY DEF LifeInv
    <2>2. AtWork(h, q2, [s[Len(s)] EXCEPT !.pc = 0], Len(s), c2)
      BY <1>13 DEF g
    <2> QED
      BY <1>5, <1>6, <1>7, <1>9, <1>14, <2>1, <2>2, TopMoves
  <1> QED
    BY <1>10, <1>15 DEF LifeInv, q2

(* The frame on top goes on, on the pointers as they are.                  *)
LEMMA GoesOn ==
    ASSUME NEW h, NEW q, NEW s, NEW c, NEW h2, NEW c2,
           LifeInv(h, q, s, c), s # <<>>, c.denied => c2.denied,
           s[Len(s)].pc \in 1..Len(Steps(s[Len(s)].req)),
           LET step == Steps(s[Len(s)].req)[s[Len(s)].pc]
           IN  /\ "self" \in Surely(step) => \E p : OwnSelf(q, Len(s), p)
               /\ \A at \in Surely(step) : at = "self" \/ c2.denied,
           DOMAIN h2 = DOMAIN h, \A b \in DOMAIN h : h2[b].kind = h[b].kind,
           Entries(h2)
    PROVE  LifeInv(h2, q, [s EXCEPT ![Len(s)].pc = @ + 1], c2)
  <1> DEFINE n == Len(s)
             g == [s[n] EXCEPT !.pc = @ + 1]
             j == s[n].pc + 1
  <1>1. PICK S : s \in Seq(S)
    BY DEF LifeInv, CoreInv, Nested
  <1>2. n \in Nat \ {0} /\ n \in 1..n
    BY <1>1
  <1>3. AtWork(h, q, s[n], n, c)
    BY <1>2 DEF LifeInv, CoreInv
  <1>4. Sound(h, q, n) /\ Single(q) /\ Tidy(h, q)
    BY DEF LifeInv, CoreInv
  <1>5. \A k : \A p : OwnSelf(q, k, p) => h2[p.to].kind = h[p.to].kind
    BY <1>4 DEF Sound, OwnSelf, Holds
  <1>6. AtWork(h2, q, g, n, c2)
    BY <1>3, <1>5, Advanced
  <1>7. Sound(h2, q, n) /\ Tidy(h2, q) /\ (Reached(h, q) => Reached(h2, q))
    BY <1>4 DEF Sound, Tidy, Reached, Holding
  <1>8. [s EXCEPT ![n].pc = @ + 1] = [s EXCEPT ![n].pc = j]
    BY <1>1, <1>2
  <1>9. g = [s[n] EXCEPT !.pc = j]
    OBVIOUS
  <1> HIDE DEF g, j
  <1>10. CoreInv(h2, q, [s EXCEPT ![n].pc = j], c2)
    <2>1. CoreInv(h, q, s, c)
      BY DEF LifeInv
    <2>2. AtWork(h2, q, [s[n] EXCEPT !.pc = j], n, c2)
      BY <1>6, <1>9
    <2>3. Spares(h, q, h2, q, n)
      BY <1>5 DEF Spares
    <2> QED
      BY <1>4, <1>7, <2>1, <2>2, <2>3, TopMoves
  <1> QED
    BY <1>7, <1>8, <1>10 DEF LifeInv


LEMMA RecordIs ==
    ASSUME NEW kind, NEW bytes, NEW r
    PROVE  LET x == Record(kind, bytes, r)
           IN  /\ x.kind = kind /\ x.req = r
               /\ x = [kind |-> x.kind, bytes |-> x.bytes, req |-> x.req, fn |-> x.fn]
  BY DEF Record

LEMMA EntriesGrow ==
    ASSUME NEW h, NEW b, NEW kind, NEW bytes, NEW r, Entries(h), Proper(r)
    PROVE  Entries(Stored(h, b, Record(kind, bytes, r)))
  <1> DEFINE x == Record(kind, bytes, r)
             h2 == Stored(h, b, x)
  <1>1. DOMAIN h2 = DOMAIN h \cup {b} /\ h2[b] = x /\ \A a \in DOMAIN h : a # b => h2[a] = h[a]
    <2> HIDE DEF x
    <2> QED
      BY DEF Stored
  <1>2. x.req = r /\ x = [kind |-> x.kind, bytes |-> x.bytes, req |-> x.req, fn |-> x.fn]
    BY RecordIs
  <1> HIDE DEF x, h2
  <1>3. Entries(h2)
    BY <1>1, <1>2 DEF Entries
  <1> QED
    BY <1>3 DEF h2, x

(* The object is allocated and takes over what was made before it.         *)
Moved(b, p) == Pointer(Block(b), p.at, p.to)
Own(k, b) == Pointer(Frame(k), "self", b)
Taken(q, k, b) == {IF p.by = Frame(k) THEN Moved(b, p) ELSE p : p \in q} \cup {Own(k, b)}
LEMMA MovedPointer ==
    \A b, p : /\ Moved(b, p).by = Block(b) /\ Moved(b, p).at = p.at /\ Moved(b, p).to = p.to
              /\ Moved(b, p) = Pointer(Moved(b, p).by, Moved(b, p).at, Moved(b, p).to)
  BY DEF Moved, Pointer
LEMMA OwnPointer ==
    \A k, b : /\ Own(k, b).by = Frame(k) /\ Own(k, b).at = "self" /\ Own(k, b).to = b
              /\ Own(k, b) = Pointer(Own(k, b).by, Own(k, b).at, Own(k, b).to)
  BY DEF Own, Pointer

LEMMA Builds ==
    ASSUME NEW h, NEW q, NEW s, NEW c, NEW b,
           LifeInv(h, q, s, c), s # <<>>, b \notin DOMAIN h,
           s[Len(s)].pc \in 1..Len(Steps(s[Len(s)].req)),
           Steps(s[Len(s)].req)[s[Len(s)].pc].op = "new"
    PROVE  LifeInv(Stored(h, b, Record(Steps(s[Len(s)].req)[s[Len(s)].pc].kind, 0, s[Len(s)].req)),
                   Taken(q, Len(s), b), [s EXCEPT ![Len(s)].pc = @ + 1], c)
  <1> DEFINE n == Len(s)
             f == s[n]
             g == [f EXCEPT !.pc = @ + 1]
             j == f.pc + 1
             step == Steps(f.req)[f.pc]
             block == Record(step.kind, 0, f.req)
             h2 == Stored(h, b, block)
             q2 == Taken(q, n, b)
  <1>1. PICK S : s \in Seq(S)
    BY DEF LifeInv, CoreInv, Nested
  <1>2. n \in Nat \ {0} /\ n \in 1..n
    BY <1>1
  <1>3. AtWork(h, q, f, n, c)
    BY <1>2 DEF LifeInv, CoreInv
  <1>4. Sound(h, q, n) /\ Single(q) /\ Tidy(h, q) /\ Entries(h)
    BY DEF LifeInv, CoreInv
  <1>5. Frames(f) /\ Proper(f.req)
    BY <1>3 DEF AtWork, Frames
  <1>6. /\ step.kind = Kind(f.req) /\ Fills(step) = {"self"} /\ Surely(step) = {"self"}
        /\ ~Gave(f, "self") /\ \A at : Gave(f, at) => at \in Freed(Kind(f.req))
    <2>1. Fills(step) = {"self"} /\ Surely(step) = {"self"}
      BY DEF Fills, Surely
    <2>2. step.kind = Kind(f.req)
      BY <1>5, StepKnown DEF StepFits
    <2>3. step.op # "window" => \A at \in Fills(step) : ~Gave(f, at)
      BY <1>5, StepKnown
    <2>4. \A at : Gave(f, at) => at \in {"self"} \cup Freed(Kind(f.req))
      BY <1>5, StepKnown
    <2> HIDE DEF step, f
    <2> QED
      BY <2>1, <2>2, <2>3, <2>4 DEF step, f
  <1>7. /\ Frames(g) /\ g.req = f.req
        /\ \A at : Gave(g, at) <=> Gave(f, at) \/ at = "self"
        /\ \A at : Assured(g, at) <=> Assured(f, at) \/ at = "self"
    BY <1>5, <1>6, NextGave
  <1>8. block.kind = step.kind
    BY RecordIs
  <1>9. Entries(h2)
    BY <1>4, <1>5, EntriesGrow
  <1>10. /\ DOMAIN h2 = DOMAIN h \cup {b} /\ h2[b].kind = Kind(f.req)
         /\ \A a \in DOMAIN h : a # b /\ h2[a] = h[a]
    <2> HIDE DEF block
    <2>1. /\ DOMAIN h2 = DOMAIN h \cup {b} /\ h2[b] = block
          /\ \A a \in DOMAIN h : a # b => h2[a] = h[a]
      BY DEF Stored
    <2> HIDE DEF h2
    <2> QED
      BY <1>6, <1>8, <2>1
  <1>11. /\ \A p \in q : p.by # Frame(n) => p \in q2
         /\ \A p \in q : p.by = Frame(n) => Moved(b, p) \in q2
         /\ Own(n, b) \in q2
         /\ \A o \in q2 : \/ o \in q /\ o.by # Frame(n)
                          \/ \E p \in q : p.by = Frame(n) /\ o = Moved(b, p)
                          \/ o = Own(n, b)
    BY DEF Taken
  <1>12. [s EXCEPT ![n].pc = @ + 1] = [s EXCEPT ![n].pc = j] /\ g = [s[n] EXCEPT !.pc = j]
    BY <1>1, <1>2
  <1> HIDE DEF n, f, g, j, step, block, h2, q2
  <1>13. \A o \in q : o.by # Block(b)
    BY <1>4, Holders DEF Sound, Holding
  <1>14. Sound(h2, q2, n)
    <2> SUFFICES ASSUME NEW o \in q2
                 PROVE  o = Pointer(o.by, o.at, o.to) /\ o.to \in DOMAIN h2 /\ Holding(h2, o.by, n)
      BY DEF Sound
    <2>1. \A by : Holding(h, by, n) => Holding(h2, by, n)
      BY <1>10 DEF Holding
    <2>2. CASE o \in q
      BY <1>4, <1>10, <2>1, <2>2 DEF Sound
    <2>3. CASE \E p \in q : p.by = Frame(n) /\ o = Moved(b, p)
      <3>1. Holding(h2, Block(b), n)
        BY <1>10 DEF Holding
      <3> QED
        BY <1>4, <1>10, <2>3, <3>1, MovedPointer DEF Sound
    <2>4. CASE o = Own(n, b)
      <3>1. Holding(h2, Frame(n), n)
        BY <1>2 DEF Holding, n
      <3> QED
        BY <1>10, <2>4, <3>1, OwnPointer
    <2> QED
      BY <1>11, <2>2, <2>3, <2>4
  <1>15. Single(q2)
    <2> SUFFICES ASSUME NEW o \in q2, NEW u \in q2, o.to = u.to PROVE o = u
      BY DEF Single
    <2>1. \A v \in q2 : v # Own(n, b) =>
              \E p \in q : /\ p.to = v.to /\ p.to \in DOMAIN h
                           /\ p.by = Frame(n) => v = Moved(b, p)
                           /\ p.by # Frame(n) => v = p
      BY <1>4, <1>11, MovedPointer DEF Sound
    <2>2. CASE o = Own(n, b) \/ u = Own(n, b)
      BY <2>1, <2>2, OwnPointer
    <2>3. CASE o # Own(n, b) /\ u # Own(n, b)
      <3>1. PICK p \in q : /\ p.to = o.to
                           /\ p.by = Frame(n) => o = Moved(b, p)
                           /\ p.by # Frame(n) => o = p
        BY <2>1, <2>3
      <3>2. PICK r \in q : /\ r.to = u.to
                           /\ r.by = Frame(n) => u = Moved(b, r)
                           /\ r.by # Frame(n) => u = r
        BY <2>1, <2>3
      <3>3. p = r
        BY <1>4, <3>1, <3>2 DEF Single
      <3> QED
        BY <3>1, <3>2, <3>3
    <2> QED
      BY <2>2, <2>3
  <1>16. \A o \in q2 : o.by = Block(b) => Gave(f, o.at)
    <2> TAKE o \in q2
    <2>1. \A p \in q : p.by = Frame(n) => Gave(f, p.at)
      BY <1>3 DEF AtWork, Holds
    <2> QED
      BY <1>11, <1>13, <2>1, Holders, MovedPointer, OwnPointer
  <1>17. \A a \in DOMAIN h : \A o : o.by = Block(a) => (o \in q <=> o \in q2)
    <2> TAKE a \in DOMAIN h
    <2>1. Block(a) # Block(b) /\ Block(a) # Frame(n)
      BY <1>10, Holders
    <2> QED
      BY <1>11, <2>1, MovedPointer, OwnPointer
  <1>18. Tidy(h2, q2)
    BY <1>4, <1>6, <1>10, <1>16, <1>17 DEF Tidy
  <1>19. Reached(h, q) => Reached(h2, q2)
    BY <1>10, <1>11, MovedPointer, OwnPointer DEF Reached
  <1>20. \A p : Holds(q2, n, p) <=> p = Own(n, b)
    BY <1>11, Holders, MovedPointer, OwnPointer DEF Holds
  <1>21. \A p : OwnSelf(q2, n, p) <=> p = Own(n, b)
    BY <1>20, OwnPointer DEF OwnSelf
  <1>22. AtWork(h2, q2, g, n, c)
    <2>1. \A p : Holds(q2, n, p) => Gave(g, p.at)
      BY <1>7, <1>20, OwnPointer
    <2>2. \E p : OwnSelf(q2, n, p)
      BY <1>21
    <2>3. \A p : OwnSelf(q2, n, p) => /\ \A o : Holds(q2, n, o) => o = p
                                      /\ h2[p.to].kind = Kind(g.req)
                                      /\ \A o \in q2 : o.by = Block(p.to) => Gave(g, o.at)
      BY <1>7, <1>10, <1>16, <1>20, <1>21, OwnPointer
    <2>4. ASSUME NEW at, Assured(g, at), at # "self", ~c.denied
          PROVE  \E o \in q2 : /\ o.at = at
                               /\ o.by = Frame(n) \/ \E p : OwnSelf(q2, n, p) /\ o.by = Block(p.to)
      <3>1. Assured(f, at)
        BY <1>7, <2>4
      <3>2. \A p : ~OwnSelf(q, n, p)
        BY <1>3, <1>6 DEF AtWork, OwnSelf
      <3>3. PICK o \in q : o.at = at /\ o.by = Frame(n)
        BY <1>3, <2>4, <3>1, <3>2 DEF AtWork
      <3>4. Moved(b, o) \in q2 /\ Moved(b, o).at = at /\ Moved(b, o).by = Block(Own(n, b).to)
        BY <1>11, <3>3, MovedPointer, OwnPointer
      <3> QED
        BY <1>21, <3>4
    <2> QED
      BY <1>7, <2>1, <2>2, <2>3, <2>4 DEF AtWork
  <1>23. Spares(h, q, h2, q2, n)
    <2> SUFFICES ASSUME NEW k \in 1..n - 1
                 PROVE  /\ \A p : Holds(q, k, p) <=> Holds(q2, k, p)
                        /\ \A p : OwnSelf(q, k, p) =>
                               /\ h2[p.to].kind = h[p.to].kind
                               /\ \A o : o.by = Block(p.to) => (o \in q <=> o \in q2)
      BY DEF Spares
    <2>1. k # n
      BY <1>2 DEF n
    <2>2. Frame(k) # Frame(n) /\ Frame(k) # Block(b)
      BY <2>1, Holders
    <2>3. \A p : Holds(q, k, p) <=> Holds(q2, k, p)
      BY <1>11, <2>2, MovedPointer, OwnPointer DEF Holds
    <2>4. \A p : OwnSelf(q, k, p) => p.to \in DOMAIN h
      BY <1>4 DEF Sound, OwnSelf, Holds
    <2> QED
      BY <1>10, <1>17, <2>3, <2>4
  <1>24. CoreInv(h2, q2, [s EXCEPT ![n].pc = j], c)
    <2>1. CoreInv(h, q, s, c)
      BY DEF LifeInv
    <2>2. AtWork(h2, q2, [s[n] EXCEPT !.pc = j], n, c)
      BY <1>12, <1>22
    <2> QED
      BY <1>9, <1>14, <1>15, <1>18, <1>23, <2>1, <2>2, TopMoves DEF n
  <1>25. LifeInv(h2, q2, [s EXCEPT ![n].pc = @ + 1], c)
    BY <1>12, <1>19, <1>24 DEF LifeInv
  <1> QED
    BY <1>25 DEF h2, q2, block, step, f, n

(* The object under construction gets new blocks, those of links, into the *)
(* slots ats that its step fills.                                          *)
Attached(q, q2, links, ats, by) ==
    /\ \A p \in q : p.by # by \/ p.at \notin ats => p \in q2
    /\ links \subseteq q2 /\ \A o \in q2 : o \in q \/ o \in links
    /\ \A p \in links : p = Pointer(p.by, p.at, p.to) /\ p.by = by /\ p.at \in ats
    /\ \A at \in ats : \E p \in links : p.at = at
    /\ Single(links)
LEMMA Attaches ==
    ASSUME NEW h, NEW q, NEW s, NEW c, NEW h2, NEW q2, NEW links, NEW ats, NEW u,
           LifeInv(h, q, s, c), s # <<>>,
           s[Len(s)].pc \in 1..Len(Steps(s[Len(s)].req)),
           Steps(s[Len(s)].req)[s[Len(s)].pc].op \in {"alloc", "generate", "measure", "window"},
           ats \subseteq Fills(Steps(s[Len(s)].req)[s[Len(s)].pc]),
           Surely(Steps(s[Len(s)].req)[s[Len(s)].pc]) \subseteq ats,
           OwnSelf(q, Len(s), u), Attached(q, q2, links, ats, Block(u.to)),
           \A p \in links : p.to \notin DOMAIN h,
           DOMAIN h2 = DOMAIN h \cup {p.to : p \in links},
           \A a \in DOMAIN h : h2[a].kind = h[a].kind,
           Entries(h2)
    PROVE  LifeInv(h2, q2, [s EXCEPT ![Len(s)].pc = @ + 1], c)
  <1> DEFINE n == Len(s)
             f == s[n]
             g == [f EXCEPT !.pc = @ + 1]
             j == f.pc + 1
             step == Steps(f.req)[f.pc]
  <1>1. PICK S : s \in Seq(S)
    BY DEF LifeInv, CoreInv, Nested
  <1>2. n \in Nat \ {0} /\ n \in 1..n
    BY <1>1
  <1>3. AtWork(h, q, f, n, c)
    BY <1>2 DEF LifeInv, CoreInv
  <1>4. Sound(h, q, n) /\ Single(q) /\ Tidy(h, q)
    BY DEF LifeInv, CoreInv
  <1>5. Frames(f) /\ f.pc \in 1..Len(Steps(f.req))
    BY <1>3 DEF AtWork
  <1>6. step.op \in {"alloc", "generate", "measure", "window"} /\ StepFits(step, f.req)
    BY <1>5, StepKnown
  <1>7. step.op # "window" \/ WindowsApart => \A at \in ats : ~Gave(f, at)
    BY <1>5, StepKnown
  <1>8. [s EXCEPT ![n].pc = @ + 1] = [s EXCEPT ![n].pc = j] /\ g = [s[n] EXCEPT !.pc = j]
    BY <1>1, <1>2
  <1>9. /\ Frames(g) /\ g.req = f.req
        /\ \A at : Gave(g, at) <=> Gave(f, at) \/ at \in Fills(step)
        /\ \A at : Assured(g, at) <=> Assured(f, at) \/ at \in Surely(step)
    BY <1>5, NextGave
  <1>10. ats \subseteq Fills(step) /\ Surely(step) \subseteq ats /\ "self" \notin Fills(step)
    BY <1>6 DEF Fills, StepFits
  <1>11. ats \subseteq Freed(Kind(f.req))
    BY <1>6, <1>10 DEF StepFits
  <1>12. OwnSelf(q, n, u)
    OBVIOUS
  <1> HIDE DEF n, f, g, j, step
  <1>13. u \in q /\ u.by = Frame(n) /\ u.to \in DOMAIN h /\ h[u.to].kind = Kind(f.req)
    BY <1>3, <1>4, <1>12 DEF AtWork, OwnSelf, Holds, Sound
  <1>14. /\ \A p \in q : p.by # Block(u.to) \/ p.at \notin ats => p \in q2
         /\ links \subseteq q2 /\ \A o \in q2 : o \in q \/ o \in links
         /\ \A p \in links : p = Pointer(p.by, p.at, p.to) /\ p.by = Block(u.to) /\ p.at \in ats
         /\ \A at \in ats : \E p \in links : p.at = at
         /\ Single(links)
    BY DEF Attached
  <1>15. Sound(h2, q2, n)
    <2> SUFFICES ASSUME NEW o \in q2
                 PROVE  o = Pointer(o.by, o.at, o.to) /\ o.to \in DOMAIN h2 /\ Holding(h2, o.by, n)
      BY DEF Sound
    <2>1. \A by : Holding(h, by, n) => Holding(h2, by, n)
      BY DEF Holding
    <2>2. CASE o \in q
      BY <1>4, <2>1, <2>2 DEF Sound
    <2>3. CASE o \in links
      <3>1. Holding(h2, Block(u.to), n)
        BY <1>13 DEF Holding
      <3> QED
        BY <1>14, <2>3, <3>1
    <2> QED
      BY <1>14, <2>2, <2>3
  <1>16. Single(q2)
    <2>1. \A o \in q : o.to \in DOMAIN h
      BY <1>4 DEF Sound
    <2> QED
      BY <1>4, <1>14, <2>1 DEF Single
  <1>17. Tidy(h2, q2)
    <2> SUFFICES ASSUME NEW b \in DOMAIN h2, NEW o \in q2, o.by = Block(b)
                 PROVE  o.at \in Freed(h2[b].kind)
      BY DEF Tidy
    <2>1. CASE o \in links
      <3>1. b = u.to
        BY <1>14, <2>1, Holders
      <3> QED
        BY <1>11, <1>13, <1>14, <2>1, <3>1
    <2>2. CASE o \in q
      <3>1. PICK a \in DOMAIN h : o.by = Block(a)
        BY <1>4, <2>2, Holders DEF Sound, Holding
      <3>2. a = b
        BY <3>1, Holders
      <3> QED
        BY <1>4, <2>2, <3>1, <3>2 DEF Tidy
    <2> QED
      BY <1>14, <2>1, <2>2
  <1>18. WindowsApart /\ Reached(h, q) => Reached(h2, q2)
    <2> SUFFICES ASSUME WindowsApart, Reached(h, q), NEW b \in DOMAIN h2
                 PROVE  \E p \in q2 : p.to = b
      BY DEF Reached
    <2>1. CASE b \in DOMAIN h
      <3>1. PICK p \in q : p.to = b
        BY <2>1 DEF Reached
      <3>2. p.by = Block(u.to) => Gave(f, p.at)
        BY <1>3, <1>12 DEF AtWork
      <3> QED
        BY <1>7, <1>14, <3>1, <3>2
    <2>2. CASE \E p \in links : p.to = b
      BY <1>14, <2>2
    <2> QED
      BY <2>1, <2>2
  <1>19. \A k : \A p : Holds(q, k, p) <=> Holds(q2, k, p)
    BY <1>14, Holders DEF Holds
  <1>20. \A k : \A p : OwnSelf(q, k, p) <=> OwnSelf(q2, k, p)
    BY <1>19 DEF OwnSelf
  <1>21. AtWork(h2, q2, g, n, c)
    <2>1. \A p : Holds(q2, n, p) => Gave(g, p.at)
      BY <1>3, <1>9, <1>19 DEF AtWork
    <2>2. \E p : OwnSelf(q2, n, p)
      BY <1>12, <1>20
    <2>3. ASSUME NEW p, OwnSelf(q2, n, p)
          PROVE  /\ \A o : Holds(q2, n, o) => o = p
                 /\ h2[p.to].kind = Kind(g.req)
                 /\ \A o \in q2 : o.by = Block(p.to) => Gave(g, o.at)
      <3>1. OwnSelf(q, n, p) /\ p = u
        BY <1>3, <1>12, <1>20, <2>3 DEF AtWork, OwnSelf
      <3>2. \A o \in q : o.by = Block(u.to) => Gave(f, o.at)
        BY <1>3, <1>12 DEF AtWork
      <3>3. \A o \in links : o.at \in Fills(step)
        BY <1>10, <1>14
      <3>4. \A o \in q2 : o.by = Block(u.to) => Gave(g, o.at)
        BY <1>9, <1>14, <3>2, <3>3
      <3>5. \A o : Holds(q2, n, o) => o = p
        BY <1>3, <1>19, <3>1 DEF AtWork
      <3> QED
        BY <1>9, <1>13, <3>1, <3>4, <3>5
    <2>4. ASSUME NEW at, Assured(g, at), at # "self", ~c.denied
          PROVE  \E o \in q2 : /\ o.at = at
                               /\ o.by = Frame(n) \/ \E p : OwnSelf(q2, n, p) /\ o.by = Block(p.to)
      <3>1. CASE at \in ats
        BY <1>12, <1>14, <1>20, <3>1
      <3>2. CASE at \notin ats
        <4>1. Assured(f, at)
          BY <1>9, <1>10, <2>4, <3>2
        <4>2. PICK o \in q : /\ o.at = at
                             /\ o.by = Frame(n) \/ \E p : OwnSelf(q, n, p) /\ o.by = Block(p.to)
          BY <1>3, <2>4, <4>1 DEF AtWork
        <4>3. o \in q2
          BY <1>14, <3>2, <4>2
        <4> QED
          BY <1>20, <4>2, <4>3
      <3> QED
        BY <3>1, <3>2
    <2> QED
      BY <1>9, <2>1, <2>2, <2>3, <2>4 DEF AtWork
  <1>22. Spares(h, q, h2, q2, n)
    <2> SUFFICES ASSUME NEW k \in 1..n - 1
                 PROVE  /\ \A p : Holds(q, k, p) <=> Holds(q2, k, p)
                        /\ \A p : OwnSelf(q, k, p) =>
                               /\ h2[p.to].kind = h[p.to].kind
                               /\ \A o : o.by = Block(p.to) => (o \in q <=> o \in q2)
      BY DEF Spares
    <2>1. Frame(k) # Frame(n)
      BY <1>2, Holders
    <2>2. ASSUME NEW p, OwnSelf(q, k, p)
          PROVE  /\ h2[p.to].kind = h[p.to].kind
                 /\ \A o : o.by = Block(p.to) => (o \in q <=> o \in q2)
      <3>1. p \in q /\ p.by = Frame(k) /\ p.to \in DOMAIN h
        BY <1>4, <2>2 DEF OwnSelf, Holds, Sound
      <3>2. p.to # u.to
        BY <1>4, <1>13, <2>1, <3>1 DEF Single
      <3>3. Block(p.to) # Block(u.to)
        BY <3>2, Holders
      <3> QED
        BY <1>14, <3>1, <3>3
    <2> QED
      BY <1>19, <2>2
  <1>23. CoreInv(h2, q2, [s EXCEPT ![n].pc = j], c)
    <2>1. CoreInv(h, q, s, c)
      BY DEF LifeInv
    <2>2. AtWork(h2, q2, [s[n] EXCEPT !.pc = j], n, c)
      BY <1>8, <1>21
    <2> QED
      BY <1>15, <1>16, <1>17, <1>22, <2>1, <2>2, TopMoves DEF n
  <1>24. LifeInv(h2, q2, [s EXCEPT ![n].pc = @ + 1], c)
    BY <1>8, <1>18, <1>23 DEF LifeInv
  <1> QED
    BY <1>24 DEF n

(* A constructor calls another one.                                        *)
LEMMA Pushes ==
    ASSUME NEW h, NEW q, NEW s, NEW c,
           LifeInv(h, q, s, c), s # <<>>,
           s[Len(s)].pc \in 1..Len(Steps(s[Len(s)].req)),
           Steps(s[Len(s)].req)[s[Len(s)].pc].op = "make",
           Accepts(Steps(s[Len(s)].req)[s[Len(s)].pc].req)
    PROVE  LifeInv(h, q, Append(s, [req |-> Steps(s[Len(s)].req)[s[Len(s)].pc].req, pc |-> 1]), c)
  <1> DEFINE n == Len(s)
             f == s[n]
             step == Steps(f.req)[f.pc]
             g == [req |-> step.req, pc |-> 1]
             s2 == Append(s, g)
  <1>1. PICK S : s \in Seq(S)
    BY DEF LifeInv, CoreInv, Nested
  <1>2. n \in Nat \ {0} /\ n \in 1..n
    BY <1>1
  <1>3. AtWork(h, q, f, n, c)
    BY <1>2 DEF LifeInv, CoreInv
  <1>4. Sound(h, q, n) /\ Single(q) /\ Tidy(h, q) /\ Entries(h)
    BY DEF LifeInv, CoreInv
  <1>5. Frames(f) /\ f.pc \in 1..Len(Steps(f.req)) /\ step.op = "make" /\ Accepts(step.req)
    BY <1>3 DEF AtWork
  <1>6. StepFits(step, f.req) /\ Proper(f.req)
    BY <1>5, StepKnown DEF Frames
  <1>7. s2 \in Seq(S \cup {g}) /\ Len(s2) = n + 1 /\ s2[n + 1] = g /\ \A k \in 1..n : s2[k] = s[k]
    <2>1. s \in Seq(S \cup {g})
      BY <1>1
    <2> HIDE DEF g
    <2> QED
      BY <1>1, <2>1
  <1>8. g.req = step.req /\ g.pc = 1 /\ g = [req |-> g.req, pc |-> g.pc]
    OBVIOUS
  <1> HIDE DEF n, f, step, g, s2
  <1>9. Proper(g.req) /\ Accepts(g.req)
    <2>1. /\ IsRequest(step.req) /\ step.req.maker # "stft"
          /\ SizesAgree /\ Sized(f.req) => Sized(step.req)
      BY <1>5, <1>6 DEF StepFits
    <2> QED
      BY <1>5, <1>6, <1>8, <2>1 DEF Proper
  <1>10. Frames(g)
    <2>1. Stretch(Steps(g.req), g.req, {"self"} \cup Freed(Kind(g.req)), {"self"})
      BY <1>9, StepsGood DEF Proper
    <2>2. Len(Steps(g.req)) \in Nat
      BY <2>1 DEF Stretch
    <2> QED
      BY <1>8, <1>9, <2>2 DEF Frames
  <1>11. \A p : ~Holds(q, n + 1, p)
    <2> SUFFICES ASSUME NEW p \in q, p.by = Frame(n + 1) PROVE FALSE
      BY DEF Holds
    <2>1. PICK k \in 1..n : p.by = Frame(k)
      BY <1>4, Holders DEF Sound, Holding
    <2> QED
      BY <1>2, <2>1, Holders
  <1>12. AtWork(h, q, g, n + 1, c)
    <2>1. \A at : ~Assured(g, at)
      BY <1>8 DEF Assured
    <2> QED
      BY <1>10, <1>11, <2>1 DEF AtWork, OwnSelf
  <1>13. Sound(h, q, n + 1)
    <2>1. 1..n \subseteq 1..n + 1
      BY <1>2
    <2>2. \A by : Holding(h, by, n) => Holding(h, by, n + 1)
      BY <2>1 DEF Holding
    <2> QED
      BY <1>4, <2>2 DEF Sound
  <1>14. \A k \in 1..n : Waits(s2[k], s2[k + 1])
    <2> TAKE k \in 1..n
    <2>1. CASE k = n
      BY <1>5, <1>7, <1>8, <2>1 DEF Waits, f, step
    <2>2. CASE k # n
      <3>1. k \in 1..n - 1 /\ k + 1 \in 1..n
        BY <1>2, <2>2
      <3>2. Waits(s[k], s[k + 1])
        BY <3>1 DEF LifeInv, CoreInv, Nested, n
      <3> QED
        BY <1>7, <3>1, <3>2
    <2> QED
      BY <2>1, <2>2
  <1>15. \A k \in 1..n + 1 : AtWork(h, q, s2[k], k, c)
    <2> TAKE k \in 1..n + 1
    <2>1. CASE k = n + 1
      BY <1>7, <1>12, <2>1
    <2>2. CASE k # n + 1
      <3>1. k \in 1..n
        BY <1>2, <2>2
      <3>2. AtWork(h, q, s[k], k, c)
        BY <3>1 DEF LifeInv, CoreInv, n
      <3> QED
        BY <1>7, <3>1, <3>2
    <2> QED
      BY <2>1, <2>2
  <1>16. n + 1 - 1 = n
    BY <1>2
  <1>17. \E T : s2 \in Seq(T)
    BY <1>7
  <1>19. CoreInv(h, q, s2, c)
    <2>1. Len(s2) = n + 1
      BY <1>7
    <2>3. Len(s2) - 1 = n
      BY <1>2, <2>1
    <2>2. Nested(s2)
      BY <1>14, <1>17, <2>3 DEF Nested
    <2> QED
      BY <1>4, <1>13, <1>15, <2>1, <2>2 DEF CoreInv
  <1>18. LifeInv(h, q, s2, c)
    BY <1>19 DEF LifeInv
  <1> QED
    BY <1>18 DEF s2, g, step, f, n

(* A constructor that holds nothing leaves.                                *)
Shorter(s) == SubSeq(s, 1, Len(s) - 1)
LEMMA ShorterIs ==
    ASSUME NEW s, \E S : s \in Seq(S), s # <<>>
    PROVE  /\ \E S : Shorter(s) \in Seq(S)
           /\ Len(s) \in Nat \ {0} /\ Len(Shorter(s)) = Len(s) - 1
           /\ \A k \in 1..Len(s) - 1 : Shorter(s)[k] = s[k]
           /\ Len(s) = 1 => Shorter(s) = <<>>
           /\ Len(s) > 1 => Shorter(s) # <<>>
  <1>1. PICK S : s \in Seq(S)
    OBVIOUS
  <1>2. Len(s) \in Nat \ {0}
    BY <1>1
  <1>3. Shorter(s) \in Seq(S)
    BY <1>1, <1>2 DEF Shorter
  <1>4. Len(Shorter(s)) = Len(s) - 1 /\ \A k \in 1..Len(s) - 1 : Shorter(s)[k] = s[k]
    <2> DEFINE m == Len(s) - 1
    <2>1. m \in Nat /\ Shorter(s) = [i \in 1..m |-> s[i]]
      BY <1>1, <1>2, SubSeqProperties DEF Shorter
    <2> HIDE DEF m
    <2>2. Len(Shorter(s)) = m /\ \A k \in 1..m : Shorter(s)[k] = s[k]
      BY <2>1
    <2> QED
      BY <2>2 DEF m
  <1> HIDE DEF Shorter
  <1> QED
    BY <1>2, <1>3, <1>4

LEMMA Leaves ==
    ASSUME NEW h, NEW q, NEW s, NEW c, LifeInv(h, q, s, c), s # <<>>,
           \A p : ~Holds(q, Len(s), p)
    PROVE  LifeInv(h, q, Shorter(s), c)
  <1> DEFINE n == Len(s)
             s2 == Shorter(s)
  <1>1. \E S : s \in Seq(S)
    BY DEF LifeInv, CoreInv, Nested
  <1>2. /\ \E S : s2 \in Seq(S)
        /\ n \in Nat \ {0} /\ Len(s2) = n - 1
        /\ \A k \in 1..n - 1 : s2[k] = s[k]
    BY <1>1, ShorterIs
  <1>3. Sound(h, q, n) /\ Single(q) /\ Tidy(h, q) /\ Entries(h)
    BY DEF LifeInv, CoreInv
  <1>4. \A p \in q : p.by # Frame(n)
    BY DEF Holds
  <1> HIDE DEF n, s2
  <1>5. Sound(h, q, n - 1)
    <2>1. ASSUME NEW by, Holding(h, by, n), by # Frame(n)
          PROVE  Holding(h, by, n - 1)
      <3>1. \A k \in 1..n : k = n \/ k \in 1..n - 1
        BY <1>2
      <3> QED
        BY <2>1, <3>1 DEF Holding
    <2> QED
      BY <1>3, <1>4, <2>1 DEF Sound
  <1>6. \A k \in 1..n - 2 : Waits(s2[k], s2[k + 1])
    <2> TAKE k \in 1..n - 2
    <2>1. k \in 1..n - 1 /\ k + 1 \in 1..n - 1
      BY <1>2
    <2>2. Waits(s[k], s[k + 1])
      BY <2>1 DEF LifeInv, CoreInv, Nested, n
    <2> QED
      BY <1>2, <2>1, <2>2
  <1>7. \A k \in 1..n - 1 : AtWork(h, q, s2[k], k, c)
    <2> TAKE k \in 1..n - 1
    <2>1. k \in 1..n
      BY <1>2
    <2>2. AtWork(h, q, s[k], k, c)
      BY <2>1 DEF LifeInv, CoreInv, n
    <2> QED
      BY <1>2, <2>2
  <1>8. n - 1 - 1 = n - 2
    BY <1>2
  <1>9. CoreInv(h, q, s2, c)
    BY <1>2, <1>3, <1>5, <1>6, <1>7, <1>8 DEF CoreInv, Nested
  <1>10. LifeInv(h, q, s2, c)
    BY <1>9 DEF LifeInv
  <1> QED
    BY <1>10 DEF s2

(* A constructor that is done holds its object, and only that; another     *)
(* pointer takes its place.                                                *)
Delivered(q, k, x) == {o \in q : o.by # Frame(k)} \cup {x}
LEMMA Done ==
    ASSUME NEW h, NEW q, NEW f, NEW k, NEW c, AtWork(h, q, f, k, c),
           f.pc = Len(Steps(f.req)) + 1
    PROVE  \E u : OwnSelf(q, k, u) /\ \A o : Holds(q, k, o) => o = u
  BY StepKnown DEF AtWork

LEMMA Handed ==
    ASSUME NEW h, NEW q, NEW n, NEW u, NEW x, n \in Nat,
           Sound(h, q, n + 1), Single(q), Tidy(h, q),
           OwnSelf(q, n + 1, u), \A o : Holds(q, n + 1, o) => o = u,
           x = Pointer(x.by, x.at, x.to), x.to = u.to, Holding(h, x.by, n),
           \A b : x.by = Block(b) => x.at \in Freed(h[b].kind)
    PROVE  /\ Sound(h, Delivered(q, n + 1, x), n) /\ Single(Delivered(q, n + 1, x))
           /\ Tidy(h, Delivered(q, n + 1, x))
           /\ Reached(h, q) => Reached(h, Delivered(q, n + 1, x))
  <1> DEFINE q2 == Delivered(q, n + 1, x)
  <1>1. /\ \A o \in q : o.by # Frame(n + 1) => o \in q2
        /\ x \in q2 /\ \A o \in q2 : (o \in q /\ o.by # Frame(n + 1)) \/ o = x
    BY DEF Delivered
  <1>2. u \in q /\ u.by = Frame(n + 1) /\ u.to \in DOMAIN h
    BY DEF OwnSelf, Holds, Sound
  <1>3. \A o \in q : o.by = Frame(n + 1) => o = u
    BY DEF Holds
  <1> HIDE DEF q2
  <1>4. Sound(h, q2, n)
    <2>1. ASSUME NEW by, Holding(h, by, n + 1), by # Frame(n + 1)
          PROVE  Holding(h, by, n)
      <3>1. \A k \in 1..n + 1 : k = n + 1 \/ k \in 1..n
        OBVIOUS
      <3> QED
        BY <2>1, <3>1 DEF Holding
    <2> QED
      BY <1>1, <1>2, <2>1 DEF Sound
  <1>5. Single(q2)
    BY <1>1, <1>2 DEF Single
  <1>6. Tidy(h, q2)
    BY <1>1 DEF Tidy
  <1>7. Reached(h, q) => Reached(h, q2)
    BY <1>1, <1>2, <1>3 DEF Reached
  <1> QED
    BY <1>4, <1>5, <1>6, <1>7 DEF q2

LEMMA HandsOver ==
    ASSUME NEW h, NEW q, NEW s, NEW c, NEW c2, NEW u, LifeInv(h, q, s, c), Len(s) = 1,
           s[1].pc = Len(Steps(s[1].req)) + 1, OwnSelf(q, 1, u)
    PROVE  LifeInv(h, Delivered(q, 1, Pointer(Caller, "handle", u.to)), <<>>, c2)
  <1> DEFINE x == Pointer(Caller, "handle", u.to)
             q2 == Delivered(q, 1, x)
  <1>1. AtWork(h, q, s[1], 1, c) /\ Sound(h, q, 1) /\ Single(q) /\ Tidy(h, q) /\ Entries(h)
    BY DEF LifeInv, CoreInv
  <1>2. \A o : Holds(q, 1, o) => o = u
    BY <1>1, Done DEF OwnSelf
  <1>3. x = Pointer(x.by, x.at, x.to) /\ x.to = u.to /\ x.by = Caller
    BY Pointers
  <1> HIDE DEF x
  <1>4. Holding(h, x.by, 0) /\ \A b : x.by # Block(b)
    BY <1>3, Holders DEF Holding
  <1>5. /\ Sound(h, q2, 0) /\ Single(q2) /\ Tidy(h, q2)
        /\ Reached(h, q) => Reached(h, q2)
    <2>1. 0 + 1 = 1 /\ 0 \in Nat
      OBVIOUS
    <2> QED
      BY <1>1, <1>2, <1>3, <1>4, <2>1, Handed
  <1> HIDE DEF q2
  <1>6. <<>> \in Seq({}) /\ Len(<<>>) = 0 /\ 1..0 = {} /\ 1..0 - 1 = {}
    OBVIOUS
  <1>7. Nested(<<>>)
    BY <1>6 DEF Nested
  <1>8. CoreInv(h, q2, <<>>, c2)
    BY <1>1, <1>5, <1>6, <1>7 DEF CoreInv
  <1>9. LifeInv(h, q2, <<>>, c2)
    BY <1>5, <1>8 DEF LifeInv
  <1> QED
    BY <1>9 DEF q2, x

(* The constructor that called gets the result x: as a part of its object, *)
(* in a local variable, or as its object.                                  *)
Adds(q, q2, x) == q \subseteq q2 /\ x \in q2 /\ \A o \in q2 : o \in q \/ o = x
LEMMA IntoBlock ==
    ASSUME NEW h, NEW q, NEW q2, NEW x, NEW f, NEW g, NEW k, NEW c, NEW v,
           AtWork(h, q, f, k, c), f.pc \in 1..Len(Steps(f.req)),
           g = [f EXCEPT !.pc = @ + 1],
           Adds(q, q2, x), OwnSelf(q, k, v), x.by = Block(v.to),
           Fills(Steps(f.req)[f.pc]) = {x.at}, Surely(Steps(f.req)[f.pc]) = {x.at},
           x.at # "self"
    PROVE  AtWork(h, q2, g, k, c)
  <1>1. /\ Frames(g) /\ g.req = f.req
        /\ \A at : Gave(g, at) <=> Gave(f, at) \/ at = x.at
        /\ \A at : Assured(g, at) <=> Assured(f, at) \/ at = x.at
    BY NextGave DEF AtWork
  <1>2. x.by # Frame(k)
    BY Holders
  <1>3. \A p : Holds(q, k, p) <=> Holds(q2, k, p)
    BY <1>2 DEF Adds, Holds
  <1>4. \A p : OwnSelf(q, k, p) <=> OwnSelf(q2, k, p)
    BY <1>3 DEF OwnSelf
  <1>5. \A p : Holds(q2, k, p) => Gave(g, p.at)
    BY <1>1, <1>3 DEF AtWork
  <1>6. Assured(g, "self") => \E p : OwnSelf(q2, k, p)
    BY <1>1, <1>4 DEF AtWork
  <1>7. \A p : OwnSelf(q2, k, p) => /\ \A o : Holds(q2, k, o) => o = p
                                    /\ h[p.to].kind = Kind(g.req)
                                    /\ \A o \in q2 : o.by = Block(p.to) => Gave(g, o.at)
    BY <1>1, <1>3, <1>4 DEF AtWork, Adds
  <1>8. ASSUME NEW at, Assured(g, at), at # "self", ~c.denied
        PROVE  \E o \in q2 : /\ o.at = at
                             /\ o.by = Frame(k) \/ \E p : OwnSelf(q2, k, p) /\ o.by = Block(p.to)
    <2>1. CASE at = x.at
      <3>1. x \in q2 /\ OwnSelf(q2, k, v)
        BY <1>4 DEF Adds
      <3> QED
        BY <2>1, <3>1
    <2>2. CASE at # x.at
      <3>1. PICK o \in q : /\ o.at = at
                           /\ o.by = Frame(k) \/ \E p : OwnSelf(q, k, p) /\ o.by = Block(p.to)
        BY <1>1, <1>8, <2>2 DEF AtWork
      <3>2. o \in q2
        BY DEF Adds
      <3> QED
        BY <1>4, <3>1, <3>2
    <2> QED
      BY <2>1, <2>2
  <1> QED
    BY <1>1, <1>5, <1>6, <1>7, <1>8 DEF AtWork

LEMMA IntoFrame ==
    ASSUME NEW h, NEW q, NEW q2, NEW x, NEW f, NEW g, NEW k, NEW c,
           AtWork(h, q, f, k, c), f.pc \in 1..Len(Steps(f.req)),
           g = [f EXCEPT !.pc = @ + 1],
           Adds(q, q2, x), \A p : ~OwnSelf(q, k, p), x.by = Frame(k),
           Fills(Steps(f.req)[f.pc]) = {x.at}, Surely(Steps(f.req)[f.pc]) = {x.at},
           x.at # "self"
    PROVE  AtWork(h, q2, g, k, c)
  <1>1. /\ Frames(g) /\ g.req = f.req
        /\ \A at : Gave(g, at) <=> Gave(f, at) \/ at = x.at
        /\ \A at : Assured(g, at) <=> Assured(f, at) \/ at = x.at
    BY NextGave DEF AtWork
  <1>3. \A p : Holds(q2, k, p) <=> Holds(q, k, p) \/ p = x
    BY DEF Adds, Holds
  <1>4. \A p : ~OwnSelf(q2, k, p)
    BY <1>3 DEF OwnSelf
  <1>5. \A p : Holds(q2, k, p) => Gave(g, p.at)
    BY <1>1, <1>3 DEF AtWork
  <1>6. ~Assured(g, "self")
    BY <1>1 DEF AtWork
  <1>8. ASSUME NEW at, Assured(g, at), at # "self", ~c.denied
        PROVE  \E o \in q2 : /\ o.at = at
                             /\ o.by = Frame(k) \/ \E p : OwnSelf(q2, k, p) /\ o.by = Block(p.to)
    <2>1. CASE at = x.at
      BY <2>1 DEF Adds
    <2>2. CASE at # x.at
      <3>1. PICK o \in q : /\ o.at = at
                           /\ o.by = Frame(k) \/ \E p : OwnSelf(q, k, p) /\ o.by = Block(p.to)
        BY <1>1, <1>8, <2>2 DEF AtWork
      <3>2. o \in q2
        BY DEF Adds
      <3> QED
        BY <3>1, <3>2
    <2> QED
      BY <2>1, <2>2
  <1> QED
    BY <1>1, <1>4, <1>5, <1>6, <1>8 DEF AtWork

LEMMA SelfFirst ==
    ASSUME NEW r, NEW i, IsRequest(r), Accepts(r), i \in 1..Len(Steps(r)),
           Steps(r)[i].op = "make", Steps(r)[i].at = "self"
    PROVE  i = 1
  <1> DEFINE x == Make("self", [r EXCEPT !.maker = "fft", !.dir = "fwd"])
             y == WindowTable(r.n * 4)
  <1>1. StepFits(Steps(r)[i], r)
    <2>1. Stretch(Steps(r), r, {"self"} \cup Freed(Kind(r)), {"self"})
      BY StepsGood
    <2> HIDE DEF Steps
    <2> QED
      BY <2>1 DEF Stretch, Orderly
  <1>2. r.maker = "stft"
    BY <1>1 DEF StepFits
  <1>3. y.op = "window"
    BY StepKinds
  <1>4. Steps(r) = <<x, y>>
    BY <1>2 DEF Steps, StftSteps
  <1> HIDE DEF x, y
  <1>5. i \in 1..2 /\ Steps(r)[2] = y
    BY <1>4
  <1> QED
    BY <1>3, <1>5

LEMMA Becomes ==
    ASSUME NEW h, NEW q, NEW q2, NEW x, NEW f, NEW g, NEW k, NEW c,
           AtWork(h, q, f, k, c), f.pc = 1, f.pc \in 1..Len(Steps(f.req)),
           g = [f EXCEPT !.pc = @ + 1],
           Adds(q, q2, x), x.by = Frame(k), x.at = "self",
           h[x.to].kind = Kind(f.req),
           "self" \in Fills(Steps(f.req)[f.pc]), Surely(Steps(f.req)[f.pc]) = {"self"},
           \A o \in q : o.by = Block(x.to) => o.at \in Fills(Steps(f.req)[f.pc])
    PROVE  AtWork(h, q2, g, k, c)
  <1>1. /\ Frames(g) /\ g.req = f.req
        /\ \A at : Gave(g, at) <=> Gave(f, at) \/ at \in Fills(Steps(f.req)[f.pc])
        /\ \A at : Assured(g, at) <=> Assured(f, at) \/ at = "self"
    BY NextGave DEF AtWork
  <1>2. 1..f.pc - 1 = {}
    OBVIOUS
  <1>3. (\A at : ~Gave(f, at)) /\ \A at : ~Assured(f, at)
    BY <1>2 DEF Gave, Assured
  <1>4. \A p : ~Holds(q, k, p)
    BY <1>3 DEF AtWork
  <1>5. \A p : Holds(q2, k, p) <=> p = x
    BY <1>4 DEF Adds, Holds
  <1>6. \A p : OwnSelf(q2, k, p) <=> p = x
    BY <1>5 DEF OwnSelf
  <1>7. x.by # Block(x.to)
    BY Holders
  <1>8. \A p : OwnSelf(q2, k, p) => /\ \A o : Holds(q2, k, o) => o = p
                                    /\ h[p.to].kind = Kind(g.req)
                                    /\ \A o \in q2 : o.by = Block(p.to) => Gave(g, o.at)
    BY <1>1, <1>5, <1>6, <1>7 DEF Adds
  <1>9. \A at : Assured(g, at) => at = "self"
    BY <1>1, <1>3
  <1> QED
    BY <1>1, <1>5, <1>6, <1>8, <1>9 DEF AtWork

(* The stack without the constructor on top, and what it holds.            *)
Without(q, k) == {o \in q : o.by # Frame(k)}
LEMMA WithoutTop ==
    ASSUME NEW h, NEW q, NEW s, NEW c, CoreInv(h, q, s, c), s # <<>>
    PROVE  CoreInv(h, Without(q, Len(s)), Shorter(s), c)
  <1> DEFINE n == Len(s)
             q2 == Without(q, n)
             s2 == Shorter(s)
  <1>1. \E S : s \in Seq(S)
    BY DEF CoreInv, Nested
  <1>2. /\ \E S : s2 \in Seq(S)
        /\ n \in Nat \ {0} /\ Len(s2) = n - 1
        /\ \A k \in 1..n - 1 : s2[k] = s[k]
    BY <1>1, ShorterIs
  <1>3. Sound(h, q, n) /\ Single(q) /\ Tidy(h, q) /\ Entries(h)
    BY DEF CoreInv
  <1>4. \A p : p \in q2 <=> p \in q /\ p.by # Frame(n)
    BY DEF Without
  <1> HIDE DEF n, q2, s2
  <1>5. Sound(h, q2, n - 1)
    <2>1. ASSUME NEW by, Holding(h, by, n), by # Frame(n)
          PROVE  Holding(h, by, n - 1)
      <3>1. \A k \in 1..n : k = n \/ k \in 1..n - 1
        BY <1>2
      <3> QED
        BY <2>1, <3>1 DEF Holding
    <2> QED
      BY <1>3, <1>4, <2>1 DEF Sound
  <1>6. \A k \in 1..n - 2 : Waits(s2[k], s2[k + 1])
    <2> TAKE k \in 1..n - 2
    <2>1. k \in 1..n - 1 /\ k + 1 \in 1..n - 1
      BY <1>2
    <2>2. Waits(s[k], s[k + 1])
      BY <2>1 DEF CoreInv, Nested, n
    <2> QED
      BY <1>2, <2>1, <2>2
  <1>7. \A k \in 1..n - 1 : AtWork(h, q2, s2[k], k, c)
    <2> TAKE k \in 1..n - 1
    <2>1. k \in 1..n /\ k # n
      BY <1>2
    <2>2. AtWork(h, q, s[k], k, c)
      BY <2>1 DEF CoreInv, n
    <2>3. Frame(k) # Frame(n) /\ \A b : Block(b) # Frame(n)
      BY <2>1, Holders
    <2>4. \A p : Holds(q, k, p) <=> Holds(q2, k, p)
      BY <1>4, <2>3 DEF Holds
    <2>5. \A p : \A o : o.by = Block(p.to) => (o \in q <=> o \in q2)
      BY <1>4, <2>3
    <2>6. AtWork(h, q2, s[k], k, c)
      BY <2>2, <2>4, <2>5, Undisturbed
    <2> QED
      BY <1>2, <2>6
  <1>8. n - 1 - 1 = n - 2
    BY <1>2
  <1>10. Single(q2) /\ Tidy(h, q2)
    BY <1>3, <1>4 DEF Single, Tidy
  <1>9. CoreInv(h, q2, s2, c)
    BY <1>2, <1>3, <1>5, <1>6, <1>7, <1>8, <1>10 DEF CoreInv, Nested
  <1> QED
    BY <1>9 DEF s2, q2, n

(* What the step of a constructor that waits does with the result.         *)
LEMMA Receives ==
    ASSUME NEW f, NEW g, Frames(f), Waits(f, g)
    PROVE  LET step == Steps(f.req)[f.pc]
           IN  /\ StepFits(step, f.req) /\ Surely(step) = {step.at}
               /\ step.at # "self" => /\ Fills(step) = {step.at}
                                      /\ step.at \in Freed(Kind(f.req))
               /\ step.at = "self" => /\ Fills(step) = {"self"} \cup Inherited
                                      /\ f.pc = 1 /\ f.req.maker = "stft"
                                      /\ g.req.maker = "fft" /\ g.req.n = f.req.n
                                      /\ g.req.flags = f.req.flags
  <1> DEFINE step == Steps(f.req)[f.pc]
  <1>1. f.pc \in 1..Len(Steps(f.req)) /\ step.op = "make" /\ step.req = g.req
    BY DEF Waits
  <1>2. StepFits(step, f.req)
    BY <1>1, StepKnown
  <1>3. step.at = "self" => f.pc = 1
    BY <1>1, SelfFirst DEF Frames, Proper
  <1> HIDE DEF step
  <1>4. /\ Surely(step) = {step.at}
        /\ step.at # "self" => Fills(step) = {step.at}
        /\ step.at = "self" => Fills(step) = {"self"} \cup Inherited
    BY <1>1 DEF Surely, Fills
  <1> QED
    BY <1>1, <1>2, <1>3, <1>4 DEF StepFits, step

(* The slots of a transform that is about to become an STFT.               *)
LEMMA Legacy ==
    ASSUME NEW h, NEW q, NEW f, NEW k, NEW c, NEW u, NEW o, AtWork(h, q, f, k, c),
           OwnSelf(q, k, u), o \in q, o.by = Block(u.to), Tidy(h, q), u.to \in DOMAIN h,
           f.req.maker = "fft", WindowsApart => Plain(f.req)
    PROVE  o.at \in Inherited
  <1>1. Frames(f) /\ h[u.to].kind = Kind(f.req) /\ Gave(f, o.at)
    BY DEF AtWork
  <1>2. o.at \in Freed("transform")
    BY <1>1 DEF Tidy, Kind
  <1>3. CASE ~WindowsApart
    BY <1>2, <1>3 DEF Inherited
  <1>4. CASE WindowsApart
    <2>1. Stretch(Steps(f.req), f.req, {"self", "code", "t0", "scratch"}, {"self"})
      BY <1>1, <1>4, FftFits DEF Frames, Steps
    <2>2. Len(Steps(f.req)) \in Nat
      BY <2>1 DEF Stretch
    <2>3. 1..f.pc - 1 \subseteq 1..Len(Steps(f.req))
      BY <1>1, <2>2 DEF Frames
    <2>4. o.at \in {"self", "code", "t0", "scratch"}
      BY <1>1, <2>1, <2>3 DEF Gave, Stretch
    <2>5. o.at # "t1"
      BY <2>4
    <2> QED
      BY <1>2, <1>4, <2>5 DEF Inherited
  <1> QED
    BY <1>3, <1>4

(* The result goes to the constructor that called.                         *)
Takes(q, k, at, by) ==
    \/ at = "self" /\ by = Frame(k)
    \/ at # "self" /\ by = Frame(k) /\ \A p : ~OwnSelf(q, k, p)
    \/ at # "self" /\ \E v : OwnSelf(q, k, v) /\ by = Block(v.to)
LEMMA HandsUp ==
    ASSUME NEW h, NEW q, NEW s, NEW c, NEW u, NEW by, LifeInv(h, q, s, c), Len(s) > 1,
           s[Len(s)].pc = Len(Steps(s[Len(s)].req)) + 1, OwnSelf(q, Len(s), u),
           Takes(q, Len(s) - 1, Steps(s[Len(s) - 1].req)[s[Len(s) - 1].pc].at, by)
    PROVE  LifeInv(h, Delivered(q, Len(s),
                                Pointer(by, Steps(s[Len(s) - 1].req)[s[Len(s) - 1].pc].at, u.to)),
                   [Shorter(s) EXCEPT ![Len(s) - 1].pc = @ + 1], c)
  <1> DEFINE m == Len(s)
             n == m - 1
             f == s[n]
             e == s[m]
             step == Steps(f.req)[f.pc]
             g == [f EXCEPT !.pc = @ + 1]
             j == f.pc + 1
             x == Pointer(by, step.at, u.to)
             q1 == Without(q, m)
             q2 == Delivered(q, m, x)
             s1 == Shorter(s)
  <1>1. \E S : s \in Seq(S)
    BY DEF LifeInv, CoreInv, Nested
  <1>2. /\ \E S : s1 \in Seq(S)
        /\ m \in Nat /\ n \in Nat \ {0} /\ m = n + 1 /\ Len(s1) = n
        /\ \A k \in 1..n : s1[k] = s[k]
    <2>1. s # <<>>
      BY <1>1
    <2> HIDE DEF s1
    <2> QED
      BY <1>1, <2>1, ShorterIs DEF s1
  <1>3. n \in 1..m /\ m \in 1..m /\ n \in 1..m - 1 /\ n \in 1..n /\ s # <<>>
    BY <1>1, <1>2
  <1>4. AtWork(h, q, e, m, c) /\ Waits(f, e)
    <2>1. CoreInv(h, q, s, c) /\ Waits(s[n], s[n + 1])
      BY <1>3 DEF LifeInv, CoreInv, Nested
    <2> QED
      BY <1>2, <1>3, <2>1 DEF CoreInv
  <1>5. Sound(h, q, m) /\ Single(q) /\ Tidy(h, q) /\ Entries(h)
    BY DEF LifeInv, CoreInv
  <1>6. CoreInv(h, q1, s1, c)
    BY <1>3, WithoutTop DEF LifeInv
  <1>7. e.pc = Len(Steps(e.req)) + 1 /\ OwnSelf(q, m, u) /\ Takes(q, n, step.at, by)
    OBVIOUS
  <1>8. /\ [s1 EXCEPT ![n].pc = @ + 1] = [s1 EXCEPT ![n].pc = j]
        /\ g = [s1[n] EXCEPT !.pc = j]
    <2> HIDE DEF s1
    <2>1. PICK S : s1 \in Seq(S)
      BY <1>2
    <2>2. s1[n] = f /\ n \in DOMAIN s1
      BY <1>2, <1>3, <2>1
    <2> QED
      BY <2>2
  <1>9. x = Pointer(x.by, x.at, x.to) /\ x.by = by /\ x.at = step.at /\ x.to = u.to
    <2> DEFINE at == step.at
               to == u.to
    <2>1. at = step.at /\ to = u.to /\ x = Pointer(by, at, to)
      OBVIOUS
    <2> HIDE DEF step, x, at, to
    <2>2. /\ Pointer(by, at, to).by = by /\ Pointer(by, at, to).at = at
          /\ Pointer(by, at, to).to = to
      BY DEF Pointer
    <2>3. x.by = by /\ x.at = at /\ x.to = to
      BY <2>1, <2>2
    <2> QED
      BY <2>1, <2>3
  <1>10. g = [f EXCEPT !.pc = @ + 1]
    OBVIOUS
  <1> HIDE DEF m, n, f, e, step, g, j, x, q1, q2, s1
  <1>11. Sound(h, q1, n) /\ AtWork(h, q1, f, n, c)
    <2>1. AtWork(h, q1, s1[n], n, c)
      BY <1>2, <1>3, <1>6 DEF CoreInv
    <2>2. s1[n] = f
      BY <1>2, <1>3 DEF f
    <2> QED
      BY <1>2, <1>6, <2>1, <2>2 DEF CoreInv
  <1>12. Frames(f) /\ f.pc \in 1..Len(Steps(f.req)) /\ Frames(e)
    BY <1>4, <1>11 DEF AtWork, Waits
  <1>13. /\ StepFits(step, f.req) /\ Surely(step) = {step.at}
         /\ step.at # "self" => Fills(step) = {step.at} /\ step.at \in Freed(Kind(f.req))
         /\ step.at = "self" => /\ Fills(step) = {"self"} \cup Inherited
                                /\ f.pc = 1 /\ f.req.maker = "stft"
                                /\ e.req.maker = "fft" /\ e.req.n = f.req.n
                                /\ e.req.flags = f.req.flags
    BY <1>4, <1>12, Receives DEF step
  <1>14. /\ \A o : Holds(q, m, o) => o = u
         /\ u \in q /\ u.by = Frame(m) /\ u.to \in DOMAIN h /\ h[u.to].kind = Kind(e.req)
    BY <1>4, <1>5, <1>7 DEF AtWork, OwnSelf, Holds, Sound
  <1>15. Frame(n) # Frame(m) /\ \A b : Block(b) # Frame(m)
    BY <1>2, Holders
  <1>16. \A p : p \in q1 <=> p \in q /\ p.by # Frame(m)
    BY DEF q1, Without
  <1>17. \A p : OwnSelf(q1, n, p) <=> OwnSelf(q, n, p)
    BY <1>15, <1>16 DEF OwnSelf, Holds
  <1>18. Adds(q1, q2, x)
    BY <1>16 DEF Adds, q2, Delivered
  <1>19. \A v : OwnSelf(q1, n, v) => v \in q1 /\ v.to \in DOMAIN h /\ h[v.to].kind = Kind(f.req)
    BY <1>11 DEF AtWork, OwnSelf, Holds, Sound
  <1>20. Holding(h, by, n) /\ \A b : by = Block(b) => step.at \in Freed(h[b].kind)
    <2>1. CASE by = Frame(n)
      BY <1>3, <2>1, Holders DEF Holding
    <2>2. CASE step.at # "self" /\ \E v : OwnSelf(q, n, v) /\ by = Block(v.to)
      <3>1. PICK v : OwnSelf(q1, n, v) /\ by = Block(v.to)
        BY <1>17, <2>2
      <3>2. Holding(h, by, n)
        BY <1>19, <3>1 DEF Holding
      <3>3. \A b : by = Block(b) => b = v.to
        BY <3>1, Holders
      <3> QED
        BY <1>13, <1>19, <2>2, <3>1, <3>2, <3>3
    <2> QED
      BY <1>7, <2>1, <2>2 DEF Takes
  <1>21. /\ Sound(h, q2, n) /\ Single(q2) /\ Tidy(h, q2)
         /\ Reached(h, q) => Reached(h, q2)
    <2>1. n \in Nat
      BY <1>2
    <2>2. Sound(h, q, n + 1) /\ OwnSelf(q, n + 1, u) /\ \A o : Holds(q, n + 1, o) => o = u
      BY <1>2, <1>5, <1>7, <1>14
    <2>3. Holding(h, x.by, n) /\ \A b : x.by = Block(b) => x.at \in Freed(h[b].kind)
      BY <1>9, <1>20
    <2> QED
      BY <1>2, <1>5, <1>9, <2>1, <2>2, <2>3, Handed DEF q2
  <1>22. AtWork(h, q2, g, n, c)
    <2>1. CASE step.at = "self" /\ by = Frame(n)
      <3>1. WindowsApart => Plain(e.req)
        BY <1>12, <1>13, <2>1 DEF Frames, Proper, Plain
      <3>2. \A o \in q1 : o.by = Block(x.to) => o.at \in Fills(step)
        BY <1>4, <1>5, <1>7, <1>9, <1>13, <1>14, <1>16, <2>1, <3>1, Legacy
      <3>3. h[x.to].kind = Kind(f.req)
        BY <1>9, <1>13, <1>14, <2>1 DEF Kind
      <3> QED
        BY <1>9, <1>10, <1>11, <1>12, <1>13, <1>18, <2>1, <3>2, <3>3, Becomes DEF step
    <2>2. CASE step.at # "self" /\ by = Frame(n) /\ \A p : ~OwnSelf(q, n, p)
      BY <1>9, <1>10, <1>11, <1>12, <1>13, <1>17, <1>18, <2>2, IntoFrame DEF step
    <2>3. CASE step.at # "self" /\ \E v : OwnSelf(q, n, v) /\ by = Block(v.to)
      <3>1. PICK v : OwnSelf(q1, n, v) /\ x.by = Block(v.to)
        BY <1>9, <1>17, <2>3
      <3> QED
        BY <1>9, <1>10, <1>11, <1>12, <1>13, <1>18, <2>3, <3>1, IntoBlock DEF step
    <2> QED
      BY <1>7, <2>1, <2>2, <2>3 DEF Takes
  <1>23. Spares(h, q1, h, q2, n)
    <2> SUFFICES ASSUME NEW k \in 1..n - 1
                 PROVE  /\ \A p : Holds(q1, k, p) <=> Holds(q2, k, p)
                        /\ \A p : OwnSelf(q1, k, p) =>
                               \A o : o.by = Block(p.to) => (o \in q1 <=> o \in q2)
      BY DEF Spares
    <2>1. k # n
      BY <1>2
    <2>2. Frame(k) # Frame(n)
      BY <2>1, Holders
    <2>3. \A v : OwnSelf(q1, n, v) => \A p : OwnSelf(q1, k, p) => p.to # v.to
      BY <1>6, <2>2 DEF CoreInv, Single, OwnSelf, Holds
    <2>4. by # Frame(k)
      BY <1>7, <2>2, Holders DEF Takes
    <2>5. \A p : OwnSelf(q1, k, p) => by # Block(p.to)
      BY <1>7, <1>17, <2>3, Holders DEF Takes
    <2> QED
      BY <1>9, <1>18, <2>4, <2>5 DEF Adds, Holds
  <1>24. CoreInv(h, q2, [s1 EXCEPT ![n].pc = j], c)
    <2>1. AtWork(h, q2, [s1[Len(s1)] EXCEPT !.pc = j], Len(s1), c)
      BY <1>2, <1>8, <1>22
    <2>2. s1 # <<>>
      BY <1>2
    <2>3. Sound(h, q2, Len(s1)) /\ Spares(h, q1, h, q2, Len(s1))
      BY <1>2, <1>21, <1>23
    <2>4. CoreInv(h, q2, [s1 EXCEPT ![Len(s1)].pc = j], c)
      BY <1>5, <1>6, <1>21, <2>1, <2>2, <2>3, TopMoves
    <2> QED
      BY <1>2, <2>4
  <1>25. LifeInv(h, q2, [s1 EXCEPT ![n].pc = @ + 1], c)
    BY <1>8, <1>21, <1>24 DEF LifeInv
  <1> QED
    BY <1>25 DEF m, n, f, step, x, q2, s1

(* The caller asks for a transform, or lets go of one.                     *)
LEMMA Empty == /\ <<>> \in Seq({}) /\ Len(<<>>) = 0 /\ 1..0 = {} /\ 1..0 - 1 = {}
               /\ Nested(<<>>)
  <1>1. <<>> \in Seq({}) /\ Len(<<>>) = 0 /\ 1..0 = {} /\ 1..0 - 1 = {}
    OBVIOUS
  <1> QED
    BY <1>1 DEF Nested

LEMMA Alone ==
    ASSUME NEW h, NEW q, NEW c
    PROVE  LifeInv(h, q, <<>>, c) <=>
               /\ Sound(h, q, 0) /\ Single(q) /\ Tidy(h, q) /\ Entries(h)
               /\ WindowsApart => Reached(h, q)
  BY Empty DEF LifeInv, CoreInv

LEMMA Enters ==
    ASSUME NEW h, NEW q, NEW c, NEW c2, NEW r, LifeInv(h, q, <<>>, c), Proper(r), Accepts(r)
    PROVE  LifeInv(h, q, <<[req |-> r, pc |-> 1]>>, c2)
  <1> DEFINE g == [req |-> r, pc |-> 1]
             s2 == <<g>>
  <1>1. /\ Sound(h, q, 0) /\ Single(q) /\ Tidy(h, q) /\ Entries(h)
        /\ WindowsApart => Reached(h, q)
    BY Alone
  <1>2. g.req = r /\ g.pc = 1 /\ g = [req |-> g.req, pc |-> g.pc]
    OBVIOUS
  <1> HIDE DEF g
  <1>3. Len(s2) = 1 /\ s2[1] = g /\ s2 \in Seq({g}) /\ 1..1 - 1 = {} /\ 1..1 = {1}
    OBVIOUS
  <1>4. Frames(g)
    <2>1. Stretch(Steps(r), r, {"self"} \cup Freed(Kind(r)), {"self"})
      BY StepsGood DEF Proper
    <2>2. Len(Steps(r)) \in Nat
      BY <2>1 DEF Stretch
    <2> QED
      BY <1>2, <2>2 DEF Frames
  <1>5. \A p : ~Holds(q, 1, p)
    <2>1. 1..0 = {}
      OBVIOUS
    <2> QED
      BY <1>1, <2>1, Holders DEF Holds, Sound, Holding
  <1>6. AtWork(h, q, g, 1, c2)
    <2>1. \A at : ~Assured(g, at)
      BY <1>2 DEF Assured
    <2> QED
      BY <1>4, <1>5, <2>1 DEF AtWork, OwnSelf
  <1>7. Sound(h, q, 1)
    <2>1. 1..0 = {}
      OBVIOUS
    <2> QED
      BY <1>1, <2>1 DEF Sound, Holding
  <1> HIDE DEF s2
  <1>8. Nested(s2)
    BY <1>3 DEF Nested
  <1>9. CoreInv(h, q, s2, c2)
    BY <1>1, <1>3, <1>6, <1>7, <1>8 DEF CoreInv
  <1>10. LifeInv(h, q, s2, c2)
    BY <1>1, <1>9 DEF LifeInv
  <1> QED
    BY <1>10 DEF s2, g

Given(q, b) == {IF p.by = Caller /\ p.to = b THEN Pointer(Destroyer, "", b) ELSE p : p \in q}
LEMMA LetsGo ==
    ASSUME NEW h, NEW q, NEW c, NEW b, LifeInv(h, q, <<>>, c)
    PROVE  LifeInv(h, Given(q, b), <<>>, c)
  <1> DEFINE q2 == Given(q, b)
  <1>1. /\ Sound(h, q, 0) /\ Single(q) /\ Tidy(h, q) /\ Entries(h)
        /\ WindowsApart => Reached(h, q)
    BY Alone
  <1>2. /\ \A p \in q : p.by = Caller /\ p.to = b => Doomed(b) \in q2
        /\ \A p \in q : ~(p.by = Caller /\ p.to = b) => p \in q2
        /\ \A o \in q2 : \/ o \in q /\ ~(o.by = Caller /\ o.to = b)
                         \/ \E p \in q : p.by = Caller /\ p.to = b /\ o = Doomed(b)
    BY DEF Given, Doomed
  <1> HIDE DEF q2
  <1>3. Sound(h, q2, 0)
    BY <1>1, <1>2, DoomedPointer DEF Sound, Holding
  <1>4. Single(q2)
    BY <1>1, <1>2, DoomedPointer DEF Single
  <1>5. Tidy(h, q2)
    BY <1>1, <1>2, DoomedPointer, Holders DEF Tidy
  <1>6. Reached(h, q) => Reached(h, q2)
    BY <1>2, DoomedPointer DEF Reached
  <1>7. LifeInv(h, q2, <<>>, c)
    BY <1>1, <1>3, <1>4, <1>5, <1>6, Alone
  <1> QED
    BY <1>7 DEF q2

(* Destroy frees the block b that the pointer p leads to.                  *)
Kids(h, q, b) == {o \in q : o.by = Block(b) /\ o.at \in Freed(h[b].kind)}
Rid(q, p, b) == q \ ({p} \cup {o \in q : o.by = Block(b)})
LEMMA StaysAtWork ==
    ASSUME NEW h, NEW q, NEW h2, NEW q2, NEW f, NEW k, NEW c, AtWork(h, q, f, k, c),
           \A p : Holds(q, k, p) <=> Holds(q2, k, p),
           \A p : OwnSelf(q, k, p) =>
               /\ h2[p.to].kind = h[p.to].kind
               /\ \A o : o.by = Block(p.to) => (o \in q <=> o \in q2)
    PROVE  AtWork(h2, q2, f, k, c)
  <1>1. c.denied => c.denied
    OBVIOUS
  <1> QED
    BY <1>1, Undisturbed
Lessened(h, b) == [a \in DOMAIN h \ {b} |-> h[a]]
Remaining(h, q, p, b) == Rid(q, p, b) \cup {Pointer(Destroyer, "", o.to) : o \in Kids(h, q, b)}
Swept(q, q2, p, b) ==
    /\ \A o \in q : o = p \/ o.by = Block(b) \/ o \in q2
    /\ \A o \in q : o.by = Block(b) => Doomed(o.to) \in q2
    /\ \A o \in q2 : \/ o \in q /\ o # p /\ o.by # Block(b)
                     \/ \E u \in q : u.by = Block(b) /\ o = Doomed(u.to)
LEMMA Sweeps ==
    ASSUME NEW h, NEW q, NEW s, NEW c, NEW h2, NEW q2, NEW p, NEW b, LifeInv(h, q, s, c),
           p \in q, p.by = Destroyer, p.to = b, Swept(q, q2, p, b),
           DOMAIN h2 = DOMAIN h \ {b}, \A a \in DOMAIN h2 : h2[a] = h[a]
    PROVE  LifeInv(h2, q2, s, c)
  <1> DEFINE n == Len(s)
  <1>1. Sound(h, q, n) /\ Single(q) /\ Tidy(h, q) /\ Entries(h)
    BY DEF LifeInv, CoreInv
  <1>2. b \in DOMAIN h /\ DOMAIN h2 = DOMAIN h \ {b} /\ \A a \in DOMAIN h2 : h2[a] = h[a]
    BY <1>1 DEF Sound
  <1>3. /\ \A o \in q : o = p \/ o.by = Block(b) \/ o \in q2
        /\ \A o \in q : o.by = Block(b) => Doomed(o.to) \in q2
        /\ \A o \in q2 : \/ o \in q /\ o # p /\ o.by # Block(b)
                         \/ \E u \in q : u.by = Block(b) /\ o = Doomed(u.to)
    BY DEF Swept
  <1>4. \A o \in q : o # p => o.to # b
    BY <1>1 DEF Single
  <1>5. p.by = Destroyer /\ p \in q /\ p.by # Block(b)
    BY Holders
  <1> HIDE DEF n
  <1>6. Sound(h2, q2, n)
    <2> SUFFICES ASSUME NEW o \in q2
                 PROVE  o = Pointer(o.by, o.at, o.to) /\ o.to \in DOMAIN h2 /\ Holding(h2, o.by, n)
      BY DEF Sound
    <2>1. CASE o \in q /\ o # p /\ o.by # Block(b)
      BY <1>1, <1>2, <1>4, <2>1 DEF Sound, Holding
    <2>2. CASE \E u \in q : u.by = Block(b) /\ o = Doomed(u.to)
      <3>1. PICK u \in q : u.by = Block(b) /\ o = Doomed(u.to)
        BY <2>2
      <3>2. u.to \in DOMAIN h2
        BY <1>1, <1>2, <1>4, <1>5, <3>1 DEF Sound
      <3>3. Holding(h2, Destroyer, n)
        BY DEF Holding
      <3> QED
        BY <3>1, <3>2, <3>3, DoomedPointer
    <2> QED
      BY <1>3, <2>1, <2>2
  <1>7. Single(q2)
    <2> SUFFICES ASSUME NEW o \in q2, NEW v \in q2, o.to = v.to PROVE o = v
      BY DEF Single
    <2>1. ASSUME NEW w \in q2
          PROVE  \E u \in q : /\ u.to = w.to
                              /\ u.by = Block(b) => w = Doomed(u.to)
                              /\ u.by # Block(b) => w = u
      <3>1. CASE w \in q /\ w # p /\ w.by # Block(b)
        BY <3>1
      <3>2. CASE \E u \in q : u.by = Block(b) /\ w = Doomed(u.to)
        BY <3>2, DoomedPointer
      <3> QED
        BY <1>3, <3>1, <3>2
    <2>2. PICK u \in q : /\ u.to = o.to
                         /\ u.by = Block(b) => o = Doomed(u.to)
                         /\ u.by # Block(b) => o = u
      BY <2>1
    <2>3. PICK w \in q : /\ w.to = v.to
                         /\ w.by = Block(b) => v = Doomed(w.to)
                         /\ w.by # Block(b) => v = w
      BY <2>1
    <2>4. u = w
      BY <1>1, <2>2, <2>3 DEF Single
    <2> QED
      BY <2>2, <2>3, <2>4
  <1>8. \A a : a # b => \A o : o.by = Block(a) => (o \in q <=> o \in q2)
    <2> TAKE a
    <2> HAVE a # b
    <2>1. Block(a) # Block(b) /\ Block(a) # Destroyer
      BY Holders
    <2> QED
      BY <1>3, <1>5, <2>1, DoomedPointer
  <1>9. Tidy(h2, q2)
    BY <1>1, <1>2, <1>8 DEF Tidy
  <1>10. Entries(h2)
    BY <1>1, <1>2 DEF Entries
  <1>11. Reached(h, q) => Reached(h2, q2)
    <2> SUFFICES ASSUME Reached(h, q), NEW a \in DOMAIN h2 PROVE \E o \in q2 : o.to = a
      BY DEF Reached
    <2>1. PICK o \in q : o.to = a
      BY <1>2 DEF Reached
    <2>2. o # p
      BY <1>2, <2>1
    <2> QED
      BY <1>3, <2>1, <2>2, DoomedPointer
  <1>12. \A k : \A o : Holds(q, k, o) <=> Holds(q2, k, o)
    <2> TAKE k
    <2>1. Frame(k) # Destroyer /\ Frame(k) # Block(b)
      BY Holders
    <2> QED
      BY <1>3, <1>5, <2>1, DoomedPointer DEF Holds
  <1>13. ASSUME NEW k, NEW o, OwnSelf(q, k, o)
         PROVE  h2[o.to].kind = h[o.to].kind /\ o.to # b
    <2>1. o \in q /\ o # p
      BY <1>5, <1>13, Holders DEF OwnSelf, Holds
    <2>2. o.to \in DOMAIN h /\ o.to # b
      BY <1>1, <1>4, <2>1 DEF Sound
    <2> QED
      BY <1>2, <2>2
  <1>14. \A k \in 1..n : AtWork(h2, q2, s[k], k, c)
    <2> TAKE k \in 1..n
    <2>1. AtWork(h, q, s[k], k, c)
      BY DEF LifeInv, CoreInv, n
    <2>2. \A o : OwnSelf(q, k, o) =>
              /\ h2[o.to].kind = h[o.to].kind
              /\ \A u : u.by = Block(o.to) => (u \in q <=> u \in q2)
      BY <1>8, <1>13
    <2>3. \A o : Holds(q, k, o) <=> Holds(q2, k, o)
      BY <1>12
    <2> DEFINE f == s[k]
    <2> HIDE DEF f
    <2>4. AtWork(h, q, f, k, c)
      BY <2>1 DEF f
    <2>5. AtWork(h2, q2, f, k, c)
      BY <2>2, <2>3, <2>4, StaysAtWork
    <2> QED
      BY <2>5 DEF f
  <1>15. CoreInv(h2, q2, s, c)
    BY <1>6, <1>7, <1>9, <1>10, <1>14 DEF LifeInv, CoreInv, n
  <1> QED
    BY <1>11, <1>15 DEF LifeInv

LEMMA Frees ==
    ASSUME NEW h, NEW q, NEW s, NEW c, NEW p, NEW b, LifeInv(h, q, s, c),
           p \in q, p.by = Destroyer, p.to = b
    PROVE  LifeInv(Lessened(h, b), Remaining(h, q, p, b), s, c)
  <1>1. Sound(h, q, Len(s)) /\ Tidy(h, q)
    BY DEF LifeInv, CoreInv
  <1>2. b \in DOMAIN h
    BY <1>1 DEF Sound
  <1>3. \A o \in q : o.by = Block(b) => o \in Kids(h, q, b)
    BY <1>1, <1>2 DEF Kids, Tidy
  <1>4. Swept(q, Remaining(h, q, p, b), p, b)
    BY <1>3 DEF Rid, Doomed, Kids, Swept, Remaining
  <1>5. /\ DOMAIN Lessened(h, b) = DOMAIN h \ {b}
        /\ \A a \in DOMAIN Lessened(h, b) : Lessened(h, b)[a] = h[a]
    BY DEF Lessened
  <1> QED
    BY <1>4, <1>5, Sweeps

-----------------------------------------------------------------------------
(* The steps of the specification.                                         *)
Life == LifeInv(heap, ptr, stack, call)

LEMMA Standing ==
    ASSUME Life, stack # <<>>
    PROVE  /\ Depth \in Nat \ {0} /\ Depth \in 1..Depth /\ \E S : stack \in Seq(S)
           /\ AtWork(heap, ptr, Top, Depth, call) /\ Frames(Top) /\ Proper(Top.req)
           /\ Sound(heap, ptr, Depth) /\ Single(ptr) /\ Tidy(heap, ptr) /\ Entries(heap)
  <1>1. CoreInv(heap, ptr, stack, call)
    BY DEF Life, LifeInv
  <1>2. PICK S : stack \in Seq(S)
    BY <1>1 DEF CoreInv, Nested
  <1>3. Depth \in Nat \ {0} /\ Depth \in 1..Depth
    BY <1>2 DEF Depth
  <1>4. AtWork(heap, ptr, Top, Depth, call)
    BY <1>1, <1>3 DEF CoreInv, Top, Depth
  <1>5. Frames(Top) /\ Proper(Top.req)
    BY <1>4 DEF AtWork, Frames
  <1> QED
    BY <1>1, <1>2, <1>3, <1>4, <1>5 DEF CoreInv, Depth

(* A pointer that the model looks up is the one that there is.             *)
LEMMA Looked ==
    ASSUME NEW by, NEW at, Points(by, at)
    PROVE  \E p \in ptr : p.by = by /\ p.at = at /\ Target(by, at) = p.to
  BY DEF Points, Target

LEMMA SelfKnown ==
    ASSUME Life, stack # <<>>, Assured(Top, "self")
    PROVE  \E u : /\ OwnSelf(ptr, Depth, u) /\ Self = u.to /\ u.to \in DOMAIN heap
                  /\ \A o : Holds(ptr, Depth, o) => o = u
  <1>1. AtWork(heap, ptr, Top, Depth, call) /\ Sound(heap, ptr, Depth)
    BY Standing
  <1>2. PICK v : OwnSelf(ptr, Depth, v)
    BY <1>1 DEF AtWork
  <1>3. Points(Me, "self")
    BY <1>2 DEF Points, OwnSelf, Holds, Me
  <1>4. PICK u \in ptr : u.by = Me /\ u.at = "self" /\ Self = u.to
    BY <1>3, Looked DEF Self
  <1>5. OwnSelf(ptr, Depth, u)
    BY <1>4 DEF OwnSelf, Holds, Me
  <1>6. \A o : Holds(ptr, Depth, o) => o = u
    BY <1>1, <1>5 DEF AtWork
  <1>7. u.to \in DOMAIN heap
    BY <1>1, <1>4 DEF Sound
  <1> QED
    BY <1>4, <1>5, <1>6, <1>7

(* A block is renamed, or learns its kernel.                               *)
Alike(h, h2) ==
    /\ Entries(h2) /\ DOMAIN h2 = DOMAIN h
    /\ \A a \in DOMAIN h : h2[a].kind = h[a].kind
LEMMA Renamed ==
    ASSUME NEW h, NEW b, NEW r, Entries(h), Proper(r), b \in DOMAIN h
    PROVE  Alike(h, [h EXCEPT ![b].req = r])
  <1> DEFINE h2 == [h EXCEPT ![b].req = r]
  <1>1. PICK k, n, q, f : h[b] = [kind |-> k, bytes |-> n, req |-> q, fn |-> f]
    BY DEF Entries
  <1>2. h2[b] = [kind |-> k, bytes |-> n, req |-> r, fn |-> f]
    BY <1>1
  <1>3. DOMAIN h2 = DOMAIN h /\ \A a \in DOMAIN h : a # b => h2[a] = h[a]
    OBVIOUS
  <1> HIDE DEF h2
  <1>4. \A a \in DOMAIN h : h2[a].kind = h[a].kind
    BY <1>1, <1>2, <1>3
  <1>5. /\ h2[b] = [kind |-> h2[b].kind, bytes |-> h2[b].bytes, req |-> h2[b].req, fn |-> h2[b].fn]
        /\ h2[b].req = r
    BY <1>2
  <1>6. Alike(h, h2)
    BY <1>3, <1>4, <1>5 DEF Entries, Alike
  <1> QED
    BY <1>6 DEF h2

LEMMA Learns ==
    ASSUME NEW h, NEW b, NEW fn, Entries(h), b \in DOMAIN h
    PROVE  Alike(h, [h EXCEPT ![b].fn = fn])
  <1> DEFINE h2 == [h EXCEPT ![b].fn = fn]
  <1>1. PICK k, n, q, f : h[b] = [kind |-> k, bytes |-> n, req |-> q, fn |-> f] /\ Proper(q)
    BY DEF Entries
  <1>2. h2[b] = [kind |-> k, bytes |-> n, req |-> q, fn |-> fn]
    BY <1>1
  <1>3. DOMAIN h2 = DOMAIN h /\ \A a \in DOMAIN h : a # b => h2[a] = h[a]
    OBVIOUS
  <1> HIDE DEF h2
  <1>4. \A a \in DOMAIN h : h2[a].kind = h[a].kind
    BY <1>1, <1>2, <1>3
  <1>5. /\ h2[b] = [kind |-> h2[b].kind, bytes |-> h2[b].bytes, req |-> h2[b].req, fn |-> h2[b].fn]
        /\ h2[b].req = q
    BY <1>2
  <1>6. Alike(h, h2)
    BY <1>1, <1>3, <1>4, <1>5 DEF Entries, Alike
  <1> QED
    BY <1>6 DEF h2

LEMMA Given1 == \A k : GiveUp(k) = Abandoned(ptr, k)
  BY DEF GiveUp, Abandoned

LEMMA LifeFails ==
    ASSUME Life, stack # <<>>, stack' = [stack EXCEPT ![Depth].pc = 0],
           ptr' = GiveUp(Depth), heap' = heap, call.denied => call'.denied
    PROVE  Life'
  <1>1. LifeInv(heap, Abandoned(ptr, Len(stack)), [stack EXCEPT ![Len(stack)].pc = 0], call')
    BY Abandons DEF Life
  <1> QED
    BY <1>1, Given1 DEF Life, Depth

Called(c) == c = [maker |-> c.maker, answer |-> c.answer, told |-> c.told, denied |-> c.denied]
Onward(c, d) == Called(d) /\ d.maker = c.maker /\ (c.told => d.told) /\ (c.denied => d.denied)
LEMMA CallSteps ==
    ASSUME NEW c, NEW d, Called(c)
    PROVE  /\ d = c => Onward(c, d)
           /\ d = [c EXCEPT !.denied = TRUE]
                  => Onward(c, d) /\ d.answer = c.answer /\ d.denied
           /\ \A t : d = [c EXCEPT !.told = @ \/ t]
                         => Onward(c, d) /\ d.answer = c.answer /\ (t => d.told)
           /\ \A t : d = [c EXCEPT !.told = @ \/ t, !.denied = TRUE]
                         => Onward(c, d) /\ d.answer = c.answer /\ (t => d.told) /\ d.denied
           /\ d = [c EXCEPT !.told = TRUE, !.denied = TRUE]
                  => Onward(c, d) /\ d.answer = c.answer /\ d.told /\ d.denied
           /\ \A a : d = [c EXCEPT !.answer = a] => Onward(c, d) /\ d.answer = a
           /\ d = [c EXCEPT !.answer = "null", !.told = TRUE, !.denied = TRUE]
                  => Onward(c, d) /\ d.told /\ d.denied
  <1>1. PICK m, a, t, e : c = [maker |-> m, answer |-> a, told |-> t, denied |-> e]
    BY DEF Called
  <1>2. d = c => Onward(c, d)
    BY DEF Onward
  <1>3. ASSUME d = [c EXCEPT !.denied = TRUE]
        PROVE  Onward(c, d) /\ d.answer = c.answer /\ d.denied
    BY <1>1, <1>3 DEF Onward, Called
  <1>4. ASSUME NEW x, d = [c EXCEPT !.told = @ \/ x]
        PROVE  Onward(c, d) /\ d.answer = c.answer /\ (x => d.told)
    BY <1>1, <1>4 DEF Onward, Called
  <1>5. ASSUME NEW x, d = [c EXCEPT !.told = @ \/ x, !.denied = TRUE]
        PROVE  Onward(c, d) /\ d.answer = c.answer /\ (x => d.told) /\ d.denied
    BY <1>1, <1>5 DEF Onward, Called
  <1>6. ASSUME d = [c EXCEPT !.told = TRUE, !.denied = TRUE]
        PROVE  Onward(c, d) /\ d.answer = c.answer /\ d.told /\ d.denied
    BY <1>1, <1>6 DEF Onward, Called
  <1>7. ASSUME NEW x, d = [c EXCEPT !.answer = x]
        PROVE  Onward(c, d) /\ d.answer = x
    BY <1>1, <1>7 DEF Onward, Called
  <1>8. ASSUME d = [c EXCEPT !.answer = "null", !.told = TRUE, !.denied = TRUE]
        PROVE  Onward(c, d) /\ d.told /\ d.denied
    BY <1>1, <1>8 DEF Onward, Called
  <1> QED
    BY <1>2, <1>3, <1>4, <1>5, <1>6, <1>7, <1>8

(* The constructor goes on.                                                *)
LEMMA LifeGoesOn ==
    ASSUME Life, stack # <<>>, Top.pc \in 1..Len(Steps(Top.req)),
           call.denied => call'.denied, ptr' = ptr, Advance,
           \A at \in Surely(Cur) : at # "self" /\ call'.denied,
           DOMAIN heap' = DOMAIN heap, \A b \in DOMAIN heap : heap'[b].kind = heap[b].kind,
           Entries(heap')
    PROVE  Life'
  <1>1. LET step == Steps(stack[Len(stack)].req)[stack[Len(stack)].pc]
        IN  /\ "self" \in Surely(step) => \E p : OwnSelf(ptr, Len(stack), p)
            /\ \A at \in Surely(step) : at = "self" \/ call'.denied
    BY DEF Cur, Top, Depth
  <1>2. stack[Len(stack)].pc \in 1..Len(Steps(stack[Len(stack)].req))
    BY DEF Top, Depth
  <1>3. LifeInv(heap', ptr, [stack EXCEPT ![Len(stack)].pc = @ + 1], call')
    BY <1>1, <1>2, GoesOn DEF Life
  <1> QED
    BY <1>3 DEF Life, Advance, Depth

(* New blocks become parts of the object.                                  *)
LEMMA LifeAttaches ==
    ASSUME Life, stack # <<>>, Top.pc \in 1..Len(Steps(Top.req)),
           Cur.op \in {"alloc", "generate", "measure", "window"},
           NEW links, NEW ats, ats \subseteq Fills(Cur), Surely(Cur) \subseteq ats,
           Attached(ptr, ptr', links, ats, Block(Self)),
           \A p \in links : p.to \notin DOMAIN heap,
           DOMAIN heap' = DOMAIN heap \cup {p.to : p \in links},
           \A a \in DOMAIN heap : heap'[a].kind = heap[a].kind,
           Entries(heap'), Advance, UNCHANGED call
    PROVE  Life'
  <1>1. Assured(Top, "self")
    BY Standing, StepKnown DEF NeedsSelf, Cur
  <1>2. PICK u : OwnSelf(ptr, Depth, u) /\ Self = u.to
    BY <1>1, SelfKnown
  <1>3. Attached(ptr, ptr', links, ats, Block(u.to)) /\ OwnSelf(ptr, Len(stack), u)
    BY <1>2 DEF Depth
  <1>4. /\ stack[Len(stack)].pc \in 1..Len(Steps(stack[Len(stack)].req))
        /\ Steps(stack[Len(stack)].req)[stack[Len(stack)].pc].op
               \in {"alloc", "generate", "measure", "window"}
        /\ ats \subseteq Fills(Steps(stack[Len(stack)].req)[stack[Len(stack)].pc])
        /\ Surely(Steps(stack[Len(stack)].req)[stack[Len(stack)].pc]) \subseteq ats
    BY DEF Cur, Top, Depth
  <1>5. LifeInv(heap', ptr', [stack EXCEPT ![Len(stack)].pc = @ + 1], call)
    BY <1>3, <1>4, Attaches DEF Life
  <1> QED
    BY <1>5 DEF Life, Advance, Depth

LEMMA AtStepIs ==
    ASSUME NEW op, AtStep(op)
    PROVE  stack # <<>> /\ Top.pc \in 1..Len(Steps(Top.req)) /\ Cur.op = op
  BY DEF AtStep

LEMMA LifeNew == Life /\ Called(call) /\ StepNew => Life'
  <1> SUFFICES ASSUME Life, Called(call), StepNew PROVE Life'
    OBVIOUS
  <1>1. stack # <<>> /\ Top.pc \in 1..Len(Steps(Top.req)) /\ Cur.op = "new"
    BY AtStepIs DEF StepNew
  <1>2. CASE \E b \in 1..MaxBlocks :
            /\ Fresh(b, DOMAIN heap)
            /\ heap' = Stored(heap, b, Record(Cur.kind, 0, Top.req))
            /\ ptr' = {IF p.by = Me THEN Pointer(Block(b), p.at, p.to) ELSE p : p \in ptr}
                          \cup {Pointer(Me, "self", b)}
            /\ Advance /\ UNCHANGED call
    <2>1. PICK b : /\ b \notin DOMAIN heap
                   /\ heap' = Stored(heap, b, Record(Cur.kind, 0, Top.req))
                   /\ ptr' = Taken(ptr, Depth, b)
                   /\ Advance /\ UNCHANGED call
      BY <1>2 DEF Fresh, Taken, Moved, Own, Me
    <2>2. /\ stack[Len(stack)].pc \in 1..Len(Steps(stack[Len(stack)].req))
          /\ Steps(stack[Len(stack)].req)[stack[Len(stack)].pc].op = "new"
      BY <1>1 DEF Cur, Top, Depth
    <2>3. LifeInv(Stored(heap, b, Record(Steps(stack[Len(stack)].req)[stack[Len(stack)].pc].kind,
                                         0, stack[Len(stack)].req)),
                  Taken(ptr, Len(stack), b), [stack EXCEPT ![Len(stack)].pc = @ + 1], call)
      BY <1>1, <2>1, <2>2, Builds DEF Life
    <2> QED
      BY <2>1, <2>3 DEF Life, Advance, Cur, Top, Depth
  <1>3. CASE /\ stack' = [stack EXCEPT ![Depth].pc = 0]
             /\ ptr' = GiveUp(Depth)
             /\ call' = [call EXCEPT !.told = @ \/ Cur.tells, !.denied = TRUE]
             /\ UNCHANGED heap
    <2>1. Onward(call, call')
      BY <1>3, CallSteps
    <2>2. call.denied => call'.denied
      BY <2>1 DEF Onward
    <2> QED
      BY <1>1, <1>3, <2>2, LifeFails
  <1> QED
    BY <1>2, <1>3 DEF StepNew

LEMMA LifeDenied ==
    ASSUME Life, Called(call), stack # <<>>, Top.pc \in 1..Len(Steps(Top.req)),
           "self" \notin Surely(Cur), Advance, Deny, UNCHANGED <<heap, ptr>>
    PROVE  Life'
  <1>1. Onward(call, call') /\ call'.denied
    BY CallSteps DEF Deny
  <1>2. heap' = heap /\ ptr' = ptr /\ Entries(heap)
    BY Standing
  <1>3. call.denied => call'.denied
    BY <1>1 DEF Onward
  <1>4. \A at \in Surely(Cur) : at # "self" /\ call'.denied
    BY <1>1
  <1>5. Entries(heap') /\ DOMAIN heap' = DOMAIN heap
        /\ \A b \in DOMAIN heap : heap'[b].kind = heap[b].kind
    BY <1>2
  <1> QED
    BY <1>2, <1>3, <1>4, <1>5, LifeGoesOn

(* One new block, in the slot at.                                          *)
Only(by, at, b) == {Pointer(by, at, b)}
LEMMA Assigned ==
    ASSUME NEW by, NEW at, NEW b, NEW q2, q2 = Assign(by, at, b)
    PROVE  /\ Attached(ptr, q2, Only(by, at, b), {at}, by)
           /\ {p.to : p \in Only(by, at, b)} = {b}
  <1>1. \A p \in Only(by, at, b) : /\ p.by = by /\ p.at = at /\ p.to = b
                                   /\ p = Pointer(p.by, p.at, p.to)
    BY Pointers DEF Only
  <1>2. /\ \E p : p \in Only(by, at, b)
        /\ \A p, o \in Only(by, at, b) : p = o
    BY DEF Only
  <1>3. \A o : o \in q2 <=> (o \in ptr /\ ~(o.by = by /\ o.at = at)) \/ o \in Only(by, at, b)
    BY DEF Assign, Only
  <1> QED
    BY <1>1, <1>2, <1>3 DEF Attached, Single

LEMMA LifeTable ==
    ASSUME Life, stack # <<>>, Top.pc \in 1..Len(Steps(Top.req)),
           Cur.op \in {"alloc", "generate", "measure", "window"},
           NEW at, at \in Fills(Cur), Surely(Cur) \subseteq {at},
           NEW b, b \notin DOMAIN heap, NEW bytes, NEW h1, Entries(h1),
           DOMAIN h1 = DOMAIN heap, \A a \in DOMAIN heap : h1[a].kind = heap[a].kind,
           heap' = Stored(h1, b, Record("table", bytes, Top.req)),
           ptr' = Assign(Block(Self), at, b), Advance, UNCHANGED call
    PROVE  Life'
  <1>1. /\ Attached(ptr, ptr', Only(Block(Self), at, b), {at}, Block(Self))
        /\ {p.to : p \in Only(Block(Self), at, b)} = {b}
    BY Assigned
  <1>2. Entries(heap')
    BY Standing, EntriesGrow
  <1>3. /\ DOMAIN heap' = DOMAIN heap \cup {b}
        /\ \A a \in DOMAIN heap : heap'[a].kind = heap[a].kind
    <2>1. /\ DOMAIN heap' = DOMAIN h1 \cup {b}
          /\ \A a \in DOMAIN h1 : a # b => heap'[a] = h1[a]
      <3>1. heap' = Stored(h1, b, Record("table", bytes, Top.req))
        OBVIOUS
      <3> DEFINE x == Record("table", bytes, Top.req)
      <3> HIDE DEF x
      <3>2. heap' = Stored(h1, b, x)
        BY <3>1 DEF x
      <3> QED
        BY <3>2 DEF Stored
    <2>2. \A a \in DOMAIN heap : heap'[a] = h1[a]
      BY <2>1
    <2> QED
      BY <2>1, <2>2
  <1>4. \A p \in Only(Block(Self), at, b) : p.to \notin DOMAIN heap
    BY <1>1
  <1> QED
    BY <1>1, <1>2, <1>3, <1>4, LifeAttaches

LEMMA LifeAlloc == Life /\ Called(call) /\ StepAlloc => Life'
  <1> SUFFICES ASSUME Life, Called(call), StepAlloc PROVE Life'
    OBVIOUS
  <1>1. /\ stack # <<>> /\ Top.pc \in 1..Len(Steps(Top.req)) /\ Cur.op = "alloc" /\ Advance
    BY AtStepIs DEF StepAlloc
  <1>2. Fills(Cur) = {Cur.at} /\ Surely(Cur) = {Cur.at}
    BY <1>1 DEF Fills, Surely
  <1>3. Cur.at # "self"
    BY <1>1, Standing, StepKnown DEF StepFits, Cur
  <1>4. CASE \E b \in 1..MaxBlocks :
                 /\ Fresh(b, DOMAIN heap)
                 /\ heap' = Stored(heap, b, Record("table", Cur.bytes, Top.req))
                 /\ ptr' = Assign(Block(Self), Cur.at, b)
                 /\ UNCHANGED call
    <2>1. PICK b : /\ b \notin DOMAIN heap
                   /\ heap' = Stored(heap, b, Record("table", Cur.bytes, Top.req))
                   /\ ptr' = Assign(Block(Self), Cur.at, b)
                   /\ UNCHANGED call
      BY <1>4 DEF Fresh
    <2>2. Entries(heap)
      BY <1>1, Standing
    <2> QED
      BY <1>1, <1>2, <2>1, <2>2, LifeTable
  <1>5. CASE Deny /\ UNCHANGED <<heap, ptr>>
    <2>1. "self" \notin Surely(Cur)
      BY <1>2, <1>3
    <2> QED
      BY <1>1, <1>5, <2>1, LifeDenied
  <1> QED
    BY <1>4, <1>5 DEF StepAlloc

(* Two new blocks, the code and its table.                                 *)
Both(by, b, c) == {Pointer(by, "code", b), Pointer(by, "t0", c)}
LEMMA BothAssigned ==
    ASSUME NEW by, NEW b, NEW c, b # c, NEW q2,
           q2 = Assign(by, "code", b) \cup {Pointer(by, "t0", c)}
    PROVE  /\ Attached(ptr, q2, Both(by, b, c), {"code", "t0"}, by)
           /\ {p.to : p \in Both(by, b, c)} = {b, c}
  <1> DEFINE x == Pointer(by, "code", b)
             y == Pointer(by, "t0", c)
  <1>1. /\ x.by = by /\ x.at = "code" /\ x.to = b /\ x = Pointer(x.by, x.at, x.to)
        /\ y.by = by /\ y.at = "t0" /\ y.to = c /\ y = Pointer(y.by, y.at, y.to)
    BY Pointers
  <1>2. Both(by, b, c) = {x, y}
    BY DEF Both
  <1>3. \A o : o \in q2 <=> (o \in ptr /\ ~(o.by = by /\ o.at = "code")) \/ o = x \/ o = y
    BY DEF Assign
  <1> HIDE DEF x, y
  <1>4. Single({x, y})
    BY <1>1 DEF Single
  <1>5. {p.to : p \in {x, y}} = {b, c}
    BY <1>1
  <1>6. Attached(ptr, q2, {x, y}, {"code", "t0"}, by)
    BY <1>1, <1>3, <1>4 DEF Attached
  <1> QED
    BY <1>2, <1>5, <1>6

LEMMA LifeGenerate == Life /\ Called(call) /\ StepGenerate => Life'
  <1> SUFFICES ASSUME Life, Called(call), StepGenerate PROVE Life'
    OBVIOUS
  <1>1. /\ stack # <<>> /\ Top.pc \in 1..Len(Steps(Top.req)) /\ Cur.op = "generate" /\ Advance
    BY AtStepIs DEF StepGenerate
  <1>2. Fills(Cur) = {"code", "t0"} /\ Surely(Cur) = {"code"}
    BY <1>1 DEF Fills, Surely
  <1>3. Entries(heap) /\ Proper(Top.req)
    BY <1>1, Standing
  <1> DEFINE x == Record("table", 16 * MaxInst, Top.req)
             y == Record("table", Cur.bytes, Top.req)
             one(b) == /\ heap' = Stored(heap, b, x) /\ ptr' = Assign(Block(Self), "code", b)
             two(b, c) == /\ heap' = Stored(Stored(heap, b, x), c, y)
                          /\ ptr' = Assign(Block(Self), "code", b)
                                        \cup {Pointer(Block(Self), "t0", c)}
  <1>4. \/ \E b, c \in 1..MaxBlocks : /\ Fresh(b, DOMAIN heap) /\ Fresh(c, DOMAIN heap \cup {b})
                                      /\ one(b) \/ two(b, c)
                                      /\ UNCHANGED call
        \/ Deny /\ UNCHANGED <<heap, ptr>>
    BY DEF StepGenerate
  <1>5. CASE \E b, c \in 1..MaxBlocks :
                 /\ Fresh(b, DOMAIN heap) /\ Fresh(c, DOMAIN heap \cup {b})
                 /\ one(b) \/ two(b, c)
                 /\ UNCHANGED call
    <2>1. PICK b, c : /\ b \notin DOMAIN heap /\ c \notin DOMAIN heap \cup {b}
                      /\ one(b) \/ two(b, c)
                      /\ UNCHANGED call
      BY <1>5 DEF Fresh
    <2>2. CASE one(b)
      <3>1. "code" \in Fills(Cur) /\ Surely(Cur) \subseteq {"code"}
        BY <1>2
      <3>2. /\ heap' = Stored(heap, b, Record("table", 16 * MaxInst, Top.req))
            /\ ptr' = Assign(Block(Self), "code", b)
        BY <2>2
      <3> HIDE DEF x, y, one, two
      <3> QED
        BY <1>1, <1>3, <2>1, <3>1, <3>2, LifeTable
    <2>3. CASE two(b, c)
      <3>1. /\ Attached(ptr, ptr', Both(Block(Self), b, c), {"code", "t0"}, Block(Self))
            /\ {p.to : p \in Both(Block(Self), b, c)} = {b, c}
        BY <2>1, <2>3, BothAssigned
      <3>2. heap' = Stored(Stored(heap, b, x), c, y)
        BY <2>3
      <3>3. Entries(heap')
        BY <1>3, <3>2, EntriesGrow
      <3> HIDE DEF x, y, one, two
      <3>4. /\ DOMAIN heap' = DOMAIN heap \cup {b, c}
            /\ \A a \in DOMAIN heap : heap'[a] = heap[a]
        BY <2>1, <3>2 DEF Stored
      <3>5. \A p \in Both(Block(Self), b, c) : p.to \notin DOMAIN heap
        BY <2>1, <3>1
      <3>6. {"code", "t0"} \subseteq Fills(Cur) /\ Surely(Cur) \subseteq {"code", "t0"}
        BY <1>2
      <3>7. /\ DOMAIN heap' = DOMAIN heap \cup {p.to : p \in Both(Block(Self), b, c)}
            /\ \A a \in DOMAIN heap : heap'[a].kind = heap[a].kind
        BY <3>1, <3>4
      <3>8. Cur.op \in {"alloc", "generate", "measure", "window"} /\ UNCHANGED call
        BY <1>1, <2>1
      <3> QED
        BY <1>1, <3>1, <3>3, <3>5, <3>6, <3>7, <3>8, LifeAttaches
    <2> QED
      BY <2>1, <2>2, <2>3
  <1>6. CASE Deny /\ UNCHANGED <<heap, ptr>>
    <2>1. "self" \notin Surely(Cur)
      BY <1>2
    <2> QED
      BY <1>1, <1>6, <2>1, LifeDenied
  <1> QED
    BY <1>4, <1>5, <1>6

LEMMA LifeMeasure == Life /\ StepMeasure => Life'
  <1> SUFFICES ASSUME Life, StepMeasure PROVE Life'
    OBVIOUS
  <1>1. /\ stack # <<>> /\ Top.pc \in 1..Len(Steps(Top.req)) /\ Cur.op = "measure"
        /\ Advance /\ UNCHANGED call
    BY AtStepIs DEF StepMeasure
  <1>2. Fills(Cur) = {"t2"} /\ Surely(Cur) = {}
    BY <1>1 DEF Fills, Surely
  <1>3. Entries(heap) /\ Proper(Top.req)
    BY <1>1, Standing
  <1>4. CASE UNCHANGED <<heap, ptr>>
    <2>1. /\ Entries(heap') /\ DOMAIN heap' = DOMAIN heap /\ ptr' = ptr
          /\ \A b \in DOMAIN heap : heap'[b].kind = heap[b].kind
      BY <1>3, <1>4
    <2>2. call.denied => call'.denied
      BY <1>1
    <2>3. \A at \in Surely(Cur) : at # "self" /\ call'.denied
      BY <1>2
    <2> QED
      BY <1>1, <2>1, <2>2, <2>3, LifeGoesOn
  <1>5. CASE \E b \in 1..MaxBlocks :
                 /\ Fresh(b, DOMAIN heap)
                 /\ heap' = Stored([heap EXCEPT ![Self].fn = "dit"],
                                   b, Record("table", Cur.bytes, Top.req))
                 /\ ptr' = Assign(Block(Self), "t2", b)
    <2> DEFINE h1 == [heap EXCEPT ![Self].fn = "dit"]
    <2>1. PICK b : /\ b \notin DOMAIN heap
                   /\ heap' = Stored(h1, b, Record("table", Cur.bytes, Top.req))
                   /\ ptr' = Assign(Block(Self), "t2", b)
      BY <1>5 DEF Fresh
    <2>2. Self \in DOMAIN heap
      BY <1>1, Standing, StepKnown, SelfKnown DEF NeedsSelf, Cur
    <2>3. /\ Entries(h1) /\ DOMAIN h1 = DOMAIN heap
          /\ \A a \in DOMAIN heap : h1[a].kind = heap[a].kind
      <3>1. Alike(heap, h1)
        BY <1>3, <2>2, Learns
      <3> QED
        BY <3>1 DEF Alike
    <2> HIDE DEF h1
    <2>4. "t2" \in Fills(Cur) /\ Surely(Cur) \subseteq {"t2"}
      BY <1>2
    <2> QED
      BY <1>1, <2>1, <2>3, <2>4, LifeTable
  <1> QED
    BY <1>4, <1>5 DEF StepMeasure

LEMMA LifeWindow == Life /\ Called(call) /\ StepWindow => Life'
  <1> SUFFICES ASSUME Life, Called(call), StepWindow PROVE Life'
    OBVIOUS
  <1>1. stack # <<>> /\ Top.pc \in 1..Len(Steps(Top.req)) /\ Cur.op = "window"
    BY AtStepIs DEF StepWindow
  <1>2. Fills(Cur) = {"t1"} /\ Surely(Cur) = {}
    BY <1>1 DEF Fills, Surely
  <1>3. Entries(heap) /\ Proper(Top.req)
    BY <1>1, Standing
  <1>4. CASE \E b \in 1..MaxBlocks :
                 /\ Fresh(b, DOMAIN heap)
                 /\ heap' = Stored([heap EXCEPT ![Self].req = Top.req],
                                   b, Record("table", Cur.bytes, Top.req))
                 /\ ptr' = Assign(Block(Self), "t1", b)
                 /\ Advance /\ UNCHANGED call
    <2> DEFINE h1 == [heap EXCEPT ![Self].req = Top.req]
    <2>1. PICK b : /\ b \notin DOMAIN heap
                   /\ heap' = Stored(h1, b, Record("table", Cur.bytes, Top.req))
                   /\ ptr' = Assign(Block(Self), "t1", b)
                   /\ Advance /\ UNCHANGED call
      BY <1>4 DEF Fresh
    <2>2. Self \in DOMAIN heap
      BY <1>1, Standing, StepKnown, SelfKnown DEF NeedsSelf, Cur
    <2>3. /\ Entries(h1) /\ DOMAIN h1 = DOMAIN heap
          /\ \A a \in DOMAIN heap : h1[a].kind = heap[a].kind
      <3>1. Alike(heap, h1)
        BY <1>3, <2>2, Renamed
      <3> QED
        BY <3>1 DEF Alike
    <2> HIDE DEF h1
    <2>4. "t1" \in Fills(Cur) /\ Surely(Cur) \subseteq {"t1"}
      BY <1>2
    <2> QED
      BY <1>1, <2>1, <2>3, <2>4, LifeTable
  <1>5. CASE /\ stack' = [stack EXCEPT ![Depth].pc = 0]
             /\ ptr' = GiveUp(Depth)
             /\ Deny /\ UNCHANGED heap
    <2>1. Onward(call, call')
      BY <1>5, CallSteps DEF Deny
    <2>2. call.denied => call'.denied
      BY <2>1 DEF Onward
    <2> QED
      BY <1>1, <1>5, <2>2, LifeFails
  <1> QED
    BY <1>4, <1>5 DEF StepWindow

LEMMA LifeSame ==
    ASSUME Life, stack # <<>>, Top.pc \in 1..Len(Steps(Top.req)), Surely(Cur) = {},
           Advance, UNCHANGED <<heap, ptr, call>>
    PROVE  Life'
  <1>1. Entries(heap)
    BY Standing
  <1>2. /\ Entries(heap') /\ DOMAIN heap' = DOMAIN heap /\ ptr' = ptr
        /\ \A b \in DOMAIN heap : heap'[b].kind = heap[b].kind
    BY <1>1
  <1>3. call.denied => call'.denied
    OBVIOUS
  <1>4. \A at \in Surely(Cur) : at # "self" /\ call'.denied
    OBVIOUS
  <1> QED
    BY <1>2, <1>3, <1>4, LifeGoesOn

LEMMA LifeQuits ==
    ASSUME Life, stack # <<>>, stack' = [stack EXCEPT ![Depth].pc = 0], ptr' = GiveUp(Depth),
           Onward(call, call'), UNCHANGED heap
    PROVE  Life'
  <1>1. (call.denied => call'.denied) /\ heap' = heap
    BY DEF Onward
  <1> QED
    BY <1>1, LifeFails

LEMMA LifeCheck == Life /\ Called(call) /\ StepCheck => Life'
  <1> SUFFICES ASSUME Life, Called(call), StepCheck PROVE Life'
    OBVIOUS
  <1>1. stack # <<>> /\ Top.pc \in 1..Len(Steps(Top.req)) /\ Cur.op = "check"
    BY AtStepIs DEF StepCheck
  <1>2. Surely(Cur) = {}
    BY <1>1 DEF Surely
  <1>3. CASE Advance /\ UNCHANGED <<heap, ptr, call>>
    BY <1>1, <1>2, <1>3, LifeSame
  <1>4. CASE Fail(Cur.tells)
    <2>1. Onward(call, call')
      BY <1>4, CallSteps DEF Fail
    <2> QED
      BY <1>1, <1>4, <2>1, LifeQuits DEF Fail
  <1> QED
    BY <1>3, <1>4 DEF StepCheck

LEMMA LifeTest == Life /\ Called(call) /\ (StepTest \/ StepReject) => Life'
  <1> SUFFICES ASSUME Life, Called(call), StepTest \/ StepReject PROVE Life'
    OBVIOUS
  <1>1. stack # <<>> /\ Top.pc \in 1..Len(Steps(Top.req)) /\ Cur.op \in {"test", "reject"}
    BY AtStepIs DEF StepTest, StepReject
  <1>2. Surely(Cur) = {}
    BY <1>1 DEF Surely
  <1>3. CASE Advance /\ UNCHANGED <<heap, ptr, call>>
    BY <1>1, <1>2, <1>3, LifeSame
  <1>4. CASE /\ stack' = [stack EXCEPT ![Depth].pc = 0]
             /\ ptr' = GiveUp(Depth)
             /\ call' = [call EXCEPT !.told = TRUE, !.denied = TRUE]
             /\ UNCHANGED heap
    <2>1. Onward(call, call')
      BY <1>4, CallSteps
    <2> QED
      BY <1>1, <1>4, <2>1, LifeQuits
  <1> QED
    BY <1>3, <1>4 DEF StepTest, StepReject

LEMMA LifeUse == Life /\ StepUse => Life'
  <1> SUFFICES ASSUME Life, StepUse PROVE Life'
    OBVIOUS
  <1>1. /\ stack # <<>> /\ Top.pc \in 1..Len(Steps(Top.req)) /\ Cur.op = "use"
        /\ Advance /\ ptr' = ptr /\ call' = call
        /\ heap' = [heap EXCEPT ![Self].fn = Cur.fn]
    BY AtStepIs DEF StepUse
  <1>2. Surely(Cur) = {}
    BY <1>1 DEF Surely
  <1>3. Self \in DOMAIN heap /\ Entries(heap)
    BY <1>1, Standing, StepKnown, SelfKnown DEF NeedsSelf, Cur
  <1>4. Alike(heap, heap')
    BY <1>1, <1>3, Learns
  <1>5. /\ Entries(heap') /\ DOMAIN heap' = DOMAIN heap
        /\ \A b \in DOMAIN heap : heap'[b].kind = heap[b].kind
    BY <1>4 DEF Alike
  <1>6. call.denied => call'.denied
    BY <1>1
  <1>7. \A at \in Surely(Cur) : at # "self" /\ call'.denied
    BY <1>2
  <1> QED
    BY <1>1, <1>5, <1>6, <1>7, LifeGoesOn

LEMMA LifeMake == Life /\ Called(call) /\ StepMake => Life'
  <1> SUFFICES ASSUME Life, Called(call), StepMake PROVE Life'
    OBVIOUS
  <1>1. stack # <<>> /\ Top.pc \in 1..Len(Steps(Top.req)) /\ Cur.op = "make"
    BY AtStepIs DEF StepMake
  <1>2. CASE /\ Accepts(Cur.req)
             /\ stack' = Append(stack, [req |-> Cur.req, pc |-> 1])
             /\ UNCHANGED <<heap, ptr, call>>
    <2>1. /\ stack[Len(stack)].pc \in 1..Len(Steps(stack[Len(stack)].req))
          /\ Steps(stack[Len(stack)].req)[stack[Len(stack)].pc].op = "make"
          /\ Accepts(Steps(stack[Len(stack)].req)[stack[Len(stack)].pc].req)
      BY <1>1, <1>2 DEF Cur, Top, Depth
    <2>2. LifeInv(heap, ptr,
                  Append(stack, [req |-> Steps(stack[Len(stack)].req)[stack[Len(stack)].pc].req,
                                 pc |-> 1]), call)
      BY <1>1, <2>1, Pushes DEF Life
    <2> QED
      BY <1>2, <2>2 DEF Life, Cur, Top, Depth
  <1>3. CASE Fail(TRUE)
    <2>1. Onward(call, call')
      BY <1>3, CallSteps DEF Fail
    <2> QED
      BY <1>1, <1>3, <2>1, LifeQuits DEF Fail
  <1> QED
    BY <1>2, <1>3 DEF StepMake

LEMMA LifeReturnNull == Life /\ ReturnNull => Life'
  <1> SUFFICES ASSUME Life, ReturnNull PROVE Life'
    OBVIOUS
  <1>1. stack # <<>> /\ Top.pc = 0 /\ UNCHANGED heap
    BY DEF ReturnNull
  <1>2. /\ Depth \in Nat \ {0} /\ \E S : stack \in Seq(S)
        /\ AtWork(heap, ptr, Top, Depth, call)
    BY <1>1, Standing
  <1>3. 1..Top.pc - 1 = {}
    BY <1>1
  <1>4. \A p : ~Holds(ptr, Depth, p)
    BY <1>2, <1>3 DEF AtWork, Gave
  <1>5. LifeInv(heap, ptr, Shorter(stack), call)
    BY <1>1, <1>4, Leaves DEF Life, Depth
  <1>6. CASE Depth = 1
    <2>1. /\ stack' = <<>> /\ ptr' = ptr
      BY <1>6 DEF ReturnNull
    <2>2. Shorter(stack) = <<>>
      BY <1>1, <1>2, <1>6, ShorterIs DEF Depth
    <2>3. LifeInv(heap, ptr, <<>>, call')
      BY <1>5, <2>2, Alone
    <2> QED
      BY <1>1, <2>1, <2>3 DEF Life
  <1>7. CASE Depth # 1
    <2>1. /\ stack' = [SubSeq(stack, 1, Depth - 1) EXCEPT ![Depth - 1].pc = 0]
          /\ ptr' = GiveUp(Depth - 1) /\ call' = call
      BY <1>7 DEF ReturnNull
    <2>7. Depth \in Nat \ {0}
      BY <1>2
    <2>8. Depth > 1
      BY <1>7, <2>7
    <2>6. Len(stack) > 1
      BY <2>8 DEF Depth
    <2>2. Shorter(stack) # <<>> /\ Len(Shorter(stack)) = Depth - 1
      BY <1>1, <1>2, <2>6, ShorterIs DEF Depth
    <2>3. call.denied => call.denied
      OBVIOUS
    <2>4. LifeInv(heap, Abandoned(ptr, Len(Shorter(stack))),
                  [Shorter(stack) EXCEPT ![Len(Shorter(stack))].pc = 0], call)
      BY <1>5, <2>2, <2>3, Abandons
    <2>5. Shorter(stack) = SubSeq(stack, 1, Depth - 1)
      BY DEF Shorter, Depth
    <2> QED
      BY <1>1, <2>1, <2>2, <2>4, <2>5, Given1 DEF Life
  <1> QED
    BY <1>6, <1>7

LEMMA LifeReturnMade == Life /\ ReturnMade => Life'
  <1> SUFFICES ASSUME Life, ReturnMade PROVE Life'
    OBVIOUS
  <1>1. stack # <<>> /\ Top.pc = Len(Steps(Top.req)) + 1 /\ heap' = heap
    BY DEF ReturnMade
  <1>2. Depth \in Nat \ {0} /\ Frames(Top)
    BY <1>1, Standing
  <1>3. PICK u : OwnSelf(ptr, Depth, u) /\ Self = u.to
    BY <1>1, <1>2, StepKnown, SelfKnown
  <1>4. CASE Depth = 1
    <2>1. /\ stack' = <<>>
          /\ ptr' = Delivered(ptr, 1, Pointer(Caller, "handle", u.to))
      BY <1>3, <1>4 DEF ReturnMade, Receiver, Delivered, Me
    <2>2. /\ Len(stack) = 1 /\ stack[1].pc = Len(Steps(stack[1].req)) + 1
          /\ OwnSelf(ptr, 1, u)
      BY <1>1, <1>3, <1>4 DEF Top, Depth
    <2>3. LifeInv(heap, Delivered(ptr, 1, Pointer(Caller, "handle", u.to)), <<>>, call')
      BY <2>2, HandsOver DEF Life
    <2> QED
      BY <1>1, <2>1, <2>3 DEF Life
  <1>5. CASE Depth # 1
    <2>1. /\ stack' = [SubSeq(stack, 1, Depth - 1) EXCEPT ![Depth - 1].pc = @ + 1]
          /\ ptr' = Delivered(ptr, Depth, Pointer(Receiver, OuterStep.at, u.to))
          /\ call' = call
      BY <1>3, <1>5 DEF ReturnMade, Delivered, Me
    <2>2. Depth > 1
      BY <1>2, <1>5
    <2>3. Takes(ptr, Depth - 1, OuterStep.at, Receiver)
      <3>1. CASE OuterStep.at = "self"
        BY <1>5, <3>1 DEF Receiver, Takes
      <3>2. CASE OuterStep.at # "self" /\ Points(Frame(Depth - 1), "self")
        <4>1. PICK v \in ptr : /\ v.by = Frame(Depth - 1) /\ v.at = "self"
                               /\ Target(Frame(Depth - 1), "self") = v.to
          BY <3>2, Looked
        <4>2. OwnSelf(ptr, Depth - 1, v)
          BY <4>1 DEF OwnSelf, Holds
        <4>3. Receiver = Block(v.to)
          BY <1>5, <3>2, <4>1 DEF Receiver
        <4> QED
          BY <3>2, <4>2, <4>3 DEF Takes
      <3>3. CASE OuterStep.at # "self" /\ ~Points(Frame(Depth - 1), "self")
        <4>1. \A p : ~OwnSelf(ptr, Depth - 1, p)
          BY <3>3 DEF Points, OwnSelf, Holds
        <4>2. Receiver = Frame(Depth - 1)
          BY <1>5, <3>3 DEF Receiver
        <4> QED
          BY <3>3, <4>1, <4>2 DEF Takes
      <3> QED
        BY <3>1, <3>2, <3>3
    <2>4. /\ Len(stack) > 1 /\ stack[Len(stack)].pc = Len(Steps(stack[Len(stack)].req)) + 1
          /\ OwnSelf(ptr, Len(stack), u)
          /\ Takes(ptr, Len(stack) - 1,
                   Steps(stack[Len(stack) - 1].req)[stack[Len(stack) - 1].pc].at, Receiver)
      BY <1>1, <1>3, <2>2, <2>3 DEF Top, Depth, OuterStep, Outer
    <2>5. LifeInv(heap, Delivered(ptr, Len(stack),
                                  Pointer(Receiver,
                                          Steps(stack[Len(stack) - 1].req)
                                              [stack[Len(stack) - 1].pc].at, u.to)),
                  [Shorter(stack) EXCEPT ![Len(stack) - 1].pc = @ + 1], call)
      BY <2>4, HandsUp DEF Life
    <2> QED
      BY <1>1, <2>1, <2>5 DEF Life, Depth, OuterStep, Outer, Shorter
  <1> QED
    BY <1>4, <1>5

(* What the caller asks for.                                               *)
LEMMA Asked ==
    ASSUME NEW r \in Requests
    PROVE  Proper(r)
  <1>1. r \in RequestSet
    BY RequestsAssumption
  <1>2. r.maker \in Makers \cup {"bank"}
    BY <1>1 DEF RequestSet
  <1>3. r = Request(r.maker, r.n, r.prec, r.dir, r.layout, r.flags)
    BY <1>1 DEF RequestSet, Request
  <1> QED
    BY <1>2, <1>3 DEF Proper, IsRequest, WindowsApart, Sized

LEMMA Inverted ==
    ASSUME NEW r, Proper(r)
    PROVE  Proper(InverseOf(r))
  <1> DEFINE q == InverseOf(r)
  <1>1. IsRequest(r)
    BY DEF Proper
  <1>2. CASE r.maker = "cwt"
    <2>1. q = [r EXCEPT !.maker = "icwt"]
      BY <1>2 DEF InverseOf
    <2> HIDE DEF q
    <2>2. Same(q, "icwt", r.n, r.prec, r.dir, r.layout, r.flags)
      BY <1>1, <2>1, Derived
    <2>3. IsRequest(q)
      BY <2>2 DEF Same, IsRequest, Makers
    <2>4. q.maker = "icwt" /\ q.n = r.n
      BY <2>2 DEF Same
    <2>5. Proper(q)
      BY <1>2, <2>3, <2>4 DEF Proper, Sized
    <2> QED
      BY <2>5 DEF q
  <1>3. CASE r.maker # "cwt"
    <2>1. q = [r EXCEPT !.dir = Flipped(r.dir)]
      BY <1>3 DEF InverseOf
    <2> HIDE DEF q
    <2>2. Same(q, r.maker, r.n, r.prec, Flipped(r.dir), r.layout, r.flags)
      BY <1>1, <2>1, Derived
    <2>3. IsRequest(q)
      BY <1>1, <2>2 DEF Same, IsRequest
    <2>4. q.maker = r.maker /\ q.n = r.n /\ q.flags = r.flags
      BY <2>2 DEF Same
    <2>5. Proper(q)
      BY <2>3, <2>4 DEF Proper, Sized, Plain
    <2> QED
      BY <2>5 DEF q
  <1> QED
    BY <1>2, <1>3

LEMMA LifeEnter ==
    ASSUME Life, stack = <<>>, NEW r, Proper(r), Enter(r), UNCHANGED <<heap, ptr>>
    PROVE  Life'
  <1>1. LifeInv(heap, ptr, <<>>, call)
    BY DEF Life
  <1>2. CASE Accepts(r)
    <2>1. stack' = <<[req |-> r, pc |-> 1]>>
      BY <1>2 DEF Enter
    <2>2. LifeInv(heap, ptr, <<[req |-> r, pc |-> 1]>>, call')
      BY <1>1, <1>2, Enters
    <2> QED
      BY <2>1, <2>2 DEF Life
  <1>3. CASE ~Accepts(r)
    <2>1. stack' = <<>>
      BY <1>3 DEF Enter
    <2>2. LifeInv(heap, ptr, <<>>, call')
      BY <1>1, Alone
    <2> QED
      BY <2>1, <2>2 DEF Life
  <1> QED
    BY <1>2, <1>3

(* The caller's calls.                                                     *)
LEMMA LifeCalls ==
    ASSUME Life,
           \/ \E r \in Requests : Create(r)
           \/ \E h \in Handles : CreateInverse(h) \/ Destroy(h)
    PROVE  Life'
  <1>1. CASE \E r \in Requests : Create(r)
    BY <1>1, Asked, LifeEnter DEF Create, Idle
  <1>2. CASE \E h \in Handles : CreateInverse(h)
    <2>1. PICK h \in Handles : CreateInverse(h)
      BY <1>2
    <2>2. stack = <<>> /\ UNCHANGED <<heap, ptr>>
      BY <2>1 DEF CreateInverse, Idle
    <2>3. LifeInv(heap, ptr, <<>>, call)
      BY <2>2 DEF Life
    <2>4. Sound(heap, ptr, 0) /\ Entries(heap)
      BY <2>3, Alone
    <2>5. h \in DOMAIN heap
      BY <2>4 DEF Sound, Handles, Held
    <2>6. Proper(InverseOf(heap[h].req))
      BY <2>4, <2>5, Inverted DEF Entries
    <2>7. CASE Enter(InverseOf(heap[h].req))
      BY <2>2, <2>6, <2>7, LifeEnter
    <2>8. CASE UNCHANGED stack
      <3>1. LifeInv(heap, ptr, <<>>, call')
        BY <2>3, Alone
      <3> QED
        BY <2>2, <2>8, <3>1 DEF Life
    <2> QED
      BY <2>1, <2>7, <2>8 DEF CreateInverse
  <1>3. CASE \E h \in Handles : Destroy(h)
    <2>1. PICK h \in Handles : Destroy(h)
      BY <1>3
    <2>2. stack = <<>> /\ UNCHANGED <<heap, stack, call>> /\ ptr' = Given(ptr, h)
      BY <2>1 DEF Destroy, Idle, Given
    <2>3. LifeInv(heap, Given(ptr, h), <<>>, call)
      BY <2>2, LetsGo DEF Life
    <2> QED
      BY <2>2, <2>3 DEF Life
  <1> QED
    BY <1>1, <1>2, <1>3

LEMMA LifeFrees == Life /\ Free => Life'
  <1> SUFFICES ASSUME Life, Free PROVE Life'
    OBVIOUS
  <1> DEFINE p == CHOOSE q \in Held(Destroyer) : TRUE
             b == p.to
  <1>1. Held(Destroyer) # {} /\ UNCHANGED <<stack, call>>
    BY DEF Free
  <1>2. p \in Held(Destroyer)
    BY <1>1
  <1>3. /\ heap' = [c \in DOMAIN heap \ {b} |-> heap[c]]
        /\ ptr' = (ptr \ ({p} \cup Held(Block(b))))
                     \cup {Pointer(Destroyer, "", q.to) :
                               q \in {q \in Held(Block(b)) : q.at \in Freed(heap[b].kind)}}
    BY DEF Free
  <1> HIDE DEF p
  <1>4. p \in ptr /\ p.by = Destroyer
    BY <1>2 DEF Held
  <1>5. heap' = Lessened(heap, b)
    BY <1>3 DEF Lessened
  <1>6. {q \in Held(Block(b)) : q.at \in Freed(heap[b].kind)} = Kids(heap, ptr, b)
    BY DEF Kids, Held
  <1>7. ptr' = Remaining(heap, ptr, p, b)
    BY <1>3, <1>6 DEF Remaining, Rid, Held
  <1>8. LifeInv(Lessened(heap, b), Remaining(heap, ptr, p, b), stack, call)
    BY <1>4, Frees DEF Life
  <1> QED
    BY <1>1, <1>5, <1>7, <1>8 DEF Life

LEMMA LifeInit == Init => Life
  <1> SUFFICES ASSUME Init PROVE Life
    OBVIOUS
  <1>1. heap = <<>> /\ ptr = {} /\ stack = <<>>
    BY DEF Init
  <1>2. DOMAIN heap = {}
    BY <1>1
  <1>3. LifeInv(heap, ptr, <<>>, call)
    BY <1>1, <1>2, Alone DEF Sound, Single, Tidy, Entries, Reached
  <1> QED
    BY <1>1, <1>3 DEF Life

LEMMA LifeSteps == Life /\ Called(call) /\ [LifeNext]_lifeVars => Life'
  <1> SUFFICES ASSUME Life, Called(call), [LifeNext]_lifeVars PROVE Life'
    OBVIOUS
  <1>1. CASE \/ \E r \in Requests : Create(r)
             \/ \E h \in Handles : CreateInverse(h) \/ Destroy(h)
    BY <1>1, LifeCalls
  <1>2. CASE Step
    BY <1>2, LifeNew, LifeAlloc, LifeGenerate, LifeCheck, LifeTest, LifeUse, LifeMeasure,
       LifeWindow, LifeMake, LifeReturnMade, LifeReturnNull DEF Step
  <1>3. CASE Free
    BY <1>3, LifeFrees
  <1>4. CASE UNCHANGED lifeVars
    BY <1>4 DEF lifeVars, Life
  <1> QED
    BY <1>1, <1>2, <1>3, <1>4 DEF LifeNext

-----------------------------------------------------------------------------
(* What the caller is told.                                                *)

(* NULL is due to a refusal of memory, and was explained if the request is *)
(* not one of the two that can fail without a word.                        *)
Excused(c) ==
    /\ SizesAgree => c.denied
    /\ c.told \/ c.maker \in {"stft", "pipeline"}
Answered(s, c) ==
    /\ Called(c)
    /\ \A k \in 1..Len(s) : s[k].req.maker \in {"stft", "pipeline"} => c.maker = s[k].req.maker
    /\ s # <<>> /\ s[Len(s)].pc = 0 => Excused(c)
    /\ c.answer = "null" => Excused(c)

LEMMA Excuses ==
    ASSUME NEW c, NEW d, Onward(c, d), Excused(c)
    PROVE  Excused(d)
  BY DEF Onward, Excused

LEMMA Turned ==
    ASSUME NEW s, NEW i, NEW t, s # <<>>, \E S : s \in Seq(S),
           s[Len(s)] = [req |-> s[Len(s)].req, pc |-> s[Len(s)].pc],
           t = [s EXCEPT ![Len(s)].pc = i]
    PROVE  /\ Len(t) = Len(s) /\ \A k \in 1..Len(s) : t[k].req = s[k].req
           /\ t[Len(t)].pc = i
  <1> DEFINE n == Len(s)
             e == [s[n] EXCEPT !.pc = i]
  <1>1. PICK S : s \in Seq(S)
    OBVIOUS
  <1>2. n \in Nat \ {0} /\ n \in 1..n
    BY <1>1
  <1>3. e.pc = i /\ e.req = s[n].req
    OBVIOUS
  <1>4. t = [s EXCEPT ![n] = e]
    OBVIOUS
  <1> HIDE DEF e
  <1>5. Len(t) = n /\ t[n] = e /\ \A k \in 1..n : k # n => t[k] = s[k]
    BY <1>1, <1>2, <1>4
  <1> QED
    BY <1>2, <1>3, <1>5

LEMMA AnsweredAgain ==
    ASSUME NEW s, NEW c, NEW t, NEW d, Answered(s, c), Onward(c, d), d.answer = c.answer,
           Len(t) = Len(s), \A k \in 1..Len(s) : t[k].req = s[k].req,
           t # <<>> /\ t[Len(t)].pc = 0 => Excused(d)
    PROVE  Answered(t, d)
  <1>1. Called(d) /\ d.maker = c.maker
    BY DEF Onward
  <1>2. c.answer = "null" => Excused(d)
    BY Excuses DEF Answered
  <1> QED
    BY <1>1, <1>2 DEF Answered

(* The constructor on top gives up, or goes on.                            *)
LEMMA AnswerQuits ==
    ASSUME Life, Answered(stack, call), stack # <<>>,
           stack' = [stack EXCEPT ![Depth].pc = 0],
           Onward(call, call'), call'.answer = call.answer, Excused(call')
    PROVE  Answered(stack', call')
  <1>1. (\E S : stack \in Seq(S)) /\ Top = [req |-> Top.req, pc |-> Top.pc]
    BY Standing DEF Frames
  <1>2. /\ Len(stack') = Len(stack)
        /\ \A k \in 1..Len(stack) : stack'[k].req = stack[k].req
    BY <1>1, Turned DEF Top, Depth
  <1> QED
    BY <1>2, AnsweredAgain

LEMMA AnswerMoves ==
    ASSUME Life, Answered(stack, call), stack # <<>>, Top.pc \in 1..Len(Steps(Top.req)),
           Advance, Onward(call, call'), call'.answer = call.answer
    PROVE  Answered(stack', call')
  <1>1. (\E S : stack \in Seq(S)) /\ Top = [req |-> Top.req, pc |-> Top.pc]
    BY Standing DEF Frames
  <1>2. stack' = [stack EXCEPT ![Len(stack)].pc = Top.pc + 1]
    BY <1>1 DEF Advance, Top, Depth
  <1>3. /\ Len(stack') = Len(stack)
        /\ \A k \in 1..Len(stack) : stack'[k].req = stack[k].req
        /\ stack'[Len(stack')].pc = Top.pc + 1
    BY <1>1, <1>2, Turned DEF Top, Depth
  <1>4. Top.pc + 1 # 0
    OBVIOUS
  <1> QED
    BY <1>3, <1>4, AnsweredAgain

(* The requests that fail without a word are the caller's own.             *)
LEMMA Quiet ==
    ASSUME Life, Answered(stack, call), stack # <<>>, Onward(call, call'),
           Top.req.maker \in {"stft", "pipeline"}
    PROVE  call'.maker \in {"stft", "pipeline"}
  BY Standing DEF Answered, Onward, Top, Depth

LEMMA AnswerNew == Life /\ Answered(stack, call) /\ StepNew => Answered(stack', call')
  <1> SUFFICES ASSUME Life, Answered(stack, call), StepNew PROVE Answered(stack', call')
    OBVIOUS
  <1>1. stack # <<>> /\ Top.pc \in 1..Len(Steps(Top.req)) /\ Cur.op = "new" /\ Called(call)
    BY AtStepIs DEF StepNew, Answered
  <1>2. CASE Advance /\ UNCHANGED call
    <2>1. Onward(call, call') /\ call'.answer = call.answer
      BY <1>1, <1>2, CallSteps
    <2> QED
      BY <1>1, <1>2, <2>1, AnswerMoves
  <1>3. CASE /\ stack' = [stack EXCEPT ![Depth].pc = 0]
             /\ call' = [call EXCEPT !.told = @ \/ Cur.tells, !.denied = TRUE]
    <2>1. /\ Onward(call, call') /\ call'.answer = call.answer /\ call'.denied
          /\ Cur.tells => call'.told
      <3> DEFINE t == Cur.tells
      <3>1. call' = [call EXCEPT !.told = @ \/ t, !.denied = TRUE]
        BY <1>3
      <3> HIDE DEF t
      <3>2. Onward(call, call') /\ call'.answer = call.answer /\ (t => call'.told) /\ call'.denied
        <4>1. PICK m, a, x, e : call = [maker |-> m, answer |-> a, told |-> x, denied |-> e]
          BY <1>1 DEF Called
        <4> QED
          BY <3>1, <4>1 DEF Onward, Called
      <3> QED
        BY <3>2 DEF t
    <2>2. Cur.tells \/ Top.req.maker = "pipeline"
      BY <1>1, Standing, StepKnown DEF StepFits, Cur
    <2>3. call'.told \/ call'.maker \in {"stft", "pipeline"}
      BY <1>1, <2>1, <2>2, Quiet
    <2>4. Excused(call')
      BY <2>1, <2>3 DEF Excused
    <2> QED
      BY <1>1, <1>3, <2>1, <2>4, AnswerQuits
  <1> QED
    BY <1>2, <1>3 DEF StepNew

(* A step that goes on whatever happens.                                   *)
LEMMA AnswerAttaches ==
    Life /\ Answered(stack, call)
    /\ (StepAlloc \/ StepGenerate \/ StepUse \/ StepMeasure) => Answered(stack', call')
  <1> SUFFICES ASSUME Life, Answered(stack, call),
                      StepAlloc \/ StepGenerate \/ StepUse \/ StepMeasure
               PROVE  Answered(stack', call')
    OBVIOUS
  <1>1. /\ stack # <<>> /\ Top.pc \in 1..Len(Steps(Top.req)) /\ Called(call) /\ Advance
        /\ UNCHANGED call \/ Deny
    BY AtStepIs DEF StepAlloc, StepGenerate, StepUse, StepMeasure, Answered
  <1>2. Onward(call, call') /\ call'.answer = call.answer
    BY <1>1, CallSteps DEF Deny
  <1> QED
    BY <1>1, <1>2, AnswerMoves

LEMMA AnswerTest ==
    Life /\ Answered(stack, call) /\ (StepTest \/ StepReject) => Answered(stack', call')
  <1> SUFFICES ASSUME Life, Answered(stack, call), StepTest \/ StepReject
               PROVE  Answered(stack', call')
    OBVIOUS
  <1>1. stack # <<>> /\ Top.pc \in 1..Len(Steps(Top.req)) /\ Called(call)
    BY AtStepIs DEF StepTest, StepReject, Answered
  <1>2. CASE Advance /\ UNCHANGED call
    <2>1. Onward(call, call') /\ call'.answer = call.answer
      BY <1>1, <1>2, CallSteps
    <2> QED
      BY <1>1, <1>2, <2>1, AnswerMoves
  <1>3. CASE /\ stack' = [stack EXCEPT ![Depth].pc = 0]
             /\ call' = [call EXCEPT !.told = TRUE, !.denied = TRUE]
    <2>1. /\ Onward(call, call') /\ call'.answer = call.answer
          /\ call'.told /\ call'.denied
      <3>1. PICK m, a, x, e : call = [maker |-> m, answer |-> a, told |-> x, denied |-> e]
        BY <1>1 DEF Called
      <3> QED
        BY <1>3, <3>1 DEF Onward, Called
    <2>2. Excused(call')
      BY <2>1 DEF Excused
    <2> QED
      BY <1>1, <1>3, <2>1, <2>2, AnswerQuits
  <1> QED
    BY <1>2, <1>3 DEF StepTest, StepReject

LEMMA AnswerWindow ==
    Life /\ Answered(stack, call) /\ StepWindow => Answered(stack', call')
  <1> SUFFICES ASSUME Life, Answered(stack, call), StepWindow PROVE Answered(stack', call')
    OBVIOUS
  <1>1. /\ stack # <<>> /\ Top.pc \in 1..Len(Steps(Top.req)) /\ Called(call)
        /\ Cur.op = "window"
    BY AtStepIs DEF StepWindow, Answered
  <1>2. CASE Advance /\ UNCHANGED call
    <2>1. Onward(call, call') /\ call'.answer = call.answer
      BY <1>1, <1>2, CallSteps
    <2> QED
      BY <1>1, <1>2, <2>1, AnswerMoves
  <1>3. CASE stack' = [stack EXCEPT ![Depth].pc = 0] /\ Deny
    <2>1. Onward(call, call') /\ call'.answer = call.answer /\ call'.denied
      BY <1>1, <1>3, CallSteps DEF Deny
    <2>2. Top.req.maker = "stft"
      BY <1>1, Standing, StepKnown DEF StepFits, Cur
    <2>3. call'.maker \in {"stft", "pipeline"}
      BY <1>1, <2>1, <2>2, Quiet
    <2>4. Excused(call')
      BY <2>1, <2>3 DEF Excused
    <2> QED
      BY <1>1, <1>3, <2>1, <2>4, AnswerQuits
  <1> QED
    BY <1>2, <1>3 DEF StepWindow

(* A check that fails: memory was refused.                                 *)
LEMMA Missed ==
    ASSUME Life, stack # <<>>, Top.pc \in 1..Len(Steps(Top.req)), Cur.op = "check",
           NEW at \in Cur.ats, ~Points(Block(Self), at)
    PROVE  call.denied
  <1>1. /\ AtWork(heap, ptr, Top, Depth, call)
        /\ Assured(Top, at) /\ at # "self" /\ Assured(Top, "self")
    BY Standing, StepKnown DEF NeedsSelf, Cur
  <1>2. PICK u : /\ OwnSelf(ptr, Depth, u) /\ Self = u.to
                 /\ \A o : Holds(ptr, Depth, o) => o = u
    BY <1>1, SelfKnown
  <1> SUFFICES ASSUME ~call.denied PROVE FALSE
    OBVIOUS
  <1>3. PICK o \in ptr : /\ o.at = at
                         /\ \/ o.by = Frame(Depth)
                            \/ \E p : OwnSelf(ptr, Depth, p) /\ o.by = Block(p.to)
    BY <1>1 DEF AtWork
  <1>4. o.by # Frame(Depth)
    BY <1>1, <1>2, <1>3 DEF Holds, OwnSelf
  <1>5. o.by = Block(Self)
    BY <1>2, <1>3, <1>4 DEF OwnSelf
  <1> QED
    BY <1>3, <1>5 DEF Points

LEMMA AnswerCheck ==
    Life /\ Answered(stack, call) /\ StepCheck => Answered(stack', call')
  <1> SUFFICES ASSUME Life, Answered(stack, call), StepCheck PROVE Answered(stack', call')
    OBVIOUS
  <1>1. /\ stack # <<>> /\ Top.pc \in 1..Len(Steps(Top.req)) /\ Called(call)
        /\ Cur.op = "check"
    BY AtStepIs DEF StepCheck, Answered
  <1>2. CASE Advance /\ UNCHANGED call
    <2>1. Onward(call, call') /\ call'.answer = call.answer
      BY <1>1, <1>2, CallSteps
    <2> QED
      BY <1>1, <1>2, <2>1, AnswerMoves
  <1>3. CASE (\E at \in Cur.ats : ~Points(Block(Self), at)) /\ Fail(Cur.tells)
    <2> DEFINE t == Cur.tells
    <2>1. call' = [call EXCEPT !.told = @ \/ t] /\ stack' = [stack EXCEPT ![Depth].pc = 0]
      BY <1>3 DEF Fail
    <2>2. t \/ Top.req.maker = "pipeline"
      BY <1>1, Standing, StepKnown DEF StepFits, Cur
    <2> HIDE DEF t
    <2>3. Onward(call, call') /\ call'.answer = call.answer /\ (t => call'.told)
      <3>1. PICK m, a, x, e : call = [maker |-> m, answer |-> a, told |-> x, denied |-> e]
        BY <1>1 DEF Called
      <3> QED
        BY <2>1, <3>1 DEF Onward, Called
    <2>4. call.denied
      BY <1>1, <1>3, Missed
    <2>5. call'.denied
      BY <2>3, <2>4 DEF Onward
    <2>6. call'.told \/ call'.maker \in {"stft", "pipeline"}
      BY <1>1, <2>2, <2>3, Quiet
    <2>7. Excused(call')
      BY <2>5, <2>6 DEF Excused
    <2> QED
      BY <1>1, <2>1, <2>3, <2>7, AnswerQuits
  <1> QED
    BY <1>2, <1>3 DEF StepCheck

LEMMA AnswerMake ==
    Life /\ Answered(stack, call) /\ StepMake => Answered(stack', call')
  <1> SUFFICES ASSUME Life, Answered(stack, call), StepMake PROVE Answered(stack', call')
    OBVIOUS
  <1>1. /\ stack # <<>> /\ Top.pc \in 1..Len(Steps(Top.req)) /\ Called(call)
        /\ Cur.op = "make"
    BY AtStepIs DEF StepMake, Answered
  <1>2. /\ StepFits(Cur, Top.req) /\ Proper(Top.req) /\ Depth \in Nat \ {0}
        /\ \E S : stack \in Seq(S)
    BY <1>1, Standing, StepKnown DEF Cur
  <1>3. CASE stack' = Append(stack, [req |-> Cur.req, pc |-> 1]) /\ UNCHANGED call
    <2> DEFINE g == [req |-> Cur.req, pc |-> 1]
    <2>1. g.req = Cur.req /\ g.pc = 1
      OBVIOUS
    <2>2. PICK S : stack \in Seq(S)
      BY <1>2
    <2>3. stack' = Append(stack, g)
      BY <1>3
    <2> HIDE DEF g
    <2>4. /\ Len(stack') = Len(stack) + 1 /\ stack'[Len(stack) + 1] = g
          /\ \A k \in 1..Len(stack) : stack'[k] = stack[k]
      BY <2>2, <2>3
    <2>5. Len(stack) \in Nat
      BY <2>2
    <2>6. g.req.maker \notin {"stft", "pipeline"}
      BY <1>1, <1>2, <2>1 DEF StepFits
    <2>7. \A k \in 1..Len(stack') : k \in 1..Len(stack) \/ k = Len(stack) + 1
      BY <2>4, <2>5
    <2>8. stack'[Len(stack')].pc # 0
      BY <2>1, <2>4
    <2>9. \A k \in 1..Len(stack') :
              stack'[k].req.maker \in {"stft", "pipeline"} => call.maker = stack'[k].req.maker
      BY <2>4, <2>6, <2>7 DEF Answered
    <2> QED
      BY <1>3, <2>8, <2>9 DEF Answered
  <1>4. CASE ~Accepts(Cur.req) /\ Fail(TRUE)
    <2>1. call' = [call EXCEPT !.told = @ \/ TRUE] /\ stack' = [stack EXCEPT ![Depth].pc = 0]
      BY <1>4 DEF Fail
    <2>2. Onward(call, call') /\ call'.answer = call.answer /\ call'.told
      <3>1. PICK m, a, x, e : call = [maker |-> m, answer |-> a, told |-> x, denied |-> e]
        BY <1>1 DEF Called
      <3> QED
        BY <2>1, <3>1 DEF Onward, Called
    <2>3. ~SizesAgree
      BY <1>1, <1>2, <1>4 DEF StepFits, Proper
    <2>4. Excused(call')
      BY <2>2, <2>3 DEF Excused
    <2> QED
      BY <1>1, <2>1, <2>2, <2>4, AnswerQuits
  <1> QED
    BY <1>3, <1>4 DEF StepMake

LEMMA AnswerReturnMade ==
    Life /\ Answered(stack, call) /\ ReturnMade => Answered(stack', call')
  <1> SUFFICES ASSUME Life, Answered(stack, call), ReturnMade
               PROVE  Answered(stack', call')
    OBVIOUS
  <1>1. /\ stack # <<>> /\ Called(call) /\ Depth \in Nat \ {0} /\ \E S : stack \in Seq(S)
    BY Standing DEF ReturnMade, Answered
  <1>2. CASE Depth = 1
    <2>1. stack' = <<>> /\ call' = [call EXCEPT !.answer = "made"]
      BY <1>2 DEF ReturnMade
    <2>2. Called(call') /\ call'.answer = "made"
      <3>1. PICK m, a, x, e : call = [maker |-> m, answer |-> a, told |-> x, denied |-> e]
        BY <1>1 DEF Called
      <3> QED
        BY <2>1, <3>1 DEF Called
    <2>3. Len(<<>>) = 0 /\ 1..0 = {}
      OBVIOUS
    <2> QED
      BY <2>1, <2>2, <2>3 DEF Answered
  <1>3. CASE Depth # 1
    <2>1. /\ stack' = [SubSeq(stack, 1, Depth - 1) EXCEPT ![Depth - 1].pc = @ + 1]
          /\ call' = call
      BY <1>3 DEF ReturnMade
    <2>2. Depth > 1
      BY <1>1, <1>3
    <2>3. Len(stack) > 1
      BY <2>2 DEF Depth
    <2> DEFINE s == Shorter(stack)
               n == Depth - 1
    <2>4. /\ s # <<>> /\ Len(s) = n /\ \A k \in 1..n : s[k] = stack[k]
          /\ \E S : s \in Seq(S)
      BY <1>1, <2>3, ShorterIs DEF Depth
    <2>5. n \in Nat \ {0} /\ n \in 1..n /\ n \in 1..Depth - 1 /\ n \in 1..Depth
      BY <1>1, <2>2
    <2>6. AtWork(heap, ptr, stack[n], n, call) /\ Waits(stack[n], stack[n + 1])
      BY <2>5 DEF Life, LifeInv, CoreInv, Nested, Depth
    <2>7. s[n] = [req |-> s[n].req, pc |-> s[n].pc] /\ s[n].pc \in 1..Len(Steps(s[n].req))
      BY <2>4, <2>5, <2>6 DEF AtWork, Frames, Waits
    <2>8. stack' = [s EXCEPT ![n].pc = s[n].pc + 1]
      BY <2>1 DEF Shorter, Depth
    <2> HIDE DEF s, n
    <2>9. /\ Len(stack') = n /\ \A k \in 1..n : stack'[k].req = s[k].req
          /\ stack'[Len(stack')].pc = s[n].pc + 1
      BY <2>4, <2>7, <2>8, Turned
    <2>10. s[n].pc + 1 # 0
      BY <2>7
    <2>11. \A k \in 1..n : k \in 1..Len(stack)
      BY <1>1 DEF n, Depth
    <2>12. \A k \in 1..Len(stack') :
               stack'[k].req.maker \in {"stft", "pipeline"} => call.maker = stack'[k].req.maker
      BY <2>4, <2>9, <2>11 DEF Answered
    <2> QED
      BY <2>1, <2>9, <2>10, <2>12 DEF Answered
  <1> QED
    BY <1>2, <1>3

LEMMA AnswerReturnNull ==
    Life /\ Answered(stack, call) /\ ReturnNull => Answered(stack', call')
  <1> SUFFICES ASSUME Life, Answered(stack, call), ReturnNull
               PROVE  Answered(stack', call')
    OBVIOUS
  <1>1. /\ stack # <<>> /\ Called(call) /\ Depth \in Nat \ {0} /\ \E S : stack \in Seq(S)
        /\ Top.pc = 0
    BY Standing DEF ReturnNull, Answered
  <1>2. Excused(call)
    BY <1>1 DEF Answered, Top, Depth
  <1>3. CASE Depth = 1
    <2>1. stack' = <<>> /\ call' = [call EXCEPT !.answer = "null"]
      BY <1>3 DEF ReturnNull
    <2>2. Onward(call, call')
      BY <1>1, <2>1, CallSteps
    <2>3. Called(call') /\ Excused(call')
      BY <1>2, <2>2, Excuses DEF Onward
    <2>4. Len(<<>>) = 0 /\ 1..0 = {}
      OBVIOUS
    <2> QED
      BY <2>1, <2>3, <2>4 DEF Answered
  <1>4. CASE Depth # 1
    <2>1. /\ stack' = [SubSeq(stack, 1, Depth - 1) EXCEPT ![Depth - 1].pc = 0]
          /\ call' = call
      BY <1>4 DEF ReturnNull
    <2>2. Depth > 1
      BY <1>1, <1>4
    <2>3. Len(stack) > 1
      BY <2>2 DEF Depth
    <2> DEFINE s == Shorter(stack)
               n == Depth - 1
    <2>4. /\ s # <<>> /\ Len(s) = n /\ \A k \in 1..n : s[k] = stack[k]
          /\ \E S : s \in Seq(S)
      BY <1>1, <2>3, ShorterIs DEF Depth
    <2>5. n \in Nat \ {0} /\ n \in 1..n /\ n \in 1..Depth
      BY <1>1, <2>2
    <2>6. AtWork(heap, ptr, stack[n], n, call)
      BY <2>5 DEF Life, LifeInv, CoreInv, Depth
    <2>7. s[n] = [req |-> s[n].req, pc |-> s[n].pc]
      BY <2>4, <2>5, <2>6 DEF AtWork, Frames
    <2>8. stack' = [s EXCEPT ![n].pc = 0]
      BY <2>1 DEF Shorter, Depth
    <2> HIDE DEF s, n
    <2>9. Len(stack') = n /\ \A k \in 1..n : stack'[k].req = s[k].req
      BY <2>4, <2>7, <2>8, Turned
    <2>10. \A k \in 1..n : k \in 1..Len(stack)
      BY <1>1 DEF n, Depth
    <2>11. \A k \in 1..Len(stack') :
               stack'[k].req.maker \in {"stft", "pipeline"} => call.maker = stack'[k].req.maker
      BY <2>4, <2>9, <2>10 DEF Answered
    <2> QED
      BY <1>2, <2>1, <2>11 DEF Answered
  <1> QED
    BY <1>3, <1>4

LEMMA AnswerEnter ==
    ASSUME Answered(stack, call), stack = <<>>, NEW r, Enter(r)
    PROVE  Answered(stack', call')
  <1>1. CASE Accepts(r)
    <2>1. /\ stack' = <<[req |-> r, pc |-> 1]>>
          /\ call' = [maker |-> r.maker, answer |-> "none", told |-> FALSE, denied |-> FALSE]
      BY <1>1 DEF Enter
    <2>2. Called(call') /\ call'.maker = r.maker /\ call'.answer # "null"
      BY <2>1 DEF Called
    <2>3. /\ Len(stack') = 1 /\ 1..1 = {1} /\ stack'[1].pc = 1 /\ stack'[1].req = r
      BY <2>1
    <2> QED
      BY <2>2, <2>3 DEF Answered
  <1>2. CASE ~Accepts(r)
    <2>1. /\ stack' = <<>>
          /\ call' = [maker |-> r.maker, answer |-> "null", told |-> TRUE, denied |-> TRUE]
      BY <1>2 DEF Enter
    <2>2. Called(call') /\ Excused(call')
      BY <2>1 DEF Called, Excused
    <2>3. Len(<<>>) = 0 /\ 1..0 = {}
      OBVIOUS
    <2> QED
      BY <2>1, <2>2, <2>3 DEF Answered
  <1> QED
    BY <1>1, <1>2

LEMMA AnswerSteps ==
    Life /\ Answered(stack, call) /\ [LifeNext]_lifeVars => Answered(stack', call')
  <1> SUFFICES ASSUME Life, Answered(stack, call), [LifeNext]_lifeVars
               PROVE  Answered(stack', call')
    OBVIOUS
  <1>1. CASE \E r \in Requests : Create(r)
    BY <1>1, AnswerEnter DEF Create, Idle
  <1>2. CASE \E h \in Handles : CreateInverse(h)
    <2>1. PICK h \in Handles : CreateInverse(h)
      BY <1>2
    <2>2. stack = <<>>
      BY <2>1 DEF CreateInverse, Idle
    <2>3. CASE Enter(InverseOf(heap[h].req))
      BY <2>2, <2>3, AnswerEnter
    <2>4. CASE /\ call' = [call EXCEPT !.answer = "null", !.told = TRUE, !.denied = TRUE]
               /\ UNCHANGED stack
      <3>1. PICK m, a, x, e : call = [maker |-> m, answer |-> a, told |-> x, denied |-> e]
        BY DEF Answered, Called
      <3>2. Called(call') /\ Excused(call')
        BY <2>4, <3>1 DEF Called, Excused
      <3>3. Len(<<>>) = 0 /\ 1..0 = {}
        OBVIOUS
      <3> QED
        BY <2>2, <2>4, <3>2, <3>3 DEF Answered
    <2> QED
      BY <2>1, <2>3, <2>4 DEF CreateInverse
  <1>3. CASE \E h \in Handles : Destroy(h)
    BY <1>3 DEF Destroy
  <1>4. CASE Step
    BY <1>4, AnswerNew, AnswerAttaches, AnswerCheck, AnswerTest, AnswerWindow, AnswerMake,
       AnswerReturnMade, AnswerReturnNull DEF Step
  <1>5. CASE Free
    BY <1>5 DEF Free
  <1>6. CASE UNCHANGED lifeVars
    BY <1>6 DEF lifeVars
  <1> QED
    BY <1>1, <1>2, <1>3, <1>4, <1>5, <1>6 DEF LifeNext

-----------------------------------------------------------------------------
(* The theorems, for the specification with the calls of faf_execute.      *)
Kept == Life /\ Answered(stack, call)

LEMMA KeptInit == DispatchInit => Kept
  <1> SUFFICES ASSUME DispatchInit PROVE Kept
    OBVIOUS
  <1>1. Init
    BY DEF DispatchInit
  <1>2. /\ stack = <<>>
        /\ call = [maker |-> "none", answer |-> "none", told |-> FALSE, denied |-> FALSE]
    BY <1>1 DEF Init
  <1>3. Called(call) /\ call.answer # "null"
    BY <1>2 DEF Called
  <1>4. Len(<<>>) = 0 /\ 1..0 = {}
    OBVIOUS
  <1>5. Answered(stack, call)
    BY <1>2, <1>3, <1>4 DEF Answered
  <1> QED
    BY <1>1, <1>5, LifeInit DEF Kept

LEMMA KeptSteps == Kept /\ [Next]_vars => Kept'
  <1> SUFFICES ASSUME Kept, [Next]_vars PROVE Kept'
    OBVIOUS
  <1>1. [LifeNext]_lifeVars
    BY DEF Next, vars, LifeNext, lifeVars, Stay, Execute, Refuse, OutOfMemory, FallBack,
           CallNext, Return, ServeByKernel
  <1>2. Called(call)
    BY DEF Kept, Answered
  <1> QED
    BY <1>1, <1>2, LifeSteps, AnswerSteps DEF Kept

LEMMA AlwaysKept == Spec => []Kept
  BY KeptInit, KeptSteps, PTL DEF Spec

(* The fields of the invariant that the theorems are about.                *)
LEMMA Holdings ==
    ASSUME Life
    PROVE  NoDangling /\ OneOwner /\ (WindowsApart => NoLeak)
  <1>1. /\ Sound(heap, ptr, Len(stack)) /\ Single(ptr)
        /\ WindowsApart => Reached(heap, ptr)
    BY DEF Life, LifeInv, CoreInv
  <1>2. NoDangling
    <2> SUFFICES ASSUME NEW p \in ptr
                 PROVE  /\ p.to \in DOMAIN heap
                        /\ \A b \in 1..MaxBlocks : p.by = Block(b) => b \in DOMAIN heap
      BY DEF NoDangling
    <2>1. p.to \in DOMAIN heap /\ Holding(heap, p.by, Len(stack))
      BY <1>1 DEF Sound
    <2>2. ASSUME NEW b, p.by = Block(b) PROVE b \in DOMAIN heap
      BY <2>1, <2>2, Holders DEF Holding
    <2> QED
      BY <2>1, <2>2
  <1>3. OneOwner
    BY <1>1 DEF Single, OneOwner
  <1>4. WindowsApart => NoLeak
    BY <1>1 DEF Reached, NoLeak
  <1> QED
    BY <1>2, <1>3, <1>4

(* Whatever is asked for, in whatever order, and whichever allocations are *)
(* refused: no pointer of the caller, of a constructor at work, of destroy *)
(* or in a live block leads to a block that was freed, and no two lead to  *)
(* one block, so that destroy frees nothing twice.                         *)
THEOREM NothingFreedTwice == Spec => [](NoDangling /\ OneOwner)
  <1>1. Kept => NoDangling /\ OneOwner
    BY Holdings DEF Kept
  <1> QED
    BY <1>1, AlwaysKept, PTL

(* And no block is lost, neither on the way back from a failure nor by     *)
(* destroy, which knows every slot a constructor fills: as long as no STFT *)
(* is asked for at a length whose transform already fills the slot of its  *)
(* window.                                                                 *)
THEOREM NothingLost ==
    ASSUME WindowsApart
    PROVE  Spec => []Owned
  <1>1. Kept => Owned
    BY Holdings DEF Kept, Owned
  <1> QED
    BY <1>1, AlwaysKept, PTL

(* A creator that returns NULL has set the error, in this call, unless an  *)
(* STFT or a pipeline was asked for.                                       *)
THEOREM NullIsExplained == Spec => []NullExplained
  <1>1. Kept => NullExplained
    BY DEF Kept, Answered, Excused, NullExplained
  <1> QED
    BY <1>1, AlwaysKept, PTL

(* And it returns NULL for a request it takes only if memory was refused   *)
(* or a CWT did not validate: no constructor asks another one for a length *)
(* it does not take, if half of the real lengths asked for and the lengths *)
(* of Bluestein's convolutions are 5-smooth.                               *)
THEOREM NullIsForced ==
    ASSUME SizesAgree
    PROVE  Spec => []LegalRequestsMade
  <1>1. Kept => LegalRequestsMade
    BY DEF Kept, Answered, Excused, LegalRequestsMade
  <1> QED
    BY <1>1, AlwaysKept, PTL
=============================================================================
