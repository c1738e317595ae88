--------------------------- MODULE DispatchProofs ---------------------------
(***************************************************************************)
(* The way of a call through the functions that serve it: proofs for every *)
(* set of requests, every history of creations, refusals of memory and     *)
(* destructions before the call, and every buffer it is made with.         *)
(*                                                                         *)
(* First the wiring of the objects: what is in each slot of a transform is *)
(* what the constructor's step for that slot asked for, and nothing it     *)
(* needs is missing when it is handed over.  Then what each constructor's  *)
(* transform therefore has, where its request comes from, and which        *)
(* transforms are inside it, of a lower rank than it.  Then the walk: each *)
(* function on the way of a call is below all that called it.  Then the    *)
(* room: each has the bytes it needs, in tables and in what it was given.  *)
(* Last the checks: none of them fails on the way of a legal call.         *)
(***************************************************************************)
EXTENDS LifecycleProofs, FiniteSetTheorems

-----------------------------------------------------------------------------
(* The wiring, over the heap h, the pointers q and the stack s.            *)

(* The steps a constructor has behind it, the result of which of them a    *)
(* pointer o is, and the slots that a step leaves filled.                  *)
Behind(r, i) == {Steps(r)[j] : j \in 1..i - 1}
Fit(h, x, o) ==
    \/ x.op = "make" /\ x.at = o.at /\ h[o.to].req = x.req /\ h[o.to].kind = Kind(x.req)
    \/ x.op = "alloc" /\ x.at = o.at /\ h[o.to].bytes = x.bytes
    \/ x.op = "generate" /\ o.at = "code"
    \/ x.op = "generate" /\ o.at = "t0" /\ h[o.to].bytes = x.bytes
    \/ x.op = "measure" /\ o.at = "t2" /\ h[o.to].bytes = x.bytes
Firm(x) == CASE x.op = "make" -> {x.at} [] x.op = "check" -> x.ats [] OTHER -> {}

Present(q, by, at) == \E o \in q : o.by = by /\ o.at = at
Placed(h, r, i, o) == \E x \in Behind(r, i) : Fit(h, x, o)
(* Code comes with its table, unless that is empty.                        *)
Blank(x) == \/ x.op = "generate" /\ x.bytes = 0
            \/ x.op \in {"alloc", "make"} /\ x.at = "code"
Filled(q, by, r, i) ==
    /\ \A x \in Behind(r, i) : \A at \in Firm(x) : at # "self" => Present(q, by, at)
    /\ Present(q, by, "code") =>
           Present(q, by, "t0") \/ \E x \in Behind(r, i) : Blank(x)
Parts(h, q, by, r, i) ==
    /\ \A o \in q : o.by = by => Placed(h, r, i, o)
    /\ Filled(q, by, r, i)
Knows(h, q, b, r, i) ==
    \/ h[b].fn = "none" /\ \A x \in Behind(r, i) : x.op # "use"
    \/ \E x \in Behind(r, i) : x.op = "use" /\ h[b].fn = x.fn
    \/ /\ h[b].fn = "dit" /\ Present(q, Block(b), "t2")
       /\ \E x \in Behind(r, i) : x.op = "measure"

(* A transform that was handed over.  An STFT is the FFT it was made of,   *)
(* with the window in t1.                                                  *)
Base(r) == IF r.maker = "stft" THEN [r EXCEPT !.maker = "fft", !.dir = "fwd"] ELSE r
Ending(r) == Len(Steps(r)) + 1
Window(h, r, o) == r.maker = "stft" /\ o.at = "t1" /\ h[o.to].bytes = r.n * 4
Whole(h, q, b) ==
    LET r == h[b].req
        u == Base(r)
    IN  /\ Accepts(r) /\ h[b].kind = Kind(r)
        /\ \A o \in q : o.by = Block(b) => Placed(h, u, Ending(u), o) \/ Window(h, r, o)
        /\ Filled(q, Block(b), u, Ending(u))
        /\ r.maker = "stft" => Present(q, Block(b), "t1")
        /\ Knows(h, q, b, u, Ending(u))

(* One under construction: f is the frame at depth k.                      *)
Building(h, q, b, f) ==
    IF f.req.maker = "stft" THEN h[b].req \in {f.req, Base(f.req)} /\ Whole(h, q, b)
    ELSE /\ h[b].req = f.req
         /\ Parts(h, q, Block(b), f.req, f.pc) /\ Knows(h, q, b, f.req, f.pc)
FrameOk(h, q, f, k) ==
    f.pc # 0 =>
        /\ (\A p : ~OwnSelf(q, k, p)) => Parts(h, q, Frame(k), f.req, f.pc)
        /\ \A p : OwnSelf(q, k, p) => Building(h, q, p.to, f)

(* Every pointer but that of a constructor to its object and those that    *)
(* destroy has left leads to a table or to a transform handed over.        *)
Leads(h, p) == p.by # Destroyer /\ p.at # "self" /\ h[p.to].kind # "table"
Links(h, q) == \A p \in q : Leads(h, p) => Whole(h, q, p.to)
Wired(h, q, s) ==
    /\ Links(h, q)
    /\ \A k \in 1..Len(s) : FrameOk(h, q, s[k], k)

-----------------------------------------------------------------------------
(* What one holder has, another one has, and what a step x adds to it.     *)
Keeps(h, q, by, h2, q2, by2, o) ==
    \E p \in q : p.by = by /\ p.at = o.at /\ p.to = o.to /\ h2[o.to] = h[o.to]
Passes(q, by, q2, by2) == \A at : Present(q, by, at) => Present(q2, by2, at)
Tables(q, by, q2, by2, x) ==
    Present(q2, by2, "code") =>
        Present(q, by, "code") \/ Present(q2, by2, "t0") \/ Blank(x)
Grows(h, q, by, h2, q2, by2, x) ==
    /\ \A o \in q2 : o.by = by2 => Keeps(h, q, by, h2, q2, by2, o) \/ Fit(h2, x, o)
    /\ Passes(q, by, q2, by2) /\ Tables(q, by, q2, by2, x)
    /\ \A at \in Firm(x) : at # "self" => Present(q2, by2, at)
Unmoved(h, q, h2, q2, by) ==
    \A o : o.by = by => (o \in q <=> o \in q2) /\ (o \in q => h2[o.to] = h[o.to])

LEMMA FitKept ==
    ASSUME NEW h, NEW q, NEW by, NEW h2, NEW q2, NEW by2, NEW o, NEW r, NEW i,
           Keeps(h, q, by, h2, q2, by2, o), \A p \in q : p.by = by => Placed(h, r, i, p)
    PROVE  Placed(h2, r, i, o)
  <1>1. PICK p \in q : p.by = by /\ p.at = o.at /\ p.to = o.to /\ h2[o.to] = h[o.to]
    BY DEF Keeps
  <1>2. PICK x \in Behind(r, i) : Fit(h, x, p)
    BY <1>1 DEF Placed
  <1>3. Fit(h2, x, o)
    BY <1>1, <1>2 DEF Fit
  <1> QED
    BY <1>3 DEF Placed

LEMMA StillKept ==
    ASSUME NEW h, NEW q, NEW h2, NEW q2, NEW by, Unmoved(h, q, h2, q2, by)
    PROVE  /\ \A o \in q2 : o.by = by => Keeps(h, q, by, h2, q2, by, o)
           /\ Passes(q, by, q2, by) /\ Passes(q2, by, q, by)
  BY DEF Unmoved, Keeps, Passes, Present

LEMMA FilledStays ==
    ASSUME NEW q, NEW by, NEW q2, NEW by2, NEW r, NEW i, Filled(q, by, r, i),
           Passes(q, by, q2, by2), Present(q2, by2, "code") => Present(q, by, "code")
    PROVE  Filled(q2, by2, r, i)
  BY DEF Filled, Passes

(* A step that is no generator brings no code without saying so.           *)
LEMMA NoCodeMade ==
    ASSUME NEW h, NEW q, NEW by, NEW h2, NEW q2, NEW by2, NEW x, x.op # "generate",
           \A o \in q2 : o.by = by2 => Keeps(h, q, by, h2, q2, by2, o) \/ Fit(h2, x, o)
    PROVE  Tables(q, by, q2, by2, x)
  BY DEF Tables, Keeps, Fit, Present, Blank

LEMMA NothingNew ==
    ASSUME NEW h, NEW q, NEW by, NEW h2, NEW q2, NEW by2, NEW x,
           \A o \in q2 : o.by = by2 => Keeps(h, q, by, h2, q2, by2, o)
    PROVE  Tables(q, by, q2, by2, x)
  BY DEF Tables, Keeps, Present

LEMMA PartsStay ==
    ASSUME NEW h, NEW q, NEW h2, NEW q2, NEW by, NEW r, NEW i,
           Unmoved(h, q, h2, q2, by), Parts(h, q, by, r, i)
    PROVE  Parts(h2, q2, by, r, i)
  <1>1. \A o \in q2 : o.by = by => Placed(h2, r, i, o)
    BY StillKept, FitKept DEF Parts
  <1>2. Filled(q2, by, r, i)
    BY StillKept, FilledStays DEF Parts, Passes
  <1> QED
    BY <1>1, <1>2 DEF Parts

LEMMA KnowsStays ==
    ASSUME NEW h, NEW q, NEW h2, NEW q2, NEW b, NEW r, NEW i,
           Passes(q, Block(b), q2, Block(b)), h2[b].fn = h[b].fn, Knows(h, q, b, r, i)
    PROVE  Knows(h2, q2, b, r, i)
  BY DEF Passes, Knows

LEMMA WholeStays ==
    ASSUME NEW h, NEW q, NEW h2, NEW q2, NEW b,
           Unmoved(h, q, h2, q2, Block(b)), h2[b] = h[b], Whole(h, q, b)
    PROVE  Whole(h2, q2, b)
  <1> DEFINE r == h[b].req
             u == Base(r)
             i == Ending(u)
  <1>1. /\ Accepts(r) /\ h[b].kind = Kind(r)
        /\ \A o \in q : o.by = Block(b) => Placed(h, u, i, o) \/ Window(h, r, o)
        /\ Filled(q, Block(b), u, i)
        /\ r.maker = "stft" => Present(q, Block(b), "t1")
        /\ Knows(h, q, b, u, i)
    BY DEF Whole
  <1>2. h2[b].req = r /\ h2[b].kind = h[b].kind /\ h2[b].fn = h[b].fn
    OBVIOUS
  <1> HIDE DEF r, u, i
  <1>3. ASSUME NEW o \in q2, o.by = Block(b)
        PROVE  Placed(h2, u, i, o) \/ Window(h2, r, o)
    <2>1. o \in q /\ h2[o.to] = h[o.to]
      BY <1>3 DEF Unmoved
    <2>2. CASE Window(h, r, o)
      BY <2>1, <2>2 DEF Window
    <2>3. CASE Placed(h, u, i, o)
      <3>1. PICK x \in Behind(u, i) : Fit(h, x, o)
        BY <2>3 DEF Placed
      <3>2. Fit(h2, x, o)
        BY <2>1, <3>1 DEF Fit
      <3> QED
        BY <3>2 DEF Placed
    <2> QED
      BY <1>1, <1>3, <2>1, <2>2, <2>3
  <1>4. Passes(q, Block(b), q2, Block(b))
    BY StillKept
  <1>5. Filled(q2, Block(b), u, i) /\ (r.maker = "stft" => Present(q2, Block(b), "t1"))
    BY <1>1, <1>4, StillKept, FilledStays DEF Passes
  <1>6. Knows(h2, q2, b, u, i)
    BY <1>1, <1>2, <1>4, KnowsStays
  <1> QED
    BY <1>1, <1>2, <1>3, <1>5, <1>6 DEF Whole, u, i

(* A frame takes a step.                                                   *)
LEMMA BehindNext ==
    ASSUME NEW r, NEW i, i \in 1..Len(Steps(r)), Len(Steps(r)) \in Nat
    PROVE  \A x : x \in Behind(r, i + 1) <=> x \in Behind(r, i) \/ x = Steps(r)[i]
  <1>1. 1..i + 1 - 1 = (1..i - 1) \cup {i}
    OBVIOUS
  <1> QED
    BY <1>1 DEF Behind

LEMMA PartsGrow ==
    ASSUME NEW h, NEW q, NEW by, NEW h2, NEW q2, NEW by2, NEW r, NEW i,
           i \in 1..Len(Steps(r)), Len(Steps(r)) \in Nat,
           Grows(h, q, by, h2, q2, by2, Steps(r)[i]), Parts(h, q, by, r, i)
    PROVE  Parts(h2, q2, by2, r, i + 1)
  <1> DEFINE x == Steps(r)[i]
  <1>1. \A y : y \in Behind(r, i + 1) <=> y \in Behind(r, i) \/ y = x
    BY BehindNext
  <1> HIDE DEF x
  <1>2. ASSUME NEW o \in q2, o.by = by2
        PROVE  Placed(h2, r, i + 1, o)
    <2>1. CASE Fit(h2, x, o)
      BY <1>1, <2>1 DEF Placed
    <2>2. CASE Keeps(h, q, by, h2, q2, by2, o)
      <3>1. Placed(h2, r, i, o)
        BY <2>2, FitKept DEF Parts
      <3> QED
        BY <1>1, <3>1 DEF Placed
    <2> QED
      BY <1>2, <2>1, <2>2 DEF Grows, x
  <1>3. Filled(q2, by2, r, i + 1)
    <2>1. ASSUME NEW y \in Behind(r, i + 1), NEW at \in Firm(y), at # "self"
          PROVE  Present(q2, by2, at)
      <3>1. CASE y = x
        BY <2>1, <3>1 DEF Grows, x
      <3>2. CASE y \in Behind(r, i)
        <4>1. Present(q, by, at)
          BY <2>1, <3>2 DEF Parts, Filled
        <4> QED
          BY <4>1 DEF Grows, Passes
      <3> QED
        BY <1>1, <3>1, <3>2
    <2>2. ASSUME Present(q2, by2, "code")
          PROVE  Present(q2, by2, "t0") \/ \E y \in Behind(r, i + 1) : Blank(y)
      <3>1. CASE Present(q, by, "code")
        <4>1. Present(q, by, "t0") \/ \E y \in Behind(r, i) : Blank(y)
          BY <3>1 DEF Parts, Filled
        <4> QED
          BY <1>1, <4>1 DEF Grows, Passes
      <3>2. CASE Present(q2, by2, "t0") \/ Blank(x)
        BY <1>1, <3>2
      <3> QED
        BY <2>2, <3>1, <3>2 DEF Grows, Tables, x
    <2> QED
      BY <2>1, <2>2 DEF Filled
  <1> QED
    BY <1>2, <1>3 DEF Parts

(* What a step tells of the kernel: b and b2 are the object before and     *)
(* after.                                                                  *)
Tells(h, q, b, h2, q2, b2, x) ==
    \/ /\ h2[b2].fn = h[b].fn /\ x.op # "use"
       /\ Present(q, Block(b), "t2") => Present(q2, Block(b2), "t2")
    \/ x.op = "use" /\ h2[b2].fn = x.fn
    \/ x.op = "measure" /\ h2[b2].fn = "dit" /\ Present(q2, Block(b2), "t2")
LEMMA KnowsGrow ==
    ASSUME NEW h, NEW q, NEW b, NEW h2, NEW q2, NEW b2, NEW r, NEW i,
           i \in 1..Len(Steps(r)), Len(Steps(r)) \in Nat,
           Tells(h, q, b, h2, q2, b2, Steps(r)[i]), Knows(h, q, b, r, i)
    PROVE  Knows(h2, q2, b2, r, i + 1)
  <1> DEFINE x == Steps(r)[i]
  <1>1. \A y : y \in Behind(r, i + 1) <=> y \in Behind(r, i) \/ y = x
    BY BehindNext
  <1> HIDE DEF x
  <1>2. CASE /\ h2[b2].fn = h[b].fn /\ x.op # "use"
             /\ Present(q, Block(b), "t2") => Present(q2, Block(b2), "t2")
    <2>1. CASE h[b].fn = "none" /\ \A y \in Behind(r, i) : y.op # "use"
      BY <1>1, <1>2, <2>1 DEF Knows
    <2>2. CASE \E y \in Behind(r, i) : y.op = "use" /\ h[b].fn = y.fn
      BY <1>1, <1>2, <2>2 DEF Knows
    <2>3. CASE /\ h[b].fn = "dit" /\ Present(q, Block(b), "t2")
               /\ \E y \in Behind(r, i) : y.op = "measure"
      BY <1>1, <1>2, <2>3 DEF Knows
    <2> QED
      BY <2>1, <2>2, <2>3 DEF Knows
  <1>3. CASE x.op = "use" /\ h2[b2].fn = x.fn
    BY <1>1, <1>3 DEF Knows
  <1>4. CASE x.op = "measure" /\ h2[b2].fn = "dit" /\ Present(q2, Block(b2), "t2")
    BY <1>1, <1>4 DEF Knows
  <1> QED
    BY <1>2, <1>3, <1>4 DEF Tells, x

-----------------------------------------------------------------------------
(* A change that leaves alone all holders but those of X.                  *)
Local(h, q, h2, q2, X) ==
    /\ \A by : by \notin X => Unmoved(h, q, h2, q2, by)
    /\ \A b \in DOMAIN h : Block(b) \notin X => h2[b] = h[b]
    /\ \A p \in q : Block(p.to) \in X => p.by \in X

LEMMA LinksElsewhere ==
    ASSUME NEW h, NEW q, NEW h2, NEW q2, NEW X, Local(h, q, h2, q2, X), Links(h, q),
           \A p \in q : p.to \in DOMAIN h
    PROVE  /\ \A p \in q2 : p.by \notin X /\ Leads(h2, p) => Whole(h2, q2, p.to)
           /\ \A b \in DOMAIN h : Block(b) \notin X /\ Whole(h, q, b) => Whole(h2, q2, b)
  <1>1. ASSUME NEW b \in DOMAIN h, Block(b) \notin X, Whole(h, q, b)
        PROVE  Whole(h2, q2, b)
    BY <1>1, WholeStays DEF Local
  <1>2. ASSUME NEW p \in q2, p.by \notin X, Leads(h2, p)
        PROVE  Whole(h2, q2, p.to)
    <2>1. p \in q /\ h2[p.to] = h[p.to]
      BY <1>2 DEF Local, Unmoved
    <2>2. Leads(h, p)
      BY <1>2, <2>1 DEF Leads
    <2>3. Whole(h, q, p.to)
      BY <2>1, <2>2 DEF Links
    <2>4. Block(p.to) \notin X
      BY <1>2, <2>1 DEF Local
    <2> QED
      BY <1>1, <2>1, <2>3, <2>4
  <1> QED
    BY <1>1, <1>2

LEMMA FrameElsewhere ==
    ASSUME NEW h, NEW q, NEW h2, NEW q2, NEW X, Local(h, q, h2, q2, X),
           \A p \in q : p.to \in DOMAIN h,
           NEW f, NEW k, Frame(k) \notin X, FrameOk(h, q, f, k)
    PROVE  FrameOk(h2, q2, f, k)
  <1>1. Unmoved(h, q, h2, q2, Frame(k))
    BY DEF Local
  <1>2. \A p : OwnSelf(q2, k, p) <=> OwnSelf(q, k, p)
    BY <1>1 DEF Unmoved, OwnSelf, Holds
  <1>3. ASSUME f.pc # 0, \A p : ~OwnSelf(q2, k, p)
        PROVE  Parts(h2, q2, Frame(k), f.req, f.pc)
    BY <1>1, <1>2, <1>3, PartsStay DEF FrameOk
  <1>4. ASSUME f.pc # 0, NEW p, OwnSelf(q2, k, p)
        PROVE  Building(h2, q2, p.to, f)
    <2>1. p \in q /\ p.by = Frame(k) /\ OwnSelf(q, k, p)
      BY <1>2, <1>4 DEF OwnSelf, Holds
    <2>2. Building(h, q, p.to, f) /\ h2[p.to] = h[p.to] /\ Block(p.to) \notin X
      BY <1>1, <1>4, <2>1 DEF FrameOk, Unmoved, Local
    <2>3. Unmoved(h, q, h2, q2, Block(p.to))
      BY <2>2 DEF Local
    <2>4. CASE f.req.maker = "stft"
      BY <2>2, <2>3, <2>4, WholeStays DEF Building
    <2>5. CASE f.req.maker # "stft"
      <3>1. Parts(h2, q2, Block(p.to), f.req, f.pc)
        BY <2>2, <2>3, <2>5, PartsStay DEF Building
      <3>2. Knows(h2, q2, p.to, f.req, f.pc)
        BY <2>2, <2>3, <2>5, KnowsStays, StillKept DEF Building
      <3> QED
        BY <2>2, <2>5, <3>1, <3>2 DEF Building
    <2> QED
      BY <2>4, <2>5
  <1> QED
    BY <1>3, <1>4 DEF FrameOk

(* Only the frame on top moves.                                            *)
LEMMA TopRewired ==
    ASSUME NEW h, NEW q, NEW h2, NEW q2, NEW s, NEW X, NEW i,
           \E S : s \in Seq(S), s # <<>>, Wired(h, q, s),
           Local(h, q, h2, q2, X), \A p \in q : p.to \in DOMAIN h,
           \A k \in 1..Len(s) - 1 : Frame(k) \notin X,
           \A p \in q2 : p.by \in X /\ Leads(h2, p) => Whole(h2, q2, p.to),
           FrameOk(h2, q2, [s[Len(s)] EXCEPT !.pc = i], Len(s))
    PROVE  Wired(h2, q2, [s EXCEPT ![Len(s)].pc = i])
  <1> DEFINE n == Len(s)
             s2 == [s EXCEPT ![n].pc = i]
  <1>1. n \in Nat \ {0}
    OBVIOUS
  <1>2. /\ Len(s2) = n /\ s2[n] = [s[n] EXCEPT !.pc = i]
        /\ \A k \in 1..n - 1 : s2[k] = s[k]
    OBVIOUS
  <1> HIDE DEF n, s2
  <1>3. 1..n = (1..n - 1) \cup {n}
    BY <1>1
  <1>4. Links(h2, q2)
    BY LinksElsewhere DEF Links, Wired
  <1>5. \A k \in 1..n - 1 : FrameOk(h2, q2, s2[k], k)
    BY <1>2, <1>3, FrameElsewhere DEF Wired, n
  <1>6. FrameOk(h2, q2, s2[n], n)
    BY <1>2 DEF n
  <1>7. Wired(h2, q2, s2)
    BY <1>2, <1>3, <1>4, <1>5, <1>6 DEF Wired
  <1> QED
    BY <1>7 DEF s2, n

(* The frame on top gives up.                                              *)
LEMMA WiredAbandons ==
    ASSUME NEW h, NEW q, NEW s, \E S : s \in Seq(S), s # <<>>, Wired(h, q, s),
           \A p \in q : p.to \in DOMAIN h,
           s[Len(s)] = [req |-> s[Len(s)].req, pc |-> s[Len(s)].pc]
    PROVE  Wired(h, Abandoned(q, Len(s)), [s EXCEPT ![Len(s)].pc = 0])
  <1> DEFINE n == Len(s)
             q2 == Abandoned(q, n)
             X == {Frame(n), Destroyer}
             g == [s[n] EXCEPT !.pc = 0]
  <1>1. n \in Nat \ {0}
    OBVIOUS
  <1>2. g.pc = 0
    <2>1. PICK r, i : s[n] = [req |-> r, pc |-> i]
      OBVIOUS
    <2> QED
      BY <2>1
  <1> HIDE DEF n, g
  <1>3. /\ \A p \in q : p.by # Frame(n) => p \in q2
        /\ \A o \in q2 : \/ o \in q /\ o.by # Frame(n)
                         \/ o.by = Destroyer
    <2>1. \A p : Pointer(Destroyer, "", p.to).by = Destroyer
      BY DoomedPointer DEF Doomed
    <2> QED
      BY <2>1 DEF Abandoned
  <1> HIDE DEF q2
  <1>4. Local(h, q, h, q2, X)
    <2>1. \A by : by \notin X => Unmoved(h, q, h, q2, by)
      BY <1>3 DEF Unmoved
    <2>2. \A b : Block(b) \notin X
      BY Holders
    <2> QED
      BY <2>1, <2>2 DEF Local
  <1>5. \A k \in 1..n - 1 : Frame(k) \notin X
    <2> TAKE k \in 1..n - 1
    <2>1. k # n
      BY <1>1
    <2> QED
      BY <2>1, Holders
  <1>6. \A p \in q2 : p.by \in X /\ Leads(h, p) => Whole(h, q2, p.to)
    BY <1>3 DEF Leads
  <1>7. FrameOk(h, q2, g, n)
    BY <1>2 DEF FrameOk
  <1> HIDE DEF X
  <1> QED
    BY <1>4, <1>5, <1>6, <1>7, TopRewired DEF n, g, q2

Wiring == Wired(heap, ptr, stack)

LEMMA WiredFails ==
    ASSUME Life, Wiring, stack # <<>>, stack' = [stack EXCEPT ![Depth].pc = 0],
           ptr' = GiveUp(Depth), heap' = heap
    PROVE  Wiring'
  <1>1. /\ \E S : stack \in Seq(S)
        /\ \A p \in ptr : p.to \in DOMAIN heap
        /\ Top = [req |-> Top.req, pc |-> Top.pc]
    BY Standing DEF Sound, Frames
  <1>2. Wired(heap, Abandoned(ptr, Len(stack)), [stack EXCEPT ![Len(stack)].pc = 0])
    BY <1>1, WiredAbandons DEF Wiring, Top, Depth
  <1> QED
    BY <1>2, Given1 DEF Wiring, Depth

(* The steps of an STFT.                                                   *)
LEMMA StftStep ==
    ASSUME NEW r, r.maker = "stft", NEW i, i \in 1..Len(Steps(r))
    PROVE  \/ i = 1 /\ Steps(r)[i] = Make("self", Base(r))
           \/ i = 2 /\ Steps(r)[i] = WindowTable(r.n * 4)
  <1> DEFINE x == Make("self", Base(r))
             y == WindowTable(r.n * 4)
  <1>1. Steps(r) = <<x, y>>
    BY DEF Steps, StftSteps, Base
  <1> HIDE DEF x, y
  <1>2. i \in 1..2 /\ Steps(r)[1] = x /\ Steps(r)[2] = y
    BY <1>1
  <1> QED
    BY <1>2 DEF x, y

(* A constructor that goes on: what it builds afterwards.                  *)
LEMMA FrameGrows ==
    ASSUME NEW h, NEW q, NEW h2, NEW q2, NEW f, NEW g, NEW k, NEW u,
           Frames(f), f.pc \in 1..Len(Steps(f.req)), g = [f EXCEPT !.pc = @ + 1],
           FrameOk(h, q, f, k), f.req.maker # "stft", OwnSelf(q, k, u),
           \A p : OwnSelf(q2, k, p) <=> p = u, h2[u.to].req = h[u.to].req,
           Grows(h, q, Block(u.to), h2, q2, Block(u.to), Steps(f.req)[f.pc]),
           Tells(h, q, u.to, h2, q2, u.to, Steps(f.req)[f.pc])
    PROVE  FrameOk(h2, q2, g, k)
  <1>1. g.req = f.req /\ g.pc = f.pc + 1 /\ Len(Steps(f.req)) \in Nat
    BY NextGave, StepKnown
  <1>2. f.pc # 0
    BY <1>1
  <1>3. /\ h[u.to].req = f.req
        /\ Parts(h, q, Block(u.to), f.req, f.pc) /\ Knows(h, q, u.to, f.req, f.pc)
    BY <1>2 DEF FrameOk, Building
  <1>4. Parts(h2, q2, Block(u.to), f.req, f.pc + 1)
    BY <1>1, <1>3, PartsGrow
  <1>5. Knows(h2, q2, u.to, f.req, f.pc + 1)
    BY <1>1, <1>3, KnowsGrow
  <1>6. Building(h2, q2, u.to, g)
    BY <1>1, <1>3, <1>4, <1>5 DEF Building
  <1> QED
    BY <1>6 DEF FrameOk

(* The constructor works on its object, and on no other.                   *)
Works(h, q, h2, q2, u) ==
    /\ \A a \in DOMAIN h : a # u.to => h2[a] = h[a]
    /\ \A o : o.by # Block(u.to) => (o \in q <=> o \in q2)
    /\ \A o \in q2 : o.by = Block(u.to) => o \in q \/ h2[o.to].kind = "table"
LEMMA WorksLocally ==
    ASSUME NEW h, NEW q, NEW h2, NEW q2, NEW k, NEW u,
           OwnSelf(q, k, u), \A o : Holds(q, k, o) => o = u, Single(q),
           \A p \in q : p.to \in DOMAIN h, Works(h, q, h2, q2, u), Links(h, q)
    PROVE  /\ Local(h, q, h2, q2, {Frame(k), Block(u.to)})
           /\ \A p : OwnSelf(q2, k, p) <=> p = u
           /\ \A p \in q2 : p.by \in {Frame(k), Block(u.to)} /\ Leads(h2, p)
                                => Whole(h2, q2, p.to)
  <1> DEFINE X == {Frame(k), Block(u.to)}
  <1>1. u \in q /\ u.by = Frame(k) /\ u.at = "self"
    BY DEF OwnSelf, Holds
  <1>2. \A o \in q : o.to = u.to => o = u
    BY <1>1 DEF Single
  <1>3. \A o \in q : o # u => h2[o.to] = h[o.to]
    BY <1>2 DEF Works
  <1>4. Local(h, q, h2, q2, X)
    <2>1. \A by : by \notin X => Unmoved(h, q, h2, q2, by)
      BY <1>1, <1>3 DEF Unmoved, Works
    <2>2. \A b \in DOMAIN h : Block(b) \notin X => h2[b] = h[b]
      BY DEF Works
    <2>3. \A p \in q : Block(p.to) \in X => p.by \in X
      BY <1>1, <1>2, Holders
    <2> QED
      BY <2>1, <2>2, <2>3 DEF Local
  <1>5. Frame(k) # Block(u.to)
    BY Holders
  <1>6. \A o : Holds(q2, k, o) <=> Holds(q, k, o)
    BY <1>5 DEF Holds, Works
  <1>7. ASSUME NEW p \in q2, p.by \in X, Leads(h2, p) PROVE Whole(h2, q2, p.to)
    <2>1. CASE p.by = Frame(k)
      BY <1>1, <1>6, <1>7, <2>1 DEF Holds, Leads
    <2>2. CASE p.by = Block(u.to)
      <3>1. p \in q /\ p # u
        BY <1>1, <1>5, <1>7, <2>2 DEF Works, Leads
      <3>2. h2[p.to] = h[p.to]
        BY <1>3, <3>1
      <3>3. Whole(h, q, p.to)
        BY <1>7, <3>1, <3>2 DEF Links, Leads
      <3>4. Block(p.to) \notin X
        BY <1>2, <3>1, Holders
      <3> QED
        BY <1>4, <3>1, <3>3, <3>4, LinksElsewhere
    <2> QED
      BY <1>7, <2>1, <2>2
  <1> QED
    BY <1>1, <1>4, <1>6, <1>7 DEF OwnSelf

LEMMA WiredWorks ==
    ASSUME Life, Wiring, stack # <<>>, Top.pc \in 1..Len(Steps(Top.req)),
           NeedsSelf(Cur), Advance, Top.req.maker # "stft",
           NEW u, OwnSelf(ptr, Depth, u), Works(heap, ptr, heap', ptr', u),
           heap'[u.to].req = heap[u.to].req,
           Grows(heap, ptr, Block(u.to), heap', ptr', Block(u.to), Cur),
           Tells(heap, ptr, u.to, heap', ptr', u.to, Cur)
    PROVE  Wiring'
  <1> DEFINE X == {Frame(Depth), Block(u.to)}
             g == [Top EXCEPT !.pc = @ + 1]
  <1>1. /\ \E S : stack \in Seq(S)
        /\ \A p \in ptr : p.to \in DOMAIN heap
        /\ Single(ptr) /\ Frames(Top) /\ AtWork(heap, ptr, Top, Depth, call)
        /\ Depth \in Nat \ {0}
    BY Standing DEF Sound
  <1>2. \A o : Holds(ptr, Depth, o) => o = u
    BY <1>1 DEF AtWork
  <1>3. Links(heap, ptr) /\ FrameOk(heap, ptr, Top, Depth)
    BY <1>1 DEF Wiring, Wired, Top, Depth
  <1>4. /\ Local(heap, ptr, heap', ptr', X)
        /\ \A p : OwnSelf(ptr', Depth, p) <=> p = u
        /\ \A p \in ptr' : p.by \in X /\ Leads(heap', p) => Whole(heap', ptr', p.to)
    BY <1>1, <1>2, <1>3, WorksLocally
  <1>5. FrameOk(heap', ptr', g, Depth)
    BY <1>1, <1>3, <1>4, FrameGrows DEF Cur
  <1>6. \A k \in 1..Depth - 1 : Frame(k) \notin X
    <2> TAKE k \in 1..Depth - 1
    <2>1. k # Depth
      BY <1>1
    <2> QED
      BY <2>1, Holders
  <1>7. g = [stack[Len(stack)] EXCEPT !.pc = stack[Len(stack)].pc + 1]
    BY DEF Top, Depth
  <1>8. Wired(heap', ptr', [stack EXCEPT ![Len(stack)].pc = stack[Len(stack)].pc + 1])
    <2> HIDE DEF X, g
    <2>1. \A k \in 1..Len(stack) - 1 : Frame(k) \notin X
      BY <1>6 DEF Depth
    <2>2. FrameOk(heap', ptr', [stack[Len(stack)] EXCEPT !.pc = stack[Len(stack)].pc + 1],
                  Len(stack))
      BY <1>5, <1>7 DEF Depth
    <2> QED
      BY <1>1, <1>4, <2>1, <2>2, TopRewired DEF Wiring
  <1>9. stack' = [stack EXCEPT ![Len(stack)].pc = stack[Len(stack)].pc + 1]
    BY DEF Advance, Depth
  <1> QED
    BY <1>8, <1>9 DEF Wiring

(* The object of the constructor on top.                                   *)
LEMMA OwnKnown ==
    ASSUME Life, stack # <<>>, Top.pc \in 1..Len(Steps(Top.req)), NeedsSelf(Cur)
    PROVE  \E u : /\ OwnSelf(ptr, Depth, u) /\ Self = u.to /\ u.to \in DOMAIN heap
                  /\ u \in ptr /\ u.by = Me /\ u.at = "self"
                  /\ \A o \in ptr : o.to = u.to => o = u
                  /\ \A o : Holds(ptr, Depth, o) => o = u
  <1>1. Assured(Top, "self") /\ Single(ptr)
    BY Standing, StepKnown DEF Cur
  <1>2. PICK u : /\ OwnSelf(ptr, Depth, u) /\ Self = u.to /\ u.to \in DOMAIN heap
                 /\ \A o : Holds(ptr, Depth, o) => o = u
    BY <1>1, SelfKnown
  <1>3. u \in ptr /\ u.by = Me /\ u.at = "self"
    BY <1>2 DEF OwnSelf, Holds, Me
  <1>4. \A o \in ptr : o.to = u.to => o = u
    BY <1>1, <1>3 DEF Single
  <1> QED
    BY <1>2, <1>3, <1>4

LEMMA NotStft ==
    ASSUME Top.pc \in 1..Len(Steps(Top.req)), Cur.op \notin {"make", "window"}
    PROVE  Top.req.maker # "stft"
  <1>1. \A b : WindowTable(b).op = "window"
    BY StepKinds
  <1>2. \A at, r : Make(at, r).op = "make"
    BY StepKinds
  <1> QED
    BY <1>1, <1>2, StftStep DEF Cur

(* It gets new tables.                                                     *)
LEMMA WiredAttaches ==
    ASSUME Life, Wiring, stack # <<>>, Top.pc \in 1..Len(Steps(Top.req)), Advance,
           Cur.op \in {"alloc", "generate", "measure"},
           NEW links, NEW ats, Attached(ptr, ptr', links, ats, Block(Self)),
           \A p \in links : heap'[p.to].kind = "table" /\ Fit(heap', Cur, p),
           Cur.op = "generate" => Blank(Cur) \/ "t0" \in ats,
           \A a \in DOMAIN heap : a # Self => heap'[a] = heap[a],
           heap'[Self].req = heap[Self].req,
           \/ heap'[Self].fn = heap[Self].fn
           \/ Cur.op = "measure" /\ heap'[Self].fn = "dit" /\ "t2" \in ats
    PROVE  Wiring'
  <1>1. NeedsSelf(Cur) /\ Top.req.maker # "stft"
    BY NotStft DEF NeedsSelf
  <1>2. PICK u : /\ OwnSelf(ptr, Depth, u) /\ Self = u.to /\ u.to \in DOMAIN heap
                 /\ u \in ptr /\ u.by = Me /\ u.at = "self"
                 /\ \A o \in ptr : o.to = u.to => o = u
    BY <1>1, OwnKnown
  <1> DEFINE by == Block(u.to)
  <1>3. /\ \A p \in ptr : p.by # by \/ p.at \notin ats => p \in ptr'
        /\ links \subseteq ptr' /\ \A o \in ptr' : o \in ptr \/ o \in links
        /\ \A p \in links : p.by = by /\ p.at \in ats
        /\ \A at \in ats : \E p \in links : p.at = at
    BY <1>2 DEF Attached
  <1>4. \A p \in ptr : p.to \in DOMAIN heap /\ (p # u => heap'[p.to] = heap[p.to])
    BY <1>2, Standing DEF Sound
  <1>5. Me # by
    BY Holders DEF Me
  <1>6. Works(heap, ptr, heap', ptr', u)
    BY <1>2, <1>3 DEF Works
  <1>7. Passes(ptr, by, ptr', by)
    BY <1>3 DEF Passes, Present
  <1>8. \A o \in ptr' : o.by = by => Keeps(heap, ptr, by, heap', ptr', by, o) \/ Fit(heap', Cur, o)
    BY <1>2, <1>3, <1>4, <1>5 DEF Keeps
  <1>9. Firm(Cur) = {}
    BY DEF Firm
  <1>13. Tables(ptr, by, ptr', by, Cur)
    <2>1. CASE Cur.op = "generate"
      BY <1>3, <2>1 DEF Tables, Present
    <2>2. CASE Cur.op # "generate"
      BY <1>8, <2>2, NoCodeMade
    <2> QED
      BY <2>1, <2>2
  <1>10. Grows(heap, ptr, by, heap', ptr', by, Cur)
    BY <1>7, <1>8, <1>9, <1>13 DEF Grows
  <1>11. Tells(heap, ptr, u.to, heap', ptr', u.to, Cur)
    <2>1. CASE heap'[Self].fn = heap[Self].fn
      BY <1>2, <1>7, <2>1 DEF Tells, Passes
    <2>2. CASE Cur.op = "measure" /\ heap'[Self].fn = "dit" /\ "t2" \in ats
      BY <1>2, <1>3, <2>2 DEF Tells, Present
    <2> QED
      BY <2>1, <2>2
  <1> HIDE DEF by
  <1>12. heap'[u.to].req = heap[u.to].req
    BY <1>2
  <1> QED
    BY <1>1, <1>2, <1>6, <1>10, <1>11, <1>12, WiredWorks DEF by

(* It goes on with the pointers it has.                                    *)
LEMMA WiredGoesOn ==
    ASSUME Life, Wiring, stack # <<>>, Top.pc \in 1..Len(Steps(Top.req)), Advance,
           NeedsSelf(Cur), Cur.op # "window", ptr' = ptr,
           \A at \in Firm(Cur) : at # "self" => Present(ptr, Block(Self), at),
           \A a \in DOMAIN heap : a # Self => heap'[a] = heap[a],
           heap'[Self].req = heap[Self].req,
           \/ heap'[Self].fn = heap[Self].fn /\ Cur.op # "use"
           \/ Cur.op = "use" /\ heap'[Self].fn = Cur.fn
    PROVE  Wiring'
  <1>1. Top.req.maker # "stft"
    BY NotStft DEF NeedsSelf
  <1>2. PICK u : /\ OwnSelf(ptr, Depth, u) /\ Self = u.to /\ u.to \in DOMAIN heap
                 /\ u \in ptr /\ u.by = Me /\ u.at = "self"
                 /\ \A o \in ptr : o.to = u.to => o = u
    BY OwnKnown
  <1> DEFINE by == Block(u.to)
  <1>4. \A p \in ptr : p.to \in DOMAIN heap /\ (p # u => heap'[p.to] = heap[p.to])
    BY <1>2, Standing DEF Sound
  <1>5. Me # by
    BY Holders DEF Me
  <1>6. Works(heap, ptr, heap', ptr', u)
    BY <1>2 DEF Works
  <1>7. Passes(ptr, by, ptr', by)
    BY DEF Passes
  <1>8. \A o \in ptr' : o.by = by => Keeps(heap, ptr, by, heap', ptr', by, o)
    BY <1>2, <1>4, <1>5 DEF Keeps
  <1>9. \A at \in Firm(Cur) : at # "self" => Present(ptr', by, at)
    BY <1>2
  <1>13. Tables(ptr, by, ptr', by, Cur)
    BY <1>8, NothingNew
  <1>10. Grows(heap, ptr, by, heap', ptr', by, Cur)
    BY <1>7, <1>8, <1>9, <1>13 DEF Grows
  <1>11. Tells(heap, ptr, u.to, heap', ptr', u.to, Cur)
    BY <1>2, <1>7 DEF Tells, Passes
  <1> HIDE DEF by
  <1>12. heap'[u.to].req = heap[u.to].req
    BY <1>2
  <1> QED
    BY <1>1, <1>2, <1>6, <1>10, <1>11, <1>12, WiredWorks DEF by

(* A table that is new.                                                    *)
Tabled(h, b, bytes, h2) ==
    /\ h2[b].kind = "table" /\ h2[b].bytes = bytes
    /\ \A a \in DOMAIN h : a # b => h2[a] = h[a]
    /\ DOMAIN h2 = DOMAIN h \cup {b}
LEMMA StoredTable ==
    ASSUME NEW h, NEW b, NEW bytes, NEW r
    PROVE  Tabled(h, b, bytes, Stored(h, b, Record("table", bytes, r)))
  <1> DEFINE x == Record("table", bytes, r)
  <1>1. x.kind = "table" /\ x.bytes = bytes
    BY DEF Record
  <1> HIDE DEF x
  <1>2. /\ Stored(h, b, x)[b] = x
        /\ \A a \in DOMAIN h : a # b => Stored(h, b, x)[a] = h[a]
        /\ DOMAIN Stored(h, b, x) = DOMAIN h \cup {b}
    BY DEF Stored
  <1> QED
    BY <1>1, <1>2 DEF x, Tabled

LEMMA WiredTable ==
    ASSUME Life, Wiring, stack # <<>>, Top.pc \in 1..Len(Steps(Top.req)), Advance,
           Cur.op \in {"alloc", "generate", "measure"},
           NEW at, NEW b, b \notin DOMAIN heap, NEW bytes, NEW h1, DOMAIN h1 = DOMAIN heap,
           \A a \in DOMAIN heap : a # Self => h1[a] = heap[a],
           heap' = Stored(h1, b, Record("table", bytes, Top.req)),
           ptr' = Assign(Block(Self), at, b),
           \/ Cur.op = "alloc" /\ Cur.at = at /\ Cur.bytes = bytes
           \/ Cur.op = "generate" /\ at = "code" /\ Cur.bytes = 0
           \/ Cur.op = "measure" /\ at = "t2" /\ Cur.bytes = bytes,
           h1[Self].req = heap[Self].req,
           \/ h1[Self].fn = heap[Self].fn
           \/ Cur.op = "measure" /\ h1[Self].fn = "dit"
    PROVE  Wiring'
  <1>1. Self \in DOMAIN heap
    BY OwnKnown DEF NeedsSelf
  <1> DEFINE p == Pointer(Block(Self), at, b)
  <1>2. p.at = at /\ p.to = b
    BY Pointers
  <1>3. Attached(ptr, ptr', Only(Block(Self), at, b), {at}, Block(Self))
    BY Assigned
  <1>4. \A o \in Only(Block(Self), at, b) : o = p
    BY DEF Only
  <1>9. Tabled(h1, b, bytes, heap')
    BY StoredTable
  <1>5. /\ heap'[b].kind = "table" /\ heap'[b].bytes = bytes
        /\ \A a \in DOMAIN heap : heap'[a] = h1[a]
    BY <1>9 DEF Tabled
  <1> HIDE DEF p
  <1>6. Fit(heap', Cur, p)
    BY <1>2, <1>5 DEF Fit
  <1>7. \A o \in Only(Block(Self), at, b) : heap'[o.to].kind = "table" /\ Fit(heap', Cur, o)
    BY <1>2, <1>4, <1>5, <1>6
  <1>8. /\ \A a \in DOMAIN heap : a # Self => heap'[a] = heap[a]
        /\ heap'[Self].req = heap[Self].req
        /\ \/ heap'[Self].fn = heap[Self].fn
           \/ Cur.op = "measure" /\ heap'[Self].fn = "dit" /\ "t2" \in {at}
    BY <1>1, <1>5
  <1>10. Cur.op = "generate" => Blank(Cur)
    BY DEF Blank
  <1> QED
    BY <1>3, <1>7, <1>8, <1>10, WiredAttaches

LEMMA WiredAlloc == Life /\ Wiring /\ StepAlloc => Wiring'
  <1> SUFFICES ASSUME Life, Wiring, StepAlloc PROVE Wiring'
    OBVIOUS
  <1>1. /\ stack # <<>> /\ Top.pc \in 1..Len(Steps(Top.req)) /\ Cur.op = "alloc" /\ Advance
    BY AtStepIs DEF StepAlloc
  <1>2. CASE \E b \in 1..MaxBlocks :
                 /\ Fresh(b, DOMAIN heap)
                 /\ heap' = Stored(heap, b, Record("table", Cur.bytes, Top.req))
                 /\ ptr' = Assign(Block(Self), Cur.at, b)
                 /\ UNCHANGED call
    <2>1. PICK b : /\ b \notin DOMAIN heap
                   /\ heap' = Stored(heap, b, Record("table", Cur.bytes, Top.req))
                   /\ ptr' = Assign(Block(Self), Cur.at, b)
      BY <1>2 DEF Fresh
    <2> QED
      BY <1>1, <2>1, WiredTable
  <1>3. CASE Deny /\ UNCHANGED <<heap, ptr>>
    <2>1. Firm(Cur) = {} /\ NeedsSelf(Cur)
      BY <1>1 DEF Firm, NeedsSelf
    <2> QED
      BY <1>1, <1>3, <2>1, WiredGoesOn
  <1> QED
    BY <1>2, <1>3 DEF StepAlloc

LEMMA WiredGenerate == Life /\ Wiring /\ StepGenerate => Wiring'
  <1> SUFFICES ASSUME Life, Wiring, StepGenerate PROVE Wiring'
    OBVIOUS
  <1>1. /\ stack # <<>> /\ Top.pc \in 1..Len(Steps(Top.req)) /\ Cur.op = "generate" /\ Advance
    BY AtStepIs DEF StepGenerate
  <1> DEFINE x == Record("table", 16 * MaxInst, Top.req)
             y == Record("table", Cur.bytes, Top.req)
             one(b) == /\ Cur.bytes = 0
                       /\ heap' = Stored(heap, b, x) /\ ptr' = Assign(Block(Self), "code", b)
             two(b, c) == /\ heap' = Stored(Stored(heap, b, x), c, y)
                          /\ ptr' = Assign(Block(Self), "code", b)
                                        \cup {Pointer(Block(Self), "t0", c)}
  <1>2. Self \in DOMAIN heap /\ Firm(Cur) = {} /\ NeedsSelf(Cur)
    BY <1>1, OwnKnown DEF Firm, NeedsSelf
  <1>3. \/ \E b, c \in 1..MaxBlocks : /\ Fresh(b, DOMAIN heap) /\ Fresh(c, DOMAIN heap \cup {b})
                                      /\ one(b) \/ two(b, c)
        \/ UNCHANGED <<heap, ptr>>
    BY DEF StepGenerate
  <1>4. CASE \E b, c \in 1..MaxBlocks :
                 /\ Fresh(b, DOMAIN heap) /\ Fresh(c, DOMAIN heap \cup {b})
                 /\ one(b) \/ two(b, c)
    <2>1. PICK b, c : /\ b \notin DOMAIN heap /\ c \notin DOMAIN heap \cup {b}
                      /\ one(b) \/ two(b, c)
      BY <1>4 DEF Fresh
    <2>2. CASE one(b)
      <3>1. /\ heap' = Stored(heap, b, Record("table", 16 * MaxInst, Top.req))
            /\ ptr' = Assign(Block(Self), "code", b) /\ Cur.bytes = 0
        BY <2>2
      <3> HIDE DEF x, y, one, two
      <3> QED
        BY <1>1, <2>1, <3>1, WiredTable
    <2>3. CASE two(b, c)
      <3>1. Attached(ptr, ptr', Both(Block(Self), b, c), {"code", "t0"}, Block(Self))
        BY <2>1, <2>3, BothAssigned
      <3>2. heap' = Stored(Stored(heap, b, x), c, y)
        BY <2>3
      <3>3. /\ heap'[c].kind = "table" /\ heap'[c].bytes = Cur.bytes
            /\ heap'[b].kind = "table" /\ \A a \in DOMAIN heap : heap'[a] = heap[a]
        <4> DEFINE h1 == Stored(heap, b, x)
        <4>4. Tabled(heap, b, 16 * MaxInst, h1)
          BY StoredTable
        <4>1. /\ h1[b].kind = "table" /\ \A a \in DOMAIN heap : h1[a] = heap[a]
              /\ DOMAIN h1 = DOMAIN heap \cup {b}
          BY <2>1, <4>4 DEF Tabled
        <4> HIDE DEF h1
        <4>2. heap' = Stored(h1, c, Record("table", Cur.bytes, Top.req))
          BY <3>2 DEF h1
        <4>5. Tabled(h1, c, Cur.bytes, heap')
          BY <4>2, StoredTable
        <4>3. /\ heap'[c].kind = "table" /\ heap'[c].bytes = Cur.bytes
              /\ \A a \in DOMAIN h1 : a # c => heap'[a] = h1[a]
          BY <4>5 DEF Tabled
        <4> QED
          BY <2>1, <4>1, <4>3
      <3> DEFINE p == Pointer(Block(Self), "code", b)
                 o == Pointer(Block(Self), "t0", c)
      <3>4. p.at = "code" /\ p.to = b /\ o.at = "t0" /\ o.to = c
        BY Pointers
      <3>5. \A v \in Both(Block(Self), b, c) : v = p \/ v = o
        BY DEF Both
      <3> HIDE DEF x, y, one, two, p, o
      <3>6. Fit(heap', Cur, p) /\ Fit(heap', Cur, o)
        BY <1>1, <3>3, <3>4 DEF Fit
      <3>7. \A v \in Both(Block(Self), b, c) : heap'[v.to].kind = "table" /\ Fit(heap', Cur, v)
        BY <3>3, <3>4, <3>5, <3>6
      <3>8. heap'[Self] = heap[Self]
        BY <1>2, <3>3
      <3> QED
        BY <1>1, <3>1, <3>3, <3>7, <3>8, WiredAttaches
    <2> QED
      BY <2>1, <2>2, <2>3
  <1>5. CASE UNCHANGED <<heap, ptr>>
    BY <1>1, <1>2, <1>5, WiredGoesOn
  <1> QED
    BY <1>3, <1>4, <1>5

LEMMA WiredMeasure == Life /\ Wiring /\ StepMeasure => Wiring'
  <1> SUFFICES ASSUME Life, Wiring, StepMeasure PROVE Wiring'
    OBVIOUS
  <1>1. /\ stack # <<>> /\ Top.pc \in 1..Len(Steps(Top.req)) /\ Cur.op = "measure" /\ Advance
    BY AtStepIs DEF StepMeasure
  <1>2. Firm(Cur) = {} /\ NeedsSelf(Cur)
    BY <1>1 DEF Firm, NeedsSelf
  <1>3. CASE UNCHANGED <<heap, ptr>>
    BY <1>1, <1>2, <1>3, WiredGoesOn
  <1>4. CASE \E b \in 1..MaxBlocks :
                 /\ Fresh(b, DOMAIN heap)
                 /\ heap' = Stored([heap EXCEPT ![Self].fn = "dit"],
                                   b, Record("table", Cur.bytes, Top.req))
                 /\ ptr' = Assign(Block(Self), "t2", b)
    <2> DEFINE h1 == [heap EXCEPT ![Self].fn = "dit"]
    <2>1. PICK b : /\ b \notin DOMAIN heap
                   /\ heap' = Stored(h1, b, Record("table", Cur.bytes, Top.req))
                   /\ ptr' = Assign(Block(Self), "t2", b)
      BY <1>4 DEF Fresh
    <2>2. Self \in DOMAIN heap /\ Entries(heap)
      BY <1>1, <1>2, OwnKnown, Standing
    <2>3. PICK k, n, q, f : heap[Self] = [kind |-> k, bytes |-> n, req |-> q, fn |-> f]
      BY <2>2 DEF Entries
    <2>4. h1[Self] = [kind |-> k, bytes |-> n, req |-> q, fn |-> "dit"]
      BY <2>2, <2>3
    <2>5. /\ DOMAIN h1 = DOMAIN heap /\ \A a \in DOMAIN heap : a # Self => h1[a] = heap[a]
          /\ h1[Self].req = heap[Self].req /\ h1[Self].fn = "dit"
      BY <2>3, <2>4
    <2> HIDE DEF h1
    <2> QED
      BY <1>1, <2>1, <2>5, WiredTable
  <1> QED
    BY <1>3, <1>4 DEF StepMeasure

LEMMA WiredUse == Life /\ Wiring /\ StepUse => Wiring'
  <1> SUFFICES ASSUME Life, Wiring, StepUse PROVE Wiring'
    OBVIOUS
  <1>1. /\ stack # <<>> /\ Top.pc \in 1..Len(Steps(Top.req)) /\ Cur.op = "use" /\ Advance
        /\ heap' = [heap EXCEPT ![Self].fn = Cur.fn] /\ ptr' = ptr
    BY AtStepIs DEF StepUse
  <1>2. Firm(Cur) = {} /\ NeedsSelf(Cur)
    BY <1>1 DEF Firm, NeedsSelf
  <1>3. Self \in DOMAIN heap /\ Entries(heap)
    BY <1>1, <1>2, OwnKnown, Standing
  <1>4. PICK k, n, q, f : heap[Self] = [kind |-> k, bytes |-> n, req |-> q, fn |-> f]
    BY <1>3 DEF Entries
  <1>5. heap'[Self] = [kind |-> k, bytes |-> n, req |-> q, fn |-> Cur.fn]
    BY <1>1, <1>3, <1>4
  <1>6. /\ \A a \in DOMAIN heap : a # Self => heap'[a] = heap[a]
        /\ heap'[Self].req = heap[Self].req /\ heap'[Self].fn = Cur.fn
    BY <1>1, <1>4, <1>5
  <1> QED
    BY <1>1, <1>2, <1>6, WiredGoesOn

LEMMA WiredCheck == Life /\ Wiring /\ StepCheck => Wiring'
  <1> SUFFICES ASSUME Life, Wiring, StepCheck PROVE Wiring'
    OBVIOUS
  <1>1. stack # <<>> /\ Top.pc \in 1..Len(Steps(Top.req)) /\ Cur.op = "check"
    BY AtStepIs DEF StepCheck
  <1>2. CASE /\ \A at \in Cur.ats : Points(Block(Self), at)
             /\ Advance /\ UNCHANGED <<heap, ptr, call>>
    <2>1. \A at \in Firm(Cur) : Present(ptr, Block(Self), at)
      BY <1>1, <1>2 DEF Firm, Points, Present
    <2>2. NeedsSelf(Cur)
      BY <1>1 DEF NeedsSelf
    <2> QED
      BY <1>1, <1>2, <2>1, <2>2, WiredGoesOn
  <1>3. CASE Fail(Cur.tells)
    BY <1>1, <1>3, WiredFails DEF Fail
  <1> QED
    BY <1>2, <1>3 DEF StepCheck

LEMMA WiredTest == Life /\ Wiring /\ (StepTest \/ StepReject) => Wiring'
  <1> SUFFICES ASSUME Life, Wiring, StepTest \/ StepReject PROVE Wiring'
    OBVIOUS
  <1>1. stack # <<>> /\ Top.pc \in 1..Len(Steps(Top.req)) /\ Cur.op \in {"test", "reject"}
    BY AtStepIs DEF StepTest, StepReject
  <1>2. CASE Advance /\ UNCHANGED <<heap, ptr, call>>
    <2> DEFINE g == [Top EXCEPT !.pc = @ + 1]
    <2>1. /\ \E S : stack \in Seq(S)
          /\ \A p \in ptr : p.to \in DOMAIN heap
          /\ Frames(Top) /\ Depth \in Nat \ {0} /\ Top.req.maker # "stft"
          /\ AtWork(heap, ptr, Top, Depth, call)
      BY <1>1, Standing, NotStft DEF Sound
    <2>2. /\ g.req = Top.req /\ g.pc = Top.pc + 1 /\ Top.pc # 0
          /\ Len(Steps(Top.req)) \in Nat
      BY <1>1, <2>1, NextGave, StepKnown
    <2>3. FrameOk(heap, ptr, Top, Depth)
      BY <2>1 DEF Wiring, Wired, Top, Depth
    <2>4. Firm(Cur) = {} /\ Cur.op # "use"
      BY <1>1 DEF Firm
    <2>5. \A by : Grows(heap, ptr, by, heap, ptr, by, Cur)
      BY <2>4 DEF Grows, Passes, Keeps, Tables
    <2>6. \A b : Tells(heap, ptr, b, heap, ptr, b, Cur)
      BY <2>4 DEF Tells
    <2>7. ASSUME \A p : ~OwnSelf(ptr, Depth, p)
          PROVE  Parts(heap, ptr, Frame(Depth), g.req, g.pc)
      <3>1. Parts(heap, ptr, Frame(Depth), Top.req, Top.pc)
        BY <2>2, <2>3, <2>7 DEF FrameOk
      <3>2. Grows(heap, ptr, Frame(Depth), heap, ptr, Frame(Depth), Steps(Top.req)[Top.pc])
        BY <2>5 DEF Cur
      <3> QED
        BY <1>1, <2>2, <3>1, <3>2, PartsGrow
    <2>8. FrameOk(heap, ptr, g, Depth)
      <3>1. CASE \A p : ~OwnSelf(ptr, Depth, p)
        BY <2>7, <3>1 DEF FrameOk
      <3>2. CASE \E u : OwnSelf(ptr, Depth, u)
        <4>1. PICK u : OwnSelf(ptr, Depth, u)
          BY <3>2
        <4>2. \A p : OwnSelf(ptr, Depth, p) <=> p = u
          BY <2>1, <4>1 DEF AtWork, OwnSelf
        <4> HIDE DEF g
        <4>3. g = [Top EXCEPT !.pc = @ + 1]
          BY DEF g
        <4> QED
          BY <1>1, <2>1, <2>3, <2>5, <2>6, <4>1, <4>2, <4>3, FrameGrows DEF Cur
      <3> QED
        BY <3>1, <3>2
    <2>9. Local(heap, ptr, heap, ptr, {})
      BY DEF Local, Unmoved
    <2>10. g = [stack[Len(stack)] EXCEPT !.pc = stack[Len(stack)].pc + 1]
      BY DEF Top, Depth
    <2>11. Wired(heap, ptr, [stack EXCEPT ![Len(stack)].pc = stack[Len(stack)].pc + 1])
      <3> HIDE DEF g
      <3>1. FrameOk(heap, ptr, [stack[Len(stack)] EXCEPT !.pc = stack[Len(stack)].pc + 1],
                    Len(stack))
        BY <2>8, <2>10 DEF Depth
      <3> DEFINE X == {}
      <3>2. Local(heap, ptr, heap, ptr, X)
        BY <2>9
      <3>3. /\ \A k \in 1..Len(stack) - 1 : Frame(k) \notin X
            /\ \A p \in ptr : p.by \in X /\ Leads(heap, p) => Whole(heap, ptr, p.to)
        OBVIOUS
      <3> HIDE DEF X
      <3> QED
        BY <1>1, <2>1, <3>1, <3>2, <3>3, TopRewired DEF Wiring
    <2> QED
      BY <1>2, <2>11 DEF Wiring, Advance, Depth
  <1>3. CASE /\ stack' = [stack EXCEPT ![Depth].pc = 0]
             /\ ptr' = GiveUp(Depth)
             /\ call' = [call EXCEPT !.told = TRUE, !.denied = TRUE]
             /\ UNCHANGED heap
    BY <1>1, <1>3, WiredFails
  <1> QED
    BY <1>2, <1>3 DEF StepTest, StepReject

(* The FFT becomes an STFT.                                                *)
LEMMA BaseIs ==
    ASSUME NEW r, IsRequest(r)
    PROVE  /\ r.maker # "stft" => Base(r) = r
           /\ r.maker = "stft" =>
                  /\ Base(r).maker = "fft" /\ Base(r).n = r.n /\ Base(r).prec = r.prec
                  /\ Base(r).layout = r.layout /\ Base(r).flags = r.flags
                  /\ Base(r).dir = "fwd" /\ Base(Base(r)) = Base(r)
                  /\ IsRequest(Base(r))
  <1>1. CASE r.maker # "stft"
    BY <1>1 DEF Base
  <1>2. CASE r.maker = "stft"
    <2> DEFINE u == Base(r)
    <2>1. u = [r EXCEPT !.maker = "fft", !.dir = "fwd"]
      BY <1>2 DEF Base
    <2> HIDE DEF u
    <2>2. Same(u, "fft", r.n, r.prec, "fwd", r.layout, r.flags)
      BY <2>1, Derived
    <2>3. u.maker = "fft" /\ IsRequest(u)
      BY <2>2 DEF Same, IsRequest, Makers
    <2>4. Base(u) = u
      BY <2>3 DEF Base
    <2>5. /\ u.n = r.n /\ u.prec = r.prec /\ u.layout = r.layout /\ u.flags = r.flags
          /\ u.dir = "fwd"
      BY <2>2 DEF Same
    <2> QED
      BY <1>2, <2>3, <2>4, <2>5 DEF u
  <1> QED
    BY <1>1, <1>2

LEMMA Windowed ==
    ASSUME NEW h, NEW q, NEW h2, NEW q2, NEW b, NEW c, NEW r,
           IsRequest(r), Accepts(r), r.maker = "stft", h[b].req \in {r, Base(r)},
           Whole(h, q, b), h2[b].req = r, h2[b].kind = h[b].kind, h2[b].fn = h[b].fn,
           NEW p \in q2, p.by = Block(b), p.at = "t1", h2[p.to].bytes = r.n * 4,
           \A o \in q2 : o.by = Block(b) => o = p \/ (o \in q /\ h2[o.to] = h[o.to]),
           \A o \in q : o.by = Block(b) => o.at = "t1" \/ o \in q2
    PROVE  Whole(h2, q2, b)
  <1> DEFINE v == h[b].req
             u == Base(r)
             i == Ending(u)
  <1>1. Base(v) = u /\ Kind(v) = Kind(r) /\ (v.maker = "stft" => v = r)
    <2>1. u.maker = "fft" /\ Base(u) = u
      BY BaseIs
    <2> QED
      BY <2>1 DEF Kind
  <1>2. /\ h[b].kind = Kind(v)
        /\ \A o \in q : o.by = Block(b) => Placed(h, u, i, o) \/ Window(h, v, o)
        /\ Filled(q, Block(b), u, i)
        /\ Knows(h, q, b, u, i)
    BY <1>1 DEF Whole
  <1> HIDE DEF v, u, i
  <1>3. ASSUME NEW o \in q2, o.by = Block(b)
        PROVE  Placed(h2, u, i, o) \/ Window(h2, r, o)
    <2>1. CASE o = p
      BY <2>1 DEF Window
    <2>2. CASE o \in q /\ h2[o.to] = h[o.to]
      <3>1. CASE Window(h, v, o)
        BY <1>1, <2>2, <3>1 DEF Window
      <3>2. CASE Placed(h, u, i, o)
        <4>1. PICK x \in Behind(u, i) : Fit(h, x, o)
          BY <3>2 DEF Placed
        <4>2. Fit(h2, x, o)
          BY <2>2, <4>1 DEF Fit
        <4> QED
          BY <4>2 DEF Placed
      <3> QED
        BY <1>2, <1>3, <2>2, <3>1, <3>2
    <2> QED
      BY <1>3, <2>1, <2>2
  <1>4. Passes(q, Block(b), q2, Block(b))
    BY DEF Passes, Present
  <1>8. Present(q2, Block(b), "code") => Present(q, Block(b), "code")
    BY DEF Present
  <1>5. Filled(q2, Block(b), u, i) /\ Present(q2, Block(b), "t1")
    BY <1>2, <1>4, <1>8, FilledStays DEF Present
  <1>6. Knows(h2, q2, b, u, i)
    BY <1>2, <1>4, KnowsStays
  <1>7. h2[b].kind = Kind(r)
    BY <1>1, <1>2
  <1> QED
    BY <1>3, <1>5, <1>6, <1>7 DEF Whole, u, i

LEMMA WiredWindow == Life /\ Wiring /\ StepWindow => Wiring'
  <1> SUFFICES ASSUME Life, Wiring, StepWindow PROVE Wiring'
    OBVIOUS
  <1>1. stack # <<>> /\ Top.pc \in 1..Len(Steps(Top.req)) /\ Cur.op = "window"
    BY AtStepIs DEF StepWindow
  <1>2. CASE \E b \in 1..MaxBlocks :
                 /\ Fresh(b, DOMAIN heap)
                 /\ heap' = Stored([heap EXCEPT ![Self].req = Top.req],
                                   b, Record("table", Cur.bytes, Top.req))
                 /\ ptr' = Assign(Block(Self), "t1", b)
                 /\ Advance /\ UNCHANGED call
    <2> DEFINE h1 == [heap EXCEPT ![Self].req = Top.req]
               r == Top.req
               g == [Top EXCEPT !.pc = @ + 1]
    <2>1. PICK b : /\ b \notin DOMAIN heap
                   /\ heap' = Stored(h1, b, Record("table", Cur.bytes, r))
                   /\ ptr' = Assign(Block(Self), "t1", b) /\ Advance
      BY <1>2 DEF Fresh
    <2>2. NeedsSelf(Cur)
      BY <1>1 DEF NeedsSelf
    <2>3. PICK u : /\ OwnSelf(ptr, Depth, u) /\ Self = u.to /\ u.to \in DOMAIN heap
                   /\ u \in ptr /\ u.by = Me /\ u.at = "self"
                   /\ \A o \in ptr : o.to = u.to => o = u
                   /\ \A o : Holds(ptr, Depth, o) => o = u
      BY <1>1, <2>2, OwnKnown
    <2>4. /\ \E S : stack \in Seq(S)
          /\ Frames(Top) /\ Depth \in Nat \ {0} /\ Single(ptr) /\ Entries(heap)
          /\ \A p \in ptr : p.to \in DOMAIN heap
      BY <1>1, Standing DEF Sound
    <2>5. FrameOk(heap, ptr, Top, Depth) /\ Links(heap, ptr)
      BY <2>4 DEF Wiring, Wired, Top, Depth
    <2>6. g.req = r /\ g.pc = Top.pc + 1 /\ Top.pc # 0 /\ IsRequest(r) /\ Accepts(r)
      BY <1>1, <2>4, NextGave DEF Frames, Proper
    <2>7. r.maker = "stft" /\ Cur.bytes = r.n * 4
      <3>1. r.maker = "stft"
        BY <1>1, <2>4, StepKnown DEF StepFits, Cur
      <3>2. \A at, y : Make(at, y).op # "window"
        BY StepKinds
      <3>3. \A y : WindowTable(y).bytes = y
        BY DEF WindowTable
      <3> QED
        BY <1>1, <3>1, <3>2, <3>3, StftStep DEF Cur
    <2>8. heap[u.to].req \in {r, Base(r)} /\ Whole(heap, ptr, u.to)
      BY <2>3, <2>5, <2>6, <2>7 DEF FrameOk, Building
    <2>9. PICK k, n, q, f : heap[Self] = [kind |-> k, bytes |-> n, req |-> q, fn |-> f]
      BY <2>3, <2>4 DEF Entries
    <2>10. h1[Self] = [kind |-> k, bytes |-> n, req |-> r, fn |-> f]
      BY <2>3, <2>9
    <2>11. /\ DOMAIN h1 = DOMAIN heap /\ \A a \in DOMAIN heap : a # Self => h1[a] = heap[a]
           /\ h1[Self].req = r /\ h1[Self].kind = heap[Self].kind /\ h1[Self].fn = heap[Self].fn
      BY <2>9, <2>10
    <2> HIDE DEF h1
    <2>12. Tabled(h1, b, Cur.bytes, heap')
      BY <2>1, StoredTable
    <2>13. /\ heap'[b].kind = "table" /\ heap'[b].bytes = r.n * 4
           /\ \A a \in DOMAIN heap : a # Self => heap'[a] = heap[a]
           /\ heap'[Self].req = r /\ heap'[Self].kind = heap[Self].kind
           /\ heap'[Self].fn = heap[Self].fn
      BY <2>1, <2>3, <2>7, <2>11, <2>12 DEF Tabled
    <2> DEFINE p == Pointer(Block(Self), "t1", b)
    <2>14. p.by = Block(u.to) /\ p.at = "t1" /\ p.to = b
      BY <2>3, Pointers
    <2>15. \A o : o \in ptr' <=> (o \in ptr /\ ~(o.by = Block(u.to) /\ o.at = "t1")) \/ o = p
      BY <2>1, <2>3 DEF Assign
    <2> HIDE DEF r, g, p
    <2>16. Works(heap, ptr, heap', ptr', u)
      BY <2>3, <2>13, <2>14, <2>15 DEF Works
    <2>17. /\ Local(heap, ptr, heap', ptr', {Frame(Depth), Block(u.to)})
           /\ \A o : OwnSelf(ptr', Depth, o) <=> o = u
           /\ \A o \in ptr' : o.by \in {Frame(Depth), Block(u.to)} /\ Leads(heap', o)
                                  => Whole(heap', ptr', o.to)
      BY <2>3, <2>4, <2>5, <2>16, WorksLocally
    <2>18. Whole(heap', ptr', u.to)
      <3>1. \A o \in ptr' : o.by = Block(u.to) => o = p \/ (o \in ptr /\ heap'[o.to] = heap[o.to])
        BY <2>3, <2>4, <2>13, <2>15, Holders DEF Me
      <3>2. \A o \in ptr : o.by = Block(u.to) => o.at = "t1" \/ o \in ptr'
        BY <2>15
      <3>3. p \in ptr'
        BY <2>15
      <3> QED
        BY <2>3, <2>6, <2>7, <2>8, <2>13, <2>14, <3>1, <3>2, <3>3, Windowed
    <2>19. FrameOk(heap', ptr', g, Depth)
      <3>1. heap'[u.to].req = r
        BY <2>3, <2>13
      <3>2. Building(heap', ptr', u.to, g)
        BY <2>6, <2>7, <2>18, <3>1 DEF Building
      <3>3. OwnSelf(ptr', Depth, u)
        BY <2>17
      <3> QED
        BY <2>17, <3>2, <3>3 DEF FrameOk
    <2>20. \A j \in 1..Len(stack) - 1 : Frame(j) \notin {Frame(Depth), Block(u.to)}
      <3> TAKE j \in 1..Len(stack) - 1
      <3>1. j # Depth
        BY <2>4 DEF Depth
      <3> QED
        BY <3>1, Holders
    <2>21. g = [stack[Len(stack)] EXCEPT !.pc = stack[Len(stack)].pc + 1]
      BY DEF Top, Depth, g
    <2>22. Wired(heap', ptr', [stack EXCEPT ![Len(stack)].pc = stack[Len(stack)].pc + 1])
      <3>1. FrameOk(heap', ptr', [stack[Len(stack)] EXCEPT !.pc = stack[Len(stack)].pc + 1],
                    Len(stack))
        BY <2>19, <2>21 DEF Depth
      <3> QED
        BY <1>1, <2>4, <2>17, <2>20, <3>1, TopRewired DEF Wiring
    <2> QED
      BY <2>1, <2>22 DEF Wiring, Advance, Depth
  <1>3. CASE /\ stack' = [stack EXCEPT ![Depth].pc = 0]
             /\ ptr' = GiveUp(Depth)
             /\ Deny /\ UNCHANGED heap
    BY <1>1, <1>3, WiredFails
  <1> QED
    BY <1>2, <1>3 DEF StepWindow

(* The object is there.                                                    *)
LEMMA NoKernelYet ==
    ASSUME NEW f, Frames(f), f.pc \in 1..Len(Steps(f.req)), ~Gave(f, "self")
    PROVE  \A x \in Behind(f.req, f.pc) : x.op # "use"
  <1> SUFFICES ASSUME NEW x \in Behind(f.req, f.pc), x.op = "use" PROVE FALSE
    OBVIOUS
  <1>1. Len(Steps(f.req)) \in Nat
    BY StepKnown
  <1>2. PICK j \in 1..f.pc - 1 : x = Steps(f.req)[j]
    BY DEF Behind
  <1> DEFINE r == f.req
             g == [req |-> r, pc |-> j]
  <1>3. g.req = r /\ g.pc = j /\ g = [req |-> g.req, pc |-> g.pc]
    OBVIOUS
  <1>4. j \in 1..Len(Steps(r)) /\ j \in 0..Len(Steps(r)) + 1
    BY <1>1
  <1>5. Proper(r) /\ Accepts(r)
    BY DEF Frames
  <1> HIDE DEF g, r
  <1>6. Frames(g)
    BY <1>3, <1>4, <1>5 DEF Frames
  <1>7. NeedsSelf(Steps(r)[j])
    BY <1>2 DEF NeedsSelf, r
  <1>8. Assured(g, "self")
    BY <1>3, <1>4, <1>6, <1>7, StepKnown
  <1>9. PICK i \in 1..j - 1 : "self" \in Surely(Steps(r)[i])
    BY <1>3, <1>8 DEF Assured
  <1>10. i \in 1..f.pc - 1 /\ i \in 1..Len(Steps(r))
    BY <1>1, <1>4
  <1>11. StepFits(Steps(r)[i], r)
    <2> DEFINE e == [req |-> r, pc |-> i]
    <2>1. e.req = r /\ e.pc = i /\ e = [req |-> e.req, pc |-> e.pc]
      OBVIOUS
    <2>2. i \in 0..Len(Steps(r)) + 1
      BY <1>1, <1>10 DEF r
    <2> HIDE DEF e
    <2>3. Frames(e)
      BY <1>5, <2>1, <2>2 DEF Frames
    <2> QED
      BY <1>10, <2>1, <2>3, StepKnown
  <1>12. "self" \in Fills(Steps(r)[i])
    BY <1>9, <1>11 DEF Surely, Fills, StepFits, Ops
  <1> QED
    BY <1>10, <1>12 DEF Gave, r

LEMMA WiredNew == Life /\ Wiring /\ StepNew => Wiring'
  <1> SUFFICES ASSUME Life, Wiring, StepNew PROVE Wiring'
    OBVIOUS
  <1>1. stack # <<>> /\ Top.pc \in 1..Len(Steps(Top.req)) /\ Cur.op = "new"
    BY AtStepIs DEF StepNew
  <1>2. CASE \E b \in 1..MaxBlocks :
            /\ Fresh(b, DOMAIN heap)
            /\ heap' = Stored(heap, b, Record(Cur.kind, 0, Top.req))
            /\ ptr' = {IF p.by = Me THEN Pointer(Block(b), p.at, p.to) ELSE p : p \in ptr}
                          \cup {Pointer(Me, "self", b)}
            /\ Advance /\ UNCHANGED call
    <2> DEFINE r == Top.req
               g == [Top EXCEPT !.pc = @ + 1]
               n == Depth
    <2>1. PICK b : /\ b \notin DOMAIN heap
                   /\ heap' = Stored(heap, b, Record(Cur.kind, 0, r))
                   /\ ptr' = Taken(ptr, n, b) /\ Advance
      BY <1>2 DEF Fresh, Taken, Moved, Own, Me
    <2>2. /\ \E S : stack \in Seq(S)
          /\ Frames(Top) /\ Depth \in Nat \ {0} /\ Sound(heap, ptr, Depth)
          /\ AtWork(heap, ptr, Top, Depth, call) /\ r.maker # "stft"
          /\ \A p \in ptr : p.to \in DOMAIN heap /\ Holding(heap, p.by, Depth)
      BY <1>1, Standing, NotStft DEF Sound
    <2>3. FrameOk(heap, ptr, Top, Depth) /\ Links(heap, ptr)
      BY <2>2 DEF Wiring, Wired, Top, Depth
    <2>4. /\ g.req = r /\ g.pc = Top.pc + 1 /\ Top.pc # 0 /\ Len(Steps(r)) \in Nat
      BY <1>1, <2>2, NextGave, StepKnown
    <2>5. ~Gave(Top, "self")
      <3>1. "self" \in Fills(Cur)
        BY <1>1 DEF Fills
      <3> QED
        BY <1>1, <2>2, <3>1, StepKnown DEF Cur
    <2>6. \A p \in ptr : p.by = Frame(n) => p.at # "self"
      BY <2>2, <2>5 DEF AtWork, Holds
    <2>7. Parts(heap, ptr, Frame(n), r, Top.pc)
      BY <2>3, <2>4, <2>6 DEF FrameOk, OwnSelf, Holds
    <2>8. \A x \in Behind(r, Top.pc) : x.op # "use"
      BY <1>1, <2>2, <2>5, NoKernelYet
    <2>9. /\ heap'[b].req = r /\ heap'[b].fn = "none"
          /\ \A a \in DOMAIN heap : heap'[a] = heap[a]
      <3> DEFINE x == Record(Cur.kind, 0, r)
      <3>1. x.req = r /\ x.fn = "none"
        BY DEF Record
      <3>2. heap' = Stored(heap, b, x)
        BY <2>1
      <3> HIDE DEF x
      <3> QED
        BY <2>1, <3>1, <3>2 DEF Stored
    <2>10. \A o : o \in ptr' <=> \/ o \in ptr /\ o.by # Frame(n)
                                 \/ \E p \in ptr : p.by = Frame(n) /\ o = Moved(b, p)
                                 \/ o = Own(n, b)
      BY <2>1 DEF Taken
    <2>11. \A p \in ptr : p.by # Block(b)
      BY <2>1, <2>2, Holders DEF Holding
    <2> HIDE DEF r, g, n
    <2>12. \A p : OwnSelf(ptr', n, p) <=> p = Own(n, b)
      BY <2>10, MovedPointer, OwnPointer, Holders DEF OwnSelf, Holds
    <2> DEFINE X == {Frame(n), Block(b)}
    <2>13. Local(heap, ptr, heap', ptr', X)
      <3>1. \A by : by \notin X => Unmoved(heap, ptr, heap', ptr', by)
        BY <2>2, <2>9, <2>10, MovedPointer, OwnPointer DEF Unmoved
      <3>2. \A p \in ptr : Block(p.to) \in X => p.by \in X
        BY <2>1, <2>2, Holders
      <3> QED
        BY <2>9, <3>1, <3>2 DEF Local
    <2>14. ASSUME NEW p \in ptr', p.by \in X, Leads(heap', p) PROVE Whole(heap', ptr', p.to)
      <3>1. p # Own(n, b)
        BY <2>14, OwnPointer DEF Leads
      <3>2. PICK o \in ptr : o.by = Frame(n) /\ p = Moved(b, o)
        BY <2>10, <2>11, <2>14, <3>1
      <3>3. o.to = p.to /\ o.to \in DOMAIN heap /\ heap'[o.to] = heap[o.to]
        BY <2>2, <2>9, <3>2, MovedPointer
      <3>4. Leads(heap, o)
        BY <2>6, <2>14, <3>2, <3>3, Holders DEF Leads
      <3>5. Whole(heap, ptr, o.to)
        BY <2>3, <3>4 DEF Links
      <3>6. Block(o.to) \notin X
        BY <2>1, <3>3, Holders
      <3> HIDE DEF X
      <3> QED
        BY <2>2, <2>3, <2>13, <3>3, <3>5, <3>6, LinksElsewhere
    <2>15. FrameOk(heap', ptr', g, n)
      <3>1. \A o \in ptr' : o.by = Block(b) => Keeps(heap, ptr, Frame(n), heap', ptr', Block(b), o)
        <4> SUFFICES ASSUME NEW o \in ptr', o.by = Block(b)
                     PROVE  Keeps(heap, ptr, Frame(n), heap', ptr', Block(b), o)
          OBVIOUS
        <4>1. PICK p \in ptr : p.by = Frame(n) /\ o = Moved(b, p)
          BY <2>10, <2>11, OwnPointer, Holders
        <4> QED
          BY <2>2, <2>9, <4>1, MovedPointer DEF Keeps
      <3>2. Passes(ptr, Frame(n), ptr', Block(b))
        BY <2>10, MovedPointer DEF Passes, Present
      <3>3. Firm(Cur) = {}
        BY <1>1 DEF Firm
      <3>10. Tables(ptr, Frame(n), ptr', Block(b), Cur)
        BY <3>1, NothingNew
      <3>4. Grows(heap, ptr, Frame(n), heap', ptr', Block(b), Steps(r)[Top.pc])
        BY <3>1, <3>2, <3>3, <3>10 DEF Grows, Cur, r
      <3>5. Parts(heap', ptr', Block(b), r, Top.pc + 1)
        BY <1>1, <2>4, <2>7, <3>4, PartsGrow DEF r
      <3>6. \A x \in Behind(r, Top.pc + 1) : x.op # "use"
        BY <1>1, <2>4, <2>8, BehindNext DEF Cur, r
      <3>7. Knows(heap', ptr', b, r, Top.pc + 1)
        BY <2>9, <3>6 DEF Knows
      <3>8. Building(heap', ptr', b, g)
        BY <2>2, <2>4, <2>9, <3>5, <3>7 DEF Building
      <3>9. Own(n, b).to = b
        BY OwnPointer
      <3> QED
        BY <2>12, <3>8, <3>9 DEF FrameOk
    <2>16. \A j \in 1..Len(stack) - 1 : Frame(j) \notin X
      <3> TAKE j \in 1..Len(stack) - 1
      <3>1. j # n
        BY <2>2 DEF Depth, n
      <3> QED
        BY <3>1, Holders
    <2>17. g = [stack[Len(stack)] EXCEPT !.pc = stack[Len(stack)].pc + 1]
      BY DEF Top, Depth, g
    <2>18. Wired(heap', ptr', [stack EXCEPT ![Len(stack)].pc = stack[Len(stack)].pc + 1])
      <3>1. FrameOk(heap', ptr', [stack[Len(stack)] EXCEPT !.pc = stack[Len(stack)].pc + 1],
                    Len(stack))
        BY <2>15, <2>17 DEF Depth, n
      <3>2. \A p \in ptr' : p.by \in X /\ Leads(heap', p) => Whole(heap', ptr', p.to)
        BY <2>14
      <3>3. \A p \in ptr : p.to \in DOMAIN heap
        BY <2>2
      <3> HIDE DEF X
      <3> QED
        BY <1>1, <2>2, <2>13, <2>16, <3>1, <3>2, <3>3, TopRewired DEF Wiring
    <2> QED
      BY <2>1, <2>18 DEF Wiring, Advance, Depth
  <1>3. CASE /\ stack' = [stack EXCEPT ![Depth].pc = 0]
             /\ ptr' = GiveUp(Depth)
             /\ call' = [call EXCEPT !.told = @ \/ Cur.tells, !.denied = TRUE]
             /\ UNCHANGED heap
    BY <1>1, <1>3, WiredFails
  <1> QED
    BY <1>2, <1>3 DEF StepNew

(* A constructor begins.                                                   *)
LEMMA WiredPushes ==
    ASSUME NEW h, NEW q, NEW s, NEW r, \E S : s \in Seq(S), Wired(h, q, s), Sound(h, q, Len(s))
    PROVE  Wired(h, q, Append(s, [req |-> r, pc |-> 1]))
  <1> DEFINE f == [req |-> r, pc |-> 1]
             n == Len(s)
             s2 == Append(s, f)
  <1>1. PICK S : s \in Seq(S)
    OBVIOUS
  <1>2. f.req = r /\ f.pc = 1
    OBVIOUS
  <1> HIDE DEF f
  <1>3. /\ s \in Seq(S \cup {f}) /\ n \in Nat
    BY <1>1
  <1>4. /\ Len(s2) = n + 1 /\ s2[n + 1] = f /\ \A k \in 1..n : s2[k] = s[k]
    BY <1>3
  <1> HIDE DEF n, s2
  <1>5. \A p \in q : p.by # Frame(n + 1)
    <2>1. \A k \in 1..n : k # n + 1
      BY <1>3
    <2> QED
      BY <2>1, Holders DEF Sound, Holding, n
  <1>6. 1..f.pc - 1 = {}
    BY <1>2
  <1>7. Behind(f.req, f.pc) = {}
    BY <1>6 DEF Behind
  <1>8. Parts(h, q, Frame(n + 1), f.req, f.pc)
    BY <1>5, <1>7 DEF Parts, Filled, Present
  <1>9. FrameOk(h, q, f, n + 1)
    BY <1>5, <1>8 DEF FrameOk, OwnSelf, Holds
  <1>10. 1..n + 1 = (1..n) \cup {n + 1}
    BY <1>3
  <1>11. \A k \in 1..n + 1 : FrameOk(h, q, s2[k], k)
    BY <1>4, <1>9, <1>10 DEF Wired, n
  <1>12. Wired(h, q, s2)
    BY <1>4, <1>11 DEF Wired
  <1> QED
    BY <1>12 DEF s2, f

LEMMA WiredMake == Life /\ Wiring /\ StepMake => Wiring'
  <1> SUFFICES ASSUME Life, Wiring, StepMake PROVE Wiring'
    OBVIOUS
  <1>1. stack # <<>> /\ Top.pc \in 1..Len(Steps(Top.req)) /\ Cur.op = "make"
    BY AtStepIs DEF StepMake
  <1>2. CASE /\ Accepts(Cur.req)
             /\ stack' = Append(stack, [req |-> Cur.req, pc |-> 1])
             /\ UNCHANGED <<heap, ptr, call>>
    <2>1. (\E S : stack \in Seq(S)) /\ Sound(heap, ptr, Len(stack))
      BY <1>1, Standing DEF Depth
    <2>2. Wired(heap, ptr, Append(stack, [req |-> Cur.req, pc |-> 1]))
      BY <2>1, WiredPushes DEF Wiring
    <2> QED
      BY <1>2, <2>2 DEF Wiring
  <1>3. CASE Fail(TRUE)
    BY <1>1, <1>3, WiredFails DEF Fail
  <1> QED
    BY <1>2, <1>3 DEF StepMake

(* A constructor returns with nothing.                                     *)
LEMMA WiredLeaves ==
    ASSUME NEW h, NEW q, NEW s, \E S : s \in Seq(S), s # <<>>, Wired(h, q, s)
    PROVE  Wired(h, q, Shorter(s))
  <1>1. /\ Len(s) \in Nat \ {0} /\ Len(Shorter(s)) = Len(s) - 1
        /\ \A k \in 1..Len(s) - 1 : Shorter(s)[k] = s[k]
    BY ShorterIs
  <1>2. \A k \in 1..Len(s) - 1 : FrameOk(h, q, Shorter(s)[k], k)
    <2> TAKE k \in 1..Len(s) - 1
    <2>1. k \in 1..Len(s)
      BY <1>1
    <2> QED
      BY <1>1, <2>1 DEF Wired
  <1> QED
    BY <1>1, <1>2 DEF Wired

(* The frame below the one on top.                                         *)
LEMMA OuterKnown ==
    ASSUME Life, stack # <<>>, Depth # 1
    PROVE  /\ Depth - 1 \in 1..Depth /\ Depth > 1 /\ Frames(Outer) /\ Waits(Outer, Top)
           /\ AtWork(heap, ptr, Outer, Depth - 1, call)
  <1>1. Depth \in Nat \ {0}
    BY Standing
  <1>2. Depth - 1 \in 1..Depth /\ Depth - 1 \in 1..Depth - 1 /\ Depth - 1 + 1 = Depth
    BY <1>1
  <1>3. \A k \in 1..Depth : AtWork(heap, ptr, stack[k], k, call)
    BY DEF Life, LifeInv, CoreInv, Depth
  <1>4. AtWork(heap, ptr, stack[Depth - 1], Depth - 1, call)
    BY <1>2, <1>3
  <1>5. \A k \in 1..Depth - 1 : Waits(stack[k], stack[k + 1])
    BY DEF Life, LifeInv, CoreInv, Nested, Depth
  <1>6. Waits(stack[Depth - 1], stack[Depth])
    BY <1>2, <1>5
  <1> QED
    BY <1>1, <1>2, <1>4, <1>6 DEF AtWork, Outer, Top

LEMMA WiredReturnNull == Life /\ Wiring /\ ReturnNull => Wiring'
  <1> SUFFICES ASSUME Life, Wiring, ReturnNull PROVE Wiring'
    OBVIOUS
  <1>1. stack # <<>> /\ heap' = heap
    BY DEF ReturnNull
  <1>2. /\ Depth \in Nat \ {0} /\ \E S : stack \in Seq(S)
        /\ \A p \in ptr : p.to \in DOMAIN heap
    BY <1>1, Standing DEF Sound
  <1>3. Wired(heap, ptr, Shorter(stack))
    BY <1>1, <1>2, WiredLeaves DEF Wiring
  <1>4. CASE Depth = 1
    <2>1. stack' = <<>> /\ ptr' = ptr
      BY <1>4 DEF ReturnNull
    <2>2. Shorter(stack) = <<>>
      BY <1>1, <1>2, <1>4, ShorterIs DEF Depth
    <2> QED
      BY <1>1, <1>3, <2>1, <2>2 DEF Wiring
  <1>5. CASE Depth # 1
    <2>1. /\ stack' = [SubSeq(stack, 1, Depth - 1) EXCEPT ![Depth - 1].pc = 0]
          /\ ptr' = GiveUp(Depth - 1)
      BY <1>5 DEF ReturnNull
    <2>2. Frames(Outer) /\ Depth > 1 /\ Depth - 1 \in 1..Depth - 1
      BY <1>1, <1>2, <1>5, OuterKnown
    <2>3. Len(stack) > 1 /\ Len(stack) - 1 \in 1..Len(stack) - 1
      BY <2>2 DEF Depth
    <2>4. /\ \E S : Shorter(stack) \in Seq(S)
          /\ Shorter(stack) # <<>> /\ Len(Shorter(stack)) = Depth - 1
          /\ Shorter(stack)[Depth - 1] = Outer
      BY <1>1, <1>2, <2>3, ShorterIs DEF Depth, Outer
    <2>5. Outer = [req |-> Outer.req, pc |-> Outer.pc]
      BY <2>2 DEF Frames
    <2> DEFINE t == Shorter(stack)
    <2>6. t = SubSeq(stack, 1, Depth - 1)
      BY DEF Shorter, Depth
    <2>7. /\ \E S : t \in Seq(S)
          /\ t # <<>> /\ Len(t) = Depth - 1 /\ t[Len(t)] = Outer /\ Wired(heap, ptr, t)
      BY <1>3, <2>4
    <2> HIDE DEF t
    <2>8. t[Len(t)] = [req |-> t[Len(t)].req, pc |-> t[Len(t)].pc]
      BY <2>5, <2>7
    <2>9. Wired(heap, Abandoned(ptr, Len(t)), [t EXCEPT ![Len(t)].pc = 0])
      BY <1>2, <2>7, <2>8, WiredAbandons
    <2> QED
      BY <1>1, <2>1, <2>6, <2>7, <2>9, Given1 DEF Wiring
  <1> QED
    BY <1>4, <1>5

(* A constructor returns what it made: that is whole.                      *)
LEMMA Finished ==
    ASSUME NEW h, NEW q, NEW f, NEW b, Frames(f), f.pc = Len(Steps(f.req)) + 1,
           Building(h, q, b, f), h[b].kind = Kind(f.req)
    PROVE  Whole(h, q, b) /\ (f.req.maker # "stft" => h[b].req = f.req)
  <1>1. CASE f.req.maker = "stft"
    BY <1>1 DEF Building
  <1>2. CASE f.req.maker # "stft"
    <2> DEFINE r == f.req
    <2>1. /\ h[b].req = r /\ Parts(h, q, Block(b), r, f.pc) /\ Knows(h, q, b, r, f.pc)
      BY <1>2 DEF Building
    <2>2. Base(r) = r /\ Ending(r) = f.pc /\ Accepts(r)
      BY <1>2 DEF Base, Ending, Frames
    <2> HIDE DEF r
    <2>3. Whole(h, q, b)
      BY <1>2, <2>1, <2>2 DEF Whole, Parts, r
    <2> QED
      BY <2>1, <2>3 DEF r
  <1> QED
    BY <1>1, <1>2

(* The steps that make a transform know what they get.                     *)
LEMMA WaitsFor ==
    ASSUME NEW f, NEW g, Frames(f), Frames(g), Waits(f, g)
    PROVE  LET step == Steps(f.req)[f.pc]
           IN  /\ g.req.maker \in {"fft", "rfft", "bank"} /\ step.req = g.req
               /\ step.op = "make"
               /\ step.at = "self" => f.req.maker = "stft" /\ g.req = Base(f.req) /\ f.pc = 1
               /\ step.at # "self" => f.req.maker # "stft" /\ Firm(step) = {step.at}
  <1> DEFINE step == Steps(f.req)[f.pc]
  <1>1. f.pc \in 1..Len(Steps(f.req)) /\ step.op = "make" /\ step.req = g.req
    BY DEF Waits
  <1>2. StepFits(step, f.req)
    BY Receives
  <1>3. step.at = "self" => f.req.maker = "stft" /\ f.pc = 1
    BY Receives
  <1>4. f.req.maker = "stft" => step = Make("self", Base(f.req))
    <2>1. \A b : WindowTable(b).op # "make"
      BY StepKinds
    <2> QED
      BY <1>1, <2>1, StftStep
  <1>5. Make("self", Base(f.req)).at = "self" /\ Make("self", Base(f.req)).req = Base(f.req)
    BY StepKinds
  <1> HIDE DEF step
  <1>6. Firm(step) = {step.at} /\ g.req.maker \in {"fft", "rfft", "bank"}
    BY <1>1, <1>2 DEF Firm, StepFits
  <1> QED
    BY <1>1, <1>3, <1>4, <1>5, <1>6 DEF step

(* It goes to the constructor that called, as its object, ...              *)
LEMMA BecomesWired ==
    ASSUME NEW h, NEW q, NEW q2, NEW f, NEW g, NEW k, NEW x, NEW c, AtWork(h, q, f, k, c),
           f.pc = 1, f.pc \in 1..Len(Steps(f.req)), g = [f EXCEPT !.pc = @ + 1],
           Adds(Without(q, k + 1), q2, x),
           x.by = Frame(k), x.at = "self", f.req.maker = "stft",
           h[x.to].req = Base(f.req), Whole(h, q2, x.to)
    PROVE  FrameOk(h, q2, g, k)
  <1>1. g.req = f.req
    BY NextGave DEF AtWork
  <1>2. 1..f.pc - 1 = {}
    OBVIOUS
  <1>3. \A p : ~Holds(q, k, p)
    BY <1>2 DEF AtWork, Gave
  <1>4. \A p : OwnSelf(q2, k, p) <=> p = x
    BY <1>3 DEF Adds, Without, OwnSelf, Holds
  <1>5. Building(h, q2, x.to, g)
    BY <1>1 DEF Building
  <1> QED
    BY <1>4, <1>5 DEF FrameOk

(* ... in a local variable, ...                                            *)
LEMMA LocalWired ==
    ASSUME NEW h, NEW q, NEW q2, NEW f, NEW g, NEW k, NEW x,
           Frames(f), f.pc \in 1..Len(Steps(f.req)), g = [f EXCEPT !.pc = @ + 1],
           FrameOk(h, q, f, k), \A p : ~OwnSelf(q, k, p), k # k + 1,
           Adds(Without(q, k + 1), q2, x), x.by = Frame(k), x.at # "self",
           Fit(h, Steps(f.req)[f.pc], x), Firm(Steps(f.req)[f.pc]) = {x.at},
           Steps(f.req)[f.pc].op = "make"
    PROVE  FrameOk(h, q2, g, k)
  <1>1. g.req = f.req /\ g.pc = f.pc + 1 /\ Len(Steps(f.req)) \in Nat
    BY NextGave, StepKnown
  <1>2. \A o : o.by = Frame(k) => (o \in q2 <=> o \in q \/ o = x)
    BY Holders DEF Adds, Without
  <1>3. \A p : ~OwnSelf(q2, k, p)
    BY <1>2 DEF OwnSelf, Holds
  <1>4. Parts(h, q, Frame(k), f.req, f.pc)
    <2>1. f.pc # 0
      BY <1>1
    <2> QED
      BY <2>1 DEF FrameOk
  <1>5. Grows(h, q, Frame(k), h, q2, Frame(k), Steps(f.req)[f.pc])
    <2>1. \A o \in q2 : o.by = Frame(k) =>
              Keeps(h, q, Frame(k), h, q2, Frame(k), o) \/ Fit(h, Steps(f.req)[f.pc], o)
      BY <1>2 DEF Keeps
    <2>2. Passes(q, Frame(k), q2, Frame(k))
      BY <1>2 DEF Passes, Present
    <2>3. Present(q2, Frame(k), x.at)
      BY DEF Present, Adds
    <2>4. Tables(q, Frame(k), q2, Frame(k), Steps(f.req)[f.pc])
      BY <2>1, NoCodeMade
    <2> QED
      BY <2>1, <2>2, <2>3, <2>4 DEF Grows
  <1>6. Parts(h, q2, Frame(k), f.req, f.pc + 1)
    BY <1>1, <1>4, <1>5, PartsGrow
  <1> QED
    BY <1>1, <1>3, <1>6 DEF FrameOk

(* ... or in a field of its object v.                                      *)
LEMMA FieldWired ==
    ASSUME NEW h, NEW q, NEW q2, NEW f, NEW g, NEW k, NEW x, NEW v,
           Frames(f), f.pc \in 1..Len(Steps(f.req)), g = [f EXCEPT !.pc = @ + 1],
           FrameOk(h, q, f, k), OwnSelf(q, k, v), \A o : Holds(q, k, o) => o = v, k # k + 1,
           f.req.maker # "stft", Steps(f.req)[f.pc].op = "make",
           Adds(Without(q, k + 1), q2, x), x.by = Block(v.to), x.at # "self",
           Fit(h, Steps(f.req)[f.pc], x), Firm(Steps(f.req)[f.pc]) = {x.at}
    PROVE  FrameOk(h, q2, g, k)
  <1>1. \A o : o.by = Block(v.to) => (o \in q2 <=> o \in q \/ o = x)
    BY Holders DEF Adds, Without
  <1>2. \A o : o.by = Frame(k) => (o \in q2 <=> o \in q)
    BY Holders DEF Adds, Without
  <1>3. \A p : OwnSelf(q2, k, p) <=> p = v
    BY <1>2 DEF OwnSelf, Holds
  <1>4. \A o \in q2 : o.by = Block(v.to) =>
            Keeps(h, q, Block(v.to), h, q2, Block(v.to), o) \/ Fit(h, Steps(f.req)[f.pc], o)
    BY <1>1 DEF Keeps
  <1>5. Passes(q, Block(v.to), q2, Block(v.to))
    BY <1>1 DEF Passes, Present
  <1>6. Present(q2, Block(v.to), x.at)
    BY DEF Present, Adds
  <1>9. Tables(q, Block(v.to), q2, Block(v.to), Steps(f.req)[f.pc])
    BY <1>4, NoCodeMade
  <1>7. Grows(h, q, Block(v.to), h, q2, Block(v.to), Steps(f.req)[f.pc])
    BY <1>4, <1>5, <1>6, <1>9 DEF Grows
  <1>8. Tells(h, q, v.to, h, q2, v.to, Steps(f.req)[f.pc])
    BY <1>5 DEF Tells, Passes
  <1> QED
    BY <1>3, <1>7, <1>8, FrameGrows

(* The change of the pointers.                                             *)
LEMMA HandedLocally ==
    ASSUME NEW h, NEW q, NEW q2, NEW m, NEW u, NEW x, NEW by, m \in Nat,
           Sound(h, q, m + 1), Single(q), Links(h, q), OwnSelf(q, m + 1, u),
           \A o : Holds(q, m + 1, o) => o = u, Whole(h, q, u.to),
           Adds(Without(q, m + 1), q2, x), x.to = u.to, x.by = by,
           by = Frame(m) \/ by = Caller \/ \E v : OwnSelf(q, m, v) /\ by = Block(v.to)
    PROVE  /\ Local(h, q, h, q2, {Frame(m + 1), by, Frame(m)})
           /\ \A p \in q2 : p.by \in {Frame(m + 1), by, Frame(m)} /\ Leads(h, p)
                                => Whole(h, q2, p.to)
           /\ Whole(h, q2, u.to)
  <1> DEFINE X == {Frame(m + 1), by, Frame(m)}
  <1>1. /\ \A p \in q : p.by # Frame(m + 1) => p \in q2
        /\ x \in q2 /\ \A p \in q2 : (p \in q /\ p.by # Frame(m + 1)) \/ p = x
    BY DEF Adds, Without
  <1>2. u \in q /\ u.by = Frame(m + 1) /\ \A p \in q : p.to \in DOMAIN h
    BY DEF OwnSelf, Holds, Sound
  <1>3. ASSUME NEW p \in q, Block(p.to) \in X
        PROVE  p.by = Frame(m) /\ p.at = "self"
    <2>1. PICK v : OwnSelf(q, m, v) /\ Block(p.to) = Block(v.to)
      BY <1>3, Holders
    <2>2. p = v
      BY <2>1, Holders DEF Single, OwnSelf, Holds
    <2> QED
      BY <2>1, <2>2 DEF OwnSelf, Holds
  <1>4. Local(h, q, h, q2, X)
    <2>1. \A b : b \notin X => Unmoved(h, q, h, q2, b)
      BY <1>1 DEF Unmoved
    <2> QED
      BY <1>3, <2>1 DEF Local
  <1>5. m # m + 1
    OBVIOUS
  <1>6. Block(u.to) \notin X
    BY <1>2, <1>3, <1>5, Holders
  <1> HIDE DEF X
  <1>7. Whole(h, q2, u.to)
    BY <1>2, <1>4, <1>6, LinksElsewhere
  <1>8. ASSUME NEW p \in q2, p.by \in X, Leads(h, p) PROVE Whole(h, q2, p.to)
    <2>1. CASE p = x
      BY <1>7, <2>1
    <2>2. CASE p \in q
      <3>1. Whole(h, q, p.to)
        BY <1>8, <2>2 DEF Links
      <3>2. Block(p.to) \notin X
        BY <1>3, <1>8, <2>2 DEF Leads
      <3> QED
        BY <1>2, <1>4, <2>2, <3>1, <3>2, LinksElsewhere
    <2> QED
      BY <1>1, <2>1, <2>2
  <1> QED
    BY <1>4, <1>7, <1>8 DEF X

LEMMA WiredReturnMade == Life /\ Wiring /\ ReturnMade => Wiring'
  <1> SUFFICES ASSUME Life, Wiring, ReturnMade PROVE Wiring'
    OBVIOUS
  <1>1. stack # <<>> /\ Top.pc = Len(Steps(Top.req)) + 1 /\ heap' = heap
    BY DEF ReturnMade
  <1>2. /\ Depth \in Nat \ {0} /\ \E S : stack \in Seq(S)
        /\ Frames(Top) /\ AtWork(heap, ptr, Top, Depth, call)
        /\ Sound(heap, ptr, Depth) /\ Single(ptr)
        /\ \A p \in ptr : p.to \in DOMAIN heap
    BY <1>1, Standing DEF Sound
  <1>3. PICK u : OwnSelf(ptr, Depth, u) /\ Self = u.to
    BY <1>1, <1>2, StepKnown, SelfKnown
  <1>4. (\A o : Holds(ptr, Depth, o) => o = u) /\ heap[u.to].kind = Kind(Top.req)
    BY <1>2, <1>3 DEF AtWork
  <1>5. Links(heap, ptr) /\ FrameOk(heap, ptr, Top, Depth)
    BY <1>2 DEF Wiring, Wired, Top, Depth
  <1>6. Whole(heap, ptr, u.to) /\ (Top.req.maker # "stft" => heap[u.to].req = Top.req)
    <2>1. Top.pc # 0
      BY <1>1, <1>2, StepKnown
    <2>2. Building(heap, ptr, u.to, Top)
      BY <1>3, <1>5, <2>1 DEF FrameOk
    <2> QED
      BY <1>1, <1>2, <1>4, <2>2, Finished
  <1> DEFINE m == Depth - 1
  <1>7. m \in Nat /\ m + 1 = Depth
    BY <1>2
  <1>8. Wired(heap, ptr, Shorter(stack))
    BY <1>1, <1>2, WiredLeaves DEF Wiring
  <1> HIDE DEF m
  <1>9. ASSUME NEW x, ptr' = Delivered(ptr, Depth, x) PROVE Adds(Without(ptr, m + 1), ptr', x)
    BY <1>7, <1>9 DEF Adds, Without, Delivered
  <1>10. CASE Depth = 1
    <2> DEFINE x == Pointer(Caller, "handle", u.to)
    <2>1. stack' = <<>> /\ ptr' = Delivered(ptr, Depth, x)
      BY <1>3, <1>10 DEF ReturnMade, Receiver, Delivered, Me
    <2>2. x.by = Caller /\ x.to = u.to
      BY Pointers
    <2> HIDE DEF x
    <2>3. /\ Local(heap, ptr, heap, ptr', {Frame(m + 1), Caller, Frame(m)})
          /\ \A p \in ptr' : p.by \in {Frame(m + 1), Caller, Frame(m)} /\ Leads(heap, p)
                                => Whole(heap, ptr', p.to)
      BY <1>2, <1>3, <1>4, <1>5, <1>6, <1>7, <1>9, <2>1, <2>2, HandedLocally
    <2>4. Links(heap, ptr')
      BY <1>2, <1>5, <2>3, LinksElsewhere DEF Links
    <2>5. Len(<<>>) = 0 /\ 1..0 = {}
      OBVIOUS
    <2>6. Wired(heap, ptr', <<>>)
      BY <2>4, <2>5 DEF Wired
    <2> QED
      BY <1>1, <2>1, <2>6 DEF Wiring
  <1>11. CASE Depth # 1
    <2> DEFINE f == Outer
               g == [Outer EXCEPT !.pc = @ + 1]
               step == OuterStep
               by == Receiver
               x == Pointer(by, step.at, u.to)
               t == Shorter(stack)
    <2>1. /\ stack' = [SubSeq(stack, 1, Depth - 1) EXCEPT ![Depth - 1].pc = @ + 1]
          /\ ptr' = Delivered(ptr, Depth, x)
      BY <1>3, <1>11 DEF ReturnMade, Delivered, Me
    <2>2. /\ Frames(f) /\ Waits(f, Top) /\ AtWork(heap, ptr, f, m, call) /\ Depth > 1
      BY <1>1, <1>11, OuterKnown DEF m
    <2>3. step = Steps(f.req)[f.pc] /\ f.pc \in 1..Len(Steps(f.req))
      BY <2>2 DEF OuterStep, Waits
    <2>4. /\ Top.req.maker \in {"fft", "rfft", "bank"} /\ step.req = Top.req
          /\ step.op = "make"
          /\ step.at = "self" => f.req.maker = "stft" /\ Top.req = Base(f.req) /\ f.pc = 1
          /\ step.at # "self" => f.req.maker # "stft" /\ Firm(step) = {step.at}
      BY <1>2, <2>2, <2>3, WaitsFor
    <2>5. x.by = by /\ x.at = step.at /\ x.to = u.to
      BY Pointers
    <2>6. Fit(heap, step, x)
      BY <1>4, <1>6, <2>4, <2>5 DEF Fit
    <2>7. \/ step.at = "self" /\ by = Frame(m)
          \/ step.at # "self" /\ by = Frame(m) /\ \A p : ~OwnSelf(ptr, m, p)
          \/ step.at # "self" /\ \E v : OwnSelf(ptr, m, v) /\ by = Block(v.to)
      <3>1. CASE step.at = "self"
        BY <1>11, <3>1 DEF Receiver, m
      <3>2. CASE step.at # "self" /\ Points(Frame(m), "self")
        <4>1. PICK v \in ptr : /\ v.by = Frame(m) /\ v.at = "self"
                               /\ Target(Frame(m), "self") = v.to
          BY <3>2, Looked
        <4> QED
          BY <1>11, <3>2, <4>1 DEF Receiver, OwnSelf, Holds, m
      <3>3. CASE step.at # "self" /\ ~Points(Frame(m), "self")
        BY <1>11, <3>3 DEF Receiver, Points, OwnSelf, Holds, m
      <3> QED
        BY <3>1, <3>2, <3>3
    <2>8. /\ \E S : t \in Seq(S)
          /\ t # <<>> /\ Len(t) = m /\ t[m] = f /\ FrameOk(heap, ptr, f, m)
      <3>1. Len(stack) > 1 /\ m \in 1..Len(stack) - 1 /\ m = Len(stack) - 1
        BY <1>7, <2>2 DEF Depth
      <3>2. /\ \E S : t \in Seq(S)
            /\ t # <<>> /\ Len(t) = m /\ t[m] = stack[m]
        BY <1>1, <1>2, <3>1, ShorterIs
      <3>3. FrameOk(heap, ptr, t[m], m)
        BY <1>8, <3>1, <3>2 DEF Wired
      <3> QED
        BY <3>2, <3>3 DEF Outer, m
    <2>14. t = SubSeq(stack, 1, Depth - 1)
      BY DEF Shorter, Depth
    <2>15. g = [f EXCEPT !.pc = f.pc + 1]
      OBVIOUS
    <2> HIDE DEF x, f, g, step, by, t
    <2>9. Adds(Without(ptr, m + 1), ptr', x)
      BY <1>9, <2>1
    <2>10. by = Frame(m) \/ by = Caller \/ \E v : OwnSelf(ptr, m, v) /\ by = Block(v.to)
      BY <2>7
    <2>11. /\ Local(heap, ptr, heap, ptr', {Frame(m + 1), by, Frame(m)})
           /\ \A p \in ptr' : p.by \in {Frame(m + 1), by, Frame(m)} /\ Leads(heap, p)
                                 => Whole(heap, ptr', p.to)
           /\ Whole(heap, ptr', u.to)
      BY <1>2, <1>3, <1>4, <1>5, <1>6, <1>7, <2>5, <2>9, <2>10, HandedLocally
    <2>12. FrameOk(heap, ptr', g, m)
      <3>1. CASE step.at = "self" /\ by = Frame(m)
        <4>1. heap[x.to].req = Base(f.req) /\ Whole(heap, ptr', x.to)
          BY <1>6, <2>4, <2>5, <2>11, <3>1
        <4> QED
          BY <2>2, <2>3, <2>4, <2>5, <2>9, <2>15, <3>1, <4>1, BecomesWired
      <3>2. CASE step.at # "self" /\ by = Frame(m) /\ \A p : ~OwnSelf(ptr, m, p)
        <4>1. /\ x.by = Frame(m) /\ x.at # "self" /\ Fit(heap, Steps(f.req)[f.pc], x)
              /\ Firm(Steps(f.req)[f.pc]) = {x.at} /\ Steps(f.req)[f.pc].op = "make"
          BY <2>2, <2>3, <2>4, <2>5, <2>6, <3>2
        <4>2. m # m + 1
          BY <1>7
        <4> HIDE DEF m
        <4> QED
          BY <2>2, <2>3, <2>8, <2>9, <2>15, <3>2, <4>1, <4>2, LocalWired
      <3>3. CASE step.at # "self" /\ \E v : OwnSelf(ptr, m, v) /\ by = Block(v.to)
        <4>1. PICK v : OwnSelf(ptr, m, v) /\ by = Block(v.to)
          BY <3>3
        <4>2. \A o : Holds(ptr, m, o) => o = v
          BY <2>2, <4>1 DEF AtWork
        <4> QED
          BY <1>7, <2>2, <2>3, <2>4, <2>5, <2>6, <2>8, <2>9, <2>15, <3>3, <4>1, <4>2, FieldWired
      <3> QED
        BY <2>7, <3>1, <3>2, <3>3
    <2>13. Wired(heap, ptr', [t EXCEPT ![Len(t)].pc = f.pc + 1])
      <3> DEFINE X == {Frame(m + 1), by, Frame(m)}
      <3>1. \A k \in 1..Len(t) - 1 : Frame(k) \notin X
        <4> TAKE k \in 1..Len(t) - 1
        <4>1. k # m /\ k # m + 1
          BY <1>7, <2>8
        <4> QED
          BY <2>10, <4>1, Holders
      <3>2. FrameOk(heap, ptr', [t[Len(t)] EXCEPT !.pc = f.pc + 1], Len(t))
        BY <2>8, <2>12, <2>15
      <3>3. Local(heap, ptr, heap, ptr', X)
        BY <2>11
      <3>4. \A p \in ptr' : p.by \in X /\ Leads(heap, p) => Whole(heap, ptr', p.to)
        BY <2>11
      <3> HIDE DEF X
      <3>5. Wired(heap, ptr, t)
        BY <1>8 DEF t
      <3> QED
        BY <1>2, <2>8, <3>1, <3>2, <3>3, <3>4, <3>5, TopRewired
    <2>16. stack' = [t EXCEPT ![Len(t)].pc = f.pc + 1]
      <3>1. stack' = [t EXCEPT ![m].pc = t[m].pc + 1]
        BY <2>1, <2>14 DEF m
      <3> QED
        BY <2>8, <3>1
    <2> QED
      BY <1>1, <2>13, <2>16 DEF Wiring
  <1> QED
    BY <1>10, <1>11

-----------------------------------------------------------------------------
(* What the caller does, and destroy.                                      *)
LEMMA WiredEnters ==
    ASSUME Life, Wiring, stack = <<>>, NEW r, Enter(r), UNCHANGED <<heap, ptr>>
    PROVE  Wiring'
  <1>1. CASE Accepts(r)
    <2> DEFINE f == [req |-> r, pc |-> 1]
    <2>1. stack' = <<f>>
      BY <1>1 DEF Enter
    <2>2. (\E S : stack \in Seq(S)) /\ Sound(heap, ptr, Len(stack))
      BY DEF Life, LifeInv, CoreInv, Nested
    <2>3. Wired(heap, ptr, Append(stack, f))
      BY <2>2, WiredPushes DEF Wiring
    <2> HIDE DEF f
    <2>4. Append(<<>>, f) = <<f>>
      OBVIOUS
    <2> QED
      BY <2>1, <2>3, <2>4 DEF Wiring
  <1>2. CASE ~Accepts(r)
    BY <1>2 DEF Enter, Wiring
  <1> QED
    BY <1>1, <1>2

(* Without constructors at work, the wiring is that of the transforms.     *)
LEMMA WiredAlone == ASSUME NEW h, NEW q PROVE Wired(h, q, <<>>) <=> Links(h, q)
  <1>1. Len(<<>>) = 0 /\ 1..0 = {}
    OBVIOUS
  <1> QED
    BY <1>1 DEF Wired

LEMMA WiredLetsGo ==
    ASSUME NEW h, NEW q, NEW b, Sound(h, q, 0), Links(h, q)
    PROVE  Links(h, Given(q, b))
  <1> DEFINE q2 == Given(q, b)
             X == {Caller, Destroyer}
  <1>1. /\ \A p \in q : ~(p.by = Caller /\ p.to = b) => p \in q2
        /\ \A o \in q2 : \/ o \in q /\ ~(o.by = Caller /\ o.to = b)
                         \/ \E p \in q : p.by = Caller /\ p.to = b /\ o = Doomed(b)
    BY DEF Given, Doomed
  <1> HIDE DEF q2
  <1>2. \A p \in q : p.to \in DOMAIN h
    BY DEF Sound
  <1>3. Local(h, q, h, q2, X)
    <2>1. \A by : by \notin X => Unmoved(h, q, h, q2, by)
      BY <1>1, DoomedPointer DEF Unmoved
    <2>2. \A c : Block(c) \notin X
      BY Holders
    <2> QED
      BY <2>1, <2>2 DEF Local
  <1>4. \A c : Block(c) \notin X
    BY Holders
  <1>5. \A p \in q2 : Leads(h, p) => p \in q
    BY <1>1, DoomedPointer DEF Leads
  <1> HIDE DEF X
  <1>6. Links(h, q2)
    BY <1>2, <1>3, <1>4, <1>5, LinksElsewhere DEF Links
  <1> QED
    BY <1>6 DEF q2

LEMMA WiredCalls ==
    ASSUME Life, Wiring,
           \/ \E r \in Requests : Create(r)
           \/ \E h \in Handles : CreateInverse(h) \/ Destroy(h)
    PROVE  Wiring'
  <1>1. CASE \E r \in Requests : Create(r)
    BY <1>1, WiredEnters DEF Create, Idle
  <1>2. CASE \E h \in Handles : CreateInverse(h)
    <2>1. PICK h \in Handles : CreateInverse(h)
      BY <1>2
    <2>2. stack = <<>> /\ UNCHANGED <<heap, ptr>>
      BY <2>1 DEF CreateInverse, Idle
    <2>3. CASE Enter(InverseOf(heap[h].req))
      BY <2>2, <2>3, WiredEnters
    <2>4. CASE UNCHANGED stack
      BY <2>2, <2>4 DEF Wiring
    <2> QED
      BY <2>1, <2>3, <2>4 DEF CreateInverse
  <1>3. CASE \E h \in Handles : Destroy(h)
    <2>1. PICK h \in Handles : Destroy(h)
      BY <1>3
    <2>2. stack = <<>> /\ UNCHANGED <<heap, stack, call>> /\ ptr' = Given(ptr, h)
      BY <2>1 DEF Destroy, Idle, Given
    <2>3. Sound(heap, ptr, 0) /\ Links(heap, ptr)
      BY <2>2, Alone, WiredAlone DEF Life, Wiring
    <2> QED
      BY <2>2, <2>3, WiredLetsGo, WiredAlone DEF Wiring
  <1> QED
    BY <1>1, <1>2, <1>3

LEMMA WiredSweeps ==
    ASSUME NEW h, NEW q, NEW s, NEW h2, NEW q2, NEW p, NEW b, \E S : s \in Seq(S),
           Sound(h, q, Len(s)), Single(q), Wired(h, q, s),
           p \in q, p.by = Destroyer, p.to = b, Swept(q, q2, p, b),
           DOMAIN h2 = DOMAIN h \ {b}, \A a \in DOMAIN h2 : h2[a] = h[a]
    PROVE  Wired(h2, q2, s)
  <1> DEFINE X == {Destroyer, Block(b)}
  <1>1. /\ \A o \in q : o = p \/ o.by = Block(b) \/ o \in q2
        /\ \A o \in q2 : \/ o \in q /\ o # p /\ o.by # Block(b)
                         \/ \E u \in q : u.by = Block(b) /\ o = Doomed(u.to)
    BY DEF Swept
  <1>2. \A o \in q : o.to \in DOMAIN h /\ (o # p => o.to # b)
    BY DEF Sound, Single
  <1>3. \A o \in q : o # p => h2[o.to] = h[o.to]
    BY <1>2
  <1>4. Local(h, q, h2, q2, X)
    <2>1. \A by : by \notin X => Unmoved(h, q, h2, q2, by)
      BY <1>1, <1>3, DoomedPointer DEF Unmoved
    <2>2. \A a \in DOMAIN h : Block(a) \notin X => h2[a] = h[a]
      OBVIOUS
    <2>3. \A o \in q : Block(o.to) \in X => o.by \in X
      BY <1>2, Holders
    <2> QED
      BY <2>1, <2>2, <2>3 DEF Local
  <1>5. \A o \in q2 : o.by \in X => ~Leads(h2, o)
    BY <1>1, DoomedPointer DEF Leads
  <1>6. \A k : Frame(k) \notin X
    BY Holders
  <1> HIDE DEF X
  <1>7. Links(h2, q2)
    BY <1>2, <1>4, <1>5, LinksElsewhere DEF Links, Wired
  <1>8. \A k \in 1..Len(s) : FrameOk(h2, q2, s[k], k)
    <2> TAKE k \in 1..Len(s)
    <2> DEFINE f == s[k]
    <2>1. FrameOk(h, q, f, k)
      BY DEF Wired
    <2> HIDE DEF f
    <2>2. FrameOk(h2, q2, f, k)
      BY <1>2, <1>4, <1>6, <2>1, FrameElsewhere
    <2> QED
      BY <2>2 DEF f
  <1> QED
    BY <1>7, <1>8 DEF Wired

LEMMA WiredFrees == Life /\ Wiring /\ Free => Wiring'
  <1> SUFFICES ASSUME Life, Wiring, Free PROVE Wiring'
    OBVIOUS
  <1> DEFINE p == CHOOSE q \in Held(Destroyer) : TRUE
             b == p.to
  <1>1. Held(Destroyer) # {} /\ UNCHANGED <<stack, call>>
    BY DEF Free
  <1>2. p \in Held(Destroyer)
    BY <1>1
  <1>3. /\ heap' = [c \in DOMAIN heap \ {b} |-> heap[c]]
        /\ ptr' = (ptr \ ({p} \cup Held(Block(b))))
                     \cup {Pointer(Destroyer, "", q.to) :
                               q \in {q \in Held(Block(b)) : q.at \in Freed(heap[b].kind)}}
    BY DEF Free
  <1> HIDE DEF p
  <1>4. p \in ptr /\ p.by = Destroyer
    BY <1>2 DEF Held
  <1>5. /\ Sound(heap, ptr, Len(stack)) /\ Single(ptr) /\ Tidy(heap, ptr)
        /\ \E S : stack \in Seq(S)
    BY DEF Life, LifeInv, CoreInv, Nested
  <1>6. {q \in Held(Block(b)) : q.at \in Freed(heap[b].kind)} = Kids(heap, ptr, b)
    BY DEF Kids, Held
  <1>7. ptr' = Remaining(heap, ptr, p, b)
    BY <1>3, <1>6 DEF Remaining, Rid, Held
  <1>8. \A o \in ptr : o.by = Block(b) => o \in Kids(heap, ptr, b)
    BY <1>4, <1>5 DEF Kids, Tidy, Sound
  <1>9. Swept(ptr, ptr', p, b)
    BY <1>7, <1>8 DEF Rid, Doomed, Kids, Swept, Remaining
  <1>10. DOMAIN heap' = DOMAIN heap \ {b} /\ \A a \in DOMAIN heap' : heap'[a] = heap[a]
    BY <1>3
  <1>11. Wired(heap', ptr', stack)
    BY <1>4, <1>5, <1>9, <1>10, WiredSweeps DEF Wiring
  <1> QED
    BY <1>1, <1>11 DEF Wiring

LEMMA WiringInit == Init => Wiring
  <1> SUFFICES ASSUME Init PROVE Wiring
    OBVIOUS
  <1>1. heap = <<>> /\ ptr = {} /\ stack = <<>>
    BY DEF Init
  <1> QED
    BY <1>1, WiredAlone DEF Wiring, Links

LEMMA WiringSteps == Life /\ Wiring /\ [LifeNext]_lifeVars => Wiring'
  <1> SUFFICES ASSUME Life, Wiring, [LifeNext]_lifeVars PROVE Wiring'
    OBVIOUS
  <1>1. CASE \/ \E r \in Requests : Create(r)
             \/ \E h \in Handles : CreateInverse(h) \/ Destroy(h)
    BY <1>1, WiredCalls
  <1>2. CASE Step
    BY <1>2, WiredNew, WiredAlloc, WiredGenerate, WiredCheck, WiredTest, WiredUse,
       WiredMeasure, WiredWindow, WiredMake, WiredReturnMade, WiredReturnNull DEF Step
  <1>3. CASE Free
    BY <1>3, WiredFrees
  <1>4. CASE UNCHANGED lifeVars
    BY <1>4 DEF lifeVars, Wiring
  <1> QED
    BY <1>1, <1>2, <1>3, <1>4 DEF LifeNext

-----------------------------------------------------------------------------
(* What the constructors put where: their steps as a set.                  *)
Listed(s, A) == (\E S : s \in Seq(S)) /\ \A x : (\E j \in 1..Len(s) : s[j] = x) <=> x \in A

LEMMA ListedJoin ==
    ASSUME NEW s, NEW t, NEW A, NEW B, Listed(s, A), Listed(t, B)
    PROVE  Listed(s \o t, A \cup B)
  <1> DEFINE u == s \o t
             m == Len(s)
             n == Len(t)
  <1>1. PICK S : s \in Seq(S)
    BY DEF Listed
  <1>2. PICK T : t \in Seq(T)
    BY DEF Listed
  <1>3. /\ s \in Seq(S \cup T) /\ t \in Seq(S \cup T) /\ m \in Nat /\ n \in Nat
    BY <1>1, <1>2
  <1>4. /\ u \in Seq(S \cup T) /\ Len(u) = m + n
        /\ \A j \in 1..m : u[j] = s[j]
        /\ \A j \in 1..n : u[m + j] = t[j]
    BY <1>3
  <1>5. \A j \in 1..m + n : j \in 1..m \/ \E k \in 1..n : j = m + k
    <2> TAKE j \in 1..m + n
    <2>1. j <= m \/ j - m \in 1..n
      BY <1>3
    <2>2. j = m + (j - m) /\ (j <= m => j \in 1..m)
      BY <1>3
    <2> QED
      BY <2>1, <2>2
  <1>6. (\A j \in 1..m : j \in 1..m + n) /\ \A k \in 1..n : m + k \in 1..m + n
    BY <1>3
  <1> HIDE DEF u, m, n
  <1>7. ASSUME NEW x PROVE (\E j \in 1..Len(u) : u[j] = x) <=> x \in A \cup B
    <2>1. (\E j \in 1..m : s[j] = x) <=> x \in A
      BY DEF Listed, m
    <2>2. (\E j \in 1..n : t[j] = x) <=> x \in B
      BY DEF Listed, n
    <2> QED
      BY <1>4, <1>5, <1>6, <2>1, <2>2
  <1>8. Listed(u, A \cup B)
    BY <1>4, <1>7 DEF Listed
  <1> QED
    BY <1>8 DEF u

LEMMA NoneListed == Listed(<<>>, {})
  <1>1. <<>> \in Seq({}) /\ Len(<<>>) = 0 /\ 1..0 = {}
    OBVIOUS
  <1> QED
    BY <1>1 DEF Listed
LEMMA OneListed == \A a : Listed(<<a>>, {a})
  <1> TAKE a
  <1> DEFINE s == <<a>>
  <1>1. /\ s \in Seq({a}) /\ Len(s) = 1
        /\ s[1] = a
    OBVIOUS
  <1>2. 1..1 = {1}
    OBVIOUS
  <1> HIDE DEF s
  <1>3. Listed(s, {a})
    BY <1>1, <1>2 DEF Listed
  <1> QED
    BY <1>3 DEF s
LEMMA TwoListed == \A a, b : Listed(<<a, b>>, {a, b})
  <1> TAKE a, b
  <1> DEFINE s == <<a, b>>
  <1>1. /\ s \in Seq({a, b}) /\ Len(s) = 2
        /\ s[1] = a /\ s[2] = b
    OBVIOUS
  <1>2. 1..2 = {1, 2}
    OBVIOUS
  <1> HIDE DEF s
  <1>3. Listed(s, {a, b})
    BY <1>1, <1>2 DEF Listed
  <1> QED
    BY <1>3 DEF s
LEMMA ThreeListed == \A a, b, c : Listed(<<a, b, c>>, {a, b, c})
  <1> TAKE a, b, c
  <1> DEFINE s == <<a, b, c>>
  <1>1. /\ s \in Seq({a, b, c}) /\ Len(s) = 3
        /\ s[1] = a /\ s[2] = b /\ s[3] = c
    OBVIOUS
  <1>2. 1..3 = {1, 2, 3}
    OBVIOUS
  <1> HIDE DEF s
  <1>3. Listed(s, {a, b, c})
    BY <1>1, <1>2 DEF Listed
  <1> QED
    BY <1>3 DEF s
LEMMA SixListed == \A a, b, c, d, e, f : Listed(<<a, b, c, d, e, f>>, {a, b, c, d, e, f})
  <1> TAKE a, b, c, d, e, f
  <1> DEFINE s == <<a, b, c, d, e, f>>
  <1>1. /\ s \in Seq({a, b, c, d, e, f}) /\ Len(s) = 6
        /\ s[1] = a /\ s[2] = b /\ s[3] = c /\ s[4] = d /\ s[5] = e
        /\ s[6] = f
    OBVIOUS
  <1>2. 1..6 = {1, 2, 3, 4, 5, 6}
    OBVIOUS
  <1> HIDE DEF s
  <1>3. Listed(s, {a, b, c, d, e, f})
    BY <1>1, <1>2 DEF Listed
  <1> QED
    BY <1>3 DEF s
LEMMA EightListed == \A a, b, c, d, e, f, g, h : Listed(<<a, b, c, d, e, f, g, h>>, {a, b, c, d, e, f, g, h})
  <1> TAKE a, b, c, d, e, f, g, h
  <1> DEFINE s == <<a, b, c, d, e, f, g, h>>
  <1>1. /\ s \in Seq({a, b, c, d, e, f, g, h}) /\ Len(s) = 8
        /\ s[1] = a /\ s[2] = b /\ s[3] = c /\ s[4] = d /\ s[5] = e
        /\ s[6] = f /\ s[7] = g /\ s[8] = h
    OBVIOUS
  <1>2. 1..8 = {1, 2, 3, 4, 5, 6, 7, 8}
    OBVIOUS
  <1> HIDE DEF s
  <1>3. Listed(s, {a, b, c, d, e, f, g, h})
    BY <1>1, <1>2 DEF Listed
  <1> QED
    BY <1>3 DEF s
LEMMA TenListed == \A a, b, c, d, e, f, g, h, i, j : Listed(<<a, b, c, d, e, f, g, h, i, j>>, {a, b, c, d, e, f, g, h, i, j})
  <1> TAKE a, b, c, d, e, f, g, h, i, j
  <1> DEFINE s == <<a, b, c, d, e, f, g, h, i, j>>
  <1>1. /\ s \in Seq({a, b, c, d, e, f, g, h, i, j}) /\ Len(s) = 10
        /\ s[1] = a /\ s[2] = b /\ s[3] = c /\ s[4] = d /\ s[5] = e
        /\ s[6] = f /\ s[7] = g /\ s[8] = h /\ s[9] = i /\ s[10] = j
    OBVIOUS
  <1>2. 1..10 = {1, 2, 3, 4, 5, 6, 7, 8, 9, 10}
    OBVIOUS
  <1> HIDE DEF s
  <1>3. Listed(s, {a, b, c, d, e, f, g, h, i, j})
    BY <1>1, <1>2 DEF Listed
  <1> QED
    BY <1>3 DEF s

LEMMA NeedListed == \A at, b : Listed(Need(at, b), {Alloc(at, b), Check({at})})
  BY TwoListed DEF Need
LEMMA IfListed ==
    ASSUME NEW c \in BOOLEAN, NEW s, NEW A, Listed(s, A)
    PROVE  Listed(If(c, s), IF c THEN A ELSE {})
  <1>1. CASE c
    BY <1>1 DEF If
  <1>2. CASE ~c
    BY <1>2, NoneListed DEF If
  <1> QED
    BY <1>1, <1>2

LEMMA BehindAll ==
    ASSUME NEW r, NEW A, Listed(Steps(r), A)
    PROVE  \A x : x \in Behind(r, Ending(r)) <=> x \in A
  <1>1. Len(Steps(r)) \in Nat
    BY DEF Listed
  <1>2. Ending(r) - 1 = Len(Steps(r))
    BY <1>1 DEF Ending
  <1> QED
    BY <1>2 DEF Behind, Listed

(* What each kind of step leaves where.                                    *)
LEMMA Fits ==
    ASSUME NEW h, NEW o
    PROVE  /\ \A k : ~Fit(h, New(k), o) /\ ~Fit(h, NewQuiet(k), o)
           /\ \A at, b : Fit(h, Alloc(at, b), o) <=> o.at = at /\ h[o.to].bytes = b
           /\ \A b : Fit(h, Generate(b), o) <=>
                         o.at = "code" \/ (o.at = "t0" /\ h[o.to].bytes = b)
           /\ \A b : Fit(h, Measure(b), o) <=> o.at = "t2" /\ h[o.to].bytes = b
           /\ \A a : ~Fit(h, Check(a), o) /\ ~Fit(h, CheckQuiet(a), o)
           /\ \A at, r : Fit(h, Make(at, r), o) <=>
                             o.at = at /\ h[o.to].req = r /\ h[o.to].kind = Kind(r)
           /\ ~Fit(h, Test, o) /\ ~Fit(h, Reject, o) /\ \A fn : ~Fit(h, Use(fn), o)
  <1>1. \A x : x.op \in {"new", "check", "test", "reject", "use"} => ~Fit(h, x, o)
    BY DEF Fit
  <1>2. \A x : x.op = "alloc" => (Fit(h, x, o) <=> o.at = x.at /\ h[o.to].bytes = x.bytes)
    BY DEF Fit
  <1>3. \A x : x.op = "generate" =>
            (Fit(h, x, o) <=> o.at = "code" \/ (o.at = "t0" /\ h[o.to].bytes = x.bytes))
    BY DEF Fit
  <1>4. \A x : x.op = "measure" => (Fit(h, x, o) <=> o.at = "t2" /\ h[o.to].bytes = x.bytes)
    BY DEF Fit
  <1>5. \A x : x.op = "make" =>
            (Fit(h, x, o) <=> o.at = x.at /\ h[o.to].req = x.req /\ h[o.to].kind = Kind(x.req))
    BY DEF Fit
  <1>6. /\ \A at, b : Alloc(at, b).bytes = b
        /\ \A b : Generate(b).bytes = b /\ Measure(b).bytes = b
    BY DEF Alloc, Generate, Measure
  <1>7. \A k : ~Fit(h, New(k), o) /\ ~Fit(h, NewQuiet(k), o)
    BY <1>1, StepKinds
  <1>8. \A a : ~Fit(h, Check(a), o) /\ ~Fit(h, CheckQuiet(a), o)
    BY <1>1, StepKinds
  <1>9. ~Fit(h, Test, o) /\ ~Fit(h, Reject, o) /\ \A fn : ~Fit(h, Use(fn), o)
    BY <1>1, StepKinds
  <1>10. /\ \A at, b : Fit(h, Alloc(at, b), o) <=> o.at = at /\ h[o.to].bytes = b
         /\ \A b : Fit(h, Measure(b), o) <=> o.at = "t2" /\ h[o.to].bytes = b
    BY <1>2, <1>4, <1>6, StepKinds
  <1>11. \A b : Fit(h, Generate(b), o) <=> o.at = "code" \/ (o.at = "t0" /\ h[o.to].bytes = b)
    BY <1>3, <1>6, StepKinds
  <1>12. \A at, r : Fit(h, Make(at, r), o) <=>
                        o.at = at /\ h[o.to].req = r /\ h[o.to].kind = Kind(r)
    BY <1>5, StepKinds
  <1> QED
    BY <1>7, <1>8, <1>9, <1>10, <1>11, <1>12

LEMMA FirmOf ==
    /\ \A at, r : Firm(Make(at, r)) = {at}
    /\ \A a : Firm(Check(a)) = a /\ Firm(CheckQuiet(a)) = a
  <1>1. \A x : x.op = "make" => Firm(x) = {x.at}
    BY DEF Firm
  <1>2. \A x : x.op = "check" => Firm(x) = x.ats
    BY DEF Firm
  <1> QED
    BY <1>1, <1>2, StepKinds

LEMMA UsesOf ==
    /\ \A k : New(k).op # "use" /\ NewQuiet(k).op # "use"
    /\ \A at, b : Alloc(at, b).op # "use"
    /\ \A b : Generate(b).op # "use" /\ Measure(b).op # "use"
    /\ \A a : Check(a).op # "use" /\ CheckQuiet(a).op # "use"
    /\ \A at, r : Make(at, r).op # "use"
    /\ Test.op # "use" /\ Reject.op # "use"
    /\ \A fn : Use(fn).op = "use" /\ Use(fn).fn = fn
    /\ \A k : New(k).op # "measure" /\ NewQuiet(k).op # "measure"
    /\ \A at, b : Alloc(at, b).op # "measure"
    /\ \A b : Generate(b).op # "measure" /\ Measure(b).op = "measure"
    /\ \A a : Check(a).op # "measure" /\ CheckQuiet(a).op # "measure"
    /\ \A at, r : Make(at, r).op # "measure"
    /\ Test.op # "measure" /\ Reject.op # "measure" /\ \A fn : Use(fn).op # "measure"
  <1>1. \A fn : Use(fn).fn = fn
    BY DEF Use
  <1>2. /\ \A k : New(k).op = "new" /\ NewQuiet(k).op = "new"
        /\ \A at, b : Alloc(at, b).op = "alloc"
        /\ \A b : Generate(b).op = "generate" /\ Measure(b).op = "measure"
        /\ \A a : Check(a).op = "check" /\ CheckQuiet(a).op = "check"
        /\ \A at, r : Make(at, r).op = "make"
        /\ Test.op = "test" /\ Reject.op = "reject" /\ \A fn : Use(fn).op = "use"
    BY StepKinds
  <1> QED
    BY <1>1, <1>2

LEMMA BlankOf ==
    /\ \A b : Blank(Generate(b)) <=> b = 0
    /\ \A at, b : Blank(Alloc(at, b)) <=> at = "code"
    /\ \A k : ~Blank(New(k)) /\ ~Blank(NewQuiet(k))
    /\ \A a : ~Blank(Check(a)) /\ ~Blank(CheckQuiet(a))
  <1>1. /\ \A b : Generate(b).bytes = b
        /\ \A at, b : Alloc(at, b).at = at
    BY DEF Generate, Alloc
  <1>2. /\ \A k : New(k).op = "new" /\ NewQuiet(k).op = "new"
        /\ \A at, b : Alloc(at, b).op = "alloc"
        /\ \A b : Generate(b).op = "generate"
        /\ \A a : Check(a).op = "check" /\ CheckQuiet(a).op = "check"
    BY StepKinds
  <1> QED
    BY <1>1, <1>2 DEF Blank

(* What a transform that was handed over has.                              *)
LEMMA Contents ==
    ASSUME NEW h, NEW q, NEW b, Whole(h, q, b), NEW A, Listed(Steps(Base(h[b].req)), A)
    PROVE  /\ \A o \in q : o.by = Block(b) =>
                  (\E x \in A : Fit(h, x, o)) \/ Window(h, h[b].req, o)
           /\ \A x \in A : \A at \in Firm(x) : at # "self" => Present(q, Block(b), at)
           /\ Present(q, Block(b), "code") =>
                  Present(q, Block(b), "t0") \/ \E x \in A : Blank(x)
           /\ \/ h[b].fn = "none" /\ \A x \in A : x.op # "use"
              \/ \E x \in A : x.op = "use" /\ h[b].fn = x.fn
              \/ /\ h[b].fn = "dit" /\ Present(q, Block(b), "t2")
                 /\ \E x \in A : x.op = "measure"
  <1> DEFINE u == Base(h[b].req)
  <1>1. \A x : x \in Behind(u, Ending(u)) <=> x \in A
    BY BehindAll
  <1>2. /\ \A o \in q : o.by = Block(b) => Placed(h, u, Ending(u), o) \/ Window(h, h[b].req, o)
        /\ Filled(q, Block(b), u, Ending(u))
        /\ Knows(h, q, b, u, Ending(u))
    BY DEF Whole
  <1> HIDE DEF u
  <1>3. \A o \in q : o.by = Block(b) => (\E x \in A : Fit(h, x, o)) \/ Window(h, h[b].req, o)
    BY <1>1, <1>2 DEF Placed
  <1>4. \A x \in A : \A at \in Firm(x) : at # "self" => Present(q, Block(b), at)
    BY <1>1, <1>2 DEF Filled
  <1>5. \/ h[b].fn = "none" /\ \A x \in A : x.op # "use"
        \/ \E x \in A : x.op = "use" /\ h[b].fn = x.fn
        \/ /\ h[b].fn = "dit" /\ Present(q, Block(b), "t2")
           /\ \E x \in A : x.op = "measure"
    BY <1>1, <1>2 DEF Knows
  <1>6. Present(q, Block(b), "code") => Present(q, Block(b), "t0") \/ \E x \in A : Blank(x)
    BY <1>1, <1>2 DEF Filled
  <1> QED
    BY <1>3, <1>4, <1>5, <1>6

(* What the slots of a transform hold, by the constructor of its request:  *)
(* its FFT, for an STFT, the window apart.                                 *)
Bytes(h, o, at, bytes) == o.at = at /\ h[o.to].bytes = bytes
Inside(h, o, at, r) == o.at = at /\ h[o.to].req = r /\ h[o.to].kind = Kind(r)
LEMMA FitNothing ==
    /\ \A h, o, k : ~Fit(h, New(k), o) /\ ~Fit(h, NewQuiet(k), o)
    /\ \A h, o, a : ~Fit(h, Check(a), o) /\ ~Fit(h, CheckQuiet(a), o)
    /\ \A h, o : ~Fit(h, Test, o) /\ ~Fit(h, Reject, o)
    /\ \A h, o, fn : ~Fit(h, Use(fn), o)
  BY Fits
LEMMA FitAlloc == \A h, o, at, b : Fit(h, Alloc(at, b), o) <=> Bytes(h, o, at, b)
  BY Fits DEF Bytes
LEMMA FitGenerate ==
    \A h, o, b : Fit(h, Generate(b), o) <=> o.at = "code" \/ Bytes(h, o, "t0", b)
  BY Fits DEF Bytes
LEMMA FitMeasure == \A h, o, b : Fit(h, Measure(b), o) <=> Bytes(h, o, "t2", b)
  BY Fits DEF Bytes
LEMMA FitMake == \A h, o, at, r : Fit(h, Make(at, r), o) <=> Inside(h, o, at, r)
  BY Fits DEF Inside

Endowed(h, q, b, A) ==
    /\ \A o \in q : o.by = Block(b) =>
           (\E x \in A : Fit(h, x, o)) \/ Window(h, h[b].req, o)
    /\ \A x \in A : \A at \in Firm(x) : at # "self" => Present(q, Block(b), at)
    /\ Present(q, Block(b), "code") => Present(q, Block(b), "t0") \/ \E x \in A : Blank(x)
    /\ \/ h[b].fn = "none" /\ \A x \in A : x.op # "use"
       \/ \E x \in A : x.op = "use" /\ h[b].fn = x.fn
       \/ /\ h[b].fn = "dit" /\ Present(q, Block(b), "t2")
          /\ \E x \in A : x.op = "measure"
LEMMA EndowedIs ==
    ASSUME NEW h, NEW q, NEW b, Whole(h, q, b), NEW A, Listed(Steps(Base(h[b].req)), A)
    PROVE  Endowed(h, q, b, A)
  BY Contents DEF Endowed
LEMMA CodeletHas ==
    ASSUME NEW h, NEW q, NEW b, Whole(h, q, b), NEW r, r = Base(h[b].req),
           r.maker = "fft", FftPath(r.n, r.flags) = "codelet"
    PROVE  /\ \A o \in q : o.by = Block(b) =>
                  \/ Window(h, h[b].req, o)
                  \/ Bytes(h, o, "scratch", Align64(4 * r.n * Elem(r)))
           /\ Present(q, Block(b), "scratch") /\ h[b].fn = "codelet"
  <1> DEFINE x == Align64(4 * r.n * Elem(r))
             A1 == {New("transform"), Use("codelet")}
             A2 == {Alloc("scratch", x), Check({"scratch"})}
             A == A1 \cup A2
  <1>1. Steps(r) = <<New("transform"), Use("codelet")>> \o Need("scratch", x)
    BY DEF Steps, FftSteps, CodeletSteps
  <1> HIDE DEF x
  <1>2. Listed(<<New("transform"), Use("codelet")>>, A1) /\ Listed(Need("scratch", x), A2)
    BY TwoListed, NeedListed
  <1>3. Listed(Steps(r), A)
    BY <1>1, <1>2, ListedJoin
  <1>4. Endowed(h, q, b, A)
    BY <1>3, EndowedIs
  <1>5. h[b].fn = "codelet"
    BY <1>4, UsesOf DEF Endowed
  <1>6. Present(q, Block(b), "scratch")
    BY <1>4, FirmOf DEF Endowed
  <1>7. ASSUME NEW o \in q, o.by = Block(b)
        PROVE  Window(h, h[b].req, o) \/ Bytes(h, o, "scratch", x)
    BY <1>4, <1>7, FitNothing, FitAlloc DEF Endowed
  <1> QED
    BY <1>5, <1>6, <1>7 DEF x

LEMMA SplitRadixHas ==
    ASSUME NEW h, NEW q, NEW b, Whole(h, q, b), NEW r, r = Base(h[b].req),
           r.maker = "fft", FftPath(r.n, r.flags) = "splitradix"
    PROVE  /\ \A o \in q : o.by = Block(b) =>
                  \/ Window(h, h[b].req, o)
                  \/ Bytes(h, o, "t0", Align64(SrTwiddleCount(r.n) * Elem(r)))
                  \/ Bytes(h, o, "t1", Align64(2 * r.n * Elem(r)))
                  \/ Bytes(h, o, "t2", Align64(2 * r.n * Elem(r)))
                  \/ Bytes(h, o, "scratch", Align64(4 * r.n * Elem(r)))
           /\ \A at \in {"t0", "t1", "scratch"} : Present(q, Block(b), at)
           /\ h[b].fn = "dif" \/ (h[b].fn = "dit" /\ Present(q, Block(b), "t2"))
  <1> DEFINE x0 == Align64(SrTwiddleCount(r.n) * Elem(r))
             x1 == Align64(2 * r.n * Elem(r))
             x == Align64(4 * r.n * Elem(r))
             c == "measure" \in r.flags /\ r.n >= 32
             A1 == {New("transform")}
             A2 == {Alloc("t0", x0), Check({"t0"})}
             A3 == {Alloc("t1", x1), Check({"t1"})}
             A4 == {Use("dif")}
             A5 == {Alloc("scratch", x), Check({"scratch"})}
             A6 == IF c THEN {Measure(x1)} ELSE {}
             A == A1 \cup A2 \cup A3 \cup A4 \cup A5 \cup A6
             s1 == <<New("transform")>>
             s2 == Need("t0", x0)
             s3 == Need("t1", x1)
             s4 == <<Use("dif")>>
             s5 == Need("scratch", x)
             s6 == If(c, <<Measure(x1)>>)
  <1>1. Steps(r) = s1 \o s2 \o s3 \o s4 \o s5 \o s6
    BY DEF Steps, FftSteps, SplitRadixSteps
  <1>2. /\ Listed(s1, A1) /\ Listed(s2, A2) /\ Listed(s3, A3) /\ Listed(s4, A4)
        /\ Listed(s5, A5)
    BY OneListed, NeedListed
  <1>3. Listed(s6, A6)
    <2>1. c \in BOOLEAN /\ Listed(<<Measure(x1)>>, {Measure(x1)})
      BY OneListed
    <2> HIDE DEF c
    <2> QED
      BY <2>1, IfListed
  <1> HIDE DEF x0, x1, x, c
  <1>4. Listed(Steps(r), A)
    <2> HIDE DEF A1, A2, A3, A4, A5, A6, s1, s2, s3, s4, s5, s6
    <2>1. Listed(s1 \o s2, A1 \cup A2)
      BY <1>2, ListedJoin
    <2>2. Listed(s1 \o s2 \o s3, A1 \cup A2 \cup A3)
      BY <2>1, <1>2, ListedJoin
    <2>3. Listed(s1 \o s2 \o s3 \o s4, A1 \cup A2 \cup A3 \cup A4)
      BY <2>2, <1>2, ListedJoin
    <2>4. Listed(s1 \o s2 \o s3 \o s4 \o s5, A1 \cup A2 \cup A3 \cup A4 \cup A5)
      BY <2>3, <1>2, ListedJoin
    <2>5. Listed(s1 \o s2 \o s3 \o s4 \o s5 \o s6, A)
      BY <2>4, <1>3, ListedJoin
    <2> QED
      BY <2>5, <1>1
  <1>5. Endowed(h, q, b, A)
    BY <1>4, EndowedIs
  <1>6. h[b].fn = "dif" \/ (h[b].fn = "dit" /\ Present(q, Block(b), "t2"))
    BY <1>5, UsesOf DEF Endowed
  <1>7. \A at \in {"t0", "t1", "scratch"} : Present(q, Block(b), at)
    BY <1>5, FirmOf DEF Endowed
  <1>8. ASSUME NEW o \in q, o.by = Block(b)
        PROVE  \/ Window(h, h[b].req, o)
               \/ Bytes(h, o, "t0", x0) \/ Bytes(h, o, "t1", x1) \/ Bytes(h, o, "t2", x1)
               \/ Bytes(h, o, "scratch", x)
    BY <1>5, <1>8, FitNothing, FitAlloc, FitMeasure DEF Endowed
  <1> QED
    BY <1>6, <1>7, <1>8 DEF x0, x1, x
LEMMA GeneratedHas ==
    ASSUME NEW h, NEW q, NEW b, Whole(h, q, b), NEW r, r = Base(h[b].req),
           NEW table, Steps(r) = GeneratedSteps(r, table)
    PROVE  /\ \A o \in q : o.by = Block(b) =>
                  \/ Window(h, h[b].req, o)
                  \/ o.at = "code"
                  \/ Bytes(h, o, "t0", table)
                  \/ Bytes(h, o, "scratch", Align64(4 * r.n * Elem(r)))
           /\ \A at \in {"code", "scratch"} : Present(q, Block(b), at)
           /\ Present(q, Block(b), "t0") \/ table = 0
           /\ h[b].fn = "none"
  <1> DEFINE x == Align64(4 * r.n * Elem(r))
             A1 == {New("transform"), Generate(table), Check({"code"})}
             A2 == {Alloc("scratch", x), Check({"scratch"})}
             A == A1 \cup A2
             s1 == <<New("transform"), Generate(table), Check({"code"})>>
             s2 == Need("scratch", x)
  <1>1. Steps(r) = s1 \o s2
    BY DEF Steps, GeneratedSteps
  <1>2. /\ Listed(s1, A1) /\ Listed(s2, A2)
    BY ThreeListed, NeedListed
  <1> HIDE DEF x
  <1>3. Listed(Steps(r), A)
    <2> HIDE DEF A1, A2, s1, s2
    <2> QED
      BY <1>1, <1>2, ListedJoin
  <1>4. Endowed(h, q, b, A)
    BY <1>3, EndowedIs
  <1>5. h[b].fn = "none"
    BY <1>4, UsesOf DEF Endowed
  <1>6. \A at \in {"code", "scratch"} : Present(q, Block(b), at)
    BY <1>4, FirmOf DEF Endowed
  <1>7. ASSUME NEW o \in q, o.by = Block(b)
        PROVE  \/ Window(h, h[b].req, o)
               \/ o.at = "code"
               \/ Bytes(h, o, "t0", table)
               \/ Bytes(h, o, "scratch", x)
    BY <1>4, <1>7, FitNothing, FitAlloc, FitGenerate DEF Endowed
  <1>8. \A y \in A : Blank(y) => table = 0
    BY BlankOf
  <1>9. Present(q, Block(b), "t0") \/ table = 0
    BY <1>4, <1>6, <1>8 DEF Endowed
  <1> QED
    BY <1>5, <1>6, <1>7, <1>9 DEF x

LEMMA RaderHas ==
    ASSUME NEW h, NEW q, NEW b, Whole(h, q, b), NEW r, r = Base(h[b].req),
           r.maker = "fft", FftPath(r.n, r.flags) = "rader"
    PROVE  /\ \A o \in q : o.by = Block(b) =>
                  \/ Window(h, h[b].req, o)
                  \/ Inside(h, o, "inner", Inner(r, (r.n - 1), "fwd", {"seven"}))
                  \/ Inside(h, o, "inner_inv", Inner(r, (r.n - 1), "inv", {"seven"}))
                  \/ Bytes(h, o, "t2", Align64(2 * (r.n - 1) * 4))
                  \/ Bytes(h, o, "t0", Align64((r.n - 1) * Elem(r)))
                  \/ Bytes(h, o, "t1", Align64((r.n - 1) * Elem(r)))
                  \/ Bytes(h, o, "t3", Align64(2 * (r.n - 1) * Elem(r)))
                  \/ Bytes(h, o, "scratch", Align64(4 * r.n * Elem(r)))
           /\ \A at \in {"inner", "inner_inv", "t0", "t1", "t2", "t3", "scratch"} : Present(q, Block(b), at)
           /\ h[b].fn = "rader"
  <1> DEFINE m == (r.n - 1)
             i == Inner(r, m, "fwd", {"seven"})
             j == Inner(r, m, "inv", {"seven"})
             x0 == Align64(m * Elem(r))
             x2 == Align64(2 * m * 4)
             x3 == Align64(2 * m * Elem(r))
             x == Align64(4 * r.n * Elem(r))
             A1 == {New("transform"), Make("inner", i), Make("inner_inv", j)}
             A2 == {Alloc("t2", x2), Check({"t2"})}
             A3 == {Alloc("t0", x0), Alloc("t1", x0), Check({"t0", "t1"})}
             A4 == {Alloc("t3", x3), Check({"t3"})}
             A5 == {Use("rader")}
             A6 == {Alloc("scratch", x), Check({"scratch"})}
             A == A1 \cup A2 \cup A3 \cup A4 \cup A5 \cup A6
             s1 == <<New("transform"), Make("inner", i), Make("inner_inv", j)>>
             s2 == Need("t2", x2)
             s3 == <<Alloc("t0", x0), Alloc("t1", x0), Check({"t0", "t1"})>>
             s4 == Need("t3", x3)
             s5 == <<Use("rader")>>
             s6 == Need("scratch", x)
  <1>1. Steps(r) = s1 \o s2 \o s3 \o s4 \o s5 \o s6
    BY DEF Steps, FftSteps, RaderSteps
  <1>2. /\ Listed(s1, A1) /\ Listed(s2, A2) /\ Listed(s3, A3) /\ Listed(s4, A4)
        /\ Listed(s5, A5) /\ Listed(s6, A6)
    BY ThreeListed, NeedListed, OneListed
  <1> HIDE DEF m, i, j, x0, x2, x3, x
  <1>3. Listed(Steps(r), A)
    <2> HIDE DEF A1, A2, A3, A4, A5, A6, s1, s2, s3, s4, s5, s6
    <2>1. Listed(s1 \o s2, A1 \cup A2)
      BY <1>2, ListedJoin
    <2>2. Listed(s1 \o s2 \o s3, A1 \cup A2 \cup A3)
      BY <2>1, <1>2, ListedJoin
    <2>3. Listed(s1 \o s2 \o s3 \o s4, A1 \cup A2 \cup A3 \cup A4)
      BY <2>2, <1>2, ListedJoin
    <2>4. Listed(s1 \o s2 \o s3 \o s4 \o s5, A1 \cup A2 \cup A3 \cup A4 \cup A5)
      BY <2>3, <1>2, ListedJoin
    <2>5. Listed(s1 \o s2 \o s3 \o s4 \o s5 \o s6, A)
      BY <2>4, <1>2, ListedJoin
    <2> QED
      BY <2>5, <1>1
  <1>4. Endowed(h, q, b, A)
    BY <1>3, EndowedIs
  <1>5. h[b].fn = "rader"
    BY <1>4, UsesOf DEF Endowed
  <1>6. \A at \in {"inner", "inner_inv", "t0", "t1", "t2", "t3", "scratch"} : Present(q, Block(b), at)
    BY <1>4, FirmOf DEF Endowed
  <1>7. ASSUME NEW o \in q, o.by = Block(b)
        PROVE  \/ Window(h, h[b].req, o)
               \/ Inside(h, o, "inner", i)
               \/ Inside(h, o, "inner_inv", j)
               \/ Bytes(h, o, "t2", x2)
               \/ Bytes(h, o, "t0", x0)
               \/ Bytes(h, o, "t1", x0)
               \/ Bytes(h, o, "t3", x3)
               \/ Bytes(h, o, "scratch", x)
    BY <1>4, <1>7, FitNothing, FitAlloc, FitMake DEF Endowed
  <1> QED
    BY <1>5, <1>6, <1>7 DEF m, i, j, x0, x2, x3, x

LEMMA BluesteinHas ==
    ASSUME NEW h, NEW q, NEW b, Whole(h, q, b), NEW r, r = Base(h[b].req),
           r.maker = "fft", FftPath(r.n, r.flags) = "bluestein"
    PROVE  /\ \A o \in q : o.by = Block(b) =>
                  \/ Window(h, h[b].req, o)
                  \/ Inside(h, o, "inner", Inner(r, BluesteinLength(r.n), "fwd", {}))
                  \/ Inside(h, o, "inner_inv", Inner(r, BluesteinLength(r.n), "inv", {}))
                  \/ Bytes(h, o, "t0", 2 * r.n * Elem(r))
                  \/ Bytes(h, o, "t1", 2 * BluesteinLength(r.n) * Elem(r))
                  \/ Bytes(h, o, "scratch", Align64(6 * BluesteinLength(r.n) * Elem(r)))
           /\ \A at \in {"inner", "inner_inv", "t0", "t1", "scratch"} : Present(q, Block(b), at)
           /\ h[b].fn = "none"
  <1> DEFINE m == BluesteinLength(r.n)
             i == Inner(r, m, "fwd", {})
             j == Inner(r, m, "inv", {})
             x0 == 2 * r.n * Elem(r)
             x1 == 2 * m * Elem(r)
             x == Align64(6 * m * Elem(r))
             A1 == {New("transform"), Make("inner", i), Make("inner_inv", j), Alloc("t0", x0), Alloc("t1", x1), Check({"t0", "t1"})}
             A2 == {Alloc("scratch", x), Check({"scratch"})}
             A == A1 \cup A2
             s1 == <<New("transform"), Make("inner", i), Make("inner_inv", j), Alloc("t0", x0), Alloc("t1", x1), Check({"t0", "t1"})>>
             s2 == Need("scratch", x)
  <1>1. Steps(r) = s1 \o s2
    BY DEF Steps, FftSteps, BluesteinSteps
  <1>2. /\ Listed(s1, A1) /\ Listed(s2, A2)
    BY SixListed, NeedListed
  <1> HIDE DEF m, i, j, x0, x1, x
  <1>3. Listed(Steps(r), A)
    <2> HIDE DEF A1, A2, s1, s2
    <2> QED
      BY <1>1, <1>2, ListedJoin
  <1>4. Endowed(h, q, b, A)
    BY <1>3, EndowedIs
  <1>5. h[b].fn = "none"
    BY <1>4, UsesOf DEF Endowed
  <1>6. \A at \in {"inner", "inner_inv", "t0", "t1", "scratch"} : Present(q, Block(b), at)
    BY <1>4, FirmOf DEF Endowed
  <1>7. ASSUME NEW o \in q, o.by = Block(b)
        PROVE  \/ Window(h, h[b].req, o)
               \/ Inside(h, o, "inner", i)
               \/ Inside(h, o, "inner_inv", j)
               \/ Bytes(h, o, "t0", x0)
               \/ Bytes(h, o, "t1", x1)
               \/ Bytes(h, o, "scratch", x)
    BY <1>4, <1>7, FitNothing, FitAlloc, FitMake DEF Endowed
  <1> QED
    BY <1>5, <1>6, <1>7 DEF m, i, j, x0, x1, x

LEMMA RealHas ==
    ASSUME NEW h, NEW q, NEW b, Whole(h, q, b), NEW r, r = Base(h[b].req),
           r.maker \in {"dct", "dst", "mdct"}
    PROVE  /\ \A o \in q : o.by = Block(b) =>
                  \/ Window(h, h[b].req, o)
                  \/ o.at = "code"
                  \/ Bytes(h, o, "t0", (IF r.n > MaxFft THEN MaxFft ELSE r.n) * Elem(r))
           /\ Present(q, Block(b), "code") =>
                  \/ Present(q, Block(b), "t0")
                  \/ (IF r.n > MaxFft THEN MaxFft ELSE r.n) * Elem(r) = 0
           /\ h[b].fn = "none"
  <1> DEFINE x == (IF r.n > MaxFft THEN MaxFft ELSE r.n) * Elem(r)
             A1 == {New("transform"), Generate(x)}
             A == A1
             s1 == <<New("transform"), Generate(x)>>
  <1>1. Steps(r) = s1
    BY DEF Steps, RealSteps
  <1>2. Listed(s1, A1)
    BY TwoListed
  <1> HIDE DEF x
  <1>3. Listed(Steps(r), A)
    BY <1>1, <1>2
  <1>4. Endowed(h, q, b, A)
    BY <1>3, EndowedIs
  <1>5. h[b].fn = "none"
    BY <1>4, UsesOf DEF Endowed
  <1>6. ASSUME NEW o \in q, o.by = Block(b)
        PROVE  \/ Window(h, h[b].req, o)
               \/ o.at = "code"
               \/ Bytes(h, o, "t0", x)
    BY <1>4, <1>6, FitNothing, FitGenerate DEF Endowed
  <1>7. \A y \in A : Blank(y) => x = 0
    BY BlankOf
  <1>8. Present(q, Block(b), "code") => Present(q, Block(b), "t0") \/ x = 0
    BY <1>4, <1>7 DEF Endowed
  <1> QED
    BY <1>5, <1>6, <1>8 DEF x

LEMMA DwtHas ==
    ASSUME NEW h, NEW q, NEW b, Whole(h, q, b), NEW r, r = Base(h[b].req),
           r.maker = "dwt"
    PROVE  /\ \A o \in q : o.by = Block(b) =>
                  \/ Window(h, h[b].req, o)
                  \/ o.at = "code"
                  \/ Bytes(h, o, "t0", 0)
                  \/ Bytes(h, o, "scratch", Align64(r.n * Elem(r)))
           /\ \A at \in {"code", "scratch"} : Present(q, Block(b), at)
           /\ h[b].fn = "none"
  <1> DEFINE x == Align64(r.n * Elem(r))
             A1 == {New("transform")}
             A2 == {Alloc("scratch", x), Check({"scratch"})}
             A3 == {Generate(0), Check({"code"})}
             A == A1 \cup A2 \cup A3
             s1 == <<New("transform")>>
             s2 == Need("scratch", x)
             s3 == <<Generate(0), Check({"code"})>>
  <1>1. Steps(r) = s1 \o s2 \o s3
    BY DEF Steps, DwtSteps
  <1>2. /\ Listed(s1, A1) /\ Listed(s2, A2) /\ Listed(s3, A3)
    BY OneListed, NeedListed, TwoListed
  <1> HIDE DEF x
  <1>3. Listed(Steps(r), A)
    <2> HIDE DEF A1, A2, A3, s1, s2, s3
    <2>1. Listed(s1 \o s2, A1 \cup A2)
      BY <1>2, ListedJoin
    <2>2. Listed(s1 \o s2 \o s3, A)
      BY <2>1, <1>2, ListedJoin
    <2> QED
      BY <2>2, <1>1
  <1>4. Endowed(h, q, b, A)
    BY <1>3, EndowedIs
  <1>5. h[b].fn = "none"
    BY <1>4, UsesOf DEF Endowed
  <1>6. \A at \in {"code", "scratch"} : Present(q, Block(b), at)
    BY <1>4, FirmOf DEF Endowed
  <1>7. ASSUME NEW o \in q, o.by = Block(b)
        PROVE  \/ Window(h, h[b].req, o)
               \/ o.at = "code"
               \/ Bytes(h, o, "t0", 0)
               \/ Bytes(h, o, "scratch", x)
    BY <1>4, <1>7, FitNothing, FitAlloc, FitGenerate DEF Endowed
  <1> QED
    BY <1>5, <1>6, <1>7 DEF x

LEMMA RfftHas ==
    ASSUME NEW h, NEW q, NEW b, Whole(h, q, b), NEW r, r = Base(h[b].req),
           r.maker = "rfft"
    PROVE  /\ \A o \in q : o.by = Block(b) =>
                  \/ Window(h, h[b].req, o)
                  \/ Inside(h, o, "inner", Inner(r, (r.n \div 2), r.dir, {}))
                  \/ Bytes(h, o, "t1", ((r.n \div 2) \div 2) * 2 * Elem(r))
                  \/ Bytes(h, o, "scratch", Align64((4 * (r.n \div 2) + 2 * ((r.n \div 2) + 1)) * Elem(r)))
           /\ \A at \in {"inner", "scratch"} : Present(q, Block(b), at)
           /\ ((r.n \div 2) \div 2) > 0 => Present(q, Block(b), "t1")
           /\ h[b].fn = "none"
  <1> DEFINE nc == (r.n \div 2)
             ntw == (nc \div 2)
             i == Inner(r, nc, r.dir, {})
             x1 == ntw * 2 * Elem(r)
             x == Align64((4 * nc + 2 * (nc + 1)) * Elem(r))
             c == ntw > 0
             A1 == {New("transform"), Make("inner", i)}
             A2 == IF c THEN {Alloc("t1", x1), Check({"t1"})} ELSE {}
             A3 == {Alloc("scratch", x), Check({"scratch"})}
             A == A1 \cup A2 \cup A3
             s1 == <<New("transform"), Make("inner", i)>>
             s2 == If(c, Need("t1", x1))
             s3 == Need("scratch", x)
  <1>1. Steps(r) = s1 \o s2 \o s3
    BY DEF Steps, RfftSteps
  <1>2. /\ Listed(s1, A1) /\ Listed(s3, A3)
    BY TwoListed, NeedListed
  <1>3. Listed(s2, A2)
    <2>1. c \in BOOLEAN /\ Listed(Need("t1", x1), {Alloc("t1", x1), Check({"t1"})})
      BY NeedListed
    <2> HIDE DEF c
    <2> QED
      BY <2>1, IfListed
  <1> HIDE DEF nc, ntw, i, x1, x, c
  <1>4. Listed(Steps(r), A)
    <2> HIDE DEF A1, A2, A3, s1, s2, s3
    <2>1. Listed(s1 \o s2, A1 \cup A2)
      BY <1>2, <1>3, ListedJoin
    <2>2. Listed(s1 \o s2 \o s3, A)
      BY <2>1, <1>2, ListedJoin
    <2> QED
      BY <2>2, <1>1
  <1>5. Endowed(h, q, b, A)
    BY <1>4, EndowedIs
  <1>6. h[b].fn = "none"
    BY <1>5, UsesOf DEF Endowed
  <1>7. \A at \in {"inner", "scratch"} : Present(q, Block(b), at)
    BY <1>5, FirmOf DEF Endowed
  <1>8. c => Present(q, Block(b), "t1")
    BY <1>5, FirmOf DEF Endowed
  <1>9. ASSUME NEW o \in q, o.by = Block(b)
        PROVE  \/ Window(h, h[b].req, o)
               \/ Inside(h, o, "inner", i)
               \/ Bytes(h, o, "t1", x1)
               \/ Bytes(h, o, "scratch", x)
    BY <1>5, <1>9, FitNothing, FitAlloc, FitMake DEF Endowed
  <1> QED
    BY <1>6, <1>7, <1>8, <1>9 DEF nc, ntw, i, x1, x, c

LEMMA CwtHas ==
    ASSUME NEW h, NEW q, NEW b, Whole(h, q, b), NEW r, r = Base(h[b].req),
           r.maker \in {"cwt", "icwt"}
    PROVE  /\ \A o \in q : o.by = Block(b) =>
                  \/ Window(h, h[b].req, o)
                  \/ Inside(h, o, "bank", [r EXCEPT !.maker = "bank"])
           /\ \A at \in {"bank"} : Present(q, Block(b), at)
           /\ h[b].fn = "none"
  <1> DEFINE i == [r EXCEPT !.maker = "bank"]
             A1 == {Make("bank", i), New("transform")}
             A == A1
             s1 == <<Make("bank", i), New("transform")>>
  <1>1. Steps(r) = s1
    BY DEF Steps, CwtSteps
  <1>2. Listed(s1, A1)
    BY TwoListed
  <1> HIDE DEF i
  <1>3. Listed(Steps(r), A)
    BY <1>1, <1>2
  <1>4. Endowed(h, q, b, A)
    BY <1>3, EndowedIs
  <1>5. h[b].fn = "none"
    BY <1>4, UsesOf DEF Endowed
  <1>6. \A at \in {"bank"} : Present(q, Block(b), at)
    BY <1>4, FirmOf DEF Endowed
  <1>7. ASSUME NEW o \in q, o.by = Block(b)
        PROVE  \/ Window(h, h[b].req, o)
               \/ Inside(h, o, "bank", i)
    BY <1>4, <1>7, FitNothing, FitMake DEF Endowed
  <1> QED
    BY <1>5, <1>6, <1>7 DEF i

LEMMA PipelineHas ==
    ASSUME NEW h, NEW q, NEW b, Whole(h, q, b), NEW r, r = Base(h[b].req),
           r.maker = "pipeline"
    PROVE  /\ \A o \in q : o.by = Block(b) =>
                  \/ Window(h, h[b].req, o)
                  \/ Inside(h, o, "inner", [InnerReal(r, "fwd") EXCEPT !.layout = r.layout])
                  \/ "irfft" \in r.flags /\ Inside(h, o, "inner_inv", [InnerReal(r, "inv") EXCEPT !.layout = r.layout, !.prec = TailPrec(r)])
                  \/ o.at = "code"
                  \/ Bytes(h, o, "scratch", Align64((r.n \div 2 + 1) * 2 * Elem(r)))
           /\ \A at \in {"inner", "scratch"} : Present(q, Block(b), at)
           /\ "irfft" \in r.flags => Present(q, Block(b), "inner_inv")
           /\ h[b].fn = "none"
  <1> DEFINE i == [InnerReal(r, "fwd") EXCEPT !.layout = r.layout]
             j == [InnerReal(r, "inv") EXCEPT !.layout = r.layout, !.prec = TailPrec(r)]
             x == Align64((r.n \div 2 + 1) * 2 * Elem(r))
             c1 == "irfft" \in r.flags
             c2 == "ops" \in r.flags
             c3 == "unknown" \in r.flags
             A1 == {Make("inner", i)}
             A2 == IF c1 THEN {Make("inner_inv", j)} ELSE {}
             A3 == {NewQuiet("transform")}
             A4 == IF c2 THEN {Alloc("code", 16), CheckQuiet({"code"})} ELSE {}
             A5 == IF c3 THEN {Reject} ELSE {}
             A6 == {Alloc("scratch", x), Check({"scratch"})}
             A == A1 \cup A2 \cup A3 \cup A4 \cup A5 \cup A6
             s1 == <<Make("inner", i)>>
             s2 == If(c1, <<Make("inner_inv", j)>>)
             s3 == <<NewQuiet("transform")>>
             s4 == If(c2, <<Alloc("code", 16), CheckQuiet({"code"})>>)
             s5 == If(c3, <<Reject>>)
             s6 == Need("scratch", x)
  <1>1. Steps(r) = s1 \o s2 \o s3 \o s4 \o s5 \o s6
    BY DEF Steps, PipelineSteps
  <1>2. /\ Listed(s1, A1) /\ Listed(s3, A3) /\ Listed(s6, A6)
    BY OneListed, NeedListed
  <1>3. Listed(s2, A2)
    <2>1. c1 \in BOOLEAN /\ Listed(<<Make("inner_inv", j)>>, {Make("inner_inv", j)})
      BY OneListed
    <2> HIDE DEF c1
    <2> QED
      BY <2>1, IfListed
  <1>4. Listed(s4, A4)
    <2>1. c2 \in BOOLEAN /\ Listed(<<Alloc("code", 16), CheckQuiet({"code"})>>, {Alloc("code", 16), CheckQuiet({"code"})})
      BY TwoListed
    <2> HIDE DEF c2
    <2> QED
      BY <2>1, IfListed
  <1>5. Listed(s5, A5)
    <2>1. c3 \in BOOLEAN /\ Listed(<<Reject>>, {Reject})
      BY OneListed
    <2> HIDE DEF c3
    <2> QED
      BY <2>1, IfListed
  <1> HIDE DEF i, j, x, c1, c2, c3
  <1>6. Listed(Steps(r), A)
    <2> HIDE DEF A1, A2, A3, A4, A5, A6, s1, s2, s3, s4, s5, s6
    <2>1. Listed(s1 \o s2, A1 \cup A2)
      BY <1>2, <1>3, ListedJoin
    <2>2. Listed(s1 \o s2 \o s3, A1 \cup A2 \cup A3)
      BY <2>1, <1>2, ListedJoin
    <2>3. Listed(s1 \o s2 \o s3 \o s4, A1 \cup A2 \cup A3 \cup A4)
      BY <2>2, <1>4, ListedJoin
    <2>4. Listed(s1 \o s2 \o s3 \o s4 \o s5, A1 \cup A2 \cup A3 \cup A4 \cup A5)
      BY <2>3, <1>5, ListedJoin
    <2>5. Listed(s1 \o s2 \o s3 \o s4 \o s5 \o s6, A)
      BY <2>4, <1>2, ListedJoin
    <2> QED
      BY <2>5, <1>1
  <1>7. Endowed(h, q, b, A)
    BY <1>6, EndowedIs
  <1>8. h[b].fn = "none"
    BY <1>7, UsesOf DEF Endowed
  <1>9. /\ Make("inner", i) \in A
        /\ (c1 => Make("inner_inv", j) \in A)
        /\ (c2 => CheckQuiet({"code"}) \in A)
        /\ Check({"scratch"}) \in A
    OBVIOUS
  <1> HIDE DEF A
  <1>10. \A at \in {"inner", "scratch"} : Present(q, Block(b), at)
    BY <1>7, <1>9, FirmOf DEF Endowed
  <1>11. c1 => Present(q, Block(b), "inner_inv")
    BY <1>7, <1>9, FirmOf DEF Endowed
  <1> USE DEF A
  <1>12. ASSUME NEW o \in q, o.by = Block(b)
        PROVE  \/ Window(h, h[b].req, o)
               \/ Inside(h, o, "inner", i)
               \/ c1 /\ Inside(h, o, "inner_inv", j)
               \/ o.at = "code"
               \/ Bytes(h, o, "scratch", x)
    <2>1. CASE \E y \in A : Fit(h, y, o)
      <3>1. PICK y \in A : Fit(h, y, o)
        BY <2>1
      <3>2. \/ y \in {Make("inner", i), NewQuiet("transform"), Alloc("scratch", x), Check({"scratch"})}
            \/ c1 /\ y = Make("inner_inv", j)
            \/ y \in {Alloc("code", 16), CheckQuiet({"code"}), Reject}
        OBVIOUS
      <3>3. \/ Fit(h, Make("inner", i), o) \/ Fit(h, Alloc("scratch", x), o)
            \/ c1 /\ Fit(h, Make("inner_inv", j), o)
            \/ Fit(h, Alloc("code", 16), o)
        BY <3>1, <3>2, FitNothing
      <3>4. Fit(h, Alloc("code", 16), o) => o.at = "code"
        BY FitAlloc DEF Bytes
      <3> QED
        BY <3>3, <3>4, FitAlloc, FitMake
    <2> QED
      BY <1>7, <1>12, <2>1 DEF Endowed
  <1> QED
    BY <1>8, <1>10, <1>11, <1>12 DEF i, j, x, c1, c2, c3

LEMMA BankHas ==
    ASSUME NEW h, NEW q, NEW b, Whole(h, q, b), NEW r, r = Base(h[b].req),
           r.maker = "bank"
    PROVE  /\ \A o \in q : o.by = Block(b) =>
                  \/ Window(h, h[b].req, o)
                  \/ Inside(h, o, "rfft", InnerReal(r, "fwd"))
                  \/ Inside(h, o, "irfft", InnerReal(r, "inv"))
                  \/ Bytes(h, o, "Psi_dual", Align64((Rows(r) * Padded(r)) * 8))
                  \/ Bytes(h, o, "Psi", Align64((Rows(r) * Padded(r)) * Elem(r)))
                  \/ Bytes(h, o, "Psi_dual_f32", Align64((Rows(r) * Padded(r)) * 4))
                  \/ o.at \in {"X_re", "X_im", "Y_re", "Y_im"} /\ h[o.to].bytes = Align64(Padded(r) * Elem(r))
                  \/ o.at \in {"scales", "freqs_hz", "Psi_l2", "A", "xi"}
           /\ \A at \in {"rfft", "irfft"} : Present(q, Block(b), at)
           /\ \A at \in {"scales", "freqs_hz", "Psi_l2", "A", "Psi_dual", "xi", "Psi"} \cup {"X_re", "X_im", "Y_re", "Y_im"} : Present(q, Block(b), at)
           /\ r.prec = "f32" => Present(q, Block(b), "Psi_dual_f32")
           /\ h[b].fn = "none"
  <1> DEFINE bins == (r.n \div 2 + 1)
             table == (Rows(r) * Padded(r))
             plane == Align64(Padded(r) * Elem(r))
             x1 == Align64(Scales * 8)
             x2 == Align64(table * 8)
             x3 == Align64(bins * 8)
             x4 == Align64(table * Elem(r))
             x5 == Align64(table * 4)
             i == InnerReal(r, "fwd")
             j == InnerReal(r, "inv")
             c1 == r.prec = "f32"
             c2 == "strict" \in r.flags
             K == {"scales", "freqs_hz", "Psi_l2", "A", "Psi_dual", "xi", "Psi"}
             L == {"X_re", "X_im", "Y_re", "Y_im"}
             A1 == {New("bank"), Alloc("scales", x1), Alloc("freqs_hz", x1), Alloc("Psi_l2", x2), Alloc("A", x3), Alloc("Psi_dual", x2), Alloc("xi", x3), Alloc("Psi", x4), Check(K), Test}
             A2 == IF c1 THEN {Alloc("Psi_dual_f32", x5), Check({"Psi_dual_f32"})} ELSE {}
             A3 == IF c2 THEN {Test} ELSE {}
             A4 == {Make("rfft", i), Make("irfft", j), Alloc("X_re", plane), Alloc("X_im", plane), Alloc("Y_re", plane), Alloc("Y_im", plane), Check(L), Test}
             A == A1 \cup A2 \cup A3 \cup A4
             s1 == <<New("bank"), Alloc("scales", x1), Alloc("freqs_hz", x1), Alloc("Psi_l2", x2), Alloc("A", x3), Alloc("Psi_dual", x2), Alloc("xi", x3), Alloc("Psi", x4), Check(K), Test>>
             s2 == If(c1, Need("Psi_dual_f32", x5))
             s3 == If(c2, <<Test>>)
             s4 == <<Make("rfft", i), Make("irfft", j), Alloc("X_re", plane), Alloc("X_im", plane), Alloc("Y_re", plane), Alloc("Y_im", plane), Check(L), Test>>
  <1>1. Steps(r) = s1 \o s2 \o s3 \o s4
    BY DEF Steps, BankSteps
  <1>2. /\ Listed(s1, A1) /\ Listed(s4, A4)
    BY TenListed, EightListed
  <1>3. Listed(s2, A2)
    <2>1. c1 \in BOOLEAN /\ Listed(Need("Psi_dual_f32", x5), {Alloc("Psi_dual_f32", x5), Check({"Psi_dual_f32"})})
      BY NeedListed
    <2> HIDE DEF c1
    <2> QED
      BY <2>1, IfListed
  <1>4. Listed(s3, A3)
    <2>1. c2 \in BOOLEAN /\ Listed(<<Test>>, {Test})
      BY OneListed
    <2> HIDE DEF c2
    <2> QED
      BY <2>1, IfListed
  <1> HIDE DEF bins, table, plane, x1, x2, x3, x4, x5, i, j, c1, c2, K, L
  <1>5. Listed(Steps(r), A)
    <2> HIDE DEF A1, A2, A3, A4, s1, s2, s3, s4
    <2>1. Listed(s1 \o s2, A1 \cup A2)
      BY <1>2, <1>3, ListedJoin
    <2>2. Listed(s1 \o s2 \o s3, A1 \cup A2 \cup A3)
      BY <2>1, <1>4, ListedJoin
    <2>3. Listed(s1 \o s2 \o s3 \o s4, A)
      BY <2>2, <1>2, ListedJoin
    <2> QED
      BY <2>3, <1>1
  <1>6. Endowed(h, q, b, A)
    BY <1>5, EndowedIs
  <1>7. h[b].fn = "none"
    BY <1>6, UsesOf DEF Endowed
  <1>8. /\ Check(K) \in A
        /\ (c1 => Check({"Psi_dual_f32"}) \in A)
        /\ Make("rfft", i) \in A
        /\ Make("irfft", j) \in A
        /\ Check(L) \in A
    OBVIOUS
  <1> HIDE DEF A
  <1>9. \A at \in {"rfft", "irfft"} : Present(q, Block(b), at)
    BY <1>6, <1>8, FirmOf DEF Endowed
  <1>10. \A at \in K \cup L : Present(q, Block(b), at)
    <2>1. "self" \notin K /\ "self" \notin L
      BY DEF K, L
    <2>2. Firm(Check(K)) = K /\ Firm(Check(L)) = L
      BY FirmOf
    <2> QED
      BY <1>6, <1>8, <2>1, <2>2 DEF Endowed
  <1>11. c1 => Present(q, Block(b), "Psi_dual_f32")
    BY <1>6, <1>8, FirmOf DEF Endowed
  <1> USE DEF A
  <1>12. ASSUME NEW o \in q, o.by = Block(b)
        PROVE  \/ Window(h, h[b].req, o)
               \/ Inside(h, o, "rfft", i)
               \/ Inside(h, o, "irfft", j)
               \/ Bytes(h, o, "Psi_dual", x2)
               \/ Bytes(h, o, "Psi", x4)
               \/ Bytes(h, o, "Psi_dual_f32", x5)
               \/ o.at \in L /\ h[o.to].bytes = plane
               \/ o.at \in {"scales", "freqs_hz", "Psi_l2", "A", "xi"}
    <2>1. CASE \E y \in A : Fit(h, y, o)
      <3>1. PICK y \in A : Fit(h, y, o)
        BY <2>1
      <3>2. \/ y \in {Alloc("scales", x1), Alloc("freqs_hz", x1), Alloc("Psi_l2", x2)}
            \/ y \in {Alloc("A", x3), Alloc("xi", x3)}
            \/ y \in {Alloc("Psi_dual", x2), Alloc("Psi", x4), Alloc("Psi_dual_f32", x5)}
            \/ y \in {Alloc("X_re", plane), Alloc("X_im", plane)}
            \/ y \in {Alloc("Y_re", plane), Alloc("Y_im", plane)}
            \/ y \in {Make("rfft", i), Make("irfft", j)}
            \/ y \in {New("bank"), Test, Check(K), Check(L), Check({"Psi_dual_f32"})}
        OBVIOUS
      <3>3. CASE \/ y \in {Alloc("scales", x1), Alloc("freqs_hz", x1), Alloc("Psi_l2", x2)}
                 \/ y \in {Alloc("A", x3), Alloc("xi", x3)}
        BY <3>1, <3>3, FitAlloc DEF Bytes
      <3>4. CASE y \in {Alloc("Psi_dual", x2), Alloc("Psi", x4), Alloc("Psi_dual_f32", x5)}
        BY <3>1, <3>4, FitAlloc
      <3>5. CASE \/ y \in {Alloc("X_re", plane), Alloc("X_im", plane)}
                 \/ y \in {Alloc("Y_re", plane), Alloc("Y_im", plane)}
        BY <3>1, <3>5, FitAlloc DEF Bytes, L
      <3>6. CASE y \in {Make("rfft", i), Make("irfft", j)}
        BY <3>1, <3>6, FitMake
      <3>7. y \notin {New("bank"), Test, Check(K), Check(L), Check({"Psi_dual_f32"})}
        BY <3>1, FitNothing
      <3> QED
        BY <3>2, <3>3, <3>4, <3>5, <3>6, <3>7
    <2> QED
      BY <1>6, <1>12, <2>1 DEF Endowed
  <1> QED
    BY <1>7, <1>9, <1>10, <1>11, <1>12 DEF bins, table, plane, x1, x2, x3, x4, x5, i, j, c1, c2, K, L

-----------------------------------------------------------------------------
(* Every request comes from one of the caller's.                           *)
Stems(r, c) ==
    /\ r.n = c.n /\ r.prec = c.prec /\ r.layout = c.layout /\ r.flags = c.flags
    /\ \/ r.maker = c.maker
       \/ c.maker = "cwt" /\ r.maker = "icwt"
       \/ c.maker = "stft" /\ r.maker = "fft"
Legit(r) ==
    /\ LengthsFound => r.n \in Nat
    /\ \/ \E c \in Requests : Stems(r, c)
       \/ r.maker = "fft" /\ r.layout = "split" /\ "bluestein" \notin r.flags
       \/ r.maker = "rfft" /\ r.flags = {}
       \/ r.maker = "bank"
HeapLegit(h) == \A b \in DOMAIN h : Legit(h[b].req)
StackLegit(s) ==
    \A k \in 1..Len(s) : Legit(s[k].req) /\ (k = 1 => s[k].req.maker # "bank")
Legitimate == HeapLegit(heap) /\ StackLegit(stack)

LEMMA LegitAsked ==
    ASSUME NEW r \in Requests
    PROVE  Legit(r) /\ r.maker # "bank"
  <1>1. r.n \in Nat /\ r.maker \in Makers
    BY RequestsAssumption DEF RequestSet
  <1>2. Stems(r, r)
    BY DEF Stems
  <1> QED
    BY <1>1, <1>2 DEF Legit, Makers

LEMMA LegitDerives ==
    ASSUME NEW q, NEW r, Legit(r), Derives(q, r)
    PROVE  Legit(q)
  <1>1. CASE q.maker = "bank" /\ q.n = r.n
    BY <1>1 DEF Legit
  <1>2. CASE q.maker = "rfft" /\ q.n = r.n /\ q.flags = {}
    BY <1>2 DEF Legit
  <1>3. CASE /\ q.maker = "fft" /\ q.layout = "split" /\ "bluestein" \notin q.flags
             /\ \/ q.n = r.n - 1 /\ r.n >= 11
                \/ q.n = r.n \div 2
                \/ q.n = BluesteinLength(r.n) /\ r.maker = "fft" /\ "bluestein" \in r.flags
    <2>1. CASE q.n = r.n - 1 /\ r.n >= 11
      BY <1>3, <2>1 DEF Legit
    <2>2. CASE q.n = r.n \div 2
      BY <1>3, <2>2 DEF Legit
    <2>3. CASE q.n = BluesteinLength(r.n) /\ r.maker = "fft" /\ "bluestein" \in r.flags
      <3>1. PICK c \in Requests : Stems(r, c)
        BY <2>3 DEF Legit
      <3>2. q.n = BluesteinLength(c.n)
        BY <2>3, <3>1 DEF Stems
      <3>3. LengthsFound => q.n \in Nat
        BY <3>2 DEF LengthsFound
      <3> QED
        BY <1>3, <3>3 DEF Legit
    <2> QED
      BY <1>3, <2>1, <2>2, <2>3
  <1>4. CASE /\ r.maker = "stft" /\ q.maker = "fft" /\ q.n = r.n /\ q.prec = r.prec
             /\ q.layout = r.layout /\ q.flags = r.flags
    <2>1. PICK c \in Requests : Stems(r, c)
      BY <1>4 DEF Legit
    <2>2. c.maker = "stft"
      BY <1>4, <2>1 DEF Stems
    <2>3. Stems(q, c)
      BY <1>4, <2>1, <2>2 DEF Stems
    <2> QED
      BY <1>4, <2>3 DEF Legit
  <1> QED
    BY <1>1, <1>2, <1>3, <1>4 DEF Derives

LEMMA LegitInverse ==
    ASSUME NEW r, IsRequest(r), Legit(r), r.maker # "bank"
    PROVE  Legit(InverseOf(r)) /\ InverseOf(r).maker # "bank"
  <1> DEFINE q == InverseOf(r)
  <1>1. CASE r.maker = "cwt"
    <2>1. q = [r EXCEPT !.maker = "icwt"]
      BY <1>1 DEF InverseOf
    <2> HIDE DEF q
    <2>2. Same(q, "icwt", r.n, r.prec, r.dir, r.layout, r.flags)
      BY <2>1, Derived
    <2>3. PICK c \in Requests : Stems(r, c)
      BY <1>1 DEF Legit
    <2>4. Stems(q, c)
      BY <1>1, <2>2, <2>3 DEF Stems, Same
    <2>5. Legit(q) /\ q.maker # "bank"
      BY <2>2, <2>4 DEF Legit, Same
    <2> QED
      BY <2>5 DEF q
  <1>2. CASE r.maker # "cwt"
    <2>1. q = [r EXCEPT !.dir = Flipped(r.dir)]
      BY <1>2 DEF InverseOf
    <2> HIDE DEF q
    <2>2. Same(q, r.maker, r.n, r.prec, Flipped(r.dir), r.layout, r.flags)
      BY <2>1, Derived
    <2>3. /\ q.maker = r.maker /\ q.n = r.n /\ q.prec = r.prec /\ q.layout = r.layout
          /\ q.flags = r.flags
      BY <2>2 DEF Same
    <2>4. \A c : Stems(r, c) => Stems(q, c)
      BY <2>3 DEF Stems
    <2>5. Legit(q) /\ q.maker # "bank"
      BY <2>3, <2>4 DEF Legit
    <2> QED
      BY <2>5 DEF q
  <1> QED
    BY <1>1, <1>2

(* The stack keeps its requests while the counters move.                   *)
LEMMA LegitMarked ==
    ASSUME NEW s, \E S : s \in Seq(S), s # <<>>, StackLegit(s), NEW s2, NEW v,
           \/ s2 = [s EXCEPT ![Len(s)].pc = v]
           \/ s2 = [s EXCEPT ![Len(s)].pc = @ + 1]
    PROVE  StackLegit(s2)
  <1>1. PICK S : s \in Seq(S)
    OBVIOUS
  <1>2. Len(s) \in Nat \ {0} /\ DOMAIN s = 1..Len(s)
    BY <1>1
  <1>3. \E w : s2 = [k \in 1..Len(s) |-> IF k = Len(s) THEN [s[Len(s)] EXCEPT !.pc = w] ELSE s[k]]
    BY <1>2
  <1>4. PICK w : s2 = [k \in 1..Len(s) |-> IF k = Len(s) THEN [s[Len(s)] EXCEPT !.pc = w] ELSE s[k]]
    BY <1>3
  <1>5. Len(s2) = Len(s)
    BY <1>2, <1>4
  <1>6. ASSUME NEW k \in 1..Len(s) PROVE s2[k].req = s[k].req
    BY <1>4
  <1> QED
    BY <1>5, <1>6 DEF StackLegit

LEMMA LegitShorter ==
    ASSUME NEW s, \E S : s \in Seq(S), s # <<>>, StackLegit(s)
    PROVE  StackLegit(Shorter(s))
  <1>1. /\ Len(s) \in Nat \ {0} /\ Len(Shorter(s)) = Len(s) - 1
        /\ \A k \in 1..Len(s) - 1 : Shorter(s)[k] = s[k]
    BY ShorterIs
  <1>2. \A k \in 1..Len(s) - 1 : k \in 1..Len(s)
    BY <1>1
  <1> QED
    BY <1>1, <1>2 DEF StackLegit

LEMMA LegitStored ==
    ASSUME NEW h, HeapLegit(h), NEW b, NEW kind, NEW bytes, NEW r, Legit(r)
    PROVE  HeapLegit(Stored(h, b, Record(kind, bytes, r)))
  <1>1. Record(kind, bytes, r).req = r
    BY DEF Record
  <1> DEFINE x == Record(kind, bytes, r)
             h2 == Stored(h, b, x)
  <1>2. x.req = r
    BY <1>1
  <1> HIDE DEF x
  <1>3. DOMAIN h2 = DOMAIN h \cup {b} /\ \A c \in DOMAIN h2 : h2[c] = x \/ (c \in DOMAIN h /\ h2[c] = h[c])
    BY DEF Stored
  <1> HIDE DEF h2
  <1>4. HeapLegit(h2)
    BY <1>2, <1>3 DEF HeapLegit
  <1> QED
    BY <1>4 DEF h2, x

LEMMA LegitField ==
    ASSUME NEW h, HeapLegit(h), Entries(h), NEW b, NEW v, NEW h2,
           \/ h2 = [h EXCEPT ![b].fn = v]
           \/ h2 = [h EXCEPT ![b].req = v] /\ Legit(v)
    PROVE  HeapLegit(h2)
  <1> SUFFICES ASSUME NEW c \in DOMAIN h2 PROVE Legit(h2[c].req)
    BY DEF HeapLegit
  <1>1. c \in DOMAIN h
    OBVIOUS
  <1>2. Legit(h[c].req)
    BY <1>1 DEF HeapLegit
  <1>3. h[c] = [kind |-> h[c].kind, bytes |-> h[c].bytes, req |-> h[c].req, fn |-> h[c].fn]
    BY <1>1 DEF Entries
  <1>4. CASE c # b
    <2>1. h2[c] = h[c]
      BY <1>1, <1>4
    <2> QED
      BY <1>2, <2>1
  <1>5. CASE c = b /\ h2 = [h EXCEPT ![b].fn = v]
    <2>1. h2[c] = [h[c] EXCEPT !.fn = v]
      BY <1>1, <1>5
    <2>2. h2[c].req = h[c].req
      BY <1>3, <2>1
    <2> QED
      BY <1>2, <2>2
  <1>6. CASE c = b /\ h2 = [h EXCEPT ![b].req = v] /\ Legit(v)
    <2>1. h2[c] = [h[c] EXCEPT !.req = v]
      BY <1>1, <1>6
    <2>2. h2[c].req = v
      BY <1>3, <2>1
    <2> QED
      BY <1>6, <2>2
  <1> QED
    BY <1>4, <1>5, <1>6

LEMMA LegitTop ==
    ASSUME Life, Legitimate, stack # <<>>
    PROVE  /\ Legit(Top.req) /\ Entries(heap) /\ \E S : stack \in Seq(S)
           /\ HeapLegit(heap) /\ StackLegit(stack)
  BY Standing DEF Legitimate, StackLegit, Top, Depth

LEMMA LegitAdvance ==
    ASSUME Life, Legitimate, stack # <<>>, NEW v,
           Advance \/ stack' = [stack EXCEPT ![Depth].pc = v]
    PROVE  StackLegit(stack')
  BY LegitTop, LegitMarked DEF Advance, Depth

LEMMA LegitBuilds ==
    Life /\ Legitimate /\ (StepNew \/ StepAlloc \/ StepGenerate \/ StepMeasure \/ StepWindow \/ StepUse)
        => Legitimate'
  <1> SUFFICES ASSUME Life, Legitimate,
                      StepNew \/ StepAlloc \/ StepGenerate \/ StepMeasure \/ StepWindow \/ StepUse
               PROVE  Legitimate'
    OBVIOUS
  <1>1. stack # <<>>
    BY DEF StepNew, StepAlloc, StepGenerate, StepMeasure, StepWindow, StepUse, AtStep
  <1>2. Legit(Top.req) /\ Entries(heap) /\ HeapLegit(heap)
    BY <1>1, LegitTop
  <1>3. StackLegit(stack')
    BY <1>1, LegitAdvance DEF StepNew, StepAlloc, StepGenerate, StepMeasure, StepWindow, StepUse
  <1>4. \A h, b, kind, bytes : HeapLegit(h) => HeapLegit(Stored(h, b, Record(kind, bytes, Top.req)))
    BY <1>2, LegitStored
  <1>5. HeapLegit(heap')
    <2>1. CASE StepNew
      BY <1>2, <1>4, <2>1 DEF StepNew
    <2>2. CASE StepAlloc
      BY <1>2, <1>4, <2>2 DEF StepAlloc
    <2>3. CASE StepGenerate
      BY <1>2, <1>4, <2>3 DEF StepGenerate
    <2>4. CASE StepMeasure
      <3>1. HeapLegit([heap EXCEPT ![Self].fn = "dit"])
        BY <1>2, LegitField
      <3> QED
        BY <1>2, <1>4, <2>4, <3>1 DEF StepMeasure
    <2>5. CASE StepWindow
      <3>1. HeapLegit([heap EXCEPT ![Self].req = Top.req])
        BY <1>2, LegitField
      <3> QED
        BY <1>2, <1>4, <2>5, <3>1 DEF StepWindow
    <2>6. CASE StepUse
      BY <1>2, <2>6, LegitField DEF StepUse
    <2> QED
      BY <2>1, <2>2, <2>3, <2>4, <2>5, <2>6
  <1> QED
    BY <1>3, <1>5 DEF Legitimate

LEMMA LegitChecks == Life /\ Legitimate /\ (StepCheck \/ StepTest \/ StepReject) => Legitimate'
  <1> SUFFICES ASSUME Life, Legitimate, StepCheck \/ StepTest \/ StepReject PROVE Legitimate'
    OBVIOUS
  <1>1. stack # <<>> /\ heap' = heap
    BY DEF StepCheck, StepTest, StepReject, AtStep, Fail
  <1>2. StackLegit(stack')
    BY <1>1, LegitAdvance DEF StepCheck, StepTest, StepReject, Fail
  <1> QED
    BY <1>1, <1>2 DEF Legitimate

LEMMA LegitPushed ==
    ASSUME NEW s, \E S : s \in Seq(S), s # <<>>, StackLegit(s), NEW f, Legit(f.req)
    PROVE  StackLegit(Append(s, f))
  <1>1. PICK S : s \in Seq(S)
    OBVIOUS
  <1>2. /\ Len(s) \in Nat \ {0} /\ Len(Append(s, f)) = Len(s) + 1
        /\ \A k \in 1..Len(s) : Append(s, f)[k] = s[k]
        /\ Append(s, f)[Len(s) + 1] = f
    <2>1. s \in Seq(S \cup {f})
      BY <1>1
    <2> QED
      BY <2>1
  <1>3. \A k \in 1..Len(s) + 1 : k \in 1..Len(s) \/ k = Len(s) + 1
    BY <1>2
  <1> QED
    BY <1>2, <1>3 DEF StackLegit

LEMMA LegitMakes == Life /\ Legitimate /\ StepMake => Legitimate'
  <1> SUFFICES ASSUME Life, Legitimate, StepMake PROVE Legitimate'
    OBVIOUS
  <1>1. stack # <<>> /\ Top.pc \in 1..Len(Steps(Top.req)) /\ Cur.op = "make"
    BY AtStepIs DEF StepMake
  <1>2. /\ Legit(Top.req) /\ HeapLegit(heap) /\ StackLegit(stack) /\ \E S : stack \in Seq(S)
        /\ heap' = heap
    BY <1>1, LegitTop DEF StepMake, Fail
  <1>3. CASE Accepts(Cur.req)
    <2>1. StepFits(Cur, Top.req)
      BY <1>1, Standing, StepKnown DEF Cur
    <2>2. Legit(Cur.req)
      BY <1>1, <1>2, <2>1, LegitDerives DEF StepFits
    <2> DEFINE f == [req |-> Cur.req, pc |-> 1]
    <2>3. stack' = Append(stack, f)
      BY <1>3 DEF StepMake
    <2>4. f.req = Cur.req
      OBVIOUS
    <2> HIDE DEF f
    <2>5. StackLegit(stack')
      BY <1>1, <1>2, <2>2, <2>3, <2>4, LegitPushed
    <2> QED
      BY <1>2, <2>5 DEF Legitimate
  <1>4. CASE ~Accepts(Cur.req)
    <2>1. StackLegit(stack')
      BY <1>1, <1>4, LegitAdvance DEF StepMake, Fail
    <2> QED
      BY <1>2, <2>1 DEF Legitimate
  <1> QED
    BY <1>3, <1>4

LEMMA LegitReturns == Life /\ Legitimate /\ (ReturnMade \/ ReturnNull) => Legitimate'
  <1> SUFFICES ASSUME Life, Legitimate, ReturnMade \/ ReturnNull PROVE Legitimate'
    OBVIOUS
  <1>1. stack # <<>> /\ heap' = heap
    BY DEF ReturnMade, ReturnNull
  <1>2. /\ HeapLegit(heap) /\ StackLegit(stack) /\ \E S : stack \in Seq(S)
    BY <1>1, LegitTop
  <1>3. CASE Depth = 1
    <2>1. stack' = <<>> /\ Len(<<>>) = 0 /\ 1..0 = {}
      BY <1>3 DEF ReturnMade, ReturnNull
    <2>2. StackLegit(stack')
      BY <2>1 DEF StackLegit
    <2> QED
      BY <1>1, <1>2, <2>2 DEF Legitimate
  <1>4. CASE Depth # 1
    <2> DEFINE s == Shorter(stack)
    <2>1. /\ \E S : s \in Seq(S)
          /\ Len(stack) \in Nat \ {0} /\ Len(s) = Len(stack) - 1
          /\ Len(stack) > 1 => s # <<>>
      BY <1>1, <1>2, ShorterIs
    <2>2. s # <<>> /\ Len(s) = Depth - 1
      BY <1>4, <2>1 DEF Depth
    <2>3. StackLegit(s)
      BY <1>1, <1>2, LegitShorter
    <2>4. \/ stack' = [s EXCEPT ![Depth - 1].pc = @ + 1]
          \/ stack' = [s EXCEPT ![Depth - 1].pc = 0]
      BY <1>4 DEF ReturnMade, ReturnNull, Shorter, Depth
    <2> HIDE DEF s
    <2>5. \/ stack' = [s EXCEPT ![Len(s)].pc = @ + 1]
          \/ stack' = [s EXCEPT ![Len(s)].pc = 0]
      BY <2>2, <2>4
    <2>6. StackLegit(stack')
      BY <2>1, <2>2, <2>3, <2>5, LegitMarked
    <2> QED
      BY <1>1, <1>2, <2>6 DEF Legitimate
  <1> QED
    BY <1>3, <1>4

LEMMA LegitEnters ==
    ASSUME Legitimate, NEW r, Legit(r), r.maker # "bank", Enter(r), UNCHANGED <<heap, ptr>>
    PROVE  Legitimate'
  <1>1. CASE Accepts(r)
    <2> DEFINE f == [req |-> r, pc |-> 1]
    <2>1. stack' = <<f>> /\ f.req = r
      BY <1>1 DEF Enter
    <2> HIDE DEF f
    <2>2. Len(<<f>>) = 1 /\ <<f>>[1] = f /\ \A k \in 1..1 : k = 1
      OBVIOUS
    <2>3. StackLegit(stack')
      BY <2>1, <2>2 DEF StackLegit
    <2> QED
      BY <2>3 DEF Legitimate
  <1>2. CASE ~Accepts(r)
    BY <1>2 DEF Enter, Legitimate
  <1> QED
    BY <1>1, <1>2

(* A transform that was handed over, with what is known of its request.    *)
Standard(h, q, t) ==
    /\ Whole(h, q, t) /\ h[t].kind = "transform" /\ IsRequest(h[t].req)

(* The caller has transforms, and no bank.                                 *)
Entrusted(h, q) == \A p \in q : p.by = Caller => p.at = "handle" /\ h[p.to].kind = "transform"

LEMMA HandleIs ==
    ASSUME Life, Wiring, Legitimate, Entrusted(heap, ptr), NEW t \in Handles
    PROVE  /\ Standard(heap, ptr, t) /\ t \in DOMAIN heap
           /\ Legit(heap[t].req) /\ heap[t].req.maker # "bank"
  <1>1. /\ Sound(heap, ptr, Len(stack)) /\ Entries(heap)
    BY DEF Life, LifeInv, CoreInv
  <1>2. PICK p \in ptr : p.by = Caller /\ p.to = t
    BY DEF Handles, Held
  <1>3. t \in DOMAIN heap /\ heap[t].kind = "transform" /\ p.at = "handle"
    BY <1>1, <1>2 DEF Sound, Entrusted
  <1>4. Leads(heap, p)
    BY <1>2, <1>3, Holders DEF Leads
  <1>5. Whole(heap, ptr, t)
    BY <1>2, <1>4 DEF Wiring, Wired, Links
  <1>6. IsRequest(heap[t].req) /\ Legit(heap[t].req)
    BY <1>1, <1>3 DEF Entries, Proper, Legitimate, HeapLegit
  <1>7. heap[t].req.maker # "bank"
    BY <1>3, <1>5 DEF Whole, Kind
  <1> QED
    BY <1>3, <1>5, <1>6, <1>7 DEF Standard

LEMMA LegitCalls ==
    ASSUME Life, Wiring, Legitimate, Entrusted(heap, ptr),
           \/ \E r \in Requests : Create(r)
           \/ \E h \in Handles : CreateInverse(h) \/ Destroy(h)
    PROVE  Legitimate'
  <1>1. CASE \E r \in Requests : Create(r)
    BY <1>1, LegitAsked, LegitEnters DEF Create
  <1>2. CASE \E h \in Handles : CreateInverse(h)
    <2>1. PICK h \in Handles : CreateInverse(h)
      BY <1>2
    <2>2. stack = <<>> /\ UNCHANGED <<heap, ptr>>
      BY <2>1 DEF CreateInverse, Idle
    <2>3. IsRequest(heap[h].req) /\ Legit(heap[h].req) /\ heap[h].req.maker # "bank"
      BY HandleIs DEF Standard
    <2>4. Legit(InverseOf(heap[h].req)) /\ InverseOf(heap[h].req).maker # "bank"
      BY <2>3, LegitInverse
    <2>5. CASE Enter(InverseOf(heap[h].req))
      BY <2>2, <2>4, <2>5, LegitEnters
    <2>6. CASE UNCHANGED stack
      BY <2>2, <2>6 DEF Legitimate
    <2> QED
      BY <2>1, <2>5, <2>6 DEF CreateInverse
  <1>3. CASE \E h \in Handles : Destroy(h)
    BY <1>3 DEF Destroy, Legitimate
  <1> QED
    BY <1>1, <1>2, <1>3

LEMMA LegitFrees == Legitimate /\ Free => Legitimate'
  <1> SUFFICES ASSUME Legitimate, Free PROVE Legitimate'
    OBVIOUS
  <1>1. \E b : heap' = [c \in DOMAIN heap \ {b} |-> heap[c]]
    BY DEF Free
  <1>2. HeapLegit(heap')
    BY <1>1 DEF Legitimate, HeapLegit
  <1>3. stack' = stack
    BY DEF Free
  <1> QED
    BY <1>2, <1>3 DEF Legitimate

LEMMA LegitInit == Init => Legitimate
  <1> SUFFICES ASSUME Init PROVE Legitimate
    OBVIOUS
  <1>1. heap = <<>> /\ stack = <<>> /\ DOMAIN <<>> = {} /\ Len(<<>>) = 0 /\ 1..0 = {}
    BY DEF Init
  <1> QED
    BY <1>1 DEF Legitimate, HeapLegit, StackLegit

LEMMA LegitSteps ==
    Life /\ Wiring /\ Legitimate /\ Entrusted(heap, ptr) /\ [LifeNext]_lifeVars => Legitimate'
  <1> SUFFICES ASSUME Life, Wiring, Legitimate, Entrusted(heap, ptr), [LifeNext]_lifeVars
               PROVE  Legitimate'
    OBVIOUS
  <1>1. CASE \/ \E r \in Requests : Create(r)
             \/ \E h \in Handles : CreateInverse(h) \/ Destroy(h)
    BY <1>1, LegitCalls
  <1>2. CASE Step
    BY <1>2, LegitBuilds, LegitChecks, LegitMakes, LegitReturns DEF Step
  <1>3. CASE Free
    BY <1>3, LegitFrees
  <1>4. CASE UNCHANGED lifeVars
    BY <1>4 DEF lifeVars, Legitimate
  <1> QED
    BY <1>1, <1>2, <1>3, <1>4 DEF LifeNext

LEMMA EntrustedStays ==
    ASSUME NEW h, NEW q, NEW h2, NEW q2, Entrusted(h, q), \A p \in q : p.to \in DOMAIN h,
           \A p \in q2 : p.by = Caller => p \in q,
           \A a \in DOMAIN h : h2[a].kind = h[a].kind
    PROVE  Entrusted(h2, q2)
  BY DEF Entrusted

LEMMA CallersOwn ==
    /\ \A k : \A p \in GiveUp(k) : p.by = Caller => p \in ptr
    /\ \A b, at, to : \A p \in Assign(Block(b), at, to) : p.by = Caller => p \in ptr
    /\ \A k, b : \A p \in Taken(ptr, k, b) : p.by = Caller => p \in ptr
  <1>1. \A by, at, to : by # Caller => Pointer(by, at, to).by # Caller
    BY Pointers
  <1>2. ASSUME NEW k, NEW p \in GiveUp(k), p.by = Caller PROVE p \in ptr
    BY <1>1, <1>2, Holders DEF GiveUp
  <1>3. ASSUME NEW b, NEW at, NEW to, NEW p \in Assign(Block(b), at, to), p.by = Caller
        PROVE  p \in ptr
    BY <1>1, <1>3, Holders DEF Assign
  <1>4. ASSUME NEW k, NEW b, NEW p \in Taken(ptr, k, b), p.by = Caller PROVE p \in ptr
    BY <1>1, <1>4, Holders DEF Taken, Moved, Own
  <1> QED
    BY <1>2, <1>3, <1>4

LEMMA KindsStay ==
    /\ \A h, b, x : b \notin DOMAIN h => \A a \in DOMAIN h : Stored(h, b, x)[a] = h[a]
    /\ \A h, b, x : b \notin DOMAIN h => DOMAIN h \subseteq DOMAIN Stored(h, b, x)
    /\ \A h, b, v, a : Entries(h) /\ a \in DOMAIN h =>
           [h EXCEPT ![b].fn = v][a].kind = h[a].kind
    /\ \A h, b, v, a : Entries(h) /\ a \in DOMAIN h =>
           [h EXCEPT ![b].req = v][a].kind = h[a].kind
  <1>1. /\ \A h, b, x : b \notin DOMAIN h => \A a \in DOMAIN h : Stored(h, b, x)[a] = h[a]
        /\ \A h, b, x : b \notin DOMAIN h => DOMAIN h \subseteq DOMAIN Stored(h, b, x)
    BY DEF Stored
  <1>2. ASSUME NEW h, NEW b, NEW v, NEW a, Entries(h), a \in DOMAIN h
        PROVE  /\ [h EXCEPT ![b].fn = v][a].kind = h[a].kind
               /\ [h EXCEPT ![b].req = v][a].kind = h[a].kind
    <2>1. PICK k, l, r, f : h[a] = [kind |-> k, bytes |-> l, req |-> r, fn |-> f]
      BY <1>2 DEF Entries
    <2>2. CASE a = b
      <3>1. /\ [h EXCEPT ![b].fn = v][a] = [h[a] EXCEPT !.fn = v]
            /\ [h EXCEPT ![b].req = v][a] = [h[a] EXCEPT !.req = v]
        BY <1>2, <2>2
      <3> QED
        BY <2>1, <3>1
    <2>3. CASE a # b
      BY <1>2, <2>3
    <2> QED
      BY <2>2, <2>3
  <1> QED
    BY <1>1, <1>2

LEMMA EntrustedBuilds ==
    ASSUME Life, Entrusted(heap, ptr), stack # <<>>,
           \/ StepNew \/ StepAlloc \/ StepGenerate \/ StepMeasure \/ StepWindow \/ StepUse
           \/ StepCheck \/ StepTest \/ StepReject \/ StepMake \/ ReturnNull
    PROVE  Entrusted(heap', ptr')
  <1>1. Sound(heap, ptr, Depth) /\ Entries(heap)
    BY Standing
  <1>2. \A p \in ptr : p.to \in DOMAIN heap
    BY <1>1 DEF Sound
  <1>3. \A p \in ptr' : p.by = Caller => p \in ptr
    <2>1. CASE StepNew
      <3>1. CASE ptr' = GiveUp(Depth)
        BY <3>1, CallersOwn
      <3>2. CASE \E b : ptr' = Taken(ptr, Depth, b)
        BY <3>2, CallersOwn
      <3> QED
        BY <2>1, <3>1, <3>2 DEF StepNew, Taken, Moved, Own, Me
    <2>2. CASE StepAlloc
      BY <2>2, CallersOwn DEF StepAlloc
    <2>3. CASE StepGenerate
      <3>1. \/ ptr' = ptr
            \/ \E b : ptr' = Assign(Block(Self), "code", b)
            \/ \E b, c : ptr' = Assign(Block(Self), "code", b) \cup {Pointer(Block(Self), "t0", c)}
        BY <2>3 DEF StepGenerate
      <3>2. \A c : Pointer(Block(Self), "t0", c).by # Caller
        BY Holders, Pointers
      <3> QED
        BY <3>1, <3>2, CallersOwn
    <2>4. CASE StepMeasure
      BY <2>4, CallersOwn DEF StepMeasure
    <2>5. CASE StepWindow
      BY <2>5, CallersOwn DEF StepWindow
    <2>6. CASE StepUse
      BY <2>6 DEF StepUse
    <2>7. CASE StepCheck \/ StepTest \/ StepReject \/ StepMake \/ ReturnNull
      BY <2>7, CallersOwn DEF StepCheck, StepTest, StepReject, StepMake, ReturnNull, Fail
    <2> QED
      BY <2>1, <2>2, <2>3, <2>4, <2>5, <2>6, <2>7
  <1>4. \A a \in DOMAIN heap : heap'[a].kind = heap[a].kind
    <2>1. CASE StepNew
      BY <2>1, KindsStay DEF StepNew, Fresh
    <2>2. CASE StepAlloc
      BY <2>2, KindsStay DEF StepAlloc, Fresh
    <2>3. CASE StepGenerate
      <3>1. CASE UNCHANGED heap
        BY <3>1
      <3>2. CASE \E b, x : Fresh(b, DOMAIN heap) /\ heap' = Stored(heap, b, x)
        BY <3>2, KindsStay DEF Fresh
      <3>3. CASE \E b, c, x, y : /\ Fresh(b, DOMAIN heap) /\ Fresh(c, DOMAIN heap \cup {b})
                                 /\ heap' = Stored(Stored(heap, b, x), c, y)
        <4>1. PICK b, c, x, y : /\ Fresh(b, DOMAIN heap) /\ Fresh(c, DOMAIN heap \cup {b})
                                /\ heap' = Stored(Stored(heap, b, x), c, y)
          BY <3>3
        <4>2. b \notin DOMAIN heap /\ c \notin DOMAIN Stored(heap, b, x)
          BY <4>1 DEF Fresh, Stored
        <4>3. \A a \in DOMAIN heap : Stored(heap, b, x)[a] = heap[a]
                                     /\ a \in DOMAIN Stored(heap, b, x)
          BY <4>2, KindsStay
        <4>4. \A a \in DOMAIN Stored(heap, b, x) : heap'[a] = Stored(heap, b, x)[a]
          BY <4>1, <4>2, KindsStay
        <4> QED
          BY <4>3, <4>4
      <3> QED
        BY <2>3, <3>1, <3>2, <3>3 DEF StepGenerate
    <2>4. CASE StepMeasure
      <3>1. CASE UNCHANGED heap
        BY <3>1
      <3>2. CASE \E b, x : /\ Fresh(b, DOMAIN heap)
                           /\ heap' = Stored([heap EXCEPT ![Self].fn = "dit"], b, x)
        <4> DEFINE h == [heap EXCEPT ![Self].fn = "dit"]
        <4>1. DOMAIN h = DOMAIN heap /\ \A a \in DOMAIN heap : h[a].kind = heap[a].kind
          BY <1>1, KindsStay
        <4>2. \E b, x : b \notin DOMAIN heap /\ heap' = Stored(h, b, x)
          BY <3>2 DEF Fresh
        <4> HIDE DEF h
        <4> QED
          BY <4>1, <4>2, KindsStay
      <3> QED
        BY <2>4, <3>1, <3>2 DEF StepMeasure
    <2>5. CASE StepWindow
      <3>1. CASE UNCHANGED heap
        BY <3>1
      <3>2. CASE \E b, x : /\ Fresh(b, DOMAIN heap)
                           /\ heap' = Stored([heap EXCEPT ![Self].req = Top.req], b, x)
        <4> DEFINE h == [heap EXCEPT ![Self].req = Top.req]
        <4>1. DOMAIN h = DOMAIN heap /\ \A a \in DOMAIN heap : h[a].kind = heap[a].kind
          BY <1>1, KindsStay
        <4>2. \E b, x : b \notin DOMAIN heap /\ heap' = Stored(h, b, x)
          BY <3>2 DEF Fresh
        <4> HIDE DEF h
        <4> QED
          BY <4>1, <4>2, KindsStay
      <3> QED
        BY <2>5, <3>1, <3>2 DEF StepWindow
    <2>6. CASE StepUse
      BY <1>1, <2>6, KindsStay DEF StepUse
    <2>7. CASE StepCheck \/ StepTest \/ StepReject \/ StepMake \/ ReturnNull
      BY <2>7 DEF StepCheck, StepTest, StepReject, StepMake, ReturnNull, Fail
    <2> QED
      BY <2>1, <2>2, <2>3, <2>4, <2>5, <2>6, <2>7
  <1> QED
    BY <1>2, <1>3, <1>4, EntrustedStays

LEMMA EntrustedReturns ==
    ASSUME Life, Legitimate, Entrusted(heap, ptr), ReturnMade
    PROVE  Entrusted(heap', ptr')
  <1>1. /\ stack # <<>> /\ heap' = heap /\ Top.pc = Len(Steps(Top.req)) + 1
        /\ ptr' = {p \in ptr : p.by # Me}
                 \cup {Pointer(Receiver, IF Depth = 1 THEN "handle" ELSE OuterStep.at, Self)}
    BY DEF ReturnMade
  <1>2. CASE Depth # 1
    <2>1. Receiver # Caller
      BY <1>2, Holders DEF Receiver
    <2> QED
      BY <1>1, <2>1, Pointers DEF Entrusted
  <1>3. CASE Depth = 1
    <2>1. Top.req.maker # "bank"
      BY <1>1, <1>3, Standing DEF Legitimate, StackLegit, Top, Depth
    <2>2. Frames(Top) /\ AtWork(heap, ptr, Top, Depth, call)
      BY <1>1, Standing
    <2>3. PICK u : OwnSelf(ptr, Depth, u) /\ Self = u.to
      BY <1>1, <2>2, StepKnown, SelfKnown
    <2>4. heap[Self].kind = "transform"
      BY <2>1, <2>2, <2>3 DEF AtWork, Kind
    <2> QED
      BY <1>1, <1>3, <2>4, Pointers DEF Entrusted
  <1> QED
    BY <1>2, <1>3

LEMMA EntrustedSteps ==
    Life /\ Legitimate /\ Entrusted(heap, ptr) /\ [LifeNext]_lifeVars => Entrusted(heap', ptr')
  <1> SUFFICES ASSUME Life, Legitimate, Entrusted(heap, ptr), [LifeNext]_lifeVars
               PROVE  Entrusted(heap', ptr')
    OBVIOUS
  <1>1. CASE Step
    <2>1. stack # <<>>
      BY <1>1 DEF Step, StepNew, StepAlloc, StepGenerate, StepMeasure, StepWindow, StepUse,
                  StepCheck, StepTest, StepReject, StepMake, ReturnNull, ReturnMade, AtStep
    <2> QED
      BY <1>1, <2>1, EntrustedBuilds, EntrustedReturns DEF Step
  <1>2. CASE Free
    <2>1. /\ Sound(heap, ptr, Len(stack)) /\ Single(ptr)
      BY DEF Life, LifeInv, CoreInv
    <2> DEFINE p == CHOOSE q \in Held(Destroyer) : TRUE
               b == p.to
    <2>2. p \in ptr /\ p.by = Destroyer
      BY <1>2 DEF Free, Held
    <2>3. /\ heap' = [c \in DOMAIN heap \ {b} |-> heap[c]]
          /\ ptr' = (ptr \ ({p} \cup Held(Block(b))))
                       \cup {Pointer(Destroyer, "", q.to) :
                                 q \in {q \in Held(Block(b)) : q.at \in Freed(heap[b].kind)}}
      BY <1>2 DEF Free
    <2> HIDE DEF p
    <2>6. \A to : Pointer(Destroyer, "", to).by # Caller
      <3> TAKE to
      <3>1. Pointer(Destroyer, "", to).by = Destroyer
        BY Pointers
      <3> QED
        BY <3>1, Holders
    <2>4. \A o \in ptr' : o.by = Caller => o \in ptr /\ o # p
      BY <2>3, <2>6
    <2>5. \A o \in ptr : o # p => o.to \in DOMAIN heap /\ o.to # b
      BY <2>1, <2>2 DEF Sound, Single
    <2> QED
      BY <2>3, <2>4, <2>5 DEF Entrusted
  <1>3. CASE \E h \in Handles : Destroy(h)
    <2>1. PICK h : heap' = heap /\ ptr' = Given(ptr, h)
      BY <1>3 DEF Destroy, Given
    <2>3. \A to : Pointer(Destroyer, "", to).by # Caller
      BY Holders, Pointers
    <2>2. \A o \in ptr' : o.by = Caller => o \in ptr
      BY <2>1, <2>3 DEF Given
    <2> QED
      BY <2>1, <2>2 DEF Entrusted
  <1>4. CASE \/ \E r \in Requests : Create(r)
             \/ \E h \in Handles : CreateInverse(h)
             \/ UNCHANGED lifeVars
    BY <1>4 DEF Create, CreateInverse, lifeVars
  <1> QED
    BY <1>1, <1>2, <1>3, <1>4 DEF LifeNext

-----------------------------------------------------------------------------
(* The transforms inside a transform.                                      *)
LEMMA InnerIs ==
    ASSUME NEW r, NEW n, NEW dir, NEW flags
    PROVE  Same(Inner(r, n, dir, flags), "fft", n, r.prec, dir, "split", flags)
  BY DEF Inner, Request, Same

LEMMA InnerRealIs ==
    ASSUME NEW r, NEW dir, NEW i, NEW j, NEW layout, NEW prec,
           i = [InnerReal(r, dir) EXCEPT !.layout = layout],
           j = [InnerReal(r, dir) EXCEPT !.layout = layout, !.prec = prec]
    PROVE  /\ Same(InnerReal(r, dir), "rfft", r.n, r.prec, dir, "hermitian", {})
           /\ Same(i, "rfft", r.n, r.prec, dir, layout, {})
           /\ Same(j, "rfft", r.n, prec, dir, layout, {})
  BY DEF InnerReal, Request, Same

(* What request q a transform of request r makes for slot at.              *)
Inward(r, q, at) ==
    /\ q.dir = r.dir \/ r.maker # "rfft"
    /\ r.maker # "rfft" => q.dir = IF at = "inner" THEN "fwd" ELSE "inv"
    /\ \/ /\ r.maker \in {"fft", "stft"} /\ FftPath(r.n, r.flags) = "rader"
          /\ q.maker = "fft" /\ q.n = r.n - 1 /\ q.flags = {"seven"} /\ q.layout = "split"
          /\ q.prec = r.prec
       \/ /\ r.maker \in {"fft", "stft"} /\ FftPath(r.n, r.flags) = "bluestein"
          /\ q.maker = "fft" /\ q.n = BluesteinLength(r.n) /\ q.flags = {}
          /\ q.layout = "split" /\ q.prec = r.prec
       \/ /\ r.maker = "rfft" /\ at = "inner"
          /\ q.maker = "fft" /\ q.n = r.n \div 2 /\ q.flags = {} /\ q.layout = "split"
          /\ q.prec = r.prec
       \/ /\ r.maker = "pipeline"
          /\ q.maker = "rfft" /\ q.n = r.n /\ q.flags = {} /\ q.layout = r.layout
          /\ q.prec = IF at = "inner" THEN r.prec ELSE TailPrec(r)

LEMMA SortOf ==
    ASSUME NEW h, NEW q, NEW t, Standard(h, q, t), NEW r, r = h[t].req, NEW u, u = Base(r)
    PROVE  /\ r.maker \in Makers /\ u.n = r.n /\ u.prec = r.prec /\ u.layout = r.layout
           /\ u.flags = r.flags
           /\ IF r.maker \in {"fft", "stft"} THEN u.maker = "fft" ELSE u = r
           /\ u.maker = "fft" =>
                  /\ FftPath(r.n, r.flags) \in {"codelet", "splitradix", "radix2", "mixed",
                                               "rader", "bluestein"}
                  /\ FftPath(r.n, r.flags) \in {"radix2", "mixed"} =>
                         \E table : Steps(u) = GeneratedSteps(u, table)
  <1>1. r.maker \in Makers
    BY DEF Standard, Whole, Kind, IsRequest
  <1>2. /\ r.maker # "stft" => u = r
        /\ r.maker = "stft" => /\ u.maker = "fft" /\ u.n = r.n /\ u.prec = r.prec
                               /\ u.layout = r.layout /\ u.flags = r.flags
    BY BaseIs DEF Standard
  <1>3. Accepts(r)
    BY DEF Standard, Whole
  <1>4. ASSUME u.maker = "fft"
        PROVE  FftPath(r.n, r.flags) \in {"codelet", "splitradix", "radix2", "mixed",
                                         "rader", "bluestein"}
    <2>1. FftPath(r.n, r.flags) # "none"
      BY <1>2, <1>3, <1>4 DEF Accepts
    <2> QED
      BY <2>1, Paths
  <1>5. ASSUME u.maker = "fft", FftPath(r.n, r.flags) \in {"radix2", "mixed"}
        PROVE  \E table : Steps(u) = GeneratedSteps(u, table)
    <2>1. FftPath(u.n, u.flags) = FftPath(r.n, r.flags)
      BY <1>2
    <2>2. Steps(u) = FftSteps(u)
      BY <1>5 DEF Steps
    <2>3. \/ FftSteps(u) = GeneratedSteps(u, u.n * Elem(u))
          \/ FftSteps(u) = GeneratedSteps(u, 2 * u.n * Elem(u))
      BY <1>5, <2>1 DEF FftSteps
    <2> QED
      BY <2>2, <2>3
  <1> QED
    BY <1>1, <1>2, <1>4, <1>5

LEMMA InnerSlot ==
    ASSUME NEW h, NEW q, NEW t, Standard(h, q, t), NEW o \in q, o.by = Block(t),
           o.at \in {"inner", "inner_inv"}
    PROVE  h[o.to].kind = "transform" /\ Inward(h[t].req, h[o.to].req, o.at)
  <1> DEFINE r == h[t].req
             u == Base(r)
             x == h[o.to].req
             path == FftPath(r.n, r.flags)
  <1>1. /\ r.maker \in Makers /\ u.n = r.n /\ u.prec = r.prec /\ u.layout = r.layout
        /\ u.flags = r.flags
        /\ IF r.maker \in {"fft", "stft"} THEN u.maker = "fft" ELSE u = r
        /\ u.maker = "fft" =>
               /\ path \in {"codelet", "splitradix", "radix2", "mixed", "rader", "bluestein"}
               /\ path \in {"radix2", "mixed"} => \E table : Steps(u) = GeneratedSteps(u, table)
    BY SortOf
  <1>2. Whole(h, q, t) /\ u = Base(h[t].req) /\ ~Window(h, r, o)
    BY DEF Standard, Window
  <1> HIDE DEF u
  <1>3. \A at, b : Bytes(h, o, at, b) => at \in {"inner", "inner_inv"}
    BY DEF Bytes
  <1>4. \A at, a, n, p, dir, f : a = Inner(p, n, dir, f) /\ Inside(h, o, at, a) =>
            /\ at = o.at /\ x.maker = "fft" /\ x.n = n /\ x.prec = p.prec /\ x.dir = dir
            /\ x.layout = "split" /\ x.flags = f /\ h[o.to].kind = "transform"
    BY InnerIs DEF Inside, Same, Kind
  <1>5. u.maker = "fft" => FftPath(u.n, u.flags) = path
    BY <1>1
  <1>6. CASE u.maker = "fft" /\ path = "codelet"
    BY <1>2, <1>3, <1>5, <1>6, CodeletHas
  <1>7. CASE u.maker = "fft" /\ path = "splitradix"
    BY <1>2, <1>3, <1>5, <1>7, SplitRadixHas
  <1>8. CASE u.maker = "fft" /\ path \in {"radix2", "mixed"}
    <2>1. PICK table : Steps(u) = GeneratedSteps(u, table)
      BY <1>1, <1>8
    <2>2. \/ Window(h, r, o) \/ o.at = "code" \/ Bytes(h, o, "t0", table)
          \/ Bytes(h, o, "scratch", Align64(4 * u.n * Elem(u)))
      BY <1>2, <2>1, GeneratedHas
    <2> QED
      BY <1>2, <1>3, <2>2
  <1>9. CASE u.maker = "fft" /\ path = "rader"
    <2>1. \/ Inside(h, o, "inner", Inner(u, (u.n - 1), "fwd", {"seven"}))
          \/ Inside(h, o, "inner_inv", Inner(u, (u.n - 1), "inv", {"seven"}))
      BY <1>2, <1>3, <1>5, <1>9, RaderHas
    <2>2. r.maker \in {"fft", "stft"}
      BY <1>1, <1>9
    <2> QED
      BY <1>1, <1>4, <1>9, <2>1, <2>2 DEF Inward
  <1>10. CASE u.maker = "fft" /\ path = "bluestein"
    <2>1. \/ Inside(h, o, "inner", Inner(u, BluesteinLength(u.n), "fwd", {}))
          \/ Inside(h, o, "inner_inv", Inner(u, BluesteinLength(u.n), "inv", {}))
      BY <1>2, <1>3, <1>5, <1>10, BluesteinHas
    <2>2. r.maker \in {"fft", "stft"}
      BY <1>1, <1>10
    <2> QED
      BY <1>1, <1>4, <1>10, <2>1, <2>2 DEF Inward
  <1>11. CASE u.maker = "rfft"
    <2>1. Inside(h, o, "inner", Inner(u, (u.n \div 2), u.dir, {}))
      BY <1>2, <1>3, <1>11, RfftHas
    <2>2. r.maker = "rfft" /\ u = r
      BY <1>1, <1>11
    <2> QED
      BY <1>1, <1>4, <2>1, <2>2 DEF Inward
  <1>12. CASE u.maker = "pipeline"
    <2> DEFINE i == [InnerReal(u, "fwd") EXCEPT !.layout = u.layout]
               j == [InnerReal(u, "inv") EXCEPT !.layout = u.layout, !.prec = TailPrec(u)]
    <2>1. /\ Same(i, "rfft", u.n, u.prec, "fwd", u.layout, {})
          /\ Same(j, "rfft", u.n, TailPrec(u), "inv", u.layout, {})
      BY InnerRealIs
    <2> DEFINE k == Align64((u.n \div 2 + 1) * 2 * Elem(u))
    <2>2. \/ Inside(h, o, "inner", i) \/ Inside(h, o, "inner_inv", j) \/ o.at = "code"
          \/ Bytes(h, o, "scratch", k)
      BY <1>2, <1>12, PipelineHas, Zenon
    <2> HIDE DEF k
    <2> HIDE DEF i, j
    <2>3. r.maker = "pipeline" /\ u = r
      BY <1>1, <1>12
    <2>4. Inside(h, o, "inner", i) \/ Inside(h, o, "inner_inv", j)
      BY <1>3, <2>2
    <2>5. CASE Inside(h, o, "inner", i)
      <3>1. /\ o.at = "inner" /\ x.maker = "rfft" /\ x.n = r.n /\ x.prec = r.prec
            /\ x.dir = "fwd" /\ x.layout = r.layout /\ x.flags = {}
            /\ h[o.to].kind = "transform"
        BY <2>1, <2>3, <2>5 DEF Inside, Same, Kind
      <3> QED
        BY <2>3, <3>1 DEF Inward
    <2>6. CASE Inside(h, o, "inner_inv", j)
      <3>1. /\ o.at = "inner_inv" /\ x.maker = "rfft" /\ x.n = r.n /\ x.prec = TailPrec(r)
            /\ x.dir = "inv" /\ x.layout = r.layout /\ x.flags = {}
            /\ h[o.to].kind = "transform"
        BY <2>1, <2>3, <2>6 DEF Inside, Same, Kind
      <3> QED
        BY <2>3, <3>1 DEF Inward
    <2> QED
      BY <2>4, <2>5, <2>6
  <1>13. CASE u.maker \in {"cwt", "icwt"}
    <2> DEFINE i == [u EXCEPT !.maker = "bank"]
    <2>1. Inside(h, o, "bank", i)
      BY <1>2, <1>13, CwtHas, Zenon
    <2> HIDE DEF i
    <2> QED
      BY <2>1 DEF Inside
  <1>14. CASE u.maker \in {"dct", "dst", "mdct"}
    BY <1>2, <1>3, <1>14, RealHas
  <1>15. CASE u.maker = "dwt"
    BY <1>2, <1>3, <1>15, DwtHas
  <1> QED
    BY <1>1, <1>6, <1>7, <1>8, <1>9, <1>10, <1>11, <1>12, <1>13, <1>14, <1>15 DEF Makers

(* The pointer that the model looks up, and the transforms it leads to.    *)
LEMMA Found ==
    ASSUME Life, NEW t, NEW at, Has(t, at)
    PROVE  \E o \in ptr : /\ o.by = Block(t) /\ o.at = at /\ o.to = Part(t, at)
                          /\ o.to \in DOMAIN heap
  <1>1. Sound(heap, ptr, Len(stack))
    BY DEF Life, LifeInv, CoreInv
  <1>2. \E o \in ptr : o.by = Block(t) /\ o.at = at /\ o.to = Part(t, at)
    BY Looked DEF Has, Part
  <1> QED
    BY <1>1, <1>2 DEF Sound

LEMMA Reaches ==
    ASSUME Life, Wiring, NEW t, NEW o \in ptr, o.by = Block(t), o.at # "self",
           heap[o.to].kind # "table"
    PROVE  Whole(heap, ptr, o.to) /\ IsRequest(heap[o.to].req)
  <1>1. Leads(heap, o)
    BY Holders DEF Leads
  <1>2. o.to \in DOMAIN heap /\ Entries(heap)
    BY DEF Life, LifeInv, CoreInv, Sound
  <1> QED
    BY <1>1, <1>2 DEF Wiring, Wired, Links, Entries, Proper

LEMMA InnerPart ==
    ASSUME Life, Wiring, NEW t, Standard(heap, ptr, t), NEW at \in {"inner", "inner_inv"},
           Has(t, at)
    PROVE  /\ Part(t, at) \in DOMAIN heap /\ Standard(heap, ptr, Part(t, at))
           /\ Inward(Req(t), Req(Part(t, at)), at)
  <1>1. PICK o \in ptr : /\ o.by = Block(t) /\ o.at = at /\ o.to = Part(t, at)
                         /\ o.to \in DOMAIN heap
    BY Found
  <1>2. heap[o.to].kind = "transform" /\ Inward(heap[t].req, heap[o.to].req, o.at)
    BY <1>1, InnerSlot
  <1>3. Whole(heap, ptr, o.to) /\ IsRequest(heap[o.to].req)
    BY <1>1, <1>2, Reaches
  <1> QED
    BY <1>1, <1>2, <1>3 DEF Standard, Req

(* The bank of a CWT and its two real FFTs.                                *)
LEMMA BankPart ==
    ASSUME Life, Wiring, NEW t, Standard(heap, ptr, t), Type(t) \in {"cwt", "icwt"}
    PROVE  /\ Bank(t) \in DOMAIN heap /\ Whole(heap, ptr, Bank(t))
           /\ Same(Req(Bank(t)), "bank", N(t), Req(t).prec, Req(t).dir, Req(t).layout, Req(t).flags)
  <1> DEFINE r == heap[t].req
             u == Base(r)
             i == [u EXCEPT !.maker = "bank"]
  <1>1. r.maker \in {"cwt", "icwt"} /\ u = r
    BY DEF Type, Req, Base
  <1>2. Whole(heap, ptr, t) /\ u.maker \in {"cwt", "icwt"} /\ IsRequest(r)
    BY <1>1 DEF Standard
  <1>3. Present(ptr, Block(t), "bank")
    BY <1>2, CwtHas
  <1>4. Has(t, "bank")
    BY <1>3 DEF Present, Has, Points
  <1>5. PICK o \in ptr : /\ o.by = Block(t) /\ o.at = "bank" /\ o.to = Bank(t)
                         /\ o.to \in DOMAIN heap
    BY <1>4, Found DEF Bank
  <1>6. Inside(heap, o, "bank", i)
    <2>1. ~Window(heap, r, o)
      BY <1>5 DEF Window
    <2> QED
      BY <1>2, <1>5, <2>1, CwtHas, Zenon
  <1>7. Same(i, "bank", r.n, r.prec, r.dir, r.layout, r.flags)
    <2>1. IsRequest(u) /\ u.n = r.n /\ u.prec = r.prec /\ u.dir = r.dir /\ u.layout = r.layout
          /\ u.flags = r.flags
      BY <1>1, <1>2
    <2> HIDE DEF u
    <2> QED
      BY <2>1, Derived
  <1> HIDE DEF i
  <1>8. heap[o.to].req = i /\ heap[o.to].kind = "bank"
    BY <1>6, <1>7 DEF Inside, Kind, Same
  <1>9. Whole(heap, ptr, o.to)
    BY <1>5, <1>8, Reaches
  <1> QED
    BY <1>5, <1>7, <1>8, <1>9 DEF Req, N

LEMMA BankFfts ==
    ASSUME Life, Wiring, NEW b, b \in DOMAIN heap, Whole(heap, ptr, b), Req(b).maker = "bank",
           NEW at \in {"rfft", "irfft"}
    PROVE  /\ Part(b, at) \in DOMAIN heap /\ Standard(heap, ptr, Part(b, at))
           /\ Same(Req(Part(b, at)), "rfft", N(b), Req(b).prec,
                   IF at = "rfft" THEN "fwd" ELSE "inv", "hermitian", {})
  <1> DEFINE r == heap[b].req
             u == Base(r)
             i == InnerReal(u, "fwd")
             j == InnerReal(u, "inv")
             x1 == Align64((Rows(u) * Padded(u)) * 8)
             x2 == Align64((Rows(u) * Padded(u)) * Elem(u))
             x3 == Align64((Rows(u) * Padded(u)) * 4)
  <1>1. r.maker = "bank" /\ u = r
    BY DEF Req, Base
  <1>2. Whole(heap, ptr, b) /\ u.maker = "bank"
    BY <1>1
  <1>3. Present(ptr, Block(b), at)
    BY <1>2, BankHas
  <1>4. Has(b, at)
    BY <1>3 DEF Present, Has, Points
  <1>5. PICK o \in ptr : /\ o.by = Block(b) /\ o.at = at /\ o.to = Part(b, at)
                         /\ o.to \in DOMAIN heap
    BY <1>4, Found
  <1>6. /\ Same(i, "rfft", r.n, r.prec, "fwd", "hermitian", {})
        /\ Same(j, "rfft", r.n, r.prec, "inv", "hermitian", {})
    <2>1. u.n = r.n /\ u.prec = r.prec
      BY <1>1
    <2> HIDE DEF u
    <2> QED
      BY <2>1 DEF InnerReal, Request, Same
  <1>7. \/ Inside(heap, o, "rfft", i) \/ Inside(heap, o, "irfft", j)
        \/ Bytes(heap, o, "Psi_dual", x1) \/ Bytes(heap, o, "Psi", x2)
        \/ Bytes(heap, o, "Psi_dual_f32", x3)
        \/ o.at \in {"X_re", "X_im", "Y_re", "Y_im"}
        \/ o.at \in {"scales", "freqs_hz", "Psi_l2", "A", "xi"}
    <2>1. ~Window(heap, r, o)
      BY <1>1 DEF Window
    <2> HIDE DEF r
    <2> QED
      BY <1>2, <1>5, <2>1, BankHas DEF r
  <1> HIDE DEF i, j, x1, x2, x3
  <1>8. \/ at = "rfft" /\ heap[o.to].req = i /\ heap[o.to].kind = Kind(i)
        \/ at = "irfft" /\ heap[o.to].req = j /\ heap[o.to].kind = Kind(j)
    BY <1>5, <1>7 DEF Inside, Bytes
  <1>9. Kind(i) = "transform" /\ Kind(j) = "transform"
    BY <1>6 DEF Kind, Same
  <1>10. Whole(heap, ptr, o.to) /\ IsRequest(heap[o.to].req)
    BY <1>5, <1>8, <1>9, Reaches
  <1> QED
    BY <1>5, <1>6, <1>8, <1>9, <1>10 DEF Standard, Req, N

-----------------------------------------------------------------------------
(* A transform works through transforms of a lower rank.                   *)
Rank(r) ==
    CASE r.maker \in {"pipeline", "cwt", "icwt"} -> 5
      [] r.maker = "rfft" -> 4
      [] r.maker \in {"fft", "stft"} /\ FftPath(r.n, r.flags) = "bluestein" -> 3
      [] r.maker \in {"fft", "stft"} /\ FftPath(r.n, r.flags) = "rader" -> 2
      [] OTHER -> 1
LEMMA Ranks ==
    ASSUME NEW r
    PROVE  /\ Rank(r) \in 1..5
           /\ r.maker \in {"pipeline", "cwt", "icwt"} <=> Rank(r) = 5
           /\ r.maker = "rfft" => Rank(r) = 4
           /\ r.maker \in {"fft", "stft"} =>
                  /\ Rank(r) <= 3
                  /\ FftPath(r.n, r.flags) = "bluestein" => Rank(r) = 3
                  /\ FftPath(r.n, r.flags) # "bluestein" => Rank(r) <= 2
                  /\ FftPath(r.n, r.flags) = "rader" => Rank(r) = 2
                  /\ FftPath(r.n, r.flags) \in {"codelet", "splitradix", "radix2", "mixed"} => Rank(r) = 1
  BY DEF Rank

LEMMA RankInside ==
    ASSUME NEW r, NEW q, NEW at, Inward(r, q, at)
    PROVE  Rank(q) < Rank(r)
  <1>1. CASE /\ r.maker \in {"fft", "stft"} /\ FftPath(r.n, r.flags) = "rader"
             /\ q.maker = "fft" /\ q.n = r.n - 1 /\ q.flags = {"seven"}
    <2>1. RaderEligible(r.n)
      BY <1>1, Paths
    <2>2. Direct(q.n, q.flags)
      BY <1>1, <2>1 DEF RaderEligible, Direct
    <2> QED
      BY <1>1, <2>2, Paths, Ranks
  <1>2. CASE /\ r.maker \in {"fft", "stft"} /\ FftPath(r.n, r.flags) = "bluestein"
             /\ q.maker = "fft" /\ q.flags = {}
    <2>1. FftPath(q.n, q.flags) # "bluestein"
      BY <1>2, Paths
    <2> QED
      BY <1>2, <2>1, Ranks
  <1>3. CASE r.maker = "rfft" /\ q.maker = "fft"
    <2>1. Rank(r) = 4 /\ Rank(q) <= 3 /\ Rank(q) \in 1..5
      BY <1>3, Ranks
    <2> QED
      BY <2>1
  <1>4. CASE r.maker = "pipeline" /\ q.maker = "rfft"
    BY <1>4, Ranks
  <1> QED
    BY <1>1, <1>2, <1>3, <1>4 DEF Inward

-----------------------------------------------------------------------------
(* The frames of a call.                                                   *)
Served == {"vm", "flat", "split", "interpret", "bluestein", "rfft", "pipeline", "cwt", "icwt"}
IsCall(f) == f = [fn |-> f.fn, t |-> f.t, in |-> f.in, out |-> f.out, i |-> f.i]
OnRoute(f) ==
    /\ f.fn \in Served \cup {"execute", "kernel"}
    /\ f.fn \in {"vm", "bluestein", "rfft", "pipeline", "cwt", "icwt"} => Route(f.t) = f.fn
    /\ f.fn = "flat" => Route(f.t) \in {"vm", "flat"}
GoodFrame(f) ==
    /\ IsCall(f) /\ f.i \in Nat \ {0}
    /\ f.t \in DOMAIN heap /\ Standard(heap, ptr, f.t) /\ OnRoute(f)

(* What may be at work for a transform below a function that is.           *)
After(fn) ==
    CASE fn = "execute" -> Served \cup {"kernel"}
      [] fn = "vm"      -> {"flat", "split", "interpret", "kernel"}
      [] fn = "flat"    -> {"split", "interpret", "kernel"}
      [] fn = "split"   -> {"kernel"}
      [] OTHER          -> {}
Below(f, g) ==
    \/ Rank(Req(g.t)) < Rank(Req(f.t))
    \/ /\ g.t = f.t /\ g.fn \in After(f.fn)
       /\ f.fn = "flat" /\ g.fn = "split" => ~InPlace(g)
       /\ f.fn = "flat" /\ g.fn = "interpret" => WorkOf(f) = {}

LEMMA Calling ==
    \A fn, t, in, out : /\ IsCall(Call(fn, t, in, out))
                        /\ Call(fn, t, in, out).fn = fn /\ Call(fn, t, in, out).t = t
                        /\ Call(fn, t, in, out).in = in /\ Call(fn, t, in, out).out = out
                        /\ Call(fn, t, in, out).i = 1
  BY DEF Call, IsCall

LEMMA Routes ==
    ASSUME NEW t
    PROVE  /\ Route(t) \in Served \ {"interpret"}
           /\ Route(t) \in {"pipeline", "rfft"} <=> Type(t) \in {"pipeline", "rfft"}
           /\ Route(t) \in {"pipeline", "rfft"} => Route(t) = Type(t)
           /\ Route(t) = "bluestein" => "bluestein" \in Req(t).flags /\ Has(t, "inner")
           /\ Route(t) \in {"cwt", "icwt"} => Type(t) = Route(t)
           /\ Route(t) \in {"vm", "flat", "split"} =>
                  /\ Type(t) \notin {"pipeline", "rfft", "cwt", "icwt"}
                  /\ ~("bluestein" \in Req(t).flags /\ Has(t, "inner"))
           /\ Route(t) = "vm" => Req(t).layout = "interleaved"
           /\ Route(t) = "flat" => Req(t).layout = "real"
           /\ Route(t) = "split" => Req(t).layout \notin {"interleaved", "real"}
  BY DEF Route, Served

(* An FFT with inner transforms has both.                                  *)
LEMMA InnerThere ==
    ASSUME NEW t, Standard(heap, ptr, t), Type(t) \in {"fft", "stft"},
           FftPath(N(t), Req(t).flags) \in {"rader", "bluestein"}
    PROVE  Has(t, "inner") /\ Has(t, "inner_inv")
  <1> DEFINE r == heap[t].req
             u == Base(r)
  <1>1. r.maker \in {"fft", "stft"} /\ FftPath(r.n, r.flags) \in {"rader", "bluestein"}
    BY DEF Type, Req, N
  <1>2. u.maker = "fft" /\ u.n = r.n /\ u.flags = r.flags
    BY <1>1, SortOf
  <1>3. FftPath(u.n, u.flags) = FftPath(r.n, r.flags) /\ Whole(heap, ptr, t)
    BY <1>2 DEF Standard
  <1>4. \A at \in {"inner", "inner_inv"} : Present(ptr, Block(t), at)
    <2>1. CASE FftPath(u.n, u.flags) = "rader"
      BY <1>2, <1>3, <2>1, RaderHas
    <2>2. CASE FftPath(u.n, u.flags) = "bluestein"
      BY <1>2, <1>3, <2>2, BluesteinHas
    <2> QED
      BY <1>1, <1>3, <2>1, <2>2
  <1> QED
    BY <1>4 DEF Present, Has, Points

(* What the interpreter works on in the caller's buffers has elements, and *)
(* if it has Bluestein's flag they are not interleaved.                    *)
LEMMA FlatLegit ==
    ASSUME FlagsMeant, Legitimate, NEW t \in DOMAIN heap, Standard(heap, ptr, t),
           Route(t) \in {"vm", "flat"}
    PROVE  /\ N(t) \in Nat \ {0}
           /\ ~Flagged(t)
  <1> DEFINE r == heap[t].req
  <1>1. /\ Type(t) \notin {"pipeline", "rfft", "cwt", "icwt"}
        /\ ~("bluestein" \in r.flags /\ Has(t, "inner"))
        /\ r.layout \in {"interleaved", "real"}
    BY Routes DEF Req
  <1>2. r.maker \in {"fft", "stft", "dwt", "dct", "dst", "mdct"} /\ Accepts(r)
    <2>1. r.maker \in Makers
      BY DEF Standard, Whole, Kind, IsRequest
    <2> QED
      BY <1>1, <2>1 DEF Type, Req, Makers, Standard, Whole
  <1>3. PICK c \in Requests : Stems(r, c)
    BY <1>1, <1>2 DEF Legitimate, HeapLegit, Legit
  <1>4. /\ r.n = c.n /\ r.layout = c.layout /\ r.flags = c.flags
        /\ \/ r.maker = c.maker
           \/ c.maker = "stft" /\ r.maker = "fft"
    BY <1>2, <1>3 DEF Stems
  <1>5. r.n \in Nat \ {0}
    BY <1>4, RequestsAssumption DEF FlagsMeant, RequestSet
  <1>6. ASSUME "bluestein" \in r.flags, r.layout = "interleaved" PROVE FALSE
    <2>1. r.maker # "dwt"
      BY <1>2, <1>6 DEF Accepts
    <2>2. /\ r.maker \in {"fft", "stft"}
          /\ FftPath(r.n, r.flags) \in {"rader", "bluestein"}
      BY <1>2, <1>4, <1>6, <2>1 DEF FlagsMeant
    <2>3. Has(t, "inner")
      BY <2>2, InnerThere DEF Type, Req, N
    <2> QED
      BY <1>1, <1>6, <2>3
  <1> QED
    BY <1>5, <1>6 DEF N, Req, Flagged

-----------------------------------------------------------------------------
(* Whom a function calls.                                                  *)
LEMMA OnlyOne ==
    ASSUME NEW x, NEW i \in Nat \ {0}, i <= Len(<<x>>)
    PROVE  <<x>>[i] = x
  <1>1. i = 1
    OBVIOUS
  <1> QED
    BY <1>1

LEMMA OneOfTwo ==
    ASSUME NEW x, NEW y, NEW i \in Nat \ {0}, i <= Len(<<x, y>>)
    PROVE  <<x, y>>[i] \in {x, y}
  <1>1. i = 1 \/ i = 2
    OBVIOUS
  <1> QED
    BY <1>1

LEMMA FirstThen ==
    ASSUME NEW x, NEW s, \E S : s \in Seq(S), NEW i \in Nat \ {0}, i <= Len(<<x>> \o s)
    PROVE  (<<x>> \o s)[i] = x \/ \E j \in 1..Len(s) : (<<x>> \o s)[i] = s[j]
  <1>1. PICK S : s \in Seq(S)
    OBVIOUS
  <1>2. <<x>> \in Seq({x} \cup S) /\ s \in Seq({x} \cup S) /\ Len(<<x>>) = 1 /\ <<x>>[1] = x
    BY <1>1
  <1>3. Len(<<x>> \o s) = 1 + Len(s) /\ Len(s) \in Nat
    BY <1>2
  <1>4. CASE i = 1
    BY <1>2, <1>4
  <1>5. CASE i > 1
    <2>1. i - 1 \in 1..Len(s) /\ (<<x>> \o s)[i] = s[i - 1]
      BY <1>2, <1>3, <1>5
    <2> QED
      BY <2>1
  <1> QED
    BY <1>4, <1>5

LEMMA ThenLast ==
    ASSUME NEW x, NEW s, \E S : s \in Seq(S), NEW i \in Nat \ {0}, i <= Len(s \o <<x>>)
    PROVE  (s \o <<x>>)[i] = x \/ \E j \in 1..Len(s) : (s \o <<x>>)[i] = s[j]
  <1>1. PICK S : s \in Seq(S)
    OBVIOUS
  <1>2. <<x>> \in Seq({x} \cup S) /\ s \in Seq({x} \cup S) /\ Len(<<x>>) = 1 /\ <<x>>[1] = x
    BY <1>1
  <1>3. Len(s \o <<x>>) = Len(s) + 1 /\ Len(s) \in Nat
    BY <1>2
  <1>4. CASE i = Len(s) + 1
    <2>1. (s \o <<x>>)[i] = <<x>>[1]
      BY <1>2, <1>3, <1>4
    <2> QED
      BY <1>2, <2>1
  <1>5. CASE i <= Len(s)
    <2>1. i \in 1..Len(s) /\ (s \o <<x>>)[i] = s[i]
      BY <1>2, <1>3, <1>5
    <2> QED
      BY <2>1
  <1> QED
    BY <1>3, <1>4, <1>5

LEMMA Lower ==
    ASSUME NEW f, NEW t, t \in DOMAIN heap, Standard(heap, ptr, t),
           Rank(Req(t)) < Rank(Req(f.t)), NEW fn \in {"execute", "split"}, NEW in, NEW out
    PROVE  GoodFrame(Call(fn, t, in, out)) /\ Below(f, Call(fn, t, in, out))
  BY Calling DEF GoodFrame, OnRoute, Below, Served

LEMMA LowerInner ==
    ASSUME Life, Wiring, NEW f, GoodFrame(f), NEW at \in {"inner", "inner_inv"}, Has(f.t, at),
           NEW fn \in {"execute", "split"}, NEW in, NEW out
    PROVE  /\ GoodFrame(Call(fn, Part(f.t, at), in, out))
           /\ Below(f, Call(fn, Part(f.t, at), in, out))
  <1>1. /\ Part(f.t, at) \in DOMAIN heap /\ Standard(heap, ptr, Part(f.t, at))
        /\ Inward(Req(f.t), Req(Part(f.t, at)), at)
    BY InnerPart DEF GoodFrame
  <1>2. Rank(Req(Part(f.t, at))) < Rank(Req(f.t))
    BY <1>1, RankInside
  <1> QED
    BY <1>1, <1>2, Lower

LEMMA LowerBank ==
    ASSUME Life, Wiring, NEW f, GoodFrame(f), f.fn \in {"cwt", "icwt"},
           NEW at \in {"rfft", "irfft"}, NEW in, NEW out
    PROVE  /\ GoodFrame(Call("execute", Part(Bank(f.t), at), in, out))
           /\ Below(f, Call("execute", Part(Bank(f.t), at), in, out))
  <1>1. Type(f.t) \in {"cwt", "icwt"} /\ Standard(heap, ptr, f.t)
    BY Routes DEF GoodFrame, OnRoute
  <1> DEFINE b == Bank(f.t)
  <1>2. b \in DOMAIN heap /\ Whole(heap, ptr, b) /\ Req(b).maker = "bank"
    BY <1>1, BankPart DEF Same
  <1> HIDE DEF b
  <1>3. /\ Part(b, at) \in DOMAIN heap /\ Standard(heap, ptr, Part(b, at))
        /\ Req(Part(b, at)).maker = "rfft"
    BY <1>2, BankFfts DEF Same
  <1>4. Rank(Req(Part(b, at))) = 4 /\ Rank(Req(f.t)) = 5
    BY <1>1, <1>3, Ranks DEF Type
  <1>5. Rank(Req(Part(b, at))) < Rank(Req(f.t))
    BY <1>4
  <1>6. /\ GoodFrame(Call("execute", Part(b, at), in, out))
        /\ Below(f, Call("execute", Part(b, at), in, out))
    BY <1>3, <1>5, Lower
  <1> QED
    BY <1>6 DEF b

(* f calls g next.                                                         *)
Asks(f, g) == f.i <= Len(Callees(f)) /\ g = Callees(f)[f.i]

(* fn may be at work for the transform that f is at work for.              *)
Suits(f, fn) ==
    /\ fn \in After(f.fn)
    /\ \/ fn \in {"split", "interpret", "kernel"}
       \/ fn = Route(f.t)
       \/ fn = "flat" /\ Route(f.t) = "vm"
LEMMA SameTransform ==
    ASSUME NEW f, GoodFrame(f), NEW g, IsCall(g), g.i = 1, g.t = f.t, Suits(f, g.fn),
           f.fn = "flat" /\ g.fn = "split" => ~InPlace(g),
           f.fn = "flat" /\ g.fn = "interpret" => WorkOf(f) = {}
    PROVE  GoodFrame(g) /\ Below(f, g)
  <1>1. g.fn \in Served \cup {"kernel"}
    BY Routes DEF Suits, Served
  <1> QED
    BY <1>1 DEF GoodFrame, OnRoute, Below, Suits

LEMMA CalledByExecute ==
    ASSUME NEW f, GoodFrame(f), f.fn = "execute", NEW g, Asks(f, g)
    PROVE  GoodFrame(g) /\ Below(f, g)
  <1> DEFINE x == Call(Route(f.t), f.t, f.in, f.out)
  <1>1. Callees(f) = <<x>>
    BY DEF Callees
  <1>2. GoodFrame(x) /\ Below(f, x)
    <2>1. Route(f.t) \in Served
      BY Routes
    <2>2. Suits(f, Route(f.t))
      BY <2>1 DEF After, Suits
    <2>3. IsCall(x) /\ x.i = 1 /\ x.t = f.t /\ x.fn = Route(f.t)
      BY Calling
    <2> QED
      BY <2>2, <2>3, SameTransform
  <1> HIDE DEF x
  <1>3. g = x
    BY <1>1, OnlyOne DEF Asks, GoodFrame
  <1> QED
    BY <1>2, <1>3

LEMMA CalledByVm ==
    ASSUME NEW f, GoodFrame(f), f.fn = "vm", NEW g, Asks(f, g)
    PROVE  GoodFrame(g) /\ Below(f, g)
  <1>1. PICK in, out : Callees(f) = <<Call("flat", f.t, in, out)>>
    BY DEF Callees
  <1> DEFINE x == Call("flat", f.t, in, out)
  <1>2. GoodFrame(x) /\ Below(f, x)
    <2>1. Suits(f, "flat")
      BY DEF After, GoodFrame, OnRoute, Suits
    <2>2. IsCall(x) /\ x.i = 1 /\ x.t = f.t /\ x.fn = "flat"
      BY Calling
    <2> QED
      BY <2>1, <2>2, SameTransform
  <1> HIDE DEF x
  <1>3. g = x
    BY <1>1, OnlyOne DEF Asks, GoodFrame, x
  <1> QED
    BY <1>2, <1>3

(* The interpreter's result does not go where its input is.                *)
LEMMA PlanesApart ==
    ASSUME NEW t, N(t) \in Nat \ {0}
    PROVE  /\ FlatPlanes(t, 0).re.at # FlatTarget(t).re.at
           /\ FlatPlanes(t, 0).im.at # FlatTarget(t).im.at
  BY DEF FlatPlanes, FlatTarget, SplitAt, Plane, Buffer, Outside

LEMMA CalledByFlat ==
    ASSUME FlagsMeant, Legitimate, NEW f, GoodFrame(f), f.fn = "flat", NEW g, Asks(f, g)
    PROVE  GoodFrame(g) /\ Below(f, g)
  <1> DEFINE x == Call("kernel", f.t, FlatPlanes(f.t, 0), FlatPlanes(f.t, 0))
             y == Call("split", f.t, FlatPlanes(f.t, 0), FlatTarget(f.t))
  <1>1. /\ N(f.t) \in Nat \ {0}
        /\ ~Flagged(f.t)
    BY FlatLegit DEF GoodFrame, OnRoute
  <1>2. Callees(f) = <<x>> \/ Callees(f) = <<y>>
    BY <1>1 DEF Callees
  <1>3. Suits(f, "kernel") /\ Suits(f, "split")
    BY DEF After, Suits
  <1>4. ~InPlace(y)
    BY <1>1, PlanesApart, Calling DEF InPlace
  <1>8. /\ IsCall(x) /\ x.i = 1 /\ x.t = f.t /\ x.fn = "kernel"
        /\ IsCall(y) /\ y.i = 1 /\ y.t = f.t /\ y.fn = "split"
    BY Calling
  <1> HIDE DEF x, y
  <1>5. GoodFrame(x) /\ Below(f, x)
    BY <1>3, <1>8, SameTransform
  <1>6. GoodFrame(y) /\ Below(f, y)
    BY <1>3, <1>4, <1>8, SameTransform
  <1>7. g = x \/ g = y
    BY <1>2, OnlyOne DEF Asks, GoodFrame
  <1> QED
    BY <1>5, <1>6, <1>7

LEMMA CalledBySplit ==
    ASSUME NEW f, GoodFrame(f), f.fn = "split", NEW g, Asks(f, g)
    PROVE  GoodFrame(g) /\ Below(f, g)
  <1> DEFINE x == Call("kernel", f.t, f.in, f.out)
  <1>1. Callees(f) = <<x>>
    <2>1. Callees(f) = <<x>> \/ Callees(f) = <<>>
      BY DEF Callees
    <2>2. Len(<<>>) = 0 /\ ~(f.i <= 0)
      BY DEF GoodFrame
    <2> QED
      BY <2>1, <2>2 DEF Asks
  <1>2. GoodFrame(x) /\ Below(f, x)
    <2>1. Suits(f, "kernel")
      BY DEF After, Suits
    <2>2. IsCall(x) /\ x.i = 1 /\ x.t = f.t /\ x.fn = "kernel"
      BY Calling
    <2> QED
      BY <2>1, <2>2, SameTransform
  <1> HIDE DEF x
  <1>3. g = x
    BY <1>1, OnlyOne DEF Asks, GoodFrame
  <1> QED
    BY <1>2, <1>3

(* The interpreter of interleaved registers calls nobody.                  *)
LEMMA InterpretAlone ==
    ASSUME NEW f, GoodFrame(f), f.fn = "interpret"
    PROVE  ~(f.i <= Len(Callees(f)))
  <1>1. Callees(f) = <<>>
    BY DEF Callees
  <1>2. Len(<<>>) = 0 /\ ~(f.i <= 0)
    BY DEF GoodFrame
  <1> QED
    BY <1>1, <1>2

(* Nor does it use memory that the function before it keeps.               *)
LEMMA CalledToInterpret ==
    ASSUME NEW f, GoodFrame(f), AllocatesPlanes(f),
           NEW g, g = Call("interpret", f.t, f.in, f.out)
    PROVE  /\ g.fn = "interpret" /\ g.t = f.t /\ g.in = f.in /\ g.out = f.out
           /\ f.fn = "flat" /\ GoodFrame(g) /\ Below(f, g)
  <1>1. /\ IsCall(g) /\ g.fn = "interpret" /\ g.t = f.t /\ g.in = f.in /\ g.out = f.out
        /\ g.i = 1
    BY Calling
  <1>2. f.fn = "flat" /\ WorkOf(f) = {}
    BY DEF AllocatesPlanes, WorkOf
  <1>3. Suits(f, "interpret")
    BY <1>2 DEF After, Suits
  <1> QED
    BY <1>1, <1>2, <1>3, SameTransform

LEMMA CalledByKernel ==
    ASSUME Life, Wiring, NEW f, GoodFrame(f), ~Refused(f), f.fn = "kernel", NEW g, Asks(f, g)
    PROVE  GoodFrame(g) /\ Below(f, g)
  <1> DEFINE a == SplitAt(f.t, "t3", N(f.t) - 1, 0)
             x == Call("split", Part(f.t, "inner"), a, a)
             y == Call("split", Part(f.t, "inner_inv"), a, a)
  <1>1. heap[f.t].fn = "rader" /\ Callees(f) = <<x, y>>
    <2>1. CASE heap[f.t].fn = "rader"
      BY <2>1 DEF Callees
    <2>2. CASE heap[f.t].fn # "rader"
      <3>1. Callees(f) = <<>>
        BY <2>2 DEF Callees
      <3>2. Len(<<>>) = 0 /\ ~(f.i <= 0)
        BY DEF GoodFrame
      <3> QED
        BY <3>1, <3>2 DEF Asks
    <2> QED
      BY <2>1, <2>2
  <1>2. Has(f.t, "inner") /\ Has(f.t, "inner_inv")
    BY <1>1 DEF Refused
  <1>3. GoodFrame(x) /\ Below(f, x) /\ GoodFrame(y) /\ Below(f, y)
    BY <1>2, LowerInner
  <1> HIDE DEF x, y
  <1>4. g \in {x, y}
    BY <1>1, OneOfTwo DEF Asks, GoodFrame
  <1> QED
    BY <1>3, <1>4

LEMMA CalledByBluestein ==
    ASSUME Life, Wiring, NEW f, GoodFrame(f), ~Refused(f), f.fn = "bluestein", NEW g, Asks(f, g)
    PROVE  GoodFrame(g) /\ Below(f, g)
  <1> DEFINE a == SplitAt(f.t, "scratch", BluM(f.t), 0)
             A == SplitAt(f.t, "scratch", BluM(f.t), 2 * BluM(f.t))
             x == Call("execute", Part(f.t, "inner"), a, A)
             y == Call("execute", Part(f.t, "inner_inv"), A, a)
  <1>1. Callees(f) = <<x, y>>
    BY DEF Callees
  <1>2. Has(f.t, "inner") /\ Has(f.t, "inner_inv")
    BY DEF Refused
  <1>3. GoodFrame(x) /\ Below(f, x) /\ GoodFrame(y) /\ Below(f, y)
    BY <1>2, LowerInner
  <1> HIDE DEF x, y
  <1>4. g \in {x, y}
    BY <1>1, OneOfTwo DEF Asks, GoodFrame
  <1> QED
    BY <1>3, <1>4

LEMMA CalledByRfft ==
    ASSUME Life, Wiring, NEW f, GoodFrame(f), ~Refused(f), f.fn = "rfft", NEW g, Asks(f, g)
    PROVE  GoodFrame(g) /\ Below(f, g)
  <1>1. PICK in, out : Callees(f) = <<Call("split", Part(f.t, "inner"), in, out)>>
    BY DEF Callees
  <1> DEFINE x == Call("split", Part(f.t, "inner"), in, out)
  <1>2. Has(f.t, "inner")
    BY DEF Refused
  <1>3. GoodFrame(x) /\ Below(f, x)
    BY <1>2, LowerInner
  <1> HIDE DEF x
  <1>4. g = x
    BY <1>1, OnlyOne DEF Asks, GoodFrame, x
  <1> QED
    BY <1>3, <1>4

LEMMA Joined ==
    ASSUME NEW x, NEW y
    PROVE  <<x>> \o <<y>> = <<x, y>> /\ <<x>> \o <<>> = <<x>>
  <1> DEFINE S == {x, y}
  <1>1. <<x>> \in Seq(S) /\ <<y>> \in Seq(S) /\ <<x, y>> \in Seq(S) /\ <<>> \in Seq(S)
    OBVIOUS
  <1>2. <<x>> \o <<>> = <<x>>
    BY <1>1
  <1>3. /\ Len(<<x>> \o <<y>>) = 2 /\ (<<x>> \o <<y>>)[1] = x /\ (<<x>> \o <<y>>)[2] = y
        /\ <<x>> \o <<y>> \in Seq(S)
    BY <1>1
  <1>4. <<x>> \o <<y>> = <<x, y>>
    <2> DEFINE s == <<x>> \o <<y>>
    <2>1. s \in Seq(S) /\ Len(s) = 2 /\ s[1] = x /\ s[2] = y
      BY <1>3
    <2> HIDE DEF s
    <2>2. s = [k \in 1..2 |-> s[k]] /\ 1..2 = {1, 2}
      BY <2>1
    <2>3. s = <<x, y>>
      BY <2>1, <2>2
    <2> QED
      BY <2>3 DEF s
  <1> QED
    BY <1>2, <1>4

LEMMA CalledByPipeline ==
    ASSUME Life, Wiring, NEW f, GoodFrame(f), f.fn = "pipeline", NEW g, Asks(f, g)
    PROVE  GoodFrame(g) /\ Below(f, g)
  <1> DEFINE spec == [SplitAt(f.t, "scratch", Bins(f.t), 0) EXCEPT !.layout = "hermitian"]
             x == Call("execute", Part(f.t, "inner"), f.in, spec)
             y == Call("execute", Part(f.t, "inner_inv"), spec, f.out)
             c == Has(f.t, "inner_inv")
  <1>1. Callees(f) = <<x>> \o If(c, <<y>>)
    BY DEF Callees
  <1>2. Type(f.t) = "pipeline" /\ Standard(heap, ptr, f.t)
    BY Routes DEF GoodFrame, OnRoute
  <1>3. Has(f.t, "inner")
    <2> DEFINE r == heap[f.t].req
               u == Base(r)
    <2>1. u.maker = "pipeline" /\ Whole(heap, ptr, f.t)
      BY <1>2 DEF Type, Req, Base, Standard
    <2>2. Present(ptr, Block(f.t), "inner")
      BY <2>1, PipelineHas
    <2> QED
      BY <2>2 DEF Present, Has, Points
  <1>4. GoodFrame(x) /\ Below(f, x)
    BY <1>3, LowerInner
  <1>5. c => GoodFrame(y) /\ Below(f, y)
    BY LowerInner
  <1> HIDE DEF x, y
  <1>6. CASE c
    <2>3. If(c, <<y>>) = <<y>>
      BY <1>6 DEF If
    <2>1. Callees(f) = <<x, y>>
      BY <1>1, <2>3, Joined
    <2>2. g \in {x, y}
      BY <2>1, OneOfTwo DEF Asks, GoodFrame
    <2> QED
      BY <1>4, <1>5, <1>6, <2>2
  <1>7. CASE ~c
    <2>3. If(c, <<y>>) = <<>>
      BY <1>7 DEF If
    <2>1. Callees(f) = <<x>>
      BY <1>1, <2>3, Joined
    <2>2. g = x
      BY <2>1, OnlyOne DEF Asks, GoodFrame
    <2> QED
      BY <1>4, <2>2
  <1> QED
    BY <1>6, <1>7

LEMMA RowsCount ==
    ASSUME NEW r PROVE Rows(r) \in Nat
  BY LimitsAssumption DEF Rows

LEMMA CalledByCwt ==
    ASSUME Life, Wiring, NEW f, GoodFrame(f), f.fn \in {"cwt", "icwt"}, NEW g, Asks(f, g)
    PROVE  GoodFrame(g) /\ Below(f, g)
  <1> DEFINE b == Bank(f.t)
             X == BankBuffer(b, "X_re", "X_im")
             Y == BankBuffer(b, "Y_re", "Y_im")
             rows == Rows(Req(b))
             n == N(f.t)
             e == E(f.t)
  <1>1. rows \in Nat
    BY RowsCount
  <1>2. \A at \in {"rfft", "irfft"} : \A in, out :
            /\ GoodFrame(Call("execute", Part(b, at), in, out))
            /\ Below(f, Call("execute", Part(b, at), in, out))
    BY LowerBank
  <1>3. CASE f.fn = "cwt"
    <2> DEFINE x == Call("execute", Part(b, "rfft"), f.in, X)
               s == [k \in 1..rows |-> Call("execute", Part(b, "irfft"), Y, Row(f.out, k - 1, n, e))]
    <2>1. Callees(f) = <<x>> \o s
      BY <1>3 DEF Callees
    <2>2. /\ GoodFrame(x) /\ Below(f, x)
          /\ \A k \in 1..rows : GoodFrame(s[k]) /\ Below(f, s[k])
      BY <1>2
    <2> HIDE DEF rows
    <2>5. s = [k \in 1..rows |-> s[k]]
      OBVIOUS
    <2> HIDE DEF x, s
    <2>3. s \in Seq({s[k] : k \in 1..rows}) /\ Len(s) = rows
      BY <1>1, <2>5
    <2>4. g = x \/ \E j \in 1..Len(s) : g = s[j]
      BY <2>1, <2>3, FirstThen DEF Asks, GoodFrame
    <2> QED
      BY <2>2, <2>3, <2>4
  <1>4. CASE f.fn = "icwt"
    <2> DEFINE x == Call("execute", Part(b, "irfft"), X, Buffer("real", n, f.out.re, Null))
               s == [k \in 1..rows |-> Call("execute", Part(b, "rfft"), Row(f.in, k - 1, n, e), Y)]
    <2>1. Callees(f) = s \o <<x>>
      BY <1>4 DEF Callees
    <2>2. /\ GoodFrame(x) /\ Below(f, x)
          /\ \A k \in 1..rows : GoodFrame(s[k]) /\ Below(f, s[k])
      BY <1>2
    <2> HIDE DEF rows
    <2>5. s = [k \in 1..rows |-> s[k]]
      OBVIOUS
    <2> HIDE DEF x, s
    <2>3. s \in Seq({s[k] : k \in 1..rows}) /\ Len(s) = rows
      BY <1>1, <2>5
    <2>4. g = x \/ \E j \in 1..Len(s) : g = s[j]
      BY <2>1, <2>3, ThenLast DEF Asks, GoodFrame
    <2> QED
      BY <2>2, <2>3, <2>4
  <1> QED
    BY <1>3, <1>4

LEMMA CalledWell ==
    ASSUME FlagsMeant, Life, Wiring, Legitimate, NEW f, GoodFrame(f), ~Refused(f), NEW g, Asks(f, g)
    PROVE  GoodFrame(g) /\ Below(f, g)
  <1>1. f.fn \in Served \cup {"execute", "kernel"}
    BY DEF GoodFrame, OnRoute
  <1> QED
    BY <1>1, CalledByExecute, CalledByVm, CalledByFlat, CalledBySplit, CalledByKernel,
       CalledByBluestein, CalledByRfft, CalledByPipeline, CalledByCwt, InterpretAlone
       DEF Served, Asks

-----------------------------------------------------------------------------
(* The walk: every function on the way is below all that called it.        *)
OnWay(w) ==
    /\ \E S : w \in Seq(S)
    /\ \A k \in 1..Len(w) : GoodFrame(w[k])
    /\ \A k, l \in 1..Len(w) : k < l => Below(w[k], w[l])

LEMMA BelowAll ==
    ASSUME NEW f, NEW g, NEW x, Below(f, g), Below(g, x)
    PROVE  Below(f, x)
  <1>1. /\ Rank(Req(f.t)) \in Nat /\ Rank(Req(g.t)) \in Nat /\ Rank(Req(x.t)) \in Nat
    BY Ranks
  <1>2. CASE Rank(Req(g.t)) < Rank(Req(f.t)) \/ Rank(Req(x.t)) < Rank(Req(g.t))
    BY <1>1, <1>2 DEF Below
  <1>3. CASE /\ g.t = f.t /\ g.fn \in After(f.fn) /\ x.t = g.t /\ x.fn \in After(g.fn)
    <2>1. x.fn \in After(f.fn) /\ ~(f.fn = "flat" /\ x.fn \in {"split", "interpret"})
      BY <1>3 DEF After, Served
    <2> QED
      BY <1>3, <2>1 DEF Below
  <1> QED
    BY <1>2, <1>3 DEF Below

LEMMA WayEmpty == OnWay(<<>>)
  BY Empty DEF OnWay

LEMMA WayStarts ==
    ASSUME NEW f, GoodFrame(f)
    PROVE  OnWay(<<f>>)
  <1>1. <<f>> \in Seq({f}) /\ Len(<<f>>) = 1 /\ <<f>>[1] = f /\ 1..1 = {1} /\ ~(1 < 1)
    OBVIOUS
  <1> QED
    BY <1>1 DEF OnWay

LEMMA WayPushed ==
    ASSUME NEW w, OnWay(w), w # <<>>, NEW g, GoodFrame(g), Below(w[Len(w)], g)
    PROVE  OnWay(Append(w, g))
  <1> DEFINE n == Len(w)
             w2 == Append(w, g)
  <1>1. PICK S : w \in Seq(S)
    BY DEF OnWay
  <1>2. /\ n \in Nat \ {0} /\ Len(w2) = n + 1 /\ w2[n + 1] = g
        /\ \A k \in 1..n : w2[k] = w[k]
        /\ w2 \in Seq(S \cup {g})
    <2>1. w \in Seq(S \cup {g})
      BY <1>1
    <2> QED
      BY <1>1, <2>1
  <1> HIDE DEF n, w2
  <1>3. 1..n + 1 = 1..n \cup {n + 1}
    BY <1>2
  <1>4. \A k \in 1..n : Below(w[k], g)
    <2> TAKE k \in 1..n
    <2>1. CASE k = n
      BY <2>1 DEF n
    <2>2. CASE k < n
      <3>1. n \in 1..n
        BY <1>2
      <3>2. Below(w[k], w[n])
        BY <2>2, <3>1 DEF OnWay, n
      <3> QED
        BY <3>2, BelowAll DEF n
    <2> QED
      BY <1>2, <2>1, <2>2
  <1>5. \A k \in 1..n + 1 : GoodFrame(w2[k])
    BY <1>2, <1>3 DEF OnWay, n
  <1>6. ASSUME NEW k \in 1..n + 1, NEW l \in 1..n + 1, k < l PROVE Below(w2[k], w2[l])
    <2>1. k \in 1..n
      BY <1>2, <1>6
    <2>2. CASE l = n + 1
      BY <1>2, <1>4, <2>1, <2>2
    <2>3. CASE l \in 1..n
      BY <1>2, <1>6, <2>1, <2>3 DEF OnWay, n
    <2> QED
      BY <1>3, <2>2, <2>3
  <1>7. OnWay(w2)
    BY <1>2, <1>5, <1>6 DEF OnWay
  <1> QED
    BY <1>7 DEF w2

LEMMA Counted ==
    ASSUME NEW f, GoodFrame(f), NEW x, x = [f EXCEPT !.i = @ + 1]
    PROVE  /\ GoodFrame(x) /\ x.fn = f.fn /\ x.t = f.t /\ x.in = f.in /\ x.out = f.out
           /\ \A g : (Below(g, f) => Below(g, x)) /\ (Below(f, g) => Below(x, g))
  <1>1. PICK fn, t, in, out, i : f = [fn |-> fn, t |-> t, in |-> in, out |-> out, i |-> i]
    BY DEF GoodFrame, IsCall
  <1>2. x = [fn |-> fn, t |-> t, in |-> in, out |-> out, i |-> i + 1] /\ i \in Nat \ {0}
    BY <1>1 DEF GoodFrame
  <1>3. /\ x.fn = f.fn /\ x.t = f.t /\ x.in = f.in /\ x.out = f.out /\ x.i \in Nat \ {0}
        /\ IsCall(x)
    BY <1>1, <1>2 DEF IsCall
  <1>4. GoodFrame(x)
    BY <1>3 DEF GoodFrame, OnRoute
  <1>5. \A g : (Below(g, f) => Below(g, x)) /\ (Below(f, g) => Below(x, g))
    <2>1. WorkOf(x) = WorkOf(f)
      BY <1>3 DEF WorkOf, InPlace
    <2> QED
      BY <1>3, <2>1 DEF Below, InPlace
  <1> QED
    BY <1>3, <1>4, <1>5

LEMMA WayBack ==
    ASSUME NEW w, OnWay(w), w # <<>>
    PROVE  OnWay(Back(w))
  <1> DEFINE n == Len(w) - 1
             s == Shorter(w)
             w2 == [s EXCEPT ![n].i = @ + 1]
  <1>1. CASE Len(w) = 1
    BY <1>1, WayEmpty DEF Back
  <1>2. CASE Len(w) # 1
    <2>1. /\ \E S : w \in Seq(S)
      BY DEF OnWay
    <2>2. /\ \E S : s \in Seq(S)
          /\ Len(w) \in Nat \ {0} /\ Len(s) = n
          /\ \A k \in 1..n : s[k] = w[k]
      BY <2>1, ShorterIs
    <2>3. Back(w) = w2
      BY <1>2 DEF Back, Shorter
    <2>4. n \in Nat \ {0} /\ n \in 1..n /\ \A k \in 1..n : k \in 1..Len(w)
      BY <1>2, <2>2
    <2> DEFINE x == [s[n] EXCEPT !.i = @ + 1]
    <2>5. GoodFrame(s[n])
      BY <2>2, <2>4 DEF OnWay
    <2>6. /\ GoodFrame(x)
          /\ \A g : (Below(g, s[n]) => Below(g, x)) /\ (Below(s[n], g) => Below(x, g))
      BY <2>5, Counted
    <2>7. w2 = [s EXCEPT ![n] = x]
      OBVIOUS
    <2> HIDE DEF w2, x, s, n
    <2>8. PICK S : s \in Seq(S)
      BY <2>2
    <2>9. /\ w2 \in Seq(S \cup {x}) /\ Len(w2) = n /\ w2[n] = x
          /\ \A k \in 1..n : k # n => w2[k] = s[k]
      BY <2>2, <2>4, <2>7, <2>8
    <2>10. \A k \in 1..n : GoodFrame(w2[k])
      BY <2>2, <2>4, <2>6, <2>9 DEF OnWay
    <2>11. ASSUME NEW k \in 1..n, NEW l \in 1..n, k < l PROVE Below(w2[k], w2[l])
      <3>1. Below(s[k], s[l])
        BY <2>2, <2>4, <2>11 DEF OnWay
      <3>2. k # n /\ w2[k] = s[k]
        BY <2>4, <2>9, <2>11
      <3>3. CASE l = n
        BY <2>6, <2>9, <3>1, <3>2, <3>3
      <3>4. CASE l # n
        BY <2>9, <3>1, <3>2, <3>4
      <3> QED
        BY <3>3, <3>4
    <2>12. OnWay(w2)
      BY <2>9, <2>10, <2>11 DEF OnWay
    <2> QED
      BY <2>3, <2>12
  <1> QED
    BY <1>1, <1>2

LEMMA WayStays ==
    ASSUME OnWay(walk'), UNCHANGED lifeVars
    PROVE  OnWay(walk)'
  <1>1. heap' = heap /\ ptr' = ptr
    BY DEF lifeVars
  <1>2. \A t : Route(t)' = Route(t)
    BY <1>1 DEF Route, Type, Req, Has, Points
  <1>3. \A f : GoodFrame(f) => GoodFrame(f)'
    BY <1>1, <1>2 DEF GoodFrame, OnRoute
  <1>4. \A f, g : Below(f, g) => Below(f, g)'
    <2>1. \A f : f.fn = "flat" => WorkOf(f)' = WorkOf(f)
      BY <1>1 DEF WorkOf, Scratch, Room, Points, Kernel, N, E, Req
    <2> QED
      BY <1>1, <2>1 DEF Below, Req
  <1> QED
    BY <1>3, <1>4 DEF OnWay

(* What is known of the objects while calls go on.                         *)
Outfitted == Kept /\ Wiring /\ Legitimate /\ Entrusted(heap, ptr)

LEMMA OutfittedInit == DispatchInit => Outfitted
  <1> SUFFICES ASSUME DispatchInit PROVE Outfitted
    OBVIOUS
  <1>1. Init
    BY DEF DispatchInit
  <1>2. Entrusted(heap, ptr)
    BY <1>1 DEF Init, Entrusted
  <1> QED
    BY <1>1, <1>2, KeptInit, WiringInit, LegitInit DEF Outfitted

LEMMA LifeAlone == [Next]_vars => [LifeNext]_lifeVars
  BY DEF Next, vars, LifeNext, lifeVars, Stay, Execute, Refuse, OutOfMemory, FallBack,
         CallNext, Return, ServeByKernel

LEMMA OutfittedSteps == Outfitted /\ [Next]_vars => Outfitted'
  <1> SUFFICES ASSUME Outfitted, [Next]_vars PROVE Outfitted'
    OBVIOUS
  <1>1. [LifeNext]_lifeVars
    BY LifeAlone
  <1>2. Life /\ Wiring /\ Legitimate /\ Entrusted(heap, ptr)
    BY DEF Outfitted, Kept
  <1>3. Kept' /\ Wiring' /\ Legitimate' /\ Entrusted(heap', ptr')
    BY <1>1, <1>2, KeptSteps, WiringSteps, LegitSteps, EntrustedSteps DEF Outfitted
  <1> QED
    BY <1>3 DEF Outfitted

(* One step of a call.                                                     *)
LEMMA WaySteps ==
    ASSUME FlagsMeant
    PROVE  Outfitted /\ OnWay(walk) /\ [Next]_vars => OnWay(walk)'
  <1> SUFFICES ASSUME Outfitted, OnWay(walk), [Next]_vars PROVE OnWay(walk)'
    OBVIOUS
  <1>1. Life /\ Wiring /\ Legitimate /\ Entrusted(heap, ptr)
    BY DEF Outfitted, Kept
  <1>2. CASE walk' = <<>>
    <2>1. (\E S : walk' \in Seq(S)) /\ 1..Len(walk') = {}
      BY <1>2, Empty
    <2> QED
      BY <2>1 DEF OnWay
  <1>3. CASE UNCHANGED vars
    BY <1>3, WayStays DEF vars, lifeVars
  <1>4. CASE \E h \in Handles : Execute(h)
    <2>1. PICK h \in Handles : Execute(h)
      BY <1>4
    <2>2. PICK f \in Offered(h) : walk' = <<f>>
      BY <2>1 DEF Execute
    <2>3. PICK in, out : f = Call("execute", h, in, out)
      BY <2>2 DEF Offered
    <2>4. Standard(heap, ptr, h) /\ h \in DOMAIN heap
      BY <1>1, HandleIs
    <2>5. GoodFrame(f)
      BY <2>3, <2>4, Calling DEF GoodFrame, OnRoute
    <2>6. OnWay(walk') /\ UNCHANGED lifeVars
      BY <2>1, <2>2, <2>5, WayStarts DEF Execute
    <2> QED
      BY <2>6, WayStays
  <1>5. CASE CallNext
    <2>1. /\ walk # <<>> /\ ~Refused(Now) /\ Now.i <= Len(Callees(Now))
          /\ walk' = Append(walk, Callees(Now)[Now.i]) /\ UNCHANGED lifeVars
      BY <1>5 DEF CallNext
    <2>2. Len(walk) \in 1..Len(walk)
      BY <2>1 DEF OnWay
    <2>3. GoodFrame(Now) /\ Now = walk[Len(walk)]
      BY <2>2 DEF OnWay, Now, Calls
    <2> DEFINE g == Callees(Now)[Now.i]
    <2>4. GoodFrame(g) /\ Below(Now, g)
      BY <1>1, <2>1, <2>3, CalledWell DEF Asks
    <2> HIDE DEF g
    <2>5. OnWay(Append(walk, g))
      BY <2>1, <2>3, <2>4, WayPushed
    <2> QED
      BY <2>1, <2>5, WayStays DEF g
  <1>6. CASE Return \/ ServeByKernel
    <2>1. walk # <<>> /\ walk' = Back(walk) /\ UNCHANGED lifeVars
      BY <1>6 DEF Return, ServeByKernel
    <2>2. OnWay(walk')
      BY <2>1, WayBack
    <2> QED
      BY <2>1, <2>2, WayStays
  <1>7. CASE FallBack
    <2>1. /\ walk # <<>> /\ AllocatesPlanes(Now) /\ UNCHANGED lifeVars
          /\ walk' = Append(walk, Call("interpret", Now.t, Now.in, Now.out))
      BY <1>7 DEF FallBack
    <2>2. Len(walk) \in 1..Len(walk)
      BY <2>1 DEF OnWay
    <2>3. GoodFrame(Now) /\ Now = walk[Len(walk)]
      BY <2>2 DEF OnWay, Now, Calls
    <2> DEFINE g == Call("interpret", Now.t, Now.in, Now.out)
    <2>4. GoodFrame(g) /\ Below(Now, g)
      BY <2>1, <2>3, CalledToInterpret
    <2> HIDE DEF g
    <2>5. OnWay(Append(walk, g))
      BY <2>1, <2>3, <2>4, WayPushed
    <2> QED
      BY <2>1, <2>5, WayStays DEF g
  <1> QED
    BY <1>2, <1>3, <1>4, <1>5, <1>6, <1>7 DEF Next, Stay, Refuse, OutOfMemory

LEMMA AlwaysOnWay ==
    ASSUME FlagsMeant
    PROVE  Spec => [](Outfitted /\ OnWay(walk))
  <1>1. DispatchInit => OnWay(walk)
    BY WayEmpty DEF DispatchInit
  <1>2. Outfitted /\ OnWay(walk) /\ [Next]_vars => OnWay(walk)'
    BY WaySteps
  <1> QED
    BY <1>1, <1>2, OutfittedInit, OutfittedSteps, PTL DEF Spec

LEMMA NotAgain ==
    ASSUME NEW f, NEW g, Below(f, g)
    PROVE  ~(f.fn = g.fn /\ f.t = g.t)
  <1>1. Rank(Req(f.t)) \in Nat /\ Rank(Req(g.t)) \in Nat
    BY Ranks
  <1>2. f.fn \notin After(f.fn)
    BY DEF After, Served
  <1> QED
    BY <1>1, <1>2 DEF Below

(* No call of faf_execute comes back to a function that is at work for the *)
(* same transform (the way down through faf_execute, the interpreter, the  *)
(* kernels, Bluestein, the real FFT, the CWT and the pipelines cannot      *)
(* close), if Bluestein's flag is only set where there are inner           *)
(* transforms for it (faf_core.c:1310, faf_vm.c:979).                      *)
THEOREM CallsNeverReenter ==
    ASSUME FlagsMeant
    PROVE  Spec => []NoReentry
  <1>1. OnWay(walk) => NoReentry
    <2> SUFFICES ASSUME OnWay(walk), NEW k \in 1..Calls, NEW l \in 1..Calls,
                        walk[k].fn = walk[l].fn /\ walk[k].t = walk[l].t, k # l
                 PROVE  FALSE
      BY DEF NoReentry
    <2>1. k < l \/ l < k
      BY DEF OnWay, Calls
    <2> QED
      BY <2>1, NotAgain DEF OnWay, Calls
  <1>2. Spec => [](Outfitted /\ OnWay(walk))
    BY AlwaysOnWay
  <1> QED
    BY <1>1, <1>2, PTL

(* Work memory, by the function that uses it.                              *)
LEMMA WorkIs ==
    ASSUME NEW f
    PROVE  /\ f.fn \notin {"cwt", "icwt"} =>
                  \A x \in WorkOf(f) : \E at \in {"scratch", "t1", "t3"} : x = <<f.t, at>>
           /\ f.fn \in {"cwt", "icwt"} =>
                  \A x \in WorkOf(f) : \E at \in {"X_re", "Y_re"} : x = <<Bank(f.t), at>>
           /\ f.fn \in {"execute", "vm"} => WorkOf(f) = {}
           /\ f.fn = "flat" => WorkOf(f) \subseteq {<<f.t, "scratch">>}
           /\ f.fn = "split" => /\ WorkOf(f) \subseteq {<<f.t, "scratch">>}
                                /\ ~InPlace(f) => WorkOf(f) = {}
           /\ f.fn = "interpret" => WorkOf(f) \subseteq {<<f.t, "scratch">>}
           /\ f.fn = "kernel" => WorkOf(f) \subseteq {<<f.t, "t1">>, <<f.t, "t3">>}
  BY DEF WorkOf

LEMMA Apart ==
    ASSUME NEW f, NEW g, GoodFrame(f), GoodFrame(g), Below(f, g)
    PROVE  WorkOf(f) \cap WorkOf(g) = {}
  <1>1. Rank(Req(f.t)) \in 1..5 /\ Rank(Req(g.t)) \in 1..5
    BY Ranks
  <1>2. CASE Rank(Req(g.t)) < Rank(Req(f.t))
    <2>1. g.fn \notin {"cwt", "icwt"}
      <3> SUFFICES ASSUME g.fn \in {"cwt", "icwt"} PROVE FALSE
        OBVIOUS
      <3>1. Req(g.t).maker \in {"cwt", "icwt"}
        BY Routes DEF GoodFrame, OnRoute, Type
      <3>2. Rank(Req(g.t)) = 5
        BY <3>1, Ranks
      <3> QED
        BY <1>1, <1>2, <3>2
    <2>2. g.t # f.t
      BY <1>1, <1>2
    <2>3. CASE f.fn \notin {"cwt", "icwt"}
      BY <2>1, <2>2, <2>3, WorkIs
    <2>4. CASE f.fn \in {"cwt", "icwt"}
      BY <2>1, <2>4, WorkIs
    <2> QED
      BY <2>3, <2>4
  <1>3. CASE /\ g.t = f.t /\ g.fn \in After(f.fn)
             /\ f.fn = "flat" /\ g.fn = "split" => ~InPlace(g)
             /\ f.fn = "flat" /\ g.fn = "interpret" => WorkOf(f) = {}
    <2>1. CASE f.fn \in {"execute", "vm"}
      BY <2>1, WorkIs
    <2>2. CASE f.fn = "flat" /\ g.fn = "split"
      BY <1>3, <2>2, WorkIs
    <2>3. CASE f.fn \in {"flat", "split"} /\ g.fn = "kernel"
      <3>1. WorkOf(f) \subseteq {<<f.t, "scratch">>} /\ WorkOf(g) \subseteq {<<g.t, "t1">>, <<g.t, "t3">>}
        BY <2>3, WorkIs
      <3> QED
        BY <3>1
    <2>4. CASE f.fn = "flat" /\ g.fn = "interpret"
      BY <1>3, <2>4
    <2>5. \/ f.fn \in {"execute", "vm"}
          \/ f.fn = "flat" /\ g.fn \in {"split", "interpret"}
          \/ f.fn \in {"flat", "split"} /\ g.fn = "kernel"
      BY <1>3 DEF After
    <2> QED
      BY <2>1, <2>2, <2>3, <2>4, <2>5
  <1> QED
    BY <1>2, <1>3 DEF Below

(* No function that serves a call of faf_execute works in the scratch, the *)
(* work tables or the planes of the bank that one of its callers is using: *)
(* what faf_execute_f32 deinterleaved, what Bluestein, Rader and the real  *)
(* FFT hand to their inner transforms is still there when they return.     *)
THEOREM CallsWorkApart ==
    ASSUME FlagsMeant
    PROVE  Spec => []WorkApart
  <1>1. OnWay(walk) => WorkApart
    <2> SUFFICES ASSUME OnWay(walk), NEW k \in 1..Calls, NEW l \in 1..Calls, k < l
                 PROVE  WorkOf(walk[k]) \cap WorkOf(walk[l]) = {}
      BY DEF WorkApart
    <2> QED
      BY Apart DEF OnWay, Calls
  <1>2. Spec => [](Outfitted /\ OnWay(walk))
    BY AlwaysOnWay
  <1> QED
    BY <1>1, <1>2, PTL


-----------------------------------------------------------------------------
(* The room there is in the tables of each kind of transform, in bytes.    *)
LEMMA Rounded == \A b \in Nat : Align64(b) \in Nat /\ b <= Align64(b)
  BY DEF Align64

LEMMA RoomIs ==
    ASSUME Life, NEW t, NEW at, NEW x,
           \A o \in ptr : o.by = Block(t) /\ o.at = at => heap[o.to].bytes = x
    PROVE  Room(t, at) = IF Has(t, at) THEN x ELSE 0
  <1>1. CASE Has(t, at)
    <2>1. PICK o \in ptr : o.by = Block(t) /\ o.at = at /\ o.to = Part(t, at)
      BY <1>1, Found
    <2> QED
      BY <1>1, <2>1 DEF Room, Has, Part
  <1>2. CASE ~Has(t, at)
    BY <1>2 DEF Room, Has
  <1> QED
    BY <1>1, <1>2

LEMMA HasIs == \A t, at : Has(t, at) <=> Present(ptr, Block(t), at)
  BY DEF Has, Points, Present

(* A transform that is no STFT has no window.                              *)
LEMMA Plainly ==
    ASSUME NEW t, Standard(heap, ptr, t), Type(t) # "stft"
    PROVE  /\ Whole(heap, ptr, t) /\ Req(t) = heap[t].req /\ Req(t) = Base(heap[t].req)
           /\ \A o : ~Window(heap, Req(t), o)
  BY DEF Standard, Type, Req, Base, Window

LEMMA SplitRadixRooms ==
    ASSUME Life, NEW t, Standard(heap, ptr, t), Type(t) = "fft",
           FftPath(N(t), Req(t).flags) = "splitradix"
    PROVE  /\ Room(t, "t0") = Align64(SrTwiddleCount(N(t)) * E(t))
           /\ Room(t, "t1") = Align64(2 * N(t) * E(t))
           /\ \/ heap[t].fn = "dif"
              \/ heap[t].fn = "dit" /\ Room(t, "t2") = Align64(2 * N(t) * E(t))
  <1> DEFINE r == Req(t)
             x == Align64(SrTwiddleCount(r.n) * Elem(r))
             y == Align64(2 * r.n * Elem(r))
             z == Align64(4 * r.n * Elem(r))
  <1>1. Whole(heap, ptr, t) /\ r = Base(heap[t].req) /\ r = heap[t].req /\ r.maker = "fft"
        /\ FftPath(r.n, r.flags) = "splitradix"
    BY Plainly DEF Type, N
  <1>2. /\ \A o \in ptr : o.by = Block(t) =>
                  \/ Window(heap, heap[t].req, o)
                  \/ Bytes(heap, o, "t0", x)
                  \/ Bytes(heap, o, "t1", y)
                  \/ Bytes(heap, o, "t2", y)
                  \/ Bytes(heap, o, "scratch", z)
        /\ \A at \in {"t0", "t1", "scratch"} : Present(ptr, Block(t), at)
        /\ heap[t].fn = "dif" \/ (heap[t].fn = "dit" /\ Present(ptr, Block(t), "t2"))
    <2> HIDE DEF r
    <2> QED
      BY <1>1, SplitRadixHas
  <1>3. \A o : ~Window(heap, heap[t].req, o)
    BY <1>1, Plainly
  <1>4. Has(t, "t0") /\ Has(t, "t1") /\ (Present(ptr, Block(t), "t2") => Has(t, "t2"))
    BY <1>2, HasIs
  <1> HIDE DEF x, y, z
  <1>5. /\ \A o \in ptr : o.by = Block(t) /\ o.at = "t0" => heap[o.to].bytes = x
        /\ \A o \in ptr : o.by = Block(t) /\ o.at = "t1" => heap[o.to].bytes = y
        /\ \A o \in ptr : o.by = Block(t) /\ o.at = "t2" => heap[o.to].bytes = y
    BY <1>2, <1>3 DEF Bytes
  <1>6. Room(t, "t0") = x /\ Room(t, "t1") = y /\ (Has(t, "t2") => Room(t, "t2") = y)
    BY <1>4, <1>5, RoomIs
  <1> QED
    BY <1>2, <1>4, <1>6 DEF x, y, N, E

LEMMA RaderRooms ==
    ASSUME Life, NEW t, Standard(heap, ptr, t), Type(t) = "fft",
           FftPath(N(t), Req(t).flags) = "rader"
    PROVE  /\ Room(t, "t0") = Align64((N(t) - 1) * E(t))
           /\ Room(t, "t1") = Align64((N(t) - 1) * E(t))
           /\ Room(t, "t2") = Align64(2 * (N(t) - 1) * 4)
           /\ Room(t, "t3") = Align64(2 * (N(t) - 1) * E(t))
           /\ heap[t].fn = "rader"
  <1> DEFINE r == Req(t)
             i == Inner(r, (r.n - 1), "fwd", {"seven"})
             j == Inner(r, (r.n - 1), "inv", {"seven"})
             x == Align64(2 * (r.n - 1) * 4)
             y == Align64((r.n - 1) * Elem(r))
             z == Align64(2 * (r.n - 1) * Elem(r))
             s == Align64(4 * r.n * Elem(r))
  <1>1. Whole(heap, ptr, t) /\ r = Base(heap[t].req) /\ r = heap[t].req /\ r.maker = "fft"
        /\ FftPath(r.n, r.flags) = "rader"
    BY Plainly DEF Type, N
  <1>2. /\ \A o \in ptr : o.by = Block(t) =>
                  \/ Window(heap, heap[t].req, o)
                  \/ Inside(heap, o, "inner", i)
                  \/ Inside(heap, o, "inner_inv", j)
                  \/ Bytes(heap, o, "t2", x)
                  \/ Bytes(heap, o, "t0", y)
                  \/ Bytes(heap, o, "t1", y)
                  \/ Bytes(heap, o, "t3", z)
                  \/ Bytes(heap, o, "scratch", s)
        /\ \A at \in {"inner", "inner_inv", "t0", "t1", "t2", "t3", "scratch"} :
               Present(ptr, Block(t), at)
        /\ heap[t].fn = "rader"
    <2> HIDE DEF r
    <2> QED
      BY <1>1, RaderHas
  <1>3. \A o : ~Window(heap, heap[t].req, o)
    BY <1>1, Plainly
  <1>4. \A at \in {"t0", "t1", "t2", "t3"} : Has(t, at)
    BY <1>2, HasIs
  <1> HIDE DEF i, j, x, y, z, s
  <1>5. /\ \A o \in ptr : o.by = Block(t) /\ o.at = "t0" => heap[o.to].bytes = y
        /\ \A o \in ptr : o.by = Block(t) /\ o.at = "t1" => heap[o.to].bytes = y
        /\ \A o \in ptr : o.by = Block(t) /\ o.at = "t2" => heap[o.to].bytes = x
        /\ \A o \in ptr : o.by = Block(t) /\ o.at = "t3" => heap[o.to].bytes = z
    BY <1>2, <1>3 DEF Bytes, Inside
  <1>6. Room(t, "t0") = y /\ Room(t, "t1") = y /\ Room(t, "t2") = x /\ Room(t, "t3") = z
    BY <1>4, <1>5, RoomIs
  <1> QED
    BY <1>2, <1>6 DEF x, y, z, N, E

LEMMA BluesteinRooms ==
    ASSUME Life, NEW t, Standard(heap, ptr, t), Type(t) = "fft",
           FftPath(N(t), Req(t).flags) = "bluestein"
    PROVE  /\ Room(t, "t0") = 2 * N(t) * E(t)
           /\ Room(t, "t1") = 2 * BluesteinLength(N(t)) * E(t)
           /\ Room(t, "scratch") = Align64(6 * BluesteinLength(N(t)) * E(t))
           /\ heap[t].fn = "none" /\ ~Has(t, "code")
  <1> DEFINE r == Req(t)
             i == Inner(r, BluesteinLength(r.n), "fwd", {})
             j == Inner(r, BluesteinLength(r.n), "inv", {})
             x == 2 * r.n * Elem(r)
             y == 2 * BluesteinLength(r.n) * Elem(r)
             s == Align64(6 * BluesteinLength(r.n) * Elem(r))
  <1>1. Whole(heap, ptr, t) /\ r = Base(heap[t].req) /\ r = heap[t].req /\ r.maker = "fft"
        /\ FftPath(r.n, r.flags) = "bluestein"
    BY Plainly DEF Type, N
  <1>2. /\ \A o \in ptr : o.by = Block(t) =>
                  \/ Window(heap, heap[t].req, o)
                  \/ Inside(heap, o, "inner", i)
                  \/ Inside(heap, o, "inner_inv", j)
                  \/ Bytes(heap, o, "t0", x)
                  \/ Bytes(heap, o, "t1", y)
                  \/ Bytes(heap, o, "scratch", s)
        /\ \A at \in {"inner", "inner_inv", "t0", "t1", "scratch"} : Present(ptr, Block(t), at)
        /\ heap[t].fn = "none"
    <2> HIDE DEF r
    <2> QED
      BY <1>1, BluesteinHas
  <1>3. \A o : ~Window(heap, heap[t].req, o)
    BY <1>1, Plainly
  <1>4. \A at \in {"t0", "t1", "scratch"} : Has(t, at)
    BY <1>2, HasIs
  <1> HIDE DEF i, j, x, y, s
  <1>5. /\ \A o \in ptr : o.by = Block(t) /\ o.at = "t0" => heap[o.to].bytes = x
        /\ \A o \in ptr : o.by = Block(t) /\ o.at = "t1" => heap[o.to].bytes = y
        /\ \A o \in ptr : o.by = Block(t) /\ o.at = "scratch" => heap[o.to].bytes = s
        /\ \A o \in ptr : o.by = Block(t) => o.at # "code"
    BY <1>2, <1>3 DEF Bytes, Inside
  <1>6. Room(t, "t0") = x /\ Room(t, "t1") = y /\ Room(t, "scratch") = s
    BY <1>4, <1>5, RoomIs
  <1>7. ~Has(t, "code")
    BY <1>5, HasIs DEF Present
  <1> QED
    BY <1>2, <1>6, <1>7 DEF x, y, s, N, E
(* An FFT, or an STFT whose window is alone in t1.                         *)
LEMMA GeneratedRoom ==
    ASSUME Life, NEW t, Standard(heap, ptr, t), Type(t) \in {"fft", "stft"},
           NEW path, path = FftPath(N(t), Req(t).flags), path \in {"radix2", "mixed"}
    PROVE  /\ Room(t, "t0") = IF path = "mixed" THEN 2 * N(t) * E(t) ELSE N(t) * E(t)
           /\ heap[t].fn = "none"
           /\ Type(t) = "stft" => Room(t, "t1") = N(t) * 4
  <1> DEFINE r == Req(t)
             u == Base(r)
             table == IF path = "mixed" THEN 2 * u.n * Elem(u) ELSE u.n * Elem(u)
             s == Align64(4 * u.n * Elem(u))
  <1>1. /\ Whole(heap, ptr, t) /\ r = heap[t].req /\ u = Base(heap[t].req)
        /\ u.n = r.n /\ u.prec = r.prec /\ u.flags = r.flags /\ u.maker = "fft"
    BY SortOf DEF Standard, Type, Req
  <1>2. Steps(u) = GeneratedSteps(u, table) /\ Elem(u) = Elem(r)
    <2>1. FftPath(u.n, u.flags) = path
      BY <1>1 DEF N
    <2> QED
      BY <1>1, <2>1 DEF Steps, FftSteps, Elem
  <1> HIDE DEF u, table
  <1>3. /\ \A o \in ptr : o.by = Block(t) =>
                  \/ Window(heap, heap[t].req, o)
                  \/ o.at = "code"
                  \/ Bytes(heap, o, "t0", table)
                  \/ Bytes(heap, o, "scratch", Align64(4 * u.n * Elem(u)))
        /\ Present(ptr, Block(t), "t0") \/ table = 0
        /\ heap[t].fn = "none"
    BY <1>1, <1>2, GeneratedHas
  <1> HIDE DEF s
  <1>4. \A o : Window(heap, heap[t].req, o) <=>
               /\ Type(t) = "stft" /\ o.at = "t1" /\ heap[o.to].bytes = N(t) * 4
    BY <1>1 DEF Window, Type, N
  <1>5. /\ \A o \in ptr : o.by = Block(t) /\ o.at = "t0" => heap[o.to].bytes = table
        /\ \A o \in ptr : o.by = Block(t) /\ o.at = "t1" => heap[o.to].bytes = N(t) * 4
    BY <1>3, <1>4 DEF Bytes
  <1>6. Type(t) = "stft" => Has(t, "t1")
    BY <1>1, HasIs DEF Whole, Type, Req
  <1>7. Room(t, "t0") = table
    BY <1>3, <1>5, RoomIs, HasIs
  <1>8. Room(t, "t1") = IF Has(t, "t1") THEN N(t) * 4 ELSE 0
    <2> DEFINE x == N(t) * 4
    <2>1. \A o \in ptr : o.by = Block(t) /\ o.at = "t1" => heap[o.to].bytes = x
      BY <1>5
    <2> HIDE DEF x
    <2>2. Room(t, "t1") = IF Has(t, "t1") THEN x ELSE 0
      BY <2>1, RoomIs
    <2> QED
      BY <2>2 DEF x
  <1> QED
    BY <1>1, <1>2, <1>3, <1>6, <1>7, <1>8 DEF table, N, E

LEMMA CodeletRoom ==
    ASSUME Life, NEW t, Standard(heap, ptr, t), Type(t) \in {"fft", "stft"},
           FftPath(N(t), Req(t).flags) = "codelet"
    PROVE  /\ heap[t].fn = "codelet"
           /\ Type(t) = "stft" => Room(t, "t1") = N(t) * 4
  <1> DEFINE r == Req(t)
             u == Base(r)
  <1>1. /\ Whole(heap, ptr, t) /\ r = heap[t].req /\ u = Base(heap[t].req)
        /\ u.n = r.n /\ u.prec = r.prec /\ u.flags = r.flags /\ u.maker = "fft"
        /\ FftPath(u.n, u.flags) = "codelet"
    <2>1. /\ Whole(heap, ptr, t) /\ r = heap[t].req /\ u = Base(heap[t].req)
          /\ u.n = r.n /\ u.prec = r.prec /\ u.flags = r.flags /\ u.maker = "fft"
      BY SortOf DEF Standard, Type, Req
    <2> QED
      BY <2>1 DEF N
  <1> HIDE DEF u
  <1>3. /\ \A o \in ptr : o.by = Block(t) =>
                  \/ Window(heap, heap[t].req, o)
                  \/ Bytes(heap, o, "scratch", Align64(4 * u.n * Elem(u)))
        /\ heap[t].fn = "codelet"
    BY <1>1, CodeletHas
  <1>4. \A o : Window(heap, heap[t].req, o) <=>
               /\ Type(t) = "stft" /\ o.at = "t1" /\ heap[o.to].bytes = N(t) * 4
    BY <1>1 DEF Window, Type, N
  <1> DEFINE x == N(t) * 4
  <1>5. \A o \in ptr : o.by = Block(t) /\ o.at = "t1" => heap[o.to].bytes = x
    BY <1>3, <1>4 DEF Bytes
  <1>6. Type(t) = "stft" => Has(t, "t1")
    BY <1>1, HasIs DEF Whole, Type, Req
  <1> HIDE DEF x
  <1>7. Room(t, "t1") = IF Has(t, "t1") THEN x ELSE 0
    BY <1>5, RoomIs
  <1> QED
    BY <1>3, <1>6, <1>7 DEF x

(* A program without a table has no code for it, or nothing to look up.    *)
LEMMA RealRoom ==
    ASSUME Life, NEW t, Standard(heap, ptr, t), Type(t) \in {"dct", "dst", "mdct"}
    PROVE  /\ heap[t].fn = "none"
           /\ Has(t, "code") =>
                  Room(t, "t0") = (IF N(t) > MaxFft THEN MaxFft ELSE N(t)) * E(t)
  <1> DEFINE r == Req(t)
             table == (IF r.n > MaxFft THEN MaxFft ELSE r.n) * Elem(r)
  <1>1. Whole(heap, ptr, t) /\ r = Base(heap[t].req) /\ r = heap[t].req
        /\ r.maker \in {"dct", "dst", "mdct"}
    BY Plainly DEF Type
  <1>2. /\ \A o \in ptr : o.by = Block(t) =>
                  \/ Window(heap, heap[t].req, o)
                  \/ o.at = "code"
                  \/ Bytes(heap, o, "t0", table)
        /\ Present(ptr, Block(t), "code") => Present(ptr, Block(t), "t0") \/ table = 0
        /\ heap[t].fn = "none"
    <2> HIDE DEF r
    <2> QED
      BY <1>1, RealHas
  <1>3. \A o : ~Window(heap, heap[t].req, o)
    BY <1>1, Plainly
  <1> HIDE DEF table
  <1>4. \A o \in ptr : o.by = Block(t) /\ o.at = "t0" => heap[o.to].bytes = table
    BY <1>2, <1>3 DEF Bytes
  <1>5. Has(t, "code") => Room(t, "t0") = table
    BY <1>2, <1>4, RoomIs, HasIs
  <1> QED
    BY <1>2, <1>5 DEF table, N, E

LEMMA DwtRoom ==
    ASSUME Life, NEW t, Standard(heap, ptr, t), Type(t) = "dwt"
    PROVE  heap[t].fn = "none" /\ Room(t, "t0") = 0
  <1> DEFINE r == Req(t)
  <1>1. Whole(heap, ptr, t) /\ r = Base(heap[t].req) /\ r = heap[t].req /\ r.maker = "dwt"
    BY Plainly DEF Type
  <1>2. /\ \A o \in ptr : o.by = Block(t) =>
                  \/ Window(heap, heap[t].req, o)
                  \/ o.at = "code"
                  \/ Bytes(heap, o, "t0", 0)
                  \/ Bytes(heap, o, "scratch", Align64(r.n * Elem(r)))
        /\ heap[t].fn = "none"
    <2> HIDE DEF r
    <2> QED
      BY <1>1, DwtHas
  <1>3. \A o : ~Window(heap, heap[t].req, o)
    BY <1>1, Plainly
  <1>4. \A o \in ptr : o.by = Block(t) /\ o.at = "t0" => heap[o.to].bytes = 0
    BY <1>2, <1>3 DEF Bytes
  <1> QED
    BY <1>2, <1>4, RoomIs

LEMMA RfftRooms ==
    ASSUME Life, NEW t, Standard(heap, ptr, t), Type(t) = "rfft"
    PROVE  /\ Room(t, "t1") = IF Has(t, "t1") THEN ((N(t) \div 2) \div 2) * 2 * E(t) ELSE 0
           /\ ((N(t) \div 2) \div 2) > 0 => Has(t, "t1")
           /\ Room(t, "scratch") = Align64((4 * (N(t) \div 2) + 2 * ((N(t) \div 2) + 1)) * E(t))
  <1> DEFINE r == Req(t)
             i == Inner(r, (r.n \div 2), r.dir, {})
             x == ((r.n \div 2) \div 2) * 2 * Elem(r)
             s == Align64((4 * (r.n \div 2) + 2 * ((r.n \div 2) + 1)) * Elem(r))
  <1>1. Whole(heap, ptr, t) /\ r = Base(heap[t].req) /\ r = heap[t].req /\ r.maker = "rfft"
    BY Plainly DEF Type
  <1>2. /\ \A o \in ptr : o.by = Block(t) =>
                  \/ Window(heap, heap[t].req, o)
                  \/ Inside(heap, o, "inner", i)
                  \/ Bytes(heap, o, "t1", x)
                  \/ Bytes(heap, o, "scratch", s)
        /\ Present(ptr, Block(t), "scratch")
        /\ ((r.n \div 2) \div 2) > 0 => Present(ptr, Block(t), "t1")
    <2> HIDE DEF r
    <2> QED
      BY <1>1, RfftHas
  <1>3. \A o : ~Window(heap, heap[t].req, o)
    BY <1>1, Plainly
  <1> HIDE DEF i, x, s
  <1>4. /\ \A o \in ptr : o.by = Block(t) /\ o.at = "t1" => heap[o.to].bytes = x
        /\ \A o \in ptr : o.by = Block(t) /\ o.at = "scratch" => heap[o.to].bytes = s
    BY <1>2, <1>3 DEF Bytes, Inside
  <1>5. Room(t, "t1") = (IF Has(t, "t1") THEN x ELSE 0) /\ Room(t, "scratch") = s
    BY <1>2, <1>4, RoomIs, HasIs
  <1> QED
    BY <1>2, <1>5, HasIs DEF x, s, N, E

LEMMA PipelineRoom ==
    ASSUME Life, NEW t, Standard(heap, ptr, t), Type(t) = "pipeline"
    PROVE  /\ Room(t, "scratch") = Align64((N(t) \div 2 + 1) * 2 * E(t))
           /\ Has(t, "inner") /\ (Has(t, "inner_inv") => "irfft" \in Req(t).flags)
  <1> DEFINE r == Req(t)
             i == [InnerReal(r, "fwd") EXCEPT !.layout = r.layout]
             j == [InnerReal(r, "inv") EXCEPT !.layout = r.layout, !.prec = TailPrec(r)]
             s == Align64((r.n \div 2 + 1) * 2 * Elem(r))
  <1>1. Whole(heap, ptr, t) /\ r = Base(heap[t].req) /\ r = heap[t].req /\ r.maker = "pipeline"
    BY Plainly DEF Type
  <1>2. /\ \A o \in ptr : o.by = Block(t) =>
                  \/ Window(heap, heap[t].req, o)
                  \/ Inside(heap, o, "inner", i)
                  \/ "irfft" \in r.flags /\ Inside(heap, o, "inner_inv", j)
                  \/ o.at = "code"
                  \/ Bytes(heap, o, "scratch", s)
        /\ \A at \in {"inner", "scratch"} : Present(ptr, Block(t), at)
    <2> HIDE DEF r
    <2> QED
      BY <1>1, PipelineHas
  <1>3. \A o : ~Window(heap, heap[t].req, o)
    BY <1>1, Plainly
  <1> HIDE DEF i, j, s
  <1>4. /\ \A o \in ptr : o.by = Block(t) /\ o.at = "scratch" => heap[o.to].bytes = s
        /\ \A o \in ptr : o.by = Block(t) /\ o.at = "inner_inv" => "irfft" \in r.flags
    BY <1>2, <1>3 DEF Bytes, Inside
  <1>5. Room(t, "scratch") = s
    BY <1>2, <1>4, RoomIs, HasIs
  <1>6. Has(t, "inner") /\ (Has(t, "inner_inv") => "irfft" \in Req(t).flags)
    BY <1>2, <1>4, HasIs DEF Present
  <1> QED
    BY <1>5, <1>6 DEF s, N, E

LEMMA BankRooms ==
    ASSUME Life, NEW b, Whole(heap, ptr, b), Req(b).maker = "bank",
           NEW table, table = Rows(Req(b)) * Padded(Req(b))
    PROVE  /\ Room(b, "Psi") = Align64(table * E(b))
           /\ Room(b, "Psi_dual") = Align64(table * 8)
           /\ Req(b).prec = "f32" => Room(b, "Psi_dual_f32") = Align64(table * 4)
           /\ \A at \in {"X_re", "X_im", "Y_re", "Y_im"} :
                  Room(b, at) = Align64(Padded(Req(b)) * E(b))
  <1> DEFINE r == Req(b)
             x1 == Align64((Rows(r) * Padded(r)) * 8)
             x2 == Align64((Rows(r) * Padded(r)) * Elem(r))
             x3 == Align64((Rows(r) * Padded(r)) * 4)
             s == Align64(Padded(r) * Elem(r))
             planes == {"X_re", "X_im", "Y_re", "Y_im"}
  <1>1. Whole(heap, ptr, b) /\ r = Base(heap[b].req) /\ r = heap[b].req /\ r.maker = "bank"
        /\ \A o : ~Window(heap, heap[b].req, o)
    BY DEF Req, Base, Window
  <1>2. /\ \A o \in ptr : o.by = Block(b) =>
                  \/ Window(heap, heap[b].req, o)
                  \/ Inside(heap, o, "rfft", InnerReal(r, "fwd"))
                  \/ Inside(heap, o, "irfft", InnerReal(r, "inv"))
                  \/ Bytes(heap, o, "Psi_dual", x1)
                  \/ Bytes(heap, o, "Psi", x2)
                  \/ Bytes(heap, o, "Psi_dual_f32", x3)
                  \/ o.at \in planes /\ heap[o.to].bytes = s
                  \/ o.at \in {"scales", "freqs_hz", "Psi_l2", "A", "xi"}
        /\ \A at \in {"scales", "freqs_hz", "Psi_l2", "A", "Psi_dual", "xi", "Psi"} \cup planes :
               Present(ptr, Block(b), at)
        /\ r.prec = "f32" => Present(ptr, Block(b), "Psi_dual_f32")
    <2> HIDE DEF r
    <2> QED
      BY <1>1, BankHas
  <1> HIDE DEF x1, x2, x3, s
  <1>3. /\ \A o \in ptr : o.by = Block(b) /\ o.at = "Psi_dual" => heap[o.to].bytes = x1
        /\ \A o \in ptr : o.by = Block(b) /\ o.at = "Psi" => heap[o.to].bytes = x2
        /\ \A o \in ptr : o.by = Block(b) /\ o.at = "Psi_dual_f32" => heap[o.to].bytes = x3
        /\ \A at \in planes : \A o \in ptr :
               o.by = Block(b) /\ o.at = at => heap[o.to].bytes = s
    BY <1>1, <1>2 DEF Bytes, Inside
  <1>4. Has(b, "Psi_dual") /\ Has(b, "Psi") /\ (r.prec = "f32" => Has(b, "Psi_dual_f32"))
        /\ \A at \in planes : Has(b, at)
    BY <1>2, HasIs
  <1>5. Room(b, "Psi_dual") = x1 /\ Room(b, "Psi") = x2
        /\ (r.prec = "f32" => Room(b, "Psi_dual_f32") = x3)
    BY <1>3, <1>4, RoomIs
  <1>6. \A at \in planes : Room(b, at) = s
    BY <1>3, <1>4, RoomIs
  <1> QED
    BY <1>5, <1>6 DEF x1, x2, x3, s, E

-----------------------------------------------------------------------------
(* Buffers as long as their layout and their length say.                   *)
IsPlane(p) == p = [at |-> p.at, room |-> p.room] /\ p.room \in Nat
Fair(b, e) ==
    /\ b.layout \in Layouts /\ IsPlane(b.re)
    /\ b.re.room >= (IF b.layout = "interleaved" THEN 2 * b.n ELSE b.n) * e
    /\ b.layout \in {"split", "hermitian"} /\ b.im # Null => b.im.room >= b.n * e
Ample(plane, bytes) == bytes <= plane.room

(* What a function may rely on where it is called: lengths that it does    *)
(* not look at are right, and there is room in what it is given.           *)
Roomy(f) ==
    LET t == f.t
        n == N(t)
        e == E(t)
    IN  /\ f.fn \in {"execute", "bluestein", "rfft", "pipeline", "cwt", "icwt"} =>
               Fair(f.in, e) /\ Fair(f.out, e)
        /\ f.fn = "execute" /\ Route(t) \in {"vm", "flat", "split"} =>
               f.in.n = n /\ f.out.n = n
        /\ f.fn \in {"execute", "cwt"} /\ Type(t) = "cwt" /\ f.out.layout = "real" =>
               f.out.n = Rows(Req(t)) * n
        /\ f.fn \in {"execute", "icwt"} /\ Type(t) = "icwt" /\ f.in.layout = "real" =>
               f.in.n = Rows(Req(t)) * n
        /\ f.fn \in {"vm", "flat", "interpret"} =>
               Ample(f.in.re, 2 * n * e) /\ Ample(f.out.re, 2 * n * e)
        /\ f.fn \in {"split", "kernel"} =>
               /\ Ample(f.in.re, n * e) /\ Ample(f.in.im, n * e)
               /\ Ample(f.out.re, n * e) /\ Ample(f.out.im, n * e)
        /\ f.fn \in {"vm", "flat", "split", "interpret", "kernel"} =>
               Type(t) \in {"fft", "stft", "dwt", "dct", "dst", "mdct"}
        /\ f.fn = "kernel" => Kernel(t)
        /\ f.fn = "interpret" => ~Kernel(t)

LEMMA MeantIs ==
    ASSUME WindowsApart, CallsMeant, LengthsFound, NEW r, Legit(r), IsRequest(r)
    PROVE  /\ r.n \in Nat /\ Elem(r) \in {4, 8}
           /\ r.maker = "stft" =>
                  FftPath(r.n, r.flags) \notin {"splitradix", "rader", "bluestein"}
           /\ "bluestein" \in r.flags /\ r.maker \in {"fft", "stft"} =>
                  FftPath(r.n, r.flags) # "rader"
           /\ r.layout = "real" => r.maker \notin {"dwt", "dct", "dst", "mdct"}
           /\ "tail64" \in r.flags /\ r.maker = "pipeline" => r.prec = "f64"
  <1>1. r.n \in Nat /\ Elem(r) \in {4, 8}
    BY DEF Legit, Elem
  <1>2. CASE \E c \in Requests : Stems(r, c)
    <2>1. PICK c \in Requests : Stems(r, c)
      BY <1>2
    <2>2. r.n = c.n /\ r.prec = c.prec /\ r.layout = c.layout /\ r.flags = c.flags
          /\ (r.maker \in {"fft", "stft"} <=> c.maker \in {"fft", "stft"})
          /\ (r.maker = "stft" => c.maker = "stft")
          /\ \A m \in {"dwt", "dct", "dst", "mdct", "pipeline"} : r.maker = m => c.maker = m
      BY <2>1 DEF Stems
    <2>3. c.maker = "stft" => FftPath(c.n, c.flags) \notin {"splitradix", "rader", "bluestein"}
      BY DEF WindowsApart, Plain
    <2>4. /\ "bluestein" \in c.flags /\ c.maker \in {"fft", "stft"} =>
                 FftPath(c.n, c.flags) # "rader"
          /\ c.layout = "real" => c.maker \notin {"dwt", "dct", "dst", "mdct"}
          /\ "tail64" \in c.flags /\ c.maker = "pipeline" => c.prec = "f64"
      BY DEF CallsMeant
    <2> QED
      BY <1>1, <2>2, <2>3, <2>4
  <1>3. CASE ~\E c \in Requests : Stems(r, c)
    BY <1>1, <1>3 DEF Legit
  <1> QED
    BY <1>2, <1>3

-----------------------------------------------------------------------------
(* Accesses that keep inside, and planes.                                  *)
Within(a) == a.need <= a.plane.room
AllWithin(A) == \A a \in A : Within(a)

LEMMA WithinIs ==
    /\ \A p, b : Within(Touch(p, b)) <=> Ample(p, b)
    /\ \A t, at, b : Within(Slot(t, at, b)) <=> b <= Room(t, at)
  BY DEF Within, Touch, Slot, Ample
LEMMA WithinAll ==
    /\ AllWithin({})
    /\ \A a : AllWithin({a}) <=> Within(a)
    /\ \A a, b : AllWithin({a, b}) <=> Within(a) /\ Within(b)
    /\ \A A, B : AllWithin(A \cup B) <=> AllWithin(A) /\ AllWithin(B)
  BY DEF AllWithin
LEMMA WithinSplit ==
    \A b, bytes : AllWithin(SplitBytes(b, bytes)) <=> Ample(b.re, bytes) /\ Ample(b.im, bytes)
  BY WithinIs, WithinAll DEF SplitBytes

LEMMA PlaneIs ==
    ASSUME NEW t, NEW at, NEW first \in Nat, NEW count \in Nat, E(t) \in {4, 8},
           NEW room \in Nat, Room(t, at) = room, (first + count) * E(t) <= room
    PROVE  /\ Ample(Plane(t, at, first, count), count * E(t))
           /\ IsPlane(Plane(t, at, first, count))
  <1> DEFINE e == Elem(heap[t].req)
             left == Room(t, at) - first * e
  <1>1. e = E(t) /\ e \in {4, 8}
    BY DEF E, Req
  <1>2. Plane(t, at, first, count) =
            [at |-> <<t, at, first>>, room |-> IF left < 0 THEN 0 ELSE Least(left, count * e)]
    BY DEF Plane
  <1>3. (IF left < 0 THEN 0 ELSE Least(left, count * e)) = count * e
    <2>1. CASE e = 4
      BY <1>1, <2>1 DEF Least
    <2>2. CASE e = 8
      BY <1>1, <2>2 DEF Least
    <2> QED
      BY <1>1, <2>1, <2>2
  <1>4. count * e \in Nat
    BY <1>1
  <1> HIDE DEF e, left
  <1> QED
    BY <1>1, <1>2, <1>3, <1>4 DEF Ample, IsPlane

LEMMA SplitAtIs ==
    ASSUME NEW t, NEW at, NEW first \in Nat, NEW n \in Nat, E(t) \in {4, 8},
           NEW room \in Nat, Room(t, at) = room, (first + 2 * n) * E(t) <= room,
           NEW b, b = SplitAt(t, at, n, first)
    PROVE  /\ b.layout = "split" /\ b.n = n
           /\ Ample(b.re, n * E(t)) /\ Ample(b.im, n * E(t))
           /\ Fair(b, E(t))
  <1>1. /\ (first + n) * E(t) <= room
        /\ ((first + n) + n) * E(t) <= room
        /\ n * E(t) \in Nat
    <2>1. CASE E(t) = 4
      BY <2>1
    <2>2. CASE E(t) = 8
      BY <2>2
    <2> QED
      BY <2>1, <2>2
  <1>2. /\ Ample(Plane(t, at, first, n), n * E(t)) /\ Ample(Plane(t, at, first + n, n), n * E(t))
        /\ IsPlane(Plane(t, at, first, n))
    BY <1>1, PlaneIs
  <1>3. /\ b.layout = "split" /\ b.n = n
        /\ b.re = Plane(t, at, first, n) /\ b.im = Plane(t, at, first + n, n)
    BY DEF SplitAt, Buffer
  <1> QED
    BY <1>2, <1>3 DEF Fair, Ample, Layouts

-----------------------------------------------------------------------------
(* What a function touches is there.                                       *)
Sense == WindowsApart /\ CallsMeant /\ LengthsFound
Path(t) == FftPath(N(t), Req(t).flags)

LEMMA KnownIs ==
    ASSUME Sense, Legitimate, NEW t, t \in DOMAIN heap, Standard(heap, ptr, t)
    PROVE  /\ N(t) \in Nat /\ E(t) \in {4, 8} /\ Type(t) \in Makers
           /\ Type(t) \in {"fft", "stft"} =>
                  Path(t) \in {"codelet", "splitradix", "radix2", "mixed", "rader", "bluestein"}
           /\ Type(t) = "stft" => Path(t) \in {"codelet", "radix2", "mixed"}
           /\ "bluestein" \in Req(t).flags /\ Type(t) \in {"fft", "stft"} => Path(t) # "rader"
           /\ Req(t).layout = "real" => Type(t) \notin {"dwt", "dct", "dst", "mdct"}
           /\ "tail64" \in Req(t).flags /\ Type(t) = "pipeline" => Req(t).prec = "f64"
  <1> DEFINE r == heap[t].req
             u == Base(r)
  <1>1. r = Req(t) /\ N(t) = r.n /\ E(t) = Elem(r) /\ Type(t) = r.maker
        /\ Path(t) = FftPath(r.n, r.flags)
    BY DEF Req, N, E, Type, Path
  <1>2. Legit(r) /\ IsRequest(r)
    BY DEF Legitimate, HeapLegit, Standard
  <1>3. /\ r.n \in Nat /\ Elem(r) \in {4, 8}
        /\ r.maker = "stft" => FftPath(r.n, r.flags) \notin {"splitradix", "rader", "bluestein"}
        /\ "bluestein" \in r.flags /\ r.maker \in {"fft", "stft"} =>
               FftPath(r.n, r.flags) # "rader"
        /\ r.layout = "real" => r.maker \notin {"dwt", "dct", "dst", "mdct"}
        /\ "tail64" \in r.flags /\ r.maker = "pipeline" => r.prec = "f64"
    BY <1>2, MeantIs DEF Sense
  <1>4. r.maker \in Makers
        /\ (r.maker \in {"fft", "stft"} =>
            FftPath(r.n, r.flags) \in {"codelet", "splitradix", "radix2", "mixed",
                                      "rader", "bluestein"})
    <2>1. /\ r.maker \in Makers /\ (r.maker \in {"fft", "stft"} => u.maker = "fft")
          /\ u.maker = "fft" => FftPath(r.n, r.flags) \in
                 {"codelet", "splitradix", "radix2", "mixed", "rader", "bluestein"}
      BY SortOf
    <2> QED
      BY <2>1
  <1> HIDE DEF r
  <1> QED
    BY <1>1, <1>3, <1>4

LEMMA SafeVm ==
    ASSUME Sense, Life, Legitimate, NEW f, GoodFrame(f), Roomy(f), f.fn = "vm"
    PROVE  AllWithin(Accesses(f))
  <1> DEFINE t == f.t
             n == N(t)
             e == E(t)
  <1>1. t \in DOMAIN heap /\ Standard(heap, ptr, t)
    BY DEF GoodFrame
  <1>2. CASE Type(t) = "stft" /\ Req(t).prec = "f32"
    <2>1. Accesses(f) = {Slot(t, "t1", n * 4), Touch(f.in.re, 2 * n * e)}
      BY <1>2 DEF Accesses
    <2>2. Ample(f.in.re, 2 * n * e)
      BY DEF Roomy
    <2>3. n \in Nat /\ Path(t) \in {"codelet", "radix2", "mixed"}
      BY <1>1, <1>2, KnownIs
    <2>4. Room(t, "t1") = n * 4
      <3>1. CASE Path(t) = "codelet"
        BY <1>1, <1>2, <3>1, CodeletRoom DEF Path
      <3>2. CASE Path(t) \in {"radix2", "mixed"}
        BY <1>1, <1>2, <3>2, GeneratedRoom DEF Path
      <3> QED
        BY <2>3, <3>1, <3>2
    <2>5. n * 4 <= Room(t, "t1")
      BY <2>3, <2>4
    <2> HIDE DEF t, n, e
    <2> QED
      BY <2>1, <2>2, <2>5, WithinIs, WithinAll
  <1>3. CASE ~(Type(t) = "stft" /\ Req(t).prec = "f32")
    <2>1. Accesses(f) = {}
      BY <1>3 DEF Accesses
    <2> QED
      BY <2>1, WithinAll
  <1> QED
    BY <1>2, <1>3

LEMMA SafeFlat ==
    ASSUME NEW f, Roomy(f), f.fn = "flat"
    PROVE  AllWithin(Accesses(f))
  <1> DEFINE b == 2 * N(f.t) * E(f.t)
  <1>1. Accesses(f) = {Touch(f.in.re, b), Touch(f.out.re, b)}
    BY DEF Accesses
  <1>2. Ample(f.in.re, b) /\ Ample(f.out.re, b)
    BY DEF Roomy
  <1> HIDE DEF b
  <1> QED
    BY <1>1, <1>2, WithinIs, WithinAll

LEMMA CodeRoom ==
    ASSUME Sense, Life, Legitimate, NEW t, t \in DOMAIN heap, Standard(heap, ptr, t),
           Type(t) \in {"fft", "stft", "dwt", "dct", "dst", "mdct"},
           ~Kernel(t), Has(t, "code")
    PROVE  CodeTable(t) <= Room(t, "t0")
  <1> DEFINE n == N(t)
             e == E(t)
  <1>1. n \in Nat /\ e \in {4, 8} /\ heap[t].fn = "none" /\ MaxFft \in Nat
    BY KnownIs, LimitsAssumption DEF Kernel
  <1>2. /\ n * e \in Nat /\ 2 * n * e \in Nat
        /\ Least(n, MaxFft) * e = (IF n > MaxFft THEN MaxFft ELSE n) * e
        /\ Least(n, MaxFft) * e \in Nat
    <2>1. CASE e = 4
      BY <1>1, <2>1 DEF Least
    <2>2. CASE e = 8
      BY <1>1, <2>2 DEF Least
    <2> QED
      BY <1>1, <2>1, <2>2
  <1>3. CASE Type(t) \in {"fft", "stft"}
    <2>1. Path(t) \in {"radix2", "mixed"}
      <3>1. /\ Path(t) \in {"codelet", "splitradix", "radix2", "mixed", "rader", "bluestein"}
            /\ Type(t) = "stft" => Path(t) \in {"codelet", "radix2", "mixed"}
        BY <1>3, KnownIs
      <3>2. Path(t) # "codelet"
        BY <1>1, <1>3, CodeletRoom DEF Path
      <3>3. CASE Type(t) = "fft"
        BY <1>1, <3>1, <3>2, <3>3, SplitRadixRooms, RaderRooms, BluesteinRooms DEF Path
      <3> QED
        BY <1>3, <3>1, <3>2, <3>3
    <2>2. CodeTable(t) = IF Path(t) = "mixed" THEN 2 * n * e ELSE n * e
      BY <1>3 DEF CodeTable, Path
    <2>3. Room(t, "t0") = IF Path(t) = "mixed" THEN 2 * n * e ELSE n * e
      BY <1>3, <2>1, GeneratedRoom DEF Path
    <2> HIDE DEF n, e
    <2> QED
      BY <1>2, <2>2, <2>3
  <1>4. CASE Type(t) = "dwt"
    <2>1. Room(t, "t0") = 0 /\ CodeTable(t) = 0
      BY <1>4, DwtRoom DEF CodeTable
    <2> QED
      BY <2>1
  <1>5. CASE Type(t) \in {"dct", "dst", "mdct"}
    <2>1. Room(t, "t0") = (IF n > MaxFft THEN MaxFft ELSE n) * e
      BY <1>5, RealRoom
    <2>2. CodeTable(t) = Least(n, MaxFft) * e
      BY <1>5 DEF CodeTable
    <2> HIDE DEF n, e
    <2> QED
      BY <1>2, <2>1, <2>2
  <1> QED
    BY <1>3, <1>4, <1>5

LEMMA SafeInterpret ==
    ASSUME Sense, Life, Legitimate, NEW f, GoodFrame(f), Roomy(f), ~Refused(f),
           f.fn = "interpret"
    PROVE  AllWithin(Accesses(f))
  <1> DEFINE t == f.t
             b == 2 * N(t) * E(t)
             c == CodeTable(t)
  <1>1. /\ Ample(f.in.re, b) /\ Ample(f.out.re, b) /\ ~Kernel(t)
        /\ Type(t) \in {"fft", "stft", "dwt", "dct", "dst", "mdct"}
    BY DEF Roomy
  <1>2. t \in DOMAIN heap /\ Standard(heap, ptr, t) /\ Has(t, "code")
    BY DEF GoodFrame, Refused
  <1>3. Accesses(f) = {Touch(f.in.re, b), Touch(f.out.re, b)} \cup {Slot(t, "t0", c)}
    BY DEF Accesses
  <1>4. c <= Room(t, "t0")
    BY <1>1, <1>2, CodeRoom
  <1> HIDE DEF t, b, c
  <1>5. Within(Touch(f.in.re, b)) /\ Within(Touch(f.out.re, b)) /\ Within(Slot(t, "t0", c))
    BY <1>1, <1>4, WithinIs
  <1>6. AllWithin({Touch(f.in.re, b), Touch(f.out.re, b)}) /\ AllWithin({Slot(t, "t0", c)})
    BY <1>5, WithinAll
  <1> QED
    BY <1>3, <1>6, WithinAll

LEMMA SafeSplit ==
    ASSUME Sense, Life, Legitimate, NEW f, GoodFrame(f), Roomy(f), ~Refused(f), f.fn = "split"
    PROVE  AllWithin(Accesses(f))
  <1> DEFINE t == f.t
             b == N(t) * E(t)
             c == CodeTable(t)
  <1>1. /\ Ample(f.in.re, b) /\ Ample(f.in.im, b) /\ Ample(f.out.re, b) /\ Ample(f.out.im, b)
        /\ Type(t) \in {"fft", "stft", "dwt", "dct", "dst", "mdct"}
    BY DEF Roomy
  <1>2. t \in DOMAIN heap /\ Standard(heap, ptr, t) /\ (Kernel(t) \/ Has(t, "code"))
    BY DEF GoodFrame, Refused
  <1>3. CASE ~Kernel(t)
    <2>1. Accesses(f) = (SplitBytes(f.in, b) \cup SplitBytes(f.out, b)) \cup {Slot(t, "t0", c)}
      BY <1>3 DEF Accesses
    <2>2. c <= Room(t, "t0")
      BY <1>1, <1>2, <1>3, CodeRoom
    <2> HIDE DEF t, b, c
    <2>3. Within(Slot(t, "t0", c))
      BY <2>2, WithinIs
    <2>4. AllWithin(SplitBytes(f.in, b)) /\ AllWithin(SplitBytes(f.out, b))
          /\ AllWithin({Slot(t, "t0", c)})
      BY <1>1, <2>3, WithinSplit, WithinAll
    <2> QED
      BY <2>1, <2>4, WithinAll
  <1>4. CASE Kernel(t)
    <2>1. Accesses(f) = {}
      BY <1>4 DEF Accesses
    <2> QED
      BY <2>1, WithinAll
  <1> QED
    BY <1>3, <1>4

LEMMA TwiddlesCount == ASSUME NEW n \in Nat PROVE SrTwiddleCount(n) \in Nat
  <1> DEFINE S == {k \in 1..30 : 2^k <= n}
             P == (4..Log2(n)) \X (1..n)
             T == {e \in P : e[2] <= 2^e[1]}
  <1>1. IsFiniteSet(1..30)
    <2>1. 1 \in Int /\ 30 \in Int
      OBVIOUS
    <2> QED
      BY <2>1, FS_Interval, Zenon
  <1>2. IsFiniteSet(S)
    BY <1>1, FS_Subset, S \subseteq 1..30
  <1>3. Log2(n) \in Nat
    BY <1>2, FS_CardinalityType DEF Log2
  <1>4. IsFiniteSet(4..Log2(n)) /\ IsFiniteSet(1..n)
    <2>1. 4 \in Int /\ Log2(n) \in Int /\ 1 \in Int /\ n \in Int
      BY <1>3
    <2> QED
      BY <2>1, FS_Interval, Zenon
  <1>5. IsFiniteSet(P)
    BY <1>4, FS_Product
  <1>6. IsFiniteSet(T)
    <2>1. T \subseteq P
      OBVIOUS
    <2> HIDE DEF P
    <2> QED
      BY <1>5, <2>1, FS_Subset
  <1> QED
    BY <1>6, FS_CardinalityType DEF SrTwiddleCount

LEMMA SafeKernel ==
    ASSUME Sense, Life, Legitimate, NEW f, GoodFrame(f), Roomy(f), f.fn = "kernel"
    PROVE  AllWithin(Accesses(f))
  <1> DEFINE t == f.t
             n == N(t)
             e == E(t)
             b == n * e
             ends == SplitBytes(f.in, b) \cup SplitBytes(f.out, b)
  <1>1. /\ Ample(f.in.re, b) /\ Ample(f.in.im, b) /\ Ample(f.out.re, b) /\ Ample(f.out.im, b)
        /\ Type(t) \in {"fft", "stft", "dwt", "dct", "dst", "mdct"} /\ Kernel(t)
    BY DEF Roomy
  <1>2. t \in DOMAIN heap /\ Standard(heap, ptr, t)
    BY DEF GoodFrame
  <1>3. AllWithin(ends)
    BY <1>1, WithinSplit, WithinAll
  <1>4. n \in Nat /\ e \in {4, 8} /\ SrTwiddleCount(n) \in Nat
    BY <1>2, KnownIs, TwiddlesCount
  <1>5. Type(t) \in {"fft", "stft"} /\ heap[t].fn # "none"
    BY <1>1, <1>2, DwtRoom, RealRoom DEF Kernel
  <1>6. /\ Path(t) \in {"codelet", "splitradix", "radix2", "mixed", "rader", "bluestein"}
        /\ Type(t) = "stft" => Path(t) \in {"codelet", "radix2", "mixed"}
    BY <1>2, <1>5, KnownIs
  <1>7. CASE Path(t) \in {"codelet", "radix2", "mixed"}
    <2>1. heap[t].fn = "codelet"
      BY <1>2, <1>5, <1>7, CodeletRoom, GeneratedRoom DEF Path
    <2>2. Accesses(f) = ends \cup {}
      BY <2>1 DEF Accesses
    <2> QED
      BY <1>3, <2>2
  <1>8. CASE Type(t) = "fft" /\ Path(t) = "splitradix"
    <2> DEFINE c == SrTwiddleCount(n) * e
               d == 2 * n * e
    <2>1. /\ Room(t, "t0") = Align64(c) /\ Room(t, "t1") = Align64(d)
          /\ heap[t].fn = "dif" \/ (heap[t].fn = "dit" /\ Room(t, "t2") = Align64(d))
      BY <1>2, <1>8, SplitRadixRooms DEF Path
    <2>2. c \in Nat /\ d \in Nat
      BY <1>4
    <2>3. CASE heap[t].fn = "dif"
      <3>1. Accesses(f) = ends \cup {Slot(t, "t0", c), Slot(t, "t1", d)}
        BY <2>3 DEF Accesses
      <3> HIDE DEF t, c, d, ends
      <3>2. c <= Align64(c) /\ d <= Align64(d)
        BY <2>2, Rounded
      <3>3. Within(Slot(t, "t0", c)) /\ Within(Slot(t, "t1", d))
        BY <2>1, <3>2, WithinIs
      <3>4. AllWithin({Slot(t, "t0", c), Slot(t, "t1", d)})
        BY <3>3 DEF AllWithin
      <3> QED
        BY <1>3, <3>1, <3>4, WithinAll
    <2>4. CASE heap[t].fn = "dit" /\ Room(t, "t2") = Align64(d)
      <3>1. Accesses(f) = ends \cup {Slot(t, "t2", d)}
        BY <2>4 DEF Accesses
      <3> HIDE DEF t, c, d, ends
      <3>2. Within(Slot(t, "t2", d))
        BY <2>2, <2>4, Rounded, WithinIs
      <3>3. AllWithin({Slot(t, "t2", d)})
        BY <3>2 DEF AllWithin
      <3> QED
        BY <1>3, <3>1, <3>3, WithinAll
    <2> QED
      BY <2>1, <2>3, <2>4
  <1>9. CASE Type(t) = "fft" /\ Path(t) = "rader"
    <2> DEFINE c == (n - 1) * e
               d == 2 * (n - 1) * 4
               g == 2 * (n - 1) * e
    <2>1. /\ Room(t, "t0") = Align64(c) /\ Room(t, "t1") = Align64(c)
          /\ Room(t, "t2") = Align64(d) /\ Room(t, "t3") = Align64(g)
          /\ heap[t].fn = "rader"
      BY <1>2, <1>9, RaderRooms DEF Path
    <2>2. c \in Nat /\ d \in Nat /\ g \in Nat
      <3>1. n >= 11
        BY <1>9, Paths DEF Path, RaderEligible
      <3> QED
        BY <1>4, <3>1
    <2>3. Accesses(f) = ends \cup {Slot(t, "t0", c), Slot(t, "t1", c),
                                   Slot(t, "t2", d), Slot(t, "t3", g)}
      BY <2>1 DEF Accesses
    <2> HIDE DEF t, c, d, g, ends
    <2>4. /\ Within(Slot(t, "t0", c)) /\ Within(Slot(t, "t1", c))
          /\ Within(Slot(t, "t2", d)) /\ Within(Slot(t, "t3", g))
      BY <2>1, <2>2, Rounded, WithinIs
    <2>5. AllWithin({Slot(t, "t0", c), Slot(t, "t1", c), Slot(t, "t2", d), Slot(t, "t3", g)})
      BY <2>4 DEF AllWithin
    <2> QED
      BY <1>3, <2>3, <2>5, WithinAll
  <1>10. CASE Type(t) = "fft" /\ Path(t) = "bluestein"
    BY <1>2, <1>5, <1>10, BluesteinRooms DEF Path
  <1> QED
    BY <1>5, <1>6, <1>7, <1>8, <1>9, <1>10

(* A transform that is routed to Bluestein's algorithm was made for it.    *)
LEMMA BluesteinOnly ==
    ASSUME Sense, Life, Wiring, Legitimate, NEW t, t \in DOMAIN heap, Standard(heap, ptr, t),
           Route(t) = "bluestein"
    PROVE  Type(t) = "fft" /\ Path(t) = "bluestein"
  <1>1. Has(t, "inner") /\ "bluestein" \in Req(t).flags /\ Type(t) \notin {"pipeline", "rfft"}
    BY Routes
  <1>2. Inward(Req(t), Req(Part(t, "inner")), "inner")
    BY <1>1, InnerPart
  <1>3. Type(t) \in {"fft", "stft"} /\ Path(t) \in {"rader", "bluestein"}
    BY <1>1, <1>2 DEF Inward, Type, N, Path
  <1> QED
    BY <1>1, <1>3, KnownIs

LEMMA BluInner ==
    ASSUME Sense, Life, Wiring, Legitimate, NEW t, t \in DOMAIN heap, Standard(heap, ptr, t),
           Type(t) = "fft", Path(t) = "bluestein", NEW at \in {"inner", "inner_inv"}
    PROVE  /\ Has(t, at) /\ Part(t, at) \in DOMAIN heap
           /\ Standard(heap, ptr, Part(t, at))
           /\ N(Part(t, at)) = BluesteinLength(N(t)) /\ E(Part(t, at)) = E(t)
           /\ N(Part(t, at)) \in Nat /\ Type(Part(t, at)) = "fft"
           /\ BluM(t) = BluesteinLength(N(t))
  <1>1. Has(t, "inner") /\ Has(t, "inner_inv")
    BY InnerThere DEF Path
  <1>2. \A a \in {"inner", "inner_inv"} :
            /\ Part(t, a) \in DOMAIN heap /\ Standard(heap, ptr, Part(t, a))
            /\ Inward(Req(t), Req(Part(t, a)), a)
    BY <1>1, InnerPart
  <1>3. \A a \in {"inner", "inner_inv"} :
            /\ N(Part(t, a)) = BluesteinLength(N(t)) /\ E(Part(t, a)) = E(t)
            /\ Type(Part(t, a)) = "fft"
    BY <1>2 DEF Inward, N, E, Elem, Type, Path
  <1>4. N(Part(t, at)) \in Nat
    BY <1>2, KnownIs
  <1> QED
    BY <1>1, <1>2, <1>3, <1>4 DEF BluM

LEMMA SafeBluestein ==
    ASSUME Sense, Life, Wiring, Legitimate, NEW f, GoodFrame(f), Roomy(f), ~Refused(f),
           f.fn = "bluestein"
    PROVE  AllWithin(Accesses(f))
  <1> DEFINE t == f.t
             n == N(t)
             e == E(t)
             M == BluM(t)
             x == 2 * n * e
             y == 2 * M * e
             z == 4 * M * e
             w == 6 * M * e
             b == n * e
             tables == {Slot(t, "t0", x), Slot(t, "t1", y), Slot(t, "scratch", z)}
  <1>1. t \in DOMAIN heap /\ Standard(heap, ptr, t) /\ Route(t) = "bluestein"
    BY DEF GoodFrame, OnRoute
  <1>2. Type(t) = "fft" /\ Path(t) = "bluestein"
    BY <1>1, BluesteinOnly
  <1>3. n \in Nat /\ e \in {4, 8}
    BY <1>1, KnownIs
  <1>4. M = BluesteinLength(n) /\ M \in Nat
    BY <1>1, <1>2, BluInner
  <1>5. Room(t, "t0") = x /\ Room(t, "t1") = y /\ Room(t, "scratch") = Align64(w)
    BY <1>1, <1>2, <1>4, BluesteinRooms DEF Path
  <1>6. x \in Nat /\ y \in Nat /\ z <= w /\ w \in Nat
    BY <1>3, <1>4
  <1>7. AllWithin(tables)
    <2> HIDE DEF t, x, y, z, w
    <2>1. z <= Align64(w)
      BY <1>3, <1>4, <1>6, Rounded DEF z
    <2>2. Within(Slot(t, "t0", x)) /\ Within(Slot(t, "t1", y)) /\ Within(Slot(t, "scratch", z))
      BY <1>5, <1>6, <2>1, WithinIs
    <2> QED
      BY <2>2 DEF AllWithin
  <1>8. /\ f.in.layout = Req(t).layout /\ f.out.layout = Req(t).layout
        /\ f.in.n = n /\ f.out.n = n
        /\ Req(t).layout # "interleaved" => Req(t).layout = "split" /\ BothIm(f)
    BY DEF Refused
  <1>9. Fair(f.in, e) /\ Fair(f.out, e)
    BY DEF Roomy
  <1>10. CASE Req(t).layout = "interleaved"
    <2>1. Accesses(f) = tables \cup {Touch(f.in.re, x), Touch(f.out.re, x)}
      BY <1>10 DEF Accesses
    <2>2. Ample(f.in.re, x) /\ Ample(f.out.re, x)
      BY <1>8, <1>9, <1>10 DEF Fair, Ample
    <2> HIDE DEF tables, x
    <2>3. AllWithin({Touch(f.in.re, x), Touch(f.out.re, x)})
      BY <2>2, WithinIs DEF AllWithin
    <2> QED
      BY <1>7, <2>1, <2>3, WithinAll
  <1>11. CASE Req(t).layout # "interleaved"
    <2>1. Accesses(f) = tables \cup (SplitBytes(f.in, b) \cup SplitBytes(f.out, b))
      BY <1>11 DEF Accesses
    <2>2. /\ Ample(f.in.re, b) /\ Ample(f.in.im, b) /\ Ample(f.out.re, b) /\ Ample(f.out.im, b)
      BY <1>8, <1>9, <1>11 DEF Fair, Ample, BothIm
    <2> HIDE DEF tables, b
    <2>3. AllWithin(SplitBytes(f.in, b)) /\ AllWithin(SplitBytes(f.out, b))
      BY <2>2, WithinSplit
    <2>4. AllWithin(SplitBytes(f.in, b) \cup SplitBytes(f.out, b))
      BY <2>3, WithinAll
    <2> QED
      BY <1>7, <2>1, <2>4, WithinAll
  <1> QED
    BY <1>10, <1>11

LEMMA Quarter == \A n \in Nat : (n \div 2) \div 2 = n \div 4
  <1> SUFFICES ASSUME NEW n \in Nat PROVE (n \div 2) \div 2 = n \div 4
    OBVIOUS
  <1> DEFINE a == n \div 2
             b == a \div 2
  <1>1. a \in Nat /\ b \in Nat
    OBVIOUS
  <1>2. 2 * a <= n /\ n < 2 * a + 2
    OBVIOUS
  <1>3. 2 * b <= a /\ a < 2 * b + 2
    BY <1>1
  <1>4. 4 * b <= n /\ n < 4 * b + 4
    BY <1>1, <1>2, <1>3
  <1> HIDE DEF b
  <1>5. \A k \in Nat : 4 * k <= n /\ n < 4 * k + 4 => n \div 4 = k
    OBVIOUS
  <1>6. n \div 4 = b
    BY <1>1, <1>4, <1>5
  <1> QED
    BY <1>6 DEF b

LEMMA SafeRfft ==
    ASSUME Sense, Life, Legitimate, NEW f, GoodFrame(f), Roomy(f), ~Refused(f), f.fn = "rfft"
    PROVE  AllWithin(Accesses(f))
  <1> DEFINE t == f.t
             n == N(t)
             e == E(t)
             x == (n \div 4) * 2 * e
             y == (4 * (n \div 2) + 2 * Bins(t)) * e
             b == n * e
             c == Bins(t) * e
             d == 2 * Bins(t) * e
             spectrum == SpectrumIn(f)
             signal == SignalIn(f)
  <1>1. t \in DOMAIN heap /\ Standard(heap, ptr, t) /\ Route(t) = "rfft"
    BY DEF GoodFrame, OnRoute
  <1>2. Type(t) = "rfft"
    BY <1>1, Routes
  <1>3. n \in Nat /\ e \in {4, 8} /\ Bins(t) = n \div 2 + 1
    BY <1>1, KnownIs DEF Bins
  <1>4. /\ Room(t, "t1") = IF Has(t, "t1") THEN ((n \div 2) \div 2) * 2 * e ELSE 0
        /\ ((n \div 2) \div 2) > 0 => Has(t, "t1")
        /\ Room(t, "scratch") = Align64((4 * (n \div 2) + 2 * ((n \div 2) + 1)) * e)
    BY <1>1, <1>2, RfftRooms
  <1>5. /\ n \div 4 = (n \div 2) \div 2 /\ n \div 4 \in Nat /\ n \div 2 \in Nat
    BY <1>3, Quarter
  <1>6. x <= Room(t, "t1")
    <2> DEFINE k == n \div 4
    <2>1. Room(t, "t1") = (IF Has(t, "t1") THEN k * 2 * e ELSE 0) /\ (k > 0 => Has(t, "t1"))
          /\ k \in Nat
      BY <1>4, <1>5
    <2> HIDE DEF k
    <2>2. k * 2 * e \in Nat /\ (k = 0 => k * 2 * e = 0)
      BY <1>3, <2>1
    <2>3. x = k * 2 * e
      BY DEF k
    <2> QED
      BY <2>1, <2>2, <2>3
  <1>7. y <= Room(t, "scratch")
    <2>1. y \in Nat
      BY <1>3, <1>5
    <2>2. Room(t, "scratch") = Align64(y)
      BY <1>3, <1>4
    <2> HIDE DEF y
    <2> QED
      BY <2>1, <2>2, Rounded
  <1>8. /\ signal.layout = "real" /\ signal.n = n
        /\ spectrum.layout = Req(t).layout /\ spectrum.n = Bins(t)
        /\ Req(t).layout = "hermitian" => spectrum.im # Null
    BY DEF Refused
  <1>9. Fair(signal, e) /\ Fair(spectrum, e)
    BY DEF Roomy, SignalIn, SpectrumIn
  <1>10. Req(t).layout \in {"hermitian", "interleaved"}
    <2>1. Accepts(Req(t))
      BY <1>1 DEF Standard, Whole, Req
    <2> QED
      BY <1>2, <2>1 DEF Accepts, Type
  <1>11. Ample(signal.re, b)
    BY <1>8, <1>9 DEF Fair, Ample
  <1>12. AllWithin(Spectrum(t, spectrum))
    <2>1. CASE spectrum.layout = "interleaved"
      <3>1. Spectrum(t, spectrum) = {Touch(spectrum.re, d)}
        BY <2>1 DEF Spectrum
      <3>2. Ample(spectrum.re, d)
        BY <1>8, <1>9, <2>1 DEF Fair, Ample
      <3> HIDE DEF spectrum, d
      <3> QED
        BY <3>1, <3>2, WithinIs, WithinAll
    <2>2. CASE spectrum.layout = "hermitian"
      <3>1. Spectrum(t, spectrum) = SplitBytes(spectrum, c)
        BY <2>2 DEF Spectrum
      <3>2. Ample(spectrum.re, c) /\ Ample(spectrum.im, c)
        BY <1>8, <1>9, <2>2 DEF Fair, Ample
      <3> HIDE DEF spectrum, c
      <3> QED
        BY <3>1, <3>2, WithinSplit
    <2> QED
      BY <1>8, <1>10, <2>1, <2>2
  <1>13. Accesses(f) = {Touch(signal.re, b), Slot(t, "t1", x), Slot(t, "scratch", y)}
                          \cup Spectrum(t, spectrum)
    BY DEF Accesses
  <1> HIDE DEF t, b, x, y, signal, spectrum
  <1>14. Within(Touch(signal.re, b)) /\ Within(Slot(t, "t1", x)) /\ Within(Slot(t, "scratch", y))
    BY <1>6, <1>7, <1>11, WithinIs
  <1>15. AllWithin({Touch(signal.re, b), Slot(t, "t1", x), Slot(t, "scratch", y)})
    BY <1>14 DEF AllWithin
  <1> QED
    BY <1>12, <1>13, <1>15, WithinAll

LEMMA SafePipeline ==
    ASSUME Sense, Life, Legitimate, NEW f, GoodFrame(f), Roomy(f), ~Refused(f), f.fn = "pipeline"
    PROVE  AllWithin(Accesses(f))
  <1> DEFINE t == f.t
             n == N(t)
             e == E(t)
             x == 2 * Bins(t) * e
             b == n * e
             c == Bins(t) * e
             ends == {Touch(f.in.re, b), Touch(f.out.re, b)}
             work == {Slot(t, "scratch", x)}
  <1>1. t \in DOMAIN heap /\ Standard(heap, ptr, t) /\ Route(t) = "pipeline"
    BY DEF GoodFrame, OnRoute
  <1>2. Type(t) = "pipeline"
    BY <1>1, Routes
  <1>3. n \in Nat /\ e \in {4, 8} /\ Bins(t) = n \div 2 + 1
    BY <1>1, KnownIs DEF Bins
  <1>4. x <= Room(t, "scratch")
    <2>1. Room(t, "scratch") = Align64((n \div 2 + 1) * 2 * e)
      BY <1>1, <1>2, PipelineRoom
    <2>2. x \in Nat /\ (n \div 2 + 1) * 2 * e = x
      BY <1>3
    <2> HIDE DEF x
    <2> QED
      BY <2>1, <2>2, Rounded
  <1>5. AllWithin(work)
    <2> HIDE DEF t, x
    <2> QED
      BY <1>4, WithinIs, WithinAll
  <1>6. Fair(f.in, e) /\ Fair(f.out, e)
    BY DEF Roomy
  <1>7. CASE Has(t, "inner_inv")
    <2>1. f.in.layout = "real" /\ f.in.n = n /\ f.out.layout = "real" /\ f.out.n = n
      BY <1>7 DEF Refused
    <2>2. Ample(f.in.re, b) /\ Ample(f.out.re, b)
      BY <1>6, <2>1 DEF Fair, Ample
    <2>3. Accesses(f) \subseteq work \cup ends
      BY <1>7 DEF Accesses
    <2> HIDE DEF work, b
    <2>4. AllWithin(ends)
      BY <2>2, WithinIs, WithinAll
    <2> QED
      BY <1>5, <2>3, <2>4 DEF AllWithin
  <1>8. CASE ~Has(t, "inner_inv")
    <2>1. f.out.layout = "hermitian" /\ f.out.n = Bins(t) /\ f.out.im # Null
      BY <1>8 DEF Refused
    <2>2. Ample(f.out.re, c) /\ Ample(f.out.im, c)
      BY <1>6, <2>1 DEF Fair, Ample
    <2>3. Accesses(f) = work \cup SplitBytes(f.out, c)
      BY <1>8 DEF Accesses, Jitted
    <2> HIDE DEF work, c
    <2>4. AllWithin(SplitBytes(f.out, c))
      BY <2>2, WithinSplit
    <2> QED
      BY <1>5, <2>3, <2>4, WithinAll
  <1> QED
    BY <1>7, <1>8

(* The bank of a CWT is as long, as precise and has as many rows as it.    *)
LEMMA BankOf ==
    ASSUME Sense, Life, Wiring, Legitimate, NEW t, t \in DOMAIN heap, Standard(heap, ptr, t),
           Type(t) \in {"cwt", "icwt"}, NEW b, b = Bank(t)
    PROVE  /\ b \in DOMAIN heap /\ Whole(heap, ptr, b) /\ Req(b).maker = "bank"
           /\ N(b) = N(t) /\ E(b) = E(t) /\ Bins(b) = Bins(t) /\ Req(b).prec = Req(t).prec
           /\ Rows(Req(b)) = Rows(Req(t)) /\ Padded(Req(b)) = Padded(Req(t))
           /\ (E(t) = 8 /\ Req(t).prec = "f64") \/ (E(t) = 4 /\ Req(t).prec = "f32")
  <1>1. /\ b \in DOMAIN heap /\ Whole(heap, ptr, b)
        /\ Same(Req(b), "bank", N(t), Req(t).prec, Req(t).dir, Req(t).layout, Req(t).flags)
    BY BankPart
  <1>2. /\ Req(b).maker = "bank" /\ Req(b).n = Req(t).n /\ Req(b).prec = Req(t).prec
        /\ Req(b).flags = Req(t).flags
    BY <1>1 DEF Same, N
  <1>3. Legit(Req(t)) /\ Req(t).maker \in {"cwt", "icwt"}
    BY DEF Legitimate, HeapLegit, Req, Type
  <1>4. PICK c \in Requests : Stems(Req(t), c)
    BY <1>3 DEF Legit
  <1>5. c.prec \in {"f32", "f64"}
    BY RequestsAssumption DEF RequestSet
  <1>6. Req(t).prec \in {"f32", "f64"}
    BY <1>4, <1>5 DEF Stems
  <1> QED
    BY <1>1, <1>2, <1>6 DEF N, E, Elem, Bins, Rows, Padded

(* The last row of the bank ends where the bank does.                      *)
LEMMA LastRow ==
    ASSUME NEW rows \in Nat, NEW P \in Nat, NEW B \in Nat, B <= P, NEW e \in {4, 8},
           NEW x, x = (Least(rows - 1, rows) * P + B) * e
    PROVE  /\ rows * P \in Nat /\ x <= Align64((rows * P) * e)
  <1> DEFINE T == rows * P
  <1>1. T \in Nat
    OBVIOUS
  <1>2. Least(rows - 1, rows) = rows - 1
    BY DEF Least
  <1>3. (rows - 1) * P = T - P
    OBVIOUS
  <1> HIDE DEF T
  <1>4. x = ((T - P) + B) * e
    BY <1>2, <1>3
  <1>5. x <= T * e /\ T * e \in Nat /\ x \in Int
    <2>1. CASE e = 4
      BY <1>1, <1>4, <2>1
    <2>2. CASE e = 8
      BY <1>1, <1>4, <2>2
    <2> QED
      BY <2>1, <2>2
  <1>6. Align64(T * e) \in Nat /\ T * e <= Align64(T * e)
    BY <1>5, Rounded
  <1>7. x <= Align64(T * e)
    BY <1>5, <1>6
  <1> QED
    BY <1>1, <1>7 DEF T

LEMMA PaddedIs ==
    ASSUME NEW r, r.n \in Nat
    PROVE  Padded(r) \in Nat /\ r.n \div 2 + 1 \in Nat /\ r.n \div 2 + 1 <= Padded(r)
  <1> DEFINE k == r.n \div 2 + 1
  <1>1. k \in Nat
    OBVIOUS
  <1> HIDE DEF k
  <1>2. ((k + 15) \div 16) * 16 \in Nat /\ k <= ((k + 15) \div 16) * 16
    BY <1>1
  <1> QED
    BY <1>1, <1>2 DEF k, Padded

LEMMA SafeCwt ==
    ASSUME Sense, Life, Wiring, Legitimate, NEW f, GoodFrame(f), Roomy(f), ~Refused(f),
           f.fn \in {"cwt", "icwt"}
    PROVE  AllWithin(Accesses(f))
  <1> DEFINE t == f.t
             n == N(t)
             e == E(t)
             b == Bank(t)
             rows == Rows(Req(b))
             P == Padded(Req(b))
             psi == IF f.fn = "cwt" THEN "Psi" ELSE IF e = 8 THEN "Psi_dual" ELSE "Psi_dual_f32"
             x == (Least(rows - 1, rows) * P + Bins(t)) * e
             y == (IF f.fn = "cwt" THEN n ELSE rows * n) * e
             z == (IF f.fn = "cwt" THEN rows * n ELSE n) * e
             w == Bins(t) * e
             ends == {Touch(f.in.re, y), Touch(f.out.re, z), Slot(b, psi, x)}
             planes == {Slot(b, at, w) : at \in {"X_re", "X_im", "Y_re", "Y_im"}}
  <1>1. t \in DOMAIN heap /\ Standard(heap, ptr, t) /\ Route(t) = f.fn
    BY DEF GoodFrame, OnRoute
  <1>2. Type(t) = f.fn
    BY <1>1, Routes
  <1>3. /\ Whole(heap, ptr, b) /\ Req(b).maker = "bank"
        /\ N(b) = n /\ E(b) = e /\ Bins(b) = Bins(t) /\ Req(b).prec = Req(t).prec
        /\ rows = Rows(Req(t))
        /\ (e = 8 /\ Req(t).prec = "f64") \/ (e = 4 /\ Req(t).prec = "f32")
    BY <1>1, <1>2, BankOf
  <1>4. n \in Nat /\ e \in {4, 8} /\ rows \in Nat
    BY <1>1, KnownIs, RowsCount
  <1>5. P \in Nat /\ Bins(t) \in Nat /\ Bins(t) <= P
    <2>1. Req(b).n = n /\ Bins(t) = Req(b).n \div 2 + 1
      BY <1>3 DEF N, Bins
    <2> QED
      BY <1>4, <2>1, PaddedIs
  <1>6. /\ Room(b, "Psi") = Align64((rows * P) * e)
        /\ Room(b, "Psi_dual") = Align64((rows * P) * 8)
        /\ Req(b).prec = "f32" => Room(b, "Psi_dual_f32") = Align64((rows * P) * 4)
        /\ \A at \in {"X_re", "X_im", "Y_re", "Y_im"} : Room(b, at) = Align64(P * e)
    BY <1>3, BankRooms
  <1>7. x <= Room(b, psi)
    <2>1. x <= Align64((rows * P) * e)
      <3> HIDE DEF rows, P, e
      <3> QED
        BY <1>4, <1>5, LastRow
    <2>2. Room(b, psi) = Align64((rows * P) * e)
      <3> HIDE DEF rows, P, e, b
      <3> QED
        BY <1>3, <1>6
    <2> HIDE DEF x, psi, b, rows, P, e
    <2> QED
      BY <2>1, <2>2
  <1>8. w \in Nat /\ w <= Align64(P * e)
    <2>1. w \in Nat /\ P * e \in Nat /\ w <= P * e
      <3> HIDE DEF P
      <3> QED
        BY <1>4, <1>5
    <2>2. P * e <= Align64(P * e) /\ Align64(P * e) \in Nat
      BY <2>1, Rounded
    <2> HIDE DEF w, P, e
    <2> QED
      BY <2>1, <2>2
  <1>9. AllWithin(planes)
    <2> HIDE DEF b, w
    <2>1. \A at \in {"X_re", "X_im", "Y_re", "Y_im"} : Within(Slot(b, at, w))
      BY <1>6, <1>8, WithinIs
    <2> QED
      BY <2>1 DEF AllWithin
  <1>10. Fair(f.in, e) /\ Fair(f.out, e)
    BY <1>2 DEF Roomy
  <1>11. Ample(f.in.re, y) /\ Ample(f.out.re, z)
    <2>1. CASE f.fn = "cwt"
      <3>1. f.in.layout = "real" /\ f.out.layout = "real" /\ f.in.n = n
        BY <2>1 DEF Refused
      <3>2. f.out.n = rows * n
        BY <1>2, <1>3, <2>1, <3>1 DEF Roomy
      <3> HIDE DEF rows
      <3> QED
        BY <1>10, <2>1, <3>1, <3>2 DEF Fair, Ample
    <2>2. CASE f.fn = "icwt"
      <3>1. f.in.layout = "real" /\ f.out.layout = "real" /\ f.out.n = n
        BY <2>2 DEF Refused
      <3>2. f.in.n = rows * n
        BY <1>2, <1>3, <2>2, <3>1 DEF Roomy
      <3> HIDE DEF rows
      <3> QED
        BY <1>10, <2>2, <3>1, <3>2 DEF Fair, Ample
    <2> QED
      BY <2>1, <2>2
  <1>12. Accesses(f) = ends \cup planes
    BY DEF Accesses
  <1>13. AllWithin(ends)
    <2> HIDE DEF x, y, z, b, psi
    <2>1. Within(Touch(f.in.re, y)) /\ Within(Touch(f.out.re, z)) /\ Within(Slot(b, psi, x))
      BY <1>7, <1>11, WithinIs
    <2> QED
      BY <2>1 DEF AllWithin
  <1> HIDE DEF ends, planes
  <1> QED
    BY <1>9, <1>12, <1>13, WithinAll

LEMMA SafeAll ==
    ASSUME Sense, Life, Wiring, Legitimate, NEW f, GoodFrame(f), Roomy(f), ~Refused(f)
    PROVE  AllWithin(Accesses(f))
  <1>1. f.fn \in Served \cup {"execute", "kernel"}
    BY DEF GoodFrame, OnRoute
  <1>2. CASE f.fn = "execute"
    <2>1. Accesses(f) = {}
      BY <1>2 DEF Accesses
    <2> QED
      BY <2>1, WithinAll
  <1> QED
    BY <1>1, <1>2, SafeVm, SafeFlat, SafeSplit, SafeInterpret, SafeKernel, SafeBluestein,
       SafeRfft, SafePipeline, SafeCwt DEF Served

-----------------------------------------------------------------------------
(* What a function hands on has room for the function it calls.            *)
Complex == {"fft", "stft", "dwt", "dct", "dst", "mdct"}

LEMMA RoomySplit ==
    ASSUME NEW g, g.fn \in {"split", "kernel"}, NEW b, b = N(g.t) * E(g.t),
           Ample(g.in.re, b), Ample(g.in.im, b), Ample(g.out.re, b), Ample(g.out.im, b),
           Type(g.t) \in Complex, g.fn = "kernel" => Kernel(g.t)
    PROVE  Roomy(g)
  BY DEF Roomy, Complex

LEMMA RoomyInside ==
    ASSUME NEW g, g.fn = "execute", Fair(g.in, E(g.t)), Fair(g.out, E(g.t)),
           \/ Type(g.t) = "rfft"
           \/ Type(g.t) = "fft" /\ g.in.n = N(g.t) /\ g.out.n = N(g.t)
    PROVE  Roomy(g)
  <1>1. Type(g.t) = "rfft" => Route(g.t) = "rfft"
    BY DEF Route
  <1> QED
    BY <1>1 DEF Roomy

LEMMA RoomyExecute ==
    ASSUME Sense, Legitimate, NEW f, GoodFrame(f), Roomy(f), ~Refused(f), f.fn = "execute",
           NEW g, Asks(f, g)
    PROVE  Roomy(g)
  <1> DEFINE t == f.t
             n == N(t)
             e == E(t)
             x == Call(Route(t), t, f.in, f.out)
  <1>1. g = x
    <2>1. Callees(f) = <<x>>
      BY DEF Callees
    <2> HIDE DEF x
    <2> QED
      BY <2>1, OnlyOne DEF Asks, GoodFrame
  <1>2. g.fn = Route(t) /\ g.t = t /\ g.in = f.in /\ g.out = f.out
    BY <1>1, Calling
  <1>3. t \in DOMAIN heap /\ Standard(heap, ptr, t)
    BY DEF GoodFrame
  <1>4. Fair(f.in, e) /\ Fair(f.out, e)
    BY DEF Roomy
  <1>5. CASE Route(t) \in {"bluestein", "rfft", "pipeline", "cwt", "icwt"}
    <2>1. /\ Type(t) = "cwt" /\ f.out.layout = "real" => f.out.n = Rows(Req(t)) * n
          /\ Type(t) = "icwt" /\ f.in.layout = "real" => f.in.n = Rows(Req(t)) * n
      BY DEF Roomy
    <2> QED
      BY <1>2, <1>4, <1>5, <2>1 DEF Roomy
  <1>6. CASE Route(t) \in {"vm", "flat", "split"}
    <2>1. Type(t) \in Complex
      BY <1>3, <1>6, KnownIs, Routes DEF Complex, Makers
    <2>2. /\ f.in.n = n /\ f.out.n = n
          /\ f.in.layout = Req(t).layout /\ f.out.layout = Req(t).layout
          /\ Route(t) = "split" => BothIm(f)
      BY <1>6 DEF Roomy, Refused
    <2>3. Req(t).layout # "real"
      <3>1. Type(t) \in {"fft", "stft"} => Req(t).layout \notin {"real", "hermitian"}
        BY <1>3 DEF Standard, Whole, Accepts, Type, Req
      <3> QED
        BY <1>3, <2>1, <3>1, KnownIs DEF Complex
    <2>4. CASE Route(t) = "vm"
      <3>1. f.in.layout = "interleaved" /\ f.out.layout = "interleaved"
        BY <2>2, <2>4, Routes
      <3>2. Ample(f.in.re, 2 * n * e) /\ Ample(f.out.re, 2 * n * e)
        BY <1>4, <2>2, <3>1 DEF Fair, Ample
      <3> QED
        BY <1>2, <2>1, <2>4, <3>2 DEF Roomy, Complex
    <2>5. CASE Route(t) = "split"
      <3> DEFINE b == n * e
      <3>1. f.in.layout \in {"split", "hermitian"} /\ f.out.layout \in {"split", "hermitian"}
        BY <1>4, <2>2, <2>3, <2>5, Routes DEF Fair, Layouts
      <3>2. /\ Ample(f.in.re, b) /\ Ample(f.in.im, b)
            /\ Ample(f.out.re, b) /\ Ample(f.out.im, b)
        BY <1>4, <2>2, <2>5, <3>1 DEF Fair, Ample, BothIm
      <3> HIDE DEF t
      <3> QED
        BY <1>2, <2>1, <2>5, <3>2, RoomySplit
    <2> QED
      BY <1>6, <2>3, <2>4, <2>5, Routes
  <1> QED
    BY <1>5, <1>6, Routes DEF Served

LEMMA RoomyVm ==
    ASSUME Sense, Legitimate, NEW f, GoodFrame(f), Roomy(f), f.fn = "vm", NEW g, Asks(f, g)
    PROVE  Roomy(g)
  <1> DEFINE t == f.t
             b == 2 * N(t) * E(t)
             in == IF Type(t) = "stft" /\ Req(t).prec = "f32" /\ Has(t, "t1")
                   THEN Flat(Outside(<<"windowed">>, b)) ELSE Flat(f.in.re)
             x == Call("flat", t, in, Flat(f.out.re))
  <1>1. g = x
    <2>1. Callees(f) = <<x>>
      BY DEF Callees
    <2> HIDE DEF x
    <2> QED
      BY <2>1, OnlyOne DEF Asks, GoodFrame
  <1>2. g.fn = "flat" /\ g.t = t /\ g.in = in /\ g.out = Flat(f.out.re)
    BY <1>1, Calling
  <1>3. Ample(f.in.re, b) /\ Ample(f.out.re, b) /\ Type(t) \in Complex
    BY DEF Roomy, Complex
  <1>4. b \in Nat
    BY KnownIs DEF GoodFrame
  <1>5. Ample(in.re, b) /\ Ample(Flat(f.out.re).re, b)
    <2> HIDE DEF b
    <2> QED
      BY <1>3, <1>4 DEF Flat, Buffer, Outside, Ample
  <1> QED
    BY <1>2, <1>3, <1>5 DEF Roomy, Complex

LEMMA RoomNat ==
    ASSUME Life, NEW t, NEW at,
           \A o \in ptr : o.by = Block(t) /\ o.at = at => heap[o.to].bytes \in Nat
    PROVE  Room(t, at) \in Nat
  <1>1. CASE Has(t, at)
    <2>1. PICK o \in ptr : o.by = Block(t) /\ o.at = at /\ o.to = Part(t, at)
      BY <1>1, Found
    <2> QED
      BY <1>1, <2>1 DEF Room, Has, Part
  <1>2. CASE ~Has(t, at)
    BY <1>2 DEF Room, Has
  <1> QED
    BY <1>1, <1>2

LEMMA ScratchRoom ==
    ASSUME Sense, Life, Wiring, Legitimate, NEW t, t \in DOMAIN heap, Standard(heap, ptr, t),
           Type(t) \in Complex
    PROVE  Room(t, "scratch") \in Nat
  <1> DEFINE r == heap[t].req
             u == Base(r)
             path == FftPath(r.n, r.flags)
             y == Align64(4 * u.n * Elem(u))
             z == Align64(u.n * Elem(u))
             m == Align64(6 * BluesteinLength(u.n) * Elem(u))
             mine(o) == o \in ptr /\ o.by = Block(t) /\ o.at = "scratch"
  <1>1. /\ r.maker \in Makers /\ u.n = r.n /\ u.prec = r.prec /\ u.layout = r.layout
        /\ u.flags = r.flags
        /\ IF r.maker \in {"fft", "stft"} THEN u.maker = "fft" ELSE u = r
        /\ u.maker = "fft" =>
               /\ path \in {"codelet", "splitradix", "radix2", "mixed", "rader", "bluestein"}
               /\ path \in {"radix2", "mixed"} => \E table : Steps(u) = GeneratedSteps(u, table)
    BY SortOf
  <1>2. Whole(heap, ptr, t) /\ u = Base(heap[t].req) /\ \A o : mine(o) => ~Window(heap, r, o)
    BY DEF Standard, Window
  <1>3. r.maker \in Complex /\ r.n \in Nat /\ Elem(r) \in {4, 8} /\ Elem(u) = Elem(r)
    BY <1>1, KnownIs DEF Type, Req, N, E, Elem
  <1>4. y \in Nat /\ z \in Nat
    <2>1. 4 * u.n * Elem(u) \in Nat /\ u.n * Elem(u) \in Nat
      BY <1>1, <1>3
    <2> QED
      BY <2>1, Rounded
  <1>5. u.maker = "fft" => FftPath(u.n, u.flags) = path
    BY <1>1
  <1>6. \A o, i, at, q : mine(o) /\ Inside(heap, o, at, q) => at = "scratch"
    BY DEF Inside
  <1>7. \A o, at, b : mine(o) /\ Bytes(heap, o, at, b) => at = "scratch" /\ heap[o.to].bytes = b
    BY DEF Bytes
  <1> SUFFICES ASSUME NEW o \in ptr, o.by = Block(t), o.at = "scratch"
               PROVE  heap[o.to].bytes \in Nat
    BY RoomNat
  <1>8. mine(o) /\ ~Window(heap, r, o)
    BY <1>2
  <1> HIDE DEF u, y, z, m, mine
  <1>9. CASE u.maker = "fft" /\ path = "codelet"
    BY <1>2, <1>4, <1>5, <1>7, <1>8, <1>9, CodeletHas DEF y
  <1>10. CASE u.maker = "fft" /\ path = "splitradix"
    BY <1>2, <1>4, <1>5, <1>7, <1>8, <1>10, SplitRadixHas DEF y
  <1>11. CASE u.maker = "fft" /\ path \in {"radix2", "mixed"}
    <2>1. PICK table : Steps(u) = GeneratedSteps(u, table)
      BY <1>1, <1>11
    <2>2. \/ Window(heap, r, o) \/ o.at = "code" \/ Bytes(heap, o, "t0", table)
          \/ Bytes(heap, o, "scratch", y)
      BY <1>2, <2>1, GeneratedHas DEF y
    <2> QED
      BY <1>4, <1>7, <1>8, <2>2
  <1>12. CASE u.maker = "fft" /\ path = "rader"
    BY <1>2, <1>4, <1>5, <1>6, <1>7, <1>8, <1>12, RaderHas DEF y
  <1>13. CASE u.maker = "fft" /\ path = "bluestein"
    <2>1. Type(t) = "fft" /\ Path(t) = "bluestein"
      <3>1. Type(t) \in {"fft", "stft"} /\ Path(t) = "bluestein"
        BY <1>1, <1>3, <1>13 DEF Type, Req, Path, N, Complex
      <3> QED
        BY <3>1, KnownIs
    <2>2. BluesteinLength(u.n) \in Nat
      <3>1. BluesteinLength(N(t)) \in Nat
        BY <2>1, BluInner
      <3> QED
        BY <1>1, <3>1 DEF N, Req
    <2>3. m \in Nat
      <3>1. 6 * BluesteinLength(u.n) * Elem(u) \in Nat
        BY <1>3, <2>2
      <3> QED
        BY <3>1, Rounded DEF m
    <2> QED
      BY <1>2, <1>5, <1>6, <1>7, <1>8, <1>13, <2>3, BluesteinHas DEF m
  <1>14. CASE u.maker \in {"dct", "dst", "mdct"}
    BY <1>2, <1>7, <1>8, <1>14, RealHas
  <1>15. CASE u.maker = "dwt"
    BY <1>2, <1>4, <1>7, <1>8, <1>15, DwtHas DEF z
  <1> QED
    BY <1>1, <1>3, <1>9, <1>10, <1>11, <1>12, <1>13, <1>14, <1>15 DEF Complex

(* Where the interpreter puts a deinterleaved plane there is room for it,  *)
(* in the scratch or in memory allocated for it.                           *)
LEMMA FlatPlanesIs ==
    ASSUME Sense, Life, Wiring, Legitimate, NEW t, t \in DOMAIN heap, Standard(heap, ptr, t),
           Type(t) \in Complex, NEW k \in {0, 2}, k = 2 => ~Kernel(t),
           NEW b, b = N(t) * E(t), NEW p, p = FlatPlanes(t, k)
    PROVE  Ample(p.re, b) /\ Ample(p.im, b)
  <1> DEFINE n == N(t)
             e == E(t)
             room == Room(t, "scratch")
             planes == IF Kernel(t) THEN 2 ELSE 4
  <1>1. n \in Nat /\ e \in {4, 8} /\ room \in Nat
    BY KnownIs, ScratchRoom
  <1>2. CASE Scratch(t, planes)
    <2>1. planes * n * e <= room
      BY <1>2 DEF Scratch
    <2>2. (k * n + 2 * n) * e <= room /\ k * n \in Nat
      <3> HIDE DEF n, e, room
      <3>1. CASE k = 0
        <4>1. CASE e = 4
          BY <1>1, <2>1, <3>1, <4>1
        <4>2. CASE e = 8
          BY <1>1, <2>1, <3>1, <4>2
        <4> QED
          BY <1>1, <4>1, <4>2
      <3>2. CASE k = 2
        <4>1. CASE e = 4
          BY <1>1, <2>1, <3>2, <4>1
        <4>2. CASE e = 8
          BY <1>1, <2>1, <3>2, <4>2
        <4> QED
          BY <1>1, <4>1, <4>2
      <3> QED
        BY <3>1, <3>2
    <2>3. p = SplitAt(t, "scratch", n, k * n)
      BY <1>2 DEF FlatPlanes
    <2> DEFINE first == k * n
    <2>4. first \in Nat /\ (first + 2 * n) * e <= room /\ p = SplitAt(t, "scratch", n, first)
      BY <2>2, <2>3
    <2> HIDE DEF first
    <2> QED
      BY <1>1, <2>4, SplitAtIs
  <1>3. CASE ~Scratch(t, planes)
    <2>1. p = Buffer("split", n, Outside(<<"heap", k>>, b), Outside(<<"heap", k + 1>>, b))
      BY <1>3 DEF FlatPlanes
    <2>2. b \in Nat
      BY <1>1
    <2> QED
      BY <2>1, <2>2 DEF Buffer, Outside, Ample
  <1> QED
    BY <1>2, <1>3

LEMMA RoomyFlat ==
    ASSUME Sense, FlagsMeant, Life, Wiring, Legitimate, NEW f, GoodFrame(f), Roomy(f),
           f.fn = "flat", NEW g, Asks(f, g)
    PROVE  Roomy(g)
  <1> DEFINE t == f.t
             b == N(t) * E(t)
             in == FlatPlanes(t, 0)
             out == FlatTarget(t)
             x == Call("kernel", t, in, in)
             y == Call("split", t, in, out)
  <1>1. t \in DOMAIN heap /\ Standard(heap, ptr, t) /\ Type(t) \in Complex
    BY DEF GoodFrame, Roomy, Complex
  <1>2. ~Flagged(t)
    BY FlatLegit DEF GoodFrame, OnRoute
  <1>3. Ample(in.re, b) /\ Ample(in.im, b)
    BY <1>1, FlatPlanesIs
  <1>4. ~Kernel(t) => Ample(out.re, b) /\ Ample(out.im, b)
    BY <1>1, FlatPlanesIs DEF FlatTarget
  <1>5. CASE Kernel(t)
    <2>1. Callees(f) = <<x>>
      BY <1>2, <1>5 DEF Callees
    <2>2. x.fn = "kernel" /\ x.t = t /\ x.in = in /\ x.out = in
      BY Calling
    <2> HIDE DEF x, t, in
    <2>3. Roomy(x)
      BY <1>1, <1>3, <1>5, <2>2, RoomySplit
    <2> QED
      BY <2>1, <2>3, OnlyOne DEF Asks, GoodFrame
  <1>6. CASE ~Kernel(t)
    <2>1. Callees(f) = <<y>>
      BY <1>2, <1>6 DEF Callees
    <2>2. y.fn = "split" /\ y.t = t /\ y.in = in /\ y.out = out
      BY Calling
    <2> HIDE DEF y, t, in, out
    <2>3. Roomy(y)
      BY <1>1, <1>3, <1>4, <1>6, <2>2, RoomySplit
    <2> QED
      BY <2>1, <2>3, OnlyOne DEF Asks, GoodFrame
  <1> QED
    BY <1>5, <1>6

LEMMA RoomyPlanes ==
    ASSUME NEW f, GoodFrame(f), Roomy(f), f.fn = "split", NEW g, Asks(f, g)
    PROVE  Roomy(g)
  <1> DEFINE x == Call("kernel", f.t, f.in, f.out)
             b == N(f.t) * E(f.t)
  <1>1. Kernel(f.t) /\ Callees(f) = <<x>>
    <2>1. (Kernel(f.t) /\ Callees(f) = <<x>>) \/ Callees(f) = <<>>
      BY DEF Callees
    <2>2. Len(<<>>) = 0 /\ ~(f.i <= 0)
      BY DEF GoodFrame
    <2> QED
      BY <2>1, <2>2 DEF Asks
  <1>2. /\ Ample(f.in.re, b) /\ Ample(f.in.im, b) /\ Ample(f.out.re, b) /\ Ample(f.out.im, b)
        /\ Type(f.t) \in Complex
    BY DEF Roomy, Complex
  <1>3. x.fn = "kernel" /\ x.t = f.t /\ x.in = f.in /\ x.out = f.out
    BY Calling
  <1> HIDE DEF x
  <1>4. Roomy(x)
    BY <1>1, <1>2, <1>3, RoomySplit
  <1> QED
    BY <1>1, <1>4, OnlyOne DEF Asks, GoodFrame

LEMMA RoomyKernel ==
    ASSUME Sense, Life, Wiring, Legitimate, NEW f, GoodFrame(f), Roomy(f), ~Refused(f),
           f.fn = "kernel", NEW g, Asks(f, g)
    PROVE  Roomy(g)
  <1> DEFINE t == f.t
             n == N(t)
             e == E(t)
             a == SplitAt(t, "t3", n - 1, 0)
             x(at) == Call("split", Part(t, at), a, a)
  <1>1. heap[t].fn = "rader" /\ Callees(f) = <<x("inner"), x("inner_inv")>>
    <2>1. CASE heap[t].fn = "rader"
      BY <2>1 DEF Callees
    <2>2. CASE heap[t].fn # "rader"
      <3>1. Callees(f) = <<>>
        BY <2>2 DEF Callees
      <3>2. Len(<<>>) = 0 /\ ~(f.i <= 0)
        BY DEF GoodFrame
      <3> QED
        BY <3>1, <3>2 DEF Asks
    <2> QED
      BY <2>1, <2>2
  <1>2. Has(t, "inner") /\ Has(t, "inner_inv")
    BY <1>1 DEF Refused
  <1>3. t \in DOMAIN heap /\ Standard(heap, ptr, t) /\ Type(t) \in Complex
    BY DEF GoodFrame, Roomy, Complex
  <1>4. Type(t) = "fft" /\ Path(t) = "rader"
    <2>1. Type(t) \in {"fft", "stft"}
      BY <1>1, <1>3, DwtRoom, RealRoom DEF Complex
    <2>2. /\ Path(t) \in {"codelet", "splitradix", "radix2", "mixed", "rader", "bluestein"}
          /\ Type(t) = "stft" => Path(t) \in {"codelet", "radix2", "mixed"}
      BY <1>3, <2>1, KnownIs
    <2>3. Path(t) \notin {"codelet", "radix2", "mixed"}
      BY <1>1, <1>3, <2>1, CodeletRoom, GeneratedRoom DEF Path
    <2>4. Path(t) \notin {"splitradix", "bluestein"} \/ Type(t) # "fft"
      BY <1>1, <1>3, SplitRadixRooms, BluesteinRooms DEF Path
    <2> QED
      BY <2>1, <2>2, <2>3, <2>4
  <1>5. \A at \in {"inner", "inner_inv"} :
            N(Part(t, at)) = n - 1 /\ E(Part(t, at)) = e /\ Type(Part(t, at)) = "fft"
    <2>1. \A at \in {"inner", "inner_inv"} : Inward(Req(t), Req(Part(t, at)), at)
      BY <1>2, <1>3, InnerPart
    <2> QED
      BY <1>4, <2>1 DEF Inward, N, E, Elem, Type, Path
  <1>6. n \in Nat /\ e \in {4, 8} /\ n - 1 \in Nat
    <2>1. n >= 11
      BY <1>4, Paths DEF Path, RaderEligible
    <2> QED
      BY <1>3, <2>1, KnownIs
  <1>7. Ample(a.re, (n - 1) * e) /\ Ample(a.im, (n - 1) * e)
    <2> DEFINE m == n - 1
               w == 2 * m * e
    <2>1. Room(t, "t3") = Align64(w)
      BY <1>3, <1>4, RaderRooms DEF Path
    <2>2. m \in Nat /\ w \in Nat /\ (0 + 2 * m) * e = w
      <3> HIDE DEF n, e
      <3> QED
        BY <1>6
    <2> HIDE DEF w
    <2>3. Align64(w) \in Nat /\ (0 + 2 * m) * e <= Align64(w)
      BY <2>2, Rounded
    <2> HIDE DEF m
    <2>4. a = SplitAt(t, "t3", m, 0)
      BY DEF m
    <2> HIDE DEF a
    <2>5. Ample(a.re, m * e) /\ Ample(a.im, m * e)
      BY <1>6, <2>1, <2>2, <2>3, <2>4, SplitAtIs
    <2> QED
      BY <2>5 DEF m
  <1>8. \A at : x(at).fn = "split" /\ x(at).t = Part(t, at) /\ x(at).in = a /\ x(at).out = a
    BY Calling
  <1> HIDE DEF x, a, t
  <1>9. \A at \in {"inner", "inner_inv"} : Roomy(x(at))
    BY <1>5, <1>7, <1>8, RoomySplit DEF Complex
  <1> QED
    BY <1>1, <1>9, OneOfTwo DEF Asks, GoodFrame

LEMMA RoomyBluestein ==
    ASSUME Sense, Life, Wiring, Legitimate, NEW f, GoodFrame(f), f.fn = "bluestein",
           NEW g, Asks(f, g)
    PROVE  Roomy(g)
  <1> DEFINE t == f.t
             e == E(t)
             M == BluM(t)
             a == SplitAt(t, "scratch", M, 0)
             A == SplitAt(t, "scratch", M, 2 * M)
             x == Call("execute", Part(t, "inner"), a, A)
             y == Call("execute", Part(t, "inner_inv"), A, a)
             w == 6 * M * e
  <1>1. Callees(f) = <<x, y>>
    BY DEF Callees
  <1>2. t \in DOMAIN heap /\ Standard(heap, ptr, t) /\ Type(t) = "fft" /\ Path(t) = "bluestein"
    BY BluesteinOnly DEF GoodFrame, OnRoute
  <1>3. \A at \in {"inner", "inner_inv"} :
            /\ N(Part(t, at)) = M /\ E(Part(t, at)) = e /\ Type(Part(t, at)) = "fft"
            /\ M \in Nat /\ M = BluesteinLength(N(t))
    BY <1>2, BluInner
  <1>4. e \in {4, 8} /\ M \in Nat
    BY <1>2, <1>3, KnownIs
  <1>5. Room(t, "scratch") = Align64(w)
    BY <1>2, <1>3, BluesteinRooms DEF Path
  <1>6. w \in Nat /\ (0 + 2 * M) * e <= w /\ (2 * M + 2 * M) * e <= w
        /\ (0 + 2 * M) * e \in Nat /\ (2 * M + 2 * M) * e \in Nat /\ 2 * M \in Nat
    <2> HIDE DEF M, e
    <2>1. CASE e = 4
      BY <1>4, <2>1
    <2>2. CASE e = 8
      BY <1>4, <2>2
    <2> QED
      BY <1>4, <2>1, <2>2
  <1>7. /\ Align64(w) \in Nat /\ (0 + 2 * M) * e <= Align64(w)
        /\ (2 * M + 2 * M) * e <= Align64(w)
    <2> HIDE DEF w, M, e
    <2>1. w <= Align64(w) /\ Align64(w) \in Nat
      BY <1>6, Rounded
    <2> QED
      BY <1>6, <2>1
  <1>8. a.n = M /\ A.n = M /\ Fair(a, e) /\ Fair(A, e)
    <2> HIDE DEF w, M
    <2>1. a.n = M /\ Fair(a, e)
      BY <1>4, <1>5, <1>7, SplitAtIs
    <2> DEFINE first == 2 * M
    <2>2. first \in Nat /\ A = SplitAt(t, "scratch", M, first)
          /\ (first + 2 * M) * e <= Align64(w)
      BY <1>6, <1>7
    <2> HIDE DEF first, A
    <2>3. A.n = M /\ Fair(A, e)
      BY <1>4, <1>5, <1>7, <2>2, SplitAtIs
    <2> QED
      BY <2>1, <2>3
  <1>9. /\ x.fn = "execute" /\ x.t = Part(t, "inner") /\ x.in = a /\ x.out = A
        /\ y.fn = "execute" /\ y.t = Part(t, "inner_inv") /\ y.in = A /\ y.out = a
    BY Calling
  <1> HIDE DEF x, y, a, A, t, M
  <1>10. Roomy(x)
    BY <1>3, <1>8, <1>9, RoomyInside
  <1>11. Roomy(y)
    BY <1>3, <1>8, <1>9, RoomyInside
  <1> QED
    BY <1>1, <1>10, <1>11, OneOfTwo DEF Asks, GoodFrame

LEMMA RoomyRfft ==
    ASSUME Sense, Life, Wiring, Legitimate, NEW f, GoodFrame(f), ~Refused(f), f.fn = "rfft",
           NEW g, Asks(f, g)
    PROVE  Roomy(g)
  <1> DEFINE t == f.t
             e == E(t)
             h == N(t) \div 2
             pack == SplitAt(t, "scratch", h, 0)
             half == SplitAt(t, "scratch", h, 2 * h)
             inner == Part(t, "inner")
             x == Call("split", inner, half, pack)
             y == Call("split", inner, pack, half)
             w == (4 * h + 2 * (h + 1)) * e
  <1>1. Callees(f) = <<x>> \/ Callees(f) = <<y>>
    BY DEF Callees
  <1>2. t \in DOMAIN heap /\ Standard(heap, ptr, t) /\ Type(t) = "rfft" /\ Has(t, "inner")
    BY Routes DEF GoodFrame, OnRoute, Refused
  <1>3. N(inner) = h /\ E(inner) = e /\ Type(inner) = "fft"
    <2>1. Inward(Req(t), Req(inner), "inner")
      BY <1>2, InnerPart
    <2> QED
      BY <1>2, <2>1 DEF Inward, N, E, Elem, Type
  <1>4. e \in {4, 8} /\ h \in Nat
    <2>1. N(t) \in Nat /\ e \in {4, 8}
      BY <1>2, KnownIs
    <2> QED
      BY <2>1
  <1>5. Room(t, "scratch") = Align64(w)
    BY <1>2, RfftRooms
  <1>6. w \in Nat /\ (0 + 2 * h) * e <= w /\ (2 * h + 2 * h) * e <= w
        /\ (0 + 2 * h) * e \in Nat /\ (2 * h + 2 * h) * e \in Nat /\ 2 * h \in Nat
    <2> HIDE DEF h, e
    <2>1. CASE e = 4
      BY <1>4, <2>1
    <2>2. CASE e = 8
      BY <1>4, <2>2
    <2> QED
      BY <1>4, <2>1, <2>2
  <1>7. /\ Align64(w) \in Nat /\ (0 + 2 * h) * e <= Align64(w)
        /\ (2 * h + 2 * h) * e <= Align64(w)
    <2> HIDE DEF w, h, e
    <2>1. w <= Align64(w) /\ Align64(w) \in Nat
      BY <1>6, Rounded
    <2> QED
      BY <1>6, <2>1
  <1> DEFINE b == h * e
  <1>8. Ample(pack.re, b) /\ Ample(pack.im, b) /\ Ample(half.re, b) /\ Ample(half.im, b)
    <2> HIDE DEF w, h
    <2>1. Ample(pack.re, b) /\ Ample(pack.im, b)
      BY <1>4, <1>5, <1>7, SplitAtIs
    <2> DEFINE first == 2 * h
    <2>2. first \in Nat /\ half = SplitAt(t, "scratch", h, first)
          /\ (first + 2 * h) * e <= Align64(w)
      BY <1>6, <1>7
    <2> HIDE DEF first, half
    <2>3. Ample(half.re, b) /\ Ample(half.im, b)
      BY <1>4, <1>5, <1>7, <2>2, SplitAtIs
    <2> QED
      BY <2>1, <2>3
  <1>9. /\ x.fn = "split" /\ x.t = inner /\ x.in = half /\ x.out = pack
        /\ y.fn = "split" /\ y.t = inner /\ y.in = pack /\ y.out = half
    BY Calling
  <1>10. b = N(inner) * E(inner)
    BY <1>3
  <1> HIDE DEF x, y, pack, half, inner, t, b
  <1>11. Roomy(x)
    BY <1>3, <1>8, <1>9, <1>10, RoomySplit DEF Complex
  <1>12. Roomy(y)
    BY <1>3, <1>8, <1>9, <1>10, RoomySplit DEF Complex
  <1> QED
    BY <1>1, <1>11, <1>12, OnlyOne DEF Asks, GoodFrame

LEMMA RoomyPipeline ==
    ASSUME Sense, Life, Wiring, Legitimate, NEW f, GoodFrame(f), Roomy(f), f.fn = "pipeline",
           NEW g, Asks(f, g)
    PROVE  Roomy(g)
  <1> DEFINE t == f.t
             e == E(t)
             B == Bins(t)
             s == SplitAt(t, "scratch", B, 0)
             spec == [s EXCEPT !.layout = "hermitian"]
             x == Call("execute", Part(t, "inner"), f.in, spec)
             y == Call("execute", Part(t, "inner_inv"), spec, f.out)
             c == Has(t, "inner_inv")
             w == (N(t) \div 2 + 1) * 2 * e
  <1>1. g = x \/ (c /\ g = y)
    <2>1. Callees(f) = <<x>> \o If(c, <<y>>)
      BY DEF Callees
    <2> HIDE DEF x, y
    <2>2. CASE c
      <3>1. If(c, <<y>>) = <<y>>
        BY <2>2 DEF If
      <3>2. Callees(f) = <<x, y>>
        BY <2>1, <3>1, Joined
      <3> QED
        BY <2>2, <3>2, OneOfTwo DEF Asks, GoodFrame
    <2>3. CASE ~c
      <3>1. If(c, <<y>>) = <<>>
        BY <2>3 DEF If
      <3>2. Callees(f) = <<x>>
        BY <2>1, <3>1, Joined
      <3> QED
        BY <3>2, OnlyOne DEF Asks, GoodFrame
    <2> QED
      BY <2>2, <2>3
  <1>2. t \in DOMAIN heap /\ Standard(heap, ptr, t) /\ Type(t) = "pipeline"
    BY Routes DEF GoodFrame, OnRoute
  <1>3. Has(t, "inner") /\ Room(t, "scratch") = Align64(w)
    BY <1>2, PipelineRoom
  <1>4. \A at \in {"inner", "inner_inv"} : Has(t, at) =>
            E(Part(t, at)) = e /\ Type(Part(t, at)) = "rfft"
    <2>1. \A at \in {"inner", "inner_inv"} : Has(t, at) =>
              Inward(Req(t), Req(Part(t, at)), at)
      BY <1>2, InnerPart
    <2>2. TailPrec(Req(t)) = Req(t).prec
      BY <1>2, KnownIs DEF TailPrec
    <2> QED
      BY <1>2, <2>1, <2>2 DEF Inward, E, Elem, Type
  <1>5. e \in {4, 8} /\ B \in Nat /\ w \in Nat /\ (0 + 2 * B) * e = w
    <2> DEFINE n == N(t)
    <2>1. n \in Nat /\ e \in {4, 8} /\ B = n \div 2 + 1 /\ w = (n \div 2 + 1) * 2 * e
      BY <1>2, KnownIs DEF Bins
    <2>2. B \in Nat /\ w = B * 2 * e
      BY <2>1
    <2> HIDE DEF B, w, e
    <2> QED
      BY <2>1, <2>2
  <1>6. Fair(s, e) /\ s.layout = "split"
    <2> HIDE DEF w, B
    <2>1. w <= Align64(w) /\ Align64(w) \in Nat
      BY <1>5, Rounded
    <2>2. (0 + 2 * B) * e <= Align64(w)
      BY <1>5, <2>1
    <2> QED
      BY <1>3, <1>5, <2>1, <2>2, SplitAtIs
  <1>7. Fair(spec, e)
    <2>1. s = [layout |-> s.layout, n |-> s.n, re |-> s.re, im |-> s.im]
      BY DEF SplitAt, Buffer
    <2> HIDE DEF s
    <2>2. spec.layout = "hermitian" /\ spec.n = s.n /\ spec.re = s.re /\ spec.im = s.im
      BY <2>1
    <2> HIDE DEF spec
    <2> QED
      BY <1>6, <2>2 DEF Fair, Layouts
  <1>8. Fair(f.in, e) /\ Fair(f.out, e)
    BY DEF Roomy
  <1>9. /\ x.fn = "execute" /\ x.t = Part(t, "inner") /\ x.in = f.in /\ x.out = spec
        /\ y.fn = "execute" /\ y.t = Part(t, "inner_inv") /\ y.in = spec /\ y.out = f.out
    BY Calling
  <1> HIDE DEF x, y, spec, t
  <1>10. Roomy(x)
    BY <1>3, <1>4, <1>7, <1>8, <1>9, RoomyInside
  <1>11. c => Roomy(y)
    BY <1>4, <1>7, <1>8, <1>9, RoomyInside
  <1> QED
    BY <1>1, <1>10, <1>11

(* What is left of a plane after some bytes.                               *)
LEMMA RestIs ==
    ASSUME NEW at, NEW room, NEW x
    PROVE  Rest([at |-> at, room |-> room], x)
           = [at |-> Append(at, x), room |-> IF room > x THEN room - x ELSE 0]
  <1> DEFINE p == [at |-> at, room |-> room]
  <1>1. Rest(p, x) = [[p EXCEPT !.at = Append(p.at, x)]
                         EXCEPT !.room = IF p.room > x THEN p.room - x ELSE 0]
    BY DEF Rest
  <1>2. [p EXCEPT !.at = Append(p.at, x)] = [at |-> Append(at, x), room |-> room]
    OBVIOUS
  <1> QED
    BY <1>1, <1>2

(* A row of a scalogram that is long enough.                               *)
LEMMA RowIs ==
    ASSUME NEW b, IsPlane(b.re), NEW rows \in Nat, NEW k \in 1..rows, NEW n \in Nat,
           NEW e \in {4, 8}, (rows * n) * e <= b.re.room,
           NEW r, r = Row(b, k - 1, n, e)
    PROVE  Fair(r, e)
  <1> DEFINE q == (k - 1) * n
             T == rows * n
             R == b.re.room
  <1>1. q \in Nat /\ T \in Nat /\ q + n <= T
    <2> DEFINE d == rows - k
    <2>1. d \in Nat /\ rows = k + d /\ k - 1 \in Nat
      OBVIOUS
    <2>2. q \in Nat /\ T \in Nat /\ d * n \in Nat
      BY <2>1
    <2>3. q + n = k * n
      OBVIOUS
    <2> HIDE DEF d
    <2>4. T = k * n + d * n
      BY <2>1
    <2> HIDE DEF q, T
    <2>5. k * n \in Nat
      OBVIOUS
    <2> QED
      BY <2>2, <2>3, <2>4, <2>5
  <1> HIDE DEF q, T
  <1>2. R \in Nat /\ q * e \in Nat /\ n * e \in Nat /\ q * e + n * e <= R
    <2>1. R \in Nat /\ T * e <= R
      BY DEF IsPlane, T
    <2>2. CASE e = 4
      BY <1>1, <2>1, <2>2
    <2>3. CASE e = 8
      BY <1>1, <2>1, <2>3
    <2> QED
      BY <2>2, <2>3
  <1>3. Rest(b.re, q * e) = [at |-> Append(b.re.at, q * e),
                             room |-> IF R > q * e THEN R - q * e ELSE 0]
    <2>1. b.re = [at |-> b.re.at, room |-> R]
      BY DEF IsPlane
    <2> HIDE DEF R
    <2>2. \A x : Rest([at |-> b.re.at, room |-> R], x)
                 = [at |-> Append(b.re.at, x), room |-> IF R > x THEN R - x ELSE 0]
      BY RestIs
    <2> QED
      BY <2>1, <2>2
  <1> DEFINE room == IF R > q * e THEN R - q * e ELSE 0
             at == Append(b.re.at, q * e)
  <1>4. room \in Nat /\ n * e <= room
    <2> HIDE DEF R
    <2> QED
      BY <1>2
  <1>5. r.layout = "real" /\ r.n = n /\ r.re = Rest(b.re, q * e)
    BY DEF Row, Buffer, q
  <1>6. r.re = [at |-> at, room |-> room]
    BY <1>3, <1>5
  <1> HIDE DEF room, at
  <1>7. r.re.room = room /\ IsPlane(r.re)
    BY <1>4, <1>6 DEF IsPlane
  <1> QED
    BY <1>4, <1>5, <1>7 DEF Fair, Layouts

LEMMA AskedByCwt ==
    ASSUME Sense, Life, Wiring, NEW f, GoodFrame(f), f.fn \in {"cwt", "icwt"},
           NEW g, Asks(f, g), NEW b, b = Bank(f.t),
           NEW X, X = BankBuffer(b, "X_re", "X_im"), NEW Y, Y = BankBuffer(b, "Y_re", "Y_im"),
           NEW n, n = N(f.t), NEW e, e = E(f.t), NEW rows, rows = Rows(Req(b))
    PROVE  IF f.fn = "cwt"
           THEN \/ g = Call("execute", Part(b, "rfft"), f.in, X)
                \/ \E k \in 1..rows :
                       g = Call("execute", Part(b, "irfft"), Y, Row(f.out, k - 1, n, e))
           ELSE \/ g = Call("execute", Part(b, "irfft"), X, Buffer("real", n, f.out.re, Null))
                \/ \E k \in 1..rows :
                       g = Call("execute", Part(b, "rfft"), Row(f.in, k - 1, n, e), Y)
  <1>1. rows \in Nat
    BY RowsCount
  <1>2. CASE f.fn = "cwt"
    <2> DEFINE x == Call("execute", Part(b, "rfft"), f.in, X)
               s == [k \in 1..rows |-> Call("execute", Part(b, "irfft"), Y, Row(f.out, k - 1, n, e))]
    <2>1. Callees(f) = <<x>> \o s
      BY <1>2 DEF Callees
    <2>2. \A k \in 1..rows : s[k] = Call("execute", Part(b, "irfft"), Y, Row(f.out, k - 1, n, e))
      OBVIOUS
    <2>3. s = [k \in 1..rows |-> s[k]]
      OBVIOUS
    <2> HIDE DEF x, s
    <2>4. s \in Seq({s[k] : k \in 1..rows}) /\ Len(s) = rows
      BY <1>1, <2>3
    <2>5. g = x \/ \E j \in 1..Len(s) : g = s[j]
      BY <2>1, <2>4, FirstThen DEF Asks, GoodFrame
    <2> QED
      BY <1>2, <2>2, <2>4, <2>5 DEF x
  <1>3. CASE f.fn = "icwt"
    <2> DEFINE x == Call("execute", Part(b, "irfft"), X, Buffer("real", n, f.out.re, Null))
               s == [k \in 1..rows |-> Call("execute", Part(b, "rfft"), Row(f.in, k - 1, n, e), Y)]
    <2>1. Callees(f) = s \o <<x>>
      BY <1>3 DEF Callees
    <2>2. \A k \in 1..rows : s[k] = Call("execute", Part(b, "rfft"), Row(f.in, k - 1, n, e), Y)
      OBVIOUS
    <2>3. s = [k \in 1..rows |-> s[k]]
      OBVIOUS
    <2> HIDE DEF x, s
    <2>4. s \in Seq({s[k] : k \in 1..rows}) /\ Len(s) = rows
      BY <1>1, <2>3
    <2>5. g = x \/ \E j \in 1..Len(s) : g = s[j]
      BY <2>1, <2>4, ThenLast DEF Asks, GoodFrame
    <2> QED
      BY <1>3, <2>2, <2>4, <2>5 DEF x
  <1> QED
    BY <1>2, <1>3

LEMMA RoomyCwt ==
    ASSUME Sense, Life, Wiring, Legitimate, NEW f, GoodFrame(f), Roomy(f), ~Refused(f),
           f.fn \in {"cwt", "icwt"}, NEW g, Asks(f, g)
    PROVE  Roomy(g)
  <1> DEFINE t == f.t
             b == Bank(t)
             n == N(t)
             e == E(t)
             B == Bins(b)
             P == Padded(Req(b))
             rows == Rows(Req(b))
             X == BankBuffer(b, "X_re", "X_im")
             Y == BankBuffer(b, "Y_re", "Y_im")
             long == Buffer("real", n, f.out.re, Null)
  <1>1. t \in DOMAIN heap /\ Standard(heap, ptr, t) /\ Type(t) = f.fn
    BY Routes DEF GoodFrame, OnRoute
  <1>2. /\ b \in DOMAIN heap /\ Whole(heap, ptr, b) /\ Req(b).maker = "bank"
        /\ N(b) = n /\ E(b) = e /\ rows = Rows(Req(t))
    BY <1>1, BankOf
  <1>3. n \in Nat /\ e \in {4, 8} /\ rows \in Nat
    BY <1>1, KnownIs, RowsCount
  <1>4. \A at \in {"rfft", "irfft"} : E(Part(b, at)) = e /\ Type(Part(b, at)) = "rfft"
    <2>1. \A at \in {"rfft", "irfft"} :
              Same(Req(Part(b, at)), "rfft", N(b), Req(b).prec,
                   IF at = "rfft" THEN "fwd" ELSE "inv", "hermitian", {})
      BY <1>2, BankFfts
    <2>2. \A at \in {"rfft", "irfft"} :
              Req(Part(b, at)).maker = "rfft" /\ Req(Part(b, at)).prec = Req(b).prec
      BY <2>1 DEF Same
    <2> QED
      BY <1>2, <2>2 DEF E, Elem, Type
  <1>5. P \in Nat /\ B \in Nat /\ B <= P
    <2>1. Req(b).n = n /\ B = Req(b).n \div 2 + 1
      BY <1>2 DEF N, Bins
    <2> QED
      BY <1>3, <2>1, PaddedIs
  <1>6. \A at \in {"X_re", "X_im", "Y_re", "Y_im"} :
            IsPlane(Plane(b, at, 0, B)) /\ Ample(Plane(b, at, 0, B), B * e)
    <2> DEFINE w == P * e
    <2>1. w \in Nat /\ (0 + B) * e <= w /\ (0 + B) * e \in Nat
      <3> HIDE DEF P, B, e
      <3>1. CASE e = 4
        BY <1>5, <3>1
      <3>2. CASE e = 8
        BY <1>5, <3>2
      <3> QED
        BY <1>3, <3>1, <3>2
    <2>2. \A at \in {"X_re", "X_im", "Y_re", "Y_im"} : Room(b, at) = Align64(w)
      BY <1>2, BankRooms
    <2> HIDE DEF w
    <2>3. Align64(w) \in Nat /\ w <= Align64(w)
      BY <2>1, Rounded
    <2> HIDE DEF B
    <2>4. Align64(w) \in Nat /\ (0 + B) * e <= Align64(w)
      BY <2>1, <2>3
    <2> QED
      BY <1>2, <1>3, <1>5, <2>2, <2>4, PlaneIs
  <1>7. Fair(X, e) /\ Fair(Y, e)
    <2>1. /\ X.layout = "hermitian" /\ X.n = B
          /\ X.re = Plane(b, "X_re", 0, B) /\ X.im = Plane(b, "X_im", 0, B)
          /\ Y.layout = "hermitian" /\ Y.n = B
          /\ Y.re = Plane(b, "Y_re", 0, B) /\ Y.im = Plane(b, "Y_im", 0, B)
      BY DEF BankBuffer, Buffer
    <2> HIDE DEF X, Y, B
    <2> QED
      BY <1>6, <2>1 DEF Fair, Layouts, Ample
  <1>8. Fair(f.in, e) /\ Fair(f.out, e)
    BY <1>1 DEF Roomy
  <1>9. \A at \in {"rfft", "irfft"} : \A in, out :
            Fair(in, e) /\ Fair(out, e) => Roomy(Call("execute", Part(b, at), in, out))
    <2> SUFFICES ASSUME NEW at \in {"rfft", "irfft"}, NEW in, NEW out, Fair(in, e), Fair(out, e)
                 PROVE  Roomy(Call("execute", Part(b, at), in, out))
      OBVIOUS
    <2> DEFINE x == Call("execute", Part(b, at), in, out)
    <2>1. x.fn = "execute" /\ x.t = Part(b, at) /\ x.in = in /\ x.out = out
      BY Calling
    <2> HIDE DEF x
    <2>2. Roomy(x)
      BY <1>4, <2>1, RoomyInside
    <2> QED
      BY <2>2 DEF x
  <1>10. CASE f.fn = "cwt"
    <2>1. f.in.layout = "real" /\ f.out.layout = "real"
      BY <1>10 DEF Refused
    <2>2. f.out.n = rows * n
      BY <1>1, <1>2, <1>10, <2>1 DEF Roomy
    <2>3. \A k \in 1..rows : Fair(Row(f.out, k - 1, n, e), e)
      <3>1. IsPlane(f.out.re) /\ (rows * n) * e <= f.out.re.room
        <4> HIDE DEF n, e, rows
        <4> QED
          BY <1>3, <1>8, <2>1, <2>2 DEF Fair, IsPlane
      <3> HIDE DEF n, e, rows
      <3> QED
        BY <1>3, <3>1, RowIs
    <2>4. \/ g = Call("execute", Part(b, "rfft"), f.in, X)
          \/ \E k \in 1..rows :
                 g = Call("execute", Part(b, "irfft"), Y, Row(f.out, k - 1, n, e))
      BY <1>10, AskedByCwt
    <2> HIDE DEF X, Y, n, e, rows, b
    <2> QED
      BY <1>7, <1>8, <1>9, <2>3, <2>4
  <1>11. CASE f.fn = "icwt"
    <2>1. f.in.layout = "real" /\ f.out.layout = "real" /\ f.out.n = n
      BY <1>11 DEF Refused
    <2>2. f.in.n = rows * n
      BY <1>1, <1>2, <1>11, <2>1 DEF Roomy
    <2>3. \A k \in 1..rows : Fair(Row(f.in, k - 1, n, e), e)
      <3>1. IsPlane(f.in.re) /\ (rows * n) * e <= f.in.re.room
        <4> HIDE DEF n, e, rows
        <4> QED
          BY <1>3, <1>8, <2>1, <2>2 DEF Fair, IsPlane
      <3> HIDE DEF n, e, rows
      <3> QED
        BY <1>3, <3>1, RowIs
    <2>5. Fair(long, e)
      <3>1. long.layout = "real" /\ long.n = n /\ long.re = f.out.re
        BY DEF Buffer
      <3> HIDE DEF long
      <3> QED
        BY <1>8, <2>1, <3>1 DEF Fair
    <2>4. \/ g = Call("execute", Part(b, "irfft"), X, long)
          \/ \E k \in 1..rows :
                 g = Call("execute", Part(b, "rfft"), Row(f.in, k - 1, n, e), Y)
      BY <1>11, AskedByCwt
    <2> HIDE DEF X, Y, n, e, rows, b, long
    <2> QED
      BY <1>7, <1>9, <2>3, <2>4, <2>5
  <1> QED
    BY <1>10, <1>11

LEMMA RoomyCalled ==
    ASSUME Sense, FlagsMeant, Life, Wiring, Legitimate, NEW f, GoodFrame(f), Roomy(f),
           ~Refused(f), NEW g, Asks(f, g)
    PROVE  Roomy(g)
  <1>1. f.fn \in Served \cup {"execute", "kernel"}
    BY DEF GoodFrame, OnRoute
  <1> QED
    BY <1>1, RoomyExecute, RoomyVm, RoomyFlat, RoomyPlanes, RoomyKernel, RoomyBluestein,
       RoomyRfft, RoomyPipeline, RoomyCwt, InterpretAlone DEF Served, Asks

(* What the caller brings.                                                 *)
LEMMA HereIs ==
    ASSUME NEW name, NEW layout \in Layouts, NEW n \in Nat, NEW e \in {4, 8},
           NEW b, b = Here(name, layout, n, e)
    PROVE  Fair(b, e) /\ b.layout = layout /\ b.n = n
  <1> DEFINE c == n * e
             d == 2 * n * e
  <1>1. c \in Nat /\ d \in Nat
    <2>1. CASE e = 4
      BY <2>1
    <2>2. CASE e = 8
      BY <2>2
    <2> QED
      BY <2>1, <2>2
  <1>2. CASE layout = "interleaved"
    <2>1. b = Buffer(layout, n, Outside(<<name>>, d), Null)
      BY <1>2 DEF Here
    <2>2. b.layout = layout /\ b.n = n /\ b.re = [at |-> <<name>>, room |-> d]
      BY <2>1 DEF Buffer, Outside
    <2>3. Fair(b, e) <=> b.layout \in Layouts /\ IsPlane(b.re) /\ b.re.room >= d
      BY <1>2, <2>2 DEF Fair
    <2> HIDE DEF c, d
    <2> QED
      BY <1>1, <2>2, <2>3 DEF IsPlane
  <1>3. CASE layout = "real"
    <2>1. b = Buffer(layout, n, Outside(<<name>>, c), Null)
      BY <1>3 DEF Here
    <2>2. b.layout = layout /\ b.n = n /\ b.re = [at |-> <<name>>, room |-> c]
      BY <2>1 DEF Buffer, Outside
    <2>3. Fair(b, e) <=> b.layout \in Layouts /\ IsPlane(b.re) /\ b.re.room >= c
      BY <1>3, <2>2 DEF Fair
    <2> HIDE DEF c, d
    <2> QED
      BY <1>1, <2>2, <2>3 DEF IsPlane
  <1>4. CASE layout \in {"split", "hermitian"}
    <2>1. b = Buffer(layout, n, Outside(<<name>>, c), Outside(<<name, "im">>, c))
      BY <1>4 DEF Here
    <2>2. /\ b.layout = layout /\ b.n = n /\ b.re = [at |-> <<name>>, room |-> c]
          /\ b.im.room = c
      BY <2>1 DEF Buffer, Outside
    <2>3. b.layout \in Layouts /\ IsPlane(b.re) /\ b.re.room >= c /\ b.im.room >= c
          => Fair(b, e)
      BY <1>4, <2>2 DEF Fair
    <2> HIDE DEF c, d
    <2> QED
      BY <1>1, <2>2, <2>3 DEF IsPlane
  <1> QED
    BY <1>2, <1>3, <1>4 DEF Layouts

LEMMA LengthsAre ==
    ASSUME NEW h, N(h) \in Nat, Route(h) = "bluestein" => Type(h) \notin {"cwt", "icwt"},
           NEW n \in Lengths(h)
    PROVE  /\ n[1] \in Nat /\ n[2] \in Nat
           /\ Route(h) \in {"vm", "flat", "split"} => n[1] = N(h) /\ n[2] = N(h)
           /\ Type(h) = "cwt" => n[2] = Rows(Req(h)) * N(h)
           /\ Type(h) = "icwt" => n[1] = Rows(Req(h)) * N(h)
  <1> DEFINE rows == Rows(Req(h))
             T == rows * N(h)
             B == Bins(h)
             m == N(h)
  <1>1. rows \in Nat /\ T \in Nat
    BY RowsCount
  <1>2. B \in Nat
    BY DEF Bins
  <1> HIDE DEF T, B
  <1>3. CASE Type(h) = "cwt"
    <2>1. Lengths(h) = {m, B} \X {T}
      BY <1>3 DEF Lengths, T, B
    <2> QED
      BY <1>1, <1>2, <1>3, <2>1, Routes DEF T
  <1>4. CASE Type(h) = "icwt"
    <2>1. Lengths(h) = {T} \X {m, B}
      BY <1>4 DEF Lengths, T, B
    <2> QED
      BY <1>1, <1>2, <1>4, <2>1, Routes DEF T
  <1>5. CASE Type(h) \notin {"cwt", "icwt"}
    <2>1. \/ Lengths(h) = {<<m, m>>}
          \/ Lengths(h) = {m, B} \X {m, B} /\ Route(h) \notin {"vm", "flat", "split"}
      BY <1>5, Routes DEF Lengths, B
    <2> QED
      BY <1>2, <1>5, <2>1
  <1> QED
    BY <1>3, <1>4, <1>5

LEMMA RoomyStart ==
    ASSUME Sense, Life, Wiring, Legitimate, Entrusted(heap, ptr), NEW h \in Handles,
           NEW f \in Offered(h)
    PROVE  Roomy(f)
  <1> DEFINE e == E(h)
  <1>1. /\ N(h) \in Nat /\ e \in {4, 8}
        /\ Route(h) = "bluestein" => Type(h) \notin {"cwt", "icwt"}
    BY HandleIs, KnownIs, BluesteinOnly
  <1> HIDE DEF e
  <1>2. ASSUME NEW in, NEW out, f = Call("execute", h, in, out), Fair(in, e), Fair(out, e),
               Route(h) \in {"vm", "flat", "split"} => in.n = N(h) /\ out.n = N(h),
               Type(h) = "cwt" /\ out.layout = "real" => out.n = Rows(Req(h)) * N(h),
               Type(h) = "icwt" /\ in.layout = "real" => in.n = Rows(Req(h)) * N(h)
        PROVE  Roomy(f)
    <2>1. f.fn = "execute" /\ f.t = h /\ f.in = in /\ f.out = out
      BY <1>2, Calling
    <2> QED
      BY <1>2, <2>1 DEF Roomy, e
  <1>3. CASE \E p \in Layouts \X Layouts, n \in Lengths(h), q \in {"in", "out"} :
                 f = Call("execute", h, Here("in", p[1], n[1], E(h)), Here(q, p[2], n[2], E(h)))
    <2>1. PICK p \in Layouts \X Layouts, n \in Lengths(h), q \in {"in", "out"} :
                   f = Call("execute", h, Here("in", p[1], n[1], e), Here(q, p[2], n[2], e))
      BY <1>3 DEF e
    <2> DEFINE in == Here("in", p[1], n[1], e)
               out == Here(q, p[2], n[2], e)
    <2>2. p[1] \in Layouts /\ p[2] \in Layouts
      OBVIOUS
    <2>3. /\ n[1] \in Nat /\ n[2] \in Nat
          /\ Route(h) \in {"vm", "flat", "split"} => n[1] = N(h) /\ n[2] = N(h)
          /\ Type(h) = "cwt" => n[2] = Rows(Req(h)) * N(h)
          /\ Type(h) = "icwt" => n[1] = Rows(Req(h)) * N(h)
      BY <1>1, LengthsAre
    <2>4. /\ Fair(in, e) /\ in.n = n[1]
          /\ Fair(out, e) /\ out.n = n[2]
      BY <1>1, <2>2, <2>3, HereIs
    <2> HIDE DEF in, out
    <2> QED
      BY <1>2, <2>1, <2>3, <2>4 DEF in, out
  <1>4. CASE f = Call("execute", h, [Here("in", "split", N(h), E(h)) EXCEPT !.im = Null],
                                    Here("out", "split", N(h), E(h)))
    <2> DEFINE in == Here("in", "split", N(h), e)
               x == [in EXCEPT !.im = Null]
               out == Here("out", "split", N(h), e)
    <2>1. /\ Fair(in, e) /\ in.layout = "split" /\ in.n = N(h)
          /\ Fair(out, e) /\ out.layout = "split" /\ out.n = N(h)
      BY <1>1, HereIs DEF Layouts
    <2>2. x.layout = "split" /\ x.n = N(h) /\ x.re = in.re /\ x.im = Null
      BY <2>1 DEF Here, Buffer
    <2>3. f = Call("execute", h, x, out)
      BY <1>4 DEF e
    <2> HIDE DEF in, x, out
    <2>4. Fair(x, e)
      BY <2>1, <2>2 DEF Fair
    <2> QED
      BY <1>2, <2>1, <2>2, <2>3, <2>4
  <1> QED
    BY <1>3, <1>4 DEF Offered

-----------------------------------------------------------------------------
(* There is room on the whole way.                                         *)
Spacious(w) == \A k \in 1..Len(w) : Roomy(w[k])

LEMMA SpaciousStays ==
    ASSUME Spacious(walk'), UNCHANGED lifeVars
    PROVE  Spacious(walk)'
  <1>1. heap' = heap /\ ptr' = ptr
    BY DEF lifeVars
  <1>2. \A t : /\ Route(t)' = Route(t) /\ Type(t)' = Type(t) /\ Req(t)' = Req(t)
               /\ N(t)' = N(t) /\ E(t)' = E(t) /\ Kernel(t)' = Kernel(t)
    BY <1>1 DEF Route, Type, Req, Has, Points, N, E, Kernel
  <1>3. \A f : Roomy(f) => Roomy(f)'
    BY <1>1, <1>2 DEF Roomy
  <1> QED
    BY <1>3 DEF Spacious

LEMMA SpaciousPushed ==
    ASSUME NEW w, OnWay(w), Spacious(w), NEW g, Roomy(g)
    PROVE  Spacious(Append(w, g))
  <1>1. PICK S : w \in Seq(S)
    BY DEF OnWay
  <1>2. /\ Len(Append(w, g)) = Len(w) + 1 /\ Append(w, g)[Len(w) + 1] = g
        /\ \A k \in 1..Len(w) : Append(w, g)[k] = w[k]
        /\ 1..Len(w) + 1 = 1..Len(w) \cup {Len(w) + 1}
    BY <1>1
  <1> QED
    BY <1>2 DEF Spacious

LEMMA SpaciousBack ==
    ASSUME NEW w, OnWay(w), Spacious(w), w # <<>>
    PROVE  Spacious(Back(w))
  <1> DEFINE n == Len(w) - 1
             s == Shorter(w)
             w2 == [s EXCEPT ![n].i = @ + 1]
             x == [s[n] EXCEPT !.i = @ + 1]
  <1>1. CASE Len(w) = 1
    BY <1>1, Empty DEF Back, Spacious
  <1>2. CASE Len(w) # 1
    <2>1. /\ \E S : s \in Seq(S)
          /\ Len(w) \in Nat \ {0} /\ Len(s) = n
          /\ \A k \in 1..n : s[k] = w[k]
      BY ShorterIs DEF OnWay
    <2>2. Back(w) = w2 /\ w2 = [s EXCEPT ![n] = x]
      BY <1>2 DEF Back, Shorter
    <2>3. n \in Nat \ {0} /\ n \in 1..n /\ \A k \in 1..n : k \in 1..Len(w)
      BY <1>2, <2>1
    <2>4. GoodFrame(s[n]) /\ Roomy(s[n])
      BY <2>1, <2>3 DEF OnWay, Spacious
    <2>5. /\ x.fn = s[n].fn /\ x.t = s[n].t /\ x.in = s[n].in /\ x.out = s[n].out
      BY <2>4, Counted
    <2> HIDE DEF w2, x, s, n
    <2>6. Roomy(x)
      BY <2>4, <2>5 DEF Roomy
    <2>7. PICK S : s \in Seq(S)
      BY <2>1
    <2>8. /\ Len(w2) = n /\ w2[n] = x
          /\ \A k \in 1..n : k # n => w2[k] = s[k]
      BY <2>1, <2>2, <2>3, <2>7
    <2>9. Spacious(w2)
      BY <2>1, <2>3, <2>6, <2>8 DEF Spacious
    <2> QED
      BY <2>2, <2>9
  <1> QED
    BY <1>1, <1>2

LEMMA SpaciousSteps ==
    ASSUME Sense, FlagsMeant
    PROVE  Outfitted /\ OnWay(walk) /\ Spacious(walk) /\ [Next]_vars => Spacious(walk)'
  <1> SUFFICES ASSUME Outfitted, OnWay(walk), Spacious(walk), [Next]_vars
               PROVE  Spacious(walk)'
    OBVIOUS
  <1>1. Life /\ Wiring /\ Legitimate /\ Entrusted(heap, ptr)
    BY DEF Outfitted, Kept
  <1>2. CASE walk' = <<>>
    BY <1>2, Empty DEF Spacious
  <1>3. CASE UNCHANGED vars
    BY <1>3, SpaciousStays DEF vars, lifeVars
  <1>4. CASE \E h \in Handles : Execute(h)
    <2>1. PICK h \in Handles : Execute(h)
      BY <1>4
    <2>2. PICK f \in Offered(h) : walk' = <<f>>
      BY <2>1 DEF Execute
    <2>3. Roomy(f)
      BY <1>1, RoomyStart
    <2>4. Spacious(<<f>>)
      <3>1. Len(<<f>>) = 1 /\ <<f>>[1] = f /\ 1..1 = {1}
        OBVIOUS
      <3> QED
        BY <2>3, <3>1 DEF Spacious
    <2>5. Spacious(walk') /\ UNCHANGED lifeVars
      BY <2>1, <2>2, <2>4 DEF Execute
    <2> QED
      BY <2>5, SpaciousStays
  <1>5. CASE CallNext
    <2>1. /\ walk # <<>> /\ ~Refused(Now) /\ Now.i <= Len(Callees(Now))
          /\ walk' = Append(walk, Callees(Now)[Now.i]) /\ UNCHANGED lifeVars
      BY <1>5 DEF CallNext
    <2>2. Len(walk) \in 1..Len(walk)
      BY <2>1 DEF OnWay
    <2>3. GoodFrame(Now) /\ Roomy(Now)
      BY <2>2 DEF OnWay, Now, Calls, Spacious
    <2> DEFINE g == Callees(Now)[Now.i]
    <2>4. Roomy(g)
      BY <1>1, <2>1, <2>3, RoomyCalled DEF Asks
    <2> HIDE DEF g
    <2>5. Spacious(Append(walk, g))
      BY <2>4, SpaciousPushed
    <2> QED
      BY <2>1, <2>5, SpaciousStays DEF g
  <1>6. CASE Return \/ ServeByKernel
    <2>1. walk # <<>> /\ walk' = Back(walk) /\ UNCHANGED lifeVars
      BY <1>6 DEF Return, ServeByKernel
    <2>2. Spacious(walk')
      BY <2>1, SpaciousBack
    <2> QED
      BY <2>1, <2>2, SpaciousStays
  <1>7. CASE FallBack
    <2>1. /\ walk # <<>> /\ AllocatesPlanes(Now) /\ ~Kernel(Now.t) /\ UNCHANGED lifeVars
          /\ walk' = Append(walk, Call("interpret", Now.t, Now.in, Now.out))
      BY <1>7 DEF FallBack
    <2>2. Len(walk) \in 1..Len(walk)
      BY <2>1 DEF OnWay
    <2>3. GoodFrame(Now) /\ Roomy(Now)
      BY <2>2 DEF OnWay, Now, Calls, Spacious
    <2> DEFINE g == Call("interpret", Now.t, Now.in, Now.out)
    <2>4. /\ g.fn = "interpret" /\ g.t = Now.t /\ g.in = Now.in /\ g.out = Now.out
          /\ Now.fn = "flat"
      BY <2>1, <2>3, CalledToInterpret
    <2> HIDE DEF g
    <2>5. Roomy(g)
      BY <2>1, <2>3, <2>4 DEF Roomy
    <2>6. Spacious(Append(walk, g))
      BY <2>5, SpaciousPushed
    <2> QED
      BY <2>1, <2>6, SpaciousStays DEF g
  <1> QED
    BY <1>2, <1>3, <1>4, <1>5, <1>6, <1>7 DEF Next, Stay, Refuse, OutOfMemory

(* No function on the way of a call of faf_execute touches a table, work   *)
(* memory or a buffer of the caller past its end: what the constructors    *)
(* allocate and what each function hands to the next has the bytes that    *)
(* the kernels, the interpreter, Bluestein, Rader, the real FFT, the CWT   *)
(* and the pipelines index, whatever the layouts and lengths they check,   *)
(* for every length and both precisions.  The hypotheses leave out what    *)
(* does overrun: see FlagsMeant, CallsMeant and WindowsApart.              *)
THEOREM CallsStaySafe ==
    ASSUME WindowsApart, FlagsMeant, CallsMeant, LengthsFound
    PROVE  Spec => []SafeCalls
  <1>1. DispatchInit => Spacious(walk)
    BY Empty DEF DispatchInit, Spacious
  <1>2. Outfitted /\ OnWay(walk) /\ Spacious(walk) /\ [Next]_vars => Spacious(walk)'
    BY SpaciousSteps DEF Sense
  <1>3. Outfitted /\ OnWay(walk) /\ Spacious(walk) => SafeCalls
    <2> SUFFICES ASSUME Outfitted, OnWay(walk), Spacious(walk), walk # <<>>, ~Refused(Now),
                        NEW a \in Accesses(Now)
                 PROVE  a.need <= a.plane.room
      BY DEF SafeCalls
    <2>1. Len(walk) \in 1..Len(walk)
      BY DEF OnWay
    <2>2. GoodFrame(Now) /\ Roomy(Now)
      BY <2>1 DEF OnWay, Now, Calls, Spacious
    <2>3. AllWithin(Accesses(Now))
      BY <2>2, SafeAll DEF Sense, Outfitted, Kept
    <2> QED
      BY <2>3 DEF AllWithin, Within
  <1>4. Spec => [](Outfitted /\ OnWay(walk))
    BY AlwaysOnWay
  <1> QED
    BY <1>1, <1>2, <1>3, <1>4, PTL DEF Spec

-----------------------------------------------------------------------------
(* What a function must be given to refuse nothing.                        *)
Meets(b, layout, n) == b.layout = layout /\ b.n = n /\ (layout = "split" => b.im # Null)
Paired(b) == b.layout = "hermitian" => b.im # Null
Able(t) == Kernel(t) \/ Has(t, "code")
Welcome(f) ==
    /\ ~Hollow(f.t)
    /\ f.fn \in {"execute", "bluestein", "rfft", "pipeline", "cwt", "icwt"} =>
           Legal(f) /\ Paired(f.in) /\ Paired(f.out)
    /\ f.fn \in {"vm", "flat", "split", "interpret", "kernel"} => Type(f.t) \in Complex
    /\ f.fn \in {"vm", "flat", "split", "interpret"} => Able(f.t)
    /\ f.fn = "interpret" => ~Kernel(f.t)
    /\ f.fn = "split" => BothIm(f)

LEMMA LegalIs ==
    ASSUME NEW f, NEW t, t = f.t
    PROVE  /\ Type(t) = "rfft" =>
                  (Legal(f) <=> /\ Meets(SignalIn(f), "real", N(t))
                                /\ Meets(SpectrumIn(f), Req(t).layout, Bins(t)))
           /\ Type(t) = "cwt" =>
                  (Legal(f) <=> /\ Meets(f.in, "real", N(t)) /\ f.in.re.at # f.out.re.at
                                /\ f.out.layout = "real")
           /\ Type(t) = "icwt" =>
                  (Legal(f) <=> Meets(f.out, "real", N(t)) /\ f.in.layout = "real")
           /\ Type(t) = "pipeline" =>
                  (Legal(f) <=> /\ Meets(f.in, "real", N(t))
                                /\ IF Has(t, "inner_inv") THEN Meets(f.out, "real", N(t))
                                   ELSE Meets(f.out, "hermitian", Bins(t)))
           /\ Type(t) \notin {"rfft", "cwt", "icwt", "pipeline"} =>
                  (Legal(f) <=> /\ Meets(f.in, Req(t).layout, N(t))
                                /\ Meets(f.out, Req(t).layout, N(t)))
  BY DEF Legal, Meets

(* A transform that is executed without inner transforms has a kernel or a *)
(* program.                                                                *)
LEMMA CodeHas ==
    ASSUME Sense, Life, Legitimate, NEW t, t \in DOMAIN heap, Standard(heap, ptr, t),
           Type(t) \in Complex, ~Hollow(t),
           ~("bluestein" \in Req(t).flags /\ Has(t, "inner"))
    PROVE  Able(t)
  <1> DEFINE r == Req(t)
             u == Base(r)
  <1>1. CASE Type(t) \in {"fft", "stft"}
    <2>1. /\ Whole(heap, ptr, t) /\ r = heap[t].req /\ u = Base(heap[t].req)
          /\ u.n = r.n /\ u.prec = r.prec /\ u.flags = r.flags /\ u.maker = "fft"
      BY <1>1, SortOf DEF Standard, Type, Req
    <2>2. Path(t) = FftPath(u.n, u.flags)
      BY <2>1 DEF Path, N
    <2> HIDE DEF u
    <2>3. Path(t) \in {"codelet", "splitradix", "radix2", "mixed", "rader", "bluestein"}
      BY <1>1, KnownIs
    <2>4. CASE Path(t) = "codelet"
      BY <2>1, <2>2, <2>4, CodeletHas DEF Able, Kernel
    <2>5. CASE Path(t) = "splitradix"
      BY <2>1, <2>2, <2>5, SplitRadixHas DEF Able, Kernel
    <2>6. CASE Path(t) \in {"radix2", "mixed"}
      <3> DEFINE table == IF Path(t) = "mixed" THEN 2 * u.n * Elem(u) ELSE u.n * Elem(u)
      <3>1. Steps(u) = GeneratedSteps(u, table)
        BY <2>1, <2>2, <2>6 DEF Steps, FftSteps
      <3> HIDE DEF table
      <3>2. Present(ptr, Block(t), "code")
        BY <2>1, <3>1, GeneratedHas
      <3> QED
        BY <3>2, HasIs DEF Able
    <2>7. CASE Path(t) = "rader"
      BY <2>1, <2>2, <2>7, RaderHas DEF Able, Kernel
    <2>8. Path(t) # "bluestein"
      <3> SUFFICES ASSUME Path(t) = "bluestein" PROVE FALSE
        OBVIOUS
      <3>1. Has(t, "inner")
        BY <1>1, InnerThere DEF Path
      <3>2. "bluestein" \in Req(t).flags
        BY Paths DEF Path
      <3> QED
        BY <3>1, <3>2
    <2> QED
      BY <2>3, <2>4, <2>5, <2>6, <2>7, <2>8
  <1>2. CASE Type(t) = "dwt"
    <2>1. Whole(heap, ptr, t) /\ u = Base(heap[t].req) /\ u.maker = "dwt"
      BY <1>2 DEF Standard, Type, Req, Base
    <2>2. Present(ptr, Block(t), "code")
      BY <2>1, DwtHas
    <2> QED
      BY <2>2, HasIs DEF Able
  <1>3. CASE Type(t) \in {"dct", "dst", "mdct"}
    BY <1>3 DEF Hollow, Able
  <1> QED
    BY <1>1, <1>2, <1>3 DEF Complex

LEMMA LayoutIs ==
    ASSUME Legitimate, NEW t \in DOMAIN heap, Type(t) \in Complex
    PROVE  Req(t).layout \in Layouts
  <1>1. Legit(Req(t))
    BY DEF Legitimate, HeapLegit, Req
  <1>2. CASE Req(t).maker = "fft" /\ Req(t).layout = "split"
    BY <1>2 DEF Layouts
  <1>3. CASE \E c \in Requests : Stems(Req(t), c)
    <2>1. PICK c \in Requests : Stems(Req(t), c)
      BY <1>3
    <2>2. c.layout \in Layouts
      BY RequestsAssumption DEF RequestSet
    <2> QED
      BY <2>1, <2>2 DEF Stems
  <1> QED
    BY <1>1, <1>2, <1>3 DEF Legit, Complex, Type

LEMMA ServedWell ==
    ASSUME Sense, Life, Wiring, Legitimate, NEW f, GoodFrame(f), Welcome(f)
    PROVE  ~Refused(f)
  <1> DEFINE t == f.t
  <1>1. t \in DOMAIN heap /\ Standard(heap, ptr, t)
        /\ f.fn \in Served \cup {"execute", "kernel"}
    BY DEF GoodFrame, OnRoute
  <1>2. CASE f.fn = "execute"
    <2>1. SUFFICES ASSUME Route(t) \in {"vm", "flat", "split"}
                   PROVE  /\ f.in.layout = Req(t).layout /\ f.out.layout = Req(t).layout
                          /\ Route(t) = "split" => BothIm(f)
      BY <1>2 DEF Refused
    <2>2. Meets(f.in, Req(t).layout, N(t)) /\ Meets(f.out, Req(t).layout, N(t))
          /\ Paired(f.in) /\ Paired(f.out)
      BY <1>2, <2>1, Routes, LegalIs DEF Welcome
    <2>3. Route(t) = "split" => Req(t).layout \in {"split", "hermitian"}
      <3> SUFFICES ASSUME Route(t) = "split" PROVE Req(t).layout \in {"split", "hermitian"}
        OBVIOUS
      <3>1. Type(t) \in Complex
        BY <1>1, KnownIs, Routes DEF Complex, Makers
      <3>2. Req(t).layout \in Layouts /\ Req(t).layout \notin {"interleaved", "real"}
        BY <1>1, <3>1, LayoutIs, Routes
      <3> QED
        BY <3>2 DEF Layouts
    <2> QED
      BY <2>2, <2>3 DEF Meets, Paired, BothIm
  <1>3. CASE f.fn \in {"vm", "flat"}
    BY <1>3 DEF Refused
  <1>4. CASE f.fn = "split"
    BY <1>4 DEF Refused, Welcome, Able
  <1>11. CASE f.fn = "interpret"
    BY <1>11 DEF Refused, Welcome, Able
  <1>5. CASE f.fn = "kernel"
    <2>1. Type(t) \in Complex
      BY <1>5 DEF Welcome
    <2>2. CASE heap[t].fn \notin {"dif", "dit", "rader"}
      BY <1>5, <2>2 DEF Refused
    <2>3. CASE heap[t].fn \in {"dif", "dit", "rader"}
      <3> DEFINE r == Req(t)
                 u == Base(r)
      <3>1. Type(t) \in {"fft", "stft"}
        BY <1>1, <2>1, <2>3, DwtRoom, RealRoom DEF Complex
      <3>2. /\ Whole(heap, ptr, t) /\ r = heap[t].req /\ u = Base(heap[t].req)
            /\ u.n = r.n /\ u.prec = r.prec /\ u.flags = r.flags /\ u.maker = "fft"
        BY <1>1, <3>1, SortOf DEF Standard, Type, Req
      <3>3. Path(t) = FftPath(u.n, u.flags)
        BY <3>2 DEF Path, N
      <3> HIDE DEF u
      <3>4. Path(t) \in {"codelet", "splitradix", "radix2", "mixed", "rader", "bluestein"}
        BY <1>1, <3>1, KnownIs
      <3>5. Path(t) \notin {"codelet", "radix2", "mixed", "bluestein"}
        BY <1>1, <2>3, <3>1, <3>2, <3>3, CodeletRoom, GeneratedRoom, BluesteinHas DEF Path
      <3>6. CASE Path(t) = "splitradix"
        <4>1. /\ Present(ptr, Block(t), "t0") /\ Present(ptr, Block(t), "t1")
              /\ heap[t].fn = "dif" \/ (heap[t].fn = "dit" /\ Present(ptr, Block(t), "t2"))
          BY <3>2, <3>3, <3>6, SplitRadixHas
        <4> QED
          BY <1>5, <4>1, HasIs DEF Refused
      <3>7. CASE Path(t) = "rader"
        <4>1. /\ Whole(heap, ptr, t) /\ u = Base(heap[t].req) /\ u.maker = "fft"
              /\ FftPath(u.n, u.flags) = "rader"
          BY <3>2, <3>3, <3>7
        <4>2. /\ \A at \in {"inner", "inner_inv", "t0", "t1", "t2", "t3"} :
                     Present(ptr, Block(t), at)
              /\ heap[t].fn = "rader"
          <5> HIDE DEF t, r
          <5> QED
            BY <4>1, RaderHas
        <4> QED
          BY <1>5, <4>2, HasIs DEF Refused
      <3> QED
        BY <3>4, <3>5, <3>6, <3>7
    <2> QED
      BY <2>2, <2>3
  <1>6. CASE f.fn = "bluestein"
    <2>1. Type(t) = "fft" /\ Path(t) = "bluestein"
      BY <1>1, <1>6, BluesteinOnly DEF GoodFrame, OnRoute
    <2>2. Has(t, "inner") /\ Has(t, "inner_inv") /\ Has(t, "scratch")
      <3>1. Whole(heap, ptr, t) /\ Req(t) = heap[t].req /\ Req(t) = Base(heap[t].req)
        BY <1>1, <2>1, Plainly
      <3>2. \A at \in {"inner", "inner_inv", "scratch"} : Present(ptr, Block(t), at)
        BY <2>1, <3>1, BluesteinHas DEF Path, Type, N
      <3> QED
        BY <3>2, HasIs
    <2>3. Meets(f.in, Req(t).layout, N(t)) /\ Meets(f.out, Req(t).layout, N(t))
      BY <1>6, <2>1, LegalIs DEF Welcome
    <2>4. Req(t).layout \in {"split", "interleaved"}
      <3>1. Req(t).layout \notin {"real", "hermitian"}
        BY <1>1, <2>1 DEF Standard, Whole, Accepts, Type, Req
      <3>2. Req(t).layout \in Layouts
        BY <1>1, <2>1, LayoutIs DEF Complex
      <3> QED
        BY <3>1, <3>2 DEF Layouts
    <2> QED
      BY <1>6, <2>2, <2>3, <2>4 DEF Refused, Meets, BothIm
  <1>7. CASE f.fn = "rfft"
    <2>1. Type(t) = "rfft"
      BY <1>7, Routes DEF GoodFrame, OnRoute
    <2>2. Has(t, "inner")
      <3>1. Whole(heap, ptr, t) /\ Req(t) = Base(heap[t].req)
        BY <1>1, <2>1, Plainly
      <3>2. Present(ptr, Block(t), "inner")
        BY <2>1, <3>1, RfftHas DEF Type
      <3> QED
        BY <3>2, HasIs
    <2>3. Meets(SignalIn(f), "real", N(t)) /\ Meets(SpectrumIn(f), Req(t).layout, Bins(t))
          /\ Paired(f.in) /\ Paired(f.out)
      BY <1>7, <2>1, LegalIs DEF Welcome
    <2>4. Paired(SpectrumIn(f))
      BY <2>3 DEF SpectrumIn
    <2> QED
      BY <1>7, <2>2, <2>3, <2>4 DEF Refused, Meets, Paired
  <1>8. CASE f.fn = "cwt"
    <2>1. Type(t) = "cwt"
      BY <1>8, Routes DEF GoodFrame, OnRoute
    <2>2. Meets(f.in, "real", N(t)) /\ f.in.re.at # f.out.re.at /\ f.out.layout = "real"
      BY <1>8, <2>1, LegalIs DEF Welcome
    <2> QED
      BY <1>8, <2>2 DEF Refused, Meets
  <1>9. CASE f.fn = "icwt"
    <2>1. Type(t) = "icwt"
      BY <1>9, Routes DEF GoodFrame, OnRoute
    <2>2. Meets(f.out, "real", N(t)) /\ f.in.layout = "real"
      BY <1>9, <2>1, LegalIs DEF Welcome
    <2> QED
      BY <1>9, <2>2 DEF Refused, Meets
  <1>10. CASE f.fn = "pipeline"
    <2>1. Type(t) = "pipeline"
      BY <1>10, Routes DEF GoodFrame, OnRoute
    <2>2. /\ Meets(f.in, "real", N(t)) /\ Paired(f.out)
          /\ IF Has(t, "inner_inv") THEN Meets(f.out, "real", N(t))
             ELSE Meets(f.out, "hermitian", Bins(t))
      BY <1>10, <2>1, LegalIs DEF Welcome
    <2> QED
      BY <1>10, <2>2 DEF Refused, Meets, Paired
  <1> QED
    BY <1>1, <1>2, <1>3, <1>4, <1>5, <1>6, <1>7, <1>8, <1>9, <1>10, <1>11 DEF Served

LEMMA WelcomeTransform ==
    ASSUME Sense, Life, Legitimate, NEW f, GoodFrame(f), Welcome(f),
           f.fn = "execute", Route(f.t) \in {"vm", "flat", "split"}
    PROVE  Type(f.t) \in Complex /\ Able(f.t)
  <1>1. f.t \in DOMAIN heap /\ Standard(heap, ptr, f.t)
    BY DEF GoodFrame
  <1>2. Type(f.t) \in Complex
    BY <1>1, KnownIs, Routes DEF Complex, Makers
  <1>3. ~("bluestein" \in Req(f.t).flags /\ Has(f.t, "inner"))
    BY Routes
  <1> QED
    BY <1>1, <1>2, <1>3, CodeHas DEF Welcome

LEMMA WelcomeExecute ==
    ASSUME Sense, Life, Wiring, Legitimate, NEW f, GoodFrame(f), Welcome(f), ~Refused(f),
           f.fn = "execute", NEW g, Asks(f, g)
    PROVE  Welcome(g)
  <1> DEFINE t == f.t
             x == Call(Route(t), t, f.in, f.out)
  <1>1. g = x
    <2>1. Callees(f) = <<x>>
      BY DEF Callees
    <2> HIDE DEF x
    <2> QED
      BY <2>1, OnlyOne DEF Asks, GoodFrame
  <1>2. g.fn = Route(t) /\ g.t = t /\ g.in = f.in /\ g.out = f.out
    BY <1>1, Calling
  <1>3. Legal(f) => Legal(g)
    BY <1>2 DEF Legal, SignalIn, SpectrumIn
  <1>4. ~Hollow(t) /\ Legal(f) /\ Paired(f.in) /\ Paired(f.out)
    BY DEF Welcome
  <1>5. CASE Route(t) \in {"bluestein", "rfft", "pipeline", "cwt", "icwt"}
    BY <1>2, <1>3, <1>4, <1>5 DEF Welcome
  <1>6. CASE Route(t) \in {"vm", "flat", "split"}
    <2>1. Route(t) = "split" => BothIm(f)
      BY <1>6 DEF Refused
    <2>2. Type(t) \in Complex /\ Able(t)
      BY <1>6, WelcomeTransform
    <2>3. BothIm(f) => BothIm(g)
      BY <1>2 DEF BothIm
    <2> HIDE DEF t
    <2> QED
      BY <1>2, <1>4, <1>6, <2>1, <2>2, <2>3 DEF Welcome
  <1> QED
    BY <1>5, <1>6, Routes DEF Served

LEMMA WelcomeVm ==
    ASSUME NEW f, GoodFrame(f), Welcome(f), f.fn = "vm", NEW g, Asks(f, g)
    PROVE  Welcome(g)
  <1>1. PICK in, out : Callees(f) = <<Call("flat", f.t, in, out)>>
    BY DEF Callees
  <1>2. g = Call("flat", f.t, in, out)
    BY <1>1, OnlyOne DEF Asks, GoodFrame
  <1>3. g.fn = "flat" /\ g.t = f.t
    BY <1>2, Calling
  <1> QED
    BY <1>3 DEF Welcome

(* Work memory is somewhere.                                               *)
LEMMA PlaneThere == \A t, at, first, count : Plane(t, at, first, count) # Null
  <1> TAKE t, at, first, count
  <1>1. Plane(t, at, first, count).at = <<t, at, first>>
    BY DEF Plane
  <1>2. Null.at = <<>> /\ Len(<<>>) = 0 /\ Len(<<t, at, first>>) = 3
    BY DEF Null
  <1> QED
    BY <1>1, <1>2

LEMMA SplitThere ==
    \A t, at, n, first : SplitAt(t, at, n, first).im # Null /\ SplitAt(t, at, n, first).n = n
                         /\ SplitAt(t, at, n, first).layout = "split"
  BY PlaneThere DEF SplitAt, Buffer

LEMMA FlatThere == \A t, k : FlatPlanes(t, k).im # Null
  <1> TAKE t, k
  <1>1. CASE FlatPlanes(t, k) = SplitAt(t, "scratch", N(t), k * N(t))
    BY <1>1, SplitThere
  <1>2. CASE FlatPlanes(t, k) = Buffer("split", N(t), Outside(<<"heap", k>>, N(t) * E(t)),
                                       Outside(<<"heap", k + 1>>, N(t) * E(t)))
    <2>1. FlatPlanes(t, k).im.at = <<"heap", k + 1>>
      BY <1>2 DEF Buffer, Outside
    <2>2. Null.at = <<>> /\ Len(<<>>) = 0 /\ Len(<<"heap", k + 1>>) = 2
      BY DEF Null
    <2> QED
      BY <2>1, <2>2
  <1> QED
    BY <1>1, <1>2 DEF FlatPlanes

LEMMA WelcomeFlat ==
    ASSUME FlagsMeant, Legitimate, NEW f, GoodFrame(f), Welcome(f), f.fn = "flat",
           NEW g, Asks(f, g)
    PROVE  Welcome(g)
  <1> DEFINE t == f.t
             x == Call("kernel", t, FlatPlanes(t, 0), FlatPlanes(t, 0))
             y == Call("split", t, FlatPlanes(t, 0), FlatTarget(t))
  <1>1. ~Flagged(t)
    BY FlatLegit DEF GoodFrame, OnRoute
  <1>2. Callees(f) = <<x>> \/ Callees(f) = <<y>>
    BY <1>1 DEF Callees
  <1>3. /\ x.fn = "kernel" /\ x.t = t
        /\ y.fn = "split" /\ y.t = t /\ y.in = FlatPlanes(t, 0) /\ y.out = FlatTarget(t)
    BY Calling
  <1>4. BothIm(y)
    BY <1>3, FlatThere DEF BothIm, FlatTarget
  <1> HIDE DEF x, y
  <1>5. g \in {x, y}
    BY <1>2, OnlyOne DEF Asks, GoodFrame
  <1> QED
    BY <1>3, <1>4, <1>5 DEF Welcome

LEMMA WelcomeSplit ==
    ASSUME NEW f, GoodFrame(f), Welcome(f), f.fn = "split", NEW g, Asks(f, g)
    PROVE  Welcome(g)
  <1> DEFINE x == Call("kernel", f.t, f.in, f.out)
  <1>1. Callees(f) = <<x>>
    <2>1. Callees(f) = <<x>> \/ Callees(f) = <<>>
      BY DEF Callees
    <2>2. Len(<<>>) = 0 /\ ~(f.i <= 0)
      BY DEF GoodFrame
    <2> QED
      BY <2>1, <2>2 DEF Asks
  <1>2. x.fn = "kernel" /\ x.t = f.t
    BY Calling
  <1> HIDE DEF x
  <1>3. g = x
    BY <1>1, OnlyOne DEF Asks, GoodFrame
  <1> QED
    BY <1>2, <1>3 DEF Welcome

(* An inner FFT has a kernel or a program, and planes to work in.          *)
LEMMA WelcomeInner ==
    ASSUME Sense, Life, Legitimate, NEW t, t \in DOMAIN heap, Standard(heap, ptr, t),
           Type(t) = "fft", "bluestein" \notin Req(t).flags,
           NEW g, g.fn = "split", g.t = t, g.in.im # Null, g.out.im # Null
    PROVE  Welcome(g)
  <1>1. ~Hollow(t) /\ Type(t) \in Complex
    BY DEF Hollow, Complex
  <1>2. Able(t)
    BY <1>1, CodeHas
  <1> QED
    BY <1>1, <1>2 DEF Welcome, BothIm

LEMMA WelcomeKernel ==
    ASSUME Sense, Life, Wiring, Legitimate, NEW f, GoodFrame(f), Welcome(f), ~Refused(f),
           f.fn = "kernel", NEW g, Asks(f, g)
    PROVE  Welcome(g)
  <1> DEFINE t == f.t
             a == SplitAt(t, "t3", N(t) - 1, 0)
             x(at) == Call("split", Part(t, at), a, a)
  <1>1. heap[t].fn = "rader" /\ Callees(f) = <<x("inner"), x("inner_inv")>>
    <2>1. CASE heap[t].fn = "rader"
      BY <2>1 DEF Callees
    <2>2. CASE heap[t].fn # "rader"
      <3>1. Callees(f) = <<>>
        BY <2>2 DEF Callees
      <3>2. Len(<<>>) = 0 /\ ~(f.i <= 0)
        BY DEF GoodFrame
      <3> QED
        BY <3>1, <3>2 DEF Asks
    <2> QED
      BY <2>1, <2>2
  <1>2. Has(t, "inner") /\ Has(t, "inner_inv")
    BY <1>1 DEF Refused
  <1>3. t \in DOMAIN heap /\ Standard(heap, ptr, t) /\ Type(t) \in Complex
    BY DEF GoodFrame, Welcome
  <1>4. \A at \in {"inner", "inner_inv"} :
            /\ Part(t, at) \in DOMAIN heap /\ Standard(heap, ptr, Part(t, at))
            /\ Inward(Req(t), Req(Part(t, at)), at)
    BY <1>2, <1>3, InnerPart
  <1>5. Path(t) # "bluestein" \/ Type(t) \notin {"fft", "stft"}
    <2>1. Type(t) = "fft" /\ Path(t) = "bluestein" => heap[t].fn # "rader"
      BY <1>3, BluesteinRooms DEF Path
    <2> QED
      BY <1>1, <1>3, <2>1, KnownIs
  <1>6. \A at \in {"inner", "inner_inv"} :
            Type(Part(t, at)) = "fft" /\ "bluestein" \notin Req(Part(t, at)).flags
    BY <1>3, <1>4, <1>5 DEF Inward, N, Type, Path, Complex
  <1>7. /\ \A at : x(at).fn = "split" /\ x(at).t = Part(t, at) /\ x(at).in = a /\ x(at).out = a
        /\ a.im # Null
    BY Calling, SplitThere
  <1> HIDE DEF x, a, t
  <1>8. \A at \in {"inner", "inner_inv"} : Welcome(x(at))
    BY <1>4, <1>6, <1>7, WelcomeInner
  <1> QED
    BY <1>1, <1>8, OneOfTwo DEF Asks, GoodFrame

LEMMA WelcomeBluestein ==
    ASSUME Sense, Life, Wiring, Legitimate, NEW f, GoodFrame(f), f.fn = "bluestein",
           NEW g, Asks(f, g)
    PROVE  Welcome(g)
  <1> DEFINE t == f.t
             M == BluM(t)
             a == SplitAt(t, "scratch", M, 0)
             A == SplitAt(t, "scratch", M, 2 * M)
             x == Call("execute", Part(t, "inner"), a, A)
             y == Call("execute", Part(t, "inner_inv"), A, a)
  <1>1. Callees(f) = <<x, y>>
    BY DEF Callees
  <1>2. t \in DOMAIN heap /\ Standard(heap, ptr, t) /\ Type(t) = "fft" /\ Path(t) = "bluestein"
    BY BluesteinOnly DEF GoodFrame, OnRoute
  <1>3. \A at \in {"inner", "inner_inv"} : N(Part(t, at)) = M /\ Type(Part(t, at)) = "fft"
    BY <1>2, BluInner
  <1>4. \A at \in {"inner", "inner_inv"} : Req(Part(t, at)).layout = "split"
    <2>1. \A at \in {"inner", "inner_inv"} : Inward(Req(t), Req(Part(t, at)), at)
      BY <1>2, BluInner, InnerPart
    <2> QED
      BY <1>2, <2>1 DEF Inward, Type
  <1>5. Meets(a, "split", M) /\ Meets(A, "split", M) /\ Paired(a) /\ Paired(A)
    BY SplitThere DEF Meets, Paired
  <1>6. /\ x.fn = "execute" /\ x.t = Part(t, "inner") /\ x.in = a /\ x.out = A
        /\ y.fn = "execute" /\ y.t = Part(t, "inner_inv") /\ y.in = A /\ y.out = a
    BY Calling
  <1> HIDE DEF x, y, a, A, t, M
  <1>7. ASSUME NEW z \in {x, y} PROVE Welcome(z)
    <2>1. /\ z.fn = "execute" /\ Type(z.t) = "fft" /\ Req(z.t).layout = "split" /\ N(z.t) = M
          /\ Meets(z.in, "split", M) /\ Meets(z.out, "split", M)
          /\ Paired(z.in) /\ Paired(z.out)
      BY <1>3, <1>4, <1>5, <1>6
    <2>2. Legal(z)
      BY <2>1, LegalIs
    <2> QED
      BY <2>1, <2>2 DEF Welcome, Hollow
  <1> QED
    BY <1>1, <1>7, OneOfTwo DEF Asks, GoodFrame

LEMMA WelcomeRfft ==
    ASSUME Sense, Life, Wiring, Legitimate, NEW f, GoodFrame(f), ~Refused(f), f.fn = "rfft",
           NEW g, Asks(f, g)
    PROVE  Welcome(g)
  <1> DEFINE t == f.t
             h == N(t) \div 2
             pack == SplitAt(t, "scratch", h, 0)
             half == SplitAt(t, "scratch", h, 2 * h)
             inner == Part(t, "inner")
             x == Call("split", inner, half, pack)
             y == Call("split", inner, pack, half)
  <1>1. Callees(f) = <<x>> \/ Callees(f) = <<y>>
    BY DEF Callees
  <1>2. t \in DOMAIN heap /\ Standard(heap, ptr, t) /\ Type(t) = "rfft" /\ Has(t, "inner")
    BY Routes DEF GoodFrame, OnRoute, Refused
  <1>3. /\ inner \in DOMAIN heap /\ Standard(heap, ptr, inner)
        /\ Inward(Req(t), Req(inner), "inner")
    BY <1>2, InnerPart
  <1>4. Type(inner) = "fft" /\ "bluestein" \notin Req(inner).flags
    BY <1>2, <1>3 DEF Inward, Type
  <1>5. /\ x.fn = "split" /\ x.t = inner /\ x.in = half /\ x.out = pack
        /\ y.fn = "split" /\ y.t = inner /\ y.in = pack /\ y.out = half
        /\ half.im # Null /\ pack.im # Null
    BY Calling, SplitThere
  <1> HIDE DEF x, y, pack, half, inner, t
  <1>6. Welcome(x) /\ Welcome(y)
    BY <1>3, <1>4, <1>5, WelcomeInner
  <1> QED
    BY <1>1, <1>6, OnlyOne DEF Asks, GoodFrame

(* A real FFT is called with a signal and a spectrum.                      *)
LEMMA WelcomeReal ==
    ASSUME NEW g, g.fn = "execute", Type(g.t) = "rfft",
           Meets(SignalIn(g), "real", N(g.t)),
           Meets(SpectrumIn(g), "hermitian", Bins(g.t)), Req(g.t).layout = "hermitian",
           Paired(SpectrumIn(g))
    PROVE  Welcome(g)
  <1>1. Legal(g)
    BY LegalIs
  <1>2. Paired(SignalIn(g))
    BY DEF Meets, Paired
  <1>3. Paired(g.in) /\ Paired(g.out)
    BY <1>2 DEF SignalIn, SpectrumIn
  <1> QED
    BY <1>1, <1>3 DEF Welcome, Hollow

LEMMA WelcomePipeline ==
    ASSUME Sense, HeadsMeant, Life, Wiring, Legitimate, NEW f, GoodFrame(f), Welcome(f),
           f.fn = "pipeline", NEW g, Asks(f, g)
    PROVE  Welcome(g)
  <1> DEFINE t == f.t
             B == Bins(t)
             s == SplitAt(t, "scratch", B, 0)
             spec == [s EXCEPT !.layout = "hermitian"]
             x == Call("execute", Part(t, "inner"), f.in, spec)
             y == Call("execute", Part(t, "inner_inv"), spec, f.out)
             c == Has(t, "inner_inv")
  <1>1. g = x \/ (c /\ g = y)
    <2>1. Callees(f) = <<x>> \o If(c, <<y>>)
      BY DEF Callees
    <2> HIDE DEF x, y
    <2>2. CASE c
      <3>1. If(c, <<y>>) = <<y>>
        BY <2>2 DEF If
      <3>2. Callees(f) = <<x, y>>
        BY <2>1, <3>1, Joined
      <3> QED
        BY <2>2, <3>2, OneOfTwo DEF Asks, GoodFrame
    <2>3. CASE ~c
      <3>1. If(c, <<y>>) = <<>>
        BY <2>3 DEF If
      <3>2. Callees(f) = <<x>>
        BY <2>1, <3>1, Joined
      <3> QED
        BY <3>2, OnlyOne DEF Asks, GoodFrame
    <2> QED
      BY <2>2, <2>3
  <1>2. t \in DOMAIN heap /\ Standard(heap, ptr, t) /\ Type(t) = "pipeline"
    BY Routes DEF GoodFrame, OnRoute
  <1>3. Has(t, "inner")
    BY <1>2, PipelineRoom
  <1>4. Req(t).layout = "hermitian"
    <2>1. Legit(Req(t)) /\ Req(t).maker = "pipeline"
      BY <1>2 DEF Legitimate, HeapLegit, Req, Type
    <2>2. PICK r \in Requests : Stems(Req(t), r)
      BY <2>1 DEF Legit
    <2> QED
      BY <2>1, <2>2 DEF Stems, HeadsMeant
  <1>5. \A at \in {"inner", "inner_inv"} : Has(t, at) =>
            /\ N(Part(t, at)) = N(t) /\ Bins(Part(t, at)) = B /\ Type(Part(t, at)) = "rfft"
            /\ Req(Part(t, at)).layout = "hermitian"
            /\ Backward(Part(t, at)) <=> at = "inner_inv"
    <2>1. \A at \in {"inner", "inner_inv"} : Has(t, at) =>
              Inward(Req(t), Req(Part(t, at)), at)
      BY <1>2, InnerPart
    <2> QED
      BY <1>2, <1>4, <2>1 DEF Inward, N, Bins, Type, Backward
  <1>6. Meets(spec, "hermitian", B) /\ Paired(spec)
    <2>1. s = [layout |-> s.layout, n |-> s.n, re |-> s.re, im |-> s.im]
      BY DEF SplitAt, Buffer
    <2>2. s.im # Null /\ s.n = B
      BY SplitThere
    <2> HIDE DEF s
    <2>3. spec.layout = "hermitian" /\ spec.n = s.n /\ spec.im = s.im
      BY <2>1
    <2> HIDE DEF spec
    <2> QED
      BY <2>2, <2>3 DEF Meets, Paired
  <1>7. Meets(f.in, "real", N(t)) /\ (c => Meets(f.out, "real", N(t)))
    BY <1>2, LegalIs DEF Welcome
  <1>8. /\ x.fn = "execute" /\ x.t = Part(t, "inner") /\ x.in = f.in /\ x.out = spec
        /\ y.fn = "execute" /\ y.t = Part(t, "inner_inv") /\ y.in = spec /\ y.out = f.out
    BY Calling
  <1> HIDE DEF x, y, spec, t, B
  <1>9. Welcome(x)
    <2>1. SignalIn(x) = f.in /\ SpectrumIn(x) = spec
      BY <1>3, <1>5, <1>8 DEF SignalIn, SpectrumIn
    <2> QED
      BY <1>3, <1>5, <1>6, <1>7, <1>8, <2>1, WelcomeReal
  <1>10. c => Welcome(y)
    <2> SUFFICES ASSUME c PROVE Welcome(y)
      OBVIOUS
    <2>1. SignalIn(y) = f.out /\ SpectrumIn(y) = spec
      BY <1>5, <1>8 DEF SignalIn, SpectrumIn
    <2> QED
      BY <1>5, <1>6, <1>7, <1>8, <2>1, WelcomeReal
  <1> QED
    BY <1>1, <1>9, <1>10

LEMMA WelcomeCwt ==
    ASSUME Sense, Life, Wiring, Legitimate, NEW f, GoodFrame(f), Welcome(f),
           f.fn \in {"cwt", "icwt"}, NEW g, Asks(f, g)
    PROVE  Welcome(g)
  <1> DEFINE t == f.t
             b == Bank(t)
             n == N(t)
             e == E(t)
             B == Bins(b)
             rows == Rows(Req(b))
             X == BankBuffer(b, "X_re", "X_im")
             Y == BankBuffer(b, "Y_re", "Y_im")
             long == Buffer("real", n, f.out.re, Null)
  <1>1. t \in DOMAIN heap /\ Standard(heap, ptr, t) /\ Type(t) = f.fn
    BY Routes DEF GoodFrame, OnRoute
  <1>2. b \in DOMAIN heap /\ Whole(heap, ptr, b) /\ Req(b).maker = "bank" /\ N(b) = n
    BY <1>1, BankOf
  <1>3. \A at \in {"rfft", "irfft"} :
            /\ Type(Part(b, at)) = "rfft" /\ N(Part(b, at)) = n /\ Bins(Part(b, at)) = B
            /\ Req(Part(b, at)).layout = "hermitian"
            /\ Backward(Part(b, at)) <=> at = "irfft"
    <2>1. \A at \in {"rfft", "irfft"} :
              Same(Req(Part(b, at)), "rfft", N(b), Req(b).prec,
                   IF at = "rfft" THEN "fwd" ELSE "inv", "hermitian", {})
      BY <1>2, BankFfts
    <2>2. \A at \in {"rfft", "irfft"} :
              /\ Req(Part(b, at)).maker = "rfft" /\ Req(Part(b, at)).n = n
              /\ Req(Part(b, at)).layout = "hermitian"
              /\ Req(Part(b, at)).dir = IF at = "rfft" THEN "fwd" ELSE "inv"
      BY <1>2, <2>1 DEF Same
    <2> QED
      BY <1>2, <2>2 DEF Type, N, Bins, Backward
  <1>4. /\ Meets(X, "hermitian", B) /\ Paired(X) /\ Meets(Y, "hermitian", B) /\ Paired(Y)
        /\ Meets(long, "real", n)
        /\ \A c, k : Meets(Row(c, k, n, e), "real", n)
    BY PlaneThere DEF BankBuffer, Buffer, Meets, Paired, Row
  <1>5. \A signal, spec :
            Meets(signal, "real", n) /\ Meets(spec, "hermitian", B) /\ Paired(spec) =>
                /\ Welcome(Call("execute", Part(b, "rfft"), signal, spec))
                /\ Welcome(Call("execute", Part(b, "irfft"), spec, signal))
    <2> SUFFICES ASSUME NEW signal, NEW spec, Meets(signal, "real", n),
                        Meets(spec, "hermitian", B), Paired(spec)
                 PROVE  /\ Welcome(Call("execute", Part(b, "rfft"), signal, spec))
                        /\ Welcome(Call("execute", Part(b, "irfft"), spec, signal))
      OBVIOUS
    <2> DEFINE x == Call("execute", Part(b, "rfft"), signal, spec)
               y == Call("execute", Part(b, "irfft"), spec, signal)
    <2>1. /\ x.fn = "execute" /\ x.t = Part(b, "rfft") /\ x.in = signal /\ x.out = spec
          /\ y.fn = "execute" /\ y.t = Part(b, "irfft") /\ y.in = spec /\ y.out = signal
      BY Calling
    <2> HIDE DEF x, y, b, n, B
    <2>2. /\ SignalIn(x) = signal /\ SpectrumIn(x) = spec
          /\ SignalIn(y) = signal /\ SpectrumIn(y) = spec
      BY <1>3, <2>1 DEF SignalIn, SpectrumIn
    <2>3. Welcome(x)
      BY <1>3, <2>1, <2>2, WelcomeReal
    <2>4. Welcome(y)
      BY <1>3, <2>1, <2>2, WelcomeReal
    <2> QED
      BY <2>3, <2>4 DEF x, y
  <1>6. CASE f.fn = "cwt"
    <2>1. Meets(f.in, "real", n)
      BY <1>1, <1>6, LegalIs DEF Welcome
    <2>2. \/ g = Call("execute", Part(b, "rfft"), f.in, X)
          \/ \E k \in 1..rows :
                 g = Call("execute", Part(b, "irfft"), Y, Row(f.out, k - 1, n, e))
      BY <1>6, AskedByCwt
    <2> HIDE DEF X, Y, n, e, rows, b, B
    <2> QED
      BY <1>4, <1>5, <2>1, <2>2
  <1>7. CASE f.fn = "icwt"
    <2>1. \/ g = Call("execute", Part(b, "irfft"), X, long)
          \/ \E k \in 1..rows :
                 g = Call("execute", Part(b, "rfft"), Row(f.in, k - 1, n, e), Y)
      BY <1>7, AskedByCwt
    <2> HIDE DEF X, Y, n, e, rows, b, B, long
    <2> QED
      BY <1>4, <1>5, <2>1
  <1> QED
    BY <1>6, <1>7

LEMMA WelcomeCalled ==
    ASSUME Sense, FlagsMeant, HeadsMeant, Life, Wiring, Legitimate, NEW f, GoodFrame(f),
           Welcome(f), ~Refused(f), NEW g, Asks(f, g)
    PROVE  Welcome(g)
  <1>1. f.fn \in Served \cup {"execute", "kernel"}
    BY DEF GoodFrame, OnRoute
  <1> QED
    BY <1>1, WelcomeExecute, WelcomeVm, WelcomeFlat, WelcomeSplit, WelcomeKernel,
       WelcomeBluestein, WelcomeRfft, WelcomePipeline, WelcomeCwt, InterpretAlone
       DEF Served, Asks

LEMMA WelcomeStart ==
    ASSUME NEW h, NEW f, f \in Offered(h), Legal(f), ~Hollow(h)
    PROVE  Welcome(f)
  <1>1. \A name, layout, n, e : Paired(Here(name, layout, n, e))
    <2> TAKE name, layout, n, e
    <2> DEFINE b == Here(name, layout, n, e)
    <2>1. CASE layout \in {"interleaved", "real"}
      BY <2>1 DEF Here, Buffer, Paired
    <2>2. CASE layout \notin {"interleaved", "real"}
      <3>1. b.im.at = <<name, "im">>
        BY <2>2 DEF Here, Buffer, Outside
      <3>2. Null.at = <<>> /\ Len(<<>>) = 0 /\ Len(<<name, "im">>) = 2
        BY DEF Null
      <3> HIDE DEF b
      <3>3. b.im # Null
        BY <3>1, <3>2
      <3> QED
        BY <3>3 DEF Paired, b
    <2> QED
      BY <2>1, <2>2
  <1>2. \A n, e : Paired([Here("in", "split", n, e) EXCEPT !.im = Null])
    BY DEF Here, Buffer, Paired
  <1>3. f.fn = "execute" /\ f.t = h /\ Paired(f.in) /\ Paired(f.out)
    <2>1. PICK in, out : f = Call("execute", h, in, out) /\ Paired(in) /\ Paired(out)
      BY <1>1, <1>2 DEF Offered
    <2> QED
      BY <2>1, Calling
  <1> QED
    BY <1>3 DEF Welcome

-----------------------------------------------------------------------------
(* A call that was legal is welcome on the whole way.                      *)
Favoured(w) ==
    w # <<>> /\ Legal(w[1]) /\ ~Hollow(w[1].t) => \A k \in 1..Len(w) : Welcome(w[k])

LEMMA FavouredStays ==
    ASSUME Favoured(walk'), UNCHANGED lifeVars
    PROVE  Favoured(walk)'
  <1>1. heap' = heap /\ ptr' = ptr
    BY DEF lifeVars
  <1>2. \A t : /\ Type(t)' = Type(t) /\ Req(t)' = Req(t) /\ N(t)' = N(t)
               /\ Kernel(t)' = Kernel(t) /\ Bins(t)' = Bins(t)
               /\ Backward(t)' = Backward(t) /\ \A at : Has(t, at)' = Has(t, at)
    BY <1>1 DEF Type, Req, Has, Points, N, Kernel, Bins, Backward
  <1>3. \A f : Legal(f)' <=> Legal(f)
    BY <1>2 DEF Legal, SignalIn, SpectrumIn
  <1>4. \A t : (Hollow(t)' <=> Hollow(t)) /\ (Able(t)' <=> Able(t))
    BY <1>2 DEF Hollow, Able
  <1>5. \A f : Welcome(f) => Welcome(f)'
    BY <1>2, <1>3, <1>4 DEF Welcome
  <1> QED
    BY <1>3, <1>4, <1>5 DEF Favoured

LEMMA FavouredPushed ==
    ASSUME NEW w, OnWay(w), w # <<>>, Favoured(w), NEW g, Welcome(w[Len(w)]) => Welcome(g)
    PROVE  Favoured(Append(w, g))
  <1>1. PICK S : w \in Seq(S)
    BY DEF OnWay
  <1>2. /\ Len(Append(w, g)) = Len(w) + 1 /\ Append(w, g)[Len(w) + 1] = g
        /\ \A k \in 1..Len(w) : Append(w, g)[k] = w[k]
        /\ 1..Len(w) + 1 = 1..Len(w) \cup {Len(w) + 1}
        /\ 1 \in 1..Len(w) /\ Len(w) \in 1..Len(w)
    BY <1>1
  <1> QED
    BY <1>2 DEF Favoured

LEMMA FavouredBack ==
    ASSUME NEW w, OnWay(w), Favoured(w), w # <<>>
    PROVE  Favoured(Back(w))
  <1> DEFINE n == Len(w) - 1
             s == Shorter(w)
             w2 == [s EXCEPT ![n].i = @ + 1]
             x == [s[n] EXCEPT !.i = @ + 1]
  <1>1. CASE Len(w) = 1
    BY <1>1 DEF Back, Favoured
  <1>2. CASE Len(w) # 1
    <2>1. /\ \E S : s \in Seq(S)
          /\ Len(w) \in Nat \ {0} /\ Len(s) = n
          /\ \A k \in 1..n : s[k] = w[k]
      BY ShorterIs DEF OnWay
    <2>2. Back(w) = w2 /\ w2 = [s EXCEPT ![n] = x]
      BY <1>2 DEF Back, Shorter
    <2>3. n \in Nat \ {0} /\ n \in 1..n /\ 1 \in 1..n /\ \A k \in 1..n : k \in 1..Len(w)
      BY <1>2, <2>1
    <2>4. GoodFrame(s[n])
      BY <2>1, <2>3 DEF OnWay
    <2>5. /\ x.fn = s[n].fn /\ x.t = s[n].t /\ x.in = s[n].in /\ x.out = s[n].out
      BY <2>4, Counted
    <2> HIDE DEF w2, x, s, n
    <2>6. (Legal(x) => Legal(s[n])) /\ (Welcome(s[n]) => Welcome(x))
      <3>1. Legal(x) <=> Legal(s[n])
        BY <2>5 DEF Legal, SignalIn, SpectrumIn
      <3> QED
        BY <2>5, <3>1 DEF Welcome, BothIm
    <2>7. PICK S : s \in Seq(S)
      BY <2>1
    <2>8. /\ Len(w2) = n /\ w2[n] = x
          /\ \A k \in 1..n : k # n => w2[k] = s[k]
      BY <2>1, <2>2, <2>3, <2>7
    <2>9. (Legal(w2[1]) => Legal(w[1])) /\ w2[1].t = w[1].t
      <3>1. CASE n = 1
        BY <2>1, <2>3, <2>5, <2>6, <2>8, <3>1
      <3>2. CASE n # 1
        BY <2>1, <2>3, <2>8, <3>2
      <3> QED
        BY <3>1, <3>2
    <2>10. Favoured(w2)
      <3> SUFFICES ASSUME Legal(w2[1]), ~Hollow(w2[1].t), NEW k \in 1..n PROVE Welcome(w2[k])
        BY <2>8 DEF Favoured
      <3>1. Legal(w[1]) /\ ~Hollow(w[1].t)
        BY <2>9
      <3>2. \A j \in 1..n : Welcome(s[j])
        BY <2>1, <2>3, <3>1 DEF Favoured
      <3>3. CASE k = n
        BY <2>6, <2>8, <3>2, <3>3
      <3>4. CASE k # n
        BY <2>8, <3>2, <3>4
      <3> QED
        BY <3>3, <3>4
    <2> QED
      BY <2>2, <2>10
  <1> QED
    BY <1>1, <1>2

LEMMA FavouredSteps ==
    ASSUME Sense, FlagsMeant, HeadsMeant
    PROVE  Outfitted /\ OnWay(walk) /\ Favoured(walk) /\ [Next]_vars => Favoured(walk)'
  <1> SUFFICES ASSUME Outfitted, OnWay(walk), Favoured(walk), [Next]_vars
               PROVE  Favoured(walk)'
    OBVIOUS
  <1>1. Life /\ Wiring /\ Legitimate /\ Entrusted(heap, ptr)
    BY DEF Outfitted, Kept
  <1>2. CASE walk' = <<>>
    BY <1>2 DEF Favoured
  <1>3. CASE UNCHANGED vars
    BY <1>3, FavouredStays DEF vars, lifeVars
  <1>4. CASE \E h \in Handles : Execute(h)
    <2>1. PICK h \in Handles : Execute(h)
      BY <1>4
    <2>2. PICK f \in Offered(h) : walk' = <<f>>
      BY <2>1 DEF Execute
    <2>3. f.t = h
      <3>1. PICK in, out : f = Call("execute", h, in, out)
        BY <2>2 DEF Offered
      <3> QED
        BY <3>1, Calling
    <2>4. Favoured(<<f>>)
      <3>1. Len(<<f>>) = 1 /\ <<f>>[1] = f /\ 1..1 = {1}
        OBVIOUS
      <3>2. Legal(f) /\ ~Hollow(f.t) => Welcome(f)
        BY <2>3, WelcomeStart
      <3> QED
        BY <3>1, <3>2 DEF Favoured
    <2>5. Favoured(walk') /\ UNCHANGED lifeVars
      BY <2>1, <2>2, <2>4 DEF Execute
    <2> QED
      BY <2>5, FavouredStays
  <1>5. CASE CallNext
    <2>1. /\ walk # <<>> /\ ~Refused(Now) /\ Now.i <= Len(Callees(Now))
          /\ walk' = Append(walk, Callees(Now)[Now.i]) /\ UNCHANGED lifeVars
      BY <1>5 DEF CallNext
    <2>2. Len(walk) \in 1..Len(walk)
      BY <2>1 DEF OnWay
    <2>3. GoodFrame(Now) /\ Now = walk[Len(walk)]
      BY <2>2 DEF OnWay, Now, Calls
    <2> DEFINE g == Callees(Now)[Now.i]
    <2>4. Welcome(Now) => Welcome(g)
      BY <1>1, <2>1, <2>3, WelcomeCalled DEF Asks
    <2> HIDE DEF g
    <2>5. Favoured(Append(walk, g))
      BY <2>1, <2>3, <2>4, FavouredPushed
    <2> QED
      BY <2>1, <2>5, FavouredStays DEF g
  <1>6. CASE Return \/ ServeByKernel
    <2>1. walk # <<>> /\ walk' = Back(walk) /\ UNCHANGED lifeVars
      BY <1>6 DEF Return, ServeByKernel
    <2>2. Favoured(Back(walk))
      BY <2>1, FavouredBack
    <2> QED
      BY <2>1, <2>2, FavouredStays
  <1>7. CASE FallBack
    <2>1. /\ walk # <<>> /\ AllocatesPlanes(Now) /\ ~Kernel(Now.t) /\ UNCHANGED lifeVars
          /\ walk' = Append(walk, Call("interpret", Now.t, Now.in, Now.out))
      BY <1>7 DEF FallBack
    <2>2. Len(walk) \in 1..Len(walk)
      BY <2>1 DEF OnWay
    <2>3. GoodFrame(Now) /\ Now = walk[Len(walk)]
      BY <2>2 DEF OnWay, Now, Calls
    <2> DEFINE g == Call("interpret", Now.t, Now.in, Now.out)
    <2>4. g.fn = "interpret" /\ g.t = Now.t /\ Now.fn = "flat"
      BY <2>1, <2>3, CalledToInterpret
    <2> HIDE DEF g
    <2>5. Welcome(Now) => Welcome(g)
      BY <2>1, <2>4 DEF Welcome
    <2>6. Favoured(Append(walk, g))
      BY <2>1, <2>3, <2>5, FavouredPushed
    <2> QED
      BY <2>1, <2>6, FavouredStays DEF g
  <1> QED
    BY <1>2, <1>3, <1>4, <1>5, <1>6, <1>7 DEF Next, Stay, Refuse, OutOfMemory

(* A call of faf_execute that the documentation of the transform allows is *)
(* refused by no function on its way: every path, inner transform and row  *)
(* gets the layouts, lengths and planes that its checks ask for, and the   *)
(* tables, kernel, program and inner transforms it looks for are there,    *)
(* after any refusal of memory during creation.  Besides the hypotheses of *)
(* CallsStaySafe, a pipeline has a head that gives planes (faf_rfft.c:268).*)
THEOREM LegalNeverRefused ==
    ASSUME WindowsApart, FlagsMeant, CallsMeant, HeadsMeant, LengthsFound
    PROVE  Spec => []LegalCallsServed
  <1>1. DispatchInit => Favoured(walk)
    BY DEF DispatchInit, Favoured
  <1>2. Outfitted /\ OnWay(walk) /\ Favoured(walk) /\ [Next]_vars => Favoured(walk)'
    BY FavouredSteps DEF Sense
  <1>3. Outfitted /\ OnWay(walk) /\ Favoured(walk) => LegalCallsServed
    <2> SUFFICES ASSUME Outfitted, OnWay(walk), Favoured(walk), walk # <<>>,
                        Legal(walk[1]), ~Hollow(walk[1].t)
                 PROVE  ~Refused(Now)
      BY DEF LegalCallsServed
    <2>1. Len(walk) \in 1..Len(walk)
      BY DEF OnWay
    <2>2. GoodFrame(Now) /\ Welcome(Now)
      BY <2>1 DEF OnWay, Now, Calls, Favoured
    <2> QED
      BY <2>2, ServedWell DEF Sense, Outfitted, Kept
  <1>4. Spec => [](Outfitted /\ OnWay(walk))
    BY AlwaysOnWay
  <1> QED
    BY <1>1, <1>2, <1>3, <1>4, PTL DEF Spec

=============================================================================
