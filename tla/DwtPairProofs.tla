--------------------------- MODULE DwtPairProofs ----------------------------
(***************************************************************************)
(* The inverse that faf_create_inverse derives from a wavelet transform,   *)
(* for every set of requests and of user filters, and every order of       *)
(* calls: it exists unless the transform is one-way, and until the user    *)
(* binds filters of his own to it, it is the transform the other way round *)
(* and has a synthesis.                                                    *)
(***************************************************************************)
EXTENDS DwtPair, FiniteSetTheorems, TLAPS

(* What faf_create_dwt makes of a request agrees with itself: asked for    *)
(* again, it is what it was.  A transform whose user filters have no       *)
(* synthesis is marked.                                                    *)
Literal(t) ==
    t = [made |-> TRUE, fam |-> t.fam, conv |-> t.conv, backend |-> t.backend, n |-> t.n,
         levels |-> t.levels, inv |-> t.inv, flags |-> t.flags, norm |-> t.norm,
         taps |-> t.taps]
Takes(t) ==
    /\ "bluestein" \notin t.flags
    /\ IsPow2(t.n) /\ ~(t.n < 2) /\ t.fam \in Families
    /\ t.conv # "unspec" /\ ValidConvention(t.fam, t.conv)
    /\ ~(t.norm = "ortho" /\ t.conv \in LiftingOnly) /\ t.norm # "default"
    /\ t.backend \notin {"auto", "clash"} /\ ResolveBackend(t.conv, t.backend) = t.backend
    /\ ~(t.levels > Log2(t.n)) /\ t.levels = DepthOf(t.levels, Log2(t.n))
Marked(t) == t.taps # NoTaps /\ t.taps.hs = <<>> => t.conv = "analysis-only"
Resolved(t) == t = Refused \/ (t.made /\ Literal(t) /\ Takes(t) /\ Marked(t))

Derived(t, from) ==
    \/ from = Refused
    \/ t = Refused /\ from.conv = "analysis-only"
    \/ t = Mirror(from) /\ from.conv # "analysis-only" /\ Marked(from)
PairInv == Resolved(fwd) /\ Derived(inv, madeFrom)

LEMMA Log2Int == \A n : Log2(n) \in Nat
  <1> TAKE n
  <1> DEFINE S == {k \in 1..30 : 2^k <= n}
  <1>1. IsFiniteSet(1..30)
    BY 1 \in Int, 30 \in Int, FS_Interval
  <1>3. S \subseteq 1..30
    OBVIOUS
  <1> HIDE DEF S
  <1>2. Cardinality(S) \in Nat
    BY <1>1, <1>3, FS_Subset, FS_CardinalityType
  <1> QED
    BY <1>2 DEF Log2, S

LEMMA NotRefused ==
    /\ ~Refused.made
    /\ \A t : t.made => t # Refused
  BY DEF Refused

(* A convention that is resolved is none of the defaults.                  *)
LEMMA DefaultSettled ==
    ASSUME NEW fam \in Families
    PROVE  DefaultConvention(fam) # "unspec"
  BY DEF DefaultConvention, Families

LEMMA LiftingFamilies ==
    ASSUME NEW fam, NEW conv \in LiftingOnly, ValidConvention(fam, conv)
    PROVE  fam \in {"cdf53", "cdf97"}
  BY DEF LiftingOnly, ValidConvention, UserFilters, FamilyOf

LEMMA BackendSettled ==
    ASSUME NEW conv, NEW asked, ResolveBackend(conv, asked) # "clash"
    PROVE  LET b == ResolveBackend(conv, asked)
           IN  b # "auto" /\ ResolveBackend(conv, b) = b
  <1>1. CASE asked # "auto"
    BY <1>1 DEF ResolveBackend
  <1>2. CASE asked = "auto"
    BY <1>2 DEF ResolveBackend
  <1> QED
    BY <1>1, <1>2

LEMMA CreateResolved == \A c : Resolved(CreateDwt(c))
  <1> TAKE c
  <1> DEFINE conv == IF c.conv = "unspec" THEN DefaultConvention(c.fam) ELSE c.conv
             backend == ResolveBackend(conv, c.backend)
             deepest == Log2(c.n)
             norm == IF c.norm # "default" THEN c.norm
                     ELSE IF c.fam \in {"cdf53", "cdf97"} THEN "jpeg2000" ELSE "ortho"
             refused == \/ "bluestein" \in c.flags
                        \/ ~IsPow2(c.n) \/ c.n < 2 \/ c.fam \notin Families
                        \/ ~ValidConvention(c.fam, conv)
                        \/ c.norm = "ortho" /\ conv \in LiftingOnly
                        \/ backend = "clash" \/ c.levels > deepest
             t == [made |-> TRUE, fam |-> c.fam, conv |-> conv, backend |-> backend,
                   n |-> c.n, levels |-> DepthOf(c.levels, deepest), inv |-> c.inv,
                   flags |-> c.flags, norm |-> norm, taps |-> NoTaps]
  <1>1. CreateDwt(c) = IF refused THEN Refused ELSE t
    BY DEF CreateDwt
  <1>2. CASE refused
    BY <1>1, <1>2 DEF Resolved
  <1>3. CASE ~refused
    <2>1. t.made /\ Literal(t) /\ Marked(t)
      BY DEF Literal, Marked
    <2>2. /\ "bluestein" \notin t.flags /\ IsPow2(t.n) /\ ~(t.n < 2) /\ t.fam \in Families
          /\ ValidConvention(t.fam, t.conv)
      BY <1>3
    <2>3. t.conv # "unspec"
      BY <1>3, DefaultSettled
    <2>4. ~(t.norm = "ortho" /\ t.conv \in LiftingOnly) /\ t.norm # "default"
      <3>1. conv \in LiftingOnly => c.fam \in {"cdf53", "cdf97"}
        BY <1>3, LiftingFamilies
      <3> QED
        BY <1>3, <3>1
    <2>5. t.backend \notin {"auto", "clash"} /\ ResolveBackend(t.conv, t.backend) = t.backend
      BY <1>3, BackendSettled
    <2>6. ~(t.levels > Log2(t.n)) /\ t.levels = DepthOf(t.levels, Log2(t.n))
      BY <1>3, Log2Int DEF DepthOf
    <2> HIDE DEF t
    <2>7. Takes(t)
      BY <2>2, <2>3, <2>4, <2>5, <2>6 DEF Takes
    <2> QED
      BY <1>1, <1>3, <2>1, <2>7 DEF Resolved
  <1> QED
    BY <1>2, <1>3

LEMMA TapsBound ==
    ASSUME NEW t, NEW made, NEW fam, NEW conv, NEW backend, NEW n, NEW levels,
           NEW way, NEW flags, NEW norm, NEW taps, NEW f,
           t = [made |-> made, fam |-> fam, conv |-> conv, backend |-> backend, n |-> n,
                levels |-> levels, inv |-> way,
                flags |-> flags, norm |-> norm, taps |-> taps]
    PROVE  [t EXCEPT !.taps = f] =
           [made |-> made, fam |-> fam, conv |-> conv, backend |-> backend, n |-> n,
            levels |-> levels, inv |-> way, flags |-> flags, norm |-> norm, taps |-> f]
  OBVIOUS

(* Deriving the inverse of a transform that agrees with itself.            *)
LEMMA InverseDerived ==
    ASSUME NEW t, Resolved(t), t.made
    PROVE  Derived(InverseOf(t), t)
  <1>1. Literal(t) /\ Takes(t) /\ Marked(t)
    BY NotRefused DEF Resolved
  <1> DEFINE c == [t EXCEPT !.inv = ~t.inv]
             made == CreateDwt(c)
             back == ~t.inv
  <1>2. PICK fam, conv, backend, n, levels, way, flags, norm, taps :
            t = [made |-> TRUE, fam |-> fam, conv |-> conv, backend |-> backend, n |-> n,
                 levels |-> levels, inv |-> way,
                 flags |-> flags, norm |-> norm, taps |-> taps]
    BY <1>1 DEF Literal
  <1>11. c = [t EXCEPT !.inv = back]
    OBVIOUS
  <1> HIDE DEF back, c
  <1>3. c = [made |-> TRUE, fam |-> fam, conv |-> conv, backend |-> backend, n |-> n,
             levels |-> levels, inv |-> back,
             flags |-> flags, norm |-> norm, taps |-> taps]
    BY <1>2, <1>11
  <1>4. /\ c.fam = fam /\ c.conv = conv /\ c.backend = backend /\ c.n = n
        /\ c.levels = levels /\ c.inv = back /\ c.flags = flags /\ c.norm = norm
    BY <1>3
  <1>5. /\ t.fam = fam /\ t.conv = conv /\ t.backend = backend /\ t.n = n
        /\ t.levels = levels /\ t.inv = way /\ t.flags = flags
        /\ t.norm = norm /\ t.taps = taps
    BY <1>2
  <1>6. made = [made |-> TRUE, fam |-> fam, conv |-> conv, backend |-> backend, n |-> n,
                levels |-> levels, inv |-> back,
                flags |-> flags, norm |-> norm, taps |-> NoTaps]
    <2>1. /\ "bluestein" \notin flags
          /\ IsPow2(n) /\ ~(n < 2) /\ fam \in Families
          /\ conv # "unspec" /\ ValidConvention(fam, conv)
          /\ ~(norm = "ortho" /\ conv \in LiftingOnly) /\ norm # "default"
          /\ backend # "clash" /\ ResolveBackend(conv, backend) = backend
          /\ ~(levels > Log2(n)) /\ levels = DepthOf(levels, Log2(n))
      BY <1>1, <1>5 DEF Takes
    <2> QED
      BY <1>4, <2>1 DEF CreateDwt
  <1> HIDE DEF made
  <1>7. made.made /\ [made EXCEPT !.taps = taps] = Mirror(t)
    <2>1. Mirror(t) = [made |-> TRUE, fam |-> t.fam, conv |-> t.conv, backend |-> t.backend,
                       n |-> t.n, levels |-> t.levels, inv |-> back,
                       flags |-> t.flags, norm |-> t.norm,
                       taps |-> t.taps]
      BY DEF Mirror, back
    <2>2. Mirror(t) = [made |-> TRUE, fam |-> fam, conv |-> conv, backend |-> backend,
                       n |-> n, levels |-> levels, inv |-> back,
                       flags |-> flags, norm |-> norm,
                       taps |-> taps]
      BY <1>5, <2>1
    <2>3. made.made
      BY <1>6
    <2> DEFINE yes == TRUE
    <2>4. made = [made |-> yes, fam |-> fam, conv |-> conv, backend |-> backend, n |-> n,
                  levels |-> levels, inv |-> back,
                  flags |-> flags, norm |-> norm, taps |-> NoTaps]
      BY <1>6
    <2> HIDE DEF yes
    <2>5. [made EXCEPT !.taps = taps] =
              [made |-> yes, fam |-> fam, conv |-> conv, backend |-> backend, n |-> n,
               levels |-> levels, inv |-> back,
               flags |-> flags, norm |-> norm, taps |-> taps]
      BY <2>4, TapsBound
    <2>6. [made EXCEPT !.taps = taps] =
              [made |-> TRUE, fam |-> fam, conv |-> conv, backend |-> backend, n |-> n,
               levels |-> levels, inv |-> back,
               flags |-> flags, norm |-> norm, taps |-> taps]
      BY <2>5 DEF yes
    <2> QED
      BY <2>2, <2>3, <2>6
  <1>8. InverseOf(t) = IF conv = "analysis-only" \/ ~made.made THEN Refused
                       ELSE [made EXCEPT !.taps = taps]
    BY <1>5 DEF InverseOf, made, c
  <1>9. CASE conv = "analysis-only"
    BY <1>5, <1>8, <1>9 DEF Derived
  <1>10. CASE conv # "analysis-only"
    BY <1>1, <1>5, <1>7, <1>8, <1>10 DEF Derived
  <1> QED
    BY <1>9, <1>10

LEMMA TapsResolved ==
    ASSUME PairInv, SetTaps, fwd' # fwd
    PROVE  Resolved(fwd')
  <1>1. /\ fwd.made /\ fwd.conv \in UserFilters
        /\ \E f \in TapSets : fwd' = WithTaps(fwd, f)
    BY DEF SetTaps
  <1>11. PICK f \in TapSets :
            fwd' = [fwd EXCEPT !.taps = f,
                               !.conv = IF f.hs = <<>> THEN "analysis-only" ELSE @]
    BY <1>1 DEF WithTaps
  <1>2. Literal(fwd) /\ Takes(fwd)
    BY <1>1, NotRefused DEF PairInv, Resolved
  <1>3. PICK fam, conv, backend, n, levels, way, flags, norm, taps :
            fwd = [made |-> TRUE, fam |-> fam, conv |-> conv, backend |-> backend, n |-> n,
                   levels |-> levels, inv |-> way,
                   flags |-> flags, norm |-> norm, taps |-> taps]
    BY <1>2 DEF Literal
  <1> DEFINE now == IF f.hs = <<>> THEN "analysis-only" ELSE conv
  <1>4. fwd' = [made |-> TRUE, fam |-> fam, conv |-> now, backend |-> backend, n |-> n,
                levels |-> levels, inv |-> way,
                flags |-> flags, norm |-> norm, taps |-> f]
    BY <1>11, <1>3
  <1>5. now \in UserFilters /\ conv \in UserFilters /\ (f.hs = <<>> => now = "analysis-only")
    BY <1>1, <1>3 DEF UserFilters
  <1> HIDE DEF now
  <1>6. Literal(fwd)' /\ (fwd.made)' /\ Marked(fwd)'
    BY <1>4, <1>5 DEF Literal, Marked
  <1>7. /\ "bluestein" \notin flags
        /\ IsPow2(n) /\ ~(n < 2) /\ fam \in Families /\ norm # "default"
        /\ backend \notin {"auto", "clash"} /\ ResolveBackend(conv, backend) = backend
        /\ ~(levels > Log2(n)) /\ levels = DepthOf(levels, Log2(n))
    BY <1>2, <1>3 DEF Takes
  <1>8. /\ now # "unspec" /\ now \notin LiftingOnly /\ ValidConvention(fam, now)
    BY <1>5 DEF UserFilters, LiftingOnly, ValidConvention
  <1>9. ResolveBackend(now, backend) = backend
    BY <1>5, <1>7 DEF ResolveBackend, UserFilters, LiftingOnly
  <1>10. Takes(fwd')
    BY <1>4, <1>7, <1>8, <1>9 DEF Takes
  <1> QED
    BY <1>6, <1>10 DEF Resolved

LEMMA PairStep == PairInv /\ [Next]_vars => PairInv'
  <1> SUFFICES ASSUME PairInv, [Next]_vars PROVE PairInv'
    OBVIOUS
  <1>1. CASE Create
    BY <1>1, CreateResolved DEF Create, PairInv
  <1>2. CASE SetTaps
    <2>1. Resolved(fwd')
      BY <1>2, TapsResolved DEF PairInv
    <2>2. Derived(inv, madeFrom)'
      BY <1>2 DEF SetTaps, PairInv, Derived
    <2> QED
      BY <2>1, <2>2 DEF PairInv
  <1>3. CASE MakeInverse
    BY <1>3, InverseDerived DEF MakeInverse, PairInv
  <1>4. CASE UNCHANGED <<fwd, inv, madeFrom>>
    BY <1>4 DEF PairInv
  <1> QED
    BY <1>1, <1>2, <1>3, <1>4
       DEF Next, vars, Analyse, Synthesise, Level, StarvedLevel, Return

LEMMA AlwaysPaired == Spec => []PairInv
  <1>1. Init => PairInv
    BY DEF Init, PairInv, Resolved, Derived
  <1> QED
    BY <1>1, PairStep, PTL DEF Spec

(* What faf_create_inverse gives can be run backwards: it has a synthesis, *)
(* and so has what it was derived from, whatever filters the user had      *)
(* bound, taken away and bound again before (faf_dwt_set_taps).  Nothing   *)
(* is said of an inverse once the user binds filters to the inverse, nor   *)
(* of one that is asked of faf_create_dwt as analysis-only:                *)
(* OneWayNeverBackwards fails for these.                                   *)
THEOREM DerivedSynthesis == Spec => []DerivedHasSynthesis
  <1>1. PairInv => DerivedHasSynthesis
    <2> SUFFICES ASSUME PairInv, madeFrom # Refused, inv.made
                 PROVE  /\ inv.conv # "analysis-only" /\ madeFrom.conv # "analysis-only"
                        /\ inv.taps # NoTaps => inv.taps.hs # <<>>
      BY DEF DerivedHasSynthesis
    <2>1. inv = Mirror(madeFrom) /\ madeFrom.conv # "analysis-only" /\ Marked(madeFrom)
      BY NotRefused DEF PairInv, Derived
    <2>2. inv.conv = madeFrom.conv /\ inv.taps = madeFrom.taps
      BY <2>1 DEF Mirror
    <2> QED
      BY <2>1, <2>2 DEF Marked
  <1> QED
    BY <1>1, AlwaysPaired, PTL

(* The inverse is the transform it was derived from, the other way round,  *)
(* with the filters of the user, until he binds others to the inverse, and *)
(* it is refused for one-way transforms only: resolving convention,        *)
(* backend, norm and depth (faf_create_dwt) of what has been resolved      *)
(* changes nothing.                                                        *)
THEOREM InverseMirrors == Spec => []Mirrored
  <1>1. PairInv => Mirrored
    BY NotRefused DEF PairInv, Derived, Mirrored, Mirror
  <1> QED
    BY <1>1, AlwaysPaired, PTL
=============================================================================
