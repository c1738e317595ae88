------------------------------ MODULE Recursion ------------------------------
(***************************************************************************)
(* Induction over numbers, and recursive functions, without an operator as *)
(* a parameter: what is shown for every number is given as the set of the  *)
(* numbers it holds for, and a step of a recursion as a function.          *)
(***************************************************************************)
EXTENDS Integers, FiniteSetsExt, TLAPS, WellFoundedInduction

(* A set of numbers that is not empty has a least element.                 *)
LEMMA Least ==
    ASSUME NEW T, T \subseteq Nat, T # {}
    PROVE  \E n \in T : \A m \in T : n <= m
<1> DEFINE R == OpToRel(<, Nat)
<1>1. IsWellFoundedOn(R, Nat)
  BY NatLessThanWellFounded
<1>2. \A n, m \in Nat : <<m, n>> \in R <=> m < n
  BY DEF OpToRel
<1> HIDE DEF R
<1>3. PICK n \in T : \A m \in T : ~(<<m, n>> \in R)
  BY <1>1, WFMin
<1>4. ASSUME NEW m \in T PROVE n <= m
  <2>1. n \in Nat /\ m \in Nat
    OBVIOUS
  <2>2. ~(m < n)
    BY <1>2, <1>3, <2>1
  <2> QED
    BY <2>1, <2>2
<1> QED
  BY <1>4

(* What holds for 0, and for the next number up to n, holds up to n.       *)
LEMMA UpTo ==
    ASSUME NEW n \in Nat, NEW P,
           0 \in P, \A k \in 0..n : k \in P /\ k < n => k + 1 \in P
    PROVE  \A k \in 0..n : k \in P
<1> SUFFICES ASSUME ~(\A k \in 0..n : k \in P)
             PROVE  FALSE
  OBVIOUS
<1> DEFINE T == {k \in 0..n : k \notin P}
<1>1. T # {} /\ T \subseteq Nat
  OBVIOUS
<1>2. PICK k \in T : \A m \in T : k <= m
  BY <1>1, Least
<1>3. k \in 1..n
  BY <1>2
<1>4. k - 1 \in 0..n /\ k - 1 < n /\ (k - 1) + 1 = k
  BY <1>3
<1>5. k - 1 \notin T
  BY <1>2, <1>4
<1>6. k - 1 \in P
  BY <1>4, <1>5
<1> QED
  BY <1>2, <1>4, <1>6

(* A function on 0..n whose next value is a function of the last one.      *)
Steps(n, T) == [1..n -> [T -> T]]
Orbit(n, T, x, F, g) ==
    g \in [0..n -> T] /\ g[0] = x /\ \A k \in 1..n : g[k] = F[k][g[k - 1]]

LEMMA Iterates ==
    ASSUME NEW n \in Nat, NEW T, NEW x \in T, NEW F \in Steps(n, T)
    PROVE  \E g : Orbit(n, T, x, F, g)
<1> USE DEF Steps
<1> DEFINE Upto(m, g) == g[0] = x /\ \A k \in 1..m : g[k] = F[k][g[k - 1]]
           P == {m \in 0..n : \E g \in [0..m -> T] : Upto(m, g)}
<1>1. 0 \in P
  <2> DEFINE h == [k \in 0..0 |-> x]
  <2>1. h \in [0..0 -> T] /\ Upto(0, h)
    OBVIOUS
  <2>2. 0 \in 0..n
    OBVIOUS
  <2> HIDE DEF h, Upto
  <2> QED
    BY <2>1, <2>2
<1>2. ASSUME NEW m \in 0..n, m \in P, m < n PROVE m + 1 \in P
  <2>1. PICK g \in [0..m -> T] : Upto(m, g)
    BY <1>2
  <2> DEFINE h == [k \in 0..m + 1 |-> IF k = m + 1 THEN F[m + 1][g[m]] ELSE g[k]]
  <2>2. m \in Nat /\ m + 1 \in 1..n /\ m + 1 \in 0..n /\ m \in 0..m
    BY <1>2
  <2>3. F[m + 1][g[m]] \in T
    BY <2>1, <2>2
  <2>4. \A k \in 0..m : g[k] \in T
    BY <2>1
  <2>5. h \in [0..m + 1 -> T]
    BY <2>2, <2>3, <2>4
  <2>6. h[0] = x
    BY <2>1, <2>2
  <2>7. ASSUME NEW k \in 1..m + 1 PROVE h[k] = F[k][h[k - 1]]
    <3>1. CASE k = m + 1
      BY <2>2, <3>1
    <3>2. CASE k # m + 1
      <4>1. k \in 1..m /\ k \in 0..m + 1 /\ k - 1 \in 0..m + 1 /\ k - 1 # m + 1
        BY <2>2, <3>2
      <4> QED
        BY <2>1, <3>2, <4>1
    <3> QED
      BY <3>1, <3>2
  <2> QED
    BY <2>2, <2>5, <2>6, <2>7
<1>3. n \in P
  <2> HIDE DEF P
  <2>1. \A k \in 0..n : k \in P
    BY <1>1, <1>2, UpTo
  <2> QED
    BY <2>1
<1> QED
  BY <1>3 DEF Orbit

-----------------------------------------------------------------------------
(* A set of naturals with a bound has a maximum.                           *)
LEMMA Highest ==
    ASSUME NEW S, S \subseteq Nat, S # {}, NEW b \in Nat, \A x \in S : x <= b
    PROVE  Max(S) \in S /\ \A x \in S : x <= Max(S)
<1> DEFINE T == {b - x : x \in S}
<1>1. T # {} /\ T \subseteq Nat
  <2>1. \A x \in S : x \in Nat /\ x <= b /\ b - x \in Nat
    OBVIOUS
  <2> QED
    BY <2>1
<1>2. PICK d \in T : \A e \in T : d <= e
  BY <1>1, Least
<1>3. PICK m \in S : d = b - m
  OBVIOUS
<1>4. ASSUME NEW x \in S PROVE m >= x
  <2>1. b - x \in T /\ d <= b - x
    BY <1>2
  <2> QED
    BY <1>3, <2>1
<1>5. \E x \in S : \A y \in S : x >= y
  BY <1>4
<1>6. Max(S) \in S /\ \A y \in S : Max(S) >= y
  BY <1>5 DEF Max
<1> QED
  BY <1>6

LEMMA MaxUpTo ==
    ASSUME NEW n \in Nat, NEW s \in SUBSET (1..n), s # {}
    PROVE  Max(s) \in s /\ Max(s) \in 1..n /\ \A x \in s : x <= Max(s)
<1>1. s \subseteq Nat /\ \A x \in s : x <= n
  OBVIOUS
<1> QED
  BY <1>1, Highest

(* The folds of the library recurse over the set of the indices that are   *)
(* left, from the largest down; there is a function that does.             *)
Unfolds(n, x, F, g) ==
    \A s \in SUBSET (1..n) : g[s] = IF s = {} THEN x ELSE F[Max(s)][g[s \ {Max(s)}]]

LEMMA SubsetRecursion ==
    ASSUME NEW n \in Nat, NEW T, NEW x \in T, NEW F \in Steps(n, T)
    PROVE  \E g \in [SUBSET (1..n) -> T] : Unfolds(n, x, F, g)
<1> DEFINE D == SUBSET (1..n)
           U == [D -> T]
           start == [s \in D |-> x]
           Again(g) == [s \in D |-> IF s = {} THEN x ELSE F[Max(s)][g[s \ {Max(s)}]]]
           G == [k \in 1..n |-> [g \in U |-> Again(g)]]
<1>1. \A m \in 1..n : F[m] \in [T -> T]
  BY DEF Steps
<1>2. ASSUME NEW g \in U PROVE Again(g) \in U
  <2>1. ASSUME NEW s \in D, s # {} PROVE F[Max(s)][g[s \ {Max(s)}]] \in T
    <3>1. Max(s) \in 1..n /\ s \ {Max(s)} \in D
      BY <2>1, MaxUpTo
    <3> QED
      BY <1>1, <3>1
  <2> QED
    BY <2>1
<1>3. start \in U
  OBVIOUS
<1>4. G \in Steps(n, U)
  BY <1>2 DEF Steps
<1>5. PICK h : Orbit(n, U, start, G, h)
  <2> HIDE DEF U, start, G
  <2> QED
    BY <1>3, <1>4, Iterates
<1>6. /\ h[0] = start
      /\ \A k \in 0..n : h[k] \in U
      /\ \A k \in 1..n : h[k] = Again(h[k - 1])
  <2>1. h[0] = start /\ h \in [0..n -> U] /\ \A k \in 1..n : h[k] = G[k][h[k - 1]]
    <3> HIDE DEF U, start, G
    <3> QED
      BY <1>5 DEF Orbit
  <2>2. \A k \in 1..n : k - 1 \in 0..n
    OBVIOUS
  <2>3. \A k \in 0..n : h[k] \in U
    <3> HIDE DEF U
    <3> QED
      BY <2>1
  <2>4. \A k \in 1..n : G[k][h[k - 1]] = Again(h[k - 1])
    <3> HIDE DEF U, Again
    <3> QED
      BY <2>2, <2>3
  <2> QED
    BY <2>1, <2>3, <2>4
<1> HIDE DEF G, start
<1>7. \A k \in 1..n, s \in D : s # {} =>
        h[k][s] = F[Max(s)][h[k - 1][s \ {Max(s)}]]
  <2>1. \A g : \A s \in D : s # {} => Again(g)[s] = F[Max(s)][g[s \ {Max(s)}]]
    OBVIOUS
  <2> HIDE DEF Again, D
  <2>2. ASSUME NEW k \in 1..n, NEW s \in D, s # {}
        PROVE  h[k][s] = F[Max(s)][h[k - 1][s \ {Max(s)}]]
    <3>1. h[k] = Again(h[k - 1])
      BY <1>6
    <3>2. Again(h[k - 1])[s] = F[Max(s)][h[k - 1][s \ {Max(s)}]]
      BY <2>1, <2>2, Zenon
    <3> QED
      BY <3>1, <3>2, Zenon
  <2> QED
    BY <2>2, Zenon
<1>8. \A k \in 0..n : h[k][{}] = x
  <2>1. {} \in D
    OBVIOUS
  <2>2. h[0][{}] = x
    BY <1>6, <2>1 DEF start
  <2>3. \A g : Again(g)[{}] = x
    BY <2>1
  <2>4. \A k \in 1..n : h[k][{}] = x
    <3> HIDE DEF Again
    <3> QED
      BY <1>6, <2>3
  <2> QED
    BY <2>2, <2>4
<1> HIDE DEF Again
<1> DEFINE Stable == {m \in 0..n : \A s \in SUBSET (1..m), k \in m..n : h[k][s] = h[n][s]}
<1>9. 0 \in Stable
  <2>1. ASSUME NEW s \in SUBSET (1..0) PROVE s = {}
    <3>1. 1..0 = {}
      OBVIOUS
    <3> QED
      BY <3>1
  <2>2. \A s \in SUBSET (1..0), k \in 0..n : h[k][s] = x
    BY <1>8, <2>1
  <2>3. 0 \in 0..n /\ n \in 0..n
    OBVIOUS
  <2> QED
    BY <2>2, <2>3
<1>10. ASSUME NEW m \in 0..n, m \in Stable, m < n PROVE m + 1 \in Stable
  <2>1. ASSUME NEW s \in SUBSET (1..m + 1), NEW k \in m + 1..n PROVE h[k][s] = h[n][s]
    <3>1. CASE s = {}
      BY <1>8, <3>1
    <3>2. CASE s # {}
      <4> DEFINE top == Max(s)
                 rest == s \ {top}
      <4>1. top \in s /\ \A y \in s : y <= top
        BY <3>2, MaxUpTo
      <4>2. rest \in SUBSET (1..m)
        <5>1. ASSUME NEW y \in rest PROVE y \in 1..m
          <6>1. y \in 1..m + 1 /\ top \in 1..m + 1 /\ y # top /\ y <= top
            BY <4>1
          <6> HIDE DEF top, rest
          <6> QED
            BY <6>1
        <5> QED
          BY <5>1
      <4>3. s \in D /\ k \in 1..n /\ n \in 1..n /\ k - 1 \in m..n /\ n - 1 \in m..n
        BY <1>10
      <4>4. h[k][s] = F[top][h[k - 1][rest]] /\ h[n][s] = F[top][h[n - 1][rest]]
        BY <1>7, <3>2, <4>3
      <4>5. h[k - 1][rest] = h[n][rest] /\ h[n - 1][rest] = h[n][rest]
        BY <1>10, <4>2, <4>3
      <4> QED
        BY <4>4, <4>5
    <3> QED
      BY <3>1, <3>2
  <2>2. m + 1 \in 0..n
    BY <1>10
  <2> QED
    BY <2>1, <2>2
<1>11. ASSUME NEW s \in D, s # {} PROVE h[n][s] = F[Max(s)][h[n][s \ {Max(s)}]]
  <2>1. Max(s) \in s /\ (\A y \in s : y <= Max(s)) /\ n \in 1..n
    BY <1>11, MaxUpTo
  <2> DEFINE rest == s \ {Max(s)}
  <2>2. rest \in SUBSET (1..n - 1) /\ n - 1 \in 0..n /\ n - 1 \in n - 1..n
    <3>1. ASSUME NEW y \in rest PROVE y \in 1..n - 1
      <4>1. y \in 1..n /\ Max(s) \in 1..n /\ y # Max(s) /\ y <= Max(s)
        BY <2>1
      <4> QED
        BY <4>1
    <3>2. n - 1 \in 0..n /\ n - 1 \in n - 1..n
      BY <2>1
    <3> HIDE DEF rest
    <3> QED
      BY <3>1, <3>2
  <2>3. n - 1 \in Stable
    <3> HIDE DEF Stable
    <3>1. \A k \in 0..n : k \in Stable
      BY <1>9, <1>10, UpTo
    <3> QED
      BY <2>2, <3>1
  <2>4. h[n - 1][rest] = h[n][rest]
    BY <2>2, <2>3
  <2> QED
    BY <1>7, <1>11, <2>1, <2>4
<1>12. h[n] \in [SUBSET (1..n) -> T]
  <2>1. n \in 0..n
    OBVIOUS
  <2> QED
    BY <1>6, <2>1
<1>13. Unfolds(n, x, F, h[n])
  <2>1. n \in 0..n
    OBVIOUS
  <2> QED
    BY <1>8, <1>11, <2>1 DEF Unfolds
<1> QED
  BY <1>12, <1>13

(* What a fold computes, one element after the other.                      *)
UnfoldsIn(n, T, x, F, iter) ==
    /\ iter[{}] = x
    /\ \A s \in SUBSET (1..n) : s # {} /\ iter[s \ {Max(s)}] \in T =>
           iter[s] = F[Max(s)][iter[s \ {Max(s)}]]
LEMMA FoldChain ==
    ASSUME NEW n \in Nat, NEW T, NEW x \in T, NEW F \in Steps(n, T), NEW iter,
           UnfoldsIn(n, T, x, F, iter)
    PROVE  /\ iter[1..0] = x
           /\ \A k \in 0..n : iter[1..k] \in T
           /\ \A k \in 1..n : iter[1..k] = F[k][iter[1..k - 1]]
<1> USE DEF UnfoldsIn
<1> DEFINE Q == {k \in 0..n : iter[1..k] \in T}
<1>1. iter[1..0] = x
  <2>1. 1..0 = {}
    OBVIOUS
  <2> QED
    BY <2>1
<1>2. ASSUME NEW k \in 1..n
      PROVE  /\ 1..k \in SUBSET (1..n) /\ 1..k # {}
             /\ Max(1..k) = k /\ (1..k) \ {k} = 1..k - 1
  <2>1. 1..k \in SUBSET (1..n) /\ 1..k # {} /\ k \in 1..k
    OBVIOUS
  <2>2. Max(1..k) \in 1..k /\ k <= Max(1..k)
    BY <2>1, MaxUpTo
  <2>3. Max(1..k) = k
    BY <2>2
  <2>4. (1..k) \ {k} = 1..k - 1
    OBVIOUS
  <2> QED
    BY <2>1, <2>3, <2>4
<1>3. ASSUME NEW k \in 1..n, iter[1..k - 1] \in T
      PROVE  iter[1..k] = F[k][iter[1..k - 1]]
  BY <1>2, <1>3
<1>4. \A k \in 1..n : F[k] \in [T -> T]
  BY DEF Steps
<1>5. 0 \in Q
  BY <1>1
<1>6. ASSUME NEW k \in 0..n, k \in Q, k < n PROVE k + 1 \in Q
  <2>1. k + 1 \in 1..n /\ k + 1 \in 0..n /\ (k + 1) - 1 = k
    BY <1>6
  <2>2. iter[1..k] \in T
    BY <1>6
  <2>3. iter[1..k + 1] = F[k + 1][iter[1..k]]
    BY <1>3, <2>1, <2>2
  <2> QED
    BY <1>4, <2>1, <2>2, <2>3
<1>7. \A k \in 0..n : iter[1..k] \in T
  <2>1. \A k \in 0..n : k \in Q
    <3> HIDE DEF Q
    <3> QED
      BY <1>5, <1>6, UpTo
  <2> QED
    BY <2>1
<1>8. \A k \in 1..n : k - 1 \in 0..n
  OBVIOUS
<1> QED
  BY <1>1, <1>3, <1>7, <1>8
=============================================================================
