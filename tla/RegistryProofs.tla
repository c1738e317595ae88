--------------------------- MODULE RegistryProofs ---------------------------
(***************************************************************************)
(* Theorems about Registry, for every library, limit, set of requests and  *)
(* set of programs, however long the history.                              *)
(***************************************************************************)
EXTENDS Registry, Recursion, SequenceTheorems

Entries == [name : Names, fn : Functions, f64 : Functions \cup {Nothing},
            kind : Kinds, ctx : Pointers]
Tables == {t \in Seq(Entries) : Len(t) <= MaxBuiltins /\ Distinct(t)}

-----------------------------------------------------------------------------
(* Finding and writing an entry.                                           *)

(* A name that is not found is not there, and one that is found is.        *)
LEMMA Found ==
    ASSUME NEW S, NEW t \in Seq(S), NEW name
    PROVE  LET i == Lookup(t, name)
           IN  \/ i = 0 /\ \A j \in DOMAIN t : t[j].name # name
               \/ i \in DOMAIN t /\ i # 0 /\ t[i].name = name
<1> DEFINE at == {k \in 1..Len(t) : t[k].name = name}
<1>1. CASE at = {}
  <2>1. Lookup(t, name) = 0
    BY <1>1 DEF Lookup
  <2> QED
    BY <1>1, <2>1
<1>2. CASE at # {}
  <2>1. at \subseteq Nat
    OBVIOUS
  <2>2. Lookup(t, name) = CHOOSE k \in at : \A j \in at : k <= j
    BY <1>2 DEF Lookup
  <2> HIDE DEF at
  <2>4. \E k \in at : \A j \in at : k <= j
    BY <1>2, <2>1, Least
  <2>3. Lookup(t, name) \in at
    BY <2>2, <2>4
  <2> QED
    BY <2>3 DEF at
<1> QED
  BY <1>1, <1>2

(* The table u is t with the entry e at the index at, or t if that is 0;   *)
(* an index one past the end is a new entry.                               *)
Wrote(t, u, at, e) ==
    IF at = 0 THEN u = t
    ELSE /\ u \in Seq(Entries) /\ Len(u) >= Len(t)
         /\ DOMAIN u = DOMAIN t \cup {at} /\ u[at] = e
         /\ \A i \in DOMAIN t : i # at => u[i] = t[i]

(* The entry a registration writes over.                                   *)
Old(t, name, fn) ==
    IF RegisterAt(t, name) \in DOMAIN t THEN t[RegisterAt(t, name)] ELSE Entry(name, fn)

(* Where a registration writes.                                            *)
LEMMA WhereAt ==
    ASSUME NEW t \in Tables, NEW name
    PROVE  LET at == RegisterAt(t, name)
           IN  \/ at = 0 /\ Len(t) = MaxBuiltins
               \/ at \in DOMAIN t /\ at # 0 /\ t[at].name = name /\ Len(t) < MaxBuiltins
               \/ /\ at = Len(t) + 1 /\ at \notin DOMAIN t /\ at # 0 /\ Len(t) < MaxBuiltins
                  /\ \A j \in DOMAIN t : t[j].name # name
<1>1. t \in Seq(Entries) /\ Len(t) <= MaxBuiltins /\ Len(t) \in Nat /\ DOMAIN t = 1..Len(t)
  BY DEF Tables
<1>2. \/ Lookup(t, name) = 0 /\ \A j \in DOMAIN t : t[j].name # name
      \/ Lookup(t, name) \in DOMAIN t /\ Lookup(t, name) # 0 /\ t[Lookup(t, name)].name = name
  BY <1>1, Found
<1> QED
  <2>1. CASE Len(t) >= MaxBuiltins
    <3>1. RegisterAt(t, name) = 0
      BY <2>1 DEF RegisterAt
    <3>2. Len(t) = MaxBuiltins
      <4>1. \A a, b \in Nat : a <= b /\ a >= b => a = b
        OBVIOUS
      <4> QED
        BY <1>1, <2>1, <4>1, LimitsAssumption
    <3> QED
      BY <3>1, <3>2
  <2>2. CASE ~(Len(t) >= MaxBuiltins) /\ Lookup(t, name) = 0
    <3>1. Len(t) < MaxBuiltins /\ RegisterAt(t, name) = Len(t) + 1
      BY <1>1, <2>2, LimitsAssumption DEF RegisterAt
    <3> QED
      BY <1>1, <1>2, <2>2, <3>1
  <2>3. CASE ~(Len(t) >= MaxBuiltins) /\ Lookup(t, name) # 0
    <3>1. Len(t) < MaxBuiltins /\ RegisterAt(t, name) = Lookup(t, name)
      BY <1>1, <2>3, LimitsAssumption DEF RegisterAt
    <3> QED
      BY <1>1, <1>2, <2>3, <3>1
  <2> QED
    BY <2>1, <2>2, <2>3

LEMMA TableShape ==
    ASSUME NEW t \in Tables
    PROVE  t \in Seq(Entries) /\ Len(t) <= MaxBuiltins /\ Len(t) \in Nat
           /\ DOMAIN t = 1..Len(t) /\ Distinct(t) /\ \A i \in DOMAIN t : t[i] \in Entries
<1>1. t \in Seq(Entries) /\ Len(t) <= MaxBuiltins /\ Distinct(t)
  BY DEF Tables
<1> QED
  BY <1>1

(* The table stays a table, its entries keep their places and names.       *)
LEMMA WroteKeeps ==
    ASSUME NEW t \in Tables, NEW name, NEW e \in Entries, e.name = name,
           NEW u, Wrote(t, u, RegisterAt(t, name), e)
    PROVE  /\ u \in Tables
           /\ Len(t) <= Len(u) /\ DOMAIN t \subseteq DOMAIN u
           /\ \A i \in DOMAIN t : u[i].name = t[i].name
<1>1. t \in Seq(Entries) /\ Len(t) <= MaxBuiltins /\ Len(t) \in Nat /\ DOMAIN t = 1..Len(t)
      /\ Distinct(t)
  BY TableShape
<1> DEFINE at == RegisterAt(t, name)
<1>2. Wrote(t, u, at, e)
  OBVIOUS
<1>3. CASE at = 0
  BY <1>1, <1>2, <1>3 DEF Wrote
<1>4. CASE at \in DOMAIN t /\ at # 0 /\ t[at].name = name /\ Len(t) < MaxBuiltins
  <2>1. /\ u \in Seq(Entries) /\ DOMAIN u = DOMAIN t /\ Len(u) >= Len(t) /\ u[at] = e
        /\ \A i \in DOMAIN t : i # at => u[i] = t[i]
    BY <1>2, <1>4 DEF Wrote
  <2>2. \A i \in DOMAIN t : u[i].name = t[i].name
    BY <1>4, <2>1
  <2>3. Distinct(u)
    BY <1>1, <2>1, <2>2 DEF Distinct
  <2>4. Len(u) = Len(t)
    BY <1>1, <2>1
  <2> QED
    BY <1>1, <2>1, <2>2, <2>3, <2>4 DEF Tables
<1>5. CASE at = Len(t) + 1 /\ at \notin DOMAIN t /\ at # 0 /\ Len(t) < MaxBuiltins
           /\ \A j \in DOMAIN t : t[j].name # name
  <2>1. /\ u \in Seq(Entries) /\ DOMAIN u = DOMAIN t \cup {at} /\ Len(u) >= Len(t) /\ u[at] = e
        /\ \A i \in DOMAIN t : i # at => u[i] = t[i]
    BY <1>2, <1>5 DEF Wrote
  <2>2. \A i \in DOMAIN t : u[i] = t[i]
    BY <1>5, <2>1
  <2>3. Distinct(u)
    BY <1>1, <1>5, <2>1, <2>2 DEF Distinct
  <2>4. DOMAIN u = 1..Len(u) /\ Len(u) \in Nat
    BY <2>1
  <2>5. Len(u) = Len(t) + 1
    BY <1>1, <1>5, <2>1, <2>4
  <2> QED
    BY <1>1, <1>5, <2>1, <2>2, <2>3, <2>5, LimitsAssumption DEF Tables
<1> QED
  BY <1>3, <1>4, <1>5, WhereAt

(* Writing the same entry over once more.                                  *)
LEMMA WroteAgain ==
    ASSUME NEW t \in Tables, NEW u, NEW at, NEW e, NEW f \in Entries,
           at # 0, Wrote(t, u, at, e)
    PROVE  Wrote(t, [u EXCEPT ![at] = f], at, f)
<1>1. /\ u \in Seq(Entries) /\ Len(u) >= Len(t) /\ DOMAIN u = DOMAIN t \cup {at}
      /\ \A i \in DOMAIN t : i # at => u[i] = t[i]
  BY DEF Wrote
<1> DEFINE w == [u EXCEPT ![at] = f]
<1>2. w \in Seq(Entries) /\ Len(w) = Len(u) /\ DOMAIN w = DOMAIN u
  <2>1. at \in 1..Len(u)
    <3>1. DOMAIN u = 1..Len(u)
      BY <1>1
    <3> QED
      BY <1>1, <3>1
  <2> QED
    BY <1>1, <2>1, ExceptSeq
<1>3. w[at] = f /\ \A i \in DOMAIN u : i # at => w[i] = u[i]
  BY <1>1
<1> HIDE DEF w
<1>4. Wrote(t, w, at, f)
  BY <1>1, <1>2, <1>3 DEF Wrote
<1> QED
  BY <1>4 DEF w

-----------------------------------------------------------------------------
(* What each way to register leaves in the entry.                          *)

(* What is written over an entry that is, or stands for, e.                *)
After(r, e) ==
    IF r.api = "plain" THEN [e EXCEPT !.fn = r.fn]
    ELSE IF r.api = "ex" THEN [e EXCEPT !.fn = r.fn, !.kind = r.fn.kind]
    ELSE IF r.api = "unary" THEN [e EXCEPT !.fn = r.fn, !.kind = "unary", !.f64 = r.f64]
    ELSE [e EXCEPT !.fn = r.fn, !.kind = "spectral", !.f64 = r.f64, !.ctx = r.fn.ctx]

LEMMA OldEntry ==
    ASSUME NEW t \in Tables, NEW name \in Names, NEW fn \in Functions
    PROVE  /\ Old(t, name, fn) \in Entries /\ Old(t, name, fn).name = name
           /\ RegisterAt(t, name) \in DOMAIN t => Old(t, name, fn) = t[RegisterAt(t, name)]
           /\ RegisterAt(t, name) \notin DOMAIN t => Old(t, name, fn) = Entry(name, fn)
<1>2. Entry(name, fn) \in Entries /\ Entry(name, fn).name = name
  <2>1. "unary" \in Kinds /\ "null" \in Pointers
    BY DEF Kinds, Pointers
  <2> QED
    BY <2>1 DEF Entry, Entries
<1>3. CASE RegisterAt(t, name) \in DOMAIN t
  <2>1. t[RegisterAt(t, name)].name = name
    BY <1>3, WhereAt, TableShape
  <2> QED
    BY <1>3, <2>1, TableShape DEF Old
<1>4. CASE RegisterAt(t, name) \notin DOMAIN t
  BY <1>2, <1>4 DEF Old
<1> QED
  BY <1>3, <1>4

LEMMA RegisterWrites ==
    ASSUME NEW t \in Tables, NEW name \in Names, NEW fn \in Functions
    PROVE  /\ [Old(t, name, fn) EXCEPT !.fn = fn] \in Entries
           /\ Wrote(t, Register(t, name, fn), RegisterAt(t, name),
                    [Old(t, name, fn) EXCEPT !.fn = fn])
<1> DEFINE at == RegisterAt(t, name)
           e == [Old(t, name, fn) EXCEPT !.fn = fn]
           u == Register(t, name, fn)
<1>1. t \in Seq(Entries) /\ Len(t) \in Nat /\ DOMAIN t = 1..Len(t)
  BY TableShape
<1>2. e \in Entries
  BY OldEntry DEF Entries
<1>3. CASE at = 0
  <2>1. u = t
    BY <1>3 DEF Register
  <2> QED
    BY <1>2, <1>3, <2>1 DEF Wrote
<1>4. CASE at \in DOMAIN t /\ at # 0
  <2>1. u = [t EXCEPT ![at].fn = fn]
    BY <1>4 DEF Register
  <2>2. Old(t, name, fn) = t[at]
    BY <1>4 DEF Old
  <2>3. u = [t EXCEPT ![at] = e]
    BY <2>1, <2>2
  <2> HIDE DEF u, e, at
  <2>4. u \in Seq(Entries) /\ Len(u) = Len(t) /\ DOMAIN u = DOMAIN t
    BY <1>1, <1>2, <1>4, <2>3, ExceptSeq
  <2>5. u[at] = e /\ \A i \in DOMAIN t : i # at => u[i] = t[i]
    BY <1>1, <1>4, <2>3
  <2>6. Wrote(t, u, at, e)
    BY <1>1, <1>4, <2>4, <2>5 DEF Wrote
  <2> QED
    BY <1>2, <2>6 DEF u, e, at
<1>5. CASE at = Len(t) + 1 /\ at \notin DOMAIN t /\ at # 0
  <2>1. u = Append(t, Entry(name, fn))
    BY <1>5 DEF Register
  <2>2. Old(t, name, fn) = Entry(name, fn)
    BY <1>5 DEF Old
  <2>3. e = Entry(name, fn)
    BY <2>2 DEF Entry
  <2>4. u = Append(t, e)
    BY <2>1, <2>3
  <2> HIDE DEF u, e, at
  <2>5. u \in Seq(Entries) /\ Len(u) = Len(t) + 1 /\ u[Len(t) + 1] = e
        /\ \A i \in 1..Len(t) : u[i] = t[i]
    BY <1>1, <1>2, <2>4, AppendProperties
  <2>6. DOMAIN u = DOMAIN t \cup {at}
    BY <1>1, <1>5, <2>5
  <2>7. Wrote(t, u, at, e)
    BY <1>1, <1>5, <2>5, <2>6 DEF Wrote
  <2> QED
    BY <1>2, <2>7 DEF u, e, at
<1> QED
  BY <1>3, <1>4, <1>5, WhereAt

(* A registration that amends what chirp_register wrote.                   *)
LEMMA AmendWrites ==
    ASSUME NEW t \in Tables, NEW name \in Names, NEW fn \in Functions, NEW f \in Entries,
           RegisterAt(t, name) # 0
    PROVE  Wrote(t, [Register(t, name, fn) EXCEPT ![RegisterAt(t, name)] = f],
                 RegisterAt(t, name), f)
  BY RegisterWrites, WroteAgain

LEMMA RegisterExWrites ==
    ASSUME NEW t \in Tables, NEW name \in Names, NEW fn \in Functions, NEW kind \in Kinds
    PROVE  /\ [Old(t, name, fn) EXCEPT !.fn = fn, !.kind = kind] \in Entries
           /\ Wrote(t, RegisterEx(t, name, fn, kind), RegisterAt(t, name),
                    [Old(t, name, fn) EXCEPT !.fn = fn, !.kind = kind])
<1> DEFINE at == RegisterAt(t, name)
           o == Old(t, name, fn)
           e == [o EXCEPT !.fn = fn]
           f == [o EXCEPT !.fn = fn, !.kind = kind]
           r == Register(t, name, fn)
           u == RegisterEx(t, name, fn, kind)
<1>1. o \in Entries
  BY OldEntry
<1>2. f \in Entries /\ [e EXCEPT !.kind = kind] = f
  BY <1>1 DEF Entries
<1>3. Wrote(t, r, at, e)
  BY RegisterWrites
<1>4. u = IF at = 0 THEN r ELSE [r EXCEPT ![at].kind = kind]
  BY DEF RegisterEx
<1>5. [r EXCEPT ![at].kind = kind] = [r EXCEPT ![at] = [r[at] EXCEPT !.kind = kind]]
  OBVIOUS
<1>6. at # 0 => Wrote(t, [r EXCEPT ![at] = f], at, f)
  BY <1>2, AmendWrites
<1> HIDE DEF at, o, e, f, r, u
<1>7. Wrote(t, u, at, f)
  <2>1. CASE at = 0
    BY <1>3, <1>4, <2>1 DEF Wrote
  <2>2. CASE at # 0
    <3>1. r[at] = e
      BY <1>3, <2>2 DEF Wrote
    <3>2. u = [r EXCEPT ![at] = f]
      BY <1>2, <1>4, <1>5, <2>2, <3>1
    <3> QED
      BY <1>6, <2>2, <3>2
  <2> QED
    BY <2>1, <2>2
<1> QED
  BY <1>2, <1>7 DEF at, o, e, f, u

LEMMA AfterFields ==
    ASSUME NEW r \in RequestSet, NEW o \in Entries, o.name = r.name
    PROVE  /\ After(r, o) \in Entries
           /\ After(r, o).name = r.name /\ After(r, o).fn = r.fn
           /\ After(r, o).kind = IF r.api = "plain" THEN o.kind ELSE r.fn.kind
           /\ After(r, o).f64 = IF r.api \in {"unary", "spectral"} THEN r.f64 ELSE o.f64
           /\ After(r, o).ctx = IF r.api = "spectral" THEN r.fn.ctx ELSE o.ctx
<1> SUFFICES ASSUME NEW g, g = After(r, o)
             PROVE  /\ g \in Entries
                    /\ g.name = r.name /\ g.fn = r.fn
                    /\ g.kind = IF r.api = "plain" THEN o.kind ELSE r.fn.kind
                    /\ g.f64 = IF r.api \in {"unary", "spectral"} THEN r.f64 ELSE o.f64
                    /\ g.ctx = IF r.api = "spectral" THEN r.fn.ctx ELSE o.ctx
  OBVIOUS
<1>1. o = [name |-> o.name, fn |-> o.fn, f64 |-> o.f64, kind |-> o.kind, ctx |-> o.ctx]
  BY DEF Entries
<1>2. /\ r.name \in Names /\ r.fn \in Functions /\ r.f64 \in Functions \cup {Nothing}
      /\ r.fn.kind \in Kinds /\ r.fn.ctx \in Pointers
      /\ r.api \in {"plain", "ex", "unary", "spectral"}
      /\ r.api \in {"plain", "unary"} => r.fn.kind = "unary"
      /\ r.api = "spectral" => r.fn.kind = "spectral"
  BY DEF RequestSet, Functions
<1>3. g = [name |-> g.name, fn |-> g.fn, f64 |-> g.f64, kind |-> g.kind, ctx |-> g.ctx]
  BY <1>1 DEF After
<1>4. g.name = r.name /\ g.fn = r.fn
  BY <1>1 DEF After
<1>5. g.kind = IF r.api = "plain" THEN o.kind ELSE r.fn.kind
  BY <1>1, <1>2 DEF After
<1>6. g.f64 = IF r.api \in {"unary", "spectral"} THEN r.f64 ELSE o.f64
  BY <1>1, <1>2 DEF After
<1>7. g.ctx = IF r.api = "spectral" THEN r.fn.ctx ELSE o.ctx
  BY <1>1, <1>2 DEF After
<1>8. g \in Entries
  <2>1. g.kind \in Kinds /\ g.f64 \in Functions \cup {Nothing} /\ g.ctx \in Pointers
    BY <1>2, <1>5, <1>6, <1>7 DEF Entries
  <2> QED
    BY <1>2, <1>3, <1>4, <2>1 DEF Entries
<1> QED
  BY <1>4, <1>5, <1>6, <1>7, <1>8

LEMMA ApplyWrites ==
    ASSUME NEW t \in Tables, NEW r \in RequestSet
    PROVE  /\ After(r, Old(t, r.name, r.fn)) \in Entries
           /\ Wrote(t, Apply(t, r), RegisterAt(t, r.name), After(r, Old(t, r.name, r.fn)))
<1> DEFINE at == RegisterAt(t, r.name)
           o == Old(t, r.name, r.fn)
           e == [o EXCEPT !.fn = r.fn]
           f == After(r, o)
           v == Register(t, r.name, r.fn)
           u == Apply(t, r)
<1>1. /\ r.name \in Names /\ r.fn \in Functions /\ r.f64 \in Functions \cup {Nothing}
      /\ r.fn.kind \in Kinds /\ r.fn.ctx \in Pointers
      /\ r.api \in {"plain", "ex", "unary", "spectral"}
      /\ r.api \in {"plain", "unary"} => r.fn.kind = "unary"
      /\ r.api = "spectral" => r.fn.kind = "spectral"
  BY DEF RequestSet, Functions
<1>2. o \in Entries /\ o.name = r.name
  BY <1>1, OldEntry
<1>3. f \in Entries
  BY <1>2, AfterFields
<1>4. Wrote(t, v, at, e)
  BY <1>1, RegisterWrites
<1>5. at # 0 => Wrote(t, [v EXCEPT ![at] = f], at, f)
  BY <1>1, <1>3, AmendWrites
<1>6. at # 0 => v[at] = e
  BY <1>4 DEF Wrote
<1>7. at = 0 => v = t
  BY <1>4 DEF Wrote
<1>8. Wrote(t, u, at, f)
  <2>1. CASE r.api = "plain"
    <3>1. u = v
      BY <2>1 DEF Apply
    <3>2. f = e
      BY <2>1 DEF After
    <3> QED
      BY <1>4, <3>1, <3>2
  <2>2. CASE r.api = "ex"
    <3>1. u = RegisterEx(t, r.name, r.fn, r.fn.kind)
      BY <2>2 DEF Apply
    <3>2. f = [o EXCEPT !.fn = r.fn, !.kind = r.fn.kind]
      BY <2>2 DEF After
    <3>3. Wrote(t, RegisterEx(t, r.name, r.fn, r.fn.kind), at,
                [o EXCEPT !.fn = r.fn, !.kind = r.fn.kind])
      BY <1>1, RegisterExWrites
    <3> HIDE DEF o, u, f, at
    <3> QED
      BY <3>1, <3>2, <3>3
  <2>3. CASE r.api = "unary"
    <3>1. u = IF at = 0 THEN v ELSE [v EXCEPT ![at].kind = "unary", ![at].f64 = r.f64]
      BY <2>3 DEF Apply, RegisterUnary
    <3>2. [v EXCEPT ![at].kind = "unary", ![at].f64 = r.f64]
             = [v EXCEPT ![at] = [v[at] EXCEPT !.kind = "unary", !.f64 = r.f64]]
      OBVIOUS
    <3>3. [e EXCEPT !.kind = "unary", !.f64 = r.f64] = f
      BY <2>3 DEF After
    <3> HIDE DEF at, o, e, f, v, u
    <3> QED
      BY <1>5, <1>6, <1>7, <3>1, <3>2, <3>3 DEF Wrote
  <2>4. CASE r.api = "spectral"
    <3>1. u = IF at = 0 THEN v
              ELSE [v EXCEPT ![at].kind = "spectral", ![at].f64 = r.f64, ![at].ctx = r.fn.ctx]
      BY <2>4 DEF Apply, RegisterSpectralEx
    <3>2. [v EXCEPT ![at].kind = "spectral", ![at].f64 = r.f64, ![at].ctx = r.fn.ctx]
             = [v EXCEPT ![at] =
                   [v[at] EXCEPT !.kind = "spectral", !.f64 = r.f64, !.ctx = r.fn.ctx]]
      OBVIOUS
    <3>3. [e EXCEPT !.kind = "spectral", !.f64 = r.f64, !.ctx = r.fn.ctx] = f
      BY <1>1, <2>4 DEF After
    <3> HIDE DEF at, o, e, f, v, u
    <3> QED
      BY <1>5, <1>6, <1>7, <3>1, <3>2, <3>3 DEF Wrote
  <2> QED
    BY <1>1, <2>1, <2>2, <2>3, <2>4
<1> QED
  BY <1>3, <1>8

(* A request keeps a table a table, and the entries their places.          *)
LEMMA ApplyKeeps ==
    ASSUME NEW t \in Tables, NEW r \in RequestSet
    PROVE  /\ Apply(t, r) \in Tables
           /\ Len(t) <= Len(Apply(t, r)) /\ DOMAIN t \subseteq DOMAIN Apply(t, r)
           /\ \A i \in DOMAIN t : Apply(t, r)[i].name = t[i].name
<1>1. r.name \in Names /\ r.fn \in Functions
  BY DEF RequestSet
<1>2. Old(t, r.name, r.fn) \in Entries /\ Old(t, r.name, r.fn).name = r.name
  BY <1>1, OldEntry
<1>3. After(r, Old(t, r.name, r.fn)).name = r.name
  BY <1>2, AfterFields
<1>4. /\ After(r, Old(t, r.name, r.fn)) \in Entries
      /\ Wrote(t, Apply(t, r), RegisterAt(t, r.name), After(r, Old(t, r.name, r.fn)))
  BY ApplyWrites
<1> HIDE DEF Old, After
<1> QED
  BY <1>3, <1>4, WroteKeeps

LEMMA RegisterExKeeps ==
    ASSUME NEW t \in Tables, NEW name \in Names, NEW fn \in Functions, NEW kind \in Kinds
    PROVE  LET u == RegisterEx(t, name, fn, kind)
           IN  /\ u \in Tables
               /\ Len(t) <= Len(u) /\ DOMAIN t \subseteq DOMAIN u
               /\ \A i \in DOMAIN t : u[i].name = t[i].name
<1> DEFINE e == [Old(t, name, fn) EXCEPT !.fn = fn, !.kind = kind]
<1>1. e \in Entries /\ Wrote(t, RegisterEx(t, name, fn, kind), RegisterAt(t, name), e)
  BY RegisterExWrites
<1>2. e.name = name
  BY OldEntry DEF Entries
<1> HIDE DEF e
<1> QED
  BY <1>1, <1>2, WroteKeeps

(* The names an alias gets: stripped, and bare for float.                  *)
Stripped(name) == [name EXCEPT !.full = FALSE]
BareOf(name) == [name EXCEPT !.full = FALSE, !.prec = ""]

LEMMA AliasNames ==
    ASSUME NEW t, NEW e \in Entries
    PROVE  /\ Stripped(e.name) \in Names /\ BareOf(e.name) \in Names
           /\ Stripped(e.name).stem = e.name.stem /\ BareOf(e.name).stem = e.name.stem
           /\ ~Stripped(e.name).full /\ ~BareOf(e.name).full
           /\ Stripped(e.name).prec = e.name.prec /\ BareOf(e.name).prec = ""
           /\ e.fn \in Functions /\ e.kind \in Kinds /\ e.name \in Names
           /\ AliasEntry(t, e) = LET r == RegisterEx(t, Stripped(e.name), e.fn, e.kind)
                                 IN  IF e.name.prec = "f32"
                                     THEN RegisterEx(r, BareOf(e.name), e.fn, e.kind) ELSE r
<1>1. e.name \in Names
  BY DEF Entries
<1>2. [[e.name EXCEPT !.full = FALSE] EXCEPT !.prec = ""]
         = [e.name EXCEPT !.full = FALSE, !.prec = ""]
  OBVIOUS
<1> QED
  BY <1>1, <1>2 DEF Entries, Names, AliasEntry, Stripped, BareOf

LEMMA AliasKeeps ==
    ASSUME NEW t \in Tables, NEW e \in Entries
    PROVE  /\ AliasEntry(t, e) \in Tables
           /\ Len(t) <= Len(AliasEntry(t, e)) /\ DOMAIN t \subseteq DOMAIN AliasEntry(t, e)
           /\ \A i \in DOMAIN t : AliasEntry(t, e)[i].name = t[i].name
<1> DEFINE r == RegisterEx(t, Stripped(e.name), e.fn, e.kind)
           q == RegisterEx(r, BareOf(e.name), e.fn, e.kind)
<1>1. /\ r \in Tables /\ Len(t) <= Len(r) /\ DOMAIN t \subseteq DOMAIN r
      /\ \A i \in DOMAIN t : r[i].name = t[i].name
  BY AliasNames, RegisterExKeeps
<1> HIDE DEF r
<1>2. /\ q \in Tables /\ Len(r) <= Len(q) /\ DOMAIN r \subseteq DOMAIN q
      /\ \A i \in DOMAIN r : q[i].name = r[i].name
  BY <1>1, AliasNames, RegisterExKeeps
<1>3. AliasEntry(t, e) = IF e.name.prec = "f32" THEN q ELSE r
  BY AliasNames DEF r
<1> HIDE DEF q
<1>4. Len(t) \in Nat /\ Len(r) \in Nat /\ Len(q) \in Nat
  BY <1>1, <1>2, TableShape
<1>5. CASE e.name.prec = "f32"
  <2>1. Len(t) <= Len(q)
    BY <1>1, <1>2, <1>4
  <2> QED
    BY <1>1, <1>2, <1>3, <1>5, <2>1
<1>6. CASE e.name.prec # "f32"
  BY <1>1, <1>3, <1>6
<1> QED
  BY <1>5, <1>6

-----------------------------------------------------------------------------
(* The standard registration, request by request and entry by entry.       *)

LEMMA StandardTyped ==
    /\ Len(StandardRequests) = 2 * Len(Standard) /\ Len(StandardRequests) \in Nat
    /\ DOMAIN StandardRequests = 1..Len(StandardRequests)
    /\ \A k \in DOMAIN StandardRequests :
           LET r == StandardRequests[k]
               j == (k + 1) \div 2
           IN  /\ r \in RequestSet /\ j \in DOMAIN Standard
               /\ r.name.full /\ r.api \in {"plain", "ex"} /\ r.f64 = Nothing
               /\ r.name.stem = Standard[j].stem
               /\ r.name.prec = IF k % 2 = 1 THEN "f32" ELSE "f64"
<1> DEFINE n == Len(Standard)
<1>1. n \in Nat /\ DOMAIN Standard = 1..n
      /\ \A j \in 1..n : Standard[j] \in [stem : STRING, kind : {"unary", "other"}]
  <2> DEFINE S == [stem : STRING, kind : {"unary", "other"}]
  <2>1. Standard \in Seq(S)
    BY StandardAssumption
  <2> HIDE DEF S
  <2>2. Len(Standard) \in Nat /\ DOMAIN Standard = 1..Len(Standard)
        /\ \A j \in 1..Len(Standard) : Standard[j] \in S
    BY <2>1
  <2> QED
    BY <2>2 DEF S
<1>2. DOMAIN StandardRequests = 1..2 * n /\ Len(StandardRequests) = 2 * n
  BY <1>1 DEF StandardRequests
<1>3. ASSUME NEW k \in 1..2 * n
      PROVE  /\ (k + 1) \div 2 \in 1..n
             /\ StandardRequests[k] = StandardRequest(Standard[(k + 1) \div 2],
                                                     IF k % 2 = 1 THEN "f32" ELSE "f64")
  BY <1>1 DEF StandardRequests
<1>4. ASSUME NEW f \in [stem : STRING, kind : {"unary", "other"}], NEW p \in Precisions
      PROVE  LET r == StandardRequest(f, p)
             IN  /\ r \in RequestSet
                 /\ r.name.full /\ r.api \in {"plain", "ex"} /\ r.f64 = Nothing
                 /\ r.name.stem = f.stem /\ r.name.prec = p
  <2>1. /\ f.stem \in STRING /\ f.kind \in {"unary", "other"} /\ f.kind \in Kinds
        /\ p \in {"f32", "f64"} /\ "null" \in Pointers
    BY <1>4 DEF Kinds, Precisions, Pointers
  <2>2. Name(f.stem, TRUE, p) \in Names
    BY <2>1 DEF Name, Names, Precisions
  <2>3. Function("library", f.stem, p, f.kind, "null") \in Functions
    BY <2>1 DEF Function, Functions, Precisions
  <2> QED
    BY <2>1, <2>2, <2>3 DEF StandardRequest, Request, RequestSet, Name, Function
<1> HIDE DEF n
<1>5. \A k \in 1..2 * n : (IF k % 2 = 1 THEN "f32" ELSE "f64") \in Precisions
  BY DEF Precisions
<1> QED
  BY <1>1, <1>2, <1>3, <1>4, <1>5 DEF n

(* Registering the standard builtins is a walk through tables, of a set    *)
(* that no request leaves.                                                 *)
LEMMA StandardWalk ==
    ASSUME NEW T, NEW t \in T,
           \A u \in T : \A k \in DOMAIN StandardRequests : Apply(u, StandardRequests[k]) \in T
    PROVE  \E g \in [0..Len(StandardRequests) -> T] :
              /\ g[0] = t
              /\ \A k \in DOMAIN StandardRequests : g[k] = Apply(g[k - 1], StandardRequests[k])
              /\ ApplyStandard(t) = g[Len(StandardRequests)]
<1> DEFINE rs == StandardRequests
           n == Len(rs)
           Step(g, k) == IF k = 0 THEN t ELSE Apply(g[k - 1], rs[k])
           Walk(g) == g = [k \in 0..n |-> Step(g, k)]
           after == CHOOSE g : Walk(g)
           F == [k \in 1..n |-> [u \in T |-> Apply(u, rs[k])]]
<1>1. n \in Nat /\ DOMAIN rs = 1..n
  BY StandardTyped
<1>2. F \in [1..n -> [T -> T]]
  BY <1>1
<1>3. \A k \in 1..n : \A u \in T : F[k][u] = Apply(u, rs[k])
  OBVIOUS
<1>4. ApplyStandard(t) = after[n]
  BY DEF ApplyStandard
<1> HIDE DEF F
<1>5. PICK h : Orbit(n, T, t, F, h)
  <2>1. n \in Nat /\ F \in Steps(n, T)
    BY <1>1, <1>2 DEF Steps
  <2> HIDE DEF n, rs
  <2> QED
    BY <2>1, Iterates
<1>6. h \in [0..n -> T] /\ h[0] = t /\ \A k \in 1..n : h[k] = F[k][h[k - 1]]
  BY <1>5 DEF Orbit
<1>7. Walk(h)
  <2>1. ASSUME NEW k \in 0..n PROVE h[k] = Step(h, k)
    <3>1. CASE k = 0
      BY <1>6, <3>1
    <3>2. CASE k # 0
      <4>1. k \in 1..n /\ k - 1 \in 0..n
        BY <1>1, <3>2
      <4>2. h[k - 1] \in T
        BY <1>6, <4>1
      <4> QED
        BY <1>3, <1>6, <3>2, <4>1, <4>2
    <3> QED
      BY <3>1, <3>2
  <2> HIDE DEF Step
  <2> QED
    BY <1>6, <2>1
<1> HIDE DEF Step
<1>8. Walk(after)
  BY <1>7
<1> HIDE DEF after
<1>9. after[0] = t /\ \A k \in 1..n : after[k] = Apply(after[k - 1], rs[k])
  <2>1. \A k \in 0..n : after[k] = Step(after, k)
    BY <1>8
  <2> QED
    BY <1>1, <2>1 DEF Step
<1>10. \A k \in 0..n : after[k] \in T
  <2> DEFINE P == {k \in 0..n : after[k] \in T}
  <2>1. 0 \in P
    BY <1>1, <1>9
  <2>2. ASSUME NEW k \in 0..n, k \in P, k < n PROVE k + 1 \in P
    <3>1. k + 1 \in 1..n /\ (k + 1) - 1 = k /\ k + 1 \in 0..n
      BY <1>1, <2>2
    <3>2. after[k + 1] = Apply(after[k], rs[k + 1])
      BY <1>9, <3>1
    <3> QED
      BY <1>1, <2>2, <3>1, <3>2
  <2> HIDE DEF P
  <2>3. \A k \in 0..n : k \in P
    BY <1>1, <2>1, <2>2, UpTo
  <2> QED
    BY <2>3 DEF P
<1>11. after \in [0..n -> T]
  BY <1>8, <1>10
<1> QED
  BY <1>1, <1>4, <1>9, <1>11

(* The same for the aliases.                                               *)
AliasClosed(T, t) ==
    /\ t \in T /\ Len(t) \in Nat
    /\ \A u \in T : \A k \in 1..Len(t) : t[k].name.full => AliasEntry(u, t[k]) \in T

LEMMA AliasWalk ==
    ASSUME NEW T, NEW t, AliasClosed(T, t)
    PROVE  \E g \in [0..Len(t) -> T] :
              /\ g[0] = t
              /\ \A k \in 1..Len(t) :
                    g[k] = IF t[k].name.full THEN AliasEntry(g[k - 1], t[k]) ELSE g[k - 1]
              /\ RegisterAliases(t) = g[Len(t)]
<1> DEFINE n == Len(t)
           Alias(u, k) == IF t[k].name.full THEN AliasEntry(u, t[k]) ELSE u
           Step(g, k) ==
               IF k = 0 THEN t
               ELSE IF t[k].name.full THEN AliasEntry(g[k - 1], t[k]) ELSE g[k - 1]
           Walk(g) == g = [k \in 0..n |-> Step(g, k)]
           after == CHOOSE g : Walk(g)
           F == [k \in 1..n |-> [u \in T |-> Alias(u, k)]]
<1>1. n \in Nat
  BY DEF AliasClosed
<1>2. F \in [1..n -> [T -> T]]
  BY <1>1 DEF AliasClosed
<1>3. \A k \in 1..n : \A u \in T : F[k][u] = Alias(u, k)
  OBVIOUS
<1>4. RegisterAliases(t) = after[n]
  BY DEF RegisterAliases
<1> HIDE DEF F
<1>5. PICK h : Orbit(n, T, t, F, h)
  <2>1. n \in Nat /\ F \in Steps(n, T)
    BY <1>1, <1>2 DEF Steps
  <2> HIDE DEF n
  <2>2. t \in T
    BY DEF AliasClosed
  <2> QED
    BY <2>1, <2>2, Iterates
<1>6. h \in [0..n -> T] /\ h[0] = t /\ \A k \in 1..n : h[k] = F[k][h[k - 1]]
  BY <1>5 DEF Orbit
<1>7. Walk(h)
  <2>1. ASSUME NEW k \in 0..n PROVE h[k] = Step(h, k)
    <3>1. CASE k = 0
      BY <1>6, <3>1
    <3>2. CASE k # 0
      <4>1. k \in 1..n /\ k - 1 \in 0..n
        BY <1>1, <3>2
      <4>2. h[k - 1] \in T
        BY <1>6, <4>1
      <4> QED
        BY <1>3, <1>6, <3>2, <4>1, <4>2
    <3> QED
      BY <3>1, <3>2
  <2> HIDE DEF Step
  <2> QED
    BY <1>6, <2>1
<1> HIDE DEF Step
<1>8. Walk(after)
  BY <1>7
<1> HIDE DEF after
<1>9. after[0] = t /\ \A k \in 1..n : after[k] = Alias(after[k - 1], k)
  <2>1. \A k \in 0..n : after[k] = Step(after, k)
    BY <1>8
  <2> QED
    BY <1>1, <2>1 DEF Step
<1>10. \A k \in 0..n : after[k] \in T
  <2> DEFINE P == {k \in 0..n : after[k] \in T}
  <2>1. 0 \in P
    BY <1>1, <1>9 DEF AliasClosed
  <2>2. ASSUME NEW k \in 0..n, k \in P, k < n PROVE k + 1 \in P
    <3>1. k + 1 \in 1..n /\ (k + 1) - 1 = k /\ k + 1 \in 0..n
      BY <1>1, <2>2
    <3>2. after[k + 1] = Alias(after[k], k + 1)
      BY <1>9, <3>1
    <3> QED
      BY <1>1, <2>2, <3>1, <3>2 DEF AliasClosed
  <2> HIDE DEF P
  <2>3. \A k \in 0..n : k \in P
    BY <1>1, <2>1, <2>2, UpTo
  <2> QED
    BY <2>3 DEF P
<1>11. after \in [0..n -> T]
  BY <1>8, <1>10
<1> QED
  BY <1>1, <1>4, <1>9, <1>11

LEMMA StandardKeeps ==
    ASSUME NEW t \in Tables
    PROVE  /\ ApplyStandard(t) \in Tables /\ RegisterAll(t) \in Tables
           /\ Len(t) <= Len(RegisterAll(t))
           /\ \A i \in DOMAIN t : i \in DOMAIN RegisterAll(t) /\ RegisterAll(t)[i].name = t[i].name
<1> DEFINE T == {u \in Tables : Len(t) <= Len(u)
                               /\ \A i \in DOMAIN t : i \in DOMAIN u /\ u[i].name = t[i].name}
           s == ApplyStandard(t)
<1>1. Len(t) \in Nat /\ t \in T
  BY TableShape
<1>2. ASSUME NEW u \in T, NEW k \in DOMAIN StandardRequests
      PROVE  Apply(u, StandardRequests[k]) \in T
  <2> DEFINE v == Apply(u, StandardRequests[k])
  <2>1. /\ v \in Tables /\ Len(u) <= Len(v) /\ DOMAIN u \subseteq DOMAIN v
        /\ \A i \in DOMAIN u : v[i].name = u[i].name
    BY StandardTyped, ApplyKeeps
  <2> HIDE DEF v
  <2>2. Len(t) <= Len(v)
    BY <1>1, <2>1, TableShape
  <2> QED
    BY <2>1, <2>2 DEF v
<1>3. s \in T
  <2>1. \E g \in [0..Len(StandardRequests) -> T] : s = g[Len(StandardRequests)]
    <3> HIDE DEF T, s
    <3> QED
      BY <1>1, <1>2, StandardWalk DEF s
  <2> HIDE DEF T
  <2> QED
    BY <2>1, StandardTyped
<1>4. s \in Tables /\ s \in Seq(Entries) /\ Len(s) \in Nat /\ DOMAIN s = 1..Len(s)
  BY <1>3, TableShape
<1>5. ASSUME NEW u \in T, NEW k \in 1..Len(s), s[k].name.full
      PROVE  AliasEntry(u, s[k]) \in T
  <2> DEFINE v == AliasEntry(u, s[k])
  <2>1. s[k] \in Entries
    BY <1>4, TableShape
  <2>2. /\ v \in Tables /\ Len(u) <= Len(v) /\ DOMAIN u \subseteq DOMAIN v
        /\ \A i \in DOMAIN u : v[i].name = u[i].name
    BY <2>1, AliasKeeps
  <2> HIDE DEF v
  <2>3. Len(t) <= Len(v)
    BY <1>1, <2>2, TableShape
  <2> QED
    BY <2>2, <2>3 DEF v
<1>6. AliasClosed(T, s)
  BY <1>3, <1>4, <1>5 DEF AliasClosed
<1>7. RegisterAliases(s) \in T
  <2>1. \E g \in [0..Len(s) -> T] : RegisterAliases(s) = g[Len(s)]
    BY <1>6, AliasWalk
  <2> HIDE DEF T, s
  <2> QED
    BY <1>4, <2>1
<1> QED
  BY <1>4, <1>7 DEF RegisterAll

-----------------------------------------------------------------------------
(* Vectors and tap sets.                                                   *)

LEMMA PutKeeps ==
    ASSUME NEW S, NEW t \in Seq(S), NEW e \in S, NEW limit \in Nat,
           Len(t) <= limit, Distinct(t)
    PROVE  Put(t, limit, e) \in Seq(S) /\ Len(Put(t, limit, e)) <= limit
           /\ Distinct(Put(t, limit, e))
<1> DEFINE i == Lookup(t, e.name)
           u == Put(t, limit, e)
<1>1. \/ i = 0 /\ \A j \in DOMAIN t : t[j].name # e.name
      \/ i \in DOMAIN t /\ i # 0 /\ t[i].name = e.name
  BY Found
<1>2. CASE i # 0
  <2>1. u = [t EXCEPT ![i] = e] /\ i \in 1..Len(t)
    BY <1>1, <1>2 DEF Put
  <2> HIDE DEF u, i
  <2>2. u \in Seq(S) /\ Len(u) = Len(t)
    BY <2>1, ExceptSeq
  <2>3. \A j \in DOMAIN t : u[j].name = t[j].name
    BY <1>1, <1>2, <2>1
  <2>4. DOMAIN u = DOMAIN t
    BY <2>1
  <2>5. Distinct(u)
    BY <2>3, <2>4 DEF Distinct
  <2> QED
    BY <2>2, <2>5 DEF u
<1>3. CASE i = 0 /\ Len(t) >= limit
  BY <1>3 DEF Put
<1>4. CASE i = 0 /\ ~(Len(t) >= limit)
  <2>1. u = Append(t, e)
    BY <1>4 DEF Put
  <2>2. \A j \in DOMAIN t : t[j].name # e.name
    BY <1>1, <1>4
  <2>3. Len(t) < limit
    BY <1>4
  <2> HIDE DEF u, i
  <2>4. u \in Seq(S) /\ Len(u) = Len(t) + 1 /\ u[Len(t) + 1] = e
        /\ \A j \in 1..Len(t) : u[j] = t[j]
    BY <2>1, AppendProperties
  <2>5. DOMAIN t = 1..Len(t) /\ DOMAIN u = 1..Len(t) + 1 /\ Len(t) \in Nat
    BY <2>4
  <2>6. Distinct(u)
    <3>1. SUFFICES ASSUME NEW j \in DOMAIN u, NEW k \in DOMAIN u, u[j].name = u[k].name
                   PROVE  j = k
      BY DEF Distinct
    <3>2. CASE j = Len(t) + 1 /\ k = Len(t) + 1
      BY <3>2
    <3>3. CASE j \in 1..Len(t) /\ k \in 1..Len(t)
      BY <2>4, <2>5, <3>1, <3>3 DEF Distinct
    <3>4. CASE j = Len(t) + 1 /\ k \in 1..Len(t)
      BY <2>2, <2>4, <2>5, <3>1, <3>4
    <3>5. CASE j \in 1..Len(t) /\ k = Len(t) + 1
      BY <2>2, <2>4, <2>5, <3>1, <3>5
    <3> QED
      BY <2>5, <3>2, <3>3, <3>4, <3>5
  <2> QED
    BY <2>3, <2>4, <2>5, <2>6 DEF u
<1> QED
  BY <1>2, <1>3, <1>4

Vectors == [name : STRING, buf : Buffers]
FitTaps == {ts \in TapSets : Fits(ts)}

(* What a (bind ...) makes fits, if the vectors it names do not lie.       *)
LEMMA BoundFits ==
    ASSUME vecs \in Seq(Vectors), NEW b, b.name \in STRING, Binds(b)
    PROVE  BoundTaps(b) \in FitTaps
<1> DEFINE buf(v) == vecs[VecAt(v)].buf
<1>1. ASSUME NEW v, VecAt(v) # 0 PROVE buf(v) \in Buffers
  <2>1. VecAt(v) \in DOMAIN vecs
    BY <1>1, Found DEF VecAt
  <2>2. vecs[VecAt(v)] \in Vectors
    BY <2>1
  <2> QED
    BY <2>2 DEF Vectors
<1>2. Null \in Buffers /\ Null.len = 0
  BY DEF Null, Buffer, Buffers, Pointers
<1>3. \A x \in Buffers : x.len \in Nat
  BY DEF Buffers
<1> DEFINE syn == b.hs # "" /\ b.gs # ""
           ht == IF syn THEN buf(b.hs) ELSE Null
           gt == IF syn THEN buf(b.gs) ELSE Null
           n == IF syn THEN buf(b.hs).len ELSE 0
<1>4. /\ buf(b.h) \in Buffers /\ buf(b.g) \in Buffers /\ buf(b.h).len = buf(b.g).len
      /\ ht \in Buffers /\ gt \in Buffers /\ n = ht.len
  BY <1>1, <1>2 DEF Binds
<1>5. BoundTaps(b) = TapSet(b.name, buf(b.h), buf(b.g), buf(b.h).len, ht, gt, n)
  BY DEF BoundTaps
<1> HIDE DEF ht, gt, n, syn, buf
<1>6. ASSUME NEW x \in Buffers, NEW y \in Buffers, x.len = y.len, NEW h \in Buffers,
             NEW g \in Buffers
      PROVE  TapSet(b.name, x, y, x.len, h, g, h.len) \in FitTaps
  <2>1. x.len \in Nat /\ y.len \in Nat /\ h.len \in Nat
    BY <1>3
  <2> QED
    BY <1>6, <2>1 DEF TapSet, FitTaps, TapSets, Fits
<1> QED
  BY <1>4, <1>5, <1>6

-----------------------------------------------------------------------------
(* Types, limits, one entry to a name, and tap sets that fit.              *)

TypeInv ==
    /\ table \in Tables
    /\ vecs \in Seq(Vectors) /\ Len(vecs) <= MaxVecs /\ Distinct(vecs)
    /\ taps \in Seq(FitTaps) /\ Len(taps) <= MaxTapSets /\ Distinct(taps)
    /\ library \in {"absent", "settled", "mixed"}
    /\ said \subseteq Requests \cup FilterRequests

LEMMA TypeStep == TypeInv /\ [RegNext]_regVars => TypeInv'
<1> SUFFICES ASSUME TypeInv, [RegNext]_regVars PROVE TypeInv'
  OBVIOUS
<1> USE LimitsAssumption
<1>0. /\ table \in Tables
      /\ vecs \in Seq(Vectors) /\ Len(vecs) <= MaxVecs /\ Distinct(vecs)
      /\ taps \in Seq(FitTaps) /\ Len(taps) <= MaxTapSets /\ Distinct(taps)
      /\ library \in {"absent", "settled", "mixed"}
      /\ said \subseteq Requests \cup FilterRequests
  BY DEF TypeInv
<1>1. CASE RegisterBuiltin
  <2>1. PICK r \in Requests :
            /\ Says(r, RegisterAt(table, r.name) # 0) /\ table' = Apply(table, r)
            /\ library' = IF library = "absent" THEN library ELSE "mixed"
            /\ UNCHANGED <<vecs, taps, prog>>
    BY <1>1 DEF RegisterBuiltin
  <2>2. table' \in Tables
    BY <1>0, <2>1, RequestsAssumption, ApplyKeeps
  <2>3. said' \subseteq Requests \cup FilterRequests
    BY <1>0, <2>1 DEF Says
  <2> QED
    BY <1>0, <2>1, <2>2, <2>3 DEF TypeInv, Distinct
<1>2. CASE RegisterStandard
  <2>1. table' \in Tables
    BY <1>0, <1>2, StandardKeeps DEF RegisterStandard
  <2> QED
    BY <1>0, <1>2, <2>1 DEF TypeInv, RegisterStandard, Distinct
<1>3. CASE RegisterVector
  <2>1. PICK r \in FilterRequests :
            /\ r.api = "vector" /\ Says(r, TRUE)
            /\ vecs' = Put(vecs, MaxVecs, [name |-> r.name, buf |-> r.buf])
            /\ UNCHANGED <<table, taps, prog, library>>
    BY <1>3 DEF RegisterVector
  <2>2. [name |-> r.name, buf |-> r.buf] \in Vectors
    BY <2>1, FiltersAssumption DEF Vectors
  <2>3. vecs' \in Seq(Vectors) /\ Len(vecs') <= MaxVecs /\ Distinct(vecs')
    BY <1>0, <2>1, <2>2, PutKeeps
  <2>4. said' \subseteq Requests \cup FilterRequests
    BY <1>0, <2>1 DEF Says
  <2> QED
    BY <1>0, <2>1, <2>3, <2>4 DEF TypeInv, Distinct
<1>4. CASE RegisterTaps
  <2>1. PICK r \in FilterRequests :
            /\ r.api = "taps" /\ Says(r, TRUE)
            /\ taps' = Put(taps, MaxTapSets, r.set)
            /\ UNCHANGED <<table, vecs, prog, library>>
    BY <1>4 DEF RegisterTaps
  <2>2. r.set \in FitTaps
    BY <2>1, FiltersAssumption DEF FitTaps
  <2>3. taps' \in Seq(FitTaps) /\ Len(taps') <= MaxTapSets /\ Distinct(taps')
    BY <1>0, <2>1, <2>2, PutKeeps
  <2>4. said' \subseteq Requests \cup FilterRequests
    BY <1>0, <2>1 DEF Says
  <2> QED
    BY <1>0, <2>1, <2>3, <2>4 DEF TypeInv, Distinct
<1>5. CASE Bind
  <2>1. PICK b \in FilterRequests :
            /\ b.api = "bind" /\ Binds(b) /\ Says(b, TRUE)
            /\ taps' = Put(taps, MaxTapSets, BoundTaps(b))
            /\ UNCHANGED <<table, vecs, prog, library>>
    BY <1>5 DEF Bind
  <2>2. b.name \in STRING
    BY <2>1, FiltersAssumption
  <2>3. BoundTaps(b) \in FitTaps
    BY <1>0, <2>1, <2>2, BoundFits
  <2>4. taps' \in Seq(FitTaps) /\ Len(taps') <= MaxTapSets /\ Distinct(taps')
    BY <1>0, <2>1, <2>3, PutKeeps
  <2>5. said' \subseteq Requests \cup FilterRequests
    BY <1>0, <2>1 DEF Says
  <2> QED
    BY <1>0, <2>1, <2>4, <2>5 DEF TypeInv, Distinct
<1>6. CASE Cleanup
  <2>1. <<>> \in Tables /\ <<>> \in Seq(Vectors) /\ <<>> \in Seq(FitTaps) /\ Len(<<>>) = 0
    BY DEF Tables, Distinct
  <2> QED
    BY <1>6, <2>1 DEF Cleanup, TypeInv, Distinct
<1>7. CASE Compile
  BY <1>0, <1>7 DEF Compile, TypeInv, Distinct
<1>8. CASE Execute
  BY <1>0, <1>8 DEF Execute, TypeInv, Distinct
<1>9. CASE UNCHANGED regVars
  BY <1>0, <1>9 DEF regVars, TypeInv, Distinct
<1> QED
  BY <1>1, <1>2, <1>3, <1>4, <1>5, <1>6, <1>7, <1>8, <1>9 DEF RegNext

LEMMA TypeAlways == RegSpec => []TypeInv
<1>1. RegInit => TypeInv
  BY LimitsAssumption DEF RegInit, TypeInv, Tables, Distinct
<1> QED
  BY <1>1, TypeStep, PTL DEF RegSpec

(* No table of the registry passes its limit and no name is in one twice,  *)
(* for every limit, library and set of requests, in every order and number *)
(* of registrations (chirp.c:207-364).                                     *)
THEOREM TypeCorrect == RegSpec => []TypeOK
<1>1. TypeInv => TypeOK
  <2> SUFFICES ASSUME TypeInv PROVE TypeOK
    OBVIOUS
  <2>1. \A i \in DOMAIN table : table[i].kind \in Kinds
    BY TableShape DEF TypeInv, Entries
  <2> QED
    BY <2>1, TableShape DEF TypeInv, TypeOK
<1> QED
  BY <1>1, TypeAlways, PTL

(* The filters of every tap set lie in the arrays they point to, however   *)
(* often and with whatever lengths vectors were registered before a bind   *)
(* (chirp.c:1138), if those the user registers as tap sets do.             *)
THEOREM TapSetsFit == RegSpec => []TapsFit
<1>1. TypeInv => TapsFit
  <2> SUFFICES ASSUME TypeInv, NEW i \in DOMAIN taps PROVE Fits(taps[i])
    BY DEF TapsFit
  <2>1. taps[i] \in FitTaps
    BY DEF TypeInv
  <2> QED
    BY <2>1 DEF FitTaps
<1> QED
  BY <1>1, TypeAlways, PTL

-----------------------------------------------------------------------------
(* What the lets of a program mean.                                        *)

LEMMA ProgramShape ==
    ASSUME NEW p \in Programs
    PROVE  /\ Len(p.lets) \in Nat /\ DOMAIN p.lets = 1..Len(p.lets)
           /\ p.lets = SubSeq(p.lets, 1, Len(p.lets))
           /\ p.form \in {"stage", "pipe", "spectral"} /\ p.prec \in Precisions
<1> DEFINE S == [name : Names, to : Names]
<1>1. p.lets \in Seq(S) /\ p.form \in {"stage", "pipe", "spectral"} /\ p.prec \in Precisions
  BY ProgramsAssumption
<1> HIDE DEF S
<1>2. p.lets = SubSeq(p.lets, 1, Len(p.lets))
  BY <1>1, SubSeqFull
<1> QED
  BY <1>1, <1>2

(* A resolution finds a let, or stays where it is.                         *)
LEMMA Resolved ==
    ASSUME NEW p \in Programs, Len(p.lets) <= Slots, NEW at \in 0..Len(p.lets)
    PROVE  LET i == Resolve(p, at)
           IN  \/ i \in DOMAIN p.lets /\ p.lets[i].name = Written(p, at)
               \/ i = at /\ \A j \in DOMAIN p.lets : p.lets[j].name # Written(p, at)
<1> DEFINE hit == {i \in DOMAIN p.lets : p.lets[i].name = Written(p, at)}
<1>1. Bound(p.lets) = p.lets /\ DOMAIN p.lets = 1..Len(p.lets)
  BY ProgramShape DEF Bound
<1>2. Resolve(p, at) = IF hit = {} THEN at ELSE CHOOSE i \in hit : \A j \in hit : i <= j
  BY <1>1 DEF Resolve
<1>3. CASE hit = {}
  BY <1>2, <1>3
<1>4. CASE hit # {}
  <2>1. hit \subseteq Nat
    BY <1>1
  <2>2. Resolve(p, at) = CHOOSE i \in hit : \A j \in hit : i <= j
    BY <1>2, <1>4
  <2> HIDE DEF hit
  <2>3. \E i \in hit : \A j \in hit : i <= j
    BY <1>4, <2>1, Least
  <2>4. Resolve(p, at) \in hit
    BY <2>2, <2>3
  <2> QED
    BY <2>4 DEF hit
<1> QED
  BY <1>3, <1>4

(* Where the name of the body goes, resolution by resolution.              *)
LEMMA PlaceWalk ==
    ASSUME NEW p \in Programs, Len(p.lets) <= Slots
    PROVE  LET n == Len(p.lets)
           IN  /\ Place(p) \in [0..n + 1 -> 0..n]
               /\ Place(p)[0] = 0
               /\ \A k \in 1..n + 1 : Place(p)[k] = Resolve(p, Place(p)[k - 1])
<1> DEFINE n == Len(p.lets)
           m == n + 1
           T == 0..n
           Step(g, k) == IF k = 0 THEN 0 ELSE Resolve(p, g[k - 1])
           Walk(g) == g = [k \in 0..m |-> Step(g, k)]
           after == CHOOSE g : Walk(g)
           F == [k \in 1..m |-> [u \in T |-> Resolve(p, u)]]
<1>1. n \in Nat /\ m \in Nat /\ 0 \in T
  BY ProgramShape
<1>2. F \in [1..m -> [T -> T]]
  <2>1. \A u \in T : Resolve(p, u) \in T
    BY Resolved, ProgramShape
  <2> QED
    BY <2>1
<1>3. \A k \in 1..m : \A u \in T : F[k][u] = Resolve(p, u)
  OBVIOUS
<1>4. Place(p) = after
  BY DEF Place
<1> HIDE DEF F
<1>5. PICK h : Orbit(m, T, 0, F, h)
  <2>1. m \in Nat /\ F \in Steps(m, T)
    BY <1>1, <1>2 DEF Steps
  <2> HIDE DEF m, T
  <2>2. 0 \in T
    BY <1>1
  <2> QED
    BY <2>1, <2>2, Iterates
<1>6. h \in [0..m -> T] /\ h[0] = 0 /\ \A k \in 1..m : h[k] = F[k][h[k - 1]]
  BY <1>5 DEF Orbit
<1>7. Walk(h)
  <2>1. ASSUME NEW k \in 0..m PROVE h[k] = Step(h, k)
    <3>1. CASE k = 0
      BY <1>6, <3>1
    <3>2. CASE k # 0
      <4>1. k \in 1..m /\ k - 1 \in 0..m
        BY <1>1, <3>2
      <4>2. h[k - 1] \in T
        BY <1>6, <4>1
      <4> QED
        BY <1>3, <1>6, <3>2, <4>1, <4>2
    <3> QED
      BY <3>1, <3>2
  <2> HIDE DEF Step
  <2> QED
    BY <1>6, <2>1
<1> HIDE DEF Step
<1>8. Walk(after)
  BY <1>7
<1> HIDE DEF after
<1>9. after[0] = 0 /\ \A k \in 1..m : after[k] = Resolve(p, after[k - 1])
  <2>1. \A k \in 0..m : after[k] = Step(after, k)
    BY <1>8
  <2> QED
    BY <1>1, <2>1 DEF Step
<1>10. \A k \in 0..m : after[k] \in T
  <2> DEFINE P == {k \in 0..m : after[k] \in T}
  <2>1. 0 \in P
    BY <1>1, <1>9
  <2>2. ASSUME NEW k \in 0..m, k \in P, k < m PROVE k + 1 \in P
    <3>1. k + 1 \in 1..m /\ (k + 1) - 1 = k /\ k + 1 \in 0..m
      BY <1>1, <2>2
    <3>2. after[k + 1] = Resolve(p, after[k])
      BY <1>9, <3>1
    <3> QED
      BY <1>1, <2>2, <3>1, <3>2, Resolved, ProgramShape
  <2> HIDE DEF P
  <2>3. \A k \in 0..m : k \in P
    BY <1>1, <2>1, <2>2, UpTo
  <2> QED
    BY <2>3 DEF P
<1>11. after \in [0..m -> T]
  BY <1>8, <1>10
<1> QED
  BY <1>1, <1>4, <1>9, <1>11

(* What it becomes, substitution by substitution.                          *)
LEMMA SubstitutedWalk ==
    ASSUME NEW p \in Programs
    PROVE  LET n == Len(p.lets)
           IN  \E g : /\ g[0] = p.name
                      /\ \A k \in 1..n : g[k] = IF p.lets[n + 1 - k].name = g[k - 1]
                                               THEN p.lets[n + 1 - k].to ELSE g[k - 1]
                      /\ Substituted(p) = g[n]
<1> DEFINE n == Len(p.lets)
           T == {p.name} \cup {p.lets[i].to : i \in 1..n}
           Next1(u, k) == IF p.lets[n + 1 - k].name = u THEN p.lets[n + 1 - k].to ELSE u
           Step(g, k) ==
               IF k = 0 THEN p.name
               ELSE IF p.lets[n + 1 - k].name = g[k - 1] THEN p.lets[n + 1 - k].to
               ELSE g[k - 1]
           Walk(g) == g = [k \in 0..n |-> Step(g, k)]
           after == CHOOSE g : Walk(g)
           F == [k \in 1..n |-> [u \in T |-> Next1(u, k)]]
<1>1. n \in Nat /\ p.name \in T
  BY ProgramShape
<1>2. F \in [1..n -> [T -> T]]
  <2>1. \A k \in 1..n : n + 1 - k \in 1..n
    BY <1>1
  <2> QED
    BY <2>1
<1>3. \A k \in 1..n : \A u \in T : F[k][u] = Next1(u, k)
  OBVIOUS
<1>4. Substituted(p) = after[n]
  BY DEF Substituted
<1> HIDE DEF F
<1>5. PICK h : Orbit(n, T, p.name, F, h)
  <2>1. n \in Nat /\ F \in Steps(n, T)
    BY <1>1, <1>2 DEF Steps
  <2> HIDE DEF n, T
  <2>2. p.name \in T
    BY <1>1
  <2> QED
    BY <2>1, <2>2, Iterates
<1>6. h \in [0..n -> T] /\ h[0] = p.name /\ \A k \in 1..n : h[k] = F[k][h[k - 1]]
  BY <1>5 DEF Orbit
<1>7. Walk(h)
  <2>1. ASSUME NEW k \in 0..n PROVE h[k] = Step(h, k)
    <3>1. CASE k = 0
      BY <1>6, <3>1
    <3>2. CASE k # 0
      <4>1. k \in 1..n /\ k - 1 \in 0..n
        BY <1>1, <3>2
      <4>2. h[k - 1] \in T
        BY <1>6, <4>1
      <4> QED
        BY <1>3, <1>6, <3>2, <4>1, <4>2
    <3> QED
      BY <3>1, <3>2
  <2> HIDE DEF Step
  <2> QED
    BY <1>6, <2>1
<1> HIDE DEF Step
<1>8. Walk(after)
  BY <1>7
<1> HIDE DEF after
<1>9. after[0] = p.name /\ \A k \in 1..n : after[k] = Next1(after[k - 1], k)
  <2>1. \A k \in 0..n : after[k] = Step(after, k)
    BY <1>8
  <2> QED
    BY <1>1, <2>1 DEF Step
<1>10. \A k \in 0..n : after[k] \in T
  <2> DEFINE P == {k \in 0..n : after[k] \in T}
  <2>1. 0 \in P
    BY <1>1, <1>9
  <2>2. ASSUME NEW k \in 0..n, k \in P, k < n PROVE k + 1 \in P
    <3>1. k + 1 \in 1..n /\ (k + 1) - 1 = k /\ k + 1 \in 0..n
      BY <1>1, <2>2
    <3>2. after[k + 1] = Next1(after[k], k + 1)
      BY <1>9, <3>1
    <3> QED
      BY <1>1, <2>2, <3>1, <3>2
  <2> HIDE DEF P
  <2>3. \A k \in 0..n : k \in P
    BY <1>1, <2>1, <2>2, UpTo
  <2> QED
    BY <2>3 DEF P
<1>11. after \in [0..n -> T]
  BY <1>8, <1>10
<1> QED
  BY <1>1, <1>4, <1>9, <1>11

(* Resolving a name until nothing changes is replacing each name, from the *)
(* last let to the first, by what it stands for.                           *)
LEMMA Meaning ==
    ASSUME NEW p \in Programs, Orderly(p.lets)
    PROVE  Meant(p) = Substituted(p)
<1> DEFINE n == Len(p.lets)
           pl == Place(p)
<1>1. n \in Nat /\ DOMAIN p.lets = 1..n /\ n <= Slots
      /\ (\A i, j \in 1..n : i < j => p.lets[i].name # p.lets[j].name)
      /\ (\A i, j \in 1..n : i <= j => p.lets[i].to # p.lets[j].name)
  BY ProgramShape DEF Orderly
<1>2. /\ pl \in [0..n + 1 -> 0..n] /\ pl[0] = 0
      /\ \A k \in 1..n + 1 : pl[k] = Resolve(p, pl[k - 1])
  BY <1>1, PlaceWalk
<1>3. PICK g : /\ g[0] = p.name
               /\ \A k \in 1..n : g[k] = IF p.lets[n + 1 - k].name = g[k - 1]
                                        THEN p.lets[n + 1 - k].to ELSE g[k - 1]
               /\ Substituted(p) = g[n]
  BY SubstitutedWalk
<1>4. \A m \in 0..n : LET i == pl[m + 1]
                     IN  \/ i \in 1..n /\ p.lets[i].name = Written(p, pl[m])
                         \/ i = pl[m] /\ \A j \in 1..n : p.lets[j].name # Written(p, pl[m])
  <2> SUFFICES ASSUME NEW m \in 0..n
               PROVE  LET i == Resolve(p, pl[m])
                      IN  \/ i \in 1..n /\ p.lets[i].name = Written(p, pl[m])
                          \/ i = pl[m] /\ \A j \in 1..n : p.lets[j].name # Written(p, pl[m])
    <3>1. \A m \in 0..n : m + 1 \in 1..n + 1 /\ (m + 1) - 1 = m
      BY <1>1
    <3> QED
      BY <1>2, <3>1
  <2>1. pl[m] \in 0..n
    BY <1>1, <1>2
  <2> QED
    BY <1>1, <2>1, Resolved
<1>5. \A i \in 1..n : Written(p, i) = p.lets[i].to
  BY DEF Written
<1>6. Written(p, 0) = p.name
  BY DEF Written
<1> HIDE DEF n, pl
<1> DEFINE At(k, m) == g[k] = Written(p, pl[m])
                       /\ \A j \in 1..n : j > n - k => p.lets[j].name # g[k]
           P == {k \in 0..n : \E m \in 0..k : At(k, m)}
<1>7. 0 \in P
  <2>1. At(0, 0)
    BY <1>1, <1>2, <1>3, <1>6
  <2> QED
    BY <1>1, <2>1
<1>8. ASSUME NEW k \in 0..n, k \in P, k < n PROVE k + 1 \in P
  <2>1. PICK m \in 0..k : At(k, m)
    BY <1>8
  <2> DEFINE i == n - k
  <2>2. /\ i \in 1..n /\ n + 1 - (k + 1) = i /\ k + 1 \in 1..n /\ (k + 1) - 1 = k
        /\ m \in 0..n /\ m \in 0..k + 1 /\ m + 1 \in 0..k + 1 /\ n - (k + 1) = i - 1
        /\ k + 1 \in 0..n
    BY <1>1, <1>8
  <2>3. g[k + 1] = IF p.lets[i].name = g[k] THEN p.lets[i].to ELSE g[k]
    BY <1>3, <2>2
  <2> HIDE DEF i
  <2>4. CASE p.lets[i].name = g[k]
    <3>1. g[k] = Written(p, pl[m])
      BY <2>1
    <3>2. pl[m + 1] \in 1..n /\ p.lets[pl[m + 1]].name = p.lets[i].name
      BY <1>4, <2>2, <2>4, <3>1
    <3>3. \A a, b \in 1..n : p.lets[a].name = p.lets[b].name => a = b
      <4> SUFFICES ASSUME NEW a \in 1..n, NEW b \in 1..n, p.lets[a].name = p.lets[b].name
                   PROVE  a = b
        OBVIOUS
      <4>1. a < b \/ b < a \/ a = b
        BY <1>1
      <4> QED
        BY <1>1, <4>1
    <3>4. pl[m + 1] = i
      BY <2>2, <3>2, <3>3
    <3>5. g[k + 1] = Written(p, pl[m + 1])
      BY <1>5, <2>2, <2>3, <2>4, <3>4
    <3>6. ASSUME NEW j \in 1..n, j > n - (k + 1) PROVE p.lets[j].name # g[k + 1]
      <4>1. i <= j
        BY <1>1, <2>2, <3>6
      <4> QED
        BY <1>1, <2>2, <2>3, <2>4, <4>1
    <3>7. At(k + 1, m + 1)
      BY <3>5, <3>6
    <3> HIDE DEF At
    <3> QED
      BY <2>2, <3>7
  <2>5. CASE p.lets[i].name # g[k]
    <3>1. g[k + 1] = g[k]
      BY <2>3, <2>5
    <3>2. ASSUME NEW j \in 1..n, j > n - (k + 1) PROVE p.lets[j].name # g[k]
      <4>1. j = i \/ j > n - k
        BY <1>1, <2>2, <3>2 DEF i
      <4> QED
        BY <2>1, <2>5, <4>1
    <3>3. At(k + 1, m)
      BY <2>1, <3>1, <3>2
    <3> HIDE DEF At
    <3> QED
      BY <2>2, <3>3
  <2> QED
    BY <2>4, <2>5
<1>9. PICK m \in 0..n : g[n] = Written(p, pl[m]) /\ \A j \in 1..n : p.lets[j].name # g[n]
  <2>1. n \in P
    <3> HIDE DEF P
    <3>1. \A k \in 0..n : k \in P
      BY <1>1, <1>7, <1>8, UpTo
    <3> QED
      BY <1>1, <3>1
  <2>2. PICK m \in 0..n : At(n, m)
    BY <2>1
  <2>3. \A j \in 1..n : j > n - n
    BY <1>1
  <2> QED
    BY <2>2, <2>3
<1>10. \A k \in 0..n : k >= m => pl[k] = pl[m]
  <2> DEFINE Q == {k \in 0..n : k >= m => pl[k] = pl[m]}
  <2>1. 0 \in Q
    BY <1>1, <1>9
  <2>2. ASSUME NEW k \in 0..n, k \in Q, k < n PROVE k + 1 \in Q
    <3>1. CASE k + 1 = m
      BY <1>1, <2>2, <3>1
    <3>2. CASE k >= m
      <4>1. pl[k] = pl[m]
        BY <2>2, <3>2
      <4>2. pl[k + 1] = pl[k]
        BY <1>4, <1>9, <4>1
      <4> QED
        BY <1>1, <2>2, <4>1, <4>2
    <3>3. CASE k + 1 < m
      BY <1>1, <2>2, <3>3
    <3>4. k + 1 = m \/ k >= m \/ k + 1 < m
      BY <1>1
    <3> QED
      BY <3>1, <3>2, <3>3, <3>4
  <2> HIDE DEF Q
  <2>3. \A k \in 0..n : k \in Q
    BY <1>1, <2>1, <2>2, UpTo
  <2> QED
    BY <2>3 DEF Q
<1>11. pl[n] = pl[m]
  BY <1>1, <1>9, <1>10
<1> QED
  BY <1>3, <1>9, <1>11 DEF Meant, n, pl

-----------------------------------------------------------------------------
(* A program and what its execution called.  The index of a program that   *)
(* was compiled since the last cleanup is that of the name it means.       *)

IsProg(x) ==
    /\ x = [wrote |-> x.wrote, name |-> x.name, prec |-> x.prec, idx |-> x.idx,
            fresh |-> x.fresh]
    /\ x.wrote \in Programs /\ x.prec \in Precisions /\ x.name = NameIn(x.wrote)
Placed(x, t) == x.fresh => x.idx \in DOMAIN t /\ t[x.idx].name = x.name

ProgInv == prog # Nothing => IsProg(prog) /\ Placed(prog, table)

CallInv ==
    call # Nothing =>
        /\ prog # Nothing
        /\ call = IF CallOf(prog.idx, prog.prec) = Nothing THEN [as |-> "no call"]
                  ELSE CallOf(prog.idx, prog.prec)

(* No step but a cleanup takes an entry from its place or its name.        *)
LEMMA PlacesStay ==
    ASSUME TypeInv, [RegNext]_regVars, ~Cleanup, NEW i \in DOMAIN table
    PROVE  i \in DOMAIN table' /\ table'[i].name = table[i].name
<1>1. table \in Tables
  BY DEF TypeInv
<1>2. CASE RegisterBuiltin
  <2>1. PICK r \in Requests : table' = Apply(table, r)
    BY <1>2 DEF RegisterBuiltin
  <2> QED
    BY <1>1, <2>1, RequestsAssumption, ApplyKeeps
<1>3. CASE RegisterStandard
  BY <1>1, <1>3, StandardKeeps DEF RegisterStandard
<1>4. CASE UNCHANGED table
  BY <1>4
<1> QED
  BY <1>2, <1>3, <1>4
     DEF RegNext, RegisterVector, RegisterTaps, Bind, Compile, Execute, regVars

LEMMA ProgStep == TypeInv /\ ProgInv /\ [RegNext]_regVars => ProgInv'
<1> SUFFICES ASSUME TypeInv, ProgInv, [RegNext]_regVars PROVE ProgInv'
  OBVIOUS
<1>0. ASSUME NEW x, NEW w \in Programs, NEW n, NEW c \in Precisions, NEW i, NEW f,
             n = NameIn(w), x = [wrote |-> w, name |-> n, prec |-> c, idx |-> i, fresh |-> f]
      PROVE  /\ IsProg(x)
             /\ x.wrote = w /\ x.name = n /\ x.prec = c /\ x.idx = i /\ x.fresh = f
  BY <1>0 DEF IsProg
<1>1. CASE Cleanup
  <2>1. CASE prog = Nothing
    BY <1>1, <2>1 DEF Cleanup, ProgInv
  <2>2. CASE prog # Nothing
    <3>1. prog' = [wrote |-> prog.wrote, name |-> prog.name, prec |-> prog.prec,
                   idx |-> prog.idx, fresh |-> FALSE]
      <4>1. prog' = [prog EXCEPT !.fresh = FALSE]
        BY <1>1, <2>2 DEF Cleanup
      <4> QED
        BY <2>2, <4>1 DEF ProgInv, IsProg
    <3>2. /\ prog.wrote \in Programs /\ prog.prec \in Precisions
          /\ prog.name = NameIn(prog.wrote)
      BY <2>2 DEF ProgInv, IsProg
    <3>3. IsProg(prog') /\ prog'.fresh = FALSE
      BY <1>0, <3>1, <3>2
    <3> QED
      BY <3>3 DEF ProgInv, Placed
  <2> QED
    BY <2>1, <2>2
<1>2. CASE Compile
  <2>1. PICK p \in Programs :
            /\ prog' = IF IndexIn(p) = 0 THEN Nothing
                       ELSE [wrote |-> p, name |-> NameIn(p), prec |-> p.prec,
                             idx |-> IndexIn(p), fresh |-> TRUE]
            /\ UNCHANGED table
    BY <1>2 DEF Compile
  <2>2. CASE IndexIn(p) = 0
    BY <2>1, <2>2 DEF ProgInv
  <2>3. CASE IndexIn(p) # 0
    <3> DEFINE i == IndexIn(p)
    <3>1. i \in DOMAIN table /\ table[i].name = NameIn(p)
      <4>1. i = Lookup(table, NameIn(p))
        BY <2>3 DEF IndexIn
      <4>2. table \in Seq(Entries)
        BY DEF TypeInv, Tables
      <4> QED
        BY <2>3, <4>1, <4>2, Found
    <3>2. p.prec \in Precisions
      BY ProgramShape
    <3>3. prog' = [wrote |-> p, name |-> NameIn(p), prec |-> p.prec, idx |-> i, fresh |-> TRUE]
      BY <2>1, <2>3
    <3> HIDE DEF i
    <3>4. IsProg(prog') /\ prog'.idx = i /\ prog'.name = NameIn(p)
      BY <1>0, <3>2, <3>3
    <3> QED
      BY <2>1, <3>1, <3>4 DEF ProgInv, Placed
  <2> QED
    BY <2>2, <2>3
<1>3. CASE ~Cleanup /\ ~Compile
  <2>1. prog' = prog
    BY <1>3 DEF RegNext, RegisterBuiltin, RegisterStandard, RegisterVector, RegisterTaps,
                Bind, Execute, regVars
  <2>2. CASE prog = Nothing
    BY <2>1, <2>2 DEF ProgInv
  <2>3. CASE prog # Nothing
    <3>1. Placed(prog, table')
      BY <1>3, <2>3, PlacesStay DEF ProgInv, Placed
    <3> QED
      BY <2>1, <2>3, <3>1 DEF ProgInv
  <2> QED
    BY <2>2, <2>3
<1> QED
  BY <1>1, <1>2, <1>3

LEMMA CallStep == CallInv /\ [RegNext]_regVars => CallInv'
<1> SUFFICES ASSUME CallInv, [RegNext]_regVars PROVE CallInv'
  OBVIOUS
<1>1. CASE Execute
  BY <1>1 DEF Execute, CallInv, CallOf, KindOf, FnFor
<1>2. CASE UNCHANGED regVars
  BY <1>2 DEF regVars, CallInv, CallOf, KindOf, FnFor
<1>3. CASE call' = Nothing
  BY <1>3 DEF CallInv
<1> QED
  BY <1>1, <1>2, <1>3 DEF RegNext, RegisterBuiltin, RegisterStandard, RegisterVector,
                           RegisterTaps, Bind, Cleanup, Compile, Says

LEMMA ProgAlways == RegSpec => [](ProgInv /\ CallInv)
<1>1. RegInit => ProgInv /\ CallInv
  BY DEF RegInit, ProgInv, CallInv
<1> QED
  BY <1>1, ProgStep, CallStep, TypeAlways, PTL DEF RegSpec

(* The name a program calls is the one its lets mean, for every program    *)
(* whose names are bound once, before they are used and within the slots   *)
(* of the scope (chirp_scope_lookup, chirp.c:159).                         *)
THEOREM LetsKeepMeaning == RegSpec => []LetsMean
<1>1. ProgInv => LetsMean
  BY Meaning DEF ProgInv, IsProg, LetsMean, NameIn
<1> QED
  BY <1>1, ProgAlways, PTL

-----------------------------------------------------------------------------
(* Where what an entry holds comes from, when A is what was asked for.     *)

Pair(r) == r.api \in {"unary", "spectral"}
AgreedIn(A, stem) ==
    \A r, s \in A : r.name.stem = stem /\ s.name.stem = stem =>
        /\ r.fn.kind = s.fn.kind
        /\ r.api = "spectral" => s.api = "spectral" /\ s.name = r.name /\ ~r.name.full
Suffix(name) == IF name.prec = "f64" THEN "f64" ELSE "f32"
(* The request is for the entry, or for what the entry is an alias of.     *)
Origin(r, e) ==
    /\ r.fn = e.fn /\ r.name.stem = e.name.stem
    /\ r.name = e.name \/ (r.name.full /\ ~e.name.full)
(* The double function is that of a request for this very name.            *)
PairOf(r, e) == Pair(r) /\ r.name = e.name /\ r.f64 = e.f64
FloatAlone(A, name) == \E s \in A : Pair(s) /\ s.name = name /\ s.f64 = Nothing

EntryFits(e, A) ==
    /\ \E r \in A : Origin(r, e)
    /\ e.fn.prec = Suffix(e.name)
    /\ e.f64 # Nothing => \E r \in A : PairOf(r, e)
    /\ AgreedIn(A, e.name.stem) =>
           /\ e.kind = e.fn.kind /\ e.ctx = e.fn.ctx
           /\ e.f64 # Nothing => e.f64.kind = e.fn.kind /\ e.f64.ctx = e.fn.ctx
    /\ e.f64 = Nothing => \A r \in A : Pair(r) /\ r.name = e.name => FloatAlone(A, e.name)

TableFits(t, A) ==
    /\ \A i \in DOMAIN t : EntryFits(t[i], A)
    /\ \A r \in A : Pair(r) => \E i \in DOMAIN t : t[i].name = r.name

(* Before it is written, an entry fits or is a new one.                    *)
OldFits(o, name, fn, A) ==
    /\ o \in Entries /\ o.name = name
    /\ \/ EntryFits(o, A)
       \/ o = Entry(name, fn) /\ \A r \in A : Pair(r) => r.name # name

LEMMA RequestShape ==
    ASSUME NEW r \in RequestSet
    PROVE  /\ r.name \in Names /\ r.fn \in Functions /\ r.fn.kind \in Kinds
           /\ r.f64 \in Functions \cup {Nothing}
           /\ r.api \in {"plain", "ex", "unary", "spectral"}
           /\ r.fn.stem = r.name.stem /\ r.fn.prec = Suffix(r.name)
           /\ r.api \in {"plain", "unary"} => r.fn.kind = "unary"
           /\ r.api = "spectral" => r.fn.kind = "spectral"
           /\ r.api # "spectral" => r.fn.ctx = "null"
           /\ ~Pair(r) => r.f64 = Nothing
           /\ r.f64 # Nothing => /\ r.f64.kind = r.fn.kind /\ r.f64.ctx = r.fn.ctx
                                 /\ r.f64.stem = r.fn.stem /\ r.f64.prec = "f64"
  BY DEF RequestSet, Functions, Suffix, Pair

(* More requests, none of them a pair for its name, change nothing.        *)
LEMMA FitsMore ==
    ASSUME NEW A, NEW B, A \subseteq B, NEW e, EntryFits(e, A),
           \A r \in B \ A : Pair(r) => r.name # e.name
    PROVE  EntryFits(e, B)
<1>1. AgreedIn(B, e.name.stem) => AgreedIn(A, e.name.stem)
  BY DEF AgreedIn
<1>2. FloatAlone(A, e.name) => FloatAlone(B, e.name)
  BY DEF FloatAlone
<1> QED
  BY <1>1, <1>2 DEF EntryFits

(* A request leaves an entry that fits.                                    *)
LEMMA AfterFits ==
    ASSUME NEW A, A \subseteq RequestSet, NEW r \in RequestSet, NEW o,
           OldFits(o, r.name, r.fn, A)
    PROVE  EntryFits(After(r, o), A \cup {r})
<1> DEFINE B == A \cup {r}
<1>0. PICK e : e = After(r, o)
  OBVIOUS
<1>1. /\ e.name = r.name /\ e.fn = r.fn
      /\ e.kind = IF r.api = "plain" THEN o.kind ELSE r.fn.kind
      /\ e.f64 = IF Pair(r) THEN r.f64 ELSE o.f64
      /\ e.ctx = IF r.api = "spectral" THEN r.fn.ctx ELSE o.ctx
  BY <1>0, AfterFields DEF OldFits, Pair
<1>2. /\ r.api \in {"plain", "ex", "unary", "spectral"} /\ r.fn.prec = Suffix(r.name)
      /\ r.api \in {"plain", "unary"} => r.fn.kind = "unary"
      /\ r.api # "spectral" => r.fn.ctx = "null"
      /\ r.f64 # Nothing => r.f64.kind = r.fn.kind /\ r.f64.ctx = r.fn.ctx
  BY RequestShape
<1>3. o.name = r.name
      /\ \/ EntryFits(o, A)
         \/ /\ o.fn = r.fn /\ o.f64 = Nothing /\ o.kind = "unary" /\ o.ctx = "null"
            /\ \A s \in A : Pair(s) => s.name # r.name
  BY DEF OldFits, Entry
<1>4. \E s \in B : Origin(s, e)
  BY <1>1 DEF Origin
<1>5. e.fn.prec = Suffix(e.name)
  BY <1>1, <1>2
<1>6. e.f64 # Nothing => \E s \in B : PairOf(s, e)
  <2>1. CASE Pair(r)
    BY <1>1, <2>1 DEF PairOf
  <2>2. CASE ~Pair(r)
    BY <1>1, <1>3, <2>2 DEF EntryFits, PairOf
  <2> QED
    BY <2>1, <2>2
<1>7. ASSUME AgreedIn(B, e.name.stem)
      PROVE  /\ e.kind = e.fn.kind /\ e.ctx = e.fn.ctx
             /\ e.f64 # Nothing => e.f64.kind = e.fn.kind /\ e.f64.ctx = e.fn.ctx
  <2>1. AgreedIn(A, o.name.stem)
    BY <1>1, <1>3, <1>7 DEF AgreedIn
  <2>2. ASSUME NEW s \in A, s.name.stem = r.name.stem
        PROVE  /\ s.fn.kind = r.fn.kind
               /\ s.api = "spectral" => r.api = "spectral"
               /\ s.api # "spectral" => s.fn.ctx = "null"
               /\ s.f64 # Nothing => s.f64.kind = s.fn.kind /\ s.f64.ctx = s.fn.ctx
    <3>1. s.fn.kind = r.fn.kind /\ (s.api = "spectral" => r.api = "spectral")
      BY <1>1, <1>7, <2>2 DEF AgreedIn
    <3>2. s \in RequestSet
      OBVIOUS
    <3> QED
      BY <3>1, <3>2, RequestShape
  <2>3. CASE EntryFits(o, A)
    <3>1. /\ o.kind = o.fn.kind /\ o.ctx = o.fn.ctx
          /\ o.f64 # Nothing => o.f64.kind = o.fn.kind /\ o.f64.ctx = o.fn.ctx
      BY <2>1, <2>3 DEF EntryFits
    <3>2. PICK s \in A : s.fn = o.fn /\ s.name.stem = r.name.stem
      BY <1>3, <2>3 DEF EntryFits, Origin
    <3>3. o.kind = r.fn.kind /\ (r.api # "spectral" => o.ctx = "null")
      BY <2>2, <3>1, <3>2
    <3>4. ASSUME o.f64 # Nothing
          PROVE  o.f64.kind = r.fn.kind /\ (r.api # "spectral" => o.f64.ctx = "null")
      BY <2>2, <3>1, <3>2, <3>4
    <3> QED
      BY <1>1, <1>2, <3>3, <3>4 DEF Pair
  <2>4. CASE o.f64 = Nothing /\ o.kind = "unary" /\ o.ctx = "null"
    BY <1>1, <1>2, <2>4 DEF Pair
  <2> QED
    BY <1>3, <2>3, <2>4
<1>8. ASSUME e.f64 = Nothing, NEW s \in B, Pair(s), s.name = e.name
      PROVE  FloatAlone(B, e.name)
  <2>1. CASE Pair(r)
    BY <1>1, <1>8, <2>1 DEF FloatAlone
  <2>2. CASE ~Pair(r)
    <3>1. s \in A /\ o.f64 = Nothing /\ s.name = o.name
      BY <1>1, <1>3, <1>8, <2>2
    <3>2. EntryFits(o, A)
      BY <1>1, <1>3, <1>8, <3>1
    <3>3. FloatAlone(A, o.name)
      BY <1>8, <3>1, <3>2 DEF EntryFits
    <3> QED
      BY <1>1, <1>3, <3>3 DEF FloatAlone
  <2> QED
    BY <2>1, <2>2
<1>9. EntryFits(e, B)
  <2> HIDE DEF B
  <2> QED
    BY <1>4, <1>5, <1>6, <1>7, <1>8 DEF EntryFits
<1> QED
  BY <1>0, <1>9

(* And so does the alias of an entry that fits.                            *)
LEMMA AliasedFits ==
    ASSUME NEW A, A \subseteq RequestSet, NEW e \in Entries, EntryFits(e, A), e.name.full,
           NEW name, ~name.full, name.stem = e.name.stem, Suffix(name) = Suffix(e.name),
           NEW o, OldFits(o, name, e.fn, A),
           NEW a, a = [o EXCEPT !.fn = e.fn, !.kind = e.kind]
    PROVE  EntryFits(a, A)
<1>1. a.name = name /\ a.fn = e.fn /\ a.kind = e.kind /\ a.f64 = o.f64 /\ a.ctx = o.ctx
  BY DEF OldFits, Entries
<1>2. o.name = name
      /\ \/ EntryFits(o, A)
         \/ /\ o.fn = e.fn /\ o.f64 = Nothing /\ o.kind = "unary" /\ o.ctx = "null"
            /\ \A s \in A : Pair(s) => s.name # name
  BY DEF OldFits, Entry
<1>3. PICK r \in A : Origin(r, e)
  BY DEF EntryFits
<1>4. r.name.full /\ r.name.stem = name.stem /\ r.fn = e.fn
  BY <1>3 DEF Origin
<1>5. Origin(r, a)
  BY <1>1, <1>4 DEF Origin
<1>6. a.fn.prec = Suffix(a.name)
  BY <1>1 DEF EntryFits
<1>7. a.f64 # Nothing => \E s \in A : PairOf(s, a)
  BY <1>1, <1>2 DEF EntryFits, PairOf
<1>8. ASSUME AgreedIn(A, a.name.stem)
      PROVE  /\ a.kind = a.fn.kind /\ a.ctx = a.fn.ctx
             /\ a.f64 # Nothing => a.f64.kind = a.fn.kind /\ a.f64.ctx = a.fn.ctx
  <2>1. AgreedIn(A, name.stem)
    BY <1>1, <1>8
  <2>2. ASSUME NEW s \in A, s.name.stem = name.stem
        PROVE  s.fn.kind = r.fn.kind /\ s.api # "spectral" /\ s.fn.ctx = "null"
    <3>1. s.fn.kind = r.fn.kind /\ s.api # "spectral"
      BY <1>4, <2>1, <2>2 DEF AgreedIn
    <3> QED
      BY <3>1, RequestShape
  <2>3. a.kind = a.fn.kind /\ a.fn.kind = r.fn.kind /\ a.fn.ctx = "null"
    <3>1. e.kind = e.fn.kind
      BY <2>1 DEF EntryFits
    <3>2. r.fn.ctx = "null"
      BY <1>4, <2>2
    <3> QED
      BY <1>1, <1>4, <3>1, <3>2
  <2>4. CASE EntryFits(o, A)
    <3>1. /\ o.kind = o.fn.kind /\ o.ctx = o.fn.ctx
          /\ o.f64 # Nothing => o.f64.kind = o.fn.kind /\ o.f64.ctx = o.fn.ctx
      BY <1>2, <2>1, <2>4 DEF EntryFits
    <3>2. PICK s \in A : s.fn = o.fn /\ s.name.stem = name.stem
      BY <1>2, <2>4 DEF EntryFits, Origin
    <3>3. o.fn.kind = r.fn.kind /\ o.fn.ctx = "null"
      BY <2>2, <3>2
    <3> QED
      BY <1>1, <2>3, <3>1, <3>3
  <2>5. CASE o.f64 = Nothing /\ o.kind = "unary" /\ o.ctx = "null"
    BY <1>1, <2>3, <2>5
  <2> QED
    BY <1>2, <2>4, <2>5
<1>9. ASSUME a.f64 = Nothing, NEW s \in A, Pair(s), s.name = a.name
      PROVE  FloatAlone(A, a.name)
  <2>1. EntryFits(o, A) /\ o.f64 = Nothing /\ s.name = o.name
    BY <1>1, <1>2, <1>9
  <2> QED
    BY <1>1, <1>2, <1>9, <2>1 DEF EntryFits
<1> QED
  BY <1>5, <1>6, <1>7, <1>8, <1>9 DEF EntryFits

(* What is written over fits, or is new.                                   *)
LEMMA OldThatFits ==
    ASSUME NEW A, NEW t \in Tables, TableFits(t, A), NEW name \in Names, NEW fn \in Functions,
           RegisterAt(t, name) # 0
    PROVE  OldFits(Old(t, name, fn), name, fn, A)
<1> DEFINE at == RegisterAt(t, name)
<1>1. Old(t, name, fn) \in Entries /\ Old(t, name, fn).name = name
  BY OldEntry
<1>2. CASE at \in DOMAIN t
  <2>1. Old(t, name, fn) = t[at]
    BY <1>2, OldEntry
  <2>2. EntryFits(t[at], A)
    BY <1>2 DEF TableFits
  <2> QED
    BY <1>1, <2>1, <2>2 DEF OldFits
<1>3. CASE at \notin DOMAIN t
  <2>1. Old(t, name, fn) = Entry(name, fn)
    BY <1>3, OldEntry
  <2>2. \A j \in DOMAIN t : t[j].name # name
    BY <1>3, WhereAt
  <2>3. \A r \in A : Pair(r) => r.name # name
    BY <2>2 DEF TableFits
  <2> QED
    BY <1>1, <2>1, <2>3 DEF OldFits
<1> QED
  BY <1>2, <1>3

(* A table with one entry written fits if that entry does.                 *)
LEMMA WroteFits ==
    ASSUME NEW A, NEW B, A \subseteq B, NEW t \in Tables, TableFits(t, A), NEW name, NEW e,
           e \in Entries, e.name = name, EntryFits(e, B), RegisterAt(t, name) # 0,
           NEW u, Wrote(t, u, RegisterAt(t, name), e),
           \A r \in B \ A : Pair(r) => r.name = name
    PROVE  TableFits(u, B)
<1> DEFINE at == RegisterAt(t, name)
<1>1. /\ DOMAIN u = DOMAIN t \cup {at} /\ u[at] = e
      /\ \A i \in DOMAIN t : i # at => u[i] = t[i]
  BY DEF Wrote
<1>2. \A i \in DOMAIN t : i # at => t[i].name # name
  <2>1. Distinct(t) /\ DOMAIN t = 1..Len(t)
    BY TableShape
  <2> QED
    BY <2>1, WhereAt DEF Distinct
<1>3. ASSUME NEW i \in DOMAIN u PROVE EntryFits(u[i], B)
  <2>1. CASE i = at
    BY <1>1, <2>1
  <2>2. CASE i # at
    <3>1. i \in DOMAIN t /\ u[i] = t[i] /\ t[i].name # name
      BY <1>1, <1>2, <2>2
    <3>2. EntryFits(t[i], A)
      BY <3>1 DEF TableFits
    <3> QED
      BY <3>1, <3>2, FitsMore
  <2> QED
    BY <2>1, <2>2
<1>4. ASSUME NEW r \in B, Pair(r) PROVE \E i \in DOMAIN u : u[i].name = r.name
  <2>1. CASE r.name = name
    BY <1>1, <2>1
  <2>2. CASE r.name # name
    <3>1. PICK i \in DOMAIN t : t[i].name = r.name
      BY <1>4, <2>2 DEF TableFits
    <3>2. i # at
      BY <2>2, <3>1, WhereAt
    <3> QED
      BY <1>1, <3>1, <3>2
  <2> QED
    BY <2>1, <2>2
<1> QED
  BY <1>3, <1>4 DEF TableFits

LEMMA ApplyFits ==
    ASSUME NEW A, A \subseteq RequestSet, NEW t \in Tables, TableFits(t, A),
           NEW r \in RequestSet, RegisterAt(t, r.name) # 0
    PROVE  TableFits(Apply(t, r), A \cup {r})
<1> DEFINE o == Old(t, r.name, r.fn)
<1>1. r.name \in Names /\ r.fn \in Functions
  BY RequestShape
<1>2. OldFits(o, r.name, r.fn, A)
  BY <1>1, OldThatFits
<1>3. After(r, o).name = r.name
  BY <1>2, AfterFields DEF OldFits
<1>4. /\ After(r, o) \in Entries
      /\ Wrote(t, Apply(t, r), RegisterAt(t, r.name), After(r, o))
  BY ApplyWrites
<1>5. EntryFits(After(r, o), A \cup {r})
  BY <1>2, AfterFits
<1> HIDE DEF o
<1> QED
  BY <1>3, <1>4, <1>5, WroteFits

LEMMA RegisterExFits ==
    ASSUME NEW A, A \subseteq RequestSet, NEW t \in Tables, TableFits(t, A),
           NEW e \in Entries, EntryFits(e, A), e.name.full,
           NEW name \in Names, ~name.full, name.stem = e.name.stem, Suffix(name) = Suffix(e.name)
    PROVE  TableFits(RegisterEx(t, name, e.fn, e.kind), A)
<1> DEFINE o == Old(t, name, e.fn)
           a == [o EXCEPT !.fn = e.fn, !.kind = e.kind]
           at == RegisterAt(t, name)
           u == RegisterEx(t, name, e.fn, e.kind)
<1>1. e.fn \in Functions /\ e.kind \in Kinds
  BY DEF Entries
<1>2. a \in Entries /\ Wrote(t, u, at, a)
  BY <1>1, RegisterExWrites
<1>3. CASE at = 0
  BY <1>2, <1>3 DEF Wrote
<1>4. CASE at # 0
  <2>1. OldFits(o, name, e.fn, A)
    BY <1>1, <1>4, OldThatFits
  <2>2. a.name = name
    BY <2>1 DEF OldFits, Entries
  <2> HIDE DEF o
  <2>3. EntryFits(a, A)
    BY <2>1, AliasedFits
  <2> HIDE DEF a, u
  <2>4. TableFits(u, A)
    BY <1>2, <1>4, <2>2, <2>3, WroteFits
  <2> QED
    BY <2>4 DEF u
<1> QED
  BY <1>3, <1>4

LEMMA AliasFits ==
    ASSUME NEW A, A \subseteq RequestSet, NEW t \in Tables, TableFits(t, A),
           NEW e \in Entries, EntryFits(e, A), e.name.full
    PROVE  TableFits(AliasEntry(t, e), A)
<1> DEFINE r == RegisterEx(t, Stripped(e.name), e.fn, e.kind)
           q == RegisterEx(r, BareOf(e.name), e.fn, e.kind)
<1>1. /\ Stripped(e.name) \in Names /\ BareOf(e.name) \in Names
      /\ Stripped(e.name).stem = e.name.stem /\ BareOf(e.name).stem = e.name.stem
      /\ ~Stripped(e.name).full /\ ~BareOf(e.name).full
      /\ Suffix(Stripped(e.name)) = Suffix(e.name)
      /\ e.name.prec = "f32" => Suffix(BareOf(e.name)) = Suffix(e.name)
      /\ e.fn \in Functions /\ e.kind \in Kinds
  BY AliasNames DEF Suffix
<1>2. r \in Tables /\ TableFits(r, A)
  BY <1>1, RegisterExKeeps, RegisterExFits
<1>3. AliasEntry(t, e) = IF e.name.prec = "f32" THEN q ELSE r
  BY AliasNames
<1> HIDE DEF r
<1>4. e.name.prec = "f32" => TableFits(q, A)
  BY <1>1, <1>2, RegisterExFits
<1> QED
  BY <1>2, <1>3, <1>4

Library == {StandardRequests[k] : k \in DOMAIN StandardRequests}

LEMMA StandardFits ==
    ASSUME NEW A, A \subseteq RequestSet, NEW t \in Tables, TableFits(t, A)
    PROVE  TableFits(RegisterAll(t), A \cup Library)
<1> DEFINE B == A \cup Library
           T == {u \in Tables : TableFits(u, B)}
           s == ApplyStandard(t)
<1>1. \A r \in Library : r \in RequestSet /\ ~Pair(r)
  BY StandardTyped DEF Library, Pair
<1>2. t \in T
  <2>1. \A r \in B \ A : ~Pair(r)
    BY <1>1
  <2>2. ASSUME NEW i \in DOMAIN t PROVE EntryFits(t[i], B)
    <3>1. EntryFits(t[i], A)
      BY DEF TableFits
    <3> QED
      BY <2>1, <3>1, FitsMore
  <2>3. \A r \in B : Pair(r) => r \in A
    BY <1>1
  <2> HIDE DEF B
  <2> QED
    BY <2>2, <2>3 DEF TableFits
<1>3. ASSUME NEW u \in T, NEW k \in DOMAIN StandardRequests
      PROVE  Apply(u, StandardRequests[k]) \in T
  <2> DEFINE r == StandardRequests[k]
  <2>1. r \in RequestSet /\ r \in B /\ B \cup {r} = B /\ B \subseteq RequestSet
    BY <1>1 DEF Library
  <2>2. Apply(u, r) \in Tables
    BY <2>1, ApplyKeeps
  <2> HIDE DEF r, B
  <2>3. ASSUME RegisterAt(u, r.name) # 0 PROVE TableFits(Apply(u, r), B)
    <3>1. TableFits(Apply(u, r), B \cup {r})
      BY <2>1, <2>3, ApplyFits
    <3> QED
      BY <2>1, <3>1
  <2>4. ASSUME RegisterAt(u, r.name) = 0 PROVE TableFits(Apply(u, r), B)
    <3>1. Wrote(u, Apply(u, r), RegisterAt(u, r.name), After(r, Old(u, r.name, r.fn)))
      BY <2>1, ApplyWrites
    <3>2. Apply(u, r) = u
      BY <2>4, <3>1 DEF Wrote
    <3> QED
      BY <3>2
  <2>5. Apply(u, r) \in T
    BY <2>2, <2>3, <2>4
  <2> QED
    BY <2>5 DEF r
<1>4. s \in T
  <2>1. \E g \in [0..Len(StandardRequests) -> T] : s = g[Len(StandardRequests)]
    <3> HIDE DEF T, s
    <3> QED
      BY <1>2, <1>3, StandardWalk DEF s
  <2> HIDE DEF T
  <2> QED
    BY <2>1, StandardTyped
<1>5. s \in Tables /\ Len(s) \in Nat /\ DOMAIN s = 1..Len(s) /\ TableFits(s, B)
  BY <1>4, TableShape
<1>6. ASSUME NEW u \in T, NEW k \in 1..Len(s), s[k].name.full
      PROVE  AliasEntry(u, s[k]) \in T
  <2>1. s[k] \in Entries /\ EntryFits(s[k], B) /\ B \subseteq RequestSet
    BY <1>1, <1>5, TableShape DEF TableFits
  <2> HIDE DEF s, B
  <2> QED
    BY <1>6, <2>1, AliasKeeps, AliasFits
<1>7. AliasClosed(T, s)
  BY <1>4, <1>5, <1>6 DEF AliasClosed
<1>8. RegisterAliases(s) \in T
  <2> HIDE DEF T, s
  <2>1. \E g \in [0..Len(s) -> T] : RegisterAliases(s) = g[Len(s)]
    BY <1>7, AliasWalk
  <2> QED
    BY <1>5, <2>1
<1> QED
  BY <1>8 DEF RegisterAll

-----------------------------------------------------------------------------
(* The table fits what was asked for, in every state.                      *)

FitInv == TableFits(table, Asked)

LEMMA AskedTyped == Asked \subseteq RequestSet
  BY RequestsAssumption, StandardTyped DEF Asked

LEMMA FitStep == TypeInv /\ FitInv /\ [RegNext]_regVars => FitInv'
<1> SUFFICES ASSUME TypeInv, FitInv, [RegNext]_regVars PROVE FitInv'
  OBVIOUS
<1>0. table \in Tables /\ TableFits(table, Asked) /\ Asked \subseteq RequestSet
  BY AskedTyped DEF TypeInv, FitInv
<1>1. CASE RegisterBuiltin
  <2>1. PICK r \in Requests :
            /\ said' = IF RegisterAt(table, r.name) # 0 THEN said \cup {r} ELSE said
            /\ table' = Apply(table, r)
            /\ library' = IF library = "absent" THEN library ELSE "mixed"
    BY <1>1 DEF RegisterBuiltin, Says
  <2>2. r \in RequestSet
    BY RequestsAssumption
  <2>3. Asked' = IF RegisterAt(table, r.name) # 0 THEN Asked \cup {r} ELSE Asked
    BY <2>1 DEF Asked
  <2>4. CASE RegisterAt(table, r.name) # 0
    BY <1>0, <2>1, <2>2, <2>3, <2>4, ApplyFits DEF FitInv
  <2>5. CASE RegisterAt(table, r.name) = 0
    <3>1. Wrote(table, Apply(table, r), RegisterAt(table, r.name),
                After(r, Old(table, r.name, r.fn)))
      BY <1>0, <2>2, ApplyWrites
    <3>2. table' = table
      BY <2>1, <2>5, <3>1 DEF Wrote
    <3> QED
      BY <1>0, <2>3, <2>5, <3>2 DEF FitInv
  <2> QED
    BY <2>4, <2>5
<1>2. CASE RegisterStandard
  <2>1. table' = RegisterAll(table) /\ said' = said /\ library' = "settled"
    BY <1>2 DEF RegisterStandard
  <2>2. Asked' = Asked \cup Library
    BY <2>1 DEF Asked, Library
  <2> QED
    BY <1>0, <2>1, <2>2, StandardFits DEF FitInv
<1>3. CASE RegisterVector \/ RegisterTaps \/ Bind
  <2>1. PICK r \in FilterRequests :
            /\ r.api \in {"vector", "taps", "bind"} /\ said' = said \cup {r}
            /\ UNCHANGED <<table, library>>
    BY <1>3 DEF RegisterVector, RegisterTaps, Bind, Says
  <2>2. r \notin Requests
    BY <2>1, RequestsAssumption, RequestShape
  <2>3. Asked' = Asked
    BY <2>1, <2>2 DEF Asked
  <2> QED
    BY <1>0, <2>1, <2>3 DEF FitInv
<1>4. CASE Cleanup
  <2>1. table' = <<>> /\ Asked' = {}
    BY <1>4 DEF Cleanup, Asked
  <2> QED
    BY <2>1 DEF FitInv, TableFits
<1>5. CASE Compile \/ Execute \/ UNCHANGED regVars
  <2>1. UNCHANGED <<table, said, library>>
    BY <1>5 DEF Compile, Execute, regVars
  <2>2. Asked' = Asked
    BY <2>1 DEF Asked
  <2> QED
    BY <1>0, <2>1, <2>2 DEF FitInv
<1> QED
  BY <1>1, <1>2, <1>3, <1>4, <1>5 DEF RegNext

LEMMA FitAlways == RegSpec => []FitInv
<1>1. RegInit => FitInv
  BY DEF RegInit, FitInv, TableFits, Asked
<1> QED
  BY <1>1, FitStep, TypeAlways, PTL DEF RegSpec

(* Where users agree on a stem, all its entries hold functions of one kind *)
(* that want one ctx.                                                      *)
LEMMA SameStem ==
    ASSUME NEW A, A \subseteq RequestSet, NEW t \in Tables, TableFits(t, A),
           NEW i \in DOMAIN t, NEW j \in DOMAIN t, t[j].name.stem = t[i].name.stem,
           AgreedIn(A, t[i].name.stem)
    PROVE  t[j].fn.kind = t[i].fn.kind /\ t[j].fn.ctx = t[i].fn.ctx
<1>1. PICK r \in A : Origin(r, t[i])
  BY DEF TableFits, EntryFits
<1>2. PICK s \in A : Origin(s, t[j])
  BY DEF TableFits, EntryFits
<1>3. /\ r.fn = t[i].fn /\ r.name.stem = t[i].name.stem
      /\ r.name = t[i].name \/ (r.name.full /\ ~t[i].name.full)
      /\ s.fn = t[j].fn /\ s.name.stem = t[i].name.stem
      /\ s.name = t[j].name \/ (s.name.full /\ ~t[j].name.full)
  BY <1>1, <1>2 DEF Origin
<1>4. r.fn.kind = s.fn.kind
  BY <1>3 DEF AgreedIn
<1>5. CASE r.api = "spectral"
  <2>1. s.name = r.name /\ ~r.name.full
    BY <1>3, <1>5 DEF AgreedIn
  <2>2. t[i].name = t[j].name
    BY <1>3, <2>1
  <2>3. i = j
    BY <2>2, TableShape DEF Distinct
  <2> QED
    BY <2>3
<1>6. CASE r.api # "spectral"
  <2>1. s.api # "spectral"
    BY <1>3, <1>6 DEF AgreedIn
  <2>2. r.fn.ctx = "null" /\ s.fn.ctx = "null"
    BY <1>6, <2>1, RequestShape
  <2> QED
    BY <1>3, <1>4, <2>2
<1> QED
  BY <1>5, <1>6

LEMMA CoveredPair ==
    ASSUME FitInv, NEW i \in DOMAIN table, PairsOf(table[i].name) # {},
           \A r \in PairsOf(table[i].name) : r.f64 # Nothing
    PROVE  table[i].f64 # Nothing
<1> SUFFICES ASSUME table[i].f64 = Nothing PROVE FALSE
  OBVIOUS
<1>1. PICK r \in Asked : Pair(r) /\ r.name = table[i].name
  BY DEF PairsOf, Pair
<1>2. FloatAlone(Asked, table[i].name)
  BY <1>1 DEF FitInv, TableFits, EntryFits
<1> QED
  BY <1>2 DEF FloatAlone, PairsOf, Pair

(* The function an index means.                                            *)
LEMMA FunctionFits ==
    ASSUME TypeInv, FitInv, NEW i \in DOMAIN table, NEW prec \in Precisions,
           AgreedIn(Asked, table[i].name.stem), Covered(table[i].name, prec)
    PROVE  LET fn == FnFor(i, prec)
               e  == table[i]
           IN  /\ fn # Nothing /\ fn.stem = e.name.stem /\ fn.prec = prec
               /\ fn.kind = e.kind /\ fn.ctx = e.ctx
<1> DEFINE e == table[i]
           other == [e.name EXCEPT !.prec = prec]
           j == Lookup(table, other)
<1>0. table \in Tables /\ TableFits(table, Asked) /\ Asked \subseteq RequestSet
      /\ table \in Seq(Entries)
  BY AskedTyped DEF TypeInv, FitInv, Tables
<1>1. e \in Entries /\ EntryFits(e, Asked)
  BY <1>0, TableShape DEF TableFits
<1>2. /\ e.fn \in Functions /\ e.f64 \in Functions \cup {Nothing} /\ e.name \in Names
      /\ e.kind = e.fn.kind /\ e.ctx = e.fn.ctx
      /\ e.f64 # Nothing => e.f64.kind = e.fn.kind /\ e.f64.ctx = e.fn.ctx
  BY <1>1 DEF Entries, EntryFits
<1>3. ASSUME NEW k \in DOMAIN table
      PROVE  table[k].fn.stem = table[k].name.stem /\ table[k].fn.prec = Suffix(table[k].name)
             /\ table[k].fn \in Functions
  <2>1. EntryFits(table[k], Asked) /\ table[k] \in Entries
    BY <1>0, TableShape DEF TableFits
  <2>2. PICK r \in Asked : r.fn = table[k].fn /\ r.name.stem = table[k].name.stem
    BY <2>1 DEF EntryFits, Origin
  <2>3. r.fn.stem = r.name.stem
    BY <1>0, RequestShape
  <2> QED
    BY <2>1, <2>2, <2>3 DEF EntryFits, Entries
<1>4. ASSUME e.f64 # Nothing PROVE e.f64.stem = e.name.stem /\ e.f64.prec = "f64"
  <2>1. PICK r \in Asked : r.name = e.name /\ r.f64 = e.f64
    BY <1>1, <1>4 DEF EntryFits, PairOf
  <2>2. r.f64.stem = r.name.stem /\ r.f64.prec = "f64"
    BY <1>0, <1>4, <2>1, RequestShape
  <2> QED
    BY <2>1, <2>2
<1>5. other.stem = e.name.stem /\ other.prec = prec
  BY <1>2 DEF Names
<1>6. j # 0 => /\ j \in DOMAIN table /\ table[j].name = other
              /\ table[j].fn.kind = e.fn.kind /\ table[j].fn.ctx = e.fn.ctx
  <2>1. j # 0 => j \in DOMAIN table /\ table[j].name = other
    BY <1>0, Found
  <2> HIDE DEF j, other
  <2>2. j # 0 => table[j].name.stem = table[i].name.stem
    BY <1>5, <2>1
  <2> QED
    BY <1>0, <2>1, <2>2, SameStem
<1>7. FnFor(i, prec) = IF prec = "f64" /\ e.f64 # Nothing THEN e.f64
                       ELSE IF e.name.prec = "" /\ j # 0 THEN table[j].fn ELSE e.fn
  BY DEF FnFor
<1>8. Nothing \notin Functions
  BY DEF Nothing, Functions
<1>9. prec \in {"f32", "f64"}
  BY DEF Precisions
<1>10. \/ e.name.prec = prec
       \/ e.name.prec = "" /\ prec = "f32"
       \/ e.name.prec = "" /\ prec = "f64" /\ (j # 0 \/ e.f64 # Nothing)
  <2>1. CASE e.name.prec = prec \/ (e.name.prec = "" /\ prec = "f32")
    BY <2>1
  <2>2. CASE ~(e.name.prec = prec \/ (e.name.prec = "" /\ prec = "f32"))
    <3>1. /\ e.name.prec = "" /\ prec = "f64"
          /\ \/ Lookup(table, [e.name EXCEPT !.prec = "f64"]) # 0
             \/ PairsOf(e.name) # {} /\ \A r \in PairsOf(e.name) : r.f64 # Nothing
      BY <2>2 DEF Covered
    <3>2. CASE Lookup(table, [e.name EXCEPT !.prec = "f64"]) # 0
      BY <3>1, <3>2
    <3>3. CASE PairsOf(e.name) # {} /\ \A r \in PairsOf(e.name) : r.f64 # Nothing
      BY <3>1, <3>3, CoveredPair
    <3> QED
      BY <3>1, <3>2, <3>3
  <2> QED
    BY <2>1, <2>2
<1> DEFINE fn == FnFor(i, prec)
<1>11. CASE prec = "f64" /\ e.f64 # Nothing
  <2>1. fn = e.f64
    BY <1>7, <1>11
  <2> HIDE DEF fn, e
  <2>2. fn # Nothing /\ fn.stem = e.name.stem /\ fn.prec = prec
        /\ fn.kind = e.kind /\ fn.ctx = e.ctx
    BY <1>2, <1>4, <1>11, <2>1
  <2> QED
    BY <2>2 DEF fn, e
<1>12. CASE ~(prec = "f64" /\ e.f64 # Nothing) /\ e.name.prec = "" /\ j # 0
  <2>1. fn = table[j].fn
    BY <1>7, <1>12
  <2>2. table[j].fn.prec = prec
    <3>1. Suffix(other) = prec
      BY <1>5, <1>9 DEF Suffix
    <3> QED
      BY <1>3, <1>6, <1>12, <3>1
  <2>3. table[j].fn # Nothing /\ table[j].fn.stem = e.name.stem
    BY <1>3, <1>5, <1>6, <1>8, <1>12
  <2> HIDE DEF fn, e
  <2>4. fn # Nothing /\ fn.stem = e.name.stem /\ fn.prec = prec
        /\ fn.kind = e.kind /\ fn.ctx = e.ctx
    BY <1>2, <1>6, <1>12, <2>1, <2>2, <2>3
  <2> QED
    BY <2>4 DEF fn, e
<1>13. CASE ~(prec = "f64" /\ e.f64 # Nothing) /\ ~(e.name.prec = "" /\ j # 0)
  <2>1. fn = e.fn
    BY <1>7, <1>13
  <2>2. e.fn.prec = prec
    BY <1>3, <1>9, <1>10, <1>13 DEF Suffix
  <2>3. e.fn # Nothing /\ e.fn.stem = e.name.stem
    BY <1>3, <1>8
  <2> HIDE DEF fn, e
  <2>4. fn # Nothing /\ fn.stem = e.name.stem /\ fn.prec = prec
        /\ fn.kind = e.kind /\ fn.ctx = e.ctx
    BY <1>2, <2>1, <2>2, <2>3
  <2> QED
    BY <2>4 DEF fn, e
<1> QED
  BY <1>11, <1>12, <1>13

(* What an execution calls, in terms of the entry its index means.         *)
LEMMA CallShape ==
    ASSUME TypeInv, ProgInv, CallInv, call # Nothing
    PROVE  LET e == table[prog.idx]
               fn == FnFor(prog.idx, prog.prec)
           IN  /\ prog # Nothing /\ prog.prec \in Precisions
               /\ \/ /\ prog.idx \in DOMAIN table /\ fn # Nothing /\ e.kind # "other"
                     /\ call.as # "no call" /\ call.as = Signature(e.kind)
                     /\ call.prec = prog.prec /\ call.fn = fn
                     /\ call.as = "spectral" => call.ctx = e.ctx
                  \/ /\ call.as = "no call"
                     /\ prog.idx \in DOMAIN table =>
                           \/ fn = Nothing \/ e.kind = "other"
                           \/ /\ prog.prec = "f64" /\ e.kind \in {"spectral", "hermitian"}
                              /\ e.f64 = Nothing
<1> DEFINE i == prog.idx
           p == prog.prec
           e == table[i]
           fn == FnFor(i, p)
           refused == \/ fn = Nothing \/ KindOf(i) = "other"
                      \/ /\ p = "f64" /\ KindOf(i) \in {"spectral", "hermitian"}
                         /\ e.f64 = Nothing
           does == [as |-> IF KindOf(i) = "hermitian" THEN "spectral" ELSE KindOf(i),
                    prec |-> p, fn |-> fn,
                    ctx |-> IF KindOf(i) \in {"spectral", "hermitian"} THEN e.ctx ELSE "null"]
<1>1. prog # Nothing /\ p \in Precisions
  BY DEF CallInv, ProgInv, IsProg
<1>2. CallOf(i, p) = IF refused THEN Nothing ELSE does
  BY DEF CallOf
<1>3. i \notin DOMAIN table => KindOf(i) = "other"
  BY DEF KindOf
<1>4. i \in DOMAIN table => KindOf(i) = e.kind
  BY DEF KindOf
<1>5. does # Nothing
  BY DEF Nothing
<1>6. call = IF refused THEN [as |-> "no call"] ELSE does
  BY <1>2, <1>5 DEF CallInv
<1> HIDE DEF fn, e, i, p
<1>7. CASE refused
  <2>1. call.as = "no call"
    BY <1>6, <1>7
  <2> QED
    BY <1>1, <1>4, <1>7, <2>1 DEF fn, e, i, p
<1>8. CASE ~refused
  <2>1. /\ call.as = (IF KindOf(i) = "hermitian" THEN "spectral" ELSE KindOf(i))
        /\ call.prec = p /\ call.fn = fn
        /\ call.ctx = IF KindOf(i) \in {"spectral", "hermitian"} THEN e.ctx ELSE "null"
    BY <1>6, <1>8
  <2>2. i \in DOMAIN table /\ KindOf(i) = e.kind /\ fn # Nothing /\ e.kind # "other"
    BY <1>3, <1>4, <1>8
  <2>3. call.as = Signature(e.kind) /\ (call.as = "spectral" => call.ctx = e.ctx)
    BY <2>1, <2>2 DEF Signature
  <2>4. e.kind \in Kinds
    BY <2>2, TableShape DEF TypeInv, Entries, e
  <2>5. call.as # "no call"
    BY <2>3, <2>4 DEF Signature, Kinds
  <2> QED
    BY <1>1, <2>1, <2>2, <2>3, <2>5 DEF fn, e, i, p
<1> QED
  BY <1>7, <1>8

(* Whatever was registered, over what and in what order, and however often *)
(* the registry was emptied and filled again: a function that is called is *)
(* called with the signature, the precision and the ctx it was registered  *)
(* with, where the user keeps to one kind, one spectral name and the right *)
(* precision (chirp_apply_split_f32, chirp.c:446-470).                     *)
THEOREM CallsFit == RegSpec => []CallFits
<1>1. TypeInv /\ ProgInv /\ CallInv /\ FitInv => CallFits
  <2> SUFFICES ASSUME TypeInv, ProgInv, CallInv, FitInv, call # Nothing, call.as # "no call",
                      Agreed(table[prog.idx].name.stem),
                      Covered(table[prog.idx].name, prog.prec)
               PROVE  Fitting
    BY DEF CallFits
  <2> DEFINE e == table[prog.idx]
             fn == FnFor(prog.idx, prog.prec)
  <2>1. /\ prog.idx \in DOMAIN table /\ prog.prec \in Precisions
        /\ call.as = Signature(e.kind) /\ call.prec = prog.prec /\ call.fn = fn
        /\ call.as = "spectral" => call.ctx = e.ctx
    BY CallShape
  <2>2. AgreedIn(Asked, e.name.stem)
    BY DEF Agreed, AgreedIn
  <2>3. fn.prec = prog.prec /\ fn.kind = e.kind /\ fn.ctx = e.ctx
    BY <2>1, <2>2, FunctionFits
  <2> HIDE DEF e, fn
  <2> QED
    BY <2>1, <2>3 DEF Fitting
<1> QED
  BY <1>1, TypeAlways, ProgAlways, FitAlways, PTL

(* And a program compiled since the last cleanup calls a function of the   *)
(* stem it names, unless that has no signature, or is a spectral one given *)
(* for float alone that a double program calls (chirp.c:304, 517).         *)
THEOREM CallsServed == RegSpec => []CallServed
<1>1. TypeInv /\ ProgInv /\ CallInv /\ FitInv => CallServed
  <2> SUFFICES ASSUME TypeInv, ProgInv, CallInv, FitInv, call # Nothing, prog.fresh,
                      Agreed(prog.name.stem), Covered(prog.name, prog.prec)
               PROVE  \/ call.as # "no call" /\ call.fn.stem = prog.name.stem
                      \/ \E r \in Asked :
                             /\ r.name.stem = prog.name.stem
                             /\ \/ r.fn.kind = "other"
                                \/ /\ prog.prec = "f64" /\ r.fn.kind \in {"spectral", "hermitian"}
                                   /\ r.f64 = Nothing
    BY DEF CallServed
  <2> DEFINE e == table[prog.idx]
             fn == FnFor(prog.idx, prog.prec)
  <2>1. prog.idx \in DOMAIN table /\ e.name = prog.name /\ prog.prec \in Precisions
    BY CallShape DEF ProgInv, Placed
  <2>2. AgreedIn(Asked, e.name.stem) /\ Covered(e.name, prog.prec)
    BY <2>1 DEF Agreed, AgreedIn
  <2>3. fn # Nothing /\ fn.stem = e.name.stem
    BY <2>1, <2>2, FunctionFits
  <2>4. \/ call.as # "no call" /\ call.fn = fn
        \/ e.kind = "other"
        \/ prog.prec = "f64" /\ e.kind \in {"spectral", "hermitian"} /\ e.f64 = Nothing
    BY <2>1, <2>3, CallShape
  <2>5. EntryFits(e, Asked)
    BY <2>1 DEF FitInv, TableFits
  <2>6. PICK r \in Asked : Origin(r, e)
    BY <2>5 DEF EntryFits
  <2>7. r.name.stem = prog.name.stem /\ r.fn.kind = e.kind
    BY <2>1, <2>2, <2>5, <2>6 DEF Origin, EntryFits
  <2> HIDE DEF e, fn
  <2>8. CASE call.as # "no call" /\ call.fn = fn
    BY <2>1, <2>3, <2>8
  <2>9. CASE e.kind = "other"
    BY <2>7, <2>9
  <2>10. CASE prog.prec = "f64" /\ e.kind \in {"spectral", "hermitian"} /\ e.f64 = Nothing
    <3>1. CASE ~Pair(r)
      <4>1. r.f64 = Nothing
        BY <3>1, AskedTyped, RequestShape
      <4> QED
        BY <2>7, <2>10, <4>1
    <3>2. CASE Pair(r)
      <4>1. r.api = "spectral"
        BY <2>7, <2>10, <3>2, AskedTyped, RequestShape DEF Pair
      <4>2. ~r.name.full
        BY <2>1, <2>2, <2>7, <4>1 DEF AgreedIn
      <4>3. r.name = e.name
        BY <2>6, <4>2 DEF Origin
      <4>4. PICK s \in Asked : s.name = e.name /\ s.f64 = Nothing
        BY <2>5, <2>10, <3>2, <4>3 DEF EntryFits, FloatAlone
      <4>5. s.fn.kind = r.fn.kind /\ s.name.stem = prog.name.stem
        BY <2>1, <2>2, <4>3, <4>4 DEF AgreedIn
      <4> QED
        BY <2>7, <2>10, <4>4, <4>5
    <3> QED
      BY <3>1, <3>2
  <2> QED
    BY <2>4, <2>8, <2>9, <2>10
<1> QED
  BY <1>1, TypeAlways, ProgAlways, FitAlways, PTL

-----------------------------------------------------------------------------
(* Registering the standard builtins once more.                            *)

(* The table z is u after entries of these names got this function and     *)
(* kind.                                                                   *)
Did(u, z, names, fn, kind) ==
    /\ DOMAIN u \subseteq DOMAIN z
    /\ \A j \in DOMAIN z : IF z[j].name \in names THEN z[j].fn = fn /\ z[j].kind = kind
                           ELSE j \in DOMAIN u /\ z[j] = u[j]
    /\ \A j \in DOMAIN u : z[j].name = u[j].name /\ z[j].f64 = u[j].f64 /\ z[j].ctx = u[j].ctx
    /\ \A name \in names : \E j \in DOMAIN z : z[j].name = name

Has(t, name) == \E j \in DOMAIN t : t[j].name = name

LEMMA RegisterExDid ==
    ASSUME NEW u \in Tables, Len(u) < MaxBuiltins,
           NEW name \in Names, NEW fn \in Functions, NEW kind \in Kinds
    PROVE  LET z == RegisterEx(u, name, fn, kind)
           IN  Did(u, z, {name}, fn, kind) /\ (Has(u, name) => Len(z) = Len(u))
<1> DEFINE z == RegisterEx(u, name, fn, kind)
           o == Old(u, name, fn)
           at == RegisterAt(u, name)
           e == [o EXCEPT !.fn = fn, !.kind = kind]
<1>1. e \in Entries /\ Wrote(u, z, at, e)
  BY RegisterExWrites
<1>2. z \in Tables
  BY RegisterExKeeps
<1>3. at # 0 /\ \/ at \in DOMAIN u /\ u[at].name = name
                \/ at \notin DOMAIN u /\ ~Has(u, name)
  <2>1. ~(Len(u) = MaxBuiltins)
    BY TableShape, LimitsAssumption
  <2> QED
    BY <2>1, WhereAt DEF Has
<1>4. /\ DOMAIN z = DOMAIN u \cup {at} /\ z[at] = e
      /\ \A j \in DOMAIN u : j # at => z[j] = u[j]
  BY <1>1, <1>3 DEF Wrote
<1>5. /\ e.name = name /\ e.fn = fn /\ e.kind = kind
      /\ at \in DOMAIN u => e.f64 = u[at].f64 /\ e.ctx = u[at].ctx
  <2>1. o \in Entries /\ o.name = name /\ (at \in DOMAIN u => o = u[at])
    BY OldEntry
  <2> HIDE DEF o
  <2> QED
    BY <2>1 DEF Entries
<1>6. Distinct(z) /\ Distinct(u)
  BY <1>2, TableShape
<1> HIDE DEF e, at, z
<1>7. \A j \in DOMAIN z : z[j].name = name => j = at
  BY <1>4, <1>5, <1>6 DEF Distinct
<1>8. Did(u, z, {name}, fn, kind)
  BY <1>3, <1>4, <1>5, <1>7 DEF Did
<1>9. Has(u, name) => Len(z) = Len(u)
  <2>1. Has(u, name) => DOMAIN z = DOMAIN u
    BY <1>3, <1>4
  <2> QED
    BY <1>2, <2>1, TableShape
<1> QED
  BY <1>8, <1>9 DEF z

(* The names an entry's aliases have.                                      *)
Targets(e) == {Stripped(e.name)} \cup IF e.name.prec = "f32" THEN {BareOf(e.name)} ELSE {}

LEMMA AliasDid ==
    ASSUME NEW u \in Tables, Len(u) < MaxBuiltins, NEW e \in Entries,
           \/ Len(AliasEntry(u, e)) < MaxBuiltins
           \/ \A name \in Targets(e) : Has(u, name)
    PROVE  LET z == AliasEntry(u, e)
           IN  /\ Did(u, z, Targets(e), e.fn, e.kind)
               /\ (\A name \in Targets(e) : Has(u, name)) => Len(z) = Len(u)
<1> DEFINE a == Stripped(e.name)
           b == BareOf(e.name)
           r == RegisterEx(u, a, e.fn, e.kind)
           q == RegisterEx(r, b, e.fn, e.kind)
           z == AliasEntry(u, e)
<1>1. a \in Names /\ b \in Names /\ e.fn \in Functions /\ e.kind \in Kinds
  BY AliasNames
<1>2. z = IF e.name.prec = "f32" THEN q ELSE r
  BY AliasNames
<1>3. r \in Tables /\ Len(u) <= Len(r)
  BY <1>1, RegisterExKeeps
<1>4. Did(u, r, {a}, e.fn, e.kind) /\ (Has(u, a) => Len(r) = Len(u))
  BY <1>1, RegisterExDid
<1>5. CASE e.name.prec # "f32"
  <2>1. z = r /\ Targets(e) = {a}
    BY <1>2, <1>5 DEF Targets
  <2> QED
    BY <1>4, <2>1
<1>6. CASE e.name.prec = "f32"
  <2>1. z = q /\ Targets(e) = {a, b}
    BY <1>2, <1>6 DEF Targets
  <2> HIDE DEF r
  <2>2. q \in Tables /\ Len(r) <= Len(q)
    BY <1>1, <1>3, RegisterExKeeps
  <2>3. Len(r) < MaxBuiltins
    <3>1. Len(q) < MaxBuiltins \/ Has(u, a)
      BY <2>1
    <3>2. Len(r) \in Nat /\ Len(q) \in Nat /\ MaxBuiltins \in Nat
      BY <1>3, <2>2, TableShape, LimitsAssumption
    <3> QED
      BY <1>4, <2>2, <3>1, <3>2
  <2>4. Did(r, q, {b}, e.fn, e.kind) /\ (Has(r, b) => Len(q) = Len(r))
    BY <1>1, <1>3, <2>3, RegisterExDid
  <2> HIDE DEF q, a, b, z
  <2>5. Did(u, q, {a, b}, e.fn, e.kind)
    BY <1>4, <2>4 DEF Did
  <2>6. Has(u, b) => Has(r, b)
    BY <1>4 DEF Did, Has
  <2>7. Has(u, a) /\ Has(u, b) => Len(q) = Len(u)
    BY <1>4, <2>4, <2>6
  <2> QED
    BY <2>1, <2>5, <2>7 DEF z
<1> QED
  BY <1>5, <1>6

(* Nothing changes in a table that is full.                                *)
LEMMA FullStays ==
    ASSUME NEW t \in Tables, ~(Len(t) < MaxBuiltins)
    PROVE  RegisterAll(t) = t
<1>1. Len(t) \in Nat /\ DOMAIN t = 1..Len(t) /\ \A i \in DOMAIN t : t[i] \in Entries
  BY TableShape
<1>2. \A name : RegisterAt(t, name) = 0
  <2>1. Len(t) >= MaxBuiltins
    BY <1>1, LimitsAssumption
  <2> QED
    BY <2>1 DEF RegisterAt
<1>3. ASSUME NEW r \in RequestSet PROVE Apply(t, r) = t
  <2>1. Wrote(t, Apply(t, r), RegisterAt(t, r.name), After(r, Old(t, r.name, r.fn)))
    BY ApplyWrites
  <2> QED
    BY <1>2, <2>1 DEF Wrote
<1>4. ASSUME NEW e \in Entries PROVE AliasEntry(t, e) = t
  <2>1. \A name, fn, kind : RegisterEx(t, name, fn, kind) = t
    BY <1>2 DEF RegisterEx, Register
  <2> QED
    BY <2>1 DEF AliasEntry
<1>5. ApplyStandard(t) = t
  <2>1. \A u \in {t} : \A k \in DOMAIN StandardRequests : Apply(u, StandardRequests[k]) \in {t}
    BY <1>3, StandardTyped
  <2>2. PICK g \in [0..Len(StandardRequests) -> {t}] : ApplyStandard(t) = g[Len(StandardRequests)]
    BY <2>1, StandardWalk
  <2> QED
    BY <2>2, StandardTyped
<1>6. RegisterAliases(t) = t
  <2>1. AliasClosed({t}, t)
    BY <1>1, <1>4 DEF AliasClosed
  <2>2. PICK g \in [0..Len(t) -> {t}] : RegisterAliases(t) = g[Len(t)]
    BY <2>1, AliasWalk
  <2> QED
    BY <1>1, <2>2
<1> QED
  BY <1>5, <1>6 DEF RegisterAll

(* What a table is after the requests of the library: each has its entry,  *)
(* with its function and, where the request gives one, its kind.           *)
Holds(t, r) ==
    \E j \in DOMAIN t : t[j].name = r.name /\ t[j].fn = r.fn
                       /\ (r.api = "ex" => t[j].kind = r.fn.kind)
StandardDone(t) == \A k \in DOMAIN StandardRequests : Holds(t, StandardRequests[k])

LEMMA StandardApart ==
    ASSUME NEW i \in DOMAIN StandardRequests, NEW k \in DOMAIN StandardRequests, i # k
    PROVE  StandardRequests[i].name # StandardRequests[k].name
<1>1. SUFFICES ASSUME StandardRequests[i].name = StandardRequests[k].name PROVE FALSE
  OBVIOUS
<1>2. (i + 1) \div 2 = (k + 1) \div 2
  BY <1>1, StandardTyped, StandardAssumption
<1>3. (i % 2 = 1) <=> (k % 2 = 1)
  BY <1>1, StandardTyped
<1>4. i \in Nat /\ k \in Nat
  BY StandardTyped
<1> QED
  BY <1>2, <1>3, <1>4

LEMMA ApplyHolds ==
    ASSUME NEW t \in Tables, Len(t) < MaxBuiltins, NEW r \in RequestSet,
           r.api \in {"plain", "ex"}
    PROVE  /\ Holds(Apply(t, r), r)
           /\ \A q : q.name # r.name /\ Holds(t, q) => Holds(Apply(t, r), q)
<1> DEFINE at == RegisterAt(t, r.name)
           u == Apply(t, r)
           o == Old(t, r.name, r.fn)
           e == After(r, o)
<1>1. Wrote(t, u, at, e)
  BY ApplyWrites
<1>2. at # 0 /\ (at \in DOMAIN t => t[at].name = r.name)
  <2>1. ~(Len(t) = MaxBuiltins)
    BY TableShape, LimitsAssumption
  <2> QED
    BY <2>1, WhereAt
<1>3. e.name = r.name /\ e.fn = r.fn /\ (r.api = "ex" => e.kind = r.fn.kind)
  BY RequestShape, OldEntry, AfterFields
<1>4. /\ DOMAIN u = DOMAIN t \cup {at} /\ u[at] = e
      /\ \A j \in DOMAIN t : j # at => u[j] = t[j]
  BY <1>1, <1>2 DEF Wrote
<1> HIDE DEF u, at, e
<1>5. Holds(u, r)
  BY <1>3, <1>4 DEF Holds
<1>6. ASSUME NEW q, q.name # r.name, Holds(t, q) PROVE Holds(u, q)
  <2>1. PICK j \in DOMAIN t : t[j].name = q.name /\ t[j].fn = q.fn
                             /\ (q.api = "ex" => t[j].kind = q.fn.kind)
    BY <1>6 DEF Holds
  <2>2. j # at
    BY <1>2, <1>6, <2>1
  <2>3. j \in DOMAIN u /\ u[j] = t[j]
    BY <1>4, <2>2
  <2> QED
    BY <2>1, <2>3 DEF Holds
<1> QED
  BY <1>5, <1>6 DEF u

LEMMA StandardReached ==
    ASSUME NEW t \in Tables, Len(ApplyStandard(t)) < MaxBuiltins
    PROVE  StandardDone(ApplyStandard(t))
<1> DEFINE rs == StandardRequests
           n == Len(rs)
<1>1. n \in Nat /\ DOMAIN rs = 1..n
      /\ \A k \in 1..n : rs[k] \in RequestSet /\ rs[k].api \in {"plain", "ex"}
  BY StandardTyped
<1>2. PICK g \in [0..n -> Tables] :
         /\ \A k \in 1..n : g[k] = Apply(g[k - 1], rs[k])
         /\ ApplyStandard(t) = g[n]
  <2>1. \A u \in Tables : \A k \in DOMAIN rs : Apply(u, rs[k]) \in Tables
    BY <1>1, ApplyKeeps
  <2>2. \E g \in [0..Len(StandardRequests) -> Tables] :
           /\ g[0] = t
           /\ \A k \in DOMAIN StandardRequests : g[k] = Apply(g[k - 1], StandardRequests[k])
           /\ ApplyStandard(t) = g[Len(StandardRequests)]
    <3> HIDE DEF n
    <3> QED
      BY <2>1, StandardWalk
  <2>3. DOMAIN StandardRequests = 1..n
    BY <1>1
  <2> QED
    BY <2>2, <2>3
<1>3. \A i, k \in 1..n : i # k => rs[i].name # rs[k].name
  BY <1>1, StandardApart
<1> HIDE DEF rs, n
<1> DEFINE P == {k \in 0..n : Len(g[k]) < MaxBuiltins => \A i \in 1..k : Holds(g[k], rs[i])}
<1>4. 0 \in P
  BY <1>1
<1>5. ASSUME NEW k \in 0..n, k \in P, k < n PROVE k + 1 \in P
  <2>1. k + 1 \in 1..n /\ k + 1 \in 0..n /\ (k + 1) - 1 = k
    BY <1>1, <1>5
  <2>2. g[k + 1] = Apply(g[k], rs[k + 1]) /\ g[k] \in Tables /\ rs[k + 1] \in RequestSet
    BY <1>1, <1>2, <2>1
  <2>3. SUFFICES ASSUME Len(g[k + 1]) < MaxBuiltins, NEW i \in 1..k + 1
                 PROVE  Holds(g[k + 1], rs[i])
    BY <2>1
  <2>4. Len(g[k]) < MaxBuiltins
    <3>1. Len(g[k]) <= Len(g[k + 1])
      BY <2>2, ApplyKeeps
    <3> QED
      BY <1>2, <2>1, <2>3, <3>1, TableShape, LimitsAssumption
  <2>5. CASE i = k + 1
    BY <1>1, <2>1, <2>2, <2>4, <2>5, ApplyHolds
  <2>6. CASE i # k + 1
    <3>1. i \in 1..k /\ i \in 1..n
      BY <1>1, <1>5, <2>6
    <3>2. Holds(g[k], rs[i])
      BY <1>5, <2>4, <3>1
    <3>3. rs[i].name # rs[k + 1].name
      BY <1>3, <2>1, <2>6, <3>1
    <3> QED
      BY <1>1, <2>1, <2>2, <2>4, <3>2, <3>3, ApplyHolds
  <2> QED
    BY <2>5, <2>6
<1>6. n \in P
  <2> HIDE DEF P
  <2>1. \A k \in 0..n : k \in P
    BY <1>1, <1>4, <1>5, UpTo
  <2> QED
    BY <1>1, <2>1
<1> QED
  BY <1>1, <1>2, <1>6 DEF StandardDone, rs

(* And after the aliases: the names of each full entry have entries with   *)
(* its function and kind, or with those of a later one.                    *)
Aliases(t, m, name) == t[m].name.full /\ name \in Targets(t[m])
Made(u, t, m, k) ==
    t[m].name.full =>
        \A name \in Targets(t[m]) :
            \E j \in DOMAIN u :
                /\ u[j].name = name
                /\ \/ u[j].fn = t[m].fn /\ u[j].kind = t[m].kind
                   \/ \E l \in m + 1..k : Aliases(t, l, name)
AliasesDone(t) == \A m \in DOMAIN t : Made(t, t, m, Len(t))

(* The aliases leave the full entries of t as they are, and make no other. *)
FullKept(t, u) ==
    /\ \A j \in DOMAIN t : j \in DOMAIN u /\ (t[j].name.full => u[j] = t[j])
    /\ \A j \in DOMAIN u : u[j].name.full => j \in DOMAIN t /\ u[j] = t[j]

LEMMA AliasDoes ==
    ASSUME NEW t \in Tables, NEW u \in Tables, FullKept(t, u),
           NEW k \in DOMAIN t, t[k].name.full, \A m \in 1..k - 1 : Made(u, t, m, k - 1),
           NEW z, z = AliasEntry(u, t[k]), Len(u) < MaxBuiltins, Len(z) < MaxBuiltins
    PROVE  FullKept(t, z) /\ \A m \in 1..k : Made(z, t, m, k)
<1> DEFINE e == t[k]
<1>1. t \in Tables /\ DOMAIN t = 1..Len(t) /\ Len(t) \in Nat /\ e \in Entries /\ k \in Nat
  BY TableShape
<1>2. Did(u, z, Targets(e), e.fn, e.kind)
  BY <1>1, AliasDid
<1>3. \A name \in Targets(e) : ~name.full
  BY <1>1, AliasNames DEF Targets
<1> HIDE DEF e
<1>4. FullKept(t, z)
  BY <1>2, <1>3 DEF FullKept, Did
<1>5. ASSUME NEW m \in 1..k, t[m].name.full, NEW name \in Targets(t[m])
      PROVE  \E j \in DOMAIN z : /\ z[j].name = name
                                 /\ \/ z[j].fn = t[m].fn /\ z[j].kind = t[m].kind
                                    \/ \E l \in m + 1..k : Aliases(t, l, name)
  <2>1. CASE m = k
    <3>1. PICK j \in DOMAIN z : z[j].name = name
      BY <1>2, <1>5, <2>1 DEF Did, e
    <3>2. z[j].fn = e.fn /\ z[j].kind = e.kind
      BY <1>2, <1>5, <2>1, <3>1 DEF Did, e
    <3> QED
      BY <2>1, <3>1, <3>2 DEF e
  <2>2. CASE m # k
    <3>1. m \in 1..k - 1 /\ k \in m + 1..k
      BY <1>1, <2>2
    <3>2. PICK j \in DOMAIN u :
              /\ u[j].name = name
              /\ \/ u[j].fn = t[m].fn /\ u[j].kind = t[m].kind
                 \/ \E l \in m + 1..k - 1 : Aliases(t, l, name)
      BY <1>5, <3>1 DEF Made
    <3>3. j \in DOMAIN z /\ z[j].name = name
      BY <1>2, <3>2 DEF Did
    <3>4. CASE name \in Targets(e)
      <4>1. Aliases(t, k, name)
        BY <3>4 DEF Aliases, e
      <4> QED
        BY <3>1, <3>3, <4>1
    <3>5. CASE name \notin Targets(e)
      <4>1. z[j] = u[j]
        BY <1>2, <3>3, <3>5 DEF Did
      <4>2. \A l \in m + 1..k - 1 : l \in m + 1..k
        BY <1>1
      <4> QED
        BY <3>2, <3>3, <4>1, <4>2
    <3> QED
      BY <3>4, <3>5
  <2> QED
    BY <2>1, <2>2
<1> QED
  BY <1>4, <1>5 DEF Made

(* An entry that is not a full one leaves what is made as it is.           *)
LEMMA MadeMore ==
    ASSUME NEW t, NEW u, NEW k \in Nat \ {0}, ~t[k].name.full,
           \A m \in 1..k - 1 : Made(u, t, m, k - 1)
    PROVE  \A m \in 1..k : Made(u, t, m, k)
<1>1. ASSUME NEW m \in 1..k PROVE Made(u, t, m, k)
  <2>1. CASE m = k
    BY <2>1 DEF Made
  <2>2. CASE m # k
    <3>1. m \in 1..k - 1 /\ \A l \in m + 1..k - 1 : l \in m + 1..k
      BY <2>2
    <3> QED
      BY <3>1 DEF Made
  <2> QED
    BY <2>1, <2>2
<1> QED
  BY <1>1

LEMMA AliasesReached ==
    ASSUME NEW t \in Tables, Len(RegisterAliases(t)) < MaxBuiltins
    PROVE  FullKept(t, RegisterAliases(t))
           /\ \A m \in DOMAIN t : Made(RegisterAliases(t), t, m, Len(t))
<1> DEFINE n == Len(t)
<1>1. n \in Nat /\ DOMAIN t = 1..n /\ \A k \in 1..n : t[k] \in Entries
  BY TableShape
<1>2. PICK g \in [0..Len(t) -> Tables] :
         /\ g[0] = t
         /\ \A k \in 1..Len(t) :
               g[k] = IF t[k].name.full THEN AliasEntry(g[k - 1], t[k]) ELSE g[k - 1]
         /\ RegisterAliases(t) = g[Len(t)]
  <2>1. AliasClosed(Tables, t)
    BY <1>1, AliasKeeps DEF AliasClosed
  <2> QED
    BY <2>1, AliasWalk
<1> DEFINE P == {k \in 0..n : Len(g[k]) < MaxBuiltins =>
                              FullKept(t, g[k]) /\ \A m \in 1..k : Made(g[k], t, m, k)}
<1>3. 0 \in P
  BY <1>1, <1>2 DEF FullKept
<1>4. ASSUME NEW k \in 0..n, k \in P, k < n PROVE k + 1 \in P
  <2> DEFINE i == k + 1
  <2>1. i \in 1..n /\ i \in 0..n /\ i - 1 = k /\ i \in Nat \ {0} /\ i \in DOMAIN t
    BY <1>1, <1>4
  <2>2. g[i] = (IF t[i].name.full THEN AliasEntry(g[k], t[i]) ELSE g[k])
        /\ g[k] \in Tables /\ g[i] \in Tables
    BY <1>2, <2>1
  <2> HIDE DEF i
  <2>3. SUFFICES ASSUME Len(g[i]) < MaxBuiltins
                 PROVE  FullKept(t, g[i]) /\ \A m \in 1..i : Made(g[i], t, m, i)
    BY <2>1 DEF i
  <2>4. Len(g[k]) <= Len(g[i])
    BY <1>1, <2>1, <2>2, AliasKeeps, TableShape
  <2>5. Len(g[k]) < MaxBuiltins
    BY <2>2, <2>3, <2>4, TableShape, LimitsAssumption
  <2>6. FullKept(t, g[k]) /\ \A m \in 1..i - 1 : Made(g[k], t, m, i - 1)
    BY <1>4, <2>1, <2>5
  <2>7. CASE t[i].name.full
    BY <2>1, <2>2, <2>3, <2>5, <2>6, <2>7, AliasDoes
  <2>8. CASE ~t[i].name.full
    BY <2>1, <2>2, <2>6, <2>8, MadeMore
  <2> QED
    BY <2>7, <2>8
<1>5. n \in P
  <2> HIDE DEF P, n
  <2>1. \A k \in 0..n : k \in P
    BY <1>1, <1>3, <1>4, UpTo
  <2> QED
    BY <1>1, <2>1
<1> QED
  BY <1>1, <1>2, <1>5

(* What the standard registration reaches.                                 *)
LEMMA AllReached ==
    ASSUME NEW t \in Tables, Len(RegisterAll(t)) < MaxBuiltins
    PROVE  StandardDone(RegisterAll(t)) /\ AliasesDone(RegisterAll(t))
<1> DEFINE s == ApplyStandard(t)
           w == RegisterAll(t)
<1>1. w = RegisterAliases(s) /\ s \in Tables /\ w \in Tables
  BY StandardKeeps DEF RegisterAll
<1>2. FullKept(s, w) /\ \A m \in DOMAIN s : Made(w, s, m, Len(s))
  BY <1>1, AliasesReached
<1>3. /\ DOMAIN s = 1..Len(s) /\ DOMAIN w = 1..Len(w) /\ Len(s) \in Nat /\ Len(w) \in Nat
      /\ Len(w) < MaxBuiltins
  BY <1>1, TableShape
<1>4. Len(s) <= Len(w)
  <2>1. DOMAIN s \subseteq DOMAIN w
    BY <1>2 DEF FullKept
  <2> QED
    BY <1>3, <2>1
<1>5. StandardDone(s)
  <2>1. Len(s) < MaxBuiltins
    BY <1>3, <1>4, LimitsAssumption
  <2> QED
    BY <2>1, StandardReached
<1> HIDE DEF s, w
<1>6. StandardDone(w)
  <2>1. ASSUME NEW k \in DOMAIN StandardRequests PROVE Holds(w, StandardRequests[k])
    <3> DEFINE r == StandardRequests[k]
    <3>1. r.name.full
      BY StandardTyped
    <3>2. PICK j \in DOMAIN s : s[j].name = r.name /\ s[j].fn = r.fn
                               /\ (r.api = "ex" => s[j].kind = r.fn.kind)
      BY <1>5 DEF StandardDone, Holds
    <3>3. j \in DOMAIN w /\ w[j] = s[j]
      BY <1>2, <3>1, <3>2 DEF FullKept
    <3> HIDE DEF r
    <3>4. Holds(w, r)
      BY <3>2, <3>3 DEF Holds
    <3> QED
      BY <3>4 DEF r
  <2> QED
    BY <2>1 DEF StandardDone
<1>7. ASSUME NEW m \in DOMAIN w PROVE Made(w, w, m, Len(w))
  <2>1. SUFFICES ASSUME w[m].name.full, NEW name \in Targets(w[m])
                 PROVE  \E j \in DOMAIN w :
                           /\ w[j].name = name
                           /\ \/ w[j].fn = w[m].fn /\ w[j].kind = w[m].kind
                              \/ \E l \in m + 1..Len(w) : Aliases(w, l, name)
    BY DEF Made
  <2>2. m \in DOMAIN s /\ w[m] = s[m]
    BY <1>2, <2>1 DEF FullKept
  <2>3. PICK j \in DOMAIN w :
           /\ w[j].name = name
           /\ \/ w[j].fn = w[m].fn /\ w[j].kind = w[m].kind
              \/ \E l \in m + 1..Len(s) : Aliases(s, l, name)
    BY <1>2, <2>1, <2>2 DEF Made
  <2>4. ASSUME NEW l \in m + 1..Len(s), Aliases(s, l, name)
        PROVE  l \in m + 1..Len(w) /\ Aliases(w, l, name)
    <3>1. l \in DOMAIN s /\ l \in m + 1..Len(w)
      BY <1>3, <1>4, <2>2
    <3> QED
      BY <1>2, <2>4, <3>1 DEF FullKept, Aliases
  <2> QED
    BY <2>3, <2>4
<1> QED
  BY <1>6, <1>7 DEF AliasesDone, w

(* And there it stays: first the requests,                                 *)
LEMMA HeldStays ==
    ASSUME NEW t \in Tables, Len(t) < MaxBuiltins, NEW r \in RequestSet,
           r.api \in {"plain", "ex"}, Holds(t, r)
    PROVE  Apply(t, r) = t
<1> DEFINE at == RegisterAt(t, r.name)
           u == Apply(t, r)
           o == Old(t, r.name, r.fn)
           e == After(r, o)
<1>1. e \in Entries /\ Wrote(t, u, at, e)
  BY ApplyWrites
<1>2. t \in Seq(Entries) /\ Distinct(t) /\ DOMAIN t = 1..Len(t) /\ Len(t) \in Nat
  BY TableShape
<1>3. PICK j \in DOMAIN t : t[j].name = r.name /\ t[j].fn = r.fn
                           /\ (r.api = "ex" => t[j].kind = r.fn.kind)
  BY DEF Holds
<1>4. at # 0 /\ at = j
  <2>1. ~(Len(t) = MaxBuiltins)
    BY TableShape, LimitsAssumption
  <2>2. at # 0 /\ at \in DOMAIN t /\ t[at].name = r.name
    BY <1>3, <2>1, WhereAt
  <2> QED
    BY <1>2, <1>3, <2>2 DEF Distinct
<1>5. o = t[j] /\ o \in Entries /\ r.name \in Names /\ r.fn \in Functions
  BY <1>3, <1>4, OldEntry, RequestShape
<1>6. /\ e.name = t[j].name /\ e.fn = t[j].fn /\ e.kind = t[j].kind
      /\ e.f64 = t[j].f64 /\ e.ctx = t[j].ctx
  BY <1>3, <1>5, AfterFields
<1> HIDE DEF e, u, at
<1>7. e = t[j]
  <2>1. t[j] \in Entries
    BY <1>3, TableShape
  <2> QED
    BY <1>1, <1>6, <2>1 DEF Entries
<1>8. u \in Seq(Entries) /\ DOMAIN u = DOMAIN t /\ \A i \in DOMAIN t : u[i] = t[i]
  BY <1>1, <1>3, <1>4, <1>7 DEF Wrote
<1>9. u = t
  <2>1. Len(u) = Len(t)
    BY <1>2, <1>8
  <2> QED
    BY <1>2, <1>8, <2>1, SeqEqual
<1> QED
  BY <1>9 DEF u

(* then the aliases: after k of them, entries differ from what they were   *)
(* only in a function and kind that a later alias writes.                  *)
Near(t, v, k) ==
    /\ Len(v) = Len(t)
    /\ \A j \in DOMAIN t :
           /\ v[j].name = t[j].name /\ v[j].f64 = t[j].f64 /\ v[j].ctx = t[j].ctx
           /\ \/ v[j].fn = t[j].fn /\ v[j].kind = t[j].kind
              \/ \E l \in k + 1..Len(t) : Aliases(t, l, t[j].name)

LEMMA AliasNear ==
    ASSUME NEW t \in Tables, NEW v \in Tables, Len(t) < MaxBuiltins, AliasesDone(t),
           NEW k \in DOMAIN t, t[k].name.full, Near(t, v, k - 1)
    PROVE  Near(t, AliasEntry(v, t[k]), k)
<1> DEFINE e == t[k]
           z == AliasEntry(v, e)
<1>1. /\ DOMAIN t = 1..Len(t) /\ Len(t) \in Nat /\ e \in Entries /\ k \in Nat /\ Distinct(t)
      /\ DOMAIN v = 1..Len(v) /\ k <= Len(t)
  BY TableShape
<1>2. Len(v) = Len(t) /\ DOMAIN v = DOMAIN t /\ \A j \in DOMAIN t : v[j].name = t[j].name
  BY <1>1 DEF Near
<1>3. ASSUME NEW name \in Targets(e)
      PROVE  \E j \in DOMAIN t :
                /\ t[j].name = name
                /\ \/ t[j].fn = e.fn /\ t[j].kind = e.kind
                   \/ \E l \in k + 1..Len(t) : Aliases(t, l, name)
  BY DEF AliasesDone, Made
<1>4. \A name \in Targets(e) : Has(v, name)
  BY <1>2, <1>3 DEF Has
<1>5. Did(v, z, Targets(e), e.fn, e.kind) /\ Len(z) = Len(v)
  <2>1. Len(v) < MaxBuiltins
    BY <1>2
  <2> QED
    BY <1>1, <1>4, <2>1, AliasDid
<1>6. DOMAIN z = DOMAIN t
  <2>1. z \in Tables
    BY <1>1, AliasKeeps
  <2> QED
    BY <1>1, <1>2, <1>5, <2>1, TableShape
<1> HIDE DEF e, z
<1>8. ASSUME NEW j \in DOMAIN t
      PROVE  /\ z[j].name = t[j].name /\ z[j].f64 = t[j].f64 /\ z[j].ctx = t[j].ctx
             /\ \/ z[j].fn = t[j].fn /\ z[j].kind = t[j].kind
                \/ \E l \in k + 1..Len(t) : Aliases(t, l, t[j].name)
  <2>1. z[j].name = t[j].name /\ z[j].f64 = t[j].f64 /\ z[j].ctx = t[j].ctx
    BY <1>2, <1>5 DEF Did, Near
  <2>2. CASE t[j].name \in Targets(e)
    <3>1. z[j].fn = e.fn /\ z[j].kind = e.kind
      BY <1>5, <1>6, <2>1, <2>2 DEF Did
    <3>2. PICK i \in DOMAIN t :
              /\ t[i].name = t[j].name
              /\ \/ t[i].fn = e.fn /\ t[i].kind = e.kind
                 \/ \E l \in k + 1..Len(t) : Aliases(t, l, t[j].name)
      BY <1>3, <2>2
    <3>3. i = j
      BY <1>1, <3>2 DEF Distinct
    <3> QED
      BY <2>1, <3>1, <3>2, <3>3
  <2>3. CASE t[j].name \notin Targets(e)
    <3>1. z[j] = v[j]
      BY <1>5, <1>6, <2>1, <2>3 DEF Did
    <3>2. \/ v[j].fn = t[j].fn /\ v[j].kind = t[j].kind
          \/ \E l \in k..Len(t) : Aliases(t, l, t[j].name)
      BY <1>1 DEF Near
    <3>3. \A l \in k..Len(t) : l = k \/ l \in k + 1..Len(t)
      BY <1>1
    <3>4. ~Aliases(t, k, t[j].name)
      BY <2>3 DEF Aliases, e
    <3> QED
      BY <2>1, <3>1, <3>2, <3>3, <3>4
  <2> QED
    BY <2>2, <2>3
<1>9. Near(t, z, k)
  BY <1>2, <1>5, <1>8 DEF Near
<1> QED
  BY <1>9 DEF z, e

LEMMA SkipNear ==
    ASSUME NEW t \in Tables, NEW v, NEW k \in DOMAIN t, ~t[k].name.full, Near(t, v, k - 1)
    PROVE  Near(t, v, k)
<1>1. k \in Nat /\ Len(t) \in Nat
  BY TableShape
<1>2. \A l \in k..Len(t) : l = k \/ l \in k + 1..Len(t)
  BY <1>1
<1>3. (k - 1) + 1 = k
  BY <1>1
<1> QED
  BY <1>2, <1>3 DEF Near, Aliases

LEMMA AllStays ==
    ASSUME NEW t \in Tables, Len(t) < MaxBuiltins, StandardDone(t), AliasesDone(t)
    PROVE  RegisterAll(t) = t
<1> DEFINE n == Len(t)
<1>1. ApplyStandard(t) = t
  <2>1. \A u \in {t} : \A k \in DOMAIN StandardRequests : Apply(u, StandardRequests[k]) \in {t}
    BY StandardTyped, HeldStays DEF StandardDone
  <2>2. PICK g \in [0..Len(StandardRequests) -> {t}] : ApplyStandard(t) = g[Len(StandardRequests)]
    BY <2>1, StandardWalk
  <2> QED
    BY <2>2, StandardTyped
<1>2. n \in Nat /\ DOMAIN t = 1..n /\ t \in Seq(Entries) /\ \A k \in 1..n : t[k] \in Entries
  BY TableShape
<1>3. PICK g \in [0..Len(t) -> Tables] :
         /\ g[0] = t
         /\ \A k \in 1..Len(t) :
               g[k] = IF t[k].name.full THEN AliasEntry(g[k - 1], t[k]) ELSE g[k - 1]
         /\ RegisterAliases(t) = g[Len(t)]
  <2>1. AliasClosed(Tables, t)
    BY <1>2, AliasKeeps DEF AliasClosed
  <2> QED
    BY <2>1, AliasWalk
<1> DEFINE P == {k \in 0..n : Near(t, g[k], k)}
<1>4. 0 \in P
  BY <1>2, <1>3 DEF Near
<1>5. ASSUME NEW k \in 0..n, k \in P, k < n PROVE k + 1 \in P
  <2> DEFINE i == k + 1
  <2>1. i \in 0..n /\ i \in 1..n /\ i - 1 = k /\ i \in DOMAIN t
    BY <1>2, <1>5
  <2>2. g[i] = (IF t[i].name.full THEN AliasEntry(g[k], t[i]) ELSE g[k]) /\ g[k] \in Tables
    BY <1>3, <2>1
  <2>3. Near(t, g[k], i - 1)
    BY <1>5, <2>1
  <2> HIDE DEF i
  <2>4. Near(t, g[i], i)
    BY <2>1, <2>2, <2>3, AliasNear, SkipNear
  <2> QED
    BY <2>1, <2>4 DEF i
<1>6. Near(t, g[n], n) /\ g[n] \in Tables
  <2>1. n \in P
    <3> HIDE DEF P, n
    <3>1. \A k \in 0..n : k \in P
      BY <1>2, <1>4, <1>5, UpTo
    <3> QED
      BY <1>2, <3>1
  <2> QED
    BY <1>2, <1>3, <2>1
<1>7. g[n] = t
  <2> DEFINE v == g[n]
  <2>1. v \in Seq(Entries) /\ Len(v) = Len(t) /\ DOMAIN v = 1..n
    BY <1>2, <1>6, TableShape DEF Near
  <2>2. ASSUME NEW j \in 1..n PROVE v[j] = t[j]
    <3>1. /\ v[j].name = t[j].name /\ v[j].f64 = t[j].f64 /\ v[j].ctx = t[j].ctx
          /\ v[j].fn = t[j].fn /\ v[j].kind = t[j].kind
      <4>1. ~\E l \in n + 1..Len(t) : Aliases(t, l, t[j].name)
        BY <1>2
      <4> QED
        BY <1>2, <1>6, <4>1 DEF Near
    <3>2. v[j] \in Entries /\ t[j] \in Entries
      BY <1>2, <2>1
    <3> QED
      BY <3>1, <3>2 DEF Entries
  <2> HIDE DEF v
  <2>3. v = t
    BY <1>2, <2>1, <2>2, SeqEqual
  <2> QED
    BY <2>3 DEF v
<1> QED
  BY <1>1, <1>3, <1>7 DEF RegisterAll

(* A second standard registration is the first one's fixed point.          *)
LEMMA AllTwice ==
    ASSUME NEW t \in Tables
    PROVE  RegisterAll(RegisterAll(t)) = RegisterAll(t)
<1>1. RegisterAll(t) \in Tables
  BY StandardKeeps
<1>2. CASE Len(RegisterAll(t)) < MaxBuiltins
  BY <1>1, <1>2, AllReached, AllStays
<1>3. CASE ~(Len(RegisterAll(t)) < MaxBuiltins)
  BY <1>1, <1>3, FullStays
<1> QED
  BY <1>2, <1>3

SettledInv == library = "settled" => RegisterAll(table) = table

LEMMA SettledStep ==
    TypeInv /\ SettledInv /\ [RegNext]_regVars =>
        SettledInv' /\ (library = "settled" /\ library' = "settled" => table' = table)
<1> SUFFICES ASSUME TypeInv, SettledInv, [RegNext]_regVars
             PROVE  SettledInv' /\ (library = "settled" /\ library' = "settled" => table' = table)
  OBVIOUS
<1>1. CASE RegisterBuiltin
  <2>1. library' # "settled"
    BY <1>1 DEF RegisterBuiltin
  <2> QED
    BY <2>1 DEF SettledInv
<1>2. CASE RegisterStandard
  <2>1. table' = RegisterAll(table)
    BY <1>2 DEF RegisterStandard
  <2>2. RegisterAll(table') = table'
    BY <2>1, AllTwice DEF TypeInv
  <2> QED
    BY <2>1, <2>2 DEF SettledInv
<1>3. CASE Cleanup
  BY <1>3 DEF Cleanup, SettledInv
<1>4. CASE UNCHANGED <<table, library>>
  BY <1>4 DEF SettledInv
<1> QED
  BY <1>1, <1>2, <1>3, <1>4 DEF RegNext, RegisterVector, RegisterTaps, Bind, Compile, Execute,
                                regVars

(* Registering the standard builtins once more, with no request since,     *)
(* changes nothing, whatever the user registered before: full names with   *)
(* the names of the library, names that its aliases also have, more than   *)
(* the table takes (chirp_register_standard_builtins, chirp_builtins.c:109,*)
(* and chirp_register_aliases, 43-74).                                     *)
THEOREM StandardTwice == RegSpec => StandardAgain
<1>1. RegInit => SettledInv
  BY DEF RegInit, SettledInv
<1>2. TypeInv /\ SettledInv /\ [RegNext]_regVars =>
          SettledInv' /\ [library = "settled" /\ library' = "settled" => table' = table]_regVars
  BY SettledStep
<1> QED
  BY <1>1, <1>2, TypeAlways, PTL DEF RegSpec, StandardAgain
=============================================================================
