------------------------------ MODULE Registry ------------------------------
(***************************************************************************)
(* The tables that Chirp programs name things in: builtins, vectors and    *)
(* tap sets, all global and all emptied by chirp_cleanup; the `let`s of a  *)
(* program; and what a compiled program, which keeps an index into the     *)
(* table of builtins and nothing else, calls when it is executed           *)
(* (src/chirp.c, chirp_builtins.c, the CALL_BUILTIN cases of faf_vm.c).    *)
(*                                                                         *)
(* A name is what the code looks at: a stem, whether "chirp_" comes before *)
(* it and which precision suffix comes after it.  A function is known by   *)
(* who gave it for which stem, its precision, the kind of its signature    *)
(* and the ctx it wants to be called with.  strdup does not fail here.     *)
(***************************************************************************)
EXTENDS Integers, Sequences, FiniteSets

CONSTANTS
    MaxBuiltins,  \* CHIRP_MAX_BUILTINS
    MaxVecs,      \* CHIRP_MAX_VECS
    MaxTapSets,   \* CHIRP_MAX_TAPSETS
    Slots,        \* CHIRP_SCOPE_SLOTS
    Standard,     \* the library: [stem, kind] in the order of registration
    Requests,     \* builtins the user registers
    FilterRequests,  \* vectors and tap sets the user registers
    MaxRequests,  \* different requests between two cleanups
    Programs      \* what the user compiles: [lets, form, name, prec]

ASSUME LimitsAssumption ==
    MaxBuiltins \in Nat /\ MaxVecs \in Nat /\ MaxTapSets \in Nat /\ Slots \in Nat

VARIABLES
    table,   \* chirp_table: builtins in order, [name, fn, f64, kind, ctx]
    vecs,    \* g_vecs: [name, buf]
    taps,    \* g_taps: [name, h, g, ht, gt, len, lenSyn]
    prog,    \* a compiled program: [wrote, name, prec, idx, fresh]
    call,    \* what its execution, the last step, called: [as, prec, fn, ctx]
    said,    \* the user's requests since the last cleanup, without refused ones
    library  \* the standard registration since then: "absent", "settled" when
             \* no request came after it, or "mixed"

regVars == <<table, vecs, taps, prog, call, said, library>>

Kinds == {"unary", "complex", "vector", "spectral", "hermitian", "other"}
Precisions == {"f32", "f64"}
Names == [stem : STRING, full : BOOLEAN, prec : Precisions \cup {""}]
(* Pointers of the caller (provers do not see that "null" is a string).    *)
Pointers == {"null"} \cup STRING
Functions ==
    [by : {"library", "user"}, stem : STRING, prec : Precisions, kind : Kinds, ctx : Pointers]
Nothing == [none |-> TRUE]

-----------------------------------------------------------------------------
(* Names and functions.                                                    *)

Name(stem, full, prec) == [stem |-> stem, full |-> full, prec |-> prec]
Bare(stem) == Name(stem, FALSE, "")
Function(by, stem, prec, kind, ctx) ==
    [by |-> by, stem |-> stem, prec |-> prec, kind |-> kind, ctx |-> ctx]

(* The index of a name, 0 when it is not registered (-1 in the code).      *)
Lookup(t, name) ==
    LET at == {i \in 1..Len(t) : t[i].name = name}
    IN  IF at = {} THEN 0 ELSE CHOOSE i \in at : \A j \in at : i <= j

-----------------------------------------------------------------------------
(* Registration.  The limit comes before everything else, and an entry     *)
(* that is there keeps all but its function.  The result of a registration *)
(* is the table; at is what the function returns, 0 for -1.                *)

RegisterAt(t, name) ==
    IF Len(t) >= MaxBuiltins THEN 0
    ELSE IF Lookup(t, name) # 0 THEN Lookup(t, name) ELSE Len(t) + 1

Entry(name, fn) ==
    [name |-> name, fn |-> fn, f64 |-> Nothing, kind |-> "unary", ctx |-> "null"]

(* Mutant of Register: the name is not looked up.                          *)
RegisterTwice(t, name, fn) ==
    IF Len(t) >= MaxBuiltins THEN t ELSE Append(t, Entry(name, fn))
(* Mutant of Register: a new entry goes to the front.                      *)
RegisterFirst(t, name, fn) ==
    LET at == RegisterAt(t, name)
    IN  IF at = 0 THEN t
        ELSE IF at \in DOMAIN t THEN [t EXCEPT ![at].fn = fn]
        ELSE <<Entry(name, fn)>> \o t
Register(t, name, fn) ==
    LET at == RegisterAt(t, name)
    IN  IF at = 0 THEN t
        ELSE IF at \in DOMAIN t THEN [t EXCEPT ![at].fn = fn]
        ELSE Append(t, Entry(name, fn))

RegisterEx(t, name, fn, kind) ==
    LET at == RegisterAt(t, name)
        r  == Register(t, name, fn)
    IN  IF at = 0 THEN r ELSE [r EXCEPT ![at].kind = kind]

RegisterUnary(t, name, f32, f64) ==
    LET at == RegisterAt(t, name)
        r  == Register(t, name, f32)
    IN  IF at = 0 THEN r ELSE [r EXCEPT ![at].kind = "unary", ![at].f64 = f64]

(* Mutant of RegisterSpectralEx: the ctx of the first registration stays.  *)
RegisterSpectralKeep(t, name, f32, f64, ctx) ==
    LET at == RegisterAt(t, name)
        r  == Register(t, name, f32)
    IN  IF at = 0 THEN r
        ELSE [r EXCEPT ![at].kind = "spectral", ![at].f64 = f64,
                       ![at].ctx = IF at \in DOMAIN t THEN @ ELSE ctx]
RegisterSpectralEx(t, name, f32, f64, ctx) ==
    LET at == RegisterAt(t, name)
        r  == Register(t, name, f32)
    IN  IF at = 0 THEN r
        ELSE [r EXCEPT ![at].kind = "spectral", ![at].f64 = f64, ![at].ctx = ctx]

(* A user's request: which function, with what.                            *)
Request(api, name, fn, f64) == [api |-> api, name |-> name, fn |-> fn, f64 |-> f64]

(* What a request may be: a function is known by the name it is given for, *)
(* whose suffix says its precision; the types of chirp_register_unary and  *)
(* _spectral say what their functions are; only the latter takes a ctx.    *)
RequestSet ==
    {r \in [api : {"plain", "ex", "unary", "spectral"}, name : Names,
            fn : Functions, f64 : Functions \cup {Nothing}] :
        /\ r.fn.stem = r.name.stem
        /\ r.fn.prec = IF r.name.prec = "f64" THEN "f64" ELSE "f32"
        /\ r.api \in {"plain", "unary"} => r.fn.kind = "unary"
        /\ r.api = "spectral" => r.fn.kind = "spectral"
        /\ r.api # "spectral" => r.fn.ctx = "null"
        /\ r.api \in {"unary", "spectral"} => r.name.prec # "f64"
        /\ r.f64 # Nothing =>
               /\ r.api \in {"unary", "spectral"}
               /\ r.f64 = [r.fn EXCEPT !.prec = "f64"]}
ASSUME RequestsAssumption == Requests \subseteq RequestSet

Apply(t, r) ==
    CASE r.api = "plain"    -> Register(t, r.name, r.fn)
      [] r.api = "ex"       -> RegisterEx(t, r.name, r.fn, r.fn.kind)
      [] r.api = "unary"    -> RegisterUnary(t, r.name, r.fn, r.f64)
      [] r.api = "spectral" -> RegisterSpectralEx(t, r.name, r.fn, r.f64, r.fn.ctx)

-----------------------------------------------------------------------------
(* The standard library: every function under its full name, float before  *)
(* double, then the aliases of the names that begin with "chirp_".         *)

ASSUME StandardAssumption ==
    /\ Standard \in Seq([stem : STRING, kind : {"unary", "other"}])
    /\ \A i, j \in DOMAIN Standard : Standard[i].stem = Standard[j].stem => i = j

StandardRequest(f, prec) ==
    Request(IF f.kind = "unary" THEN "plain" ELSE "ex", Name(f.stem, TRUE, prec),
            Function("library", f.stem, prec, f.kind, "null"), Nothing)
StandardRequests ==
    [k \in 1..2 * Len(Standard) |->
        StandardRequest(Standard[(k + 1) \div 2], IF k % 2 = 1 THEN "f32" ELSE "f64")]

(* Mutant of AliasEntry: the aliases are made with chirp_register.         *)
AliasPlain(t, e) ==
    LET name == [e.name EXCEPT !.full = FALSE]
        r    == Register(t, name, e.fn)
    IN  IF e.name.prec = "f32" THEN Register(r, [name EXCEPT !.prec = ""], e.fn) ELSE r
AliasEntry(t, e) ==
    LET name == [e.name EXCEPT !.full = FALSE]
        r    == RegisterEx(t, name, e.fn, e.kind)
    IN  IF e.name.prec = "f32"
        THEN RegisterEx(r, [name EXCEPT !.prec = ""], e.fn, e.kind) ELSE r

(* The entries there are when the walk begins: none of them is an alias    *)
(* made on the way.                                                        *)
RegisterAliases(t) ==
    LET after[k \in 0..Len(t)] ==
            IF k = 0 THEN t
            ELSE IF t[k].name.full THEN AliasEntry(after[k - 1], t[k]) ELSE after[k - 1]
    IN  after[Len(t)]

ApplyStandard(t) ==
    LET after[k \in 0..Len(StandardRequests)] ==
            IF k = 0 THEN t ELSE Apply(after[k - 1], StandardRequests[k])
    IN  after[Len(StandardRequests)]

RegisterAll(t) == RegisterAliases(ApplyStandard(t))

-----------------------------------------------------------------------------
(* What an index means to an execution.                                    *)

KindOf(idx) == IF idx \in DOMAIN table THEN table[idx].kind ELSE "other"

(* Mutant of FnFor: the suffix does not follow the precision.              *)
FnForFloat(idx, prec) ==
    IF idx \notin DOMAIN table THEN Nothing
    ELSE LET e == table[idx]
             i == Lookup(table, [e.name EXCEPT !.prec = "f32"])
         IN  IF prec = "f64" /\ e.f64 # Nothing THEN e.f64
             ELSE IF e.name.prec = "" /\ i # 0 THEN table[i].fn ELSE e.fn
FnFor(idx, prec) ==
    IF idx \notin DOMAIN table THEN Nothing
    ELSE LET e == table[idx]
             i == Lookup(table, [e.name EXCEPT !.prec = prec])
         IN  IF prec = "f64" /\ e.f64 # Nothing THEN e.f64
             ELSE IF e.name.prec = "" /\ i # 0 THEN table[i].fn ELSE e.fn

(* chirp_apply_split_f32 and _f64, with every array there: in double a     *)
(* spectral function is called only when it was registered for double, and *)
(* the last kind is not called at all.                                     *)
CallOf(idx, prec) ==
    LET kind == KindOf(idx)
        fn   == FnFor(idx, prec)
    IN  IF \/ fn = Nothing \/ kind = "other"
           \/ /\ prec = "f64" /\ kind \in {"spectral", "hermitian"}
              /\ table[idx].f64 = Nothing
        THEN Nothing
        ELSE [as |-> IF kind = "hermitian" THEN "spectral" ELSE kind, prec |-> prec,
              fn |-> fn,
              ctx |-> IF kind \in {"spectral", "hermitian"} THEN table[idx].ctx ELSE "null"]

-----------------------------------------------------------------------------
(* The lets of a program: [name, to], in the order they are met.  One      *)
(* scope with a fixed number of slots; the first binding of a name counts. *)

(* Mutant of Bound: the last slot is not used.                             *)
BoundShort(lets) == SubSeq(lets, 1, IF Len(lets) < Slots THEN Len(lets) ELSE Slots - 1)
Bound(lets) == SubSeq(lets, 1, IF Len(lets) <= Slots THEN Len(lets) ELSE Slots)

ASSUME ProgramsAssumption ==
    Programs \subseteq [lets : Seq([name : Names, to : Names]),
                       form : {"stage", "pipe", "spectral"}, name : Names, prec : Precisions]

(* Emission resolves the node it meets, and the node that gives, until one *)
(* is its own resolution.  Places are where a name is written: 0 in the    *)
(* program's body, i in the i-th let.  A program whose lets refer to one   *)
(* another in a circle is never compiled.                                  *)
Written(p, at) == IF at = 0 THEN p.name ELSE p.lets[at].to
Resolve(p, at) ==
    LET b   == Bound(p.lets)
        hit == {i \in DOMAIN b : b[i].name = Written(p, at)}
    IN  IF hit = {} THEN at ELSE CHOOSE i \in hit : \A j \in hit : i <= j

(* Where the name of the body ends up after k resolutions.                 *)
Place(p) ==
    LET after[k \in 0..Len(p.lets) + 1] ==
            IF k = 0 THEN 0 ELSE Resolve(p, after[k - 1])
    IN  after
Ends(p) == LET n == Len(p.lets) IN Place(p)[n] = Place(p)[n + 1]
Meant(p) == Written(p, Place(p)[Len(p.lets)])

(* The index a program gets, 0 when it is refused: a stage that is a name, *)
(* an operation in the middle of a fused pipeline, which no let replaces,  *)
(* and (spectral :name ...), which takes every kind.                       *)
PipeKinds == {"spectral", "hermitian", "complex", "vector"}
NameIn(p) == IF p.form = "stage" THEN Meant(p) ELSE p.name
IndexIn(p) ==
    LET i == Lookup(table, NameIn(p))
    IN  IF p.form = "pipe" /\ KindOf(i) \notin PipeKinds THEN 0 ELSE i

-----------------------------------------------------------------------------
(* Vectors and tap sets: the caller's arrays, by pointer.  Here a name     *)
(* that is there is found before the limit is looked at.                   *)

Buffer(id, len) == [id |-> id, len |-> len]
Buffers == [id : Pointers, len : Nat]
TapSets == [name : STRING, h : Buffers, g : Buffers, ht : Buffers, gt : Buffers,
            len : Nat, lenSyn : Nat]
Null == Buffer("null", 0)
Put(t, limit, e) ==
    LET i == Lookup(t, e.name)
    IN  IF i # 0 THEN [t EXCEPT ![i] = e]
        ELSE IF Len(t) >= limit THEN t ELSE Append(t, e)

TapSet(name, h, g, len, ht, gt, lenSyn) ==
    [name |-> name, h |-> h, g |-> g, ht |-> ht, gt |-> gt, len |-> len,
     lenSyn |-> IF ht # Null /\ gt # Null THEN lenSyn ELSE 0]

(* (bind name :h h :g g :h-syn hs :g-syn gs), and "" for a vector that is  *)
(* not named.  Synthesis filters count only together.                      *)
VecAt(name) == Lookup(vecs, name)
Binds(b) ==
    /\ VecAt(b.h) # 0 /\ VecAt(b.g) # 0
    /\ vecs[VecAt(b.h)].buf.len = vecs[VecAt(b.g)].buf.len
    /\ b.hs # "" /\ b.gs # "" => VecAt(b.hs) # 0 /\ VecAt(b.gs) # 0
BoundTaps(b) ==
    LET buf(v) == vecs[VecAt(v)].buf
        syn == b.hs # "" /\ b.gs # ""
    IN  TapSet(b.name, buf(b.h), buf(b.g), buf(b.h).len,
               IF syn THEN buf(b.hs) ELSE Null, IF syn THEN buf(b.gs) ELSE Null,
               IF syn THEN buf(b.hs).len ELSE 0)

(* The filter lengths a user gives are those of the arrays.                *)
Fits(ts) == ts.len <= ts.h.len /\ ts.len <= ts.g.len /\ ts.lenSyn <= ts.ht.len
ASSUME FiltersAssumption ==
    \A r \in FilterRequests :
        \/ r \in [api : {"vector"}, name : STRING, buf : Buffers]
        \/ r \in [api : {"taps"}, set : TapSets] /\ Fits(r.set)
        \/ r \in [api : {"bind"}, name : STRING, h : STRING, g : STRING,
                  hs : STRING, gs : STRING]

-----------------------------------------------------------------------------
RegInit ==
    /\ table = <<>> /\ vecs = <<>> /\ taps = <<>>
    /\ prog = Nothing /\ call = Nothing
    /\ said = {} /\ library = "absent"

Says(r, taken) ==
    /\ Cardinality(said \cup {r}) <= MaxRequests
    /\ said' = IF taken THEN said \cup {r} ELSE said
    /\ call' = Nothing

(* chirp_register, _ex, _unary, _spectral, _spectral_ex.                   *)
RegisterBuiltin ==
    \E r \in Requests :
        /\ Says(r, RegisterAt(table, r.name) # 0)
        /\ table' = Apply(table, r)
        /\ library' = IF library = "absent" THEN library ELSE "mixed"
        /\ UNCHANGED <<vecs, taps, prog>>

(* chirp_register_standard_builtins.                                       *)
RegisterStandard ==
    /\ table' = RegisterAll(table)
    /\ library' = "settled"
    /\ call' = Nothing
    /\ UNCHANGED <<vecs, taps, prog, said>>

RegisterVector ==
    \E r \in {x \in FilterRequests : x.api = "vector"} :
        /\ Says(r, TRUE)
        /\ vecs' = Put(vecs, MaxVecs, [name |-> r.name, buf |-> r.buf])
        /\ UNCHANGED <<table, taps, prog, library>>

RegisterTaps ==
    \E r \in {x \in FilterRequests : x.api = "taps"} :
        /\ Says(r, TRUE)
        /\ taps' = Put(taps, MaxTapSets, r.set)
        /\ UNCHANGED <<table, vecs, prog, library>>

(* A program with a (bind ...): the tap set is made before the program is  *)
(* compiled, and stays whatever comes of it.                               *)
Bind ==
    \E b \in {x \in FilterRequests : x.api = "bind"} :
        /\ Binds(b)
        /\ Says(b, TRUE)
        /\ taps' = Put(taps, MaxTapSets, BoundTaps(b))
        /\ UNCHANGED <<table, vecs, prog, library>>

(* chirp_cleanup.                                                          *)
Cleanup ==
    /\ table' = <<>> /\ vecs' = <<>> /\ taps' = <<>>
    /\ said' = {} /\ library' = "absent"
    /\ prog' = IF prog = Nothing THEN prog ELSE [prog EXCEPT !.fresh = FALSE]
    /\ call' = Nothing

Compile ==
    \E p \in {x \in Programs : Ends(x)} :
        /\ prog' = IF IndexIn(p) = 0 THEN Nothing
                   ELSE [wrote |-> p, name |-> NameIn(p), prec |-> p.prec,
                         idx |-> IndexIn(p), fresh |-> TRUE]
        /\ call' = Nothing
        /\ UNCHANGED <<table, vecs, taps, said, library>>

Execute ==
    /\ prog # Nothing
    /\ LET does == CallOf(prog.idx, prog.prec)
       IN  call' = IF does = Nothing THEN [as |-> "no call"] ELSE does
    /\ UNCHANGED <<table, vecs, taps, prog, said, library>>

RegNext ==
    \/ RegisterBuiltin \/ RegisterStandard \/ RegisterVector \/ RegisterTaps
    \/ Bind \/ Cleanup \/ Compile \/ Execute

RegSpec == RegInit /\ [][RegNext]_regVars

-----------------------------------------------------------------------------
(* Properties.                                                             *)

(* Type and shape: no table passes its limit and no name is in one twice.  *)
Distinct(t) == \A i, j \in DOMAIN t : t[i].name = t[j].name => i = j
TypeOK ==
    /\ Len(table) <= MaxBuiltins /\ Len(vecs) <= MaxVecs /\ Len(taps) <= MaxTapSets
    /\ Distinct(table) /\ Distinct(vecs) /\ Distinct(taps)
    /\ \A i \in DOMAIN table : table[i].kind \in Kinds
    /\ library \in {"absent", "settled", "mixed"}

(* What is asked of the user: one kind for all the names of a stem, a      *)
(* single name, which the library does not alias, for what has a ctx, and  *)
(* a function of the precision of the program.                             *)
Asked == (said \cap Requests) \cup
         (IF library = "absent" THEN {}
          ELSE {StandardRequests[k] : k \in DOMAIN StandardRequests})
Agreed(stem) ==
    \A r, s \in Asked : r.name.stem = stem /\ s.name.stem = stem =>
        /\ r.fn.kind = s.fn.kind
        /\ r.api = "spectral" => s.api = "spectral" /\ s.name = r.name /\ ~r.name.full
PairsOf(name) == {r \in Asked : r.name = name /\ r.api \in {"unary", "spectral"}}
Covered(name, prec) ==
    \/ name.prec = prec
    \/ name.prec = "" /\ prec = "f32"
    \/ name.prec = "" /\ prec = "f64"
       /\ \/ Lookup(table, [name EXCEPT !.prec = "f64"]) # 0
          \/ PairsOf(name) # {} /\ \A r \in PairsOf(name) : r.f64 # Nothing

(* A function is called with the signature, the precision and the ctx it   *)
(* was registered with, whatever program calls it: one compiled before the *)
(* registry was emptied and filled again as well (the casts of             *)
(* chirp_apply_split_f32, chirp.c:446-470, are all that says what it is).  *)
Signature(kind) == IF kind = "hermitian" THEN "spectral" ELSE kind
Fitting == /\ call.as = Signature(call.fn.kind) /\ call.prec = call.fn.prec
           /\ call.as = "spectral" => call.ctx = call.fn.ctx
CallFits ==
    call # Nothing /\ call.as # "no call" =>
        LET name == table[prog.idx].name
        IN  Agreed(name.stem) /\ Covered(name, prog.prec) => Fitting
(* The same without what is asked of the user.                             *)
CallFitsAny == call # Nothing /\ call.as # "no call" => Fitting

(* A program compiled since the last cleanup calls a function of the stem  *)
(* it names, however the registry has grown or changed since: its index    *)
(* still is that name's (chirp_lookup_builtin, chirp.c:304).  Only what    *)
(* has a kind of no signature is not called, and, in double, spectral      *)
(* functions that were given for float alone (chirp.c:517).                *)
CallServed ==
    call # Nothing /\ prog.fresh /\ Agreed(prog.name.stem) /\ Covered(prog.name, prog.prec) =>
        \/ /\ call.as # "no call"
           /\ call.fn.stem = prog.name.stem
        \/ \E r \in Asked :
               /\ r.name.stem = prog.name.stem
               /\ \/ r.fn.kind = "other"
                  \/ /\ prog.prec = "f64" /\ r.fn.kind \in {"spectral", "hermitian"}
                     /\ r.f64 = Nothing

(* Registering the standard builtins a second time, with nothing in        *)
(* between, changes nothing, with room left in the table or without        *)
(* (chirp_register_standard_builtins, chirp_builtins.c:109).               *)
StandardAgain == [][library = "settled" /\ library' = "settled" => table' = table]_regVars

(* The analysis filters of a tap set, and the synthesis low pass, are read *)
(* within the arrays they point to, whichever vectors were registered      *)
(* again with another length (chirp_eval_bind_node, chirp.c:1138).         *)
TapsFit == \A i \in DOMAIN taps : Fits(taps[i])
(* And so is the synthesis high pass.                                      *)
AllTapsFit == TapsFit /\ \A i \in DOMAIN taps : taps[i].lenSyn <= taps[i].gt.len

(* The lets of a program mean what replacing each name by its expression   *)
(* means, when no name is bound twice, none is used before it is bound,    *)
(* and there are slots for all (chirp_scope_lookup, chirp.c:159).          *)
Orderly(lets) ==
    /\ Len(lets) <= Slots
    /\ \A i, j \in DOMAIN lets : i < j => lets[i].name # lets[j].name
    /\ \A i, j \in DOMAIN lets : i <= j => lets[i].to # lets[j].name
Substituted(p) ==
    LET n == Len(p.lets)
        after[k \in 0..n] ==
            IF k = 0 THEN p.name
            ELSE IF p.lets[n + 1 - k].name = after[k - 1] THEN p.lets[n + 1 - k].to
            ELSE after[k - 1]
    IN  after[n]
LetsMean ==
    prog # Nothing /\ prog.wrote.form = "stage" /\ Orderly(prog.wrote.lets) =>
        prog.name = Substituted(prog.wrote)
=============================================================================
