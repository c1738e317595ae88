----------------------------- MODULE MCRegistry -----------------------------
(* Two standard functions, and a user's.                                   *)
EXTENDS Registry

Library == <<[stem |-> "sin", kind |-> "unary"], [stem |-> "sum", kind |-> "other"]>>

Of(stem, prec, kind, ctx) == Function("user", stem, prec, kind, ctx)
OwnFloat  == Of("own", "f32", "unary", "null")
OwnDouble == Of("own", "f64", "unary", "null")
Mask(prec, ctx) == Of("mask", prec, "spectral", ctx)

UserRequests ==
    {Request("plain", Bare("own"), OwnFloat, Nothing),
     Request("unary", Bare("own"), OwnFloat, OwnDouble),
     Request("ex", Name("own", FALSE, "f64"), OwnDouble, Nothing),
     Request("ex", Bare("own"), Of("own", "f32", "vector", "null"), Nothing),
     Request("spectral", Bare("mask"), Mask("f32", "a"), Nothing),
     Request("spectral", Bare("mask"), Mask("f32", "b"), Mask("f64", "b")),
     Request("ex", Bare("tilt"), Of("tilt", "f32", "vector", "null"), Nothing),
     Request("plain", Bare("sin"), Of("sin", "f32", "unary", "null"), Nothing)}

Two == Buffer("two", 2)
Four == Buffer("four", 4)
Filters ==
    {[api |-> "vector", name |-> "u", buf |-> Two], [api |-> "vector", name |-> "u", buf |-> Four],
     [api |-> "vector", name |-> "v", buf |-> Two], [api |-> "vector", name |-> "w", buf |-> Two]}
    \cup {[api |-> "bind", name |-> "p", h |-> "u", g |-> "v", hs |-> s, gs |-> s] : s \in {"", "u"}}
    \cup {[api |-> "bind", name |-> "q", h |-> "u", g |-> "v", hs |-> "", gs |-> "u"]}
    \cup {[api |-> "taps", set |-> TapSet("p", Four, Four, 4, Two, Two, 2)]}

(* Synthesis filters of different lengths.                                 *)
Unequal ==
    {[api |-> "vector", name |-> "u", buf |-> Four], [api |-> "vector", name |-> "v", buf |-> Two],
     [api |-> "bind", name |-> "p", h |-> "v", g |-> "v", hs |-> "u", gs |-> "v"]}

Let(name, to) == [name |-> Bare(name), to |-> Bare(to)]
Writes(lets, form, name, prec) == [lets |-> lets, form |-> form, name |-> name, prec |-> prec]
UserPrograms ==
    {Writes(lets, "stage", Bare("own"), "f32") :
         lets \in {<<>>, <<Let("own", "sum")>>, <<Let("x", "sin"), Let("own", "x")>>,
                    <<Let("own", "x"), Let("x", "sin")>>, <<Let("own", "sin"), Let("own", "sum")>>,
                    <<Let("x", "sin"), Let("y", "x"), Let("own", "y")>>,
                    <<Let("own", "x"), Let("x", "own")>>}}
    \cup {Writes(<<>>, "stage", Bare(name), "f32") : name \in {"sin", "sum"}}
    \cup {Writes(<<>>, "stage", Name("sin", FALSE, "f32"), "f32")}
    \cup {Writes(<<>>, "pipe", Bare(name), prec) :
              name \in {"mask", "tilt", "own"}, prec \in {"f32", "f64"}}
    \cup {Writes(<<>>, "spectral", Bare(name), prec) :
              name \in {"sin", "own"}, prec \in {"f32", "f64"}}
=============================================================================
