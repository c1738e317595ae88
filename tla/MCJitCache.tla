----------------------------- MODULE MCJitCache -----------------------------
(* Small instances of JitCache.                                            *)
EXTENDS JitCache, TLC

CONSTANTS p1, p2, a, b, c, t1, t2, t3, t4, t5, h1, h2, h3, h4, h5,
          i1, i2, i3

Threads3 == (a :> p1) @@ (b :> p1) @@ (c :> p1)
Homes1 == Threads3 @@ (t1 :> p1) @@ (t2 :> p1) @@ (t3 :> p1) @@ (t4 :> p1)
(* Two processes with a thread and transforms of their own.                *)
Homes2 == (a :> p1) @@ (b :> p2) @@ (t1 :> p1) @@ (t2 :> p2) @@ (t3 :> p1)
              @@ (t4 :> p2) @@ (t5 :> p1)

(* A DWT chain, without and with a call of a Chirp builtin, and a fused    *)
(* real pipeline.                                                          *)
Dwt(code) == [n |-> 256, type |-> "DWT", prec |-> "f32", code |-> code,
              ops |-> {}, exec |-> FALSE]
Call == [Dwt("dwt+call") EXCEPT !.ops = {"CALL_BUILTIN"}]
Pipe == [Dwt("pipe") EXCEPT !.type = "PIPELINE", !.ops = {"CALL_BUILTIN"}]

ProgDwts  == (t1 :> Dwt("haar")) @@ (t2 :> Dwt("haar"))
ProgCalls == (t1 :> Call) @@ (t2 :> Call)
(* Fused pipelines, and three chains of two programs.                      *)
ProgPipes == (t1 :> Pipe) @@ (t2 :> Pipe)
ProgTwo   == (t3 :> Dwt("haar")) @@ (t4 :> Dwt("haar")) @@ (t5 :> Dwt("db4"))

HandleSymmetry == Permutations(Handles)
ThreadSymmetry == Permutations(Threads) \cup HandleSymmetry
FileSymmetry == Permutations(Inodes) \cup HandleSymmetry
=============================================================================
