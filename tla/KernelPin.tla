----------------------------- MODULE KernelPin ------------------------------
(***************************************************************************)
(* What the JIT promises its callers, with no files, no compiler and no    *)
(* compare-and-swap (faf_execute_jit_cached in include/fastandfourier.h):  *)
(* a call runs a mapped kernel, its own or the one pinned on the           *)
(* transform; the first call that gets that far pins its kernel; a pinned  *)
(* kernel stays for the life of the transform; what is not pinned is       *)
(* unmapped when its call ends.                                            *)
(***************************************************************************)
CONSTANTS Procs, Threads, Transforms, Handles, Homes, NULL

VARIABLES
    mapped,  \* mapped[p]: the kernels mapped in process p
    own,     \* own[th]: the kernel the call of th will unmap, or NULL
    pin,     \* pin[t]: the kernel pinned on t, or NULL
    run      \* run[th]: the kernel th is inside, or NULL

vars == <<mapped, own, pin, run>>

Idle(th) == own[th] = NULL /\ run[th] = NULL

Init ==
    /\ mapped = [p \in Procs |-> {}]
    /\ own = [th \in Threads |-> NULL]
    /\ pin = [t \in Transforms |-> NULL]
    /\ run = [th \in Threads |-> NULL]

(* A call that found nothing pinned gets a kernel of its own.              *)
Acquire(th) ==
    /\ Idle(th)
    /\ \E h \in Handles \ mapped[Homes[th]] :
          /\ mapped' = [mapped EXCEPT ![Homes[th]] = @ \cup {h}]
          /\ own' = [own EXCEPT ![th] = h]
    /\ UNCHANGED <<pin, run>>

RunPinned(th, t) ==
    /\ Idle(th) /\ Homes[t] = Homes[th] /\ pin[t] # NULL
    /\ run' = [run EXCEPT ![th] = pin[t]]
    /\ UNCHANGED <<mapped, own, pin>>

(* The kernel goes to the transform and runs from there.                   *)
PinAndRun(th, t) ==
    /\ own[th] # NULL /\ run[th] = NULL
    /\ Homes[t] = Homes[th] /\ pin[t] = NULL
    /\ pin' = [pin EXCEPT ![t] = own[th]]
    /\ run' = [run EXCEPT ![th] = own[th]]
    /\ own' = [own EXCEPT ![th] = NULL]
    /\ UNCHANGED mapped

RunOwn(th) ==
    /\ own[th] # NULL /\ run[th] = NULL
    /\ run' = [run EXCEPT ![th] = own[th]]
    /\ UNCHANGED <<mapped, own, pin>>

Return(th) ==
    /\ run[th] # NULL
    /\ run' = [run EXCEPT ![th] = NULL]
    /\ UNCHANGED <<mapped, own, pin>>

Unmap(th) ==
    /\ own[th] # NULL /\ run[th] = NULL
    /\ mapped' = [mapped EXCEPT ![Homes[th]] = @ \ {own[th]}]
    /\ own' = [own EXCEPT ![th] = NULL]
    /\ UNCHANGED <<pin, run>>

(* The transform is destroyed; no call is using its kernel.                *)
Retire(t) ==
    /\ pin[t] # NULL
    /\ \A th \in Threads : Homes[th] = Homes[t] => run[th] # pin[t]
    /\ mapped' = [mapped EXCEPT ![Homes[t]] = @ \ {pin[t]}]
    /\ pin' = [pin EXCEPT ![t] = NULL]
    /\ UNCHANGED <<own, run>>

(* The process is gone.                                                    *)
Die(p) ==
    LET none(f) == [x \in DOMAIN f |-> IF Homes[x] = p THEN NULL ELSE f[x]] IN
    /\ mapped' = [mapped EXCEPT ![p] = {}]
    /\ own' = none(own) /\ pin' = none(pin) /\ run' = none(run)

Next ==
    \/ \E th \in Threads : Acquire(th) \/ RunOwn(th) \/ Return(th) \/ Unmap(th)
    \/ \E th \in Threads, t \in Transforms : RunPinned(th, t) \/ PinAndRun(th, t)
    \/ \E t \in Transforms : Retire(t)
    \/ \E p \in Procs : Die(p)

Spec == Init /\ [][Next]_vars
=============================================================================
