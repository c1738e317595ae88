---------------------------- MODULE TransformCall ---------------------------
(***************************************************************************)
(* What a call of a transform promises, whatever executes it: given a      *)
(* signal, sooner or later the result is in the caller's buffer, and it is *)
(* what the transform's stages mean, one after the other.                  *)
(***************************************************************************)
CONSTANTS
    Input(_),       \* is this a signal a caller may pass?
    Meaning(_, _)   \* what a sequence of stages makes of a signal

VARIABLES does, arg, result, status

Init == status = "idle" /\ arg = <<>> /\ result = <<>>

Call == /\ status \in {"idle", "returned"}
        /\ Input(arg')
        /\ result' = <<>> /\ status' = "run"
        /\ UNCHANGED does

Return == /\ status = "run"
          /\ result' = Meaning(does, arg)
          /\ status' = "returned"
          /\ UNCHANGED <<does, arg>>

Next == Call \/ Return
Spec == Init /\ [][Next]_<<does, arg, result, status>>
=============================================================================
