--------------------------- MODULE MCGaloisArith ---------------------------
(***************************************************************************)
(* Checks seal_rotate_cols' sub-steps (GaloisArith) over bounded inputs.  *)
(* The functions are stateless, so each state is one call: a ring degree  *)
(* n and a requested rotation step, and every step moves to another call. *)
(* The other rotation arithmetic is checked in MCFheGraph.                *)
(***************************************************************************)
EXTENDS GaloisArith

CONSTANTS
    Degrees,    \* ring dimensions n (powers of two) the calls use
    StepBound   \* steps range over -StepBound..StepBound

ASSUME Degrees # {} /\ \A d \in Degrees : d >= 8 /\ \E k \in 3..10 : d = 2^k
ASSUME StepBound \in Nat

Steps == -StepBound..StepBound

VARIABLES n, step

vars == <<n, step>>

Init == n \in Degrees /\ step \in Steps

\* The next get_glk_col / rotate_cols call, with any ring and any step.
Call == n' \in Degrees /\ step' \in Steps

Spec == Init /\ [][Call]_vars

(***************************************************************************)
(* The spec: identity rotations (multiples of n/2) are skipped.  Checked   *)
(* against the sub-steps seal_rotate_cols turns into RotateColUnit nodes.  *)
(***************************************************************************)
SealSkipsIdentityRotations ==
    \A k \in 1..Len(SealAppliedSubSteps(step, n)) :
        ~IsIdentityRotation(SealAppliedSubSteps(step, n)[k], n)
=============================================================================
