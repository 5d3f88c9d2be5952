------------------------- MODULE MC_RecoveryBackoff -------------------------
(* Model-checking instance of RecoveryBackoff. *)
EXTENDS RecoveryBackoff

(* The spec's scenario factor 2, the default 1, a factor whose powers are  *)
(* not powers of two, and the largest.                                     *)
MC_Factors == {1, 2, 3, 8}
=============================================================================
