----------------------------- MODULE MCKeyMutex -----------------------------
(***************************************************************************)
(* An instance of KeyMutex for TLC.  There is no symmetry, as the run      *)
(* checks liveness.                                                        *)
(***************************************************************************)
EXTENDS KeyMutex

CONSTANTS p1, p2, p3, a, b

=============================================================================
