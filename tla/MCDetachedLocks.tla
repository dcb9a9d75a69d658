-------------------------- MODULE MCDetachedLocks --------------------------
(***************************************************************************)
(* An instance of DetachedLocks for TLC: three handlers that compete for   *)
(* one lock, in a map for two at a time whose limit may be lowered to one. *)
(***************************************************************************)
EXTENDS DetachedLocks

CONSTANTS h1, h2, h3, blob, caller

All == {<<h1, h2, h3>>}

LoweredTo == {1}
TwoAtATime == {2}

=============================================================================
