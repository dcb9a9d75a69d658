-------------------------- MODULE MCRegistryClient --------------------------
(***************************************************************************)
(* An instance of RegistryClient for TLC: three goroutines, one of which   *)
(* may be cancelled, two keys, one of them of a silent registry.           *)
(***************************************************************************)
EXTENDS RegistryClient

CONSTANTS p1, p2, p3, pull, push

=============================================================================
