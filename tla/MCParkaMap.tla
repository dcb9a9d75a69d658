----------------------------- MODULE MCParkaMap -----------------------------
(***************************************************************************)
(* Instances of ParkaMap for TLC.                                          *)
(***************************************************************************)
EXTENDS ParkaMapProperties, TLC

CONSTANTS k1, k2, k3, c1, c2

\* Batches repeat a key, overlap, and disagree on the order.
Three == {<<k1, k2, k1>>, <<k3, k1>>}
Twice == {<<k1, k2, k1>>, <<k2>>}

JustOne   == {1}
OneOrTwo  == {1, 2}
ZeroOrTwo == {0, 2}

ClientSymmetry == Permutations(Client)

=============================================================================
