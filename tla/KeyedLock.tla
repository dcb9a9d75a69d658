----------------------------- MODULE KeyedLock -----------------------------
(***************************************************************************)
(* What a lock per key promises: a key has at most one owner, who may give *)
(* it up or hand it over to a process that asked for it.                   *)
(***************************************************************************)
CONSTANTS Proc, Key

VARIABLES
  owner,  \* the set of owners of a key
  wants   \* the set of processes that asked for a key

vars == <<owner, wants>>

Init ==
  /\ owner = [k \in Key |-> {}]
  /\ wants = [k \in Key |-> {}]

Ask(p, k) ==
  /\ wants' = [wants EXCEPT ![k] = @ \cup {p}]
  /\ UNCHANGED owner

Acquire(p, k) ==
  /\ p \in wants[k]
  /\ owner[k] = {}
  /\ owner' = [owner EXCEPT ![k] = {p}]
  /\ wants' = [wants EXCEPT ![k] = @ \ {p}]

Release(p, k) ==
  /\ owner[k] = {p}
  /\ owner' = [owner EXCEPT ![k] = {}]
  /\ UNCHANGED wants

HandOver(p, q, k) ==
  /\ owner[k] = {p}
  /\ q \in wants[k]
  /\ owner' = [owner EXCEPT ![k] = {q}]
  /\ wants' = [wants EXCEPT ![k] = @ \ {q}]

Next ==
  \E p \in Proc, k \in Key :
    \/ Ask(p, k)
    \/ Acquire(p, k)
    \/ Release(p, k)
    \/ \E q \in Proc : HandOver(p, q, k)

Spec == Init /\ [][Next]_vars

=============================================================================
