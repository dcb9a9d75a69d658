----------------------------- MODULE KeyedWork -----------------------------
(***************************************************************************)
(* What a parka.Map promises its callers, without work grants, queues and  *)
(* locks: every key that is asked for is worked on once, its outcome stays *)
(* what it is, and only a key nobody has begun with can be forgotten.      *)
(***************************************************************************)
CONSTANTS Key, Outcome

VARIABLES
  status,  \* "unknown", "pending", "running" or "done", for each key
  outcome  \* the outcome of a key that is done, "none" before

vars == <<status, outcome>>

Init ==
  /\ status = [k \in Key |-> "unknown"]
  /\ outcome = [k \in Key |-> "none"]

\* Some unknown keys are asked for.
Ask ==
  \E S \in SUBSET {k \in Key : status[k] = "unknown"} :
    /\ status' = [k \in Key |-> IF k \in S THEN "pending" ELSE status[k]]
    /\ UNCHANGED outcome

Begin(k) ==
  /\ status[k] = "pending"
  /\ status' = [status EXCEPT ![k] = "running"]
  /\ UNCHANGED outcome

Finish(k) ==
  /\ status[k] = "running"
  /\ status' = [status EXCEPT ![k] = "done"]
  /\ \E r \in Outcome : outcome' = [outcome EXCEPT ![k] = r]

\* The keys in S, all pending, are forgotten.
Forget(S) ==
  /\ \A k \in S : status[k] = "pending"
  /\ status' = [k \in Key |-> IF k \in S THEN "unknown" ELSE status[k]]
  /\ UNCHANGED outcome

Next ==
  \/ Ask
  \/ \E S \in SUBSET Key : Forget(S)
  \/ \E k \in Key : Begin(k) \/ Finish(k)

\* A pending key is begun with or forgotten, a running key is finished.
Fairness ==
  \A k \in Key :
    /\ WF_vars(Begin(k) \/ \E S \in SUBSET Key : k \in S /\ Forget(S))
    /\ WF_vars(Finish(k))

Spec     == Init /\ [][Next]_vars
FairSpec == Spec /\ Fairness

=============================================================================
