------------------------------ MODULE KeyMutex ------------------------------
(***************************************************************************)
(* parka.KeyMutex (internal/parka/keymutex.go): mutual exclusion per key,  *)
(* with a channel per locked key through which Unlock passes the lock on.  *)
(*                                                                         *)
(* A channel leaves the map only when Unlock closes it, so a process knows *)
(* either the channel that is in the map or a closed one (stale), and the  *)
(* channels need no identity.  The receivers blocked on a channel form a   *)
(* queue, as in the Go runtime, whose fairness the code counts on          *)
(* (keymutex.go:59-63).                                                    *)
(***************************************************************************)
EXTENDS Naturals, Sequences, FiniteSets, Functions

CONSTANTS
  Proc,      \* goroutines
  Handlers,  \* those that call LockDetached: handlers of a parka.Map
  Key,
  MaxLocks   \* bound: calls of Lock and LockDetached by all goroutines

ASSUME KeyMutexAssumption ==
  /\ Handlers \subseteq Proc
  /\ MaxLocks \in Nat

VARIABLES
  chans,     \* whether KeyMutex.chans has a channel for the key
  waiters,   \* the goroutines blocked on that channel
  pc,        \* the place of the goroutine in lock() or around it
  target,    \* the key it locks or has locked
  stale,     \* whether the channel it found is closed
  detached,  \* lock: the variable detached
  locks      \* calls of Lock so far

vars == <<chans, waiters, pc, target, stale, detached, locks>>

\* idle      outside, holds no lock
\* looking   in front of the critical section of lock
\* found     has found a channel, in front of tryDetach
\* ready     in front of the receive
\* blocked   in the receive
\* acquired  owns the lock, in front of the deferred reattach
\* locked    lock has returned
Places == {"idle", "looking", "found", "ready", "blocked", "acquired", "locked"}

Init ==
  /\ chans = [k \in Key |-> FALSE]
  /\ waiters = [k \in Key |-> <<>>]
  /\ pc = [p \in Proc |-> "idle"]
  /\ target \in [Proc -> Key]
  /\ stale = [p \in Proc |-> FALSE]
  /\ detached = [p \in Proc |-> FALSE]
  /\ locks = 0

Goto(p, place) == pc' = [pc EXCEPT ![p] = place]

\* Lock or LockDetached is called.
Lock(p, k) ==
  /\ pc[p] = "idle"
  /\ locks < MaxLocks
  /\ locks' = locks + 1
  /\ target' = [target EXCEPT ![p] = k]
  /\ Goto(p, "looking")
  /\ UNCHANGED <<chans, waiters, stale, detached>>

\* The critical section of lock.
Look(p) ==
  /\ pc[p] = "looking"
  /\ IF chans[target[p]]
       THEN /\ Goto(p, "found")
            /\ stale' = [stale EXCEPT ![p] = FALSE]
            /\ UNCHANGED chans
       ELSE /\ Goto(p, "acquired")
            /\ chans' = [chans EXCEPT ![target[p]] = TRUE]
            /\ UNCHANGED stale
  /\ UNCHANGED <<waiters, target, detached, locks>>

\* tryDetach.  A handler that is already detached gets FALSE from Detach, and
\* noopDetach returns FALSE.
TryDetach(p) ==
  /\ pc[p] = "found"
  /\ \E d \in IF p \in Handlers THEN BOOLEAN ELSE {FALSE} :
       detached' = [detached EXCEPT ![p] = @ \/ d]
  /\ Goto(p, "ready")
  /\ UNCHANGED <<chans, waiters, target, stale, locks>>

\* Faulty: a closed channel counts as a token.
ReceiveUnchecked(p) ==
  /\ pc[p] = "ready"
  /\ IF stale[p]
       THEN Goto(p, "acquired") /\ waiters' = waiters
       ELSE /\ Goto(p, "blocked")
            /\ waiters' = [waiters EXCEPT ![target[p]] = Append(@, p)]
  /\ UNCHANGED <<chans, target, stale, detached, locks>>

\* The receive: on a closed channel it returns at once, without a token.
Receive(p) ==
  /\ pc[p] = "ready"
  /\ IF stale[p]
       THEN Goto(p, "looking") /\ UNCHANGED waiters
       ELSE /\ Goto(p, "blocked")
            /\ waiters' = [waiters EXCEPT ![target[p]] = Append(@, p)]
  /\ UNCHANGED <<chans, target, stale, detached, locks>>

\* The deferred reattach, and the return of lock.
Return(p) ==
  /\ pc[p] = "acquired"
  /\ detached' = [detached EXCEPT ![p] = FALSE]
  /\ Goto(p, "locked")
  /\ UNCHANGED <<chans, waiters, target, stale, locks>>

\* Faulty: the channel leaves the map but is not closed.
ClosedForgotten(k) == stale

\* close(ch): the goroutines that found the channel know a closed one.
Closed(k) ==
  [q \in Proc |-> stale[q] \/ (pc[q] \in {"found", "ready"} /\ target[q] = k)]

\* Faulty: the lock stays locked, but nobody gets the token.
PassToNobody(p) ==
  /\ pc[p] = "locked"
  /\ waiters[target[p]] # <<>>
  /\ Goto(p, "idle")
  /\ UNCHANGED <<chans, waiters, target, stale, detached, locks>>

\* The lock is passed to the first waiter, and stays locked.
Pass(p) ==
  LET k == target[p]
  IN  /\ pc[p] = "locked"
      /\ waiters[k] # <<>>
      /\ pc' = [pc EXCEPT ![p] = "idle", ![Head(waiters[k])] = "acquired"]
      /\ waiters' = [waiters EXCEPT ![k] = Tail(@)]
      /\ UNCHANGED <<chans, target, stale, detached, locks>>

\* No waiter is blocked: the channel is closed and deleted.
Free(p) ==
  LET k == target[p]
  IN  /\ pc[p] = "locked"
      /\ waiters[k] = <<>>
      /\ Goto(p, "idle")
      /\ chans' = [chans EXCEPT ![k] = FALSE]
      /\ stale' = Closed(k)
      /\ UNCHANGED <<waiters, target, detached, locks>>

Unlock(p) == Pass(p) \/ Free(p)

Locking(p) == Look(p) \/ TryDetach(p) \/ Receive(p) \/ Return(p)

\* Every goroutine is out of the mutex, with no call left to make.
Done ==
  /\ \A p \in Proc : pc[p] = "idle"
  /\ UNCHANGED vars

Next ==
  \/ \E p \in Proc : \/ \E k \in Key : Lock(p, k)
                     \/ Locking(p)
                     \/ Unlock(p)
  \/ Done

\* Goroutines are scheduled, Reattach returns (it does, as long as other
\* handlers end or detach), and whoever holds a lock unlocks it in the end.
Fairness == \A p \in Proc : WF_vars(Locking(p)) /\ WF_vars(Unlock(p))

Spec     == Init /\ [][Next]_vars
FairSpec == Spec /\ Fairness

-----------------------------------------------------------------------------
TypeOK ==
  /\ chans \in [Key -> BOOLEAN]
  /\ waiters \in [Key -> Seq(Proc)]
  /\ pc \in [Proc -> Places]
  /\ target \in [Proc -> Key]
  /\ stale \in [Proc -> BOOLEAN]
  /\ detached \in [Proc -> BOOLEAN]
  /\ locks \in Nat

Owns(p, k) == pc[p] \in {"acquired", "locked"} /\ target[p] = k

\* At most one goroutine is past Lock and before Unlock of a key, although
\* the lock is passed on without ever being free and is looked up, waited
\* for and closed in separate steps.
MutualExclusion ==
  \A k \in Key : \A p, q \in Proc : Owns(p, k) /\ Owns(q, k) => p = q

\* A key is locked only while somebody is there to unlock it, and Unlock
\* finds the channel of a key that is locked: it never panics for its owner.
LockedMeansOwned == \A k \in Key : chans[k] <=> \E p \in Proc : Owns(p, k)

\* A goroutine that waits, or is about to wait, for a channel that is open
\* waits for a key that is locked: the unlock that would wake it is still to
\* come, also when the key was freed and locked again since it looked.
NoLostWakeup ==
  \A p \in Proc :
    \/ pc[p] = "blocked"
    \/ pc[p] \in {"found", "ready"} /\ ~stale[p]
    => chans[target[p]]

\* The queue of a channel holds exactly the goroutines blocked on it, once.
WaitersBlocked ==
  \A k \in Key :
    /\ IsInjective(waiters[k])
    /\ Range(waiters[k]) = {p \in Proc : pc[p] = "blocked" /\ target[p] = k}

-----------------------------------------------------------------------------
KL == INSTANCE KeyedLock WITH
        owner <- [k \in Key |-> {p \in Proc : Owns(p, k)}],
        wants <- [k \in Key |-> {p \in Proc :
                   /\ pc[p] \in {"looking", "found", "ready", "blocked"}
                   /\ target[p] = k}]

\* The mutex is a lock per key: no step takes a key from its owner.
ImplementsKeyedLock == KL!Spec

\* Whoever blocks on a channel is passed the lock: Unlock hands it over to the
\* first waiter before anybody who comes later can take it.
WaitersServed == \A p \in Proc : pc[p] = "blocked" ~> pc[p] = "locked"

=============================================================================
