--------------------------- MODULE DetachedLocks ---------------------------
(***************************************************************************)
(* KeyMutex.LockDetached in the handlers of a parka.Map, as blobCopier     *)
(* composes them (internal/image/copy/blobs.go:82-88): a handler that has  *)
(* to wait for a lock gives its place in the map away while it waits, and  *)
(* with the lock in its hands waits for a place.                           *)
(*                                                                         *)
(* ParkaMap lets a handler detach whenever it likes, and KeyMutex takes it *)
(* for granted that Reattach returns.  Here the detaching and reattaching  *)
(* of a handler is what lock() does, and the rest of the mutex waits for   *)
(* it.  A handler is a process of the mutex, named by the key it works on. *)
(***************************************************************************)
EXTENDS ParkaMap

CONSTANTS
  MutexKey,  \* the keys of the mutex
  MaxLocks   \* bound: calls of LockDetached by all handlers

ASSUME LocksAssumption == MaxLocks \in Nat

VARIABLES chans, waiters, place, target, stale, detached, locks

mutexVars == <<chans, waiters, place, target, stale, detached, locks>>
allVars   == <<vars, mutexVars>>

Mutex == INSTANCE KeyMutex WITH
           Proc <- Key, Handlers <- Key, Key <- MutexKey, pc <- place

InitAll == Init /\ Mutex!Init

-----------------------------------------------------------------------------
\* A step of the handler alone, in which the map has no part.
InMutex(step) == step /\ UNCHANGED vars

\* A step of the map, in which the mutex has no part.
InMap(step) == step /\ UNCHANGED mutexVars

LockDetached(k, m) ==
  /\ handler[k] = "attached"
  /\ InMutex(Mutex!Lock(k, m))

\* Faulty: a handler keeps its place if a goroutine waits for its lock already.
TryDetachFirst(k) ==
  IF handler[k] = "attached" /\ waiters[target[k]] = <<>>
    THEN /\ Mutex!TryDetach(k)
         /\ detached'[k]
         /\ Detach(k)
    ELSE /\ Mutex!TryDetach(k)
         /\ detached'[k] = detached[k]
         /\ UNCHANGED vars

\* The lock is taken: tryDetach is ph.Detach, which returns true to a handler
\* that holds a work grant, once that grant is gone.
TryDetach(k) ==
  /\ Mutex!TryDetach(k)
  /\ detached'[k]
  /\ IF handler[k] = "attached"
       THEN Detach(k)
       ELSE UNCHANGED vars

\* The deferred ph.Reattach, for a handler that has detached.
ReattachLocked(k) ==
  /\ place[k] = "acquired"
  /\ InMap(Reattach(k))

\* The steps of lock() between which the handler is not inside the map.
Locking(k) ==
  \/ handler[k] \in {"attached", "detached"} /\ InMutex(Mutex!Look(k))
  \/ TryDetach(k)
  \/ handler[k] \in {"attached", "detached"} /\ InMutex(Mutex!Receive(k))
  \/ ReattachLocked(k)
  \/ handler[k] = "attached" /\ InMutex(Mutex!Return(k))

Unlock(k) == InMutex(Mutex!Unlock(k))

\* A handler returns without a lock.
Ends(k) ==
  /\ place[k] = "idle"
  /\ InMap(\E r \in Outcomes : HandlerEnds(k, r))

RestAll == InMap(Rest)

NextAll ==
  \/ \E k \in Key : \/ \E m \in MutexKey : LockDetached(k, m)
                    \/ Locking(k)
                    \/ Unlock(k)
                    \/ Ends(k)
                    \/ InMap(WorkerContinues(k))
                    \/ InMap(ReceiveGrant(k))
  \/ \E c \in Client : InMap(ClientCalls(c) \/ ClientContinues(c))
  \/ RestAll

(***************************************************************************)
(* The fairness of ParkaMap and of KeyMutex for the steps of goroutines    *)
(* that can go on; that of handlers does not promise that Reattach returns.*)
(***************************************************************************)
FairnessAll ==
  /\ \A c \in Client : WF_allVars(InMap(ClientContinues(c)))
  /\ \A k \in Key : /\ WF_allVars(InMap(WorkerContinues(k)))
                     /\ WF_allVars(InMap(ReceiveGrant(k)))
                     /\ WF_allVars(Locking(k))
                     /\ WF_allVars(Unlock(k))
                     /\ SF_allVars(Ends(k))

SpecAll == InitAll /\ [][NextAll]_allVars /\ FairnessAll

-----------------------------------------------------------------------------
\* What KeyMutex takes for granted is true in a map, whatever its limit and
\* however it is lowered: every behaviour is one of the mutex, and whoever
\* gets a lock gets its place back and returns with it, so that handlers
\* that wait for locks and handlers that wait for places never wait for each
\* other.
MutexAsSpecified == Mutex!FairSpec

=============================================================================
