------------------------ MODULE DetachedLocks_proofs ------------------------
(***************************************************************************)
(* Proofs about DetachedLocks, for any keys, limits and number of calls:   *)
(* the composition is the map and the mutex, so that whatever is proved of *)
(* either holds of handlers that lock; and where a handler is in lock()    *)
(* and where it is in the map agree (PlacesAgree).  The latter is an       *)
(* invariant of both together: it needs the queues of the mutex, whose     *)
(* head is blocked and so detached when it gets the lock, and the queue of *)
(* the map, whose keys nobody works on when their handlers begin.          *)
(***************************************************************************)
EXTENDS DetachedLocks, ParkaMap_proofs

\* What a step of the composition is for the map, and for the mutex.
LEMMA StepOfMap == [NextAll]_allVars => [Next]_vars
<1> SUFFICES ASSUME [NextAll]_allVars PROVE [Next]_vars
  OBVIOUS
<1>1. ASSUME NEW k \in Key, NEW m \in MutexKey, LockDetached(k, m)  PROVE UNCHANGED vars
  BY <1>1 DEF LockDetached, InMutex
<1>2. ASSUME NEW k \in Key, Locking(k)  PROVE [Next]_vars
  BY <1>2 DEF Locking, InMutex, InMap, TryDetach, ReattachLocked, Next, HandlerActs
<1>3. ASSUME NEW k \in Key, Unlock(k)  PROVE UNCHANGED vars
  BY <1>3 DEF Unlock, InMutex
<1>4. ASSUME NEW k \in Key, Ends(k)  PROVE Next
  BY <1>4 DEF Ends, InMap, Next, HandlerActs
<1>5. ASSUME NEW k \in Key, InMap(WorkerContinues(k)) \/ InMap(ReceiveGrant(k))  PROVE Next
  BY <1>5 DEF InMap, Next
<1>6. ASSUME NEW c \in Client, InMap(ClientCalls(c) \/ ClientContinues(c))  PROVE Next
  BY <1>6 DEF InMap, Next
<1>7. CASE RestAll
  BY <1>7 DEF RestAll, InMap, Next
<1>8. CASE UNCHANGED allVars
  BY <1>8 DEF allVars
<1> QED BY <1>1, <1>2, <1>3, <1>4, <1>5, <1>6, <1>7, <1>8 DEF NextAll

LEMMA StepOfMutex == [NextAll]_allVars => [Mutex!Next]_(Mutex!vars)
<1> SUFFICES ASSUME [NextAll]_allVars PROVE [Mutex!Next]_(Mutex!vars)
  OBVIOUS
<1>0. UNCHANGED mutexVars => UNCHANGED Mutex!vars
  BY DEF mutexVars, Mutex!vars
<1>1. ASSUME NEW k \in Key, NEW m \in MutexKey, LockDetached(k, m)  PROVE Mutex!Next
  BY <1>1 DEF LockDetached, InMutex, Mutex!Next
<1>2. ASSUME NEW k \in Key, Locking(k)  PROVE [Mutex!Next]_(Mutex!vars)
  BY <1>0, <1>2 DEF Locking, InMutex, InMap, TryDetach, ReattachLocked, Mutex!Next, Mutex!Locking
<1>3. ASSUME NEW k \in Key, Unlock(k)  PROVE Mutex!Next
  BY <1>3 DEF Unlock, InMutex, Mutex!Next
<1>4. ASSUME NEW k \in Key,
             Ends(k) \/ InMap(WorkerContinues(k)) \/ InMap(ReceiveGrant(k))
      PROVE  UNCHANGED mutexVars
  BY <1>4 DEF Ends, InMap
<1>5. ASSUME NEW c \in Client, InMap(ClientCalls(c) \/ ClientContinues(c))
      PROVE  UNCHANGED mutexVars
  BY <1>5 DEF InMap
<1>6. CASE RestAll \/ UNCHANGED allVars
  BY <1>0, <1>6 DEF RestAll, InMap, allVars
<1> QED BY <1>0, <1>1, <1>2, <1>3, <1>4, <1>5, <1>6 DEF NextAll

\* The handlers that lock use the map as any handlers do: what holds of the
\* map holds of them.
THEOREM MapAsSpecified == SpecAll => Spec
<1>1. InitAll => Init
  BY DEF InitAll
<1> QED BY <1>1, StepOfMap, PTL DEF SpecAll, Spec

\* In particular, the limit holds for handlers that come back from a lock, and
\* no key overtakes them.
THEOREM LocksKeepLimit == SpecAll => LimitRespected /\ NoOvertaking
BY MapAsSpecified, LimitIsRespected, NoneOvertakes, PTL

\* And they use the mutex as any goroutines do; what the mutex takes for
\* granted of Detach and Reattach is so in the map.
THEOREM MutexStepsAsSpecified == SpecAll => Mutex!Spec
<1>1. InitAll => Mutex!Init
  BY DEF InitAll
<1> QED BY <1>1, StepOfMutex, PTL DEF SpecAll, Mutex!Spec

-----------------------------------------------------------------------------
(***************************************************************************)
(* What is proved of the mutex holds of the locks of handlers.             *)
(***************************************************************************)
MutexProofs == INSTANCE KeyMutex_proofs WITH
                 Proc <- Key, Handlers <- Key, Key <- MutexKey, pc <- place

LEMMA MutexInvariance == SpecAll => []MutexProofs!IInv
<1>1. Key \subseteq Key
  OBVIOUS
<1>2. InitAll => MutexProofs!IInv
  <2>1. InitAll => MutexProofs!Init
    BY DEF InitAll, Mutex!Init, MutexProofs!Init
  <2> QED BY <1>1, <2>1, LocksAssumption, MutexProofs!InitIInv
<1>3. MutexProofs!IInv /\ [NextAll]_allVars => MutexProofs!IInv'
  <2>1. Mutex!Next => MutexProofs!Next
    BY DEF Mutex!Next, Mutex!Lock, Mutex!Look, Mutex!TryDetach, Mutex!Receive,
           Mutex!Return, Mutex!Pass, Mutex!Free, Mutex!Unlock, Mutex!Locking,
           Mutex!Goto, Mutex!Closed, Mutex!Done, Mutex!vars,
           MutexProofs!Next, MutexProofs!Lock, MutexProofs!Look,
           MutexProofs!TryDetach, MutexProofs!Receive, MutexProofs!Return,
           MutexProofs!Pass, MutexProofs!Free, MutexProofs!Unlock,
           MutexProofs!Locking, MutexProofs!Goto, MutexProofs!Closed,
           MutexProofs!Done, MutexProofs!vars
  <2>2. UNCHANGED Mutex!vars => UNCHANGED MutexProofs!vars
    BY DEF Mutex!vars, MutexProofs!vars
  <2>3. [Mutex!Next]_(Mutex!vars) => [MutexProofs!Next]_(MutexProofs!vars)
    BY <2>1, <2>2
  <2> QED BY <1>1, <2>3, StepOfMutex, LocksAssumption, MutexProofs!NextIInv
<1> QED BY <1>2, <1>3, PTL DEF SpecAll

\* Two handlers never own a lock at once, in whatever order the map gives them
\* their places back.
THEOREM LocksExclude == SpecAll => []Mutex!MutualExclusion
<1>1. MutexProofs!IInv => Mutex!MutualExclusion
  BY DEF MutexProofs!IInv, MutexProofs!MutualExclusion, MutexProofs!Owns,
         Mutex!MutualExclusion, Mutex!Owns
<1> QED BY <1>1, MutexInvariance, PTL

-----------------------------------------------------------------------------
(***************************************************************************)
(* Where a handler is in lock(), for each of its places in the map.        *)
(***************************************************************************)
PlacesIn(phase) ==
  CASE phase = "attached"    -> {"idle", "looking", "found", "acquired", "locked"}
    [] phase = "detaching"   -> {"ready"}
    [] phase = "detached"    -> {"looking", "found", "ready", "blocked", "acquired"}
    [] phase = "reattaching" -> {"acquired"}
    [] OTHER                 -> {"idle"}

\* A handler that is not in the map is in lock(), which knows that it detached.
PlacesAgree ==
  \A k \in Key :
    /\ place[k] \in PlacesIn(handler[k])
    /\ handler[k] \in {"detaching", "detached", "reattaching"} => detached[k]

\* What the map does to a handler on its own.
Moved(k) ==
  \/ handler'[k] = handler[k]
  \/ handler[k] \notin Running /\ handler'[k] \in Phases \ {"detaching", "detached", "reattaching"}
  \/ handler[k] = "detaching" /\ handler'[k] = "detached"
  \/ handler[k] = "reattaching" /\ handler'[k] = "attached"

LEMMA MovesAgree ==
  ASSUME PlacesAgree, NEW k \in Key, Moved(k), place'[k] = place[k], detached'[k] = detached[k]
  PROVE  /\ place'[k] \in PlacesIn(handler'[k])
         /\ handler'[k] \in {"detaching", "detached", "reattaching"} => detached'[k]
BY DEF PlacesAgree, Moved, PlacesIn, Running, Phases

\* The goroutines of the map and its callers spawn handlers only for keys
\* that have none, and detach or reattach no handler that did not ask for it.
LEMMA SpawnMoves ==
  ASSUME NEW Q \in SUBSET Key, \A k \in Q : handler[k] = "none", handler' = Spawn(Q)
  PROVE  \A k \in Key : Moved(k)
BY DEF Spawn, Moved, Running, Phases

LEMMA ClientMoves ==
  ASSUME IInv, NEW c \in Client, ClientCalls(c) \/ ClientContinues(c)
  PROVE  \A k \in Key : Moved(k)
<1>1. CASE ScheduleNewKeys(c)
  <2>1. PICK n : n = Smaller(Issuable(grantLimit), Len(newKeys[c]))
    OBVIOUS
  <2>2. handler' = Spawn(Range(SubSeq(newKeys[c], 1, n)))
    BY <1>1, <2>1 DEF ScheduleNewKeys
  <2>3. /\ newKeys[c] \in Seq(Key) /\ IsInjective(newKeys[c])
        /\ \A k \in Range(newKeys[c]) : k \in Key /\ handler[k] = "none"
    BY QueueUnworked
  <2>4. n \in 0..Len(newKeys[c])
    BY <2>1, <2>3 DEF IInv, TypeOK, Smaller, Larger, Issuable
  <2>5. Range(SubSeq(newKeys[c], 1, n)) \subseteq Range(newKeys[c])
    BY <2>3, <2>4, SplitQueue
  <2> QED BY <2>2, <2>3, <2>5, SpawnMoves
<1>2. ASSUME NEW l \in Limits, Limit(c, l)  PROVE \A k \in Key : Moved(k)
  <2>1. PICK n : n = ToKeys(Larger(1, l))
    OBVIOUS
  <2>2. handler' = Spawn(Range(Popped(n)))
    BY <1>2, <2>1 DEF Limit
  <2>3. /\ keys \in Seq(Key) /\ IsInjective(keys)
        /\ \A k \in Range(keys) : k \in Key /\ handler[k] = "none"
    BY QueueUnworked
  <2>4. n \in 0..Len(keys)
    <3>1. l \in Int /\ grants \in Nat /\ reattachers \in Nat /\ Len(keys) \in Nat
      BY <2>3, MapAssumption DEF IInv, TypeOK
    <3> QED BY <2>1, <3>1 DEF ToKeys, ToReattachers, Smaller, Larger, Issuable
  <2>5. Range(Popped(n)) \subseteq Range(keys)
    BY <2>3, <2>4, SplitQueue DEF Popped
  <2> QED BY <2>2, <2>3, <2>5, SpawnMoves
<1>3. ASSUME handler' = handler  PROVE \A k \in Key : Moved(k)
  BY <1>3 DEF Moved
<1>4. CASE \E m \in {"Inform", "InformFront", "Collect"}, ks \in Batches :
             GetOrCreateTasks(c, m, ks)
  BY <1>3, <1>4 DEF GetOrCreateTasks
<1>5. CASE \E m \in {"DequeueAll", "Cleanup"} : DequeueAll(c, m)
  BY <1>3, <1>5 DEF DequeueAll
<1>6. CASE Wait(c) \/ CleanupWait(c)
  BY <1>3, <1>6 DEF Wait, CleanupWait, EnterWait
<1>7. CASE LoadHandled(c) \/ ReadTotal(c) \/ WaitReturns(c) \/ AwaitTask(c) \/ EjectTask(c)
  BY <1>3, <1>7 DEF LoadHandled, ReadTotal, WaitReturns, AwaitTask, EjectTask
<1> QED BY <1>1, <1>2, <1>4, <1>5, <1>6, <1>7 DEF ClientCalls, ClientContinues

LEMMA WorkerMoves ==
  ASSUME IInv, NEW j \in Key, WorkerContinues(j) \/ ReceiveGrant(j)
  PROVE  \A k \in Key : Moved(k)
<1> USE DEF Moved, Running, Phases
<1>0. handler \in [Key -> Phases]
  BY DEF IInv, TypeOK
<1>1. CASE StartHandler(j) \/ OpenGate(j)
  BY <1>0, <1>1 DEF StartHandler, OpenGate, SetPhase
<1>2. CASE NextKey(j)
  <2>1. handler[j] = "looking" /\ TryGetQueuedKey(j, "none", "sending")
    BY <1>2 DEF NextKey
  <2>2. keys # <<>> => Head(keys) \in Key /\ handler[Head(keys)] = "none"
    BY QueueUnworked, TailOfQueue
  <2> QED BY <1>0, <2>1, <2>2 DEF TryGetQueuedKey, SetPhase
<1>3. ASSUME NEW w \in Key, WorkerSendsGrant(w, j)  PROVE \A k \in Key : Moved(k)
  BY <1>0, <1>3 DEF WorkerSendsGrant
<1>4. ASSUME NEW c \in Client, LimitSendsGrant(c, j)  PROVE \A k \in Key : Moved(k)
  BY <1>0, <1>4 DEF LimitSendsGrant, SetPhase
<1> QED BY <1>1, <1>2, <1>3, <1>4 DEF WorkerContinues, ReceiveGrant

LEMMA PlacesNext ==
  IInv /\ MutexProofs!IInv /\ PlacesAgree /\ [NextAll]_allVars => PlacesAgree'
<1> SUFFICES ASSUME IInv, MutexProofs!IInv, PlacesAgree, [NextAll]_allVars  PROVE PlacesAgree'
  OBVIOUS
<1>0. /\ handler \in [Key -> Phases] /\ place \in [Key -> MutexProofs!Places]
      /\ detached \in [Key -> BOOLEAN] /\ waiters \in [MutexKey -> Seq(Key)]
      /\ target \in [Key -> MutexKey]
  BY DEF IInv, TypeOK, MutexProofs!IInv, MutexProofs!TypeOK
<1>1. ASSUME \A k \in Key : Moved(k), UNCHANGED mutexVars  PROVE PlacesAgree'
  BY <1>1, MovesAgree DEF PlacesAgree, mutexVars
<1>2. ASSUME NEW k \in Key, NEW m \in MutexKey, LockDetached(k, m)  PROVE PlacesAgree'
  <2>1. /\ handler[k] = "attached" /\ UNCHANGED <<handler, detached>>
        /\ place' = [place EXCEPT ![k] = "looking"]
    BY <1>2 DEF LockDetached, InMutex, vars, Mutex!Lock, Mutex!Goto
  <2> QED BY <1>0, <2>1 DEF PlacesAgree, PlacesIn
<1>3. ASSUME NEW k \in Key, Locking(k)  PROVE PlacesAgree'
  <2>1. CASE handler[k] \in {"attached", "detached"} /\ InMutex(Mutex!Look(k))
    <3>1. /\ place[k] = "looking" /\ UNCHANGED <<handler, detached>>
          /\ \/ place' = [place EXCEPT ![k] = "found"]
             \/ place' = [place EXCEPT ![k] = "acquired"]
      BY <2>1 DEF InMutex, vars, Mutex!Look, Mutex!Goto
    <3> QED BY <1>0, <2>1, <3>1 DEF PlacesAgree, PlacesIn
  <2>2. CASE TryDetach(k)
    <3>1. /\ place[k] = "found" /\ place' = [place EXCEPT ![k] = "ready"]
          /\ detached' = [detached EXCEPT ![k] = TRUE]
      BY <1>0, <2>2 DEF TryDetach, Mutex!TryDetach, Mutex!Goto
    <3>2. CASE handler[k] = "attached"
      <4>1. TryGetQueuedKey(k, "detached", "detaching")
        BY <2>2, <3>2 DEF TryDetach, Detach
      <4>2. keys # <<>> => Head(keys) \in Key /\ handler[Head(keys)] = "none"
        BY QueueUnworked, TailOfQueue
      <4>3. /\ handler'[k] \in {"detached", "detaching"}
            /\ \A j \in Key \ {k} :
                 handler'[j] = handler[j] \/ (handler[j] = "none" /\ handler'[j] = "spawned")
        BY <1>0, <3>2, <4>1, <4>2 DEF TryGetQueuedKey, SetPhase
      <4> QED BY <1>0, <3>1, <4>3 DEF PlacesAgree, PlacesIn
    <3>3. CASE handler[k] # "attached"
      <4>1. UNCHANGED handler
        BY <2>2, <3>3 DEF TryDetach, vars
      <4> QED BY <1>0, <3>1, <3>3, <4>1 DEF PlacesAgree, PlacesIn, Phases
    <3> QED BY <3>2, <3>3
  <2>3. CASE handler[k] \in {"attached", "detached"} /\ InMutex(Mutex!Receive(k))
    <3>1. /\ place[k] = "ready" /\ UNCHANGED <<handler, detached>>
          /\ \/ place' = [place EXCEPT ![k] = "looking"]
             \/ place' = [place EXCEPT ![k] = "blocked"]
      BY <2>3 DEF InMutex, vars, Mutex!Receive, Mutex!Goto
    <3> QED BY <1>0, <2>3, <3>1 DEF PlacesAgree, PlacesIn
  <2>4. CASE ReattachLocked(k)
    <3>1. /\ place[k] = "acquired" /\ handler[k] = "detached"
          /\ UNCHANGED <<place, detached>>
          /\ \/ handler' = [handler EXCEPT ![k] = "attached"]
             \/ handler' = [handler EXCEPT ![k] = "reattaching"]
      BY <2>4 DEF ReattachLocked, InMap, mutexVars, Reattach, SetPhase
    <3> QED BY <1>0, <3>1 DEF PlacesAgree, PlacesIn
  <2>5. CASE handler[k] = "attached" /\ InMutex(Mutex!Return(k))
    <3>1. /\ place' = [place EXCEPT ![k] = "locked"] /\ UNCHANGED handler
          /\ detached' = [detached EXCEPT ![k] = FALSE]
      BY <2>5 DEF InMutex, vars, Mutex!Return, Mutex!Goto
    <3> QED BY <1>0, <2>5, <3>1 DEF PlacesAgree, PlacesIn
  <2> QED BY <1>3, <2>1, <2>2, <2>3, <2>4, <2>5 DEF Locking
<1>4. ASSUME NEW k \in Key, Unlock(k)  PROVE PlacesAgree'
  <2>1. UNCHANGED <<handler, detached>> /\ place[k] = "locked"
    BY <1>4 DEF Unlock, InMutex, vars, Mutex!Unlock, Mutex!Pass, Mutex!Free
  <2>2. handler[k] = "attached"
    BY <1>0, <2>1 DEF PlacesAgree, PlacesIn, Phases
  <2>3. CASE Mutex!Pass(k)
    <3>1. PICK h : h = Head(waiters[target[k]])
      OBVIOUS
    <3>2. place' = [place EXCEPT ![k] = "idle", ![h] = "acquired"] /\ waiters[target[k]] # <<>>
      BY <2>3, <3>1 DEF Mutex!Pass
    <3>3. h \in Key /\ place[h] = "blocked"
      <4>1. h \in Range(waiters[target[k]])
        <5>1. waiters[target[k]] \in Seq(Key) /\ IsInjective(waiters[target[k]])
          BY <1>0 DEF MutexProofs!IInv, MutexProofs!WaitersBlocked,
                      MutexProofs!IsInjective, IsInjective
        <5> QED BY <3>1, <3>2, <5>1, TailOfQueue
      <4>2. h \in MutexProofs!Range(waiters[target[k]])
        BY <4>1 DEF Range, MutexProofs!Range
      <4> QED BY <1>0, <4>2 DEF MutexProofs!IInv, MutexProofs!WaitersBlocked
    <3>4. handler[h] = "detached"
      BY <1>0, <3>3 DEF PlacesAgree, PlacesIn, Phases
    <3> QED BY <1>0, <2>1, <2>2, <3>2, <3>3, <3>4 DEF PlacesAgree, PlacesIn
  <2>4. CASE Mutex!Free(k)
    <3>1. place' = [place EXCEPT ![k] = "idle"]
      BY <2>4 DEF Mutex!Free, Mutex!Goto
    <3> QED BY <1>0, <2>1, <2>2, <3>1 DEF PlacesAgree, PlacesIn
  <2> QED BY <1>4, <2>3, <2>4 DEF Unlock, InMutex, Mutex!Unlock
<1>5. ASSUME NEW k \in Key, Ends(k)  PROVE PlacesAgree'
  <2>1. /\ place[k] = "idle" /\ UNCHANGED <<place, detached>>
        /\ handler[k] \in {"attached", "detached"}
        /\ \/ handler' = [handler EXCEPT ![k] = "finished"]
           \/ handler' = [handler EXCEPT ![k] = "abandoned"]
    BY <1>5 DEF Ends, InMap, mutexVars, HandlerEnds, SetPhase
  <2> QED BY <1>0, <2>1 DEF PlacesAgree, PlacesIn
<1>6. ASSUME NEW k \in Key, InMap(WorkerContinues(k)) \/ InMap(ReceiveGrant(k))  PROVE PlacesAgree'
  BY <1>1, <1>6, WorkerMoves DEF InMap
<1>7. ASSUME NEW c \in Client, InMap(ClientCalls(c) \/ ClientContinues(c))  PROVE PlacesAgree'
  BY <1>1, <1>7, ClientMoves DEF InMap
<1>8. CASE RestAll \/ UNCHANGED allVars
  BY <1>8 DEF RestAll, InMap, Rest, allVars, vars, mutexVars, PlacesAgree
<1> QED BY <1>2, <1>3, <1>4, <1>5, <1>6, <1>7, <1>8 DEF NextAll

LEMMA PlacesInvariance == SpecAll => []PlacesAgree
<1>1. InitAll => PlacesAgree
  BY DEF InitAll, Init, Mutex!Init, PlacesAgree, PlacesIn
<1>2. SpecAll => []IInv
  BY MapAsSpecified, Invariance, PTL
<1> QED BY <1>1, <1>2, MutexInvariance, PlacesNext, PTL DEF SpecAll

\* A handler that waits for a lock has given its place in the map away, so that
\* the one it waits for can have it; and when LockDetached returns, the handler
\* has a place again (blobs.go:82-88).
THEOREM WaitersGiveWay ==
  SpecAll => [](\A k \in Key : /\ place[k] = "blocked" => handler[k] = "detached"
                               /\ place[k] = "locked" => handler[k] = "attached")
<1>1. IInv /\ PlacesAgree =>
        \A k \in Key : /\ place[k] = "blocked" => handler[k] = "detached"
                       /\ place[k] = "locked" => handler[k] = "attached"
  BY DEF IInv, TypeOK, PlacesAgree, PlacesIn, Phases
<1>2. SpecAll => []IInv
  BY MapAsSpecified, Invariance, PTL
<1> QED BY <1>1, <1>2, PlacesInvariance, PTL

\* When no handler runs, no key is locked: a handler does not leave the map with
\* a lock, and Unlock does not leave a lock to a handler that is gone.
THEOREM LocksReleased ==
  SpecAll => []((\A k \in Key : handler[k] \notin Running) => \A m \in MutexKey : ~chans[m])
<1>1. IInv /\ MutexProofs!IInv /\ PlacesAgree =>
        ((\A k \in Key : handler[k] \notin Running) => \A m \in MutexKey : ~chans[m])
  <2> SUFFICES ASSUME IInv, MutexProofs!IInv, PlacesAgree,
                      \A k \in Key : handler[k] \notin Running,
                      NEW m \in MutexKey
               PROVE  ~chans[m]
    OBVIOUS
  <2>1. \A k \in Key : place[k] = "idle"
    BY DEF IInv, TypeOK, PlacesAgree, PlacesIn, Phases, Running
  <2>2. \A k \in Key : ~MutexProofs!Owns(k, m)
    BY <2>1 DEF MutexProofs!Owns
  <2> QED BY <2>2 DEF MutexProofs!IInv, MutexProofs!LockedMeansOwned
<1>2. SpecAll => []IInv
  BY MapAsSpecified, Invariance, PTL
<1> QED BY <1>1, <1>2, MutexInvariance, PlacesInvariance, PTL

=============================================================================
