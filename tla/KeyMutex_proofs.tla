-------------------------- MODULE KeyMutex_proofs ---------------------------
(***************************************************************************)
(* Proofs about KeyMutex, for any goroutines, keys and number of calls.    *)
(*                                                                         *)
(* MutualExclusion alone is not inductive: Pass makes the head of a queue  *)
(* an owner, so the queue must hold blocked goroutines only                *)
(* (WaitersBlocked), and Look takes a lock whose channel is missing, so a  *)
(* missing channel must mean that there is no owner (LockedMeansOwned).    *)
(***************************************************************************)
EXTENDS KeyMutex, QueueFacts, TLAPS

IInv ==
  /\ TypeOK
  /\ MutualExclusion
  /\ LockedMeansOwned
  /\ NoLostWakeup
  /\ WaitersBlocked

USE DEF Places

LEMMA InitIInv == Init => IInv
<1> SUFFICES ASSUME Init PROVE IInv
  OBVIOUS
<1>1. TypeOK
  BY DEF Init, TypeOK
<1>2. MutualExclusion /\ LockedMeansOwned /\ NoLostWakeup
  BY DEF Init, MutualExclusion, LockedMeansOwned, NoLostWakeup, Owns
<1>3. WaitersBlocked
  BY DEF Init, WaitersBlocked, IsInjective, Range
<1> QED  BY <1>1, <1>2, <1>3 DEF IInv

\* A step that leaves the queues alone and blocks or wakes nobody.
LEMMA QueuesKept ==
  ASSUME WaitersBlocked, UNCHANGED waiters,
         \A p \in Proc : pc'[p] = "blocked" <=> pc[p] = "blocked",
         \A p \in Proc : pc[p] = "blocked" => target'[p] = target[p]
  PROVE  WaitersBlocked'
BY DEF WaitersBlocked

\* A step of a goroutine that is not an owner and becomes none, and leaves the
\* channels alone.
LEMMA OwnersKept ==
  ASSUME TypeOK, MutualExclusion, LockedMeansOwned, UNCHANGED chans,
         \A p \in Proc : \A k \in Key : Owns(p, k)' <=> Owns(p, k)
  PROVE  MutualExclusion' /\ LockedMeansOwned'
BY DEF MutualExclusion, LockedMeansOwned

LEMMA NextIInv == IInv /\ [Next]_vars => IInv'
<1> SUFFICES ASSUME IInv, [Next]_vars PROVE IInv'
  OBVIOUS
<1> USE DEF IInv, TypeOK
<1>1. ASSUME NEW p \in Proc, NEW k \in Key, Lock(p, k)  PROVE IInv'
  <2> USE <1>1 DEF Lock, Goto
  <2>1. TypeOK'
    OBVIOUS
  <2>2. MutualExclusion' /\ LockedMeansOwned' /\ NoLostWakeup'
    BY DEF MutualExclusion, LockedMeansOwned, NoLostWakeup, Owns
  <2>3. WaitersBlocked'
    BY QueuesKept
  <2> QED  BY <2>1, <2>2, <2>3
<1>2. ASSUME NEW p \in Proc, Look(p)  PROVE IInv'
  <2> USE <1>2 DEF Look, Goto
  <2>1. TypeOK'
    OBVIOUS
  <2>2. MutualExclusion' /\ LockedMeansOwned'
    <3>1. CASE chans[target[p]]
      <4>1. /\ pc' = [pc EXCEPT ![p] = "found"]
            /\ UNCHANGED <<chans, target>>
        BY <3>1
      <4>2. \A q \in Proc : \A j \in Key : Owns(q, j)' <=> Owns(q, j)
        BY <4>1 DEF Owns
      <4> QED  BY <4>1, <4>2, OwnersKept
    <3>2. CASE ~chans[target[p]]
      <4>1. /\ pc' = [pc EXCEPT ![p] = "acquired"]
            /\ chans' = [chans EXCEPT ![target[p]] = TRUE]
            /\ UNCHANGED target
        BY <3>2
      <4>2. \A q \in Proc : \A j \in Key :
              Owns(q, j)' <=> Owns(q, j) \/ (q = p /\ j = target[p])
        BY <4>1 DEF Owns
      <4>3. \A q \in Proc : ~Owns(q, target[p])
        BY <3>2 DEF LockedMeansOwned
      <4>4. MutualExclusion'
        <5> SUFFICES ASSUME NEW j \in Key, NEW q \in Proc, NEW r \in Proc,
                            Owns(q, j)', Owns(r, j)'
                     PROVE  q = r
          BY DEF MutualExclusion
        <5> QED  BY <4>2, <4>3 DEF MutualExclusion
      <4>5. ASSUME NEW j \in Key
            PROVE  chans'[j] <=> \E q \in Proc : Owns(q, j)'
        <5>1. CASE j = target[p]
          BY <4>1, <4>2, <5>1
        <5>2. CASE j # target[p]
          BY <4>1, <4>2, <5>2 DEF LockedMeansOwned
        <5> QED  BY <5>1, <5>2
      <4> QED  BY <4>4, <4>5 DEF LockedMeansOwned
    <3> QED  BY <3>1, <3>2
  <2>3. NoLostWakeup'
    BY DEF NoLostWakeup
  <2>4. WaitersBlocked'
    BY QueuesKept
  <2> QED  BY <2>1, <2>2, <2>3, <2>4
<1>3. ASSUME NEW p \in Proc, TryDetach(p)  PROVE IInv'
  <2>1. /\ pc[p] = "found"
        /\ pc' = [pc EXCEPT ![p] = "ready"]
        /\ UNCHANGED <<chans, waiters, target, stale, locks>>
        /\ \E d \in BOOLEAN : detached' = [detached EXCEPT ![p] = @ \/ d]
    BY <1>3 DEF TryDetach, Goto
  <2>2. TypeOK'
    BY <2>1
  <2>3. MutualExclusion' /\ LockedMeansOwned'
    <3>1. \A q \in Proc : \A j \in Key : Owns(q, j)' <=> Owns(q, j)
      BY <2>1 DEF Owns
    <3> QED  BY <2>1, <3>1, OwnersKept
  <2>4. NoLostWakeup'
    BY <2>1 DEF NoLostWakeup
  <2>5. WaitersBlocked'
    BY <2>1, QueuesKept
  <2> QED  BY <2>2, <2>3, <2>4, <2>5
<1>4. ASSUME NEW p \in Proc, Receive(p)  PROVE IInv'
  <2>1. CASE stale[p]
    <3>1. /\ pc[p] = "ready"
          /\ pc' = [pc EXCEPT ![p] = "looking"]
          /\ UNCHANGED <<chans, waiters, target, stale, detached, locks>>
      BY <1>4, <2>1 DEF Receive, Goto
    <3>2. TypeOK'
      BY <3>1
    <3>3. MutualExclusion' /\ LockedMeansOwned'
      <4>1. \A q \in Proc : \A j \in Key : Owns(q, j)' <=> Owns(q, j)
        BY <3>1 DEF Owns
      <4> QED  BY <3>1, <4>1, OwnersKept
    <3>4. NoLostWakeup'
      BY <3>1 DEF NoLostWakeup
    <3>5. WaitersBlocked'
      BY <3>1, QueuesKept
    <3> QED  BY <3>2, <3>3, <3>4, <3>5
  <2>2. CASE ~stale[p]
    <3> DEFINE k == target[p]
               w == Append(waiters[k], p)
    <3>1. /\ pc[p] = "ready"
          /\ pc' = [pc EXCEPT ![p] = "blocked"]
          /\ waiters' = [waiters EXCEPT ![k] = w]
          /\ UNCHANGED <<chans, target, stale, detached, locks>>
      BY <1>4, <2>2 DEF Receive, Goto
    <3>2. /\ waiters[k] \in Seq(Proc)
          /\ IsInjective(waiters[k])
          /\ p \notin Range(waiters[k])
      BY <3>1 DEF WaitersBlocked
    <3>3. /\ w \in Seq(Proc)
          /\ IsInjective(w)
          /\ Range(w) = Range(waiters[k]) \cup {p}
      BY <3>2, AppendToQueue
    <3> HIDE DEF w
    <3>4. TypeOK'
      BY <3>1, <3>3
    <3>5. MutualExclusion' /\ LockedMeansOwned'
      <4>1. \A q \in Proc : \A j \in Key : Owns(q, j)' <=> Owns(q, j)
        BY <3>1 DEF Owns
      <4> QED  BY <3>1, <4>1, OwnersKept
    <3>6. NoLostWakeup'
      BY <2>2, <3>1 DEF NoLostWakeup
    <3>7. WaitersBlocked'
      <4> SUFFICES ASSUME NEW j \in Key
                   PROVE  /\ IsInjective(waiters'[j])
                          /\ Range(waiters'[j]) =
                               {q \in Proc : pc'[q] = "blocked" /\ target'[q] = j}
        BY DEF WaitersBlocked
      <4>1. CASE j = k
        <5>1. waiters'[j] = w
          BY <3>1, <4>1
        <5> QED  BY <3>1, <3>3, <4>1, <5>1 DEF WaitersBlocked
      <4>2. CASE j # k
        BY <3>1, <4>2 DEF WaitersBlocked
      <4> QED  BY <4>1, <4>2
    <3> QED  BY <3>4, <3>5, <3>6, <3>7
  <2> QED  BY <2>1, <2>2
<1>5. ASSUME NEW p \in Proc, Return(p)  PROVE IInv'
  <2> USE <1>5 DEF Return, Goto
  <2>1. TypeOK'
    OBVIOUS
  <2>2. MutualExclusion' /\ LockedMeansOwned' /\ NoLostWakeup'
    BY DEF MutualExclusion, LockedMeansOwned, NoLostWakeup, Owns
  <2>3. WaitersBlocked'
    BY QueuesKept
  <2> QED  BY <2>1, <2>2, <2>3
<1>6. ASSUME NEW p \in Proc, Pass(p)  PROVE IInv'
  <2> DEFINE k == target[p]
             h == Head(waiters[k])
  <2> USE <1>6 DEF Pass
  <2>1. /\ waiters[k] \in Seq(Proc)
        /\ waiters[k] # <<>>
        /\ IsInjective(waiters[k])
    BY DEF WaitersBlocked
  <2>2. /\ h \in Range(waiters[k])
        /\ Tail(waiters[k]) \in Seq(Proc)
        /\ IsInjective(Tail(waiters[k]))
        /\ Range(Tail(waiters[k])) = Range(waiters[k]) \ {h}
    BY <2>1, TailOfQueue
  <2>3. h \in Proc /\ pc[h] = "blocked" /\ target[h] = k /\ h # p
    BY <2>2 DEF WaitersBlocked
  <2>4. TypeOK'
    BY <2>2, <2>3
  <2>5. /\ pc' = [pc EXCEPT ![p] = "idle", ![h] = "acquired"]
        /\ UNCHANGED <<chans, target, stale>>
        /\ waiters' = [waiters EXCEPT ![k] = Tail(waiters[k])]
    OBVIOUS
  <2>6. \A q \in Proc : \A j \in Key :
          Owns(q, j)' <=> (Owns(q, j) /\ q # p) \/ (q = h /\ j = k)
    BY <2>3, <2>5 DEF Owns
  <2>7. MutualExclusion'
    BY <2>3, <2>6 DEF MutualExclusion, Owns
  <2>8. LockedMeansOwned'
    <3>1. Owns(p, k)
      BY DEF Owns
    <3>2. \A j \in Key : Owns(p, j) => j = k
      BY DEF Owns
    <3> QED  BY <2>3, <2>5, <2>6, <3>1, <3>2 DEF LockedMeansOwned
  <2>9. NoLostWakeup'
    BY <2>3, <2>5 DEF NoLostWakeup
  <2>10. WaitersBlocked'
    <3> SUFFICES ASSUME NEW j \in Key
                 PROVE  /\ IsInjective(waiters'[j])
                        /\ Range(waiters'[j]) =
                             {q \in Proc : pc'[q] = "blocked" /\ target'[q] = j}
      BY DEF WaitersBlocked
    <3>1. CASE j = k
      BY <2>2, <2>3, <2>5, <3>1 DEF WaitersBlocked
    <3>2. CASE j # k
      BY <2>3, <2>5, <3>2 DEF WaitersBlocked
    <3> QED  BY <3>1, <3>2
  <2> QED  BY <2>4, <2>7, <2>8, <2>9, <2>10
<1>7. ASSUME NEW p \in Proc, Free(p)  PROVE IInv'
  <2> DEFINE k == target[p]
  <2> USE <1>7 DEF Free, Goto, Closed
  <2>1. TypeOK'
    OBVIOUS
  <2>2. \A q \in Proc : \A j \in Key :
          Owns(q, j)' <=> Owns(q, j) /\ q # p
    BY DEF Owns
  <2>3. MutualExclusion'
    BY <2>2 DEF MutualExclusion
  <2>4. LockedMeansOwned'
    <3>1. Owns(p, k) /\ \A j \in Key : Owns(p, j) => j = k
      BY DEF Owns
    <3> QED  BY <2>2, <3>1 DEF LockedMeansOwned, MutualExclusion
  <2>5. \A q \in Proc : ~(pc[q] = "blocked" /\ target[q] = k)
    <3>1. Range(waiters[k]) = {}
      BY DEF Range
    <3> QED  BY <3>1 DEF WaitersBlocked
  <2>6. NoLostWakeup'
    BY <2>5 DEF NoLostWakeup
  <2>7. WaitersBlocked'
    BY QueuesKept
  <2> QED  BY <2>1, <2>3, <2>4, <2>6, <2>7
<1>8. CASE UNCHANGED vars
  <2>1. TypeOK' /\ MutualExclusion' /\ LockedMeansOwned' /\ NoLostWakeup'
    BY <1>8 DEF vars, MutualExclusion, LockedMeansOwned, NoLostWakeup, Owns
  <2>2. WaitersBlocked'
    BY <1>8 DEF vars, WaitersBlocked
  <2> QED  BY <2>1, <2>2
<1> QED
  BY <1>1, <1>2, <1>3, <1>4, <1>5, <1>6, <1>7, <1>8
     DEF Next, Locking, Unlock, Done

LEMMA Invariance == Spec => []IInv
BY InitIInv, NextIInv, PTL DEF Spec

\* The variables keep their types (keymutex.go:9-12 and the locals of lock).
THEOREM TypeCorrect == Spec => []TypeOK
<1>1. IInv => TypeOK
  BY DEF IInv
<1> QED  BY <1>1, Invariance, PTL

\* At most one goroutine owns a key, for any number of goroutines.
THEOREM Exclusion == Spec => []MutualExclusion
<1>1. IInv => MutualExclusion
  BY DEF IInv
<1> QED  BY <1>1, Invariance, PTL

\* A key is locked exactly while it has an owner, so that Unlock by an owner
\* never panics and no key stays locked for good.
THEOREM LockOwned == Spec => []LockedMeansOwned
<1>1. IInv => LockedMeansOwned
  BY DEF IInv
<1> QED  BY <1>1, Invariance, PTL

\* Nobody waits for a key that is free.
THEOREM NoWakeupLost == Spec => [](NoLostWakeup /\ WaitersBlocked)
<1>1. IInv => NoLostWakeup /\ WaitersBlocked
  BY DEF IInv
<1> QED  BY <1>1, Invariance, PTL

-----------------------------------------------------------------------------
\* Each step of the mutex is a step of the lock per key, or changes neither
\* its owners nor who asked: a lock is taken only when it is free, and passed
\* on only to a goroutine that asked for it.
THEOREM Refinement == Spec => ImplementsKeyedLock
<1>1. Init => KL!Init
  <2> SUFFICES ASSUME Init PROVE KL!Init
    OBVIOUS
  <2> QED  BY DEF Init, KL!Init, Owns
<1>2. IInv /\ [Next]_vars => [KL!Next]_(KL!vars)
  <2> SUFFICES ASSUME IInv, [Next]_vars PROVE [KL!Next]_(KL!vars)
    OBVIOUS
  <2> USE DEF IInv, TypeOK
  <2> DEFINE Asked(p, k) ==
               pc[p] \in {"looking", "found", "ready", "blocked"} /\ target[p] = k
         Owners(k) == {p \in Proc : Owns(p, k)}
         Askers(k) == {p \in Proc : Asked(p, k)}
  <2>0. ASSUME \A p \in Proc, k \in Key :
                 (Owns(p, k)' <=> Owns(p, k)) /\ (Asked(p, k)' <=> Asked(p, k))
        PROVE  UNCHANGED KL!vars
    BY <2>0 DEF KL!vars
  <2>1. ASSUME NEW p \in Proc, NEW k \in Key, Lock(p, k)
        PROVE  KL!Next
    <3>1. /\ pc[p] = "idle"
          /\ pc' = [pc EXCEPT ![p] = "looking"]
          /\ target' = [target EXCEPT ![p] = k]
      BY <2>1 DEF Lock, Goto
    <3>2. \A q \in Proc, j \in Key :
            /\ Owns(q, j)' <=> Owns(q, j)
            /\ Asked(q, j)' <=> Asked(q, j) \/ (q = p /\ j = k)
      BY <3>1 DEF Owns
    <3>3. \A j \in Key :
            /\ Owners(j)' = Owners(j)
            /\ Askers(j)' = IF j = k THEN Askers(k) \cup {p} ELSE Askers(j)
      BY <3>2
    <3>4. KL!Ask(p, k)
      BY <3>3 DEF KL!Ask
    <3> QED  BY <3>4 DEF KL!Next
  <2>2. ASSUME NEW p \in Proc, NEW k \in Key, k = target[p], Look(p)
        PROVE  [KL!Next]_(KL!vars)
    <3>1. CASE chans[target[p]]
      <4>1. /\ pc[p] = "looking"
            /\ pc' = [pc EXCEPT ![p] = "found"]
            /\ UNCHANGED target
        BY <2>2, <3>1 DEF Look, Goto
      <4>2. UNCHANGED KL!vars
        BY <2>0, <4>1 DEF Owns
      <4> QED  BY <4>2
    <3>2. CASE ~chans[target[p]]
      <4>1. /\ pc[p] = "looking"
            /\ pc' = [pc EXCEPT ![p] = "acquired"]
            /\ UNCHANGED target
        BY <2>2, <3>2 DEF Look, Goto
      <4>2. \A q \in Proc, j \in Key :
              /\ Owns(q, j)' <=> Owns(q, j) \/ (q = p /\ j = k)
              /\ Asked(q, j)' <=> Asked(q, j) /\ ~(q = p /\ j = k)
        BY <2>2, <4>1 DEF Owns
      <4>3. /\ \A q \in Proc : ~Owns(q, k)
            /\ Asked(p, k)
        BY <2>2, <3>2, <4>1 DEF LockedMeansOwned
      <4>4. /\ p \in Askers(k)
            /\ Owners(k) = {}
            /\ \A j \in Key :
                 /\ Owners(j)' = IF j = k THEN {p} ELSE Owners(j)
                 /\ Askers(j)' = IF j = k THEN Askers(k) \ {p} ELSE Askers(j)
        BY <4>2, <4>3
      <4>5. KL!Acquire(p, k)
        BY <4>4 DEF KL!Acquire
      <4> QED  BY <4>5 DEF KL!Next
    <3> QED  BY <3>1, <3>2
  <2>3. ASSUME NEW p \in Proc, TryDetach(p) \/ Receive(p) \/ Return(p)
        PROVE  UNCHANGED KL!vars
    <3>1. /\ UNCHANGED target
          /\ \/ /\ pc[p] \in {"found", "ready"}
                /\ \/ pc' = [pc EXCEPT ![p] = "ready"]
                   \/ pc' = [pc EXCEPT ![p] = "blocked"]
                   \/ pc' = [pc EXCEPT ![p] = "looking"]
             \/ /\ pc[p] = "acquired"
                /\ pc' = [pc EXCEPT ![p] = "locked"]
      BY <2>3 DEF TryDetach, Receive, Return, Goto
    <3> QED  BY <2>0, <3>1 DEF Owns
  <2>4. ASSUME NEW p \in Proc, NEW k \in Key, k = target[p], Pass(p)
        PROVE  KL!Next
    <3>1. Head(waiters[k]) \in Range(waiters[k])
      BY <2>4, TailOfQueue DEF Pass, WaitersBlocked
    <3>2. PICK h \in Proc : h = Head(waiters[k])
      BY <3>1 DEF WaitersBlocked
    <3>3. /\ pc[p] = "locked"
          /\ waiters[k] # <<>>
          /\ pc' = [pc EXCEPT ![p] = "idle", ![h] = "acquired"]
          /\ UNCHANGED target
      BY <2>4, <3>2 DEF Pass
    <3>4. pc[h] = "blocked" /\ target[h] = k /\ h # p
      BY <3>1, <3>2, <3>3 DEF WaitersBlocked
    <3>5. \A q \in Proc, j \in Key :
            /\ Owns(q, j)' <=> (Owns(q, j) /\ q # p) \/ (q = h /\ j = k)
            /\ Asked(q, j)' <=> Asked(q, j) /\ ~(q = h /\ j = k)
      BY <2>4, <3>3, <3>4 DEF Owns
    <3>6. /\ \A q \in Proc : Owns(q, k) <=> q = p
          /\ \A j \in Key : Owns(p, j) => j = k
          /\ Asked(h, k)
      BY <2>4, <3>3, <3>4 DEF MutualExclusion, Owns
    <3>7. /\ h \in Askers(k)
          /\ Owners(k) = {p}
          /\ \A j \in Key :
               /\ Owners(j)' = IF j = k THEN {h} ELSE Owners(j)
               /\ Askers(j)' = IF j = k THEN Askers(k) \ {h} ELSE Askers(j)
      BY <3>4, <3>5, <3>6
    <3>8. KL!HandOver(p, h, k)
      BY <3>7 DEF KL!HandOver
    <3> QED  BY <3>8 DEF KL!Next
  <2>5. ASSUME NEW p \in Proc, NEW k \in Key, k = target[p], Free(p)
        PROVE  KL!Next
    <3>1. /\ pc[p] = "locked"
          /\ pc' = [pc EXCEPT ![p] = "idle"]
          /\ UNCHANGED target
      BY <2>5 DEF Free, Goto
    <3>2. \A q \in Proc, j \in Key :
            /\ Owns(q, j)' <=> Owns(q, j) /\ q # p
            /\ Asked(q, j)' <=> Asked(q, j)
      BY <3>1 DEF Owns
    <3>3. /\ \A q \in Proc : Owns(q, k) <=> q = p
          /\ \A j \in Key : Owns(p, j) => j = k
      BY <2>5, <3>1 DEF MutualExclusion, Owns
    <3>4. /\ Owners(k) = {p}
          /\ \A j \in Key :
               /\ Owners(j)' = IF j = k THEN {} ELSE Owners(j)
               /\ Askers(j)' = Askers(j)
      BY <3>2, <3>3
    <3>5. KL!Release(p, k)
      BY <3>4 DEF KL!Release
    <3> QED  BY <3>5 DEF KL!Next
  <2>6. CASE UNCHANGED vars
    BY <2>0, <2>6 DEF vars, Owns
  <2>7. \A p \in Proc : target[p] \in Key
    OBVIOUS
  <2> QED
    BY <2>1, <2>2, <2>3, <2>4, <2>5, <2>6, <2>7
       DEF Next, Locking, Unlock, Done
<1> QED  BY <1>1, <1>2, Invariance, PTL DEF Spec, ImplementsKeyedLock, KL!Spec

=============================================================================
