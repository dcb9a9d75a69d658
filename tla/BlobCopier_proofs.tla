--------------------------- MODULE BlobCopier_proofs ---------------------------
(***************************************************************************)
(* Proofs about BlobCopier: what the blob copier believes of the           *)
(* repositories is true, what it reports is stored, a blob never comes     *)
(* from where it is missing, and a mount is tried before a second upload   *)
(* to a registry, for every set of repositories, requests and limits.      *)
(***************************************************************************)
EXTENDS BlobCopier, TLAPS

\* The copier's key of the i-th blob of a call.
BlobKey(r, i) == <<r.dgsts[i], r.dst>>

\* The handler of the key has ended, and its destination is a known source.
Settled(k) == phase[k] = "done" /\ ~err[k]

\* Registries do not lose blobs.
StoredStay == Stored \subseteq store

\* The positions of the callers; TypeOK leaves the domain of at open.
Positions ==
  /\ at \in [Request -> Nat]
  /\ \A r \in Request : pc[r] = "collect" => at[r] = 1

\* What brings a handler without an error to its end: the blob is there, and
\* then it is known to be there.
OutcomeKnown ==
  \A k \in CopyKey :
    /\ phase[k] = "register" => k \in store
    /\ phase[k] \in {"unlock", "done"} /\ ~err[k] => k[2] \in sources[k[1]]

\* The registry's answer that the blob is missing stays true: the handler of
\* the key is the only one that stores this blob there.
StillMissing ==
  \A k \in CopyKey :
    phase[k] \in {"choose", "post", "get", "put"} => k \notin store

\* Callers have passed over keys that are settled.
AwaitedSettled ==
  \A r \in Request : \A i \in DOMAIN r.dgsts :
    pc[r] = "copied" \/ (pc[r] = "await" /\ i < at[r])
      => Settled(BlobKey(r, i))

\* A lock has one owner.
OneOwner ==
  \A k, o \in CopyKey :
    Owner(k) /\ Owner(o) /\ MutexKey(k) = MutexKey(o) => k = o

\* Callers have registered the source of the blobs that they have passed over,
\* and of all of them before they collect.
Registered ==
  \A r \in Request : \A i \in DOMAIN r.dgsts :
    pc[r] = "collect" \/ (pc[r] = "new" /\ i < at[r])
      => r.src \in sources[r.dgsts[i]]

\* The blob of a handler has a known source, which copyBlob relies on when it
\* takes the first of them (allSources[0]) without a look at their number.
SourceAtHand ==
  \A k \in CopyKey : phase[k] # "none" => sources[k[1]] # {}

IInv ==
  /\ TypeOK
  /\ SourcesTrue
  /\ SourceElsewhere
  /\ MountTried
  /\ StoredStay
  /\ Positions
  /\ OutcomeKnown
  /\ StillMissing
  /\ AwaitedSettled
  /\ OneOwner

-----------------------------------------------------------------------------
(***************************************************************************)
(* Types.                                                                  *)
(***************************************************************************)

\* The blobs of a call.
LEMMA RequestShape ==
  ASSUME NEW r \in Request
  PROVE  /\ r.dst \in Repo /\ r.src \in Repo
         /\ Len(r.dgsts) \in Nat
         /\ DOMAIN r.dgsts = 1..Len(r.dgsts)
         /\ 1 \in DOMAIN r.dgsts
         /\ \A i \in DOMAIN r.dgsts :
              /\ i \in Nat \ {0}
              /\ i # Len(r.dgsts) => i + 1 \in DOMAIN r.dgsts
              /\ r.dgsts[i] \in Digest
              /\ <<r.dgsts[i], r.src>> \in Stored
              /\ BlobKey(r, i) \in CopyKey
  <1>1. /\ r \in [src : Repo, dst : Repo, dgsts : Seq(Digest) \ {<<>>}]
        /\ Range(r.dgsts) \X {r.src} \subseteq Stored
    BY BlobCopierAssumption
  <1>2. r.dgsts \in Seq(Digest) /\ r.dgsts # <<>> /\ r.dst \in Repo /\ r.src \in Repo
    BY <1>1
  <1>3. /\ Len(r.dgsts) \in Nat /\ Len(r.dgsts) # 0
        /\ DOMAIN r.dgsts = 1..Len(r.dgsts)
    BY <1>2
  <1>4. \A i \in DOMAIN r.dgsts : r.dgsts[i] \in Digest /\ r.dgsts[i] \in Range(r.dgsts)
    BY <1>2, <1>3 DEF Range
  <1>5. \A i \in DOMAIN r.dgsts : <<r.dgsts[i], r.src>> \in Stored
    BY <1>1, <1>4
  <1>6. 1 \in DOMAIN r.dgsts
    BY <1>3
  <1>7. \A i \in DOMAIN r.dgsts :
          i \in Nat \ {0} /\ (i # Len(r.dgsts) => i + 1 \in DOMAIN r.dgsts)
    BY <1>3
  <1> QED
    BY <1>2, <1>3, <1>4, <1>5, <1>6, <1>7 DEF BlobKey, CopyKey

LEMMA InitInv == Init => IInv
  <1> SUFFICES ASSUME Init PROVE IInv
    OBVIOUS
  <1>1. \A r \in Request : 1 \in DOMAIN r.dgsts
    BY RequestShape
  <1>2. TypeOK
    BY <1>1, BlobCopierAssumption DEF Init, TypeOK, CopyKey, Phases, Ended
  <1> QED
    BY <1>2 DEF Init, IInv, SourcesTrue, SourceElsewhere, MountTried, StoredStay,
       Positions, OutcomeKnown, StillMissing, AwaitedSettled, OneOwner, Owner,
       BlobKey, CopyKey, CopyPhases, DeferPhases

\* What any step does to the types.
LEMMA TypeNext == TypeOK /\ Positions /\ [Next]_vars => TypeOK' /\ Positions'
  <1> SUFFICES ASSUME TypeOK, Positions, [Next]_vars PROVE TypeOK' /\ Positions'
    OBVIOUS
  <1> USE DEF TypeOK, Positions, Ended
  <1>1. ASSUME NEW r \in Request, RegisterNext(r) PROVE TypeOK' /\ Positions'
    <2>1. sources' \in [Digest -> SUBSET Repo]
      BY <1>1, RequestShape DEF RegisterNext, AddSource
    <2>2. /\ at' \in [Request -> Nat]
          /\ \A q \in Request : at'[q] \in DOMAIN q.dgsts
      BY <1>1, RequestShape DEF RegisterNext
    <2>3. /\ pc' \in [Request -> {"new", "collect", "await"} \cup Ended]
          /\ \A q \in Request : pc'[q] = "collect" => at'[q] = 1
      BY <1>1 DEF RegisterNext
    <2> QED
      BY <1>1, <2>1, <2>2, <2>3 DEF RegisterNext, handlerVars
  <1>2. ASSUME NEW r \in Request, Collect(r) PROVE TypeOK' /\ Positions'
    BY <1>2 DEF Collect, Phases
  <1>3. ASSUME NEW r \in Request, Await(r) PROVE TypeOK' /\ Positions'
    <2>1. /\ at' \in [Request -> Nat]
          /\ \A q \in Request : at'[q] \in DOMAIN q.dgsts
      BY <1>3, RequestShape DEF Await
    <2>2. /\ pc' \in [Request -> {"new", "collect", "await"} \cup Ended]
          /\ \A q \in Request : pc'[q] = "collect" => at'[q] = 1
      BY <1>3 DEF Await
    <2> QED
      BY <1>3, <2>1, <2>2 DEF Await, handlerVars
  <1>4. ASSUME NEW d \in Digest, NEW repo \in Repo, Index(d, repo)
        PROVE  TypeOK' /\ Positions'
    BY <1>4 DEF Index, AddSource, handlerVars
  <1>5. ASSUME NEW k \in CopyKey, LockSteps(k) PROVE TypeOK' /\ Positions'
    BY <1>5 DEF LockSteps, Start, Lock, LockWaiting, HandleReattach, Reattach,
       Goto, Continue, Phases, LockPhases, CopyPhases
  <1>6. ASSUME NEW k \in CopyKey, CopySteps(k) PROVE TypeOK' /\ Positions'
    <2>1. k[1] \in Digest /\ k[2] \in Repo
      BY DEF CopyKey
    <2>2. CASE CheckKnown(k) \/ CheckExisting(k) \/ Get(k) \/ Unlock(k)
      BY <2>2 DEF CheckKnown, CheckExisting, Get, Unlock, Goto, Continue,
         Phases, CopyPhases, DeferPhases
    <2>3. CASE Choose(k)
      BY <2>1, <2>3 DEF Choose, Goto, Phases, CopyPhases
    <2>4. CASE Post(k) \/ Put(k)
      BY <2>4 DEF Post, Put, Goto, Phases, CopyPhases, DeferPhases
    <2>5. CASE RequestFails(k)
      BY <2>5 DEF RequestFails, MayStore, Fail, Goto, Phases, DeferPhases
    <2>6. CASE NoResponse(k)
      <3>1. \A o \in CopyKey : o[2] \in Repo
        BY DEF CopyKey
      <3>2. \A r \in Request : 1 \in DOMAIN r.dgsts
        BY RequestShape
      <3> QED
        BY <2>6, <3>1, <3>2 DEF NoResponse, MayStore, Phases
    <2>7. CASE RegisterDst(k)
      BY <2>1, <2>7 DEF RegisterDst, AddSource, Goto, Phases, DeferPhases
    <2> QED
      BY <1>6, <2>2, <2>3, <2>4, <2>5, <2>6, <2>7 DEF CopySteps
  <1>7. CASE Done \/ UNCHANGED vars
    BY <1>7 DEF Done, vars, handlerVars
  <1> QED
    BY <1>1, <1>2, <1>3, <1>4, <1>5, <1>6, <1>7 DEF Next, CallerSteps

-----------------------------------------------------------------------------
(***************************************************************************)
(* The invariant is inductive.                                             *)
(***************************************************************************)
LEMMA NextInv == IInv /\ [Next]_vars => IInv'
  <1> SUFFICES ASSUME IInv, [Next]_vars PROVE IInv'
    OBVIOUS
  <1> USE DEF IInv
  <1>types. TypeOK' /\ Positions'
    BY TypeNext
  <1> DEFINE Rest ==
        /\ SourcesTrue
        /\ SourceElsewhere
        /\ MountTried
        /\ StoredStay
        /\ OutcomeKnown
        /\ StillMissing
        /\ AwaitedSettled
        /\ OneOwner
  <1> USE DEF TypeOK, Positions, SourcesTrue, SourceElsewhere, MountTried, StoredStay,
        OutcomeKnown, StillMissing, AwaitedSettled, OneOwner, Owner, Settled,
        CopyPhases, DeferPhases
  <1>1. ASSUME NEW r \in Request, RegisterNext(r) PROVE Rest'
    BY <1>1, RequestShape DEF RegisterNext, AddSource, handlerVars
  <1>2. ASSUME NEW r \in Request, Collect(r) PROVE Rest'
    <2>1. SourcesTrue' /\ StoredStay'
      BY <1>2 DEF Collect
    <2>2. SourceElsewhere' /\ StillMissing'
      BY <1>2 DEF Collect
    <2>3. MountTried' /\ OneOwner'
      BY <1>2 DEF Collect
    <2>4. OutcomeKnown'
      BY <1>2 DEF Collect
    <2>5. AwaitedSettled'
      <3>1. \A q \in Request : \A i \in DOMAIN q.dgsts :
              i \in Nat \ {0} /\ BlobKey(q, i) \in CopyKey
        BY RequestShape
      <3>2. \A o \in CopyKey : Settled(o) => Settled(o)'
        BY <1>2 DEF Collect
      <3>3. at' = at /\ at[r] = 1 /\ pc' = [pc EXCEPT ![r] = "await"]
        BY <1>2 DEF Collect
      <3> QED
        BY <3>1, <3>2, <3>3
    <2> QED
      BY <2>1, <2>2, <2>3, <2>4, <2>5
  <1>3. ASSUME NEW r \in Request, Await(r) PROVE Rest'
    <2>1. SourcesTrue' /\ StoredStay' /\ SourceElsewhere' /\ StillMissing' /\ MountTried' /\ OneOwner' /\ OutcomeKnown'
      BY <1>3 DEF Await, handlerVars
    <2>2. AwaitedSettled'
      <3> DEFINE k == BlobKey(r, at[r])
      <3>1. /\ \A o : Settled(o)' <=> Settled(o)
            /\ \A q, i : BlobKey(q, i)' = BlobKey(q, i)
        BY <1>3 DEF Await, handlerVars
      <3>2. \A q \in Request \ {r} : pc'[q] = pc[q] /\ at'[q] = at[q]
        BY <1>3 DEF Await
      <3>3. CASE err[k]
        <4>1. pc'[r] = "failed"
          BY <1>3, <3>3 DEF Await, BlobKey
        <4> QED
          BY <3>1, <3>2, <4>1
      <3>4. CASE ~err[k]
        <4>1. Settled(k)
          BY <1>3, <3>4 DEF Await, BlobKey
        <4>2. \A i \in DOMAIN r.dgsts : i < at[r] => Settled(BlobKey(r, i))
          BY <1>3 DEF Await
        <4>3. /\ at[r] = Len(r.dgsts) => pc'[r] = "copied"
              /\ at[r] # Len(r.dgsts) => pc'[r] = "await" /\ at'[r] = at[r] + 1
          BY <1>3, <3>4 DEF Await, BlobKey
        <4>4. /\ DOMAIN r.dgsts = 1..Len(r.dgsts)
              /\ Len(r.dgsts) \in Nat
              /\ at[r] \in DOMAIN r.dgsts
          BY RequestShape
        <4>5. \A i \in DOMAIN r.dgsts :
                 pc'[r] = "copied" \/ (pc'[r] = "await" /\ i < at'[r])
                   => i < at[r] \/ i = at[r]
          BY <4>3, <4>4
        <4>6. \A i \in DOMAIN r.dgsts :
                 pc'[r] = "copied" \/ (pc'[r] = "await" /\ i < at'[r])
                   => Settled(BlobKey(r, i))
          BY <4>1, <4>2, <4>5
        <4> QED
          BY <3>1, <3>2, <4>6
      <3> QED
        BY <3>3, <3>4
    <2> QED
      BY <2>1, <2>2
  <1>4. ASSUME NEW d \in Digest, NEW repo \in Repo, Index(d, repo) PROVE Rest'
    <2>1. SourcesTrue' /\ StoredStay'
      BY <1>4 DEF Index, AddSource, handlerVars
    <2>2. SourceElsewhere' /\ StillMissing'
      BY <1>4 DEF Index, AddSource, handlerVars
    <2>3. MountTried' /\ OneOwner'
      BY <1>4 DEF Index, AddSource, handlerVars
    <2>4. OutcomeKnown'
      BY <1>4 DEF Index, AddSource, handlerVars
    <2>5. AwaitedSettled'
      BY <1>4 DEF Index, AddSource, handlerVars
    <2> QED
      BY <2>1, <2>2, <2>3, <2>4, <2>5
  <1>5. ASSUME NEW k \in CopyKey, Start(k) PROVE Rest'
    BY <1>5, RequestShape DEF Start, Goto, Continue
  <1>6. ASSUME NEW k \in CopyKey, Lock(k) PROVE Rest'
    BY <1>6, RequestShape DEF Lock, Goto, Continue, Unlocked
  <1>7. ASSUME NEW k \in CopyKey, LockWaiting(k) PROVE Rest'
    BY <1>7, RequestShape DEF LockWaiting, Goto, Continue, Unlocked
  <1>8. ASSUME NEW k \in CopyKey, HandleReattach(k) \/ Reattach(k) PROVE Rest'
    <2>1. CASE HandleReattach(k)
      BY <2>1, RequestShape DEF HandleReattach, Goto, Continue
    <2>2. CASE Reattach(k)
      BY <2>2, RequestShape DEF Reattach, Goto, Continue
    <2> QED
      BY <1>8, <2>1, <2>2
  <1>9. ASSUME NEW k \in CopyKey, CheckKnown(k) PROVE Rest'
    BY <1>9, RequestShape DEF CheckKnown, Goto, Continue
  <1>10. ASSUME NEW k \in CopyKey, CheckExisting(k) PROVE Rest'
    BY <1>10, RequestShape DEF CheckExisting, Goto, Continue
  <1>11. ASSUME NEW k \in CopyKey, Choose(k) PROVE Rest'
    <2>1. SourcesTrue' /\ StoredStay'
      BY <1>11 DEF Choose, Goto
    <2>2. StillMissing'
      BY <1>11 DEF Choose, Goto
    <2>6. SourceElsewhere'
      <3>1. k[2] \notin sources[k[1]]
        BY <1>11 DEF Choose, CopyKey
      <3>2. source'[k] # k[2] /\ k[2] \notin mount'[k]
        BY <1>11, <3>1 DEF Choose
      <3> QED
        BY <1>11, <3>2 DEF Choose, Goto
    <2>3. OneOwner'
      BY <1>11 DEF Choose, Goto
    <2>7. MountTried'
      <3> SUFFICES ASSUME NEW x \in CopyKey, NEW o \in CopyKey,
                          x # o, MutexKey(x) = MutexKey(o),
                          phase'[x] \in {"post", "get", "put"}, mount'[x] = {}
                   PROVE  /\ phase'[o] \notin CopyPhases \cup DeferPhases
                          /\ phase'[o] = "done" => err'[o]
        BY DEF MountTried
      <3>1. CASE x # k
        <4>1. o # k
          BY <1>11, <3>1 DEF Choose, Goto
        <4> QED
          BY <1>11, <3>1, <4>1 DEF Choose, Goto
      <3>2. CASE x = k
        <4>1. Owner(k)
          BY <1>11 DEF Choose
        <4>2. ~Owner(o)
          BY <3>2, <4>1
        <4>3. phase'[o] = phase[o] /\ err'[o] = err[o]
          BY <1>11, <3>2 DEF Choose, Goto
        <4>4. \A s \in sources[k[1]] : Registry[s] # Registry[k[2]]
          <5> DEFINE near == {s \in sources[k[1]] : Registry[s] = Registry[k[2]]}
          <5>1. PICK m \in IF near = {} THEN {{}} ELSE {{s} : s \in near} :
                  mount' = [mount EXCEPT ![k] = m]
            BY <1>11 DEF Choose
          <5>2. m = {}
            BY <3>2, <5>1
          <5>3. near = {}
            BY <5>1, <5>2
          <5> QED
            BY <5>3
        <4>5. o[1] = k[1] /\ Registry[o[2]] = Registry[k[2]]
          BY <3>2 DEF MutexKey
        <4>6. o[2] \notin sources[o[1]]
          BY <4>4, <4>5
        <4> QED
          BY <4>2, <4>3, <4>6
      <3> QED
        BY <3>1, <3>2
    <2>4. OutcomeKnown'
      BY <1>11 DEF Choose, Goto
    <2>5. AwaitedSettled'
      BY <1>11 DEF Choose, Goto
    <2> QED
      BY <2>1, <2>2, <2>3, <2>4, <2>5, <2>6, <2>7
  <1>12. ASSUME NEW k \in CopyKey, Post(k) PROVE Rest'
    <2>1. SourcesTrue' /\ StoredStay'
      BY <1>12 DEF Post, Goto
    <2>2. SourceElsewhere' /\ StillMissing'
      BY <1>12 DEF Post, Goto
    <2>3. MountTried' /\ OneOwner'
      BY <1>12 DEF Post, Goto
    <2>4. OutcomeKnown'
      BY <1>12 DEF Post, Goto
    <2>5. AwaitedSettled'
      <3>1. \A o \in CopyKey : Settled(o) => Settled(o)'
        BY <1>12 DEF Post, Goto
      <3>2. \A q \in Request : \A i \in DOMAIN q.dgsts : BlobKey(q, i) \in CopyKey
        BY RequestShape
      <3> QED
        BY <1>12, <3>1, <3>2 DEF Post
    <2> QED
      BY <2>1, <2>2, <2>3, <2>4, <2>5
  <1>13. ASSUME NEW k \in CopyKey, Get(k) PROVE Rest'
    BY <1>13, RequestShape DEF Get, Goto, Continue
  <1>14. ASSUME NEW k \in CopyKey, Put(k) PROVE Rest'
    BY <1>14, RequestShape DEF Put, Goto
  <1>15. ASSUME NEW k \in CopyKey, RequestFails(k) PROVE Rest'
    BY <1>15, RequestShape DEF RequestFails, MayStore, Fail, Goto
  <1>16. ASSUME NEW k \in CopyKey, NoResponse(k) PROVE Rest'
    BY <1>16, RequestShape DEF NoResponse, MayStore
  <1>17. ASSUME NEW k \in CopyKey, RegisterDst(k) PROVE Rest'
    <2>1. k = <<k[1], k[2]>> /\ k[1] \in Digest
      BY DEF CopyKey
    <2>2. /\ k \in store
          /\ sources' = [sources EXCEPT ![k[1]] = @ \cup {k[2]}]
          /\ phase' = [phase EXCEPT ![k] = "unlock"]
          /\ UNCHANGED <<store, source, mount, err, pc, at>>
      BY <1>17 DEF RegisterDst, AddSource, Goto
    <2>3. SourcesTrue' /\ StoredStay'
      BY <2>1, <2>2
    <2>4. \A d \in Digest : sources[d] \subseteq sources'[d]
      BY <2>2
    <2>5. OutcomeKnown'
      <3> SUFFICES ASSUME NEW o \in CopyKey
                   PROVE  /\ phase'[o] = "register" => o \in store'
                          /\ phase'[o] \in {"unlock", "done"} /\ ~err'[o]
                                => o[2] \in sources'[o[1]]
        OBVIOUS
      <3>1. CASE o = k
        BY <2>1, <2>2, <3>1
      <3>2. CASE o # k
        <4>1. o[1] \in Digest
          BY DEF CopyKey
        <4> QED
          BY <2>2, <2>4, <3>2, <4>1
      <3> QED
        BY <3>1, <3>2
    <2>6. SourceElsewhere' /\ StillMissing'
      BY <1>17 DEF RegisterDst, Goto
    <2>7. MountTried' /\ OneOwner'
      BY <1>17 DEF RegisterDst, Goto
    <2>8. AwaitedSettled'
      BY <1>17 DEF RegisterDst, Goto
    <2> QED
      BY <2>3, <2>5, <2>6, <2>7, <2>8
  <1>18. ASSUME NEW k \in CopyKey, Unlock(k) PROVE Rest'
    BY <1>18, RequestShape DEF Unlock, Goto, Continue
  <1>19. CASE Done \/ UNCHANGED vars
    BY <1>19 DEF Done, vars, handlerVars
  <1> QED
    BY <1>types, <1>1, <1>2, <1>3, <1>4, <1>5, <1>6, <1>7, <1>8, <1>9, <1>10, <1>11, <1>12, <1>13, <1>14, <1>15, <1>16, <1>17, <1>18, <1>19
       DEF Next, CallerSteps, LockSteps, CopySteps

LEMMA Invariant == Spec => []IInv
  BY InitInv, NextInv, PTL DEF Spec

-----------------------------------------------------------------------------
(***************************************************************************)
(* What is known of the blob copier.                                       *)
(***************************************************************************)

\* The variables of blobCopier keep their types.
THEOREM TypeCorrect == Spec => []TypeOK
  <1>1. IInv => TypeOK
    BY DEF IInv
  <1> QED
    BY <1>1, Invariant, PTL

\* The source map (blobs.go:25) never claims a blob for a repository that does
\* not have it, although the copier fails, crashes and learns from three
\* places.
THEOREM SourcesAreTrue == Spec => []SourcesTrue
  <1>1. IInv => SourcesTrue
    BY DEF IInv
  <1> QED
    BY <1>1, Invariant, PTL

\* Neither the download nor the mount of a blob (blobs.go:114-141) uses the
\* destination itself.
THEOREM CopiedFromElsewhere == Spec => []SourceElsewhere
  <1>1. IInv => SourceElsewhere
    BY DEF IInv
  <1> QED
    BY <1>1, Invariant, PTL

\* When CopyAll (blobs.go:62) returns no error, its blobs are all at the
\* destination.
THEOREM SuccessMeansStored == Spec => []CopiedMeansStored
  <1>1. IInv => CopiedMeansStored
    <2> SUFFICES ASSUME IInv, NEW r \in Request, pc[r] = "copied",
                        NEW i \in DOMAIN r.dgsts
                 PROVE  BlobKey(r, i) \in store
      BY DEF CopiedMeansStored, DstKeys, BlobKey, Range
    <2> DEFINE k == BlobKey(r, i)
    <2>1. k \in CopyKey
      BY RequestShape
    <2>2. Settled(k)
      BY DEF IInv, AwaitedSettled
    <2>3. k[2] \in sources[k[1]]
      BY <2>1, <2>2 DEF IInv, OutcomeKnown, Settled
    <2>4. \A o \in CopyKey : o[2] \in sources[o[1]] => o \in store
      BY DEF IInv, SourcesTrue, CopyKey
    <2> QED
      BY <2>1, <2>3, <2>4
  <1> QED
    BY <1>1, Invariant, PTL

\* The lock per blob and registry (blobs.go:83-88) does what it is for: no
\* blob is uploaded to a registry that has got it from another handler
\* without an attempt to mount it.
THEOREM MountIsTried == Spec => []MountTried
  <1>1. IInv => MountTried
    BY DEF IInv
  <1> QED
    BY <1>1, Invariant, PTL

\* At most one handler per blob and registry is in copyBlob between the lock
\* and the deferred Unlock.
THEOREM LockIsExclusive == Spec => []OneOwner
  <1>1. IInv => OneOwner
    BY DEF IInv
  <1> QED
    BY <1>1, Invariant, PTL

-----------------------------------------------------------------------------
(***************************************************************************)
(* A source for every copy.                                                *)
(***************************************************************************)

\* A step that keeps the sources that are known and starts no handler keeps a
\* source at hand.
LEMMA SourcesGrow ==
  ASSUME IInv, SourceAtHand, [Next]_vars,
         \A d \in Digest : sources[d] \subseteq sources'[d],
         \A k \in CopyKey : phase'[k] # "none" => phase[k] # "none"
  PROVE  SourceAtHand'
  <1> SUFFICES ASSUME NEW k \in CopyKey, phase'[k] # "none"
               PROVE  sources'[k[1]] # {}
    BY DEF SourceAtHand
  <1>1. k[1] \in Digest
    BY DEF CopyKey
  <1> QED
    BY <1>1 DEF SourceAtHand

LEMMA SourceNext ==
  IInv /\ Registered /\ SourceAtHand /\ [Next]_vars
    => Registered' /\ SourceAtHand'
  <1> SUFFICES ASSUME IInv, Registered, SourceAtHand, [Next]_vars
               PROVE  Registered' /\ SourceAtHand'
    OBVIOUS
  <1>types. TypeOK /\ Positions /\ TypeOK' /\ Positions'
    BY TypeNext DEF IInv
  <1>1. ASSUME NEW r \in Request, RegisterNext(r)
        PROVE  Registered' /\ SourceAtHand'
    <2>1. /\ at[r] \in DOMAIN r.dgsts
          /\ \A q \in Request : \A i \in DOMAIN q.dgsts : q.dgsts[i] \in Digest
      BY <1>types, RequestShape DEF TypeOK
    <2>2. \A d \in Digest : sources[d] \subseteq sources'[d]
      BY <1>1, <1>types, <2>1 DEF RegisterNext, AddSource, TypeOK
    <2>3. r.src \in sources'[r.dgsts[at[r]]]
      BY <1>1, <1>types, <2>1 DEF RegisterNext, AddSource, TypeOK
    <2>4. SourceAtHand'
      BY <1>1, <2>2, SourcesGrow DEF RegisterNext, handlerVars
    <2>5. \A q \in Request \ {r} : pc'[q] = pc[q] /\ at'[q] = at[q]
      BY <1>1, <1>types DEF RegisterNext, TypeOK, Positions
    <2>6. /\ DOMAIN r.dgsts = 1..Len(r.dgsts) /\ Len(r.dgsts) \in Nat
          /\ at[r] = Len(r.dgsts) => pc'[r] = "collect"
          /\ at[r] # Len(r.dgsts) => pc'[r] = "new" /\ at'[r] = at[r] + 1
      BY <1>1, <1>types, RequestShape DEF RegisterNext, TypeOK, Positions
    <2>7. \A i \in DOMAIN r.dgsts :
            pc'[r] = "collect" \/ (pc'[r] = "new" /\ i < at'[r])
              => i < at[r] \/ i = at[r]
      BY <2>1, <2>6
    <2>8. \A i \in DOMAIN r.dgsts : i < at[r] => r.src \in sources[r.dgsts[i]]
      BY <1>1 DEF RegisterNext, Registered
    <2>9. \A i \in DOMAIN r.dgsts :
            pc'[r] = "collect" \/ (pc'[r] = "new" /\ i < at'[r])
              => r.src \in sources'[r.dgsts[i]]
      BY <2>1, <2>2, <2>3, <2>7, <2>8
    <2>10. Registered'
      BY <2>1, <2>2, <2>5, <2>9 DEF Registered
    <2> QED
      BY <2>4, <2>10
  <1>2. ASSUME NEW r \in Request, Collect(r)
        PROVE  Registered' /\ SourceAtHand'
    <2>1. Registered'
      BY <1>2, <1>types DEF Collect, Registered, TypeOK
    <2>2. ASSUME NEW k \in CopyKey, phase'[k] # "none"
          PROVE  sources'[k[1]] # {}
      <3>1. CASE phase[k] # "none"
        BY <1>2, <3>1 DEF Collect, SourceAtHand
      <3>2. CASE phase[k] = "none"
        <4>1. k \in DstKeys(r)
          BY <1>2, <2>2, <3>2 DEF Collect
        <4>2. PICK i \in DOMAIN r.dgsts : k = <<r.dgsts[i], r.dst>>
          BY <4>1 DEF DstKeys, Range
        <4> QED
          BY <1>2, <4>2 DEF Collect, Registered
      <3> QED
        BY <3>1, <3>2
    <2> QED
      BY <2>1, <2>2 DEF SourceAtHand
  <1>3. ASSUME NEW r \in Request, Await(r)
        PROVE  Registered' /\ SourceAtHand'
    <2>1. Registered'
      BY <1>3, <1>types DEF Await, Registered, TypeOK, Positions
    <2>2. SourceAtHand'
      BY <1>3, SourcesGrow DEF Await, handlerVars
    <2> QED
      BY <2>1, <2>2
  <1>4. ASSUME UNCHANGED <<pc, at>>, \A d \in Digest : sources[d] \subseteq sources'[d]
        PROVE  Registered'
    <2>1. \A q \in Request : \A i \in DOMAIN q.dgsts : q.dgsts[i] \in Digest
      BY RequestShape
    <2> QED
      BY <1>4, <2>1 DEF Registered
  <1>5. ASSUME NEW d \in Digest, NEW repo \in Repo, Index(d, repo)
        PROVE  Registered' /\ SourceAtHand'
    <2>1. \A x \in Digest : sources[x] \subseteq sources'[x]
      BY <1>5, <1>types DEF Index, AddSource, TypeOK
    <2> QED
      BY <1>4, <1>5, <2>1, SourcesGrow DEF Index, handlerVars
  <1>6. ASSUME NEW k \in CopyKey, LockSteps(k) \/ CopySteps(k), ~NoResponse(k)
        PROVE  Registered' /\ SourceAtHand'
    <2>1. k[1] \in Digest
      BY DEF CopyKey
    <2>2. \A x \in Digest : sources[x] \subseteq sources'[x]
      <3>1. UNCHANGED sources \/ AddSource(k[1], k[2])
        BY <1>6 DEF LockSteps, CopySteps, Start, Lock, LockWaiting,
           HandleReattach, Reattach, CheckKnown, CheckExisting, Choose, Post, Get, Put, RequestFails, Fail,
           RegisterDst, Unlock, Continue
      <3> QED
        BY <1>types, <2>1, <3>1 DEF AddSource, TypeOK
    <2>3. UNCHANGED <<pc, at>>
      BY <1>6 DEF LockSteps, CopySteps, Start, Lock, LockWaiting,
         HandleReattach, Reattach, CheckKnown, CheckExisting, Choose, Post, Get, Put, RequestFails, Fail,
         RegisterDst, Unlock, Continue
    <2>4. phase[k] # "none" /\ \E p \in Phases : Goto(k, p)
      BY <1>6 DEF LockSteps, CopySteps, Start, Lock, LockWaiting,
         HandleReattach, Reattach, CheckKnown, CheckExisting, Choose, Post, Get, Put, RequestFails, Fail,
         RegisterDst, Unlock, Phases, LockPhases, CopyPhases, DeferPhases
    <2>5. \A o \in CopyKey : phase'[o] # "none" => phase[o] # "none"
      BY <1>types, <2>4 DEF Goto, TypeOK
    <2> QED
      BY <1>4, <2>2, <2>3, <2>5, SourcesGrow
  <1>7. ASSUME NEW k \in CopyKey, NoResponse(k)
        PROVE  Registered' /\ SourceAtHand'
    BY <1>7 DEF NoResponse, Registered, SourceAtHand
  <1>8. CASE Done \/ UNCHANGED vars
    BY <1>8 DEF Done, vars, handlerVars, Registered, SourceAtHand
  <1> QED
    BY <1>1, <1>2, <1>3, <1>5, <1>6, <1>7, <1>8 DEF Next, CallerSteps

\* copyBlob never indexes an empty list of sources (allSources[0],
\* blobs.go:115): CopyAll registers one before it asks for the key, and the
\* copier forgets none.
THEOREM SourceIsAtHand == Spec => []SourceAtHand
  <1>1. Init => Registered /\ SourceAtHand
    <2> SUFFICES ASSUME Init PROVE Registered /\ SourceAtHand
      OBVIOUS
    <2>1. \A r \in Request : \A i \in DOMAIN r.dgsts : i \in Nat \ {0}
      BY RequestShape
    <2>2. \A r \in Request : pc[r] = "new" /\ at[r] = 1
      BY DEF Init
    <2>3. Registered
      BY <2>1, <2>2 DEF Registered
    <2> QED
      BY <2>3 DEF Init, SourceAtHand
  <1> QED
    BY <1>1, SourceNext, Invariant, PTL DEF Spec

=============================================================================
