----------------------------- MODULE BlobCopier -----------------------------
(***************************************************************************)
(* blobCopier (internal/image/copy/blobs.go): copies blobs into            *)
(* repositories, at most once per digest and destination, prefers to mount *)
(* a blob from a repository of the destination's registry to sending it,   *)
(* and learns from every request which repositories have which blobs.      *)
(*                                                                         *)
(* The parka.Set around copyBlob and the KeyMutex in it appear as what     *)
(* they promise (KeyedWork, KeyedLock): a key is handled once, at most     *)
(* Concurrency handlers are attached, LockDetached gives its place away    *)
(* while it waits, and once it asks for a place again it gets one before   *)
(* handlers of new keys do.                                                *)
(* The registries are external: any request to them may fail, and they     *)
(* answer according to `store`, the blobs they have.  A repository that    *)
(* has a manifest has the manifest's blobs.                                *)
(***************************************************************************)
EXTENDS Naturals, Sequences, FiniteSets, Functions

CONSTANTS
  Digest,
  Repo,
  Registry,     \* the registry of each repository
  Request,      \* the calls of CopyAll: records of src, dst, dgsts
  Stored,       \* the <<digest, repository>> that exist at the start
  Indexed,      \* the repositories that the blob indexer reads
  Concurrency   \* the limit given to newBlobCopier

ASSUME BlobCopierAssumption ==
  /\ IsFiniteSet(Digest) /\ IsFiniteSet(Repo)
  /\ DOMAIN Registry = Repo
  /\ Request \subseteq
       [src : Repo, dst : Repo, dgsts : Seq(Digest) \ {<<>>}]
  /\ \A r \in Request : Range(r.dgsts) \X {r.src} \subseteq Stored
  /\ Stored \subseteq Digest \X Repo
  /\ Indexed \subseteq Repo
  /\ Concurrency \in Nat \ {0}

VARIABLES
  sources,  \* sourceMap: the repositories known to have the blob
  store,    \* the blobs that the registries have
  phase,    \* the place of the handler of the key
  source,   \* copyBlob: the variable source
  mount,    \* copyBlob: the namespace of mountRepo, a set of at most one
  err,      \* copyBlob: whether err is not nil
  pc,       \* the place of the caller in CopyAll
  at        \* CopyAll: the digest it has got to

handlerVars == <<phase, source, mount, err>>
vars == <<sources, store, handlerVars, pc, at>>

CopyKey == Digest \X Repo

\* blobMutexKey of a blobCopyKey.
MutexKey(k) == <<k[1], Registry[k[2]]>>

\* The places of a handler: asked for, inside LockDetached (locking, waiting
\* while detached, having acquired the lock, counted as a reattacher), in front
\* of each step of copyBlob, in the two deferred calls, and done.
LockPhases  == {"locking", "waiting", "acquired", "reattaching"}
CopyPhases  == {"check", "head", "choose", "post", "get", "put"}
DeferPhases == {"register", "unlock"}
Phases == {"none", "pending", "done"} \cup LockPhases \cup CopyPhases
            \cup DeferPhases

\* Faulty: Unlock is not deferred, and a return with an error skips it.
OwnerAfterError(k) ==
  \/ phase[k] \in {"acquired", "reattaching"} \cup CopyPhases \cup DeferPhases
  \/ phase[k] = "done" /\ err[k]

Attached(k) == phase[k] \in {"locking"} \cup CopyPhases \cup DeferPhases
Owner(k)    ==
  phase[k] \in {"acquired", "reattaching"} \cup CopyPhases \cup DeferPhases

Room == Cardinality({k \in CopyKey : Attached(k)}) < Concurrency

\* grants < grantLimit: a place that is left while reattachers are counted
\* stays granted, on its way to one of them.
Vacancy == Room /\ \A o \in CopyKey : phase[o] # "reattaching"

\* Faulty: the lock is one per repository, not one per registry.
UnlockedForRepo(k) == \A o \in CopyKey : Owner(o) => o # k

Unlocked(k) ==
  \A o \in CopyKey : Owner(o) => MutexKey(o) # MutexKey(k)

Init ==
  /\ sources = [d \in Digest |-> {}]
  /\ store = Stored
  /\ phase = [k \in CopyKey |-> "none"]
  /\ source = [k \in CopyKey |-> k[2]]
  /\ mount = [k \in CopyKey |-> {}]
  /\ err = [k \in CopyKey |-> FALSE]
  /\ pc = [r \in Request |-> "new"]
  /\ at = [r \in Request |-> 1]

Goto(k, p) == phase' = [phase EXCEPT ![k] = p]

\* RegisterSource(d, repo), which creates the set if there is none.
AddSource(d, repo) == sources' = [sources EXCEPT ![d] = @ \cup {repo}]

\* The process runs: no handler has panicked.
Alive == \A r \in Request : pc[r] # "crashed"

-----------------------------------------------------------------------------
(***************************************************************************)
(* CopyAll.                                                                *)
(***************************************************************************)
DstKeys(r) == {<<d, r.dst>> : d \in Range(r.dgsts)}

\* The loop of CopyAll, one digest at a time.
RegisterNext(r) ==
  /\ pc[r] = "new"
  /\ AddSource(r.dgsts[at[r]], r.src)
  /\ at' = [at EXCEPT ![r] = IF @ = Len(r.dgsts) THEN 1 ELSE @ + 1]
  /\ pc' = [pc EXCEPT ![r] = IF at[r] = Len(r.dgsts) THEN "collect" ELSE "new"]
  /\ UNCHANGED <<store, handlerVars>>

\* Set.Collect informs the map of all keys at once.
Collect(r) ==
  /\ pc[r] = "collect"
  /\ phase' = [k \in CopyKey |->
                IF k \in DstKeys(r) /\ phase[k] = "none"
                  THEN "pending" ELSE phase[k]]
  /\ pc' = [pc EXCEPT ![r] = "await"]
  /\ UNCHANGED <<sources, store, source, mount, err, at>>

\* Faulty: goes on after the last key.
AwaitForever(r) ==
  LET k == <<r.dgsts[at[r]], r.dst>>
  IN  /\ pc[r] = "await"
      /\ phase[k] = "done"
      /\ at' = [at EXCEPT ![r] = @ + 1]
      /\ UNCHANGED <<sources, store, handlerVars, pc>>

\* Set.Collect waits for the keys in order, up to the first error.
Await(r) ==
  LET k == <<r.dgsts[at[r]], r.dst>>
  IN  /\ pc[r] = "await"
      /\ phase[k] = "done"
      /\ IF err[k] \/ at[r] = Len(r.dgsts)
           THEN /\ pc' = [pc EXCEPT ![r] = IF err[k] THEN "failed" ELSE "copied"]
                /\ UNCHANGED at
           ELSE /\ at' = [at EXCEPT ![r] = @ + 1]
                /\ UNCHANGED pc
      /\ UNCHANGED <<sources, store, handlerVars>>

\* RegisterSource called by the blob indexer, for a blob of a manifest that
\* it found in the repository.
Index(d, repo) ==
  /\ Alive
  /\ repo \in Indexed
  /\ <<d, repo>> \in store
  /\ repo \notin sources[d]
  /\ AddSource(d, repo)
  /\ UNCHANGED <<store, handlerVars, pc, at>>

-----------------------------------------------------------------------------
(***************************************************************************)
(* copyBlob, the handler of a key.                                         *)
(***************************************************************************)
Continue(k) == UNCHANGED <<sources, store, source, mount, err, pc, at>>

\* The map starts the handler, after the reattachers that it has counted.
Start(k) ==
  /\ phase[k] = "pending"
  /\ Vacancy
  /\ Goto(k, "locking")
  /\ Continue(k)

\* LockDetached: at once, or detached and then reattached with the lock held.
Lock(k) ==
  /\ phase[k] = "locking"
  /\ Goto(k, IF Unlocked(k) THEN "check" ELSE "waiting")
  /\ Continue(k)

LockWaiting(k) ==
  /\ phase[k] = "waiting"
  /\ Unlocked(k)
  /\ Goto(k, "acquired")
  /\ Continue(k)

\* handleReattach: a place at once, or the handler is counted and waits for
\* one.  Other keys may have started since it got the lock.
HandleReattach(k) ==
  /\ phase[k] = "acquired"
  /\ Goto(k, IF Vacancy THEN "check" ELSE "reattaching")
  /\ Continue(k)

\* A reattacher receives a place.
Reattach(k) ==
  /\ phase[k] = "reattaching"
  /\ Room
  /\ Goto(k, "check")
  /\ Continue(k)

\* Is the destination a known source?  The deferred RegisterSource is not set
\* up yet.
CheckKnown(k) ==
  /\ phase[k] = "check"
  /\ Goto(k, IF k[2] \in sources[k[1]] THEN "unlock" ELSE "head")
  /\ Continue(k)

\* Faulty: the deferred RegisterSource ignores the error.
FailRegistered(k) ==
  /\ err' = [err EXCEPT ![k] = TRUE]
  /\ Goto(k, "register")
  /\ UNCHANGED <<sources, source, mount, pc, at>>

\* Faulty: the err that is set is not the err that is returned.
FailShadowed(k) ==
  /\ Goto(k, "unlock")
  /\ UNCHANGED <<sources, source, mount, err, pc, at>>

\* return err: RegisterSource is skipped, Unlock is not.
Fail(k) ==
  /\ err' = [err EXCEPT ![k] = TRUE]
  /\ Goto(k, "unlock")
  /\ UNCHANGED <<sources, source, mount, pc, at>>

\* Faulty: the destination is registered before it has the blob.
CheckExistingRegisters(k) ==
  /\ phase[k] = "head"
  /\ AddSource(k[1], k[2])
  /\ Goto(k, IF k \in store THEN "register" ELSE "choose")
  /\ UNCHANGED <<store, source, mount, err, pc, at>>

\* checkForExistingBlob: the registry answers 200 or 404.
CheckExisting(k) ==
  /\ phase[k] = "head"
  /\ Goto(k, IF k \in store THEN "register" ELSE "choose")
  /\ Continue(k)

\* One snapshot of the sources, for the download and for the mount.
Choose(k) ==
  LET near == {s \in sources[k[1]] : Registry[s] = Registry[k[2]]}
  IN  /\ phase[k] = "choose"
      /\ \E s \in sources[k[1]] : source' = [source EXCEPT ![k] = s]
      /\ \E m \in IF near = {} THEN {{}} ELSE {{s} : s \in near} :
           mount' = [mount EXCEPT ![k] = m]
      /\ Goto(k, "post")
      /\ UNCHANGED <<sources, store, err, pc, at>>

CanMount(k) == \E m \in mount[k] : <<k[1], m>> \in store

\* requestBlobUploadURL: 201 if the registry mounts the blob, 202 if it has to
\* be uploaded.  A registry that could mount it need not.
Post(k) ==
  /\ phase[k] = "post"
  /\ \/ /\ CanMount(k)
        /\ store' = store \cup {k}
        /\ Goto(k, "register")
     \/ /\ Goto(k, "get")
        /\ UNCHANGED store
  /\ UNCHANGED <<sources, source, mount, err, pc, at>>

\* downloadBlob, whose request succeeds if the source has the blob.
Get(k) ==
  /\ phase[k] = "get"
  /\ <<k[1], source[k]>> \in store
  /\ Goto(k, "put")
  /\ Continue(k)

\* The upload of the blob.
Put(k) ==
  /\ phase[k] = "put"
  /\ store' = store \cup {k}
  /\ Goto(k, "register")
  /\ UNCHANGED <<sources, source, mount, err, pc, at>>

\* A registry may have stored the blob although the request failed.
MayStore(k) ==
  \/ UNCHANGED store
  \/ /\ phase[k] = "put" \/ (phase[k] = "post" /\ CanMount(k))
     /\ store' = store \cup {k}

\* Any of the requests fails, and copyBlob returns the error.
RequestFails(k) ==
  /\ phase[k] \in {"head", "post", "get", "put"}
  /\ MayStore(k)
  /\ Fail(k)

\* A request through DoExpectingNoBody gets no response: the assignment to
\* resp.Body panics, completeTask panics again, and the process ends.  What
\* it knew is lost.
NoResponse(k) ==
  /\ phase[k] \in {"head", "post", "put"}
  /\ MayStore(k)
  /\ pc' = [r \in Request |-> "crashed"]
  /\ at' = [r \in Request |-> 1]
  /\ sources' = [d \in Digest |-> {}]
  /\ phase' = [o \in CopyKey |-> "none"]
  /\ source' = [o \in CopyKey |-> o[2]]
  /\ mount' = [o \in CopyKey |-> {}]
  /\ err' = [o \in CopyKey |-> FALSE]

\* The deferred RegisterSource, which runs before the deferred Unlock.
RegisterDst(k) ==
  /\ phase[k] = "register"
  /\ AddSource(k[1], k[2])
  /\ Goto(k, "unlock")
  /\ UNCHANGED <<store, source, mount, err, pc, at>>

Unlock(k) ==
  /\ phase[k] = "unlock"
  /\ Goto(k, "done")
  /\ Continue(k)

-----------------------------------------------------------------------------
CallerSteps(r) == RegisterNext(r) \/ Collect(r) \/ Await(r)

\* LockDetached, up to its return.
LockSteps(k) ==
  \/ Start(k)
  \/ Lock(k)
  \/ LockWaiting(k)
  \/ HandleReattach(k)
  \/ Reattach(k)

CopySteps(k) ==
  \/ CheckKnown(k)
  \/ CheckExisting(k)
  \/ Choose(k)
  \/ Post(k)
  \/ Get(k)
  \/ Put(k)
  \/ RequestFails(k)
  \/ NoResponse(k)
  \/ RegisterDst(k)
  \/ Unlock(k)

Ended == {"copied", "failed", "crashed"}

Done ==
  /\ \A r \in Request : pc[r] \in Ended
  /\ \A k \in CopyKey : phase[k] \in {"none", "done"}
  /\ UNCHANGED vars

Next ==
  \/ \E r \in Request : CallerSteps(r)
  \/ \E d \in Digest, repo \in Repo : Index(d, repo)
  \/ \E k \in CopyKey : LockSteps(k) \/ CopySteps(k)
  \/ Done

\* Callers and handlers are scheduled and every request ends, in an answer or
\* an error.  The map serves reattachers and the mutex serves waiters, which
\* ParkaMap and KeyMutex show; strong fairness, as others may take the room or
\* the lock first.
Fairness ==
  /\ \A r \in Request : WF_vars(CallerSteps(r))
  /\ \A k \in CopyKey : SF_vars(LockSteps(k)) /\ WF_vars(CopySteps(k))

Spec     == Init /\ [][Next]_vars
FairSpec == Spec /\ Fairness

-----------------------------------------------------------------------------
TypeOK ==
  /\ sources \in [Digest -> SUBSET Repo]
  /\ store \subseteq CopyKey
  /\ phase \in [CopyKey -> Phases]
  /\ source \in [CopyKey -> Repo]
  /\ mount \in [CopyKey -> SUBSET Repo]
  /\ err \in [CopyKey -> BOOLEAN]
  /\ pc \in [Request -> {"new", "collect", "await"} \cup Ended]
  /\ \A r \in Request : at[r] \in DOMAIN r.dgsts

\* The copier believes of no repository that it has a blob that is not there,
\* whatever fails: a wrong belief would make it skip a copy (blobs.go:91-94).
SourcesTrue ==
  \A d \in Digest, r \in Repo : r \in sources[d] => <<d, r>> \in store

\* A blob is never copied from where it is missing: neither the download nor
\* the mount uses the destination, although the indexer and the other
\* handlers add sources while this one is between its check and its copy.
SourceElsewhere ==
  \A k \in CopyKey : phase[k] \in {"post", "get", "put"} =>
    source[k] # k[2] /\ k[2] \notin mount[k]

\* A caller that is told of success has all its blobs at the destination.
CopiedMeansStored ==
  \A r \in Request : pc[r] = "copied" => DstKeys(r) \subseteq store

\* While another handler has copied the blob to the registry, or does so, no
\* handler sends it there without having asked for a mount (blobs.go:83-88).
MountTried ==
  \A k, o \in CopyKey :
    /\ k # o
    /\ MutexKey(k) = MutexKey(o)
    /\ phase[k] \in {"post", "get", "put"} /\ mount[k] = {}
    => /\ phase[o] \notin CopyPhases \cup DeferPhases
       /\ phase[o] = "done" => err[o]

\* "DoExpectingNoBody behaves like DoExpecting" (registry.go:41), which returns
\* the error of a request without a response: no such request ends the process
\* with all the copies in it.
ErrorsReturned == Alive

\* Every call of CopyAll returns, or the process ends: handlers that wait for a
\* lock leave room for the handler that has it to reattach.
CopyAllReturns ==
  \A r \in Request : <>(pc[r] \in Ended)

=============================================================================
