# A TLA+ model of Magic Mirror

Magic Mirror copies large sets of container images between registries. Much of
its difficulty sits in `internal/parka`, a small library that runs a handler once
per key under a concurrency limit that can change at any time and from which
handlers can detach, and in the way `internal/image/copy` stacks six such maps on
top of each other, with a lock per blob and registry between them. This directory
models the program from its input to its requests to the registries, checks it
with TLC on small instances, and proves nearly all of its safety properties for
all instances with TLAPS.

Line numbers refer to `src/internal/parka/map.go`, `keymutex.go` and
`src/internal/image/copy/blobs.go` unless a path is given.

## The system

| Component | State | Operations | Model |
|---|---|---|---|
| `parka.Map` | task set, queue, work grants, limit, reattachers, `emptied` channel | `Inform`, `InformFront`, `Get`, `Collect`, `Limit`, `DequeueAll`, `Cleanup`, `Wait`, `Stats`, workers, `Handle.Detach`/`Reattach` | `ParkaMap` |
| `parka.KeyMutex` | a channel per locked key | `Lock`, `LockDetached`, `Unlock` | `KeyMutex` |
| `LockDetached` in a map | both | the handler of `blobCopier` around its lock | `DetachedLocks` |
| `parka.Set` | a `Map` | forwards | its promise, `KeyedWork` |
| `blobCopier` | set of copied keys, `sourceMap`, lock per digest and registry | `CopyAll`, `RegisterSource`, `copyBlob` | `BlobCopier` |
| `blobIndexer` | cache of read manifests | `Submit` | `Mirror` |
| `platformCopier` | map of copied manifests | `Copy`, `CopyAll`: blobs, then manifest | `Mirror` |
| `copier` | set of copied images | `CopyAll`, `copySpec`, `copyIndex` | `Mirror` |
| `manifestCache`, `uploadManifest` | a map of manifests | `Get`, upload | `Mirror` |
| `Spec`, `coalesceRequests` | none | validation and merging of requests | `Requests` |
| `stringkeyed.Set` | an encoded string | `Add`, `ToSlice`, JSON | `StringkeyedSet` |
| `image` | none | `Parse`, `String` | in `Requests` |
| `image/manifest`, `media` | none | parsed and raw documents, digests | as the documents of `Mirror` |
| `registry.Client` | cache of clients, lock per transport | `GetClient`, `Do`, `DoExpecting` | `RegistryClient`; a request without a response, in `BlobCopier` |
| `catch` | none | classifies how a function ended | as the outcomes of a handler, in `ParkaMap` |
| `main` | none | reading of specs | in `Requests` |
| `log` | none | output | not modelled |

### How they interact

`copier` informs `platformCopier`, which asks `manifestCache` for a manifest,
calls `blobCopier.CopyAll` and uploads the manifest when all blobs are there;
`copier` uploads an index when all its manifests are there. `blobIndexer` reads
destination manifests in the background and tells `blobCopier` which blobs the
destination has already. Each of them is a `parka.Map` or `Set`, so each call
is `Inform` or `Collect`, and the handler is a goroutine of the map below.
`copyBlob` takes a `KeyMutex` through `LockDetached`, which detaches the handler
from its map while it waits. Every request takes a client from `registry`, which
makes one round trip at a time for each repository and scope.

### What is hard

* A *work grant* is a number under `stateMu` and, at the same time, a thing that
  goroutines hold. The two are changed at different moments: a spawned
  goroutine gets its grant by being spawned, a reattacher by a channel, after
  the lock was released (map.go:357-365, 228-236, 486-488).
* A key is in the task set before it is in the queue or with a goroutine
  (map.go:315-366). Meanwhile others wait for it, ask for it again, or dequeue
  the queue it is not in yet.
* `Limit` below the number of grants leaves the map in violation of its own
  limit, and each worker repairs that when it comes along (map.go:457-462).
* `KeyMutex` looks a channel up, releases its lock, and receives later: from the
  channel, a closed one, or one that has been replaced (keymutex.go:45-70).
* A handler that waits for a lock must not keep its place in the map, and a
  handler that owns the lock must get its place back (blobs.go:83-88).
* `copyBlob` learns from each success, and must not learn from a failure.
* What a registry serves must be complete at every moment, although copies of
  images that share blobs and manifests overlap, fail, and are killed and run
  again (platforms.go:79-88, copier.go:185-202).
* Specs are map keys, compared with `==` (spec.go:88): the sets in them are
  encoded as strings, and the encoding must be one to one.
* The transport of a client is not safe for concurrent use; the lock that makes it
  so is created by its first users (registry.go:145-150).

## Modules

| Module | What it is |
|---|---|
| `KeyedWork` | what a map promises: a key is begun with once, settles, and only pending keys are forgotten |
| `ParkaMap` | map.go, one action per critical section or channel operation |
| `ParkaMapProperties` | its invariants, step properties, liveness, and the mapping to `KeyedWork` |
| `ParkaMap_proofs` | its inductive invariant, six theorems about the accounting, and what its callers are promised: results, limit, order, and the refinement of `KeyedWork` |
| `KeyedLock` | what a lock per key promises |
| `KeyMutex` | keymutex.go, with its properties and the mapping to `KeyedLock` |
| `KeyMutex_proofs` | its inductive invariant, and that it implements `KeyedLock` |
| `QueueFacts` | lemmas about sequences without repetitions, and about least numbers |
| `DetachedLocks` | `ParkaMap` and `KeyMutex` composed by `LockDetached`; it implements `KeyMutex` with its fairness |
| `DetachedLocks_proofs` | that it behaves as `ParkaMap` and as `KeyMutex`, and what follows for both together |
| `BlobCopier` | blobs.go, on top of what `KeyedWork` and `KeyedLock` promise |
| `BlobCopier_proofs` | its inductive invariant and seven theorems |
| `Mirror` | copier.go, platforms.go, manifests.go, blobindexer.go, on top of what `KeyedWork` promises and `BlobCopier` shows; kills and reruns |
| `Mirror_proofs` | its four inductive invariants and seven theorems |
| `StringkeyedSet` | set.go and set_jsonv2.go as operators |
| `Requests` | from the input to the coalesced specs: main.go, image.go, spec.go |
| `Requests_proofs` | sets of strings for all strings, then the inductive invariant of `Requests`; seven theorems |
| `RegistryClient` | registry.go: the cache of clients, the locked transport |
| `RegistryClient_proofs` | its inductive invariant and two theorems |
| `MC...` | constants for TLC |

Definitions that begin with the comment `Faulty:` are not part of a model. Each
is a plausible slip in the definition below it (a dropped guard, an off-by-one,
a swapped order), kept to show that a property notices the slip.

### ParkaMap and map.go

| Variable | Code |
|---|---|
| `tasks[k]` | `Map.tasks[k]`: the number of the key's current task, as `DequeueAll` and a later request create several tasks for one key |
| `result`, `gate` | fields of `task`, for each key and number |
| `grants`, `grantLimit`, `reattachers`, `keys` | the fields of `workState` |
| `emptied` | the callers blocked on the channel `workState.emptied`; closing it empties the set |
| `handler[k]` | where the goroutine that runs the handler for `k` is: in `work`, `completeTask` or the handler |
| `pc`, `call`, `newKeys`, `taskList`, `transfers`, `snapshot` | the place and the locals of the callers |

A step is a critical section of `tasksMu` or `stateMu`, an operation on a
channel, or the local work between two of them. Some steps are merged, each for
a reason:

* `go m.work(...)` belongs to the critical section that issued the grants. The
  new goroutines exist a moment later, but nothing reads or changes what they
  are about to read, and they are still a step away from their task.
* `close(emptied)` belongs to the critical section that set `emptied` to nil:
  only the closing goroutine has the channel then. The wake-up of each waiter
  (`WaitReturns`) is a step of its own.
* A call of `Limit` releases the lock with `transfers` grants to send, and sends
  them one by one (`LimitSendsGrant`), with any other step in between.
* The send and the receive of a grant on the unbuffered channel are one step.
  Which of the blocked reattachers receives is left open; map.go:83-90 says the
  order does not matter much.
* `Handle.mu` is held by the handler's own calls only, so `Detach` of a detached
  handler and `Reattach` of an attached one change nothing.

A goroutine of the map has no identity of its own: it is named by the key whose
handler it runs or last ran. With that, the new goroutine that takes over after
a handler called `Goexit` (map.go:428-436) is the old one with a fresh stack. A
panic in a handler ends the process; a behaviour that stops there is a prefix
of one without the panic. `Get(k)` is `Collect` of one key.

### KeyMutex and keymutex.go

`pc` follows `lock` from the lookup (`Look`) to the detaching (`TryDetach`), the
receive (`Receive`), the deferred reattaching (`Return`) and `Unlock`, which
passes the lock to the first blocked receiver (`Pass`) or closes and deletes the
channel (`Free`). A goroutine that found a channel knows either the one in the
map or a closed one, because a channel leaves the map only by being closed:
`stale` says which. Receivers of a channel are served first come, first served,
which keymutex.go:59-63 counts on and the Go runtime does. `Unlock` of a key that
is not locked panics; the callers in this code unlock what they locked.

### BlobCopier and blobs.go

The map around `copyBlob` and the mutex inside it appear as their promises: a key
is handled once, at most `Concurrency` handlers are attached, reattachers go
before new keys, the lock excludes, and a handler waits for it detached. A handler
that has acquired the lock is a reattacher only from `HandleReattach` on
(map.go:512-526); other keys may start before. From there every step of `copyBlob` is an action, up to the two deferred calls in
their order. A request to a registry is external: it fails at any time, with
the blob stored or not, or answers according to `store`, which blobs the
repositories have. A registry that could mount a blob may decline. A repository
with a manifest has the manifest's blobs, so that `src` of a call has them. The indexer may report any blob that a
repository has, at any time.

### DetachedLocks

The variables are those of `ParkaMap` and of `KeyMutex`, and a step is one of one
of them, or of both where they meet. A handler that runs calls `LockDetached`;
`tryDetach` is `Detach` of the map (with its transfer of the work grant to a
reattacher or the next key), and the deferred reattaching is `Reattach`, after
which `lock` returns. A handler ends without a lock. `ParkaMap` alone lets handlers
detach at will, and `KeyMutex` alone assumes that `Reattach` returns; here neither
is assumed.

### Mirror and internal/image/copy

| Variable | Code |
|---|---|
| `batch`, `place` | the keys of `copier.copies` and where `copySpec` or `copyIndex` is for each |
| `requested`, `manifests` | what was asked of the three manifest caches (`src`, `dst`, `index`), and what they have: a document, or nothing for an error |
| `plat` | `platformCopier`: where `copyPlatform` is for each key |
| `blobTask`, `sources` | `blobCopier`: the result for each key, and `sourceMap` |
| `stored`, `tags`, `blobs` | the registries: documents by digest, what tags refer to, blobs |
| `process`, `runs`, `faulty` | whether the program runs, how often it was started, whether a request failed in this run that need not have |

A document is a record: its kind; its parts, which are the blobs of a manifest with the
config last, as in platforms.go:73-78, or the descriptors of an index; and the rest of
its bytes. The kind is what the `mediaType` in the document says. A document with an
invalid digest in it has a kind of its own: the copier refuses it (copier.go:141,
platforms.go:69-71), while the blobIndexer, which validates nothing, takes from it what
it can (blobindexer.go:29-43). An index encoded anew has the index it was made from as its rest, so that
it differs from all others. A digest is an algorithm and the document, so that
canonical digests and others differ, and a registry refuses an upload under a digest of
something else.

A step of `copySpec` or `copyPlatform` goes from one wait to the next, as what is
between reads and writes only maps, which are informed at once. A request that
changes a registry is a step, fails with or without its effect, and fails always if
the registry has to refuse it. A request by a digest that is there may be answered with
any other document of the repository. The process may panic in `NilPlatform`, or end at
any time (`Kill`): it is interrupted, a request gets no response, or a document whose
`mediaType` is not that of its `Content-Type` fails the assertion to an index or a
manifest. What it knows is lost, what the registries have stays, and the same
input is run again. Matching a platform is membership in the requested ones.

### Requests, StringkeyedSet and their code

A string is a sequence of bytes where its bytes matter: in the elements of
`stringkeyed.Set`, where the separator 0x1F and the marker 0x0E can be part of
elements and Base64 is any one to one code without them. A reference is what the
groups of the regular expression are (image.go:45): the components of the path, of
which the first may be a registry, the tag, the digest. `ReadSpecs` reads a value of
the input, an array or a spec, which is an array of one. The two loops of
`coalesceRequests` are `CheckSpec` and `MergeSpec`, one spec at a time.

### RegistryClient and registry.go

`pc` follows a request from `clientsMu` through `getTransport`, which is inside the
lock, to `ensureInit` (with a step in which the function of `sync.Once` runs and
others wait), the `select`, the round trip and the deferred `Unlock`, which panics if
the token is in the channel already. `clientsMu` is one lock for all keys, and nothing
but its registry ends a `getTransport`: its context is nobody's. A redirect
goes back to `ensureInit`. The program passes no contexts that are cancelled; the
lock handles them, and so does the model. A transport is named by its key and a
number, so that two transports of one key could exist.

## What TLC checks

| Run | Instance | States | What it shows |
|---|---|---|---|
| `map_safety` | 3 keys, 2 callers, 3 calls, limit 1 or 2 at first and `Limit(0)`, `Limit(2)` later, handlers that return or unwind | 491,889 | accounting of grants, no lost task or reattacher, no unused grant, limit, order |
| `map_liveness` | 2 keys, 2 callers, 3 calls | 48,757 | every call returns, every reattacher resumes, `KeyedWork` is implemented with its liveness |
| `mutex` | 3 goroutines, of which 2 handlers, 2 keys, 5 locks | 34,984 | exclusion, nobody waits for a free key, `KeyedLock` is implemented, whoever blocks is served |
| `detached` | 3 handlers, 1 lock, 2 at a time, the limit lowered to 1 | 77,081 | handlers that wait for locks and for places do not wait for each other: the composition implements `KeyMutex` with its fairness |
| `blobs_safety` | 2 blobs, 2 destinations in one registry, 3 overlapping calls, 2 handlers at a time, all failures | 254,372 | no false belief about a source, success means stored, mounts are tried |
| `blobs_liveness` | 2 calls that share a blob, 1 handler at a time | 6,832 | every call returns, or the process ends |
| `blobs_noresponse` | as `blobs_safety` | violation | a request without a response ends the process, see below |
| `mirror` | 10 inputs of 1 or 2 specs over 2 manifests, 4 indexes, and one of each that does not validate, 3 repositories, all failures, kills; 2 runs for a single spec | 29,615 | registries complete, tags move once, success means mirrored, runs without failures succeed, all maps come to an end |
| `mirror_single` | an index of one platform | violation | it is not copied as it is, see below |
| `mirror_noplatform` | as `mirror` | violation | a descriptor without a platform ends the process, see below |
| `requests` | all lists of up to 3 of 13 strings; 2 or 3 specs over 4 sources, 2 destinations, 3 lists of platforms | 4,593 | what is accepted is what the README demands; sets and references come out as they went in |
| `client` | 3 goroutines, 2 client keys, 4 requests, failing creations, redirects, a silent registry | 116,808 | round trips exclude each other, `Unlock` never panics, requests end unless a silent registry holds them up |

Safety of the map:

* `GrantAccounting`: `grants` is the number of holders, plus the grants on their
  way from `Limit` to a reattacher.
* `NoLostReattacher`: as many handlers are blocked in `Reattach` as are counted
  or have a sender committed to them.
* `WorkConserving`: while a key is queued or a reattacher counted, the grants are
  at the limit.
* `EveryTaskReachable`: the invariant that map.go:42-44 demands of every change
  to the task set.
* `NoOrphanedTask`, `ResultsSettled`: a caller waits only for tasks that somebody
  will finish, and what it finds is a result, also when the key was dequeued and
  asked for again meanwhile.
* `EmptiedArmed`: a worker that retires over a decreased limit does not look at
  `emptied`; there is always another one who will.
* `StatsConsistent`: the two halves of `Stats` fit although they are read apart.
* `LimitRespected`, `NoOvertaking`, `QueueOrder`, `WaitMeansEmpty`: what a step
  may never do.

Safety of a run of the program (`mirror`):

* `StoreClosed`: the blobs of every manifest, the manifests of every index and the
  document of every tag are in the repository before it is.
* `TagsMoveOnce`: a destination's tag refers to what it did at the start, or to all
  that its spec asks for, at every moment.
* `Mirrored`: when `copySpec` succeeded, the destination has the manifests that the
  spec selects, no others, with their platforms. Three exceptions are written into
  it, each with its reason: an explicit digest of an index of one platform; an explicit
  digest of a manifest that is not the canonical one, which platforms.go:83-87
  replaces by that; and the platforms under limited platforms (see *What is left
  out*).
* `CleanRunSucceeds`: a run in which no request fails copies all that can be copied,
  after whatever earlier runs left. `Unfit` says what cannot.

Clients (`client`):

* `ExclusiveRoundTrips`: one round trip at a time for each repository and scope.
* `NeverPanics`: nobody puts the token of a lock back twice, a caller that gave up
  waiting for it included.
* `RequestsEnd`: every request ends, unless a silent registry holds it up. Who is held
  up is said in the property. In front of a round trip it is those with the same
  client, until they are cancelled (`BehindTrip`). In `getTransport` it is the caller,
  and everybody who calls `GetClient` meanwhile, for whatever registry, with or
  without a client in the cache, cancelled or not (`BehindPing`).

`SetsFaithful` and `AcceptsExactlyValid` compare algorithms with reference
definitions: the encoding with lists and sets, the loops of `coalesceRequests` with
the requirements of README.md:56-67, stated on what references and lists mean.

### Disagreements

`DoExpectingNoBody` assigns to `resp.Body` even when the request failed without a
response and `resp` is nil (`src/internal/image/registry/registry.go:50`); its
comment promises the behaviour of `DoExpecting` (line 41), which returns the
error. The panic happens in a handler of a map, which panics again, so that one
refused connection ends the process with all other copies in it, while
`copier.CopyAll` means to collect the errors
(`src/internal/image/copy/copier.go:65`). `NoResponse` models this, and
`blobs_noresponse` finds it.

`copyIndex` copies the only selected manifest of an index under the name of the
index (`src/internal/image/copy/copier.go:180`). Without limited platforms this
happens to an index of one platform, whose destination is then another document
than the source, while README.md:39-40 has images copied "exactly as-is" without
transformations. If the destination names the digest of the index, the copy
succeeds and the digest does not exist there. `mirror_single` finds it.

`copyIndex` dereferences `descriptor.Platform` (`copier.go:162`), which is nil for a
descriptor without a platform, as an artifact in an index may have it. With
limited platforms the process ends, where README.md:45-46 has "the copy" fail at
most. `mirror_noplatform` finds it.

### Bounds

`MaxCalls` and `MaxTasks` bound the calls and the tasks per key, `MaxLocks` the
calls of `Lock`. Three keys are the fewest for which one is running, one is
queued and one is held by a caller; the batches repeat a key, overlap and
disagree on the order. Three calls by two callers are the fewest in which a key
is asked for, dequeued, and asked for again while its first task is still to be
ejected, or in which the limit goes down and up again around a handler that
reattaches. Limits 0 and 2 exercise the lower bound of 1 (map.go:201) and make
`grants` both exceed the limit and fall short of it. Three goroutines on one of two
keys are an owner, a blocked waiter and one between lookup and receive or a
newcomer; five locks let each come back. In `detached`, three handlers are the
fewest for which one owns the lock without a place, one waits for the lock and one
has the place. In
`blobs_safety`, two handlers at a time with four keys and two locks make one wait
while another comes back; in `blobs_liveness` there is one place for the handler
that comes back and the next key. Callers are interchangeable in the runs without
liveness, which use symmetry. In `mirror`, two specs are the fewest that share an
index, a manifest and a blob; an input of two specs is run once and one of one spec
twice, as reruns of two would take TLC too long; `MaxRuns` bounds them. In
`requests`, strings of two bytes over the two control bytes and a letter are the
shortest in which a marker or a separator is first, last or alone, and three elements
the fewest with one between two. In `client`, four requests let a goroutine come back
after a failed creation, `MaxTransports` lets a second transport of a key exist, and
one redirect stands for up to ten. Where there is a proof, the bounds do not matter.

### Fairness

Go runs every goroutine that can go on, and a `sync.Mutex` is handed to a
starving waiter: weak fairness for each goroutine's next step. A handler may
detach and reattach as often as it likes but ends at last: strong fairness for
its end, as it cannot end between `Detach` and `Reattach`. A lock is unlocked at
last by who owns it. Nobody has to make a call, and no fairness concerns which
of several waiting goroutines is served, except strong fairness in `BlobCopier`
for getting a place or a lock, which `ParkaMap` and `KeyMutex` account for
(`ReattachersResume`, `WaitersServed`, `MutexAsSpecified`). A goroutine that always
finds a channel just before it is closed can be overtaken by newcomers forever, so
that only those who block are sure to be served; `MutexAsSpecified` holds for a
bounded number of locks.

In `Mirror` some goroutine or request goes on as long as one can (weak fairness of
`Steps`); a request ends at last, with an answer or an error. In `RegistryClient`
each goroutine goes on, and a registry that is not in `Silent` answers. A silent one
may answer or not: a round trip with it ends for sure only if its context is cancelled,
and `getTransport`, which waits for it under `clientsMu` with `context.TODO()` and
without a deadline (registry.go:82-83, 107-113), need not end at all. So what `Mirror`
and `BlobCopier` assume, that requests end, is assumed of all registries of a run
together: one that keeps a `getTransport` waiting holds up the requests to the others,
as `RequestsEnd` says.

## What is proved

For every set of keys, callers, repositories, documents and batches, every limit and
number of calls. The assumptions are those on the constants (`MapAssumption`,
`KeyMutexAssumption`, `ClientAssumption`, `BlobCopierAssumption`, `MirrorAssumption`,
`RequestsAssumption`, `LocksAssumption`) and, for three theorems about `Mirror`, a
hypothesis that the theorem states: `OneName` and `SourcesExist`. TLC evaluates all of
them for the instances of the runs.

**parka.Map** (`ParkaMap_proofs`): `TypeCorrect`, `GrantsAccounted`,
`ReattachersCounted`, `TasksReachable`, `GrantsUsed`, `WaitersHaveWaker`, all from
one inductive invariant, `IInv`. None of them is inductive alone. `TypeOK` is not,
because a retiring worker decrements `grants`, which stays natural only if
`grants` counts at least that worker (`GrantAccounting`). That count goes wrong if
a key is begun with while a goroutine works on it, which `EveryTaskReachable`
excludes. And that, in turn, needs the numbering of tasks (`TasksNumbered`): a
task that is created is new, and a task about to be ejected is never its key's
current one, or ejecting it would complete a key that is still queued. Last,
`PlacesMatch` ties the locals of a caller to its place. There is one lemma per
action. The counts are handled by the cardinality lemmas of the library and
those in `QueueFacts`: a queue without repetitions has as many elements as its
length says, so that `Limit` and `scheduleNewKeys` issue as many grants as they
spawn goroutines.

**What parka.Map promises** (`ParkaMap_proofs`, second part): most steps of the map do not
touch the tasks, the results or the counts as callers see them. `StepKinds` sorts the
steps by that: a step creates tasks, dequeues some, ejects one, starts or ends a
handler, opens a gate, or is `Quiet`. On this rest `ResultsAreSettled` (a task has
the result of its handler by the time its gate opens, and the zero value until it
exists: `ResultsKept`), `NoTaskOrphaned`, and `StatsAreConsistent`, which needs more
than it says: `tasksHandled` is the number of keys whose handlers are over, and these
never leave the map (`HandledCounted`). `LimitIsRespected`, `NoneOvertakes`,
`QueueKeepsOrder` and `WaitReturnsFromEmpty` are properties of steps. They follow from
`IInv` before and after the step: what begins or rejoins is counted in `grants`
afterwards. `KeepsKeyedWork` is the refinement without its fairness: `Spec` of the
map implements `KW!Spec`, as every step asks, forgets, begins, finishes, or changes
the status and the outcome of no key. `ImplementsKeyedWork` adds the fairness and is
TLC's.

**parka.KeyMutex** (`KeyMutex_proofs`): `TypeCorrect`, `Exclusion`, `LockOwned`,
`NoWakeupLost`, and `Refinement`: the mutex implements `KeyedLock`. The types are proved
and not among the invariants of a run, as for `RegistryClient`. Exclusion
rests on the queues (`WaitersBlocked`): `Pass` makes the head of a queue an owner,
so it must be blocked; and on `LockedMeansOwned`: `Look` takes a lock without a
channel, so a missing channel must mean that there is no owner.

**registry.Client** (`RegistryClient_proofs`): `Exclusive`, the round trips to one
repository with one scope exclude each other, and `UnlockNeverPanics`. Two facts meet in
the invariant: goroutines with a client for a key have the same one (`SameClient`),
because the lookup, the creation and the insertion are under one lock (`Creating`);
and a transport's token is in the channel or with one goroutine (`TokenTaken`,
`OneToken`), because one goroutine makes the channel (`InitOnce`) and nobody is past
`ensureInit` before it is made (`NotBefore`). Exclusion needs all of them. `Unlock`
finds room for the token because of `TokenTaken`, which stays true while others take and
put back tokens because of `OneToken`.

**blobCopier** (`BlobCopier_proofs`): `TypeCorrect`, `SourcesAreTrue`,
`CopiedFromElsewhere`, `SuccessMeansStored`, `MountIsTried`, `LockIsExclusive`,
`SourceIsAtHand`. A belief about a source is true because a handler that gets to
`register` has stored the blob (`OutcomeKnown`), and because the registries lose none
(`StoredStay`). That the destination is not among the sources of its own copy rests on
`StillMissing`: the answer that the blob is not there stays true until this handler
stores it, as the handler is the only one with its key, and a source that is believed
is true. `MountTried` needs `OneOwner`, the exclusion by the lock, and that a handler
registers before it unlocks. Success is success of all: a caller has passed over
settled keys only (`AwaitedSettled`). `SourceIsAtHand` is no property of a run:
copyBlob takes `allSources[0]` (blobs.go:115), which exists because `CopyAll`
registers its source for each blob before it informs the set (`Registered`).

**stringkeyed.Set** (`Requests_proofs`, first part): `SetRoundTrip`, `EqualityOfSets`,
`AddUnites`, `SetsAreFaithful`, for strings over any bytes. `Join` and `Split` are
recursive functions, and what they compute is an induction over lists. The library's
induction theorems take the claim as an operator, which the provers cannot instantiate;
here the claim is a set of numbers, of which `LeastNumber` finds the least that is not
in it, and the step of a recursion is a function (`RecursionHasValue`). The argument:
no encoded element has a separator (`Encode` escapes it), so that `Split` undoes `Join`
(`SplitJoin`), and `Decode` undoes `Encode`; the order of strings is total
(`BeforeTotal`), so that a finite set of strings has one sorted list (`SortedUnique`),
which is what the encoding is made of. The empty set, the set of the empty string, and
elements that begin with the marker are cases of their own. Hence `==` of two sets,
which compares their strings, compares what they contain.

**Requests** (`Requests_proofs`, second part): `DestinationsOnce`, `AcceptanceIsExact`,
`StringsReadBack`. The invariant says what the two loops have kept of the specs seen so
far: the map has one of the specs of each destination and the result each destination
once (`Merging`), and there is an error exactly if some spec seen is wrong by itself or
differs from the one in the map (`Judging`). "Differs" is `==` in spec.go:88. That
whatever is accepted is valid would hold for any encoding of sets; that whatever is
rejected is invalid needs that equal sets have one encoding (`PlatformsEncodedAlike`,
from `EqualityOfSets`).

**LockDetached in a handler of a map** (`DetachedLocks_proofs`): the composition
implements both of its parts, `MapAsSpecified` and `MutexStepsAsSpecified`, so that the
theorems about them hold of it: `LocksKeepLimit` and `LocksExclude` say so for the
limit and the exclusion. The step to the map is one of the shape of the actions. The
step to the mutex is not: the mutex takes for granted that a goroutine that detaches
or comes back is where its own variable says, and what moves a handler in the map may
be a call of somebody else (`Limit`), another worker or a sender. `PlacesAgree` relates
the two: the place of a goroutine in `lock()` is one that fits the phase of its handler,
and only a goroutine that knows of its detachment is out of the map. It is inductive
together with the invariants of the two parts: the map's because keys that are spawned
have no handler (`EveryTaskReachable`), the mutex's because `Pass` moves the head of a
queue, which must be blocked (`WaitersBlocked`). From it follow `WaitersGiveWay`, that
no waiter for a lock keeps others from getting a place in the map, and `LocksReleased`.

**A run of the program** (`Mirror_proofs`), in four layers:

* `IInv` gives `TypeCorrect` and `RegistriesComplete`. The blobs and manifests of what
  is uploaded must be there before it, so the invariant says what progress means: a
  key that is being copied has asked for the blobs of the manifest that was read
  (`BlobsAsked`), a blob reported as copied is there (`BlobsKnown`), a key reported as
  copied has its manifest at the destination (`ManifestStored`), a spec that is being
  copied has asked for its keys (`PlatformsAsked`). It also keeps what a cache has
  read in the registry it was read from (`ReadsStored`), so that what a cached document
  refers to is known to be at the source. A kill empties all of this but the
  registries, and they are as complete as before.
* `TInv` gives `TagMovesOnce` and `SuccessMeansMirrored`, if every destination has
  one name (`OneName`). What moves a tag is the upload of a manifest or of an index;
  each belongs to a spec that has been compared (`KeysOwned`), and what it uploads is
  what that spec selects from the source it has read, which does not change meanwhile
  (`SourcesRead`: no accepted destination is a source). `DestinationRead` covers the
  specs for which nothing has to be done, `TagsCopied` those with one manifest, whose
  tag is moved by the platformCopier. Instead of one lemma for each action and each
  conjunct, the actions are shown to have certain `Effects` on the registries, the
  caches and the places, and steps with these effects to keep the invariant.
* `CInv` gives `CleanRunCopies`, if every source is there at the start as well
  (`SourcesExist`): without a fault every source that is asked for is there
  (`SourcesAsked`), is read (`CleanReads`), every blob is copied (`CleanBlobs`), a key
  fails only if its document is no manifest (`CleanKeys`), and an index is refused only
  if it had to be encoded anew under an explicit digest (`RefusedIsUnfit`), which needs
  the parts of documents to be lists (`PartsListed`). Nothing in it depends on how the
  destinations looked when the run began.
* `WInv` gives `NobodyStuck`: in a run that is not over, a cache has to answer, a blob
  has to be copied, or somebody has the results that decide. These are the conditions
  under which `Steps` can be taken. Everybody waits for keys that have been asked for
  (`SpecsAsk`, `KeysAsk`, and `BlobsAsked` and `PlatformsAsked` of `IInv`); the specs
  wait for the platforms, these for the blobs, all of them for the caches, and the
  caches for nobody, so there is no cycle. Results are collected in an order
  (`PartsNumbered`), in which there is a first failure if there is any
  (`EitherCollects`). This is what `MirrorEnds` needs besides fairness.

`Mirror` has the maps of a run as the results of their keys only. `ResultsStay` says that
it treats them as it may: new keys begin at the beginning, only what was asked for is answered, and a result stays what it
is, as `KeyedWork` has it. `Mirror` takes the two steps `Begin` and `Finish` of
`KeyedWork` as one for an answer of a cache and for a blob, which is why this is a
property of its steps and not a mapping to `KeyedWork`.

The hypotheses are needed. Without `OneName` a destination `repo:t@digest` writes the
tag of another destination `repo:t`, and is read by its digest while its tag is still
the old one. Without `SourcesExist` a source may be missing when it is read, which is no
fault, and be there later, when another spec has uploaded the same digest.

Only model-checked:

* Liveness (`CallsReturn`, `ReattachersResume`, `WaitersServed`, `CopyAllReturns`,
  `MirrorEnds`, `RequestsEnd`) and the fairness in `ImplementsKeyedWork` and in
  `MutexAsSpecified`: that the map gives the mutex the fairness it asks for. The prover
  handles neither fairness nor `ENABLED`.
* That the work of a run is bounded, which `MirrorEnds` needs as well: the blobIndexer
  goes on as long as indexes refer to indexes. In the model this ends because a digest
  contains its document, which is not a fact that the provers can use.

## What is left out

* Contexts and cancellation: `Cleanup` is `DequeueAll`, then an optional cancel
  function of the caller's, then `Wait`. The map has no context of its own, so the
  cancel function can at most make handlers return, which they may do at any time.
* Values: a result is a normal return, an error, an unwinding or an ejection.
* Overflow of `grants` and of the counters of `Stats`.
* The protocols of registries, authentication and retries; the content of blobs; a
  registry that loses or changes what it has.
* Destinations with a tag and a digest: they are read by the digest and written by
  the tag, so that nothing is done if the digest is there and the tag is not
  (manifests.go:23-29, 54-57); and two such references to one tag are different
  destinations for `coalesceRequests`. No document says what should happen.
* Platforms and annotations of rewritten descriptors under limited platforms:
  `dstIndex.Manifests` and `selectedDescriptors` are then one array, and copier.go:193
  overwrites what the next two lines read. `NewDescriptor` does the same; `Mirrored`
  says nothing about it.
* With the jsonv2 experiment, `platformSet` gets the promoted `UnmarshalJSONFrom` of
  the embedded set (set_jsonv2.go:30), next to its own `UnmarshalJSON` (spec.go:46)
  with the validation of platforms. `Requests` models the default build, and
  `UnmarshalJSONFrom` as an operator only.
* Aliasing: a cached index is a value. `copyIndex` changes a deep copy of it
  (copier.go:150), because specs that share an index share its slice of descriptors;
  without the copy, a descriptor rewritten for one spec would change what is parsed, but
  not the raw bytes, for the others. `Mirrored` shows that two specs with one index get
  what each selects from what was read, not that the copy is made.
* The `Content-Type` of an answer: a document comes as what it says it is. Where the two
  differ the process panics or the read fails, which is among what `Kill` and
  `GetManifestFails` stand for.
* The characters of references and digests: a reference that does not match the
  regular expression, or an invalid digest, is an error at the start.
* `catch.Do`, `DoOrExit` and `Unwrap`, which keep nothing between calls: the map
  stores `Return`, `Goexit` and the zero result, which `ParkaMap` has.
* Statistics, logging, flags and exit codes.

## Plan

What can be modelled is modelled, every safety property that the runs check is proved,
and so are the refinements without their fairness. What is left needs another prover or
another source: liveness, and the four hazards without a property in `PROJECT.json`:
for three no document of the repository names an outcome, and aliasing of Go slices
needs a model of memory.
