------------------------- MODULE ParkaMapProperties -------------------------
(***************************************************************************)
(* What makes parka.Map correct: invariants, properties of its steps,      *)
(* liveness, and the abstract specification it implements.                 *)
(***************************************************************************)
EXTENDS ParkaMap

-----------------------------------------------------------------------------
(***************************************************************************)
(* Invariants.                                                             *)
(***************************************************************************)
TypeOK ==
  /\ tasks \in [Key -> 0..MaxTasks]
  /\ created \in [Key -> 0..MaxTasks]
  /\ result \in [TaskId -> Results]
  /\ gate \in [TaskId -> {"shut", "open"}]
  /\ tasksHandled \in Nat
  /\ grants \in Nat
  /\ grantLimit \in Nat \ {0}
  /\ reattachers \in Nat
  /\ keys \in Seq(Key)
  /\ emptied \subseteq Client
  /\ handler \in [Key -> Phases]
  /\ pc \in [Client -> Places]
  /\ call \in [Client -> Methods]
  /\ newKeys \in [Client -> Seq(Key)]
  /\ taskList \in [Client -> Seq(TaskId)]
  /\ transfers \in [Client -> Nat]
  /\ snapshot \in [Client -> Nat]
  /\ calls \in Nat

\* The goroutines that hold a work grant, and the work grants on their way
\* from a call of Limit to a reattacher.
Holders   == {k \in Key : handler[k] \in Holding}
InTransit == UNION {{c} \X (1..transfers[c]) : c \in Client}

\* grants counts the work grants that exist: each is with one goroutine of
\* the map or on its way to a reattacher, and none is lost or made up when
\* it changes hands outside stateMu (workState, map.go:58-67).
GrantAccounting ==
  grants = Cardinality(Holders) + Cardinality(InTransit)

\* The handlers that wait for a work grant, and the goroutines of the map that
\* are committed to send one.
Blocked == {k \in Key : handler[k] = "reattaching"}
Senders == {k \in Key : handler[k] \in {"sending", "detaching"}}

\* Every handler blocked in Reattach is either still counted, so that a
\* worker will see it, or has a sender that is committed to it: no blocked
\* handler is forgotten and no sender waits for a handler that is not there.
NoLostReattacher ==
  Cardinality(Blocked) =
    reattachers + Cardinality(InTransit) + Cardinality(Senders)

\* While a key is queued or a reattacher is counted, the map uses all the
\* work grants of its limit ("up to grantLimit", map.go:62): no call may add
\* work, and no worker may retire, in a way that leaves a grant unused.
WorkConserving ==
  (keys # <<>> \/ reattachers > 0) => grants >= grantLimit

InFlight(k) ==
  handler[k] \in Running \cup {"spawned", "finished", "abandoned"}
Queued(k)      == k \in Range(keys)
HeldBy(k)      == {c \in Client : k \in Range(newKeys[c])}
Incomplete(k)  == k \in Known /\ gate[TaskOf(k)] = "shut"

\* "Every incomplete key can become known to a worker that can run its
\* handler" (map.go:42-44): the key is with one caller about to schedule it,
\* or queued once, or with one goroutine; and what a queue, a caller or a
\* goroutine holds is a known, incomplete key.
EveryTaskReachable ==
  /\ IsInjective(keys)
  /\ \A c \in Client : IsInjective(newKeys[c])
  /\ \A k \in Key :
       /\ Incomplete(k) <=> Queued(k) \/ InFlight(k) \/ HeldBy(k) # {}
       /\ Queued(k) => HeldBy(k) = {}
       /\ Queued(k) \/ HeldBy(k) # {} => handler[k] = "none"
       /\ \A c, d \in HeldBy(k) : c = d

\* The tasks a call of Get or Collect still waits for.
Awaited(c) == IF pc[c] \in {"schedule", "await"} THEN Range(taskList[c]) ELSE {}
Ejecting   == UNION {Range(taskList[c]) : c \in {d \in Client : pc[d] = "eject"}}

\* A caller never waits for a task that nobody will finish: an unfinished
\* task is the key's current one or about to be ejected, also when the key
\* was dequeued and asked for again meanwhile.
NoOrphanedTask ==
  \A c \in Client : \A t \in Awaited(c) :
    gate[t] = "shut" => tasks[t[1]] = t[2] \/ t \in Ejecting

\* Whoever passes an open gate finds the task's result, and a task that is
\* still cached was not ejected: Get never returns a zero value that no
\* handler returned, nor ErrTaskEjected for a key that is in the map.
ResultsSettled ==
  /\ \A t \in TaskId : gate[t] = "open" => result[t] # "zero"
  /\ \A k \in Known : result[TaskOf(k)] # "ejected"

\* A channel that Wait blocks on belongs to a map with work grants, so that
\* somebody is there to close it, also when a worker over a decreased limit
\* retires without a look at it (map.go:78-80 and 459-462).
EmptiedArmed == emptied # {} => grants > 0

\* Stats never reports more handled keys than keys, even though it reads the
\* two at different moments and DequeueAll can remove keys in between.
StatsConsistent ==
  \A c \in Client : pc[c] = "total" => snapshot[c] <= Cardinality(Known)

-----------------------------------------------------------------------------
(***************************************************************************)
(* Action properties.                                                      *)
(***************************************************************************)
Begins(k)   == handler[k] = "none" /\ handler'[k] = "spawned"
Rejoins(k)  == handler[k] = "detached" /\ handler'[k] = "attached"

\* No work begins, and no handler reattaches on its own, beyond the limit,
\* however the limit, the detached handlers and the grants under way change.
LimitRespected ==
  [][\A k \in Key :
       Begins(k) \/ Rejoins(k) =>
         Cardinality(Holders') + Cardinality(InTransit') <= grantLimit']_vars

\* A key that is begun with never overtakes: no reattacher is left waiting
\* for a grant (map.go:573-575), and a key that was not queued is begun with
\* only when no other is.
NoOvertaking ==
  [][\A k \in Key :
       Begins(k) => reattachers' = 0 /\ (Queued(k) \/ keys = <<>>)]_vars

\* The queue is a queue (map.go:148-160): no key leaves it before one that is
\* ahead of it, and two keys that stay keep their order, whatever is enqueued
\* at either end meanwhile.
QueueOrder ==
  [][\A i, j \in DOMAIN keys : i < j =>
       \/ keys[i] \notin Range(keys')
       \/ \E a, b \in DOMAIN keys' :
            a < b /\ keys'[a] = keys[i] /\ keys'[b] = keys[j]]_vars

\* Wait returns only from a map without attached handlers, queued keys and
\* reattachers (map.go:291-293).
WaitMeansEmpty ==
  [][\A c \in emptied \ emptied' :
       Holders' = {} /\ keys' = <<>> /\ reattachers' = 0]_vars

-----------------------------------------------------------------------------
(***************************************************************************)
(* Liveness, under FairSpec.                                               *)
(***************************************************************************)
\* Every call returns: Get and Collect find their tasks finished, Limit finds
\* its reattachers, Wait and Cleanup see the map empty.
CallsReturn == \A c \in Client : pc[c] # "idle" ~> pc[c] = "idle"

\* A handler blocked in Reattach gets a work grant.
ReattachersResume ==
  \A k \in Key : handler[k] = "reattaching" ~> handler[k] = "attached"

\* The map as its callers see it.
Status(k) ==
  IF k \notin Known THEN "unknown"
  ELSE IF ~Incomplete(k) THEN "done"
  ELSE IF handler[k] \in {"none", "spawned"} THEN "pending"
  ELSE "running"

KW == INSTANCE KeyedWork WITH
        Outcome <- Outcomes,
        status  <- [k \in Key |-> Status(k)],
        outcome <- [k \in Key |->
                     IF Status(k) = "done" THEN result[TaskOf(k)] ELSE "none"]

\* The map keeps the promise of KeyedWork: each key is run once and settles,
\* and DequeueAll makes the map forget pending keys only.
ImplementsKeyedWork == KW!FairSpec

=============================================================================
