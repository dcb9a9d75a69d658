------------------------------ MODULE ParkaMap ------------------------------
(***************************************************************************)
(* parka.Map (internal/parka/map.go): a cache that runs a handler once per *)
(* key in goroutines of its own, with a limit on concurrent handlers that  *)
(* can change at any time and from which a running handler can detach.     *)
(*                                                                         *)
(* One step is one critical section of tasksMu or stateMu, one operation   *)
(* on a channel, or the local work between two of them.                    *)
(*                                                                         *)
(* A goroutine of the map has no identity of its own here: it is named by  *)
(* the key whose handler it runs or last ran, and its place in work(),     *)
(* completeTask() and the handler is handler[k].  A goroutine that pops    *)
(* the next key leaves the phase of the old key and enters that of the new *)
(* one.  Callers are the goroutines in Client, one call at a time each.    *)
(***************************************************************************)
EXTENDS Integers, Sequences, FiniteSets, Functions

CONSTANTS
  Key,           \* the keys of the map
  Client,        \* goroutines that call the map's methods
  Batches,       \* the argument lists of Inform, InformFront, Get, Collect
  Limits,        \* the arguments of Limit
  Outcomes,      \* how handlers end: "value", "error", "goexit"
  InitialLimit,  \* the limits set before the map is shared
  MaxTasks,      \* bound: tasks created for one key
  MaxCalls       \* bound: calls made by all clients together

ASSUME MapAssumption ==
  /\ IsFiniteSet(Key)
  /\ IsFiniteSet(Client)
  /\ Batches \subseteq Seq(Key) \ {<<>>}
  /\ Limits \subseteq Int
  /\ Outcomes \subseteq {"value", "error", "goexit"}
  /\ InitialLimit \subseteq Nat \ {0}
  /\ MaxTasks \in Nat \ {0}
  /\ MaxCalls \in Nat

VARIABLES
  tasks,         \* Map.tasks: the number of the key's current task, 0 if none
  created,       \* how many tasks were ever created for the key
  result,        \* task.result, for the task <<key, number>>
  gate,          \* task.gate
  tasksHandled,  \* Map.tasksHandled
  grants,        \* workState.grants
  grantLimit,    \* workState.grantLimit
  reattachers,   \* workState.reattachers
  keys,          \* workState.keys
  emptied,       \* workState.emptied: the callers of Wait blocked on it
  handler,       \* the place of the goroutine that works on the key
  pc,            \* the place of the client in its call
  call,          \* the method the client is in
  newKeys,       \* scheduleNewKeys: the keys still to be scheduled
  taskList,      \* the tasks still to be awaited, or still to be ejected
  transfers,     \* Limit: the work grants still to be sent to reattachers
  snapshot,      \* Stats: the value loaded from tasksHandled
  calls          \* calls made so far

taskVars == <<tasks, created, result, gate, tasksHandled>>
workVars == <<grants, grantLimit, reattachers, keys, emptied>>
callVars == <<pc, call, newKeys, taskList, transfers, snapshot, calls>>
vars     == <<taskVars, workVars, handler, callVars>>

-----------------------------------------------------------------------------
(***************************************************************************)
(* Types.                                                                  *)
(***************************************************************************)
TaskId == Key \X (1..MaxTasks)

\* "zero" is the zero catch.Result, which reads as a normal return.
Results == {"zero", "value", "error", "goexit", "ejected"}

Methods == {"Inform", "InformFront", "Collect", "Limit", "DequeueAll",
            "Cleanup", "Wait", "Stats"}

Places == {"idle", "schedule", "await", "send", "eject", "wait", "blocked",
           "total"}

(***************************************************************************)
(* The places of the goroutine that works on a key:                        *)
(*   none         no goroutine works on the key                            *)
(*   spawned      it holds the key and a work grant, in front of tasks[k]  *)
(*   attached     the handler runs and holds the work grant                *)
(*   detaching    Detach must send the work grant to a reattacher          *)
(*   detached     the handler runs without a work grant                    *)
(*   reattaching  Reattach waits to receive a work grant                   *)
(*   finished     the handler is over, the work grant was taken back       *)
(*   abandoned    the handler is over, the work grant was gone             *)
(*   looking      in front of tryGetQueuedKey, with a work grant           *)
(*   sending      tryGetQueuedKey must send the work grant                 *)
(***************************************************************************)
Phases == {"none", "spawned", "attached", "detaching", "detached",
           "reattaching", "finished", "abandoned", "looking", "sending"}

\* The goroutine holds a work grant of its own.
Holding == {"spawned", "attached", "detaching", "finished", "looking",
            "sending"}

\* The handler for the key is running.
Running == {"attached", "detaching", "detached", "reattaching"}

Smaller(a, b) == IF a <= b THEN a ELSE b
Larger(a, b)  == IF a >= b THEN a ELSE b

Spawn(S) == [k \in Key |-> IF k \in S THEN "spawned" ELSE handler[k]]

TaskOf(k) == <<k, tasks[k]>>

Known == {k \in Key : tasks[k] # 0}

Init ==
  /\ tasks = [k \in Key |-> 0]
  /\ created = [k \in Key |-> 0]
  /\ result = [t \in TaskId |-> "zero"]
  /\ gate = [t \in TaskId |-> "shut"]
  /\ tasksHandled = 0
  /\ grants = 0
  /\ grantLimit \in InitialLimit
  /\ reattachers = 0
  /\ keys = <<>>
  /\ emptied = {}
  /\ handler = [k \in Key |-> "none"]
  /\ pc = [c \in Client |-> "idle"]
  /\ call = [c \in Client |-> "Inform"]
  /\ newKeys = [c \in Client |-> <<>>]
  /\ taskList = [c \in Client |-> <<>>]
  /\ transfers = [c \in Client |-> 0]
  /\ snapshot = [c \in Client |-> 0]
  /\ calls = 0

-----------------------------------------------------------------------------
(***************************************************************************)
(* Calls of the map's methods.  A step "Idle -> ..." is the start of a     *)
(* call up to the end of its first critical section.                       *)
(***************************************************************************)
Goto(c, place) == pc' = [pc EXCEPT ![c] = place]

Start(c, m, place) ==
  /\ pc[c] = "idle"
  /\ calls < MaxCalls
  /\ calls' = calls + 1
  /\ call' = [call EXCEPT ![c] = m]
  /\ Goto(c, place)

\* Faulty: a second occurrence of a new key is scheduled as well.
IsNewKeysTwice(new, ks) == new = SelectSeq(ks, LAMBDA k : k \notin Known)

\* The keys that getOrCreateTasks finds no task for, in the order given and
\* each once: a second occurrence finds the task that the first one created.
IsNewKeys(new, ks) ==
  /\ Range(new) = {k \in Range(ks) : k \notin Known}
  /\ IsInjective(new)
  /\ \A i, j \in DOMAIN new : i < j =>
       \E a \in DOMAIN ks :
         /\ ks[a] = new[i]
         /\ \A b \in 1..a : ks[b] # new[j]

\* getOrCreateTasks, under tasksMu.  Get is Collect of one key.
GetOrCreateTasks(c, m, ks) ==
  /\ Start(c, m, "schedule")
  /\ \A k \in Range(ks) : k \notin Known => created[k] < MaxTasks
  /\ \E new \in UNION {[1..n -> Key] : n \in 0..Len(ks)} :
       /\ IsNewKeys(new, ks)
       /\ newKeys' = [newKeys EXCEPT ![c] = new]
       /\ created' = [k \in Key |->
                        created[k] + (IF k \in Range(new) THEN 1 ELSE 0)]
       /\ tasks' = [k \in Key |->
                      IF k \in Range(new) THEN created[k] + 1 ELSE tasks[k]]
  /\ taskList' = [taskList EXCEPT ![c] =
                    IF m = "Collect"
                      THEN [i \in DOMAIN ks |-> <<ks[i], tasks'[ks[i]]>>]
                      ELSE <<>>]
  /\ UNCHANGED <<result, gate, tasksHandled, workVars, handler, transfers,
                 snapshot>>

\* Faulty: no lower bound of zero.
IssuableUnbounded(limit) == limit - grants

\* Faulty: one work grant too many.
IssuableOneMore(limit) == Larger(0, limit - grants + 1)

\* The work grants that the limit still allows.
Issuable(limit) == Larger(0, limit - grants)

\* pushAllBack or pushAllFront, the enqueueFunc of the method.
Enqueue(m, ks) == IF m = "InformFront" THEN ks \o keys ELSE keys \o ks

\* scheduleNewKeys: issue work grants for the first of the new keys, enqueue
\* the others, and spawn a goroutine for each of the first.
ScheduleNewKeys(c) ==
  LET new       == newKeys[c]
      newGrants == Smaller(Issuable(grantLimit), Len(new))
  IN  /\ pc[c] = "schedule"
      /\ grants' = grants + newGrants
      /\ handler' = Spawn(Range(SubSeq(new, 1, newGrants)))
      /\ keys' = Enqueue(call[c], SubSeq(new, newGrants + 1, Len(new)))
      /\ newKeys' = [newKeys EXCEPT ![c] = <<>>]
      /\ Goto(c, IF taskList[c] = <<>> THEN "idle" ELSE "await")
      /\ UNCHANGED <<taskVars, grantLimit, reattachers, emptied, call,
                     taskList, transfers, snapshot, calls>>

\* task.Wait in Get and Collect, for the first of the tasks left.  An error
\* ends the call, and so does the panic for a handler that called Goexit.
AwaitTask(c) ==
  LET task == Head(taskList[c])
      rest == IF result[task] \in {"zero", "value"}
                THEN Tail(taskList[c]) ELSE <<>>
  IN  /\ pc[c] = "await"
      /\ gate[task] = "open"
      /\ taskList' = [taskList EXCEPT ![c] = rest]
      /\ Goto(c, IF rest = <<>> THEN "idle" ELSE "await")
      /\ UNCHANGED <<taskVars, workVars, handler, call, newKeys, transfers,
                     snapshot, calls>>

\* Faulty: queued keys come before reattachers.
ToReattachersLast(limit) ==
  Smaller(Larger(0, Issuable(limit) - Len(keys)), reattachers)

\* Faulty: an increased limit leaves the queue alone.
ToKeysNone(limit) == 0

\* The work grants that Limit issues, to reattachers first, then for keys.
ToReattachers(limit) == Smaller(Issuable(limit), reattachers)
ToKeys(limit) ==
  Smaller(Issuable(limit) - ToReattachers(limit), Len(keys))

\* Faulty: pops from the wrong end.
LeftInFront(n) == SubSeq(keys, 1, Len(keys) - n)

\* What n calls of PopFront return and what they leave.
Popped(n) == SubSeq(keys, 1, n)
Left(n)   == SubSeq(keys, n + 1, Len(keys))

\* Limit, up to the loop that sends work grants to reattachers.
Limit(c, l) ==
  LET limit == Larger(1, l)
      sends == ToReattachers(limit)
      work  == ToKeys(limit)
  IN  /\ Start(c, "Limit", IF sends = 0 THEN "idle" ELSE "send")
      /\ grantLimit' = limit
      /\ grants' = grants + sends + work
      /\ reattachers' = reattachers - sends
      /\ transfers' = [transfers EXCEPT ![c] = sends]
      /\ handler' = Spawn(Range(Popped(work)))
      /\ keys' = Left(work)
      /\ UNCHANGED <<taskVars, emptied, newKeys, taskList, snapshot>>

\* Faulty: the last task is forgotten.
DequeuedButLast == [i \in 1..(Len(keys) - 1) |-> TaskOf(keys[i])]

\* The tasks of the queued keys.
Dequeued == [i \in DOMAIN keys |-> TaskOf(keys[i])]

\* Faulty: the dequeued keys keep their tasks.
RemainingAll == tasks

\* Faulty: handled keys lose their tasks too.
RemainingNone == [k \in Key |-> 0]

\* The task set without the queued keys.
Remaining == [k \in Key |-> IF k \in Range(keys) THEN 0 ELSE tasks[k]]

\* DequeueAll ejects tasks for as long as some are left; Cleanup then waits.
AfterDequeue(m, left) ==
  IF left # <<>> THEN "eject" ELSE IF m = "Cleanup" THEN "wait" ELSE "idle"

\* DequeueAll, or Cleanup in its call of DequeueAll, under both locks.
DequeueAll(c, m) ==
  /\ Start(c, m, AfterDequeue(m, keys))
  /\ taskList' = [taskList EXCEPT ![c] = Dequeued]
  /\ tasks' = Remaining
  /\ keys' = <<>>
  /\ UNCHANGED <<created, result, gate, tasksHandled, grants, grantLimit,
                 reattachers, emptied, handler, newKeys, transfers, snapshot>>

\* The loop at the end of DequeueAll, for the first of the tasks left.
EjectTask(c) ==
  LET task == Head(taskList[c])
      rest == Tail(taskList[c])
  IN  /\ pc[c] = "eject"
      /\ result' = [result EXCEPT ![task] = "ejected"]
      /\ gate' = [gate EXCEPT ![task] = "open"]
      /\ taskList' = [taskList EXCEPT ![c] = rest]
      /\ Goto(c, AfterDequeue(call[c], rest))
      /\ UNCHANGED <<tasks, created, tasksHandled, workVars, handler, call,
                     newKeys, transfers, snapshot, calls>>

\* The critical section of Wait.
EnterWait(c) ==
  /\ emptied' = IF grants = 0 THEN emptied ELSE emptied \cup {c}
  /\ UNCHANGED <<taskVars, grants, grantLimit, reattachers, keys, handler,
                 newKeys, taskList, transfers, snapshot>>

AfterWait == IF grants = 0 THEN "idle" ELSE "blocked"

Wait(c) == Start(c, "Wait", AfterWait) /\ EnterWait(c)

\* Wait, called by Cleanup after DequeueAll and the cancel function.
CleanupWait(c) ==
  /\ pc[c] = "wait"
  /\ Goto(c, AfterWait)
  /\ EnterWait(c)
  /\ UNCHANGED <<call, calls>>

\* The receive from emptied, once that channel is closed.
WaitReturns(c) ==
  /\ pc[c] = "blocked"
  /\ c \notin emptied
  /\ Goto(c, "idle")
  /\ UNCHANGED <<taskVars, workVars, handler, call, newKeys, taskList,
                 transfers, snapshot, calls>>

\* Stats: the atomic load, then the count of tasks under tasksMu.
LoadHandled(c) ==
  /\ Start(c, "Stats", "total")
  /\ snapshot' = [snapshot EXCEPT ![c] = tasksHandled]
  /\ UNCHANGED <<taskVars, workVars, handler, newKeys, taskList, transfers>>

ReadTotal(c) ==
  /\ pc[c] = "total"
  /\ Goto(c, "idle")
  /\ snapshot' = [snapshot EXCEPT ![c] = 0]
  /\ UNCHANGED <<taskVars, workVars, handler, call, newKeys, taskList,
                 transfers, calls>>

-----------------------------------------------------------------------------
(***************************************************************************)
(* The goroutines of the map.                                              *)
(***************************************************************************)
SetPhase(k, p) == handler' = [handler EXCEPT ![k] = p]

\* work reads the task and completeTask enters the handler.
StartHandler(k) ==
  /\ handler[k] = "spawned"
  /\ SetPhase(k, "attached")
  /\ result' = [result EXCEPT ![TaskOf(k)] = "goexit"]
  /\ UNCHANGED <<tasks, created, gate, tasksHandled, workVars, callVars>>

\* Faulty: tests the count before it goes down.
EmptiedByLateTest == IF grants = 0 THEN {} ELSE emptied

\* Faulty: wakes the callers of Wait whenever a worker retires.
EmptiedTooSoon == {}

\* Faulty: never closes the channel.
EmptiedNever == emptied

\* The callers of Wait still blocked after the map retires a work grant.
EmptiedByRetiring == IF grants = 1 THEN {} ELSE emptied

\* tryGetQueuedKey, called by the goroutine of k.  It ends up in the phase
\* `without` when it retires its grant or passes it to a queued key, and in
\* the phase `sending` when it must send the grant to a reattacher.
TryGetQueuedKey(k, without, sending) ==
  \/ /\ grants > grantLimit
     /\ grants' = grants - 1
     /\ SetPhase(k, without)
     /\ UNCHANGED <<reattachers, keys, emptied>>
  \/ /\ grants <= grantLimit
     /\ reattachers > 0
     /\ reattachers' = reattachers - 1
     /\ SetPhase(k, sending)
     /\ UNCHANGED <<grants, keys, emptied>>
  \/ /\ grants <= grantLimit
     /\ reattachers = 0
     /\ keys = <<>>
     /\ grants' = grants - 1
     /\ emptied' = EmptiedByRetiring
     /\ SetPhase(k, without)
     /\ UNCHANGED <<reattachers, keys>>
  \/ /\ grants <= grantLimit
     /\ reattachers = 0
     /\ keys # <<>>
     /\ keys' = Left(1)
     /\ handler' = [handler EXCEPT ![k] = without, ![Head(keys)] = "spawned"]
     /\ UNCHANGED <<grants, reattachers, emptied>>

\* The loop of work: the next key, or the end of the goroutine.
NextKey(k) ==
  /\ handler[k] = "looking"
  /\ TryGetQueuedKey(k, "none", "sending")
  /\ UNCHANGED <<taskVars, grantLimit, callVars>>

\* Handle.Detach of an attached handler; any other call of it has no effect.
Detach(k) ==
  /\ handler[k] = "attached"
  /\ TryGetQueuedKey(k, "detached", "detaching")
  /\ UNCHANGED <<taskVars, grantLimit, callVars>>

\* Faulty: blocks for a work grant without being counted.
ReattachUncounted(k) ==
  /\ handler[k] = "detached"
  /\ IF grants < grantLimit
       THEN grants' = grants + 1 /\ SetPhase(k, "attached")
       ELSE grants' = grants /\ SetPhase(k, "reattaching")
  /\ UNCHANGED <<taskVars, grantLimit, reattachers, keys, emptied, callVars>>

\* Handle.Reattach of a detached handler, up to ReceiveGrant.
Reattach(k) ==
  /\ handler[k] = "detached"
  /\ IF grants < grantLimit
       THEN /\ grants' = grants + 1
            /\ SetPhase(k, "attached")
            /\ UNCHANGED reattachers
       ELSE /\ reattachers' = reattachers + 1
            /\ SetPhase(k, "reattaching")
            /\ UNCHANGED grants
  /\ UNCHANGED <<taskVars, grantLimit, keys, emptied, callVars>>

\* SendGrant of a goroutine of the map meets ReceiveGrant of the handler k.
\* The code does not rely on the order of the senders blocked on a channel.
WorkerSendsGrant(w, k) ==
  /\ handler[w] \in {"sending", "detaching"}
  /\ handler[k] = "reattaching"
  /\ handler' = [handler EXCEPT
                   ![k] = "attached",
                   ![w] = IF @ = "sending" THEN "none" ELSE "detached"]
  /\ UNCHANGED <<taskVars, workVars, callVars>>

\* The loop at the end of Limit: SendGrant meets ReceiveGrant of k.
LimitSendsGrant(c, k) ==
  /\ pc[c] = "send"
  /\ handler[k] = "reattaching"
  /\ SetPhase(k, "attached")
  /\ transfers' = [transfers EXCEPT ![c] = @ - 1]
  /\ Goto(c, IF transfers[c] = 1 THEN "idle" ELSE "send")
  /\ UNCHANGED <<taskVars, workVars, call, newKeys, taskList, snapshot, calls>>

\* The handler returns r, or unwinds (r = "goexit"), which leaves the result
\* it was entered with.  The deferred function of completeTask takes the work
\* grant back, if there is one, and counts the task.
HandlerEnds(k, r) ==
  /\ handler[k] \in {"attached", "detached"}
  /\ result' = [result EXCEPT ![TaskOf(k)] = r]
  /\ tasksHandled' = tasksHandled + 1
  /\ SetPhase(k, IF handler[k] = "attached" THEN "finished" ELSE "abandoned")
  /\ UNCHANGED <<tasks, created, gate, workVars, callVars>>

\* Faulty: goes on to the next key without a work grant.
OpenGateAndGoOn(k) ==
  /\ handler[k] \in {"finished", "abandoned"}
  /\ gate' = [gate EXCEPT ![TaskOf(k)] = "open"]
  /\ SetPhase(k, "looking")
  /\ UNCHANGED <<tasks, created, result, tasksHandled, workVars, callVars>>

\* The deferred function of completeTask opens the gate.  With a work grant
\* this goroutine, or after Goexit a new one, goes on to the next key.
OpenGate(k) ==
  /\ handler[k] \in {"finished", "abandoned"}
  /\ gate' = [gate EXCEPT ![TaskOf(k)] = "open"]
  /\ SetPhase(k, IF handler[k] = "finished" THEN "looking" ELSE "none")
  /\ UNCHANGED <<tasks, created, result, tasksHandled, workVars, callVars>>

-----------------------------------------------------------------------------
ClientCalls(c) ==
  \/ \E m \in {"Inform", "InformFront", "Collect"}, ks \in Batches :
       GetOrCreateTasks(c, m, ks)
  \/ \E l \in Limits : Limit(c, l)
  \/ \E m \in {"DequeueAll", "Cleanup"} : DequeueAll(c, m)
  \/ Wait(c)
  \/ LoadHandled(c)

ClientContinues(c) ==
  \/ ScheduleNewKeys(c)
  \/ AwaitTask(c)
  \/ EjectTask(c)
  \/ CleanupWait(c)
  \/ WaitReturns(c)
  \/ ReadTotal(c)

HandlerActs(k) ==
  \/ Detach(k)
  \/ Reattach(k)
  \/ \E r \in Outcomes : HandlerEnds(k, r)

WorkerContinues(k) ==
  \/ StartHandler(k)
  \/ OpenGate(k)
  \/ NextKey(k)

ReceiveGrant(k) ==
  \/ \E w \in Key : WorkerSendsGrant(w, k)
  \/ \E c \in Client : LimitSendsGrant(c, k)

Quiescent ==
  /\ \A c \in Client : pc[c] = "idle"
  /\ \A k \in Key : handler[k] = "none"

\* Nothing is left to do: every call returned, every handler is over.
Rest == Quiescent /\ UNCHANGED vars

Next ==
  \/ \E c \in Client : ClientCalls(c) \/ ClientContinues(c)
  \/ \E k \in Key : HandlerActs(k) \/ WorkerContinues(k) \/ ReceiveGrant(k)
  \/ Rest

(***************************************************************************)
(* Fairness.  The Go scheduler runs every goroutine that can go on, and a  *)
(* sync.Mutex is handed to a waiter that starves, so each goroutine takes  *)
(* its next step.  A handler may detach and reattach for as long as it     *)
(* likes but returns in the end: strong fairness, as the handler is not    *)
(* ready to return while it is between Detach and Reattach.  Nobody has to *)
(* start a call.                                                           *)
(***************************************************************************)
Fairness ==
  /\ \A c \in Client : WF_vars(ClientContinues(c))
  /\ \A k \in Key : /\ WF_vars(WorkerContinues(k))
                     /\ WF_vars(ReceiveGrant(k))
                     /\ SF_vars(\E r \in Outcomes : HandlerEnds(k, r))

Spec     == Init /\ [][Next]_vars
FairSpec == Spec /\ Fairness

=============================================================================
