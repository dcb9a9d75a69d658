--------------------------- MODULE ParkaMap_proofs ---------------------------
(***************************************************************************)
(* Proofs about ParkaMap, for any keys, callers, batches, limits and       *)
(* number of calls.                                                        *)
(*                                                                         *)
(* Not even the types are inductive by themselves: a worker that retires   *)
(* decrements grants, which stays a natural number because grants counts   *)
(* the holders (GrantAccounting).  The count is right after a key is begun *)
(* with only if no goroutine works on the key already, which is so because *)
(* what is queued or held by a caller is known, unfinished and nobody      *)
(* else's (EveryTaskReachable).  And that needs the numbering of tasks: a  *)
(* task created for a key is new, and a task to be ejected is never the    *)
(* current one of its key (TasksNumbered).                                 *)
(***************************************************************************)
EXTENDS ParkaMapProperties, QueueFacts

\* What the place of a caller says about its variables.
PlacesMatch ==
  \A c \in Client :
    /\ pc[c] = "send" <=> transfers[c] # 0
    /\ newKeys[c] # <<>> => pc[c] = "schedule"
    /\ pc[c] \in {"await", "eject"} => taskList[c] # <<>>

TasksNumbered ==
  /\ \A k \in Key : tasks[k] \in {0, created[k]}
  /\ \A k \in Key : handler[k] # "none" => tasks[k] # 0
  /\ \A t \in TaskId : t[2] > created[t[1]] => gate[t] = "shut"
  /\ \A c \in Client : pc[c] = "eject" =>
       \A t \in Range(taskList[c]) :
         t[2] <= created[t[1]] /\ t[2] # tasks[t[1]]

Accounting == IsFiniteSet(InTransit) /\ GrantAccounting /\ NoLostReattacher
Reserves   == WorkConserving /\ EmptiedArmed
Tasks      == EveryTaskReachable /\ TasksNumbered

IInv == TypeOK /\ Accounting /\ Reserves /\ Tasks /\ PlacesMatch

-----------------------------------------------------------------------------
(***************************************************************************)
(* Facts about the parts of the invariant.                                 *)
(***************************************************************************)
LEMMA FiniteParts ==
  /\ IsFiniteSet(Holders) /\ IsFiniteSet(Blocked) /\ IsFiniteSet(Senders)
  /\ IsFiniteSet(Holders') /\ IsFiniteSet(Blocked') /\ IsFiniteSet(Senders')
BY MapAssumption, FS_Subset DEF Holders, Blocked, Senders

\* The accounts of a step that moves no work grant.
LEMMA AccountingKept ==
  ASSUME Accounting, UNCHANGED <<grants, reattachers, transfers>>,
         \A k \in Key :
           /\ handler'[k] \in Holding <=> handler[k] \in Holding
           /\ handler'[k] = "reattaching" <=> handler[k] = "reattaching"
           /\ handler'[k] \in {"sending", "detaching"}
                <=> handler[k] \in {"sending", "detaching"}
  PROVE  Accounting'
<1>1. Holders' = Holders /\ Blocked' = Blocked /\ Senders' = Senders
  BY DEF Holders, Blocked, Senders
<1>2. InTransit' = InTransit
  BY DEF InTransit
<1> QED
  BY <1>1, <1>2 DEF Accounting, GrantAccounting, NoLostReattacher

\* The tasks in a step that leaves the task set, the gates and the queue
\* alone, and in which no goroutine begins or ends its work on a key.
LEMMA TasksKept ==
  ASSUME TypeOK, Tasks,
         UNCHANGED <<tasks, created, gate, keys, newKeys>>,
         \A k \in Key :
           /\ InFlight(k)' <=> InFlight(k)
           /\ handler[k] = "none" => handler'[k] = "none",
         \A c \in Client : pc'[c] = "eject" =>
           /\ pc[c] = "eject"
           /\ Range(taskList'[c]) \subseteq Range(taskList[c])
  PROVE  Tasks'
<1>1. \A k \in Key : /\ Incomplete(k)' <=> Incomplete(k)
                     /\ Queued(k)' <=> Queued(k)
                     /\ HeldBy(k)' = HeldBy(k)
  BY DEF Incomplete, Queued, HeldBy, Known, TaskOf
<1>2. EveryTaskReachable'
  BY <1>1 DEF Tasks, EveryTaskReachable
<1>3. TasksNumbered'
  BY DEF Tasks, TasksNumbered
<1> QED  BY <1>2, <1>3 DEF Tasks

\* Goroutines begin with keys that nobody works on.
LEMMA Spawned ==
  ASSUME TypeOK, NEW Q \in SUBSET Key, \A k \in Q : handler[k] = "none",
         handler' = Spawn(Q), IsFiniteSet(Q)
  PROVE  /\ Cardinality(Holders') = Cardinality(Holders) + Cardinality(Q)
         /\ Blocked' = Blocked
         /\ Senders' = Senders
         /\ handler' \in [Key -> Phases]
         /\ \A k \in Key :
              handler'[k] = IF k \in Q THEN "spawned" ELSE handler[k]
<1>1. \A k \in Key : handler'[k] = IF k \in Q THEN "spawned" ELSE handler[k]
  BY DEF Spawn
<1>2. handler' \in [Key -> Phases]
  BY DEF Spawn, TypeOK, Phases
<1>3. Holders' = Holders \cup Q /\ Holders \cap Q = {}
  BY <1>1 DEF Holders, Holding
<1>4. Blocked' = Blocked /\ Senders' = Senders
  BY <1>1 DEF Blocked, Senders
<1>5. Cardinality(Holders \cup Q) = Cardinality(Holders) + Cardinality(Q)
  <2>1. Cardinality({}) = 0
    BY FS_EmptySet
  <2>2. Cardinality(Holders \cup Q) =
          Cardinality(Holders) + Cardinality(Q) - Cardinality(Holders \cap Q)
    BY FiniteParts, FS_Union
  <2>3. Cardinality(Holders) \in Nat /\ Cardinality(Q) \in Nat
    BY FiniteParts, FS_CardinalityType
  <2>4. Cardinality(Holders \cap Q) = 0
    BY <1>3, <2>1
  <2> QED  BY <2>2, <2>3, <2>4
<1> QED  BY <1>1, <1>2, <1>3, <1>4, <1>5

-----------------------------------------------------------------------------
LEMMA InitIInv == Init => IInv
<1> SUFFICES ASSUME Init PROVE IInv
  OBVIOUS
<1>1. TypeOK
  BY MapAssumption DEF Init, TypeOK, Results, Phases, Places, Methods
<1>2. Accounting
  <2>1. Holders = {} /\ Blocked = {} /\ Senders = {}
    BY DEF Init, Holders, Blocked, Senders, Holding
  <2>2. InTransit = {}
    BY DEF Init, InTransit
  <2>3. IsFiniteSet({}) /\ Cardinality({}) = 0
    BY FS_EmptySet
  <2>4. grants = 0 /\ reattachers = 0
    BY DEF Init
  <2> QED
    BY <2>1, <2>2, <2>3, <2>4 DEF Accounting, GrantAccounting, NoLostReattacher
<1>3. Reserves
  BY DEF Init, Reserves, WorkConserving, EmptiedArmed
<1>4. EveryTaskReachable
  <2>1. Known = {} /\ \A k \in Key : ~Queued(k) /\ HeldBy(k) = {}
    BY DEF Init, Known, Queued, HeldBy, Range
  <2>2. \A k \in Key : ~InFlight(k) /\ ~Incomplete(k)
    BY <2>1 DEF Init, InFlight, Incomplete, Running
  <2>3. IsInjective(keys) /\ \A c \in Client : IsInjective(newKeys[c])
    BY DEF Init, IsInjective
  <2> QED  BY <2>1, <2>2, <2>3 DEF EveryTaskReachable
<1>5. TasksNumbered
  BY DEF Init, TasksNumbered
<1>6. PlacesMatch
  BY DEF Init, PlacesMatch
<1> QED  BY <1>1, <1>2, <1>3, <1>4, <1>5, <1>6 DEF IInv, Tasks

-----------------------------------------------------------------------------
(***************************************************************************)
(* The steps of the callers.                                               *)
(***************************************************************************)
LEMMA GetOrCreateTasksStep ==
  ASSUME IInv, NEW c \in Client, NEW ks \in Batches,
         NEW m \in {"Inform", "InformFront", "Collect"},
         GetOrCreateTasks(c, m, ks)
  PROVE  IInv'
<1> USE DEF IInv
<1>1. ks \in Seq(Key) /\ DOMAIN ks = 1..Len(ks) /\ Len(ks) \in Nat
  BY MapAssumption
<1>2. PICK new \in UNION {[1..n -> Key] : n \in 0..Len(ks)} :
        /\ IsNewKeys(new, ks)
        /\ newKeys' = [newKeys EXCEPT ![c] = new]
        /\ created' = [k \in Key |->
                         created[k] + (IF k \in Range(new) THEN 1 ELSE 0)]
        /\ tasks' = [k \in Key |->
                       IF k \in Range(new) THEN created[k] + 1 ELSE tasks[k]]
  BY DEF GetOrCreateTasks
<1>3. /\ new \in Seq(Key)
      /\ IsInjective(new)
      /\ Range(new) = {k \in Range(ks) : k \notin Known}
  BY <1>1, <1>2 DEF IsNewKeys
<1>4. /\ pc[c] = "idle"
      /\ pc' = [pc EXCEPT ![c] = "schedule"]
      /\ calls' = calls + 1
      /\ call' = [call EXCEPT ![c] = m]
      /\ \A k \in Range(ks) : k \notin Known => created[k] < MaxTasks
      /\ UNCHANGED <<result, gate, tasksHandled, workVars, handler, transfers,
                     snapshot>>
  BY DEF GetOrCreateTasks, Start, Goto
<1>5. Range(ks) \subseteq Key
  BY <1>1, RangeOfSeq
<1>6. newKeys[c] = <<>>
  BY <1>4 DEF PlacesMatch
<1>7. \A k \in Key :
        /\ created[k] \in Nat /\ tasks[k] \in Nat
        /\ created'[k] = created[k] + (IF k \in Range(new) THEN 1 ELSE 0)
        /\ tasks'[k] = IF k \in Range(new) THEN created[k] + 1 ELSE tasks[k]
        /\ k \in Range(new) => created[k] + 1 \in 1..MaxTasks
  BY <1>2, <1>3, <1>4, MapAssumption DEF TypeOK
<1>8. \A k \in Range(ks) : <<k, tasks'[k]>> \in TaskId
  <2> SUFFICES ASSUME NEW k \in Range(ks) PROVE tasks'[k] \in 1..MaxTasks
    BY <1>5 DEF TaskId
  <2>1. CASE k \in Range(new)
    BY <1>5, <1>7, <2>1
  <2>2. CASE k \notin Range(new)
    <3>1. tasks'[k] = tasks[k] /\ tasks[k] # 0
      BY <1>3, <1>5, <1>7, <2>2 DEF Known
    <3> QED  BY <1>5, <3>1, MapAssumption DEF TypeOK
  <2> QED  BY <2>1, <2>2
<1>9. TypeOK'
  <2>1. taskList' \in [Client -> Seq(TaskId)]
    <3>1. [i \in DOMAIN ks |-> <<ks[i], tasks'[ks[i]]>>] \in Seq(TaskId)
      <4>1. \A i \in 1..Len(ks) : <<ks[i], tasks'[ks[i]]>> \in TaskId
        BY <1>1, <1>8 DEF Range
      <4> QED  BY <1>1, <4>1
    <3> QED  BY <3>1 DEF GetOrCreateTasks, TypeOK
  <2>2. created' \in [Key -> 0..MaxTasks] /\ tasks' \in [Key -> 0..MaxTasks]
    BY <1>2, <1>7 DEF TypeOK
  <2>3. newKeys' \in [Client -> Seq(Key)]
    BY <1>2, <1>3 DEF TypeOK
  <2>4. /\ pc' \in [Client -> Places]
        /\ call' \in [Client -> Methods]
        /\ calls' \in Nat
    BY <1>4 DEF TypeOK, Places, Methods
  <2> QED  BY <1>4, <2>1, <2>2, <2>3, <2>4 DEF TypeOK, workVars
<1>10. Accounting'
  BY <1>4, AccountingKept DEF workVars
<1>11. Reserves'
  BY <1>4 DEF workVars, Reserves, WorkConserving, EmptiedArmed
<1>12. EveryTaskReachable'
  <2>1. ASSUME NEW k \in Key
        PROVE  /\ Queued(k)' <=> Queued(k)
               /\ InFlight(k)' <=> InFlight(k)
               /\ HeldBy(k)' = IF k \in Range(new) THEN HeldBy(k) \cup {c}
                                                   ELSE HeldBy(k)
    <3>1. Range(<<>>) = {}
      BY DEF Range
    <3> QED
      BY <1>2, <1>4, <1>6, <3>1 DEF workVars, Queued, InFlight, HeldBy, TypeOK
  <2>2. ASSUME NEW k \in Key
        PROVE  Incomplete(k)' <=> Incomplete(k) \/ k \in Range(new)
    <3>1. CASE k \in Range(new)
      <4>1. <<k, created[k] + 1>> \in TaskId
        BY <1>7, <3>1 DEF TaskId
      <4>2. gate[<<k, created[k] + 1>>] = "shut"
        BY <1>7, <4>1 DEF Tasks, TasksNumbered
      <4> QED  BY <1>4, <1>7, <3>1, <4>2 DEF Incomplete, Known, TaskOf
    <3>2. CASE k \notin Range(new)
      BY <1>4, <1>7, <3>2 DEF Incomplete, Known, TaskOf
    <3> QED  BY <3>1, <3>2
  <2>3. ASSUME NEW k \in Range(new)
        PROVE  /\ ~Queued(k) /\ ~InFlight(k) /\ HeldBy(k) = {}
               /\ handler[k] = "none"
    <3>1. ~Incomplete(k) /\ tasks[k] = 0 /\ k \in Key
      BY <1>3, <1>5 DEF Incomplete, Known
    <3> QED  BY <3>1 DEF Tasks, EveryTaskReachable, TasksNumbered
  <2>4. IsInjective(keys') /\ \A d \in Client : IsInjective(newKeys'[d])
    BY <1>2, <1>3, <1>4 DEF workVars, Tasks, EveryTaskReachable, TypeOK
  <2>5. UNCHANGED handler
    BY <1>4
  <2>6. ASSUME NEW k \in Key
        PROVE  /\ Incomplete(k)' <=>
                    Queued(k)' \/ InFlight(k)' \/ HeldBy(k)' # {}
               /\ Queued(k)' => HeldBy(k)' = {}
               /\ Queued(k)' \/ HeldBy(k)' # {} => handler'[k] = "none"
               /\ \A d, e \in HeldBy(k)' : d = e
    <3>1. CASE k \in Range(new)
      BY <2>1, <2>2, <2>3, <2>5, <3>1
    <3>2. CASE k \notin Range(new)
      BY <2>1, <2>2, <2>5, <3>2 DEF Tasks, EveryTaskReachable
    <3> QED  BY <3>1, <3>2
  <2> QED  BY <2>4, <2>6 DEF EveryTaskReachable
<1>13. TasksNumbered'
  <2>1. \A d \in Client : pc'[d] = "eject" =>
          pc[d] = "eject" /\ taskList'[d] = taskList[d]
    BY <1>4 DEF GetOrCreateTasks, TypeOK
  <2>2. \A d \in Client : Range(taskList[d]) \subseteq TaskId
    BY RangeOfSeq DEF TypeOK
  <2>3. \A t \in TaskId : t[1] \in Key /\ t[2] \in Nat
    BY DEF TaskId
  <2>4. \A k \in Key : tasks'[k] \in {0, created'[k]}
    BY <1>3, <1>7 DEF Tasks, TasksNumbered, Known
  <2>5. \A k \in Key : handler'[k] # "none" => tasks'[k] # 0
    BY <1>4, <1>7 DEF Tasks, TasksNumbered
  <2>6. \A t \in TaskId : t[2] > created'[t[1]] => gate'[t] = "shut"
    BY <1>4, <1>7, <2>3 DEF Tasks, TasksNumbered
  <2>7. \A d \in Client : pc'[d] = "eject" =>
          \A t \in Range(taskList'[d]) :
            t[2] <= created'[t[1]] /\ t[2] # tasks'[t[1]]
    BY <1>7, <2>1, <2>2, <2>3 DEF Tasks, TasksNumbered
  <2> QED  BY <2>4, <2>5, <2>6, <2>7 DEF TasksNumbered
<1>14. PlacesMatch'
  BY <1>2, <1>4 DEF GetOrCreateTasks, PlacesMatch, TypeOK
<1> QED  BY <1>9, <1>10, <1>11, <1>12, <1>13, <1>14 DEF Tasks

LEMMA ScheduleNewKeysStep ==
  ASSUME IInv, NEW c \in Client, ScheduleNewKeys(c)
  PROVE  IInv'
<1> USE DEF IInv
<1> DEFINE new   == newKeys[c]
           n     == Smaller(Issuable(grantLimit), Len(new))
           front == SubSeq(new, 1, n)
           back  == SubSeq(new, n + 1, Len(new))
<1>1. /\ pc[c] = "schedule"
      /\ grants' = grants + n
      /\ handler' = Spawn(Range(front))
      /\ keys' = Enqueue(call[c], back)
      /\ newKeys' = [newKeys EXCEPT ![c] = <<>>]
      /\ pc' = [pc EXCEPT ![c] = IF taskList[c] = <<>> THEN "idle" ELSE "await"]
      /\ UNCHANGED <<taskVars, grantLimit, reattachers, emptied, call,
                     taskList, transfers, snapshot, calls>>
  BY DEF ScheduleNewKeys, Goto
<1>2. /\ new \in Seq(Key) /\ IsInjective(new) /\ Len(new) \in Nat
      /\ keys \in Seq(Key) /\ IsInjective(keys)
  BY DEF TypeOK, Tasks, EveryTaskReachable
<1>3. /\ n \in 0..Len(new)
      /\ n < Len(new) => grants + n >= grantLimit
  BY <1>2 DEF TypeOK, Smaller, Larger, Issuable
<1> HIDE DEF n
<1>4. /\ front \in Seq(Key) /\ IsInjective(front) /\ Len(front) = n
      /\ back \in Seq(Key) /\ IsInjective(back) /\ Len(back) = Len(new) - n
      /\ Range(front) \cap Range(back) = {}
      /\ Range(front) \cup Range(back) = Range(new)
  BY <1>2, <1>3, SplitQueue
<1> HIDE DEF front, back
<1>5. Range(new) \subseteq Key
  BY <1>2, RangeOfSeq
<1>6. ASSUME NEW k \in Range(new)
      PROVE  /\ HeldBy(k) = {c} /\ ~Queued(k) /\ ~InFlight(k)
             /\ Incomplete(k) /\ handler[k] = "none"
  <2>1. k \in Key /\ c \in HeldBy(k)
    BY <1>5, <1>6 DEF HeldBy
  <2>2. handler[k] = "none" /\ ~Queued(k) /\ Incomplete(k)
    BY <2>1 DEF Tasks, EveryTaskReachable
  <2>3. HeldBy(k) = {c}
    BY <2>1 DEF Tasks, EveryTaskReachable
  <2> QED  BY <2>2, <2>3 DEF InFlight, Running
<1>7. IsFiniteSet(Range(front)) /\ Cardinality(Range(front)) = n
  BY <1>4, SizeOfQueue
<1>8. /\ Cardinality(Holders') = Cardinality(Holders) + n
      /\ Blocked' = Blocked
      /\ Senders' = Senders
      /\ handler' \in [Key -> Phases]
      /\ \A k \in Key :
           handler'[k] = IF k \in Range(front) THEN "spawned" ELSE handler[k]
  <2>1. Range(front) \in SUBSET Key /\ \A k \in Range(front) : handler[k] = "none"
    BY <1>4, <1>5, <1>6
  <2> QED  BY <1>1, <1>7, <2>1, Spawned
<1>9. /\ keys' \in Seq(Key)
      /\ IsInjective(keys')
      /\ Range(keys') = Range(keys) \cup Range(back)
  <2>1. Range(keys) \cap Range(back) = {}
    BY <1>4, <1>6 DEF Queued
  <2> QED  BY <1>1, <1>2, <1>4, <2>1, JoinQueues DEF Enqueue
<1>10. TypeOK'
  <2>1. newKeys' \in [Client -> Seq(Key)]
    BY <1>1 DEF TypeOK
  <2>2. pc' \in [Client -> Places]
    BY <1>1 DEF TypeOK, Places
  <2>3. grants' \in Nat
    BY <1>1, <1>3 DEF TypeOK
  <2> QED  BY <1>1, <1>8, <1>9, <2>1, <2>2, <2>3 DEF TypeOK, taskVars
<1>11. Accounting'
  <2>1. InTransit' = InTransit
    BY <1>1 DEF InTransit
  <2>2. Cardinality(Holders) \in Nat /\ Cardinality(InTransit) \in Nat
    BY FiniteParts, FS_CardinalityType DEF Accounting
  <2>3. GrantAccounting'
    BY <1>1, <1>3, <1>8, <2>1, <2>2 DEF Accounting, GrantAccounting
  <2> QED
    BY <1>1, <1>8, <2>1, <2>3 DEF Accounting, NoLostReattacher
<1>12. Reserves'
  <2>1. CASE n < Len(new)
    BY <1>1, <1>3, <2>1 DEF TypeOK, Reserves, WorkConserving, EmptiedArmed
  <2>2. CASE ~(n < Len(new))
    <3>1. back = <<>>
      BY <1>2, <1>3, <1>4, <2>2
    <3>2. keys' = keys
      BY <1>1, <1>2, <3>1, ConcatEmptySeq DEF Enqueue
    <3> QED
      BY <1>1, <1>3, <3>2 DEF TypeOK, Reserves, WorkConserving, EmptiedArmed
  <2> QED  BY <2>1, <2>2
<1>13. EveryTaskReachable'
  <2>1. ASSUME NEW k \in Key
        PROVE  /\ Incomplete(k)' <=> Incomplete(k)
               /\ Queued(k)' <=> Queued(k) \/ k \in Range(back)
               /\ InFlight(k)' <=> InFlight(k) \/ k \in Range(front)
               /\ HeldBy(k)' = HeldBy(k) \ {c}
               /\ handler'[k] = "none" <=>
                    handler[k] = "none" /\ k \notin Range(front)
    <3>1. Range(<<>>) = {}
      BY DEF Range
    <3>2. HeldBy(k)' = HeldBy(k) \ {c}
      BY <1>1, <3>1 DEF HeldBy, TypeOK
    <3>3. Incomplete(k)' <=> Incomplete(k)
      BY <1>1 DEF taskVars, Incomplete, Known, TaskOf
    <3>4. InFlight(k)' <=> InFlight(k) \/ k \in Range(front)
      BY <1>8 DEF InFlight, Running
    <3>5. Queued(k)' <=> Queued(k) \/ k \in Range(back)
      BY <1>9 DEF Queued
    <3> QED  BY <1>8, <3>2, <3>3, <3>4, <3>5
  <2>2. \A d \in Client : IsInjective(newKeys'[d])
    BY <1>1 DEF Tasks, EveryTaskReachable, TypeOK, IsInjective
  <2>3. ASSUME NEW k \in Key
        PROVE  /\ Incomplete(k)' <=>
                    Queued(k)' \/ InFlight(k)' \/ HeldBy(k)' # {}
               /\ Queued(k)' => HeldBy(k)' = {}
               /\ Queued(k)' \/ HeldBy(k)' # {} => handler'[k] = "none"
               /\ \A d, e \in HeldBy(k)' : d = e
    <3>1. CASE k \in Range(new)
      <4>1. /\ k \in Range(front) <=> k \notin Range(back)
            /\ HeldBy(k) = {c} /\ ~Queued(k) /\ ~InFlight(k)
            /\ Incomplete(k) /\ handler[k] = "none"
        BY <1>4, <1>6, <3>1
      <4> QED  BY <2>1, <4>1
    <3>2. CASE k \notin Range(new)
      <4>1. /\ k \notin Range(front) /\ k \notin Range(back)
            /\ HeldBy(k) \ {c} = HeldBy(k)
        BY <1>4, <3>2 DEF HeldBy
      <4> QED  BY <2>1, <4>1 DEF Tasks, EveryTaskReachable
    <3> QED  BY <3>1, <3>2
  <2> QED  BY <1>9, <2>2, <2>3 DEF EveryTaskReachable
<1>14. TasksNumbered'
  <2>1. \A k \in Range(front) : tasks[k] # 0
    BY <1>4, <1>6 DEF Incomplete, Known
  <2>2. \A d \in Client : pc'[d] = "eject" => pc[d] = "eject"
    BY <1>1 DEF TypeOK
  <2> QED  BY <1>1, <1>8, <2>1, <2>2 DEF taskVars, Tasks, TasksNumbered
<1>15. PlacesMatch'
  BY <1>1 DEF PlacesMatch, TypeOK
<1> QED  BY <1>10, <1>11, <1>12, <1>13, <1>14, <1>15 DEF Tasks

\* A step of a caller on its own, which may block it in Wait.
LEMMA CallerAlone ==
  ASSUME IInv,
         UNCHANGED <<tasks, created, gate, grants, grantLimit, reattachers,
                     keys, handler, newKeys, transfers>>,
         emptied' # emptied => grants # 0,
         \A c \in Client : pc'[c] = "eject" =>
           pc[c] = "eject" /\ Range(taskList'[c]) \subseteq Range(taskList[c])
  PROVE  Accounting' /\ Reserves' /\ Tasks'
<1> USE DEF IInv
<1>1. Accounting'
  BY AccountingKept
<1>2. Reserves'
  BY DEF TypeOK, Reserves, WorkConserving, EmptiedArmed
<1>3. \A k \in Key : InFlight(k)' <=> InFlight(k)
  BY DEF InFlight
<1>4. Tasks'
  BY <1>3, TasksKept
<1> QED  BY <1>1, <1>2, <1>4

LEMMA AwaitTaskStep ==
  ASSUME IInv, NEW c \in Client, AwaitTask(c)
  PROVE  IInv'
<1> USE DEF IInv
<1> DEFINE rest == IF result[Head(taskList[c])] \in {"zero", "value"}
                     THEN Tail(taskList[c]) ELSE <<>>
<1>1. /\ pc[c] = "await"
      /\ taskList' = [taskList EXCEPT ![c] = rest]
      /\ pc' = [pc EXCEPT ![c] = IF rest = <<>> THEN "idle" ELSE "await"]
      /\ UNCHANGED <<taskVars, workVars, handler, call, newKeys, transfers,
                     snapshot, calls>>
  BY DEF AwaitTask, Goto
<1>2. rest \in Seq(TaskId)
  <2>1. taskList[c] \in Seq(TaskId) /\ taskList[c] # <<>>
    BY <1>1 DEF TypeOK, PlacesMatch
  <2> QED  BY <2>1
<1> HIDE DEF rest
<1>3. TypeOK'
  <2>1. /\ taskList' \in [Client -> Seq(TaskId)]
        /\ pc' \in [Client -> Places]
    BY <1>1, <1>2 DEF TypeOK, Places
  <2> QED  BY <1>1, <2>1 DEF TypeOK, taskVars, workVars
<1>4. Accounting' /\ Reserves' /\ Tasks'
  <2>1. \A d \in Client : pc'[d] = "eject" =>
          pc[d] = "eject" /\ taskList'[d] = taskList[d]
    BY <1>1 DEF TypeOK
  <2> QED  BY <1>1, <2>1, CallerAlone DEF taskVars, workVars
<1>5. PlacesMatch'
  BY <1>1 DEF PlacesMatch, TypeOK
<1> QED  BY <1>3, <1>4, <1>5

\* The part of a caller's step that is not about its place.
LEMMA EnterWaitStep ==
  ASSUME IInv, NEW c \in Client, EnterWait(c),
         pc' = [pc EXCEPT ![c] = AfterWait], pc[c] \in {"idle", "wait"},
         call' \in [Client -> Methods], calls' \in Nat
  PROVE  IInv'
<1> USE DEF IInv
<1>1. /\ emptied' = IF grants = 0 THEN emptied ELSE emptied \cup {c}
      /\ UNCHANGED <<taskVars, grants, grantLimit, reattachers, keys, handler,
                     newKeys, taskList, transfers, snapshot>>
  BY DEF EnterWait
<1>2. AfterWait \in {"idle", "blocked"}
  BY DEF AfterWait
<1>3. TypeOK'
  <2>1. pc' \in [Client -> Places] /\ emptied' \subseteq Client
    BY <1>1, <1>2 DEF TypeOK, Places
  <2> QED  BY <1>1, <2>1 DEF TypeOK, taskVars
<1>4. Accounting' /\ Reserves' /\ Tasks'
  <2>1. \A d \in Client : pc'[d] = "eject" =>
          pc[d] = "eject" /\ taskList'[d] = taskList[d]
    BY <1>1, <1>2 DEF TypeOK
  <2> QED  BY <1>1, <2>1, CallerAlone DEF taskVars
<1>5. PlacesMatch'
  BY <1>1, <1>2 DEF PlacesMatch, TypeOK
<1> QED  BY <1>3, <1>4, <1>5

LEMMA WaitStep ==
  ASSUME IInv, NEW c \in Client, Wait(c) \/ CleanupWait(c)
  PROVE  IInv'
<1>1. /\ EnterWait(c)
      /\ pc' = [pc EXCEPT ![c] = AfterWait]
      /\ pc[c] \in {"idle", "wait"}
      /\ call' \in [Client -> Methods]
      /\ calls' \in Nat
  <2>1. CASE Wait(c)
    BY <2>1 DEF Wait, Start, Goto, IInv, TypeOK, Methods
  <2>2. CASE CleanupWait(c)
    BY <2>2 DEF CleanupWait, Goto, IInv, TypeOK
  <2> QED  BY <2>1, <2>2
<1> QED  BY <1>1, EnterWaitStep

\* Returning from Wait, and both halves of Stats.
LEMMA OtherCallerStep ==
  ASSUME IInv, NEW c \in Client,
         WaitReturns(c) \/ LoadHandled(c) \/ ReadTotal(c)
  PROVE  IInv'
<1> USE DEF IInv
<1>1. /\ pc[c] \in {"idle", "blocked", "total"}
      /\ \/ pc' = [pc EXCEPT ![c] = "idle"]
         \/ pc' = [pc EXCEPT ![c] = "total"]
      /\ call' \in [Client -> Methods]
      /\ calls' \in Nat
      /\ snapshot' \in [Client -> Nat]
      /\ UNCHANGED <<taskVars, workVars, handler, newKeys, taskList, transfers>>
  <2>1. CASE WaitReturns(c)
    BY <2>1 DEF WaitReturns, Goto, TypeOK
  <2>2. CASE LoadHandled(c)
    BY <2>2 DEF LoadHandled, Start, Goto, TypeOK, Methods
  <2>3. CASE ReadTotal(c)
    BY <2>3 DEF ReadTotal, Goto, TypeOK
  <2> QED  BY <2>1, <2>2, <2>3
<1>2. TypeOK'
  <2>1. pc' \in [Client -> Places]
    BY <1>1 DEF TypeOK, Places
  <2> QED  BY <1>1, <2>1 DEF TypeOK, taskVars, workVars
<1>3. Accounting' /\ Reserves' /\ Tasks'
  <2>1. \A d \in Client : pc'[d] = "eject" =>
          pc[d] = "eject" /\ taskList'[d] = taskList[d]
    BY <1>1 DEF TypeOK
  <2> QED  BY <1>1, <2>1, CallerAlone DEF taskVars, workVars
<1>4. PlacesMatch'
  BY <1>1 DEF PlacesMatch, TypeOK
<1> QED  BY <1>2, <1>3, <1>4

\* A call of Limit is about to send n work grants.
LEMMA TransitGrows ==
  ASSUME TypeOK, IsFiniteSet(InTransit), NEW c \in Client, NEW n \in Nat,
         transfers[c] = 0, transfers' = [transfers EXCEPT ![c] = n]
  PROVE  /\ IsFiniteSet(InTransit')
         /\ Cardinality(InTransit') = Cardinality(InTransit) + n
<1> DEFINE T == {c} \X (1..n)
<1>1. IsFiniteSet(T) /\ Cardinality(T) = n
  <2>1. IsFiniteSet(1..n) /\ Cardinality(1..n) = n
    BY FS_Interval
  <2>2. IsFiniteSet({c}) /\ Cardinality({c}) = 1
    BY FS_Singleton
  <2>3. /\ IsFiniteSet({c} \X (1..n))
        /\ Cardinality({c} \X (1..n)) = Cardinality({c}) * Cardinality(1..n)
    BY <2>1, <2>2, FS_Product
  <2>4. 1 * n = n
    OBVIOUS
  <2> QED  BY <2>1, <2>2, <2>3, <2>4
<1>2. InTransit' = InTransit \cup T
  <2>1. \A d \in Client : transfers'[d] = IF d = c THEN n ELSE transfers[d]
    BY DEF TypeOK
  <2>2. {c} \X (1..transfers[c]) = {}
    OBVIOUS
  <2>3. ASSUME NEW x  PROVE x \in InTransit' <=> x \in InTransit \cup T
    BY <2>1, <2>2 DEF InTransit
  <2> QED  BY <2>3
<1>3. InTransit \cap T = {}
  <2> SUFFICES ASSUME NEW x \in InTransit, x \in T PROVE FALSE
    OBVIOUS
  <2>1. PICK d \in Client : x \in {d} \X (1..transfers[d])
    BY DEF InTransit
  <2>2. d = c
    BY <2>1
  <2> QED  BY <2>1, <2>2
<1> HIDE DEF T
<1>4. Cardinality(InTransit \cap T) = 0
  BY <1>3, FS_EmptySet
<1>5. Cardinality(InTransit) \in Nat
  BY FS_CardinalityType
<1>6. /\ IsFiniteSet(InTransit \cup T)
      /\ Cardinality(InTransit \cup T) =
           Cardinality(InTransit) + Cardinality(T) - Cardinality(InTransit \cap T)
  BY <1>1, FS_Union
<1> QED  BY <1>1, <1>2, <1>4, <1>5, <1>6

\* A call of Limit has sent one of its work grants.
LEMMA TransitShrinks ==
  ASSUME TypeOK, IsFiniteSet(InTransit), NEW c \in Client,
         transfers[c] # 0, transfers' = [transfers EXCEPT ![c] = @ - 1]
  PROVE  /\ IsFiniteSet(InTransit')
         /\ Cardinality(InTransit') = Cardinality(InTransit) - 1
<1> DEFINE x == <<c, transfers[c]>>
<1>1. /\ transfers[c] \in Nat \ {0}
      /\ \A d \in Client :
           /\ transfers[d] \in Nat
           /\ transfers'[d] = IF d = c THEN transfers[c] - 1 ELSE transfers[d]
  BY DEF TypeOK
<1>2. \A d \in Client : \A i : <<d, i>> \in InTransit <=> i \in 1..transfers[d]
  BY DEF InTransit
<1>3. \A d \in Client : \A i : <<d, i>> \in InTransit' <=> i \in 1..transfers'[d]
  BY DEF InTransit
<1>4. /\ \A y \in InTransit : \E d \in Client : \E i : y = <<d, i>>
      /\ \A y \in InTransit' : \E d \in Client : \E i : y = <<d, i>>
  BY DEF InTransit
<1>5. InTransit' = InTransit \ {x}
  <2>1. ASSUME NEW d \in Client, NEW i
        PROVE  <<d, i>> \in InTransit' <=> <<d, i>> \in InTransit /\ <<d, i>> # x
    <3>1. CASE d = c
      BY <1>1, <1>2, <1>3, <3>1
    <3>2. CASE d # c
      BY <1>1, <1>2, <1>3, <3>2
    <3> QED  BY <3>1, <3>2
  <2> QED  BY <1>4, <2>1
<1>6. x \in InTransit
  BY <1>1, <1>2
<1> QED  BY <1>5, <1>6, FS_RemoveElement

LEMMA LimitStep ==
  ASSUME IInv, NEW c \in Client, NEW l \in Limits, Limit(c, l)
  PROVE  IInv'
<1> USE DEF IInv
<1> DEFINE limit == Larger(1, l)
           sends == ToReattachers(limit)
           work  == ToKeys(limit)
           front == SubSeq(keys, 1, work)
           back  == SubSeq(keys, work + 1, Len(keys))
<1>1. /\ pc[c] = "idle"
      /\ pc' = [pc EXCEPT ![c] = IF sends = 0 THEN "idle" ELSE "send"]
      /\ calls' = calls + 1
      /\ call' = [call EXCEPT ![c] = "Limit"]
      /\ grantLimit' = limit
      /\ grants' = grants + sends + work
      /\ reattachers' = reattachers - sends
      /\ transfers' = [transfers EXCEPT ![c] = sends]
      /\ handler' = Spawn(Range(front))
      /\ keys' = back
      /\ UNCHANGED <<taskVars, emptied, newKeys, taskList, snapshot>>
  BY DEF Limit, Start, Goto, Popped, Left
<1>2. keys \in Seq(Key) /\ IsInjective(keys) /\ Len(keys) \in Nat
  BY DEF TypeOK, Tasks, EveryTaskReachable
<1>3. limit \in Nat \ {0}
  BY MapAssumption DEF Larger
<1> HIDE DEF limit
<1>4. /\ sends \in Nat /\ sends <= reattachers
      /\ work \in 0..Len(keys)
      /\ sends < reattachers => grants + sends >= limit
      /\ work < Len(keys) => grants + sends + work >= limit
  <2> DEFINE issuable == Issuable(limit)
  <2>1. /\ issuable \in Nat
        /\ grants + issuable >= limit
        /\ grants \in Nat /\ reattachers \in Nat
    BY <1>3 DEF TypeOK, Larger, Issuable
  <2>2. /\ sends = Smaller(issuable, reattachers)
        /\ work = Smaller(issuable - sends, Len(keys))
    BY DEF ToReattachers, ToKeys
  <2> HIDE DEF issuable, sends, work
  <2>3. /\ sends \in Nat /\ sends <= reattachers /\ sends <= issuable
        /\ sends < reattachers => sends = issuable
    BY <2>1, <2>2 DEF Smaller
  <2>4. /\ work \in 0..Len(keys)
        /\ work < Len(keys) => work = issuable - sends
    <3>1. issuable - sends \in Nat /\ Len(keys) \in Nat
      BY <1>2, <2>1, <2>3
    <3>2. work = IF issuable - sends <= Len(keys) THEN issuable - sends
                                                  ELSE Len(keys)
      BY <2>2 DEF Smaller
    <3> QED  BY <3>1, <3>2
  <2> QED  BY <1>2, <1>3, <2>1, <2>3, <2>4
<1> HIDE DEF sends, work
<1>5. /\ front \in Seq(Key) /\ IsInjective(front) /\ Len(front) = work
      /\ back \in Seq(Key) /\ IsInjective(back) /\ Len(back) = Len(keys) - work
      /\ Range(front) \cap Range(back) = {}
      /\ Range(front) \cup Range(back) = Range(keys)
  BY <1>2, <1>4, SplitQueue
<1> HIDE DEF front, back
<1>6. Range(keys) \subseteq Key
  BY <1>2, RangeOfSeq
<1>7. \A k \in Range(keys) :
        handler[k] = "none" /\ Incomplete(k) /\ HeldBy(k) = {} /\ ~InFlight(k)
  BY <1>6 DEF Tasks, EveryTaskReachable, Queued, InFlight, Running
<1>8. IsFiniteSet(Range(front)) /\ Cardinality(Range(front)) = work
  BY <1>5, SizeOfQueue
<1>9. /\ Cardinality(Holders') = Cardinality(Holders) + work
      /\ Blocked' = Blocked
      /\ Senders' = Senders
      /\ handler' \in [Key -> Phases]
      /\ \A k \in Key :
           handler'[k] = IF k \in Range(front) THEN "spawned" ELSE handler[k]
  <2>1. Range(front) \in SUBSET Key /\ \A k \in Range(front) : handler[k] = "none"
    BY <1>5, <1>6, <1>7
  <2> QED  BY <1>1, <1>8, <2>1, Spawned
<1>10. TypeOK'
  <2>1. /\ pc' \in [Client -> Places]
        /\ call' \in [Client -> Methods]
        /\ calls' \in Nat
    BY <1>1 DEF TypeOK, Places, Methods
  <2>2. /\ grants' \in Nat
        /\ reattachers' \in Nat
        /\ transfers' \in [Client -> Nat]
    BY <1>1, <1>4 DEF TypeOK
  <2> QED  BY <1>1, <1>3, <1>5, <1>9, <2>1, <2>2 DEF TypeOK, taskVars
<1>11. Accounting'
  <2>1. transfers[c] = 0
    BY <1>1 DEF PlacesMatch
  <2>2. /\ IsFiniteSet(InTransit')
        /\ Cardinality(InTransit') = Cardinality(InTransit) + sends
    BY <1>1, <1>4, <2>1, TransitGrows DEF Accounting
  <2>3. /\ Cardinality(Holders) \in Nat /\ Cardinality(InTransit) \in Nat
        /\ Cardinality(Senders) \in Nat
    BY FiniteParts, FS_CardinalityType DEF Accounting
  <2>4. GrantAccounting'
    BY <1>1, <1>4, <1>9, <2>2, <2>3 DEF Accounting, GrantAccounting
  <2>5. NoLostReattacher'
    BY <1>1, <1>4, <1>9, <2>2, <2>3 DEF Accounting, NoLostReattacher, TypeOK
  <2> QED  BY <2>2, <2>4, <2>5 DEF Accounting
<1>12. Reserves'
  <2>1. keys' # <<>> => grants' >= grantLimit'
    <3>1. keys' # <<>> => work < Len(keys)
      BY <1>1, <1>2, <1>4, <1>5
    <3> QED  BY <1>1, <1>4, <3>1
  <2>2. reattachers' > 0 => grants' >= grantLimit'
    BY <1>1, <1>3, <1>4 DEF TypeOK
  <2>3. emptied' # {} => grants' > 0
    BY <1>1, <1>4 DEF TypeOK, Reserves, EmptiedArmed
  <2> QED  BY <2>1, <2>2, <2>3 DEF Reserves, WorkConserving, EmptiedArmed
<1>13. EveryTaskReachable'
  <2>1. ASSUME NEW k \in Key
        PROVE  /\ Incomplete(k)' <=> Incomplete(k)
               /\ Queued(k)' <=> Queued(k) /\ k \notin Range(front)
               /\ InFlight(k)' <=> InFlight(k) \/ k \in Range(front)
               /\ HeldBy(k)' = HeldBy(k)
               /\ handler'[k] = "none" <=>
                    handler[k] = "none" /\ k \notin Range(front)
    <3>1. Incomplete(k)' <=> Incomplete(k)
      BY <1>1 DEF taskVars, Incomplete, Known, TaskOf
    <3>2. InFlight(k)' <=> InFlight(k) \/ k \in Range(front)
      BY <1>9 DEF InFlight, Running
    <3>3. Queued(k)' <=> Queued(k) /\ k \notin Range(front)
      BY <1>1, <1>5 DEF Queued
    <3> QED  BY <1>1, <1>9, <3>1, <3>2, <3>3 DEF HeldBy
  <2>2. \A k \in Range(front) : Queued(k)
    BY <1>5 DEF Queued
  <2>3. /\ IsInjective(keys')
        /\ \A d \in Client : IsInjective(newKeys'[d])
    BY <1>1, <1>5 DEF Tasks, EveryTaskReachable
  <2> QED  BY <2>1, <2>2, <2>3 DEF Tasks, EveryTaskReachable
<1>14. TasksNumbered'
  <2>1. \A k \in Range(front) : tasks[k] # 0
    BY <1>5, <1>7 DEF Incomplete, Known
  <2>2. \A d \in Client : pc'[d] = "eject" => pc[d] = "eject"
    BY <1>1 DEF TypeOK
  <2> QED  BY <1>1, <1>9, <2>1, <2>2 DEF taskVars, Tasks, TasksNumbered
<1>15. PlacesMatch'
  BY <1>1, <1>4 DEF PlacesMatch, TypeOK
<1> QED  BY <1>10, <1>11, <1>12, <1>13, <1>14, <1>15 DEF Tasks

LEMMA DequeueAllStep ==
  ASSUME IInv, NEW c \in Client, NEW m \in {"DequeueAll", "Cleanup"},
         DequeueAll(c, m)
  PROVE  IInv'
<1> USE DEF IInv
<1>1. /\ pc[c] = "idle"
      /\ pc' = [pc EXCEPT ![c] = AfterDequeue(m, keys)]
      /\ calls' = calls + 1
      /\ call' = [call EXCEPT ![c] = m]
      /\ taskList' = [taskList EXCEPT ![c] = Dequeued]
      /\ tasks' = Remaining
      /\ keys' = <<>>
      /\ UNCHANGED <<created, result, gate, tasksHandled, grants, grantLimit,
                     reattachers, emptied, handler, newKeys, transfers,
                     snapshot>>
  BY DEF DequeueAll, Start, Goto
<1>2. /\ keys \in Seq(Key) /\ Len(keys) \in Nat
      /\ DOMAIN keys = 1..Len(keys)
      /\ Range(keys) \subseteq Key
  BY RangeOfSeq DEF TypeOK
<1>3. \A k \in Range(keys) :
        /\ handler[k] = "none" /\ HeldBy(k) = {} /\ ~InFlight(k)
        /\ tasks[k] \in 1..MaxTasks /\ tasks[k] = created[k]
  BY <1>2 DEF Tasks, EveryTaskReachable, TasksNumbered, Queued, InFlight,
              Running, Incomplete, Known, TypeOK
<1>4. \A k \in Key :
        tasks'[k] = IF k \in Range(keys) THEN 0 ELSE tasks[k]
  BY <1>1 DEF Remaining
<1>5. /\ Dequeued \in Seq(TaskId)
      /\ Len(Dequeued) = Len(keys)
      /\ \A i \in 1..Len(keys) :
           keys[i] \in Range(keys) /\ Dequeued[i] = <<keys[i], tasks[keys[i]]>>
  <2>1. \A i \in 1..Len(keys) :
          /\ keys[i] \in Range(keys)
          /\ TaskOf(keys[i]) \in TaskId
    BY <1>2, <1>3 DEF Range, TaskOf, TaskId
  <2> QED  BY <1>2, <2>1 DEF Dequeued, TaskOf
<1>6. \A t \in Range(Dequeued) :
        t[2] \in 1..MaxTasks /\ t[2] = created[t[1]] /\ tasks'[t[1]] = 0
  <2>1. DOMAIN Dequeued = 1..Len(keys)
    BY <1>5
  <2> QED  BY <1>2, <1>3, <1>4, <1>5, <2>1 DEF Range
<1>7. TypeOK'
  <2>1. /\ pc' \in [Client -> Places]
        /\ call' \in [Client -> Methods]
        /\ calls' \in Nat
    BY <1>1 DEF TypeOK, Places, Methods, AfterDequeue
  <2>2. taskList' \in [Client -> Seq(TaskId)]
    BY <1>1, <1>5 DEF TypeOK
  <2>3. tasks' \in [Key -> 0..MaxTasks]
    BY <1>1, <1>4, MapAssumption DEF TypeOK, Remaining
  <2>4. keys' \in Seq(Key)
    BY <1>1
  <2> QED  BY <1>1, <2>1, <2>2, <2>3, <2>4 DEF TypeOK
<1>8. Accounting'
  BY <1>1, AccountingKept
<1>9. Reserves'
  BY <1>1 DEF Reserves, WorkConserving, EmptiedArmed
<1>10. EveryTaskReachable'
  <2>1. ASSUME NEW k \in Key
        PROVE  /\ Incomplete(k)' <=> Incomplete(k) /\ ~Queued(k)
               /\ ~Queued(k)'
               /\ InFlight(k)' <=> InFlight(k)
               /\ HeldBy(k)' = HeldBy(k)
    <3>1. Incomplete(k)' <=> Incomplete(k) /\ ~Queued(k)
      BY <1>1, <1>4 DEF Incomplete, Known, TaskOf, Queued
    <3>2. ~Queued(k)'
      BY <1>1 DEF Queued, Range
    <3> QED  BY <1>1, <3>1, <3>2 DEF InFlight, HeldBy
  <2>2. \A k \in Key : Queued(k) => HeldBy(k) = {} /\ ~InFlight(k)
    BY <1>3 DEF Queued
  <2>3. /\ IsInjective(keys')
        /\ \A d \in Client : IsInjective(newKeys'[d])
    BY <1>1 DEF Tasks, EveryTaskReachable, IsInjective
  <2>4. UNCHANGED handler
    BY <1>1
  <2> QED  BY <2>1, <2>2, <2>3, <2>4 DEF Tasks, EveryTaskReachable
<1>11. TasksNumbered'
  <2>1. \A k \in Key : tasks'[k] \in {0, created'[k]}
    BY <1>1, <1>4 DEF Tasks, TasksNumbered
  <2>2. \A k \in Key : handler'[k] # "none" => tasks'[k] # 0
    BY <1>1, <1>3, <1>4 DEF Tasks, TasksNumbered
  <2>3. ASSUME NEW d \in Client, pc'[d] = "eject", NEW t \in Range(taskList'[d])
        PROVE  t[2] <= created'[t[1]] /\ t[2] # tasks'[t[1]]
    <3>1. CASE d = c
      <4>1. t \in Range(Dequeued)
        BY <1>1, <2>3, <3>1 DEF TypeOK
      <4>2. t[2] \in Nat /\ t[2] # 0 /\ created'[t[1]] = t[2]
        BY <1>1, <1>6, <4>1
      <4> QED  BY <1>6, <4>1, <4>2
    <3>2. CASE d # c
      <4>1. pc[d] = "eject" /\ t \in Range(taskList[d])
        BY <1>1, <2>3, <3>2 DEF TypeOK
      <4>2. t \in TaskId
        BY <4>1, RangeOfSeq DEF TypeOK
      <4>3. t[1] \in Key /\ t[2] \in 1..MaxTasks
        BY <4>2 DEF TaskId
      <4> QED  BY <1>1, <1>4, <4>1, <4>3 DEF Tasks, TasksNumbered
    <3> QED  BY <3>1, <3>2
  <2> QED  BY <1>1, <2>1, <2>2, <2>3 DEF Tasks, TasksNumbered
<1>12. PlacesMatch'
  <2>1. keys # <<>> => Dequeued # <<>>
    BY <1>2, <1>5
  <2>2. /\ pc'[c] \notin {"send", "await"}
        /\ pc'[c] = "eject" => keys # <<>>
    BY <1>1 DEF TypeOK, AfterDequeue
  <2> QED  BY <1>1, <2>1, <2>2 DEF PlacesMatch, TypeOK
<1> QED  BY <1>7, <1>8, <1>9, <1>10, <1>11, <1>12 DEF Tasks

LEMMA EjectTaskStep ==
  ASSUME IInv, NEW c \in Client, EjectTask(c)
  PROVE  IInv'
<1> USE DEF IInv
<1> DEFINE task == Head(taskList[c])
           rest == Tail(taskList[c])
<1>1. /\ pc[c] = "eject"
      /\ result' = [result EXCEPT ![task] = "ejected"]
      /\ gate' = [gate EXCEPT ![task] = "open"]
      /\ taskList' = [taskList EXCEPT ![c] = rest]
      /\ pc' = [pc EXCEPT ![c] = AfterDequeue(call[c], rest)]
      /\ UNCHANGED <<tasks, created, tasksHandled, workVars, handler, call,
                     newKeys, transfers, snapshot, calls>>
  BY DEF EjectTask, Goto
<1>2. taskList[c] \in Seq(TaskId) /\ taskList[c] # <<>>
  BY <1>1 DEF TypeOK, PlacesMatch
<1>3. /\ rest \in Seq(TaskId)
      /\ task \in Range(taskList[c])
      /\ Range(rest) \subseteq Range(taskList[c])
  <2>1. /\ DOMAIN taskList[c] = 1..Len(taskList[c])
        /\ Len(taskList[c]) \in Nat \ {0}
        /\ task = taskList[c][1]
        /\ rest \in Seq(TaskId)
        /\ DOMAIN rest = 1..(Len(taskList[c]) - 1)
        /\ \A i \in DOMAIN rest : rest[i] = taskList[c][i + 1]
    BY <1>2
  <2>2. \A i \in DOMAIN rest : i + 1 \in DOMAIN taskList[c]
    BY <2>1
  <2> HIDE DEF task, rest
  <2> QED  BY <2>1, <2>2 DEF Range
<1> HIDE DEF task, rest
<1>4. /\ task \in TaskId
      /\ task[2] <= created[task[1]] /\ task[2] # tasks[task[1]]
  <2>1. Range(taskList[c]) \subseteq TaskId
    BY <1>2, RangeOfSeq
  <2> QED  BY <1>1, <1>3, <2>1 DEF Tasks, TasksNumbered
<1>5. TypeOK'
  <2>1. /\ result' \in [TaskId -> Results]
        /\ gate' \in [TaskId -> {"shut", "open"}]
    BY <1>1 DEF TypeOK, Results
  <2>2. /\ pc' \in [Client -> Places]
        /\ taskList' \in [Client -> Seq(TaskId)]
    BY <1>1, <1>3 DEF TypeOK, Places, AfterDequeue
  <2> QED  BY <1>1, <2>1, <2>2 DEF TypeOK, workVars
<1>6. Accounting'
  BY <1>1, AccountingKept DEF workVars
<1>7. Reserves'
  BY <1>1 DEF workVars, Reserves, WorkConserving, EmptiedArmed
<1>8. EveryTaskReachable'
  <2>1. ASSUME NEW k \in Key
        PROVE  /\ Incomplete(k)' <=> Incomplete(k)
               /\ Queued(k)' <=> Queued(k)
               /\ InFlight(k)' <=> InFlight(k)
               /\ HeldBy(k)' = HeldBy(k)
    <3>1. TaskOf(k) # task
      BY <1>4 DEF TaskOf
    <3>2. k \in Known => TaskOf(k) \in TaskId
      BY MapAssumption DEF Known, TaskOf, TaskId, TypeOK
    <3>3. Incomplete(k)' <=> Incomplete(k)
      BY <1>1, <3>1, <3>2 DEF Incomplete, Known, TaskOf, TypeOK
    <3> QED  BY <1>1, <3>3 DEF workVars, Queued, InFlight, HeldBy
  <2>2. UNCHANGED <<keys, newKeys, handler>>
    BY <1>1 DEF workVars
  <2> QED  BY <2>1, <2>2 DEF Tasks, EveryTaskReachable
<1>9. TasksNumbered'
  <2>1. \A d \in Client : pc'[d] = "eject" =>
          pc[d] = "eject" /\ Range(taskList'[d]) \subseteq Range(taskList[d])
    BY <1>1, <1>3 DEF TypeOK
  <2>2. \A t \in TaskId : t[2] > created[t[1]] => t # task
    <3>1. \A t \in TaskId : t[1] \in Key /\ t[2] \in Nat
      BY DEF TaskId
    <3>2. \A k \in Key : created[k] \in Nat
      BY DEF TypeOK
    <3> QED  BY <1>4, <3>1, <3>2
  <2>3. \A t \in TaskId : t[2] > created'[t[1]] => gate'[t] = "shut"
    BY <1>1, <2>2 DEF Tasks, TasksNumbered, TypeOK
  <2> QED  BY <1>1, <2>1, <2>3 DEF Tasks, TasksNumbered
<1>10. PlacesMatch'
  <2>1. /\ pc'[c] \notin {"send", "await"}
        /\ pc'[c] = "eject" => rest # <<>>
    BY <1>1 DEF TypeOK, AfterDequeue
  <2> QED  BY <1>1, <2>1 DEF PlacesMatch, TypeOK
<1> QED  BY <1>5, <1>6, <1>7, <1>8, <1>9, <1>10 DEF Tasks

-----------------------------------------------------------------------------
(***************************************************************************)
(* The steps of the goroutines of the map.                                 *)
(***************************************************************************)
LEMMA StartHandlerStep ==
  ASSUME IInv, NEW k \in Key, StartHandler(k)
  PROVE  IInv'
<1> USE DEF IInv
<1>1. /\ handler[k] = "spawned"
      /\ handler' = [handler EXCEPT ![k] = "attached"]
      /\ result' = [result EXCEPT ![TaskOf(k)] = "goexit"]
      /\ UNCHANGED <<tasks, created, gate, tasksHandled, workVars, callVars>>
  BY DEF StartHandler, SetPhase
<1>2. TypeOK'
  BY <1>1 DEF TypeOK, Results, Phases, workVars, callVars
<1>3. \A j \in Key : handler'[j] = IF j = k THEN "attached" ELSE handler[j]
  BY <1>1 DEF TypeOK
<1>4. Accounting'
  BY <1>1, <1>3, AccountingKept DEF workVars, callVars, Holding
<1>5. Reserves'
  BY <1>1 DEF workVars, Reserves, WorkConserving, EmptiedArmed
<1>6. Tasks'
  <2>1. \A j \in Key : InFlight(j)' <=> InFlight(j)
    BY <1>1, <1>3 DEF InFlight, Running
  <2> QED  BY <1>1, <1>3, <2>1, TasksKept DEF workVars, callVars
<1>7. PlacesMatch'
  BY <1>1 DEF callVars, PlacesMatch
<1> QED  BY <1>2, <1>4, <1>5, <1>6, <1>7

\* A goroutine of the map that holds a work grant retires it, or passes it on.
LEMMA TryGetQueuedKeyStep ==
  ASSUME IInv, NEW k \in Key, NEW without, NEW sending,
         \/ /\ handler[k] = "looking"
            /\ without = "none" /\ sending = "sending"
         \/ /\ handler[k] = "attached"
            /\ without = "detached" /\ sending = "detaching",
         TryGetQueuedKey(k, without, sending),
         UNCHANGED <<taskVars, grantLimit, callVars>>
  PROVE  IInv'
<1> USE DEF IInv
<1>1. /\ handler[k] \in Holding \ {"sending", "detaching"}
      /\ without \in Phases \ (Holding \cup {"reattaching"})
      /\ sending \in {"sending", "detaching"}
      /\ handler[k] # "none" /\ handler[k] # "reattaching"
  BY DEF Holding, Phases
<1>2. /\ Cardinality(Holders) \in Nat /\ Cardinality(InTransit) \in Nat
      /\ Cardinality(Senders) \in Nat
      /\ IsFiniteSet(Holders) /\ IsFiniteSet(Senders)
  BY FiniteParts, FS_CardinalityType DEF Accounting
<1>3. k \in Holders /\ k \notin Senders /\ k \notin Blocked
  BY <1>1 DEF Holders, Senders, Blocked
<1>4. InTransit' = InTransit
  BY DEF callVars, InTransit
<1>5. grants >= 1
  <2>1. Cardinality(Holders) # 0
    BY <1>2, <1>3, FS_EmptySet
  <2> QED  BY <1>2, <2>1 DEF Accounting, GrantAccounting
<1>6. PlacesMatch'
  BY DEF callVars, PlacesMatch
<1>7. ASSUME \A j \in Key : handler'[j] =
               IF j = k THEN without ELSE handler[j],
             UNCHANGED keys
      PROVE  Tasks'
  <2>1. \A j \in Key : /\ InFlight(j)' <=> InFlight(j)
                       /\ handler[j] = "none" => handler'[j] = "none"
    BY <1>1, <1>7 DEF InFlight, Running
  <2> QED  BY <1>7, <2>1, TasksKept DEF taskVars, callVars
<1>8. ASSUME grants' = grants - 1, UNCHANGED <<reattachers, keys>>,
             SetPhase(k, without),
             emptied' \subseteq emptied,
             grants' = 0 => emptied' = {},
             WorkConserving'
      PROVE  IInv'
  <2>1. \A j \in Key : handler'[j] = IF j = k THEN without ELSE handler[j]
    BY <1>8 DEF SetPhase, TypeOK
  <2>2. Holders' = Holders \ {k} /\ Blocked' = Blocked /\ Senders' = Senders
    BY <1>1, <2>1 DEF Holders, Blocked, Senders
  <2>3. Cardinality(Holders') = Cardinality(Holders) - 1
    BY <1>2, <1>3, <2>2, FS_RemoveElement
  <2>4. Accounting'
    BY <1>2, <1>4, <1>8, <2>2, <2>3
       DEF Accounting, GrantAccounting, NoLostReattacher
  <2>5. TypeOK'
    <3>1. grants' \in Nat
      BY <1>5, <1>8 DEF TypeOK
    <3>2. handler' \in [Key -> Phases]
      BY <1>1, <1>8 DEF SetPhase, TypeOK
    <3> QED  BY <1>8, <3>1, <3>2 DEF TypeOK, taskVars, callVars
  <2>6. Reserves'
    BY <1>8, <2>5 DEF Reserves, EmptiedArmed, TypeOK
  <2> QED  BY <1>6, <1>7, <1>8, <2>1, <2>4, <2>5, <2>6
<1>9. CASE /\ grants > grantLimit
           /\ grants' = grants - 1
           /\ SetPhase(k, without)
           /\ UNCHANGED <<reattachers, keys, emptied>>
  <2>1. grants' >= grantLimit' /\ grants' # 0
    BY <1>9 DEF TypeOK
  <2>2. WorkConserving'
    BY <2>1 DEF WorkConserving
  <2> QED  BY <1>8, <1>9, <2>1, <2>2
<1>10. CASE /\ grants <= grantLimit
            /\ reattachers = 0
            /\ keys = <<>>
            /\ grants' = grants - 1
            /\ emptied' = EmptiedByRetiring
            /\ SetPhase(k, without)
            /\ UNCHANGED <<reattachers, keys>>
  <2>1. WorkConserving'
    BY <1>10 DEF WorkConserving
  <2>2. emptied' \subseteq emptied /\ (grants' = 0 => emptied' = {})
    BY <1>10 DEF EmptiedByRetiring, TypeOK
  <2> QED  BY <1>8, <1>10, <2>1, <2>2
<1>11. CASE /\ grants <= grantLimit
            /\ reattachers > 0
            /\ reattachers' = reattachers - 1
            /\ SetPhase(k, sending)
            /\ UNCHANGED <<grants, keys, emptied>>
  <2>1. \A j \in Key : handler'[j] = IF j = k THEN sending ELSE handler[j]
    BY <1>11 DEF SetPhase, TypeOK
  <2>2. Holders' = Holders /\ Blocked' = Blocked /\ Senders' = Senders \cup {k}
    BY <1>1, <2>1 DEF Holders, Blocked, Senders, Holding
  <2>3. Cardinality(Senders') = Cardinality(Senders) + 1
    BY <1>2, <1>3, <2>2, FS_AddElement
  <2>4. Accounting'
    BY <1>2, <1>4, <1>11, <2>2, <2>3
       DEF Accounting, GrantAccounting, NoLostReattacher, TypeOK
  <2>5. TypeOK'
    <3>1. reattachers' \in Nat
      BY <1>11 DEF TypeOK
    <3>2. handler' \in [Key -> Phases]
      BY <1>1, <1>11 DEF SetPhase, TypeOK, Phases
    <3> QED  BY <1>11, <3>1, <3>2 DEF TypeOK, taskVars, callVars
  <2>6. Reserves'
    BY <1>11 DEF Reserves, WorkConserving, EmptiedArmed, TypeOK
  <2>7. \A j \in Key : /\ InFlight(j)' <=> InFlight(j)
                       /\ handler[j] = "none" => handler'[j] = "none"
    BY <2>1 DEF InFlight, Running
  <2>8. Tasks'
    BY <1>11, <2>7, TasksKept DEF taskVars, callVars
  <2> QED  BY <1>6, <2>4, <2>5, <2>6, <2>8
<1>12. CASE /\ grants <= grantLimit
            /\ reattachers = 0
            /\ keys # <<>>
            /\ keys' = Left(1)
            /\ handler' = [handler EXCEPT ![k] = without,
                                          ![Head(keys)] = "spawned"]
            /\ UNCHANGED <<grants, reattachers, emptied>>
  <2> DEFINE h == Head(keys)
  <2>1. /\ keys \in Seq(Key) /\ IsInjective(keys)
        /\ Len(keys) \in Nat /\ 1 \in 0..Len(keys)
    BY <1>12 DEF TypeOK, Tasks, EveryTaskReachable
  <2>2. /\ h \in Range(keys)
        /\ Tail(keys) \in Seq(Key)
        /\ IsInjective(Tail(keys))
        /\ Range(Tail(keys)) = Range(keys) \ {h}
    BY <1>12, <2>1, TailOfQueue
  <2>3. keys' = Tail(keys)
    BY <1>12, <2>1, TailIsSubSeq DEF Left
  <2>4. Range(keys) \subseteq Key
    BY <2>1, RangeOfSeq
  <2>5. /\ h \in Key /\ Queued(h) /\ handler[h] = "none" /\ h # k
        /\ Incomplete(h) /\ HeldBy(h) = {} /\ tasks[h] # 0
    BY <1>1, <2>2, <2>4 DEF Queued, Tasks, EveryTaskReachable, Incomplete, Known
  <2> HIDE DEF h
  <2>6. \A j \in Key : handler'[j] = CASE j = h -> "spawned"
                                       [] j = k -> without
                                       [] OTHER -> handler[j]
    BY <1>12, <2>5 DEF TypeOK, h
  <2>7. /\ Holders' = (Holders \ {k}) \cup {h}
        /\ Blocked' = Blocked
        /\ Senders' = Senders
    BY <1>1, <2>5, <2>6 DEF Holders, Blocked, Senders, Holding
  <2>8. Cardinality(Holders') = Cardinality(Holders)
    <3>1. /\ IsFiniteSet(Holders \ {k})
          /\ Cardinality(Holders \ {k}) = Cardinality(Holders) - 1
      BY <1>2, <1>3, FS_RemoveElement
    <3>2. h \notin Holders \ {k}
      BY <2>5 DEF Holders, Holding
    <3>3. Cardinality((Holders \ {k}) \cup {h}) = Cardinality(Holders \ {k}) + 1
      BY <3>1, <3>2, FS_AddElement
    <3> QED  BY <1>2, <2>7, <3>1, <3>3
  <2>9. Accounting'
    BY <1>4, <1>12, <2>7, <2>8 DEF Accounting, GrantAccounting, NoLostReattacher
  <2>10. TypeOK'
    <3>1. handler' \in [Key -> Phases]
      BY <1>1, <1>12 DEF TypeOK, Phases
    <3> QED  BY <1>12, <2>2, <2>3, <3>1 DEF TypeOK, taskVars, callVars
  <2>11. Reserves'
    BY <1>12 DEF Reserves, WorkConserving, EmptiedArmed
  <2>12. ASSUME NEW j \in Key
         PROVE  /\ Incomplete(j)' <=> Incomplete(j)
                /\ Queued(j)' <=> Queued(j) /\ j # h
                /\ InFlight(j)' <=> InFlight(j) \/ j = h
                /\ HeldBy(j)' = HeldBy(j)
                /\ handler[j] = "none" /\ j # h => handler'[j] = "none"
    <3>1. Queued(j)' <=> Queued(j) /\ j # h
      BY <2>2, <2>3 DEF Queued
    <3>2. InFlight(j)' <=> InFlight(j) \/ j = h
      BY <1>1, <2>5, <2>6 DEF InFlight, Running
    <3>3. handler[j] = "none" /\ j # h => handler'[j] = "none"
      BY <1>1, <2>6
    <3> QED
      BY <3>1, <3>2, <3>3
         DEF taskVars, callVars, Incomplete, Known, TaskOf, HeldBy
  <2>13. EveryTaskReachable'
    <3>1. /\ IsInjective(keys')
          /\ \A c \in Client : IsInjective(newKeys'[c])
      BY <2>2, <2>3 DEF callVars, Tasks, EveryTaskReachable
    <3> QED  BY <2>5, <2>12, <3>1 DEF Tasks, EveryTaskReachable
  <2>14. TasksNumbered'
    BY <1>1, <2>5, <2>6 DEF taskVars, callVars, Tasks, TasksNumbered
  <2> QED  BY <1>6, <2>9, <2>10, <2>11, <2>13, <2>14 DEF Tasks
<1> QED  BY <1>9, <1>10, <1>11, <1>12 DEF TryGetQueuedKey

LEMMA NextKeyStep ==
  ASSUME IInv, NEW k \in Key, NextKey(k)
  PROVE  IInv'
BY TryGetQueuedKeyStep DEF NextKey

LEMMA DetachStep ==
  ASSUME IInv, NEW k \in Key, Detach(k)
  PROVE  IInv'
BY TryGetQueuedKeyStep DEF Detach

LEMMA ReattachStep ==
  ASSUME IInv, NEW k \in Key, Reattach(k)
  PROVE  IInv'
<1> USE DEF IInv
<1>1. /\ handler[k] = "detached"
      /\ UNCHANGED <<taskVars, grantLimit, keys, emptied, callVars>>
  BY DEF Reattach
<1>2. /\ Cardinality(Holders) \in Nat /\ Cardinality(InTransit) \in Nat
      /\ Cardinality(Senders) \in Nat /\ Cardinality(Blocked) \in Nat
      /\ IsFiniteSet(Holders) /\ IsFiniteSet(Blocked)
  BY FiniteParts, FS_CardinalityType DEF Accounting
<1>3. InTransit' = InTransit
  BY <1>1 DEF callVars, InTransit
<1>4. PlacesMatch'
  BY <1>1 DEF callVars, PlacesMatch
<1>5. k \notin Holders /\ k \notin Blocked
  BY <1>1 DEF Holders, Blocked, Holding
<1>6. ASSUME SetPhase(k, "attached") \/ SetPhase(k, "reattaching")
      PROVE  Tasks' /\ handler' \in [Key -> Phases]
  <2>1. \A j \in Key : /\ InFlight(j)' <=> InFlight(j)
                       /\ handler[j] = "none" => handler'[j] = "none"
    BY <1>1, <1>6 DEF SetPhase, InFlight, Running, TypeOK
  <2>2. handler' \in [Key -> Phases]
    BY <1>6 DEF SetPhase, TypeOK, Phases
  <2> QED  BY <1>1, <2>1, <2>2, TasksKept DEF taskVars, callVars
<1>7. CASE grants < grantLimit
  <2>1. /\ grants' = grants + 1
        /\ SetPhase(k, "attached")
        /\ UNCHANGED reattachers
    BY <1>7 DEF Reattach
  <2>2. /\ Holders' = Holders \cup {k}
        /\ Blocked' = Blocked
        /\ Senders' = Senders
    BY <1>1, <2>1 DEF SetPhase, Holders, Blocked, Senders, Holding, TypeOK
  <2>3. Cardinality(Holders') = Cardinality(Holders) + 1
    BY <1>2, <1>5, <2>2, FS_AddElement
  <2>4. Accounting'
    BY <1>2, <1>3, <2>1, <2>2, <2>3
       DEF Accounting, GrantAccounting, NoLostReattacher
  <2>5. TypeOK'
    BY <1>1, <1>6, <2>1 DEF TypeOK, taskVars, callVars
  <2>6. Reserves'
    BY <1>1, <1>7, <2>1 DEF Reserves, WorkConserving, EmptiedArmed, TypeOK
  <2> QED  BY <1>4, <1>6, <2>1, <2>4, <2>5, <2>6
<1>8. CASE ~(grants < grantLimit)
  <2>1. /\ reattachers' = reattachers + 1
        /\ SetPhase(k, "reattaching")
        /\ UNCHANGED grants
    BY <1>8 DEF Reattach
  <2>2. /\ Holders' = Holders
        /\ Blocked' = Blocked \cup {k}
        /\ Senders' = Senders
    BY <1>1, <2>1 DEF SetPhase, Holders, Blocked, Senders, Holding, TypeOK
  <2>3. Cardinality(Blocked') = Cardinality(Blocked) + 1
    BY <1>2, <1>5, <2>2, FS_AddElement
  <2>4. Accounting'
    BY <1>2, <1>3, <2>1, <2>2, <2>3
       DEF Accounting, GrantAccounting, NoLostReattacher, TypeOK
  <2>5. TypeOK'
    BY <1>1, <1>6, <2>1 DEF TypeOK, taskVars, callVars
  <2>6. Reserves'
    BY <1>1, <1>8, <2>1 DEF Reserves, WorkConserving, EmptiedArmed, TypeOK
  <2> QED  BY <1>4, <1>6, <2>1, <2>4, <2>5, <2>6
<1> QED  BY <1>7, <1>8

LEMMA WorkerSendsGrantStep ==
  ASSUME IInv, NEW w \in Key, NEW k \in Key, WorkerSendsGrant(w, k)
  PROVE  IInv'
<1> USE DEF IInv
<1>1. /\ handler[w] \in {"sending", "detaching"}
      /\ handler[k] = "reattaching"
      /\ UNCHANGED <<taskVars, workVars, callVars>>
      /\ w # k
  BY DEF WorkerSendsGrant
<1> DEFINE after == IF handler[w] = "sending" THEN "none" ELSE "detached"
<1>2. handler' = [handler EXCEPT ![k] = "attached", ![w] = after]
  BY <1>1 DEF WorkerSendsGrant, TypeOK
<1>3. \A j \in Key : handler'[j] = CASE j = k -> "attached"
                                     [] j = w -> after
                                     [] OTHER -> handler[j]
  BY <1>1, <1>2 DEF TypeOK
<1>4. handler' \in [Key -> Phases]
  BY <1>2 DEF TypeOK, Phases
<1>5. /\ Holders' = (Holders \ {w}) \cup {k}
      /\ Blocked' = Blocked \ {k}
      /\ Senders' = Senders \ {w}
      /\ w \in Holders /\ k \notin Holders /\ k \in Blocked /\ w \in Senders
  BY <1>1, <1>3 DEF Holders, Blocked, Senders, Holding
<1>6. /\ Cardinality(Holders) \in Nat /\ Cardinality(InTransit) \in Nat
      /\ Cardinality(Senders) \in Nat /\ Cardinality(Blocked) \in Nat
      /\ IsFiniteSet(Holders) /\ IsFiniteSet(Blocked) /\ IsFiniteSet(Senders)
  BY FiniteParts, FS_CardinalityType DEF Accounting
<1>7. Cardinality(Holders') = Cardinality(Holders)
  <2>1. /\ IsFiniteSet(Holders \ {w})
        /\ Cardinality(Holders \ {w}) = Cardinality(Holders) - 1
    BY <1>5, <1>6, FS_RemoveElement
  <2>2. Cardinality((Holders \ {w}) \cup {k}) = Cardinality(Holders \ {w}) + 1
    BY <1>5, <2>1, FS_AddElement
  <2> QED  BY <1>5, <1>6, <2>1, <2>2
<1>8. /\ Cardinality(Blocked') = Cardinality(Blocked) - 1
      /\ Cardinality(Senders') = Cardinality(Senders) - 1
  BY <1>5, <1>6, FS_RemoveElement
<1>9. Accounting'
  <2>1. InTransit' = InTransit
    BY <1>1 DEF callVars, InTransit
  <2>2. UNCHANGED <<grants, reattachers>>
    BY <1>1 DEF workVars
  <2> QED
    BY <1>6, <1>7, <1>8, <2>1, <2>2
       DEF Accounting, GrantAccounting, NoLostReattacher, TypeOK
<1>10. TypeOK'
  BY <1>1, <1>4 DEF TypeOK, taskVars, workVars, callVars
<1>11. Reserves'
  BY <1>1 DEF workVars, Reserves, WorkConserving, EmptiedArmed
<1>12. Tasks'
  <2>1. \A j \in Key : /\ InFlight(j)' <=> InFlight(j)
                       /\ handler[j] = "none" => handler'[j] = "none"
    BY <1>1, <1>3 DEF InFlight, Running
  <2> QED  BY <1>1, <2>1, TasksKept DEF taskVars, workVars, callVars
<1>13. PlacesMatch'
  BY <1>1 DEF callVars, PlacesMatch
<1> QED  BY <1>9, <1>10, <1>11, <1>12, <1>13

LEMMA LimitSendsGrantStep ==
  ASSUME IInv, NEW c \in Client, NEW k \in Key, LimitSendsGrant(c, k)
  PROVE  IInv'
<1> USE DEF IInv
<1>1. /\ pc[c] = "send"
      /\ handler[k] = "reattaching"
      /\ handler' = [handler EXCEPT ![k] = "attached"]
      /\ transfers' = [transfers EXCEPT ![c] = @ - 1]
      /\ pc' = [pc EXCEPT ![c] = IF transfers[c] = 1 THEN "idle" ELSE "send"]
      /\ UNCHANGED <<taskVars, workVars, call, newKeys, taskList, snapshot,
                     calls>>
  BY DEF LimitSendsGrant, SetPhase, Goto
<1>2. transfers[c] \in Nat \ {0}
  BY <1>1 DEF TypeOK, PlacesMatch
<1>3. \A j \in Key : handler'[j] = IF j = k THEN "attached" ELSE handler[j]
  BY <1>1 DEF TypeOK
<1>4. /\ Holders' = Holders \cup {k}
      /\ Blocked' = Blocked \ {k}
      /\ Senders' = Senders
      /\ k \notin Holders /\ k \in Blocked
  BY <1>1, <1>3 DEF Holders, Blocked, Senders, Holding
<1>5. /\ Cardinality(Holders) \in Nat /\ Cardinality(InTransit) \in Nat
      /\ Cardinality(Senders) \in Nat /\ Cardinality(Blocked) \in Nat
      /\ IsFiniteSet(Holders) /\ IsFiniteSet(Blocked)
  BY FiniteParts, FS_CardinalityType DEF Accounting
<1>6. Cardinality(Holders') = Cardinality(Holders) + 1
  BY <1>4, <1>5, FS_AddElement
<1>7. Cardinality(Blocked') = Cardinality(Blocked) - 1
  BY <1>4, <1>5, FS_RemoveElement
<1>8. /\ IsFiniteSet(InTransit')
      /\ Cardinality(InTransit') = Cardinality(InTransit) - 1
  BY <1>1, <1>2, TransitShrinks DEF Accounting
<1>9. Accounting'
  <2>1. UNCHANGED <<grants, reattachers>>
    BY <1>1 DEF workVars
  <2>2. GrantAccounting'
    BY <1>5, <1>6, <1>8, <2>1 DEF Accounting, GrantAccounting
  <2>3. NoLostReattacher'
    BY <1>4, <1>5, <1>7, <1>8, <2>1 DEF Accounting, NoLostReattacher, TypeOK
  <2> QED  BY <1>8, <2>2, <2>3 DEF Accounting
<1>10. TypeOK'
  <2>1. /\ handler' \in [Key -> Phases]
        /\ pc' \in [Client -> Places]
    BY <1>1 DEF TypeOK, Phases, Places
  <2>2. transfers' \in [Client -> Nat]
    BY <1>1, <1>2 DEF TypeOK
  <2> QED  BY <1>1, <2>1, <2>2 DEF TypeOK, taskVars, workVars
<1>11. Reserves'
  BY <1>1 DEF workVars, Reserves, WorkConserving, EmptiedArmed
<1>12. Tasks'
  <2>1. \A j \in Key : /\ InFlight(j)' <=> InFlight(j)
                       /\ handler[j] = "none" => handler'[j] = "none"
    BY <1>1, <1>3 DEF InFlight, Running
  <2>2. \A d \in Client : pc'[d] = "eject" =>
          pc[d] = "eject" /\ taskList'[d] = taskList[d]
    BY <1>1 DEF TypeOK
  <2> QED  BY <1>1, <2>1, <2>2, TasksKept DEF taskVars, workVars
<1>13. PlacesMatch'
  BY <1>1, <1>2 DEF PlacesMatch, TypeOK
<1> QED  BY <1>9, <1>10, <1>11, <1>12, <1>13

LEMMA HandlerEndsStep ==
  ASSUME IInv, NEW k \in Key, NEW r \in Outcomes, HandlerEnds(k, r)
  PROVE  IInv'
<1> USE DEF IInv
<1>1. /\ handler[k] \in {"attached", "detached"}
      /\ result' = [result EXCEPT ![TaskOf(k)] = r]
      /\ tasksHandled' = tasksHandled + 1
      /\ handler' = [handler EXCEPT ![k] =
                      IF handler[k] = "attached" THEN "finished" ELSE "abandoned"]
      /\ UNCHANGED <<tasks, created, gate, workVars, callVars>>
  BY DEF HandlerEnds, SetPhase
<1>2. \A j \in Key : handler'[j] =
        CASE j = k /\ handler[k] = "attached" -> "finished"
          [] j = k /\ handler[k] # "attached" -> "abandoned"
          [] OTHER                            -> handler[j]
  BY <1>1 DEF TypeOK
<1>3. TypeOK'
  <2>1. r \in Results
    BY MapAssumption DEF Results
  <2>2. result' \in [TaskId -> Results] /\ handler' \in [Key -> Phases]
    BY <1>1, <2>1 DEF TypeOK, Phases
  <2> QED  BY <1>1, <2>2 DEF TypeOK, workVars, callVars
<1>4. Accounting'
  BY <1>1, <1>2, AccountingKept DEF workVars, callVars, Holding
<1>5. Reserves'
  BY <1>1 DEF workVars, Reserves, WorkConserving, EmptiedArmed
<1>6. Tasks'
  <2>1. \A j \in Key : /\ InFlight(j)' <=> InFlight(j)
                       /\ handler[j] = "none" => handler'[j] = "none"
    BY <1>1, <1>2 DEF InFlight, Running
  <2> QED  BY <1>1, <2>1, TasksKept DEF workVars, callVars
<1>7. PlacesMatch'
  BY <1>1 DEF callVars, PlacesMatch
<1> QED  BY <1>3, <1>4, <1>5, <1>6, <1>7

LEMMA OpenGateStep ==
  ASSUME IInv, NEW k \in Key, OpenGate(k)
  PROVE  IInv'
<1> USE DEF IInv
<1>1. /\ handler[k] \in {"finished", "abandoned"}
      /\ gate' = [gate EXCEPT ![TaskOf(k)] = "open"]
      /\ handler' = [handler EXCEPT ![k] =
                      IF handler[k] = "finished" THEN "looking" ELSE "none"]
      /\ UNCHANGED <<tasks, created, result, tasksHandled, workVars, callVars>>
  BY DEF OpenGate, SetPhase
<1>2. \A j \in Key : handler'[j] =
        CASE j = k /\ handler[k] = "finished" -> "looking"
          [] j = k /\ handler[k] # "finished" -> "none"
          [] OTHER                            -> handler[j]
  BY <1>1 DEF TypeOK
<1>3. TypeOK'
  <2>1. /\ gate' \in [TaskId -> {"shut", "open"}]
        /\ handler' \in [Key -> Phases]
    BY <1>1 DEF TypeOK, Phases
  <2> QED  BY <1>1, <2>1 DEF TypeOK, workVars, callVars
<1>4. Accounting'
  BY <1>1, <1>2, AccountingKept DEF workVars, callVars, Holding
<1>5. Reserves'
  BY <1>1 DEF workVars, Reserves, WorkConserving, EmptiedArmed
<1>6. /\ InFlight(k) /\ Incomplete(k) /\ ~Queued(k) /\ HeldBy(k) = {}
      /\ tasks[k] = created[k] /\ tasks[k] # 0
  BY <1>1 DEF InFlight, Tasks, EveryTaskReachable, TasksNumbered
<1>7. EveryTaskReachable'
  <2>1. ASSUME NEW j \in Key
        PROVE  /\ Incomplete(j)' <=> Incomplete(j) /\ j # k
               /\ Queued(j)' <=> Queued(j)
               /\ InFlight(j)' <=> InFlight(j) /\ j # k
               /\ HeldBy(j)' = HeldBy(j)
               /\ handler[j] = "none" => handler'[j] = "none"
    <3>1. InFlight(j)' <=> InFlight(j) /\ j # k
      BY <1>1, <1>2 DEF InFlight, Running
    <3>2. j \in Known => TaskOf(j) \in TaskId
      BY MapAssumption DEF Known, TaskOf, TaskId, TypeOK
    <3>3. Incomplete(j)' <=> Incomplete(j) /\ j # k
      BY <1>1, <3>2 DEF Incomplete, Known, TaskOf, TypeOK
    <3>4. handler[j] = "none" => handler'[j] = "none"
      BY <1>1, <1>2
    <3> QED
      BY <1>1, <3>1, <3>3, <3>4 DEF workVars, callVars, Queued, HeldBy
  <2>2. UNCHANGED <<keys, newKeys>>
    BY <1>1 DEF workVars, callVars
  <2> QED  BY <1>6, <2>1, <2>2 DEF Tasks, EveryTaskReachable
<1>8. TasksNumbered'
  <2>1. \A j \in Key : created[j] \in Nat
    BY DEF TypeOK
  <2>2. \A t \in TaskId : t[2] > created[t[1]] => t # TaskOf(k)
    BY <1>6, <2>1 DEF TaskOf
  <2>3. \A t \in TaskId : t[2] > created'[t[1]] => gate'[t] = "shut"
    BY <1>1, <2>2 DEF Tasks, TasksNumbered, TypeOK
  <2>4. \A j \in Key : handler'[j] # "none" => tasks'[j] # 0
    BY <1>1, <1>2 DEF Tasks, TasksNumbered
  <2> QED  BY <1>1, <2>3, <2>4 DEF callVars, Tasks, TasksNumbered
<1>9. PlacesMatch'
  BY <1>1 DEF callVars, PlacesMatch
<1> QED  BY <1>3, <1>4, <1>5, <1>7, <1>8, <1>9 DEF Tasks

-----------------------------------------------------------------------------
LEMMA NextIInv == IInv /\ [Next]_vars => IInv'
<1> SUFFICES ASSUME IInv, [Next]_vars PROVE IInv'
  OBVIOUS
<1>1. ASSUME NEW c \in Client, ClientCalls(c)  PROVE IInv'
  BY <1>1, GetOrCreateTasksStep, LimitStep, DequeueAllStep, WaitStep,
     OtherCallerStep DEF ClientCalls
<1>2. ASSUME NEW c \in Client, ClientContinues(c)  PROVE IInv'
  BY <1>2, ScheduleNewKeysStep, AwaitTaskStep, EjectTaskStep, WaitStep,
     OtherCallerStep DEF ClientContinues
<1>3. ASSUME NEW k \in Key, HandlerActs(k)  PROVE IInv'
  BY <1>3, DetachStep, ReattachStep, HandlerEndsStep DEF HandlerActs
<1>4. ASSUME NEW k \in Key, WorkerContinues(k)  PROVE IInv'
  BY <1>4, StartHandlerStep, OpenGateStep, NextKeyStep DEF WorkerContinues
<1>5. ASSUME NEW k \in Key, ReceiveGrant(k)  PROVE IInv'
  BY <1>5, WorkerSendsGrantStep, LimitSendsGrantStep DEF ReceiveGrant
<1>6. CASE UNCHANGED vars
  <2>1. UNCHANGED <<taskVars, workVars, handler, callVars>>
    BY <1>6 DEF vars
  <2>2. TypeOK' /\ PlacesMatch'
    BY <2>1 DEF taskVars, workVars, callVars, IInv, TypeOK, PlacesMatch
  <2>3. Accounting' /\ Reserves' /\ Tasks'
    BY <2>1, CallerAlone DEF taskVars, workVars, callVars
  <2> QED  BY <2>2, <2>3 DEF IInv
<1> QED
  BY <1>1, <1>2, <1>3, <1>4, <1>5, <1>6 DEF Next, Rest

LEMMA Invariance == Spec => []IInv
BY InitIInv, NextIInv, PTL DEF Spec

-----------------------------------------------------------------------------
\* The variables keep their types; in particular no count of work grants or
\* of reattachers ever becomes negative (workState, map.go:55-81).
THEOREM TypeCorrect == Spec => []TypeOK
<1>1. IInv => TypeOK
  BY DEF IInv
<1> QED  BY <1>1, Invariance, PTL

\* However many handlers detach, reattach, end or unwind, and however the
\* limit changes: each work grant counted is with one goroutine of the map or
\* on its way to a reattacher, and no work grant exists that is not counted.
THEOREM GrantsAccounted == Spec => []GrantAccounting
<1>1. IInv => GrantAccounting
  BY DEF IInv, Accounting
<1> QED  BY <1>1, Invariance, PTL

\* As many handlers are blocked in Reattach as are counted or have a sender.
THEOREM ReattachersCounted == Spec => []NoLostReattacher
<1>1. IInv => NoLostReattacher
  BY DEF IInv, Accounting
<1> QED  BY <1>1, Invariance, PTL

\* Every incomplete key is with one caller, queued once, or with one goroutine
\* (map.go:42-44).
THEOREM TasksReachable == Spec => []EveryTaskReachable
<1>1. IInv => EveryTaskReachable
  BY DEF IInv, Tasks
<1> QED  BY <1>1, Invariance, PTL

\* No work grant of the limit is unused while a key or a reattacher waits.
THEOREM GrantsUsed == Spec => []WorkConserving
<1>1. IInv => WorkConserving
  BY DEF IInv, Reserves
<1> QED  BY <1>1, Invariance, PTL

\* A blocked caller of Wait always has a holder of a work grant to wake it.
THEOREM WaitersHaveWaker == Spec => []EmptiedArmed
<1>1. IInv => EmptiedArmed
  BY DEF IInv, Reserves
<1> QED  BY <1>1, Invariance, PTL

-----------------------------------------------------------------------------
(***************************************************************************)
(* What the callers of a map rely on: tasks they wait for are finished or  *)
(* ejected, open gates have results, counts add up, and work begins within *)
(* the limit and in the order of the queue; and, with these, that each     *)
(* step of the map is one of KeyedWork or invisible to callers.            *)
(*                                                                         *)
(* Most steps move work grants and keys around and touch no task.  They    *)
(* are Quiet; the proofs about tasks then deal with the six steps that are *)
(* not.                                                                    *)
(***************************************************************************)

\* The handler is over, and its task is not yet open.
Ending == {"finished", "abandoned"}

\* A step that no caller sees in the tasks, the results or the counts.
Quiet ==
  /\ UNCHANGED taskVars
  /\ \A k \in Key : /\ handler'[k] \in Running <=> handler[k] \in Running
                    /\ handler'[k] \in Ending <=> handler[k] \in Ending
  /\ \A c \in Client :
       /\ Awaited(c)' \subseteq Awaited(c)
       /\ pc'[c] = "eject" <=> pc[c] = "eject"
       /\ pc[c] = "eject" => taskList'[c] = taskList[c]
       /\ pc'[c] = "total" =>
            \/ snapshot'[c] = tasksHandled
            \/ pc[c] = "total" /\ snapshot'[c] = snapshot[c]

\* A task has the result of its handler by the time its gate opens, and none
\* before it exists.
ResultsKept ==
  /\ \A k \in Key : handler[k] \in Running =>
       result[TaskOf(k)] \notin {"zero", "ejected"}
  /\ \A k \in Key : handler[k] \in Ending => result[TaskOf(k)] \in Outcomes
  /\ \A t \in TaskId : t[2] > created[t[1]] => result[t] = "zero"

\* The keys whose handlers are over.
HandledKeys ==
  {k \in Known : gate[TaskOf(k)] = "open" \/ handler[k] \in Ending}

\* tasksHandled counts them, and they never leave the map.
HandledCounted ==
  /\ tasksHandled = Cardinality(HandledKeys)
  /\ \A c \in Client : pc[c] = "total" => snapshot[c] <= tasksHandled

Settlement == ResultsSettled /\ ResultsKept

-----------------------------------------------------------------------------
(***************************************************************************)
(* Quiet steps.                                                            *)
(***************************************************************************)

\* Keys that a goroutine can begin with have none.
LEMMA QueueUnworked ==
  ASSUME IInv
  PROVE  /\ keys \in Seq(Key) /\ IsInjective(keys)
         /\ \A k \in Range(keys) : k \in Key /\ handler[k] = "none"
         /\ \A c \in Client :
              /\ newKeys[c] \in Seq(Key) /\ IsInjective(newKeys[c])
              /\ \A k \in Range(newKeys[c]) : k \in Key /\ handler[k] = "none"
<1>1. /\ keys \in Seq(Key) /\ IsInjective(keys)
      /\ \A c \in Client : newKeys[c] \in Seq(Key) /\ IsInjective(newKeys[c])
  BY DEF IInv, TypeOK, Tasks, EveryTaskReachable
<1>2. /\ Range(keys) \subseteq Key
      /\ \A c \in Client : Range(newKeys[c]) \subseteq Key
  BY <1>1, RangeOfSeq
<1>3. \A k \in Key : Queued(k) \/ HeldBy(k) # {} => handler[k] = "none"
  BY DEF IInv, Tasks, EveryTaskReachable
<1> QED  BY <1>1, <1>2, <1>3 DEF Queued, HeldBy

\* Spawning goroutines for keys that have none.
LEMMA QuietSpawn ==
  ASSUME NEW Q \in SUBSET Key, \A k \in Q : handler[k] = "none",
         handler' = Spawn(Q)
  PROVE  \A k \in Key : /\ handler'[k] \in Running <=> handler[k] \in Running
                        /\ handler'[k] \in Ending <=> handler[k] \in Ending
BY DEF Spawn, Running, Ending

LEMMA ScheduleQuiet ==
  ASSUME IInv, NEW c \in Client, ScheduleNewKeys(c)
  PROVE  Quiet
<1> DEFINE new   == newKeys[c]
           n     == Smaller(Issuable(grantLimit), Len(new))
           front == SubSeq(new, 1, n)
<1>1. /\ pc[c] = "schedule"
      /\ handler' = Spawn(Range(front))
      /\ pc' = [pc EXCEPT ![c] = IF taskList[c] = <<>> THEN "idle" ELSE "await"]
      /\ UNCHANGED <<taskVars, taskList, snapshot>>
  BY DEF ScheduleNewKeys, Goto
<1>2. /\ new \in Seq(Key) /\ IsInjective(new)
      /\ \A k \in Range(new) : k \in Key /\ handler[k] = "none"
  BY QueueUnworked
<1>3. n \in 0..Len(new)
  BY <1>2 DEF IInv, TypeOK, Smaller, Larger, Issuable
<1> HIDE DEF n
<1>4. Range(front) \subseteq Range(new)
  BY <1>2, <1>3, SplitQueue
<1> HIDE DEF front, new
<1>5. \A k \in Key : /\ handler'[k] \in Running <=> handler[k] \in Running
                     /\ handler'[k] \in Ending <=> handler[k] \in Ending
  BY <1>1, <1>2, <1>4, QuietSpawn
<1>6. \A d \in Client : pc'[d] = pc[d] \/ (d = c /\ pc'[d] \in {"idle", "await"})
  BY <1>1 DEF IInv, TypeOK
<1> QED  BY <1>1, <1>5, <1>6 DEF Quiet, Awaited

LEMMA LimitQuiet ==
  ASSUME IInv, NEW c \in Client, NEW l \in Limits, Limit(c, l)
  PROVE  Quiet
<1> DEFINE n == ToKeys(Larger(1, l))
<1>1. /\ pc[c] = "idle"
      /\ handler' = Spawn(Range(Popped(n)))
      /\ pc' = [pc EXCEPT ![c] =
                  IF ToReattachers(Larger(1, l)) = 0 THEN "idle" ELSE "send"]
      /\ UNCHANGED <<taskVars, taskList, snapshot>>
  BY DEF Limit, Start, Goto
<1>2. /\ keys \in Seq(Key) /\ IsInjective(keys)
      /\ \A k \in Range(keys) : k \in Key /\ handler[k] = "none"
  BY QueueUnworked
<1>3. n \in 0..Len(keys)
  <2>1. l \in Int /\ grants \in Nat /\ reattachers \in Nat /\ Len(keys) \in Nat
    BY <1>2, MapAssumption DEF IInv, TypeOK
  <2> QED
    BY <2>1 DEF ToKeys, ToReattachers, Smaller, Larger, Issuable
<1> HIDE DEF n
<1>4. Range(Popped(n)) \subseteq Range(keys)
  BY <1>2, <1>3, SplitQueue DEF Popped
<1>5. \A k \in Key : /\ handler'[k] \in Running <=> handler[k] \in Running
                     /\ handler'[k] \in Ending <=> handler[k] \in Ending
  BY <1>1, <1>2, <1>4, QuietSpawn
<1>6. \A d \in Client : pc'[d] = pc[d] \/ (d = c /\ pc'[d] \in {"idle", "send"})
  BY <1>1 DEF IInv, TypeOK
<1> QED  BY <1>1, <1>5, <1>6 DEF Quiet, Awaited

LEMMA OtherCallerQuiet ==
  ASSUME IInv, NEW c \in Client,
         \/ AwaitTask(c) \/ CleanupWait(c) \/ WaitReturns(c) \/ ReadTotal(c)
         \/ Wait(c) \/ LoadHandled(c)
  PROVE  Quiet
<1>1. CASE AwaitTask(c)
  <2> DEFINE rest == IF result[Head(taskList[c])] \in {"zero", "value"}
                       THEN Tail(taskList[c]) ELSE <<>>
  <2>1. /\ pc[c] = "await"
        /\ taskList' = [taskList EXCEPT ![c] = rest]
        /\ pc' = [pc EXCEPT ![c] = IF rest = <<>> THEN "idle" ELSE "await"]
        /\ UNCHANGED <<taskVars, handler, snapshot>>
    BY <1>1 DEF AwaitTask, Goto
  <2>2. taskList[c] \in Seq(TaskId) /\ taskList[c] # <<>>
    BY <2>1 DEF IInv, TypeOK, PlacesMatch
  <2>3. Range(rest) \subseteq Range(taskList[c])
    <3>1. /\ DOMAIN taskList[c] = 1..Len(taskList[c])
          /\ Len(taskList[c]) \in Nat \ {0}
          /\ DOMAIN Tail(taskList[c]) = 1..(Len(taskList[c]) - 1)
          /\ \A i \in 1..(Len(taskList[c]) - 1) :
               Tail(taskList[c])[i] = taskList[c][i + 1]
      BY <2>2
    <3>2. \A i \in 1..(Len(taskList[c]) - 1) : i + 1 \in DOMAIN taskList[c]
      BY <3>1
    <3>3. Range(Tail(taskList[c])) \subseteq Range(taskList[c])
      BY <3>1, <3>2 DEF Range
    <3>4. Range(<<>>) = {}
      BY DEF Range
    <3> QED  BY <3>3, <3>4
  <2> HIDE DEF rest
  <2>4. \A d \in Client :
          \/ d # c /\ pc'[d] = pc[d] /\ taskList'[d] = taskList[d]
          \/ d = c /\ pc'[d] \in {"idle", "await"} /\ taskList'[d] = rest
    BY <2>1 DEF IInv, TypeOK
  <2> QED  BY <2>1, <2>3, <2>4 DEF Quiet, Awaited
<1>2. CASE CleanupWait(c) \/ Wait(c)
  <2>1. /\ pc[c] \in {"idle", "wait"}
        /\ pc' = [pc EXCEPT ![c] = AfterWait]
        /\ UNCHANGED <<taskVars, handler, taskList, snapshot>>
    BY <1>2 DEF CleanupWait, Wait, EnterWait, Start, Goto
  <2>2. \A d \in Client :
          pc'[d] = pc[d] \/ (d = c /\ pc'[d] \in {"idle", "blocked"})
    BY <2>1 DEF IInv, TypeOK, AfterWait
  <2> QED  BY <2>1, <2>2 DEF Quiet, Awaited
<1>3. CASE WaitReturns(c) \/ ReadTotal(c)
  <2>1. /\ pc[c] \in {"blocked", "total"}
        /\ pc' = [pc EXCEPT ![c] = "idle"]
        /\ UNCHANGED <<taskVars, handler, taskList>>
        /\ \A d \in Client \ {c} : snapshot'[d] = snapshot[d]
    BY <1>3 DEF WaitReturns, ReadTotal, Goto, IInv, TypeOK
  <2>2. \A d \in Client : IF d = c THEN pc'[d] = "idle" ELSE pc'[d] = pc[d]
    BY <2>1 DEF IInv, TypeOK
  <2> QED  BY <2>1, <2>2 DEF Quiet, Awaited
<1>4. CASE LoadHandled(c)
  <2>1. /\ pc[c] = "idle"
        /\ pc' = [pc EXCEPT ![c] = "total"]
        /\ snapshot' = [snapshot EXCEPT ![c] = tasksHandled]
        /\ UNCHANGED <<taskVars, handler, taskList>>
    BY <1>4 DEF LoadHandled, Start, Goto
  <2>2. \A d \in Client :
          IF d = c THEN pc'[d] = "total" /\ snapshot'[d] = tasksHandled
                   ELSE pc'[d] = pc[d] /\ snapshot'[d] = snapshot[d]
    BY <2>1 DEF IInv, TypeOK
  <2> QED  BY <2>1, <2>2 DEF Quiet, Awaited
<1> QED  BY <1>1, <1>2, <1>3, <1>4

LEMMA WorkerQuiet ==
  ASSUME IInv, NEW k \in Key,
         NextKey(k) \/ Detach(k) \/ Reattach(k) \/ ReceiveGrant(k)
  PROVE  Quiet
<1> USE DEF Running, Ending
<1>1. CASE NextKey(k) \/ Detach(k)
  <2>1. /\ UNCHANGED <<taskVars, callVars>>
        /\ \/ handler[k] = "looking" /\ TryGetQueuedKey(k, "none", "sending")
           \/ handler[k] = "attached" /\ TryGetQueuedKey(k, "detached", "detaching")
    BY <1>1 DEF NextKey, Detach
  <2>2. keys # <<>> => Head(keys) \in Key /\ handler[Head(keys)] = "none"
    BY QueueUnworked, TailOfQueue
  <2>3. \A j \in Key : /\ handler'[j] \in Running <=> handler[j] \in Running
                       /\ handler'[j] \in Ending <=> handler[j] \in Ending
    BY <2>1, <2>2 DEF TryGetQueuedKey, SetPhase, IInv, TypeOK
  <2> QED  BY <2>1, <2>3 DEF Quiet, Awaited, callVars
<1>2. CASE Reattach(k)
  BY <1>2 DEF Reattach, SetPhase, Quiet, Awaited, callVars, IInv, TypeOK
<1>3. ASSUME NEW w \in Key, WorkerSendsGrant(w, k)  PROVE Quiet
  <2>1. \A j \in Key : /\ handler'[j] \in Running <=> handler[j] \in Running
                       /\ handler'[j] \in Ending <=> handler[j] \in Ending
    BY <1>3 DEF WorkerSendsGrant, IInv, TypeOK
  <2> QED  BY <1>3, <2>1 DEF WorkerSendsGrant, Quiet, Awaited, callVars
<1>4. ASSUME NEW c \in Client, LimitSendsGrant(c, k)  PROVE Quiet
  <2>1. \A j \in Key : /\ handler'[j] \in Running <=> handler[j] \in Running
                       /\ handler'[j] \in Ending <=> handler[j] \in Ending
    BY <1>4 DEF LimitSendsGrant, SetPhase, IInv, TypeOK
  <2>2. /\ pc[c] = "send"
        /\ \A d \in Client :
             pc'[d] = pc[d] \/ (d = c /\ pc'[d] \in {"idle", "send"})
    BY <1>4 DEF LimitSendsGrant, Goto, IInv, TypeOK
  <2> QED  BY <1>4, <2>1, <2>2 DEF LimitSendsGrant, Quiet, Awaited
<1> QED  BY <1>1, <1>2, <1>3, <1>4 DEF ReceiveGrant

\* Every step is quiet, or one of the six that touch tasks.
LEMMA StepKinds ==
  ASSUME IInv, [Next]_vars
  PROVE  \/ Quiet
         \/ \E c \in Client, ks \in Batches,
               m \in {"Inform", "InformFront", "Collect"} :
              GetOrCreateTasks(c, m, ks)
         \/ \E c \in Client, m \in {"DequeueAll", "Cleanup"} : DequeueAll(c, m)
         \/ \E c \in Client : EjectTask(c)
         \/ \E k \in Key : StartHandler(k)
         \/ \E k \in Key, r \in Outcomes : HandlerEnds(k, r)
         \/ \E k \in Key : OpenGate(k)
<1>1. CASE UNCHANGED vars
  BY <1>1 DEF vars, callVars, Quiet, Awaited
<1> QED
  BY <1>1, ScheduleQuiet, LimitQuiet, OtherCallerQuiet, WorkerQuiet
     DEF Next, ClientCalls, ClientContinues, HandlerActs, WorkerContinues, Rest

-----------------------------------------------------------------------------
(***************************************************************************)
(* What the other steps do to tasks.                                       *)
(***************************************************************************)
\* getOrCreateTasks gives the keys of N tasks that nobody has touched.
Creates(c, N) ==
  /\ \A k \in N :
       /\ tasks[k] = 0 /\ handler[k] = "none"
       /\ tasks'[k] = created[k] + 1 /\ created'[k] = created[k] + 1
       /\ <<k, created[k] + 1>> \in TaskId
       /\ gate[<<k, created[k] + 1>>] = "shut"
  /\ \A k \in Key \ N : tasks'[k] = tasks[k] /\ created'[k] = created[k]
  /\ UNCHANGED <<result, gate, tasksHandled, handler, snapshot>>
  /\ Awaited(c)' \subseteq {TaskOf(k)' : k \in Key}
  /\ \A d \in Client \ {c} : pc'[d] = pc[d] /\ taskList'[d] = taskList[d]
  /\ pc[c] = "idle" /\ pc'[c] = "schedule"

\* DequeueAll forgets the keys of N, which nobody works on; it is about to
\* eject their tasks.
Dequeues(N) ==
  /\ \A k \in N :
       /\ handler[k] = "none" /\ k \in Known /\ gate[TaskOf(k)] = "shut"
       /\ tasks'[k] = 0 /\ TaskOf(k) \in Ejecting'
  /\ \A k \in Key \ N : tasks'[k] = tasks[k]
  /\ UNCHANGED <<created, result, gate, tasksHandled, handler, snapshot>>
  /\ \A d \in Client : Awaited(d)' \subseteq Awaited(d)
  /\ Ejecting \subseteq Ejecting'
  /\ \A d \in Client : pc'[d] = "total" => pc[d] = "total"

\* The loop at the end of DequeueAll opens a task that is no key's any more.
Ejects(task) ==
  /\ task[2] <= created[task[1]]
  /\ \A k \in Key : TaskOf(k) # task
  /\ result' = [result EXCEPT ![task] = "ejected"]
  /\ gate' = [gate EXCEPT ![task] = "open"]
  /\ UNCHANGED <<tasks, created, tasksHandled, handler, snapshot>>
  /\ \A d \in Client : Awaited(d)' \subseteq Awaited(d)
  /\ Ejecting \subseteq Ejecting' \cup {task}
  /\ \A d \in Client : pc'[d] = "total" => pc[d] = "total"

LEMMA TaskFacts ==
  ASSUME IInv
  PROVE  /\ \A k \in Known : TaskOf(k) \in TaskId /\ tasks[k] = created[k]
         /\ \A k \in Key : handler[k] # "none" => k \in Known
         /\ \A k \in Key : handler[k] \in Running \cup Ending \cup {"spawned"}
              => gate[TaskOf(k)] = "shut"
         /\ \A t \in TaskId :
              /\ t = <<t[1], t[2]>> /\ t[1] \in Key
              /\ t[2] \in Nat \ {0} /\ created[t[1]] \in Nat
<1>1. \A k \in Known : TaskOf(k) \in TaskId /\ tasks[k] = created[k]
  BY MapAssumption DEF IInv, TypeOK, Tasks, TasksNumbered, Known, TaskOf, TaskId
<1>2. \A k \in Key : handler[k] # "none" => k \in Known
  BY DEF IInv, Tasks, TasksNumbered, Known
<1>3. \A k \in Key : handler[k] \in Running \cup Ending \cup {"spawned"}
         => gate[TaskOf(k)] = "shut"
  BY DEF IInv, Tasks, EveryTaskReachable, InFlight, Incomplete, Ending
<1>4. \A t \in TaskId :
         /\ t = <<t[1], t[2]>> /\ t[1] \in Key
         /\ t[2] \in Nat \ {0} /\ created[t[1]] \in Nat
  BY MapAssumption DEF TaskId, IInv, TypeOK
<1> QED  BY <1>1, <1>2, <1>3, <1>4

LEMMA CreateEffect ==
  ASSUME IInv, NEW c \in Client, NEW ks \in Batches,
         NEW m \in {"Inform", "InformFront", "Collect"},
         GetOrCreateTasks(c, m, ks)
  PROVE  \E N \in SUBSET Key : Creates(c, N)
<1>1. ks \in Seq(Key) /\ DOMAIN ks = 1..Len(ks) /\ Len(ks) \in Nat
  BY MapAssumption
<1>2. PICK new \in UNION {[1..n -> Key] : n \in 0..Len(ks)} :
        /\ IsNewKeys(new, ks)
        /\ created' = [k \in Key |->
                         created[k] + (IF k \in Range(new) THEN 1 ELSE 0)]
        /\ tasks' = [k \in Key |->
                       IF k \in Range(new) THEN created[k] + 1 ELSE tasks[k]]
  BY DEF GetOrCreateTasks
<1>3. /\ pc[c] = "idle"
      /\ pc' = [pc EXCEPT ![c] = "schedule"]
      /\ \A k \in Range(ks) : k \notin Known => created[k] < MaxTasks
      /\ UNCHANGED <<result, gate, tasksHandled, handler, snapshot>>
      /\ taskList' = [taskList EXCEPT ![c] =
                        IF m = "Collect"
                          THEN [i \in DOMAIN ks |-> <<ks[i], tasks'[ks[i]]>>]
                          ELSE <<>>]
  BY DEF GetOrCreateTasks, Start, Goto
<1> DEFINE N == Range(new)
<1>4. N = {k \in Range(ks) : k \notin Known} /\ Range(ks) \subseteq Key
  BY <1>1, <1>2, RangeOfSeq DEF IsNewKeys
<1>5. ASSUME NEW k \in N
      PROVE  /\ tasks[k] = 0 /\ handler[k] = "none"
             /\ tasks'[k] = created[k] + 1 /\ created'[k] = created[k] + 1
             /\ <<k, created[k] + 1>> \in TaskId
             /\ gate[<<k, created[k] + 1>>] = "shut"
  <2>1. k \in Key /\ k \notin Known /\ created[k] \in Nat /\ created[k] < MaxTasks
    BY <1>3, <1>4, <1>5 DEF IInv, TypeOK
  <2>2. <<k, created[k] + 1>> \in TaskId
    BY <2>1, MapAssumption DEF TaskId
  <2>3. gate[<<k, created[k] + 1>>] = "shut"
    BY <2>1, <2>2 DEF IInv, Tasks, TasksNumbered
  <2>4. tasks[k] = 0 /\ handler[k] = "none"
    BY <2>1 DEF Known, IInv, Tasks, TasksNumbered
  <2> QED  BY <1>2, <1>5, <2>1, <2>2, <2>3, <2>4
<1>6. \A k \in Key \ N : tasks'[k] = tasks[k] /\ created'[k] = created[k]
  BY <1>2 DEF IInv, TypeOK
<1>7. /\ \A d \in Client \ {c} : pc'[d] = pc[d] /\ taskList'[d] = taskList[d]
      /\ pc'[c] = "schedule"
      /\ taskList'[c] = IF m = "Collect"
                          THEN [i \in DOMAIN ks |-> <<ks[i], tasks'[ks[i]]>>]
                          ELSE <<>>
  BY <1>3 DEF IInv, TypeOK
<1>8. Range(taskList'[c]) \subseteq {<<k, tasks'[k]>> : k \in Key}
  <2>1. \A i \in DOMAIN ks : ks[i] \in Key
    BY <1>1
  <2>2. CASE m = "Collect"
    BY <1>7, <2>1, <2>2 DEF Range
  <2>3. CASE m # "Collect"
    BY <1>7, <2>3 DEF Range
  <2> QED  BY <2>2, <2>3
<1>9. Awaited(c)' \subseteq {TaskOf(k)' : k \in Key}
  BY <1>7, <1>8 DEF Awaited, TaskOf
<1>10. N \in SUBSET Key
  BY <1>4
<1> QED  BY <1>3, <1>5, <1>6, <1>7, <1>9, <1>10 DEF Creates

LEMMA DequeueEffect ==
  ASSUME IInv, NEW c \in Client, NEW m \in {"DequeueAll", "Cleanup"},
         DequeueAll(c, m)
  PROVE  \E N \in SUBSET Key : Dequeues(N)
<1> DEFINE N == Range(keys)
<1>1. /\ pc[c] = "idle"
      /\ pc' = [pc EXCEPT ![c] = AfterDequeue(m, keys)]
      /\ taskList' = [taskList EXCEPT ![c] = Dequeued]
      /\ tasks' = Remaining
      /\ UNCHANGED <<created, result, gate, tasksHandled, handler, snapshot>>
  BY DEF DequeueAll, Start, Goto
<1>2. N \in SUBSET Key /\ DOMAIN keys = 1..Len(keys) /\ Len(keys) \in Nat
  BY RangeOfSeq DEF IInv, TypeOK
<1>3. \A k \in N : handler[k] = "none" /\ k \in Known /\ gate[TaskOf(k)] = "shut"
  BY <1>2 DEF IInv, Tasks, EveryTaskReachable, Queued, Incomplete
<1>4. \A k \in Key : tasks'[k] = IF k \in N THEN 0 ELSE tasks[k]
  BY <1>1 DEF Remaining
<1>5. /\ \A d \in Client \ {c} : pc'[d] = pc[d] /\ taskList'[d] = taskList[d]
      /\ taskList'[c] = Dequeued
      /\ keys # <<>> => pc'[c] = "eject"
      /\ pc'[c] \in {"eject", "wait", "idle"}
  <2>1. pc \in [Client -> Places] /\ taskList \in [Client -> Seq(TaskId)]
    BY DEF IInv, TypeOK
  <2>2. /\ \A d \in Client \ {c} : pc'[d] = pc[d] /\ taskList'[d] = taskList[d]
        /\ taskList'[c] = Dequeued
    BY <1>1, <2>1
  <2>3. keys # <<>> => pc'[c] = "eject"
    BY <1>1, <2>1 DEF AfterDequeue
  <2>4. pc'[c] \in {"eject", "wait", "idle"}
    BY <1>1, <2>1 DEF AfterDequeue
  <2> QED  BY <2>2, <2>3, <2>4
<1>6. Range(Dequeued) = {TaskOf(k) : k \in N}
  BY DEF Range, Dequeued
<1>7. ASSUME NEW k \in N  PROVE TaskOf(k) \in Ejecting'
  <2>1. keys # <<>>
    BY <1>2, <1>7 DEF Range
  <2> QED  BY <1>5, <1>6, <2>1 DEF Ejecting
<1>8. /\ \A d \in Client : Awaited(d)' \subseteq Awaited(d)
      /\ Ejecting \subseteq Ejecting'
      /\ \A d \in Client : pc'[d] = "total" => pc[d] = "total"
  BY <1>1, <1>5 DEF Awaited, Ejecting
<1> QED  BY <1>1, <1>2, <1>3, <1>4, <1>7, <1>8 DEF Dequeues

LEMMA EjectEffect ==
  ASSUME IInv, NEW c \in Client, EjectTask(c)
  PROVE  \E task \in TaskId : Ejects(task)
<1> DEFINE task == Head(taskList[c])
           rest == Tail(taskList[c])
<1>1. /\ pc[c] = "eject"
      /\ result' = [result EXCEPT ![task] = "ejected"]
      /\ gate' = [gate EXCEPT ![task] = "open"]
      /\ taskList' = [taskList EXCEPT ![c] = rest]
      /\ pc' = [pc EXCEPT ![c] = AfterDequeue(call[c], rest)]
      /\ UNCHANGED <<tasks, created, tasksHandled, handler, snapshot>>
  BY DEF EjectTask, Goto
<1>2. taskList[c] \in Seq(TaskId) /\ taskList[c] # <<>>
  BY <1>1 DEF IInv, TypeOK, PlacesMatch
<1>3. /\ DOMAIN taskList[c] = 1..Len(taskList[c])
      /\ Len(taskList[c]) \in Nat \ {0}
      /\ task = taskList[c][1]
      /\ rest \in Seq(TaskId)
      /\ DOMAIN rest = 1..(Len(taskList[c]) - 1)
      /\ \A i \in DOMAIN rest : rest[i] = taskList[c][i + 1]
  BY <1>2
<1> HIDE DEF task, rest
<1>4. Range(taskList[c]) \subseteq Range(rest) \cup {task}
  <2> SUFFICES ASSUME NEW i \in DOMAIN taskList[c]
               PROVE  taskList[c][i] \in Range(rest) \cup {task}
    BY DEF Range
  <2>1. CASE i = 1
    BY <1>3, <2>1
  <2>2. CASE i # 1
    <3>1. i - 1 \in DOMAIN rest /\ (i - 1) + 1 = i
      BY <1>3, <2>2
    <3>2. rest[i - 1] = taskList[c][i]
      BY <1>3, <3>1
    <3> QED  BY <3>1, <3>2 DEF Range
  <2> QED  BY <2>1, <2>2
<1>5. rest = <<>> => Range(rest) = {}
  BY DEF Range
<1>6. /\ task \in TaskId
      /\ task[2] <= created[task[1]] /\ task[2] # tasks[task[1]]
  <2>1. task \in Range(taskList[c])
    BY <1>3 DEF Range
  <2>2. Range(taskList[c]) \subseteq TaskId
    BY <1>2, RangeOfSeq
  <2> QED  BY <1>1, <2>1, <2>2 DEF IInv, Tasks, TasksNumbered
<1>7. \A k \in Key : TaskOf(k) # task
  BY <1>6 DEF TaskOf
<1>8. /\ \A d \in Client \ {c} : pc'[d] = pc[d] /\ taskList'[d] = taskList[d]
      /\ taskList'[c] = rest
      /\ rest # <<>> => pc'[c] = "eject"
      /\ pc'[c] \in {"eject", "wait", "idle"}
  <2>1. pc \in [Client -> Places] /\ taskList \in [Client -> Seq(TaskId)]
    BY DEF IInv, TypeOK
  <2>2. /\ \A d \in Client \ {c} : pc'[d] = pc[d] /\ taskList'[d] = taskList[d]
        /\ taskList'[c] = rest
    BY <1>1, <2>1
  <2>3. rest # <<>> => pc'[c] = "eject"
    BY <1>1, <2>1 DEF AfterDequeue
  <2>4. pc'[c] \in {"eject", "wait", "idle"}
    BY <1>1, <2>1 DEF AfterDequeue
  <2> QED  BY <2>2, <2>3, <2>4
<1>9. /\ \A d \in Client : Awaited(d)' \subseteq Awaited(d)
      /\ \A d \in Client : pc'[d] = "total" => pc[d] = "total"
  BY <1>8 DEF Awaited
<1>10. Ejecting \subseteq Ejecting' \cup {task}
  <2> SUFFICES ASSUME NEW d \in Client, pc[d] = "eject",
                      NEW t \in Range(taskList[d]), t # task
               PROVE  t \in Ejecting'
    BY DEF Ejecting
  <2>1. pc'[d] = "eject" /\ t \in Range(taskList'[d])
    BY <1>4, <1>5, <1>8
  <2> QED  BY <2>1 DEF Ejecting
<1> QED  BY <1>1, <1>6, <1>7, <1>9, <1>10 DEF Ejects

-----------------------------------------------------------------------------
(***************************************************************************)
(* Results.                                                                *)
(***************************************************************************)
LEMMA SettlementNext == IInv /\ Settlement /\ [Next]_vars => Settlement'
<1> SUFFICES ASSUME IInv, Settlement, [Next]_vars PROVE Settlement'
  OBVIOUS
<1> USE TaskFacts DEF Settlement, ResultsSettled, ResultsKept
<1>types. /\ result \in [TaskId -> Results] /\ gate \in [TaskId -> {"shut", "open"}]
      /\ handler \in [Key -> Phases]
  BY DEF IInv, TypeOK
<1>outcomes. \A r \in Outcomes : r \notin {"zero", "ejected"}
  BY MapAssumption
<1>1. CASE Quiet
  BY <1>1 DEF Quiet, taskVars, TaskOf, Known
<1>2. ASSUME NEW c \in Client, NEW ks \in Batches,
             NEW m \in {"Inform", "InformFront", "Collect"},
             GetOrCreateTasks(c, m, ks)
      PROVE  Settlement'
  <2>0. PICK N \in SUBSET Key : Creates(c, N)
    BY <1>2, CreateEffect
  <2>1. /\ \A k \in N :
             /\ tasks[k] = 0 /\ handler[k] = "none"
             /\ tasks'[k] = created[k] + 1 /\ created'[k] = created[k] + 1
             /\ <<k, created[k] + 1>> \in TaskId
        /\ \A k \in Key \ N : tasks'[k] = tasks[k] /\ created'[k] = created[k]
        /\ UNCHANGED <<result, gate, handler>>
    BY <2>0 DEF Creates
  <2>2. \A k \in N : /\ handler[k] \notin Running \cup Ending
                     /\ result[<<k, created[k] + 1>>] = "zero"
    <3> SUFFICES ASSUME NEW k \in N
                 PROVE  result[<<k, created[k] + 1>>] = "zero"
      BY <2>1 DEF Running, Ending
    <3> DEFINE t == <<k, created[k] + 1>>
    <3>1. t \in TaskId /\ t[1] = k /\ t[2] = created[k] + 1
      BY <2>1
    <3>2. created[k] \in Nat
      BY DEF IInv, TypeOK
    <3>3. t[2] > created[t[1]]
      BY <3>1, <3>2
    <3> HIDE DEF t
    <3>4. result[t] = "zero"
      BY <3>1, <3>3
    <3> QED  BY <3>4 DEF t
  <2>3. ASSUME NEW k \in Key
        PROVE  created[k] \in Nat /\ created'[k] \in {created[k], created[k] + 1}
    <3>1. created[k] \in Nat
      BY DEF IInv, TypeOK
    <3>2. CASE k \in N
      BY <2>1, <3>1, <3>2
    <3>3. CASE k \notin N
      BY <2>1, <3>1, <3>3
    <3> QED  BY <3>2, <3>3
  <2>4. \A t \in TaskId : t[2] > created'[t[1]] => t[2] > created[t[1]]
    BY <2>3
  <2>5. ASSUME NEW k \in Key, tasks'[k] # 0
        PROVE  result'[<<k, tasks'[k]>>] # "ejected"
    <3>1. CASE k \in N
      BY <2>1, <2>2, <3>1
    <3>2. CASE k \notin N
      <4>1. k \in Known /\ tasks'[k] = tasks[k]
        BY <2>1, <2>5, <3>2 DEF Known
      <4>2. result[TaskOf(k)] # "ejected"
        BY <4>1
      <4> QED  BY <2>1, <4>1, <4>2 DEF TaskOf
    <3> QED  BY <3>1, <3>2
  <2>6. \A k \in Key : k \in N \/ TaskOf(k)' = TaskOf(k)
    BY <2>1 DEF TaskOf
  <2>7. ResultsSettled'
    BY <2>1, <2>5 DEF Known, TaskOf
  <2> QED  BY <2>1, <2>2, <2>4, <2>6, <2>7
<1>3. ASSUME NEW c \in Client, NEW m \in {"DequeueAll", "Cleanup"},
             DequeueAll(c, m)
      PROVE  Settlement'
  <2>0. PICK N \in SUBSET Key : Dequeues(N)
    BY <1>3, DequeueEffect
  <2>1. /\ \A k \in N : handler[k] = "none" /\ tasks'[k] = 0
        /\ \A k \in Key \ N : tasks'[k] = tasks[k]
        /\ UNCHANGED <<created, result, gate, handler>>
    BY <2>0 DEF Dequeues
  <2>2. \A k \in N : handler[k] \notin Running \cup Ending
    BY <2>1 DEF Running, Ending
  <2> QED  BY <2>1, <2>2 DEF Known, TaskOf
<1>4. ASSUME NEW c \in Client, EjectTask(c)
      PROVE  Settlement'
  <2>0. PICK task \in TaskId : Ejects(task)
    BY <1>4, EjectEffect
  <2>1. /\ task[2] <= created[task[1]]
        /\ \A k \in Key : TaskOf(k) # task
        /\ result' = [result EXCEPT ![task] = "ejected"]
        /\ gate' = [gate EXCEPT ![task] = "open"]
        /\ UNCHANGED <<tasks, created, handler>>
    BY <2>0 DEF Ejects
  <2>2. \A t \in TaskId : t[2] > created[t[1]] => t # task
    BY <2>1
  <2>3. \A k \in Known : TaskOf(k)' = TaskOf(k) /\ result'[TaskOf(k)] = result[TaskOf(k)]
    BY <1>types, <2>1 DEF TaskOf
  <2>4. \A k \in Key : handler[k] \in Running \cup Ending => k \in Known
    BY DEF Running, Ending
  <2> QED  BY <1>types, <2>1, <2>2, <2>3, <2>4 DEF Known
<1>5. ASSUME NEW k \in Key, NEW r \in Outcomes \cup {"goexit"}, NEW p \in Phases,
             handler[k] \in Running \cup {"spawned"},
             result' = [result EXCEPT ![TaskOf(k)] = r],
             handler' = [handler EXCEPT ![k] = p],
             p \in Running \/ (p \in Ending /\ r \in Outcomes),
             UNCHANGED <<tasks, created, gate>>
      PROVE  Settlement'
  <2>1. k \in Known /\ TaskOf(k) \in TaskId /\ tasks[k] = created[k]
    BY <1>5 DEF Running
  <2>2. r \notin {"zero", "ejected"}
    BY <1>5, <1>outcomes
  <2>3. \A j \in Key : TaskOf(j) = TaskOf(k) <=> j = k
    BY DEF TaskOf
  <2>4. TaskOf(k)[1] = k /\ TaskOf(k)[2] = created[k] /\ created[k] \in Nat
    BY <2>1 DEF TaskOf, IInv, TypeOK
  <2>5. \A t \in TaskId : t[2] > created[t[1]] => t # TaskOf(k)
    BY <2>4
  <2>6. \A t \in TaskId : result'[t] = IF t = TaskOf(k) THEN r ELSE result[t]
    BY <1>types, <1>5
  <2>7. \A j \in Key : handler'[j] = IF j = k THEN p ELSE handler[j]
    BY <1>types, <1>5
  <2>8. \A j \in Key : TaskOf(j)' = TaskOf(j) /\ (j \in Known)' = (j \in Known)
    BY <1>5 DEF TaskOf, Known
  <2>9. \A j \in Key : handler[j] \in Running \cup Ending => TaskOf(j) \in TaskId
    BY DEF Running, Ending
  <2>10. p \in Running => p \notin Ending
    BY DEF Running, Ending
  <2>11. ResultsSettled'
    BY <1>5, <2>2, <2>6, <2>8 DEF Known
  <2>12. /\ \A j \in Key : handler'[j] \in Running =>
              result'[TaskOf(j)'] \notin {"zero", "ejected"}
         /\ \A j \in Key : handler'[j] \in Ending => result'[TaskOf(j)'] \in Outcomes
    BY <1>5, <2>1, <2>2, <2>3, <2>6, <2>7, <2>8, <2>9, <2>10
  <2>13. \A t \in TaskId : t[2] > created'[t[1]] => result'[t] = "zero"
    BY <1>5, <2>5, <2>6
  <2> QED  BY <2>11, <2>12, <2>13
<1>6. ASSUME NEW k \in Key, StartHandler(k)  PROVE Settlement'
  <2>1. "attached" \in Phases /\ "attached" \in Running
    BY DEF Phases, Running
  <2> QED  BY <1>5, <1>6, <2>1 DEF StartHandler, SetPhase
<1>7. ASSUME NEW k \in Key, NEW r \in Outcomes, HandlerEnds(k, r)
      PROVE  Settlement'
  <2> DEFINE p == IF handler[k] = "attached" THEN "finished" ELSE "abandoned"
  <2>1. p \in Phases /\ p \in Ending /\ handler[k] \in Running
    BY <1>7 DEF HandlerEnds, Phases, Ending, Running
  <2>2. /\ handler' = [handler EXCEPT ![k] = p]
        /\ result' = [result EXCEPT ![TaskOf(k)] = r]
        /\ UNCHANGED <<tasks, created, gate>>
    BY <1>7 DEF HandlerEnds, SetPhase
  <2> HIDE DEF p
  <2> QED  BY <1>5, <2>1, <2>2
<1>8. ASSUME NEW k \in Key, OpenGate(k)  PROVE Settlement'
  <2>1. /\ handler[k] \in Ending
        /\ gate' = [gate EXCEPT ![TaskOf(k)] = "open"]
        /\ \E p \in {"looking", "none"} : handler' = [handler EXCEPT ![k] = p]
        /\ UNCHANGED <<tasks, created, result>>
    BY <1>8 DEF OpenGate, SetPhase, Ending
  <2>2. result[TaskOf(k)] \in Outcomes
    BY <2>1
  <2>3. \A j \in Key : handler'[j] \in Running \cup Ending => handler'[j] = handler[j]
    BY <1>types, <2>1 DEF Running, Ending
  <2> QED  BY <1>types, <1>outcomes, <2>1, <2>2, <2>3 DEF TaskOf, Known
<1> QED
  BY <1>1, <1>2, <1>3, <1>4, <1>6, <1>7, <1>8, StepKinds

\* Whoever passes an open gate finds a result (task.Wait, map.go), and a key
\* in the map was not ejected: Get returns neither a zero value that no handler
\* returned nor, for a key in the map, ErrTaskEjected.
THEOREM ResultsAreSettled == Spec => []ResultsSettled
<1>1. Init => Settlement
  BY DEF Init, Settlement, ResultsSettled, ResultsKept, Known, Running, Ending
<1>2. Settlement => ResultsSettled
  BY DEF Settlement
<1> QED  BY <1>1, <1>2, SettlementNext, Invariance, PTL DEF Spec

-----------------------------------------------------------------------------
(***************************************************************************)
(* Awaited tasks.                                                          *)
(***************************************************************************)
LEMMA OrphansNext == IInv /\ NoOrphanedTask /\ [Next]_vars => NoOrphanedTask'
<1> SUFFICES ASSUME IInv, NoOrphanedTask, [Next]_vars PROVE NoOrphanedTask'
  OBVIOUS
<1> USE DEF NoOrphanedTask
<1>types. /\ gate \in [TaskId -> {"shut", "open"}]
          /\ \A d \in Client : Awaited(d) \subseteq TaskId
  BY RangeOfSeq DEF IInv, TypeOK, Awaited
<1>1. CASE Quiet
  <2>1. Ejecting' = Ejecting
    BY <1>1 DEF Quiet, Ejecting
  <2> QED  BY <1>1, <2>1 DEF Quiet, taskVars
<1>2. ASSUME NEW c \in Client, NEW ks \in Batches,
             NEW m \in {"Inform", "InformFront", "Collect"},
             GetOrCreateTasks(c, m, ks)
      PROVE  NoOrphanedTask'
  <2>1. PICK N \in SUBSET Key : Creates(c, N)
    BY <1>2, CreateEffect
  <2>2. Ejecting' = Ejecting
    BY <2>1 DEF Creates, Ejecting
  <2>3. \A t \in Awaited(c)' : tasks'[t[1]] = t[2]
    BY <2>1 DEF Creates, TaskOf
  <2>4. ASSUME NEW d \in Client \ {c}, NEW t \in Awaited(d)', gate'[t] = "shut"
        PROVE  tasks'[t[1]] = t[2] \/ t \in Ejecting'
    <3>1. t \in Awaited(d) /\ gate[t] = "shut"
      BY <2>1, <2>4 DEF Creates, Awaited
    <3>2. t[1] \in Key /\ t[2] # 0
      BY <1>types, <3>1, TaskFacts
    <3>3. t[1] \in N => tasks[t[1]] # t[2]
      BY <2>1, <3>2 DEF Creates
    <3> QED  BY <2>1, <2>2, <3>1, <3>2, <3>3 DEF Creates
  <2> QED  BY <2>3, <2>4
<1>3. ASSUME NEW c \in Client, NEW m \in {"DequeueAll", "Cleanup"},
             DequeueAll(c, m)
      PROVE  NoOrphanedTask'
  <2>1. PICK N \in SUBSET Key : Dequeues(N)
    BY <1>3, DequeueEffect
  <2>2. ASSUME NEW d \in Client, NEW t \in Awaited(d)', gate'[t] = "shut"
        PROVE  tasks'[t[1]] = t[2] \/ t \in Ejecting'
    <3>1. t \in Awaited(d) /\ gate[t] = "shut"
      BY <2>1, <2>2 DEF Dequeues
    <3>2. t[1] \in Key /\ t = <<t[1], t[2]>>
      BY <1>types, <3>1, TaskFacts
    <3>3. CASE t \in Ejecting
      BY <2>1, <3>3 DEF Dequeues
    <3>4. CASE tasks[t[1]] = t[2] /\ t[1] \notin N
      BY <2>1, <3>2, <3>4 DEF Dequeues
    <3>5. CASE tasks[t[1]] = t[2] /\ t[1] \in N
      <4>1. t = TaskOf(t[1])
        BY <3>2, <3>5 DEF TaskOf
      <4>2. TaskOf(t[1]) \in Ejecting'
        BY <2>1, <3>5 DEF Dequeues
      <4> QED  BY <4>1, <4>2
    <3> QED  BY <3>1, <3>3, <3>4, <3>5
  <2> QED  BY <2>2
<1>4. ASSUME NEW c \in Client, EjectTask(c)
      PROVE  NoOrphanedTask'
  <2>1. PICK task \in TaskId : Ejects(task)
    BY <1>4, EjectEffect
  <2>2. ASSUME NEW d \in Client, NEW t \in Awaited(d)', gate'[t] = "shut"
        PROVE  tasks'[t[1]] = t[2] \/ t \in Ejecting'
    <3>1. t \in Awaited(d) /\ t \in TaskId
      BY <1>types, <2>1, <2>2 DEF Ejects
    <3>2. t # task /\ gate[t] = "shut"
      BY <1>types, <2>1, <2>2, <3>1 DEF Ejects
    <3> QED  BY <2>1, <3>1, <3>2 DEF Ejects
  <2> QED  BY <2>2
<1>5. ASSUME UNCHANGED <<tasks, callVars>>,
             \A t \in TaskId : gate'[t] = "shut" => gate[t] = "shut"
      PROVE  NoOrphanedTask'
  <2>1. Ejecting' = Ejecting /\ \A d \in Client : Awaited(d)' = Awaited(d)
    BY <1>5 DEF callVars, Ejecting, Awaited
  <2> QED  BY <1>types, <1>5, <2>1
<1>6. ASSUME NEW k \in Key,
             \/ StartHandler(k)
             \/ \E r \in Outcomes : HandlerEnds(k, r)
      PROVE  NoOrphanedTask'
  BY <1>5, <1>6 DEF StartHandler, HandlerEnds
<1>7. ASSUME NEW k \in Key, OpenGate(k)  PROVE NoOrphanedTask'
  BY <1>types, <1>5, <1>7 DEF OpenGate
<1> QED
  BY <1>1, <1>2, <1>3, <1>4, <1>6, <1>7, StepKinds

\* A caller of Get or Collect never waits for a task that nobody will finish,
\* also when its key was dequeued (map.go:277-281) and asked for again
\* meanwhile.
THEOREM NoTaskOrphaned == Spec => []NoOrphanedTask
<1>1. Init => NoOrphanedTask
  BY DEF Init, NoOrphanedTask, Awaited
<1> QED  BY <1>1, OrphansNext, Invariance, PTL DEF Spec

-----------------------------------------------------------------------------
(***************************************************************************)
(* Counts.                                                                 *)
(***************************************************************************)
LEMMA CountNext == IInv /\ HandledCounted /\ [Next]_vars => HandledCounted'
<1> SUFFICES ASSUME IInv, HandledCounted, [Next]_vars PROVE HandledCounted'
  OBVIOUS
<1> USE DEF HandledCounted
<1>types. /\ gate \in [TaskId -> {"shut", "open"}]
          /\ handler \in [Key -> Phases]
          /\ tasksHandled \in Nat
          /\ \A d \in Client : snapshot[d] \in Nat
  BY DEF IInv, TypeOK
<1>finite. IsFiniteSet(HandledKeys)
  <2>1. HandledKeys \subseteq Key
    BY DEF HandledKeys, Known
  <2> QED  BY <2>1, MapAssumption, FS_Subset
<1>same. ASSUME HandledKeys' = HandledKeys, UNCHANGED tasksHandled,
                \A d \in Client : pc'[d] = "total" =>
                  \/ snapshot'[d] = tasksHandled
                  \/ pc[d] = "total" /\ snapshot'[d] = snapshot[d]
         PROVE  HandledCounted'
  BY <1>same, <1>types
<1>1. CASE Quiet
  <2>1. HandledKeys' = HandledKeys
    BY <1>1 DEF Quiet, taskVars, HandledKeys, Known, TaskOf
  <2> QED  BY <1>1, <1>same, <2>1 DEF Quiet, taskVars
<1>2. ASSUME NEW c \in Client, NEW ks \in Batches,
             NEW m \in {"Inform", "InformFront", "Collect"},
             GetOrCreateTasks(c, m, ks)
      PROVE  HandledCounted'
  <2>1. PICK N \in SUBSET Key : Creates(c, N)
    BY <1>2, CreateEffect
  <2>2. ASSUME NEW k \in Key
        PROVE  k \in HandledKeys' <=> k \in HandledKeys
    <3>1. CASE k \in N
      <4>1. k \notin Known
        BY <2>1, <3>1 DEF Creates, Known
      <4>2. gate'[TaskOf(k)'] = "shut" /\ handler'[k] = "none"
        BY <2>1, <3>1 DEF Creates, TaskOf
      <4> QED  BY <4>1, <4>2 DEF HandledKeys, Ending
    <3>2. CASE k \notin N
      BY <2>1, <3>2 DEF Creates, HandledKeys, Known, TaskOf
    <3> QED  BY <3>1, <3>2
  <2>3. HandledKeys' = HandledKeys
    BY <2>2 DEF HandledKeys, Known
  <2>4. \A d \in Client : pc'[d] = "total" =>
          pc[d] = "total" /\ snapshot'[d] = snapshot[d]
    BY <2>1 DEF Creates
  <2> QED  BY <1>same, <2>1, <2>3, <2>4 DEF Creates
<1>3. ASSUME NEW c \in Client, NEW m \in {"DequeueAll", "Cleanup"},
             DequeueAll(c, m)
      PROVE  HandledCounted'
  <2>1. PICK N \in SUBSET Key : Dequeues(N)
    BY <1>3, DequeueEffect
  <2>2. ASSUME NEW k \in Key
        PROVE  k \in HandledKeys' <=> k \in HandledKeys
    <3>1. CASE k \in N
      <4>1. k \notin HandledKeys
        BY <2>1, <3>1 DEF Dequeues, HandledKeys, Ending
      <4>2. (k \notin Known)'
        BY <2>1, <3>1 DEF Dequeues, Known
      <4> QED  BY <4>1, <4>2 DEF HandledKeys
    <3>2. CASE k \notin N
      BY <2>1, <3>2 DEF Dequeues, HandledKeys, Known, TaskOf
    <3> QED  BY <3>1, <3>2
  <2>3. HandledKeys' = HandledKeys
    BY <2>2 DEF HandledKeys, Known
  <2> QED  BY <1>same, <2>1, <2>3 DEF Dequeues
<1>4. ASSUME NEW c \in Client, EjectTask(c)
      PROVE  HandledCounted'
  <2>1. PICK task \in TaskId : Ejects(task)
    BY <1>4, EjectEffect
  <2>2. \A k \in Known : gate'[TaskOf(k)] = gate[TaskOf(k)]
    <3>1. \A k \in Known : TaskOf(k) \in TaskId
      BY TaskFacts
    <3>2. /\ \A k \in Known : TaskOf(k) # task
          /\ gate' = [gate EXCEPT ![task] = "open"]
      BY <2>1 DEF Ejects, Known
    <3> QED  BY <1>types, <3>1, <3>2
  <2>3. HandledKeys' = HandledKeys
    BY <2>1, <2>2 DEF Ejects, HandledKeys, Known, TaskOf
  <2> QED  BY <1>same, <2>1, <2>3 DEF Ejects
<1>5. ASSUME NEW k \in Key, StartHandler(k)  PROVE HandledCounted'
  <2>1. HandledKeys' = HandledKeys
    BY <1>types, <1>5 DEF StartHandler, SetPhase, HandledKeys, Known, TaskOf, Ending
  <2> QED  BY <1>same, <1>5, <2>1 DEF StartHandler, callVars
<1>6. ASSUME NEW k \in Key, NEW r \in Outcomes, HandlerEnds(k, r)
      PROVE  HandledCounted'
  <2>1. handler[k] \in Running
    BY <1>6 DEF HandlerEnds, Running
  <2>2. k \in Known /\ gate[TaskOf(k)] = "shut" /\ handler[k] \notin Ending
    BY <2>1, TaskFacts DEF Running, Ending
  <2>3. \A j \in Key : handler'[j] \in Ending <=> handler[j] \in Ending \/ j = k
    BY <1>types, <1>6 DEF HandlerEnds, SetPhase, Ending
  <2>4. HandledKeys' = HandledKeys \cup {k} /\ k \notin HandledKeys
    BY <1>6, <2>2, <2>3 DEF HandlerEnds, HandledKeys, Known, TaskOf
  <2>5. Cardinality(HandledKeys') = Cardinality(HandledKeys) + 1
    BY <1>finite, <2>4, FS_AddElement
  <2> QED  BY <1>types, <1>6, <2>5 DEF HandlerEnds, callVars
<1>7. ASSUME NEW k \in Key, OpenGate(k)  PROVE HandledCounted'
  <2>1. handler[k] \in Ending /\ k \in Known /\ TaskOf(k) \in TaskId
    BY <1>7, TaskFacts DEF OpenGate, Ending
  <2>2. \A j \in Key : handler'[j] \in Ending <=> handler[j] \in Ending /\ j # k
    BY <1>types, <1>7 DEF OpenGate, SetPhase, Ending
  <2>3. \A j \in Known :
          gate'[TaskOf(j)] = IF j = k THEN "open" ELSE gate[TaskOf(j)]
    BY <1>types, <1>7, <2>1, TaskFacts DEF OpenGate, TaskOf
  <2>4. HandledKeys' = HandledKeys
    BY <1>7, <2>1, <2>2, <2>3 DEF OpenGate, HandledKeys, Known, TaskOf
  <2> QED  BY <1>same, <1>7, <2>4 DEF OpenGate, callVars
<1> QED
  BY <1>1, <1>2, <1>3, <1>4, <1>5, <1>6, <1>7, StepKinds

\* Stats never reports more handled keys than keys, although it reads the two
\* at different moments (Stats, map.go) and DequeueAll removes keys: the keys
\* counted as handled stay.
THEOREM StatsAreConsistent == Spec => []StatsConsistent
<1>1. Init => HandledCounted
  <2> SUFFICES ASSUME Init PROVE HandledCounted
    OBVIOUS
  <2>1. HandledKeys = {}
    BY DEF Init, HandledKeys, Known
  <2> QED  BY <2>1, FS_EmptySet DEF Init, HandledCounted
<1>2. IInv /\ HandledCounted => StatsConsistent
  <2> SUFFICES ASSUME IInv, HandledCounted PROVE StatsConsistent
    OBVIOUS
  <2>1. HandledKeys \subseteq Known /\ Known \subseteq Key
    BY DEF HandledKeys, Known
  <2>2. IsFiniteSet(Known)
    BY <2>1, MapAssumption, FS_Subset
  <2>3. /\ Cardinality(HandledKeys) <= Cardinality(Known)
        /\ IsFiniteSet(HandledKeys)
    BY <2>1, <2>2, FS_Subset
  <2>4. Cardinality(HandledKeys) \in Nat /\ Cardinality(Known) \in Nat
    BY <2>2, <2>3, FS_CardinalityType
  <2>5. \A c \in Client : snapshot[c] \in Nat
    BY DEF IInv, TypeOK
  <2> QED  BY <2>3, <2>4, <2>5 DEF StatsConsistent, HandledCounted
<1> QED  BY <1>1, <1>2, CountNext, Invariance, PTL DEF Spec

-----------------------------------------------------------------------------
(***************************************************************************)
(* The limit, and the order in which work begins.                          *)
(***************************************************************************)
LEMMA ScheduleBegins ==
  ASSUME IInv, NEW c \in Client, ScheduleNewKeys(c), NEW k \in Key, Begins(k)
  PROVE  grants' <= grantLimit' /\ reattachers' = 0 /\ keys = <<>>
<1> DEFINE new   == newKeys[c]
           n     == Smaller(Issuable(grantLimit), Len(new))
           front == SubSeq(new, 1, n)
<1>1. /\ grants' = grants + n
      /\ handler' = Spawn(Range(front))
      /\ UNCHANGED <<grantLimit, reattachers>>
  BY DEF ScheduleNewKeys
<1>2. new \in Seq(Key) /\ IsInjective(new) /\ Len(new) \in Nat
  BY QueueUnworked
<1>3. grants \in Nat /\ grantLimit \in Nat /\ reattachers \in Nat
  BY DEF IInv, TypeOK
<1>4. n \in 0..Len(new) /\ (n > 0 => grants < grantLimit /\ grants + n <= grantLimit)
  BY <1>2, <1>3 DEF Smaller, Larger, Issuable
<1> HIDE DEF n
<1>5. front \in Seq(Key) /\ Len(front) = n
  BY <1>2, <1>4, SplitQueue
<1> HIDE DEF front
<1>6. k \in Range(front)
  BY <1>1 DEF Begins, Spawn
<1>7. n > 0
  <2>1. DOMAIN front = 1..n
    BY <1>4, <1>5
  <2> QED  BY <1>4, <1>6, <2>1 DEF Range
<1>8. keys = <<>> /\ reattachers = 0
  BY <1>3, <1>4, <1>7 DEF IInv, Reserves, WorkConserving
<1> QED  BY <1>1, <1>4, <1>7, <1>8

LEMMA LimitBegins ==
  ASSUME IInv, NEW c \in Client, NEW l \in Limits, Limit(c, l),
         NEW k \in Key, Begins(k)
  PROVE  grants' <= grantLimit' /\ reattachers' = 0 /\ Queued(k)
<1> DEFINE limit == Larger(1, l)
           sends == ToReattachers(limit)
           n     == ToKeys(limit)
<1>1. /\ grantLimit' = limit
      /\ grants' = grants + sends + n
      /\ reattachers' = reattachers - sends
      /\ handler' = Spawn(Range(Popped(n)))
  BY DEF Limit
<1>2. keys \in Seq(Key) /\ IsInjective(keys) /\ Len(keys) \in Nat
  BY QueueUnworked
<1>3. grants \in Nat /\ reattachers \in Nat /\ l \in Int
  BY MapAssumption DEF IInv, TypeOK
<1>4. /\ n \in 0..Len(keys)
      /\ n > 0 => grants + sends + n <= limit /\ sends = reattachers
  <2> DEFINE free == Issuable(limit)
  <2>1. limit \in Int /\ free \in Nat /\ (free > 0 => grants + free <= limit)
    BY <1>3 DEF Larger, Issuable
  <2> HIDE DEF limit, free
  <2>2. /\ sends = Smaller(free, reattachers)
        /\ n = Smaller(free - sends, Len(keys))
    BY DEF ToKeys, ToReattachers, free
  <2> HIDE DEF n, sends
  <2>3. sends \in 0..free /\ (sends = free \/ sends = reattachers)
    BY <1>3, <2>1, <2>2 DEF Smaller
  <2>4. n \in 0..Len(keys) /\ sends + n <= free
    BY <1>2, <2>1, <2>2, <2>3 DEF Smaller
  <2> QED  BY <1>2, <1>3, <2>1, <2>3, <2>4
<1> HIDE DEF n, sends, limit
<1>5. /\ Popped(n) \in Seq(Key) /\ Len(Popped(n)) = n
      /\ Range(Popped(n)) \subseteq Range(keys)
  BY <1>2, <1>4, SplitQueue DEF Popped
<1>6. k \in Range(Popped(n))
  BY <1>1 DEF Begins, Spawn
<1>7. n > 0
  <2>1. DOMAIN Popped(n) = 1..n
    BY <1>4, <1>5
  <2> QED  BY <1>4, <1>6, <2>1 DEF Range
<1> QED  BY <1>1, <1>3, <1>4, <1>5, <1>6, <1>7 DEF Queued

LEMMA WorkerBegins ==
  ASSUME IInv, NEW j \in Key, NEW without \in {"none", "detached"},
         NEW sending \in {"sending", "detaching"},
         TryGetQueuedKey(j, without, sending), UNCHANGED grantLimit,
         NEW k \in Key, Begins(k)
  PROVE  grants' <= grantLimit' /\ reattachers' = 0 /\ Queued(k)
<1>1. handler \in [Key -> Phases] /\ without # "spawned" /\ sending # "spawned"
  BY DEF IInv, TypeOK
<1>2. ~\E p : p # "spawned" /\ handler' = [handler EXCEPT ![j] = p]
  BY <1>1 DEF Begins
<1>3. /\ grants <= grantLimit /\ reattachers = 0 /\ keys # <<>>
      /\ handler' = [handler EXCEPT ![j] = without, ![Head(keys)] = "spawned"]
      /\ UNCHANGED <<grants, reattachers>>
  BY <1>1, <1>2 DEF TryGetQueuedKey, SetPhase
<1>4. Head(keys) \in Range(keys)
  BY <1>3, QueueUnworked, TailOfQueue
<1>5. k = Head(keys)
  BY <1>1, <1>3 DEF Begins
<1> QED  BY <1>3, <1>4, <1>5 DEF Queued

LEMMA WorkBegins ==
  ASSUME IInv, [Next]_vars, NEW k \in Key, Begins(k)
  PROVE  /\ grants' <= grantLimit'
         /\ reattachers' = 0
         /\ Queued(k) \/ keys = <<>>
<1>types. handler \in [Key -> Phases] /\ handler' # handler
  BY DEF IInv, TypeOK, Begins
<1>1. ASSUME NEW c \in Client, ClientCalls(c) \/ ClientContinues(c)
      PROVE  \/ \E l \in Limits : Limit(c, l)
             \/ ScheduleNewKeys(c)
  BY <1>1, <1>types
     DEF ClientCalls, ClientContinues, GetOrCreateTasks, DequeueAll, Wait,
         LoadHandled, AwaitTask, EjectTask, CleanupWait, EnterWait, WaitReturns,
         ReadTotal
<1>2. ASSUME NEW j \in Key, HandlerActs(j) \/ WorkerContinues(j) \/ ReceiveGrant(j)
      PROVE  NextKey(j) \/ Detach(j)
  <2>1. ~\E i \in Key : \E p : p # "spawned" /\ handler' = [handler EXCEPT ![i] = p]
    BY <1>types DEF Begins
  <2>2. ASSUME NEW w \in Key, WorkerSendsGrant(w, j)  PROVE FALSE
    BY <1>types, <2>2 DEF WorkerSendsGrant, Begins
  <2> QED
    BY <1>2, <2>1, <2>2
       DEF HandlerActs, WorkerContinues, ReceiveGrant, Reattach, HandlerEnds,
           StartHandler, OpenGate, LimitSendsGrant, SetPhase
<1>3. ASSUME NEW j \in Key, NextKey(j) \/ Detach(j)
      PROVE  grants' <= grantLimit' /\ reattachers' = 0 /\ Queued(k)
  BY <1>3, WorkerBegins DEF NextKey, Detach
<1> QED
  BY <1>types, <1>1, <1>2, <1>3, ScheduleBegins, LimitBegins
     DEF Next, Rest, vars

LEMMA WorkRejoins ==
  ASSUME IInv, [Next]_vars, NEW k \in Key, Rejoins(k)
  PROVE  grants' <= grantLimit'
<1>types. /\ handler \in [Key -> Phases] /\ handler' # handler
          /\ grants \in Nat /\ grantLimit \in Nat
  BY DEF IInv, TypeOK, Rejoins
<1>1. ASSUME NEW c \in Client, ClientCalls(c) \/ ClientContinues(c)  PROVE FALSE
  <2>1. ~\E Q : handler' = Spawn(Q)
    BY DEF Spawn, Rejoins
  <2> QED
    BY <1>1, <1>types, <2>1
       DEF ClientCalls, ClientContinues, GetOrCreateTasks, DequeueAll, Wait,
           LoadHandled, AwaitTask, EjectTask, CleanupWait, EnterWait, WaitReturns,
           ReadTotal, Limit, ScheduleNewKeys
<1>2. ASSUME NEW j \in Key, HandlerActs(j) \/ WorkerContinues(j) \/ ReceiveGrant(j)
      PROVE  Reattach(j)
  <2>1. ~\E i \in Key : \E p : p # "attached" /\ handler' = [handler EXCEPT ![i] = p]
    BY <1>types DEF Rejoins
  <2>2. ~\E i \in Key : \E p : /\ handler[i] # "detached"
                           /\ handler' = [handler EXCEPT ![i] = p]
    BY <1>types DEF Rejoins
  <2>3. ASSUME NEW w \in Key, WorkerSendsGrant(w, j)  PROVE FALSE
    BY <1>types, <2>3 DEF WorkerSendsGrant, Rejoins
  <2>4. ASSUME NextKey(j) \/ Detach(j)  PROVE FALSE
    <3>1. PICK without \in {"none", "detached"}, sending \in {"sending", "detaching"} :
            TryGetQueuedKey(j, without, sending)
      BY <2>4 DEF NextKey, Detach
    <3>2. handler' = [handler EXCEPT ![j] = without, ![Head(keys)] = "spawned"]
      BY <2>1, <3>1 DEF TryGetQueuedKey, SetPhase
    <3> QED  BY <1>types, <3>2 DEF Rejoins
  <2> QED
    BY <1>2, <2>1, <2>2, <2>3, <2>4
       DEF HandlerActs, WorkerContinues, ReceiveGrant, HandlerEnds,
           StartHandler, OpenGate, LimitSendsGrant, SetPhase
<1>3. ASSUME NEW j \in Key, Reattach(j)  PROVE grants' <= grantLimit'
  BY <1>3, <1>types DEF Reattach, SetPhase, Rejoins
<1> QED
  BY <1>types, <1>1, <1>2, <1>3 DEF Next, Rest, vars

\* No work begins, and no handler reattaches on its own, beyond the limit
\* (map.go:62), however the limit, the detached handlers and the work grants
\* under way change at the same time.
THEOREM LimitIsRespected == Spec => LimitRespected
<1>1. ASSUME IInv, IInv', [Next]_vars
      PROVE  [\A k \in Key :
                Begins(k) \/ Rejoins(k) =>
                  Cardinality(Holders') + Cardinality(InTransit') <= grantLimit']_vars
  <2>1. grants' = Cardinality(Holders') + Cardinality(InTransit')
    BY <1>1 DEF IInv, Accounting, GrantAccounting
  <2> QED  BY <1>1, <2>1, WorkBegins, WorkRejoins
<1> QED  BY <1>1, Invariance, PTL DEF Spec, LimitRespected

\* A key that is begun with leaves no reattacher waiting (map.go:573-575) and
\* overtakes no queued key.
THEOREM NoneOvertakes == Spec => NoOvertaking
<1>1. ASSUME IInv, [Next]_vars
      PROVE  [\A k \in Key :
                Begins(k) => reattachers' = 0 /\ (Queued(k) \/ keys = <<>>)]_vars
  BY <1>1, WorkBegins
<1> QED  BY <1>1, Invariance, PTL DEF Spec, NoOvertaking

\* The queue grows at either end, or loses a part of its front.
LEMMA QueueSteps ==
  ASSUME IInv, [Next]_vars
  PROVE  \/ keys' = keys
         \/ keys' = <<>>
         \/ \E ks \in Seq(Key) : keys' = keys \o ks \/ keys' = ks \o keys
         \/ \E n \in 0..Len(keys) : keys' = Left(n)
<1>1. ASSUME NEW c \in Client, ScheduleNewKeys(c)
      PROVE  \E ks \in Seq(Key) : keys' = keys \o ks \/ keys' = ks \o keys
  <2> DEFINE new  == newKeys[c]
             n    == Smaller(Issuable(grantLimit), Len(new))
             back == SubSeq(new, n + 1, Len(new))
  <2>1. keys' = Enqueue(call[c], back)
    BY <1>1 DEF ScheduleNewKeys
  <2>2. new \in Seq(Key) /\ IsInjective(new) /\ Len(new) \in Nat
    BY QueueUnworked
  <2>3. n \in 0..Len(new)
    BY <2>2 DEF IInv, TypeOK, Smaller, Larger, Issuable
  <2> HIDE DEF n
  <2>4. back \in Seq(Key)
    BY <2>2, <2>3, SplitQueue
  <2> QED  BY <2>1, <2>4 DEF Enqueue
<1>2. ASSUME NEW c \in Client, NEW l \in Limits, Limit(c, l)
      PROVE  \E n \in 0..Len(keys) : keys' = Left(n)
  <2>1. keys' = Left(ToKeys(Larger(1, l)))
    BY <1>2 DEF Limit
  <2>2. keys \in Seq(Key) /\ Len(keys) \in Nat
    BY QueueUnworked
  <2>3. ToKeys(Larger(1, l)) \in 0..Len(keys)
    <3>1. grants \in Nat /\ reattachers \in Nat /\ l \in Int
      BY MapAssumption DEF IInv, TypeOK
    <3> QED  BY <2>2, <3>1 DEF ToKeys, ToReattachers, Smaller, Larger, Issuable
  <2> QED  BY <2>1, <2>3
<1>3. ASSUME NEW k \in Key, NextKey(k) \/ Detach(k)
      PROVE  keys' = keys \/ \E n \in 0..Len(keys) : keys' = Left(n)
  <2>1. keys' = keys \/ (keys # <<>> /\ keys' = Left(1))
    BY <1>3 DEF NextKey, Detach, TryGetQueuedKey
  <2>2. keys # <<>> => 1 \in 0..Len(keys)
    BY QueueUnworked
  <2> QED  BY <2>1, <2>2
<1>4. ASSUME NEW c \in Client, ClientCalls(c) \/ ClientContinues(c)
      PROVE  \/ keys' = keys
             \/ keys' = <<>>
             \/ \E l \in Limits : Limit(c, l)
             \/ ScheduleNewKeys(c)
  BY <1>4
     DEF ClientCalls, ClientContinues, GetOrCreateTasks, DequeueAll, Wait,
         LoadHandled, AwaitTask, EjectTask, CleanupWait, EnterWait, WaitReturns,
         ReadTotal, workVars
<1>5. ASSUME NEW k \in Key, HandlerActs(k) \/ WorkerContinues(k) \/ ReceiveGrant(k)
      PROVE  keys' = keys \/ NextKey(k) \/ Detach(k)
  BY <1>5
     DEF HandlerActs, WorkerContinues, ReceiveGrant, Reattach, HandlerEnds,
         StartHandler, OpenGate, WorkerSendsGrant, LimitSendsGrant, workVars
<1>6. CASE UNCHANGED vars
  BY <1>6 DEF vars, workVars
<1> QED
  BY <1>1, <1>2, <1>3, <1>4, <1>5, <1>6 DEF Next, Rest

LEMMA QueueOrdered ==
  ASSUME IInv, [Next]_vars,
         NEW i \in DOMAIN keys, NEW j \in DOMAIN keys, i < j
  PROVE  \/ keys[i] \notin Range(keys')
         \/ \E a, b \in DOMAIN keys' :
              a < b /\ keys'[a] = keys[i] /\ keys'[b] = keys[j]
<1>1. /\ keys \in Seq(Key) /\ IsInjective(keys) /\ Len(keys) \in Nat
      /\ DOMAIN keys = 1..Len(keys)
  BY QueueUnworked
<1>2. CASE keys' = keys
  BY <1>2
<1>3. CASE keys' = <<>>
  BY <1>3 DEF Range
<1>4. ASSUME NEW ks \in Seq(Key), keys' = keys \o ks
      PROVE  \E a, b \in DOMAIN keys' :
               a < b /\ keys'[a] = keys[i] /\ keys'[b] = keys[j]
  <2>1. /\ Len(ks) \in Nat
        /\ keys' \in Seq(Key)
        /\ DOMAIN keys' = 1..(Len(keys) + Len(ks))
        /\ \A x \in 1..Len(keys) : keys'[x] = keys[x]
    BY <1>1, <1>4
  <2> QED  BY <1>1, <2>1
<1>5. ASSUME NEW ks \in Seq(Key), keys' = ks \o keys
      PROVE  \E a, b \in DOMAIN keys' :
               a < b /\ keys'[a] = keys[i] /\ keys'[b] = keys[j]
  <2>1. /\ Len(ks) \in Nat
        /\ DOMAIN keys' = 1..(Len(ks) + Len(keys))
        /\ \A x \in 1..Len(keys) : keys'[Len(ks) + x] = keys[x]
    BY <1>1, <1>5
  <2>2. /\ Len(ks) + i \in DOMAIN keys' /\ Len(ks) + j \in DOMAIN keys'
        /\ Len(ks) + i < Len(ks) + j
    BY <1>1, <2>1
  <2> QED  BY <1>1, <2>1, <2>2
<1>6. ASSUME NEW n \in 0..Len(keys), keys' = Left(n)
      PROVE  \/ keys[i] \notin Range(keys')
             \/ \E a, b \in DOMAIN keys' :
                  a < b /\ keys'[a] = keys[i] /\ keys'[b] = keys[j]
  <2>1. /\ DOMAIN keys' = 1..(Len(keys) - n)
        /\ \A x \in 1..(Len(keys) - n) : keys'[x] = keys[n + x]
    BY <1>1, <1>6 DEF Left
  <2>2. CASE i <= n
    <3>1. ASSUME NEW x \in DOMAIN keys'  PROVE keys'[x] # keys[i]
      <4>1. n + x \in DOMAIN keys /\ n + x # i
        BY <1>1, <2>1, <2>2, <3>1
      <4>2. keys'[x] = keys[n + x]
        BY <2>1
      <4> QED  BY <1>1, <4>1, <4>2 DEF IsInjective
    <3> QED  BY <3>1 DEF Range
  <2>3. CASE ~(i <= n)
    <3>1. /\ i - n \in DOMAIN keys' /\ j - n \in DOMAIN keys' /\ i - n < j - n
          /\ n + (i - n) = i /\ n + (j - n) = j
      BY <1>1, <2>1, <2>3
    <3>2. keys'[i - n] = keys[i] /\ keys'[j - n] = keys[j]
      BY <2>1, <3>1
    <3> QED  BY <3>1, <3>2
  <2> QED  BY <2>2, <2>3
<1> QED
  BY <1>2, <1>3, <1>4, <1>5, <1>6, QueueSteps

\* The queue of the map is a queue (map.go:148-160), whatever is enqueued at
\* either end, begun with or dequeued.
THEOREM QueueKeepsOrder == Spec => QueueOrder
<1>1. ASSUME IInv, [Next]_vars
      PROVE  [\A i, j \in DOMAIN keys : i < j =>
                \/ keys[i] \notin Range(keys')
                \/ \E a, b \in DOMAIN keys' :
                     a < b /\ keys'[a] = keys[i] /\ keys'[b] = keys[j]]_vars
  BY <1>1, QueueOrdered
<1> QED  BY <1>1, Invariance, PTL DEF Spec, QueueOrder

\* Who is woken in Wait leaves a map in which nobody holds a work grant, no
\* key is queued, and no reattacher waits.
LEMMA WakingEmpties ==
  ASSUME IInv, IInv', [Next]_vars, NEW c \in emptied \ emptied'
  PROVE  Holders' = {} /\ keys' = <<>> /\ reattachers' = 0
<1>1. ASSUME NEW d \in Client, ClientCalls(d) \/ ClientContinues(d)
      PROVE  FALSE
  BY <1>1
     DEF ClientCalls, ClientContinues, GetOrCreateTasks, DequeueAll, Wait,
         LoadHandled, AwaitTask, EjectTask, CleanupWait, EnterWait, WaitReturns,
         ReadTotal, Limit, ScheduleNewKeys, workVars
<1>2. ASSUME NEW k \in Key, HandlerActs(k) \/ WorkerContinues(k) \/ ReceiveGrant(k)
      PROVE  NextKey(k) \/ Detach(k)
  BY <1>2
     DEF HandlerActs, WorkerContinues, ReceiveGrant, Reattach, HandlerEnds,
         StartHandler, OpenGate, WorkerSendsGrant, LimitSendsGrant, workVars
<1>3. ASSUME NEW k \in Key, NextKey(k) \/ Detach(k)
      PROVE  grants = 1 /\ grants' = 0 /\ keys' = <<>> /\ reattachers' = 0
  <2>1. grants \in Nat
    BY DEF IInv, TypeOK
  <2> QED
    BY <1>3, <2>1 DEF NextKey, Detach, TryGetQueuedKey, EmptiedByRetiring
<1>4. ASSUME grants' = 0  PROVE Holders' = {}
  <2>1. 0 = Cardinality(Holders') + Cardinality(InTransit')
    BY <1>4 DEF IInv, Accounting, GrantAccounting
  <2>2. IsFiniteSet(Holders') /\ IsFiniteSet(InTransit')
    BY FiniteParts DEF IInv, Accounting
  <2>3. Cardinality(Holders') \in Nat /\ Cardinality(InTransit') \in Nat
    BY <2>2, FS_CardinalityType
  <2>4. Cardinality(Holders') = 0
    BY <2>1, <2>3
  <2> QED  BY <2>2, <2>4, FS_EmptySet
<1> QED
  BY <1>1, <1>2, <1>3, <1>4 DEF Next, Rest, vars, workVars

\* Wait returns only from a map without attached handlers, queued keys and
\* reattachers (map.go:291-293).
THEOREM WaitReturnsFromEmpty == Spec => WaitMeansEmpty
<1>1. ASSUME IInv, IInv', [Next]_vars
      PROVE  [\A c \in emptied \ emptied' :
                Holders' = {} /\ keys' = <<>> /\ reattachers' = 0]_vars
  BY <1>1, WakingEmpties
<1> QED  BY <1>1, Invariance, PTL DEF Spec, WaitMeansEmpty

-----------------------------------------------------------------------------
(***************************************************************************)
(* The refinement of KeyedWork.                                            *)
(***************************************************************************)
\* A goroutine is between the start of the handler and the open gate.
Working(k) == handler[k] \in Running \cup Ending

Seen(k) == IF Status(k) = "done" THEN result[TaskOf(k)] ELSE "none"

\* A key whose gate is shut is running when a goroutine works on it: one in
\* front of tryGetQueuedKey has left its key's gate open.
LEMMA StatusOfWorked ==
  ASSUME IInv, NEW k \in Key
  PROVE  /\ Status(k) \in {"unknown", "pending", "running", "done"}
         /\ Status(k) = "unknown" <=> k \notin Known
         /\ Status(k) = "done" <=> k \in Known /\ gate[TaskOf(k)] # "shut"
         /\ Status(k) = "running" <=> Working(k)
<1>1. Working(k) => Incomplete(k) /\ handler[k] \notin {"none", "spawned"}
  BY TaskFacts DEF Working, Incomplete, Running, Ending
<1>2. Incomplete(k) => Working(k) \/ handler[k] \in {"none", "spawned"}
  BY DEF IInv, Tasks, EveryTaskReachable, InFlight, Working, Ending
<1> QED  BY <1>1, <1>2 DEF Status, Incomplete

LEMMA StatusAfter ==
  ASSUME IInv', NEW k \in Key
  PROVE  /\ Status(k)' \in {"unknown", "pending", "running", "done"}
         /\ Status(k)' = "unknown" <=> (k \notin Known)'
         /\ Status(k)' = "done" <=> (k \in Known /\ gate[TaskOf(k)] # "shut")'
         /\ Status(k)' = "running" <=> Working(k)'
<1>1. /\ \A j \in Known' : TaskOf(j)' \in TaskId
      /\ Working(k)' => Incomplete(k)' /\ handler'[k] \notin {"none", "spawned"}
  BY MapAssumption
     DEF IInv, TypeOK, Tasks, TasksNumbered, EveryTaskReachable, InFlight,
         Working, Incomplete, Known, TaskOf, TaskId, Running, Ending
<1>2. Incomplete(k)' => Working(k)' \/ handler'[k] \in {"none", "spawned"}
  BY DEF IInv, Tasks, EveryTaskReachable, InFlight, Working, Ending
<1> QED  BY <1>1, <1>2 DEF Status, Incomplete

\* What callers see of a key in a step that leaves its task, the gate of the
\* task and a settled result alone, and neither starts nor ends its handler.
LEMMA StatusKept ==
  ASSUME IInv, IInv', NEW k \in Key,
         tasks'[k] = tasks[k],
         k \in Known => gate'[TaskOf(k)] = gate[TaskOf(k)],
         k \in Known /\ gate[TaskOf(k)] # "shut"
           => result'[TaskOf(k)] = result[TaskOf(k)],
         Working(k)' <=> Working(k)
  PROVE  Status(k)' = Status(k) /\ Seen(k)' = Seen(k)
<1>1. TaskOf(k)' = TaskOf(k) /\ ((k \in Known)' <=> k \in Known)
  BY DEF TaskOf, Known
<1>2. Status(k)' = Status(k)
  BY <1>1, StatusOfWorked, StatusAfter
<1>3. Status(k) = "done" => k \in Known /\ gate[TaskOf(k)] # "shut"
  BY StatusOfWorked
<1> QED  BY <1>1, <1>2, <1>3 DEF Seen

\* A step that changes no key in the eyes of callers.
LEMMA StutterOfKeys ==
  ASSUME \A k \in Key : Status(k)' = Status(k) /\ Seen(k)' = Seen(k)
  PROVE  UNCHANGED KW!vars
BY DEF KW!vars, Seen

\* A step that changes one key k in the eyes of callers.
LEMMA StepOfKey ==
  ASSUME NEW k \in Key,
         \A j \in Key \ {k} : Status(j)' = Status(j) /\ Seen(j)' = Seen(j),
         \/ Status(k) = "pending" /\ Status(k)' = "running"
         \/ Status(k) = "running" /\ Status(k)' = "done" /\ Seen(k)' \in Outcomes
  PROVE  KW!Begin(k) \/ KW!Finish(k)
<1>1. CASE Status(k) = "pending" /\ Status(k)' = "running"
  <2>1. Seen(k)' = Seen(k)
    BY <1>1 DEF Seen
  <2> QED  BY <1>1, <2>1 DEF KW!Begin, Seen
<1>2. CASE Status(k) = "running" /\ Status(k)' = "done" /\ Seen(k)' \in Outcomes
  <2>1. Seen(k) = "none"
    BY <1>2 DEF Seen
  <2> DEFINE status  == [j \in Key |-> Status(j)]
             outcome == [j \in Key |-> Seen(j)]
  <2>2. status' = [status EXCEPT ![k] = "done"]
    BY <1>2
  <2>3. outcome' = [outcome EXCEPT ![k] = Seen(k)']
    OBVIOUS
  <2>4. status[k] = "running"
    BY <1>2
  <2> QED  BY <1>2, <2>2, <2>3, <2>4 DEF KW!Finish, Seen
<1> QED  BY <1>1, <1>2

\* getOrCreateTasks is what the callers ask for; the keys it creates tasks
\* for are unknown before.
LEMMA CreateAsks ==
  ASSUME IInv, IInv', NEW c \in Client, NEW N \in SUBSET Key, Creates(c, N)
  PROVE  KW!Ask
<1>1. \A k \in Key : Working(k)' <=> Working(k)
  BY DEF Creates, Working
<1>2. ASSUME NEW k \in Key \ N
      PROVE  Status(k)' = Status(k) /\ Seen(k)' = Seen(k)
  <2>1. tasks'[k] = tasks[k] /\ gate' = gate /\ result' = result
    BY DEF Creates
  <2> QED  BY <1>1, <2>1, StatusKept
<1>3. ASSUME NEW k \in N
      PROVE  /\ Status(k) = "unknown" /\ Status(k)' = "pending"
             /\ Seen(k) = "none" /\ Seen(k)' = "none"
  <2>1. /\ k \in Key /\ k \notin Known /\ handler'[k] = "none"
        /\ TaskOf(k)' = <<k, created[k] + 1>> /\ gate'[TaskOf(k)'] = "shut"
        /\ tasks'[k] = created[k] + 1 /\ created[k] \in Nat
    <3>1. /\ tasks[k] = 0 /\ handler[k] = "none" /\ UNCHANGED <<handler, gate>>
          /\ tasks'[k] = created[k] + 1
          /\ gate[<<k, created[k] + 1>>] = "shut"
      BY DEF Creates
    <3>2. created[k] \in Nat
      BY DEF IInv, TypeOK
    <3>3. TaskOf(k)' = <<k, created[k] + 1>>
      BY <3>1 DEF TaskOf
    <3> QED  BY <3>1, <3>2, <3>3 DEF Known
  <2>2. (k \in Known)' /\ ~Working(k)'
    BY <2>1 DEF Known, Working, Running, Ending
  <2>3. Status(k) = "unknown"
    BY <2>1, StatusOfWorked
  <2>4. Status(k)' = "pending"
    BY <2>1, <2>2, StatusAfter
  <2> QED  BY <2>3, <2>4 DEF Seen
<1> QED  BY <1>2, <1>3 DEF KW!Ask, Seen

\* DequeueAll forgets keys that nobody has begun with.
LEMMA DequeueForgets ==
  ASSUME IInv, IInv', NEW N \in SUBSET Key, Dequeues(N)
  PROVE  KW!Forget(N)
<1>1. \A k \in Key : Working(k)' <=> Working(k)
  BY DEF Dequeues, Working
<1>2. ASSUME NEW k \in Key \ N
      PROVE  Status(k)' = Status(k) /\ Seen(k)' = Seen(k)
  <2>1. tasks'[k] = tasks[k] /\ gate' = gate /\ result' = result
    BY DEF Dequeues
  <2> QED  BY <1>1, <2>1, StatusKept
<1>3. ASSUME NEW k \in N
      PROVE  /\ Status(k) = "pending" /\ Status(k)' = "unknown"
             /\ Seen(k) = "none" /\ Seen(k)' = "none"
  <2>1. /\ k \in Key /\ k \in Known /\ ~Working(k) /\ gate[TaskOf(k)] = "shut"
        /\ (k \notin Known)'
    BY DEF Dequeues, Known, Working, Running, Ending
  <2>2. Status(k) = "pending"
    BY <2>1, StatusOfWorked
  <2>3. Status(k)' = "unknown"
    BY <2>1, StatusAfter
  <2> QED  BY <2>2, <2>3 DEF Seen
<1> QED  BY <1>2, <1>3 DEF KW!Forget, Seen

\* completeTask opens the gate of the handler's task, and the result that the
\* handler left there is what callers get.
LEMMA GateFinishes ==
  ASSUME IInv, IInv', Settlement, NEW k \in Key, OpenGate(k)
  PROVE  KW!Begin(k) \/ KW!Finish(k)
<1>1. /\ handler[k] \in Ending
      /\ gate' = [gate EXCEPT ![TaskOf(k)] = "open"]
      /\ \E p \in {"looking", "none"} : handler' = [handler EXCEPT ![k] = p]
      /\ UNCHANGED <<tasks, created, result>>
  BY DEF OpenGate, SetPhase, Ending
<1>2. /\ gate \in [TaskId -> {"shut", "open"}] /\ handler \in [Key -> Phases]
      /\ k \in Known /\ TaskOf(k) \in TaskId
  BY <1>1, TaskFacts DEF IInv, TypeOK, Ending
<1>3. ASSUME NEW j \in Key \ {k}
      PROVE  Status(j)' = Status(j) /\ Seen(j)' = Seen(j)
  <2>1. TaskOf(j) # TaskOf(k)
    BY DEF TaskOf
  <2>2. j \in Known => gate'[TaskOf(j)] = gate[TaskOf(j)]
    BY <1>1, <1>2, <2>1, TaskFacts
  <2>3. Working(j)' <=> Working(j)
    BY <1>1, <1>2 DEF Working
  <2> QED  BY <1>1, <2>2, <2>3, StatusKept
<1>4. Status(k) = "running"
  BY <1>1, StatusOfWorked DEF Working
<1>5. Status(k)' = "done"
  <2>1. (k \in Known)' /\ gate'[TaskOf(k)'] = "open"
    BY <1>1, <1>2 DEF Known, TaskOf
  <2> QED  BY <2>1, StatusAfter
<1>6. Seen(k)' \in Outcomes
  BY <1>1, <1>5 DEF Seen, TaskOf, Settlement, ResultsKept
<1> QED  BY <1>3, <1>4, <1>5, <1>6, StepOfKey

\* The handler for a pending key starts.
LEMMA StartBegins ==
  ASSUME IInv, IInv', NEW k \in Key, StartHandler(k)
  PROVE  KW!Begin(k) \/ KW!Finish(k)
<1>1. /\ handler[k] = "spawned"
      /\ handler' = [handler EXCEPT ![k] = "attached"]
      /\ result' = [result EXCEPT ![TaskOf(k)] = "goexit"]
      /\ UNCHANGED <<tasks, created, gate>>
  BY DEF StartHandler, SetPhase
<1>2. /\ result \in [TaskId -> Results] /\ handler \in [Key -> Phases]
      /\ k \in Known /\ gate[TaskOf(k)] = "shut"
  BY <1>1, TaskFacts DEF IInv, TypeOK
<1>3. ASSUME NEW j \in Key \ {k}
      PROVE  Status(j)' = Status(j) /\ Seen(j)' = Seen(j)
  <2>1. TaskOf(j) # TaskOf(k)
    BY DEF TaskOf
  <2>2. j \in Known => result'[TaskOf(j)] = result[TaskOf(j)]
    BY <1>1, <1>2, <2>1, TaskFacts
  <2>3. Working(j)' <=> Working(j)
    BY <1>1, <1>2 DEF Working
  <2> QED  BY <1>1, <2>2, <2>3, StatusKept
<1>4. ~Working(k) /\ Working(k)'
  BY <1>1, <1>2 DEF Working, Running, Ending
<1>5. Status(k) = "pending"
  BY <1>2, <1>4, StatusOfWorked
<1>6. Status(k)' = "running"
  BY <1>4, StatusAfter
<1> QED  BY <1>3, <1>5, <1>6, StepOfKey

\* The end of a handler is invisible until the gate opens, and so is what
\* happens to a task that is no key's any more.
LEMMA UnseenSteps ==
  ASSUME IInv, IInv',
         \/ Quiet
         \/ \E task \in TaskId : Ejects(task)
         \/ \E k \in Key, r \in Outcomes : HandlerEnds(k, r)
  PROVE  UNCHANGED KW!vars
<1>1. CASE Quiet
  BY <1>1, StatusKept, StutterOfKeys DEF Quiet, taskVars, Working
<1>2. ASSUME NEW task \in TaskId, Ejects(task)
      PROVE  UNCHANGED KW!vars
  <2>1. ASSUME NEW k \in Key, k \in Known
        PROVE  gate'[TaskOf(k)] = gate[TaskOf(k)] /\ result'[TaskOf(k)] = result[TaskOf(k)]
    BY <1>2, <2>1, TaskFacts DEF Ejects, IInv, TypeOK
  <2>2. \A k \in Key : tasks'[k] = tasks[k] /\ (Working(k)' <=> Working(k))
    BY <1>2 DEF Ejects, Working
  <2> QED  BY <2>1, <2>2, StatusKept, StutterOfKeys
<1>3. ASSUME NEW k \in Key, NEW r \in Outcomes, HandlerEnds(k, r)
      PROVE  UNCHANGED KW!vars
  <2>1. /\ handler[k] \in Running
        /\ result' = [result EXCEPT ![TaskOf(k)] = r]
        /\ \E p \in Ending : handler' = [handler EXCEPT ![k] = p]
        /\ UNCHANGED <<tasks, created, gate>>
    BY <1>3 DEF HandlerEnds, SetPhase, Running, Ending
  <2>2. /\ result \in [TaskId -> Results] /\ handler \in [Key -> Phases]
        /\ gate[TaskOf(k)] = "shut"
    BY <2>1, TaskFacts DEF IInv, TypeOK
  <2>3. \A j \in Key : Working(j)' <=> Working(j)
    BY <2>1, <2>2 DEF Working
  <2>4. \A j \in Key : j \in Known /\ gate[TaskOf(j)] # "shut"
           => result'[TaskOf(j)] = result[TaskOf(j)]
    BY <2>1, <2>2, TaskFacts
  <2> QED  BY <2>1, <2>3, <2>4, StatusKept, StutterOfKeys
<1> QED  BY <1>1, <1>2, <1>3

LEMMA KeyedWorkStep ==
  ASSUME IInv, IInv', Settlement, [Next]_vars
  PROVE  [KW!Next]_(KW!vars)
<1>1. ASSUME NEW c \in Client, NEW ks \in Batches,
             NEW m \in {"Inform", "InformFront", "Collect"},
             GetOrCreateTasks(c, m, ks)
      PROVE  KW!Next
  BY <1>1, CreateEffect, CreateAsks DEF KW!Next
<1>2. ASSUME NEW c \in Client, NEW m \in {"DequeueAll", "Cleanup"},
             DequeueAll(c, m)
      PROVE  KW!Next
  BY <1>2, DequeueEffect, DequeueForgets DEF KW!Next
<1>3. ASSUME NEW k \in Key, StartHandler(k) \/ OpenGate(k)
      PROVE  KW!Next
  BY <1>3, StartBegins, GateFinishes DEF KW!Next
<1> QED
  BY <1>1, <1>2, <1>3, StepKinds, EjectEffect, UnseenSteps

\* The map keeps the promise of KeyedWork (without its liveness): each key is
\* run once and keeps its outcome, whatever is dequeued, detached, limited or
\* asked for twice meanwhile, and DequeueAll makes the map forget pending keys
\* only.
THEOREM KeepsKeyedWork == Spec => KW!Spec
<1>1. Init => KW!Init
  <2>1. Init => \A k \in Key : Status(k) = "unknown" /\ Seen(k) = "none"
    BY DEF Init, Status, Seen, Known
  <2> QED  BY <2>1 DEF KW!Init, Seen
<1>2. Init => Settlement
  BY DEF Init, Settlement, ResultsSettled, ResultsKept, Known, Running, Ending
<1>3. IInv /\ IInv' /\ Settlement /\ [Next]_vars => [KW!Next]_(KW!vars)
  BY KeyedWorkStep
<1> QED
  BY <1>1, <1>2, <1>3, SettlementNext, Invariance, PTL DEF Spec, KW!Spec

=============================================================================
