--------------------------- MODULE RegistryClient ---------------------------
(***************************************************************************)
(* Authenticated clients (internal/image/registry/registry.go): GetClient  *)
(* keeps one per repository and scope, and the transport of a client, from *)
(* a library whose transports are not safe for concurrent use, serves one  *)
(* round trip at a time behind a lock whose waiters can be cancelled.      *)
(*                                                                         *)
(* A request is a call of GetClient and one of Client.Do, which makes a    *)
(* round trip and one more per redirect.  The program never cancels a      *)
(* request itself; the lock is written for callers that do.                *)
(***************************************************************************)
EXTENDS Naturals, FiniteSets

CONSTANTS
  Proc,          \* goroutines
  Impatient,     \* those whose requests may be cancelled
  ClientKey,     \* clientKey: repository and scope
  Silent,        \* those of registries that may leave a request unanswered
  MaxTransports, \* bound: transports created for one key
  MaxRedirects,  \* the redirects that http.Client follows
  MaxRequests    \* bound: requests made by all goroutines

ASSUME ClientAssumption ==
  /\ Impatient \subseteq Proc
  /\ Silent \subseteq ClientKey
  /\ MaxTransports \in Nat
  /\ MaxRedirects \in Nat
  /\ MaxRequests \in Nat

VARIABLES
  clientsMu,  \* the goroutine that holds clientsMu, in a set
  clients,    \* clients: the number of the key's transport, 0 if none
  created,    \* transports created for the key so far
  once,       \* ctxLock.init of a transport: "fresh", "running" or "done"
  tokens,     \* what is in ctxLock.ch of a transport; a fresh one has no ch
  pc,         \* the place of the goroutine in its request
  key,        \* the arguments of GetClient
  got,        \* the number of the transport of the client it got
  cancelled,  \* whether the context of the request is cancelled
  redirects,  \* redirects that its request has followed
  requests    \* requests made so far

lockVars    == <<once, tokens>>
cacheVars   == <<clientsMu, clients, created>>
requestVars == <<key, got, cancelled, redirects, requests>>
vars        == <<cacheVars, lockVars, pc, requestVars>>

\* idle     no request
\* get      in front of clientsMu.Lock
\* ping     in getTransport, with clientsMu
\* client   in front of a round trip, with the client
\* init     in the function that ctxLock.init runs
\* select   in the select of LockWithContext
\* trip     in the round trip of the library's transport, with the lock
\* unlock   in front of the deferred Unlock, the request being over
\* follow   in front of the deferred Unlock, with a redirect to follow
\* panicked the process has ended, with all its goroutines
Places == {"idle", "get", "ping", "client", "init", "select", "trip",
           "unlock", "follow", "panicked"}

Transport == ClientKey \X (1..MaxTransports)

Init ==
  /\ clientsMu = {}
  /\ clients = [k \in ClientKey |-> 0]
  /\ created = [k \in ClientKey |-> 0]
  /\ once = [t \in Transport |-> "fresh"]
  /\ tokens = [t \in Transport |-> 0]
  /\ pc = [p \in Proc |-> "idle"]
  /\ key \in [Proc -> ClientKey]
  /\ got = [p \in Proc |-> 0]
  /\ cancelled = [p \in Proc |-> FALSE]
  /\ redirects = [p \in Proc |-> 0]
  /\ requests = 0

Goto(p, place) == pc' = [pc EXCEPT ![p] = place]

\* The lockedTransport of the client that p got.
TransportOf(p) == <<key[p], got[p]>>

\* A request begins with a call of GetClient.
Request(p, k) ==
  /\ pc[p] = "idle"
  /\ requests < MaxRequests
  /\ requests' = requests + 1
  /\ key' = [key EXCEPT ![p] = k]
  /\ cancelled' = [cancelled EXCEPT ![p] = FALSE]
  /\ redirects' = [redirects EXCEPT ![p] = 0]
  /\ Goto(p, "get")
  /\ UNCHANGED <<cacheVars, lockVars, got>>

Cancel(p) ==
  /\ p \in Impatient
  /\ pc[p] \notin {"idle", "panicked"}
  /\ cancelled' = [cancelled EXCEPT ![p] = TRUE]
  /\ UNCHANGED <<cacheVars, lockVars, pc, key, got, redirects, requests>>

-----------------------------------------------------------------------------
(***************************************************************************)
(* GetClient: clientsMu, the one lock of all clients, is held while        *)
(* getTransport talks to the registry.  It does so with a context of its   *)
(* own that has no deadline: nothing but the registry ends that, neither   *)
(* the context of the request nor those of the callers behind it.          *)
(***************************************************************************)
\* A client that is cached is returned, otherwise getTransport is entered.
FindClient(p) ==
  /\ pc[p] = "get"
  /\ clientsMu = {}
  /\ IF clients[key[p]] # 0
       THEN /\ got' = [got EXCEPT ![p] = clients[key[p]]]
            /\ Goto(p, "client")
            /\ UNCHANGED clientsMu
       ELSE /\ clientsMu' = {p}
            /\ Goto(p, "ping")
            /\ UNCHANGED got
  /\ UNCHANGED <<clients, created, lockVars, key, cancelled, redirects, requests>>

CreateClient(p) ==
  LET n == created[key[p]] + 1
  IN  /\ pc[p] = "ping"
      /\ n <= MaxTransports
      /\ created' = [created EXCEPT ![key[p]] = n]
      /\ clients' = [clients EXCEPT ![key[p]] = n]
      /\ got' = [got EXCEPT ![p] = n]
      /\ clientsMu' = {}
      /\ Goto(p, "client")
      /\ UNCHANGED <<lockVars, key, cancelled, redirects, requests>>

\* getTransport fails: nothing is cached, and the next call tries again.
CreateFails(p) ==
  /\ pc[p] = "ping"
  /\ clientsMu' = {}
  /\ Goto(p, "idle")
  /\ UNCHANGED <<clients, created, lockVars, requestVars>>

-----------------------------------------------------------------------------
(***************************************************************************)
(* lockedTransport.RoundTrip and ctxLock.                                  *)
(***************************************************************************)
\* Faulty: a nil test takes the place of sync.Once.
EnsureInitUnguarded(p) ==
  /\ pc[p] = "client"
  /\ IF once[TransportOf(p)] = "done"
       THEN Goto(p, "select") /\ UNCHANGED once
       ELSE Goto(p, "init") /\ once' = [once EXCEPT ![TransportOf(p)] = "running"]
  /\ UNCHANGED <<cacheVars, tokens, requestVars>>

\* ensureInit: the first caller runs the function, others wait for its end.
EnsureInit(p) ==
  LET t == TransportOf(p)
  IN  /\ pc[p] = "client"
      /\ once[t] # "running"
      /\ IF once[t] = "done"
           THEN Goto(p, "select") /\ UNCHANGED once
           ELSE Goto(p, "init") /\ once' = [once EXCEPT ![t] = "running"]
      /\ UNCHANGED <<cacheVars, tokens, requestVars>>

\* A new channel with one token.
MakeChannel(p) ==
  LET t == TransportOf(p)
  IN  /\ pc[p] = "init"
      /\ tokens' = [tokens EXCEPT ![t] = 1]
      /\ once' = [once EXCEPT ![t] = "done"]
      /\ Goto(p, "select")
      /\ UNCHANGED <<cacheVars, requestVars>>

LockWithContext(p) ==
  /\ pc[p] = "select"
  /\ tokens[TransportOf(p)] > 0
  /\ tokens' = [tokens EXCEPT ![TransportOf(p)] = @ - 1]
  /\ Goto(p, "trip")
  /\ UNCHANGED <<cacheVars, once, requestVars>>

\* Faulty: Unlock is deferred before the error of the lock is looked at.
LockCancelledUnlocks(p) ==
  /\ pc[p] = "select"
  /\ cancelled[p]
  /\ Goto(p, "unlock")
  /\ UNCHANGED <<cacheVars, lockVars, requestVars>>

\* The other case of the select, which may be taken although the lock is free.
LockCancelled(p) ==
  /\ pc[p] = "select"
  /\ cancelled[p]
  /\ Goto(p, "idle")
  /\ UNCHANGED <<cacheVars, lockVars, requestVars>>

\* The round trip ends with a response or an error, which ends the request.
TripEnds(p) ==
  /\ pc[p] = "trip"
  /\ Goto(p, "unlock")
  /\ UNCHANGED <<cacheVars, lockVars, requestVars>>

\* The response is a redirect, and http.Client makes another round trip.
TripRedirects(p) ==
  /\ pc[p] = "trip"
  /\ redirects[p] < MaxRedirects
  /\ redirects' = [redirects EXCEPT ![p] = @ + 1]
  /\ Goto(p, "follow")
  /\ UNCHANGED <<cacheVars, lockVars, key, got, cancelled, requests>>

\* Faulty: a redirect keeps the lock, and its own round trip asks for it.
UnlockAtEnd(p) ==
  /\ pc[p] \in {"unlock", "follow"}
  /\ IF pc[p] = "follow"
       THEN Goto(p, "client") /\ UNCHANGED tokens
       ELSE Goto(p, "idle") /\ tokens' = [tokens EXCEPT ![TransportOf(p)] = 1]
  /\ UNCHANGED <<cacheVars, once, requestVars>>

\* The deferred Unlock.  With a token in the channel already it panics, and
\* the process ends.
Unlock(p) ==
  LET t == TransportOf(p)
  IN  /\ pc[p] \in {"unlock", "follow"}
      /\ IF tokens[t] # 0
           THEN pc' = [q \in Proc |-> "panicked"]
           ELSE Goto(p, IF pc[p] = "follow" THEN "client" ELSE "idle")
      /\ tokens' = [tokens EXCEPT ![t] = 1]
      /\ UNCHANGED <<cacheVars, once, requestVars>>

-----------------------------------------------------------------------------
GetTransport(p) == CreateClient(p) \/ CreateFails(p)

Trip(p) == TripEnds(p) \/ TripRedirects(p)

Continue(p) ==
  \/ FindClient(p)
  \/ EnsureInit(p)
  \/ MakeChannel(p)
  \/ LockWithContext(p)
  \/ LockCancelled(p)
  \/ Unlock(p)

\* Nobody is in a request, and none is left to make.
Rest ==
  /\ requests = MaxRequests
  /\ \A p \in Proc : pc[p] = "idle"
  /\ UNCHANGED vars

Next ==
  \/ \E p \in Proc : \/ \E k \in ClientKey : Request(p, k)
                     \/ Cancel(p)
                     \/ Continue(p)
                     \/ GetTransport(p)
                     \/ Trip(p)
  \/ Rest

(***************************************************************************)
(* Goroutines are scheduled, and a registry that is not silent answers.  A *)
(* silent one may answer or not.  Without an answer a round trip ends when *)
(* its context is cancelled, and getTransport does not end at all.         *)
(***************************************************************************)
Answered(p) ==
  \/ GetTransport(p) /\ key[p] \notin Silent
  \/ Trip(p) /\ (key[p] \notin Silent \/ cancelled[p])

Fairness == \A p \in Proc : WF_vars(Continue(p)) /\ WF_vars(Answered(p))

Spec     == Init /\ [][Next]_vars
FairSpec == Spec /\ Fairness

-----------------------------------------------------------------------------
TypeOK ==
  /\ clientsMu \subseteq Proc
  /\ clients \in [ClientKey -> 0..MaxTransports]
  /\ created \in [ClientKey -> 0..MaxTransports]
  /\ once \in [Transport -> {"fresh", "running", "done"}]
  /\ tokens \in [Transport -> {0, 1}]
  /\ pc \in [Proc -> Places]
  /\ key \in [Proc -> ClientKey]
  /\ got \in [Proc -> 0..MaxTransports]
  /\ cancelled \in [Proc -> BOOLEAN]
  /\ redirects \in [Proc -> 0..MaxRedirects]
  /\ requests \in 0..MaxRequests

InTrip(p) == pc[p] \in {"trip", "unlock", "follow"}

\* The requests to one repository with one scope are made one at a time: its
\* callers share one transport, whoever creates it and however often that
\* fails, and the lock of the transport lets one of them through, although
\* it is made by its first users and some of its waiters give up.
ExclusiveRoundTrips ==
  \A p, q \in Proc : InTrip(p) /\ InTrip(q) /\ key[p] = key[q] => p = q

\* No goroutine releases the lock of a transport that it does not hold, one
\* that gave up waiting for it included: Unlock never panics, which would end
\* all copies of the process (registry.go:168-177).
NeverPanics == \A p \in Proc : pc[p] # "panicked"

\* In front of clientsMu or with it, while a silent registry leaves the ping of
\* getTransport unanswered: whatever registry and client the request is for.
BehindPing(p) ==
  /\ pc[p] \in {"get", "ping"}
  /\ \E q \in Proc :
       /\ pc[q] = "ping" /\ key[q] \in Silent
       /\ pc[p] = "ping" => p = q

\* In a round trip that a silent registry leaves unanswered, or in front of the
\* lock of its transport, and neither request was cancelled.
BehindTrip(p) ==
  /\ pc[p] \in {"select", "trip"}
  /\ ~cancelled[p]
  /\ \E q \in Proc :
       /\ pc[q] = "trip" /\ key[q] \in Silent /\ key[q] = key[p] /\ ~cancelled[q]
       /\ pc[p] = "trip" => p = q

\* Every request ends, unless a registry that does not answer holds it up for
\* ever, in a round trip of its own client or, for all clients alike, in
\* getTransport under clientsMu (registry.go:82-90).  Nothing else holds a
\* request up: a failed GetClient does not stop the next one, a redirect does
\* not wait for itself, and a request that has its client ends when it is
\* cancelled, even behind a round trip that never does.
RequestsEnd ==
  \A p \in Proc : []<>(pc[p] = "idle") \/ <>[](BehindPing(p) \/ BehindTrip(p))

=============================================================================
