------------------------ MODULE RegistryClient_proofs ------------------------
(***************************************************************************)
(* Requests with one client key are made one at a time.  Two facts meet:   *)
(* everybody who has a client for a key has the same one (SameClient),     *)
(* because clientsMu is held from the lookup to the insertion; and the     *)
(* token of a transport is in the channel or with one goroutine (OneToken, *)
(* TokenTaken), because one goroutine makes the channel (InitOnce) and     *)
(* nobody takes from it before (NotBefore).  So whoever unlocks puts back  *)
(* the token that it took, and finds room for it (NeverPanics).            *)
(***************************************************************************)
EXTENDS RegistryClient, TLAPS

HasClient(p) == pc[p] \in {"client", "init", "select", "trip", "unlock", "follow"}

Creating ==
  \A p \in Proc : pc[p] = "ping" => clientsMu = {p} /\ clients[key[p]] = 0

SameClient ==
  \A p \in Proc : HasClient(p) => got[p] # 0 /\ got[p] = clients[key[p]]

InitOnce ==
  \A p \in Proc : pc[p] = "init" =>
    /\ once[TransportOf(p)] = "running"
    /\ \A q \in Proc : pc[q] = "init" /\ TransportOf(q) = TransportOf(p) => q = p

NotBefore ==
  \A p \in Proc :
    pc[p] = "select" \/ InTrip(p) => once[TransportOf(p)] = "done"

TokenTaken == \A p \in Proc : InTrip(p) => tokens[TransportOf(p)] = 0

OneToken ==
  \A p, q \in Proc : InTrip(p) /\ InTrip(q) /\ TransportOf(p) = TransportOf(q) => p = q

IInv ==
  /\ TypeOK
  /\ Creating
  /\ SameClient
  /\ InitOnce
  /\ NotBefore
  /\ TokenTaken
  /\ OneToken
  /\ NeverPanics

\* The transport of a goroutine with a client is one of those created.
LEMMA HasTransport ==
  ASSUME TypeOK, SameClient, NEW p \in Proc, HasClient(p)
  PROVE  TransportOf(p) \in Transport
BY ClientAssumption DEF TypeOK, SameClient, TransportOf, Transport

LEMMA InitInv == Init => IInv
BY ClientAssumption DEF Init, IInv, TypeOK, Creating, SameClient, InitOnce,
   NotBefore, TokenTaken, OneToken, NeverPanics, HasClient, InTrip, Places

LEMMA NextInv == IInv /\ [Next]_vars => IInv'
<1> SUFFICES ASSUME IInv, [Next]_vars PROVE IInv'
  OBVIOUS
<1> USE ClientAssumption
<1> USE DEF IInv
<1>1. ASSUME NEW p \in Proc, NEW k \in ClientKey, Request(p, k) PROVE IInv'
  BY <1>1 DEF Request, Goto, TypeOK, NeverPanics, Places, cacheVars, lockVars,
     Creating, SameClient, HasClient, InitOnce, NotBefore, InTrip, TokenTaken,
     OneToken, TransportOf
<1>2. ASSUME NEW p \in Proc, Cancel(p) PROVE IInv'
  BY <1>2 DEF Cancel, TypeOK, NeverPanics, cacheVars, lockVars, Creating,
     SameClient, HasClient, InitOnce, NotBefore, InTrip, TokenTaken, OneToken,
     TransportOf
<1>3. ASSUME NEW p \in Proc, FindClient(p) PROVE IInv'
  BY <1>3 DEF FindClient, Goto, TypeOK, NeverPanics, Places, lockVars,
     Creating, SameClient, HasClient, InitOnce, NotBefore, InTrip, TokenTaken,
     OneToken, TransportOf
<1>4. ASSUME NEW p \in Proc, CreateClient(p) PROVE IInv'
  <2> USE <1>4 DEF CreateClient, Goto, lockVars
  <2>1. \A q \in Proc : HasClient(q) => key[q] # key[p]
    BY DEF Creating, SameClient
  <2>2. \A q \in Proc : pc[q] = "ping" => q = p
    BY DEF Creating
  <2>3. TypeOK' /\ NeverPanics'
    BY DEF TypeOK, NeverPanics, Places
  <2>4. Creating'
    BY <2>2 DEF Creating, TypeOK
  <2>5. SameClient'
    BY <2>1 DEF SameClient, HasClient, TypeOK
  <2>6. \A q \in Proc : q # p => pc'[q] = pc[q] /\ TransportOf(q)' = TransportOf(q)
    BY DEF TransportOf, TypeOK
  <2>7. pc'[p] = "client"
    BY DEF TypeOK
  <2>8. InitOnce' /\ NotBefore' /\ TokenTaken' /\ OneToken'
    BY <2>6, <2>7 DEF InitOnce, NotBefore, TokenTaken, OneToken, InTrip
  <2> QED  BY <2>3, <2>4, <2>5, <2>8
<1>5. ASSUME NEW p \in Proc, CreateFails(p) PROVE IInv'
  <2> USE <1>5 DEF CreateFails, Goto, lockVars, requestVars
  <2>1. TypeOK' /\ NeverPanics'
    BY DEF TypeOK, NeverPanics, Places
  <2>2. \A q \in Proc : q # p => pc'[q] = pc[q] /\ pc[q] # "ping"
    BY DEF TypeOK, Creating
  <2>3. pc'[p] = "idle"
    BY DEF TypeOK
  <2>4. Creating' /\ SameClient'
    BY <2>2, <2>3 DEF Creating, SameClient, HasClient
  <2>5. InitOnce' /\ NotBefore' /\ TokenTaken' /\ OneToken'
    BY <2>2, <2>3 DEF InitOnce, NotBefore, TokenTaken, OneToken, InTrip,
       TransportOf
  <2> QED  BY <2>1, <2>4, <2>5
<1>6. ASSUME NEW p \in Proc, EnsureInit(p) PROVE IInv'
  <2> USE <1>6 DEF EnsureInit, Goto, cacheVars, requestVars
  <2>1. TransportOf(p) \in Transport
    BY HasTransport DEF HasClient
  <2>2. TypeOK' /\ NeverPanics'
    BY <2>1 DEF TypeOK, NeverPanics, Places
  <2>3. Creating' /\ SameClient'
    BY DEF Creating, SameClient, HasClient, TypeOK
  <2>4. \A q \in Proc : TransportOf(q)' = TransportOf(q)
    BY DEF TransportOf
  <2>5. \A q \in Proc : q # p => pc'[q] = pc[q]
    BY DEF TypeOK
  <2>6. CASE once[TransportOf(p)] = "done"
    <3>1. pc'[p] = "select"
      BY <2>6 DEF TypeOK
    <3> QED  BY <2>2, <2>3, <2>4, <2>5, <2>6, <3>1
             DEF InitOnce, NotBefore, TokenTaken, OneToken, InTrip
  <2>7. CASE once[TransportOf(p)] = "fresh"
    <3>1. pc'[p] = "init"
      BY <2>7 DEF TypeOK
    <3>2. once'[TransportOf(p)] = "running"
      BY <2>1, <2>7 DEF TypeOK
    <3>3. \A q \in Proc : HasClient(q) /\ TransportOf(q) # TransportOf(p) =>
            once'[TransportOf(q)] = once[TransportOf(q)]
      BY <2>7, HasTransport DEF TypeOK
    <3>4. InitOnce'
      BY <2>4, <2>5, <2>7, <3>1, <3>2, <3>3 DEF InitOnce, HasClient
    <3>5. NotBefore'
      BY <2>4, <2>5, <2>7, <3>1, <3>3 DEF NotBefore, InTrip, HasClient
    <3>6. TokenTaken' /\ OneToken'
      BY <2>4, <2>5, <3>1 DEF TokenTaken, OneToken, InTrip
    <3> QED  BY <2>2, <2>3, <3>4, <3>5, <3>6
  <2> QED  BY <2>1, <2>6, <2>7 DEF TypeOK
<1>7. ASSUME NEW p \in Proc, MakeChannel(p) PROVE IInv'
  BY <1>7, HasTransport DEF MakeChannel, Goto, TypeOK, NeverPanics, Places,
     cacheVars, requestVars, Creating, SameClient, HasClient, InitOnce,
     NotBefore, InTrip, TokenTaken, OneToken, TransportOf
<1>8. ASSUME NEW p \in Proc, LockWithContext(p) PROVE IInv'
  BY <1>8, HasTransport DEF LockWithContext, Goto, TypeOK, NeverPanics, Places,
     cacheVars, requestVars, Creating, SameClient, HasClient, InitOnce,
     NotBefore, InTrip, TokenTaken, OneToken, TransportOf
<1>9. ASSUME NEW p \in Proc, LockCancelled(p) PROVE IInv'
  BY <1>9 DEF LockCancelled, Goto, TypeOK, NeverPanics, Places, cacheVars,
     lockVars, requestVars, Creating, SameClient, HasClient, InitOnce,
     NotBefore, InTrip, TokenTaken, OneToken, TransportOf
<1>10. ASSUME NEW p \in Proc, Trip(p) PROVE IInv'
  BY <1>10 DEF Trip, TripEnds, TripRedirects, Goto, TypeOK, NeverPanics,
     Places, cacheVars, lockVars, requestVars, Creating, SameClient, HasClient,
     InitOnce, NotBefore, InTrip, TokenTaken, OneToken, TransportOf
<1>11. ASSUME NEW p \in Proc, Unlock(p) PROVE IInv'
  BY <1>11, HasTransport DEF Unlock, Goto, TypeOK, NeverPanics, Places,
     cacheVars, requestVars, Creating, SameClient, HasClient, InitOnce,
     NotBefore, InTrip, TokenTaken, OneToken, TransportOf
<1>12. ASSUME UNCHANGED vars PROVE IInv'
  BY <1>12 DEF vars, cacheVars, lockVars, requestVars, TypeOK, NeverPanics,
     Creating, SameClient, HasClient, InitOnce, NotBefore, InTrip, TokenTaken,
     OneToken, TransportOf
<1> QED
  BY <1>1, <1>2, <1>3, <1>4, <1>5, <1>6, <1>7, <1>8, <1>9, <1>10, <1>11, <1>12
  DEF Next, Continue, GetTransport, Rest

LEMMA Invariant == Spec => []IInv
BY InitInv, NextInv, PTL DEF Spec

\* Unlock never panics, for any goroutines, keys and registries: whoever gets
\* to it has the token of its transport, which is then not in the channel
\* (registry.go:133-135, 168-177).
THEOREM UnlockNeverPanics == Spec => []NeverPanics
<1>1. IInv => NeverPanics
  BY DEF IInv
<1> QED
  BY <1>1, Invariant, PTL

\* For any goroutines, keys and numbers of requests, the round trips to one
\* repository with one scope exclude each other (registry.go:81-136).
THEOREM Exclusive == Spec => []ExclusiveRoundTrips
<1>1. IInv => ExclusiveRoundTrips
  BY DEF IInv, ExclusiveRoundTrips, SameClient, OneToken, TransportOf,
     HasClient, InTrip
<1> QED
  BY <1>1, Invariant, PTL

=============================================================================
