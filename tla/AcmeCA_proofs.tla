---------------------------- MODULE AcmeCA_proofs ----------------------------
(***************************************************************************)
(* Proofs about AcmeCA, for any number of servers, calls and attempts, any *)
(* lifetimes, and any bounds.                                              *)
(***************************************************************************)
EXTENDS AcmeCA, TLAPS

\* A forced issuance keeps pendingCertRenewals and the promises well formed (acme.ts:167-199).
LEMMA StartAttemptType ==
    ASSUME TypeOK, NEW a \in Attempt, NEW s \in Server, StartAttempt(a, s)
    PROVE  /\ attempt' \in [Attempt -> AttemptState]
           /\ pending' \in [Server -> Attempt \cup {NoAttempt}]
BY DEF TypeOK, StartAttempt, AttemptState

\* A call that resolves to a certificate keeps its shape (acme.ts:150).
LEMMA AnswerType ==
    ASSUME TypeOK, NEW c \in Call, NEW s \in Server, NEW cert \in Cert \cup {NoCert},
           Answer(c, s, cert)
    PROVE  call' \in [Call -> CallState]
BY DEF TypeOK, Answer, CallState

\* So does a call that resolves to a refreshPromise (acme.ts:158-165).
LEMMA WaitForType ==
    ASSUME TypeOK, NEW c \in Call, NEW s \in Server, NEW a \in Attempt, WaitFor(c, s, a)
    PROVE  call' \in [Call -> CallState]
BY DEF TypeOK, WaitFor, CallState

\* What the parts of getCertificate do to the state they share, given a server that
\* runs and a certificate or nothing (acme.ts:113-199).
LEMMA DecideType ==
    ASSUME TypeOK, NEW c \in Call, NEW s \in Server, NEW cert \in Cert \cup {NoCert},
           Decide(c, s, cert)
    PROVE  /\ mem' \in [Server -> Cert \cup {NoCert}]
           /\ pending' \in [Server -> Attempt \cup {NoAttempt}]
           /\ attempt' \in [Attempt -> AttemptState]
           /\ deleting' \subseteq Attempt
           /\ call' \in [Call -> CallState]
           /\ lapsed' \subseteq Server
<1> USE Sentinels
<1>1. CASE RenewExpired(c, s, cert)
  BY <1>1, StartAttemptType, WaitForType DEF TypeOK, RenewExpired
<1>2. CASE RenewAhead(c, s, cert)
  BY <1>2, StartAttemptType, AnswerType DEF TypeOK, RenewAhead, RenewUnlessPending
<1>3. CASE UseCached(c, s, cert)
  BY <1>3, AnswerType DEF TypeOK, UseCached
<1>4. CASE IssueMissing(c, s, cert)
  BY <1>4, StartAttemptType, WaitForType DEF TypeOK, IssueMissing
<1> QED
  BY <1>1, <1>2, <1>3, <1>4 DEF Decide


\* The unused slots have the shape of slots.
LEMMA FreeTypes ==
    /\ FreeAttempt \in AttemptState
    /\ IdleCall \in CallState
BY DEF FreeAttempt, IdleCall, AttemptState, CallState

\* Caching an issued certificate and resolving its waiters keeps the shape of the state
\* (acme.ts:188-191).
LEMMA CacheCertType ==
    ASSUME TypeOK, UNCHANGED options, NEW a \in Attempt, NEW cert \in Cert, InFlight(a),
           CacheCert(a, cert)
    PROVE  TypeOK'
<1>1. attempt[a].srv \in Server /\ attempt[a] \in AttemptState
  BY DEF TypeOK, InFlight, AttemptState
<1>2. attempt' \in [Attempt -> AttemptState]
  BY <1>1 DEF CacheCert, TypeOK, AttemptState
<1>3. call' \in [Call -> CallState]
  <2> SUFFICES ASSUME NEW c \in Call PROVE call'[c] \in CallState
    BY DEF CacheCert, ResolveWaiters
  <2>1. call[c] \in CallState
    BY DEF TypeOK
  <2>2. CASE Waiting(c) /\ call[c].on = a
    <3>1. call'[c] = [st |-> "answered", srv |-> call[c].srv, val |-> cert, on |-> NoAttempt]
      BY <2>1, <2>2 DEF CacheCert, ResolveWaiters, CallState
    <3> QED
      BY <2>1, <2>2, <3>1 DEF Waiting, CallState
  <2>3. CASE ~(Waiting(c) /\ call[c].on = a)
    BY <2>1, <2>3 DEF CacheCert, ResolveWaiters
  <2> QED
    BY <2>2, <2>3
<1> QED
  BY <1>1, <1>2, <1>3 DEF CacheCert, ForgetPending, TypeOK

\* A fleet that has just booted, from any record, has the shape TypeOK.
THEOREM InitType == Init => TypeOK
<1> SUFFICES ASSUME Init PROVE TypeOK
  OBVIOUS
<1>1. store \in Cert \cup {NoCert}
  BY KnownOptions, Bounds DEF Init, Cert, RevokedMode
<1> QED
  BY <1>1, FreeTypes DEF Init, TypeOK

\* Every handler keeps the shape of the state.
THEOREM NextType == TypeOK /\ [Next]_vars => TypeOK'
<1> SUFFICES ASSUME TypeOK, [Next]_vars PROVE TypeOK'
  OBVIOUS
<1>0. UNCHANGED options
  BY DEF Next, vars
<1> USE Sentinels, <1>0
<1>1. ASSUME NEW c \in Call, NEW s \in Server, GetCertificate(c, s) PROVE TypeOK'
  <2>1. used' \in [calls: Nat, failures: Nat, crashes: Nat]
    BY <1>1 DEF GetCertificate, TypeOK
  <2>2. CASE mem[s] # NoCert /\ Decide(c, s, mem[s])
    BY <1>1, <2>1, <2>2, DecideType DEF GetCertificate, TypeOK
  <2>3. CASE ~(mem[s] # NoCert /\ Decide(c, s, mem[s]))
    BY <1>1, <2>1, <2>3 DEF GetCertificate, TypeOK, CallState
  <2> QED
    BY <2>2, <2>3
<1>2. ASSUME NEW c \in Call, CallStep(c) PROVE TypeOK'
  <2>1. CASE ReadStore(c)
    <3>1. call[c] \in [st: {"reading"}, srv: Server, val: {NoCert}, on: {NoAttempt}]
      BY <2>1 DEF ReadStore, TypeOK, CallState
    <3>2. [call[c] EXCEPT !.st = "read", !.val = store] \in CallState
      BY <3>1 DEF TypeOK, CallState
    <3> QED
      BY <2>1, <3>2 DEF ReadStore, TypeOK
  <2>2. CASE FetchCert(c)
    <3>1. call[c].srv \in Server /\ call[c].val \in Cert \cup {NoCert}
      BY <2>2 DEF FetchCert, TypeOK, CallState
    <3> QED
      BY <2>2, <3>1, DecideType DEF FetchCert, TypeOK
  <2>3. CASE ReadFails(c)
    BY <2>3, FreeTypes DEF ReadFails, Failure, TypeOK
  <2> QED
    BY <1>2, <2>1, <2>2, <2>3 DEF CallStep
<1>3. ASSUME NEW a \in Attempt, AttemptStep(a) PROVE TypeOK'
  <2>1. attempt[a] \in AttemptState
    BY DEF TypeOK
  <2>2. CASE Issue(a)
    <3>1. [exp |-> clock + Life, rev |-> FALSE] \in Cert
      BY Bounds DEF TypeOK, Cert
    <3> QED
      BY <2>1, <2>2, <3>1 DEF Issue, TypeOK, AttemptState
  <2>3. CASE Fail(a)
    <3>1. attempt[a].srv \in Server
      BY <2>1, <2>3 DEF Fail, InFlight, AttemptState
    <3>2. [attempt[a] EXCEPT !.st = "requesting", !.cert = NoCert] \in AttemptState
      BY <2>1, <3>1 DEF AttemptState
    <3>3. attempt' \in [Attempt -> AttemptState]
      BY <2>3, <3>2 DEF Fail, TypeOK
    <3> QED
      BY <2>3, <3>1, <3>3 DEF Fail, Failure, TypeOK
  <2>4. CASE Superseded(a)
    <3>1. attempt[a].srv \in Server
      BY <2>1, <2>4 DEF Superseded, AttemptState
    <3>2. pending[attempt[a].srv] \in Attempt
      BY <2>4, <3>1 DEF Superseded, TypeOK
    <3>3. call' \in [Call -> CallState]
      BY <2>4, <3>2 DEF Superseded, HandOver, Waiting, TypeOK, CallState
    <3> QED
      BY <2>4, <3>3, FreeTypes DEF Superseded, TypeOK
  <2>5. CASE Complete(a)
    BY <2>1, <2>5, CacheCertType DEF Complete, InFlight, AttemptState
  <2>6. CASE StartRevoking(a)
    BY <2>1, <2>6 DEF StartRevoking, TypeOK, AttemptState
  <2>7. CASE Revoked(a)
    <3>1. [attempt[a].cert EXCEPT !.rev = TRUE] \in Cert
      BY <2>1, <2>7 DEF Revoked, AttemptState, Cert
    <3> QED
      BY <2>7, <3>1, CacheCertType DEF Revoked, InFlight
  <2> QED
    BY <1>3, <2>2, <2>3, <2>4, <2>5, <2>6, <2>7 DEF AttemptStep
<1>4. ASSUME NEW a \in Attempt, StoreStep(a) PROVE TypeOK'
  <2>1. CASE WriteLands(a)
    BY <2>1, FreeTypes DEF WriteLands, TypeOK, AttemptState
  <2>2. CASE WriteFails(a)
    BY <2>2, FreeTypes DEF WriteFails, Failure, TypeOK
  <2>3. CASE DeleteLands(a)
    BY <2>3 DEF DeleteLands, TypeOK
  <2>4. CASE DeleteFails(a)
    BY <2>4 DEF DeleteFails, Failure, TypeOK
  <2> QED
    BY <1>4, <2>1, <2>2, <2>3, <2>4 DEF StoreStep
<1>5. ASSUME NEW s \in Server, Crash(s) PROVE TypeOK'
  <2>1. attempt' \in [Attempt -> AttemptState] /\ call' \in [Call -> CallState]
    BY <1>5, FreeTypes DEF Crash, TypeOK
  <2> QED
    BY <1>5, <2>1 DEF Crash, TypeOK
<1>6. ASSUME NEW s \in Server, LoadCache(s) PROVE TypeOK'
  BY <1>6 DEF LoadCache, TypeOK
<1>7. CASE Tick
  BY <1>7 DEF Tick, TypeOK
<1>8. CASE UNCHANGED vars
  BY <1>8 DEF vars, TypeOK
<1> QED
  BY <1>1, <1>2, <1>3, <1>4, <1>5, <1>6, <1>7, <1>8
     DEF Next, Step, TryGetCertificateSync, WaitForCertificate, Rest

\* The state keeps its shape.
THEOREM TypeCorrect == Spec => []TypeOK
BY InitType, NextType, PTL DEF Spec


-----------------------------------------------------------------------------
(***************************************************************************)
(* No promise is left behind: PendingIsLive and WaitersOnLiveAttempt are   *)
(* inductive together.  A coalescing caller takes its attempt from         *)
(* pending, and a superseded attempt hands its waiters to it, so the       *)
(* second needs the first.                                                 *)
(***************************************************************************)
Live == PendingIsLive /\ WaitersOnLiveAttempt

\* A new issuance is in flight on the server whose pending entry it becomes, and stops
\* no other (acme.ts:167-199).
LEMMA StartAttemptLive ==
    ASSUME TypeOK, Live, NEW a \in Attempt, NEW s \in Server, StartAttempt(a, s)
    PROVE  /\ PendingIsLive'
           /\ InFlight(a)' /\ attempt'[a].srv = s
           /\ \A b \in Attempt : InFlight(b) => InFlight(b)' /\ attempt'[b] = attempt[b]
BY Sentinels DEF TypeOK, Live, PendingIsLive, StartAttempt, InFlight

\* A call that is answered waits for nothing; the others wait as they did.
LEMMA AnswerLive ==
    ASSUME TypeOK, WaitersOnLiveAttempt, NEW c \in Call, NEW s \in Server,
           NEW cert \in Cert \cup {NoCert}, Answer(c, s, cert),
           \A b \in Attempt : InFlight(b) => InFlight(b)' /\ attempt'[b] = attempt[b]
    PROVE  WaitersOnLiveAttempt'
BY DEF TypeOK, WaitersOnLiveAttempt, Waiting, Answer, CallState

\* A call may join whatever is in flight on its server (acme.ts:163-165).
LEMMA WaitForLive ==
    ASSUME TypeOK, WaitersOnLiveAttempt, NEW c \in Call, NEW s \in Server,
           NEW a \in Attempt, WaitFor(c, s, a),
           InFlight(a)', attempt'[a].srv = s,
           \A b \in Attempt : InFlight(b) => InFlight(b)' /\ attempt'[b] = attempt[b]
    PROVE  WaitersOnLiveAttempt'
BY DEF TypeOK, WaitersOnLiveAttempt, Waiting, WaitFor, CallState

\* The four outcomes of fetchCert leave no call on an issuance that has ended
\* (acme.ts:113-199).
LEMMA DecideLive ==
    ASSUME TypeOK, Live, NEW c \in Call, NEW s \in Server, NEW cert \in Cert \cup {NoCert},
           Decide(c, s, cert)
    PROVE  Live'
<1> USE DEF Live
<1>1. CASE RenewExpired(c, s, cert)
  BY <1>1, StartAttemptLive, WaitForLive DEF RenewExpired
<1>2. CASE RenewAhead(c, s, cert)
  <2>1. CASE pending[s] = NoAttempt /\ \E a \in Attempt : StartAttempt(a, s)
    BY <1>2, <2>1, StartAttemptLive, AnswerLive DEF RenewAhead
  <2>2. CASE UNCHANGED <<attempt, pending>>
    <3>1. WaitersOnLiveAttempt'
      BY <1>2, <2>2, AnswerLive DEF RenewAhead, InFlight
    <3> QED
      BY <2>2, <3>1 DEF PendingIsLive, InFlight
  <2> QED
    BY <1>2, <2>1, <2>2 DEF RenewAhead, RenewUnlessPending
<1>3. CASE UseCached(c, s, cert)
  <2>1. WaitersOnLiveAttempt'
    BY <1>3, AnswerLive DEF UseCached, InFlight
  <2> QED
    BY <1>3, <2>1 DEF UseCached, PendingIsLive, InFlight
<1>4. CASE IssueMissing(c, s, cert)
  <2>1. CASE pending[s] # NoAttempt /\ WaitFor(c, s, pending[s])
              /\ UNCHANGED <<attempt, pending>>
    <3>1. pending[s] \in Attempt /\ InFlight(pending[s]) /\ attempt[pending[s]].srv = s
      BY <2>1 DEF TypeOK, PendingIsLive
    <3>2. WaitersOnLiveAttempt'
      BY <2>1, <3>1, WaitForLive DEF InFlight
    <3> QED
      BY <2>1, <3>2 DEF PendingIsLive, InFlight
  <2>2. CASE \E a \in Attempt : StartAttempt(a, s) /\ WaitFor(c, s, a)
    BY <2>2, StartAttemptLive, WaitForLive
  <2> QED
    BY <1>4, <2>1, <2>2 DEF IssueMissing
<1> QED
  BY <1>1, <1>2, <1>3, <1>4 DEF Decide

\* An issuance ends as it forgets the pending entry of its own server and resolves its
\* own waiters; no other entry and no other waiter names it (acme.ts:188-191).
LEMMA CacheCertLive ==
    ASSUME TypeOK, Live, NEW a \in Attempt, NEW cert \in Cert, InFlight(a), CacheCert(a, cert)
    PROVE  Live'
<1> DEFINE s == attempt[a].srv
<1>1. s \in Server /\ attempt[a] \in AttemptState
  BY DEF TypeOK, InFlight, AttemptState
<1>2. \A b \in Attempt : b # a => attempt'[b] = attempt[b]
  BY DEF TypeOK, CacheCert
<1>3. PendingIsLive'
  <2> SUFFICES ASSUME NEW t \in Server, pending'[t] # NoAttempt
               PROVE  InFlight(pending[t])' /\ attempt'[pending'[t]].srv = t
    BY DEF PendingIsLive
  <2>1. t # s /\ pending'[t] = pending[t]
    BY <1>1 DEF TypeOK, CacheCert, ForgetPending
  <2>2. pending[t] \in Attempt /\ InFlight(pending[t]) /\ attempt[pending[t]].srv = t
    BY <2>1 DEF Live, PendingIsLive, TypeOK
  <2>3. pending[t] # a
    BY <2>1, <2>2
  <2> QED
    BY <1>2, <2>1, <2>2, <2>3 DEF InFlight
<1>4. WaitersOnLiveAttempt'
  <2> SUFFICES ASSUME NEW c \in Call, Waiting(c)'
               PROVE  InFlight(call[c].on)' /\ attempt'[call'[c].on].srv = call'[c].srv
    BY DEF WaitersOnLiveAttempt
  <2>1. call[c] \in CallState
    BY DEF TypeOK
  <2>2. ~(Waiting(c) /\ call[c].on = a)
    BY <2>1 DEF Waiting, CacheCert, ResolveWaiters, CallState
  <2>3. call'[c] = call[c]
    BY <2>2 DEF CacheCert, ResolveWaiters
  <2>4. Waiting(c) /\ call[c].on \in Attempt /\ call[c].on # a
    BY <2>1, <2>2, <2>3, Sentinels DEF Waiting, CallState
  <2> QED
    BY <1>2, <2>3, <2>4 DEF Live, WaitersOnLiveAttempt, InFlight, Waiting
<1> QED
  BY <1>3, <1>4 DEF Live


\* Every handler keeps pending entries and waiters on issuances in flight.
THEOREM NextLive == TypeOK /\ Live /\ [Next]_vars => Live'
<1> SUFFICES ASSUME TypeOK, Live, [Next]_vars PROVE Live'
  OBVIOUS
<1> USE DEF Live
<1>1. ASSUME UNCHANGED <<pending, attempt, call>> PROVE Live'
  BY <1>1 DEF PendingIsLive, WaitersOnLiveAttempt, InFlight, Waiting
<1>2. ASSUME NEW c \in Call, NEW s \in Server, GetCertificate(c, s) PROVE Live'
  <2>1. CASE mem[s] # NoCert /\ Decide(c, s, mem[s])
    BY <2>1, DecideLive DEF TypeOK
  <2>2. CASE ~(mem[s] # NoCert /\ Decide(c, s, mem[s]))
    BY <1>2, <2>2 DEF GetCertificate, TypeOK, PendingIsLive, WaitersOnLiveAttempt,
                      InFlight, Waiting, CallState
  <2> QED
    BY <2>1, <2>2
<1>3. ASSUME NEW c \in Call, CallStep(c) PROVE Live'
  <2>1. CASE ReadStore(c)
    BY <2>1 DEF ReadStore, TypeOK, PendingIsLive, WaitersOnLiveAttempt, InFlight, Waiting,
                CallState
  <2>2. CASE FetchCert(c)
    <3>1. call[c].srv \in Server /\ call[c].val \in Cert \cup {NoCert}
      BY <2>2 DEF FetchCert, TypeOK, CallState
    <3> QED
      BY <2>2, <3>1, DecideLive DEF FetchCert
  <2>3. CASE ReadFails(c)
    BY <2>3 DEF ReadFails, TypeOK, PendingIsLive, WaitersOnLiveAttempt, InFlight, Waiting,
                IdleCall
  <2> QED
    BY <1>3, <2>1, <2>2, <2>3 DEF CallStep
<1>4. ASSUME NEW a \in Attempt, AttemptStep(a) PROVE Live'
  <2>1. attempt[a] \in AttemptState
    BY DEF TypeOK
  <2>2. ASSUME Issue(a) \/ StartRevoking(a) PROVE Live'
    <3>1. \A b \in Attempt : attempt'[b].srv = attempt[b].srv /\ (InFlight(b) => InFlight(b)')
      <4>1. CASE Issue(a)
        BY <2>1, <4>1 DEF Issue, TypeOK, InFlight, AttemptState
      <4>2. CASE StartRevoking(a)
        BY <2>1, <4>2 DEF StartRevoking, TypeOK, InFlight, AttemptState
      <4> QED
        BY <2>2, <4>1, <4>2
    <3> QED
      BY <2>2, <3>1, Sentinels DEF Issue, StartRevoking, TypeOK, PendingIsLive,
                                   WaitersOnLiveAttempt, InFlight, Waiting, CallState
  <2>3. CASE Fail(a)
    <3>1. attempt[a].srv \in Server
      BY <2>1, <2>3 DEF Fail, InFlight, AttemptState
    <3>2. \A b \in Attempt : attempt'[b].srv = attempt[b].srv /\ (InFlight(b) => InFlight(b)')
      BY <2>3 DEF Fail, TypeOK, InFlight, AttemptState
    <3>3. InFlight(a)'
      BY <2>3, <3>2 DEF Fail
    <3>4. PendingIsLive'
      BY <2>3, <3>1, <3>2, <3>3 DEF Fail, TypeOK, PendingIsLive, InFlight
    <3>5. WaitersOnLiveAttempt'
      BY <2>3, <3>2, Sentinels DEF Fail, TypeOK, WaitersOnLiveAttempt, InFlight, Waiting,
                                   CallState
    <3> QED
      BY <3>4, <3>5
  <2>4. CASE Superseded(a)
    <3> DEFINE current == pending[attempt[a].srv]
    <3>1. attempt[a].srv \in Server
      BY <2>1, <2>4 DEF Superseded, AttemptState
    <3>2. current \in Attempt /\ current # a /\ InFlight(current)
            /\ attempt[current].srv = attempt[a].srv
      BY <2>4, <3>1 DEF Superseded, TypeOK, PendingIsLive
    <3>3. \A b \in Attempt : b # a => attempt'[b] = attempt[b]
      BY <2>4 DEF Superseded, TypeOK
    <3>4. PendingIsLive'
      BY <2>4, <3>2, <3>3 DEF Superseded, TypeOK, PendingIsLive, InFlight
    <3>5. WaitersOnLiveAttempt'
      <4> SUFFICES ASSUME NEW c \in Call, Waiting(c)'
                   PROVE  InFlight(call[c].on)' /\ attempt'[call'[c].on].srv = call'[c].srv
        BY DEF WaitersOnLiveAttempt
      <4>1. call[c] \in CallState
        BY DEF TypeOK
      <4>2. CASE Waiting(c) /\ call[c].on = a
        <5>1. call'[c] = [call[c] EXCEPT !.on = current]
          BY <2>4, <4>2 DEF Superseded, HandOver
        <5>2. call'[c].on = current /\ call'[c].srv = call[c].srv
          BY <4>1, <5>1 DEF CallState
        <5> QED
          BY <3>2, <3>3, <4>2, <5>2 DEF WaitersOnLiveAttempt, InFlight
      <4>3. CASE ~(Waiting(c) /\ call[c].on = a)
        <5>1. call'[c] = call[c]
          BY <2>4, <4>3 DEF Superseded, HandOver
        <5>2. Waiting(c) /\ call[c].on \in Attempt /\ call[c].on # a
          BY <4>1, <4>3, <5>1, Sentinels DEF Waiting, CallState
        <5> QED
          BY <3>3, <5>1, <5>2 DEF WaitersOnLiveAttempt, InFlight
      <4> QED
        BY <4>2, <4>3
    <3> QED
      BY <3>4, <3>5
  <2>5. CASE Complete(a)
    BY <2>1, <2>5, CacheCertLive DEF Complete, InFlight, AttemptState
  <2>6. CASE Revoked(a)
    <3>1. [attempt[a].cert EXCEPT !.rev = TRUE] \in Cert
      BY <2>1, <2>6 DEF Revoked, AttemptState, Cert
    <3> QED
      BY <2>6, <3>1, CacheCertLive DEF Revoked, InFlight
  <2> QED
    BY <1>4, <2>2, <2>3, <2>4, <2>5, <2>6 DEF AttemptStep
<1>5. ASSUME NEW a \in Attempt, StoreStep(a) PROVE Live'
  <2>1. \A b \in Attempt : InFlight(b) => InFlight(b)' /\ attempt'[b] = attempt[b]
    BY <1>5 DEF StoreStep, WriteLands, WriteFails, DeleteLands, DeleteFails, TypeOK, InFlight
  <2> QED
    BY <1>5, <2>1, Sentinels
       DEF StoreStep, WriteLands, WriteFails, DeleteLands, DeleteFails, TypeOK,
           PendingIsLive, WaitersOnLiveAttempt, Waiting, CallState
<1>6. ASSUME NEW s \in Server, Crash(s) PROVE Live'
  <2>1. \A b \in Attempt : InFlight(b) /\ attempt[b].srv # s
                              => InFlight(b)' /\ attempt'[b] = attempt[b]
    BY <1>6 DEF Crash, InFlight
  <2>2. PendingIsLive'
    BY <1>6, <2>1 DEF Crash, TypeOK, PendingIsLive
  <2>3. WaitersOnLiveAttempt'
    BY <1>6, <2>1, Sentinels DEF Crash, TypeOK, WaitersOnLiveAttempt, Waiting, CallState, IdleCall
  <2> QED
    BY <2>2, <2>3
<1>7. ASSUME NEW s \in Server, LoadCache(s) PROVE Live'
  BY <1>1, <1>7 DEF LoadCache
<1>8. CASE Tick
  BY <1>1, <1>8 DEF Tick
<1>9. CASE UNCHANGED vars
  BY <1>1, <1>9 DEF vars
<1> QED
  BY <1>2, <1>3, <1>4, <1>5, <1>6, <1>7, <1>8, <1>9
     DEF Next, Step, TryGetCertificateSync, WaitForCertificate, Rest

\* When the servers boot nothing is pending and nobody waits (cert-cache.ts:45-60).
LEMMA InitLive == Init => Live
BY DEF Init, Live, PendingIsLive, WaitersOnLiveAttempt, Waiting, IdleCall

\* A pending entry, and whatever a caller waits for, is an issuance in flight on the
\* same server: no caller coalesces onto a promise that nothing will settle.
THEOREM PendingAlwaysLive == Spec => [](PendingIsLive /\ WaitersOnLiveAttempt)
BY InitType, NextType, InitLive, NextLive, PTL DEF Spec, Live

\* No call waits for an issuance that has ended, whatever superseded what (acme.ts:164, 181, 194).
THEOREM WaitersLive == Spec => []WaitersOnLiveAttempt
<1>1. PendingIsLive /\ WaitersOnLiveAttempt => WaitersOnLiveAttempt
  OBVIOUS
<1> QED
  BY <1>1, PendingAlwaysLive, PTL

-----------------------------------------------------------------------------
(***************************************************************************)
(* SingleFlight follows from: on a server that has met no expired          *)
(* certificate since it booted, every issuance in flight is the pending    *)
(* one.                                                                    *)
(***************************************************************************)
FlightIsPending ==
    \A a \in Attempt : InFlight(a) /\ attempt[a].srv \notin lapsed => pending[attempt[a].srv] = a

\* An issuance started while none was pending is the only one, and the pending one
\* (acme.ts:130, 153-165).
LEMMA StartAttemptFlight ==
    ASSUME TypeOK, FlightIsPending, NEW a \in Attempt, NEW s \in Server, StartAttempt(a, s),
           lapsed' = lapsed, pending[s] = NoAttempt
    PROVE  FlightIsPending'
BY Sentinels DEF TypeOK, FlightIsPending, StartAttempt, InFlight

\* Only the outcome for an expired certificate forces a second issuance, on a server that
\* has then lapsed (acme.ts:117-125).
LEMMA DecideFlight ==
    ASSUME TypeOK, FlightIsPending, NEW c \in Call, NEW s \in Server,
           NEW cert \in Cert \cup {NoCert}, Decide(c, s, cert)
    PROVE  FlightIsPending'
<1>1. CASE RenewExpired(c, s, cert)
  BY <1>1 DEF TypeOK, RenewExpired, StartAttempt, FlightIsPending, InFlight
<1>2. CASE RenewAhead(c, s, cert)
  BY <1>2, StartAttemptFlight DEF RenewAhead, RenewUnlessPending, FlightIsPending, InFlight
<1>3. CASE UseCached(c, s, cert)
  BY <1>3 DEF UseCached, FlightIsPending, InFlight
<1>4. CASE IssueMissing(c, s, cert)
  BY <1>4, StartAttemptFlight DEF IssueMissing, FlightIsPending, InFlight
<1> QED
  BY <1>1, <1>2, <1>3, <1>4 DEF Decide

\* Forgetting the pending entry is harmless, as the issuance it named ends with it
\* (acme.ts:188).
LEMMA CacheCertFlight ==
    ASSUME TypeOK, FlightIsPending, NEW a \in Attempt, NEW cert \in Cert, InFlight(a),
           CacheCert(a, cert)
    PROVE  FlightIsPending'
<1>1. attempt[a] \in AttemptState /\ attempt[a].srv \in Server
  BY DEF TypeOK, InFlight, AttemptState
<1>2. ~InFlight(a)' /\ \A b \in Attempt : b # a => attempt'[b] = attempt[b]
  BY <1>1 DEF CacheCert, TypeOK, InFlight, AttemptState
<1> QED
  BY <1>1, <1>2 DEF CacheCert, ForgetPending, TypeOK, FlightIsPending, InFlight, AttemptState

\* When the servers boot no issuance is in flight.
LEMMA InitFlight == Init => FlightIsPending
BY DEF Init, FlightIsPending, InFlight, FreeAttempt

\* Every handler keeps the issuances of a server that has not lapsed pending, the retries
\* after a failure included (acme.ts:192-195).
THEOREM NextFlight == TypeOK /\ FlightIsPending /\ [Next]_vars => FlightIsPending'
<1> SUFFICES ASSUME TypeOK, FlightIsPending, [Next]_vars PROVE FlightIsPending'
  OBVIOUS
<1>1. ASSUME UNCHANGED <<pending, attempt, lapsed>> PROVE FlightIsPending'
  BY <1>1 DEF FlightIsPending, InFlight
<1>2. ASSUME NEW c \in Call, NEW s \in Server, GetCertificate(c, s) PROVE FlightIsPending'
  BY <1>1, <1>2, DecideFlight DEF GetCertificate, TypeOK
<1>3. ASSUME NEW c \in Call, CallStep(c) PROVE FlightIsPending'
  <2>1. CASE FetchCert(c)
    <3>1. call[c].srv \in Server /\ call[c].val \in Cert \cup {NoCert}
      BY <2>1 DEF FetchCert, TypeOK, CallState
    <3> QED
      BY <2>1, <3>1, DecideFlight DEF FetchCert
  <2> QED
    BY <1>1, <1>3, <2>1 DEF CallStep, ReadStore, ReadFails
<1>4. ASSUME NEW a \in Attempt, AttemptStep(a) PROVE FlightIsPending'
  <2>1. attempt[a] \in AttemptState
    BY DEF TypeOK
  <2>2. CASE Issue(a)
    BY <2>1, <2>2 DEF Issue, TypeOK, FlightIsPending, InFlight, AttemptState
  <2>3. CASE StartRevoking(a)
    BY <2>1, <2>3 DEF StartRevoking, TypeOK, FlightIsPending, InFlight, AttemptState
  <2>4. CASE Fail(a)
    <3>1. attempt[a].srv \in Server
      BY <2>1, <2>4 DEF Fail, InFlight, AttemptState
    <3>2. \A b \in Attempt : attempt'[b].srv = attempt[b].srv /\ (b # a => attempt'[b] = attempt[b])
      BY <2>1, <2>4 DEF Fail, TypeOK, AttemptState
    <3>3. \A b \in Attempt : InFlight(b) /\ b # a /\ attempt[b].srv = attempt[a].srv
                                => attempt[a].srv \in lapsed
      BY <2>4 DEF Fail, FlightIsPending
    <3> QED
      BY <2>4, <3>1, <3>2, <3>3 DEF Fail, TypeOK, FlightIsPending, InFlight
  <2>5. CASE Superseded(a)
    BY <2>5 DEF Superseded, FreeAttempt, TypeOK, FlightIsPending, InFlight
  <2>6. CASE Complete(a)
    BY <2>1, <2>6, CacheCertFlight DEF Complete, InFlight, AttemptState
  <2>7. CASE Revoked(a)
    <3>1. [attempt[a].cert EXCEPT !.rev = TRUE] \in Cert
      BY <2>1, <2>7 DEF Revoked, AttemptState, Cert
    <3> QED
      BY <2>7, <3>1, CacheCertFlight DEF Revoked, InFlight
  <2> QED
    BY <1>4, <2>2, <2>3, <2>4, <2>5, <2>6, <2>7 DEF AttemptStep
<1>5. ASSUME NEW a \in Attempt, StoreStep(a) PROVE FlightIsPending'
  BY <1>5 DEF StoreStep, WriteLands, WriteFails, DeleteLands, DeleteFails, FreeAttempt,
              TypeOK, FlightIsPending, InFlight
<1>6. ASSUME NEW s \in Server, Crash(s) PROVE FlightIsPending'
  BY <1>6 DEF Crash, FreeAttempt, TypeOK, FlightIsPending, InFlight
<1>7. ASSUME NEW s \in Server, LoadCache(s) PROVE FlightIsPending'
  BY <1>1, <1>7 DEF LoadCache
<1>8. CASE Tick \/ UNCHANGED vars
  BY <1>1, <1>8 DEF Tick, vars
<1> QED
  BY <1>2, <1>3, <1>4, <1>5, <1>6, <1>7, <1>8
     DEF Next, Step, TryGetCertificateSync, WaitForCertificate, Rest

\* Until it meets an expired certificate a server has one issuance in flight at most.
THEOREM OneInFlight == Spec => []SingleFlight
<1>1. TypeOK /\ FlightIsPending => SingleFlight
  BY DEF FlightIsPending, SingleFlight
<1> QED
  BY <1>1, InitType, NextType, InitFlight, NextFlight, PTL DEF Spec


-----------------------------------------------------------------------------
(***************************************************************************)
(* RevokedBeforeUse is inductive: a certificate reaches a cache only from  *)
(* Revoked, from the store, or from another cache.                         *)
(***************************************************************************)
\* The outcomes of fetchCert move a certificate from a cache or the store to a cache or
\* a caller, and never mint one (acme.ts:113-165).
LEMMA DecideRevoked ==
    ASSUME TypeOK, RevokedBeforeUse, RevokedMode, NEW c \in Call, NEW s \in Server,
           NEW cert \in Cert \cup {NoCert}, cert # NoCert => cert.rev, Decide(c, s, cert)
    PROVE  /\ \A t \in Server : mem'[t] # NoCert => mem'[t].rev
           /\ \A a \in Attempt : attempt'[a].st = "storing" => attempt'[a].cert.rev
           /\ \A d \in Call : call'[d].st \in {"read", "answered"} /\ call'[d].val # NoCert
                                 => call'[d].val.rev
<1>1. CASE RenewExpired(c, s, cert)
  BY <1>1 DEF RenewExpired, StartAttempt, WaitFor, TypeOK, RevokedBeforeUse
<1>2. CASE RenewAhead(c, s, cert)
  BY <1>2 DEF RenewAhead, RenewUnlessPending, StartAttempt, Answer, TypeOK, RevokedBeforeUse
<1>3. CASE UseCached(c, s, cert)
  BY <1>3 DEF UseCached, Answer, TypeOK, RevokedBeforeUse
<1>4. CASE IssueMissing(c, s, cert)
  BY <1>4 DEF IssueMissing, StartAttempt, WaitFor, TypeOK, RevokedBeforeUse
<1> QED
  BY <1>1, <1>2, <1>3, <1>4 DEF Decide

\* Caching and handing out a revoked certificate is all cacheCert does (cert-cache.ts:62-71).
LEMMA CacheCertRevoked ==
    ASSUME TypeOK, RevokedBeforeUse, RevokedMode, NEW a \in Attempt, NEW cert \in Cert, cert.rev,
           InFlight(a), CacheCert(a, cert)
    PROVE  RevokedBeforeUse'
<1>1. attempt[a] \in AttemptState /\ attempt[a].srv \in Server
  BY DEF TypeOK, InFlight, AttemptState
<1>2. attempt'[a].cert = cert /\ \A b \in Attempt : b # a => attempt'[b] = attempt[b]
  BY <1>1 DEF CacheCert, TypeOK, AttemptState
<1>3. \A t \in Server : mem'[t] = cert \/ mem'[t] = mem[t]
  BY DEF CacheCert, TypeOK
<1>4. ASSUME NEW c \in Call PROVE call'[c].val = cert \/ call'[c] = call[c]
  <2>1. call[c] \in CallState
    BY DEF TypeOK
  <2> QED
    BY <2>1 DEF CacheCert, ResolveWaiters, CallState
<1>5. store' = store
  BY DEF CacheCert
<1> QED
  BY <1>2, <1>3, <1>4, <1>5 DEF RevokedBeforeUse

\* The records an earlier run left under a revoked key are revoked.
LEMMA InitRevoked == Init => RevokedBeforeUse
<1> SUFFICES ASSUME Init, RevokedMode PROVE RevokedBeforeUse
  BY DEF RevokedBeforeUse
<1>1. store # NoCert => store.rev = RevokedMode
  BY DEF Init
<1>2. store # NoCert => store.rev
  BY <1>1, Zenon
<1>3. \A s \in Server : mem[s] # NoCert => mem[s].rev
  BY <1>2 DEF Init
<1> QED
  BY <1>2, <1>3 DEF Init, RevokedBeforeUse, FreeAttempt, IdleCall

\* Every handler keeps unrevoked certificates out of caches, store and answers.
THEOREM NextRevoked == TypeOK /\ RevokedBeforeUse /\ [Next]_vars => RevokedBeforeUse'
<1>0. [Next]_vars /\ RevokedMode' => RevokedMode
  BY DEF Next, vars, RevokedMode
<1> SUFFICES ASSUME TypeOK, RevokedBeforeUse, [Next]_vars, RevokedMode
             PROVE  RevokedBeforeUse'
  BY <1>0 DEF RevokedBeforeUse
<1>1. ASSUME UNCHANGED <<mem, store, attempt, call>> PROVE RevokedBeforeUse'
  BY <1>1 DEF RevokedBeforeUse
<1>2. ASSUME NEW c \in Call, NEW s \in Server, GetCertificate(c, s) PROVE RevokedBeforeUse'
  <2>1. CASE mem[s] # NoCert /\ Decide(c, s, mem[s])
    <3>1. mem[s] \in Cert \cup {NoCert} /\ mem[s].rev
      BY <2>1 DEF TypeOK, RevokedBeforeUse
    <3> QED
      BY <1>2, <2>1, <3>1, DecideRevoked DEF GetCertificate, RevokedBeforeUse
  <2>2. CASE ~(mem[s] # NoCert /\ Decide(c, s, mem[s]))
    BY <1>2, <2>2 DEF GetCertificate, TypeOK, RevokedBeforeUse
  <2> QED
    BY <2>1, <2>2
<1>3. ASSUME NEW c \in Call, CallStep(c) PROVE RevokedBeforeUse'
  <2>1. call[c] \in CallState
    BY DEF TypeOK
  <2>2. CASE ReadStore(c)
    <3>1. call'[c].val = store /\ \A d \in Call : d # c => call'[d] = call[d]
      BY <2>1, <2>2 DEF ReadStore, TypeOK, CallState
    <3> QED
      BY <2>2, <3>1 DEF ReadStore, RevokedBeforeUse
  <2>3. CASE FetchCert(c)
    <3>1. call[c].srv \in Server /\ call[c].val \in Cert \cup {NoCert}
            /\ (call[c].val # NoCert => call[c].val.rev)
      BY <2>3 DEF FetchCert, TypeOK, CallState, RevokedBeforeUse
    <3> QED
      BY <2>3, <3>1, DecideRevoked DEF FetchCert, RevokedBeforeUse
  <2>4. CASE ReadFails(c)
    BY <2>4 DEF ReadFails, IdleCall, TypeOK, RevokedBeforeUse
  <2> QED
    BY <1>3, <2>2, <2>3, <2>4 DEF CallStep
<1>4. ASSUME NEW a \in Attempt, AttemptStep(a) PROVE RevokedBeforeUse'
  <2>1. attempt[a] \in AttemptState
    BY DEF TypeOK
  <2>2. CASE Issue(a)
    BY <2>1, <2>2 DEF Issue, TypeOK, AttemptState, RevokedBeforeUse
  <2>3. CASE Fail(a)
    BY <2>1, <2>3 DEF Fail, TypeOK, AttemptState, RevokedBeforeUse
  <2>4. CASE Superseded(a)
    <3>1. ASSUME NEW c \in Call PROVE call'[c].val = call[c].val /\ call'[c].st = call[c].st
      <4>1. call[c] \in CallState
        BY DEF TypeOK
      <4> QED
        BY <2>4, <4>1 DEF Superseded, HandOver, CallState
    <3> QED
      BY <2>4, <3>1 DEF Superseded, FreeAttempt, TypeOK, RevokedBeforeUse
  <2>5. CASE Complete(a)
    BY <2>5 DEF Complete
  <2>6. CASE StartRevoking(a)
    BY <2>1, <2>6 DEF StartRevoking, TypeOK, AttemptState, RevokedBeforeUse
  <2>7. CASE Revoked(a)
    <3>1. [attempt[a].cert EXCEPT !.rev = TRUE] \in Cert
      BY <2>1, <2>7 DEF Revoked, AttemptState, Cert
    <3>2. [attempt[a].cert EXCEPT !.rev = TRUE].rev
      BY <2>1, <2>7 DEF Revoked, AttemptState, Cert
    <3> QED
      BY <2>7, <3>1, <3>2, CacheCertRevoked DEF Revoked, InFlight
  <2> QED
    BY <1>4, <2>2, <2>3, <2>4, <2>5, <2>6, <2>7 DEF AttemptStep
<1>5. ASSUME NEW a \in Attempt, StoreStep(a) PROVE RevokedBeforeUse'
  BY <1>5 DEF StoreStep, WriteLands, WriteFails, DeleteLands, DeleteFails, FreeAttempt,
              TypeOK, RevokedBeforeUse
<1>6. ASSUME NEW s \in Server, Crash(s) PROVE RevokedBeforeUse'
  BY <1>6 DEF Crash, FreeAttempt, IdleCall, TypeOK, RevokedBeforeUse
<1>7. ASSUME NEW s \in Server, LoadCache(s) PROVE RevokedBeforeUse'
  BY <1>7 DEF LoadCache, TypeOK, RevokedBeforeUse
<1>8. CASE Tick \/ UNCHANGED vars
  BY <1>1, <1>8 DEF Tick, vars
<1> QED
  BY <1>2, <1>3, <1>4, <1>5, <1>6, <1>7, <1>8
     DEF Next, Step, TryGetCertificateSync, WaitForCertificate, Rest

\* In revoked mode no certificate is cached, stored or handed out unrevoked.
THEOREM RevocationFirst == Spec => []RevokedBeforeUse
BY InitType, NextType, InitRevoked, NextRevoked, PTL DEF Spec

-----------------------------------------------------------------------------
(***************************************************************************)
(* NoExpiredAnswer: a call is answered from a cache, with a certificate    *)
(* whose age is looked at in the same step, or with one whose issuance     *)
(* ends.  The second is in date because it was minted a short while ago:   *)
(* Timely, which is inductive.                                             *)
(***************************************************************************)
\* A certificate that is issued but not cached yet was minted at most MaxDelay ago.
Timely ==
    \A a \in Attempt : attempt[a].st \in {"issued", "revoking"} =>
        clock + Life <= attempt[a].cert.exp + MaxDelay

\* What NoExpiredAnswer says of one step.
AnswersInDate ==
    \A c \in Call :
        call'[c].st = "answered" /\ call'[c] # call[c] /\ ~ExpiredMode
            => call'[c].val # NoCert /\ call'[c].val.exp > clock

\* getCertificate may start an issuance, and mints nothing itself (acme.ts:113-199).
LEMMA DecideTimely ==
    ASSUME TypeOK, Timely, NEW c \in Call, NEW s \in Server, NEW cert \in Cert \cup {NoCert},
           Decide(c, s, cert), clock' = clock
    PROVE  Timely'
<1>1. ASSUME NEW a \in Attempt, StartAttempt(a, s) PROVE Timely'
  BY <1>1 DEF StartAttempt, TypeOK, Timely
<1>2. ASSUME UNCHANGED attempt PROVE Timely'
  BY <1>2 DEF Timely
<1> QED
  BY <1>1, <1>2 DEF Decide, RenewExpired, RenewAhead, RenewUnlessPending, UseCached,
                    IssueMissing

\* An issuance that ends is no longer issued, and ages no other (acme.ts:184-191).
LEMMA CacheCertTimely ==
    ASSUME TypeOK, Timely, NEW a \in Attempt, NEW cert \in Cert, CacheCert(a, cert)
    PROVE  Timely'
BY DEF CacheCert, TypeOK, Timely, AttemptState

\* When the servers boot nothing is issued yet.
LEMMA InitTimely == Init => Timely
BY DEF Init, Timely, FreeAttempt

\* No handler leaves a certificate issued and uncached that was minted too long ago.
THEOREM NextTimely == TypeOK /\ Timely /\ [Next]_vars => Timely'
<1> SUFFICES ASSUME TypeOK, Timely, [Next]_vars PROVE Timely'
  OBVIOUS
<1>1. ASSUME UNCHANGED <<clock, attempt>> PROVE Timely'
  BY <1>1 DEF Timely
<1>2. ASSUME NEW c \in Call, NEW s \in Server, GetCertificate(c, s) PROVE Timely'
  <2>1. mem[s] # NoCert /\ Decide(c, s, mem[s]) => Timely'
    BY <1>2, DecideTimely DEF GetCertificate, TypeOK
  <2> QED
    BY <1>1, <1>2, <2>1 DEF GetCertificate
<1>3. ASSUME NEW c \in Call, CallStep(c) PROVE Timely'
  <2>1. CASE FetchCert(c)
    <3>1. call[c].srv \in Server /\ call[c].val \in Cert \cup {NoCert}
      BY <2>1 DEF FetchCert, TypeOK, CallState
    <3> QED
      BY <2>1, <3>1, DecideTimely DEF FetchCert
  <2> QED
    BY <1>1, <1>3, <2>1 DEF CallStep, ReadStore, ReadFails
<1>4. ASSUME NEW a \in Attempt, AttemptStep(a) PROVE Timely'
  <2>1. attempt[a] \in AttemptState
    BY DEF TypeOK
  <2>2. CASE Issue(a)
    <3>1. attempt'[a].cert.exp = clock + Life
      BY <2>1, <2>2 DEF Issue, TypeOK, AttemptState
    <3>2. clock' = clock /\ \A b \in Attempt : b # a => attempt'[b] = attempt[b]
      BY <2>2 DEF Issue, TypeOK
    <3>3. clock + Life <= clock + Life + MaxDelay
      BY Bounds DEF TypeOK
    <3> QED
      BY <3>1, <3>2, <3>3 DEF Timely
  <2>3. CASE Fail(a)
    BY <2>1, <2>3 DEF Fail, TypeOK, AttemptState, Timely
  <2>4. CASE Superseded(a)
    BY <2>4 DEF Superseded, FreeAttempt, TypeOK, Timely
  <2>5. CASE Complete(a)
    BY <2>1, <2>5, CacheCertTimely DEF Complete, AttemptState
  <2>6. CASE StartRevoking(a)
    BY <2>1, <2>6 DEF StartRevoking, TypeOK, AttemptState, Timely
  <2>7. CASE Revoked(a)
    <3>1. [attempt[a].cert EXCEPT !.rev = TRUE] \in Cert
      BY <2>1, <2>7 DEF Revoked, AttemptState, Cert
    <3> QED
      BY <2>7, <3>1, CacheCertTimely DEF Revoked
  <2> QED
    BY <1>4, <2>2, <2>3, <2>4, <2>5, <2>6, <2>7 DEF AttemptStep
<1>5. ASSUME NEW a \in Attempt, StoreStep(a) PROVE Timely'
  BY <1>5 DEF StoreStep, WriteLands, WriteFails, DeleteLands, DeleteFails, FreeAttempt,
              TypeOK, Timely
<1>6. ASSUME NEW s \in Server, Crash(s) PROVE Timely'
  BY <1>6 DEF Crash, FreeAttempt, TypeOK, Timely
<1>7. ASSUME NEW s \in Server, LoadCache(s) PROVE Timely'
  BY <1>1, <1>7 DEF LoadCache
<1>8. CASE Tick
  <2> SUFFICES ASSUME NEW a \in Attempt, attempt'[a].st \in {"issued", "revoking"}
               PROVE  clock' + Life <= attempt'[a].cert.exp + MaxDelay
    BY DEF Timely
  <2>1. attempt'[a] = attempt[a] /\ clock' = clock + 1
          /\ clock + Life < attempt[a].cert.exp + MaxDelay
    BY <1>8 DEF Tick
  <2>2. attempt[a].cert.exp \in Nat
    BY <2>1 DEF TypeOK, AttemptState, Cert
  <2> QED
    BY <2>1, <2>2, Bounds DEF TypeOK
<1>9. CASE UNCHANGED vars
  BY <1>1, <1>9 DEF vars
<1> QED
  BY <1>2, <1>3, <1>4, <1>5, <1>6, <1>7, <1>8, <1>9
     DEF Next, Step, TryGetCertificateSync, WaitForCertificate, Rest

\* getCertificate answers from a cache only with what has not expired (acme.ts:117-150).
LEMMA DecideInDate ==
    ASSUME TypeOK, NEW c \in Call, NEW s \in Server, NEW cert \in Cert \cup {NoCert},
           Decide(c, s, cert)
    PROVE  AnswersInDate
<1>1. ASSUME NEW a \in Attempt, WaitFor(c, s, a) PROVE AnswersInDate
  BY <1>1 DEF WaitFor, TypeOK, AnswersInDate
<1>2. ASSUME Answer(c, s, cert), cert # NoCert, ~ExpiredMode => ~Expired(cert)
      PROVE  AnswersInDate
  <2>1. cert.exp \in Nat /\ clock \in Nat
    BY <1>2 DEF TypeOK, Cert
  <2> QED
    BY <1>2, <2>1 DEF Answer, Expired, TypeOK, AnswersInDate
<1>3. RenewExpired(c, s, cert) => AnswersInDate
  BY <1>1 DEF RenewExpired
<1>4. RenewAhead(c, s, cert) => AnswersInDate
  BY <1>2 DEF RenewAhead
<1>5. UseCached(c, s, cert) => AnswersInDate
  BY <1>2 DEF UseCached
<1>6. IssueMissing(c, s, cert) => AnswersInDate
  BY <1>1 DEF IssueMissing, TypeOK
<1> QED
  BY <1>3, <1>4, <1>5, <1>6 DEF Decide

\* Those who waited for an issuance get a certificate minted a short while ago, however
\* long they waited for it (acme.ts:181, 191).
LEMMA CacheCertInDate ==
    ASSUME TypeOK, Timely, NEW a \in Attempt, NEW cert \in Cert, CacheCert(a, cert),
           attempt[a].st \in {"issued", "revoking"}, cert.exp = attempt[a].cert.exp
    PROVE  AnswersInDate
<1>1. cert.exp \in Nat /\ clock \in Nat /\ cert # NoCert
  BY Sentinels DEF TypeOK, Cert
<1>2. cert.exp > clock
  BY <1>1, CachedAlive, Bounds DEF Timely
<1> SUFFICES ASSUME NEW c \in Call, call'[c] # call[c]
             PROVE  call'[c].val = cert
  BY <1>1, <1>2 DEF AnswersInDate
<1>3. call[c] \in CallState
  BY DEF TypeOK
<1> QED
  BY <1>3 DEF CacheCert, ResolveWaiters, CallState

\* No step resolves a call to a certificate that has expired.
THEOREM NextInDate == TypeOK /\ Timely /\ [Next]_vars => AnswersInDate
<1> SUFFICES ASSUME TypeOK, Timely, [Next]_vars PROVE AnswersInDate
  OBVIOUS
<1>1. ASSUME UNCHANGED call PROVE AnswersInDate
  BY <1>1 DEF AnswersInDate
<1>2. ASSUME NEW c \in Call, NEW s \in Server, GetCertificate(c, s) PROVE AnswersInDate
  <2>1. CASE mem[s] # NoCert /\ Decide(c, s, mem[s])
    BY <2>1, DecideInDate DEF TypeOK
  <2>2. CASE ~(mem[s] # NoCert /\ Decide(c, s, mem[s]))
    BY <1>2, <2>2 DEF GetCertificate, TypeOK, AnswersInDate
  <2> QED
    BY <2>1, <2>2
<1>3. ASSUME NEW c \in Call, CallStep(c) PROVE AnswersInDate
  <2>1. CASE ReadStore(c)
    BY <2>1 DEF ReadStore, TypeOK, CallState, AnswersInDate
  <2>2. CASE FetchCert(c)
    <3>1. call[c].srv \in Server /\ call[c].val \in Cert \cup {NoCert}
      BY <2>2 DEF FetchCert, TypeOK, CallState
    <3> QED
      BY <2>2, <3>1, DecideInDate DEF FetchCert
  <2>3. CASE ReadFails(c)
    BY <2>3 DEF ReadFails, IdleCall, TypeOK, AnswersInDate
  <2> QED
    BY <1>3, <2>1, <2>2, <2>3 DEF CallStep
<1>4. ASSUME NEW a \in Attempt, AttemptStep(a) PROVE AnswersInDate
  <2>1. attempt[a] \in AttemptState
    BY DEF TypeOK
  <2>2. CASE Superseded(a)
    <3> SUFFICES ASSUME NEW c \in Call, call'[c] # call[c] PROVE call'[c].st = "waiting"
      BY DEF AnswersInDate
    <3>1. call[c] \in CallState
      BY DEF TypeOK
    <3> QED
      BY <2>2, <3>1 DEF Superseded, HandOver, Waiting, CallState
  <2>3. CASE Complete(a)
    BY <2>1, <2>3, CacheCertInDate DEF Complete, AttemptState
  <2>4. CASE Revoked(a)
    <3>1. [attempt[a].cert EXCEPT !.rev = TRUE] \in Cert
            /\ [attempt[a].cert EXCEPT !.rev = TRUE].exp = attempt[a].cert.exp
      BY <2>1, <2>4 DEF Revoked, AttemptState, Cert
    <3> QED
      BY <2>4, <3>1, CacheCertInDate DEF Revoked
  <2> QED
    BY <1>1, <1>4, <2>2, <2>3, <2>4 DEF AttemptStep, Issue, Fail, StartRevoking
<1>5. ASSUME NEW a \in Attempt, StoreStep(a) PROVE AnswersInDate
  BY <1>1, <1>5 DEF StoreStep, WriteLands, WriteFails, DeleteLands, DeleteFails
<1>6. ASSUME NEW s \in Server, Crash(s) PROVE AnswersInDate
  BY <1>6 DEF Crash, IdleCall, TypeOK, AnswersInDate
<1>7. ASSUME NEW s \in Server, LoadCache(s) PROVE AnswersInDate
  BY <1>1, <1>7 DEF LoadCache
<1>8. CASE Tick \/ UNCHANGED vars
  BY <1>1, <1>8 DEF Tick, vars
<1> QED
  BY <1>2, <1>3, <1>4, <1>5, <1>6, <1>7, <1>8
     DEF Next, Step, TryGetCertificateSync, WaitForCertificate, Rest

\* Outside expired mode no call of getCertificate ever resolves to an expired certificate.
THEOREM AnswersNotExpired == Spec => NoExpiredAnswer
<1>1. TypeOK /\ Timely /\ [Next]_vars => [AnswersInDate]_vars
  BY NextInDate
<1>2. Spec => [](TypeOK /\ Timely)
  BY InitType, NextType, InitTimely, NextTimely, PTL DEF Spec
<1>3. Spec => [][AnswersInDate]_vars
  BY <1>1, <1>2, PTL DEF Spec
<1> QED
  BY <1>3 DEF NoExpiredAnswer, AnswersInDate

=============================================================================
