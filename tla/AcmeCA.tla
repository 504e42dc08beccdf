------------------------------- MODULE AcmeCA -------------------------------
(***************************************************************************)
(* Issuing, caching and renewing the ACME certificate of one cache key:    *)
(* AcmeCA (tls-certificates/acme.ts) with the PersistentCertCache          *)
(* (cert-cache.ts) of every server and the certificate store they share    *)
(* (fs-cert-store.ts, s3-cert-store.ts).                                   *)
(*                                                                         *)
(* Nothing in these classes relates two cache keys, so one key stands for  *)
(* all, with any of the options it may have.  Every await is a point       *)
(* where other calls, other servers and the clock may move, so a call of   *)
(* getCertificate is split at "await backend.read" and an issuance at each *)
(* of its round trips.  A promise that resolves to another promise is      *)
(* modelled by moving its waiters to that other promise.                   *)
(***************************************************************************)
EXTENDS Naturals

CONSTANTS
    Server,          \* processes that share the certificate store
    Call,            \* slots for concurrent calls of getCertificate
    Attempt,         \* slots for issuances (refreshPromise objects)
    NoCert, NoAttempt, NoServer,
    Options,         \* the certOptions the key may have been made from
    Life,            \* lifetime of an issued certificate, in ticks
    RefreshWindow,   \* PROACTIVE_REFRESH_TIME
    MaxTime,         \* bound: last value of the clock
    MaxDelay,        \* bound: ticks between minting and caching a certificate
    MaxCalls,        \* bound: calls of getCertificate in a behaviour
    MaxFailures,     \* bound: failed requests of any kind in a behaviour
    MaxCrashes       \* bound: crashes in a behaviour

Cert == [exp: Nat, rev: BOOLEAN]

ASSUME Sentinels == /\ NoCert \notin Cert
                    /\ NoAttempt \notin Attempt
                    /\ NoServer \notin Server
\* An expired certificate is wanted, a revoked one is.
ASSUME KnownOptions == Options \subseteq [expired: BOOLEAN, revoked: BOOLEAN]
ASSUME Bounds == /\ Life \in Nat /\ RefreshWindow \in Nat
                 /\ {MaxTime, MaxDelay, MaxCalls, MaxFailures, MaxCrashes} \subseteq Nat
\* A certificate lives for days, and is cached (revoked first, if so wanted) within minutes.
ASSUME CachedAlive == MaxDelay < Life

VARIABLES
    options,    \* the certOptions of the key, which never change
    clock,      \* Date.now()
    store,      \* the record the shared backend holds for the key
    up,         \* the servers that are running
    mem,        \* PersistentCertCache.cache[cacheKey] of each server
    pending,    \* pendingCertRenewals[cacheKey] of each server
    attempt,    \* the issuances in flight
    deleting,   \* attempts whose clearCache sent a delete that is in flight
    call,       \* the calls of getCertificate in flight
    lapsed,     \* ghost: servers that met an expired certificate since boot
    used        \* what has been used of each bound

vars == <<options, clock, store, up, mem, pending, attempt, deleting, call, lapsed, used>>

ExpiredMode == options.expired
RevokedMode == options.revoked

FreeAttempt == [st |-> "free", srv |-> NoServer, cert |-> NoCert]
IdleCall == [st |-> "idle", srv |-> NoServer, val |-> NoCert, on |-> NoAttempt]

InFlight(a) == attempt[a].st \in {"requesting", "issued", "revoking"}
Waiting(c) == call[c].st = "waiting"

\* An attempt holds a certificate exactly from its minting to its storing.
AttemptState ==
    [st: {"free"}, srv: {NoServer}, cert: {NoCert}]
        \cup [st: {"requesting"}, srv: Server, cert: {NoCert}]
        \cup [st: {"issued", "revoking", "storing"}, srv: Server, cert: Cert]

\* A call names an attempt exactly while it waits for it.
CallState ==
    [st: {"idle"}, srv: {NoServer}, val: {NoCert}, on: {NoAttempt}]
        \cup [st: {"reading"}, srv: Server, val: {NoCert}, on: {NoAttempt}]
        \cup [st: {"read", "answered"}, srv: Server, val: Cert \cup {NoCert}, on: {NoAttempt}]
        \cup [st: {"waiting"}, srv: Server, val: {NoCert}, on: Attempt]

\* The shape of the state.
TypeOK ==
    /\ options \in Options
    /\ clock \in Nat
    /\ store \in Cert \cup {NoCert}
    /\ up \subseteq Server
    /\ mem \in [Server -> Cert \cup {NoCert}]
    /\ pending \in [Server -> Attempt \cup {NoAttempt}]
    /\ attempt \in [Attempt -> AttemptState]
    /\ deleting \subseteq Attempt
    /\ call \in [Call -> CallState]
    /\ lapsed \subseteq Server
    /\ used \in [calls: Nat, failures: Nat, crashes: Nat]

(***************************************************************************)
(* Certificate ages, as the code compares them with Date.now().            *)
(***************************************************************************)
\* Mutant: off by one at the moment of expiry.
MutantExpired(cert) == cert.exp < clock

Expired(cert) == cert.exp <= clock
NearExpiry(cert) == cert.exp < clock + RefreshWindow
Fresh(cert) == cert # NoCert /\ ~NearExpiry(cert)

(***************************************************************************)
(* Init: any record an earlier run may have left, each server booted with  *)
(* it or, after an outage, cold.                                           *)
(***************************************************************************)
Init ==
    /\ options \in Options
    /\ clock = 0
    /\ store \in [exp: 0..Life, rev: {RevokedMode}] \cup {NoCert}
    /\ up = Server
    /\ mem \in [Server -> {store, NoCert}]
    /\ pending = [s \in Server |-> NoAttempt]
    /\ attempt = [a \in Attempt |-> FreeAttempt]
    /\ deleting = {}
    /\ call = [c \in Call |-> IdleCall]
    /\ lapsed = {}
    /\ used = [calls |-> 0, failures |-> 0, crashes |-> 0]

-----------------------------------------------------------------------------
(***************************************************************************)
(* getCertificate                                                          *)
(***************************************************************************)

\* The forced branch: request a certificate and become the pending renewal,
\* whatever was pending before.
StartAttempt(a, s) ==
    /\ attempt[a].st = "free" /\ a \notin deleting
    /\ attempt' = [attempt EXCEPT ![a] = [st |-> "requesting", srv |-> s, cert |-> NoCert]]
    /\ pending' = [pending EXCEPT ![s] = a]

Answer(c, s, cert) ==
    call' = [call EXCEPT ![c] = [st |-> "answered", srv |-> s, val |-> cert, on |-> NoAttempt]]

WaitFor(c, s, a) ==
    call' = [call EXCEPT ![c] = [st |-> "waiting", srv |-> s, val |-> NoCert, on |-> a]]

\* Mutant: renewing ahead of expiry does not look for a pending renewal.
MutantRenewRegardless(s) == \E a \in Attempt : StartAttempt(a, s)

RenewUnlessPending(s) ==
    \/ pending[s] = NoAttempt /\ \E a \in Attempt : StartAttempt(a, s)
    \/ pending[s] # NoAttempt /\ UNCHANGED <<attempt, pending>>

\* Expired, outside expired mode: clear it everywhere, then force an issuance.
RenewExpired(c, s, cert) ==
    /\ cert # NoCert /\ Expired(cert) /\ ~ExpiredMode
    /\ \E a \in Attempt :
          /\ StartAttempt(a, s)
          /\ deleting' = deleting \cup {a}
          /\ WaitFor(c, s, a)
    /\ mem' = [mem EXCEPT ![s] = NoCert]
    /\ lapsed' = lapsed \cup {s}

\* Close to expiry: answer with it, and renew unless a renewal is pending.
RenewAhead(c, s, cert) ==
    /\ cert # NoCert /\ ~Expired(cert) /\ ~ExpiredMode /\ NearExpiry(cert)
    /\ RenewUnlessPending(s)
    /\ Answer(c, s, cert)
    /\ mem' = [mem EXCEPT ![s] = cert]
    /\ UNCHANGED <<deleting, lapsed>>

UseCached(c, s, cert) ==
    /\ cert # NoCert
    /\ ExpiredMode \/ ~(NearExpiry(cert) \/ Expired(cert))
    /\ Answer(c, s, cert)
    /\ mem' = [mem EXCEPT ![s] = cert]
    /\ UNCHANGED <<pending, attempt, deleting, lapsed>>

\* Nothing cached anywhere: join the pending issuance or start one.
IssueMissing(c, s, cert) ==
    /\ cert = NoCert
    /\ \/ /\ pending[s] # NoAttempt
          /\ WaitFor(c, s, pending[s])
          /\ UNCHANGED <<attempt, pending>>
       \/ /\ pending[s] = NoAttempt
          /\ \E a \in Attempt : StartAttempt(a, s) /\ WaitFor(c, s, a)
    /\ UNCHANGED <<mem, deleting, lapsed>>

\* What getCertificate does with the result of fetchCert, which has already
\* put a record it read from the store into the server's cache.
Decide(c, s, cert) ==
    \/ RenewExpired(c, s, cert)
    \/ RenewAhead(c, s, cert)
    \/ UseCached(c, s, cert)
    \/ IssueMissing(c, s, cert)

\* The synchronous head of getCertificate: a local hit is decided at once (only
\* microtasks run before it), a miss sends a read to the backend.
GetCertificate(c, s) ==
    /\ s \in up /\ call[c].st \in {"idle", "answered"}
    /\ used.calls < MaxCalls
    /\ used' = [used EXCEPT !.calls = @ + 1]
    /\ \/ mem[s] # NoCert /\ Decide(c, s, mem[s])
       \/ /\ mem[s] = NoCert
          /\ call' = [call EXCEPT ![c] = [st |-> "reading", srv |-> s,
                                          val |-> NoCert, on |-> NoAttempt]]
          /\ UNCHANGED <<mem, pending, attempt, deleting, lapsed>>
    /\ UNCHANGED <<clock, store, up>>

\* A connection (or the daily refresh): the cached certificate is handed out as it
\* is, and getCertificate is called only if it is missing or close to expiry.
TryGetCertificateSync(c, s) ==
    /\ mem[s] # NoCert => ~ExpiredMode /\ NearExpiry(mem[s])
    /\ GetCertificate(c, s)

WaitForCertificate(c, s) == GetCertificate(c, s)

\* The backend serves the read ...
ReadStore(c) ==
    /\ call[c].st = "reading"
    /\ call' = [call EXCEPT ![c] = [@ EXCEPT !.st = "read", !.val = store]]
    /\ UNCHANGED <<clock, store, up, mem, pending, attempt, deleting, lapsed, used>>

\* ... and its answer, by now possibly out of date, resumes fetchCert.
FetchCert(c) ==
    /\ call[c].st = "read"
    /\ Decide(c, call[c].srv, call[c].val)
    /\ UNCHANGED <<clock, store, up, used>>

Failure ==
    /\ used.failures < MaxFailures
    /\ used' = [used EXCEPT !.failures = @ + 1]

\* A backend read that fails rejects the call.
ReadFails(c) ==
    /\ call[c].st = "reading" /\ Failure
    /\ call' = [call EXCEPT ![c] = IdleCall]
    /\ UNCHANGED <<clock, store, up, mem, pending, attempt, deleting, lapsed>>

-----------------------------------------------------------------------------
(***************************************************************************)
(* refreshPromise: requestCertificate().then(...).catch(...)               *)
(***************************************************************************)

\* requestCertificate: challenges pass and the CA mints the certificate.
Issue(a) ==
    /\ attempt[a].st = "requesting"
    /\ attempt' = [attempt EXCEPT ![a] =
          [@ EXCEPT !.st = "issued", !.cert = [exp |-> clock + Life, rev |-> FALSE]]]
    /\ UNCHANGED <<clock, store, up, mem, pending, deleting, call, lapsed, used>>

\* Mutant: a rejection is logged, and nothing is retried.
MutantFailGivesUp(a) ==
    /\ InFlight(a) /\ Failure
    /\ attempt' = [attempt EXCEPT ![a] = FreeAttempt]
    /\ UNCHANGED <<clock, store, up, mem, pending, deleting, call, lapsed>>

\* Any rejection, of the request or of the revocation: issue again, as pending.
Fail(a) ==
    /\ InFlight(a) /\ Failure
    /\ attempt' = [attempt EXCEPT ![a] = [@ EXCEPT !.st = "requesting", !.cert = NoCert]]
    /\ pending' = [pending EXCEPT ![attempt[a].srv] = a]
    /\ UNCHANGED <<clock, store, up, mem, deleting, call, lapsed>>

\* Mutant: a superseded promise does not resolve to the one that replaced it.
MutantHandOver(a, b) == UNCHANGED call

HandOver(a, b) ==
    call' = [c \in Call |-> IF Waiting(c) /\ call[c].on = a
                            THEN [call[c] EXCEPT !.on = b] ELSE call[c]]

\* Another attempt is pending by now: leave the certificate, adopt its promise.
Superseded(a) ==
    LET current == pending[attempt[a].srv] IN
    /\ attempt[a].st = "issued"
    /\ current \notin {NoAttempt, a}
    /\ attempt' = [attempt EXCEPT ![a] = FreeAttempt]
    /\ HandOver(a, current)
    /\ UNCHANGED <<clock, store, up, mem, pending, deleting, lapsed, used>>

ResolveWaiters(a, cert) ==
    call' = [c \in Call |->
                IF Waiting(c) /\ call[c].on = a
                THEN [call[c] EXCEPT !.st = "answered", !.val = cert, !.on = NoAttempt]
                ELSE call[c]]

\* Mutant: the pending entry is left in place.
MutantForgetPending(s) == UNCHANGED pending

ForgetPending(s) == pending' = [pending EXCEPT ![s] = NoAttempt]

\* delete pendingCertRenewals[key]; cacheCert, whose backend write is not awaited;
\* everyone waiting for the attempt gets the certificate.
CacheCert(a, cert) ==
    LET s == attempt[a].srv IN
    /\ ForgetPending(s)
    /\ mem' = [mem EXCEPT ![s] = cert]
    /\ attempt' = [attempt EXCEPT ![a] = [@ EXCEPT !.st = "storing", !.cert = cert]]
    /\ ResolveWaiters(a, cert)
    /\ UNCHANGED <<clock, store, up, deleting, lapsed, used>>

Current(a) == pending[attempt[a].srv] \in {NoAttempt, a}

\* Mutant: the certificate is cached without waiting for its revocation.
MutantCompleteUnrevoked(a) ==
    /\ attempt[a].st = "issued" /\ Current(a)
    /\ CacheCert(a, attempt[a].cert)

Complete(a) ==
    /\ attempt[a].st = "issued" /\ Current(a) /\ ~RevokedMode
    /\ CacheCert(a, attempt[a].cert)

StartRevoking(a) ==
    /\ attempt[a].st = "issued" /\ Current(a) /\ RevokedMode
    /\ attempt' = [attempt EXCEPT ![a].st = "revoking"]
    /\ UNCHANGED <<clock, store, up, mem, pending, deleting, call, lapsed, used>>

\* "await revokeCertificate" returns; pending is not looked at again.
Revoked(a) ==
    /\ attempt[a].st = "revoking"
    /\ CacheCert(a, [attempt[a].cert EXCEPT !.rev = TRUE])

-----------------------------------------------------------------------------
(***************************************************************************)
(* The backend's un-awaited writes and deletes.  They are independent      *)
(* requests: they may land in any order, or fail and only be logged.       *)
(***************************************************************************)
WriteLands(a) ==
    /\ attempt[a].st = "storing"
    /\ store' = attempt[a].cert
    /\ attempt' = [attempt EXCEPT ![a] = FreeAttempt]
    /\ UNCHANGED <<clock, up, mem, pending, deleting, call, lapsed, used>>

WriteFails(a) ==
    /\ attempt[a].st = "storing" /\ Failure
    /\ attempt' = [attempt EXCEPT ![a] = FreeAttempt]
    /\ UNCHANGED <<clock, store, up, mem, pending, deleting, call, lapsed>>

DeleteLands(a) ==
    /\ a \in deleting
    /\ store' = NoCert
    /\ deleting' = deleting \ {a}
    /\ UNCHANGED <<clock, up, mem, pending, attempt, call, lapsed, used>>

DeleteFails(a) ==
    /\ a \in deleting /\ Failure
    /\ deleting' = deleting \ {a}
    /\ UNCHANGED <<clock, store, up, mem, pending, attempt, call, lapsed>>

-----------------------------------------------------------------------------
\* The process ends.  Store requests already sent may still land or fail.
Crash(s) ==
    /\ s \in up /\ used.crashes < MaxCrashes
    /\ used' = [used EXCEPT !.crashes = @ + 1]
    /\ up' = up \ {s}
    /\ mem' = [mem EXCEPT ![s] = NoCert]
    /\ pending' = [pending EXCEPT ![s] = NoAttempt]
    /\ attempt' = [a \in Attempt |-> IF InFlight(a) /\ attempt[a].srv = s
                                     THEN FreeAttempt ELSE attempt[a]]
    /\ call' = [c \in Call |-> IF call[c].srv = s THEN IdleCall ELSE call[c]]
    /\ lapsed' = lapsed \ {s}
    /\ UNCHANGED <<clock, store, deleting>>

\* Startup: loadCache warms the cache, or leaves it empty if the store is out.
LoadCache(s) ==
    /\ s \notin up
    /\ up' = up \cup {s}
    /\ \E loaded \in {store, NoCert} : mem' = [mem EXCEPT ![s] = loaded]
    /\ UNCHANGED <<clock, store, pending, attempt, deleting, call, lapsed, used>>

\* Time passes, but no minted certificate stays uncached for more than MaxDelay.
Tick ==
    /\ clock < MaxTime
    /\ \A a \in Attempt : attempt[a].st \in {"issued", "revoking"} =>
          clock + Life < attempt[a].cert.exp + MaxDelay
    /\ clock' = clock + 1
    /\ UNCHANGED <<store, up, mem, pending, attempt, deleting, call, lapsed, used>>

\* No request is outstanding: the event loops have nothing to run until the next
\* connection, whoever still waits for a promise.
Rest ==
    /\ deleting = {} /\ \A a \in Attempt : attempt[a].st = "free"
    /\ \A c \in Call : call[c].st \notin {"reading", "read"}
    /\ UNCHANGED vars

CallStep(c) == ReadStore(c) \/ FetchCert(c) \/ ReadFails(c)
AttemptStep(a) ==
    \/ Issue(a) \/ Fail(a) \/ Superseded(a)
    \/ Complete(a) \/ StartRevoking(a) \/ Revoked(a)
StoreStep(a) ==
    WriteLands(a) \/ WriteFails(a) \/ DeleteLands(a) \/ DeleteFails(a)

Step ==
    \/ \E c \in Call, s \in Server : TryGetCertificateSync(c, s) \/ WaitForCertificate(c, s)
    \/ \E c \in Call : CallStep(c)
    \/ \E a \in Attempt : AttemptStep(a) \/ StoreStep(a)
    \/ \E s \in Server : Crash(s) \/ LoadCache(s)
    \/ Tick
    \/ Rest

Next == Step /\ UNCHANGED options

Spec == Init /\ [][Next]_vars

\* Requests that were sent are answered, one way or another.  Nothing makes
\* clients call, servers crash or restart, or the clock reach a given time.
Fairness ==
    /\ \A c \in Call : WF_vars(CallStep(c) /\ UNCHANGED options)
    /\ \A a \in Attempt : /\ WF_vars(AttemptStep(a) /\ UNCHANGED options)
                         /\ WF_vars(StoreStep(a) /\ UNCHANGED options)

FairSpec == Spec /\ Fairness

-----------------------------------------------------------------------------
(***************************************************************************)
(* Properties                                                              *)
(***************************************************************************)

\* A pending entry always names an issuance that is still in flight on that
\* server: a caller that coalesces onto it (acme.ts:158-165) or skips a renewal
\* because of it (130) is never left with one that has already ended.
PendingIsLive ==
    \A s \in Server : pending[s] # NoAttempt =>
        InFlight(pending[s]) /\ attempt[pending[s]].srv = s

\* Whatever is superseded, retried or coalesced, everyone waiting for a certificate
\* waits for an issuance that is in flight on its own server (acme.ts:164, 181, 194).
WaitersOnLiveAttempt ==
    \A c \in Call : Waiting(c) =>
        InFlight(call[c].on) /\ attempt[call[c].on].srv = call[c].srv

\* "Coalesce updates for pending certs into one" (acme.ts:163): until a server meets a
\* certificate that has expired altogether, it never has two issuances in flight.
SingleFlight ==
    \A a, b \in Attempt :
        InFlight(a) /\ InFlight(b) /\ attempt[a].srv = attempt[b].srv
            /\ attempt[a].srv \notin lapsed => a = b

\* In revoked mode nothing the server can present, persist or load from the store
\* escaped the revocation (acme.ts:184-189), on any server, after any failure.
RevokedBeforeUse ==
    RevokedMode =>
        /\ \A s \in Server : mem[s] # NoCert => mem[s].rev
        /\ store # NoCert => store.rev
        /\ \A a \in Attempt : attempt[a].st = "storing" => attempt[a].cert.rev
        /\ \A c \in Call : call[c].st \in {"read", "answered"} /\ call[c].val # NoCert
                              => call[c].val.rev

\* Outside expired mode getCertificate never resolves to a certificate that has expired
\* by then, however long it waited, for whichever attempt (acme.ts:117-125, 181, 191).
NoExpiredAnswer ==
    [][\A c \in Call :
          call'[c].st = "answered" /\ call'[c] # call[c] /\ ~ExpiredMode
              => call'[c].val # NoCert /\ call'[c].val.exp > clock]_vars

\* Every call of getCertificate ends, with a certificate or (when the backend read
\* fails or the process ends) a rejection, as long as the CA does not fail for ever.
CallsEnd ==
    \A c \in Call : (call[c].st \in {"reading", "read", "waiting"})
                        ~> (call[c].st \in {"idle", "answered"})

\* Once an issuance is pending, the server's cache gets a fresh certificate, through any
\* retries and hand-overs, unless the process ends first (acme.ts:170-195).
RenewalCompletes ==
    \A s \in Server : (pending[s] # NoAttempt) ~> (Fresh(mem[s]) \/ s \notin up)

(***************************************************************************)
(* What comments of the code say, and the code does not do.                *)
(***************************************************************************)

\* acme.ts:107: "Here we read through to the backing store, so we pick up certs issued
\* elsewhere": a server replaces its own copy only if the store has nothing fresh.
PicksUpCertsIssuedElsewhere ==
    [][\A s \in Server :
          mem[s] # NoCert /\ pending'[s] \notin {pending[s], NoAttempt}
              => InFlight(pending'[s]) \/ ~Fresh(store)]_vars

\* cert-cache.ts:35-36: "warmed at startup and kept durable via a pluggable backend": with no
\* request failed and none in flight, a fresh cached certificate is in the store.
KeptDurable ==
    used.failures = 0 /\ deleting = {} /\ (\A a \in Attempt : attempt[a].st = "free")
        => ((\E s \in Server : Fresh(mem[s])) => Fresh(store))

-----------------------------------------------------------------------------
=============================================================================
