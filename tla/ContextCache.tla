----------------------------- MODULE ContextCache -----------------------------
(***************************************************************************)
(* The TLS contexts of one server: SecureContextCache with the handshakes  *)
(* that use it (tls-handler.ts) and the generator that makes certificates  *)
(* for it when ACME is enabled (server.ts).  What AcmeCA holds for a name  *)
(* changes by itself here; the module of that name models how.             *)
(*                                                                         *)
(* A host is an SNI with the certificate options its endpoints merge to;   *)
(* of those, the ones that matter to the properties are kept.              *)
(***************************************************************************)
EXTENDS Naturals, Sequences

CONSTANTS
    Host,         \* hosts clients connect to
    Conn,         \* slots for concurrent connections
    Example,      \* the name a certificate with overridePrefix is made for
    Wildcard,     \* the name that covers every host under the root domain
    Dns,          \* the DNS server is on: AcmeCA can get wildcard certificates
    NoCert,
    MaxSize,      \* capacity of the cache
    OneDay,
    TempTtl,      \* how long a temporary certificate is cached (5000 ms)
    Life,         \* lifetime of an ACME certificate
    LocalLife,    \* lifetime of a local certificate
    MaxTime,      \* bound: last value of the clock
    MaxDelay      \* bound: ticks for which a handshake awaits its certificate

ASSUME HostsHaveOptions == \A h \in Host :
    /\ {"name", "override", "local", "expired"} = DOMAIN h
    /\ h.override \in BOOLEAN /\ h.expired \in BOOLEAN
ASSUME DnsIsBool == Dns \in BOOLEAN
ASSUME SizeAndTimes == /\ MaxSize \in Nat \ {0} /\ MaxDelay \in Nat
                       /\ {OneDay, TempTtl, Life, LocalLife} \subseteq Nat \ {0}

\* A local certificate lasts for a year, AcmeCA's sentinel is no time, and who overrides its
\* name borrows another's.
ASSUME LocalCertsLast == OneDay <= LocalLife
ASSUME NoCertIsNoTime == NoCert \notin Nat
ASSUME Borrowed == Example # Wildcard /\ \A h \in Host : h.override => h.name # Example

VARIABLES
    clock,
    acme,       \* the certificate AcmeCA holds for each cache key
    since,      \* ghost: since when it holds one without a break
    cache,      \* SecureContextCache.cache, a Map: a sequence in insertion order
    conn,       \* the connections whose context is being created
    served      \* the connection this step gave its context, if it did

vars == <<clock, acme, since, cache, conn, served>>

(***************************************************************************)
(* The domain certificates are requested for, and the keys.  requiredType  *)
(* is no part of a key: host.local is not there.                           *)
(***************************************************************************)
CertDomain(h) == IF h.override THEN Example ELSE h.name

\* Mutant: overridePrefix is left out of the key.
MutantCacheKey(h) == [domain |-> CertDomain(h), override |-> FALSE, expired |-> h.expired]

CacheKey(h) == [domain |-> CertDomain(h), override |-> h.override, expired |-> h.expired]

Key == {CacheKey(h) : h \in Host}

\* Hosts here are one level below the root domain (isWildcardCoverable).
EffectiveDomain(h) == IF Dns /\ ~h.override THEN Wildcard ELSE CertDomain(h)

\* The key under which AcmeCA looks.
AcmeKey(h) == [CacheKey(h) EXCEPT !.domain = EffectiveDomain(h)]
AcmeKeys == {AcmeKey(h) : h \in Host}

\* A certificate: who signed it, its name, until when; temp: isTemporary.
Cert == [by: {"acme", "local"}, name: {CertDomain(h) : h \in Host} \cup {Wildcard},
         exp: Nat, temp: BOOLEAN]

Covers(cert, h) == cert.name \in {Wildcard, h.name}

Entry == [key: Key, cert: Cert, exp: Nat, from: Nat]

Idle == [st |-> "idle"]

Creating == [st: {"creating"}, host: Host, now: Nat, cert: Cert]

Nobody == [host |-> "nobody"]
Served == [host: Host, cert: Cert, from: Nat, hit: BOOLEAN]

\* The shape of the state; no key is in the cache twice.
TypeOK ==
    /\ clock \in Nat
    /\ acme \in [AcmeKeys -> Nat \cup {NoCert}]
    /\ since \in [AcmeKeys -> Nat]
    /\ cache \in Seq(Entry)
    /\ \A i, j \in 1..Len(cache) : cache[i].key = cache[j].key => i = j
    /\ conn \in [Conn -> {Idle} \cup Creating]
    /\ served \in {Nobody} \cup Served

Init ==
    /\ clock = 0
    /\ acme \in [AcmeKeys -> 0..Life \cup {NoCert}]
    /\ since = [k \in AcmeKeys |-> 0]
    /\ cache = <<>>
    /\ conn = [n \in Conn |-> Idle]
    /\ served = Nobody

-----------------------------------------------------------------------------
(***************************************************************************)
(* generateCertificate: the choice is made at once, with what AcmeCA holds *)
(* when it is called; a local certificate then takes time to make.         *)
(***************************************************************************)
LocalCert(h, temp) ==
    [by |-> "local", name |-> CertDomain(h), temp |-> temp,
     exp |-> IF h.expired THEN 0 ELSE clock + LocalLife]

\* tryGetCertificateSync: in expired mode, only what has expired.
AcmeHas(h) ==
    LET exp == acme[AcmeKey(h)] IN exp # NoCert /\ (h.expired => exp <= clock)

GenerateCertificate(h) ==
    IF h.local THEN LocalCert(h, FALSE)
    ELSE IF AcmeHas(h)
         THEN [by |-> "acme", name |-> EffectiveDomain(h), exp |-> acme[AcmeKey(h)], temp |-> FALSE]
         ELSE LocalCert(h, TRUE)

-----------------------------------------------------------------------------
Places(k) == {i \in 1..Len(cache) : cache[i].key = k}

\* Map.delete: the entry of that key goes, if there is one.
Without(k) ==
    IF Places(k) = {} THEN cache
    ELSE LET place == CHOOSE i \in Places(k) : TRUE
         IN  [i \in 1..(Len(cache) - 1) |-> cache[IF i < place THEN i ELSE i + 1]]

\* A hit: the entry moves to the end and its context is used.
ServeCached(h, e) ==
    /\ e.key = CacheKey(h) /\ e.exp > clock
    /\ cache' = Append(Without(CacheKey(h)), e)
    /\ served' = [host |-> h, cert |-> e.cert, from |-> e.from, hit |-> TRUE]
    /\ UNCHANGED conn

\* A miss, or an entry that is out of date and goes: the factory is called.
CallFactory(n, h) ==
    /\ \A i \in 1..Len(cache) : cache[i].key = CacheKey(h) => cache[i].exp <= clock
    /\ cache' = Without(CacheKey(h))
    /\ conn' = [conn EXCEPT ![n] = [st |-> "creating", host |-> h, now |-> clock,
                                    cert |-> GenerateCertificate(h)]]
    /\ served' = Nobody

\* handleConnection up to the first await.
HandleConnection(n, h) ==
    /\ conn[n] = Idle
    /\ \/ \E i \in 1..Len(cache) : ServeCached(h, cache[i])
       \/ CallFactory(n, h)
    /\ UNCHANGED <<clock, acme, since>>

\* Mutant: a temporary certificate is cached like any other.
MutantContextExpiry(cert) == cert.exp

\* What the factory says of the context's expiry: Date.now() + 5000 if temporary.
ContextExpiry(cert) == IF cert.temp THEN clock + TempTtl ELSE cert.exp

\* Mutant: one day for everything.
MutantMaxExpiry(exp, now) == now + OneDay

\* Mutant: no cap of one day.
MutantMaxExpiryUncapped(exp, now) == IF exp <= now THEN now + OneDay ELSE exp

\* One day at most, and not beyond the certificate's expiry unless that has passed.
MaxExpiry(exp, now) == IF exp <= now \/ exp > now + OneDay THEN now + OneDay ELSE exp

\* Mutant: evict only once the cache is over its size.
MutantEvicted == IF Len(cache) > MaxSize THEN Tail(cache) ELSE cache

\* The oldest entries go until there is room for one, even if the key is there already.
Evicted ==
    IF Len(cache) >= MaxSize THEN SubSeq(cache, Len(cache) - MaxSize + 2, Len(cache)) ELSE cache

\* Mutant: appended whether or not the key is there.
MutantSetEntry(seq, e) == Append(seq, e)

\* Map.set: an entry of that key is replaced where it is.
SetEntry(seq, e) ==
    IF \E i \in 1..Len(seq) : seq[i].key = e.key
    THEN [i \in 1..Len(seq) |-> IF seq[i].key = e.key THEN e ELSE seq[i]]
    ELSE Append(seq, e)

\* The factory's promise resolves: the context is cached and used.
SetContext(n) ==
    LET c == conn[n] IN
    /\ c.st = "creating"
    /\ cache' = SetEntry(Evicted,
                   [key |-> CacheKey(c.host), cert |-> c.cert, from |-> c.now,
                    exp |-> MaxExpiry(ContextExpiry(c.cert), c.now)])
    /\ conn' = [conn EXCEPT ![n] = Idle]
    /\ served' = [host |-> c.host, cert |-> c.cert, from |-> c.now, hit |-> FALSE]
    /\ UNCHANGED <<clock, acme, since>>

\* It rejects: the socket is destroyed.
DestroySocket(n) ==
    /\ conn[n].st = "creating"
    /\ conn' = [conn EXCEPT ![n] = Idle]
    /\ served' = Nobody
    /\ UNCHANGED <<clock, acme, since, cache>>

-----------------------------------------------------------------------------
\* AcmeCA gets a certificate, the first or (outside expired mode) a renewal ...
AcmeObtains(k) ==
    /\ k.expired => acme[k] = NoCert
    /\ acme' = [acme EXCEPT ![k] = clock + Life]
    /\ since' = [since EXCEPT ![k] = IF acme[k] = NoCert THEN clock ELSE @]
    /\ served' = Nobody
    /\ UNCHANGED <<clock, cache, conn>>

\* ... or clears one that has expired (outside expired mode).
AcmeClears(k) ==
    /\ acme[k] # NoCert /\ acme[k] <= clock /\ ~k.expired
    /\ acme' = [acme EXCEPT ![k] = NoCert]
    /\ served' = Nobody
    /\ UNCHANGED <<clock, since, cache, conn>>

\* Time passes, but no handshake waits for more than MaxDelay.
Tick ==
    /\ clock < MaxTime
    /\ \A n \in Conn : conn[n].st = "creating" => clock < conn[n].now + MaxDelay
    /\ clock' = clock + 1
    /\ served' = Nobody
    /\ UNCHANGED <<acme, since, cache, conn>>

Next ==
    \/ \E n \in Conn :
          \/ \E h \in Host : HandleConnection(n, h)
          \/ SetContext(n) \/ DestroySocket(n)
    \/ \E k \in AcmeKeys : AcmeObtains(k) \/ AcmeClears(k)
    \/ Tick

Spec == Init /\ [][Next]_vars

-----------------------------------------------------------------------------
\* However many handshakes create contexts at once, the cache keeps to its size
\* (secure-context-cache.ts:44-49).
Bounded == Len(cache) <= MaxSize

\* A cached context is never presented once its certificate has expired, unless that had
\* expired when the context was made; the check and the making straddle an await
\* (secure-context-cache.ts:21, 36-41).
HitsInDate ==
    served # Nobody /\ served.hit =>
        served.cert.exp > clock \/ served.cert.exp <= served.from

\* A context is presented for one day at most, so what replaced its certificate since is
\* in use a day later (secure-context-cache.ts:38-41).
OneDayOld == served # Nobody /\ served.hit => clock < served.from + OneDay

\* tls-handler.ts:151-152: a stand-in gets a short cache "to allow the real cert to be picked
\* up once available": TempTtl after the last handshake that missed it has ended, nobody
\* is served the stand-in.
RealCertPickedUp ==
    served # Nobody /\ served.cert.temp =>
        LET h == served.host IN
        AcmeHas(h) /\ ~h.expired => clock < since[AcmeKey(h)] + MaxDelay + TempTtl

\* cert-cache-key.spec.ts:16-18: the certificate of wrong-host "must not collide" with that
\* of a genuine request, whose wildcard "would wrongly match": a host is served a
\* certificate that covers it, wrong-host one that does not.
WrongHostOnly ==
    served # Nobody => (Covers(served.cert, served.host) <=> ~served.host.override)

(***************************************************************************)
(* What docs of the code say, and the code does not do.                    *)
(***************************************************************************)

\* cert-modes.ts:60: "Serves a TLS certificate signed by an untrusted root CA."
UntrustedRootIsLocal ==
    served # Nobody /\ served.host.local => served.cert.by = "local"

=============================================================================
