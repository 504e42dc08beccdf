------------------------------- MODULE LocalLeaf -------------------------------
(***************************************************************************)
(* The leaf certificates of LocalCA (local-ca.ts) and their OCSP answers:  *)
(* generateCertificate with its cache and its timers, getOcspResponse, and *)
(* the handshakes (tls-handler.ts) that ask for both.  Between them stands *)
(* the cache of contexts, which keeps a certificate in use by itself; its  *)
(* own module is ContextCache, here an entry may go at any time.           *)
(*                                                                         *)
(* A certificate stands for the order in which it was made.                *)
(***************************************************************************)
EXTENDS Naturals, Sequences

CONSTANTS
    Host,       \* hosts clients connect to, all served by LocalCA
    Conn,       \* slots for concurrent handshakes
    NoCert,
    OneDay,     \* of the timers here and of SecureContextCache
    MaxDelay,   \* bound: ticks for which a handshake awaits its certificate or its answer
    MaxTime,    \* bound: last value of the clock
    MaxMade     \* bound: certificates made

\* A host: its name, and the certificate options that matter.
ASSUME HostsHaveOptions == \A h \in Host :
    /\ DOMAIN h = {"name", "selfSigned", "revoked", "override"}
    /\ h.name # "example"
    /\ h.selfSigned \in BOOLEAN /\ h.revoked \in BOOLEAN /\ h.override \in BOOLEAN
ASSUME Bounds == OneDay \in Nat \ {0} /\ {MaxDelay, MaxTime, MaxMade} \subseteq Nat
ASSUME NoCertIsNone == NoCert \notin Nat

VARIABLES
    clock,
    made,                \* the certificates made so far: for which key, and when
    certInMemoryCache,   \* the certificate kept for each key
    selfSignedCerts,     \* certificates whose own key is kept to answer for them
    timers,              \* setTimeout: what is to be forgotten, and when
    contexts,            \* the contexts cached for each host
    conn,                \* the handshakes under way
    staple               \* the answer this step gave, if it gave one

vars == <<clock, made, certInMemoryCache, selfSignedCerts, timers, contexts, conn, staple>>

\* The domain in the certificate: overridePrefix stands for the whole name.
CertDomain(h) == IF h.override THEN "example" ELSE h.name

\* The cache key.
LeafKey(h) == [domain |-> CertDomain(h), selfSigned |-> h.selfSigned, revoked |-> h.revoked]
Key == {LeafKey(h) : h \in Host}

Made == DOMAIN made

Idle == [st |-> "idle"]
Generating == [st: {"generating"}, host: Host, now: Nat]
Stapling == [st: {"stapling"}, host: Host, now: Nat, cert: Made]

NoContext == [cert |-> NoCert, until |-> 0]

Nobody == [host |-> "nobody"]
Staples == [host: Host, cert: Made, status: {"none", "good", "revoked"}]

\* The shape of the state: the key of a self-signed certificate is kept until its timer fires.
TypeOK ==
    /\ clock \in Nat
    /\ made \in Seq([key: Key, at: Nat])
    /\ certInMemoryCache \in [Key -> Made \cup {NoCert}]
    /\ selfSignedCerts = {c \in Made : made[c].key.selfSigned /\ \E t \in timers : t.cert = c}
    /\ timers \subseteq [cert: Made, due: Nat]
    /\ \A t \in timers : t.due = made[t.cert].at + OneDay /\ clock <= t.due
    /\ contexts \in [Host -> {NoContext} \cup [cert: Made, until: Nat]]
    /\ conn \in [Conn -> {Idle} \cup Generating \cup Stapling]
    /\ staple \in {Nobody} \cup Staples

Init ==
    /\ clock = 0
    /\ made = <<>>
    /\ certInMemoryCache = [k \in Key |-> NoCert]
    /\ selfSignedCerts = {}
    /\ timers = {}
    /\ contexts = [h \in Host |-> NoContext]
    /\ conn = [n \in Conn |-> Idle]
    /\ staple = Nobody

-----------------------------------------------------------------------------
\* The handshake goes on with a context, and asks for a staple.
Proceed(n, h, cert) == conn' = [conn EXCEPT ![n] = [st |-> "stapling", host |-> h, now |-> clock,
                                                    cert |-> cert]]

\* A context for h is made of cert and cached; 'now' was taken before the certificate was made.
Context(h, cert, now) == contexts' = [contexts EXCEPT ![h] = [cert |-> cert, until |-> now + OneDay]]

UseContext(n, h) ==
    /\ contexts[h].until > clock
    /\ Proceed(n, h, contexts[h].cert)
    /\ UNCHANGED contexts

\* The leaf is in memory: a new context keeps it in use.
UseLeaf(n, h) ==
    /\ contexts[h].until <= clock
    /\ certInMemoryCache[LeafKey(h)] # NoCert
    /\ Proceed(n, h, certInMemoryCache[LeafKey(h)])
    /\ Context(h, certInMemoryCache[LeafKey(h)], clock)

StartGenerating(n, h) ==
    /\ contexts[h].until <= clock
    /\ certInMemoryCache[LeafKey(h)] = NoCert
    /\ conn' = [conn EXCEPT ![n] = [st |-> "generating", host |-> h, now |-> clock]]
    /\ contexts' = [contexts EXCEPT ![h] = NoContext]

HandleConnection(n, h) ==
    /\ conn[n] = Idle
    /\ UseContext(n, h) \/ UseLeaf(n, h) \/ StartGenerating(n, h)
    /\ staple' = Nobody
    /\ UNCHANGED <<clock, made, certInMemoryCache, selfSignedCerts, timers>>

\* The certificate is made, cached and used, also if another has been cached meanwhile.
GenerateCertificate(n) ==
    /\ conn[n].st = "generating" /\ Len(made) < MaxMade
    /\ LET h == conn[n].host cert == Len(made) + 1 IN
       /\ made' = Append(made, [key |-> LeafKey(h), at |-> clock])
       /\ certInMemoryCache' = [certInMemoryCache EXCEPT ![LeafKey(h)] = cert]
       /\ selfSignedCerts' = selfSignedCerts \cup (IF h.selfSigned THEN {cert} ELSE {})
       /\ timers' = timers \cup {[cert |-> cert, due |-> clock + OneDay]}
       /\ Context(h, cert, conn[n].now)
       /\ Proceed(n, h, cert)
    /\ staple' = Nobody
    /\ UNCHANGED clock

\* Mutant: keys are kept by cache key, not by serial.
MutantForget(cert) ==
    /\ certInMemoryCache' = [certInMemoryCache EXCEPT ![made[cert].key] = NoCert]
    /\ selfSignedCerts' = {c \in selfSignedCerts : made[c].key # made[cert].key}

\* Mutant: the certificate itself stays in the cache.
MutantForgetOwn(cert) ==
    /\ UNCHANGED certInMemoryCache
    /\ selfSignedCerts' = selfSignedCerts \ {cert}

\* Whatever is cached for the key goes, and the key of the certificate itself.
Forget(cert) ==
    /\ certInMemoryCache' = [certInMemoryCache EXCEPT ![made[cert].key] = NoCert]
    /\ selfSignedCerts' = selfSignedCerts \ {cert}

TimerFires(t) ==
    /\ t.due <= clock
    /\ Forget(t.cert)
    /\ timers' = timers \ {t}
    /\ staple' = Nobody
    /\ UNCHANGED <<clock, made, contexts, conn>>

-----------------------------------------------------------------------------
\* A self-signed certificate is answered for with its own key, others with the intermediate's.
HasIssuer(cert) == made[cert].key.selfSigned => cert \in selfSignedCerts

\* The labels of the name in the certificate tell, and so none of an override's.
IsRevokedCert(cert) == made[cert].key.revoked /\ made[cert].key.domain # "example"

GetOcspResponse(cert) ==
    IF ~HasIssuer(cert) THEN "none" ELSE IF IsRevokedCert(cert) THEN "revoked" ELSE "good"

\* OCSPRequest, if the client asks for one and is still there.
Staple(n) ==
    /\ conn[n].st = "stapling"
    /\ staple' = [host |-> conn[n].host, cert |-> conn[n].cert, status |-> GetOcspResponse(conn[n].cert)]
    /\ conn' = [conn EXCEPT ![n] = Idle]
    /\ UNCHANGED <<clock, made, certInMemoryCache, selfSignedCerts, timers, contexts>>

\* The handshake ends without it.
Disconnect(n) ==
    /\ conn[n].st = "stapling"
    /\ conn' = [conn EXCEPT ![n] = Idle]
    /\ staple' = Nobody
    /\ UNCHANGED <<clock, made, certInMemoryCache, selfSignedCerts, timers, contexts>>

\* Contexts of other hosts push this one out.
Evict(h) ==
    /\ contexts[h] # NoContext
    /\ contexts' = [contexts EXCEPT ![h] = NoContext]
    /\ staple' = Nobody
    /\ UNCHANGED <<clock, made, certInMemoryCache, selfSignedCerts, timers, conn>>

\* Time passes; a timer fires when it is due, and no handshake takes longer than MaxDelay.
Tick ==
    /\ clock < MaxTime
    /\ \A t \in timers : clock < t.due
    /\ \A n \in Conn : conn[n] # Idle => clock < conn[n].now + MaxDelay
    /\ clock' = clock + 1
    /\ staple' = Nobody
    /\ UNCHANGED <<made, certInMemoryCache, selfSignedCerts, timers, contexts, conn>>

Next ==
    \/ \E n \in Conn :
          \/ \E h \in Host : HandleConnection(n, h)
          \/ GenerateCertificate(n) \/ Staple(n) \/ Disconnect(n)
    \/ \E t \in timers : TimerFires(t)
    \/ \E h \in Host : Evict(h)
    \/ Tick

Spec == Init /\ [][Next]_vars

-----------------------------------------------------------------------------
\* Whatever handshakes make certificates for one key at once, and whichever timer fires first:
\* the key of a cached self-signed certificate is there, "dropped alongside the cached cert it
\* belongs to" (local-ca.ts:263-265, 645-657).
CachedCanAnswer ==
    \A k \in Key : certInMemoryCache[k] # NoCert => HasIssuer(certInMemoryCache[k])

\* A client that asks for a staple gets it on the day its certificate was made
\* (local-ca.ts:666-689); what the cache of contexts keeps longer may be left without.
StapledFirstDay ==
    staple # Nobody /\ staple.status = "none" => clock >= made[staple.cert].at + OneDay

\* The day of the leaf cache and that of the cache of contexts add up, and no more: two days
\* after a certificate was made, at most a handshake that began before still uses it
\* (local-ca.ts:654-657, secure-context-cache.ts:38-41).
TwoDaysOld ==
    \A n \in Conn : conn[n] # Idle /\ conn[n].st = "stapling" =>
        conn[n].now < made[conn[n].cert].at + 2 * OneDay

(***************************************************************************)
(* What the documentation of an endpoint says, and the code does not do.   *)
(***************************************************************************)

\* cert-modes.ts:28: "Serves a revoked TLS certificate (by stapled OCSP for local root, or CRL
\* for public root)."
StapledRevoked ==
    staple # Nobody /\ staple.host.revoked => staple.status = "revoked"

=============================================================================
